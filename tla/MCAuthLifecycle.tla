-------------------------- MODULE MCAuthLifecycle --------------------------
(***************************************************************************)
(* Instances of AuthLifecycle for TLC.                                     *)
(***************************************************************************)
EXTENDS AuthLifecycle, TLC

\* Handlers are interchangeable, checkers are interchangeable.
Symmetry == Permutations(Handlers) \cup Permutations(Checkers)
==============================================================================
