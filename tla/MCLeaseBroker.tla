---------------------------- MODULE MCLeaseBroker ----------------------------
(***************************************************************************)
(* Instances of LeaseBroker for TLC.                                       *)
(***************************************************************************)
EXTENDS LeaseBroker, TLC

\* Handlers and keys are interchangeable: sound for the safety runs, which
\* name none of them.
Symmetry == Permutations(Handlers) \cup Permutations(Keys)
==============================================================================
