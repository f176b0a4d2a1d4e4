---------------------------- MODULE MCSecretAccess ----------------------------
(***************************************************************************)
(* Instances of SecretAccess for TLC.                                      *)
(***************************************************************************)
EXTENDS SecretAccess, TLC

\* Handlers, readers and env files are interchangeable.
Symmetry == Permutations(Handlers) \cup Permutations(Readers)
              \cup Permutations(Files)
==============================================================================
