---------------------------- MODULE MCAuditChain ----------------------------
(***************************************************************************)
(* Instances of AuditChain for TLC.                                        *)
(***************************************************************************)
EXTENDS AuditChain, TLC

\* Brokers and audit-verify commands are interchangeable.
Symmetry == Permutations(Brokers) \cup Permutations(Auditors)
==============================================================================
