---------------------------- MODULE MCMcpAdapter ----------------------------
(* Instance of McpAdapter for TLC. *)
EXTENDS McpAdapter
==============================================================================
