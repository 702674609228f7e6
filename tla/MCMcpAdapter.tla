---------------------------- MODULE MCMcpAdapter ----------------------------
(* Small instances of McpAdapter for TLC. *)
EXTENDS McpAdapter, TLC

CONSTANTS m1, m2, m3
=============================================================================
