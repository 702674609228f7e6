------------------------------ MODULE MCCodexRun ------------------------------
(* Instances of CodexRun: one run of the Codex backend for TLC. *)
EXTENDS CodexRun
=============================================================================
