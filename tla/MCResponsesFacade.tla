------------------------- MODULE MCResponsesFacade -------------------------
(* Small instances of ResponsesFacade for TLC. *)
EXTENDS ResponsesFacade, TLC

CONSTANTS r1, r2
=============================================================================
