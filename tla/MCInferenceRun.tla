--------------------------- MODULE MCInferenceRun ---------------------------
(* Instances of InferenceRun: one run of one of the backends for TLC. *)
EXTENDS InferenceRun
=============================================================================
