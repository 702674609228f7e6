---------------------------- MODULE MCDeployment ----------------------------
(* Instance of Deployment for TLC. *)
EXTENDS Deployment

CONSTANTS r1, r2, r3

\* r2 brings the database to a schema that r1 cannot open.
Schemas == [r \in Releases |-> IF r = r1 THEN 1 ELSE 2]
=============================================================================
