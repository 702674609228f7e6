---------------------------- MODULE AgentRunner ----------------------------
(***************************************************************************)
(* What JobProcessor relies on when it calls runner.run (src/src/adapters/ *)
(* runner.ts): the run emits events while it is under way, settles once,   *)
(* with a result or an error, and is silent from then on.  And it does     *)
(* settle: no backend may keep a run for ever.                             *)
(***************************************************************************)
EXTENDS Naturals

VARIABLES
  outcome,     \* of the promise run() returned
  events       \* how many calls of onEvent it made

runnerVars == <<outcome, events>>

Pending == outcome = "none"

Emit == Pending /\ events' = events + 1 /\ UNCHANGED outcome

Settle ==
  /\ Pending
  /\ outcome' \in {"returned", "threw"}
  /\ UNCHANGED events

Init == outcome = "none" /\ events = 0

Quiet == Init /\ [][Emit \/ Settle]_runnerVars

Spec == Quiet /\ WF_runnerVars(Settle)
=============================================================================
