---------------------------- MODULE InferenceRun ----------------------------
(***************************************************************************)
(* One call of run() on the Claude, Grok or Cursor runner (src/src/        *)
(* adapters/{claude,grok,cursor}/runner.ts).  The first two start a child  *)
(* process and wait for whatever comes first of its end, a failure to      *)
(* start, a timeout, an abort and too much output; Cursor does the same    *)
(* with an agent of @cursor/sdk.                                           *)
(***************************************************************************)
EXTENDS Naturals

CONSTANTS
  Backends,      \* which of them to look at
  MaxOutput      \* maxStdoutBytes, in chunks

Cli == {"claude", "grok"}

ASSUME InferenceAssumption ==
  /\ Backends \subseteq Cli \cup {"cursor"}
  /\ MaxOutput \in Nat

VARIABLES
  run,       \* the promise run() returned and what it listens to
  child,     \* the process of Claude or Grok
  agent      \* the agent of Cursor, and the call of its prompt client

vars == <<run, child, agent>>

InferenceTypeOK ==
  /\ run \in
       [backend: Backends,
        at: {"called", "waiting", "over", "crashed"},   \* with the gateway
        aborted: BOOLEAN,                        \* input.signal
        listening: BOOLEAN,                      \* to input.signal
        controller: {"live", "cancel", "timeout"},   \* Cursor's own signal
        promptFile: BOOLEAN,                     \* Grok's prompt is on disk
        outcome: {"none", "returned", "threw"}]
  /\ child \in
       [state: {"none", "unspawned", "up", "exited", "killed"},
        written: 0..MaxOutput + 1,
        read: 0..MaxOutput]                      \* what run() holds of it
  /\ agent \in
       [at: {"none", "creating", "sending", "waiting", "disposing", "gone"},
        supportsCancel: BOOLEAN, cancelled: BOOLEAN,
        result: {"none", "ok", "failed"}]

Outcome(r) == IF r = "ok" THEN {"returned", "threw"} ELSE {"threw"}

\* finish(), with the finally of run(); whoever comes later is not heard.
Settles(outcome) ==
  run' = [run EXCEPT !.at = "over", !.listening = FALSE, !.promptFile = FALSE,
                     !.outcome = outcome]

Killed == [child EXCEPT !.state = IF @ = "up" THEN "killed" ELSE @]

-----------------------------------------------------------------------------
(* Claude and Grok *)

Waiting(backends) == run.at = "waiting" /\ run.backend \in backends

\* The gateway is out of descriptors: the child has no pipes, and run() rejects
\* before it listens to "error".  The event Node emits next ends the gateway, the
\* rejection and the prompt's removal having been seen to or not.
NoPipes ==
  \E outcome \in {"none", "threw"} :
    run' = [run EXCEPT !.at = "crashed", !.outcome = outcome,
                       !.promptFile = run.backend = "grok" /\ outcome = "none"]

\* The child is spawned, or will report an error; or spawn throws; or there are no
\* pipes.  A listener is added to a signal that may be aborted already.
Spawns ==
  /\ run.at = "called" /\ run.backend \in Cli
  /\ \/ \E state \in {"up", "unspawned"} :
          /\ child' = [child EXCEPT !.state = state]
          /\ run' = [run EXCEPT !.at = "waiting", !.listening = TRUE,
                                !.promptFile = run.backend = "grok"]
     \/ child' = [child EXCEPT !.state = "unspawned"] /\ (Settles("threw") \/ NoPipes)
  /\ UNCHANGED agent

SpawnErrors ==
  /\ Waiting(Cli)
  /\ child.state = "unspawned"
  /\ Settles("threw")
  /\ UNCHANGED <<child, agent>>

Data ==
  /\ Waiting(Cli)
  /\ child.read < child.written
  /\ \/ /\ child.read < MaxOutput
        /\ child' = [child EXCEPT !.read = @ + 1]
        /\ UNCHANGED run
     \/ child.read = MaxOutput /\ child' = Killed /\ Settles("threw")
  /\ UNCHANGED agent

\* "close": the process has ended and its output was read.  Without output
\* there is nothing to return; whether what there is parses is the child's
\* affair.
Closes ==
  /\ Waiting(Cli)
  /\ child.state = "exited" /\ child.read = child.written
  /\ \E outcome \in Outcome(IF child.read = 0 THEN "failed" ELSE "ok") : Settles(outcome)
  /\ UNCHANGED <<child, agent>>

Kills == Settles("threw") /\ child' = Killed /\ UNCHANGED agent

-----------------------------------------------------------------------------
(* Cursor *)

Cancelled == [agent EXCEPT !.cancelled = @ \/ (agent.at = "waiting" /\ agent.supportsCancel)]

\* controller.abort: the race is lost by whenAborted, and the prompt client,
\* if it has sent the prompt, cancels.
Aborts(reason) ==
  /\ run' = [run EXCEPT !.at = "over", !.listening = FALSE, !.controller = reason,
                        !.outcome = "threw"]
  /\ agent' = Cancelled
  /\ UNCHANGED child

\* A signal that is aborted already counts, but the prompt client is called.
CursorCalled ==
  /\ run.at = "called" /\ run.backend = "cursor"
  /\ agent' = [agent EXCEPT !.at = "creating"]
  /\ run' = IF run.aborted
              THEN [run EXCEPT !.at = "over", !.controller = "cancel", !.outcome = "threw"]
              ELSE [run EXCEPT !.at = "waiting", !.listening = TRUE]
  /\ UNCHANGED child

\* The prompt client ends: run() follows it unless it is over.
ClientEnds(result) ==
  IF run.at = "over" THEN UNCHANGED run ELSE \E outcome \in Outcome(result) : Settles(outcome)

AgentCreated ==
  /\ agent.at = "creating"
  /\ \/ agent' = [agent EXCEPT !.at = "sending"] /\ UNCHANGED run
     \/ agent' = [agent EXCEPT !.at = "gone"] /\ ClientEnds("failed")
  /\ UNCHANGED child

\* Faulty: an abort that came while the prompt was sent is not looked for.
SentUnchecked ==
  /\ agent.at = "sending"
  /\ agent' = [agent EXCEPT !.at = "waiting"]
  /\ UNCHANGED <<run, child>>

\* agent.send comes back: the signal is looked at before it is listened to.
Sent ==
  /\ agent.at = "sending"
  /\ agent' =
       IF run.controller = "live" THEN [agent EXCEPT !.at = "waiting"]
       ELSE [agent EXCEPT !.at = "disposing", !.cancelled = agent.supportsCancel]
  /\ UNCHANGED <<run, child>>

SendFails ==
  /\ agent.at = "sending"
  /\ agent' = [agent EXCEPT !.at = "disposing"]
  /\ UNCHANGED <<run, child>>

Waited ==
  /\ agent.at = "waiting"
  /\ \E result \in {"ok", "failed"} :
       agent' = [agent EXCEPT !.at = "disposing", !.result = result]
  /\ UNCHANGED <<run, child>>

\* The agent is disposed of, which may throw, and the prompt client is done.
Disposed ==
  /\ agent.at = "disposing"
  /\ agent' = [agent EXCEPT !.at = "gone"]
  /\ \E result \in {agent.result, "failed"} : ClientEnds(result)
  /\ UNCHANGED child

-----------------------------------------------------------------------------
\* Faulty: no timer is set.
NeverTimesOut == FALSE /\ UNCHANGED vars

TimesOut ==
  \/ Waiting(Cli) /\ Kills
  \/ Waiting({"cursor"}) /\ Aborts("timeout")

\* Cancellation or shutdown.
Abort ==
  /\ run.at \notin {"over", "crashed"} /\ ~run.aborted
  /\ \/ ~run.listening /\ run' = [run EXCEPT !.aborted = TRUE] /\ UNCHANGED <<child, agent>>
     \/ /\ run.listening
        /\ run' = [run EXCEPT !.aborted = TRUE, !.at = "over", !.listening = FALSE,
                    !.controller = IF run.backend = "cursor" THEN "cancel" ELSE @,
                    !.promptFile = FALSE, !.outcome = "threw"]
        /\ child' = Killed
        /\ agent' = Cancelled

\* The child.
Writes ==
  /\ child.state = "up" /\ child.written <= MaxOutput
  /\ child' = [child EXCEPT !.written = @ + 1]
  /\ UNCHANGED <<run, agent>>

Ends ==
  /\ child.state = "up"
  /\ child' = [child EXCEPT !.state = "exited"]
  /\ UNCHANGED <<run, agent>>

\* The job may have been cancelled while JobProcessor prepared the run.
Init ==
  /\ run \in [backend: Backends, at: {"called"}, aborted: BOOLEAN, listening: {FALSE},
              controller: {"live"}, promptFile: {FALSE}, outcome: {"none"}]
  /\ child = [state |-> "none", written |-> 0, read |-> 0]
  /\ agent \in [at: {"none"}, supportsCancel: BOOLEAN, cancelled: {FALSE}, result: {"none"}]

Starts == Spawns \/ CursorCalled

Next ==
  \/ Starts \/ SpawnErrors \/ Data \/ Closes
  \/ AgentCreated \/ Sent \/ SendFails \/ Waited \/ Disposed
  \/ TimesOut \/ Abort
  \/ Writes \/ Ends

Spec == Init /\ [][Next]_vars

\* run() is called and its timer expires.  Nothing is assumed of the child, nor
\* of the SDK.
FairSpec == Spec /\ WF_vars(Starts) /\ WF_vars(TimesOut)

-----------------------------------------------------------------------------
(* Properties *)

\* A run that is over leaves no process and no prompt behind.
NothingLeft == run.at = "over" => child.state # "up" /\ ~run.promptFile

\* What run() returns is made of the whole output of a child that ended by itself,
\* or the result of an agent that nobody aborted and that is disposed of.  (Of that
\* text appendBounded then keeps the first maxResultBytes.)
ResultWhole ==
  run.outcome = "returned" =>
    \/ /\ run.backend \in Cli
       /\ child.state = "exited" /\ child.read = child.written
       /\ child.read > 0
    \/ /\ run.backend = "cursor"
       /\ run.controller = "live" /\ agent.at = "gone" /\ agent.result = "ok"

\* Whenever the abort or the timeout came, before the agent was there, while the
\* prompt was sent or later, no agent goes on that could be told to stop.
AgentTold ==
  run.controller # "live" /\ agent.at = "waiting" /\ agent.supportsCancel => agent.cancelled

\* The variables are typed, neither child, prompt nor agent outlives its run, and
\* what comes of it is whole.
InferenceInv == InferenceTypeOK /\ NothingLeft /\ AgentTold /\ ResultWhole

\* What docs/QUALITY.md says of a shutdown: an active job receives the
\* cancellation, so that no run waits for a living child after it.
CancellationReceived == run.aborted /\ run.at = "waiting" => child.state # "up"

\* To JobProcessor this is a runner as it expects, and it settles, unless Node has no
\* pipes for the child: then the gateway ends.
Runner == INSTANCE AgentRunner WITH outcome <- run.outcome, events <- 0

ImplementsRunner == Runner!Quiet /\ <>(run.at \in {"over", "crashed"})
=============================================================================
