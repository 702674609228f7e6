------------------------- MODULE InferenceRunProofs -------------------------
(* Proofs about InferenceRun, for any of the backends and any limit of the *)
(* output.                                                                 *)
EXTENDS InferenceRun, TLAPS

\* Who has what: a command line backend no agent, Cursor no child; a run that was not
\* called yet neither; a signal of Cursor's own fires only to end the run.
Owns ==
  /\ run.backend \in Cli => agent.at = "none" /\ run.controller = "live"
  /\ run.backend = "cursor" => child.state = "none" /\ ~run.promptFile
  /\ run.at = "called" =>
       /\ child.state = "none" /\ agent.at = "none" /\ ~run.promptFile /\ ~run.listening
  /\ run.controller # "live" => run.at = "over"
  /\ run.at \in {"called", "waiting"} => run.outcome = "none"
  /\ run.at = "over" => run.outcome # "none"
  /\ run.at = "crashed" => run.outcome # "returned" /\ child.state # "up" /\ agent.at = "none"

\* A result is what came of a child that ended or of an agent that is gone, which
\* neither of them takes back.
InferenceInd == InferenceTypeOK /\ Owns /\ NothingLeft /\ AgentTold /\ ResultWhole

RunState ==
  [backend: Backends,
   at: {"called", "waiting", "over", "crashed"},
   aborted: BOOLEAN, listening: BOOLEAN,
   controller: {"live", "cancel", "timeout"},
   promptFile: BOOLEAN,
   outcome: {"none", "returned", "threw"}]

ChildState ==
  [state: {"none", "unspawned", "up", "exited", "killed"},
   written: 0 .. MaxOutput + 1, read: 0 .. MaxOutput]

AgentState ==
  [at: {"none", "creating", "sending", "waiting", "disposing", "gone"},
   supportsCancel: BOOLEAN, cancelled: BOOLEAN, result: {"none", "ok", "failed"}]

LEMMA InferenceTypes ==
  InferenceTypeOK <=> run \in RunState /\ child \in ChildState /\ agent \in AgentState
BY DEF InferenceTypeOK, RunState, ChildState, AgentState

LEMMA InferenceTypesPrimed ==
  InferenceTypeOK' <=> run' \in RunState /\ child' \in ChildState /\ agent' \in AgentState
BY DEF InferenceTypeOK, RunState, ChildState, AgentState

LEMMA InferenceInit == Init => InferenceInd
<1> SUFFICES ASSUME Init PROVE InferenceInd OBVIOUS
<1>1. InferenceTypeOK
  <2>1. run \in RunState BY DEF Init, RunState
  <2>2. 0 \in 0 .. MaxOutput /\ 0 \in 0 .. MaxOutput + 1 BY InferenceAssumption
  <2>3. child \in ChildState BY <2>2 DEF Init, ChildState
  <2>4. agent \in AgentState BY DEF Init, AgentState
  <2> QED BY <2>1, <2>3, <2>4, InferenceTypes
<1> QED
  BY <1>1 DEF Init, InferenceInd, Owns, NothingLeft, AgentTold, ResultWhole, Cli

\* finish() of whoever comes first.
LEMMA SettlesSound ==
  ASSUME run \in RunState, NEW outcome \in {"returned", "threw"}, Settles(outcome)
  PROVE  /\ run' \in RunState /\ run'.at = "over" /\ run'.outcome = outcome
         /\ ~run'.promptFile /\ run'.backend = run.backend /\ run'.controller = run.controller
BY DEF Settles, RunState

LEMMA OutcomeSound ==
  ASSUME NEW r, NEW outcome \in Outcome(r)
  PROVE  outcome \in {"returned", "threw"} /\ (outcome = "returned" => r = "ok")
BY DEF Outcome

LEMMA KilledSound ==
  ASSUME child \in ChildState
  PROVE  /\ Killed \in ChildState /\ Killed.state # "up"
         /\ child.state = "none" => Killed.state = "none"
BY DEF Killed, ChildState

LEMMA CancelledSound ==
  ASSUME agent \in AgentState
  PROVE  /\ Cancelled \in AgentState /\ Cancelled.at = agent.at
         /\ Cancelled.supportsCancel = agent.supportsCancel
         /\ Cancelled.result = agent.result
         /\ agent.at = "waiting" /\ agent.supportsCancel => Cancelled.cancelled
         /\ agent.at # "waiting" => Cancelled.cancelled = agent.cancelled
BY DEF Cancelled, AgentState

\* A run that ends in an error has killed its child and told its agent.
LEMMA ThrewSound ==
  ASSUME InferenceInd, run' \in RunState, child' \in ChildState, agent' \in AgentState,
         run'.at = "over", run'.outcome = "threw", ~run'.promptFile,
         run'.backend = run.backend,
         child'.state # "up", child.state = "none" => child'.state = "none" \/ run.backend \in Cli,
         agent'.at = "none" \/ run.backend = "cursor",
         run.backend \in Cli => run'.controller = "live",
         run'.controller # "live" /\ agent'.at = "waiting" /\ agent'.supportsCancel => agent'.cancelled
  PROVE  InferenceInd'
<1>1. InferenceTypeOK' BY InferenceTypesPrimed
<1>2. Owns' BY DEF InferenceInd, Owns, Cli
<1> QED BY <1>1, <1>2 DEF InferenceInd, NothingLeft, AgentTold, ResultWhole

LEMMA CliSound ==
  ASSUME InferenceInd, Spawns \/ SpawnErrors \/ Data \/ Closes
  PROVE  InferenceInd'
<1>1. run \in RunState /\ child \in ChildState /\ agent \in AgentState
  BY InferenceTypes DEF InferenceInd
<1>2. run.backend \in Cli /\ agent.at = "none" /\ run.controller = "live"
      /\ run.at \in {"called", "waiting"} /\ UNCHANGED agent /\ run.backend # "cursor"
  BY DEF Spawns, SpawnErrors, Data, Closes, Waiting, InferenceInd, Owns, Cli
<1>3. ASSUME NEW state \in {"up", "unspawned"}, run.at = "called",
             child' = [child EXCEPT !.state = state],
             run' = [run EXCEPT !.at = "waiting", !.listening = TRUE,
                                !.promptFile = run.backend = "grok"]
      PROVE  InferenceInd'
  <2>1. /\ run' \in RunState /\ run'.at = "waiting" /\ run'.backend = run.backend
        /\ run'.controller = "live" /\ run'.outcome = "none"
    BY <1>1, <1>2, <1>3 DEF RunState, InferenceInd, Owns
  <2>2. child' \in ChildState BY <1>1, <1>3 DEF ChildState
  <2>3. InferenceTypeOK' BY <1>1, <1>2, <2>1, <2>2, InferenceTypesPrimed
  <2> QED
    BY <1>2, <2>1, <2>3 DEF InferenceInd, Owns, NothingLeft, AgentTold, ResultWhole
<1>4. ASSUME Settles("threw"), child' \in ChildState, child'.state # "up" PROVE InferenceInd'
  <2>1. /\ run' \in RunState /\ run'.at = "over" /\ run'.outcome = "threw"
        /\ ~run'.promptFile /\ run'.backend = run.backend /\ run'.controller = "live"
    BY <1>1, <1>2, <1>4, SettlesSound
  <2> QED BY <1>1, <1>2, <1>4, <2>1, ThrewSound
<1>5. ASSUME Spawns PROVE InferenceInd'
  <2>1. CASE child' = [child EXCEPT !.state = "unspawned"] /\ Settles("threw")
    <3>1. child' \in ChildState /\ child'.state # "up" BY <1>1, <2>1 DEF ChildState
    <3> QED BY <1>4, <2>1, <3>1
  <2>2. CASE child' = [child EXCEPT !.state = "unspawned"] /\ NoPipes
    <3>1. child' \in ChildState /\ child'.state # "up" BY <1>1, <2>2 DEF ChildState
    <3>2. /\ run' \in RunState /\ run'.at = "crashed" /\ run'.outcome \in {"none", "threw"}
          /\ run'.backend = run.backend /\ run'.controller = "live"
      BY <1>1, <1>2, <2>2 DEF NoPipes, RunState
    <3>3. InferenceTypeOK' BY <1>1, <1>2, <3>1, <3>2, InferenceTypesPrimed
    <3> QED
      BY <1>2, <3>1, <3>2, <3>3
         DEF InferenceInd, Owns, NothingLeft, AgentTold, ResultWhole
  <2> QED BY <1>3, <1>5, <2>1, <2>2 DEF Spawns
<1>6. ASSUME SpawnErrors PROVE InferenceInd'
  BY <1>1, <1>4, <1>6 DEF SpawnErrors
<1>7. ASSUME Data PROVE InferenceInd'
  <2>1. CASE child' = Killed /\ Settles("threw")
    BY <1>1, <1>4, <2>1, KilledSound
  <2>2. CASE child.read < MaxOutput /\ child' = [child EXCEPT !.read = @ + 1] /\ UNCHANGED run
    <3>1. child.read + 1 \in 0 .. MaxOutput BY <1>1, <2>2, InferenceAssumption DEF ChildState
    <3>2. child' \in ChildState /\ child'.state = child.state
      BY <1>1, <2>2, <3>1 DEF ChildState
    <3>3. InferenceTypeOK' BY <1>1, <1>2, <2>2, <3>2, InferenceTypesPrimed
    <3> QED
      BY <1>2, <1>7, <2>2, <3>2, <3>3
         DEF InferenceInd, Owns, NothingLeft, AgentTold, ResultWhole, Data, Waiting
  <2> QED BY <1>7, <2>1, <2>2 DEF Data
<1>8. ASSUME Closes PROVE InferenceInd'
  <2>1. PICK outcome \in Outcome(IF child.read = 0 THEN "failed" ELSE "ok") : Settles(outcome)
    BY <1>8 DEF Closes
  <2>2. outcome \in {"returned", "threw"} /\ (outcome = "returned" => child.read # 0)
    BY OutcomeSound
  <2>3. /\ run' \in RunState /\ run'.at = "over" /\ run'.outcome = outcome
        /\ ~run'.promptFile /\ run'.backend = run.backend /\ run'.controller = "live"
    BY <1>1, <1>2, <2>1, <2>2, SettlesSound
  <2>4. InferenceTypeOK' BY <1>1, <1>8, <2>3, InferenceTypesPrimed DEF Closes
  <2>5. child.read # 0 => child.read > 0 BY <1>1 DEF ChildState
  <2> QED
    BY <1>2, <1>8, <2>2, <2>3, <2>4, <2>5
       DEF Closes, InferenceInd, Owns, NothingLeft, AgentTold, ResultWhole
<1> QED BY <1>5, <1>6, <1>7, <1>8

\* The prompt client ends with the agent gone.
LEMMA ClientEndsSound ==
  ASSUME InferenceInd, run.backend = "cursor", run.at # "called",
         agent' = [agent EXCEPT !.at = "gone"], UNCHANGED child,
         NEW result \in {"none", "ok", "failed"}, result \in {agent.result, "failed"},
         ClientEnds(result)
  PROVE  InferenceInd'
<1>1. run \in RunState /\ child \in ChildState /\ agent \in AgentState
  BY InferenceTypes DEF InferenceInd
<1>2. agent' \in AgentState /\ agent'.at = "gone" /\ agent'.result = agent.result
  BY <1>1 DEF AgentState
<1>3. CASE run.at = "over" /\ UNCHANGED run
  <2>1. InferenceTypeOK' BY <1>1, <1>2, <1>3, InferenceTypesPrimed
  <2> QED
    BY <1>2, <1>3, <2>1 DEF InferenceInd, Owns, NothingLeft, AgentTold, ResultWhole, Cli
<1>4. CASE run.at # "over"
  <2>1. PICK outcome \in Outcome(result) : Settles(outcome)
    BY <1>4 DEF ClientEnds
  <2>2. outcome \in {"returned", "threw"} /\ (outcome = "returned" => result = "ok")
    BY OutcomeSound
  <2>3. /\ run' \in RunState /\ run'.at = "over" /\ run'.outcome = outcome
        /\ ~run'.promptFile /\ run'.backend = run.backend /\ run'.controller = "live"
    BY <1>1, <1>4, <2>1, <2>2, SettlesSound DEF InferenceInd, Owns
  <2>4. InferenceTypeOK' BY <1>1, <1>2, <2>3, InferenceTypesPrimed
  <2> QED
    BY <1>2, <2>2, <2>3, <2>4
       DEF InferenceInd, Owns, NothingLeft, AgentTold, ResultWhole, Cli
<1> QED BY <1>3, <1>4 DEF ClientEnds

LEMMA CursorSound ==
  ASSUME InferenceInd,
         CursorCalled \/ AgentCreated \/ Sent \/ SendFails \/ Waited \/ Disposed
  PROVE  InferenceInd'
<1>1. run \in RunState /\ child \in ChildState /\ agent \in AgentState
  BY InferenceTypes DEF InferenceInd
<1>2. run.backend = "cursor" /\ run.backend \notin Cli
  BY <1>1, InferenceAssumption
     DEF CursorCalled, AgentCreated, Sent, SendFails, Waited, Disposed, InferenceInd, Owns,
         RunState, Cli
<1>3. child.state = "none" /\ ~run.promptFile /\ UNCHANGED child
  BY <1>2 DEF CursorCalled, AgentCreated, Sent, SendFails, Waited, Disposed, InferenceInd, Owns
<1>4. ASSUME CursorCalled PROVE InferenceInd'
  <2>1. agent' \in AgentState /\ agent'.at = "creating" BY <1>1, <1>4 DEF CursorCalled, AgentState
  <2>2. /\ run' \in RunState /\ run'.backend = "cursor" /\ ~run'.promptFile
        /\ \/ run'.at = "over" /\ run'.outcome = "threw"
           \/ run'.at = "waiting" /\ run'.outcome = "none" /\ run'.controller = "live"
    BY <1>1, <1>2, <1>3, <1>4 DEF CursorCalled, RunState, InferenceInd, Owns
  <2>3. InferenceTypeOK' BY <1>1, <1>3, <2>1, <2>2, InferenceTypesPrimed
  <2> QED
    BY <1>3, <2>1, <2>2, <2>3
       DEF InferenceInd, Owns, NothingLeft, AgentTold, ResultWhole, Cli
<1>5. ASSUME agent' \in AgentState, agent'.at # "none", UNCHANGED run, agent.at # "none",
             agent.at # "gone",
             agent'.at = "waiting" => run.controller = "live"
      PROVE  InferenceInd'
  <2>1. InferenceTypeOK' BY <1>1, <1>3, <1>5, InferenceTypesPrimed
  <2> QED
    BY <1>2, <1>3, <1>5, <2>1 DEF InferenceInd, Owns, NothingLeft, AgentTold, ResultWhole
<1>6. ASSUME AgentCreated PROVE InferenceInd'
  <2>1. CASE agent' = [agent EXCEPT !.at = "sending"] /\ UNCHANGED run
    <3>1. agent' \in AgentState /\ agent'.at = "sending" BY <1>1, <2>1 DEF AgentState
    <3> QED BY <1>5, <1>6, <2>1, <3>1 DEF AgentCreated
  <2>2. CASE agent' = [agent EXCEPT !.at = "gone"] /\ ClientEnds("failed")
    <3>1. run.at # "called" BY <1>6 DEF AgentCreated, InferenceInd, Owns
    <3> QED BY <1>2, <1>3, <2>2, <3>1, ClientEndsSound
  <2> QED BY <1>6, <2>1, <2>2 DEF AgentCreated
<1>7. ASSUME Sent PROVE InferenceInd'
  <2>1. /\ agent' \in AgentState /\ agent'.at \in {"waiting", "disposing"}
        /\ agent'.at = "waiting" => run.controller = "live"
    BY <1>1, <1>7 DEF Sent, AgentState
  <2> QED BY <1>5, <1>7, <2>1 DEF Sent
<1>8. ASSUME SendFails \/ Waited PROVE InferenceInd'
  <2>1. agent' \in AgentState /\ agent'.at = "disposing"
    BY <1>1, <1>8 DEF SendFails, Waited, AgentState
  <2> QED BY <1>5, <1>8, <2>1 DEF SendFails, Waited
<1>9. ASSUME Disposed PROVE InferenceInd'
  <2>1. PICK result \in {agent.result, "failed"} : ClientEnds(result)
    BY <1>9 DEF Disposed
  <2>2. result \in {"none", "ok", "failed"} BY <1>1, <2>1 DEF AgentState
  <2>3. run.at # "called" BY <1>9 DEF Disposed, InferenceInd, Owns
  <2> QED BY <1>2, <1>3, <1>9, <2>1, <2>2, <2>3, ClientEndsSound DEF Disposed
<1> QED BY <1>4, <1>6, <1>7, <1>8, <1>9

\* A timeout and an abort reach whoever works for the run.
LEMMA AbortSound ==
  ASSUME InferenceInd, TimesOut \/ Abort
  PROVE  InferenceInd'
<1>1. run \in RunState /\ child \in ChildState /\ agent \in AgentState
  BY InferenceTypes DEF InferenceInd
<1>2. run.backend \in Cli <=> run.backend # "cursor"
  BY <1>1, InferenceAssumption DEF RunState, Cli
<1>3. CASE Waiting(Cli) /\ Kills
  <2>1. /\ run' \in RunState /\ run'.at = "over" /\ run'.outcome = "threw"
        /\ ~run'.promptFile /\ run'.backend = run.backend /\ run'.controller = run.controller
    BY <1>1, <1>3, SettlesSound DEF Kills
  <2>2. child' \in ChildState /\ child'.state # "up" /\ UNCHANGED agent
    BY <1>1, <1>3, KilledSound DEF Kills
  <2>3. run.backend \in Cli /\ agent.at = "none" /\ run.controller = "live"
    BY <1>3 DEF Waiting, InferenceInd, Owns
  <2> QED BY <1>1, <2>1, <2>2, <2>3, ThrewSound
<1>4. CASE Waiting({"cursor"}) /\ Aborts("timeout")
  <2>1. run.backend = "cursor" /\ child.state = "none" /\ ~run.promptFile
    BY <1>4 DEF Waiting, InferenceInd, Owns
  <2>2. /\ run' \in RunState /\ run'.at = "over" /\ run'.outcome = "threw"
        /\ ~run'.promptFile /\ run'.backend = run.backend
    BY <1>1, <1>4, <2>1 DEF Aborts, RunState
  <2>3. UNCHANGED child /\ agent' = Cancelled BY <1>4 DEF Aborts
  <2> QED BY <1>1, <1>2, <2>1, <2>2, <2>3, CancelledSound, ThrewSound
<1>5. CASE ~run.listening /\ run' = [run EXCEPT !.aborted = TRUE] /\ UNCHANGED <<child, agent>>
  <2>1. /\ run' \in RunState /\ run'.at = run.at /\ run'.outcome = run.outcome
        /\ run'.promptFile = run.promptFile /\ run'.backend = run.backend
        /\ run'.controller = run.controller /\ run'.listening = run.listening
    BY <1>1, <1>5 DEF RunState
  <2>2. InferenceTypeOK' BY <1>1, <1>5, <2>1, InferenceTypesPrimed
  <2> QED
    BY <1>5, <2>1, <2>2 DEF InferenceInd, Owns, NothingLeft, AgentTold, ResultWhole
<1>6. CASE /\ run.listening
           /\ run' = [run EXCEPT !.aborted = TRUE, !.at = "over", !.listening = FALSE,
                       !.controller = IF run.backend = "cursor" THEN "cancel" ELSE @,
                       !.promptFile = FALSE, !.outcome = "threw"]
           /\ child' = Killed
           /\ agent' = Cancelled
  <2>1. /\ run' \in RunState /\ run'.at = "over" /\ run'.outcome = "threw"
        /\ ~run'.promptFile /\ run'.backend = run.backend
        /\ run.backend # "cursor" => run'.controller = run.controller
    BY <1>1, <1>6 DEF RunState
  <2>2. child' \in ChildState /\ child'.state # "up" /\ (child.state = "none" => child'.state = "none")
    BY <1>1, <1>6, KilledSound
  <2>3. /\ agent' \in AgentState /\ agent'.at = agent.at
        /\ agent'.at = "waiting" /\ agent'.supportsCancel => agent'.cancelled
    BY <1>1, <1>6, CancelledSound
  <2>4. run.backend \in Cli => agent.at = "none" /\ run.controller = "live"
    BY DEF InferenceInd, Owns
  <2> QED BY <1>2, <2>1, <2>2, <2>3, <2>4, ThrewSound
<1> QED BY <1>3, <1>4, <1>5, <1>6 DEF TimesOut, Abort

LEMMA ChildSound ==
  ASSUME InferenceInd, Writes \/ Ends
  PROVE  InferenceInd'
<1>1. run \in RunState /\ child \in ChildState /\ agent \in AgentState
  BY InferenceTypes DEF InferenceInd
<1>2. UNCHANGED <<run, agent>> /\ child.state = "up" BY DEF Writes, Ends
<1>3. child' \in ChildState /\ child'.state \in {"up", "exited"}
  <2>1. CASE Writes
    <3>1. child.written + 1 \in 0 .. MaxOutput + 1
      BY <1>1, <2>1, InferenceAssumption DEF Writes, ChildState
    <3> QED BY <1>1, <2>1, <3>1 DEF Writes, ChildState
  <2>2. CASE Ends BY <1>1, <2>2 DEF Ends, ChildState
  <2> QED BY <2>1, <2>2
<1>4. InferenceTypeOK' BY <1>1, <1>2, <1>3, InferenceTypesPrimed
<1> QED
  BY <1>2, <1>3, <1>4 DEF InferenceInd, Owns, NothingLeft, AgentTold, ResultWhole

LEMMA InferenceStep == InferenceInd /\ [Next]_vars => InferenceInd'
<1> SUFFICES ASSUME InferenceInd, [Next]_vars PROVE InferenceInd' OBVIOUS
<1>1. CASE UNCHANGED vars
  BY <1>1 DEF vars, InferenceInd, InferenceTypeOK, Owns, NothingLeft, AgentTold, ResultWhole
<1> QED
  BY <1>1, CliSound, CursorSound, AbortSound, ChildSound DEF Next, Starts

LEMMA InferenceAlways == Spec => []InferenceInd
BY InferenceInit, InferenceStep, PTL DEF Spec

\* However the end of the child, a failure, the timeout, an abort and too much output
\* race, a run that is over leaves no child, no prompt on disk and no agent that was
\* not told to stop; and what it returned is a whole output or the result of an agent.
THEOREM InferenceCorrect == Spec => []InferenceInv
<1>1. InferenceInd => InferenceInv
  BY DEF InferenceInd, InferenceInv
<1> QED BY <1>1, InferenceAlways, PTL

\* JobProcessor may take the run for the runner it expects: it settles once, and then
\* nobody who comes later is heard.
THEOREM InferenceImplementsRunner == Spec => Runner!Quiet
<1>1. Init => Runner!Init BY DEF Init, Runner!Init
<1>2. InferenceInd /\ InferenceInd' /\ [Next]_vars =>
        [Runner!Emit \/ Runner!Settle]_(Runner!runnerVars)
  <2> SUFFICES ASSUME InferenceInd, InferenceInd', [Next]_vars
               PROVE  Runner!Emit \/ Runner!Settle \/ UNCHANGED Runner!runnerVars
    OBVIOUS
  <2>1. run' \in RunState BY InferenceTypesPrimed DEF InferenceInd
  <2>2. run.at \in {"over", "crashed"} => run'.outcome = run.outcome
    BY InferenceTypes
       DEF InferenceInd, Owns, Next, Starts, Spawns, SpawnErrors, Data, Closes, CursorCalled, AgentCreated, Sent,
           SendFails, Waited, Disposed, ClientEnds, TimesOut, Aborts, Abort, Writes, Ends, Waiting, vars
  <2>3. run.at \notin {"over", "crashed"} => run.outcome = "none"
    BY InferenceTypes DEF InferenceInd, Owns, RunState
  <2> QED
    BY <2>1, <2>2, <2>3
       DEF RunState, Runner!Emit, Runner!Settle, Runner!Pending, Runner!runnerVars
<1> QED BY <1>1, <1>2, InferenceAlways, PTL DEF Spec, Runner!Quiet
=============================================================================
