-------------------------- MODULE CodexRunProofs --------------------------
(***************************************************************************)
(* Proofs about CodexRun, for a buffer of any size and any number of       *)
(* notifications.                                                          *)
(***************************************************************************)
EXTENDS CodexRun, SequenceTheorems, TLAPS

-----------------------------------------------------------------------------
(* The workspace *)

WorkspaceState ==
  [executor: {"host", "lima"},
   at: {"none", "preparing", "failed", "ready", "removing", "gone", "crashed"},
   step: 1 .. 6,
   children: SUBSET {"exec", "tar", "lima"},
   bad: BOOLEAN, dir: BOOLEAN, late: BOOLEAN, removed: BOOLEAN]

\* No child outlives its command, and nothing is removed before the end.
WorkspaceSound ==
  /\ workspace.at \in {"none", "failed", "ready", "gone"} => workspace.children = {}
  /\ workspace.at # "gone" => ~workspace.removed
  /\ NothingLeft

WorkspaceInd == WorkspaceTypeOK /\ WorkspaceSound

LEMMA SixCommands == Len(Commands) = 6
BY DEF Commands

LEMMA WorkspaceType == WorkspaceTypeOK <=> workspace \in WorkspaceState
BY SixCommands DEF WorkspaceTypeOK, WorkspaceState

LEMMA WorkspaceTypePrimed == WorkspaceTypeOK' <=> workspace' \in WorkspaceState
BY SixCommands DEF WorkspaceTypeOK, WorkspaceState

\* A workspace that is prepared, or no longer.
UnderWay(w) ==
  /\ w \in WorkspaceState
  /\ w.at \in {"preparing", "failed", "ready"}
  /\ w.at # "preparing" => w.children = {}
  /\ ~w.removed

LEMMA RunsUnderWay ==
  ASSUME NEW w \in WorkspaceState, NEW n \in 1 .. 6, NEW a \in BOOLEAN, ~w.removed
  PROVE  UnderWay(Runs(w, n, a))
BY DEF Runs, UnderWay, WorkspaceState

LEMMA ProceedsUnderWay ==
  ASSUME NEW w \in WorkspaceState, NEW a \in BOOLEAN, ~w.removed
  PROVE  UnderWay(Proceeds(w, a))
<1>1. CASE w.step = 6
  BY <1>1, SixCommands DEF Proceeds, UnderWay, WorkspaceState
<1>2. CASE w.step # 6
  <2>1. w.step + 1 \in 1 .. 6 BY <1>2 DEF WorkspaceState
  <2> QED BY <1>2, <2>1, RunsUnderWay, SixCommands DEF Proceeds
<1> QED BY <1>1, <1>2

LEMMA FailsUnderWay ==
  ASSUME NEW w \in WorkspaceState, ~w.removed
  PROVE  UnderWay(CommandFails(w)) /\ UnderWay(Kills(w))
BY DEF CommandFails, Kills, UnderWay, WorkspaceState

\* Preparation keeps the workspace under way or takes the gateway down.
LEMMA PreparesUnderWay ==
  ASSUME WorkspaceInd, NEW a \in BOOLEAN, Prepares(a)
  PROVE  WorkspaceInd' /\ workspace.at \in {"none", "preparing"}
<1> USE WorkspaceType DEF WorkspaceInd, WorkspaceSound
<1>1. workspace \in WorkspaceState /\ workspace.at \in {"none", "preparing"} /\ ~workspace.removed
  BY DEF Prepares, PreparationBegins, ExecEnds, SideCloses, PipeTimesOut, PipeBreaks
<1>2. UnderWay(workspace') => WorkspaceInd'
  BY WorkspaceTypePrimed DEF UnderWay, NothingLeft
<1>3. ASSUME PreparationBegins(a) PROVE UnderWay(workspace')
  <2>1. (IF workspace.executor = "lima" THEN 1 ELSE Len(Commands)) \in 1 .. 6 BY SixCommands
  <2> QED BY <1>1, <1>3, <2>1, RunsUnderWay DEF PreparationBegins
<1>4. ASSUME ExecEnds(a) PROVE UnderWay(workspace')
  <2>1. CASE workspace' = Proceeds([workspace EXCEPT !.dir = @ \/ Command = "mkdir"], a)
    <3> DEFINE w == [workspace EXCEPT !.dir = @ \/ Command = "mkdir"]
    <3>1. w \in WorkspaceState /\ ~w.removed BY <1>1 DEF WorkspaceState
    <3> HIDE DEF w
    <3> QED BY <2>1, <3>1, ProceedsUnderWay DEF w
  <2>2. CASE \E dir \in {workspace.dir, workspace.dir \/ Command = "mkdir"} :
               workspace' = CommandFails([workspace EXCEPT !.dir = dir])
    <3>1. PICK dir \in BOOLEAN : workspace' = CommandFails([workspace EXCEPT !.dir = dir])
      BY <1>1, <2>2 DEF WorkspaceState
    <3>2. [workspace EXCEPT !.dir = dir] \in WorkspaceState /\ ~[workspace EXCEPT !.dir = dir].removed
      BY <1>1 DEF WorkspaceState
    <3> QED BY <3>1, <3>2, FailsUnderWay
  <2>3. CASE workspace' = Kills(workspace)
    BY <1>1, <2>3, FailsUnderWay
  <2> QED BY <1>4, <2>1, <2>2, <2>3 DEF ExecEnds
<1>5. ASSUME NEW side \in {"tar", "lima"}, SideCloses(side, a) PROVE UnderWay(workspace')
  <2>1. PICK bad \in BOOLEAN :
          LET w == [workspace EXCEPT !.children = @ \ {side}, !.bad = @ \/ bad] IN
          workspace' = IF w.children # {} THEN w
                       ELSE IF w.bad THEN CommandFails(w) ELSE Proceeds(w, a)
    BY <1>5 DEF SideCloses
  <2> DEFINE w == [workspace EXCEPT !.children = @ \ {side}, !.bad = @ \/ bad]
  <2>2. w \in WorkspaceState /\ ~w.removed /\ w.at = "preparing"
    BY <1>1, <1>5 DEF WorkspaceState, SideCloses
  <2>3. workspace' \in {w, CommandFails(w), Proceeds(w, a)} BY <2>1
  <2> HIDE DEF w
  <2>4. UnderWay(w) BY <2>2 DEF UnderWay
  <2> QED BY <2>2, <2>3, <2>4, FailsUnderWay, ProceedsUnderWay
<1>6. ASSUME PipeTimesOut PROVE UnderWay(workspace')
  BY <1>1, <1>6, FailsUnderWay DEF PipeTimesOut
<1>7. ASSUME PipeBreaks PROVE WorkspaceInd'
  BY <1>1, <1>7, WorkspaceTypePrimed DEF PipeBreaks, WorkspaceState, NothingLeft
<1> QED BY <1>1, <1>2, <1>3, <1>4, <1>5, <1>6, <1>7 DEF Prepares

LEMMA AbortUnderWay ==
  ASSUME WorkspaceInd, WorkspaceAborts
  PROVE  WorkspaceInd'
<1>1. CASE workspace.at = "preparing"
  <2>1. UnderWay(workspace')
    BY <1>1, WorkspaceType, FailsUnderWay DEF WorkspaceAborts, WorkspaceInd, WorkspaceSound
  <2> QED
    BY <2>1, WorkspaceTypePrimed DEF UnderWay, NothingLeft, WorkspaceInd, WorkspaceSound
<1>2. CASE UNCHANGED workspace
  BY <1>2 DEF WorkspaceInd, WorkspaceTypeOK, WorkspaceSound, NothingLeft
<1> QED BY <1>1, <1>2 DEF WorkspaceAborts

\* Once it is ready or has failed, the workspace only goes away.
LEMMA CleaningSound ==
  ASSUME WorkspaceInd, Removes \/ RemovalEnds
  PROVE  WorkspaceInd'
<1> USE WorkspaceType, WorkspaceTypePrimed
    DEF WorkspaceInd, WorkspaceSound, WorkspaceState, NothingLeft
<1>1. ASSUME Removes PROVE WorkspaceInd' BY <1>1 DEF Removes
<1>2. ASSUME RemovalEnds PROVE WorkspaceInd' BY <1>2 DEF RemovalEnds
<1> QED BY <1>1, <1>2

LEMMA GuestSound ==
  ASSUME WorkspaceInd, GuestCatchesUp
  PROVE  WorkspaceInd' /\ workspace'.at = workspace.at
BY WorkspaceType, WorkspaceTypePrimed
   DEF WorkspaceInd, WorkspaceSound, WorkspaceState, NothingLeft, GuestCatchesUp

-----------------------------------------------------------------------------
(* Who waits for what *)

RunState ==
  [at: Phase,
   promise: {"none", "waiting", "resolved", "rejected"},
   note: Line, aborted: BOOLEAN, listening: BOOLEAN,
   carry: Seq(Nat), emitted: Seq(Nat), cut: Nat, events: Nat,
   outcome: {"none", "returned", "threw"}]

TransportState ==
  [failure: {"none", "closed", "exited", "protocol", "overflow"},
   pending: SUBSET Method, waiter: BOOLEAN, notifications: Seq(Line)]

ServerState ==
  [state: {"none", "up", "exited", "killed"},
   asked: SUBSET Method,
   turn: {"none", "running", "over"},
   interrupted: BOOLEAN, deltas: Nat, notes: Nat, stdout: Seq(Line)]

Fits == Len(transport.notifications) <= MaxBufferedNotifications

LEMMA TypeParts ==
  CodexTypeOK <=> run \in RunState /\ transport \in TransportState /\ Fits /\ server \in ServerState
BY DEF CodexTypeOK, RunState, TransportState, Fits, ServerState

LEMMA TypePartsPrimed ==
  CodexTypeOK' <=>
    run' \in RunState /\ transport' \in TransportState /\ Fits' /\ server' \in ServerState
BY DEF CodexTypeOK, RunState, TransportState, Fits, ServerState

\* Until the App Server is started there is nothing but the run; a run that cleans up
\* has closed the transport and stopped the server, and one that is over has cleaned up.
PhaseSound ==
  /\ run.at = "preparing" =>
       /\ transport = [failure |-> "none", pending |-> {}, waiter |-> FALSE,
                       notifications |-> <<>>]
       /\ server.state = "none" /\ server.stdout = <<>> /\ server.deltas = 0
       /\ ~run.listening
  /\ run.at \in {"cleaning", "over"} => server.state # "up" /\ transport.failure # "none"
  /\ run.at = "over" => workspace.at = "gone"

Asked == transport.pending \ {"interrupt"}

\* The run waits for one thing at a time, and the transport knows for which.
WaitsSound ==
  /\ run.promise # "none" => run.at \in {"initializing", "threading", "starting", "collecting"}
  /\ transport.waiter <=> run.promise = "waiting" /\ run.at = "collecting"
  /\ Asked # {} <=> run.promise = "waiting" /\ run.at # "collecting"
  /\ \A m, n \in Asked : m = n

CodexInd == CodexTypeOK /\ TransportSound /\ PhaseSound /\ WaitsSound

LEMMA NoteIsLine ==
  /\ NoLine \in Line
  /\ \A kind \in {"delta", "item", "foreign", "completed", "interrupted", "failed",
                 "request", "garbage"} :
       \A n \in Nat : Note(kind, n) \in Line
BY DEF NoLine, Note, Line

\* The end of a run: the transport is closed and the server stopped.
LEMMA ThrowsSound ==
  ASSUME CodexInd, NEW r \in RunState, Throws(r)
  PROVE  CodexInd'
<1>1. run' \in RunState /\ run'.at = "cleaning" /\ run'.promise = "none"
  BY DEF Throws, RunState, Phase
<1>2. /\ transport' \in TransportState /\ transport'.failure # "none" /\ ~transport'.waiter
      /\ transport'.pending = {} /\ transport'.notifications = <<>>
  BY TypeParts DEF CodexInd, Throws, FailAll, TransportState
<1>3. server' \in ServerState /\ server'.state # "up"
  BY TypeParts DEF CodexInd, Throws, ServerState
<1>4. Fits' BY <1>2, CodexAssumption DEF Fits
<1>5. CodexTypeOK' BY <1>1, <1>2, <1>3, <1>4, TypePartsPrimed
<1> QED
  BY <1>1, <1>2, <1>3, <1>5 DEF CodexInd, TransportSound, PhaseSound, WaitsSound, Asked

\* The end of the gateway.
LEMMA CrashesSound ==
  ASSUME CodexInd, Crashes
  PROVE  CodexInd'
<1>1. run' \in RunState /\ run'.at = "crashed" /\ run'.promise = "none"
  BY TypeParts DEF CodexInd, Crashes, RunState, Phase
<1>2. /\ transport' \in TransportState /\ transport'.failure # "none" /\ ~transport'.waiter
      /\ transport'.pending = {} /\ transport'.notifications = <<>>
  BY TypeParts DEF CodexInd, Crashes, FailAll, TransportState
<1>3. server' \in ServerState BY TypeParts DEF CodexInd, Crashes
<1>4. Fits' BY <1>2, CodexAssumption DEF Fits
<1>5. CodexTypeOK' BY <1>1, <1>2, <1>3, <1>4, TypePartsPrimed
<1> QED
  BY <1>1, <1>2, <1>5 DEF CodexInd, TransportSound, PhaseSound, WaitsSound, Asked

\* The state a run is in when it goes on: nobody waits.
GoesOn(r) ==
  r \in RunState /\ ~transport.waiter /\ Asked = {}

LEMMA RequestSound ==
  ASSUME CodexInd, NEW r, GoesOn(r), r.at \in {"threading", "starting"},
         NEW m \in {"thread", "turn"}, Request(m, r)
  PROVE  CodexInd'
<1>1. r \in RunState /\ transport \in TransportState /\ server \in ServerState /\ Fits
  BY TypeParts DEF CodexInd, GoesOn
<1>2. CASE transport.failure # "none"
  <2>1. run' = [r EXCEPT !.promise = "rejected"] /\ UNCHANGED <<transport, server>>
    BY <1>2 DEF Request
  <2>2. run' \in RunState /\ run'.at = r.at /\ run'.promise = "rejected"
    BY <1>1, <2>1 DEF RunState
  <2>3. CodexTypeOK' BY <1>1, <2>1, <2>2, TypePartsPrimed DEF Fits
  <2> QED
    BY <2>1, <2>2, <2>3
       DEF CodexInd, TransportSound, PhaseSound, WaitsSound, Asked, GoesOn
<1>3. CASE transport.failure = "none"
  <2>1. run' \in RunState /\ run'.at = r.at /\ run'.promise = "waiting"
    BY <1>1, <1>3 DEF Request, RunState
  <2>2. /\ transport' \in TransportState /\ transport'.failure = "none" /\ ~transport'.waiter
        /\ transport'.pending = transport.pending \cup {m}
        /\ transport'.notifications = transport.notifications
    BY <1>1, <1>3 DEF Request, TransportState, GoesOn, Method
  <2>3. server' \in ServerState
    BY <1>1, <1>3 DEF Request, ServerState, Method
  <2>4. CodexTypeOK' BY <1>1, <2>1, <2>2, <2>3, TypePartsPrimed DEF Fits
  <2>5. Asked' = {m} BY <2>2 DEF Asked, GoesOn
  <2> QED
    BY <2>1, <2>2, <2>4, <2>5 DEF TransportSound, PhaseSound, WaitsSound, CodexInd
<1> QED BY <1>2, <1>3

LEMMA NextNotificationSound ==
  ASSUME CodexInd, NEW r, GoesOn(r), r.at = "collecting",
         NextNotification(r), UNCHANGED server
  PROVE  CodexInd'
<1>1. r \in RunState /\ transport \in TransportState /\ server \in ServerState /\ Fits
  BY TypeParts DEF CodexInd, GoesOn
<1> DEFINE some == transport.failure = "none" /\ transport.notifications # <<>>
<1>2. CASE some
  <2>1. Head(transport.notifications) \in Line
    BY <1>1, <1>2, HeadTailProperties DEF TransportState
  <2>2. run' \in RunState /\ run'.at = "collecting" /\ run'.promise = "resolved"
    BY <1>1, <1>2, <2>1 DEF NextNotification, RunState
  <2>3. /\ Tail(transport.notifications) \in Seq(Line)
        /\ Len(Tail(transport.notifications)) <= MaxBufferedNotifications
    BY <1>1, <1>2, HeadTailProperties, CodexAssumption DEF TransportState, Fits
  <2>4. /\ transport' \in TransportState /\ transport'.failure = "none" /\ ~transport'.waiter
        /\ transport'.pending = transport.pending
        /\ transport'.notifications = Tail(transport.notifications)
    BY <1>1, <1>2, <2>3 DEF NextNotification, TransportState, GoesOn
  <2>5. CodexTypeOK' BY <1>1, <2>2, <2>3, <2>4, TypePartsPrimed DEF Fits
  <2> QED
    BY <2>2, <2>4, <2>5 DEF TransportSound, PhaseSound, WaitsSound, CodexInd, Asked, GoesOn
<1>3. CASE ~some /\ (transport.failure # "none" \/ run.aborted)
  <2>1. run' = [r EXCEPT !.promise = "rejected"] /\ UNCHANGED transport
    BY <1>3 DEF NextNotification
  <2>2. run' \in RunState /\ run'.at = "collecting" /\ run'.promise = "rejected"
    BY <1>1, <2>1 DEF RunState
  <2>3. CodexTypeOK' BY <1>1, <2>1, <2>2, TypePartsPrimed DEF Fits
  <2> QED
    BY <2>1, <2>2, <2>3 DEF TransportSound, PhaseSound, WaitsSound, CodexInd, Asked, GoesOn
<1>4. CASE ~some /\ ~(transport.failure # "none" \/ run.aborted)
  <2>1. run' \in RunState /\ run'.at = "collecting" /\ run'.promise = "waiting"
    BY <1>1, <1>4 DEF NextNotification, RunState
  <2>2. /\ transport' \in TransportState /\ transport'.failure = "none" /\ transport'.waiter
        /\ transport'.pending = transport.pending
        /\ transport'.notifications = transport.notifications
        /\ transport.notifications = <<>>
    BY <1>1, <1>4 DEF NextNotification, TransportState
  <2>3. CodexTypeOK' BY <1>1, <2>1, <2>2, TypePartsPrimed DEF Fits
  <2> QED
    BY <2>1, <2>2, <2>3 DEF TransportSound, PhaseSound, WaitsSound, CodexInd, Asked, GoesOn
<1> QED BY <1>2, <1>3, <1>4

\* The transport fails: whoever waits is told, and nothing is buffered.
LEMMA FailAllSound ==
  ASSUME CodexInd, run.at \notin {"preparing", "cleaning", "over"},
         NEW reason \in {"exited", "protocol", "overflow"},
         transport' = FailAll(reason), run' = Rejected, server' \in ServerState
  PROVE  CodexInd'
<1>1. run \in RunState /\ transport \in TransportState
  BY TypeParts DEF CodexInd
<1>2. /\ run' \in RunState /\ run'.at = run.at
      /\ run'.promise = IF run.promise = "waiting" THEN "rejected" ELSE run.promise
  BY <1>1 DEF Rejected, RunState
<1>3. /\ transport' \in TransportState /\ transport'.failure # "none" /\ ~transport'.waiter
      /\ transport'.pending = {} /\ transport'.notifications = <<>>
  BY <1>1 DEF FailAll, TransportState
<1>4. Fits' BY <1>3, CodexAssumption DEF Fits
<1>5. CodexTypeOK' BY <1>2, <1>3, <1>4, TypePartsPrimed
<1> QED
  BY <1>2, <1>3, <1>5 DEF CodexInd, TransportSound, PhaseSound, WaitsSound, Asked

LEMMA HandleLineSound ==
  ASSUME CodexInd, HandleLine
  PROVE  CodexInd'
<1> DEFINE line == Head(server.stdout)
           rest == [server EXCEPT !.stdout = Tail(@)]
<1>1. run \in RunState /\ transport \in TransportState /\ server \in ServerState /\ Fits
  BY TypeParts DEF CodexInd
<1>2. server.stdout # <<>> /\ transport.failure = "none" BY DEF HandleLine
<1>3. run.at \notin {"preparing", "cleaning", "over"}
  BY <1>2 DEF CodexInd, PhaseSound
<1>4. line \in Line /\ Tail(server.stdout) \in Seq(Line)
  BY <1>1, <1>2, HeadTailProperties DEF ServerState
<1>5. rest \in ServerState BY <1>1, <1>4 DEF ServerState
<1>6. ASSUME NEW reason \in {"protocol", "overflow"}, Fails(reason) PROVE CodexInd'
  <2>1. server' \in ServerState BY <1>1, <1>4, <1>6 DEF Fails, ServerState
  <2> QED BY <1>3, <1>6, <2>1, FailAllSound DEF Fails
<1> HIDE DEF line, rest
<1>7. ASSUME line.kind \in {"answer", "error"},
             transport' = [transport EXCEPT !.pending = @ \ {line.of}],
             run' = [run EXCEPT !.promise =
               IF line.of \notin transport.pending \ {"interrupt"} THEN @
               ELSE IF line.kind = "answer" THEN "resolved" ELSE "rejected"],
             server' = rest
      PROVE  CodexInd'
  <2>1. /\ transport' \in TransportState /\ transport'.failure = "none"
        /\ transport'.waiter = transport.waiter
        /\ transport'.pending = transport.pending \ {line.of}
        /\ transport'.notifications = transport.notifications
    BY <1>1, <1>2, <1>7 DEF TransportState
  <2>2. run' \in RunState /\ run'.at = run.at
    BY <1>1, <1>7 DEF RunState
  <2>3. CodexTypeOK' BY <1>1, <1>5, <1>7, <2>1, <2>2, TypePartsPrimed DEF Fits
  <2>4. CASE line.of \notin Asked
    <3>1. run'.promise = run.promise BY <1>1, <1>7, <2>4 DEF RunState, Asked
    <3>2. Asked' = Asked BY <2>1, <2>4 DEF Asked
    <3> QED
      BY <1>3, <2>1, <2>2, <2>3, <3>1, <3>2 DEF CodexInd, TransportSound, PhaseSound, WaitsSound
  <2>5. CASE line.of \in Asked
    <3>1. run'.promise \in {"resolved", "rejected"}
      BY <1>1, <1>7, <2>5 DEF RunState, Asked
    <3>2. Asked' = {} BY <2>1, <2>5 DEF Asked, CodexInd, WaitsSound
    <3>3. run.promise = "waiting" /\ run.at # "collecting" BY <2>5 DEF CodexInd, WaitsSound
    <3> QED
      BY <1>3, <2>1, <2>2, <2>3, <3>1, <3>2, <3>3
         DEF CodexInd, TransportSound, PhaseSound, WaitsSound
  <2> QED BY <2>4, <2>5
<1>8. ASSUME transport.waiter, transport' = [transport EXCEPT !.waiter = FALSE],
             run' = [run EXCEPT !.promise = "resolved", !.note = line], server' = rest
      PROVE  CodexInd'
  <2>1. /\ transport' \in TransportState /\ transport'.failure = "none" /\ ~transport'.waiter
        /\ transport'.pending = transport.pending
        /\ transport'.notifications = transport.notifications
    BY <1>1, <1>2, <1>8 DEF TransportState
  <2>2. run' \in RunState /\ run'.at = run.at /\ run'.promise = "resolved"
    BY <1>1, <1>4, <1>8 DEF RunState
  <2>3. CodexTypeOK' BY <1>1, <1>5, <1>8, <2>1, <2>2, TypePartsPrimed DEF Fits
  <2>4. Asked = {} /\ Asked' = {} BY <1>8, <2>1 DEF Asked, CodexInd, WaitsSound
  <2> QED
    BY <1>3, <1>8, <2>1, <2>2, <2>3, <2>4 DEF CodexInd, TransportSound, PhaseSound, WaitsSound
<1>9. ASSUME ~transport.waiter, ~Overflows,
             transport' = [transport EXCEPT !.notifications = Append(@, line)],
             server' = rest, UNCHANGED run
      PROVE  CodexInd'
  <2>1. /\ Append(transport.notifications, line) \in Seq(Line)
        /\ Len(Append(transport.notifications, line)) <= MaxBufferedNotifications
    BY <1>1, <1>4, <1>9, AppendProperties, CodexAssumption DEF TransportState, Overflows
  <2>2. /\ transport' \in TransportState /\ transport'.failure = "none" /\ ~transport'.waiter
        /\ transport'.pending = transport.pending
        /\ transport'.notifications = Append(transport.notifications, line)
    BY <1>1, <1>2, <1>9, <2>1 DEF TransportState
  <2>3. CodexTypeOK' BY <1>1, <1>5, <1>9, <2>1, <2>2, TypePartsPrimed DEF Fits
  <2> QED
    BY <1>3, <1>9, <2>2, <2>3 DEF CodexInd, TransportSound, PhaseSound, WaitsSound, Asked
<1>10. ASSUME server' = rest, UNCHANGED <<run, transport>>
       PROVE  CodexInd'
  <2>1. CodexTypeOK' BY <1>1, <1>5, <1>10, TypePartsPrimed DEF Fits
  <2> QED
    BY <1>3, <1>10, <2>1 DEF CodexInd, TransportSound, PhaseSound, WaitsSound, Asked
<1> QED BY <1>6, <1>7, <1>8, <1>9, <1>10 DEF HandleLine, line, rest

\* What may happen to a transport before its answer comes.
LEMMA TimerSound ==
  ASSUME CodexInd,
         (\E m \in Method : RequestTimesOut(m)) \/ WaiterTimesOut \/ ExitNoticed
  PROVE  CodexInd'
<1>1. run \in RunState /\ transport \in TransportState /\ server \in ServerState /\ Fits
  BY TypeParts DEF CodexInd
<1>2. ASSUME NEW m \in Method, RequestTimesOut(m) PROVE CodexInd'
  <2>1. /\ transport' \in TransportState /\ transport'.failure = transport.failure
        /\ transport'.waiter = transport.waiter
        /\ transport'.pending = transport.pending \ {m}
        /\ transport'.notifications = transport.notifications
    BY <1>1, <1>2 DEF RequestTimesOut, TransportState
  <2>2. transport.failure = "none" /\ run.at \notin {"preparing", "cleaning", "over"}
    BY <1>2 DEF RequestTimesOut, CodexInd, TransportSound, PhaseSound
  <2>3. CASE m = "interrupt"
    <3>1. run' = run BY <1>2, <2>3 DEF RequestTimesOut
    <3>2. CodexTypeOK' BY <1>1, <1>2, <2>1, <3>1, TypePartsPrimed DEF Fits, RequestTimesOut
    <3>3. Asked' = Asked BY <2>1, <2>3 DEF Asked
    <3> QED
      BY <1>2, <2>1, <2>2, <3>1, <3>2, <3>3
         DEF CodexInd, TransportSound, PhaseSound, WaitsSound, RequestTimesOut
  <2>4. CASE m # "interrupt"
    <3>1. m \in Asked BY <1>2, <2>4 DEF Asked, RequestTimesOut
    <3>2. run.promise = "waiting" /\ run.at # "collecting" BY <3>1 DEF CodexInd, WaitsSound
    <3>3. run' \in RunState /\ run'.at = run.at /\ run'.promise = "rejected"
      BY <1>1, <1>2, <2>4, <3>2 DEF RequestTimesOut, Rejected, RunState
    <3>4. CodexTypeOK' BY <1>1, <1>2, <2>1, <3>3, TypePartsPrimed DEF Fits, RequestTimesOut
    <3>5. Asked' = {} BY <2>1, <3>1 DEF Asked, CodexInd, WaitsSound
    <3> QED
      BY <2>1, <2>2, <3>2, <3>3, <3>4, <3>5
         DEF CodexInd, TransportSound, PhaseSound, WaitsSound
  <2> QED BY <2>3, <2>4
<1>3. ASSUME WaiterTimesOut PROVE CodexInd'
  <2>1. /\ transport' \in TransportState /\ transport'.failure = transport.failure
        /\ ~transport'.waiter
        /\ transport'.pending = transport.pending
        /\ transport'.notifications = transport.notifications
    BY <1>1, <1>3 DEF WaiterTimesOut, TransportState
  <2>2. run.promise = "waiting" /\ run.at = "collecting"
    BY <1>3 DEF WaiterTimesOut, CodexInd, WaitsSound
  <2>3. run' \in RunState /\ run'.at = run.at /\ run'.promise = "rejected"
    BY <1>1, <1>3, <2>2 DEF WaiterTimesOut, Rejected, RunState
  <2>4. CodexTypeOK' BY <1>1, <1>3, <2>1, <2>3, TypePartsPrimed DEF Fits, WaiterTimesOut
  <2> QED
    BY <1>3, <2>1, <2>2, <2>3, <2>4
       DEF CodexInd, TransportSound, PhaseSound, WaitsSound, Asked, WaiterTimesOut
<1>4. ASSUME ExitNoticed PROVE CodexInd'
  <2>1. run.at \notin {"preparing", "cleaning", "over"}
    BY <1>4 DEF ExitNoticed, CodexInd, PhaseSound
  <2> QED BY <1>1, <1>4, <2>1, FailAllSound DEF ExitNoticed
<1> QED BY <1>2, <1>3, <1>4

\* A first part of a sequence.
LEMMA FirstPart ==
  ASSUME NEW seq \in Seq(Nat), NEW k \in 1 .. Len(seq)
  PROVE  /\ SubSeq(seq, 1, k) \in Seq(Nat) /\ Len(SubSeq(seq, 1, k)) = k
         /\ \A i \in 1 .. k : SubSeq(seq, 1, k)[i] = seq[i]
         /\ k \in Nat /\ k <= Len(seq) /\ Len(seq) \in Nat
<1>1. Len(seq) \in Nat /\ k \in Nat /\ 1 <= k /\ k <= Len(seq) OBVIOUS
<1>2. \A i \in 1 .. k : seq[i] \in Nat BY <1>1
<1>3. 1 \in Int /\ k \in Int /\ 1 <= k + 1 /\ (k + 1) - 1 = k BY <1>1
<1>4. /\ SubSeq(seq, 1, k) \in Seq(Nat) /\ Len(SubSeq(seq, 1, k)) = k
      /\ \A i \in 1 .. k : SubSeq(seq, 1, k)[i] = seq[i]
  BY <1>1, <1>2, <1>3
<1> QED BY <1>1, <1>4

\* The part of a text that fits, and what is cut off.
LEMMA EmitsPart ==
  ASSUME NEW r \in RunState, NEW text \in Seq(Nat), NEW phase \in Phase, Emits(r, text, phase)
  PROVE  \E fits \in 1 .. Len(text), more \in Seq(Nat), cut \in Nat :
           /\ more = r.emitted \o SubSeq(text, 1, fits)
           /\ cut = r.cut + (Len(text) - fits)
           /\ run' \in RunState
           /\ run'.at = phase /\ run'.promise = "none" /\ run'.note = r.note
           /\ run'.outcome = r.outcome /\ run'.events = r.events + 1
           /\ run'.carry = <<>> /\ run'.emitted = more /\ run'.cut = cut
           /\ UNCHANGED <<transport, server>>
<1>1. PICK fits \in 1 .. Len(text) :
        run' = [r EXCEPT !.at = phase, !.promise = "none", !.carry = <<>>, !.events = @ + 1,
                         !.emitted = @ \o SubSeq(text, 1, fits),
                         !.cut = @ + (Len(text) - fits)]
  BY DEF Emits
<1> DEFINE none == <<>>
           more == r.emitted \o SubSeq(text, 1, fits)
           cut == r.cut + (Len(text) - fits)
           events == r.events + 1
<1>2. run' = [r EXCEPT !.at = phase, !.promise = "none", !.carry = none, !.events = events,
                       !.emitted = more, !.cut = cut]
  BY <1>1 DEF RunState
<1>3. SubSeq(text, 1, fits) \in Seq(Nat) /\ Len(text) \in Nat /\ fits \in Nat /\ fits <= Len(text)
  BY FirstPart
<1>4. none \in Seq(Nat) BY EmptySeq
<1>5. more \in Seq(Nat) BY <1>3, ConcatProperties DEF RunState
<1>6. cut \in Nat /\ events \in Nat
  <2>1. r.cut \in Nat /\ r.events \in Nat BY DEF RunState
  <2> QED BY <1>3, <2>1
<1>7. more = r.emitted \o SubSeq(text, 1, fits) /\ cut = r.cut + (Len(text) - fits)
      /\ none = <<>> /\ events = r.events + 1
  OBVIOUS
<1> HIDE DEF none, more, cut, events
<1>8. /\ run' \in RunState
      /\ run'.at = phase /\ run'.promise = "none" /\ run'.note = r.note
      /\ run'.outcome = r.outcome /\ run'.events = events
      /\ run'.carry = none /\ run'.emitted = more /\ run'.cut = cut
  BY <1>2, <1>4, <1>5, <1>6 DEF RunState
<1>9. UNCHANGED <<transport, server>> BY DEF Emits
<1> QED BY <1>5, <1>6, <1>7, <1>8, <1>9

LEMMA EmitsSound ==
  ASSUME CodexInd, NEW r, GoesOn(r), NEW text \in Seq(Nat), run.at # "preparing",
         NEW phase \in {"emitting", "finishing", "reconciling"}, Emits(r, text, phase)
  PROVE  CodexInd'
<1>1. r \in RunState /\ transport \in TransportState /\ server \in ServerState /\ Fits
  BY TypeParts DEF CodexInd, GoesOn
<1>2. phase \in Phase BY DEF Phase
<1>3. run' \in RunState /\ run'.at = phase /\ run'.promise = "none"
      /\ UNCHANGED <<transport, server>>
  BY <1>1, <1>2, EmitsPart
<1>4. CodexTypeOK' BY <1>1, <1>3, TypePartsPrimed DEF Fits
<1> QED
  BY <1>3, <1>4 DEF CodexInd, TransportSound, PhaseSound, WaitsSound, Asked, GoesOn

LEMMA ReturnsSound ==
  ASSUME CodexInd, NEW r \in RunState, Returns(r)
  PROVE  CodexInd'
<1>1. [r EXCEPT !.outcome = "returned"] \in RunState
  BY DEF RunState
<1> QED BY <1>1, ThrowsSound DEF Returns

\* What the final message has beyond the text.
Rest(n, len) == [i \in 1 .. n - len |-> len + i]

LEMMA RestIs ==
  ASSUME NEW n \in Nat, NEW len \in Nat, n > len
  PROVE  /\ Rest(n, len) \in Seq(Nat) /\ Len(Rest(n, len)) = n - len
         /\ n - len \in Nat
         /\ \A i \in 1 .. n - len : Rest(n, len)[i] = len + i
<1>1. n - len \in Nat OBVIOUS
<1>2. \A i \in 1 .. n - len : len + i \in Nat OBVIOUS
<1> QED BY <1>1, <1>2 DEF Rest

\* The two ends of reconcile.
LEMMA ReconcilesCases ==
  ASSUME run \in RunState, Reconciles
  PROVE  LET len == Len(run.emitted)
             n == run.note.n
         IN
         \/ /\ n > len /\ \A i \in 1 .. len : run.emitted[i] = i
            /\ \/ Emits([run EXCEPT !.cut = 0], Rest(n, len), "reconciling")
               \/ Returns([run EXCEPT !.cut = n - len])
         \/ /\ ~(n > len /\ \A i \in 1 .. len : run.emitted[i] = i)
            /\ Returns(run)
BY Zenon DEF Reconciles, Rest

\* One piece more, or so many, were cut off.
LEMMA CutIs ==
  ASSUME NEW r \in RunState, NEW cut \in Nat
  PROVE  LET p == [r EXCEPT !.cut = cut] IN
         /\ p \in RunState /\ p.cut = cut
         /\ p.at = r.at /\ p.events = r.events /\ p.note = r.note /\ p.outcome = r.outcome
         /\ p.emitted = r.emitted /\ p.carry = r.carry
BY DEF RunState

LEMMA CutMore ==
  ASSUME NEW r \in RunState
  PROVE  LET p == [r EXCEPT !.cut = @ + 1] IN
         /\ p \in RunState /\ p.cut = r.cut + 1
         /\ p.at = r.at /\ p.events = r.events /\ p.note = r.note /\ p.outcome = r.outcome
         /\ p.emitted = r.emitted /\ p.carry = r.carry
<1> DEFINE cut == r.cut + 1
<1>1. cut \in Nat BY DEF RunState
<1>2. [r EXCEPT !.cut = @ + 1] = [r EXCEPT !.cut = cut] BY DEF RunState
<1> HIDE DEF cut
<1>3. cut = r.cut + 1 BY DEF cut
<1> QED BY <1>1, <1>2, <1>3, CutIs

LEMMA ReconcilesSound ==
  ASSUME CodexInd, GoesOn(run), run.at # "preparing", Reconciles
  PROVE  CodexInd'
<1>1. run \in RunState /\ run.note.n \in Nat /\ Len(run.emitted) \in Nat
  BY TypeParts, LenProperties DEF CodexInd, RunState, Line
<1> DEFINE len == Len(run.emitted)
           n == run.note.n
<1>2. ASSUME n > len, Emits([run EXCEPT !.cut = 0], Rest(n, len), "reconciling")
      PROVE  CodexInd'
  <2> DEFINE r == [run EXCEPT !.cut = 0]
  <2>1. GoesOn(r) BY <1>1 DEF GoesOn, RunState
  <2>2. Rest(n, len) \in Seq(Nat) BY <1>1, <1>2, RestIs
  <2> HIDE DEF r, n, len
  <2> QED BY <1>2, <2>1, <2>2, EmitsSound DEF r
<1>3. ASSUME n > len, Returns([run EXCEPT !.cut = n - len]) PROVE CodexInd'
  <2>1. n - len \in Nat BY <1>1, <1>3
  <2>2. [run EXCEPT !.cut = n - len] \in RunState BY <1>1, <2>1, CutIs
  <2> QED BY <1>3, <2>2, ReturnsSound
<1>4. ASSUME Returns(run) PROVE CodexInd' BY <1>1, <1>4, ReturnsSound
<1> QED BY <1>1, <1>2, <1>3, <1>4, ReconcilesCases

\* Nobody waits for a run that does not wait.
LEMMA SettledGoesOn ==
  ASSUME CodexInd, run.promise # "waiting"
  PROVE  GoesOn(run)
BY TypeParts DEF CodexInd, WaitsSound, GoesOn

LEMMA CollectsSound ==
  ASSUME CodexInd, Collects
  PROVE  CodexInd'
<1> DEFINE note == run.note
           longer == Append(run.carry, note.n)
<1>1. run \in RunState /\ run.at = "collecting" /\ run.promise = "resolved" /\ GoesOn(run)
  BY TypeParts, SettledGoesOn DEF Collects, CodexInd
<1>2. note.n \in Nat BY <1>1 DEF RunState, Line
<1>3. longer \in Seq(Nat) BY <1>1, <1>2, AppendProperties DEF RunState
<1>4. CASE NextNotification(run) /\ UNCHANGED server
  BY <1>1, <1>4, NextNotificationSound
<1>5. CASE Emits(run, longer, "emitting")
  <2> HIDE DEF longer
  <2> QED BY <1>1, <1>3, <1>5, EmitsSound
<1>9. CASE NextNotification([run EXCEPT !.cut = @ + 1]) /\ UNCHANGED server
  <2> DEFINE r == [run EXCEPT !.cut = @ + 1]
  <2>1. r \in RunState /\ r.at = "collecting" BY <1>1, CutMore
  <2>2. GoesOn(r) BY <1>1, <2>1 DEF GoesOn
  <2>3. NextNotification(r) /\ UNCHANGED server BY <1>9
  <2> HIDE DEF r
  <2> QED BY <2>1, <2>2, <2>3, NextNotificationSound
<1>6. CASE NextNotification([run EXCEPT !.carry = Append(@, note.n)]) /\ UNCHANGED server
  <2> DEFINE r == [run EXCEPT !.carry = longer]
  <2>1. r \in RunState /\ r.at = "collecting" BY <1>1, <1>3 DEF RunState
  <2>2. GoesOn(r) BY <1>1, <2>1 DEF GoesOn
  <2>3. NextNotification(r) /\ UNCHANGED server BY <1>6
  <2> HIDE DEF r
  <2> QED BY <2>1, <2>2, <2>3, NextNotificationSound
<1>7. CASE Finishes
  <2>1. CASE Emits(run, run.carry, "finishing")
    <3>1. run.carry \in Seq(Nat) BY <1>1 DEF RunState
    <3> QED BY <1>1, <2>1, <3>1, EmitsSound
  <2>2. CASE Reconciles BY <1>1, <2>2, ReconcilesSound
  <2> QED BY <1>7, <2>1, <2>2 DEF Finishes
<1>8. CASE Throws(run) BY <1>1, <1>8, ThrowsSound
<1> QED BY <1>4, <1>5, <1>6, <1>7, <1>8, <1>9 DEF Collects

LEMMA EmittedSound ==
  ASSUME CodexInd, Emitted
  PROVE  CodexInd'
<1>1. run \in RunState /\ run.promise = "none" /\ run.at # "preparing"
  BY TypeParts DEF Emitted, CodexInd, WaitsSound
<1>2. GoesOn(run) BY <1>1, SettledGoesOn
<1>3. CASE NextNotification([run EXCEPT !.at = "collecting"]) /\ UNCHANGED server
  <2> DEFINE r == [run EXCEPT !.at = "collecting"]
  <2>1. r \in RunState /\ r.at = "collecting" BY <1>1 DEF RunState, Phase
  <2>2. GoesOn(r) BY <1>2, <2>1 DEF GoesOn
  <2> HIDE DEF r
  <2> QED BY <1>3, <2>1, <2>2, NextNotificationSound DEF r
<1>4. CASE Throws(run) BY <1>1, <1>4, ThrowsSound
<1>5. CASE Reconciles BY <1>1, <1>2, <1>5, ReconcilesSound
<1>6. CASE Returns(run) BY <1>1, <1>6, ReturnsSound
<1> QED BY <1>3, <1>4, <1>5, <1>6 DEF Emitted

LEMMA RunStepSound ==
  ASSUME CodexInd, RunStep, UNCHANGED workspace
  PROVE  CodexInd'
<1>1. run \in RunState /\ transport \in TransportState /\ server \in ServerState /\ Fits
  BY TypeParts DEF CodexInd
<1>2. ASSUME Prepared PROVE CodexInd'
  <2>1. CASE Throws(run) BY <1>1, <2>1, ThrowsSound
  <2>2. CASE /\ transport' = [transport EXCEPT !.pending = {"initialize"}]
             /\ server' = [server EXCEPT !.state = "up", !.asked = {"initialize"}]
             /\ run' = [run EXCEPT !.at = "initializing", !.promise = "waiting"]
    <3>1. /\ ~transport.waiter /\ transport.failure = "none" /\ transport.pending = {}
          /\ transport.notifications = <<>>
      BY <1>1, <1>2 DEF CodexInd, PhaseSound, Prepared
    <3>2. run' \in RunState /\ run'.at = "initializing" /\ run'.promise = "waiting"
      BY <1>1, <2>2 DEF RunState, Phase
    <3>3. /\ transport' \in TransportState /\ transport'.failure = "none" /\ ~transport'.waiter
          /\ transport'.pending = {"initialize"}
          /\ transport'.notifications = transport.notifications
      BY <1>1, <2>2, <3>1 DEF TransportState, Method
    <3>4. server' \in ServerState BY <1>1, <2>2 DEF ServerState, Method
    <3>5. CodexTypeOK' BY <1>1, <3>2, <3>3, <3>4, TypePartsPrimed DEF Fits
    <3>6. Asked' = {"initialize"} BY <3>3 DEF Asked
    <3> QED
      BY <3>1, <3>2, <3>3, <3>5, <3>6 DEF CodexInd, TransportSound, PhaseSound, WaitsSound
  <2>3. CASE Crashes BY <2>3, CrashesSound
  <2> QED BY <1>2, <2>1, <2>2, <2>3 DEF Prepared
<1>3. ASSUME Rejects PROVE CodexInd'
  BY <1>1, <1>3, ThrowsSound DEF Rejects
<1>4. ASSUME run.promise = "resolved" PROVE GoesOn(run)
  BY <1>4, SettledGoesOn
<1>5. ASSUME Initialized PROVE CodexInd'
  <2> DEFINE r == [run EXCEPT !.at = "threading"]
  <2>1. r \in RunState /\ r.at = "threading" BY <1>1 DEF RunState, Phase
  <2>2. GoesOn(r) /\ Request("thread", r) BY <1>4, <1>5, <2>1 DEF GoesOn, Initialized
  <2> HIDE DEF r
  <2> QED BY <2>1, <2>2, RequestSound
<1>6. ASSUME ThreadStarted PROVE CodexInd'
  <2> DEFINE r == [run EXCEPT !.at = "starting"]
  <2>1. r \in RunState /\ r.at = "starting" BY <1>1 DEF RunState, Phase
  <2>2. GoesOn(r) /\ Request("turn", r) BY <1>4, <1>6, <2>1 DEF GoesOn, ThreadStarted
  <2> HIDE DEF r
  <2> QED BY <2>1, <2>2, RequestSound
<1>7. ASSUME TurnStarted PROVE CodexInd'
  <2> DEFINE r == [run EXCEPT !.at = "collecting", !.listening = TRUE]
  <2>1. r \in RunState /\ r.at = "collecting" BY <1>1 DEF RunState, Phase
  <2>2. GoesOn(r) /\ NextNotification(r) /\ UNCHANGED server
    BY <1>4, <1>7, <2>1 DEF GoesOn, TurnStarted
  <2> HIDE DEF r
  <2> QED BY <2>1, <2>2, NextNotificationSound
<1>8. ASSUME CleansUp PROVE CodexInd'
  <2>1. run' \in RunState /\ run'.at = "over" /\ run'.promise = run.promise
    BY <1>1, <1>8 DEF CleansUp, RunState, Phase
  <2>2. UNCHANGED <<transport, server>> /\ run.at = "cleaning" /\ workspace.at = "gone"
    BY <1>8 DEF CleansUp
  <2>3. CodexTypeOK' BY <1>1, <2>1, <2>2, TypePartsPrimed DEF Fits
  <2> QED
    BY <2>1, <2>2, <2>3 DEF CodexInd, TransportSound, PhaseSound, WaitsSound, Asked
<1> QED
  BY <1>2, <1>3, <1>5, <1>6, <1>7, <1>8, CollectsSound, EmittedSound DEF RunStep

LEMMA AbortSound ==
  ASSUME CodexInd, Abort
  PROVE  CodexInd'
<1>1. run \in RunState /\ transport \in TransportState /\ server \in ServerState /\ Fits
  BY TypeParts DEF CodexInd
<1> DEFINE asks == run.listening /\ transport.failure = "none"
<1>2. /\ run' \in RunState /\ run'.at = run.at /\ run'.listening = run.listening
      /\ run'.promise = IF transport.waiter THEN "rejected" ELSE run.promise
  BY <1>1 DEF Abort, RunState
<1>3. /\ transport' \in TransportState /\ transport'.failure = transport.failure
      /\ ~transport'.waiter
      /\ transport'.pending \subseteq transport.pending \cup {"interrupt"}
      /\ transport.pending \subseteq transport'.pending
      /\ asks \/ transport'.pending = transport.pending
      /\ transport'.notifications = transport.notifications
  BY <1>1 DEF Abort, TransportState, Method
<1>4. /\ server' \in ServerState /\ server'.state = server.state
      /\ server'.stdout = server.stdout /\ server'.deltas = server.deltas
  BY <1>1 DEF Abort, ServerState, Method
<1>5. CodexTypeOK' BY <1>1, <1>2, <1>3, <1>4, TypePartsPrimed DEF Fits
<1>6. Asked' = Asked BY <1>3 DEF Asked
<1>7. TransportSound' BY <1>3 DEF CodexInd, TransportSound
<1>8. PhaseSound'
  <2>1. run.at # "over" BY DEF Abort
  <2>2. ASSUME run.at = "preparing"
        PROVE  transport' = [failure |-> "none", pending |-> {}, waiter |-> FALSE,
                             notifications |-> <<>>]
    BY <1>1, <1>3, <2>2 DEF CodexInd, PhaseSound, TransportState
  <2> QED BY <1>2, <1>3, <1>4, <2>1, <2>2 DEF CodexInd, PhaseSound
<1>9. WaitsSound' BY <1>2, <1>3, <1>6 DEF CodexInd, WaitsSound
<1> QED BY <1>5, <1>7, <1>8, <1>9 DEF CodexInd

\* What the App Server does, nobody sees before its output is read.
LEMMA ServerSound ==
  ASSUME CodexInd, Server
  PROVE  CodexInd' /\ UNCHANGED <<run, transport>>
<1>1. run \in RunState /\ transport \in TransportState /\ server \in ServerState /\ Fits
  BY TypeParts DEF CodexInd
<1>2. server.state = "up" /\ UNCHANGED <<run, transport>>
  BY DEF Server, ServerAnswers, TurnBegins, ServerNotifies, ServerChats, ServerExits
<1>3. ASSUME NEW line \in Line PROVE Says(line) \in ServerState
  <2>1. Append(server.stdout, line) \in Seq(Line)
    BY <1>1, <1>3, AppendProperties DEF ServerState
  <2> QED BY <1>1, <2>1 DEF Says, ServerState
<1>4. server' \in ServerState
  <2>1. ASSUME ServerAnswers PROVE server' \in ServerState
    <3>1. PICK m \in server.asked, kind \in {"answer", "error"} :
            server' = [Says([kind |-> kind, of |-> m, n |-> 0]) EXCEPT !.asked = @ \ {m}]
      BY <2>1 DEF ServerAnswers
    <3>2. [kind |-> kind, of |-> m, n |-> 0] \in Line BY <1>1 DEF Line, ServerState
    <3> DEFINE said == Says([kind |-> kind, of |-> m, n |-> 0])
    <3>3. said \in ServerState BY <1>3, <3>2
    <3> HIDE DEF said
    <3>4. [said EXCEPT !.asked = @ \ {m}] \in ServerState BY <3>3 DEF ServerState
    <3> QED BY <3>1, <3>4 DEF said
  <2>2. ASSUME TurnBegins PROVE server' \in ServerState
    BY <1>1, <2>2 DEF TurnBegins, ServerState
  <2>3. ASSUME ServerNotifies PROVE server' \in ServerState
    <3> DEFINE Sends(kind, n) == server' = [Says(Note(kind, n)) EXCEPT
                 !.notes = @ + 1,
                 !.deltas = IF kind = "delta" THEN n ELSE @,
                 !.turn = IF kind \in {"completed", "interrupted", "failed"} THEN "over" ELSE @]
    <3>1. PICK kind \in {"delta", "item", "foreign", "completed", "interrupted", "failed",
                         "request", "garbage"} :
            \E n \in IF kind = "completed" THEN {0, server.deltas, server.deltas + 1}
                     ELSE IF kind = "delta" THEN {server.deltas + 1} ELSE {0} : Sends(kind, n)
      BY <2>3 DEF ServerNotifies
    <3> HIDE DEF Sends
    <3>2. PICK n \in Nat : Sends(kind, n) BY <1>1, <3>1 DEF ServerState
    <3> DEFINE said == Says(Note(kind, n))
               deltas == IF kind = "delta" THEN n ELSE said.deltas
               turn == IF kind \in {"completed", "interrupted", "failed"} THEN "over" ELSE said.turn
               notes == said.notes + 1
    <3>3. said \in ServerState BY <1>3, NoteIsLine
    <3> HIDE DEF said
    <3>4. notes \in Nat /\ deltas \in Nat /\ turn \in {"none", "running", "over"}
      BY <3>3 DEF ServerState
    <3>5. server' = [said EXCEPT !.notes = notes, !.deltas = deltas, !.turn = turn]
      BY <3>2, <3>3 DEF Sends, said, ServerState
    <3> HIDE DEF deltas, turn, notes
    <3> QED BY <3>3, <3>4, <3>5 DEF ServerState
  <2>4. ASSUME ServerChats PROVE server' \in ServerState
    BY <1>3, <2>4, NoteIsLine DEF ServerChats
  <2>5. ASSUME ServerExits PROVE server' \in ServerState
    BY <1>1, <2>5 DEF ServerExits, ServerState
  <2> QED BY <2>1, <2>2, <2>3, <2>4, <2>5 DEF Server
<1>5. CodexTypeOK' BY <1>1, <1>2, <1>4, TypePartsPrimed DEF Fits
<1> QED
  BY <1>2, <1>5 DEF CodexInd, TransportSound, PhaseSound, WaitsSound, Asked

\* The workspace does not come back.
LEMMA GoneStaysGone ==
  ASSUME WorkspaceInd, workspace.at = "gone",
         \/ UNCHANGED workspace \/ GuestCatchesUp \/ WorkspaceAborts
         \/ (\E a \in BOOLEAN : Prepares(a)) \/ Removes \/ RemovalEnds
  PROVE  workspace'.at = "gone"
BY GuestSound, PreparesUnderWay DEF WorkspaceAborts, Removes, RemovalEnds

LEMMA RunStutters ==
  ASSUME CodexInd, UNCHANGED runVars, workspace.at = "gone" => workspace'.at = "gone"
  PROVE  CodexInd'
BY DEF CodexInd, CodexTypeOK, TransportSound, PhaseSound, WaitsSound, Asked, runVars

CodexAll == CodexInd /\ WorkspaceInd

LEMMA InitSound == Init => CodexAll
<1> SUFFICES ASSUME Init PROVE CodexAll OBVIOUS
<1>1. CodexTypeOK
  <2>1. <<>> \in Seq(Nat) /\ <<>> \in Seq(Line) /\ Len(<<>>) = 0 BY EmptySeq
  <2>2. run \in RunState BY <2>1, NoteIsLine DEF Init, RunState, Phase
  <2>3. transport \in TransportState /\ Fits
    BY <2>1, CodexAssumption DEF Init, TransportState, Fits
  <2>4. server \in ServerState BY <2>1 DEF Init, ServerState
  <2> QED BY <2>2, <2>3, <2>4, TypeParts
<1>2. TransportSound /\ PhaseSound /\ WaitsSound
  BY DEF Init, TransportSound, PhaseSound, WaitsSound, Asked
<1>3. WorkspaceInd
  <2>1. PICK executor \in {"host", "lima"} :
          workspace = [executor |-> executor, at |-> "none", step |-> 1, children |-> {},
                       bad |-> FALSE, dir |-> FALSE, late |-> FALSE, removed |-> FALSE]
    BY DEF Init, WorkspaceInit
  <2> QED BY <2>1, WorkspaceType DEF WorkspaceInd, WorkspaceSound, WorkspaceState, NothingLeft
<1> QED BY <1>1, <1>2, <1>3 DEF CodexAll, CodexInd

LEMMA StepSound == CodexAll /\ [Next]_vars => CodexAll'
<1> SUFFICES ASSUME CodexAll, [Next]_vars PROVE CodexAll' OBVIOUS
<1>1. CodexInd /\ WorkspaceInd BY DEF CodexAll
<1>2. ASSUME UNCHANGED workspace PROVE WorkspaceInd'
  BY <1>1, <1>2 DEF WorkspaceInd, WorkspaceTypeOK, WorkspaceSound, NothingLeft
<1>3. CASE Preparing
  <2>1. run.aborted \in BOOLEAN BY <1>1, TypeParts DEF CodexInd, RunState
  <2> QED
    BY <1>1, <1>3, <2>1, PreparesUnderWay, GoneStaysGone, RunStutters DEF Preparing, CodexAll
<1>4. CASE Cleaning
  BY <1>1, <1>4, CleaningSound, GoneStaysGone, RunStutters DEF Cleaning, CodexAll
<1>5. CASE RunStep /\ UNCHANGED workspace
  BY <1>1, <1>2, <1>5, RunStepSound DEF CodexAll
<1>6. CASE Abort
  BY <1>1, <1>6, AbortSound, AbortUnderWay DEF Abort, CodexAll
<1>7. CASE Loop /\ UNCHANGED workspace
  BY <1>1, <1>2, <1>7, HandleLineSound, TimerSound DEF Loop, CodexAll
<1>11. CASE StdinBreaks /\ UNCHANGED workspace
  BY <1>1, <1>2, <1>11, CrashesSound DEF StdinBreaks, CodexAll
<1>8. CASE Server /\ UNCHANGED workspace
  BY <1>1, <1>2, <1>8, ServerSound DEF CodexAll
<1>9. CASE GuestCatchesUp /\ UNCHANGED runVars
  BY <1>1, <1>9, GuestSound, RunStutters DEF CodexAll
<1>10. CASE UNCHANGED vars
  BY <1>1, <1>2, <1>10, RunStutters DEF vars, CodexAll
<1> QED
  BY <1>3, <1>4, <1>5, <1>6, <1>7, <1>8, <1>9, <1>10, <1>11 DEF Next, Step, Over

LEMMA CodexAlways == Spec => []CodexAll
BY InitSound, StepSound, PTL DEF Spec

\* The variables keep their types and the buffer its limit; nothing waits on a
\* transport that failed; and a run that awaits something is known to the transport,
\* whatever the App Server does and whenever the run is aborted.
THEOREM CodexCorrect == Spec => []CodexInv
<1>1. CodexAll => CodexInv
  <2> SUFFICES ASSUME CodexAll PROVE CodexInv OBVIOUS
  <2>1. NobodyForgotten
    BY DEF CodexAll, CodexInd, WaitsSound, Asked, NobodyForgotten
  <2> QED BY <2>1 DEF CodexAll, CodexInd, WorkspaceInd, CodexInv
<1> QED BY <1>1, CodexAlways, PTL

\* A run that is over leaves no App Server, no child of the host that copies, and no
\* snapshot but where its removal failed or a killed mkdir outlived it.
THEOREM NothingOrphaned == Spec => []NoOrphan
<1>1. CodexAll => NoOrphan
  BY DEF CodexAll, CodexInd, PhaseSound, WorkspaceInd, WorkspaceSound, NoOrphan
<1> QED BY <1>1, CodexAlways, PTL

-----------------------------------------------------------------------------
(* To the processor it is a runner *)

\* A step of a run under way, that calls onEvent once at most.
GoesOnEmitting ==
  /\ run.at # "over" /\ run'.at # "over"
  /\ run'.events \in {run.events, run.events + 1}

LEMMA NextNotificationEmits ==
  ASSUME NEW r \in RunState, r.at # "over", NextNotification(r)
  PROVE  run'.at # "over" /\ run'.events = r.events
BY DEF NextNotification, RunState

LEMMA ThrowsEmits ==
  ASSUME NEW r \in RunState, Throws(r)
  PROVE  run'.at # "over" /\ run'.events = r.events
BY DEF Throws, RunState

LEMMA RequestEmits ==
  ASSUME NEW r \in RunState, r.at # "over", NEW m, Request(m, r)
  PROVE  run'.at # "over" /\ run'.events = r.events
BY DEF Request, RunState

LEMMA ReturnsEmits ==
  ASSUME NEW r \in RunState, Returns(r)
  PROVE  run'.at # "over" /\ run'.events = r.events
<1>1. /\ [r EXCEPT !.outcome = "returned"] \in RunState
      /\ [r EXCEPT !.outcome = "returned"].events = r.events
  BY DEF RunState
<1> QED BY <1>1, ThrowsEmits DEF Returns

LEMMA CrashesEmits ==
  ASSUME run \in RunState, Crashes
  PROVE  run'.at # "over" /\ run'.events = run.events
BY DEF Crashes, RunState

LEMMA ReconcilesEmits ==
  ASSUME run \in RunState, Reconciles
  PROVE  run'.at # "over" /\ run'.events \in {run.events, run.events + 1}
<1>1. run.note.n \in Nat /\ Len(run.emitted) \in Nat
  BY LenProperties DEF RunState, Line
<1> DEFINE len == Len(run.emitted)
           n == run.note.n
<1>2. ASSUME Emits([run EXCEPT !.cut = 0], Rest(n, len), "reconciling")
      PROVE  run'.at # "over" /\ run'.events = run.events + 1
  BY <1>2 DEF Emits, RunState
<1>3. ASSUME n > len, Returns([run EXCEPT !.cut = n - len])
      PROVE  run'.at # "over" /\ run'.events = run.events
  <2>1. n - len \in Nat BY <1>1, <1>3
  <2>2. /\ [run EXCEPT !.cut = n - len] \in RunState
        /\ [run EXCEPT !.cut = n - len].events = run.events
    BY <2>1, CutIs
  <2> QED BY <1>3, <2>2, ReturnsEmits
<1>4. ASSUME Returns(run) PROVE run'.at # "over" /\ run'.events = run.events
  BY <1>4, ReturnsEmits
<1> QED BY <1>2, <1>3, <1>4, ReconcilesCases

LEMMA RunStepEmits ==
  ASSUME CodexInd, RunStep
  PROVE  CleansUp \/ GoesOnEmitting
<1>1. run \in RunState BY TypeParts DEF CodexInd
<1>2. run.promise # "none" => run.at # "over" BY DEF CodexInd, WaitsSound
<1>3. ASSUME Prepared PROVE GoesOnEmitting
  BY <1>1, <1>3, ThrowsEmits, CrashesEmits DEF Prepared, GoesOnEmitting, RunState
<1>4. ASSUME Rejects PROVE GoesOnEmitting
  BY <1>1, <1>2, <1>4, ThrowsEmits DEF Rejects, GoesOnEmitting
<1>5. ASSUME Initialized \/ ThreadStarted PROVE GoesOnEmitting
  <2>1. /\ [run EXCEPT !.at = "threading"] \in RunState
        /\ [run EXCEPT !.at = "starting"] \in RunState
    BY <1>1 DEF RunState, Phase
  <2> QED
    BY <1>1, <1>5, <2>1, RequestEmits DEF Initialized, ThreadStarted, GoesOnEmitting, RunState
<1>6. ASSUME TurnStarted PROVE GoesOnEmitting
  <2> DEFINE r == [run EXCEPT !.at = "collecting", !.listening = TRUE]
  <2>1. r \in RunState /\ r.at # "over" /\ r.events = run.events
    BY <1>1 DEF RunState, Phase
  <2> QED BY <1>6, <2>1, NextNotificationEmits DEF TurnStarted, GoesOnEmitting
<1>7. ASSUME Collects PROVE GoesOnEmitting
  <2>1. run.at = "collecting" BY <1>7 DEF Collects
  <2>2. CASE NextNotification(run) \/ Throws(run)
    BY <1>1, <2>1, <2>2, NextNotificationEmits, ThrowsEmits DEF GoesOnEmitting
  <2>3. ASSUME NEW text, NEW phase \in {"emitting", "finishing"}, Emits(run, text, phase)
        PROVE  GoesOnEmitting
    BY <1>1, <2>1, <2>3 DEF Emits, GoesOnEmitting, RunState
  <2>4. CASE NextNotification([run EXCEPT !.carry = Append(@, run.note.n)])
    <3> DEFINE longer == Append(run.carry, run.note.n)
               r == [run EXCEPT !.carry = longer]
    <3>1. longer \in Seq(Nat) BY <1>1, AppendProperties DEF RunState, Line
    <3> HIDE DEF longer
    <3>2. r \in RunState /\ r.at # "over" /\ r.events = run.events
      BY <1>1, <2>1, <3>1 DEF RunState
    <3> QED BY <2>1, <2>4, <3>2, NextNotificationEmits DEF GoesOnEmitting, longer
  <2>5. CASE Reconciles
    BY <1>1, <2>1, <2>5, ReconcilesEmits DEF GoesOnEmitting
  <2>6. CASE NextNotification([run EXCEPT !.cut = @ + 1])
    <3> DEFINE r == [run EXCEPT !.cut = @ + 1]
    <3>1. r \in RunState /\ r.at # "over" /\ r.events = run.events
      BY <1>1, <2>1, CutMore
    <3> HIDE DEF r
    <3> QED BY <2>1, <2>6, <3>1, NextNotificationEmits DEF GoesOnEmitting, r
  <2> QED BY <1>7, <2>2, <2>3, <2>4, <2>5, <2>6 DEF Collects, Finishes
<1>8. ASSUME Emitted PROVE GoesOnEmitting
  <2>1. run.at # "over" BY <1>8 DEF Emitted
  <2>2. [run EXCEPT !.at = "collecting"] \in RunState BY <1>1 DEF RunState, Phase
  <2>3. CASE NextNotification([run EXCEPT !.at = "collecting"])
    BY <1>1, <2>1, <2>2, <2>3, NextNotificationEmits DEF GoesOnEmitting, RunState
  <2>4. CASE Throws(run) BY <1>1, <2>1, <2>4, ThrowsEmits DEF GoesOnEmitting
  <2>5. CASE Reconciles \/ Returns(run)
    BY <1>1, <2>1, <2>5, ReconcilesEmits, ReturnsEmits DEF GoesOnEmitting
  <2> QED BY <1>8, <2>3, <2>4, <2>5 DEF Emitted
<1> QED
  BY <1>3, <1>4, <1>5, <1>6, <1>7, <1>8 DEF RunStep

\* Nothing but its own steps moves the phase of a run or calls onEvent.
LEMMA OthersSilent ==
  ASSUME CodexInd, Loop \/ StdinBreaks \/ Server \/ Abort
  PROVE  UNCHANGED run \/ GoesOnEmitting
<1>1. run \in RunState BY TypeParts DEF CodexInd
<1>2. transport.waiter \/ transport.pending # {} \/ transport.failure = "none" => run.at # "over"
  BY DEF CodexInd, PhaseSound, TransportSound
<1>3. Rejected.at = run.at /\ Rejected.events = run.events
  BY <1>1 DEF Rejected, RunState
<1>4. CASE Server BY <1>4, ServerSound
<1>5. CASE Abort BY <1>1, <1>5 DEF Abort, GoesOnEmitting, RunState
<1>6. CASE HandleLine
  BY <1>1, <1>2, <1>3, <1>6 DEF HandleLine, Fails, GoesOnEmitting, RunState
<1>7. CASE \E m \in Method : RequestTimesOut(m)
  BY <1>2, <1>3, <1>7 DEF RequestTimesOut, GoesOnEmitting
<1>8. CASE WaiterTimesOut \/ ExitNoticed
  BY <1>2, <1>3, <1>8 DEF WaiterTimesOut, ExitNoticed, GoesOnEmitting
<1>9. CASE StdinBreaks
  BY <1>1, <1>2, <1>9, CrashesEmits DEF StdinBreaks, GoesOnEmitting
<1> QED BY <1>4, <1>5, <1>6, <1>7, <1>8, <1>9 DEF Loop

\* JobProcessor may take the run for the runner it expects: it calls onEvent while it
\* is under way, settles once, and is silent from then on.
THEOREM CodexImplementsRunner == Spec => Runner!Quiet
<1>1. Init => Runner!Init
  BY DEF Init, Runner!Init
<1>2. CodexAll /\ [Next]_vars => [Runner!Emit \/ Runner!Settle]_(Runner!runnerVars)
  <2> SUFFICES ASSUME CodexAll, [Next]_vars
               PROVE  Runner!Emit \/ Runner!Settle \/ UNCHANGED Runner!runnerVars
    OBVIOUS
  <2> USE DEF Runner!Emit, Runner!Settle, Runner!Pending, Runner!runnerVars
  <2>1. CodexInd /\ run \in RunState BY TypeParts DEF CodexAll, CodexInd
  <2>2. CASE UNCHANGED run BY <2>2
  <2>3. CASE GoesOnEmitting BY <2>3 DEF GoesOnEmitting
  <2>4. CASE CleansUp BY <2>1, <2>4 DEF CleansUp, RunState
  <2>5. Loop \/ StdinBreaks \/ Server \/ Abort => UNCHANGED run \/ GoesOnEmitting
    BY <2>1, OthersSilent
  <2>6. RunStep => CleansUp \/ GoesOnEmitting
    BY <2>1, RunStepEmits
  <2> QED
    BY <2>2, <2>3, <2>4, <2>5, <2>6
       DEF Next, Step, Over, Preparing, Cleaning, runVars, vars
<1> QED BY <1>1, <1>2, CodexAlways, PTL DEF Spec, Runner!Quiet

-----------------------------------------------------------------------------
(* The text.  First the pipe, whatever the run is at: what is buffered and *)
(* what the run has not read yet carry on where its text stops.            *)

\* The numbers that come after n.
Counts(seq, n) == \A i \in DOMAIN seq : seq[i] = n + i

\* The deltas among the lines are those from one number to another, in order, and
\* what ends a turn comes after them.
Carries(lines, from, to) ==
  /\ from <= to
  /\ \A i \in DOMAIN lines :
       /\ lines[i].kind = "delta" =>
            /\ from < lines[i].n /\ lines[i].n <= to
            /\ \A k \in DOMAIN lines : k < i /\ lines[k].kind = "delta" => lines[k].n < lines[i].n
       /\ lines[i].kind = "completed" =>
            /\ lines[i].n \in {0, to, to + 1}
            /\ \A k \in DOMAIN lines : lines[k].kind = "delta" => k < i
  /\ \A n \in from + 1 .. to : \E i \in DOMAIN lines : lines[i].kind = "delta" /\ lines[i].n = n

Completes(lines) == \E i \in DOMAIN lines : lines[i].kind = "completed"

\* A run that has the deltas up to seen, buffered and unread lines, and a server that
\* has sent the deltas up to sent.
Pipe(seen, buffered, unread, sent) ==
  \E middle \in 0 .. sent :
    /\ Carries(buffered, seen, middle)
    /\ Carries(unread, middle, sent)
    /\ Completes(buffered) => middle = sent

\* What taking a line makes of the deltas a run has.
After(line, seen) == IF line.kind = "delta" THEN line.n ELSE seen

LEMMA TailLines ==
  ASSUME NEW lines \in Seq(Line), lines # <<>>
  PROVE  /\ Len(lines) \in Nat \ {0} /\ Head(lines) = lines[1] /\ lines[1] \in Line
         /\ Tail(lines) \in Seq(Line) /\ Len(Tail(lines)) = Len(lines) - 1
         /\ \A i \in 1 .. Len(lines) - 1 : Tail(lines)[i] = lines[i + 1]
BY HeadTailProperties, EmptySeq

LEMMA CompletesTail ==
  ASSUME NEW lines \in Seq(Line), lines # <<>>
  PROVE  Completes(lines) <=> Head(lines).kind = "completed" \/ Completes(Tail(lines))
<1> DEFINE line == Head(lines)
           rest == Tail(lines)
<1>1. PICK len \in Nat : len = Len(rest) BY TailLines
<1>2. /\ Len(lines) = len + 1 /\ line = lines[1] /\ DOMAIN lines = 1 .. len + 1
      /\ DOMAIN rest = 1 .. len
      /\ \A i \in 1 .. len : rest[i] = lines[i + 1]
  BY <1>1, TailLines
<1> HIDE DEF line, rest
<1>3. \A i \in 1 .. len + 1 : i = 1 \/ (i - 1 \in 1 .. len /\ lines[i] = rest[i - 1])
  BY <1>2
<1>4. ASSUME NEW i \in 1 .. len, rest[i].kind = "completed"
      PROVE  \E j \in 1 .. len + 1 : lines[j].kind = "completed"
  <2>1. i + 1 \in 1 .. len + 1 OBVIOUS
  <2> QED BY <1>2, <1>4, <2>1
<1>5. ASSUME NEW i \in 1 .. len + 1, lines[i].kind = "completed", i # 1
      PROVE  \E j \in 1 .. len : rest[j].kind = "completed"
  BY <1>3, <1>5
<1>6. 1 \in 1 .. len + 1 OBVIOUS
<1>7. Completes(lines) <=> line.kind = "completed" \/ Completes(rest)
  BY <1>2, <1>4, <1>5, <1>6 DEF Completes
<1> QED BY <1>7 DEF line, rest

LEMMA CarriesIf ==
  ASSUME NEW lines, NEW from \in Nat, NEW to \in Nat, from <= to,
         \A i \in DOMAIN lines : lines[i].kind = "delta" => from < lines[i].n /\ lines[i].n <= to,
         \A i, k \in DOMAIN lines :
           lines[i].kind = "delta" /\ lines[k].kind = "delta" /\ k < i => lines[k].n < lines[i].n,
         \A i \in DOMAIN lines : lines[i].kind = "completed" => lines[i].n \in {0, to, to + 1},
         \A i, k \in DOMAIN lines : lines[i].kind = "completed" /\ lines[k].kind = "delta" => k < i,
         \A n \in from + 1 .. to : \E i \in DOMAIN lines : lines[i].kind = "delta" /\ lines[i].n = n
  PROVE  Carries(lines, from, to)
BY DEF Carries

\* The first line carries on, and the others after it.
LEMMA CarriesTail ==
  ASSUME NEW lines \in Seq(Line), lines # <<>>, NEW from \in Nat, NEW to \in Nat,
         Carries(lines, from, to)
  PROVE  /\ Head(lines).kind = "delta" => Head(lines).n = from + 1
         /\ Head(lines).kind = "completed" => from = to /\ Head(lines).n \in {0, to, to + 1}
         /\ Carries(Tail(lines), After(Head(lines), from), to)
         /\ Completes(lines) <=> Head(lines).kind = "completed" \/ Completes(Tail(lines))
<1> DEFINE line == Head(lines)
           rest == Tail(lines)
<1>1. PICK len \in Nat : len = Len(rest) BY TailLines
<1>2. /\ Len(lines) = len + 1 /\ line = lines[1] /\ DOMAIN lines = 1 .. len + 1
      /\ DOMAIN rest = 1 .. len /\ line.n \in Nat
      /\ \A i \in 1 .. len : rest[i] = lines[i + 1] /\ rest[i].n \in Nat
  BY <1>1, TailLines DEF Line
<1> HIDE DEF line, rest
<1>3. \A i \in 1 .. len + 1 : i = 1 \/ (i - 1 \in 1 .. len /\ lines[i] = rest[i - 1])
  BY <1>2
<1> DEFINE One == 1 .. len + 1
<1>10. ASSUME NEW i \in One, lines[i].kind = "delta"
       PROVE  from < lines[i].n /\ lines[i].n <= to
  BY <1>2, <1>10 DEF Carries
<1>11. ASSUME NEW i \in One, lines[i].kind = "delta", NEW k \in One, k < i, lines[k].kind = "delta"
       PROVE  lines[k].n < lines[i].n
  BY <1>2, <1>11 DEF Carries
<1>12. ASSUME NEW i \in One, lines[i].kind = "completed"
       PROVE  lines[i].n \in {0, to, to + 1}
  BY <1>2, <1>12 DEF Carries
<1>13. ASSUME NEW i \in One, lines[i].kind = "completed", NEW k \in One, lines[k].kind = "delta"
       PROVE  k < i
  BY <1>2, <1>13 DEF Carries
<1>14. ASSUME NEW n \in from + 1 .. to
       PROVE  \E i \in One : lines[i].kind = "delta" /\ lines[i].n = n
  BY <1>2, <1>14 DEF Carries
<1>15. from <= to BY DEF Carries
<1>16. \A i \in 1 .. len : i \in One /\ i + 1 \in One /\ i + 1 > 1
  OBVIOUS
<1>17. 1 \in One OBVIOUS
<1>4. line.kind = "delta" => line.n = from + 1
  <2> SUFFICES ASSUME line.kind = "delta", line.n # from + 1 PROVE FALSE OBVIOUS
  <2>1. from < line.n /\ line.n <= to BY <1>2, <1>10, <1>17
  <2>2. from + 1 \in from + 1 .. to /\ from + 1 < line.n BY <1>2, <2>1
  <2>3. PICK i \in One : lines[i].kind = "delta" /\ lines[i].n = from + 1
    BY <1>14, <2>2
  <2>4. i # 1 BY <1>2, <2>2, <2>3
  <2>5. 1 < i BY <2>4
  <2>6. line.n < lines[i].n BY <1>2, <1>11, <1>17, <2>3, <2>5
  <2> QED BY <1>2, <2>2, <2>3, <2>6
<1>5. line.kind = "completed" => from = to /\ line.n \in {0, to, to + 1}
  <2> SUFFICES ASSUME line.kind = "completed" PROVE from = to /\ line.n \in {0, to, to + 1} OBVIOUS
  <2>1. \A k \in One : lines[k].kind # "delta"
    <3> SUFFICES ASSUME NEW k \in One, lines[k].kind = "delta" PROVE FALSE OBVIOUS
    <3>1. k < 1 BY <1>2, <1>13, <1>17
    <3> QED BY <3>1
  <2>2. ~(from + 1 \in from + 1 .. to) BY <1>14, <2>1
  <2> QED BY <1>2, <1>12, <1>15, <1>17, <2>2
<1>6. Carries(rest, After(line, from), to)
  <2> DEFINE f == After(line, from)
  <2>1. f \in Nat /\ f <= to /\ from <= f /\ (f = from \/ (line.kind = "delta" /\ f = from + 1))
    BY <1>2, <1>4, <1>10, <1>15, <1>17 DEF After
  <2>2. ASSUME NEW i \in 1 .. len, rest[i].kind = "delta"
        PROVE  f < rest[i].n /\ rest[i].n <= to
    <3>1. i + 1 \in One /\ 1 < i + 1 /\ rest[i] = lines[i + 1] /\ lines[i + 1].n \in Nat
      BY <1>2, <1>16
    <3>2. from < lines[i + 1].n /\ lines[i + 1].n <= to BY <1>10, <2>2, <3>1
    <3>3. CASE line.kind = "delta"
      <4>1. line.n < lines[i + 1].n BY <1>2, <1>11, <1>17, <2>2, <3>1, <3>3
      <4> QED BY <3>1, <3>2, <3>3, <4>1 DEF After
    <3>4. CASE line.kind # "delta" BY <3>1, <3>2, <3>4 DEF After
    <3> QED BY <3>3, <3>4
  <2>3. ASSUME NEW i \in 1 .. len, rest[i].kind = "delta",
               NEW k \in 1 .. len, k < i, rest[k].kind = "delta"
        PROVE  rest[k].n < rest[i].n
    <3>1. /\ i + 1 \in One /\ rest[i] = lines[i + 1]
          /\ k + 1 \in One /\ rest[k] = lines[k + 1]
      BY <1>2, <1>16
    <3>2. k + 1 < i + 1 BY <2>3
    <3> QED BY <1>11, <2>3, <3>1, <3>2
  <2>4. ASSUME NEW i \in 1 .. len, rest[i].kind = "completed"
        PROVE  /\ rest[i].n \in {0, to, to + 1}
               /\ \A k \in 1 .. len : rest[k].kind = "delta" => k < i
    <3>1. i + 1 \in One /\ rest[i] = lines[i + 1] BY <1>2, <1>16
    <3>2. rest[i].n \in {0, to, to + 1} BY <1>12, <2>4, <3>1
    <3>3. ASSUME NEW k \in 1 .. len, rest[k].kind = "delta" PROVE k < i
      <4>1. k + 1 \in One /\ rest[k] = lines[k + 1] BY <1>2, <1>16
      <4>2. k + 1 < i + 1 BY <1>13, <2>4, <3>1, <3>3, <4>1
      <4> QED BY <4>2
    <3> QED BY <3>2, <3>3
  <2>5. ASSUME NEW n \in f + 1 .. to
        PROVE  \E i \in 1 .. len : rest[i].kind = "delta" /\ rest[i].n = n
    <3>1. n \in from + 1 .. to BY <2>1
    <3>2. PICK i \in One : lines[i].kind = "delta" /\ lines[i].n = n BY <1>14, <3>1
    <3>3. n > f BY <2>1
    <3>4. i # 1 BY <1>2, <2>1, <3>2, <3>3 DEF After
    <3> QED BY <1>3, <3>2, <3>4
  <2> HIDE DEF f
  <2>6. Carries(rest, f, to) BY <1>2, <2>1, <2>2, <2>3, <2>4, <2>5, CarriesIf
  <2> QED BY <2>6 DEF f
<1> QED BY <1>4, <1>5, <1>6, CompletesTail DEF line, rest

LEMMA MoreLines ==
  ASSUME NEW lines \in Seq(Line), NEW line \in Line
  PROVE  /\ Append(lines, line) \in Seq(Line)
         /\ Len(lines) \in Nat /\ Len(Append(lines, line)) = Len(lines) + 1
         /\ \A i \in 1 .. Len(lines) : Append(lines, line)[i] = lines[i]
         /\ Append(lines, line)[Len(lines) + 1] = line
BY AppendProperties

LEMMA CompletesAppend ==
  ASSUME NEW lines \in Seq(Line), NEW line \in Line
  PROVE  Completes(Append(lines, line)) <=> line.kind = "completed" \/ Completes(lines)
<1> DEFINE more == Append(lines, line)
<1>1. PICK len \in Nat : len = Len(lines) BY MoreLines
<1>2. /\ DOMAIN lines = 1 .. len /\ DOMAIN more = 1 .. len + 1 /\ more[len + 1] = line
      /\ \A i \in 1 .. len : more[i] = lines[i] /\ i \in 1 .. len + 1
      /\ len + 1 \in 1 .. len + 1
  BY <1>1, MoreLines
<1>3. \A i \in 1 .. len + 1 : i = len + 1 \/ i \in 1 .. len OBVIOUS
<1> HIDE DEF more
<1>4. Completes(more) <=> line.kind = "completed" \/ Completes(lines)
  BY <1>2, <1>3 DEF Completes
<1> QED BY <1>4 DEF more

\* A delta may be appended where nothing has completed, and any other line that fits.
LEMMA CarriesAppend ==
  ASSUME NEW lines \in Seq(Line), NEW line \in Line, NEW from \in Nat, NEW to \in Nat,
         Carries(lines, from, to),
         line.kind = "delta" => line.n = to + 1 /\ ~Completes(lines),
         line.kind = "completed" => line.n \in {0, to, to + 1}
  PROVE  /\ Carries(Append(lines, line), from, After(line, to))
         /\ Completes(Append(lines, line)) <=> line.kind = "completed" \/ Completes(lines)
<1> DEFINE more == Append(lines, line)
           t == After(line, to)
<1>1. PICK len \in Nat : len = Len(lines) BY MoreLines
<1> DEFINE One == 1 .. len
           All == 1 .. len + 1
<1>2. /\ DOMAIN lines = One /\ DOMAIN more = All /\ more[len + 1] = line
      /\ \A i \in One : more[i] = lines[i] /\ i \in All /\ i < len + 1 /\ lines[i].n \in Nat
      /\ len + 1 \in All
  BY <1>1, MoreLines DEF Line
<1>3. \A i \in All : i = len + 1 \/ i \in One OBVIOUS
<1>4. line.n \in Nat BY DEF Line
<1>5. t \in Nat /\ to <= t /\ (line.kind = "delta" => t = to + 1) /\ (line.kind # "delta" => t = to)
  BY <1>4 DEF After
<1> HIDE DEF more
<1>6. ASSUME NEW i \in One, lines[i].kind = "delta"
      PROVE  from < lines[i].n /\ lines[i].n <= to
  BY <1>2, <1>6 DEF Carries
<1>7. ASSUME NEW i \in One, lines[i].kind = "delta", NEW k \in One, k < i, lines[k].kind = "delta"
      PROVE  lines[k].n < lines[i].n
  BY <1>2, <1>7 DEF Carries
<1>8. ASSUME NEW i \in One, lines[i].kind = "completed"
      PROVE  lines[i].n \in {0, to, to + 1} /\ line.kind # "delta"
  BY <1>2, <1>8 DEF Carries, Completes
<1>9. ASSUME NEW i \in One, lines[i].kind = "completed", NEW k \in One, lines[k].kind = "delta"
      PROVE  k < i
  BY <1>2, <1>9 DEF Carries
<1>10. ASSUME NEW n \in from + 1 .. to
       PROVE  \E i \in One : lines[i].kind = "delta" /\ lines[i].n = n
  BY <1>2, <1>10 DEF Carries
<1>11. from <= to BY DEF Carries
<1>12. ASSUME NEW i \in All, more[i].kind = "delta"
       PROVE  from < more[i].n /\ more[i].n <= t
  <2>1. CASE i = len + 1 BY <1>2, <1>4, <1>5, <1>11, <1>12, <2>1
  <2>2. CASE i \in One BY <1>2, <1>5, <1>6, <1>12, <2>2
  <2> QED BY <1>3, <2>1, <2>2
<1>13. ASSUME NEW i \in All, more[i].kind = "delta", NEW k \in All, k < i, more[k].kind = "delta"
       PROVE  more[k].n < more[i].n
  <2>1. k \in One BY <1>13
  <2>2. CASE i = len + 1
    <3>1. lines[k].n <= to BY <1>2, <1>6, <1>13, <2>1
    <3>2. more[i] = line /\ more[k] = lines[k] /\ line.n = to + 1 /\ lines[k].n \in Nat
      BY <1>2, <1>13, <2>1, <2>2
    <3> QED BY <3>1, <3>2
  <2>3. CASE i \in One BY <1>2, <1>7, <1>13, <2>1, <2>3
  <2> QED BY <1>3, <2>2, <2>3
<1>14. ASSUME NEW i \in All, more[i].kind = "completed"
       PROVE  more[i].n \in {0, t, t + 1}
  <2>1. CASE i = len + 1
    <3>1. line.kind = "completed" /\ line.kind # "delta" BY <1>2, <1>14, <2>1
    <3> QED BY <1>2, <1>5, <2>1, <3>1
  <2>2. CASE i \in One BY <1>2, <1>5, <1>8, <1>14, <2>2
  <2> QED BY <1>3, <2>1, <2>2
<1>15. ASSUME NEW i \in All, more[i].kind = "completed", NEW k \in All, more[k].kind = "delta"
       PROVE  k < i
  <2>1. i = len + 1 => k # len + 1 BY <1>2, <1>15
  <2>2. CASE i = len + 1 BY <1>3, <2>1, <2>2
  <2>3. CASE i \in One
    <3>1. lines[i].kind = "completed" BY <1>2, <1>15, <2>3
    <3>2. k # len + 1 BY <1>2, <1>8, <1>15, <2>3, <3>1
    <3>3. k \in One /\ lines[k].kind = "delta" BY <1>2, <1>3, <1>15, <3>2
    <3> QED BY <1>9, <2>3, <3>1, <3>3
  <2> QED BY <1>3, <2>2, <2>3
<1>16. ASSUME NEW n \in from + 1 .. t
       PROVE  \E i \in All : more[i].kind = "delta" /\ more[i].n = n
  <2>1. CASE n \in from + 1 .. to BY <1>2, <1>10, <2>1
  <2>2. CASE n \notin from + 1 .. to
    <3>1. line.kind = "delta" /\ n = to + 1 BY <1>5, <1>11, <2>2
    <3> QED BY <1>2, <3>1
  <2> QED BY <2>1, <2>2
<1>17. Carries(more, from, t)
  <2>1. DOMAIN more = All /\ t \in Nat /\ from <= t BY <1>2, <1>5, <1>11
  <2> HIDE DEF t, One, All
  <2> QED BY <1>12, <1>13, <1>14, <1>15, <1>16, <2>1, CarriesIf
<1> QED BY <1>17, CompletesAppend DEF more

LEMMA CarriesNothing ==
  ASSUME NEW none, none = <<>>, NEW from \in Nat, NEW to \in Nat
  PROVE  /\ Carries(none, from, to) => from = to
         /\ Carries(none, from, from)
         /\ ~Completes(none)
<1>1. DOMAIN none = {} BY EmptySeq
<1>2. Carries(none, from, to) => from = to
  <2> SUFFICES ASSUME Carries(none, from, to), from # to PROVE FALSE OBVIOUS
  <2>1. from + 1 \in from + 1 .. to BY DEF Carries
  <2> QED BY <1>1, <2>1 DEF Carries
<1>3. Carries(none, from, from)
  <2>1. from + 1 .. from = {} OBVIOUS
  <2> QED BY <1>1, <2>1, CarriesIf
<1> QED BY <1>1, <1>2, <1>3 DEF Completes

\* What a run is handed when it takes a line.
Continues(line, seen, sent) ==
  /\ line.kind = "delta" => line.n = seen + 1
  /\ line.kind = "completed" => seen = sent /\ line.n \in {0, sent, sent + 1}

LEMMA AfterLine ==
  ASSUME NEW line \in Line, NEW n \in Nat
  PROVE  After(line, n) \in Nat /\ line.n \in Nat
BY DEF After, Line

LEMMA CarriesOn ==
  ASSUME NEW lines \in Seq(Line), lines # <<>>, NEW from \in Nat, NEW to \in Nat,
         Carries(lines, from, to)
  PROVE  /\ Continues(Head(lines), from, to)
         /\ Carries(Tail(lines), After(Head(lines), from), to)
         /\ After(Head(lines), from) <= to
         /\ Head(lines) \in Line /\ Tail(lines) \in Seq(Line)
         /\ Completes(lines) <=> Head(lines).kind = "completed" \/ Completes(Tail(lines))
<1>1. /\ Carries(Tail(lines), After(Head(lines), from), to)
      /\ Completes(lines) <=> Head(lines).kind = "completed" \/ Completes(Tail(lines))
  BY CarriesTail
<1>2. Continues(Head(lines), from, to) BY CarriesTail DEF Continues
<1>3. Head(lines) \in Line /\ Tail(lines) \in Seq(Line) BY HeadTailProperties
<1> QED BY <1>1, <1>2, <1>3 DEF Carries

\* The run takes the first line of the buffer, ...
LEMMA PipeTake ==
  ASSUME NEW buffered \in Seq(Line), NEW unread \in Seq(Line),
         NEW seen \in Nat, NEW sent \in Nat, buffered # <<>>, Pipe(seen, buffered, unread, sent)
  PROVE  /\ Continues(Head(buffered), seen, sent)
         /\ Pipe(After(Head(buffered), seen), Tail(buffered), unread, sent)
<1>1. PICK middle \in 0 .. sent :
        /\ Carries(buffered, seen, middle) /\ Carries(unread, middle, sent)
        /\ Completes(buffered) => middle = sent
  BY DEF Pipe
<1>2. /\ Continues(Head(buffered), seen, middle)
      /\ Carries(Tail(buffered), After(Head(buffered), seen), middle)
      /\ Completes(buffered) <=> Head(buffered).kind = "completed" \/ Completes(Tail(buffered))
  BY <1>1, CarriesOn
<1>3. Continues(Head(buffered), seen, sent) BY <1>1, <1>2 DEF Continues
<1> QED BY <1>1, <1>2, <1>3 DEF Pipe

\* ... or is handed a line that was just read, ...
LEMMA PipeHand ==
  ASSUME NEW buffered, buffered = <<>>, NEW unread \in Seq(Line),
         NEW seen \in Nat, NEW sent \in Nat, unread # <<>>, Pipe(seen, buffered, unread, sent)
  PROVE  /\ Continues(Head(unread), seen, sent)
         /\ Pipe(After(Head(unread), seen), buffered, Tail(unread), sent)
<1>1. PICK middle \in 0 .. sent : Carries(buffered, seen, middle) /\ Carries(unread, middle, sent)
  BY DEF Pipe
<1>2. seen = middle BY <1>1, CarriesNothing
<1>3. /\ Continues(Head(unread), seen, sent)
      /\ Carries(Tail(unread), After(Head(unread), seen), sent)
      /\ After(Head(unread), seen) <= sent /\ Head(unread) \in Line
  BY <1>1, <1>2, CarriesOn
<1> DEFINE more == After(Head(unread), seen)
<1>4. more \in Nat /\ more <= sent
  <2>1. more \in Nat BY <1>3, AfterLine
  <2> QED BY <1>3, <2>1
<1> HIDE DEF more
<1>5. more \in 0 .. sent BY <1>4
<1>6. Carries(buffered, more, more) /\ ~Completes(buffered) BY <1>4, CarriesNothing
<1>7. Pipe(more, buffered, Tail(unread), sent) BY <1>3, <1>5, <1>6 DEF Pipe, more
<1> QED BY <1>3, <1>7 DEF more

\* ... that otherwise goes to the end of the buffer, ...
LEMMA PipeBuffer ==
  ASSUME NEW buffered \in Seq(Line), NEW unread \in Seq(Line),
         NEW seen \in Nat, NEW sent \in Nat, unread # <<>>, Pipe(seen, buffered, unread, sent)
  PROVE  Pipe(seen, Append(buffered, Head(unread)), Tail(unread), sent)
<1> DEFINE line == Head(unread)
<1>1. PICK middle \in 0 .. sent :
        /\ Carries(buffered, seen, middle) /\ Carries(unread, middle, sent)
        /\ Completes(buffered) => middle = sent
  BY DEF Pipe
<1>2. /\ Continues(line, middle, sent) /\ Carries(Tail(unread), After(line, middle), sent)
      /\ After(line, middle) <= sent /\ line \in Line
  BY <1>1, CarriesOn
<1> HIDE DEF line
<1>3. After(line, middle) \in 0 .. sent BY <1>1, <1>2, AfterLine
<1>4. line.kind = "delta" => line.n = middle + 1 /\ ~Completes(buffered)
  BY <1>1, <1>2 DEF Continues, After
<1>5. line.kind = "completed" => line.n \in {0, middle, middle + 1} /\ middle = sent
  BY <1>2 DEF Continues
<1>6. /\ Carries(Append(buffered, line), seen, After(line, middle))
      /\ Completes(Append(buffered, line)) <=> line.kind = "completed" \/ Completes(buffered)
  BY <1>1, <1>2, <1>4, <1>5, CarriesAppend
<1>7. Completes(Append(buffered, line)) => After(line, middle) = sent
  BY <1>1, <1>4, <1>5, <1>6 DEF After
<1> QED BY <1>2, <1>3, <1>6, <1>7 DEF Pipe, line

\* ... unless it is nothing of the turn.
LEMMA PipeSkip ==
  ASSUME NEW buffered \in Seq(Line), NEW unread \in Seq(Line),
         NEW seen \in Nat, NEW sent \in Nat, unread # <<>>, Pipe(seen, buffered, unread, sent),
         Head(unread).kind \notin {"delta", "completed"}
  PROVE  Pipe(seen, buffered, Tail(unread), sent)
<1>1. PICK middle \in 0 .. sent :
        /\ Carries(buffered, seen, middle) /\ Carries(unread, middle, sent)
        /\ Completes(buffered) => middle = sent
  BY DEF Pipe
<1>2. Carries(Tail(unread), middle, sent)
  BY <1>1, CarriesOn DEF After
<1> QED BY <1>1, <1>2 DEF Pipe

\* The server writes on where it stopped.
LEMMA PipeWrite ==
  ASSUME NEW buffered \in Seq(Line), NEW unread \in Seq(Line),
         NEW seen \in Nat, NEW sent \in Nat, Pipe(seen, buffered, unread, sent),
         NEW line \in Line,
         line.kind = "delta" => line.n = sent + 1 /\ ~Completes(buffered) /\ ~Completes(unread),
         line.kind = "completed" => line.n \in {0, sent, sent + 1}
  PROVE  Pipe(seen, buffered, Append(unread, line), After(line, sent))
<1>1. PICK middle \in 0 .. sent :
        /\ Carries(buffered, seen, middle) /\ Carries(unread, middle, sent)
        /\ Completes(buffered) => middle = sent
  BY DEF Pipe
<1>2. Carries(Append(unread, line), middle, After(line, sent))
  BY <1>1, CarriesAppend
<1>3. sent <= After(line, sent) /\ After(line, sent) \in Nat /\ middle \in 0 .. After(line, sent)
  BY <1>1, AfterLine DEF After
<1>4. Completes(buffered) => middle = After(line, sent)
  BY <1>1 DEF After
<1> QED BY <1>1, <1>2, <1>3, <1>4 DEF Pipe

-----------------------------------------------------------------------------
(* The text of a run                                                       *)

\* How many pieces a run was given.
TextLen(r) == Len(r.emitted) + Len(r.carry) + r.cut

\* Pieces in their order, from one number to another.
Rises(seq, from, to) ==
  \A i \in DOMAIN seq :
    /\ from < seq[i] /\ seq[i] <= to
    /\ \A k \in DOMAIN seq : k < i => seq[k] < seq[i]

\* What was handed over and what is held back are in order, and whole while nothing
\* was cut off.
Counted(r) ==
  /\ r.cut = 0 => Counts(r.emitted, 0) /\ Counts(r.carry, Len(r.emitted))
  /\ \E mid \in 0 .. TextLen(r) : Rises(r.emitted, 0, mid) /\ Rises(r.carry, mid, TextLen(r))

\* A notification is in its hands, and is part of the text if it is a delta.
Holds(r) == r.at = "collecting" /\ r.promise = "resolved"

TextSeen(r) == IF Holds(r) THEN After(r.note, TextLen(r)) ELSE TextLen(r)

\* The end of the turn comes after all of its deltas.
EndsTurn(r, s) ==
  TextLen(r) = s.deltas /\ r.note.n \in {0, s.deltas, s.deltas + 1} /\ s.turn = "over"

\* All of the text was handed over or cut off, and what only the final message has.
AllEmitted(r, s) ==
  /\ Len(r.emitted) + r.cut >= s.deltas
  /\ r.note.n > s.deltas /\ r.cut = 0 => Len(r.emitted) = r.note.n

\* What is on its way to a run goes on where the text of the run stops, up to the last
\* delta of the server, unless the transport failed and nothing is on its way.
PipeSound(r, t, s) ==
  /\ Completes(t.notifications) \/ Completes(s.stdout) => s.turn = "over"
  /\ t.failure = "none" /\ r.at \notin {"finishing", "reconciling", "cleaning", "over"} =>
       Pipe(TextSeen(r), t.notifications, s.stdout, s.deltas)

NoteSound(r, s) ==
  /\ Holds(r) => Continues(r.note, TextLen(r), s.deltas)
  /\ Holds(r) /\ r.note.kind = "completed" => s.turn = "over"
  /\ r.at = "finishing" => r.carry = <<>> /\ EndsTurn(r, s)
  /\ r.at = "reconciling" =>
       /\ r.carry = <<>> /\ s.turn = "over"
       /\ r.note.n \in {s.deltas, s.deltas + 1} /\ TextLen(r) = r.note.n
  /\ r.outcome = "returned" => r.at \in {"cleaning", "over"} /\ AllEmitted(r, s)

TextSound(r, t, s) == Counted(r) /\ PipeSound(r, t, s) /\ NoteSound(r, s)

TextInd == TextSound(run, transport, server)

LEMMA TextTypes ==
  ASSUME NEW r \in RunState
  PROVE  /\ Len(r.emitted) \in Nat /\ Len(r.carry) \in Nat /\ r.cut \in Nat /\ TextLen(r) \in Nat
         /\ r.note \in Line /\ r.note.n \in Nat /\ TextSeen(r) \in Nat
<1>1. r.note \in Line /\ r.emitted \in Seq(Nat) /\ r.carry \in Seq(Nat) /\ r.cut \in Nat
  BY DEF RunState
<1>2. Len(r.emitted) \in Nat /\ Len(r.carry) \in Nat /\ TextLen(r) \in Nat
  <2>1. Len(r.emitted) \in Nat /\ Len(r.carry) \in Nat BY <1>1, LenProperties
  <2>2. PICK m \in Nat, n \in Nat, c \in Nat : m = Len(r.emitted) /\ n = Len(r.carry) /\ c = r.cut
    BY <1>1, <2>1
  <2>3. TextLen(r) = m + n + c BY <2>2 DEF TextLen
  <2>4. m + n + c \in Nat OBVIOUS
  <2> QED BY <2>1, <2>3, <2>4
<1>3. r.note.n \in Nat /\ After(r.note, TextLen(r)) \in Nat BY <1>1, <1>2, AfterLine
<1>4. TextSeen(r) \in Nat BY <1>2, <1>3 DEF TextSeen
<1> QED BY <1>1, <1>2, <1>3, <1>4

\* Whatever leaves text, phase and what the run holds alone.
LEMMA TextKept ==
  ASSUME NEW r, NEW t, NEW s, NEW p, NEW u, NEW v, TextSound(r, t, s),
         p.at = r.at, p.emitted = r.emitted, p.carry = r.carry, p.cut = r.cut, p.note = r.note,
         p.outcome = r.outcome, Holds(p) <=> Holds(r),
         u.notifications = t.notifications \/ (u.notifications = <<>> /\ u.failure # "none"),
         u.failure = "none" => t.failure = "none",
         v.stdout = s.stdout, v.deltas = s.deltas, v.turn = s.turn
  PROVE  TextSound(p, u, v)
<1>1. TextLen(p) = TextLen(r) /\ TextSeen(p) = TextSeen(r)
  BY DEF TextLen, TextSeen
<1>2. Counted(p) BY DEF TextSound, Counted, TextLen
<1>3. Completes(u.notifications) => Completes(t.notifications)
  BY CarriesNothing
<1>4. PipeSound(p, u, v) BY <1>1, <1>3 DEF TextSound, PipeSound
<1>5. NoteSound(p, v) BY <1>1 DEF TextSound, NoteSound, EndsTurn, AllEmitted
<1> QED BY <1>2, <1>4, <1>5 DEF TextSound

\* A run that may ask for the next notification.
ReadyFor(r, t, s) ==
  /\ r \in RunState /\ r.at = "collecting" /\ Counted(r) /\ r.outcome # "returned"
  /\ Completes(t.notifications) \/ Completes(s.stdout) => s.turn = "over"
  /\ t.failure = "none" => Pipe(TextLen(r), t.notifications, s.stdout, s.deltas)

LEMMA NextKeepsText ==
  ASSUME CodexTypeOK, NEW r, ReadyFor(r, transport, server),
         NextNotification(r), UNCHANGED server
  PROVE  TextInd'
<1>1. /\ r \in RunState /\ transport \in TransportState /\ server \in ServerState
      /\ transport.notifications \in Seq(Line) /\ server.stdout \in Seq(Line)
      /\ server.deltas \in Nat /\ TextLen(r) \in Nat
  BY TypeParts, TextTypes DEF ReadyFor, TransportState, ServerState
<1>2. SUFFICES TextSound(run', transport', server) BY DEF TextInd
<1> DEFINE some == transport.failure = "none" /\ transport.notifications # <<>>
           line == Head(transport.notifications)
<1>3. CASE some
  <2>1. /\ run' = [r EXCEPT !.promise = "resolved", !.note = line]
        /\ transport'.notifications = Tail(transport.notifications)
    BY <1>1, <1>3 DEF NextNotification, TransportState
  <2>2. /\ Continues(line, TextLen(r), server.deltas)
        /\ Pipe(After(line, TextLen(r)), Tail(transport.notifications), server.stdout, server.deltas)
    BY <1>1, <1>3, PipeTake DEF ReadyFor
  <2>3. Completes(transport.notifications) <=>
          line.kind = "completed" \/ Completes(Tail(transport.notifications))
    BY <1>1, <1>3, CompletesTail
  <2> HIDE DEF line
  <2>4. /\ run'.at = "collecting" /\ run'.promise = "resolved" /\ run'.note = line
        /\ run'.emitted = r.emitted /\ run'.carry = r.carry /\ run'.cut = r.cut /\ run'.outcome = r.outcome
    BY <1>1, <2>1 DEF RunState, ReadyFor
  <2>5. Holds(run') /\ TextLen(run') = TextLen(r) /\ TextSeen(run') = After(line, TextLen(r))
    BY <2>4 DEF Holds, TextLen, TextSeen
  <2>6. Counted(run') BY <2>4 DEF Counted, TextLen, ReadyFor
  <2>7. PipeSound(run', transport', server)
    BY <2>1, <2>2, <2>3, <2>5 DEF PipeSound, ReadyFor
  <2>8. NoteSound(run', server)
    BY <2>2, <2>3, <2>4, <2>5 DEF NoteSound, ReadyFor
  <2> QED BY <2>6, <2>7, <2>8 DEF TextSound
<1>4. CASE ~some
  <2>1. PICK promise \in {"rejected", "waiting"} : run' = [r EXCEPT !.promise = promise]
    BY <1>4 DEF NextNotification
  <2>2. transport'.notifications = transport.notifications /\ transport'.failure = transport.failure
    BY <1>1, <1>4 DEF NextNotification, TransportState
  <2>3. /\ run'.at = "collecting" /\ run'.promise # "resolved"
        /\ run'.emitted = r.emitted /\ run'.carry = r.carry /\ run'.cut = r.cut /\ run'.outcome = r.outcome
    BY <1>1, <2>1 DEF RunState, ReadyFor
  <2>4. ~Holds(run') /\ TextLen(run') = TextLen(r) /\ TextSeen(run') = TextLen(r)
    BY <2>3 DEF Holds, TextLen, TextSeen
  <2>5. Counted(run') BY <2>3 DEF Counted, TextLen, ReadyFor
  <2>6. PipeSound(run', transport', server)
    BY <2>2, <2>4 DEF PipeSound, ReadyFor
  <2>7. NoteSound(run', server)
    BY <2>3, <2>4 DEF NoteSound, ReadyFor
  <2> QED BY <2>5, <2>6, <2>7 DEF TextSound
<1> QED BY <1>3, <1>4

LEMMA ThrowsKeepsText ==
  ASSUME CodexTypeOK, TextInd, NEW r \in RunState, Counted(r), Throws(r),
         r.outcome = "returned" => AllEmitted(r, server)
  PROVE  TextInd'
<1>1. transport \in TransportState /\ server \in ServerState
  BY TypeParts
<1>2. /\ run'.at = "cleaning" /\ run'.promise = "none" /\ run'.note = r.note
      /\ run'.emitted = r.emitted /\ run'.carry = r.carry /\ run'.cut = r.cut /\ run'.outcome = r.outcome
  BY DEF Throws, RunState
<1>3. transport'.failure # "none" /\ transport'.notifications = <<>>
  BY <1>1 DEF Throws, FailAll, TransportState
<1>4. server'.stdout = server.stdout /\ server'.deltas = server.deltas /\ server'.turn = server.turn
  BY <1>1 DEF Throws, ServerState
<1>5. Counted(run') BY <1>2 DEF Counted, TextLen
<1>6. ~Completes(transport'.notifications) BY <1>3, CarriesNothing
<1>7. PipeSound(run', transport', server')
  BY <1>3, <1>4, <1>6 DEF PipeSound, TextInd, TextSound
<1>8. NoteSound(run', server')
  BY <1>2, <1>4 DEF NoteSound, Holds, AllEmitted
<1> QED BY <1>5, <1>7, <1>8 DEF TextInd, TextSound

LEMMA CrashesKeepsText ==
  ASSUME CodexTypeOK, TextInd, run.outcome # "returned", Crashes
  PROVE  TextInd'
<1>1. run \in RunState /\ transport \in TransportState /\ Counted(run)
  BY TypeParts DEF TextInd, TextSound
<1>2. /\ run'.at = "crashed" /\ run'.promise = "none" /\ run'.note = run.note
      /\ run'.emitted = run.emitted /\ run'.carry = run.carry /\ run'.cut = run.cut
      /\ run'.outcome = run.outcome
  BY <1>1 DEF Crashes, RunState
<1>3. transport'.failure # "none" /\ transport'.notifications = <<>> /\ UNCHANGED server
  BY <1>1 DEF Crashes, FailAll, TransportState
<1>4. Counted(run') BY <1>1, <1>2 DEF Counted, TextLen
<1>5. ~Completes(transport'.notifications) BY <1>3, CarriesNothing
<1>6. PipeSound(run', transport', server')
  BY <1>3, <1>5 DEF PipeSound, TextInd, TextSound
<1>7. NoteSound(run', server') BY <1>2 DEF NoteSound, Holds
<1> QED BY <1>4, <1>6, <1>7 DEF TextInd, TextSound

LEMMA CountsLonger ==
  ASSUME NEW first \in Seq(Nat), NEW second \in Seq(Nat), NEW n \in Nat,
         Counts(first, n), Counts(second, n + Len(first))
  PROVE  Counts(first \o second, n)
<1>1. PICK k \in Nat, l \in Nat : k = Len(first) /\ l = Len(second) OBVIOUS
<1>2. /\ DOMAIN (first \o second) = 1 .. k + l /\ DOMAIN first = 1 .. k /\ DOMAIN second = 1 .. l
      /\ \A i \in 1 .. k + l : (first \o second)[i] = IF i <= k THEN first[i] ELSE second[i - k]
  BY <1>1, ConcatProperties
<1> DEFINE both == first \o second
<1> HIDE DEF both
<1>3. ASSUME NEW i \in 1 .. k + l PROVE both[i] = n + i
  <2>1. CASE i <= k
    <3>1. i \in 1 .. k BY <2>1
    <3> QED BY <1>2, <2>1, <3>1 DEF Counts, both
  <2>2. CASE ~(i <= k)
    <3>1. i - k \in 1 .. l BY <2>2
    <3>2. second[i - k] = n + k + (i - k) BY <1>1, <1>2, <3>1 DEF Counts
    <3>3. both[i] = second[i - k] BY <1>2, <2>2 DEF both
    <3> QED BY <3>2, <3>3
  <2> QED BY <2>1, <2>2
<1> QED BY <1>2, <1>3 DEF Counts, both

LEMMA CountsOne ==
  ASSUME NEW n \in Nat, NEW m \in Nat, m = n + 1
  PROVE  Counts(<<m>>, n) /\ Len(<<m>>) = 1 /\ <<m>> \in Seq(Nat)
BY DEF Counts

LEMMA CountsNext ==
  ASSUME NEW seq \in Seq(Nat), NEW n \in Nat, Counts(seq, n), NEW m \in Nat, m = n + Len(seq) + 1
  PROVE  Counts(Append(seq, m), n) /\ Append(seq, m) \in Seq(Nat) /\ Len(Append(seq, m)) = Len(seq) + 1
<1>1. PICK len \in Nat : len = Len(seq) OBVIOUS
<1>2. /\ DOMAIN Append(seq, m) = 1 .. len + 1 /\ DOMAIN seq = 1 .. len
      /\ Append(seq, m) \in Seq(Nat) /\ Len(Append(seq, m)) = len + 1
      /\ \A i \in 1 .. len : Append(seq, m)[i] = seq[i]
      /\ Append(seq, m)[len + 1] = m
  BY <1>1, AppendProperties
<1>3. ASSUME NEW i \in 1 .. len + 1 PROVE Append(seq, m)[i] = n + i
  <2>1. CASE i = len + 1 BY <1>1, <1>2, <2>1
  <2>2. CASE i # len + 1
    <3>1. i \in 1 .. len BY <2>2
    <3> QED BY <1>2, <3>1 DEF Counts
  <2> QED BY <2>1, <2>2
<1> QED BY <1>1, <1>2, <1>3 DEF Counts

LEMMA CountsNone ==
  ASSUME NEW n, NEW none, none = <<>>
  PROVE  Counts(none, n) /\ Len(none) = 0
BY EmptySeq DEF Counts

LEMMA RisesNone ==
  ASSUME NEW none, none = <<>>, NEW from, NEW to
  PROVE  Rises(none, from, to)
BY EmptySeq DEF Rises

LEMMA RisesWider ==
  ASSUME NEW seq \in Seq(Nat), NEW from \in Nat, NEW to \in Nat, NEW more \in Nat,
         to <= more, Rises(seq, from, to)
  PROVE  Rises(seq, from, more)
<1>1. \A i \in DOMAIN seq : seq[i] \in Nat OBVIOUS
<1> QED BY <1>1 DEF Rises

LEMMA RisesFirst ==
  ASSUME NEW seq \in Seq(Nat), NEW k \in 1 .. Len(seq), NEW from, NEW to, Rises(seq, from, to)
  PROVE  Rises(SubSeq(seq, 1, k), from, to)
<1> DEFINE first == SubSeq(seq, 1, k)
<1>1. PICK len \in Nat : len = Len(seq) OBVIOUS
<1>2. /\ DOMAIN first = 1 .. k /\ DOMAIN seq = 1 .. len /\ k \in Nat /\ k <= len
      /\ \A i \in 1 .. k : first[i] = seq[i]
  BY <1>1, FirstPart
<1>3. \A i \in 1 .. k : i \in 1 .. len BY <1>2
<1> HIDE DEF first
<1> QED BY <1>2, <1>3 DEF Rises, first

LEMMA RisesLonger ==
  ASSUME NEW first \in Seq(Nat), NEW second \in Seq(Nat),
         NEW from \in Nat, NEW mid \in Nat, NEW to \in Nat, from <= mid, mid <= to,
         Rises(first, from, mid), Rises(second, mid, to)
  PROVE  Rises(first \o second, from, to)
<1>1. PICK k \in Nat, l \in Nat : k = Len(first) /\ l = Len(second) OBVIOUS
<1> DEFINE both == first \o second
<1>2. /\ DOMAIN both = 1 .. k + l /\ DOMAIN first = 1 .. k /\ DOMAIN second = 1 .. l
      /\ \A i \in 1 .. k + l : both[i] = IF i <= k THEN first[i] ELSE second[i - k]
  BY <1>1, ConcatProperties
<1>3. /\ \A i \in 1 .. k : first[i] \in Nat
      /\ \A i \in 1 .. l : second[i] \in Nat
  BY <1>1
<1> HIDE DEF both
<1>4. ASSUME NEW i \in 1 .. k + l, i <= k
      PROVE  i \in 1 .. k /\ both[i] = first[i] /\ from < both[i] /\ both[i] <= mid /\ both[i] \in Nat
  <2>1. i \in 1 .. k BY <1>4
  <2> QED BY <1>2, <1>3, <1>4, <2>1 DEF Rises
<1>5. ASSUME NEW i \in 1 .. k + l, ~(i <= k)
      PROVE  /\ i - k \in 1 .. l /\ both[i] = second[i - k]
             /\ mid < both[i] /\ both[i] <= to /\ both[i] \in Nat
  <2>1. i - k \in 1 .. l BY <1>5
  <2> QED BY <1>2, <1>3, <1>5, <2>1 DEF Rises
<1>6. ASSUME NEW i \in 1 .. k + l PROVE from < both[i] /\ both[i] <= to
  <2>1. CASE i <= k
    <3>1. from < both[i] /\ both[i] <= mid /\ both[i] \in Nat BY <1>4, <2>1
    <3> QED BY <3>1
  <2>2. CASE ~(i <= k)
    <3>1. mid < both[i] /\ both[i] <= to /\ both[i] \in Nat BY <1>5, <2>2
    <3> QED BY <3>1
  <2> QED BY <2>1, <2>2
<1>7. ASSUME NEW i \in 1 .. k + l, NEW j \in 1 .. k + l, j < i PROVE both[j] < both[i]
  <2>1. CASE i <= k
    <3>1. j <= k BY <1>7, <2>1
    <3>2. /\ i \in 1 .. k /\ both[i] = first[i]
          /\ j \in 1 .. k /\ both[j] = first[j]
      BY <1>4, <2>1, <3>1
    <3> QED BY <1>2, <1>7, <3>2 DEF Rises
  <2>2. CASE ~(i <= k)
    <3>1. /\ i - k \in 1 .. l /\ both[i] = second[i - k] /\ mid < both[i] /\ both[i] \in Nat
      BY <1>5, <2>2
    <3>2. CASE j <= k
      <4>1. both[j] <= mid /\ both[j] \in Nat BY <1>4, <3>2
      <4> QED BY <3>1, <4>1
    <3>3. CASE ~(j <= k)
      <4>1. j - k \in 1 .. l /\ both[j] = second[j - k] BY <1>5, <3>3
      <4>2. j - k < i - k BY <1>7
      <4> QED BY <1>2, <3>1, <4>1, <4>2 DEF Rises
    <3> QED BY <3>2, <3>3
  <2> QED BY <2>1, <2>2
<1>8. Rises(both, from, to) BY <1>2, <1>6, <1>7 DEF Rises
<1> QED BY <1>8 DEF both

LEMMA RisesNext ==
  ASSUME NEW seq \in Seq(Nat), NEW from \in Nat, NEW to \in Nat, from <= to,
         Rises(seq, from, to), NEW m \in Nat, m = to + 1
  PROVE  Rises(Append(seq, m), from, m)
<1>1. PICK len \in Nat : len = Len(seq) OBVIOUS
<1> DEFINE more == Append(seq, m)
<1>2. /\ DOMAIN more = 1 .. len + 1 /\ DOMAIN seq = 1 .. len
      /\ \A i \in 1 .. len : more[i] = seq[i] /\ seq[i] \in Nat
      /\ more[len + 1] = m
  BY <1>1, AppendProperties
<1> HIDE DEF more
<1>3. \A i \in 1 .. len + 1 : i = len + 1 \/ i \in 1 .. len OBVIOUS
<1>4. \A i \in 1 .. len : from < more[i] /\ more[i] <= to /\ more[i] \in Nat
  BY <1>2 DEF Rises
<1>5. ASSUME NEW i \in 1 .. len + 1 PROVE from < more[i] /\ more[i] <= m
  BY <1>2, <1>3, <1>4
<1>6. ASSUME NEW i \in 1 .. len + 1, NEW j \in 1 .. len + 1, j < i PROVE more[j] < more[i]
  <2>1. j \in 1 .. len BY <1>6
  <2>2. CASE i = len + 1 BY <1>2, <1>4, <2>1, <2>2
  <2>3. CASE i \in 1 .. len BY <1>2, <1>6, <2>1, <2>3 DEF Rises
  <2> QED BY <1>3, <2>2, <2>3
<1>7. Rises(more, from, m) BY <1>2, <1>5, <1>6 DEF Rises
<1> QED BY <1>7 DEF more

\* Numbers that follow one another are in order.
LEMMA CountsRise ==
  ASSUME NEW seq \in Seq(Nat), NEW n \in Nat, Counts(seq, n)
  PROVE  Rises(seq, n, n + Len(seq))
<1>1. PICK len \in Nat : len = Len(seq) OBVIOUS
<1>2. DOMAIN seq = 1 .. len BY <1>1
<1>3. \A i \in 1 .. len : seq[i] = n + i BY <1>2 DEF Counts
<1>4. \A i \in 1 .. len : n < n + i /\ n + i <= n + len /\ i \in Nat OBVIOUS
<1>5. \A i, j \in 1 .. len : j < i => n + j < n + i OBVIOUS
<1> QED BY <1>1, <1>2, <1>3, <1>4, <1>5 DEF Rises

\* onEvent is called with the text that comes next.
LEMMA CutAdds ==
  ASSUME NEW q, NEW to, NEW e \in Nat, NEW l \in Nat, NEW c \in Nat,
         NEW fits \in Nat, NEW cut \in Nat,
         to = e + l + c, cut = c + (l - fits), fits <= l,
         Len(q.emitted) = e + fits, Len(q.carry) = 0, q.cut = cut
  PROVE  TextLen(q) = to
<1>1. TextLen(q) = (e + fits) + 0 + cut BY Zenon DEF TextLen
<1>2. (e + fits) + 0 + cut = to OBVIOUS
<1> QED BY <1>1, <1>2, Zenon

LEMMA EmitsCounted ==
  ASSUME NEW r \in RunState, NEW text \in Seq(Nat), NEW to \in Nat, NEW mid \in 0 .. to,
         to = Len(r.emitted) + Len(text) + r.cut,
         Rises(r.emitted, 0, mid), Rises(text, mid, to),
         r.cut = 0 => Counts(r.emitted, 0) /\ Counts(text, Len(r.emitted)),
         NEW phase \in {"emitting", "finishing", "reconciling"}, Emits(r, text, phase)
  PROVE  /\ run'.at = phase /\ run'.promise = "none" /\ run'.note = r.note
         /\ run'.outcome = r.outcome /\ run'.carry = <<>>
         /\ Counted(run') /\ TextLen(run') = to
         /\ ~Holds(run') /\ TextSeen(run') = TextLen(run')
         /\ UNCHANGED <<transport, server>>
<1>1. phase \in Phase BY DEF Phase
<1>2. PICK fits \in 1 .. Len(text), more \in Seq(Nat), cut \in Nat :
        /\ more = r.emitted \o SubSeq(text, 1, fits)
        /\ cut = r.cut + (Len(text) - fits)
        /\ run' \in RunState
        /\ run'.at = phase /\ run'.promise = "none" /\ run'.note = r.note
        /\ run'.outcome = r.outcome /\ run'.events = r.events + 1
        /\ run'.carry = <<>> /\ run'.emitted = more /\ run'.cut = cut
        /\ UNCHANGED <<transport, server>>
  BY <1>1, EmitsPart, Zenon
<1> DEFINE first == SubSeq(text, 1, fits)
           none == <<>>
<1>3. /\ first \in Seq(Nat) /\ Len(first) = fits /\ fits \in Nat /\ fits <= Len(text)
      /\ \A i \in 1 .. fits : first[i] = text[i]
  BY FirstPart
<1>4. Rises(first, mid, to) BY RisesFirst
<1>5. PICK e \in Nat, l \in Nat, c \in Nat : e = Len(r.emitted) /\ l = Len(text) /\ c = r.cut
  BY LenProperties DEF RunState
<1>6. r.emitted \in Seq(Nat) /\ mid \in Nat /\ 0 <= mid /\ mid <= to BY DEF RunState
<1>7. run'.carry = none /\ Len(none) = 0 BY <1>2, EmptySeq
<1>8. more = r.emitted \o first BY <1>2
<1> HIDE DEF first, none
<1>9. Rises(more, 0, to) BY <1>3, <1>4, <1>6, <1>8, RisesLonger
<1>10. Len(more) = e + fits BY <1>3, <1>5, <1>6, <1>8, ConcatProperties
<1>11. to = e + l + c /\ cut = c + (l - fits) /\ fits <= l
  BY <1>2, <1>3, <1>5
<1>12. TextLen(run') = to
  <2>1. Len(run'.emitted) = e + fits /\ Len(run'.carry) = 0 /\ run'.cut = cut
    BY <1>2, <1>7, <1>10
  <2>2. fits \in Nat BY <1>3, Zenon
  <2>3. to = e + l + c /\ cut = c + (l - fits) /\ fits <= l BY <1>11
  <2> QED BY <2>1, <2>2, <2>3, CutAdds, Zenon
<1>13. Rises(none, to, to) BY RisesNone DEF none
<1>14. cut = 0 => Counts(more, 0)
  <2> SUFFICES ASSUME cut = 0 PROVE Counts(more, 0) OBVIOUS
  <2>1. c = 0 /\ fits = l BY <1>3, <1>11
  <2>2. Counts(r.emitted, 0) /\ Counts(text, e) BY <1>5, <2>1
  <2>3. DOMAIN text = 1 .. l /\ DOMAIN first = 1 .. l BY <1>3, <1>5, <2>1
  <2>4. Counts(first, e) BY <1>3, <2>1, <2>2, <2>3 DEF Counts
  <2>5. 0 + Len(r.emitted) = e BY <1>5
  <2> QED BY <1>3, <1>6, <1>8, <2>2, <2>4, <2>5, CountsLonger
<1>15. Counts(none, Len(more)) BY CountsNone DEF none
<1>16. Counted(run')
  <2>1. to \in 0 .. TextLen(run') BY <1>12
  <2>2. Rises(run'.emitted, 0, to) /\ Rises(run'.carry, to, TextLen(run'))
    BY <1>2, <1>7, <1>9, <1>12, <1>13
  <2>3. run'.cut = 0 => Counts(run'.emitted, 0) /\ Counts(run'.carry, Len(run'.emitted))
    BY <1>2, <1>7, <1>14, <1>15
  <2> QED BY <2>1, <2>2, <2>3, Zenon DEF Counted
<1>17. ~Holds(run') /\ TextSeen(run') = TextLen(run') BY <1>2 DEF Holds, TextSeen
<1> QED BY <1>2, <1>12, <1>16, <1>17

LEMMA ReturnsKeepsText ==
  ASSUME CodexTypeOK, TextInd, NEW r \in RunState, Counted(r), AllEmitted(r, server), Returns(r)
  PROVE  TextInd'
<1> DEFINE p == [r EXCEPT !.outcome = "returned"]
<1>1. /\ p \in RunState /\ p.emitted = r.emitted /\ p.carry = r.carry /\ p.cut = r.cut
      /\ p.note = r.note
  BY DEF RunState
<1>2. Throws(p) BY DEF Returns
<1> HIDE DEF p
<1>3. Counted(p) /\ AllEmitted(p, server)
  BY <1>1 DEF Counted, TextLen, AllEmitted
<1> QED BY <1>1, <1>2, <1>3, ThrowsKeepsText

\* The turn is over and what fits of its deltas is handed to onEvent, but not what the
\* final message may have beyond them.
LEMMA ReconcilesKeepsText ==
  ASSUME CodexTypeOK, TextInd, Reconciles, run.carry = <<>>, EndsTurn(run, server),
         run.outcome # "returned"
  PROVE  TextInd'
<1>1. run \in RunState /\ server.deltas \in Nat /\ Counted(run) /\ run.emitted \in Seq(Nat)
  BY TypeParts DEF ServerState, TextInd, TextSound, RunState
<1>2. PICK len \in Nat, n \in Nat, d \in Nat, c \in Nat :
        len = Len(run.emitted) /\ n = run.note.n /\ d = server.deltas /\ c = run.cut
  BY <1>1, TextTypes
<1>3. TextLen(run) = len + c
  <2>1. Len(run.carry) = 0 BY EmptySeq
  <2> QED BY <1>2, <2>1 DEF TextLen
<1>4. len + c = d /\ n \in {0, d, d + 1} /\ server.turn = "over"
  BY <1>2, <1>3 DEF EndsTurn
<1> DEFINE begins == \A i \in 1 .. len : run.emitted[i] = i
           none == <<>>
<1>5. begins => Counts(run.emitted, 0) /\ Rises(run.emitted, 0, len)
  <2> SUFFICES ASSUME begins PROVE Counts(run.emitted, 0) /\ Rises(run.emitted, 0, len) OBVIOUS
  <2>1. DOMAIN run.emitted = 1 .. len BY <1>1, <1>2
  <2>2. \A i \in 1 .. len : 0 + i = i OBVIOUS
  <2>3. Counts(run.emitted, 0) BY <2>1, <2>2 DEF Counts
  <2>4. 0 + Len(run.emitted) = len BY <1>2
  <2> QED BY <1>1, <2>3, <2>4, CountsRise
<1>6. c = 0 => begins
  <2>1. DOMAIN run.emitted = 1 .. len BY <1>1, <1>2
  <2>2. \A i \in 1 .. len : 0 + i = i OBVIOUS
  <2> QED BY <1>1, <1>2, <2>1, <2>2 DEF Counted, Counts
<1>7. none = run.carry /\ Len(none) = 0 BY EmptySeq
<1> HIDE DEF begins, none
<1>8. ASSUME n > len, begins, Emits([run EXCEPT !.cut = 0], Rest(n, len), "reconciling")
      PROVE  TextInd'
  <2> DEFINE r == [run EXCEPT !.cut = 0]
             text == Rest(n, len)
  <2>1. /\ r \in RunState /\ r.emitted = run.emitted /\ r.cut = 0 /\ r.note = run.note
        /\ r.outcome = run.outcome
    BY <1>1 DEF RunState
  <2>2. /\ text \in Seq(Nat) /\ Len(text) = n - len /\ n - len \in Nat
        /\ \A i \in 1 .. n - len : text[i] = len + i
    BY <1>8, RestIs
  <2>3. Emits(r, text, "reconciling") BY <1>8
  <2> HIDE DEF r, text
  <2>4. Counts(text, len)
    <3>1. DOMAIN text = 1 .. n - len BY <2>2
    <3> QED BY <2>2, <3>1 DEF Counts
  <2>5. Rises(text, len, n)
    <3>1. len + Len(text) = n BY <2>2
    <3> QED BY <2>2, <2>4, <3>1, CountsRise
  <2>6. len \in 0 .. n BY <1>8
  <2>7. n = Len(r.emitted) + Len(text) + r.cut BY <1>2, <2>1, <2>2
  <2>8. Counts(r.emitted, 0) /\ Counts(text, Len(r.emitted)) /\ Rises(r.emitted, 0, len)
    BY <1>2, <1>5, <1>8, <2>1, <2>4
  <2>9. /\ run'.at = "reconciling" /\ run'.note = run.note /\ run'.outcome = run.outcome
        /\ run'.carry = <<>> /\ Counted(run') /\ TextLen(run') = n
        /\ ~Holds(run') /\ UNCHANGED <<transport, server>>
    BY <2>1, <2>2, <2>3, <2>5, <2>6, <2>7, <2>8, EmitsCounted
  <2>10. PipeSound(run', transport', server')
    BY <2>9 DEF TextInd, TextSound, PipeSound
  <2>11. NoteSound(run', server')
    <3>1. run'.note.n \in {server.deltas, server.deltas + 1} /\ TextLen(run') = run'.note.n
      BY <1>2, <1>4, <1>8, <2>9
    <3> QED BY <1>4, <2>9, <3>1 DEF NoteSound
  <2> QED BY <2>9, <2>10, <2>11 DEF TextInd, TextSound
<1>9. ASSUME n > len, begins, Returns([run EXCEPT !.cut = n - len])
      PROVE  TextInd'
  <2> DEFINE r == [run EXCEPT !.cut = n - len]
  <2>1. n - len \in Nat /\ n - len # 0 BY <1>9
  <2>2. /\ r \in RunState /\ r.emitted = run.emitted /\ r.carry = none /\ r.cut = n - len
        /\ r.note = run.note
    BY <1>1, <1>7, <2>1 DEF RunState
  <2>3. Returns(r) BY <1>9
  <2> HIDE DEF r
  <2>4. TextLen(r) = n
    <3>1. TextLen(r) = len + 0 + (n - len) BY <1>2, <1>7, <2>2 DEF TextLen
    <3> QED BY <3>1
  <2>5. len \in 0 .. n BY <1>9
  <2>6. Rises(r.emitted, 0, len) /\ Rises(r.carry, len, n)
    BY <1>5, <1>7, <1>9, <2>2, RisesNone
  <2>7. Counted(r) BY <2>1, <2>2, <2>4, <2>5, <2>6 DEF Counted
  <2>8. AllEmitted(r, server)
    <3>1. len + (n - len) >= d BY <1>4, <1>9
    <3> QED BY <1>2, <2>1, <2>2, <3>1 DEF AllEmitted
  <2> QED BY <2>2, <2>3, <2>7, <2>8, ReturnsKeepsText
<1>10. ASSUME ~(n > len /\ begins), Returns(run)
       PROVE  TextInd'
  <2>1. AllEmitted(run, server)
    <3>1. len + c >= d BY <1>4
    <3>2. n > d /\ c = 0 => len = n BY <1>4, <1>6, <1>10
    <3> QED BY <1>2, <3>1, <3>2 DEF AllEmitted
  <2> QED BY <1>1, <1>10, <2>1, ReturnsKeepsText
<1>11. \/ /\ n > len /\ begins
          /\ \/ Emits([run EXCEPT !.cut = 0], Rest(n, len), "reconciling")
             \/ Returns([run EXCEPT !.cut = n - len])
       \/ ~(n > len /\ begins) /\ Returns(run)
  BY <1>1, <1>2, ReconcilesCases, Zenon DEF begins
<1> QED BY <1>8, <1>9, <1>10, <1>11

LEMMA FinishesKeepsText ==
  ASSUME CodexTypeOK, TextInd, Finishes, EndsTurn(run, server), run.outcome # "returned"
  PROVE  TextInd'
<1>1. run \in RunState /\ run.carry \in Seq(Nat) BY TypeParts DEF RunState
<1>2. CASE run.carry = <<>>
  <2>1. Reconciles BY <1>2 DEF Finishes
  <2> QED BY <1>2, <2>1, ReconcilesKeepsText
<1>3. CASE run.carry # <<>>
  <2>1. Emits(run, run.carry, "finishing") BY <1>3 DEF Finishes
  <2>2. Counted(run) /\ TextLen(run) \in Nat BY <1>1, TextTypes DEF TextInd, TextSound
  <2>6. PICK mid \in 0 .. TextLen(run) :
          Rises(run.emitted, 0, mid) /\ Rises(run.carry, mid, TextLen(run))
    BY <2>2 DEF Counted
  <2>7. run.cut = 0 => Counts(run.emitted, 0) /\ Counts(run.carry, Len(run.emitted))
    BY <2>2 DEF Counted
  <2>8. TextLen(run) = Len(run.emitted) + Len(run.carry) + run.cut BY DEF TextLen
  <2>3. /\ run'.at = "finishing" /\ run'.note = run.note /\ run'.outcome = run.outcome
        /\ run'.carry = <<>> /\ Counted(run') /\ TextLen(run') = TextLen(run)
        /\ ~Holds(run') /\ UNCHANGED <<transport, server>>
    BY <1>1, <2>1, <2>2, <2>6, <2>7, <2>8, EmitsCounted
  <2>4. PipeSound(run', transport', server')
    BY <2>3 DEF TextInd, TextSound, PipeSound
  <2>5. NoteSound(run', server')
    BY <2>3 DEF NoteSound, EndsTurn
  <2> QED BY <2>3, <2>4, <2>5 DEF TextInd, TextSound
<1> QED BY <1>2, <1>3

\* A run that takes no delta in hand may ask for the next notification.
LEMMA RunIsReady ==
  ASSUME TextInd, NEW r \in RunState, r.at = "collecting",
         r.emitted = run.emitted, r.carry = run.carry, r.cut = run.cut, r.outcome = run.outcome,
         run.at \in {"starting", "collecting", "emitting"},
         Holds(run) => run.note.kind # "delta"
  PROVE  ReadyFor(r, transport, server)
<1>1. TextLen(r) = TextLen(run) /\ TextSeen(run) = TextLen(run)
  BY DEF TextLen, TextSeen, After
<1>2. Counted(r) BY DEF Counted, TextLen, TextInd, TextSound
<1>3. r.outcome # "returned" BY DEF TextInd, TextSound, NoteSound
<1> QED BY <1>1, <1>2, <1>3 DEF ReadyFor, TextInd, TextSound, PipeSound

LEMMA CollectsKeepsText ==
  ASSUME CodexTypeOK, TextInd, Collects
  PROVE  TextInd'
<1> DEFINE note == run.note
<1>1. run \in RunState /\ run.at = "collecting" /\ run.promise = "resolved" /\ Holds(run)
  BY TypeParts DEF Collects, Holds
<1>2. Counted(run) /\ run.outcome # "returned" /\ Continues(note, TextLen(run), server.deltas)
  BY <1>1 DEF TextInd, TextSound, NoteSound
<1>3. ASSUME note.kind \in {"foreign", "item"}, NextNotification(run), UNCHANGED server
      PROVE  TextInd'
  <2>1. ReadyFor(run, transport, server) BY <1>1, <1>3, RunIsReady
  <2> QED BY <1>3, <2>1, NextKeepsText
<1>4. ASSUME note.kind = "delta",
             \/ Emits(run, Append(run.carry, note.n), "emitting")
             \/ /\ \/ NextNotification([run EXCEPT !.carry = Append(@, note.n)])
                   \/ NextNotification([run EXCEPT !.cut = @ + 1])
                /\ UNCHANGED server
      PROVE  TextInd'
  <2> DEFINE longer == Append(run.carry, note.n)
             r == [run EXCEPT !.carry = longer]
             p == [run EXCEPT !.cut = @ + 1]
  <2>1. PICK e \in Nat, c \in Nat, x \in Nat, n \in Nat :
          e = Len(run.emitted) /\ c = Len(run.carry) /\ x = run.cut /\ n = note.n
    BY <1>1, TextTypes
  <2>2. TextLen(run) = e + c + x /\ n = e + c + x + 1
    BY <1>2, <1>4, <2>1 DEF TextLen, Continues
  <2>3. PICK mid \in 0 .. TextLen(run) :
          Rises(run.emitted, 0, mid) /\ Rises(run.carry, mid, TextLen(run))
    BY <1>2 DEF Counted, TextLen
  <2>9. mid \in Nat /\ mid \in 0 .. n /\ mid <= TextLen(run) /\ TextLen(run) \in Nat
        /\ n = TextLen(run) + 1 /\ TextLen(run) <= n
    BY <2>2, <2>3
  <2>10. run.carry \in Seq(Nat) BY <1>1 DEF RunState
  <2>11. longer \in Seq(Nat) /\ Len(longer) = c + 1 BY <2>1, <2>10, AppendProperties
  <2>12. Rises(longer, mid, n) BY <2>1, <2>3, <2>9, <2>10, RisesNext
  <2>13. x = 0 => Counts(run.emitted, 0) /\ Counts(longer, e)
    <3> SUFFICES ASSUME x = 0 PROVE Counts(run.emitted, 0) /\ Counts(longer, e) OBVIOUS
    <3>1. Counts(run.emitted, 0) /\ Counts(run.carry, e) BY <1>2, <2>1 DEF Counted
    <3>2. n = e + c + 1 BY <2>2
    <3> QED BY <2>1, <2>10, <3>1, <3>2, CountsNext
  <2>14. Rises(run.carry, mid, n) BY <2>3, <2>9, <2>10, RisesWider
  <2>4. \/ Emits(run, longer, "emitting")
        \/ (NextNotification(r) \/ NextNotification(p)) /\ UNCHANGED server
    BY <1>4
  <2>5. TextSeen(run) = n BY <1>1, <1>4, <2>1 DEF TextSeen, After
  <2>15. p \in RunState /\ p.at = "collecting" /\ p.emitted = run.emitted
         /\ p.carry = run.carry /\ p.cut = x + 1 /\ p.outcome = run.outcome
    BY <1>1, <2>1, CutMore
  <2> HIDE DEF longer, p
  <2>6. ASSUME Emits(run, longer, "emitting") PROVE TextInd'
    <3>1. /\ run'.at = "emitting" /\ run'.outcome = run.outcome
          /\ Counted(run') /\ TextLen(run') = n
          /\ ~Holds(run') /\ TextSeen(run') = TextLen(run') /\ UNCHANGED <<transport, server>>
      <4>1. n = e + (c + 1) + x BY <2>2
      <4>2. n = Len(run.emitted) + Len(longer) + run.cut BY <2>1, <2>11, <4>1
      <4>3. run.cut = 0 => Counts(run.emitted, 0) /\ Counts(longer, Len(run.emitted))
        BY <2>1, <2>13
      <4> QED BY <1>1, <2>3, <2>6, <2>9, <2>11, <2>12, <4>2, <4>3, EmitsCounted
    <3>2. PipeSound(run', transport', server')
      BY <1>1, <2>5, <3>1 DEF TextInd, TextSound, PipeSound
    <3>3. NoteSound(run', server')
      BY <1>2, <3>1 DEF NoteSound
    <3> QED BY <3>1, <3>2, <3>3 DEF TextInd, TextSound
  <2>7. ASSUME NextNotification(r), UNCHANGED server PROVE TextInd'
    <3>1. /\ r \in RunState /\ r.at = "collecting" /\ r.emitted = run.emitted
          /\ r.carry = longer /\ r.cut = x /\ r.outcome = run.outcome
      BY <1>1, <2>1, <2>11 DEF RunState
    <3> HIDE DEF r
    <3>2. TextLen(r) = n
      <4>1. TextLen(r) = e + (c + 1) + x BY <2>1, <2>11, <3>1 DEF TextLen
      <4> QED BY <2>2, <4>1
    <3>3. Counted(r) BY <2>1, <2>3, <2>9, <2>12, <2>13, <3>1, <3>2 DEF Counted
    <3>4. ReadyFor(r, transport, server)
      BY <1>1, <1>2, <2>5, <3>1, <3>2, <3>3 DEF ReadyFor, TextInd, TextSound, PipeSound
    <3> QED BY <2>7, <3>4, NextKeepsText
  <2>8. ASSUME NextNotification(p), UNCHANGED server PROVE TextInd'
    <3>1. TextLen(p) = n
      <4>1. TextLen(p) = e + c + (x + 1) BY <2>1, <2>15 DEF TextLen
      <4> QED BY <2>2, <4>1
    <3>2. p.cut # 0 BY <2>15
    <3>3. Counted(p) BY <2>3, <2>9, <2>14, <2>15, <3>1, <3>2 DEF Counted
    <3>4. ReadyFor(p, transport, server)
      BY <1>1, <1>2, <2>5, <2>15, <3>1, <3>3 DEF ReadyFor, TextInd, TextSound, PipeSound
    <3> QED BY <2>8, <3>4, NextKeepsText
  <2> QED BY <2>4, <2>6, <2>7, <2>8
<1>5. ASSUME note.kind = "completed", Finishes PROVE TextInd'
  <2>1. EndsTurn(run, server)
    BY <1>1, <1>2, <1>5 DEF TextInd, TextSound, NoteSound, EndsTurn, Continues
  <2> QED BY <1>2, <1>5, <2>1, FinishesKeepsText
<1>6. CASE Throws(run)
  BY <1>1, <1>2, <1>6, ThrowsKeepsText
<1> QED BY <1>3, <1>4, <1>5, <1>6 DEF Collects

LEMMA EmittedKeepsText ==
  ASSUME CodexTypeOK, TextInd, Emitted
  PROVE  TextInd'
<1>1. run \in RunState /\ Counted(run) BY TypeParts DEF TextInd, TextSound
<1>2. run.outcome # "returned" BY DEF Emitted, TextInd, TextSound, NoteSound
<1>3. CASE run.at = "emitting" /\ NextNotification([run EXCEPT !.at = "collecting"]) /\ UNCHANGED server
  <2> DEFINE r == [run EXCEPT !.at = "collecting"]
  <2>1. /\ r \in RunState /\ r.at = "collecting" /\ r.emitted = run.emitted
        /\ r.carry = run.carry /\ r.cut = run.cut /\ r.outcome = run.outcome
    BY <1>1 DEF RunState, Phase
  <2>2. NextNotification(r) BY <1>3
  <2> HIDE DEF r
  <2>3. ReadyFor(r, transport, server) BY <1>3, <2>1, RunIsReady DEF Holds
  <2> QED BY <1>3, <2>2, <2>3, NextKeepsText
<1>4. CASE Throws(run) BY <1>1, <1>2, <1>4, ThrowsKeepsText
<1>5. CASE run.at = "finishing" /\ Reconciles
  BY <1>2, <1>5, ReconcilesKeepsText DEF TextInd, TextSound, NoteSound
<1>6. CASE run.at = "reconciling" /\ Returns(run)
  <2>1. /\ run.note.n \in {server.deltas, server.deltas + 1} /\ TextLen(run) = run.note.n
        /\ run.carry = <<>>
    BY <1>6 DEF TextInd, TextSound, NoteSound
  <2>2. PICK e \in Nat, x \in Nat, d \in Nat :
          e = Len(run.emitted) /\ x = run.cut /\ d = server.deltas
    BY <1>1, TextTypes, TypeParts DEF ServerState
  <2>3. TextLen(run) = e + x
    <3>1. Len(run.carry) = 0 BY <2>1, EmptySeq
    <3> QED BY <2>2, <3>1 DEF TextLen
  <2>4. run.note.n = e + x BY <2>1, <2>3
  <2>5. AllEmitted(run, server) BY <2>1, <2>2, <2>4 DEF AllEmitted
  <2> QED BY <1>1, <1>6, <2>5, ReturnsKeepsText
<1> QED BY <1>3, <1>4, <1>5, <1>6 DEF Emitted

LEMMA RunStepKeepsText ==
  ASSUME CodexInd, TextInd, RunStep
  PROVE  TextInd'
<1>1. /\ CodexTypeOK /\ run \in RunState /\ transport \in TransportState /\ server \in ServerState
      /\ Counted(run)
  BY TypeParts DEF CodexInd, TextInd, TextSound
<1>2. run.at \notin {"cleaning", "over"} => run.outcome # "returned"
  BY DEF TextInd, TextSound, NoteSound
<1>3. ASSUME Prepared PROVE TextInd'
  <2>1. CASE Throws(run)
    BY <1>1, <1>2, <1>3, <2>1, ThrowsKeepsText DEF Prepared
  <2>2. CASE /\ transport' = [transport EXCEPT !.pending = {"initialize"}]
             /\ server' = [server EXCEPT !.state = "up", !.asked = {"initialize"}]
             /\ run' = [run EXCEPT !.at = "initializing", !.promise = "waiting"]
    <3>1. run.at = "preparing" BY <1>3 DEF Prepared
    <3>2. /\ run'.at = "initializing" /\ run'.emitted = run.emitted /\ run'.carry = run.carry /\ run'.cut = run.cut
          /\ run'.outcome = run.outcome /\ ~Holds(run') /\ ~Holds(run)
      BY <1>1, <2>2, <3>1 DEF RunState, Holds
    <3>3. /\ transport'.notifications = transport.notifications
          /\ transport'.failure = transport.failure
          /\ server'.stdout = server.stdout /\ server'.deltas = server.deltas
          /\ server'.turn = server.turn
      BY <1>1, <2>2 DEF TransportState, ServerState
    <3>4. TextSeen(run') = TextLen(run') /\ TextLen(run') = TextLen(run)
          /\ TextSeen(run) = TextLen(run)
      BY <3>2 DEF TextSeen, TextLen
    <3>5. PipeSound(run', transport', server')
      BY <3>1, <3>2, <3>3, <3>4 DEF TextInd, TextSound, PipeSound
    <3>6. NoteSound(run', server') BY <1>2, <3>1, <3>2 DEF NoteSound
    <3>7. Counted(run') BY <1>1, <3>2 DEF Counted, TextLen
    <3> QED BY <3>5, <3>6, <3>7 DEF TextInd, TextSound
  <2>3. CASE Crashes BY <1>1, <1>2, <1>3, <2>3, CrashesKeepsText DEF Prepared
  <2> QED BY <1>3, <2>1, <2>2, <2>3 DEF Prepared
<1>4. ASSUME Rejects PROVE TextInd'
  <2>1. run.outcome # "returned" BY <1>2, <1>4 DEF Rejects, CodexInd, WaitsSound
  <2> QED BY <1>1, <1>4, <2>1, ThrowsKeepsText DEF Rejects
<1>5. ASSUME NEW r \in RunState, NEW m, Request(m, r),
             run.at \in {"initializing", "threading"}, r.at \in {"threading", "starting"},
             r.emitted = run.emitted, r.carry = run.carry, r.cut = run.cut, r.outcome = run.outcome
      PROVE  TextInd'
  <2>1. PICK promise \in {"waiting", "rejected"} : run' = [r EXCEPT !.promise = promise]
    BY <1>5 DEF Request
  <2>2. /\ run'.at = r.at /\ run'.emitted = run.emitted /\ run'.carry = run.carry /\ run'.cut = run.cut
        /\ run'.outcome = run.outcome
    BY <1>5, <2>1 DEF RunState
  <2>3. ~Holds(run') /\ ~Holds(run) BY <1>5, <2>2 DEF Holds
  <2>4. /\ transport'.notifications = transport.notifications
        /\ transport'.failure = transport.failure
        /\ server'.stdout = server.stdout /\ server'.deltas = server.deltas
        /\ server'.turn = server.turn
    BY <1>1, <1>5 DEF Request, TransportState, ServerState
  <2>5. TextSeen(run') = TextSeen(run) BY <2>2, <2>3 DEF TextSeen, TextLen
  <2>6. PipeSound(run', transport', server')
    BY <1>5, <2>2, <2>4, <2>5 DEF TextInd, TextSound, PipeSound
  <2>7. NoteSound(run', server') BY <1>2, <1>5, <2>2, <2>3 DEF NoteSound
  <2>8. Counted(run') BY <1>1, <2>2 DEF Counted, TextLen
  <2> QED BY <2>6, <2>7, <2>8 DEF TextInd, TextSound
<1>6. ASSUME Initialized \/ ThreadStarted PROVE TextInd'
  <2>1. ASSUME NEW at \in {"threading", "starting"}
        PROVE  LET r == [run EXCEPT !.at = at] IN
               /\ r \in RunState /\ r.at = at
               /\ r.emitted = run.emitted /\ r.carry = run.carry /\ r.cut = run.cut /\ r.outcome = run.outcome
    BY <1>1, <2>1 DEF RunState, Phase
  <2>2. CASE Initialized BY <1>5, <2>1, <2>2 DEF Initialized
  <2>3. CASE ThreadStarted BY <1>5, <2>1, <2>3 DEF ThreadStarted
  <2> QED BY <1>6, <2>2, <2>3
<1>7. ASSUME TurnStarted PROVE TextInd'
  <2> DEFINE r == [run EXCEPT !.at = "collecting", !.listening = TRUE]
  <2>1. /\ r \in RunState /\ r.at = "collecting" /\ r.emitted = run.emitted
        /\ r.carry = run.carry /\ r.cut = run.cut /\ r.outcome = run.outcome
    BY <1>1 DEF RunState, Phase
  <2>2. NextNotification(r) /\ UNCHANGED server /\ run.at = "starting" BY <1>7 DEF TurnStarted
  <2> HIDE DEF r
  <2>3. ReadyFor(r, transport, server) BY <2>1, <2>2, RunIsReady DEF Holds
  <2> QED BY <1>1, <2>2, <2>3, NextKeepsText
<1>8. ASSUME CleansUp PROVE TextInd'
  <2>1. /\ run'.at = "over" /\ run'.emitted = run.emitted /\ run'.carry = run.carry /\ run'.cut = run.cut
        /\ run'.note = run.note
        /\ run'.outcome = "returned" => run.outcome = "returned"
    BY <1>1, <1>8 DEF CleansUp, RunState
  <2>2. UNCHANGED <<transport, server>> /\ run.at = "cleaning" BY <1>8 DEF CleansUp
  <2>3. PipeSound(run', transport', server')
    BY <2>1, <2>2 DEF TextInd, TextSound, PipeSound
  <2>4. NoteSound(run', server')
    BY <2>1, <2>2 DEF TextInd, TextSound, NoteSound, AllEmitted, Holds
  <2>5. Counted(run') BY <1>1, <2>1 DEF Counted, TextLen
  <2> QED BY <2>3, <2>4, <2>5 DEF TextInd, TextSound
<1> QED
  BY <1>1, <1>3, <1>4, <1>6, <1>7, <1>8, CollectsKeepsText, EmittedKeepsText DEF RunStep

\* A promise that is rejected leaves the text alone.
LEMMA RejectedKeepsText ==
  ASSUME run \in RunState
  PROVE  /\ Rejected.at = run.at /\ Rejected.emitted = run.emitted
         /\ Rejected.carry = run.carry /\ Rejected.cut = run.cut /\ Rejected.note = run.note
         /\ Rejected.outcome = run.outcome /\ (Holds(Rejected) <=> Holds(run))
BY DEF Rejected, RunState, Holds

LEMMA HandleLineKeepsText ==
  ASSUME CodexInd, TextInd, HandleLine
  PROVE  TextInd'
<1> DEFINE line == Head(server.stdout)
           unread == Tail(server.stdout)
           rest == [server EXCEPT !.stdout = Tail(@)]
<1>1. /\ run \in RunState /\ transport \in TransportState /\ server \in ServerState
      /\ transport.notifications \in Seq(Line) /\ server.stdout \in Seq(Line)
      /\ server.deltas \in Nat
  BY TypeParts DEF CodexInd, TransportState, ServerState
<1>2. server.stdout # <<>> /\ transport.failure = "none" BY DEF HandleLine
<1>3. line \in Line /\ unread \in Seq(Line) /\ line.n \in Nat
  BY <1>1, <1>2, HeadTailProperties DEF Line
<1>4. rest.stdout = unread /\ rest.deltas = server.deltas /\ rest.turn = server.turn
  BY <1>1 DEF ServerState
<1>5. Completes(server.stdout) <=> line.kind = "completed" \/ Completes(unread)
  BY <1>1, <1>2, CompletesTail
<1> DEFINE Flows == run.at \notin {"finishing", "reconciling", "cleaning", "over"}
<1>6. TextSeen(run) \in Nat /\ TextLen(run) \in Nat BY <1>1, TextTypes
<1>7. Flows => Pipe(TextSeen(run), transport.notifications, server.stdout, server.deltas)
  BY <1>2 DEF TextInd, TextSound, PipeSound
<1> HIDE DEF line, unread, rest, Flows
<1>8. ASSUME NEW reason \in {"protocol", "overflow"}, Fails(reason) PROVE TextInd'
  <2>1. transport'.failure # "none" /\ transport'.notifications = <<>> /\ run' = Rejected
    BY <1>1, <1>8 DEF Fails, FailAll, TransportState
  <2>2. server'.stdout = unread /\ server'.deltas = server.deltas /\ server'.turn = server.turn
    BY <1>1, <1>8 DEF Fails, ServerState, unread
  <2>3. ~Completes(transport'.notifications) BY <2>1, CarriesNothing
  <2>4. PipeSound(run', transport', server')
    BY <1>5, <2>1, <2>2, <2>3 DEF TextInd, TextSound, PipeSound
  <2>5. NoteSound(run', server')
    BY <1>1, <2>1, <2>2, RejectedKeepsText
       DEF TextInd, TextSound, NoteSound, TextLen, EndsTurn, AllEmitted
  <2>6. Counted(run') BY <1>1, <2>1, RejectedKeepsText DEF TextInd, TextSound, Counted, TextLen
  <2> QED BY <2>4, <2>5, <2>6 DEF TextInd, TextSound
<1>9. ASSUME line.kind \in {"answer", "error"},
             transport' = [transport EXCEPT !.pending = @ \ {line.of}],
             run' = [run EXCEPT !.promise =
               IF line.of \notin transport.pending \ {"interrupt"} THEN @
               ELSE IF line.kind = "answer" THEN "resolved" ELSE "rejected"],
             server' = rest
      PROVE  TextInd'
  <2>1. transport'.notifications = transport.notifications /\ transport'.failure = "none"
    BY <1>1, <1>2, <1>9 DEF TransportState
  <2>2. /\ run'.at = run.at /\ run'.emitted = run.emitted /\ run'.carry = run.carry /\ run'.cut = run.cut
        /\ run'.note = run.note /\ run'.outcome = run.outcome
        /\ run'.promise = run.promise \/ line.of \in Asked
    BY <1>1, <1>9 DEF RunState, Asked
  <2>3. Holds(run') <=> Holds(run)
    BY <2>2 DEF Holds, CodexInd, WaitsSound
  <2>4. TextSeen(run') = TextSeen(run) /\ TextLen(run') = TextLen(run)
    BY <2>2, <2>3 DEF TextSeen, TextLen
  <2>5. Flows => Pipe(TextSeen(run), transport.notifications, unread, server.deltas)
    BY <1>1, <1>2, <1>6, <1>7, <1>9, PipeSkip DEF line, unread
  <2>6. PipeSound(run', transport', server')
    BY <1>4, <1>5, <1>9, <2>1, <2>2, <2>4, <2>5 DEF TextInd, TextSound, PipeSound, Flows
  <2>7. NoteSound(run', server')
    BY <1>4, <1>9, <2>2, <2>3, <2>4 DEF TextInd, TextSound, NoteSound, EndsTurn, AllEmitted
  <2>8. Counted(run') BY <2>2 DEF TextInd, TextSound, Counted, TextLen
  <2> QED BY <2>6, <2>7, <2>8 DEF TextInd, TextSound
<1>10. ASSUME transport.waiter, transport' = [transport EXCEPT !.waiter = FALSE],
              run' = [run EXCEPT !.promise = "resolved", !.note = line], server' = rest
       PROVE  TextInd'
  <2>1. /\ run.at = "collecting" /\ run.promise = "waiting" /\ transport.notifications = <<>>
    BY <1>10 DEF CodexInd, WaitsSound, TransportSound
  <2>2. /\ run'.at = "collecting" /\ run'.emitted = run.emitted /\ run'.carry = run.carry /\ run'.cut = run.cut
        /\ run'.note = line /\ run'.outcome = run.outcome /\ run'.promise = "resolved"
    BY <1>1, <1>10, <2>1 DEF RunState
  <2>3. transport'.notifications = transport.notifications /\ transport'.failure = "none"
    BY <1>1, <1>2, <1>10 DEF TransportState
  <2>4. /\ Holds(run') /\ TextLen(run') = TextLen(run) /\ TextSeen(run) = TextLen(run)
        /\ TextSeen(run') = After(line, TextLen(run))
    BY <2>1, <2>2 DEF Holds, TextSeen, TextLen
  <2>5. Pipe(TextLen(run), transport.notifications, server.stdout, server.deltas)
    BY <1>7, <2>1, <2>4 DEF Flows
  <2>6. /\ Continues(line, TextLen(run), server.deltas)
        /\ Pipe(After(line, TextLen(run)), transport.notifications, unread, server.deltas)
    BY <1>1, <1>2, <1>6, <2>1, <2>5, PipeHand DEF line, unread
  <2>7. PipeSound(run', transport', server')
    BY <1>4, <1>5, <1>10, <2>3, <2>4, <2>6 DEF TextInd, TextSound, PipeSound
  <2>8. NoteSound(run', server')
    BY <1>4, <1>5, <1>10, <2>1, <2>2, <2>4, <2>6 DEF TextInd, TextSound, PipeSound, NoteSound
  <2>9. Counted(run') BY <2>2 DEF TextInd, TextSound, Counted, TextLen
  <2> QED BY <2>7, <2>8, <2>9 DEF TextInd, TextSound
<1>11. ASSUME transport' = [transport EXCEPT !.notifications = Append(@, line)],
              server' = rest, UNCHANGED run
       PROVE  TextInd'
  <2>1. /\ transport'.notifications = Append(transport.notifications, line)
        /\ transport'.failure = "none"
    BY <1>1, <1>2, <1>11 DEF TransportState
  <2>2. Flows => Pipe(TextSeen(run), Append(transport.notifications, line), unread, server.deltas)
    BY <1>1, <1>2, <1>6, <1>7, PipeBuffer DEF line, unread
  <2>3. Completes(Append(transport.notifications, line)) =>
          line.kind = "completed" \/ Completes(transport.notifications)
    BY <1>1, <1>3, CompletesAppend
  <2>4. PipeSound(run', transport', server')
    BY <1>4, <1>5, <1>11, <2>1, <2>2, <2>3 DEF TextInd, TextSound, PipeSound, Flows
  <2>5. NoteSound(run', server')
    BY <1>4, <1>11 DEF TextInd, TextSound, NoteSound, EndsTurn, AllEmitted
  <2> QED BY <1>11, <2>4, <2>5 DEF TextInd, TextSound
<1>12. ASSUME line.kind = "request", server' = rest, UNCHANGED <<run, transport>>
       PROVE  TextInd'
  <2>1. Flows => Pipe(TextSeen(run), transport.notifications, unread, server.deltas)
    BY <1>1, <1>2, <1>6, <1>7, <1>12, PipeSkip DEF line, unread
  <2>2. PipeSound(run', transport', server')
    BY <1>4, <1>5, <1>12, <2>1 DEF TextInd, TextSound, PipeSound, Flows
  <2>3. NoteSound(run', server')
    BY <1>4, <1>12 DEF TextInd, TextSound, NoteSound, EndsTurn, AllEmitted
  <2> QED BY <1>12, <2>2, <2>3 DEF TextInd, TextSound
<1> QED BY <1>8, <1>9, <1>10, <1>11, <1>12 DEF HandleLine, line, rest

LEMMA TimerKeepsText ==
  ASSUME CodexInd, TextInd,
         (\E m \in Method : RequestTimesOut(m)) \/ WaiterTimesOut \/ ExitNoticed
  PROVE  TextInd'
<1>1. run \in RunState /\ transport \in TransportState
  BY TypeParts DEF CodexInd
<1>2. UNCHANGED server /\ (run' = run \/ run' = Rejected)
  BY DEF RequestTimesOut, WaiterTimesOut, ExitNoticed
<1>3. \/ /\ transport'.notifications = transport.notifications
         /\ transport'.failure = transport.failure
      \/ transport'.notifications = <<>> /\ transport'.failure # "none"
  BY <1>1 DEF RequestTimesOut, WaiterTimesOut, ExitNoticed, FailAll, TransportState
<1>4. /\ run'.at = run.at /\ run'.emitted = run.emitted /\ run'.carry = run.carry /\ run'.cut = run.cut
      /\ run'.note = run.note /\ run'.outcome = run.outcome /\ (Holds(run') <=> Holds(run))
  BY <1>1, <1>2, RejectedKeepsText
<1>5. TextSound(run', transport', server')
  BY <1>2, <1>3, <1>4, TextKept DEF TextInd
<1> QED BY <1>5 DEF TextInd

LEMMA AbortKeepsText ==
  ASSUME CodexInd, TextInd, Abort
  PROVE  TextInd'
<1>1. run \in RunState /\ transport \in TransportState /\ server \in ServerState
  BY TypeParts DEF CodexInd
<1>2. /\ run'.at = run.at /\ run'.emitted = run.emitted /\ run'.carry = run.carry /\ run'.cut = run.cut
      /\ run'.note = run.note /\ run'.outcome = run.outcome
      /\ run'.promise = IF transport.waiter THEN "rejected" ELSE run.promise
  BY <1>1 DEF Abort, RunState
<1>3. Holds(run') <=> Holds(run) BY <1>2 DEF Holds, CodexInd, WaitsSound
<1>4. /\ transport'.notifications = transport.notifications
      /\ transport'.failure = transport.failure
      /\ server'.stdout = server.stdout /\ server'.deltas = server.deltas
      /\ server'.turn = server.turn
  BY <1>1 DEF Abort, TransportState, ServerState
<1>5. TextSound(run', transport', server')
  BY <1>2, <1>3, <1>4, TextKept DEF TextInd
<1> QED BY <1>5 DEF TextInd

\* The server writes a line.
LEMMA SaysKeepsText ==
  ASSUME CodexInd, TextInd, UNCHANGED <<run, transport>>, server.state = "up",
         NEW line \in Line, server'.stdout = Append(server.stdout, line),
         server'.deltas = After(line, server.deltas),
         line.kind = "delta" => line.n = server.deltas + 1 /\ server.turn = "running",
         line.kind = "completed" => line.n \in {0, server.deltas, server.deltas + 1} /\ server'.turn = "over",
         server.turn = "over" => server'.turn = "over"
  PROVE  TextInd'
<1>1. /\ run \in RunState /\ transport.notifications \in Seq(Line) /\ server.stdout \in Seq(Line)
      /\ server.deltas \in Nat /\ TextSeen(run) \in Nat
  BY TypeParts, TextTypes DEF CodexInd, TransportState, ServerState
<1>2. run.outcome # "returned" BY DEF CodexInd, PhaseSound, TextInd, TextSound, NoteSound
<1>3. server.turn # "over" => ~Completes(transport.notifications) /\ ~Completes(server.stdout)
  BY DEF TextInd, TextSound, PipeSound
<1>4. server.turn = "over" => server'.deltas = server.deltas
  BY DEF After
<1>5. Completes(server'.stdout) <=> line.kind = "completed" \/ Completes(server.stdout)
  BY <1>1, CompletesAppend
<1> DEFINE Flows == run.at \notin {"finishing", "reconciling", "cleaning", "over"}
<1>6. transport.failure = "none" /\ Flows =>
        Pipe(TextSeen(run), transport.notifications, server'.stdout, server'.deltas)
  <2> SUFFICES ASSUME transport.failure = "none", Flows
               PROVE  Pipe(TextSeen(run), transport.notifications, server'.stdout, server'.deltas)
    OBVIOUS
  <2>1. Pipe(TextSeen(run), transport.notifications, server.stdout, server.deltas)
    BY DEF TextInd, TextSound, PipeSound
  <2>2. line.kind = "delta" => /\ line.n = server.deltas + 1
                               /\ ~Completes(transport.notifications) /\ ~Completes(server.stdout)
    BY <1>3
  <2> QED BY <1>1, <2>1, <2>2, PipeWrite
<1>7. PipeSound(run', transport', server')
  BY <1>3, <1>5, <1>6 DEF TextInd, TextSound, PipeSound
<1>8. NoteSound(run', server')
  BY <1>2, <1>4 DEF TextInd, TextSound, NoteSound, EndsTurn, Continues
<1> QED BY <1>7, <1>8 DEF TextInd, TextSound

LEMMA ServerKeepsText ==
  ASSUME CodexInd, TextInd, Server
  PROVE  TextInd'
<1>1. server \in ServerState /\ server.deltas \in Nat /\ server.state = "up"
      /\ UNCHANGED <<run, transport>>
  BY TypeParts DEF CodexInd, ServerState, Server, ServerAnswers, TurnBegins, ServerNotifies,
                   ServerChats, ServerExits
<1>2. ASSUME NEW line \in Line
      PROVE  /\ Says(line).stdout = Append(server.stdout, line)
             /\ Says(line).deltas = server.deltas /\ Says(line).turn = server.turn
             /\ Says(line) \in ServerState
  <2>1. Append(server.stdout, line) \in Seq(Line)
    BY <1>1, <1>2, AppendProperties DEF ServerState
  <2> QED BY <1>1, <2>1 DEF Says, ServerState
<1>3. ASSUME ServerAnswers PROVE TextInd'
  <2>1. PICK m \in server.asked, kind \in {"answer", "error"} :
          server' = [Says([kind |-> kind, of |-> m, n |-> 0]) EXCEPT !.asked = @ \ {m}]
    BY <1>3 DEF ServerAnswers
  <2> DEFINE line == [kind |-> kind, of |-> m, n |-> 0]
  <2>2. line \in Line /\ line.kind \notin {"delta", "completed"} BY <1>1 DEF Line, ServerState
  <2>3. server' = [Says(line) EXCEPT !.asked = @ \ {m}] BY <2>1
  <2> HIDE DEF line
  <2>4. /\ server'.stdout = Append(server.stdout, line)
        /\ server'.deltas = server.deltas /\ server'.turn = server.turn
    BY <1>2, <2>2, <2>3 DEF ServerState
  <2> QED BY <1>1, <2>2, <2>4, SaysKeepsText DEF After
<1>4. ASSUME ServerNotifies PROVE TextInd'
  <2> DEFINE Kinds == {"delta", "item", "foreign", "completed", "interrupted", "failed",
                       "request", "garbage"}
             Sends(kind, n) ==
               /\ kind \notin {"foreign", "request", "garbage"} => server.turn = "running"
               /\ server' = [Says(Note(kind, n)) EXCEPT
                    !.notes = @ + 1,
                    !.deltas = IF kind = "delta" THEN n ELSE @,
                    !.turn = IF kind \in {"completed", "interrupted", "failed"} THEN "over" ELSE @]
  <2>1. PICK kind \in Kinds :
          \E n \in IF kind = "completed" THEN {0, server.deltas, server.deltas + 1}
                   ELSE IF kind = "delta" THEN {server.deltas + 1} ELSE {0} : Sends(kind, n)
    BY <1>4 DEF ServerNotifies
  <2> HIDE DEF Sends
  <2>2. PICK n \in Nat : /\ Sends(kind, n)
                         /\ kind = "delta" => n = server.deltas + 1
                         /\ kind = "completed" => n \in {0, server.deltas, server.deltas + 1}
    BY <1>1, <2>1
  <2> DEFINE line == Note(kind, n)
  <2>3. line \in Line /\ line.kind = kind /\ line.n = n
    BY NoteIsLine DEF Note
  <2>4. /\ server'.stdout = Says(line).stdout
        /\ server'.deltas = IF kind = "delta" THEN n ELSE Says(line).deltas
        /\ server'.turn = IF kind \in {"completed", "interrupted", "failed"} THEN "over"
                          ELSE Says(line).turn
        /\ kind \notin {"foreign", "request", "garbage"} => server.turn = "running"
    BY <1>2, <2>2, <2>3 DEF Sends, ServerState
  <2> HIDE DEF line
  <2>5. /\ server'.stdout = Append(server.stdout, line)
        /\ server'.deltas = After(line, server.deltas)
        /\ server.turn = "over" => server'.turn = "over"
    BY <1>2, <2>3, <2>4 DEF After
  <2>6. kind = "completed" => server'.turn = "over" BY <2>4
  <2>7. kind = "delta" => server.turn = "running" BY <2>4
  <2> QED BY <1>1, <2>2, <2>3, <2>5, <2>6, <2>7, SaysKeepsText
<1>5. ASSUME ServerChats PROVE TextInd'
  <2> DEFINE line == Note("foreign", 0)
  <2>1. line \in Line /\ line.kind = "foreign" BY NoteIsLine DEF Note
  <2>2. server' = Says(line) BY <1>5 DEF ServerChats
  <2> HIDE DEF line
  <2> QED BY <1>1, <1>2, <2>1, <2>2, SaysKeepsText DEF After
<1>6. ASSUME TurnBegins PROVE TextInd'
  <2>1. /\ server'.stdout = server.stdout /\ server'.deltas = server.deltas
        /\ server.turn = "none" /\ run' = run /\ transport' = transport
    BY <1>1, <1>6 DEF TurnBegins, ServerState
  <2>2. PipeSound(run', transport', server')
    BY <2>1 DEF TextInd, TextSound, PipeSound
  <2>3. NoteSound(run', server')
    BY <2>1 DEF TextInd, TextSound, NoteSound, EndsTurn, AllEmitted
  <2> QED BY <2>1, <2>2, <2>3 DEF TextInd, TextSound
<1>7. ASSUME ServerExits PROVE TextInd'
  <2>1. /\ server'.stdout = server.stdout /\ server'.deltas = server.deltas
        /\ server'.turn = server.turn /\ run' = run /\ transport' = transport
    BY <1>1, <1>7 DEF ServerExits, ServerState
  <2>2. TextSound(run', transport', server') BY <2>1, TextKept DEF TextInd
  <2> QED BY <2>2 DEF TextInd
<1> QED BY <1>3, <1>4, <1>5, <1>6, <1>7 DEF Server

LEMMA TextInit == Init => TextInd
<1> SUFFICES ASSUME Init PROVE TextInd OBVIOUS
<1>1. /\ run.at = "preparing" /\ run.emitted = <<>> /\ run.carry = <<>> /\ run.cut = 0
      /\ run.outcome = "none"
      /\ transport.notifications = <<>> /\ server.stdout = <<>> /\ server.deltas = 0
  BY DEF Init
<1>3. TextLen(run) = 0 /\ TextSeen(run) = 0
  <2>1. Len(run.emitted) = 0 /\ Len(run.carry) = 0 BY <1>1, EmptySeq
  <2>2. TextLen(run) = 0 BY <1>1, <2>1 DEF TextLen
  <2> QED BY <1>1, <2>2 DEF TextSeen, Holds
<1>2. Counted(run)
  <2>1. 0 \in 0 .. TextLen(run) BY <1>3
  <2>2. Rises(run.emitted, 0, 0) /\ Rises(run.carry, 0, TextLen(run)) BY <1>1, RisesNone
  <2>3. Counts(run.emitted, 0) /\ Counts(run.carry, Len(run.emitted)) BY <1>1, CountsNone
  <2> QED BY <2>1, <2>2, <2>3, Zenon DEF Counted
<1>4. /\ ~Completes(transport.notifications) /\ ~Completes(server.stdout)
      /\ Carries(transport.notifications, 0, 0) /\ Carries(server.stdout, 0, 0)
  BY <1>1, CarriesNothing
<1>5. 0 \in 0 .. server.deltas BY <1>1
<1>6. PipeSound(run, transport, server)
  BY <1>1, <1>3, <1>4, <1>5 DEF PipeSound, Pipe
<1>7. NoteSound(run, server) BY <1>1 DEF NoteSound, Holds
<1> QED BY <1>2, <1>6, <1>7 DEF TextInd, TextSound

LEMMA TextStep == CodexAll /\ TextInd /\ [Next]_vars => TextInd'
<1> SUFFICES ASSUME CodexAll, TextInd, [Next]_vars PROVE TextInd' OBVIOUS
<1>1. CodexInd BY DEF CodexAll
<1>2. CASE UNCHANGED runVars
  BY <1>2 DEF runVars, TextInd
<1>3. CASE RunStep BY <1>1, <1>3, RunStepKeepsText
<1>4. CASE Abort BY <1>1, <1>4, AbortKeepsText
<1>5. CASE Loop
  BY <1>1, <1>5, HandleLineKeepsText, TimerKeepsText DEF Loop
<1>7. CASE StdinBreaks
  <2>1. run.at \notin {"cleaning", "over"} BY <1>1, <1>7 DEF StdinBreaks, CodexInd, PhaseSound
  <2>2. run.outcome # "returned" BY <2>1 DEF TextInd, TextSound, NoteSound
  <2> QED BY <1>1, <1>7, <2>2, CrashesKeepsText DEF StdinBreaks, CodexInd
<1>6. CASE Server BY <1>1, <1>6, ServerKeepsText
<1> QED
  BY <1>2, <1>3, <1>4, <1>5, <1>6, <1>7 DEF Next, Step, Preparing, Cleaning, Over, vars, runVars

\* onEvent receives the text in order, no piece twice and none left out while nothing
\* was cut off, however its deltas were cut into lines, buffered, held back or
\* interrupted; and a run that returns has handed over all of it that did not go over
\* the limit, with the end that only the final message has.
THEOREM TextCorrect == Spec => []TextInOrder
<1>1. CodexAll /\ TextInd => TextInOrder
  <2> SUFFICES ASSUME CodexAll, TextInd PROVE TextInOrder OBVIOUS
  <2>1. run \in RunState /\ Counted(run)
    BY TypeParts DEF CodexAll, CodexInd, TextInd, TextSound
  <2>2. /\ run.emitted \in Seq(Nat) /\ run.carry \in Seq(Nat) /\ Len(run.emitted) \in Nat
        /\ TextLen(run) \in Nat
    BY <2>1, TextTypes DEF RunState
  <2> DEFINE text == run.emitted \o run.carry
  <2>3. PICK mid \in 0 .. TextLen(run) :
          Rises(run.emitted, 0, mid) /\ Rises(run.carry, mid, TextLen(run))
    BY <2>1 DEF Counted
  <2>4. Rises(text, 0, TextLen(run))
    <3>1. mid \in Nat /\ 0 <= mid /\ mid <= TextLen(run) BY <2>2, <2>3
    <3> QED BY <2>2, <2>3, <3>1, RisesLonger
  <2>5. run.cut = 0 => Counts(text, 0)
    <3>1. 0 + Len(run.emitted) = Len(run.emitted) BY <2>2
    <3> QED BY <2>1, <2>2, <3>1, CountsLonger DEF Counted
  <2>6. DOMAIN text = 1 .. Len(text) /\ Len(text) \in Nat
    BY <2>2, ConcatProperties, LenProperties
  <2>7. run.outcome = "returned" => AllEmitted(run, server)
    BY DEF TextInd, TextSound, NoteSound
  <2> HIDE DEF text
  <2>8. run.cut = 0 => \A i \in DOMAIN text : text[i] = i
    BY <2>5, <2>6 DEF Counts
  <2>9. \A i, j \in DOMAIN text : i < j => text[i] < text[j]
    BY <2>4 DEF Rises
  <2> QED BY <2>7, <2>8, <2>9 DEF TextInOrder, AllEmitted, text
<1> QED BY <1>1, TextInit, TextStep, CodexAlways, PTL DEF Spec
=============================================================================
