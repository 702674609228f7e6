------------------------------ MODULE CodexRun ------------------------------
(***************************************************************************)
(* One run of CodexAppServerRunner (src/src/adapters/codex/runner.ts) over *)
(* its BufferedJsonRpcTransport (json-rpc.ts) to an App Server process of  *)
(* its own, in a workspace of its own (CodexWorkspace).                    *)
(*                                                                         *)
(* Promises that are settled are continued before the event loop turns to  *)
(* anything else, except that several lines of one chunk of output are     *)
(* handled in a row: until the run has taken what it waited for, only more *)
(* output may come in (Settled).                                           *)
(*                                                                         *)
(* The text is a sequence of pieces, one to a delta, of any length: which  *)
(* of them maxResultBytes cuts off is left open.  A redacted path may be   *)
(* shorter than what was counted, so that a later piece fits again.        *)
(***************************************************************************)
EXTENDS CodexWorkspace

CONSTANTS
  MaxBufferedNotifications,
  MaxNotes       \* BOUND: the notifications the App Server sends, its chat apart

ASSUME CodexAssumption ==
  /\ MaxBufferedNotifications \in Nat
  /\ MaxNotes \in Nat

VARIABLES
  run,         \* CodexAppServerRunner.run and collectTurn
  transport,   \* BufferedJsonRpcTransport
  server       \* the App Server process, with its end of the pipes

runVars == <<run, transport, server>>
vars == <<runVars, workspace>>

\* "interrupt" is the request nobody waits for.
Method == {"initialize", "thread", "turn", "interrupt"}

\* A line of output.  Of a notification the run looks at, delta and item belong
\* to the turn, and foreign is any other; n numbers the deltas.  Of completed it is the
\* last piece of the final message, the last delta's or one more, when it goes on
\* where the deltas stop; 0 when there is no final message, or another text than
\* that of the deltas.  request is one of the App Server's own.
Line ==
  [kind: {"answer", "error"}, of: Method, n: {0}]
    \cup [kind: {"delta", "item", "foreign", "completed", "interrupted", "failed",
                 "request", "garbage"},
          of: {"none"}, n: Nat]

Note(kind, n) == [kind |-> kind, of |-> "none", n |-> n]
NoLine == Note("foreign", 0)

Phase ==
  {"preparing", "initializing", "threading", "starting", "collecting",
   "emitting", "finishing", "reconciling", "cleaning", "over",
   "crashed"}      \* with the gateway

CodexTypeOK ==
  /\ run \in
       [at: Phase,
        promise: {"none", "waiting", "resolved", "rejected"},   \* what it awaits
        note: Line,                  \* what that was resolved with
        aborted: BOOLEAN,            \* input.signal
        listening: BOOLEAN,          \* `interrupt' listens to it
        carry: Seq(Nat),             \* pieces PathRedactingStream holds back
        emitted: Seq(Nat),           \* pieces handed to onEvent
        cut: Nat,                    \* pieces that went over maxResultBytes
        events: Nat,
        outcome: {"none", "returned", "threw"}]
  /\ transport \in
       [failure: {"none", "closed", "exited", "protocol", "overflow"},
        pending: SUBSET Method,
        waiter: BOOLEAN,
        notifications: Seq(Line)]
  /\ Len(transport.notifications) <= MaxBufferedNotifications
  /\ server \in
       [state: {"none", "up", "exited", "killed"},
        asked: SUBSET Method,        \* requests it has not answered
        turn: {"none", "running", "over"},
        interrupted: BOOLEAN,        \* turn/interrupt was written
        deltas: Nat, notes: Nat,     \* how many it has sent
        stdout: Seq(Line)]

Settled == run.promise \notin {"resolved", "rejected"}

-----------------------------------------------------------------------------
(* The transport.  Each operator takes the state of the transport to the   *)
(* next, and the promise of the run with it.                               *)

\* Faulty: what was buffered stays.
FailAllKeeps(reason) ==
  [failure |-> IF transport.failure = "none" THEN reason ELSE transport.failure,
   pending |-> {}, waiter |-> FALSE, notifications |-> transport.notifications]

\* failAll: the first failure stays; everybody who waits is told, all buffers
\* are dropped.
FailAll(reason) ==
  [failure |-> IF transport.failure = "none" THEN reason ELSE transport.failure,
   pending |-> {}, waiter |-> FALSE, notifications |-> <<>>]

Rejected == [run EXCEPT !.promise = IF @ = "waiting" THEN "rejected" ELSE @]

\* request(m), on which the run r waits.
Request(m, r) ==
  IF transport.failure # "none"
    THEN run' = [r EXCEPT !.promise = "rejected"] /\ UNCHANGED <<transport, server>>
    ELSE /\ transport' = [transport EXCEPT !.pending = @ \cup {m}]
         /\ server' = [server EXCEPT !.asked = @ \cup {m}]
         /\ run' = [r EXCEPT !.promise = "waiting"]

\* nextNotification(timeout, signal): what was buffered comes before an abort.
NextNotification(r) ==
  IF transport.failure = "none" /\ transport.notifications # <<>>
    THEN /\ transport' = [transport EXCEPT !.notifications = Tail(@)]
         /\ run' = [r EXCEPT !.promise = "resolved", !.note = Head(transport.notifications)]
  ELSE IF transport.failure # "none" \/ run.aborted
    THEN run' = [r EXCEPT !.promise = "rejected"] /\ UNCHANGED transport
  ELSE /\ transport' = [transport EXCEPT !.waiter = TRUE]
       /\ run' = [r EXCEPT !.promise = "waiting"]

\* failAll and kill("SIGTERM").
Fails(reason) ==
  /\ transport' = FailAll(reason)
  /\ run' = Rejected
  /\ server' = [server EXCEPT !.state = IF @ = "up" THEN "killed" ELSE @,
                              !.stdout = Tail(@)]

\* Whether one more notification is too many.
Overflows == Len(transport.notifications) + 1 > MaxBufferedNotifications

\* handleData takes a line: garbage (not JSON, or too long) and a buffer that
\* overflows are failures, an answer settles its request, a notification goes
\* to the waiter or into the buffer, and a request is rejected, which changes nothing.
HandleLine ==
  LET line == Head(server.stdout)
      rest == [server EXCEPT !.stdout = Tail(@)]
  IN
  /\ server.stdout # <<>> /\ transport.failure = "none"
  /\ \/ line.kind = "garbage" /\ Fails("protocol")
     \/ /\ line.kind \in {"answer", "error"}
        /\ transport' = [transport EXCEPT !.pending = @ \ {line.of}]
        /\ run' = [run EXCEPT !.promise =
             IF line.of \notin transport.pending \ {"interrupt"} THEN @
             ELSE IF line.kind = "answer" THEN "resolved" ELSE "rejected"]
        /\ server' = rest
     \/ line.kind = "request" /\ server' = rest /\ UNCHANGED <<run, transport>>
     \/ /\ line.kind \notin {"garbage", "answer", "error", "request"}
        /\ \/ /\ transport.waiter
              /\ transport' = [transport EXCEPT !.waiter = FALSE]
              /\ run' = [run EXCEPT !.promise = "resolved", !.note = line]
              /\ server' = rest
           \/ /\ ~transport.waiter /\ ~Overflows
              /\ transport' = [transport EXCEPT !.notifications = Append(@, line)]
              /\ server' = rest
              /\ UNCHANGED run
           \/ ~transport.waiter /\ Overflows /\ Fails("overflow")

\* The timer of a request: an answer that comes later finds nobody.
RequestTimesOut(m) ==
  /\ Settled
  /\ m \in transport.pending
  /\ transport' = [transport EXCEPT !.pending = @ \ {m}]
  /\ run' = IF m = "interrupt" THEN run ELSE Rejected
  /\ UNCHANGED server

\* Faulty: a waiter has no timer.
WaiterNeverTimesOut == FALSE /\ UNCHANGED vars

WaiterTimesOut ==
  /\ Settled
  /\ transport.waiter
  /\ transport' = [transport EXCEPT !.waiter = FALSE]
  /\ run' = Rejected
  /\ UNCHANGED server

\* "exit" and "error" of the process, before or after its last output is read.
ExitNoticed ==
  /\ Settled
  /\ server.state = "exited" /\ transport.failure = "none"
  /\ transport' = FailAll("exited")
  /\ run' = Rejected
  /\ UNCHANGED server

-----------------------------------------------------------------------------
(* The run *)

\* Faulty: a run that was aborted leaves its process to itself.
ThrowsOpen(r) ==
  /\ run' = [r EXCEPT !.at = "cleaning", !.promise = "none", !.listening = FALSE]
  /\ transport' = FailAll("closed")
  /\ UNCHANGED server

\* The gateway ends, and all it remembers with it.
Crashes ==
  /\ run' = [run EXCEPT !.at = "crashed", !.promise = "none", !.listening = FALSE]
  /\ transport' = FailAll("closed")
  /\ UNCHANGED server

\* finally: close() and then the cleanup of the workspace.
Throws(r) ==
  /\ run' = [r EXCEPT !.at = "cleaning", !.promise = "none", !.listening = FALSE]
  /\ transport' = FailAll("closed")
  /\ server' = [server EXCEPT !.state = IF @ = "up" THEN "killed" ELSE @]

\* prepareWorkspace and the version check go on by themselves.
Preparing ==
  /\ run.at = "preparing"
  /\ Prepares(run.aborted)
  /\ UNCHANGED runVars

\* When neither throws the signal is looked at, the process started and initialized.
\* A child that was given no pipes ends the gateway: the constructor stumbles over
\* its stdout before anybody listens to its error.
Prepared ==
  /\ run.at = "preparing" /\ workspace.at \in {"failed", "ready"}
  /\ \/ /\ workspace.at = "ready" /\ ~run.aborted
        /\ transport' = [transport EXCEPT !.pending = {"initialize"}]
        /\ server' = [server EXCEPT !.state = "up", !.asked = {"initialize"}]
        /\ run' = [run EXCEPT !.at = "initializing", !.promise = "waiting"]
     \/ workspace.at = "ready" /\ ~run.aborted /\ Crashes
     \/ Throws(run)

\* A rejected promise ends the run, wherever it waits.
Rejects ==
  /\ run.promise = "rejected"
  /\ Throws(run)

Initialized ==
  /\ run.at = "initializing" /\ run.promise = "resolved"
  /\ Request("thread", [run EXCEPT !.at = "threading"])

ThreadStarted ==
  /\ run.at = "threading" /\ run.promise = "resolved"
  /\ Request("turn", [run EXCEPT !.at = "starting"])

\* An abort from here on sends turn/interrupt, one before does not.
TurnStarted ==
  /\ run.at = "starting" /\ run.promise = "resolved"
  /\ NextNotification([run EXCEPT !.at = "collecting", !.listening = TRUE])
  /\ UNCHANGED server

\* emit(): onEvent is called with what fits of a text; something always does.
Emits(r, text, phase) ==
  /\ \E fits \in 1 .. Len(text) :
       run' = [r EXCEPT !.at = phase, !.promise = "none", !.carry = <<>>, !.events = @ + 1,
                        !.emitted = @ \o SubSeq(text, 1, fits),
                        !.cut = @ + (Len(text) - fits)]
  /\ UNCHANGED <<transport, server>>

Returns(r) ==
  Throws([r EXCEPT !.outcome = "returned"])

\* Faulty: what the stream holds back is not asked for.
FinishesEarly == run.at = "collecting" /\ Returns(run)

\* reconcile(): what the final message has beyond the text, as far as it fits, when
\* it begins with the text at all.  Otherwise nothing is emitted, and it is returned
\* all the same.
Reconciles ==
  LET len == Len(run.emitted)
      rest == [i \in 1 .. run.note.n - len |-> len + i]
  IN
  IF run.note.n > len /\ \A i \in 1 .. len : run.emitted[i] = i
    THEN \/ Emits([run EXCEPT !.cut = 0], rest, "reconciling")
         \/ Returns([run EXCEPT !.cut = run.note.n - len])
    ELSE Returns(run)

\* finish(): the rest of the text.
Finishes ==
  IF run.carry # <<>> THEN Emits(run, run.carry, "finishing") ELSE Reconciles

\* collectTurn looks at a notification.  A delta that is pushed is emitted with what
\* was held back, held back with it, or over the limit.
Collects ==
  LET note == run.note IN
  /\ run.at = "collecting" /\ run.promise = "resolved"
  /\ \/ /\ note.kind \in {"foreign", "item"}
        /\ NextNotification(run)
        /\ UNCHANGED server
     \/ /\ note.kind = "delta"
        /\ \/ Emits(run, Append(run.carry, note.n), "emitting")
           \/ /\ \/ NextNotification([run EXCEPT !.carry = Append(@, note.n)])
                 \/ NextNotification([run EXCEPT !.cut = @ + 1])
              /\ UNCHANGED server
     \/ note.kind = "completed" /\ Finishes
     \/ note.kind \in {"interrupted", "failed"} /\ Throws(run)

\* onEvent comes back, or throws because the log of the job is full.
Emitted ==
  \/ /\ run.at = "emitting"
     /\ \/ NextNotification([run EXCEPT !.at = "collecting"]) /\ UNCHANGED server
        \/ Throws(run)
  \/ /\ run.at = "finishing"
     /\ Reconciles \/ Throws(run)
  \/ /\ run.at = "reconciling"
     /\ Returns(run) \/ Throws(run)

\* workspace.cleanup().
Cleaning ==
  /\ run.at = "cleaning"
  /\ Removes \/ RemovalEnds
  /\ UNCHANGED runVars

\* The promise of run() is settled.
CleansUp ==
  /\ run.at = "cleaning" /\ workspace.at = "gone"
  /\ run' = [run EXCEPT !.at = "over", !.outcome = IF @ = "none" THEN "threw" ELSE @]
  /\ UNCHANGED <<transport, server>>

RunStep ==
  \/ Prepared \/ Rejects \/ Initialized \/ ThreadStarted \/ TurnStarted
  \/ Collects \/ Emitted \/ CleansUp

Step ==
  \/ Preparing \/ Cleaning
  \/ RunStep /\ UNCHANGED workspace

\* Cancellation or shutdown: the listeners are called in the order they came.
Abort ==
  /\ Settled
  /\ run.at \notin {"over", "crashed"} /\ ~run.aborted
  /\ LET asks == run.listening /\ transport.failure = "none" IN
     /\ transport' = [transport EXCEPT
          !.pending = IF asks THEN @ \cup {"interrupt"} ELSE @,
          !.waiter = FALSE]
     /\ server' = [server EXCEPT
          !.asked = IF asks THEN @ \cup {"interrupt"} ELSE @,
          !.interrupted = @ \/ asks]
  /\ run' = [run EXCEPT
       !.aborted = TRUE,
       !.promise = IF transport.waiter THEN "rejected" ELSE @]
  /\ WorkspaceAborts

\* What is written to the App Server: the next request, turn/interrupt when the run
\* is aborted, the rejection of a request.
Writes ==
  \/ run.promise = "resolved" /\ run.at \in {"initializing", "threading"}
  \/ Settled /\ run.listening /\ ~run.aborted
  \/ server.stdout # <<>> /\ Head(server.stdout).kind = "request"

\* Written to one that has exited, of which Node does not know yet, it breaks the
\* pipe: nobody listens to the error of stdin, and the gateway ends.
StdinBreaks ==
  /\ server.state = "exited" /\ transport.failure = "none"
  /\ Writes
  /\ Crashes

-----------------------------------------------------------------------------
(* The App Server.  It answers what it is asked, at any time and in any    *)
(* order, or does not; sends what it likes, of a turn only while it runs;  *)
(* and may be gone at any time.                                            *)

Says(line) == [server EXCEPT !.stdout = Append(@, line)]

ServerAnswers ==
  /\ server.state = "up"
  /\ \E m \in server.asked, kind \in {"answer", "error"} :
       /\ m = "turn" => (kind = "answer" <=> server.turn # "none")
       /\ server' = [Says([kind |-> kind, of |-> m, n |-> 0]) EXCEPT !.asked = @ \ {m}]
  /\ UNCHANGED <<run, transport>>

TurnBegins ==
  /\ server.state = "up" /\ "turn" \in server.asked
  /\ server.turn = "none"
  /\ server' = [server EXCEPT !.turn = "running"]
  /\ UNCHANGED <<run, transport>>

ServerNotifies ==
  /\ server.state = "up" /\ server.notes < MaxNotes
  /\ \E kind \in {"delta", "item", "foreign", "completed", "interrupted", "failed",
                   "request", "garbage"} :
       \E n \in IF kind = "completed" THEN {0, server.deltas, server.deltas + 1}
                ELSE IF kind = "delta" THEN {server.deltas + 1} ELSE {0} :
       /\ kind \notin {"foreign", "request", "garbage"} => server.turn = "running"
       /\ server' = [Says(Note(kind, n)) EXCEPT
            !.notes = @ + 1,
            !.deltas = IF kind = "delta" THEN n ELSE @,
            !.turn = IF kind \in {"completed", "interrupted", "failed"} THEN "over" ELSE @]
  /\ UNCHANGED <<run, transport>>

\* Notifications of no turn of ours, without end.  BOUND: one at a time, while the
\* run waits for it.
ServerChats ==
  /\ server.state = "up"
  /\ server.stdout = <<>> /\ transport.waiter
  /\ server' = Says(Note("foreign", 0))
  /\ UNCHANGED <<run, transport>>

ServerExits ==
  /\ server.state = "up"
  /\ server' = [server EXCEPT !.state = "exited"]
  /\ UNCHANGED <<run, transport>>

-----------------------------------------------------------------------------
Init ==
  /\ WorkspaceInit
  /\ run = [at |-> "preparing", promise |-> "none", note |-> NoLine, aborted |-> FALSE,
            listening |-> FALSE, carry |-> <<>>, emitted |-> <<>>, cut |-> 0, events |-> 0,
            outcome |-> "none"]
  /\ transport = [failure |-> "none", pending |-> {}, waiter |-> FALSE, notifications |-> <<>>]
  /\ server = [state |-> "none", asked |-> {}, turn |-> "none", interrupted |-> FALSE,
               deltas |-> 0, notes |-> 0, stdout |-> <<>>]

Server == ServerAnswers \/ TurnBegins \/ ServerNotifies \/ ServerChats \/ ServerExits

\* What the event loop turns to: output, timers, the end of the process.
Loop ==
  HandleLine \/ (\E m \in Method : RequestTimesOut(m)) \/ WaiterTimesOut \/ ExitNoticed

\* The run is over, or the gateway with it; processes may still be on their way out.
Ended == run.at \in {"over", "crashed"} \/ workspace.at = "crashed"
Over == Ended /\ UNCHANGED vars

Next ==
  \/ Step \/ Abort \/ Over
  \/ (Loop \/ StdinBreaks \/ Server) /\ UNCHANGED workspace
  \/ GuestCatchesUp /\ UNCHANGED runVars

Spec == Init /\ [][Next]_vars

\* Everything Node owes the run, and nothing of what the App Server does.
Fairness ==
  /\ WF_vars(Step)
  /\ WF_runVars(HandleLine)
  /\ \A m \in Method : WF_runVars(RequestTimesOut(m))
  /\ WF_runVars(WaiterTimesOut)

FairSpec == Spec /\ Fairness

-----------------------------------------------------------------------------
(* Properties *)

\* Nothing waits on a transport that has failed, which holds nothing either, and
\* nobody waits while there is something to read.
TransportSound ==
  /\ transport.failure # "none" =>
       ~transport.waiter /\ transport.pending = {} /\ transport.notifications = <<>>
  /\ transport.waiter => transport.notifications = <<>>

\* A run that awaits something is known to the transport, which will tell it:
\* no promise of the two is forgotten.
NobodyForgotten ==
  run.promise = "waiting" =>
    IF run.at = "collecting"
      THEN transport.waiter
      ELSE transport.pending \ {"interrupt"} # {}

\* The variables are typed, the buffer keeps its limit, and transport and run agree
\* about who waits.
CodexInv == CodexTypeOK /\ WorkspaceTypeOK /\ TransportSound /\ NobodyForgotten

\* The text reaches onEvent in order and no piece of it twice, however it was buffered,
\* and without a gap while nothing was cut off; and a run that returns has handed over
\* all of it but what went over maxResultBytes, the end that only the final message
\* has included.
TextInOrder ==
  LET text == run.emitted \o run.carry IN
  /\ \A i, j \in DOMAIN text : i < j => text[i] < text[j]
  /\ run.cut = 0 => \A i \in DOMAIN text : text[i] = i
  /\ run.outcome = "returned" =>
       /\ Len(run.emitted) + run.cut >= server.deltas
       /\ run.note.n > server.deltas /\ run.cut = 0 => Len(run.emitted) = run.note.n

\* A run that is over leaves nothing behind that it could have taken away: no App
\* Server, no child that copies, and no snapshot in the guest.
NoOrphan ==
  /\ run.at = "over" => server.state # "up" /\ workspace.at = "gone"
  /\ NothingLeft

Runner == INSTANCE AgentRunner WITH
  outcome <- IF run.at = "over" THEN run.outcome ELSE "none",
  events <- run.events

\* To JobProcessor this is a runner as it expects: silent once it has settled,
\* and it settles, whatever the App Server and limactl do short of three things: the
\* timeout of a turn starts again with every notification (runner.ts:180), so that
\* a server that goes on chatting keeps the run; a pipe to limactl or to the App
\* Server that breaks takes the gateway down, which has no listener for the error of
\* either stdin; and so does a child that Node has no pipes for.
ImplementsRunner ==
  /\ Runner!Quiet
  /\ \/ <>Ended
     \/ []<><<ServerChats>>_runVars
=============================================================================
