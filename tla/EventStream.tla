---------------------------- MODULE EventStream ----------------------------
(***************************************************************************)
(* GET /v2/jobs/:jobId/events (src/src/app.ts): one client follows the     *)
(* events of a job, and after an interruption opens the stream again with  *)
(* the Last-Event-ID it has, while the job runs, ends, is interrupted by a *)
(* restart and finally swept.                                              *)
(*                                                                         *)
(* An action is what a handler does between two awaits.  The bytes it      *)
(* wrote that the client has not read yet are lost with the connection.    *)
(***************************************************************************)
EXTENDS JobStore

CONSTANTS
  Watched,       \* the job the client follows
  Streams,       \* BOUND: the connections the client opens, one after another
  Page,          \* how many events one read returns at most: 500
  ReadsYield     \* does anything commit between the two reads of a poll that
                 \* found nothing?  The awaits allow it; the synchronous SQLite
                 \* driver of today never takes the chance

ASSUME StreamAssumption ==
  /\ Watched \in JobIds
  /\ Page \in Nat \ {0}
  /\ ReadsYield \in BOOLEAN

VARIABLES
  stream,      \* the handler of every connection
  wire,        \* events written to the open connection, not read by the client
  received     \* the ids the client has read, over all its connections

streamVars == <<stream, wire, received>>
vars == <<storeVars, streamVars>>

\* polling: at the head of the loop, asleep or not; writing: in the for loop, or
\* past it; draining: waiting for the socket; ended: the response is ended, or
\* the process is gone; failed: the handler threw, the response is left open.
Phase == {"none", "polling", "writing", "draining", "ended", "failed"}

Stream ==
  [phase: Phase,
   cursor: Nat,
   batch: Seq(Nat),     \* events read and not written yet
   found: BOOLEAN,      \* did the last read return any?
   closed: BOOLEAN]     \* the connection is closed

StreamTypeOK ==
  /\ stream \in [Streams -> Stream]
  /\ wire \in Seq(Nat)
  /\ received \in Seq(Nat)

Log == jobEvents[Watched]

\* The other activities of the process get a turn.
MayInterleave ==
  \/ ReadsYield
  \/ \A s \in Streams : stream[s].phase = "writing" => stream[s].found

Move(s, phase) ==
  /\ stream' = [stream EXCEPT ![s].phase = phase]
  /\ UNCHANGED <<storeVars, wire, received>>

-----------------------------------------------------------------------------
(* The rest of the gateway *)

\* A job id is not used again while somebody remembers it.
Work ==
  /\ MayInterleave
  /\ \/ Submit
     \/ \E j \in JobIds : ClaimNextJob(j) \/ RequestCancellation(j) \/ RunCall(j)
     \/ PruneExpired
     \/ Tick
  /\ ~JobExists(Watched) /\ JobExists(Watched)' =>
       \A s \in Streams : stream[s].phase = "none"
  /\ UNCHANGED streamVars

\* The process goes down with its connections, and recovers the jobs.  Whether the
\* key was rotated meanwhile, which frees the keys of requests, is nothing to a stream.
Restart ==
  /\ RecoverInterruptedJobs
  /\ stream' = [s \in Streams |->
       IF stream[s].phase = "none" THEN stream[s]
       ELSE [stream[s] EXCEPT !.phase = "ended", !.closed = TRUE]]
  /\ wire' = <<>>
  /\ UNCHANGED received

-----------------------------------------------------------------------------
(* The client *)

\* Last-Event-ID; a first connection has none and starts from 0.
LastEventId == IF received = <<>> THEN 0 ELSE received[Len(received)]

SeenEnd ==
  /\ received # <<>>
  /\ received[Len(received)] \in DOMAIN Log
  /\ Log[received[Len(received)]] \in TerminalEvent

\* The client opens no second connection beside the one it has.
MayOpen(s) ==
  /\ stream[s].phase = "none" /\ ~SeenEnd
  /\ MayInterleave
  /\ \A t \in Streams : stream[t].phase # "none" => stream[t].closed
  /\ JobExists(Watched)

\* A client that has not seen the end asks for what comes after its last event;
\* for a job that is gone it gets a 404.
Open(s) ==
  /\ MayOpen(s)
  /\ stream' = [stream EXCEPT ![s].phase = "polling", ![s].cursor = LastEventId]
  /\ UNCHANGED <<storeVars, wire, received>>

Read ==
  /\ wire # <<>>
  /\ received' = Append(received, Head(wire))
  /\ wire' = Tail(wire)
  /\ UNCHANGED <<storeVars, stream>>

\* The client leaves, or the network does.
Disconnect(s) ==
  /\ stream[s].phase # "none" /\ ~stream[s].closed
  /\ stream' = [stream EXCEPT ![s].closed = TRUE]
  /\ wire' = <<>>
  /\ UNCHANGED <<storeVars, received>>

\* The client has read everything up to the end of the response.
ReadToEnd(s) == stream[s].phase = "ended" /\ wire = <<>> /\ Disconnect(s)

-----------------------------------------------------------------------------
(* The handler *)

\* Faulty: a loop that never looks at the connection.
LeaveNever(s) == FALSE /\ UNCHANGED vars

\* while (!closed)
Leave(s) == stream[s].phase = "polling" /\ stream[s].closed /\ Move(s, "ended")

\* events(): those after the cursor, in order, a page of them.
NextPage(s) ==
  LET c == stream[s].cursor n == Len(Log) - c IN
  [i \in 1 .. (IF n < Page THEN n ELSE Page) |-> c + i]

Poll(s) ==
  /\ stream[s].phase = "polling" /\ ~stream[s].closed
  /\ JobExists(Watched)
  /\ stream' = [stream EXCEPT ![s].phase = "writing",
                             ![s].batch = NextPage(s),
                             ![s].found = NextPage(s) # <<>>]
  /\ UNCHANGED <<storeVars, wire, received>>

\* events() and getJob() throw NOT_FOUND when the job was swept: the reply is
\* hijacked, so nobody answers and nobody ends the response.
ReadFails(s) ==
  /\ \/ stream[s].phase = "polling" /\ ~stream[s].closed
     \/ stream[s].phase = "writing" /\ stream[s].batch = <<>>
  /\ ~JobExists(Watched)
  /\ Move(s, "failed")

\* write() returns false when the buffer is full, and on a closed connection.
Write(s) ==
  LET event == Head(stream[s].batch) IN
  /\ stream[s].phase = "writing" /\ stream[s].batch # <<>>
  /\ \E full \in BOOLEAN :
       /\ stream[s].closed => full
       /\ stream' = [stream EXCEPT ![s].phase = IF full THEN "draining" ELSE "writing",
                                  ![s].cursor = event,
                                  ![s].batch = Tail(@)]
  /\ wire' = IF stream[s].closed THEN wire ELSE Append(wire, event)
  /\ UNCHANGED <<storeVars, received>>

\* Faulty: the buffer had drained before anybody listened.
DrainedUnheard(s) == FALSE /\ UNCHANGED vars

Drained(s) ==
  /\ stream[s].phase = "draining" /\ ~stream[s].closed
  /\ wire = <<>>
  /\ Move(s, "writing")

\* Faulty: the last events are not asked for.
IsOverOnce(s) == IsTerminal(Watched)

\* isTerminal(job.status) && events.length === 0
IsOver(s) == IsTerminal(Watched) /\ ~stream[s].found

\* getJob(), and then the end of the response or another round.
Check(s) ==
  /\ stream[s].phase = "writing" /\ stream[s].batch = <<>>
  /\ JobExists(Watched)
  /\ Move(s, IF IsOver(s) THEN "ended" ELSE "polling")

Handler(s) == Leave(s) \/ Poll(s) \/ ReadFails(s) \/ Write(s) \/ Drained(s) \/ Check(s)

-----------------------------------------------------------------------------
Init ==
  /\ StoreInit
  /\ stream = [s \in Streams |->
       [phase |-> "none", cursor |-> 0, batch |-> <<>>, found |-> FALSE, closed |-> FALSE]]
  /\ wire = <<>>
  /\ received = <<>>

Next ==
  \/ Work \/ Restart \/ Read
  \/ \E s \in Streams : Open(s) \/ Disconnect(s) \/ Handler(s)

Spec == Init /\ [][Next]_vars

\* The timers and reads of a handler come back, the network delivers, and the
\* client opens the stream again.  Nobody owes the job any progress.
Fairness ==
  /\ WF_vars(Read)
  /\ WF_vars(\E s \in Streams : Open(s))
  /\ \A s \in Streams : WF_vars(Handler(s)) /\ WF_vars(ReadToEnd(s))

FairSpec == Spec /\ Fairness

-----------------------------------------------------------------------------
(* Properties *)

\* "The Gateway replays events with a greater sequence": whatever was lost with
\* a connection, the client reads every event once and in order, and never one
\* the log does not hold.
NoGapNoRepeat ==
  /\ \A i \in DOMAIN received : received[i] = i
  /\ \A i \in DOMAIN wire : wire[i] = Len(received) + i
  /\ JobExists(Watched) => Len(received) + Len(wire) <= Len(Log)

\* "waits for new events until the job is terminal": a response the gateway ends
\* has carried the whole log, the event that tells how the job ended included.
EndsComplete ==
  \A s \in Streams :
    stream[s].phase = "ended" /\ ~stream[s].closed /\ JobExists(Watched) =>
      /\ IsTerminal(Watched)
      /\ Len(received) + Len(wire) = Len(Log)

\* The variables are typed, the client misses nothing and reads nothing twice, and
\* an end is the end.
StreamInv == StreamTypeOK /\ NoGapNoRepeat /\ EndsComplete

\* Once the job is over a client that comes back as often as it is thrown out
\* learns how it ended, unless it used up its connections or the job is swept.
ClientLearnsEnd ==
  IsTerminal(Watched) ~>
    \/ SeenEnd
    \/ ~JobExists(Watched)
    \/ \A s \in Streams : stream[s].closed

\* No handler polls for a client that has left: it ends, or it is caught
\* waiting for a socket that will not drain any more.
NobodyPollsForTheGone ==
  \A s \in Streams : stream[s].closed ~> stream[s].phase \in {"ended", "failed", "draining"}
=============================================================================
