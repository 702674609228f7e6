------------------------ MODULE ResponsesFacadeProofs ------------------------
(***************************************************************************)
(* Theorems of ResponsesFacade, for any requests, any keys and any limits  *)
(* of the store.                                                           *)
(***************************************************************************)
EXTENDS ResponsesFacade, JobStoreProofs

-----------------------------------------------------------------------------
(* The inductive invariant *)

\* What a request q knows of itself at the await it is at; s: it is a streaming one.
Controlled(q, s) ==
  /\ IF q.at = "idle" THEN ~q.gone ELSE q.key \in Keys
  /\ q.at \in {"idle", "submitting"} =>
       /\ q.job = NoJob /\ q.answer = "none" /\ q.grace = "unset"
       /\ q.cursor = 0 /\ q.sent = <<>>
  /\ q.at \notin {"idle", "submitting", "over"} => q.job \in JobIds /\ q.answer = "none"
  /\ q.cancellation = "pending" => q.key \in PrivateKeys /\ q.gone /\ q.job \in JobIds
  /\ q.at = "cancelling" => q.key \in PrivateKeys /\ q.late
  /\ s => q.at # "waiting"
  /\ q.at \notin {"draining", "redraining", "over"} => q.batch = {}
  /\ q.at \notin {"redraining", "finishing", "over"} => q.seen = "none"
  /\ q.at = "redraining" => q.seen \in TerminalStatus
  /\ q.at = "finishing" => q.seen # "none"
  /\ q.seen = "timeout" => q.grace # "unset"

\* The job does not run on: it is over, or somebody asked to cancel it.
Stopped(row) == row.status \in TerminalStatus \/ row.cancelRequested = 1

\* The deltas of a log up to the cursor are those that were written, in order, and
\* those of the batch, which come after them.
Delivers(q, log) ==
  LET written == {q.sent[n] : n \in DOMAIN q.sent} IN
  /\ q.cursor <= Len(log)
  /\ \A m, n \in DOMAIN q.sent : m < n => q.sent[m] < q.sent[n]
  /\ \A i \in written, k \in q.batch : i < k
  /\ written \cup q.batch = {i \in 1 .. q.cursor : log[i] = "agent.message.delta"}

\* What it read of its job, while the job exists.
Told(q, s, row, log) ==
  /\ q.seen \in TerminalStatus => row.status = q.seen
  /\ q.grace # "unset" /\ q.at \notin {"cancelling", "over"} /\ q.key \in PrivateKeys =>
       Stopped(row)
  /\ q.answer = "completed" => row.status = "completed"
  /\ q.answer = "failed" => row.status \in {"failed", "cancelled"}
  /\ q.answer = "timeout" /\ q.key \in PrivateKeys => Stopped(row)
  /\ s => Delivers(q, log)
  /\ s /\ (q.answer = "completed" \/ (q.at = "finishing" /\ q.seen \in TerminalStatus)) =>
       q.cursor = Len(log) /\ q.batch = {}

\* The job of a request answers to no key but its own, if it was not forgotten; a
\* private key, and the job that was submitted under it, is nobody else's.
KeysSound ==
  /\ \A r \in Requests : Known(r) =>
       \A ok \in Owners \X Keys : idempotency[ok] = req[r].job => ok = <<Client, req[r].key>>
  /\ \A r, q \in Requests : r # q /\ req[r].key \in PrivateKeys =>
       /\ req[q].key # req[r].key
       /\ req[r].job # NoJob => req[q].job # req[r].job

FacadeInd ==
  /\ FacadeTypeOK
  /\ \A r \in Requests :
       /\ Controlled(req[r], r \in Streaming)
       /\ Known(r) => Told(req[r], r \in Streaming, jobs[req[r].job], jobEvents[req[r].job])
  /\ KeysSound

-----------------------------------------------------------------------------
(* The store behind the requests *)

\* The calls that submit nothing.
Quiet ==
  \/ \E i \in JobIds : ClaimNextJob(i) \/ RequestCancellation(i) \/ RunCall(i)
  \/ RecoverInterruptedJobs \/ RotateKey \/ PruneExpired \/ Tick \/ UNCHANGED storeVars

\* What r has been told is true of the tables after the step.
Kept(r) ==
  LET j == req[r].job IN
  j # NoJob /\ jobs'[j].status # "absent" =>
    /\ Told(req[r], r \in Streaming, jobs'[j], jobEvents'[j])
    /\ \A ok \in Owners \X Keys : idempotency'[ok] = j => ok = <<Client, req[r].key>>

\* What is delivered is said by three fields.
LEMMA DeliversByFields ==
  ASSUME NEW q, NEW n, NEW log, n.cursor = q.cursor, n.sent = q.sent, n.batch = q.batch,
         Delivers(q, log)
  PROVE  Delivers(n, log)
BY DEF Delivers

LEMMA ToldStays ==
  ASSUME NEW q \in Request, NEW s, NEW row, NEW row2,
         NEW log \in Seq(EventType), NEW log2 \in Seq(EventType),
         Len(log) <= Len(log2), \A i \in DOMAIN log : log2[i] = log[i],
         row.status \in TerminalStatus => row2 = row /\ log2 = log,
         row.cancelRequested = 1 => row2.cancelRequested = 1,
         Told(q, s, row, log)
  PROVE  Told(q, s, row2, log2)
<1>1. s => Delivers(q, log2)
  <2> SUFFICES ASSUME s PROVE Delivers(q, log2)
    OBVIOUS
  <2>1. Delivers(q, log)
    BY DEF Told
  <2>2. q.cursor \in Nat /\ Len(log) \in Nat /\ Len(log2) \in Nat /\ DOMAIN log = 1 .. Len(log)
    BY DEF Request
  <2>3. q.cursor <= Len(log)
    BY <2>1 DEF Delivers
  <2>4. \A i \in 1 .. q.cursor : log2[i] = log[i]
    BY <2>2, <2>3
  <2>5. q.cursor <= Len(log2)
    BY <2>2, <2>3
  <2> QED
    BY <2>1, <2>4, <2>5 DEF Delivers
<1>2. q.seen \in TerminalStatus \/ q.answer = "completed" => log2 = log
  BY DEF Told, TerminalStatus
<1> QED
  BY <1>1, <1>2 DEF Told, Stopped, TerminalStatus

\* Only a submission writes a record.
LEMMA NoKeyAppears ==
  ASSUME StoreTypeOK, Quiet, NEW ok \in Owners \X Keys
  PROVE  idempotency'[ok] \in {idempotency[ok], NoJob}
<1>1. CASE PruneExpired
  BY <1>1 DEF PruneExpired, DeleteRecords
<1>2. CASE RotateKey
  BY <1>2 DEF RotateKey
<1>3. CASE \/ \E i \in JobIds : ClaimNextJob(i) \/ RequestCancellation(i) \/ RunCall(i)
           \/ RecoverInterruptedJobs \/ Tick \/ UNCHANGED storeVars
  BY <1>3 DEF ClaimNextJob, RequestCancellation, CancelQueued, CancelRunning, RunCall, AppendEvent,
     UpdateBackendThread, CompleteJob, FailJob, MarkCancelled, FinalizeCancellation, EndJob,
     RecoverInterruptedJobs, Tick, tables, storeVars
<1> QED
  BY <1>1, <1>2, <1>3 DEF Quiet

\* Whatever the gateway does behind a request, the request was told the truth.
LEMMA QuietKeeps ==
  ASSUME FacadeInd, StoreTypeOK, StoreInv, EventLogMatches, Quiet, NEW r \in Requests
  PROVE  Kept(r)
<1> DEFINE q == req[r]
<1> SUFFICES ASSUME q.job # NoJob, jobs'[q.job].status # "absent"
             PROVE  /\ Told(q, r \in Streaming, jobs'[q.job], jobEvents'[q.job])
                    /\ \A ok \in Owners \X Keys :
                         idempotency'[ok] = q.job => ok = <<Client, q.key>>
  BY DEF Kept
<1>1. [StoreNext]_storeVars
  BY DEF Quiet, StoreNext, GatewayNext
<1>2. q \in Request /\ q.job \in JobIds
  BY DEF FacadeInd, FacadeTypeOK, Request
<1>3. PICK j \in JobIds : j = q.job
  BY <1>2
<1>4. JobExists(j)'
  BY <1>3 DEF JobExists
<1>5. JobExists(j)
  BY <1>4, NoneAppears DEF Quiet
<1>6. Known(r)
  BY <1>3, <1>5 DEF Known
<1>8. \A ok \in Owners \X Keys : idempotency'[ok] = j => ok = <<Client, q.key>>
  <2>1. \A ok \in Owners \X Keys : idempotency[ok] = j => ok = <<Client, q.key>>
    BY <1>3, <1>6 DEF FacadeInd, KeysSound
  <2>2. j # NoJob
    BY NullsAssumption
  <2> QED
    BY <2>1, <2>2, NoKeyAppears
<1>9. Told(q, r \in Streaming, jobs[j], jobEvents[j])
  BY <1>3, <1>6 DEF FacadeInd
<1>10. /\ jobEvents[j] \in Seq(EventType) /\ jobEvents'[j] \in Seq(EventType)
       /\ Len(jobEvents[j]) <= Len(jobEvents'[j])
       /\ \A i \in DOMAIN jobEvents[j] : jobEvents'[j][i] = jobEvents[j][i]
       /\ jobs[j].status \in TerminalStatus => jobs'[j] = jobs[j] /\ jobEvents'[j] = jobEvents[j]
       /\ jobs[j].cancelRequested = 1 => jobs'[j].cancelRequested = 1
  BY <1>1, <1>4, <1>5, JobGoesOn DEF IsTerminal
<1> HIDE DEF q
<1>11. Told(q, r \in Streaming, jobs'[j], jobEvents'[j])
  BY <1>2, <1>9, <1>10, ToldStays
<1> QED
  BY <1>3, <1>8, <1>11

\* Requests move on, with their keys and their jobs.
LEMMA AllMove ==
  ASSUME FacadeInd, \A p \in Requests : Kept(p), req' \in [Requests -> Request],
         \A p \in Requests :
           /\ req'[p].key = req[p].key /\ req'[p].job = req[p].job
           /\ Controlled(req'[p], p \in Streaming)
           /\ Known(p)' /\ Told(req[p], p \in Streaming, jobs'[req[p].job], jobEvents'[req[p].job]) =>
                Told(req'[p], p \in Streaming, jobs'[req[p].job], jobEvents'[req[p].job])
  PROVE  FacadeInd'
<1>1. FacadeTypeOK'
  BY DEF FacadeTypeOK
<1>2. ASSUME NEW p \in Requests
      PROVE  Known(p)' =>
               /\ Told(req'[p], p \in Streaming, jobs'[req'[p].job], jobEvents'[req'[p].job])
               /\ \A ok \in Owners \X Keys :
                    idempotency'[ok] = req'[p].job => ok = <<Client, req'[p].key>>
  BY DEF Kept, Known, JobExists
<1>3. KeysSound'
  BY <1>2 DEF FacadeInd, KeysSound
<1> QED
  BY <1>1, <1>2, <1>3 DEF FacadeInd

\* One of them does.
LEMMA OneMoves ==
  ASSUME FacadeInd, \A p \in Requests : Kept(p), NEW r \in Requests, NEW n \in Request,
         req' = [req EXCEPT ![r] = n], n.key = req[r].key, n.job = req[r].job,
         Controlled(n, r \in Streaming),
         Known(r)' /\ Told(req[r], r \in Streaming, jobs'[req[r].job], jobEvents'[req[r].job]) =>
           Told(n, r \in Streaming, jobs'[req[r].job], jobEvents'[req[r].job])
  PROVE  FacadeInd'
<1>1. req \in [Requests -> Request] /\ \A p \in Requests : Controlled(req[p], p \in Streaming)
  BY DEF FacadeInd, FacadeTypeOK
<1>2. req'[r] = n /\ req' \in [Requests -> Request] /\ \A p \in Requests \ {r} : req'[p] = req[p]
  BY <1>1
<1> QED
  BY <1>1, <1>2, AllMove

-----------------------------------------------------------------------------
(* The steps of one request that leave the store alone *)

StoreSound == StoreTypeOK /\ StoreInv /\ EventLogMatches

\* What the request n would have been told.
TruthOf(r, n) == Told(n, r \in Streaming, jobs[req[r].job], jobEvents[req[r].job])

LEMMA MoveKeeps ==
  ASSUME FacadeInd, StoreSound, UNCHANGED storeVars, NEW r \in Requests, NEW n \in Request,
         req' = [req EXCEPT ![r] = n], n.key = req[r].key, n.job = req[r].job,
         Controlled(n, r \in Streaming),
         Known(r) /\ TruthOf(r, req[r]) => TruthOf(r, n)
  PROVE  FacadeInd'
<1>1. \A p \in Requests : Kept(p)
  BY QuietKeeps DEF Quiet, StoreSound
<1>2. req'[r].job = req[r].job
  BY DEF FacadeInd, FacadeTypeOK
<1>3. Known(r)' => Known(r)
  BY <1>2 DEF Known, JobExists, storeVars
<1> QED
  BY <1>1, <1>3, OneMoves DEF TruthOf, storeVars

\* The handler goes from one await to the next, with nothing new about its job.
LEMMA PhaseKeeps ==
  ASSUME FacadeInd, StoreSound, NEW r \in Requests, NEW phase \in Phase, Move(r, phase),
         req[r].at \notin {"idle", "submitting", "over"},
         phase \notin {"idle", "submitting", "redraining", "finishing", "over"},
         req[r].seen = "none", req[r].batch = {},
         phase = "cancelling" => req[r].key \in PrivateKeys /\ req[r].late,
         phase = "waiting" => r \notin Streaming,
         req[r].at = "cancelling" => phase = "cancelling"
  PROVE  FacadeInd'
<1> DEFINE q == req[r]
           n == [q EXCEPT !.at = phase]
<1>1. q \in Request /\ req \in [Requests -> Request] /\ Controlled(q, r \in Streaming)
  BY DEF FacadeInd, FacadeTypeOK
<1>2. n \in Request /\ req' = [req EXCEPT ![r] = n] /\ UNCHANGED storeVars
  BY <1>1 DEF Move, Request
<1>3. /\ n.at = phase /\ n.key = q.key /\ n.job = q.job /\ n.gone = q.gone
      /\ n.cancellation = q.cancellation /\ n.late = q.late /\ n.grace = q.grace
      /\ n.cursor = q.cursor /\ n.batch = q.batch /\ n.sent = q.sent
      /\ n.seen = q.seen /\ n.answer = q.answer
  BY <1>1 DEF Request
<1> HIDE DEF n
<1>4. Controlled(n, r \in Streaming)
  BY <1>1, <1>3 DEF Controlled
<1>5. TruthOf(r, q) => TruthOf(r, n)
  BY <1>1, <1>3, DeliversByFields DEF TruthOf, Told, Controlled, TerminalStatus
<1> QED
  BY <1>2, <1>3, <1>4, <1>5, MoveKeeps

\* The handler returns, and what it answers is true.
LEMMA EndKeeps ==
  ASSUME FacadeInd, StoreSound, NEW r \in Requests, NEW a, End(r, a),
         a \in {"completed", "failed", "timeout", "refused", "left", "broken", "lost"},
         req[r].at # "idle",
         Known(r) /\ TruthOf(r, req[r]) =>
           LET row == jobs[req[r].job] log == jobEvents[req[r].job] IN
           /\ a = "completed" =>
                /\ row.status = "completed"
                /\ r \in Streaming => req[r].cursor = Len(log) /\ req[r].batch = {}
           /\ a = "failed" => row.status \in {"failed", "cancelled"}
           /\ a = "timeout" /\ req[r].key \in PrivateKeys => Stopped(row)
  PROVE  FacadeInd'
<1> DEFINE q == req[r]
           n == [q EXCEPT !.at = "over", !.answer = a]
<1>1. q \in Request /\ req \in [Requests -> Request] /\ Controlled(q, r \in Streaming)
  BY DEF FacadeInd, FacadeTypeOK
<1>2. n \in Request /\ req' = [req EXCEPT ![r] = n] /\ UNCHANGED storeVars
  <2>1. "over" \in Phase
    BY DEF Phase
  <2>2. n \in Request
    BY <1>1, <2>1 DEF Request
  <2> QED
    BY <1>1, <2>2 DEF End
<1>3. /\ n.at = "over" /\ n.key = q.key /\ n.job = q.job /\ n.gone = q.gone
      /\ n.cancellation = q.cancellation /\ n.late = q.late /\ n.grace = q.grace
      /\ n.cursor = q.cursor /\ n.batch = q.batch /\ n.sent = q.sent
      /\ n.seen = q.seen /\ n.answer = a
  BY <1>1 DEF Request
<1> HIDE DEF n
<1>4. Controlled(n, r \in Streaming)
  BY <1>1, <1>3 DEF Controlled
<1>5. Known(r) /\ TruthOf(r, q) => TruthOf(r, n)
  BY <1>1, <1>3, DeliversByFields DEF TruthOf, Told, Controlled, TerminalStatus
<1> QED
  BY <1>2, <1>3, <1>4, <1>5, MoveKeeps

\* What is said of a request by everything but its connection and its deadlines.
SameProgress(q, n) ==
  /\ n.at = q.at /\ n.key = q.key /\ n.job = q.job
  /\ n.cursor = q.cursor /\ n.batch = q.batch /\ n.sent = q.sent
  /\ n.seen = q.seen /\ n.answer = q.answer
  /\ n.grace = "unset" <=> q.grace = "unset"

LEMMA ProgressTells ==
  ASSUME NEW q, NEW n, NEW s, NEW row, NEW log, SameProgress(q, n), Told(q, s, row, log)
  PROVE  Told(n, s, row, log)
BY DeliversByFields DEF SameProgress, Told

\* The clock, the client and the socket.
LEMMA ConnectionKeeps ==
  ASSUME FacadeInd, StoreSound, NEW r \in Requests,
         DeadlinePasses(r) \/ GracePasses(r) \/ Leave(r) \/ Drained(r)
  PROVE  FacadeInd'
<1> DEFINE q == req[r]
<1>1. q \in Request /\ req \in [Requests -> Request] /\ Controlled(q, r \in Streaming)
  BY DEF FacadeInd, FacadeTypeOK
<1>2. ASSUME NEW n \in Request, req' = [req EXCEPT ![r] = n], UNCHANGED storeVars,
             SameProgress(q, n), Controlled(n, r \in Streaming)
      PROVE  FacadeInd'
  BY <1>2, MoveKeeps, ProgressTells DEF TruthOf, SameProgress
<1>3. CASE DeadlinePasses(r)
  <2> DEFINE n == [q EXCEPT !.late = TRUE]
  <2>1. n \in Request /\ req' = [req EXCEPT ![r] = n] /\ UNCHANGED storeVars
    BY <1>1, <1>3 DEF DeadlinePasses, Request
  <2>2. SameProgress(q, n) /\ Controlled(n, r \in Streaming)
    BY <1>1 DEF SameProgress, Controlled, Request
  <2> QED
    BY <1>2, <2>1, <2>2
<1>4. CASE GracePasses(r)
  <2> DEFINE n == [q EXCEPT !.grace = "over"]
  <2>1. n \in Request /\ req' = [req EXCEPT ![r] = n] /\ UNCHANGED storeVars /\ q.grace = "open"
    BY <1>1, <1>4 DEF GracePasses, Request
  <2>2. SameProgress(q, n) /\ Controlled(n, r \in Streaming)
    BY <1>1, <2>1 DEF SameProgress, Controlled, Request
  <2> QED
    BY <1>2, <2>1, <2>2
<1>5. CASE Leave(r)
  <2> DEFINE goes == q.at # "over" /\ MayCancelJob(r) /\ Submitted(r)
             n == [q EXCEPT !.gone = TRUE, !.cancellation = IF goes THEN "pending" ELSE @]
  <2>1. n \in Request /\ req' = [req EXCEPT ![r] = n] /\ UNCHANGED storeVars /\ q.at # "idle"
    BY <1>1, <1>5 DEF Leave, Request
  <2>2. goes => q.key \in PrivateKeys /\ q.job \in JobIds
    BY <1>1 DEF MayCancelJob, Submitted, Controlled
  <2>3. SameProgress(q, n) /\ n.gone /\ n.late = q.late
        /\ n.cancellation = IF goes THEN "pending" ELSE q.cancellation
    BY <1>1 DEF SameProgress, Request
  <2> HIDE DEF n, goes
  <2>4. Controlled(n, r \in Streaming)
    BY <1>1, <2>1, <2>2, <2>3 DEF SameProgress, Controlled
  <2> QED
    BY <1>2, <2>1, <2>3, <2>4
<1>6. CASE Drained(r)
  <2> DEFINE n == [q EXCEPT !.stalled = FALSE]
  <2>1. n \in Request /\ req' = [req EXCEPT ![r] = n] /\ UNCHANGED storeVars
    BY <1>1, <1>6 DEF Drained, Request
  <2>2. SameProgress(q, n) /\ Controlled(n, r \in Streaming)
    BY <1>1 DEF SameProgress, Controlled, Request
  <2> QED
    BY <1>2, <2>1, <2>2
<1> QED
  BY <1>3, <1>4, <1>5, <1>6

\* The handler waits, looks at its job, gives up or is through.
LEMMA WaitKeeps ==
  ASSUME FacadeInd, StoreSound, NEW r \in Requests,
         \/ Continues(r) \/ Abandons(r) \/ Polls(r) \/ Throws(r) \/ Opens(r) \/ Loops(r)
         \/ Breaks(r)
  PROVE  FacadeInd'
<1> DEFINE q == req[r]
<1>1. q \in Request /\ req \in [Requests -> Request] /\ Controlled(q, r \in Streaming)
  BY DEF FacadeInd, FacadeTypeOK
<1>2. ASSUME End(r, "left") \/ End(r, "broken"), q.at # "idle" PROVE FacadeInd'
  BY <1>2, EndKeeps
<1>3. CASE Continues(r)
  <2>1. q.at = "submitted"
    BY <1>3 DEF Continues
  <2>2. ASSUME Begins(r) PROVE FacadeInd'
    <3>1. q.seen = "none" /\ q.batch = {}
      BY <1>1, <2>1 DEF Controlled
    <3>2. "opening" \in Phase /\ "waiting" \in Phase
      BY DEF Phase
    <3>3. CASE r \in Streaming
      BY <2>1, <2>2, <3>1, <3>2, <3>3, PhaseKeeps DEF Begins
    <3>4. CASE r \notin Streaming
      BY <2>1, <2>2, <3>1, <3>2, <3>4, PhaseKeeps DEF Begins
    <3> QED
      BY <3>3, <3>4
  <2>3. ASSUME q.gone, MayCancelJob(r), UNCHANGED storeVars,
               req' = [req EXCEPT ![r].at = "abandoning", ![r].cancellation = "pending"]
        PROVE  FacadeInd'
    <3> DEFINE n == [q EXCEPT !.at = "abandoning", !.cancellation = "pending"]
    <3>1. "abandoning" \in Phase
      BY DEF Phase
    <3>2. n \in Request /\ req' = [req EXCEPT ![r] = n]
      BY <1>1, <2>3, <3>1 DEF Request
    <3>3. /\ n.at = "abandoning" /\ n.key = q.key /\ n.job = q.job /\ n.gone
          /\ n.cancellation = "pending" /\ n.late = q.late /\ n.grace = q.grace
          /\ n.cursor = q.cursor /\ n.batch = q.batch /\ n.sent = q.sent
          /\ n.seen = q.seen /\ n.answer = q.answer
      BY <1>1, <2>3 DEF Request
    <3> HIDE DEF n
    <3>4. Controlled(n, r \in Streaming)
      BY <1>1, <2>1, <2>3, <3>3 DEF Controlled, MayCancelJob
    <3>5. TruthOf(r, q) => TruthOf(r, n)
      BY <2>1, <3>3, DeliversByFields DEF TruthOf, Told
    <3> QED
      BY <2>3, <3>2, <3>3, <3>4, <3>5, MoveKeeps
  <2> QED
    BY <1>2, <1>3, <2>1, <2>2, <2>3 DEF Continues
<1>4. CASE Abandons(r)
  BY <1>2, <1>4 DEF Abandons
<1>5. CASE Polls(r)
  <2>1. q.at = "waiting" /\ r \notin Streaming /\ q.seen = "none" /\ q.batch = {}
    BY <1>1, <1>5 DEF Polls, Controlled
  <2>2. ASSUME q.late, MayCancelJob(r), Move(r, "cancelling") PROVE FacadeInd'
    <3>1. "cancelling" \in Phase
      BY DEF Phase
    <3> QED
      BY <2>1, <2>2, <3>1, PhaseKeeps DEF MayCancelJob
  <2>3. ASSUME ~MayCancelJob(r), End(r, "timeout") PROVE FacadeInd'
    BY <2>1, <2>3, EndKeeps DEF MayCancelJob
  <2>4. ASSUME IsTerminal(q.job), NEW a,
               a = IF jobs[q.job].status = "completed" THEN "completed" ELSE "failed",
               End(r, a)
        PROVE  FacadeInd'
    <3>1. /\ a = "completed" => jobs[q.job].status = "completed"
          /\ a = "failed" => jobs[q.job].status \in {"failed", "cancelled"}
          /\ a \in {"completed", "failed"}
      BY <2>4 DEF IsTerminal, TerminalStatus
    <3> QED
      BY <2>1, <2>4, <3>1, EndKeeps
  <2> QED
    BY <1>2, <1>5, <2>1, <2>2, <2>3, <2>4 DEF Polls
<1>6. CASE Throws(r)
  <2>1. q.at # "idle"
    BY <1>6, <1>1 DEF Throws, Controlled
  <2> QED
    BY <1>2, <1>6, <2>1 DEF Throws
<1>7. CASE Opens(r)
  <2>1. q.at = "opening" /\ q.seen = "none" /\ q.batch = {} /\ "head" \in Phase
    BY <1>1, <1>7 DEF Opens, Controlled, Phase
  <2> QED
    BY <1>7, <2>1, PhaseKeeps DEF Opens
<1>8. CASE Loops(r)
  <2>1. q.at = "head" /\ q.seen = "none" /\ q.batch = {} /\ "draining" \in Phase
    BY <1>1, <1>8 DEF Loops, Controlled, Phase
  <2>2. End(r, "left") \/ Move(r, "draining")
    BY <1>8 DEF Loops
  <2> QED
    BY <1>2, <2>1, <2>2, PhaseKeeps
<1>9. CASE Breaks(r)
  <2>1. q.at \in {"draining", "redraining", "checking"}
    BY <1>9 DEF Breaks, AtRead
  <2> QED
    BY <1>2, <1>9, <2>1 DEF Breaks
<1> QED
  BY <1>3, <1>4, <1>5, <1>6, <1>7, <1>8, <1>9

\* drainAvailableDeltas reads on from the cursor ...
LEMMA ReadKeeps ==
  ASSUME FacadeInd, StoreSound, NEW r \in Requests, Reads(r)
  PROVE  FacadeInd'
<1> DEFINE q == req[r]
           log == Log(r)
           to == IF q.cursor < Len(log) THEN q.at
                 ELSE IF q.at = "draining" THEN "checking" ELSE "finishing"
           rest == DeltasAfter(r, q.cursor)
           n == [q EXCEPT !.cursor = Len(log), !.batch = rest, !.at = to]
<1>1. q \in Request /\ req \in [Requests -> Request] /\ Controlled(q, r \in Streaming)
  BY DEF FacadeInd, FacadeTypeOK
<1>2. q.at \in {"draining", "redraining"} /\ q.batch = {}
  BY DEF Reads, AtRead
<1>3. q.job \in JobIds /\ q.cursor \in Nat /\ q.answer = "none"
  BY <1>1, <1>2 DEF Controlled, Request
<1>4. log \in Seq(EventType) /\ log = jobEvents[q.job]
  BY <1>3 DEF StoreSound, StoreTypeOK, Log
<1>5. Len(log) \in Nat /\ DOMAIN log = 1 .. Len(log)
  BY <1>4
<1>6. rest = {i \in 1 .. Len(log) : i > q.cursor /\ log[i] = "agent.message.delta"}
  BY <1>5 DEF DeltasAfter
<1>7. rest \in SUBSET Nat /\ (~(q.cursor < Len(log)) => rest = {})
  BY <1>3, <1>5, <1>6
<1>8. to \in Phase
  BY <1>2 DEF Phase
<1>9. req' = [req EXCEPT ![r] = n] /\ UNCHANGED storeVars
  BY <1>1 DEF Reads, Request
<1> HIDE DEF log, rest, to
<1>10. n \in Request
  BY <1>1, <1>5, <1>7, <1>8 DEF Request
<1>11. /\ n.at = to /\ n.key = q.key /\ n.job = q.job /\ n.gone = q.gone
       /\ n.cancellation = q.cancellation /\ n.late = q.late /\ n.grace = q.grace
       /\ n.cursor = Len(log) /\ n.batch = rest /\ n.sent = q.sent
       /\ n.seen = q.seen /\ n.answer = q.answer
  BY <1>1 DEF Request
<1> HIDE DEF n
<1>12. \/ to = q.at
       \/ to = "checking" /\ q.at = "draining" /\ rest = {}
       \/ to = "finishing" /\ q.at = "redraining" /\ rest = {}
  BY <1>2, <1>7 DEF to
<1>13. Controlled(n, r \in Streaming)
  BY <1>1, <1>2, <1>11, <1>12 DEF Controlled, TerminalStatus
<1>14. ASSUME Delivers(q, log) PROVE Delivers(n, log)
  <2> DEFINE written == {q.sent[m] : m \in DOMAIN q.sent}
  <2>1. q.cursor <= Len(log) /\ written = {i \in 1 .. q.cursor : log[i] = "agent.message.delta"}
    BY <1>2, <1>14 DEF Delivers
  <2> HIDE DEF written
  <2>2. \A i \in written : i \in Int /\ i <= q.cursor
    BY <1>3, <2>1
  <2>3. \A k \in rest : k \in Int /\ q.cursor < k
    BY <1>3, <1>5, <1>6
  <2>4. \A i \in written, k \in rest : i < k
    BY <1>3, <2>2, <2>3
  <2>5. written \cup rest = {i \in 1 .. Len(log) : log[i] = "agent.message.delta"}
    BY <1>3, <1>5, <1>6, <2>1
  <2>6. Len(log) <= Len(log)
    BY <1>5
  <2>7. written = {n.sent[m] : m \in DOMAIN n.sent}
    BY <1>11 DEF written
  <2>8. \A m, l \in DOMAIN n.sent : m < l => n.sent[m] < n.sent[l]
    BY <1>11, <1>14 DEF Delivers
  <2> QED
    BY <1>11, <2>4, <2>5, <2>6, <2>7, <2>8 DEF Delivers
<1>15. TruthOf(r, q) => TruthOf(r, n)
  <2> SUFFICES ASSUME TruthOf(r, q) PROVE TruthOf(r, n)
    OBVIOUS
  <2>1. Told(q, r \in Streaming, jobs[q.job], log)
    BY <1>4 DEF TruthOf
  <2>2. Told(n, r \in Streaming, jobs[q.job], log)
    BY <1>2, <1>3, <1>11, <1>12, <1>14, <2>1 DEF Told
  <2> QED
    BY <1>4, <2>2 DEF TruthOf
<1> QED
  BY <1>9, <1>10, <1>11, <1>13, <1>15, MoveKeeps

\* ... and writes what it has read, the least first.
LEMMA WriteKeeps ==
  ASSUME FacadeInd, StoreSound, NEW r \in Requests, Writes(r)
  PROVE  FacadeInd'
<1> DEFINE q == req[r]
<1>1. q \in Request /\ req \in [Requests -> Request] /\ Controlled(q, r \in Streaming)
  BY DEF FacadeInd, FacadeTypeOK
<1>2. PICK i \in q.batch, full \in BOOLEAN :
        /\ \A k \in q.batch : i <= k
        /\ req' = [req EXCEPT ![r].sent = Append(@, i), ![r].batch = @ \ {i}, ![r].stalled = full]
  BY DEF Writes
<1> DEFINE longer == Append(q.sent, i)
           rest == q.batch \ {i}
           n == [q EXCEPT !.sent = longer, !.batch = rest, !.stalled = full]
<1>3. q.at \in {"draining", "redraining"}
  BY <1>1, <1>2 DEF Controlled, Writes
<1>4. q.sent \in Seq(Nat) /\ q.batch \in SUBSET Nat /\ i \in Nat
  BY <1>1, <1>2 DEF Request
<1>5. longer \in Seq(Nat) /\ rest \in SUBSET Nat
  BY <1>4
<1>6. /\ Len(q.sent) \in Nat /\ DOMAIN q.sent = 1 .. Len(q.sent)
      /\ DOMAIN longer = 1 .. Len(q.sent) + 1
      /\ longer[Len(q.sent) + 1] = i
      /\ \A m \in 1 .. Len(q.sent) : longer[m] = q.sent[m]
  BY <1>4
<1>7. req' = [req EXCEPT ![r] = n] /\ UNCHANGED storeVars
  BY <1>1, <1>2 DEF Writes, Request
<1> HIDE DEF longer, rest
<1>8. n \in Request
  BY <1>1, <1>2, <1>5 DEF Request
<1>9. /\ n.at = q.at /\ n.key = q.key /\ n.job = q.job /\ n.gone = q.gone
      /\ n.cancellation = q.cancellation /\ n.late = q.late /\ n.grace = q.grace
      /\ n.cursor = q.cursor /\ n.batch = rest /\ n.sent = longer
      /\ n.seen = q.seen /\ n.answer = q.answer
  BY <1>1 DEF Request
<1> HIDE DEF n
<1>10. Controlled(n, r \in Streaming)
  BY <1>1, <1>3, <1>9 DEF Controlled
<1>11. ASSUME NEW log, Delivers(q, log) PROVE Delivers(n, log)
  <2> DEFINE written == {q.sent[m] : m \in DOMAIN q.sent}
             sentNow == {longer[m] : m \in DOMAIN longer}
  <2>1. sentNow = written \cup {i}
    BY <1>6
  <2>2. \A a \in written, k \in q.batch : a < k
    BY <1>11 DEF Delivers
  <2>3. \A a, b \in DOMAIN longer : a < b => longer[a] < longer[b]
    <3> SUFFICES ASSUME NEW a \in DOMAIN longer, NEW b \in DOMAIN longer, a < b
                 PROVE  longer[a] < longer[b]
      OBVIOUS
    <3>1. a \in 1 .. Len(q.sent) /\ b \in 1 .. Len(q.sent) + 1
      BY <1>6
    <3>2. CASE b = Len(q.sent) + 1
      <4>1. q.sent[a] \in written
        BY <1>6, <3>1
      <4> QED
        BY <1>2, <1>6, <2>2, <3>1, <3>2, <4>1
    <3>3. CASE b \in 1 .. Len(q.sent)
      BY <1>6, <1>11, <3>1, <3>3 DEF Delivers
    <3> QED
      BY <1>6, <3>1, <3>2, <3>3
  <2>4. \A a \in sentNow, k \in rest : a < k
    <3>1. \A k \in rest : k \in q.batch /\ i < k
      BY <1>2, <1>4 DEF rest
    <3> QED
      BY <2>1, <2>2, <3>1
  <2>5. sentNow \cup rest = written \cup q.batch
    BY <1>2, <2>1 DEF rest
  <2> HIDE DEF sentNow
  <2>6. sentNow = {n.sent[m] : m \in DOMAIN n.sent}
    BY <1>9 DEF sentNow
  <2> QED
    BY <1>9, <1>11, <2>3, <2>4, <2>5, <2>6 DEF Delivers
<1>12. TruthOf(r, q) => TruthOf(r, n)
  BY <1>1, <1>3, <1>9, <1>11 DEF TruthOf, Told, Controlled
<1> QED
  BY <1>7, <1>8, <1>9, <1>10, <1>12, MoveKeeps

\* The stream looks at the status of its job, goes on or comes to its end.
LEMMA CheckKeeps ==
  ASSUME FacadeInd, StoreSound, NEW r \in Requests,
         SeesEnd(r) \/ GivesUp(r) \/ GoesOn(r) \/ Finishes(r)
  PROVE  FacadeInd'
<1> DEFINE q == req[r]
<1>1. q \in Request /\ req \in [Requests -> Request] /\ Controlled(q, r \in Streaming)
  BY DEF FacadeInd, FacadeTypeOK
<1>2. ASSUME NEW status \in TerminalStatus \cup {"timeout"}, NEW phase \in {"redraining", "finishing"},
             StreamEnds(r, status, phase), q.at = "checking",
             \/ phase = "redraining" /\ jobs[q.job].status = status /\ IsTerminal(q.job)
             \/ phase = "finishing" /\ status = "timeout" /\ q.grace # "unset"
      PROVE  FacadeInd'
  <2> DEFINE n == [q EXCEPT !.seen = status, !.at = phase]
  <2>1. phase \in Phase
    BY DEF Phase
  <2>2. n \in Request /\ req' = [req EXCEPT ![r] = n] /\ UNCHANGED storeVars
    BY <1>1, <1>2, <2>1 DEF StreamEnds, Request
  <2>3. /\ n.at = phase /\ n.key = q.key /\ n.job = q.job /\ n.gone = q.gone
        /\ n.cancellation = q.cancellation /\ n.late = q.late /\ n.grace = q.grace
        /\ n.cursor = q.cursor /\ n.batch = q.batch /\ n.sent = q.sent
        /\ n.seen = status /\ n.answer = q.answer
    BY <1>1 DEF Request
  <2> HIDE DEF n
  <2>4. status = "timeout" \/ status \in TerminalStatus
    OBVIOUS
  <2>5. (status = "timeout" => phase = "finishing" /\ q.grace # "unset")
        /\ (phase = "redraining" => status \in TerminalStatus)
        /\ status # "none"
    BY <1>2 DEF IsTerminal, TerminalStatus
  <2>6. Controlled(n, r \in Streaming)
    BY <1>1, <1>2, <2>3, <2>5 DEF Controlled
  <2>7. TruthOf(r, q) => TruthOf(r, n)
    BY <1>1, <1>2, <2>3, DeliversByFields DEF TruthOf, Told, Controlled, TerminalStatus, IsTerminal
  <2> QED
    BY <2>2, <2>3, <2>6, <2>7, MoveKeeps
<1>3. CASE SeesEnd(r)
  BY <1>2, <1>3 DEF SeesEnd, IsTerminal
<1>4. CASE GivesUp(r)
  BY <1>2, <1>4 DEF GivesUp
<1>5. CASE GoesOn(r)
  <2> DEFINE expires == q.late /\ q.grace = "unset"
             open == IF expires THEN "open" ELSE q.grace
             to == IF expires /\ MayCancelJob(r) THEN "cancelling" ELSE "head"
             n == [q EXCEPT !.grace = open, !.at = to]
  <2>1. to \in Phase /\ open \in {"unset", "open", "over"}
    BY <1>1 DEF Phase, Request
  <2>2. req' = [req EXCEPT ![r] = n] /\ UNCHANGED storeVars /\ q.at = "checking"
    BY <1>1, <1>5 DEF GoesOn, Request
  <2>3. /\ to \in {"cancelling", "head"}
        /\ to = "cancelling" => q.key \in PrivateKeys /\ q.late
        /\ open # "unset" => \/ q.grace # "unset"
                             \/ to = "cancelling"
                             \/ q.key \notin PrivateKeys
        /\ q.grace # "unset" => open # "unset"
    BY DEF MayCancelJob
  <2> HIDE DEF to, open
  <2>4. n \in Request
    BY <1>1, <2>1 DEF Request
  <2>5. /\ n.at = to /\ n.key = q.key /\ n.job = q.job /\ n.gone = q.gone
        /\ n.cancellation = q.cancellation /\ n.late = q.late /\ n.grace = open
        /\ n.cursor = q.cursor /\ n.batch = q.batch /\ n.sent = q.sent
        /\ n.seen = q.seen /\ n.answer = q.answer
    BY <1>1 DEF Request
  <2> HIDE DEF n
  <2>6. Controlled(n, r \in Streaming)
    BY <1>1, <2>2, <2>3, <2>5 DEF Controlled
  <2>7. TruthOf(r, q) => TruthOf(r, n)
    BY <1>1, <2>2, <2>3, <2>5, DeliversByFields DEF TruthOf, Told, Controlled, TerminalStatus
  <2> QED
    BY <2>2, <2>4, <2>5, <2>6, <2>7, MoveKeeps
<1>6. CASE Finishes(r)
  <2> DEFINE row == jobs[q.job]
             log == jobEvents[q.job]
  <2>1. q.at = "finishing" /\ End(r, Final(r)) /\ q.seen # "none"
    BY <1>1, <1>6 DEF Finishes, Controlled
  <2>2. Final(r) \in {"completed", "failed", "timeout"}
    BY DEF Final
  <2>3. q.seen \in TerminalStatus \/ q.seen = "timeout"
    BY <1>1, <2>1 DEF Request
  <2>4. ASSUME TruthOf(r, q), Final(r) = "completed"
        PROVE  /\ row.status = "completed"
               /\ r \in Streaming => q.cursor = Len(log) /\ q.batch = {}
    BY <2>1, <2>4 DEF TruthOf, Told, Final, TerminalStatus
  <2>5. ASSUME TruthOf(r, q), Final(r) = "failed" PROVE row.status \in {"failed", "cancelled"}
    BY <2>1, <2>3, <2>5 DEF TruthOf, Told, Final, TerminalStatus
  <2>6. ASSUME TruthOf(r, q), Final(r) = "timeout", q.key \in PrivateKeys PROVE Stopped(row)
    <3>1. q.grace # "unset"
      BY <1>1, <2>6 DEF Final, Controlled
    <3> QED
      BY <2>1, <2>6, <3>1 DEF TruthOf, Told
  <2> QED
    BY <2>1, <2>2, <2>4, <2>5, <2>6, EndKeeps
<1> QED
  BY <1>3, <1>4, <1>5, <1>6

-----------------------------------------------------------------------------
(* The steps that change the store *)

\* Once a cancellation has committed, or was refused, the job does not run on.
LEMMA CancelStops ==
  ASSUME StoreTypeOK, NEW j \in JobIds, Cancel(j), jobs'[j].status # "absent"
  PROVE  Stopped(jobs'[j])
<1>1. jobs \in [JobIds -> JobRow]
  BY DEF StoreTypeOK
<1>2. CASE RequestCancellation(j)
  BY <1>1, <1>2 DEF RequestCancellation, CancelQueued, CancelRunning, Stopped, JobRow, TerminalStatus
<1>3. CASE ~IsActive(j) /\ UNCHANGED storeVars
  BY <1>1, <1>3 DEF storeVars, IsActive, JobRow, Stopped
<1> QED
  BY <1>2, <1>3 DEF Cancel

LEMMA CancelKeeps ==
  ASSUME FacadeInd, StoreSound, NEW r \in Requests, CancellationCommits(r) \/ CancelsLate(r)
  PROVE  FacadeInd'
<1> DEFINE q == req[r]
<1>1. q \in Request /\ req \in [Requests -> Request] /\ Controlled(q, r \in Streaming)
  BY DEF FacadeInd, FacadeTypeOK
<1>2. q.job \in JobIds /\ Cancel(q.job)
  BY <1>1 DEF CancellationCommits, CancelsLate, Controlled
<1>3. \A p \in Requests : Kept(p)
  BY <1>2, QuietKeeps DEF Cancel, Quiet, StoreSound
<1>4. CASE CancellationCommits(r)
  <2> DEFINE n == [q EXCEPT !.cancellation = "done"]
  <2>1. n \in Request /\ req' = [req EXCEPT ![r] = n]
    BY <1>1, <1>4 DEF CancellationCommits, Request
  <2>2. SameProgress(q, n) /\ Controlled(n, r \in Streaming)
    BY <1>1 DEF SameProgress, Controlled, Request
  <2> HIDE DEF n
  <2> QED
    BY <1>3, <2>1, <2>2, OneMoves, ProgressTells DEF SameProgress
<1>5. CASE CancelsLate(r)
  <2> DEFINE to == IF r \in Streaming THEN "head" ELSE "over"
             answer == IF r \in Streaming THEN q.answer ELSE "timeout"
             n == [q EXCEPT !.at = to, !.answer = answer]
  <2>1. req' = [req EXCEPT ![r] = n] /\ q.at = "cancelling"
    BY <1>1, <1>5 DEF CancelsLate, AfterCancel, Request
  <2>2. /\ to \in Phase /\ to \in {"head", "over"}
        /\ answer \in {"none", "timeout"} /\ (to = "head" => answer = "none")
    BY <1>1, <2>1 DEF Phase, Controlled
  <2> HIDE DEF to, answer
  <2>3. n \in Request
    BY <1>1, <2>2 DEF Request
  <2>4. /\ n.at = to /\ n.key = q.key /\ n.job = q.job /\ n.gone = q.gone
        /\ n.cancellation = q.cancellation /\ n.late = q.late /\ n.grace = q.grace
        /\ n.cursor = q.cursor /\ n.batch = q.batch /\ n.sent = q.sent
        /\ n.seen = q.seen /\ n.answer = answer
    BY <1>1 DEF Request
  <2> HIDE DEF n
  <2>5. Controlled(n, r \in Streaming)
    BY <1>1, <2>1, <2>2, <2>4 DEF Controlled
  <2>6. PICK j \in JobIds : j = q.job
    BY <1>2
  <2>7. Known(r)' => jobs'[j].status # "absent"
    BY <1>1, <2>1, <2>4, <2>6 DEF Known, JobExists
  <2>8. Known(r)' => Stopped(jobs'[j])
    BY <1>2, <2>6, <2>7, CancelStops DEF StoreSound
  <2>9. Known(r)' /\ Told(q, r \in Streaming, jobs'[j], jobEvents'[j]) =>
          Told(n, r \in Streaming, jobs'[j], jobEvents'[j])
    BY <1>1, <2>1, <2>2, <2>4, <2>8, DeliversByFields DEF Told, Controlled
  <2> QED
    BY <1>3, <2>1, <2>3, <2>4, <2>5, <2>6, <2>9, OneMoves
<1> QED
  BY <1>4, <1>5

LEMMA ArriveKeeps ==
  ASSUME FacadeInd, StoreSound, NEW r \in Requests, Arrive(r)
  PROVE  FacadeInd'
<1> DEFINE q == req[r]
<1>1. q \in Request /\ req \in [Requests -> Request] /\ Controlled(q, r \in Streaming)
  BY DEF FacadeInd, FacadeTypeOK
<1>2. PICK k \in Keys :
        /\ k \in PrivateKeys => \A p \in Requests : req[p].key # k
        /\ req' = [req EXCEPT ![r].at = "submitting", ![r].key = k]
  BY DEF Arrive
<1> DEFINE n == [q EXCEPT !.at = "submitting", !.key = k]
<1>3. "submitting" \in Phase
  BY DEF Phase
<1>4. n \in Request /\ req' = [req EXCEPT ![r] = n] /\ UNCHANGED storeVars /\ q.at = "idle"
  BY <1>1, <1>2, <1>3 DEF Arrive, Request
<1>5. /\ n.at = "submitting" /\ n.key = k /\ n.job = q.job /\ n.gone = q.gone
      /\ n.cancellation = q.cancellation /\ n.late = q.late /\ n.grace = q.grace
      /\ n.cursor = q.cursor /\ n.batch = q.batch /\ n.sent = q.sent
      /\ n.seen = q.seen /\ n.answer = q.answer
  BY <1>1 DEF Request
<1> HIDE DEF n
<1>6. Controlled(n, r \in Streaming) /\ q.job = NoJob
  BY <1>1, <1>4, <1>5 DEF Controlled
<1>7. /\ req' \in [Requests -> Request] /\ req'[r] = n
      /\ \A p \in Requests \ {r} : req'[p] = req[p]
  BY <1>1, <1>4
<1>8. \A p \in Requests : Known(p)' => p # r /\ Known(p)
  BY <1>4, <1>5, <1>6, <1>7 DEF Known, JobExists, storeVars
<1>9. ASSUME NEW p \in Requests
      PROVE  /\ Controlled(req'[p], p \in Streaming)
             /\ Known(p)' => Told(req'[p], p \in Streaming, jobs'[req'[p].job], jobEvents'[req'[p].job])
             /\ Known(p)' => \A ok \in Owners \X Keys :
                  idempotency'[ok] = req'[p].job => ok = <<Client, req'[p].key>>
  BY <1>4, <1>6, <1>7, <1>8 DEF FacadeInd, KeysSound, storeVars
<1>10. ASSUME NEW p \in Requests, NEW o \in Requests, p # o, req'[p].key \in PrivateKeys
       PROVE  /\ req'[o].key # req'[p].key
              /\ req'[p].job # NoJob => req'[o].job # req'[p].job
  <2>1. CASE p = r
    BY <1>2, <1>5, <1>6, <1>7, <1>10, <2>1
  <2>2. CASE o = r
    BY <1>2, <1>5, <1>6, <1>7, <1>10, <2>2
  <2>3. CASE p # r /\ o # r
    BY <1>7, <1>10, <2>3 DEF FacadeInd, KeysSound
  <2> QED
    BY <2>1, <2>2, <2>3
<1> QED
  BY <1>7, <1>9, <1>10 DEF FacadeInd, FacadeTypeOK, KeysSound

\* The process goes down.
LEMMA RestartKeeps ==
  ASSUME FacadeInd, StoreSound, Restart
  PROVE  FacadeInd'
<1>1. \A p \in Requests : Kept(p)
  BY QuietKeeps DEF Restart, DownAndUp, Quiet, StoreSound
<1>2. req \in [Requests -> Request] /\ \A p \in Requests : Controlled(req[p], p \in Streaming)
  BY DEF FacadeInd, FacadeTypeOK
<1>3. ASSUME NEW p \in Requests
      PROVE  /\ req'[p] \in Request
             /\ req'[p].key = req[p].key /\ req'[p].job = req[p].job
             /\ Controlled(req'[p], p \in Streaming)
             /\ Told(req[p], p \in Streaming, jobs'[req[p].job], jobEvents'[req[p].job]) =>
                  Told(req'[p], p \in Streaming, jobs'[req[p].job], jobEvents'[req[p].job])
  <2> DEFINE q == req[p]
             answer == IF q.at = "over" THEN q.answer ELSE "lost"
             cancellation == IF q.cancellation = "done" THEN q.cancellation ELSE "lost"
             n == [q EXCEPT !.at = "over", !.gone = TRUE, !.answer = answer,
                            !.cancellation = cancellation]
  <2>1. q \in Request /\ Controlled(q, p \in Streaming)
    BY <1>2
  <2>2. CASE q.at = "idle"
    <3>1. req'[p] = q
      BY <2>2 DEF Restart
    <3> QED
      BY <2>1, <3>1
  <2>3. CASE q.at # "idle"
    <3>1. req'[p] = n
      BY <1>2, <2>1, <2>3 DEF Restart, Request
    <3>2. answer = "lost" \/ (answer = q.answer /\ q.at = "over")
      OBVIOUS
    <3>3. cancellation \in {"none", "done", "lost"}
      BY <2>1 DEF Request, Controlled
    <3>4. answer \in {"none", "completed", "failed", "timeout", "refused", "left", "broken", "lost"}
      BY <2>1 DEF Request
    <3>5. "over" \in Phase
      BY DEF Phase
    <3> HIDE DEF answer, cancellation
    <3>6. n \in Request
      BY <2>1, <3>3, <3>4, <3>5 DEF Request
    <3>7. /\ n.at = "over" /\ n.key = q.key /\ n.job = q.job /\ n.gone
          /\ n.cancellation = cancellation /\ n.late = q.late /\ n.grace = q.grace
          /\ n.cursor = q.cursor /\ n.batch = q.batch /\ n.sent = q.sent
          /\ n.seen = q.seen /\ n.answer = answer
      BY <2>1 DEF Request
    <3> HIDE DEF n
    <3>8. Controlled(n, p \in Streaming)
      BY <2>1, <2>3, <3>3, <3>7 DEF Controlled
    <3>9. ASSUME NEW row, NEW log, Told(q, p \in Streaming, row, log)
          PROVE  Told(n, p \in Streaming, row, log)
      BY <3>2, <3>7, <3>9, DeliversByFields DEF Told
    <3> QED
      BY <3>1, <3>6, <3>7, <3>8, <3>9
  <2> QED
    BY <2>2, <2>3
<1>4. req' \in [Requests -> Request]
  BY <1>3 DEF Restart
<1> QED
  BY <1>1, <1>3, <1>4, AllMove

\* The submission comes back with a job that is new, or with the one of its key.
LEMMA JobFound ==
  ASSUME FacadeInd, NEW r \in Requests, NEW j \in JobIds, req[r].at = "submitting",
         req' = [req EXCEPT ![r].at = "submitted", ![r].job = j],
         \A p \in Requests \ {r} : Kept(p),
         \A p \in Requests \ {r} : req[p].job = j => req[p].key = req[r].key,
         \A ok \in Owners \X Keys : idempotency'[ok] = j => ok = <<Client, req[r].key>>,
         jobEvents'[j] \in Seq(EventType)
  PROVE  FacadeInd'
<1> DEFINE q == req[r]
           n == [q EXCEPT !.at = "submitted", !.job = j]
<1>1. q \in Request /\ req \in [Requests -> Request] /\ Controlled(q, r \in Streaming)
  BY DEF FacadeInd, FacadeTypeOK
<1>2. "submitted" \in Phase
  BY DEF Phase
<1>3. n \in Request /\ req' = [req EXCEPT ![r] = n]
  BY <1>1, <1>2 DEF Request
<1>4. /\ n.at = "submitted" /\ n.key = q.key /\ n.job = j /\ n.gone = q.gone
      /\ n.cancellation = q.cancellation /\ n.late = q.late /\ n.grace = q.grace
      /\ n.cursor = q.cursor /\ n.batch = q.batch /\ n.sent = q.sent
      /\ n.seen = q.seen /\ n.answer = q.answer
  BY <1>1 DEF Request
<1> HIDE DEF n
<1>5. Controlled(n, r \in Streaming)
  BY <1>1, <1>4 DEF Controlled
<1>6. /\ req' \in [Requests -> Request] /\ req'[r] = n
      /\ \A p \in Requests \ {r} : req'[p] = req[p]
  BY <1>1, <1>3
<1>7. Told(n, r \in Streaming, jobs'[j], jobEvents'[j])
  <2>1. /\ n.cursor = 0 /\ n.sent = <<>> /\ n.batch = {} /\ n.seen = "none"
        /\ n.grace = "unset" /\ n.answer = "none" /\ n.at = "submitted"
    BY <1>1, <1>4 DEF Controlled
  <2>2. Delivers(n, jobEvents'[j])
    <3>1. DOMAIN n.sent = {} /\ 0 <= Len(jobEvents'[j]) /\ 1 .. 0 = {}
      BY <2>1
    <3> QED
      BY <2>1, <3>1 DEF Delivers
  <2> QED
    BY <2>1, <2>2 DEF Told, TerminalStatus
<1>8. ASSUME NEW p \in Requests
      PROVE  /\ Controlled(req'[p], p \in Streaming)
             /\ Known(p)' => Told(req'[p], p \in Streaming, jobs'[req'[p].job], jobEvents'[req'[p].job])
             /\ Known(p)' => \A ok \in Owners \X Keys :
                  idempotency'[ok] = req'[p].job => ok = <<Client, req'[p].key>>
  <2>1. CASE p = r
    BY <1>4, <1>5, <1>6, <1>7, <2>1
  <2>2. CASE p # r
    BY <1>6, <2>2 DEF Kept, Known, JobExists, FacadeInd
  <2> QED
    BY <2>1, <2>2
<1>9. ASSUME NEW p \in Requests, NEW o \in Requests, p # o, req'[p].key \in PrivateKeys
      PROVE  /\ req'[o].key # req'[p].key
             /\ req'[p].job # NoJob => req'[o].job # req'[p].job
  <2>1. \A i \in Requests : req'[i].key = req[i].key
    BY <1>4, <1>6
  <2>2. req[o].key # req[p].key
    BY <1>9, <2>1 DEF FacadeInd, KeysSound
  <2>3. CASE p = r
    BY <1>4, <1>6, <1>9, <2>1, <2>2, <2>3
  <2>4. CASE o = r
    BY <1>4, <1>6, <1>9, <2>1, <2>2, <2>4
  <2>5. CASE p # r /\ o # r
    BY <1>6, <1>9, <2>5 DEF FacadeInd, KeysSound
  <2> QED
    BY <2>1, <2>2, <2>3, <2>4, <2>5
<1> QED
  BY <1>6, <1>8, <1>9 DEF FacadeInd, FacadeTypeOK, KeysSound

LEMMA SubmitKeeps ==
  ASSUME FacadeInd, StoreSound, NEW r \in Requests, SubmitCommits(r)
  PROVE  FacadeInd'
<1> DEFINE q == req[r]
           ok == <<Client, q.key>>
<1>1. q.at = "submitting" /\ q.key \in Keys /\ ok \in Owners \X Keys
  BY RequestsAssumption DEF SubmitCommits, FacadeInd, Controlled
<1>2. StoreTypeOK /\ IdempotencyConsistent
  BY DEF StoreSound, StoreInv
<1>3. ASSUME NEW p \in Requests, Known(p), NEW j \in JobIds, req[p].job = j,
             idempotency[ok] = j
      PROVE  req[p].key = q.key
  <2>1. ok = <<Client, req[p].key>>
    BY <1>1, <1>3 DEF FacadeInd, KeysSound
  <2> QED
    BY <2>1
<1>4. ASSUME idempotency[ok] # NoJob, UNCHANGED storeVars,
             req' = [req EXCEPT ![r].at = "submitted", ![r].job = idempotency[ok]]
      PROVE  FacadeInd'
  <2>1. PICK j \in JobIds : j = idempotency[ok]
    BY <1>1, <1>2, <1>4 DEF StoreTypeOK
  <2>2. JobExists(j)
    BY <1>1, <1>2, <1>4, <2>1 DEF IdempotencyConsistent
  <2>3. \A p \in Requests : Kept(p)
    BY <1>4, QuietKeeps DEF Quiet, StoreSound
  <2>4. \A p \in Requests : req[p].job = j => req[p].key = q.key
    BY <1>3, <2>1, <2>2, NullsAssumption DEF Known
  <2>5. jobEvents'[j] \in Seq(EventType) /\ idempotency' = idempotency
    BY <1>2, <1>4, <2>1 DEF StoreTypeOK, storeVars
  <2>6. \A other \in Owners \X Keys : idempotency'[other] = j => other = ok
    BY <1>1, <1>2, <1>4, <2>1, <2>5 DEF IdempotencyConsistent
  <2> QED
    BY <1>1, <1>4, <2>1, <2>3, <2>4, <2>5, <2>6, JobFound
<1>5. ASSUME NEW j \in JobIds, NEW c \in ConversationIds, \A p \in Requests : req[p].job # j,
             SubmitInference(j, Client, q.key, c),
             req' = [req EXCEPT ![r].at = "submitted", ![r].job = j]
      PROVE  FacadeInd'
  <2>1. /\ idempotency[ok] = NoJob
        /\ jobs' = [jobs EXCEPT ![j] = NewJob(Client, c, "inference.turn")]
        /\ idempotency' = [idempotency EXCEPT ![ok] = j]
        /\ jobEvents' = [jobEvents EXCEPT ![j] = Append(@, "job.queued")]
    BY <1>5 DEF SubmitInference, InsertRun, InsertJob
  <2>2. \A i \in JobIds \ {j} : jobs'[i] = jobs[i] /\ jobEvents'[i] = jobEvents[i]
    BY <1>2, <2>1 DEF StoreTypeOK
  <2>3. \A other \in Owners \X Keys : other # ok => idempotency'[other] = idempotency[other]
    BY <1>2, <2>1 DEF StoreTypeOK
  <2>4. jobEvents'[j] \in Seq(EventType)
    BY <1>1, <1>2, <2>1 DEF StoreTypeOK, EventType
  <2>8. \A other \in Owners \X Keys : idempotency'[other] = j => other = ok
    <3>1. ~JobExists(j) /\ j # NoJob
      BY <1>5, NullsAssumption DEF SubmitInference, InsertRun, InsertJob, FreshJob
    <3>2. \A other \in Owners \X Keys : idempotency[other] # j
      BY <1>2, <3>1 DEF IdempotencyConsistent
    <3> QED
      BY <2>3, <3>2
  <2>5. ASSUME NEW p \in Requests \ {r} PROVE Kept(p)
    <3> SUFFICES ASSUME req[p].job # NoJob, jobs'[req[p].job].status # "absent"
                 PROVE  /\ Told(req[p], p \in Streaming, jobs'[req[p].job], jobEvents'[req[p].job])
                        /\ \A other \in Owners \X Keys :
                             idempotency'[other] = req[p].job => other = <<Client, req[p].key>>
      BY DEF Kept
    <3>1. req[p].job \in JobIds \ {j}
      BY <1>5 DEF FacadeInd, FacadeTypeOK, Request
    <3>2. Known(p)
      BY <2>2, <3>1 DEF Known, JobExists
    <3>3. /\ Told(req[p], p \in Streaming, jobs[req[p].job], jobEvents[req[p].job])
          /\ \A other \in Owners \X Keys :
               idempotency[other] = req[p].job => other = <<Client, req[p].key>>
      BY <3>2 DEF FacadeInd, KeysSound
    <3>4. idempotency'[ok] = j
      BY <1>1, <1>2, <2>1 DEF StoreTypeOK
    <3> QED
      BY <2>2, <2>3, <3>1, <3>3, <3>4
  <2>6. \A p \in Requests \ {r} : req[p].job = j => req[p].key = q.key
    BY <1>5
  <2>7. req' = [req EXCEPT ![r].at = "submitted", ![r].job = j]
    BY <1>5
  <2> QED
    BY <1>1, <2>4, <2>5, <2>6, <2>7, <2>8, JobFound
<1>6. ASSUME End(r, "refused") PROVE FacadeInd'
  BY <1>1, <1>6, EndKeeps
<1> QED
  BY <1>4, <1>5, <1>6 DEF SubmitCommits

-----------------------------------------------------------------------------
(* The theorems *)

\* Of the store the facade makes only the calls it may make.
LEMMA FacadeCallsAreAllowed ==
  ASSUME FacadeInd, [Next]_vars
  PROVE  [StoreNext]_storeVars
<1>1. CASE Work
  BY <1>1 DEF Work, StoreNext, GatewayNext
<1>2. CASE Restart
  BY <1>2 DEF Restart, DownAndUp, StoreNext, GatewayNext
<1>3. ASSUME NEW r \in Requests, SubmitCommits(r) PROVE [StoreNext]_storeVars
  <2>1. req[r].key \in Keys /\ Client \in Owners
    BY <1>3, RequestsAssumption DEF SubmitCommits, FacadeInd, Controlled
  <2> QED
    BY <1>3, <2>1 DEF SubmitCommits, End, StoreNext, GatewayNext, Submit
<1>4. ASSUME NEW r \in Requests, CancellationCommits(r) \/ CancelsLate(r) PROVE [StoreNext]_storeVars
  <2>1. req[r].job \in JobIds /\ Cancel(req[r].job)
    BY <1>4 DEF CancellationCommits, CancelsLate, FacadeInd, Controlled
  <2> QED
    BY <2>1 DEF Cancel, StoreNext, GatewayNext
<1>5. ASSUME NEW r \in Requests,
             \/ Arrive(r) \/ Leave(r) \/ Drained(r) \/ DeadlinePasses(r) \/ GracePasses(r)
             \/ Continues(r) \/ Abandons(r) \/ Polls(r) \/ Throws(r) \/ Opens(r) \/ Loops(r)
             \/ Reads(r) \/ Writes(r) \/ Breaks(r) \/ SeesEnd(r) \/ GivesUp(r) \/ GoesOn(r)
             \/ Finishes(r)
      PROVE  UNCHANGED storeVars
  BY <1>5 DEF Arrive, Leave, Drained, DeadlinePasses, GracePasses, Continues, Begins, Abandons,
     Polls, Throws, Opens, Loops, Reads, Writes, Breaks, SeesEnd, GivesUp, GoesOn, Finishes,
     StreamEnds, Move, End
<1>6. CASE UNCHANGED vars
  BY <1>6 DEF vars
<1> QED
  BY <1>1, <1>2, <1>3, <1>4, <1>5, <1>6 DEF Next, Handler

LEMMA FacadeStep ==
  ASSUME FacadeInd, StoreSound, [Next]_vars
  PROVE  FacadeInd'
<1>1. ASSUME Work \/ UNCHANGED vars PROVE FacadeInd'
  <2>1. Quiet /\ req' = req
    BY <1>1 DEF Work, Quiet, vars
  <2>2. \A p \in Requests : Kept(p)
    BY <2>1, QuietKeeps DEF StoreSound
  <2>3. req \in [Requests -> Request] /\ \A p \in Requests : Controlled(req[p], p \in Streaming)
    BY DEF FacadeInd, FacadeTypeOK
  <2> QED
    BY <2>1, <2>2, <2>3, AllMove
<1>2. ASSUME NEW r \in Requests, Handler(r) PROVE FacadeInd'
  BY <1>2, SubmitKeeps, WaitKeeps, CancelKeeps, ReadKeeps, WriteKeeps, CheckKeeps DEF Handler
<1>3. ASSUME NEW r \in Requests,
             \/ Arrive(r) \/ Leave(r) \/ CancellationCommits(r) \/ Drained(r)
             \/ DeadlinePasses(r) \/ GracePasses(r)
      PROVE  FacadeInd'
  BY <1>3, ArriveKeeps, ConnectionKeeps, CancelKeeps
<1> QED
  BY <1>1, <1>2, <1>3, RestartKeeps DEF Next

LEMMA FacadeBegins == Init => FacadeInd /\ StoreSound
<1> SUFFICES ASSUME Init PROVE FacadeInd /\ StoreSound
  OBVIOUS
<1>1. StoreTypeOK /\ StoreInv
  BY StoreInitTypeOK, StoreInitInv DEF Init
<1>2. EventLogMatches
  BY LogEmpty, EventLogByRow DEF Init, StoreInit, NoJobRow
<1>3. "idle" \in Phase
  BY DEF Phase
<1>4. req \in [Requests -> Request]
  BY <1>3 DEF Init, Request
<1>5. \A r \in Requests : Controlled(req[r], r \in Streaming) /\ ~Known(r)
  BY DEF Init, Controlled, Known
<1>6. \A r \in Requests : req[r].key \notin PrivateKeys
  BY RequestsAssumption DEF Init
<1> QED
  BY <1>1, <1>2, <1>4, <1>5, <1>6 DEF StoreSound, FacadeInd, FacadeTypeOK, KeysSound

LEMMA FacadeAlways == Spec => [](FacadeInd /\ StoreSound)
<1>1. FacadeInd /\ StoreSound /\ [Next]_vars => FacadeInd' /\ StoreSound'
  <2> SUFFICES ASSUME FacadeInd, StoreSound, [Next]_vars PROVE FacadeInd' /\ StoreSound'
    OBVIOUS
  <2>1. [StoreNext]_storeVars
    BY FacadeCallsAreAllowed
  <2>2. StoreSound'
    BY <2>1, StoreStepTypeOK, StoreStepInv, LogsStayTruthful DEF StoreSound
  <2> QED
    BY <2>2, FacadeStep
<1> QED
  BY <1>1, FacadeBegins, PTL DEF Spec

\* The gateway with its facade is the store of the gateway, so that what is proved of
\* jobs, keys and conversations holds with the Responses API in front of them.
THEOREM FacadeImplementsStore == Spec => StoreSpec
<1>1. Init => StoreInit
  BY DEF Init
<1> QED
  BY <1>1, FacadeCallsAreAllowed, FacadeAlways, PTL DEF Spec, StoreSpec

\* Streams carry the text of their jobs, whole when they say completed, and answers
\* are true of the jobs, through disconnections, deadlines, sweeps and restarts.
THEOREM FacadeCorrect == Spec => []FacadeInv
<1>1. FacadeInd /\ StoreSound => FacadeInv
  <2> SUFFICES ASSUME FacadeInd, StoreSound PROVE StreamCarriesText /\ AnswersTruthful
    BY DEF FacadeInv, FacadeInd
  <2>1. AnswersTruthful
    BY DEF FacadeInd, Told, AnswersTruthful, Stopped, IsTerminal
  <2>2. ASSUME NEW r \in Streaming, Known(r)
        PROVE  LET sent == req[r].sent
                   written == {sent[n] : n \in DOMAIN sent}
               IN
               /\ \A m, n \in DOMAIN sent : m < n => sent[m] < sent[n]
               /\ \A i \in written, k \in req[r].batch : i < k
               /\ written \cup req[r].batch = DeltasAfter(r, 0) \ DeltasAfter(r, req[r].cursor)
               /\ req[r].answer = "completed" => written = DeltasAfter(r, 0)
    <3> DEFINE q == req[r]
               log == Log(r)
               written == {q.sent[n] : n \in DOMAIN q.sent}
    <3>1. r \in Requests /\ q \in Request /\ q.job \in JobIds /\ q.cursor \in Nat
      BY <2>2, RequestsAssumption DEF FacadeInd, FacadeTypeOK, Request, Known
    <3>2. Told(q, TRUE, jobs[q.job], log)
      BY <2>2, <3>1 DEF FacadeInd, Log
    <3>3. log \in Seq(EventType)
      BY <3>1 DEF StoreSound, StoreTypeOK, Log
    <3>4. DOMAIN log = 1 .. Len(log) /\ Len(log) \in Nat
      BY <3>3
    <3>5. Delivers(q, log) /\ q.cursor <= Len(log)
      BY <3>2 DEF Told, Delivers
    <3> HIDE DEF log
    <3>6. DeltasAfter(r, 0) \ DeltasAfter(r, q.cursor) =
            {i \in 1 .. q.cursor : log[i] = "agent.message.delta"}
      BY <3>1, <3>4, <3>5 DEF DeltasAfter, log
    <3>7. q.answer = "completed" => DeltasAfter(r, 0) = written
      <4> SUFFICES ASSUME q.answer = "completed" PROVE DeltasAfter(r, 0) = written
        OBVIOUS
      <4>1. q.cursor = Len(log) /\ q.batch = {}
        BY <3>2 DEF Told
      <4>2. DeltasAfter(r, 0) = {i \in 1 .. Len(log) : log[i] = "agent.message.delta"}
        BY <3>4 DEF DeltasAfter, log
      <4> QED
        BY <3>5, <4>1, <4>2 DEF Delivers
    <3> QED
      BY <3>5, <3>6, <3>7 DEF Delivers
  <2> QED
    BY <2>1, <2>2 DEF StreamCarriesText
<1> QED
  BY <1>1, FacadeAlways, PTL

\* Whoever leaves or gives up, a job that somebody else may be waiting for runs on.
THEOREM SharedJobsSpared == Spec => SharedJobSpared
<1> DEFINE Spares ==
      req' # req =>
        \A j \in JobIds : jobs[j].cancelRequested = 0 /\ jobs'[j].cancelRequested = 1 =>
          \E r \in Requests :
            /\ req[r].key \in PrivateKeys
            /\ req[r].job = j /\ (req[r].gone \/ req[r].late)
            /\ \A q \in Requests \ {r} : req[q].job # j
<1>1. FacadeInd /\ StoreSound /\ [Next]_vars => Spares
  <2> SUFFICES ASSUME FacadeInd, StoreSound, [Next]_vars, req' # req, NEW j \in JobIds,
                      jobs[j].cancelRequested = 0, jobs'[j].cancelRequested = 1
               PROVE  \E r \in Requests :
                        /\ req[r].key \in PrivateKeys
                        /\ req[r].job = j /\ (req[r].gone \/ req[r].late)
                        /\ \A q \in Requests \ {r} : req[q].job # j
    OBVIOUS
  <2>0. jobs \in [JobIds -> JobRow] /\ jobs' # jobs
    BY DEF StoreSound, StoreTypeOK
  <2>1. ASSUME NEW r \in Requests, CancellationCommits(r) \/ CancelsLate(r)
        PROVE  /\ req[r].key \in PrivateKeys
               /\ req[r].job = j /\ (req[r].gone \/ req[r].late)
               /\ \A q \in Requests \ {r} : req[q].job # j
    <3>1. /\ req[r].key \in PrivateKeys /\ (req[r].gone \/ req[r].late)
          /\ req[r].job \in JobIds /\ Cancel(req[r].job)
      BY <2>1 DEF CancellationCommits, CancelsLate, FacadeInd, Controlled
    <3>2. req[r].job = j
      BY <2>0, <3>1 DEF Cancel, RequestCancellation, CancelQueued, CancelRunning, storeVars
    <3>3. j # NoJob
      BY NullsAssumption
    <3> QED
      BY <3>1, <3>2, <3>3 DEF FacadeInd, KeysSound
  <2>2. ASSUME NEW r \in Requests, SubmitCommits(r) PROVE FALSE
    <3>1. PICK i \in JobIds, c \in ConversationIds : SubmitInference(i, Client, req[r].key, c)
      BY <2>0, <2>2 DEF SubmitCommits, End, storeVars
    <3>2. jobs' = [jobs EXCEPT ![i] = NewJob(Client, c, "inference.turn")]
      BY <3>1 DEF SubmitInference, InsertRun, InsertJob
    <3> QED
      BY <2>0, <3>2 DEF NewJob
  <2>3. CASE Restart
    <3>1. StoreTypeOK /\ (RecoverInterruptedJobs \/ jobs' = jobs)
      BY <2>3 DEF Restart, DownAndUp, RotateKey, StoreSound
    <3> QED
      BY <2>0, <3>1, RecoveredRow DEF Rewritten
  <2>4. ASSUME NEW r \in Requests,
               \/ Arrive(r) \/ Leave(r) \/ Drained(r) \/ DeadlinePasses(r) \/ GracePasses(r)
               \/ Continues(r) \/ Abandons(r) \/ Polls(r) \/ Throws(r) \/ Opens(r) \/ Loops(r)
               \/ Reads(r) \/ Writes(r) \/ Breaks(r) \/ SeesEnd(r) \/ GivesUp(r) \/ GoesOn(r)
               \/ Finishes(r)
        PROVE  FALSE
    <3>1. UNCHANGED storeVars
      BY <2>4 DEF Arrive, Leave, Drained, DeadlinePasses, GracePasses, Continues, Begins, Abandons,
         Polls, Throws, Opens, Loops, Reads, Writes, Breaks, SeesEnd, GivesUp, GoesOn, Finishes,
         StreamEnds, Move, End
    <3> QED
      BY <2>0, <3>1 DEF storeVars
  <2>5. ~Work /\ ~(UNCHANGED vars)
    BY DEF Work, vars
  <2> QED
    BY <2>1, <2>2, <2>3, <2>4, <2>5 DEF Next, Handler
<1> QED
  BY <1>1, FacadeAlways, PTL DEF Spec, SharedJobSpared
=============================================================================
