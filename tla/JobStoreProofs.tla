--------------------------- MODULE JobStoreProofs ---------------------------
(***************************************************************************)
(* Theorems of JobStore, for every value of its constants: the types, the  *)
(* inductive invariant and its parts, the bounded queue, what no step may  *)
(* do, the event log, and that the store implements the lifecycle its      *)
(* clients see.                                                            *)
(***************************************************************************)
EXTENDS JobStore, FiniteSetTheorems, TLAPS

-----------------------------------------------------------------------------
(* Type correctness *)

\* The empty tables are well typed.
LEMMA StoreInitTypeOK == StoreInit => StoreTypeOK
<1>1. NoJobRow \in JobRow /\ NoConversationRow \in ConversationRow
  BY LimitsAssumption DEF NoJobRow, JobRow, NoConversationRow, ConversationRow, JobKind
<1>2. NoAttempts \in [AttemptNumber -> {"absent"} \cup AttemptStatus]
  BY DEF NoAttempts
<1> QED
  BY <1>1, <1>2, LimitsAssumption DEF StoreInit, StoreTypeOK, Time

\* The inserts of a submission leave the tables they write well typed.
LEMMA InsertJobTypeOK ==
  ASSUME StoreTypeOK, NEW j \in JobIds, NEW o \in Owners, NEW k \in Keys,
         NEW c \in ConversationIds, NEW kind \in JobKind,
         InsertJob(j, o, k, c, kind),
         conversations' \in [ConversationIds -> ConversationRow], now' = now
  PROVE  StoreTypeOK'
<1>1. NewJob(o, c, kind) \in JobRow
  BY LimitsAssumption DEF NewJob, JobRow, ActiveStatus, StoreTypeOK
<1>2. jobs' \in [JobIds -> JobRow]
  BY <1>1 DEF InsertJob, StoreTypeOK
<1>3. idempotency' \in [Owners \X Keys -> JobIds \cup {NoJob}]
  BY DEF InsertJob, StoreTypeOK
<1>4. jobEvents' \in [JobIds -> Seq(EventType)]
  BY DEF InsertJob, StoreTypeOK, EventType
<1>5. jobAttempts' \in [JobIds -> [AttemptNumber -> {"absent"} \cup AttemptStatus]]
  BY DEF InsertJob, StoreTypeOK
<1> QED
  BY <1>2, <1>3, <1>4, <1>5 DEF StoreTypeOK

\* Every call of the routes that submits leaves the tables well typed.
LEMMA SubmitTypeOK == StoreTypeOK /\ Submit => StoreTypeOK'
<1> SUFFICES ASSUME StoreTypeOK, Submit PROVE StoreTypeOK'
  OBVIOUS
<1>1. PICK o \in Owners, c \in ConversationIds :
        \/ \E r \in Repositories : CreateConversation(c, o, r)
        \/ \E j \in JobIds, k \in Keys :
             \/ SubmitTurn(j, o, k, c)
             \/ \E r \in Repositories : SubmitRun(j, o, k, c, r)
             \/ SubmitInference(j, o, k, c)
  BY DEF Submit
<1>2. ASSUME NEW r \in Repositories \cup {NoRepository}
      PROVE  [owner |-> o, repository |-> r, backendThread |-> NoThread,
              updatedAt |-> now] \in ConversationRow
  BY DEF ConversationRow, StoreTypeOK
<1>3. CASE \E r \in Repositories : CreateConversation(c, o, r)
  <2>1. PICK r \in Repositories : CreateConversation(c, o, r)
    BY <1>3
  <2>2. conversations' \in [ConversationIds -> ConversationRow]
    BY <2>1, <1>2 DEF CreateConversation, StoreTypeOK
  <2> QED
    BY <2>1, <2>2 DEF CreateConversation, StoreTypeOK
<1>4. ASSUME NEW j \in JobIds, NEW k \in Keys, SubmitTurn(j, o, k, c)
      PROVE  StoreTypeOK'
  <2>1. conversations' \in [ConversationIds -> ConversationRow]
    BY <1>4 DEF SubmitTurn, StoreTypeOK, ConversationRow
  <2> QED
    BY <1>4, <2>1, InsertJobTypeOK DEF SubmitTurn, JobKind
<1>5. ASSUME NEW j \in JobIds, NEW k \in Keys, NEW r \in Repositories \cup {NoRepository},
             NEW kind \in JobKind, InsertRun(j, o, k, c, r, kind)
      PROVE  StoreTypeOK'
  <2>1. conversations' \in [ConversationIds -> ConversationRow]
    BY <1>5, <1>2 DEF InsertRun, StoreTypeOK
  <2> QED
    BY <1>5, <2>1, InsertJobTypeOK DEF InsertRun
<1> QED
  BY <1>1, <1>3, <1>4, <1>5 DEF SubmitRun, SubmitInference, JobKind

\* The rows a running job ends with are well typed.
LEMMA EndJobTypeOK ==
  ASSUME StoreTypeOK, NEW j \in JobIds, NEW status \in TerminalStatus,
         NEW event \in TerminalEvent, NEW flag \in {0, 1},
         EndJob(j, status, event, flag)
  PROVE  StoreTypeOK'
<1>1. jobs' \in [JobIds -> JobRow]
  <2> DEFINE row == [jobs[j] EXCEPT !.status = status, !.cancelRequested = flag,
                                    !.completedAt = now]
  <2>1. row \in JobRow
    <3>1. jobs[j] \in JobRow /\ now \in Time
      BY DEF StoreTypeOK
    <3> QED
      BY <3>1 DEF JobRow
  <2>2. jobs' = [jobs EXCEPT ![j] = row]
    BY DEF EndJob, StoreTypeOK
  <2> QED
    BY <2>1, <2>2 DEF StoreTypeOK
<1>2. jobAttempts' \in [JobIds -> [AttemptNumber -> {"absent"} \cup AttemptStatus]]
  BY DEF EndJob, StoreTypeOK, Settle, AttemptStatus, TerminalStatus
<1>3. jobEvents' \in [JobIds -> Seq(EventType)]
  BY DEF EndJob, StoreTypeOK, EventType
<1> QED
  BY <1>1, <1>2, <1>3 DEF EndJob, StoreTypeOK

\* Every call of a run leaves the tables well typed.
LEMMA RunCallTypeOK ==
  ASSUME StoreTypeOK, NEW j \in JobIds, RunCall(j)
  PROVE  StoreTypeOK'
<1>1. CASE AppendEvent(j)
  <2>1. jobEvents' \in [JobIds -> Seq(EventType)]
    BY <1>1 DEF AppendEvent, StoreTypeOK, EventType
  <2> QED
    BY <1>1, <2>1 DEF AppendEvent, StoreTypeOK
<1>2. ASSUME NEW t \in Threads, UpdateBackendThread(jobs[j].conversation, t)
      PROVE  StoreTypeOK'
  <2> DEFINE c == jobs[j].conversation
             row == [conversations[c] EXCEPT !.backendThread = t, !.updatedAt = now]
  <2>1. conversations' \in [ConversationIds -> ConversationRow]
    <3>1. CASE c \in ConversationIds
      <4>0. conversations[c] \in ConversationRow /\ now \in Time
        BY <3>1 DEF StoreTypeOK
      <4>1. row \in ConversationRow
        BY <4>0 DEF ConversationRow
      <4>2. conversations' = [conversations EXCEPT ![c] = row]
        BY <1>2, <3>1 DEF UpdateBackendThread, StoreTypeOK
      <4> QED
        BY <4>1, <4>2, <3>1 DEF StoreTypeOK
    <3>2. CASE c \notin ConversationIds
      <4>1. conversations' = conversations
        BY <1>2, <3>2 DEF UpdateBackendThread, StoreTypeOK
      <4> QED
        BY <4>1 DEF StoreTypeOK
    <3> QED
      BY <3>1, <3>2
  <2> QED
    BY <1>2, <2>1 DEF UpdateBackendThread, StoreTypeOK
<1>3. CASE CompleteJob(j) \/ FailJob(j) \/ MarkCancelled(j)
  BY <1>3, EndJobTypeOK DEF CompleteJob, FailJob, MarkCancelled, FinalizeCancellation,
     TerminalStatus, TerminalEvent
<1> QED
  BY <1>1, <1>2, <1>3 DEF RunCall

\* A claim leaves the tables well typed: its attempt number exists.
LEMMA ClaimTypeOK ==
  ASSUME StoreTypeOK, NEW j \in JobIds, ClaimNextJob(j)
  PROVE  StoreTypeOK'
<1> DEFINE attempt == jobs[j].attempts + 1
           row == [jobs[j] EXCEPT !.status = "running", !.attempts = attempt]
<1>1. jobs' \in [JobIds -> JobRow]
  <2>1. attempt \in 0 .. MaxAttempts
    BY LimitsAssumption DEF ClaimNextJob, AttemptNumber
  <2>2. row \in JobRow
    BY <2>1 DEF StoreTypeOK, JobRow, ActiveStatus
  <2>3. jobs' = [jobs EXCEPT ![j] = row]
    BY DEF ClaimNextJob, StoreTypeOK
  <2> QED
    BY <2>2, <2>3 DEF StoreTypeOK
<1>2. jobAttempts' \in [JobIds -> [AttemptNumber -> {"absent"} \cup AttemptStatus]]
  BY DEF ClaimNextJob, StoreTypeOK, AttemptStatus
<1>3. jobEvents' \in [JobIds -> Seq(EventType)]
  <2>1. jobEvents' = [jobEvents EXCEPT ![j] = Append(jobEvents[j], "job.started")]
    BY DEF ClaimNextJob
  <2> QED
    BY <2>1 DEF StoreTypeOK, EventType
<1> QED
  BY <1>1, <1>2, <1>3 DEF ClaimNextJob, StoreTypeOK

\* A cancellation leaves the tables well typed.
LEMMA RequestCancellationTypeOK ==
  ASSUME StoreTypeOK, NEW j \in JobIds, RequestCancellation(j)
  PROVE  StoreTypeOK'
<1>1. CASE CancelQueued(j)
  <2> DEFINE row == [jobs[j] EXCEPT !.status = "cancelled", !.cancelRequested = 1,
                                    !.completedAt = now]
  <2>0. jobs[j] \in JobRow /\ now \in Time
    BY DEF StoreTypeOK
  <2>1. row \in JobRow
    BY <2>0 DEF JobRow, TerminalStatus
  <2>2. jobs' = [jobs EXCEPT ![j] = row]
    BY <1>1 DEF CancelQueued, StoreTypeOK
  <2>3. jobEvents' \in [JobIds -> Seq(EventType)]
    BY <1>1 DEF CancelQueued, StoreTypeOK, EventType, TerminalEvent
  <2> QED
    BY <1>1, <2>1, <2>2, <2>3 DEF CancelQueued, StoreTypeOK
<1>2. CASE CancelRunning(j)
  <2>1. [jobs[j] EXCEPT !.cancelRequested = 1] \in JobRow
    BY DEF StoreTypeOK, JobRow
  <2>2. jobs' = [jobs EXCEPT ![j] = [jobs[j] EXCEPT !.cancelRequested = 1]]
    BY <1>2 DEF CancelRunning, StoreTypeOK
  <2> QED
    BY <1>2, <2>1, <2>2 DEF CancelRunning, StoreTypeOK
<1> QED
  BY <1>1, <1>2 DEF RequestCancellation

\* Recovery leaves the tables well typed.
LEMMA RecoverTypeOK == StoreTypeOK /\ RecoverInterruptedJobs => StoreTypeOK'
<1> SUFFICES ASSUME StoreTypeOK, RecoverInterruptedJobs PROVE StoreTypeOK'
  OBVIOUS
<1>1. jobs' \in [JobIds -> JobRow]
  <2>1. ASSUME NEW j \in JobIds PROVE jobs[j] \in JobRow /\ now \in Time
    BY DEF StoreTypeOK
  <2>2. ASSUME NEW j \in JobIds
        PROVE  /\ [jobs[j] EXCEPT !.status = "queued"] \in JobRow
               /\ [jobs[j] EXCEPT !.status = "cancelled", !.completedAt = now] \in JobRow
    BY <2>1 DEF JobRow, ActiveStatus, TerminalStatus
  <2> QED
    BY <2>1, <2>2 DEF RecoverInterruptedJobs
<1>2. jobAttempts' \in [JobIds -> [AttemptNumber -> {"absent"} \cup AttemptStatus]]
  BY DEF RecoverInterruptedJobs, StoreTypeOK, Settle, AttemptStatus
<1>3. jobEvents' \in [JobIds -> Seq(EventType)]
  <2>1. ASSUME NEW j \in JobIds
        PROVE  /\ jobEvents[j] \in Seq(EventType)
               /\ Append(jobEvents[j], "job.cancelled") \in Seq(EventType)
    BY DEF StoreTypeOK, EventType, TerminalEvent
  <2> QED
    BY <2>1 DEF RecoverInterruptedJobs
<1> QED
  BY <1>1, <1>2, <1>3 DEF RecoverInterruptedJobs, StoreTypeOK

\* The sweep leaves the tables well typed.
LEMMA PruneTypeOK == StoreTypeOK /\ PruneExpired => StoreTypeOK'
<1> SUFFICES ASSUME StoreTypeOK, PruneExpired PROVE StoreTypeOK'
  OBVIOUS
<1>1. NoJobRow \in JobRow /\ NoConversationRow \in ConversationRow
  BY LimitsAssumption DEF NoJobRow, JobRow, NoConversationRow, ConversationRow, JobKind
<1>2. NoAttempts \in [AttemptNumber -> {"absent"} \cup AttemptStatus]
  BY DEF NoAttempts
<1> QED
  BY <1>1, <1>2 DEF PruneExpired, DeleteRecords, StoreTypeOK

\* Every transaction leaves the tables well typed.
LEMMA StoreStepTypeOK == StoreTypeOK /\ [StoreNext]_storeVars => StoreTypeOK'
<1> SUFFICES ASSUME StoreTypeOK, [StoreNext]_storeVars PROVE StoreTypeOK'
  OBVIOUS
<1>1. CASE Submit
  BY <1>1, SubmitTypeOK
<1>2. ASSUME NEW j \in JobIds, ClaimNextJob(j) \/ RequestCancellation(j) \/ RunCall(j)
      PROVE  StoreTypeOK'
  BY <1>2, ClaimTypeOK, RequestCancellationTypeOK, RunCallTypeOK
<1>3. CASE RecoverInterruptedJobs
  BY <1>3, RecoverTypeOK
<1>4. CASE PruneExpired
  BY <1>4, PruneTypeOK
<1>5. CASE Tick
  BY <1>5, LimitsAssumption DEF Tick, tables, StoreTypeOK, Time
<1>6. CASE UNCHANGED storeVars
  BY <1>6 DEF storeVars, StoreTypeOK
<1>7. CASE RotateKey
  BY <1>7 DEF RotateKey, StoreTypeOK
<1> QED
  BY <1>1, <1>2, <1>3, <1>4, <1>5, <1>6, <1>7 DEF StoreNext, GatewayNext

\* Every reachable state of the store is of its types: no transaction writes a
\* status, a flag or an attempt number the schema's CHECK constraints refuse.
THEOREM StoreTypeCorrect == StoreSpec => []StoreTypeOK
BY StoreInitTypeOK, StoreStepTypeOK, PTL DEF StoreSpec

-----------------------------------------------------------------------------
(* The inductive invariant.  Most of it speaks of the rows of jobs, and there *)
(* are only a few ways a transaction writes those. *)

Inserts(j, o, c, kind) ==
  /\ HasQueueCapacity
  /\ FreshJob(j)
  /\ jobs' = [jobs EXCEPT ![j] = NewJob(o, c, kind)]
  /\ jobAttempts' = jobAttempts
  /\ now' = now

Ends(j, status, flag) ==
  /\ IsRunning(j)
  /\ flag = 0 => status # "cancelled" /\ jobs[j].cancelRequested = 0
  /\ flag = 1 => status = "cancelled"
  /\ \E event \in TerminalEvent : EndJob(j, status, event, flag)

JobsUntouched ==
  /\ jobs' = jobs
  /\ jobAttempts' = jobAttempts
  /\ now' \in Time /\ now <= now'

\* A step of the store leaves every job alone or is one of seven kinds: every
\* inductive step below goes through them.
LEMMA StepCases ==
  ASSUME StoreTypeOK, [StoreNext]_storeVars
  PROVE  \/ JobsUntouched
         \/ \E j \in JobIds, o \in Owners, c \in ConversationIds, kind \in JobKind :
              Inserts(j, o, c, kind)
         \/ \E j \in JobIds : ClaimNextJob(j)
         \/ \E j \in JobIds, status \in TerminalStatus, flag \in {0, 1} :
              Ends(j, status, flag)
         \/ \E j \in JobIds : CancelQueued(j)
         \/ \E j \in JobIds : CancelRunning(j)
         \/ RecoverInterruptedJobs
         \/ PruneExpired
<1>0. now \in Time /\ now \in Int
  BY LimitsAssumption DEF StoreTypeOK, Time
<1>1. CASE Submit
  <2>1. PICK o \in Owners, c \in ConversationIds :
          \/ \E r \in Repositories : CreateConversation(c, o, r)
          \/ \E j \in JobIds, k \in Keys :
               \/ SubmitTurn(j, o, k, c)
               \/ \E r \in Repositories : SubmitRun(j, o, k, c, r)
               \/ SubmitInference(j, o, k, c)
    BY <1>1 DEF Submit
  <2>2. ASSUME NEW r \in Repositories, CreateConversation(c, o, r)
        PROVE  JobsUntouched
    BY <2>2, <1>0 DEF CreateConversation, JobsUntouched
  <2>3. ASSUME NEW j \in JobIds, NEW k \in Keys,
               \/ SubmitTurn(j, o, k, c)
               \/ \E r \in Repositories : SubmitRun(j, o, k, c, r)
               \/ SubmitInference(j, o, k, c)
        PROVE  \E kind \in JobKind : Inserts(j, o, c, kind)
    BY <2>3 DEF SubmitTurn, SubmitRun, SubmitInference, InsertRun, InsertJob, Inserts,
       JobKind
  <2> QED
    BY <2>1, <2>2, <2>3
<1>2. ASSUME NEW j \in JobIds, RunCall(j)
      PROVE  \/ JobsUntouched
             \/ \E status \in TerminalStatus, flag \in {0, 1} : Ends(j, status, flag)
  <2>1. CASE AppendEvent(j)
    BY <2>1, <1>0 DEF AppendEvent, JobsUntouched
  <2>2. CASE \E t \in Threads : UpdateBackendThread(jobs[j].conversation, t)
    BY <2>2, <1>0 DEF UpdateBackendThread, JobsUntouched
  <2>3. CASE CompleteJob(j)
    <3>1. Ends(j, "completed", 0) \/ Ends(j, "cancelled", 1)
      BY <2>3 DEF CompleteJob, FinalizeCancellation, Ends, TerminalEvent
    <3> QED
      BY <3>1 DEF TerminalStatus
  <2>4. CASE FailJob(j)
    <3>1. Ends(j, "failed", 0) \/ Ends(j, "cancelled", 1)
      BY <2>4 DEF FailJob, FinalizeCancellation, Ends, TerminalEvent
    <3> QED
      BY <3>1 DEF TerminalStatus
  <2>5. CASE MarkCancelled(j)
    <3>1. Ends(j, "cancelled", 1)
      BY <2>5 DEF MarkCancelled, FinalizeCancellation, Ends, TerminalEvent
    <3> QED
      BY <3>1 DEF TerminalStatus
  <2> QED
    BY <1>2, <2>1, <2>2, <2>3, <2>4, <2>5 DEF RunCall
<1>3. CASE Tick
  BY <1>3, <1>0, LimitsAssumption DEF Tick, tables, JobsUntouched, Time
<1>4. CASE UNCHANGED storeVars
  BY <1>4, <1>0 DEF storeVars, JobsUntouched
<1>5. CASE RotateKey
  BY <1>5, <1>0 DEF RotateKey, JobsUntouched
<1> QED
  BY <1>1, <1>2, <1>3, <1>4, <1>5 DEF StoreNext, GatewayNext, RequestCancellation

\* The row of i is written again, as an UPDATE of jobs does it.
Rewritten(i, status, flag, attempts) ==
  /\ jobs'[i].status = status
  /\ jobs'[i].cancelRequested = flag
  /\ jobs'[i].attempts = attempts
  /\ jobs'[i].owner = jobs[i].owner
  /\ jobs'[i].conversation = jobs[i].conversation
  /\ jobs'[i].kind = jobs[i].kind
  /\ jobs'[i].createdAt = jobs[i].createdAt

\* What the UPDATEs of one row write, and that they write that row alone.
LEMMA WrittenRows ==
  ASSUME StoreTypeOK, NEW k \in JobIds
  PROVE  /\ ClaimNextJob(k) =>
              /\ jobs[k].status = "queued" /\ jobs[k].cancelRequested = 0
              /\ Rewritten(k, "running", 0, jobs[k].attempts + 1)
              /\ \A i \in JobIds \ {k} : jobs'[i] = jobs[i]
         /\ \A status \in TerminalStatus, flag \in {0, 1} : Ends(k, status, flag) =>
              /\ jobs[k].status = "running"
              /\ Rewritten(k, status, flag, jobs[k].attempts)
              /\ \A i \in JobIds \ {k} : jobs'[i] = jobs[i]
         /\ CancelQueued(k) =>
              /\ jobs[k].status = "queued"
              /\ Rewritten(k, "cancelled", 1, jobs[k].attempts)
              /\ \A i \in JobIds \ {k} : jobs'[i] = jobs[i]
         /\ CancelRunning(k) =>
              /\ jobs[k].status = "running"
              /\ Rewritten(k, "running", 1, jobs[k].attempts)
              /\ \A i \in JobIds \ {k} : jobs'[i] = jobs[i]
<1>0. jobs \in [JobIds -> JobRow] /\ jobs[k] \in JobRow
  BY DEF StoreTypeOK
<1>1. ASSUME ClaimNextJob(k)
      PROVE  /\ jobs[k].status = "queued" /\ jobs[k].cancelRequested = 0
             /\ Rewritten(k, "running", 0, jobs[k].attempts + 1)
             /\ \A i \in JobIds \ {k} : jobs'[i] = jobs[i]
  BY <1>0, <1>1 DEF ClaimNextJob, Claimable, Rewritten, JobRow
<1>2. ASSUME NEW status \in TerminalStatus, NEW flag \in {0, 1}, Ends(k, status, flag)
      PROVE  /\ jobs[k].status = "running"
             /\ Rewritten(k, status, flag, jobs[k].attempts)
             /\ \A i \in JobIds \ {k} : jobs'[i] = jobs[i]
  BY <1>0, <1>2 DEF Ends, EndJob, IsRunning, Rewritten, JobRow
<1>3. ASSUME CancelQueued(k)
      PROVE  /\ jobs[k].status = "queued"
             /\ Rewritten(k, "cancelled", 1, jobs[k].attempts)
             /\ \A i \in JobIds \ {k} : jobs'[i] = jobs[i]
  BY <1>0, <1>3 DEF CancelQueued, Rewritten, JobRow
<1>4. ASSUME CancelRunning(k)
      PROVE  /\ jobs[k].status = "running"
             /\ Rewritten(k, "running", 1, jobs[k].attempts)
             /\ \A i \in JobIds \ {k} : jobs'[i] = jobs[i]
  BY <1>0, <1>4 DEF CancelRunning, IsRunning, Rewritten, JobRow
<1> QED
  BY <1>1, <1>2, <1>3, <1>4

\* What recovery makes of a row.
LEMMA RecoveredRow ==
  ASSUME StoreTypeOK, RecoverInterruptedJobs, NEW j \in JobIds
  PROVE  \/ /\ jobs[j].status = "running" /\ jobs[j].cancelRequested = 1
            /\ Rewritten(j, "cancelled", 1, jobs[j].attempts)
         \/ /\ jobs[j].status = "running" /\ jobs[j].cancelRequested = 0
            /\ Rewritten(j, "queued", 0, jobs[j].attempts)
         \/ jobs[j].status # "running" /\ jobs'[j] = jobs[j]
<1>1. jobs[j] \in JobRow /\ jobs[j].cancelRequested \in {0, 1}
  BY DEF StoreTypeOK, JobRow
<1>2. CASE jobs[j].status = "running" /\ jobs[j].cancelRequested = 1
  BY <1>1, <1>2 DEF RecoverInterruptedJobs, EndsCancelled, IsRunning, Rewritten, JobRow
<1>3. CASE jobs[j].status = "running" /\ jobs[j].cancelRequested = 0
  BY <1>1, <1>3 DEF RecoverInterruptedJobs, EndsCancelled, IsRunning, Rewritten, JobRow
<1>4. CASE jobs[j].status # "running"
  BY <1>4 DEF RecoverInterruptedJobs, EndsCancelled, IsRunning
<1> QED
  BY <1>1, <1>2, <1>3, <1>4

\* What the sweep makes of a row.
LEMMA PrunedRow ==
  ASSUME StoreTypeOK, PruneExpired, NEW j \in JobIds
  PROVE  \/ Expired(j) /\ jobs'[j] = NoJobRow
         \/ ~Expired(j) /\ jobs'[j] = jobs[j]
  BY DEF PruneExpired

\* What a row keeps for life.
LEMMA RowsKept ==
  ASSUME StoreTypeOK, NEW i \in JobIds,
         \/ \E j \in JobIds : ClaimNextJob(j)
         \/ \E j \in JobIds, status \in TerminalStatus, flag \in {0, 1} :
              Ends(j, status, flag)
         \/ \E j \in JobIds : CancelQueued(j)
         \/ \E j \in JobIds : CancelRunning(j)
         \/ RecoverInterruptedJobs
  PROVE  /\ jobs'[i].owner = jobs[i].owner
         /\ jobs'[i].conversation = jobs[i].conversation
         /\ jobs'[i].kind = jobs[i].kind
         /\ jobs'[i].createdAt = jobs[i].createdAt
         /\ JobExists(i)' <=> JobExists(i)
         /\ IsTerminal(i) => IsTerminal(i)'
<1> USE DEF JobExists, IsTerminal, IsRunning, TerminalStatus
<1>1. CASE \E j \in JobIds : ClaimNextJob(j)
  BY <1>1, WrittenRows DEF Rewritten
<1>2. CASE \E j \in JobIds, status \in TerminalStatus, flag \in {0, 1} : Ends(j, status, flag)
  BY <1>2, WrittenRows DEF Rewritten
<1>3. CASE \E j \in JobIds : CancelQueued(j)
  BY <1>3, WrittenRows DEF Rewritten
<1>4. CASE \E j \in JobIds : CancelRunning(j)
  BY <1>4, WrittenRows DEF Rewritten
<1>5. CASE RecoverInterruptedJobs
  BY <1>5, RecoveredRow DEF Rewritten
<1> QED
  BY <1>1, <1>2, <1>3, <1>4, <1>5

\* Every step keeps the rows coherent.
LEMMA RowsCoherentStep ==
  ASSUME StoreTypeOK, RowsCoherent, [StoreNext]_storeVars
  PROVE  RowsCoherent'
<1> USE DEF JobExists, IsRunning, IsTerminal, TerminalStatus
<1>0. now \in Time /\ Time \subseteq Int /\ NoTime \notin Time
  BY LimitsAssumption DEF StoreTypeOK, Time, NoTime
<1>1. CASE JobsUntouched
  <2> SUFFICES ASSUME NEW j \in JobIds, JobExists(j)
               PROVE  jobs[j].createdAt <= now'
    BY <1>1 DEF JobsUntouched, RowsCoherent
  <2>1. jobs[j].createdAt \in Int /\ now \in Int /\ now' \in Int
    BY <1>0, <1>1 DEF JobsUntouched, RowsCoherent
  <2> QED
    BY <2>1, <1>1 DEF JobsUntouched, RowsCoherent
<1>2. ASSUME NEW j \in JobIds, NEW o \in Owners, NEW c \in ConversationIds,
             NEW kind \in JobKind, Inserts(j, o, c, kind)
      PROVE  RowsCoherent'
  BY <1>0, <1>2 DEF Inserts, NewJob, RowsCoherent, StoreTypeOK
<1>3. ASSUME NEW j \in JobIds, ClaimNextJob(j) PROVE RowsCoherent'
  BY <1>0, <1>3, LimitsAssumption
  DEF ClaimNextJob, Claimable, RowsCoherent, StoreTypeOK, AttemptNumber
<1>4. ASSUME NEW j \in JobIds, NEW status \in TerminalStatus, NEW flag \in {0, 1},
             Ends(j, status, flag)
      PROVE  RowsCoherent'
  BY <1>0, <1>4 DEF Ends, EndJob, RowsCoherent, StoreTypeOK, TerminalStatus
<1>5. ASSUME NEW j \in JobIds, CancelQueued(j) PROVE RowsCoherent'
  BY <1>0, <1>5 DEF CancelQueued, RowsCoherent, StoreTypeOK
<1>6. ASSUME NEW j \in JobIds, CancelRunning(j) PROVE RowsCoherent'
  BY <1>0, <1>6 DEF CancelRunning, RowsCoherent, StoreTypeOK
<1>7. CASE RecoverInterruptedJobs
  <2> SUFFICES ASSUME NEW j \in JobIds
               PROVE  /\ ~JobExists(j)' => jobs'[j] = NoJobRow
                      /\ JobExists(j)' => jobs'[j].createdAt \in Time /\ jobs'[j].createdAt <= now'
                      /\ IsRunning(j)' => jobs'[j].attempts > 0
                      /\ IsTerminal(j)' => jobs'[j].completedAt \in Time
    BY DEF RowsCoherent
  <2>1. now' = now /\ jobs[j] \in JobRow
    BY <1>7 DEF RecoverInterruptedJobs, StoreTypeOK
  <2>2. CASE jobs[j].status = "running"
    <3>1. jobs'[j].status = "cancelled" => jobs'[j].completedAt = now
      BY <1>7, <2>1, <2>2 DEF RecoverInterruptedJobs, EndsCancelled, JobRow
    <3>2. jobs'[j].status \in {"cancelled", "queued"} /\ jobs'[j].createdAt = jobs[j].createdAt
      BY <1>7, <2>2, RecoveredRow DEF Rewritten
    <3> QED
      BY <1>0, <2>1, <2>2, <3>1, <3>2 DEF RowsCoherent
  <2>3. CASE jobs[j].status # "running"
    BY <1>7, <2>1, <2>3, RecoveredRow DEF RowsCoherent
  <2> QED
    BY <2>2, <2>3
<1>8. CASE PruneExpired
  BY <1>0, <1>8 DEF PruneExpired, RowsCoherent, StoreTypeOK, NoJobRow
<1> QED
  BY StepCases, <1>1, <1>2, <1>3, <1>4, <1>5, <1>6, <1>7, <1>8

\* Every step keeps the running jobs in conversations of their own: a claim skips
\* the conversations that have one, and nothing else makes a job running.
LEMMA OneRunningPerConversationStep ==
  ASSUME StoreTypeOK, StoreInv, [StoreNext]_storeVars
  PROVE  OneRunningPerConversation'
<1> USE DEF JobExists, IsRunning, IsTerminal
<1>0. RowsCoherent /\ RowsCoherent' /\ OneRunningPerConversation
  BY RowsCoherentStep DEF StoreInv
<1>1. CASE JobsUntouched
  BY <1>0, <1>1 DEF JobsUntouched, OneRunningPerConversation, StoreTypeOK
<1>2. ASSUME NEW j \in JobIds, NEW o \in Owners, NEW c \in ConversationIds,
             NEW kind \in JobKind, Inserts(j, o, c, kind)
      PROVE  OneRunningPerConversation'
  BY <1>0, <1>2 DEF Inserts, NewJob, FreshJob, OneRunningPerConversation, StoreTypeOK
<1>3. ASSUME NEW j \in JobIds, ClaimNextJob(j) PROVE OneRunningPerConversation'
  BY <1>0, <1>3 DEF ClaimNextJob, Claimable, OneRunningPerConversation, StoreTypeOK
<1>4. ASSUME NEW j \in JobIds, NEW status \in TerminalStatus, NEW flag \in {0, 1},
             Ends(j, status, flag)
      PROVE  OneRunningPerConversation'
  BY <1>0, <1>4 DEF Ends, EndJob, TerminalStatus, OneRunningPerConversation, StoreTypeOK
<1>5. ASSUME NEW j \in JobIds, CancelQueued(j) PROVE OneRunningPerConversation'
  BY <1>0, <1>5 DEF CancelQueued, OneRunningPerConversation, StoreTypeOK
<1>6. ASSUME NEW j \in JobIds, CancelRunning(j) PROVE OneRunningPerConversation'
  BY <1>0, <1>6 DEF CancelRunning, OneRunningPerConversation, StoreTypeOK
<1>7. CASE RecoverInterruptedJobs
  BY <1>0, <1>7, RecoveredRow DEF OneRunningPerConversation, Rewritten
<1>8. CASE PruneExpired
  <2>1. ASSUME NEW j \in JobIds, IsRunning(j)' PROVE jobs'[j] = jobs[j]
    BY <1>8, <2>1, PrunedRow DEF NoJobRow
  <2> QED
    BY <1>0, <2>1 DEF OneRunningPerConversation
<1> QED
  BY StepCases, <1>1, <1>2, <1>3, <1>4, <1>5, <1>6, <1>7, <1>8

\* Every step keeps an accepted cancellation: each end looks at the flag first.
LEMMA CancellationWinsStep ==
  ASSUME StoreTypeOK, StoreInv, [StoreNext]_storeVars
  PROVE  CancellationWins'
<1> USE DEF JobExists, IsRunning, IsTerminal
<1>0. RowsCoherent /\ RowsCoherent' /\ CancellationWins
  BY RowsCoherentStep DEF StoreInv
<1>1. CASE JobsUntouched
  BY <1>0, <1>1 DEF JobsUntouched, CancellationWins, StoreTypeOK
<1>2. ASSUME NEW j \in JobIds, NEW o \in Owners, NEW c \in ConversationIds,
             NEW kind \in JobKind, Inserts(j, o, c, kind)
      PROVE  CancellationWins'
  BY <1>0, <1>2 DEF Inserts, NewJob, FreshJob, CancellationWins, StoreTypeOK
<1>3. ASSUME NEW j \in JobIds, ClaimNextJob(j) PROVE CancellationWins'
  BY <1>0, <1>3 DEF ClaimNextJob, Claimable, CancellationWins, StoreTypeOK
<1>4. ASSUME NEW j \in JobIds, NEW status \in TerminalStatus, NEW flag \in {0, 1},
             Ends(j, status, flag)
      PROVE  CancellationWins'
  BY <1>0, <1>4 DEF Ends, EndJob, TerminalStatus, CancellationWins, StoreTypeOK
<1>5. ASSUME NEW j \in JobIds, CancelQueued(j) PROVE CancellationWins'
  BY <1>0, <1>5 DEF CancelQueued, CancellationWins, StoreTypeOK
<1>6. ASSUME NEW j \in JobIds, CancelRunning(j) PROVE CancellationWins'
  BY <1>0, <1>6 DEF CancelRunning, CancellationWins, StoreTypeOK
<1>7. CASE RecoverInterruptedJobs
  BY <1>0, <1>7, RecoveredRow DEF CancellationWins, Rewritten
<1>8. CASE PruneExpired
  <2> SUFFICES ASSUME NEW j \in JobIds
               PROVE  /\ jobs'[j].cancelRequested = 1 => jobs'[j].status \in {"running", "cancelled"}
                      /\ jobs'[j].status = "cancelled" => jobs'[j].cancelRequested = 1
    BY DEF CancellationWins
  <2>1. CASE jobs'[j] = NoJobRow
    BY <2>1 DEF NoJobRow
  <2>2. CASE jobs'[j] = jobs[j]
    BY <1>0, <2>2 DEF CancellationWins
  <2> QED
    BY <1>8, <2>1, <2>2, PrunedRow
<1> QED
  BY StepCases, <1>1, <1>2, <1>3, <1>4, <1>5, <1>6, <1>7, <1>8

\* Every step keeps the turns of a conversation in order: a claim takes the oldest
\* job, and recovery queues again only the one turn that was running.
LEMMA ConversationOrderStep ==
  ASSUME StoreTypeOK, StoreInv, [StoreNext]_storeVars
  PROVE  ConversationOrder'
<1> USE DEF JobExists, IsRunning, IsTerminal
<1>0. RowsCoherent /\ ConversationOrder /\ CancellationWins
  BY DEF StoreInv
<1> SUFFICES ASSUME NEW i \in JobIds, NEW j \in JobIds,
                    JobExists(i)', JobExists(j)',
                    jobs'[i].conversation = jobs'[j].conversation,
                    jobs'[i].createdAt < jobs'[j].createdAt,
                    jobs'[j].attempts > 0
             PROVE  IsTerminal(i)'
  BY DEF ConversationOrder
<1>1. ASSUME UNCHANGED jobs PROVE IsTerminal(i)'
  BY <1>0, <1>1 DEF ConversationOrder
<1>2. ASSUME NEW k \in JobIds, NEW o \in Owners, NEW c \in ConversationIds,
             NEW kind \in JobKind, Inserts(k, o, c, kind)
      PROVE  IsTerminal(i)'
  <2>1. \A h \in JobIds \ {k} : jobs'[h] = jobs[h]
    BY <1>2 DEF Inserts, StoreTypeOK
  <2>2. jobs'[k].createdAt = now /\ jobs'[k].attempts = 0
    BY <1>2 DEF Inserts, StoreTypeOK, NewJob
  <2>3. j # k
    BY <2>2
  <2>4. jobs[j].createdAt <= now /\ jobs[j].createdAt \in Int /\ now \in Int
    BY <1>0, <2>1, <2>3, LimitsAssumption DEF RowsCoherent, StoreTypeOK, Time
  <2>5. i # k
    BY <2>1, <2>2, <2>3, <2>4
  <2> QED
    BY <1>0, <2>1, <2>3, <2>5 DEF ConversationOrder
<1>3. ASSUME NEW k \in JobIds, ClaimNextJob(k) PROVE IsTerminal(i)'
  <2>1. /\ JobExists(i) /\ JobExists(j)
        /\ jobs[i].conversation = jobs[j].conversation
        /\ jobs[i].createdAt < jobs[j].createdAt
        /\ IsTerminal(i) => IsTerminal(i)'
    BY <1>3, RowsKept
  <2>2. CASE j # k
    <3>1. jobs'[j] = jobs[j]
      BY <1>3, <2>2 DEF ClaimNextJob, StoreTypeOK
    <3> QED
      BY <1>0, <2>1, <3>1 DEF ConversationOrder
  <2>3. CASE j = k
    <3>1. jobs[i].createdAt \in Int /\ jobs[j].createdAt \in Int
      BY <1>0, <2>1, LimitsAssumption DEF RowsCoherent, Time
    <3>2. ~Claimable(i)
      BY <1>3, <2>1, <2>3, <3>1 DEF ClaimNextJob, IsOldest
    <3>3. ~IsRunning(i)
      BY <1>3, <2>1, <2>3 DEF ClaimNextJob, Claimable
    <3>4. jobs[i].status # "queued"
      <4>1. jobs[i].status = "queued" => jobs[i].cancelRequested = 0
        BY <1>0 DEF CancellationWins, StoreTypeOK, JobRow
      <4>2. \A h \in JobIds : IsRunning(h) => jobs[h].conversation # jobs[i].conversation
        BY <1>3, <2>1, <2>3 DEF ClaimNextJob, Claimable
      <4> QED
        BY <3>2, <4>1, <4>2 DEF Claimable
    <3> QED
      BY <2>1, <3>3, <3>4 DEF StoreTypeOK, JobRow, ActiveStatus
  <2> QED
    BY <2>2, <2>3
<1>4. ASSUME \/ \E k \in JobIds, status \in TerminalStatus, flag \in {0, 1} :
                  Ends(k, status, flag)
             \/ \E k \in JobIds : CancelQueued(k)
             \/ \E k \in JobIds : CancelRunning(k)
             \/ RecoverInterruptedJobs
      PROVE  IsTerminal(i)'
  <2>1. /\ JobExists(i) /\ JobExists(j)
        /\ jobs[i].conversation = jobs[j].conversation
        /\ jobs[i].createdAt < jobs[j].createdAt
        /\ IsTerminal(i) => IsTerminal(i)'
    BY <1>4, RowsKept
  <2>2. jobs'[j].attempts = jobs[j].attempts
    <3>2. CASE \E k \in JobIds, status \in TerminalStatus, flag \in {0, 1} :
                 Ends(k, status, flag)
      BY <3>2, WrittenRows DEF Rewritten
    <3>3. CASE \E k \in JobIds : CancelQueued(k)
      BY <3>3, WrittenRows DEF Rewritten
    <3>4. CASE \E k \in JobIds : CancelRunning(k)
      BY <3>4, WrittenRows DEF Rewritten
    <3>5. CASE RecoverInterruptedJobs
      BY <3>5, RecoveredRow DEF Rewritten
    <3> QED
      BY <1>4, <3>2, <3>3, <3>4, <3>5
  <2> QED
    BY <1>0, <2>1, <2>2 DEF ConversationOrder
<1>5. CASE PruneExpired
  <2>1. ASSUME NEW h \in JobIds, JobExists(h)' PROVE jobs'[h] = jobs[h]
    BY <1>5, <2>1, PrunedRow DEF NoJobRow
  <2> QED
    BY <1>0, <2>1 DEF ConversationOrder
<1> QED
  BY StepCases, <1>1, <1>2, <1>3, <1>4, <1>5 DEF JobsUntouched

-----------------------------------------------------------------------------
(* The attempt history of one job, apart from the table it is in *)

HistoryOK(rows, status, attempts) ==
  /\ \A n \in AttemptNumber :
       /\ rows[n] # "absent" <=> n <= attempts
       /\ rows[n] = "running" <=> status = "running" /\ n = attempts
       /\ rows[n] = "completed" => status = "completed" /\ n = attempts
  /\ status \in {"completed", "failed"} => attempts > 0 /\ rows[attempts] = status

\* The attempt history is a property of each job alone.
LEMMA AttemptsMatchByRow ==
  AttemptsMatch <=> \A j \in JobIds :
                      HistoryOK(jobAttempts[j], jobs[j].status, jobs[j].attempts)
  BY DEF AttemptsMatch, HistoryOK, IsRunning

\* A job that has no attempt yet.
LEMMA BlankHistory ==
  ASSUME NEW status \in {"absent", "queued"}
  PROVE  HistoryOK(NoAttempts, status, 0)
  BY LimitsAssumption DEF HistoryOK, NoAttempts, AttemptNumber

\* A job leaves the queue, or enters it, without an attempt.
LEMMA QueuedHistory ==
  ASSUME NEW rows, NEW a, NEW status \in {"absent", "queued"},
         NEW new \in {"queued", "cancelled"}, HistoryOK(rows, status, a)
  PROVE  HistoryOK(rows, new, a)
  BY DEF HistoryOK

\* A claim adds the next row.
LEMMA BegunHistory ==
  ASSUME NEW rows \in [AttemptNumber -> {"absent"} \cup AttemptStatus],
         NEW a \in 0 .. MaxAttempts, a + 1 \in AttemptNumber,
         HistoryOK(rows, "queued", a)
  PROVE  HistoryOK([rows EXCEPT ![a + 1] = "running"], "running", a + 1)
<1>1. a \in Int /\ AttemptNumber \subseteq Int
  BY LimitsAssumption DEF AttemptNumber
<1> QED
  BY <1>1 DEF HistoryOK

\* A run that ends, or is interrupted, settles the last row.
LEMMA SettledHistory ==
  ASSUME NEW rows \in [AttemptNumber -> {"absent"} \cup AttemptStatus],
         NEW a \in AttemptNumber, NEW s \in TerminalStatus, NEW status,
         status = s \/ (s = "failed" /\ status = "queued"),
         HistoryOK(rows, "running", a)
  PROVE  HistoryOK(Settle(rows, s), status, a)
<1>1. AttemptNumber \subseteq Int /\ a > 0
  BY LimitsAssumption DEF AttemptNumber
<1>2. ASSUME NEW n \in AttemptNumber
      PROVE  Settle(rows, s)[n] = IF n = a THEN s ELSE rows[n]
  BY DEF HistoryOK, Settle
<1> QED
  BY <1>1, <1>2 DEF HistoryOK, TerminalStatus

\* No transaction leaves a gap in the attempts of a job, a second running row, or
\* a last row that disagrees with the job.
LEMMA AttemptsMatchStep ==
  ASSUME StoreTypeOK, StoreInv, [StoreNext]_storeVars
  PROVE  AttemptsMatch'
<1> DEFINE OK(j) == HistoryOK(jobAttempts[j], jobs[j].status, jobs[j].attempts)
<1>0. RowsCoherent /\ \A j \in JobIds : OK(j)
  BY AttemptsMatchByRow DEF StoreInv
<1> SUFFICES ASSUME NEW i \in JobIds PROVE OK(i)'
  BY AttemptsMatchByRow DEF AttemptsMatch, HistoryOK, IsRunning
<1> HIDE DEF OK
<1>1. CASE JobsUntouched
  BY <1>0, <1>1 DEF JobsUntouched, OK
<1>2. ASSUME NEW j \in JobIds, NEW o \in Owners, NEW c \in ConversationIds,
             NEW kind \in JobKind, Inserts(j, o, c, kind)
      PROVE  OK(i)'
  <2>1. CASE i = j
    <3>1. jobs[j].status = "absent" /\ jobs[j].attempts = 0
      BY <1>0, <1>2 DEF RowsCoherent, Inserts, FreshJob, JobExists, NoJobRow
    <3>2. jobs'[j].status = "queued" /\ jobs'[j].attempts = 0
      BY <1>2 DEF Inserts, NewJob, StoreTypeOK
    <3>3. HistoryOK(jobAttempts[j], "queued", 0)
      BY <1>0, <3>1, QueuedHistory DEF OK
    <3> QED
      BY <1>2, <2>1, <3>2, <3>3 DEF Inserts, OK
  <2>2. CASE i # j
    BY <1>0, <1>2, <2>2 DEF Inserts, StoreTypeOK, OK
  <2> QED
    BY <2>1, <2>2
<1>3. ASSUME NEW j \in JobIds, ClaimNextJob(j) PROVE OK(i)'
  <2>1. CASE i = j
    <3> DEFINE a == jobs[j].attempts
    <3>1. a \in 0 .. MaxAttempts /\ a + 1 \in AttemptNumber
      BY <1>3 DEF ClaimNextJob, StoreTypeOK, JobRow
    <3>2. /\ jobs'[j].status = "running" /\ jobs'[j].attempts = a + 1
          /\ jobs[j].status = "queued"
      BY <1>3, WrittenRows DEF Rewritten
    <3>3. jobAttempts'[j] = [jobAttempts[j] EXCEPT ![a + 1] = "running"]
      BY <1>3 DEF ClaimNextJob, StoreTypeOK
    <3>4. HistoryOK(jobAttempts[j], "queued", a)
      BY <1>0, <3>2 DEF OK
    <3>5. jobAttempts[j] \in [AttemptNumber -> {"absent"} \cup AttemptStatus]
      BY DEF StoreTypeOK
    <3>6. HistoryOK(jobAttempts'[j], "running", a + 1)
      BY <3>1, <3>3, <3>4, <3>5, BegunHistory
    <3> QED
      BY <2>1, <3>2, <3>6 DEF OK
  <2>2. CASE i # j
    <3>1. jobs'[i] = jobs[i]
      BY <1>3, <2>2, WrittenRows
    <3>2. jobAttempts'[i] = jobAttempts[i]
      BY <1>3, <2>2 DEF ClaimNextJob, StoreTypeOK
    <3> QED
      BY <1>0, <3>1, <3>2 DEF OK
  <2> QED
    BY <2>1, <2>2
<1>4. ASSUME NEW j \in JobIds, NEW status \in TerminalStatus, NEW flag \in {0, 1},
             Ends(j, status, flag)
      PROVE  OK(i)'
  <2>1. CASE i = j
    <3> DEFINE a == jobs[j].attempts
    <3>1. /\ jobs'[j].status = status /\ jobs'[j].attempts = a
          /\ jobs[j].status = "running"
      BY <1>4, WrittenRows DEF Rewritten
    <3>2. a \in AttemptNumber
      BY <1>0, <3>1, LimitsAssumption
      DEF RowsCoherent, IsRunning, StoreTypeOK, JobRow, AttemptNumber
    <3>3. jobAttempts'[j] = Settle(jobAttempts[j], status)
      BY <1>4 DEF Ends, EndJob, StoreTypeOK
    <3>4. jobAttempts[j] \in [AttemptNumber -> {"absent"} \cup AttemptStatus]
      BY DEF StoreTypeOK
    <3>5. HistoryOK(jobAttempts[j], "running", a)
      BY <1>0, <3>1 DEF OK
    <3>6. HistoryOK(jobAttempts'[j], status, a)
      BY <3>2, <3>3, <3>4, <3>5, SettledHistory
    <3> QED
      BY <2>1, <3>1, <3>6 DEF OK
  <2>2. CASE i # j
    <3>1. jobs'[i] = jobs[i]
      BY <1>4, <2>2, WrittenRows
    <3>2. jobAttempts'[i] = jobAttempts[i]
      BY <1>4, <2>2 DEF Ends, EndJob, StoreTypeOK
    <3> QED
      BY <1>0, <3>1, <3>2 DEF OK
  <2> QED
    BY <2>1, <2>2
<1>5. ASSUME NEW j \in JobIds, CancelQueued(j) PROVE OK(i)'
  <2>1. jobAttempts' = jobAttempts
    BY <1>5 DEF CancelQueued
  <2>2. CASE i # j
    BY <1>0, <1>5, <2>1, <2>2, WrittenRows DEF OK
  <2>3. CASE i = j
    BY <1>0, <1>5, <2>1, <2>3, WrittenRows, QueuedHistory DEF OK, Rewritten
  <2> QED
    BY <2>2, <2>3
<1>6. ASSUME NEW j \in JobIds, CancelRunning(j) PROVE OK(i)'
  <2>1. jobAttempts' = jobAttempts
    BY <1>6 DEF CancelRunning
  <2> QED
    BY <1>0, <1>6, <2>1, WrittenRows DEF OK, Rewritten
<1>7. CASE RecoverInterruptedJobs
  <2>1. /\ jobAttempts[i] \in [AttemptNumber -> {"absent"} \cup AttemptStatus]
        /\ jobs[i].cancelRequested \in {0, 1}
    BY DEF StoreTypeOK, JobRow
  <2>2. jobAttempts'[i] =
          Settle(jobAttempts[i], IF EndsCancelled(i) THEN "cancelled" ELSE "failed")
    BY <1>7 DEF RecoverInterruptedJobs
  <2>3. CASE jobs[i].status = "running"
    <3>1. jobs[i].attempts \in AttemptNumber
      BY <1>0, <2>3, LimitsAssumption
      DEF RowsCoherent, IsRunning, StoreTypeOK, JobRow, AttemptNumber
    <3>2. HistoryOK(jobAttempts[i], "running", jobs[i].attempts)
      BY <1>0, <2>3 DEF OK
    <3>3. CASE jobs[i].cancelRequested = 1
      <4>1. jobAttempts'[i] = Settle(jobAttempts[i], "cancelled")
        BY <2>2, <2>3, <3>3 DEF EndsCancelled, IsRunning
      <4>2. HistoryOK(jobAttempts'[i], "cancelled", jobs[i].attempts)
        BY <2>1, <3>1, <3>2, <4>1, SettledHistory DEF TerminalStatus
      <4> QED
        BY <1>7, <2>3, <3>3, <4>2, RecoveredRow DEF OK, Rewritten
    <3>4. CASE jobs[i].cancelRequested = 0
      <4>1. jobAttempts'[i] = Settle(jobAttempts[i], "failed")
        BY <2>2, <3>4 DEF EndsCancelled
      <4>2. HistoryOK(jobAttempts'[i], "queued", jobs[i].attempts)
        BY <2>1, <3>1, <3>2, <4>1, SettledHistory DEF TerminalStatus
      <4> QED
        BY <1>7, <2>3, <3>4, <4>2, RecoveredRow DEF OK, Rewritten
    <3> QED
      BY <2>1, <3>3, <3>4
  <2>4. CASE jobs[i].status # "running"
    <3>1. \A n \in AttemptNumber : jobAttempts[i][n] # "running"
      BY <1>0, <2>4 DEF OK, HistoryOK
    <3>2. jobAttempts'[i] = jobAttempts[i]
      BY <2>1, <2>2, <3>1 DEF Settle
    <3> QED
      BY <1>0, <1>7, <2>4, <3>2, RecoveredRow DEF OK
  <2> QED
    BY <2>3, <2>4
<1>8. CASE PruneExpired
  <2>1. CASE Expired(i)
    <3>1. jobAttempts'[i] = NoAttempts
      BY <1>8, <2>1 DEF PruneExpired
    <3> QED
      BY <1>8, <2>1, <3>1, PrunedRow, BlankHistory DEF OK, NoJobRow
  <2>2. CASE ~Expired(i)
    <3>1. jobAttempts'[i] = jobAttempts[i]
      BY <1>8, <2>2 DEF PruneExpired
    <3> QED
      BY <1>0, <1>8, <2>2, <3>1, PrunedRow DEF OK
  <2> QED
    BY <2>1, <2>2
<1> QED
  BY StepCases, <1>1, <1>2, <1>3, <1>4, <1>5, <1>6, <1>7, <1>8

-----------------------------------------------------------------------------
(* What the rows of the three tables say about each other *)

ConversationKept(c) ==
  /\ conversations'[c].owner = conversations[c].owner
  /\ conversations'[c].repository = conversations[c].repository

JobKept(j) ==
  /\ JobExists(j)' <=> JobExists(j)
  /\ jobs'[j].owner = jobs[j].owner
  /\ jobs'[j].conversation = jobs[j].conversation
  /\ jobs'[j].kind = jobs[j].kind
  /\ jobs'[j].createdAt = jobs[j].createdAt

\* A step that neither inserts nor deletes a row.
Keeps ==
  /\ \A j \in JobIds : JobKept(j)
  /\ \A c \in ConversationIds : ConversationKept(c)
  /\ idempotency' = idempotency

\* A submission as the references between the tables see it.
Submits(j, o, k, c, kind) ==
  /\ idempotency[<<o, k>>] = NoJob
  /\ InsertJob(j, o, k, c, kind)
  /\ conversations[c].owner \in {o, NoOwner}
  /\ conversations'[c].owner = o
  /\ conversations'[c].repository = NoRepository <=> kind = "inference.turn"
  /\ conversations[c].owner = o => ConversationKept(c)
  /\ \A d \in ConversationIds \ {c} : ConversationKept(d)

\* What the gateway may do to keys and conversations: keep them, create a
\* conversation, insert a job, or sweep.
LEMMA ReferenceCases ==
  ASSUME StoreTypeOK, [GatewayNext]_storeVars
  PROVE  \/ Keeps
         \/ \E c \in ConversationIds, o \in Owners, r \in Repositories :
              CreateConversation(c, o, r)
         \/ \E j \in JobIds, o \in Owners, k \in Keys, c \in ConversationIds,
               kind \in JobKind : Submits(j, o, k, c, kind)
         \/ PruneExpired
<1>0. conversations \in [ConversationIds -> ConversationRow]
  BY DEF StoreTypeOK
<1>1. CASE Submit
  <2>1. PICK o \in Owners, c \in ConversationIds :
          \/ \E r \in Repositories : CreateConversation(c, o, r)
          \/ \E j \in JobIds, k \in Keys :
               \/ SubmitTurn(j, o, k, c)
               \/ \E r \in Repositories : SubmitRun(j, o, k, c, r)
               \/ SubmitInference(j, o, k, c)
    BY <1>1 DEF Submit
  <2>2. ASSUME NEW j \in JobIds, NEW k \in Keys, SubmitTurn(j, o, k, c)
        PROVE  Submits(j, o, k, c, "coding.turn")
    <3>1. /\ conversations'[c].owner = conversations[c].owner
          /\ conversations'[c].repository = conversations[c].repository
          /\ \A d \in ConversationIds \ {c} : conversations'[d] = conversations[d]
      BY <1>0, <2>2 DEF SubmitTurn, ConversationRow
    <3> QED
      BY <2>2, <3>1 DEF SubmitTurn, Submits, ConversationKept
  <2>3. ASSUME NEW j \in JobIds, NEW k \in Keys, NEW r \in Repositories \cup {NoRepository},
               NEW kind \in JobKind, r = NoRepository <=> kind = "inference.turn",
               InsertRun(j, o, k, c, r, kind)
        PROVE  Submits(j, o, k, c, kind)
    <3>1. /\ conversations[c].owner = NoOwner
          /\ conversations'[c].owner = o
          /\ conversations'[c].repository = r
          /\ \A d \in ConversationIds \ {c} : conversations'[d] = conversations[d]
      BY <1>0, <2>3 DEF InsertRun, FreshConversation, ConversationExists
    <3> QED
      BY <2>3, <3>1, NullsAssumption DEF InsertRun, Submits, ConversationKept
  <2>4. ASSUME NEW j \in JobIds, NEW k \in Keys, NEW r \in Repositories,
               SubmitRun(j, o, k, c, r)
        PROVE  Submits(j, o, k, c, "coding.turn")
    BY <2>3, <2>4, NullsAssumption DEF SubmitRun, JobKind
  <2>5. ASSUME NEW j \in JobIds, NEW k \in Keys, SubmitInference(j, o, k, c)
        PROVE  Submits(j, o, k, c, "inference.turn")
    BY <2>3, <2>5 DEF SubmitInference, JobKind
  <2> QED
    BY <2>1, <2>2, <2>4, <2>5 DEF JobKind
<1>2. ASSUME \/ \E j \in JobIds : ClaimNextJob(j)
             \/ \E j \in JobIds, status \in TerminalStatus, flag \in {0, 1} :
                  Ends(j, status, flag)
             \/ \E j \in JobIds : CancelQueued(j)
             \/ \E j \in JobIds : CancelRunning(j)
             \/ RecoverInterruptedJobs
      PROVE  Keeps
  <2>1. conversations' = conversations /\ idempotency' = idempotency
    BY <1>2 DEF ClaimNextJob, Ends, EndJob, CancelQueued, CancelRunning,
       RecoverInterruptedJobs
  <2>2. \A j \in JobIds : JobKept(j)
    BY <1>2, RowsKept DEF JobKept
  <2> QED
    BY <2>1, <2>2 DEF Keeps, ConversationKept
<1>3. ASSUME NEW j \in JobIds, NEW t \in Threads,
             UpdateBackendThread(jobs[j].conversation, t)
      PROVE  Keeps
  <2>1. jobs' = jobs /\ idempotency' = idempotency
    BY <1>3 DEF UpdateBackendThread
  <2>2. ASSUME NEW c \in ConversationIds PROVE ConversationKept(c)
    BY <1>0, <1>3, <2>2 DEF UpdateBackendThread, ConversationRow, ConversationKept
  <2> QED
    BY <2>1, <2>2 DEF Keeps, JobKept, JobExists
<1>4. ASSUME UNCHANGED <<conversations, jobs, idempotency>> PROVE Keeps
  BY <1>4 DEF Keeps, JobKept, JobExists, ConversationKept
<1>5. ASSUME NEW j \in JobIds, RunCall(j) PROVE Keeps
  <2>1. CASE AppendEvent(j)
    BY <1>4, <2>1 DEF AppendEvent
  <2>2. CASE \E t \in Threads : UpdateBackendThread(jobs[j].conversation, t)
    BY <1>3, <2>2
  <2>3. CASE CompleteJob(j) \/ FailJob(j) \/ MarkCancelled(j)
    <3>1. Ends(j, "completed", 0) \/ Ends(j, "failed", 0) \/ Ends(j, "cancelled", 1)
      BY <2>3 DEF CompleteJob, FailJob, MarkCancelled, FinalizeCancellation, Ends,
         TerminalEvent
    <3> QED
      BY <1>2, <3>1 DEF TerminalStatus
  <2> QED
    BY <1>5, <2>1, <2>2, <2>3 DEF RunCall
<1> QED
  BY <1>1, <1>2, <1>4, <1>5 DEF GatewayNext, RequestCancellation, Tick, tables, storeVars

\* No transaction leaves a job without its conversation.
LEMMA ConversationIntactStep ==
  ASSUME StoreTypeOK, StoreInv, [StoreNext]_storeVars
  PROVE  ConversationIntact'
<1>0. ConversationIntact
  BY DEF StoreInv
<1> SUFFICES ASSUME NEW i \in JobIds, JobExists(i)'
             PROVE  /\ jobs'[i].conversation \in ConversationIds
                    /\ conversations'[jobs'[i].conversation].owner = jobs'[i].owner
                    /\ jobs'[i].owner \in Owners
                    /\ (conversations'[jobs'[i].conversation].repository = NoRepository)
                         <=> (jobs'[i].kind = "inference.turn")
  BY DEF ConversationIntact
<1> DEFINE d == jobs[i].conversation
<1>1. ASSUME JobExists(i), JobKept(i), ConversationKept(d)
      PROVE  /\ jobs'[i].conversation = d /\ d \in ConversationIds
             /\ conversations'[d].owner = jobs'[i].owner
             /\ jobs'[i].owner \in Owners
             /\ (conversations'[d].repository = NoRepository)
                  <=> (jobs'[i].kind = "inference.turn")
  BY <1>0, <1>1 DEF ConversationIntact, JobKept, ConversationKept
<1>2. CASE Keeps
  <2>1. JobExists(i) /\ JobKept(i)
    BY <1>2 DEF Keeps, JobKept
  <2>2. d \in ConversationIds
    BY <1>0, <2>1 DEF ConversationIntact
  <2> QED
    BY <1>1, <1>2, <2>1, <2>2 DEF Keeps
<1>3. ASSUME NEW c \in ConversationIds, NEW o \in Owners, NEW r \in Repositories,
             CreateConversation(c, o, r)
      PROVE  /\ JobExists(i) /\ JobKept(i) /\ ConversationKept(d)
  <2>1. JobExists(i) /\ JobKept(i)
    BY <1>3 DEF CreateConversation, JobKept, JobExists
  <2>2. d # c /\ d \in ConversationIds
    BY <1>0, <1>3, <2>1, NullsAssumption
    DEF ConversationIntact, CreateConversation, FreshConversation, ConversationExists
  <2>3. conversations'[d] = conversations[d]
    BY <1>3, <2>2 DEF CreateConversation, StoreTypeOK
  <2> QED
    BY <2>1, <2>3 DEF ConversationKept
<1>4. ASSUME NEW j \in JobIds, NEW o \in Owners, NEW k \in Keys,
             NEW c \in ConversationIds, NEW kind \in JobKind, Submits(j, o, k, c, kind)
      PROVE  /\ jobs'[i].conversation \in ConversationIds
             /\ conversations'[jobs'[i].conversation].owner = jobs'[i].owner
             /\ jobs'[i].owner \in Owners
             /\ (conversations'[jobs'[i].conversation].repository = NoRepository)
                  <=> (jobs'[i].kind = "inference.turn")
  <2>1. CASE i = j
    <3>1. jobs'[i] = NewJob(o, c, kind)
      BY <1>4, <2>1 DEF Submits, InsertJob, StoreTypeOK
    <3> QED
      BY <1>4, <3>1 DEF Submits, NewJob
  <2>2. CASE i # j
    <3>1. jobs'[i] = jobs[i] /\ JobExists(i) /\ JobKept(i)
      BY <1>4, <2>2 DEF Submits, InsertJob, StoreTypeOK, JobKept, JobExists
    <3>2. /\ d \in ConversationIds
          /\ conversations[d].owner = jobs[i].owner /\ jobs[i].owner \in Owners
      BY <1>0, <3>1 DEF ConversationIntact
    <3>3. ConversationKept(d)
      BY <1>4, <3>2, NullsAssumption DEF Submits
    <3> QED
      BY <1>1, <3>1, <3>3
  <2> QED
    BY <2>1, <2>2
<1>5. ASSUME PruneExpired PROVE JobExists(i) /\ JobKept(i) /\ ConversationKept(d)
  <2> DEFINE gone == {j \in JobIds : Expired(j)}
  <2>1. jobs'[i] = jobs[i] /\ i \notin gone
    BY <1>5, PrunedRow DEF JobExists, NoJobRow
  <2>2. JobExists(i) /\ JobKept(i)
    BY <2>1 DEF JobExists, JobKept
  <2>3. d \in ConversationIds /\ ~Idle(d, gone)
    BY <1>0, <2>1, <2>2 DEF ConversationIntact, Idle
  <2>4. conversations'[d] = conversations[d]
    BY <1>5, <2>3 DEF PruneExpired
  <2> QED
    BY <2>2, <2>4 DEF ConversationKept
<1>6. ASSUME RotateKey PROVE JobExists(i) /\ JobKept(i) /\ ConversationKept(d)
  BY <1>6 DEF RotateKey, JobExists, JobKept, ConversationKept
<1>7. ASSUME JobExists(i), JobKept(i), ConversationKept(d)
      PROVE  /\ jobs'[i].conversation \in ConversationIds
             /\ conversations'[jobs'[i].conversation].owner = jobs'[i].owner
             /\ jobs'[i].owner \in Owners
             /\ (conversations'[jobs'[i].conversation].repository = NoRepository)
                  <=> (jobs'[i].kind = "inference.turn")
  BY <1>1, <1>7
<1>8. CASE [GatewayNext]_storeVars
  BY ReferenceCases, <1>2, <1>3, <1>4, <1>5, <1>7, <1>8
<1> QED
  BY <1>6, <1>7, <1>8 DEF StoreNext

\* The two halves of IdempotencyConsistent.
RecordAnswers(ok) ==
  idempotency[ok] # NoJob =>
    /\ JobExists(idempotency[ok])
    /\ jobs[idempotency[ok]].owner = ok[1]
    /\ \A other \in Owners \X Keys : idempotency[other] = idempotency[ok] => other = ok

YoungerHasKey(i, j) ==
  JobExists(j) /\ jobs[i].createdAt < jobs[j].createdAt /\ HasKey(i) => HasKey(j)

LEMMA KeysByHalves ==
  IdempotencyConsistent <=>
    /\ \A ok \in Owners \X Keys : RecordAnswers(ok)
    /\ \A i, j \in JobIds : YoungerHasKey(i, j)
BY DEF IdempotencyConsistent, RecordAnswers, YoungerHasKey

\* No transaction leaves a key that answers with no job, or a job with two keys.
LEMMA RecordAnswersStep ==
  ASSUME StoreTypeOK, \A ok \in Owners \X Keys : RecordAnswers(ok), [StoreNext]_storeVars,
         NEW ok \in Owners \X Keys
  PROVE  RecordAnswers(ok)'
<1> DEFINE i == idempotency'[ok]
<1> SUFFICES ASSUME i # NoJob
             PROVE  /\ jobs'[i].status # "absent" /\ jobs'[i].owner = ok[1]
                    /\ \A other \in Owners \X Keys : idempotency'[other] = i => other = ok
  BY DEF RecordAnswers, JobExists
<1>0. \A other \in Owners \X Keys : idempotency[other] \in JobIds \cup {NoJob}
  BY DEF StoreTypeOK
<1>1. CASE \/ Keeps
           \/ \E c \in ConversationIds, o \in Owners, r \in Repositories :
                CreateConversation(c, o, r)
  <2>1. idempotency' = idempotency /\ \A j \in JobIds : JobKept(j)
    BY <1>1 DEF Keeps, CreateConversation, JobKept, JobExists
  <2> QED
    BY <1>0, <2>1 DEF RecordAnswers, JobKept, JobExists
<1>2. ASSUME NEW j \in JobIds, NEW o \in Owners, NEW k \in Keys,
             NEW c \in ConversationIds, NEW kind \in JobKind, Submits(j, o, k, c, kind)
      PROVE  /\ jobs'[i].status # "absent" /\ jobs'[i].owner = ok[1]
             /\ \A other \in Owners \X Keys : idempotency'[other] = i => other = ok
  <2>1. /\ ~JobExists(j) /\ idempotency[<<o, k>>] = NoJob
        /\ idempotency' = [idempotency EXCEPT ![<<o, k>>] = j]
        /\ jobs'[j].owner = o /\ jobs'[j].status # "absent"
        /\ \A m \in JobIds \ {j} : jobs'[m] = jobs[m]
    BY <1>2 DEF Submits, InsertJob, FreshJob, JobExists, NewJob, StoreTypeOK
  <2>2. <<o, k>> \in Owners \X Keys /\ <<o, k>>[1] = o
    OBVIOUS
  <2>3. /\ idempotency'[<<o, k>>] = j
        /\ \A other \in Owners \X Keys :
             other # <<o, k>> => idempotency'[other] = idempotency[other]
    BY <2>1, <2>2 DEF StoreTypeOK
  <2>4. \A other \in Owners \X Keys : idempotency[other] # j
    BY <2>1, NullsAssumption DEF RecordAnswers
  <2>5. CASE ok = <<o, k>>
    BY <2>1, <2>2, <2>3, <2>4, <2>5
  <2>6. CASE ok # <<o, k>>
    <3>1. idempotency[ok] = i /\ i # j /\ i \in JobIds
      BY <1>0, <2>3, <2>4, <2>6
    <3>2. /\ jobs[i].status # "absent" /\ jobs[i].owner = ok[1]
          /\ \A other \in Owners \X Keys : idempotency[other] = i => other = ok
      BY <3>1 DEF RecordAnswers, JobExists
    <3> QED
      BY <2>1, <2>3, <3>1, <3>2
  <2> QED
    BY <2>5, <2>6
<1>3. CASE PruneExpired
  <2> DEFINE gone == {j \in JobIds : Expired(j)}
  <2>1. \A other \in Owners \X Keys :
          idempotency'[other] = IF idempotency[other] \in gone THEN NoJob ELSE idempotency[other]
    BY <1>3 DEF PruneExpired, DeleteRecords
  <2>2. idempotency[ok] = i /\ i \notin gone /\ i \in JobIds
    BY <1>0, <2>1
  <2>3. jobs'[i] = jobs[i]
    BY <1>3, <2>2, PrunedRow
  <2>4. \A other \in Owners \X Keys : idempotency'[other] = i => idempotency[other] = i
    BY <2>1
  <2> QED
    BY <2>2, <2>3, <2>4 DEF RecordAnswers, JobExists
<1>4. ~RotateKey
  BY DEF RotateKey
<1> QED
  BY ReferenceCases, <1>1, <1>2, <1>3, <1>4 DEF StoreNext

\* No transaction but the rotation takes the key of a job that stays.
LEMMA YoungerHasKeyStep ==
  ASSUME StoreTypeOK, RowsCoherent, \A i, j \in JobIds : YoungerHasKey(i, j),
         [StoreNext]_storeVars, NEW i \in JobIds, NEW j \in JobIds
  PROVE  YoungerHasKey(i, j)'
<1> SUFFICES ASSUME JobExists(j)', jobs'[i].createdAt < jobs'[j].createdAt,
                    NEW ok \in Owners \X Keys, idempotency'[ok] = i
             PROVE  \E other \in Owners \X Keys : idempotency'[other] = j
  BY DEF YoungerHasKey, HasKey
<1>0. i # NoJob /\ j # NoJob
  BY NullsAssumption
<1>1. CASE \/ Keeps
           \/ \E c \in ConversationIds, o \in Owners, r \in Repositories :
                CreateConversation(c, o, r)
  <2>1. idempotency' = idempotency /\ JobKept(i) /\ JobKept(j)
    BY <1>1 DEF Keeps, CreateConversation, JobKept, JobExists
  <2> QED
    BY <2>1 DEF YoungerHasKey, HasKey, JobKept
<1>2. ASSUME NEW m \in JobIds, NEW o \in Owners, NEW k \in Keys,
             NEW c \in ConversationIds, NEW kind \in JobKind, Submits(m, o, k, c, kind)
      PROVE  \E other \in Owners \X Keys : idempotency'[other] = j
  <2>1. /\ idempotency[<<o, k>>] = NoJob
        /\ idempotency' = [idempotency EXCEPT ![<<o, k>>] = m]
        /\ jobs'[m].createdAt = now
        /\ \A n \in JobIds \ {m} : jobs'[n] = jobs[n]
    BY <1>2 DEF Submits, InsertJob, NewJob, StoreTypeOK
  <2>2. <<o, k>> \in Owners \X Keys
    OBVIOUS
  <2>3. /\ idempotency'[<<o, k>>] = m
        /\ \A other \in Owners \X Keys :
             other # <<o, k>> => idempotency'[other] = idempotency[other]
    BY <2>1, <2>2 DEF StoreTypeOK
  <2>4. CASE j = m
    BY <2>2, <2>3, <2>4
  <2>5. CASE j # m
    <3>1. jobs'[j] = jobs[j] /\ JobExists(j)
      BY <2>1, <2>5 DEF JobExists
    <3>2. jobs[j].createdAt \in Int /\ now \in Int /\ jobs[j].createdAt <= now
      BY <3>1 DEF RowsCoherent, StoreTypeOK, Time
    <3>3. i # m
      BY <2>1, <3>1, <3>2
    <3>4. jobs'[i] = jobs[i] /\ idempotency[ok] = i
      BY <2>1, <2>3, <3>3
    <3>5. PICK other \in Owners \X Keys : idempotency[other] = j
      BY <3>1, <3>4 DEF YoungerHasKey, HasKey
    <3>6. other # <<o, k>>
      BY <1>0, <2>1, <3>5
    <3> QED
      BY <2>3, <3>5, <3>6
  <2> QED
    BY <2>4, <2>5
<1>3. CASE PruneExpired
  <2> DEFINE gone == {m \in JobIds : Expired(m)}
  <2>1. \A other \in Owners \X Keys :
          idempotency'[other] = IF idempotency[other] \in gone THEN NoJob ELSE idempotency[other]
    BY <1>3 DEF PruneExpired, DeleteRecords
  <2>2. idempotency[ok] = i /\ i \notin gone
    BY <1>0, <2>1
  <2>3. jobs'[i] = jobs[i]
    BY <1>3, <2>2, PrunedRow
  <2>4. jobs'[j] = jobs[j] /\ j \notin gone
    BY <1>3, PrunedRow DEF JobExists, NoJobRow
  <2>5. PICK other \in Owners \X Keys : idempotency[other] = j
    BY <2>2, <2>3, <2>4 DEF YoungerHasKey, HasKey, JobExists
  <2> QED
    BY <2>1, <2>4, <2>5
<1>4. ~RotateKey
  BY <1>0 DEF RotateKey
<1> QED
  BY ReferenceCases, <1>1, <1>2, <1>3, <1>4 DEF StoreNext

LEMMA IdempotencyConsistentStep ==
  ASSUME StoreTypeOK, StoreInv, [StoreNext]_storeVars
  PROVE  IdempotencyConsistent'
<1>1. RowsCoherent /\ IdempotencyConsistent
  BY DEF StoreInv
<1>2. /\ \A ok \in Owners \X Keys : RecordAnswers(ok)
      /\ \A i, j \in JobIds : YoungerHasKey(i, j)
  BY <1>1, KeysByHalves
<1>3. /\ \A ok \in Owners \X Keys : RecordAnswers(ok)'
      /\ \A i, j \in JobIds : YoungerHasKey(i, j)'
  BY <1>1, <1>2, RecordAnswersStep, YoungerHasKeyStep
<1> QED
  BY <1>3 DEF IdempotencyConsistent, RecordAnswers, YoungerHasKey

-----------------------------------------------------------------------------
(* The invariants *)

\* Empty tables say nothing wrong.
LEMMA StoreInitInv == StoreInit => StoreInv
<1> SUFFICES ASSUME StoreInit PROVE StoreInv
  OBVIOUS
<1>1. /\ \A j \in JobIds : jobs[j] = NoJobRow /\ jobAttempts[j] = NoAttempts
      /\ \A ok \in Owners \X Keys : idempotency[ok] = NoJob
  BY DEF StoreInit
<1>2. \A j \in JobIds : /\ jobs[j].status = "absent" /\ jobs[j].attempts = 0
                        /\ jobs[j].cancelRequested = 0
  BY <1>1 DEF NoJobRow
<1>3. RowsCoherent
  BY <1>1, <1>2 DEF RowsCoherent, JobExists, IsRunning, IsTerminal, TerminalStatus
<1>4. AttemptsMatch
  BY <1>1, <1>2, BlankHistory, AttemptsMatchByRow
<1>5. /\ OneRunningPerConversation /\ CancellationWins /\ ConversationIntact
      /\ ConversationOrder
  BY <1>2 DEF OneRunningPerConversation, CancellationWins, ConversationIntact,
     ConversationOrder, JobExists, IsRunning
<1>6. IdempotencyConsistent
  BY <1>1, <1>2 DEF IdempotencyConsistent, JobExists
<1> QED
  BY <1>3, <1>4, <1>5, <1>6 DEF StoreInv

\* Every transaction keeps it.
LEMMA StoreStepInv == StoreTypeOK /\ StoreInv /\ [StoreNext]_storeVars => StoreInv'
<1> SUFFICES ASSUME StoreTypeOK, StoreInv, [StoreNext]_storeVars PROVE StoreInv'
  OBVIOUS
<1>1. RowsCoherent
  BY DEF StoreInv
<1> QED
  BY <1>1, RowsCoherentStep, OneRunningPerConversationStep, AttemptsMatchStep,
     CancellationWinsStep, ConversationIntactStep, IdempotencyConsistentStep,
     ConversationOrderStep
  DEF StoreInv

\* What the tables say about each other holds in every reachable state: the
\* conjuncts need one another (the order of turns needs that a cancelled job is
\* never queued, the attempts need that a running job has one, ...), so they are
\* proved as one inductive invariant.
THEOREM StoreInvariant == StoreSpec => []StoreInv
BY StoreInitInv, StoreStepInv, StoreTypeCorrect, PTL DEF StoreSpec

\* Turns of one conversation are claimed strictly one at a time.
THEOREM ConversationExclusive == StoreSpec => []OneRunningPerConversation
<1>1. StoreInv => OneRunningPerConversation
  BY DEF StoreInv
<1> QED
  BY <1>1, StoreInvariant, PTL

\* The attempts of a job have no gap, one running row at most, and agree with it.
THEOREM AttemptsTruthful == StoreSpec => []AttemptsMatch
<1>1. StoreInv => AttemptsMatch
  BY DEF StoreInv
<1> QED
  BY <1>1, StoreInvariant, PTL

\* A cancellation that was accepted wins over completion, failure and restarts.
THEOREM CancellationFinal == StoreSpec => []CancellationWins
<1>1. StoreInv => CancellationWins
  BY DEF StoreInv
<1> QED
  BY <1>1, StoreInvariant, PTL

\* The rows keep telling the truth of each other: a job never loses its conversation,
\* or finds it another owner's, and has its times and its attempts.
THEOREM RowsStayTruthful == StoreSpec => []RowsTruthful
<1>1. StoreInv => RowsTruthful
  BY DEF StoreInv, RowsTruthful
<1> QED
  BY <1>1, StoreInvariant, PTL

\* A key answers for one job of its owner, and a job has its key if an older one has.
THEOREM KeysAnswer == StoreSpec => []IdempotencyConsistent
<1>1. StoreInv => IdempotencyConsistent
  BY DEF StoreInv
<1> QED
  BY <1>1, StoreInvariant, PTL

\* The turns of a conversation start in the order of their submission.
THEOREM TurnsInOrder == StoreSpec => []ConversationOrder
<1>1. StoreInv => ConversationOrder
  BY DEF StoreInv
<1> QED
  BY <1>1, StoreInvariant, PTL

-----------------------------------------------------------------------------
(* The queue *)

ActiveIds == {j \in JobIds : IsActive(j)}

\* Only a submission makes a job active, and that of one job.
LEMMA ActiveStep ==
  ASSUME StoreTypeOK, [StoreNext]_storeVars
  PROVE  \/ ActiveIds' \subseteq ActiveIds
         \/ \E j \in JobIds : HasQueueCapacity /\ ActiveIds' = ActiveIds \cup {j}
<1> USE DEF ActiveIds, IsActive, ActiveStatus
<1>1. CASE JobsUntouched
  BY <1>1 DEF JobsUntouched
<1>2. ASSUME NEW j \in JobIds, NEW o \in Owners, NEW c \in ConversationIds,
             NEW kind \in JobKind, Inserts(j, o, c, kind)
      PROVE  HasQueueCapacity /\ ActiveIds' = ActiveIds \cup {j}
  <2>1. /\ jobs'[j].status = "queued"
        /\ \A i \in JobIds \ {j} : jobs'[i] = jobs[i]
    BY <1>2 DEF Inserts, NewJob, StoreTypeOK
  <2> QED
    BY <1>2, <2>1 DEF Inserts
<1>3. CASE \E j \in JobIds : ClaimNextJob(j)
  BY <1>3, WrittenRows DEF Rewritten
<1>4. CASE \E j \in JobIds, status \in TerminalStatus, flag \in {0, 1} : Ends(j, status, flag)
  <2>1. PICK j \in JobIds, status \in TerminalStatus, flag \in {0, 1} : Ends(j, status, flag)
    BY <1>4
  <2>2. jobs[j].status = "running" /\ \A i \in JobIds \ {j} : jobs'[i] = jobs[i]
    BY <2>1, WrittenRows
  <2> QED
    BY <2>2
<1>5. CASE \E j \in JobIds : CancelQueued(j) \/ CancelRunning(j)
  BY <1>5, WrittenRows DEF Rewritten
<1>6. CASE RecoverInterruptedJobs
  BY <1>6, RecoveredRow
<1>7. CASE PruneExpired
  BY <1>7, PrunedRow DEF NoJobRow
<1> QED
  BY StepCases, <1>1, <1>2, <1>3, <1>4, <1>5, <1>6, <1>7

\* A set grows by one element at most.
LEMMA OneMore ==
  ASSUME NEW S, NEW x, IsFiniteSet(S)
  PROVE  Cardinality(S \cup {x}) \in Nat /\ Cardinality(S \cup {x}) <= Cardinality(S) + 1
<1>1. /\ IsFiniteSet(S \cup {x})
      /\ Cardinality(S \cup {x}) = IF x \in S THEN Cardinality(S) ELSE Cardinality(S) + 1
  BY FS_AddElement
<1>2. Cardinality(S) \in Nat /\ Cardinality(S \cup {x}) \in Nat
  BY <1>1, FS_CardinalityType
<1> QED
  BY <1>1, <1>2

\* The queue is bounded, in whatever order jobs are submitted, claimed, ended,
\* requeued and swept.
THEOREM QueueIsBounded == StoreSpec => []QueueBounded
<1> USE DEF ActiveIds
<1>1. StoreInit => QueueBounded
  <2> SUFFICES ASSUME StoreInit PROVE QueueBounded
    OBVIOUS
  <2>1. ActiveIds = {}
    BY DEF StoreInit, NoJobRow, IsActive, ActiveStatus
  <2> QED
    BY <2>1, FS_EmptySet, LimitsAssumption DEF QueueBounded
<1>2. StoreTypeOK /\ QueueBounded /\ [StoreNext]_storeVars => QueueBounded'
  <2> SUFFICES ASSUME StoreTypeOK, QueueBounded, [StoreNext]_storeVars
               PROVE  QueueBounded'
    OBVIOUS
  <2>1. IsFiniteSet(ActiveIds) /\ Cardinality(ActiveIds) \in Nat
    BY FS_Subset, FS_CardinalityType, LimitsAssumption
  <2>2. Cardinality(ActiveIds) <= MaxQueuedJobs
    BY DEF QueueBounded
  <2>3. CASE ActiveIds' \subseteq ActiveIds
    <3>1. Cardinality(ActiveIds') <= Cardinality(ActiveIds) /\ IsFiniteSet(ActiveIds')
      BY <2>1, <2>3, FS_Subset
    <3>2. Cardinality(ActiveIds') \in Nat
      BY <3>1, FS_CardinalityType
    <3>3. Cardinality(ActiveIds') <= MaxQueuedJobs
      BY <2>1, <2>2, <3>1, <3>2, LimitsAssumption
    <3> QED
      BY <3>3 DEF QueueBounded
  <2>4. ASSUME NEW j \in JobIds, HasQueueCapacity, ActiveIds' = ActiveIds \cup {j}
        PROVE  QueueBounded'
    <3>1. Cardinality(ActiveIds) < MaxQueuedJobs
      BY <2>4 DEF HasQueueCapacity
    <3>2. Cardinality(ActiveIds') <= Cardinality(ActiveIds) + 1
          /\ Cardinality(ActiveIds') \in Nat
      BY <2>1, <2>4, OneMore
    <3>3. Cardinality(ActiveIds') <= MaxQueuedJobs
      BY <2>1, <3>1, <3>2, LimitsAssumption
    <3> QED
      BY <3>3 DEF QueueBounded
  <2> QED
    BY <2>3, <2>4, ActiveStep
<1> QED
  BY <1>1, <1>2, StoreTypeCorrect, PTL DEF StoreSpec

-----------------------------------------------------------------------------
(* What a step may never do *)

\* What is appended to a log leaves what was in it as it was.
LEMMA AppendExtends ==
  ASSUME NEW log \in Seq(EventType), NEW e \in EventType
  PROVE  /\ Len(log) <= Len(Append(log, e))
         /\ SubSeq(Append(log, e), 1, Len(log)) = log
  OBVIOUS

\* A conversation goes in a sweep or not at all.
LEMMA ConversationGoes ==
  ASSUME StoreTypeOK, [StoreNext]_storeVars, NEW c \in ConversationIds,
         ConversationExists(c), ~ConversationExists(c)'
  PROVE  PruneExpired
<1> USE DEF ConversationExists
<1>1. ~Keeps
  BY DEF Keeps, ConversationKept
<1>2. ASSUME NEW d \in ConversationIds, NEW o \in Owners, NEW r \in Repositories,
             CreateConversation(d, o, r)
      PROVE  FALSE
  BY <1>2, NullsAssumption DEF CreateConversation, StoreTypeOK
<1>3. ASSUME NEW j \in JobIds, NEW o \in Owners, NEW k \in Keys,
             NEW d \in ConversationIds, NEW kind \in JobKind, Submits(j, o, k, d, kind)
      PROVE  FALSE
  BY <1>3, NullsAssumption DEF Submits, ConversationKept
<1>4. ~RotateKey
  BY DEF RotateKey
<1> QED
  BY ReferenceCases, <1>1, <1>2, <1>3, <1>4 DEF StoreNext

\* A job goes in a sweep or not at all.
LEMMA JobGoes ==
  ASSUME StoreTypeOK, [StoreNext]_storeVars, NEW j \in JobIds,
         JobExists(j), ~JobExists(j)'
  PROVE  PruneExpired /\ Expired(j)
<1> USE DEF JobExists
<1>1. ~JobsUntouched
  BY DEF JobsUntouched
<1>2. ASSUME NEW i \in JobIds, NEW o \in Owners, NEW c \in ConversationIds,
             NEW kind \in JobKind, Inserts(i, o, c, kind)
      PROVE  FALSE
  BY <1>2 DEF Inserts, NewJob, StoreTypeOK
<1>3. CASE PruneExpired
  BY <1>3, PrunedRow
<1> QED
  BY StepCases, RowsKept, <1>1, <1>2, <1>3

\* The sweep takes a job only when it has been over for the retention window, and
\* a conversation only with the last of its jobs.
THEOREM SweepSparesRecent == StoreSpec => PruneSparesRecent
<1> DEFINE Spares ==
      /\ \A j \in JobIds : JobExists(j) /\ ~JobExists(j)' =>
           IsTerminal(j) /\ jobs[j].completedAt + RetentionPeriod < now
      /\ \A c \in ConversationIds : ConversationExists(c) /\ ~ConversationExists(c)' =>
           \A j \in JobIds : jobs'[j].conversation # c
<1>1. StoreTypeOK /\ StoreInv /\ [StoreNext]_storeVars => Spares
  <2> SUFFICES ASSUME StoreTypeOK, StoreInv, [StoreNext]_storeVars PROVE Spares
    OBVIOUS
  <2>1. ASSUME NEW j \in JobIds, JobExists(j), ~JobExists(j)'
        PROVE  IsTerminal(j) /\ jobs[j].completedAt + RetentionPeriod < now
    <3>1. Expired(j) /\ IsTerminal(j)
      BY <2>1, JobGoes DEF Expired
    <3>2. jobs[j].completedAt \in Time /\ Time \subseteq Int /\ NoTime \notin Time
      BY <3>1, LimitsAssumption DEF StoreInv, RowsCoherent, Time, NoTime
    <3>3. jobs[j].completedAt < now - RetentionPeriod
      BY <3>1, <3>2 DEF Expired
    <3>4. now \in Int /\ RetentionPeriod \in Int /\ jobs[j].completedAt \in Int
      <4>1. now \in Time
        BY DEF StoreTypeOK
      <4>2. now \in Int /\ jobs[j].completedAt \in Int
        BY <3>2, <4>1
      <4>3. RetentionPeriod \in Int
        BY LimitsAssumption
      <4> QED
        BY <4>2, <4>3
    <3> QED
      BY <3>1, <3>3, <3>4
  <2>2. ASSUME NEW c \in ConversationIds, ConversationExists(c), ~ConversationExists(c)',
               NEW j \in JobIds
        PROVE  jobs'[j].conversation # c
    <3> DEFINE gone == {i \in JobIds : Expired(i)}
    <3>1. PruneExpired
      BY <2>2, ConversationGoes
    <3>2. Idle(c, gone)
      BY <2>2, <3>1 DEF PruneExpired, ConversationExists
    <3>3. CASE j \in gone
      <4>1. jobs'[j] = NoJobRow
        BY <3>1, <3>3, PrunedRow
      <4> QED
        BY <4>1, NullsAssumption DEF NoJobRow
    <3>4. CASE j \notin gone
      <4>1. jobs'[j] = jobs[j]
        BY <3>1, <3>4, PrunedRow
      <4> QED
        BY <3>2, <3>4, <4>1 DEF Idle
    <3> QED
      BY <3>3, <3>4
  <2> QED
    BY <2>1, <2>2
<1> QED
  BY <1>1, StoreTypeCorrect, StoreInvariant, PTL DEF StoreSpec, PruneSparesRecent

\* What a step leaves of the history of one job.
StaysFinal(j) ==
  /\ IsTerminal(j) => jobs'[j] = jobs[j]
  /\ Len(jobEvents[j]) <= Len(jobEvents'[j])
  /\ SubSeq(jobEvents'[j], 1, Len(jobEvents[j])) = jobEvents[j]
  /\ \A n \in AttemptNumber :
       jobAttempts[j][n] \in AttemptStatus \ {"running"} =>
         jobAttempts'[j][n] = jobAttempts[j][n]

\* A log is left alone or grows by one event.
LogGrows(j) ==
  \/ jobEvents'[j] = jobEvents[j]
  \/ \E e \in EventType : jobEvents'[j] = Append(jobEvents[j], e)

\* The attempts of a job are left alone, settled, or grow by one.
AttemptsGrow(j) ==
  \/ jobAttempts'[j] = jobAttempts[j]
  \/ \E s \in TerminalStatus : jobAttempts'[j] = Settle(jobAttempts[j], s)
  \/ \E n \in AttemptNumber :
       /\ jobAttempts[j][n] = "absent"
       /\ jobAttempts'[j] = [jobAttempts[j] EXCEPT ![n] = "running"]

\* Growing is all HistoryIsFinal allows.
LEMMA GrowthIsFinal ==
  ASSUME StoreTypeOK, NEW j \in JobIds, LogGrows(j), AttemptsGrow(j),
         IsTerminal(j) => jobs'[j] = jobs[j]
  PROVE  StaysFinal(j)
<1>1. jobEvents[j] \in Seq(EventType)
  BY DEF StoreTypeOK
<1>2. /\ Len(jobEvents[j]) <= Len(jobEvents'[j])
      /\ SubSeq(jobEvents'[j], 1, Len(jobEvents[j])) = jobEvents[j]
  <2>1. CASE jobEvents'[j] = jobEvents[j]
    BY <1>1, <2>1
  <2>2. ASSUME NEW e \in EventType, jobEvents'[j] = Append(jobEvents[j], e)
        PROVE  /\ Len(jobEvents[j]) <= Len(jobEvents'[j])
               /\ SubSeq(jobEvents'[j], 1, Len(jobEvents[j])) = jobEvents[j]
    BY <1>1, <2>2, AppendExtends
  <2> QED
    BY <2>1, <2>2 DEF LogGrows
<1>3. jobAttempts[j] \in [AttemptNumber -> {"absent"} \cup AttemptStatus]
  BY DEF StoreTypeOK
<1>4. ASSUME NEW n \in AttemptNumber, jobAttempts[j][n] \in AttemptStatus \ {"running"}
      PROVE  jobAttempts'[j][n] = jobAttempts[j][n]
  <2>1. jobAttempts[j][n] # "absent" /\ jobAttempts[j][n] # "running"
    BY <1>4 DEF AttemptStatus
  <2> QED
    BY <1>3, <2>1 DEF AttemptsGrow, Settle
<1> QED
  BY <1>2, <1>4 DEF StaysFinal

\* No transaction rewrites a log or a settled attempt.
LEMMA JobsGrow ==
  ASSUME StoreTypeOK, [StoreNext]_storeVars, NEW j \in JobIds,
         JobExists(j), JobExists(j)'
  PROVE  LogGrows(j) /\ AttemptsGrow(j)
<1>0. /\ jobEvents \in [JobIds -> Seq(EventType)]
      /\ jobAttempts \in [JobIds -> [AttemptNumber -> {"absent"} \cup AttemptStatus]]
  BY DEF StoreTypeOK
<1>1. ASSUME UNCHANGED <<jobEvents, jobAttempts>> PROVE LogGrows(j) /\ AttemptsGrow(j)
  BY <1>1 DEF LogGrows, AttemptsGrow
<1>2. ASSUME NEW i \in JobIds, NEW o \in Owners, NEW k \in Keys,
             NEW c \in ConversationIds, NEW kind \in JobKind, InsertJob(i, o, k, c, kind)
      PROVE  LogGrows(j) /\ AttemptsGrow(j)
  <2>1. j # i
    BY <1>2 DEF InsertJob, FreshJob
  <2>2. jobEvents'[j] = jobEvents[j] /\ jobAttempts'[j] = jobAttempts[j]
    BY <1>0, <1>2, <2>1 DEF InsertJob
  <2> QED
    BY <2>2 DEF LogGrows, AttemptsGrow
<1>3. CASE Submit
  <2>1. PICK o \in Owners, c \in ConversationIds :
          \/ \E r \in Repositories : CreateConversation(c, o, r)
          \/ \E i \in JobIds, k \in Keys :
               \/ SubmitTurn(i, o, k, c)
               \/ \E r \in Repositories : SubmitRun(i, o, k, c, r)
               \/ SubmitInference(i, o, k, c)
    BY <1>3 DEF Submit
  <2>2. CASE \E r \in Repositories : CreateConversation(c, o, r)
    BY <1>1, <2>2 DEF CreateConversation
  <2>3. ASSUME NEW i \in JobIds, NEW k \in Keys,
               \/ SubmitTurn(i, o, k, c)
               \/ \E r \in Repositories : SubmitRun(i, o, k, c, r)
               \/ SubmitInference(i, o, k, c)
        PROVE  LogGrows(j) /\ AttemptsGrow(j)
    <3>1. InsertJob(i, o, k, c, "coding.turn") \/ InsertJob(i, o, k, c, "inference.turn")
      BY <2>3 DEF SubmitTurn, SubmitRun, SubmitInference, InsertRun
    <3> QED
      BY <1>2, <3>1 DEF JobKind
  <2> QED
    BY <2>1, <2>2, <2>3
<1>4. ASSUME NEW i \in JobIds, ClaimNextJob(i) PROVE LogGrows(j) /\ AttemptsGrow(j)
  <2>1. LogGrows(j)
    BY <1>0, <1>4 DEF ClaimNextJob, LogGrows, EventType
  <2>2. AttemptsGrow(j)
    BY <1>0, <1>4 DEF ClaimNextJob, AttemptsGrow
  <2> QED
    BY <2>1, <2>2
<1>5. ASSUME NEW i \in JobIds, NEW status \in TerminalStatus, NEW event \in TerminalEvent,
             NEW flag, EndJob(i, status, event, flag)
      PROVE  LogGrows(j) /\ AttemptsGrow(j)
  <2>1. LogGrows(j)
    BY <1>0, <1>5 DEF EndJob, LogGrows, EventType
  <2>2. AttemptsGrow(j)
    BY <1>0, <1>5 DEF EndJob, AttemptsGrow
  <2> QED
    BY <2>1, <2>2
<1>6. ASSUME NEW i \in JobIds, RunCall(i) PROVE LogGrows(j) /\ AttemptsGrow(j)
  <2>1. CASE AppendEvent(i)
    BY <1>0, <2>1 DEF AppendEvent, LogGrows, AttemptsGrow, EventType
  <2>2. CASE \E t \in Threads : UpdateBackendThread(jobs[i].conversation, t)
    BY <1>1, <2>2 DEF UpdateBackendThread
  <2>3. CASE CompleteJob(i) \/ FailJob(i) \/ MarkCancelled(i)
    BY <1>5, <2>3 DEF CompleteJob, FailJob, MarkCancelled, FinalizeCancellation,
       TerminalStatus, TerminalEvent
  <2> QED
    BY <1>6, <2>1, <2>2, <2>3 DEF RunCall
<1>7. ASSUME NEW i \in JobIds, RequestCancellation(i) PROVE LogGrows(j) /\ AttemptsGrow(j)
  <2>1. CASE CancelQueued(i)
    BY <1>0, <2>1 DEF CancelQueued, LogGrows, AttemptsGrow, EventType, TerminalEvent
  <2>2. CASE CancelRunning(i)
    BY <1>1, <2>2 DEF CancelRunning
  <2> QED
    BY <1>7, <2>1, <2>2 DEF RequestCancellation
<1>8. CASE RecoverInterruptedJobs
  <2>1. LogGrows(j)
    BY <1>0, <1>8 DEF RecoverInterruptedJobs, LogGrows, EventType, TerminalEvent
  <2>2. AttemptsGrow(j)
    BY <1>0, <1>8 DEF RecoverInterruptedJobs, AttemptsGrow, TerminalStatus
  <2> QED
    BY <2>1, <2>2
<1>9. CASE PruneExpired
  <2>1. ~Expired(j)
    BY <1>9, PrunedRow DEF JobExists, NoJobRow
  <2> QED
    BY <1>9, <2>1 DEF PruneExpired, LogGrows, AttemptsGrow
<1> QED
  BY <1>1, <1>3, <1>4, <1>6, <1>7, <1>8, <1>9
  DEF StoreNext, GatewayNext, Tick, RotateKey, tables, storeVars

\* No UPDATE matches a row that is terminal.
LEMMA TerminalRowsStay ==
  ASSUME StoreTypeOK, [StoreNext]_storeVars, NEW j \in JobIds, IsTerminal(j), JobExists(j)'
  PROVE  jobs'[j] = jobs[j]
<1> USE DEF IsTerminal, TerminalStatus, JobExists
<1>1. CASE JobsUntouched
  BY <1>1 DEF JobsUntouched
<1>2. ASSUME NEW i \in JobIds, NEW o \in Owners, NEW c \in ConversationIds,
             NEW kind \in JobKind, Inserts(i, o, c, kind)
      PROVE  jobs'[j] = jobs[j]
  BY <1>2 DEF Inserts, FreshJob, StoreTypeOK
<1>3. ASSUME NEW i \in JobIds, ClaimNextJob(i) PROVE jobs'[j] = jobs[j]
  BY <1>3, WrittenRows
<1>4. ASSUME NEW i \in JobIds, NEW status \in TerminalStatus, NEW flag \in {0, 1},
             Ends(i, status, flag)
      PROVE  jobs'[j] = jobs[j]
  BY <1>4, WrittenRows
<1>5. ASSUME NEW i \in JobIds, CancelQueued(i) \/ CancelRunning(i) PROVE jobs'[j] = jobs[j]
  BY <1>5, WrittenRows
<1>6. CASE RecoverInterruptedJobs
  BY <1>6, RecoveredRow
<1>7. CASE PruneExpired
  BY <1>7, PrunedRow DEF NoJobRow
<1> QED
  BY StepCases, <1>1, <1>2, <1>3, <1>4, <1>5, <1>6, <1>7

\* History is append-only: a job that is over, an event that was written and an
\* attempt that was settled stay as they are until the sweep takes the job.
THEOREM HistoryStaysFinal == StoreSpec => HistoryIsFinal
<1> DEFINE AllFinal == \A j \in JobIds : JobExists(j) /\ JobExists(j)' =>
                         StaysFinal(j)
<1>1. StoreTypeOK /\ [StoreNext]_storeVars => AllFinal
  <2> SUFFICES ASSUME StoreTypeOK, [StoreNext]_storeVars, NEW j \in JobIds,
                      JobExists(j), JobExists(j)'
               PROVE  StaysFinal(j)
    OBVIOUS
  <2> QED
    BY JobsGrow, TerminalRowsStay, GrowthIsFinal
<1> QED
  BY <1>1, StoreTypeCorrect, PTL DEF StoreSpec, HistoryIsFinal, StaysFinal

-----------------------------------------------------------------------------
(* The event log tells what became of the job *)

Started(log) == {i \in DOMAIN log : log[i] = "job.started"}

LogTells(log, status, attempts) ==
  /\ status = "absent" <=> log = <<>>
  /\ \A i \in DOMAIN log :
       /\ log[i] = "job.queued" <=> i = 1
       /\ log[i] \in TerminalEvent => i = Len(log)
  /\ Cardinality(Started(log)) = attempts
  /\ status \in TerminalStatus <=> log # <<>> /\ log[Len(log)] \in TerminalEvent
  /\ status \in TerminalStatus => log[Len(log)] = EventOfStatus[status]

LEMMA EventLogByRow ==
  EventLogMatches <=>
    \A j \in JobIds : LogTells(jobEvents[j], jobs[j].status, jobs[j].attempts)
BY DEF EventLogMatches, LogTells, Started, JobExists, IsTerminal

\* One event more.
LEMMA Appended ==
  ASSUME NEW log \in Seq(EventType), NEW e \in EventType
  PROVE  LET longer == Append(log, e) IN
         /\ longer # <<>> /\ Len(log) \in Nat /\ Len(longer) = Len(log) + 1
         /\ DOMAIN log = 1 .. Len(log) /\ DOMAIN longer = 1 .. Len(log) + 1
         /\ \A i \in 1 .. Len(log) : longer[i] = log[i]
         /\ longer[Len(log) + 1] = e
  OBVIOUS

\* The events of one kind are counted one by one.
LEMMA StartedCounted ==
  ASSUME NEW log \in Seq(EventType), NEW e \in EventType
  PROVE  /\ Cardinality(Started(log)) \in Nat
         /\ Cardinality(Started(Append(log, e))) =
              IF e = "job.started" THEN Cardinality(Started(log)) + 1
              ELSE Cardinality(Started(log))
<1> DEFINE longer == Append(log, e)
<1>1. /\ Len(log) \in Nat
      /\ DOMAIN log = 1 .. Len(log) /\ DOMAIN longer = 1 .. Len(log) + 1
      /\ \A i \in 1 .. Len(log) : longer[i] = log[i]
      /\ longer[Len(log) + 1] = e
  BY Appended
<1>2. IsFiniteSet(Started(log))
  <2>1. Started(log) \subseteq 1 .. Len(log) /\ IsFiniteSet(1 .. Len(log))
    BY <1>1, FS_Interval DEF Started
  <2> QED
    BY <2>1, FS_Subset
<1> HIDE DEF longer
<1>3. Started(longer) = IF e = "job.started" THEN Started(log) \cup {Len(log) + 1} ELSE Started(log)
  BY <1>1 DEF Started
<1>4. Len(log) + 1 \notin Started(log)
  BY <1>1 DEF Started
<1>5. Cardinality(Started(log) \cup {Len(log) + 1}) = Cardinality(Started(log)) + 1
  BY <1>2, <1>4, FS_AddElement
<1>6. Cardinality(Started(log)) \in Nat
  BY <1>2, FS_CardinalityType
<1> QED
  BY <1>3, <1>5, <1>6 DEF longer

\* A log that is open goes on: by a claim, a delta, or the end of the job.
LEMMA LogGoesOn ==
  ASSUME NEW log \in Seq(EventType), NEW e \in EventType \ {"job.queued"},
         NEW before \in ActiveStatus, NEW after \in ActiveStatus \cup TerminalStatus,
         NEW attempts \in Nat, NEW more \in Nat,
         LogTells(log, before, attempts),
         more = IF e = "job.started" THEN attempts + 1 ELSE attempts,
         e \in TerminalEvent <=> after \in TerminalStatus,
         after \in TerminalStatus => e = EventOfStatus[after]
  PROVE  LogTells(Append(log, e), after, more)
<1> DEFINE longer == Append(log, e)
<1>1. /\ longer # <<>> /\ Len(log) \in Nat /\ Len(longer) = Len(log) + 1
      /\ DOMAIN log = 1 .. Len(log) /\ DOMAIN longer = 1 .. Len(log) + 1
      /\ \A i \in 1 .. Len(log) : longer[i] = log[i]
      /\ longer[Len(log) + 1] = e
  BY Appended
<1>2. log # <<>> /\ log[Len(log)] \notin TerminalEvent /\ Len(log) > 0
  <2>1. log # <<>> /\ log[Len(log)] \notin TerminalEvent
    BY DEF LogTells, ActiveStatus, TerminalStatus
  <2> QED
    BY <1>1, <2>1
<1>3. Cardinality(Started(longer)) = more
  BY StartedCounted DEF LogTells
<1> HIDE DEF longer
<1>4. \A i \in DOMAIN longer :
        /\ longer[i] = "job.queued" <=> i = 1
        /\ longer[i] \in TerminalEvent => i = Len(longer)
  BY <1>1, <1>2 DEF LogTells
<1>5. after # "absent"
  BY DEF ActiveStatus, TerminalStatus
<1>6. LogTells(longer, after, more)
  BY <1>1, <1>3, <1>4, <1>5 DEF LogTells
<1> QED
  BY <1>6 DEF longer

\* A log is opened.
LEMMA LogOpens == LogTells(Append(<<>>, "job.queued"), "queued", 0)
<1>1. /\ DOMAIN Append(<<>>, "job.queued") = {1} /\ Append(<<>>, "job.queued")[1] = "job.queued"
      /\ Len(Append(<<>>, "job.queued")) = 1 /\ Append(<<>>, "job.queued") # <<>>
  OBVIOUS
<1>2. Cardinality(Started(Append(<<>>, "job.queued"))) = 0
  BY <1>1, FS_EmptySet DEF Started
<1> QED
  BY <1>1, <1>2 DEF LogTells, TerminalEvent, TerminalStatus

LEMMA LogEmpty == LogTells(<<>>, "absent", 0)
<1>1. DOMAIN <<>> = {}
  OBVIOUS
<1>2. Cardinality(Started(<<>>)) = 0
  BY <1>1, FS_EmptySet DEF Started
<1> QED
  BY <1>1, <1>2 DEF LogTells, TerminalStatus

\* A transaction writes the event that belongs to what it does to the row.
LEMMA EventLogStep ==
  ASSUME StoreTypeOK, RowsCoherent, EventLogMatches, [StoreNext]_storeVars, NEW j \in JobIds
  PROVE  LogTells(jobEvents'[j], jobs'[j].status, jobs'[j].attempts)
<1> DEFINE Told == LogTells(jobEvents'[j], jobs'[j].status, jobs'[j].attempts)
<1>0. /\ jobEvents \in [JobIds -> Seq(EventType)]
      /\ jobs[j].attempts \in Nat
      /\ jobs \in [JobIds -> JobRow]
      /\ LogTells(jobEvents[j], jobs[j].status, jobs[j].attempts)
  BY EventLogByRow DEF StoreTypeOK, JobRow
<1>1. ASSUME jobEvents'[j] = jobEvents[j], jobs'[j] = jobs[j] PROVE Told
  BY <1>0, <1>1
<1>2. ASSUME jobEvents'[j] = jobEvents[j], jobs'[j].attempts = jobs[j].attempts,
             jobs[j].status \in ActiveStatus, jobs'[j].status \in ActiveStatus
      PROVE  Told
  BY <1>0, <1>2 DEF LogTells, ActiveStatus, TerminalStatus
<1>3. ASSUME jobs[j].status \in ActiveStatus, NEW status \in TerminalStatus,
             jobEvents'[j] = Append(jobEvents[j], EventOfStatus[status]),
             jobs'[j].status = status, jobs'[j].attempts = jobs[j].attempts
      PROVE  Told
  <2>1. /\ EventOfStatus[status] \in EventType \ {"job.queued"}
        /\ EventOfStatus[status] \in TerminalEvent /\ EventOfStatus[status] # "job.started"
    BY DEF EventOfStatus, TerminalStatus, EventType, TerminalEvent
  <2> QED
    BY <1>0, <1>3, <2>1, LogGoesOn
<1>4. ASSUME NEW i \in JobIds, NEW o \in Owners, NEW k \in Keys, NEW c \in ConversationIds,
             NEW kind \in JobKind, InsertJob(i, o, k, c, kind)
      PROVE  Told
  <2>1. CASE i = j
    <3>1. ~JobExists(j)
      BY <1>4, <2>1 DEF InsertJob, FreshJob
    <3>2. jobEvents[j] = <<>>
      BY <1>0, <3>1 DEF LogTells, JobExists
    <3>3. jobEvents'[j] = Append(<<>>, "job.queued")
      BY <1>0, <1>4, <2>1, <3>2 DEF InsertJob
    <3>4. jobs'[j].status = "queued" /\ jobs'[j].attempts = 0
      BY <1>0, <1>4, <2>1 DEF InsertJob, NewJob
    <3> QED
      BY <3>3, <3>4, LogOpens
  <2>2. CASE i # j
    BY <1>0, <1>1, <1>4, <2>2 DEF InsertJob
  <2> QED
    BY <2>1, <2>2
<1>5. CASE Submit
  <2>1. PICK o \in Owners, c \in ConversationIds :
          \/ \E r \in Repositories : CreateConversation(c, o, r)
          \/ \E i \in JobIds, k \in Keys :
               \/ SubmitTurn(i, o, k, c)
               \/ \E r \in Repositories : SubmitRun(i, o, k, c, r)
               \/ SubmitInference(i, o, k, c)
    BY <1>5 DEF Submit
  <2>2. CASE \E r \in Repositories : CreateConversation(c, o, r)
    BY <1>1, <2>2 DEF CreateConversation
  <2>3. ASSUME NEW i \in JobIds, NEW k \in Keys,
               \/ SubmitTurn(i, o, k, c)
               \/ \E r \in Repositories : SubmitRun(i, o, k, c, r)
               \/ SubmitInference(i, o, k, c)
        PROVE  Told
    <3>1. InsertJob(i, o, k, c, "coding.turn") \/ InsertJob(i, o, k, c, "inference.turn")
      BY <2>3 DEF SubmitTurn, SubmitRun, SubmitInference, InsertRun
    <3> QED
      BY <1>4, <3>1 DEF JobKind
  <2> QED
    BY <2>1, <2>2, <2>3
<1>6. ASSUME NEW i \in JobIds, ClaimNextJob(i) PROVE Told
  <2>1. CASE i = j
    <3>1. /\ jobs[j].status = "queued" /\ jobs'[j].status = "running"
          /\ jobs'[j].attempts = jobs[j].attempts + 1
      BY <1>6, <2>1, WrittenRows DEF Rewritten
    <3>2. jobEvents'[j] = Append(jobEvents[j], "job.started")
      BY <1>0, <1>6, <2>1 DEF ClaimNextJob
    <3>3. /\ "job.started" \in EventType \ {"job.queued"} /\ "job.started" \notin TerminalEvent
          /\ jobs[j].status \in ActiveStatus /\ jobs'[j].status \in ActiveStatus
          /\ jobs'[j].status \notin TerminalStatus
      BY <3>1 DEF EventType, TerminalEvent, ActiveStatus, TerminalStatus
    <3> QED
      BY <1>0, <3>1, <3>2, <3>3, LogGoesOn
  <2>2. CASE i # j
    <3>1. jobEvents'[j] = jobEvents[j]
      BY <1>0, <1>6, <2>2 DEF ClaimNextJob
    <3> QED
      BY <1>1, <1>6, <2>2, <3>1, WrittenRows
  <2> QED
    BY <2>1, <2>2
<1>7. ASSUME NEW i \in JobIds, NEW status \in TerminalStatus, NEW flag, IsRunning(i),
             EndJob(i, status, EventOfStatus[status], flag)
      PROVE  Told
  <2>1. CASE i = j
    <3>1. jobEvents'[j] = Append(jobEvents[j], EventOfStatus[status])
      BY <1>0, <1>7, <2>1 DEF EndJob
    <3>2. jobs'[j].status = status /\ jobs'[j].attempts = jobs[j].attempts
      BY <1>0, <1>7, <2>1 DEF EndJob, JobRow
    <3> QED
      BY <1>3, <1>7, <2>1, <3>1, <3>2 DEF IsRunning, ActiveStatus
  <2>2. CASE i # j
    BY <1>0, <1>1, <1>7, <2>2 DEF EndJob
  <2> QED
    BY <2>1, <2>2
<1>8. ASSUME NEW i \in JobIds, RunCall(i) PROVE Told
  <2>0. IsRunning(i)
    BY <1>8 DEF RunCall
  <2>1. CASE AppendEvent(i)
    <3>1. CASE i = j
      <4>1. jobEvents'[j] = Append(jobEvents[j], "agent.message.delta") /\ UNCHANGED jobs
        BY <1>0, <2>1, <3>1 DEF AppendEvent
      <4>2. /\ "agent.message.delta" \in EventType \ {"job.queued"}
            /\ "agent.message.delta" \notin TerminalEvent
            /\ jobs[j].status \in ActiveStatus /\ jobs[j].status \notin TerminalStatus
        BY <2>0, <3>1 DEF EventType, TerminalEvent, IsRunning, ActiveStatus, TerminalStatus
      <4> QED
        BY <1>0, <4>1, <4>2, LogGoesOn
    <3>2. CASE i # j
      BY <1>0, <1>1, <2>1, <3>2 DEF AppendEvent
    <3> QED
      BY <3>1, <3>2
  <2>2. CASE \E t \in Threads : UpdateBackendThread(jobs[i].conversation, t)
    BY <1>1, <2>2 DEF UpdateBackendThread
  <2>3. CASE CompleteJob(i) \/ FailJob(i) \/ MarkCancelled(i)
    <3>1. \E status \in TerminalStatus, flag \in {0, 1} :
            EndJob(i, status, EventOfStatus[status], flag)
      BY <2>3 DEF CompleteJob, FailJob, MarkCancelled, FinalizeCancellation, TerminalStatus,
         EventOfStatus
    <3> QED
      BY <1>7, <2>0, <3>1
  <2> QED
    BY <1>8, <2>1, <2>2, <2>3 DEF RunCall
<1>9. ASSUME NEW i \in JobIds, RequestCancellation(i) PROVE Told
  <2>1. CASE CancelQueued(i)
    <3>1. CASE i = j
      <4>1. jobEvents'[j] = Append(jobEvents[j], EventOfStatus["cancelled"])
        BY <1>0, <2>1, <3>1 DEF CancelQueued, EventOfStatus
      <4>2. /\ jobs[j].status = "queued" /\ jobs'[j].status = "cancelled"
            /\ jobs'[j].attempts = jobs[j].attempts
        BY <2>1, <3>1, WrittenRows DEF Rewritten
      <4> QED
        BY <1>3, <4>1, <4>2 DEF ActiveStatus, TerminalStatus
    <3>2. CASE i # j
      BY <1>0, <1>1, <2>1, <3>2 DEF CancelQueued
    <3> QED
      BY <3>1, <3>2
  <2>2. CASE CancelRunning(i)
    <3>1. jobEvents'[j] = jobEvents[j]
      BY <2>2 DEF CancelRunning
    <3>2. \/ jobs'[j] = jobs[j]
          \/ /\ jobs[j].status = "running" /\ jobs'[j].status = "running"
             /\ jobs'[j].attempts = jobs[j].attempts
      BY <2>2, WrittenRows DEF Rewritten
    <3> QED
      BY <1>1, <1>2, <3>1, <3>2 DEF ActiveStatus
  <2> QED
    BY <1>9, <2>1, <2>2 DEF RequestCancellation
<1>10. CASE RecoverInterruptedJobs
  <2>1. CASE EndsCancelled(j)
    <3>1. jobEvents'[j] = Append(jobEvents[j], EventOfStatus["cancelled"])
      BY <1>10, <2>1 DEF RecoverInterruptedJobs, EventOfStatus
    <3>2. /\ jobs[j].status = "running" /\ jobs'[j].status = "cancelled"
          /\ jobs'[j].attempts = jobs[j].attempts
      BY <1>10, <2>1, RecoveredRow DEF Rewritten, EndsCancelled, IsRunning
    <3> QED
      BY <1>3, <3>1, <3>2 DEF ActiveStatus, TerminalStatus
  <2>2. CASE ~EndsCancelled(j)
    <3>1. jobEvents'[j] = jobEvents[j]
      BY <1>10, <2>2 DEF RecoverInterruptedJobs
    <3>2. \/ jobs'[j] = jobs[j]
          \/ /\ jobs[j].status = "running" /\ jobs'[j].status = "queued"
             /\ jobs'[j].attempts = jobs[j].attempts
      BY <1>10, <2>2, RecoveredRow DEF Rewritten, EndsCancelled, IsRunning
    <3> QED
      BY <1>1, <1>2, <3>1, <3>2 DEF ActiveStatus
  <2> QED
    BY <2>1, <2>2
<1>11. CASE PruneExpired
  <2>1. CASE Expired(j)
    <3>1. jobEvents'[j] = <<>> /\ jobs'[j] = NoJobRow
      BY <1>11, <2>1 DEF PruneExpired
    <3> QED
      BY <3>1, LogEmpty DEF NoJobRow
  <2>2. CASE ~Expired(j)
    BY <1>1, <1>11, <2>2 DEF PruneExpired
  <2> QED
    BY <2>1, <2>2
<1>12. CASE Tick \/ RotateKey \/ UNCHANGED storeVars
  BY <1>1, <1>12 DEF Tick, RotateKey, tables, storeVars
<1> QED
  BY <1>5, <1>6, <1>8, <1>9, <1>10, <1>11, <1>12 DEF StoreNext, GatewayNext

\* No transaction makes a log untrue.
LEMMA LogsStayTruthful ==
  ASSUME StoreTypeOK, StoreInv, EventLogMatches, [StoreNext]_storeVars
  PROVE  EventLogMatches'
<1>1. \A j \in JobIds : LogTells(jobEvents'[j], jobs'[j].status, jobs'[j].attempts)
  BY EventLogStep DEF StoreInv
<1> QED
  BY <1>1 DEF EventLogMatches, LogTells, Started, JobExists, IsTerminal

\* The log a client replays opens with job.queued, holds one job.started per
\* attempt, and ends, with the event that names the status, exactly when the job is
\* over.
THEOREM LogsTruthful == StoreSpec => []EventLogMatches
<1>1. StoreInit => EventLogMatches
  BY LogEmpty, EventLogByRow DEF StoreInit, NoJobRow
<1> QED
  BY <1>1, LogsStayTruthful, StoreTypeCorrect, StoreInvariant, PTL DEF StoreSpec

-----------------------------------------------------------------------------
(* What a caller may rely on *)

\* Nothing changes about a job that is over, its log included: a terminal event is
\* the last one of its log, before the step and after it.
LEMMA EndedStays ==
  ASSUME StoreTypeOK, EventLogMatches, EventLogMatches', [StoreNext]_storeVars,
         NEW j \in JobIds, IsTerminal(j), JobExists(j)'
  PROVE  jobs'[j] = jobs[j] /\ jobEvents'[j] = jobEvents[j]
<1> DEFINE log == jobEvents[j]
           later == jobEvents'[j]
<1>1. jobs'[j] = jobs[j]
  BY TerminalRowsStay
<1>2. log \in Seq(EventType)
  BY DEF StoreTypeOK
<1>3. later = log \/ \E e \in EventType : later = Append(log, e)
  BY JobsGrow DEF LogGrows, JobExists, IsTerminal, TerminalStatus
<1>4. /\ log # <<>> /\ log[Len(log)] \in TerminalEvent
      /\ \A i \in DOMAIN later : later[i] \in TerminalEvent => i = Len(later)
  BY DEF EventLogMatches
<1> HIDE DEF log, later
<1>5. ASSUME NEW e \in EventType, later = Append(log, e) PROVE FALSE
  <2>1. /\ DOMAIN later = 1 .. Len(log) + 1 /\ Len(later) = Len(log) + 1 /\ Len(log) \in Nat
        /\ later[Len(log)] = log[Len(log)]
    BY <1>2, <1>4, <1>5, Appended
  <2>2. Len(log) \in 1 .. Len(log) + 1
    BY <1>2, <1>4
  <2> QED
    BY <1>4, <2>1, <2>2
<1> QED
  BY <1>1, <1>3, <1>5 DEF log, later

\* While a job exists its log only grows, an accepted cancellation stays accepted,
\* and once it is over nothing about it changes.
LEMMA JobGoesOn ==
  ASSUME StoreTypeOK, StoreInv, EventLogMatches, [StoreNext]_storeVars, NEW j \in JobIds,
         JobExists(j), JobExists(j)'
  PROVE  /\ jobEvents[j] \in Seq(EventType) /\ jobEvents'[j] \in Seq(EventType)
         /\ Len(jobEvents[j]) <= Len(jobEvents'[j])
         /\ \A i \in DOMAIN jobEvents[j] : jobEvents'[j][i] = jobEvents[j][i]
         /\ IsTerminal(j) => jobs'[j] = jobs[j] /\ jobEvents'[j] = jobEvents[j]
         /\ jobs[j].cancelRequested = 1 => jobs'[j].cancelRequested = 1
<1> DEFINE log == jobEvents[j]
           later == jobEvents'[j]
<1>1. log \in Seq(EventType) /\ later \in Seq(EventType)
  BY StoreStepTypeOK DEF StoreTypeOK
<1>2. later = log \/ \E e \in EventType : later = Append(log, e)
  BY JobsGrow DEF LogGrows
<1>3. Len(log) <= Len(later) /\ \A i \in DOMAIN log : later[i] = log[i]
  <2> HIDE DEF log, later
  <2>1. CASE later = log
    BY <1>1, <2>1
  <2>2. ASSUME NEW e \in EventType, later = Append(log, e)
        PROVE  Len(log) <= Len(later) /\ \A i \in DOMAIN log : later[i] = log[i]
    BY <1>1, <2>2, Appended
  <2> QED
    BY <1>2, <2>1, <2>2
<1>4. ASSUME IsTerminal(j) PROVE jobs'[j] = jobs[j] /\ later = log
  BY <1>4, EndedStays, LogsStayTruthful
<1>5. ASSUME jobs[j].cancelRequested = 1 PROVE jobs'[j].cancelRequested = 1
  <2>1. jobs[j].status \in {"running", "cancelled"}
    BY <1>5 DEF StoreInv, CancellationWins
  <2>2. CASE JobsUntouched
    BY <1>5, <2>2 DEF JobsUntouched
  <2>3. ASSUME NEW i \in JobIds, NEW o \in Owners, NEW c \in ConversationIds,
               NEW kind \in JobKind, Inserts(i, o, c, kind)
        PROVE  jobs'[j].cancelRequested = 1
    BY <1>5, <2>3 DEF Inserts, FreshJob, StoreTypeOK
  <2>4. ASSUME NEW i \in JobIds, ClaimNextJob(i) \/ CancelQueued(i) \/ CancelRunning(i)
        PROVE  jobs'[j].cancelRequested = 1
    BY <1>5, <2>4, WrittenRows DEF Rewritten
  <2>5. ASSUME NEW i \in JobIds, NEW status \in TerminalStatus, NEW flag \in {0, 1},
               Ends(i, status, flag)
        PROVE  jobs'[j].cancelRequested = 1
    <3>1. flag = 1 \/ i # j
      BY <1>5, <2>5 DEF Ends
    <3> QED
      BY <1>5, <2>5, <3>1, WrittenRows DEF Rewritten
  <2>6. CASE RecoverInterruptedJobs
    BY <1>5, <2>6, RecoveredRow DEF Rewritten
  <2>7. CASE PruneExpired
    BY <1>5, <2>7, PrunedRow DEF NoJobRow, JobExists
  <2> QED
    BY StepCases, <2>2, <2>3, <2>4, <2>5, <2>6, <2>7
<1> QED
  BY <1>1, <1>3, <1>4, <1>5

\* A key answers with its job as long as the job exists and the key is not rotated.
LEMMA KeyStays ==
  ASSUME StoreTypeOK, [GatewayNext]_storeVars, NEW j \in JobIds, NEW ok \in Owners \X Keys,
         idempotency[ok] = j, JobExists(j)'
  PROVE  idempotency'[ok] = j
<1>1. CASE Keeps
  BY <1>1 DEF Keeps
<1>2. ASSUME NEW c \in ConversationIds, NEW o \in Owners, NEW r \in Repositories,
             CreateConversation(c, o, r)
      PROVE  idempotency'[ok] = j
  BY <1>2 DEF CreateConversation
<1>3. ASSUME NEW i \in JobIds, NEW o \in Owners, NEW k \in Keys, NEW c \in ConversationIds,
             NEW kind \in JobKind, Submits(i, o, k, c, kind)
      PROVE  idempotency'[ok] = j
  <2>1. ok # <<o, k>>
    BY <1>3, NullsAssumption DEF Submits
  <2> QED
    BY <1>3, <2>1 DEF Submits, InsertJob, StoreTypeOK
<1>4. CASE PruneExpired
  <2>1. ~Expired(j)
    BY <1>4, PrunedRow DEF JobExists, NoJobRow
  <2> QED
    BY <1>4, <2>1 DEF PruneExpired, DeleteRecords
<1> QED
  BY ReferenceCases, <1>1, <1>2, <1>3, <1>4

\* A retry finds its job as long as the job is kept and the key not rotated.
THEOREM KeysStay == StoreSpec => KeysKept
<1> DEFINE Kept == \A ok \in Owners \X Keys, j \in JobIds :
             idempotency[ok] = j /\ JobExists(j)' /\ ~RotateKey => idempotency'[ok] = j
<1>1. StoreTypeOK /\ [StoreNext]_storeVars => Kept
  BY KeyStays DEF StoreNext
<1> QED
  BY <1>1, StoreTypeCorrect, PTL DEF StoreSpec, KeysKept

\* Only a submission makes a job.
LEMMA NoneAppears ==
  ASSUME StoreTypeOK, NEW j \in JobIds, JobExists(j)',
         \/ \E i \in JobIds : ClaimNextJob(i) \/ RequestCancellation(i) \/ RunCall(i)
         \/ RecoverInterruptedJobs \/ RotateKey \/ PruneExpired \/ Tick \/ UNCHANGED storeVars
  PROVE  JobExists(j)
<1>0. jobs \in [JobIds -> JobRow]
  BY DEF StoreTypeOK
<1>1. ASSUME NEW i \in JobIds, ClaimNextJob(i) PROVE JobExists(j)
  BY <1>1, RowsKept
<1>2. ASSUME NEW i \in JobIds, RequestCancellation(i) PROVE JobExists(j)
  BY <1>2, RowsKept DEF RequestCancellation
<1>3. ASSUME NEW i \in JobIds, RunCall(i) PROVE JobExists(j)
  <2>1. CASE i = j
    BY <1>3, <2>1 DEF RunCall, IsRunning, JobExists
  <2>2. CASE i # j
    <3>1. jobs'[j] = jobs[j]
      BY <1>0, <1>3, <2>2 DEF RunCall, AppendEvent, UpdateBackendThread, CompleteJob, FailJob,
         MarkCancelled, FinalizeCancellation, EndJob
    <3> QED
      BY <3>1 DEF JobExists
  <2> QED
    BY <2>1, <2>2
<1>4. CASE RecoverInterruptedJobs
  BY <1>4, RowsKept
<1>5. CASE PruneExpired
  BY <1>5, PrunedRow DEF JobExists, NoJobRow
<1>6. CASE RotateKey \/ Tick \/ UNCHANGED storeVars
  BY <1>6 DEF RotateKey, Tick, tables, storeVars, JobExists
<1> QED
  BY <1>1, <1>2, <1>3, <1>4, <1>5, <1>6

-----------------------------------------------------------------------------
(* The store implements the lifecycle *)

\* A client does not see what leaves the rows of jobs alone.
LEMMA SeesNothing ==
  ASSUME jobs' = jobs
  PROVE  UNCHANGED Lifecycle!lifecycleVars
  BY DEF Lifecycle!lifecycleVars

\* Empty tables are an empty gateway.
LEMMA LifecycleInit == StoreInit => Lifecycle!Init
  BY DEF StoreInit, NoJobRow, Lifecycle!Init

\* Every transaction maps to a step of the lifecycle, or to none.
LEMMA LifecycleStep ==
  ASSUME StoreTypeOK, StoreInv, [StoreNext]_storeVars
  PROVE  [Lifecycle!Next]_(Lifecycle!lifecycleVars)
<1>1. CASE JobsUntouched
  BY <1>1, SeesNothing DEF JobsUntouched
<1>2. ASSUME NEW j \in JobIds, NEW o \in Owners, NEW c \in ConversationIds,
             NEW kind \in JobKind, Inserts(j, o, c, kind)
      PROVE  Lifecycle!Accept(j, c)
  <2>1. /\ jobs[j].status = "absent" /\ jobs[j].cancelRequested = 0
        /\ jobs'[j].status = "queued" /\ jobs'[j].cancelRequested = 0
        /\ jobs'[j].conversation = c
        /\ \A i \in JobIds \ {j} : jobs'[i] = jobs[i]
    BY <1>2 DEF Inserts, FreshJob, JobExists, NewJob, NoJobRow, StoreTypeOK, StoreInv,
       RowsCoherent
  <2>2. Lifecycle!ActiveJobs = {i \in JobIds : IsActive(i)}
    BY DEF Lifecycle!ActiveJobs, Lifecycle!Active, IsActive, ActiveStatus
  <2>3. Lifecycle!Cardinality(Lifecycle!ActiveJobs) = Cardinality(Lifecycle!ActiveJobs)
    BY DEF Lifecycle!Cardinality, Cardinality
  <2>4. Lifecycle!Cardinality(Lifecycle!ActiveJobs) < MaxQueuedJobs
    BY <1>2, <2>2, <2>3 DEF Inserts, HasQueueCapacity
  <2> QED
    BY <2>1, <2>4 DEF Lifecycle!Accept
<1>3. ASSUME NEW j \in JobIds, ClaimNextJob(j) PROVE Lifecycle!Begin(j)
  <2>1. \A i \in JobIds : jobs[i].status = "running" => jobs[i].conversation # jobs[j].conversation
    BY <1>3 DEF ClaimNextJob, Claimable, IsRunning
  <2>2. /\ jobs[j].status = "queued" /\ jobs[j].cancelRequested = 0
        /\ jobs'[j].status = "running" /\ jobs'[j].cancelRequested = 0
        /\ jobs'[j].conversation = jobs[j].conversation
        /\ \A i \in JobIds \ {j} : jobs'[i] = jobs[i]
    BY <1>3, WrittenRows DEF Rewritten
  <2> QED
    BY <2>1, <2>2 DEF Lifecycle!Begin
<1>4. ASSUME NEW j \in JobIds, NEW status \in TerminalStatus, NEW flag \in {0, 1},
             Ends(j, status, flag)
      PROVE  \/ \E outcome \in {"completed", "failed"} : Lifecycle!End(j, outcome)
             \/ Lifecycle!Cancel(j)
  <2>1. /\ jobs[j].status = "running"
        /\ Rewritten(j, status, flag, jobs[j].attempts)
        /\ \A i \in JobIds \ {j} : jobs'[i] = jobs[i]
    BY <1>4, WrittenRows
  <2>2. CASE flag = 0
    <3>1. jobs[j].cancelRequested = 0 /\ status \in {"completed", "failed"}
      BY <1>4, <2>2 DEF Ends, TerminalStatus
    <3>2. Lifecycle!End(j, status)
      BY <2>1, <2>2, <3>1 DEF Lifecycle!End, Rewritten
    <3> QED
      BY <3>1, <3>2
  <2>3. CASE flag = 1
    <3>1. status = "cancelled"
      BY <1>4, <2>3 DEF Ends
    <3> QED
      BY <2>1, <2>3, <3>1 DEF Lifecycle!Cancel, Lifecycle!Active, Rewritten
  <2> QED
    BY <2>2, <2>3
<1>5. ASSUME NEW j \in JobIds, CancelQueued(j) PROVE Lifecycle!Cancel(j)
  BY <1>5, WrittenRows DEF Lifecycle!Cancel, Lifecycle!Active, Rewritten
<1>6. ASSUME NEW j \in JobIds, CancelRunning(j) PROVE Lifecycle!Want(j)
  BY <1>6, WrittenRows DEF Lifecycle!Want, Rewritten
<1>7. CASE RecoverInterruptedJobs
  <2>1. ASSUME NEW j \in JobIds
        PROVE  /\ jobs'[j].status =
                    IF jobs[j].status # "running" THEN jobs[j].status
                    ELSE IF jobs[j].cancelRequested = 1 THEN "cancelled" ELSE "queued"
               /\ jobs'[j].cancelRequested = jobs[j].cancelRequested
               /\ jobs'[j].conversation = jobs[j].conversation
    BY <1>7, RecoveredRow DEF Rewritten
  <2>2. Lifecycle!Restart
    BY <2>1 DEF Lifecycle!Restart
  <2> QED
    BY <2>2 DEF Lifecycle!Next
<1>8. CASE PruneExpired
  <2>1. PICK gone \in SUBSET JobIds : gone = {j \in JobIds : Expired(j)}
    OBVIOUS
  <2>2. \A j \in gone : jobs'[j] = NoJobRow /\ jobs[j].status \in TerminalStatus
    BY <1>8, <2>1, PrunedRow DEF Expired, IsTerminal
  <2>3. \A j \in JobIds \ gone : jobs'[j] = jobs[j]
    BY <1>8, <2>1, PrunedRow
  <2>4. Lifecycle!Forget(gone)
    BY <2>2, <2>3 DEF Lifecycle!Forget, Lifecycle!Terminal, TerminalStatus, NoJobRow
  <2> QED
    BY <2>4 DEF Lifecycle!Next
<1> QED
  BY StepCases, <1>1, <1>2, <1>3, <1>4, <1>5, <1>6, <1>7, <1>8 DEF Lifecycle!Next

\* The store implements what the API promises: whatever it does behind a poll,
\* a client sees the lifecycle.
THEOREM StoreImplementsLifecycle == StoreSpec => ImplementsLifecycle
<1>1. StoreInit => Lifecycle!Init
  BY LifecycleInit
<1>2. StoreTypeOK /\ StoreInv /\ [StoreNext]_storeVars
        => [Lifecycle!Next]_(Lifecycle!lifecycleVars)
  BY LifecycleStep
<1> QED
  BY <1>1, <1>2, StoreTypeCorrect, StoreInvariant, PTL
  DEF StoreSpec, ImplementsLifecycle, Lifecycle!Spec
=============================================================================
