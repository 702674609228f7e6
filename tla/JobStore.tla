------------------------------ MODULE JobStore ------------------------------
(***************************************************************************)
(* GatewayStore (src/src/application/store.ts): the SQLite tables that are *)
(* the source of truth of the gateway.                                     *)
(*                                                                         *)
(* Every public method of the store that writes runs in one transaction on *)
(* the only connection of the process, so each is ONE action here: all of  *)
(* its statements happen or, when it throws, none does.  A call that is    *)
(* refused (QUEUE_FULL, NOT_FOUND, IDEMPOTENCY_CONFLICT, ...) or replayed  *)
(* changes no table and is a stuttering step.                              *)
(*                                                                         *)
(* Ids are random UUIDs: an id here is a slot that is free exactly when no *)
(* row bears it, so a slot used again after a sweep is a new id.           *)
(***************************************************************************)
EXTENDS Integers, Sequences, FiniteSets

CONSTANTS
  JobIds, ConversationIds,   \* primary keys of jobs and conversations
  Owners, Keys,              \* primary key of idempotencyRecords
  Repositories, Threads,     \* repository ids, thread ids of the backend
  NoJob, NoConversation, NoOwner, NoRepository, NoThread,   \* SQL NULLs
  MaxQueuedJobs,             \* CODEXGW_MAX_QUEUED_JOBS
  MaxEventsPerJob,           \* CODEXGW_MAX_EVENTS_PER_JOB
  RetentionPeriod,           \* CODEXGW_RETENTION_DAYS, in ticks of the clock
  MaxAttempts,               \* BOUND: crashes that may interrupt one job, + 1
  MaxTime,                   \* BOUND: ticks of the clock
  RotationTimes              \* BOUND: the ticks at which the key may be rotated

ASSUME NullsAssumption ==
  /\ NoJob \notin JobIds
  /\ NoConversation \notin ConversationIds
  /\ NoOwner \notin Owners
  /\ NoRepository \notin Repositories
  /\ NoThread \notin Threads

ASSUME LimitsAssumption ==
  /\ IsFiniteSet(JobIds)
  /\ MaxQueuedJobs \in Nat \ {0}
  /\ MaxEventsPerJob \in Nat \ {0}
  /\ RetentionPeriod \in Nat
  /\ MaxAttempts \in Nat \ {0}
  /\ MaxTime \in Nat

VARIABLES
  conversations,     \* table conversations
  jobs,              \* table jobs
  jobAttempts,       \* table jobAttempts: job, attempt number -> status
  jobEvents,         \* table jobEvents: the types of a job's events, in sequence
  idempotency,       \* table idempotencyRecords: owner, key -> job
  now                \* the wall clock every timestamp is taken from

tables == <<conversations, jobs, jobAttempts, jobEvents, idempotency>>
storeVars == <<conversations, jobs, jobAttempts, jobEvents, idempotency, now>>

-----------------------------------------------------------------------------
(* Rows *)

Time == 0 .. MaxTime
NoTime == -1

ActiveStatus == {"queued", "running"}
TerminalStatus == {"completed", "failed", "cancelled"}
JobKind == {"coding.turn", "inference.turn"}
AttemptNumber == 1 .. MaxAttempts
AttemptStatus == {"running", "completed", "failed", "cancelled"}
TerminalEvent == {"job.completed", "job.failed", "job.cancelled"}
EventType == {"job.queued", "job.started", "agent.message.delta"} \cup TerminalEvent

\* status "absent": there is no such row.
JobRow ==
  [status: {"absent"} \cup ActiveStatus \cup TerminalStatus,
   owner: Owners \cup {NoOwner},
   conversation: ConversationIds \cup {NoConversation},
   kind: JobKind,
   cancelRequested: {0, 1},
   attempts: 0 .. MaxAttempts,
   createdAt: Time \cup {NoTime},
   completedAt: Time \cup {NoTime}]

NoJobRow ==
  [status |-> "absent", owner |-> NoOwner, conversation |-> NoConversation,
   kind |-> "coding.turn", cancelRequested |-> 0, attempts |-> 0,
   createdAt |-> NoTime, completedAt |-> NoTime]

\* owner NoOwner: there is no such row.
ConversationRow ==
  [owner: Owners \cup {NoOwner},
   repository: Repositories \cup {NoRepository},
   backendThread: Threads \cup {NoThread},
   updatedAt: Time \cup {NoTime}]

NoConversationRow ==
  [owner |-> NoOwner, repository |-> NoRepository,
   backendThread |-> NoThread, updatedAt |-> NoTime]

NoAttempts == [n \in AttemptNumber |-> "absent"]

StoreTypeOK ==
  /\ conversations \in [ConversationIds -> ConversationRow]
  /\ jobs \in [JobIds -> JobRow]
  /\ jobAttempts \in [JobIds -> [AttemptNumber -> {"absent"} \cup AttemptStatus]]
  /\ jobEvents \in [JobIds -> Seq(EventType)]
  /\ idempotency \in [Owners \X Keys -> JobIds \cup {NoJob}]
  /\ now \in Time

-----------------------------------------------------------------------------
(* Queries *)

JobExists(j) == jobs[j].status # "absent"
ConversationExists(c) == conversations[c].owner # NoOwner
IsActive(j) == jobs[j].status \in ActiveStatus
IsRunning(j) == jobs[j].status = "running"
IsTerminal(j) == jobs[j].status \in TerminalStatus

\* Faulty: running jobs are forgotten.
CapacityOfQueuedOnly ==
  Cardinality({j \in JobIds : jobs[j].status = "queued"}) < MaxQueuedJobs

\* countAll() of requireQueueCapacity, and of submitTurn's copy of it.
HasQueueCapacity == Cardinality({j \in JobIds : IsActive(j)}) < MaxQueuedJobs

HasKey(j) == \E ok \in Owners \X Keys : idempotency[ok] = j
FreshJob(j) == ~JobExists(j)
FreshConversation(c) == ~ConversationExists(c)

NewJob(o, c, kind) ==
  [status |-> "queued", owner |-> o, conversation |-> c, kind |-> kind,
   cancelRequested |-> 0, attempts |-> 0,
   createdAt |-> now, completedAt |-> NoTime]

\* Faulty: no row is matched; every row is matched.
SettleNone(rows, s) == [n \in AttemptNumber |-> rows[n]]
SettleAll(rows, s) ==
  [n \in AttemptNumber |-> IF rows[n] = "absent" THEN "absent" ELSE s]

\* UPDATE jobAttempts SET status = s WHERE jobId = j AND status = 'running'
Settle(rows, s) ==
  [n \in AttemptNumber |-> IF rows[n] = "running" THEN s ELSE rows[n]]

-----------------------------------------------------------------------------
(* Submission *)

\* newJob + insert into jobs, idempotencyRecords and jobEvents.
InsertJob(j, o, k, c, kind) ==
  /\ FreshJob(j)
  /\ jobs' = [jobs EXCEPT ![j] = NewJob(o, c, kind)]
  /\ idempotency' = [idempotency EXCEPT ![<<o, k>>] = j]
  /\ jobEvents' = [jobEvents EXCEPT ![j] = Append(@, "job.queued")]
  /\ UNCHANGED jobAttempts

CreateConversation(c, o, r) ==
  /\ FreshConversation(c)
  /\ conversations' = [conversations EXCEPT ![c] =
       [owner |-> o, repository |-> r, backendThread |-> NoThread, updatedAt |-> now]]
  /\ UNCHANGED <<jobs, jobAttempts, jobEvents, idempotency, now>>

\* submitTurn: a new turn of an existing coding conversation of the owner.  The
\* route reads the conversation first and hands on the repository it found, so a
\* conversation without one is refused and the comparison of the two succeeds.
SubmitTurn(j, o, k, c) ==
  /\ idempotency[<<o, k>>] = NoJob
  /\ conversations[c].owner = o
  /\ conversations[c].repository # NoRepository
  /\ HasQueueCapacity
  /\ InsertJob(j, o, k, c, "coding.turn")
  /\ conversations' = [conversations EXCEPT ![c].updatedAt = now]
  /\ UNCHANGED now

\* insertRun: a conversation and its only job, in one transaction.
InsertRun(j, o, k, c, r, kind) ==
  /\ idempotency[<<o, k>>] = NoJob
  /\ HasQueueCapacity
  /\ FreshConversation(c)
  /\ conversations' = [conversations EXCEPT ![c] =
       [owner |-> o, repository |-> r, backendThread |-> NoThread, updatedAt |-> now]]
  /\ InsertJob(j, o, k, c, kind)
  /\ UNCHANGED now

SubmitRun(j, o, k, c, r) == InsertRun(j, o, k, c, r, "coding.turn")
SubmitInference(j, o, k, c) == InsertRun(j, o, k, c, NoRepository, "inference.turn")

-----------------------------------------------------------------------------
(* Execution *)

\* Faulty: a conversation with a running job is not skipped.
ClaimableAnywhere(j) == jobs[j].status = "queued" /\ jobs[j].cancelRequested = 0

Claimable(j) ==
  /\ jobs[j].status = "queued"
  /\ jobs[j].cancelRequested = 0
  /\ \A i \in JobIds : IsRunning(i) => jobs[i].conversation # jobs[j].conversation

\* Faulty: ORDER BY createdAt DESC.
IsNewest(j) == \A i \in JobIds : Claimable(i) => jobs[j].createdAt >= jobs[i].createdAt

\* ORDER BY createdAt; rows of one millisecond come in any order.
IsOldest(j) == \A i \in JobIds : Claimable(i) => jobs[j].createdAt <= jobs[i].createdAt

\* (job, attempt) is UNIQUE: were the row there already the insert would throw.
ClaimNextJob(j) ==
  LET attempt == jobs[j].attempts + 1 IN
  /\ Claimable(j)
  /\ IsOldest(j)
  /\ attempt \in AttemptNumber
  /\ jobAttempts[j][attempt] = "absent"
  /\ jobs' = [jobs EXCEPT ![j].status = "running", ![j].attempts = attempt]
  /\ jobAttempts' = [jobAttempts EXCEPT ![j][attempt] = "running"]
  /\ jobEvents' = [jobEvents EXCEPT ![j] = Append(@, "job.started")]
  /\ UNCHANGED <<conversations, idempotency, now>>

\* Past maxEventsPerJob only "job." events are written, the call throws.
AppendEvent(j) ==
  /\ JobExists(j)
  /\ Len(jobEvents[j]) + 1 <= MaxEventsPerJob
  /\ jobEvents' = [jobEvents EXCEPT ![j] = Append(@, "agent.message.delta")]
  /\ UNCHANGED <<conversations, jobs, jobAttempts, idempotency, now>>

\* One UPDATE of its own, outside any transaction.
UpdateBackendThread(c, t) ==
  /\ ConversationExists(c)
  /\ conversations' =
       [conversations EXCEPT ![c].backendThread = t, ![c].updatedAt = now]
  /\ UNCHANGED <<jobs, jobAttempts, jobEvents, idempotency, now>>

\* The rows a job that is running ends with.
EndJob(j, status, event, cancelRequested) ==
  /\ jobs' = [jobs EXCEPT ![j].status = status,
                          ![j].cancelRequested = cancelRequested,
                          ![j].completedAt = now]
  /\ jobAttempts' = [jobAttempts EXCEPT ![j] = Settle(@, status)]
  /\ jobEvents' = [jobEvents EXCEPT ![j] = Append(@, event)]
  /\ UNCHANGED <<conversations, idempotency, now>>

FinalizeCancellation(j) ==
  /\ IsRunning(j)
  /\ EndJob(j, "cancelled", "job.cancelled", 1)

MarkCancelled(j) == FinalizeCancellation(j)

\* completeJob and failJob: their UPDATE matches a running job nobody asked to
\* cancel, otherwise they fall through to finalizeCancellation.
CompleteJob(j) ==
  \/ /\ IsRunning(j)
     /\ jobs[j].cancelRequested = 0
     /\ EndJob(j, "completed", "job.completed", 0)
  \/ /\ jobs[j].cancelRequested = 1
     /\ FinalizeCancellation(j)

\* Faulty: a failure overrides a cancellation that was accepted.
FailJobRegardless(j) ==
  /\ IsRunning(j)
  /\ EndJob(j, "failed", "job.failed", jobs[j].cancelRequested)

FailJob(j) ==
  \/ /\ IsRunning(j)
     /\ jobs[j].cancelRequested = 0
     /\ EndJob(j, "failed", "job.failed", 0)
  \/ /\ jobs[j].cancelRequested = 1
     /\ FinalizeCancellation(j)

-----------------------------------------------------------------------------
(* Cancellation, recovery, retention *)

CancelQueued(j) ==
  /\ jobs[j].status = "queued"
  /\ jobs' = [jobs EXCEPT ![j].status = "cancelled",
                          ![j].cancelRequested = 1,
                          ![j].completedAt = now]
  /\ jobEvents' = [jobEvents EXCEPT ![j] = Append(@, "job.cancelled")]
  /\ UNCHANGED <<conversations, jobAttempts, idempotency, now>>

\* Faulty: the event announces what has not happened yet.
CancelRunningAnnounced(j) ==
  /\ IsRunning(j)
  /\ jobs' = [jobs EXCEPT ![j].cancelRequested = 1]
  /\ jobEvents' = [jobEvents EXCEPT ![j] = Append(@, "job.cancelled")]
  /\ UNCHANGED <<conversations, jobAttempts, idempotency, now>>

CancelRunning(j) ==
  /\ IsRunning(j)
  /\ jobs' = [jobs EXCEPT ![j].cancelRequested = 1]
  /\ UNCHANGED <<conversations, jobAttempts, jobEvents, idempotency, now>>

RequestCancellation(j) == CancelQueued(j) \/ CancelRunning(j)

\* Faulty: recovery queues every running job again.
EndsCancelledNever(j) == FALSE

\* Whether recovery ends the job as cancelled instead of queueing it again.
EndsCancelled(j) == IsRunning(j) /\ jobs[j].cancelRequested = 1

\* BOUND: a job may be interrupted only while it has an attempt left.
MayInterrupt ==
  \A j \in JobIds : IsRunning(j) /\ ~EndsCancelled(j) => jobs[j].attempts < MaxAttempts

RecoverInterruptedJobs ==
  /\ MayInterrupt
  /\ jobs' = [j \in JobIds |->
       IF EndsCancelled(j)
         THEN [jobs[j] EXCEPT !.status = "cancelled", !.completedAt = now]
       ELSE IF IsRunning(j) THEN [jobs[j] EXCEPT !.status = "queued"]
       ELSE jobs[j]]
  /\ jobAttempts' = [j \in JobIds |->
       Settle(jobAttempts[j], IF EndsCancelled(j) THEN "cancelled" ELSE "failed")]
  /\ jobEvents' = [j \in JobIds |->
       IF EndsCancelled(j) THEN Append(jobEvents[j], "job.cancelled") ELSE jobEvents[j]]
  /\ UNCHANGED <<conversations, idempotency, now>>

\* Faulty: the age of a job counts from its submission.
ExpiredSinceSubmission(j) == IsTerminal(j) /\ jobs[j].createdAt < now - RetentionPeriod

\* coalesce(completedAt, createdAt) < cutoff
Expired(j) ==
  /\ IsTerminal(j)
  /\ (IF jobs[j].completedAt # NoTime THEN jobs[j].completedAt ELSE jobs[j].createdAt)
       < now - RetentionPeriod

\* Faulty: a record goes as soon as its job is over; a record has an age of its own.
DeleteRecordsOfEnded(gone) ==
  idempotency' = [ok \in Owners \X Keys |->
    IF \E j \in JobIds : idempotency[ok] = j /\ IsTerminal(j) THEN NoJob ELSE idempotency[ok]]
DeleteRecordsByAge(gone) ==
  idempotency' = [ok \in Owners \X Keys |->
    IF \E j \in JobIds : idempotency[ok] = j /\ jobs[j].createdAt < now - RetentionPeriod
      THEN NoJob ELSE idempotency[ok]]

\* No ON DELETE CASCADE here: the sweep deletes the records of the jobs itself.
DeleteRecords(gone) ==
  idempotency' = [ok \in Owners \X Keys |->
    IF idempotency[ok] \in gone THEN NoJob ELSE idempotency[ok]]

\* Untouched within the window, and no job is left in it once gone is deleted.
Idle(c, gone) ==
  /\ conversations[c].updatedAt < now - RetentionPeriod
  /\ \A j \in JobIds \ gone : jobs[j].conversation # c

\* The records go first, then the jobs (events and attempts cascade), then the
\* conversations.
PruneExpired ==
  LET gone == {j \in JobIds : Expired(j)} IN
  /\ DeleteRecords(gone)
  /\ jobs' = [j \in JobIds |-> IF j \in gone THEN NoJobRow ELSE jobs[j]]
  /\ jobEvents' = [j \in JobIds |-> IF j \in gone THEN <<>> ELSE jobEvents[j]]
  /\ jobAttempts' = [j \in JobIds |-> IF j \in gone THEN NoAttempts ELSE jobAttempts[j]]
  /\ conversations' = [c \in ConversationIds |->
       IF Idle(c, gone) THEN NoConversationRow ELSE conversations[c]]
  /\ UNCHANGED now

\* rotateEncryptedPayloads: the hashes in the records cannot be converted, so all the
\* records go and the jobs stay.  What else the transaction rewrites are payloads
\* (EncryptionKey).  The operator does this while the gateway is down.
RotateKey ==
  /\ now \in RotationTimes
  /\ idempotency' = [ok \in Owners \X Keys |-> NoJob]
  /\ UNCHANGED <<conversations, jobs, jobAttempts, jobEvents, now>>

\* The clock never goes back: src/ compares timestamps and assumes as much.
Tick ==
  /\ now < MaxTime
  /\ now' = now + 1
  /\ UNCHANGED tables

-----------------------------------------------------------------------------
(* The store under the calls the gateway makes.  A run calls appendEvent,   *)
(* updateBackendThread, completeJob, failJob and markCancelled only between *)
(* the claim of its job and the one call that ends it: JobProcessor, which  *)
(* models the caller, is checked to implement this specification.           *)

StoreInit ==
  /\ conversations = [c \in ConversationIds |-> NoConversationRow]
  /\ jobs = [j \in JobIds |-> NoJobRow]
  /\ jobAttempts = [j \in JobIds |-> NoAttempts]
  /\ jobEvents = [j \in JobIds |-> <<>>]
  /\ idempotency = [ok \in Owners \X Keys |-> NoJob]
  /\ now = 0

\* Calls of the HTTP routes.
Submit ==
  \E o \in Owners, c \in ConversationIds :
    \/ \E r \in Repositories : CreateConversation(c, o, r)
    \/ \E j \in JobIds, k \in Keys :
         \/ SubmitTurn(j, o, k, c)
         \/ \E r \in Repositories : SubmitRun(j, o, k, c, r)
         \/ SubmitInference(j, o, k, c)

\* Calls of the run of a claimed job.
RunCall(j) ==
  /\ IsRunning(j)
  /\ \/ AppendEvent(j)
     \/ \E t \in Threads : UpdateBackendThread(jobs[j].conversation, t)
     \/ CompleteJob(j)
     \/ FailJob(j)
     \/ MarkCancelled(j)

\* What the gateway does with the store.
GatewayNext ==
  \/ Submit
  \/ \E j \in JobIds : ClaimNextJob(j) \/ RequestCancellation(j) \/ RunCall(j)
  \/ RecoverInterruptedJobs
  \/ PruneExpired
  \/ Tick

StoreNext == GatewayNext \/ RotateKey

StoreSpec == StoreInit /\ [][StoreNext]_storeVars

\* For the components that see the gateway go down and come back as one step.  A
\* rotation that finds interrupted jobs is a recovery and then this one.
DownAndUp ==
  \/ RecoverInterruptedJobs
  \/ RotateKey /\ \A j \in JobIds : ~IsRunning(j)

-----------------------------------------------------------------------------
(* Safety *)

\* "Turns within one conversation are claimed strictly one at a time so its
\* internal Codex thread cannot fork": two running jobs never share a
\* conversation, whatever restarts and requeues came in between.
OneRunningPerConversation ==
  \A i, j \in JobIds :
    /\ IsRunning(i)
    /\ IsRunning(j)
    /\ jobs[i].conversation = jobs[j].conversation
    => i = j

\* The attempt history tells the truth about the job: its rows are numbered
\* without a gap up to jobs.attempts (so the UNIQUE constraint never refuses a
\* claim), the last one alone is running, exactly while the job is, and a
\* completed or failed job owes that to its last attempt.
AttemptsMatch ==
  \A j \in JobIds :
    /\ \A n \in AttemptNumber :
         /\ jobAttempts[j][n] # "absent" <=> n <= jobs[j].attempts
         /\ jobAttempts[j][n] = "running" <=> IsRunning(j) /\ n = jobs[j].attempts
         /\ jobAttempts[j][n] = "completed" =>
              jobs[j].status = "completed" /\ n = jobs[j].attempts
    /\ jobs[j].status \in {"completed", "failed"} =>
         /\ jobs[j].attempts > 0
         /\ jobAttempts[j][jobs[j].attempts] = jobs[j].status

EventOfStatus ==
  [completed |-> "job.completed", failed |-> "job.failed", cancelled |-> "job.cancelled"]

\* The event log a client replays: it opens with job.queued, holds one
\* job.started per attempt, and a terminal event exactly when the job is
\* terminal, the one that names its status, and nothing after it.
EventLogMatches ==
  \A j \in JobIds :
    LET log == jobEvents[j] IN
    /\ ~JobExists(j) <=> log = <<>>
    /\ \A i \in DOMAIN log :
         /\ log[i] = "job.queued" <=> i = 1
         /\ log[i] \in TerminalEvent => i = Len(log)
    /\ Cardinality({i \in DOMAIN log : log[i] = "job.started"}) = jobs[j].attempts
    /\ IsTerminal(j) <=> log # <<>> /\ log[Len(log)] \in TerminalEvent
    /\ IsTerminal(j) => log[Len(log)] = EventOfStatus[jobs[j].status]

\* "Queue and concurrency are bounded": no order of submissions, claims and
\* recoveries lets more than maxQueuedJobs jobs be queued or running.
QueueBounded == Cardinality({j \in JobIds : IsActive(j)}) <= MaxQueuedJobs

\* A key answers with a job of its owner that still exists, and no job answers to
\* two keys.  The keys that were forgotten were forgotten all at once, in a rotation:
\* a job has its key if any job has that was submitted before it, whatever sweeps
\* have taken since.
IdempotencyConsistent ==
  /\ \A ok \in Owners \X Keys :
       idempotency[ok] # NoJob =>
         /\ JobExists(idempotency[ok])
         /\ jobs[idempotency[ok]].owner = ok[1]
         /\ \A other \in Owners \X Keys : idempotency[other] = idempotency[ok] => other = ok
  /\ \A i, j \in JobIds :
       JobExists(j) /\ jobs[i].createdAt < jobs[j].createdAt /\ HasKey(i) => HasKey(j)

\* "lets cancellation win atomically over completion and failure" and over a
\* restart: a job whose cancellation was accepted is running until it ends as
\* cancelled, never queued again, completed or failed.
CancellationWins ==
  \A j \in JobIds :
    /\ jobs[j].cancelRequested = 1 => jobs[j].status \in {"running", "cancelled"}
    /\ jobs[j].status = "cancelled" => jobs[j].cancelRequested = 1

\* A job's conversation exists and is its owner's for as long as the job does,
\* and a coding turn is never in a conversation without a repository.
ConversationIntact ==
  \A j \in JobIds : JobExists(j) =>
    LET c == jobs[j].conversation IN
    /\ c \in ConversationIds
    /\ conversations[c].owner = jobs[j].owner
    /\ jobs[j].owner \in Owners
    /\ (conversations[c].repository = NoRepository) <=> (jobs[j].kind = "inference.turn")

\* The turns of a conversation run in the order they were submitted, across
\* crashes too: once a turn has been started, no older turn of the conversation
\* is still to be run or run again.
ConversationOrder ==
  \A i, j \in JobIds :
    /\ JobExists(i) /\ JobExists(j)
    /\ jobs[i].conversation = jobs[j].conversation
    /\ jobs[i].createdAt < jobs[j].createdAt
    /\ jobs[j].attempts > 0
    => IsTerminal(i)

\* A free slot is blank, no job was submitted after now, a running job has an
\* attempt, and a job that is over has the time it ended at.
RowsCoherent ==
  \A j \in JobIds :
    /\ ~JobExists(j) => jobs[j] = NoJobRow
    /\ JobExists(j) => jobs[j].createdAt \in Time /\ jobs[j].createdAt <= now
    /\ IsRunning(j) => jobs[j].attempts > 0
    /\ IsTerminal(j) => jobs[j].completedAt \in Time

\* The rows of the tables refer to each other as they should.
RowsTruthful == RowsCoherent /\ ConversationIntact

\* The inductive invariant: what the tables say about each other.
StoreInv ==
  /\ RowsCoherent
  /\ OneRunningPerConversation
  /\ AttemptsMatch
  /\ CancellationWins
  /\ ConversationIntact
  /\ IdempotencyConsistent
  /\ ConversationOrder

-----------------------------------------------------------------------------
(* What a step may never do *)

\* A terminal job never changes again, and neither does the log or a settled
\* attempt of any job: they are only extended, until the sweep takes the job
\* away whole.
HistoryIsFinal ==
  [][\A j \in JobIds : JobExists(j) /\ JobExists(j)' =>
       /\ IsTerminal(j) => jobs'[j] = jobs[j]
       /\ Len(jobEvents[j]) <= Len(jobEvents'[j])
       /\ SubSeq(jobEvents'[j], 1, Len(jobEvents[j])) = jobEvents[j]
       /\ \A n \in AttemptNumber :
            jobAttempts[j][n] \in AttemptStatus \ {"running"} =>
              jobAttempts'[j][n] = jobAttempts[j][n]]_storeVars

\* "Queued and running jobs are never touched": the sweep takes a job only when
\* its result has been readable for the whole retention window, and a
\* conversation only when no job is left in it.
PruneSparesRecent ==
  [][/\ \A j \in JobIds : JobExists(j) /\ ~JobExists(j)' =>
          IsTerminal(j) /\ jobs[j].completedAt + RetentionPeriod < now
     /\ \A c \in ConversationIds : ConversationExists(c) /\ ~ConversationExists(c)' =>
          \A j \in JobIds : jobs'[j].conversation # c]_storeVars

\* "API submission is idempotent when clients preserve Idempotency-Key": as long as
\* a job is kept a retry finds it under its key, whatever crashes and sweeps come in
\* between; only a rotation of the encryption key lets go of a key before its job.
KeysKept ==
  [][\A ok \in Owners \X Keys, j \in JobIds :
       idempotency[ok] = j /\ JobExists(j)' /\ ~RotateKey => idempotency'[ok] = j]_storeVars

-----------------------------------------------------------------------------
(* What the store promises a client of the jobs API *)

Lifecycle == INSTANCE JobLifecycle WITH
  Jobs <- JobIds,
  Conversations <- ConversationIds,
  MaxActive <- MaxQueuedJobs,
  status <- [j \in JobIds |-> jobs[j].status],
  wanted <- [j \in JobIds |-> jobs[j].cancelRequested],
  conversation <- [j \in JobIds |-> jobs[j].conversation]

\* Every transaction of the store is a step of the lifecycle a client sees, or
\* nothing it could notice.
ImplementsLifecycle == Lifecycle!Spec
=============================================================================
