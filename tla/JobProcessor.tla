---------------------------- MODULE JobProcessor ----------------------------
(***************************************************************************)
(* JobProcessor (src/src/application/job-processor.ts) on top of the       *)
(* store, with the process that hosts it: start and recovery, the pump     *)
(* that claims jobs, the runs of the claimed jobs, cancellation, graceful  *)
(* shutdown and crashes.                                                   *)
(*                                                                         *)
(* Node runs one callback at a time; control passes from one activity to   *)
(* another only at an await.  An action is what happens between two awaits *)
(* of one activity, together with the transaction that the second of them  *)
(* waits for.                                                              *)
(***************************************************************************)
EXTENDS JobStore

CONSTANTS
  MaxConcurrent,     \* CODEXGW_MAX_CONCURRENT_JOBS
  YieldsInClaim,     \* does anything else run between the statements of a claim
                     \* and the registration of its run?  The awaits allow it; the
                     \* synchronous SQLite driver of today never takes the chance
  MaxRestarts        \* BOUND: crashes and shutdowns of the process

ASSUME ProcessorAssumption ==
  /\ MaxConcurrent \in Nat \ {0}
  /\ YieldsInClaim \in BOOLEAN
  /\ MaxRestarts \in Nat
  /\ MaxRestarts < MaxAttempts   \* so that MayInterrupt never stops a crash

VARIABLES
  up,          \* the process is up, and start() has recovered the jobs
  stopping,    \* this.stopping
  failure,     \* this.failure is set
  pumpCalls,   \* calls of pump() in their loop: this.pumping is pumpCalls > 0
  claimed,     \* jobs whose claim is committed, not yet in this.active
  active,      \* this.active, and this.activeRuns
  aborted,     \* jobs whose AbortController was aborted
  aborting,    \* jobs that cancel() found running, and has not yet aborted
  run,         \* where the run of a job is
  thread,      \* the thread id a run holds
  restarts     \* how often the process ended

memory == <<up, stopping, failure, pumpCalls, claimed, active, aborted,
            aborting, run, thread>>
runVars == <<up, stopping, failure, pumpCalls, claimed, aborting, restarts>>
vars == <<storeVars, memory, restarts>>

\* starting: mkdtemp, or the lookup of the repository; reading: about to read the
\* thread; running: in runner.run; storing, finishing, failing, cancelling: about
\* to call updateBackendThread, completeJob, failJob, markCancelled; ended: only
\* the cleanup is left.
Phase == {"none", "starting", "reading", "running", "storing", "finishing",
          "failing", "cancelling", "ended"}

ProcessorTypeOK ==
  /\ StoreTypeOK
  /\ up \in BOOLEAN /\ stopping \in BOOLEAN /\ failure \in BOOLEAN
  /\ pumpCalls \in 0 .. 1
  /\ claimed \subseteq JobIds /\ active \subseteq JobIds
  /\ aborted \subseteq JobIds /\ aborting \subseteq JobIds
  /\ run \in [JobIds -> Phase]
  /\ thread \in [JobIds -> Threads \cup {NoThread}]
  /\ restarts \in 0 .. MaxRestarts

\* A claim and the registration of its run are not interrupted.
MayInterleave == YieldsInClaim \/ pumpCalls = 0

\* BOUND: once per process something awaited throws where nobody catches it: an
\* SQLite error, a full disk, a terminal event over maxEventBytes.
MayThrow == ~failure

-----------------------------------------------------------------------------
(* The process *)

EmptyMemory ==
  /\ stopping' = FALSE /\ failure' = FALSE
  /\ pumpCalls' = 0
  /\ claimed' = {} /\ active' = {} /\ aborted' = {} /\ aborting' = {}
  /\ run' = [j \in JobIds |-> "none"]
  /\ thread' = [j \in JobIds |-> NoThread]

\* start(): recovery comes before the first pump, and before the server listens.
Start ==
  /\ ~up
  /\ up' = TRUE
  /\ RecoverInterruptedJobs
  /\ EmptyMemory
  /\ UNCHANGED restarts

ProcessEnds ==
  /\ MayInterrupt
  /\ restarts < MaxRestarts
  /\ restarts' = restarts + 1
  /\ up' = FALSE
  /\ EmptyMemory
  /\ UNCHANGED storeVars

Crash == up /\ ProcessEnds

\* stop(): from here on no pump begins, and every active run is aborted.
Stop ==
  /\ up /\ ~stopping
  /\ restarts < MaxRestarts
  /\ MayInterleave
  /\ stopping' = TRUE
  /\ aborted' = aborted \cup active
  /\ UNCHANGED <<storeVars, up, failure, pumpCalls, claimed, active, aborting,
                 run, thread, restarts>>

\* The runs have settled, or 30 s are over; the database is closed.
Exit == up /\ stopping /\ ProcessEnds

-----------------------------------------------------------------------------
(* The routes *)

\* Ids are unique: a job submitted now is none that a cancel() or a run still holds.
SubmitJob ==
  /\ up
  /\ Submit
  /\ \A j \in aborting \cup active : jobs'[j] = jobs[j]
  /\ UNCHANGED <<memory, restarts>>

\* cancel(): first the transaction, then the controller.
RequestCancel(j) ==
  /\ up
  /\ MayInterleave
  /\ RequestCancellation(j)
  /\ aborting' = IF IsRunning(j) THEN aborting \cup {j} ELSE aborting
  /\ UNCHANGED <<up, stopping, failure, pumpCalls, claimed, active, aborted,
                 run, thread, restarts>>

\* Faulty: only a run that has reached its runner is aborted.
AbortRunOfRunner(j) ==
  /\ j \in aborting
  /\ aborting' = aborting \ {j}
  /\ aborted' = IF run[j] = "running" THEN aborted \cup {j} ELSE aborted
  /\ UNCHANGED <<storeVars, up, stopping, failure, pumpCalls, claimed, active,
                 run, thread, restarts>>

AbortRun(j) ==
  /\ j \in aborting
  /\ aborting' = aborting \ {j}
  /\ aborted' = aborted \cup ({j} \cap active)
  /\ UNCHANGED <<storeVars, up, stopping, failure, pumpCalls, claimed, active,
                 run, thread, restarts>>

Sweep == up /\ PruneExpired /\ UNCHANGED <<memory, restarts>>

Clock == Tick /\ UNCHANGED <<memory, restarts>>

-----------------------------------------------------------------------------
(* The pump: called by the timer every 100 ms, by wake(), and at start *)

PumpBegins ==
  /\ up /\ ~stopping
  /\ pumpCalls = 0
  /\ Cardinality(active) < MaxConcurrent
  /\ pumpCalls' = 1
  /\ UNCHANGED <<storeVars, up, stopping, failure, claimed, active, aborted,
                 aborting, run, thread, restarts>>

\* A call of pump() waits for claimNextJob.
AwaitsClaim == pumpCalls > Cardinality(claimed)

Claim(j) ==
  /\ AwaitsClaim
  /\ ClaimNextJob(j)
  /\ claimed' = claimed \cup {j}
  /\ UNCHANGED <<up, stopping, failure, pumpCalls, active, aborted, aborting,
                 run, thread, restarts>>

NothingToClaim ==
  /\ AwaitsClaim
  /\ \A j \in JobIds : ~Claimable(j)
  /\ pumpCalls' = pumpCalls - 1
  /\ UNCHANGED <<storeVars, up, stopping, failure, claimed, active, aborted,
                 aborting, run, thread, restarts>>

\* claimNextJob throws: its transaction is undone and this.failure set.
ClaimThrows ==
  /\ AwaitsClaim
  /\ MayThrow
  /\ failure' = TRUE
  /\ pumpCalls' = pumpCalls - 1
  /\ UNCHANGED <<storeVars, up, stopping, claimed, active, aborted, aborting, run,
                 thread, restarts>>

\* The loop goes round while there is room; it does not look at stopping again.
Register(j) ==
  /\ j \in claimed
  /\ claimed' = claimed \ {j}
  /\ active' = active \cup {j}
  /\ run' = [run EXCEPT ![j] = "starting"]
  /\ pumpCalls' = IF Cardinality(active') < MaxConcurrent
                    THEN pumpCalls ELSE pumpCalls - 1
  /\ UNCHANGED <<storeVars, up, stopping, failure, aborted, aborting, thread, restarts>>

-----------------------------------------------------------------------------
(* The run of a job *)

Goto(j, phase) == run' = [run EXCEPT ![j] = phase]

\* The catch of run(): an abort explains whatever was thrown.
Thrown(j) == Goto(j, IF j \in aborted THEN "cancelling" ELSE "failing")

\* Faulty: a run that is over keeps its place.
KeepActive(j) ==
  /\ Goto(j, "none")
  /\ thread' = [thread EXCEPT ![j] = NoThread]
  /\ UNCHANGED <<active, aborted>>

\* The finally of the pump: the run and its controller are gone.
Forget(j) ==
  /\ active' = active \ {j}
  /\ aborted' = aborted \ {j}
  /\ Goto(j, "none")
  /\ thread' = [thread EXCEPT ![j] = NoThread]

\* mkdtemp succeeded, or the repository is known.
RunPrepared(j) ==
  /\ run[j] = "starting"
  /\ Goto(j, "reading")
  /\ UNCHANGED <<storeVars, runVars, active, aborted, thread>>

\* The repository was taken out of the configuration since the submission.
RepositoryGone(j) ==
  /\ run[j] = "starting"
  /\ jobs[j].kind = "coding.turn"
  /\ FailJob(j)
  /\ Goto(j, "ended")
  /\ UNCHANGED <<runVars, active, aborted, thread>>

\* Faulty: the rejection of a run is swallowed.
RunRejectsSilently(j) ==
  /\ run[j] \in {"starting", "failing", "cancelling"}
  /\ MayThrow
  /\ Forget(j)
  /\ UNCHANGED <<storeVars, up, stopping, failure, pumpCalls, claimed, aborting,
                 restarts>>

\* mkdtemp and the first failJob stand before the try, the last calls in the
\* catch: when one of them throws the run rejects, and its job stays running.
RunRejects(j) ==
  /\ run[j] \in {"starting", "failing", "cancelling"}
  /\ MayThrow
  /\ failure' = TRUE
  /\ Forget(j)
  /\ UNCHANGED <<storeVars, up, stopping, pumpCalls, claimed, aborting, restarts>>

RunReads(j) ==
  /\ run[j] = "reading"
  /\ thread' = [thread EXCEPT ![j] = conversations[jobs[j].conversation].backendThread]
  /\ Goto(j, "running")
  /\ UNCHANGED <<storeVars, runVars, active, aborted>>

RunEmits(j) ==
  /\ run[j] = "running"
  /\ AppendEvent(j)
  /\ UNCHANGED <<runVars, active, aborted, run, thread>>

\* A coding turn returns the id in the answer to thread/resume or thread/start.  The
\* runner does not compare it with the id it asked for: that a resumed thread keeps
\* its id and a new one has one of its own is assumed of the App Server.  The backends
\* of inference name a session of theirs as they like.
ReturnedThread(j, t) ==
  jobs[j].kind = "coding.turn" =>
    IF thread[j] # NoThread
      THEN t = thread[j]
      ELSE /\ \A c \in ConversationIds : conversations[c].backendThread # t
           /\ \A i \in JobIds : thread[i] # t

RunnerReturns(j) ==
  /\ run[j] = "running"
  /\ \E t \in Threads :
       /\ ReturnedThread(j, t)
       /\ thread' = [thread EXCEPT ![j] = t]
  /\ Goto(j, IF j \in aborted THEN "cancelling" ELSE "storing")
  /\ UNCHANGED <<storeVars, runVars, active, aborted>>

\* An error, a timeout, an abort, an overflow of the event log, or a result that
\* does not match the output schema.
RunnerThrows(j) ==
  /\ run[j] = "running"
  /\ Thrown(j)
  /\ UNCHANGED <<storeVars, runVars, active, aborted, thread>>

RunStoresThread(j) ==
  /\ run[j] = "storing"
  /\ UpdateBackendThread(jobs[j].conversation, thread[j])
  /\ Goto(j, "finishing")
  /\ UNCHANGED <<runVars, active, aborted, thread>>

RunCompletes(j) ==
  /\ run[j] = "finishing"
  /\ CompleteJob(j)
  /\ Goto(j, "ended")
  /\ UNCHANGED <<runVars, active, aborted, thread>>

\* A call inside the try throws; completeJob does before its transaction when the
\* result is larger than maxResultBytes.
CallThrows(j) ==
  /\ run[j] \in {"reading", "storing", "finishing"}
  /\ Thrown(j)
  /\ UNCHANGED <<storeVars, runVars, active, aborted, thread>>

RunFails(j) ==
  /\ run[j] = "failing"
  /\ FailJob(j)
  /\ Goto(j, "ended")
  /\ UNCHANGED <<runVars, active, aborted, thread>>

\* Faulty: no return after markCancelled.
RunCancelledGoesOn(j) ==
  /\ run[j] = "cancelling"
  /\ MarkCancelled(j)
  /\ Goto(j, "storing")
  /\ UNCHANGED <<runVars, active, aborted, thread>>

RunCancelled(j) ==
  /\ run[j] = "cancelling"
  /\ MarkCancelled(j)
  /\ Goto(j, "ended")
  /\ UNCHANGED <<runVars, active, aborted, thread>>

\* The workspace is removed.
RunEnds(j) ==
  /\ run[j] = "ended"
  /\ Forget(j)
  /\ UNCHANGED <<storeVars, runVars>>

\* What a run does next, sooner or later: an await of it is answered.
RunStep(j) ==
  \/ RunPrepared(j) \/ RepositoryGone(j) \/ RunRejects(j)
  \/ RunReads(j)
  \/ RunnerReturns(j) \/ RunnerThrows(j)
  \/ RunStoresThread(j)
  \/ RunCompletes(j) \/ CallThrows(j)
  \/ RunFails(j) \/ RunCancelled(j)
  \/ RunEnds(j)

-----------------------------------------------------------------------------
Init ==
  /\ StoreInit
  /\ up = FALSE
  /\ stopping = FALSE /\ failure = FALSE
  /\ pumpCalls = 0
  /\ claimed = {} /\ active = {} /\ aborted = {} /\ aborting = {}
  /\ run = [j \in JobIds |-> "none"]
  /\ thread = [j \in JobIds |-> NoThread]
  /\ restarts = 0

Next ==
  \/ Start \/ Crash \/ Stop \/ Exit
  \/ SubmitJob \/ Sweep \/ Clock
  \/ PumpBegins \/ NothingToClaim \/ ClaimThrows
  \/ \E j \in JobIds :
       RequestCancel(j) \/ AbortRun(j) \/ Claim(j) \/ Register(j)
         \/ RunStep(j) \/ RunEmits(j)

Spec == Init /\ [][Next]_vars

\* launchd starts a process again that crashed, the operator one that he stopped;
\* the pump is on a timer; a promise the event loop holds settles, and so does a
\* turn (AgentRunner); stop() is bounded by 30 s.  Nobody owes the gateway a
\* request, a cancellation, a sweep or a crash.
Fairness ==
  /\ WF_vars(Start \/ Exit)
  /\ WF_vars(PumpBegins)
  /\ WF_vars(NothingToClaim \/ \E j \in JobIds : Claim(j))
  /\ WF_vars(\E j \in JobIds : AbortRun(j) \/ Register(j))
  /\ \A j \in JobIds : WF_vars(RunStep(j))

FairSpec == Spec /\ Fairness

-----------------------------------------------------------------------------
(* Properties *)

\* "Queue and concurrency are bounded": the runs, and the claims that are about
\* to become runs, are never more than maxConcurrent, though the pump compares
\* active.size before the claim and registers the run after it.
ConcurrencyBounded == Cardinality(active \cup claimed) <= MaxConcurrent

\* A running job that no run of this process will end: its run was rejected.
Stranded(j) == up /\ IsRunning(j) /\ j \notin active \cup claimed

\* No turn of a conversation is claimed while a job of it is stranded.
WaitsForRestart(j) ==
  \E i \in JobIds : Stranded(i) /\ jobs[i].conversation = jobs[j].conversation

\* Database and memory agree: a run that has not made its last call owns a job
\* that is running, and a running job nobody owns makes the gateway unready.
OwnershipAgrees ==
  up =>
    /\ \A j \in active : run[j] # "ended" => IsRunning(j)
    /\ \A j \in claimed : IsRunning(j)
    /\ \A j \in JobIds : Stranded(j) => failure

\* The variables are typed, database and memory agree, and the limit holds.
ProcessorInv == ProcessorTypeOK /\ OwnershipAgrees /\ ConcurrencyBounded

\* "Active jobs receive cancellation on graceful shutdown": once stop() has run,
\* every run of the process has been aborted and none is to come.
StopReachesAll == stopping => active \subseteq aborted /\ claimed = {}

\* "Cancellation and shutdown interrupt active turns": a run whose job somebody
\* asked to cancel is aborted as soon as cancel() is through, wherever it is.
CancelReachesRun ==
  \A j \in active :
    IsRunning(j) /\ jobs[j].cancelRequested = 1 => j \in aborted \cup aborting

\* Both: whoever asks for it and at whatever step of the pump, of the claim or of the
\* run, no run goes on that should have been interrupted.
AbortReachesRuns == StopReachesAll /\ CancelReachesRun

\* "so its internal Codex thread cannot fork or be overwritten by racing jobs":
\* the thread a coding conversation once stored is its thread for good, if an App
\* Server that resumes a thread answers with its id (ReturnedThread).
ThreadNeverReplaced ==
  [][\A c \in ConversationIds :
       /\ conversations[c].repository # NoRepository
       /\ conversations[c].backendThread # NoThread
       /\ conversations'[c].owner # NoOwner
       => conversations'[c].backendThread = conversations[c].backendThread]_vars

\* Every accepted job ends, after however many crashes and shutdowns, unless a run
\* of its conversation was rejected, its own or an earlier turn's: then it waits
\* for the next restart.
EveryJobEnds ==
  \A j \in JobIds : IsActive(j) ~> IsTerminal(j) \/ WaitsForRestart(j)
=============================================================================
