-------------------------- MODULE JobProcessorProofs --------------------------
(* Theorems of JobProcessor, for every value of its constants. *)
EXTENDS JobProcessor, JobStoreProofs, FiniteSetTheorems

-----------------------------------------------------------------------------
(* The inductive invariant *)

\* A run is at a step while it is in active, its job is running until the run has
\* made its last call, and it stores a thread only when it holds one.
RunsSound ==
  \A j \in JobIds :
    /\ j \in active <=> run[j] # "none"
    /\ run[j] \notin {"none", "ended"} => IsRunning(j)
    /\ run[j] = "ended" => ~IsActive(j)
    /\ run[j] = "storing" => thread[j] \in Threads

\* One job at most is between its claim and its run.
ClaimsSound ==
  /\ \A j \in claimed : IsRunning(j) /\ run[j] = "none"
  /\ claimed # {} => pumpCalls = 1 /\ \E j \in JobIds : claimed = {j}

\* A pump has room for one more run.
PumpHasRoom == Cardinality(active) + pumpCalls <= MaxConcurrent

DownIsEmpty == ~up => active = {} /\ claimed = {} /\ pumpCalls = 0

StrandedIsUnready == \A j \in JobIds : Stranded(j) => failure

OwnershipInd == RunsSound /\ ClaimsSound /\ PumpHasRoom /\ DownIsEmpty /\ StrandedIsUnready

ProcessorInd == ProcessorTypeOK /\ StoreInv /\ OwnershipInd

-----------------------------------------------------------------------------
(* The calls of the store *)

\* Whatever the processor does, the store sees a call it allows, or none: a run
\* calls it only while its job is running.
LEMMA CallsAreAllowed ==
  ASSUME ProcessorInd, [Next]_vars
  PROVE  [StoreNext]_storeVars
<1>1. CASE Start
  BY <1>1 DEF Start, StoreNext, GatewayNext
<1>2. CASE Crash \/ Stop \/ Exit \/ PumpBegins \/ NothingToClaim \/ ClaimThrows
  BY <1>2 DEF Crash, Stop, Exit, ProcessEnds, PumpBegins, NothingToClaim, ClaimThrows
<1>3. CASE SubmitJob \/ Sweep \/ Clock
  BY <1>3 DEF SubmitJob, Sweep, Clock, StoreNext, GatewayNext
<1>4. ASSUME NEW j \in JobIds, RequestCancel(j) \/ AbortRun(j) \/ Claim(j) \/ Register(j)
      PROVE  [StoreNext]_storeVars
  BY <1>4 DEF RequestCancel, AbortRun, Claim, Register, StoreNext, GatewayNext
<1>5. ASSUME NEW j \in JobIds, RunStep(j) \/ RunEmits(j)
      PROVE  [StoreNext]_storeVars
  <2>1. CASE UNCHANGED storeVars
    BY <2>1
  <2>2. CASE RepositoryGone(j) \/ RunCompletes(j) \/ RunFails(j) \/ RunCancelled(j) \/ RunEmits(j)
    <3>1. IsRunning(j)
      BY <2>2 DEF ProcessorInd, OwnershipInd, RunsSound, RepositoryGone, RunCompletes, RunFails,
         RunCancelled, RunEmits
    <3>2. RunCall(j)
      BY <2>2, <3>1 DEF RepositoryGone, RunCompletes, RunFails, RunCancelled, RunEmits, RunCall
    <3> QED
      BY <3>2 DEF StoreNext, GatewayNext
  <2>3. CASE RunStoresThread(j)
    <3>1. IsRunning(j) /\ thread[j] \in Threads
      BY <2>3 DEF ProcessorInd, OwnershipInd, RunsSound, RunStoresThread
    <3>2. RunCall(j)
      BY <2>3, <3>1 DEF RunStoresThread, RunCall
    <3> QED
      BY <3>2 DEF StoreNext, GatewayNext
  <2>4. \/ UNCHANGED storeVars
        \/ RepositoryGone(j) \/ RunCompletes(j) \/ RunFails(j) \/ RunCancelled(j) \/ RunEmits(j)
        \/ RunStoresThread(j)
    BY <1>5 DEF RunStep, RunPrepared, RunRejects, RunReads, RunnerReturns, RunnerThrows,
       CallThrows, RunEnds
  <2> QED
    BY <2>1, <2>2, <2>3, <2>4
<1>6. CASE UNCHANGED vars
  BY <1>6 DEF vars
<1> QED
  BY <1>1, <1>2, <1>3, <1>4, <1>5, <1>6 DEF Next

-----------------------------------------------------------------------------
(* What a step does to the jobs of the runs *)

\* No run loses its job, and no job that is over begins again under its run.
Undisturbed ==
  \A j \in JobIds :
    /\ IsRunning(j)' <=> IsRunning(j)
    /\ j \in active /\ ~IsActive(j) => ~IsActive(j)'

LEMMA RowsDisturbNothing ==
  ASSUME StoreTypeOK, UNCHANGED jobs
  PROVE  Undisturbed
BY DEF Undisturbed, IsRunning, IsActive

LEMMA CancelDisturbsNothing ==
  ASSUME StoreTypeOK, NEW k \in JobIds, RequestCancellation(k)
  PROVE  Undisturbed
BY WrittenRows DEF RequestCancellation, Undisturbed, Rewritten, IsRunning, IsActive, ActiveStatus

LEMMA SweepDisturbsNothing ==
  ASSUME StoreTypeOK, PruneExpired
  PROVE  Undisturbed
BY PrunedRow DEF Undisturbed, Expired, IsRunning, IsActive, IsTerminal, ActiveStatus,
   TerminalStatus, NoJobRow

\* A submission writes a free row at most.
LEMMA SubmittedRows ==
  ASSUME StoreTypeOK, SubmitJob
  PROVE  \A j \in JobIds : jobs'[j] = jobs[j] \/ (FreshJob(j) /\ jobs'[j].status = "queued")
<1>1. PICK o \in Owners, c \in ConversationIds :
        \/ \E r \in Repositories : CreateConversation(c, o, r)
        \/ \E j \in JobIds, k \in Keys :
             \/ SubmitTurn(j, o, k, c)
             \/ \E r \in Repositories : SubmitRun(j, o, k, c, r)
             \/ SubmitInference(j, o, k, c)
  BY DEF SubmitJob, Submit
<1>2. CASE \E r \in Repositories : CreateConversation(c, o, r)
  BY <1>2 DEF CreateConversation
<1>3. ASSUME NEW j \in JobIds, NEW k \in Keys,
             \/ SubmitTurn(j, o, k, c)
             \/ \E r \in Repositories : SubmitRun(j, o, k, c, r)
             \/ SubmitInference(j, o, k, c)
      PROVE  \A i \in JobIds : jobs'[i] = jobs[i] \/ (FreshJob(i) /\ jobs'[i].status = "queued")
  <2>1. FreshJob(j) /\ \E kind \in JobKind : jobs' = [jobs EXCEPT ![j] = NewJob(o, c, kind)]
    BY <1>3 DEF SubmitTurn, SubmitRun, SubmitInference, InsertRun, InsertJob, JobKind
  <2> QED
    BY <2>1 DEF NewJob, StoreTypeOK
<1> QED
  BY <1>1, <1>2, <1>3

LEMMA SubmissionDisturbsNothing ==
  ASSUME StoreTypeOK, SubmitJob
  PROVE  Undisturbed
<1>1. \A j \in active : jobs'[j] = jobs[j]
  BY DEF SubmitJob
<1> QED
  BY <1>1, SubmittedRows
  DEF Undisturbed, FreshJob, JobExists, IsRunning, IsActive, ActiveStatus

\* The last call of a run ends its job, and no other.
LEMMA LastCall ==
  ASSUME StoreTypeOK, NEW j \in JobIds, CompleteJob(j) \/ FailJob(j) \/ MarkCancelled(j)
  PROVE  /\ ~IsActive(j)'
         /\ \A i \in JobIds \ {j} : jobs'[i] = jobs[i]
<1>1. \E status \in TerminalStatus, flag \in {0, 1} : Ends(j, status, flag)
  <2>1. Ends(j, "completed", 0) \/ Ends(j, "failed", 0) \/ Ends(j, "cancelled", 1)
    BY DEF CompleteJob, FailJob, MarkCancelled, FinalizeCancellation, Ends, TerminalEvent
  <2> QED
    BY <2>1 DEF TerminalStatus
<1> QED
  BY <1>1, WrittenRows DEF Rewritten, IsActive, ActiveStatus, TerminalStatus

-----------------------------------------------------------------------------
(* What a step does to the runs *)

\* A run goes on, or none moves.
LEMMA RunsGoOn ==
  ASSUME ProcessorInd, Undisturbed,
         UNCHANGED <<up, failure, active, claimed, pumpCalls>>,
         \A j \in JobIds :
           \/ run'[j] = run[j] /\ thread'[j] = thread[j]
           \/ /\ {run[j], run'[j]} \cap {"none", "ended"} = {}
              /\ run'[j] = "storing" => thread'[j] \in Threads
  PROVE  OwnershipInd'
<1> USE DEF ProcessorInd, OwnershipInd
<1>1. RunsSound'
  BY DEF RunsSound, Undisturbed
<1>2. ClaimsSound'
  BY DEF ClaimsSound, Undisturbed, ProcessorTypeOK
<1>3. PumpHasRoom' /\ DownIsEmpty'
  BY DEF PumpHasRoom, DownIsEmpty
<1>4. StrandedIsUnready'
  BY DEF StrandedIsUnready, Stranded, Undisturbed
<1> QED
  BY <1>1, <1>2, <1>3, <1>4

\* A run has made its last call.
LEMMA RunIsOver ==
  ASSUME ProcessorInd, NEW j \in JobIds, run[j] \notin {"none", "ended"}, Goto(j, "ended"),
         ~IsActive(j)', \A i \in JobIds \ {j} : jobs'[i] = jobs[i],
         UNCHANGED <<up, failure, active, claimed, pumpCalls, thread>>
  PROVE  OwnershipInd'
<1> USE DEF ProcessorInd, OwnershipInd
<1>1. run'[j] = "ended" /\ \A i \in JobIds \ {j} : run'[i] = run[i]
  BY DEF Goto, ProcessorTypeOK
<1>2. ~IsRunning(j)' /\ \A i \in JobIds \ {j} : /\ IsRunning(i)' <=> IsRunning(i)
                                                /\ IsActive(i)' <=> IsActive(i)
  BY DEF IsRunning, IsActive, ActiveStatus
<1>3. RunsSound'
  BY <1>1, <1>2 DEF RunsSound
<1>4. ClaimsSound'
  BY <1>1, <1>2 DEF ClaimsSound, ProcessorTypeOK
<1>5. PumpHasRoom' /\ DownIsEmpty'
  BY DEF PumpHasRoom, DownIsEmpty
<1>6. StrandedIsUnready'
  BY <1>2 DEF StrandedIsUnready, Stranded
<1> QED
  BY <1>3, <1>4, <1>5, <1>6

\* A run is forgotten, when its job is over or the gateway is unready.
LEMMA RunIsForgotten ==
  ASSUME ProcessorInd, NEW j \in JobIds, run[j] # "none", Forget(j),
         UNCHANGED <<storeVars, up, claimed, pumpCalls>>,
         (run[j] = "ended" /\ UNCHANGED failure) \/ failure' = TRUE
  PROVE  OwnershipInd'
<1> USE DEF ProcessorInd, OwnershipInd
<1>1. /\ active' = active \ {j} /\ run'[j] = "none"
      /\ \A i \in JobIds \ {j} : run'[i] = run[i] /\ thread'[i] = thread[i]
  BY DEF Forget, Goto, ProcessorTypeOK
<1>2. \A i \in JobIds : /\ IsRunning(i)' <=> IsRunning(i)
                        /\ IsActive(i)' <=> IsActive(i)
  BY DEF storeVars, IsRunning, IsActive
<1>3. RunsSound'
  BY <1>1, <1>2 DEF RunsSound
<1>4. ClaimsSound'
  BY <1>1, <1>2 DEF ClaimsSound, ProcessorTypeOK
<1>5. PumpHasRoom'
  <2>1. IsFiniteSet(active)
    BY LimitsAssumption, FS_Subset DEF ProcessorTypeOK
  <2>2. Cardinality(active') <= Cardinality(active)
    BY <1>1, <2>1, FS_Subset
  <2>3. Cardinality(active) \in Nat /\ Cardinality(active') \in Nat
    BY <1>1, <2>1, FS_Subset, FS_CardinalityType
  <2> QED
    BY <2>2, <2>3, ProcessorAssumption DEF PumpHasRoom, ProcessorTypeOK
<1>6. DownIsEmpty'
  BY <1>1 DEF DownIsEmpty
<1>7. StrandedIsUnready'
  <2>1. CASE failure' = TRUE
    BY <2>1 DEF StrandedIsUnready
  <2>2. CASE run[j] = "ended" /\ UNCHANGED failure
    <3>1. ~IsRunning(j)
      BY <2>2 DEF RunsSound, IsRunning, IsActive, ActiveStatus
    <3> QED
      BY <1>1, <1>2, <2>2, <3>1 DEF StrandedIsUnready, Stranded
  <2> QED
    BY <2>1, <2>2
<1> QED
  BY <1>3, <1>4, <1>5, <1>6, <1>7

-----------------------------------------------------------------------------
(* The step *)

LEMMA ActiveIsFinite ==
  ASSUME ProcessorTypeOK
  PROVE  /\ IsFiniteSet(active) /\ Cardinality(active) \in Nat
         /\ \A j \in JobIds : Cardinality(active \cup {j}) <= Cardinality(active) + 1
<1>1. IsFiniteSet(active) /\ Cardinality(active) \in Nat
  BY LimitsAssumption, FS_Subset, FS_CardinalityType DEF ProcessorTypeOK
<1>2. ASSUME NEW j \in JobIds
      PROVE  Cardinality(active \cup {j}) <= Cardinality(active) + 1
  <2>1. Cardinality(active \cup {j}) =
          IF j \in active THEN Cardinality(active) ELSE Cardinality(active) + 1
    BY <1>1, FS_AddElement
  <2> QED
    BY <1>1, <2>1
<1> QED
  BY <1>1, <1>2

\* A pump that waits for a claim has none.
LEMMA AwaitsWithoutClaim ==
  ASSUME ProcessorInd, AwaitsClaim
  PROVE  pumpCalls = 1 /\ claimed = {}
<1>1. CASE claimed = {}
  BY <1>1, FS_EmptySet DEF AwaitsClaim, ProcessorInd, ProcessorTypeOK
<1>2. CASE claimed # {}
  <2>1. PICK j \in JobIds : claimed = {j} /\ pumpCalls = 1
    BY <1>2 DEF ProcessorInd, OwnershipInd, ClaimsSound
  <2> QED
    BY <2>1, FS_Singleton DEF AwaitsClaim
<1> QED
  BY <1>1, <1>2

LEMMA OwnershipStep ==
  ASSUME ProcessorInd, [Next]_vars
  PROVE  OwnershipInd'
<1>0. /\ ProcessorTypeOK /\ StoreTypeOK
      /\ RunsSound /\ ClaimsSound /\ PumpHasRoom /\ DownIsEmpty /\ StrandedIsUnready
  BY DEF ProcessorInd, OwnershipInd, ProcessorTypeOK
<1>1. CASE Start
  <2>1. \A j \in JobIds : ~IsRunning(j)'
    BY <1>0, <1>1, RecoveredRow DEF Start, Rewritten, IsRunning
  <2>2. active' = {} /\ claimed' = {} /\ pumpCalls' = 0 /\ \A j \in JobIds : run'[j] = "none"
    BY <1>1 DEF Start, EmptyMemory
  <2>3. PumpHasRoom'
    BY <2>2, FS_EmptySet, ProcessorAssumption DEF PumpHasRoom
  <2> QED
    BY <2>1, <2>2, <2>3 DEF OwnershipInd, RunsSound, ClaimsSound, DownIsEmpty,
       StrandedIsUnready, Stranded
<1>2. CASE Crash \/ Exit
  <2>1. /\ active' = {} /\ claimed' = {} /\ pumpCalls' = 0 /\ \A j \in JobIds : run'[j] = "none"
        /\ ~up'
    BY <1>2 DEF Crash, Exit, ProcessEnds, EmptyMemory
  <2>2. PumpHasRoom'
    BY <2>1, FS_EmptySet, ProcessorAssumption DEF PumpHasRoom
  <2> QED
    BY <2>1, <2>2 DEF OwnershipInd, RunsSound, ClaimsSound, DownIsEmpty, StrandedIsUnready,
       Stranded
<1>3. CASE Stop \/ Sweep \/ SubmitJob \/ Clock
  <2>1. Undisturbed
    BY <1>0, <1>3, RowsDisturbNothing, SweepDisturbsNothing, SubmissionDisturbsNothing
    DEF Stop, Sweep, Clock, Tick, tables, storeVars
  <2> QED
    BY <1>3, <2>1, RunsGoOn DEF Stop, Sweep, SubmitJob, Clock, memory
<1>4. ASSUME NEW j \in JobIds, RequestCancel(j) \/ AbortRun(j)
      PROVE  OwnershipInd'
  <2>1. Undisturbed
    BY <1>0, <1>4, RowsDisturbNothing, CancelDisturbsNothing
    DEF RequestCancel, AbortRun, storeVars
  <2> QED
    BY <1>4, <2>1, RunsGoOn DEF RequestCancel, AbortRun
<1>5. CASE PumpBegins \/ NothingToClaim \/ ClaimThrows
  <2>1. CASE PumpBegins
    <3>1. pumpCalls = 0 /\ pumpCalls' = 1 /\ Cardinality(active) < MaxConcurrent /\ claimed = {}
      BY <1>0, <2>1 DEF PumpBegins, ClaimsSound
    <3>2. UNCHANGED <<jobs, up, failure, claimed, active, run, thread>>
      BY <2>1 DEF PumpBegins, storeVars
    <3>3. PumpHasRoom'
      BY <1>0, <3>1, <3>2, ActiveIsFinite, ProcessorAssumption DEF PumpHasRoom
    <3> QED
      BY <1>0, <2>1, <3>1, <3>2, <3>3 DEF PumpBegins, OwnershipInd, RunsSound, ClaimsSound,
         DownIsEmpty, StrandedIsUnready, Stranded, IsRunning, IsActive
  <2>2. CASE NothingToClaim \/ ClaimThrows
    <3>1. pumpCalls = 1 /\ claimed = {} /\ pumpCalls' = 0
      BY <2>2, AwaitsWithoutClaim DEF NothingToClaim, ClaimThrows
    <3>2. UNCHANGED <<jobs, up, claimed, active, run, thread>> /\ (failure => failure')
      BY <2>2 DEF NothingToClaim, ClaimThrows, storeVars
    <3>3. PumpHasRoom'
      BY <1>0, <3>1, <3>2, ActiveIsFinite, ProcessorAssumption DEF PumpHasRoom
    <3> QED
      BY <1>0, <3>1, <3>2, <3>3 DEF OwnershipInd, RunsSound, ClaimsSound, DownIsEmpty,
         StrandedIsUnready, Stranded, IsRunning, IsActive
  <2> QED
    BY <1>5, <2>1, <2>2
<1>6. ASSUME NEW j \in JobIds, Claim(j)
      PROVE  OwnershipInd'
  <2>1. pumpCalls = 1 /\ claimed = {} /\ claimed' = {j}
    BY <1>6, AwaitsWithoutClaim DEF Claim
  <2>2. UNCHANGED <<up, failure, pumpCalls, active, run, thread>>
    BY <1>6 DEF Claim
  <2>3. /\ jobs[j].status = "queued" /\ IsRunning(j)'
        /\ \A i \in JobIds \ {j} : jobs'[i] = jobs[i]
    BY <1>0, <1>6, WrittenRows DEF Claim, Rewritten, IsRunning
  <2>4. run[j] = "none"
    BY <1>0, <2>3 DEF RunsSound, IsRunning, IsActive, ActiveStatus
  <2>5. RunsSound'
    BY <1>0, <2>2, <2>3, <2>4 DEF RunsSound, IsRunning, IsActive
  <2>6. ClaimsSound'
    BY <2>1, <2>2, <2>3, <2>4 DEF ClaimsSound
  <2>7. PumpHasRoom' /\ DownIsEmpty'
    BY <1>0, <2>1, <2>2 DEF PumpHasRoom, DownIsEmpty
  <2>8. StrandedIsUnready'
    BY <1>0, <2>1, <2>2, <2>3 DEF StrandedIsUnready, Stranded, IsRunning
  <2> QED
    BY <2>5, <2>6, <2>7, <2>8 DEF OwnershipInd
<1>7. ASSUME NEW j \in JobIds, Register(j)
      PROVE  OwnershipInd'
  <2>1. claimed = {j} /\ pumpCalls = 1 /\ IsRunning(j) /\ run[j] = "none"
    BY <1>0, <1>7 DEF Register, ClaimsSound
  <2>2. /\ claimed' = {} /\ active' = active \cup {j}
        /\ run'[j] = "starting" /\ \A i \in JobIds \ {j} : run'[i] = run[i]
    BY <1>0, <1>7, <2>1 DEF Register, ProcessorTypeOK
  <2>3. UNCHANGED <<jobs, up, failure, thread>>
    BY <1>7 DEF Register, storeVars
  <2>4. RunsSound'
    BY <1>0, <2>1, <2>2, <2>3 DEF RunsSound, IsRunning, IsActive
  <2>5. ClaimsSound'
    BY <2>2 DEF ClaimsSound
  <2>6. PumpHasRoom'
    <3>1. Cardinality(active') <= Cardinality(active) + 1
      BY <1>0, <2>2, ActiveIsFinite
    <3>2. Cardinality(active) \in Nat /\ Cardinality(active') \in Nat
      <4>1. active' \subseteq JobIds
        BY <1>0, <2>2 DEF ProcessorTypeOK
      <4> QED
        BY <1>0, <4>1, ActiveIsFinite, LimitsAssumption, FS_Subset, FS_CardinalityType
    <3>3. pumpCalls' = IF Cardinality(active') < MaxConcurrent THEN 1 ELSE 0
      BY <1>7, <2>1 DEF Register
    <3> QED
      BY <1>0, <2>1, <3>1, <3>2, <3>3, ProcessorAssumption DEF PumpHasRoom
  <2>7. DownIsEmpty'
    BY <1>0, <2>1, <2>3 DEF DownIsEmpty
  <2>8. StrandedIsUnready'
    BY <1>0, <2>1, <2>2, <2>3 DEF StrandedIsUnready, Stranded, IsRunning
  <2> QED
    BY <2>4, <2>5, <2>6, <2>7, <2>8 DEF OwnershipInd
<1>8. ASSUME NEW j \in JobIds, RunStep(j) \/ RunEmits(j)
      PROVE  OwnershipInd'
  <2>1. CASE RunPrepared(j) \/ RunReads(j) \/ RunnerThrows(j) \/ CallThrows(j)
    <3>1. Undisturbed
      BY <1>0, <2>1, RowsDisturbNothing
      DEF RunPrepared, RunReads, RunnerThrows, CallThrows, storeVars
    <3>2. run'[j] \in {"reading", "running", "cancelling", "failing"}
      BY <1>0, <2>1
      DEF RunPrepared, RunReads, RunnerThrows, CallThrows, Thrown, Goto, ProcessorTypeOK
    <3>3. run[j] \in {"starting", "reading", "running", "storing", "finishing"}
      BY <2>1 DEF RunPrepared, RunReads, RunnerThrows, CallThrows
    <3>4. \A i \in JobIds \ {j} : run'[i] = run[i] /\ thread'[i] = thread[i]
      BY <1>0, <2>1
      DEF RunPrepared, RunReads, RunnerThrows, CallThrows, Thrown, Goto, ProcessorTypeOK
    <3>5. UNCHANGED <<up, failure, active, claimed, pumpCalls>>
      BY <2>1 DEF RunPrepared, RunReads, RunnerThrows, CallThrows, runVars
    <3> QED
      BY <3>1, <3>2, <3>3, <3>4, <3>5, RunsGoOn
  <2>2. CASE RunnerReturns(j)
    <3>1. Undisturbed
      BY <1>0, <2>2, RowsDisturbNothing DEF RunnerReturns, storeVars
    <3>2. /\ run[j] = "running" /\ run'[j] \in {"cancelling", "storing"}
          /\ thread'[j] \in Threads
          /\ \A i \in JobIds \ {j} : run'[i] = run[i] /\ thread'[i] = thread[i]
      BY <1>0, <2>2 DEF RunnerReturns, Goto, ProcessorTypeOK
    <3>3. UNCHANGED <<up, failure, active, claimed, pumpCalls>>
      BY <2>2 DEF RunnerReturns, runVars
    <3> QED
      BY <3>1, <3>2, <3>3, RunsGoOn
  <2>3. CASE RunStoresThread(j) \/ RunEmits(j)
    <3>1. Undisturbed
      BY <1>0, <2>3, RowsDisturbNothing
      DEF RunStoresThread, RunEmits, UpdateBackendThread, AppendEvent
    <3>2. /\ run[j] \in {"storing", "running"} /\ run'[j] \in {"finishing", "running"}
          /\ \A i \in JobIds \ {j} : run'[i] = run[i]
      BY <1>0, <2>3 DEF RunStoresThread, RunEmits, Goto, ProcessorTypeOK
    <3>3. UNCHANGED <<up, failure, active, claimed, pumpCalls, thread>>
      BY <2>3 DEF RunStoresThread, RunEmits, runVars
    <3> QED
      BY <3>1, <3>2, <3>3, RunsGoOn
  <2>4. CASE RepositoryGone(j) \/ RunCompletes(j) \/ RunFails(j) \/ RunCancelled(j)
    <3>1. CompleteJob(j) \/ FailJob(j) \/ MarkCancelled(j)
      BY <2>4 DEF RepositoryGone, RunCompletes, RunFails, RunCancelled
    <3>2. run[j] \notin {"none", "ended"} /\ Goto(j, "ended")
      BY <2>4 DEF RepositoryGone, RunCompletes, RunFails, RunCancelled
    <3>3. UNCHANGED <<up, failure, active, claimed, pumpCalls, thread>>
      BY <2>4 DEF RepositoryGone, RunCompletes, RunFails, RunCancelled, runVars
    <3> QED
      BY <1>0, <3>1, <3>2, <3>3, LastCall, RunIsOver
  <2>5. CASE RunEnds(j)
    BY <2>5, RunIsForgotten DEF RunEnds, runVars
  <2>6. CASE RunRejects(j)
    BY <2>6, RunIsForgotten DEF RunRejects
  <2> QED
    BY <1>8, <2>1, <2>2, <2>3, <2>4, <2>5, <2>6 DEF RunStep
<1>9. CASE UNCHANGED vars
  BY <1>0, <1>9, RowsDisturbNothing, RunsGoOn DEF vars, storeVars, memory
<1> QED
  BY <1>1, <1>2, <1>3, <1>4, <1>5, <1>6, <1>7, <1>8, <1>9 DEF Next

\* The variables of the processor keep their types.
LEMMA ProcessorTypeStep ==
  ASSUME ProcessorInd, [Next]_vars, StoreTypeOK'
  PROVE  ProcessorTypeOK'
<1>0. ProcessorTypeOK /\ StoreTypeOK /\ RunsSound /\ ClaimsSound
  BY DEF ProcessorInd, OwnershipInd, ProcessorTypeOK
<1>1. CASE Start \/ Crash \/ Exit
  <2>1. EmptyMemory /\ up' \in BOOLEAN
    BY <1>1 DEF Start, Crash, Exit, ProcessEnds
  <2>2. restarts' \in 0 .. MaxRestarts
    BY <1>0, <1>1, ProcessorAssumption DEF Start, Crash, Exit, ProcessEnds, ProcessorTypeOK
  <2>3. run' \in [JobIds -> Phase] /\ thread' \in [JobIds -> Threads \cup {NoThread}]
    BY <2>1 DEF EmptyMemory, Phase
  <2>4. pumpCalls' \in 0 .. 1
    BY <2>1 DEF EmptyMemory
  <2>5. /\ stopping' \in BOOLEAN /\ failure' \in BOOLEAN
        /\ claimed' = {} /\ active' = {} /\ aborted' = {} /\ aborting' = {}
    BY <2>1 DEF EmptyMemory
  <2> QED
    BY <2>1, <2>2, <2>3, <2>4, <2>5 DEF ProcessorTypeOK
<1>2. CASE Stop \/ Sweep \/ SubmitJob \/ Clock
  BY <1>0, <1>2 DEF Stop, Sweep, SubmitJob, Clock, memory, ProcessorTypeOK
<1>3. CASE PumpBegins
  BY <1>0, <1>3 DEF PumpBegins, ProcessorTypeOK
<1>4. CASE NothingToClaim \/ ClaimThrows
  <2>1. pumpCalls' = 0
    BY <1>4, AwaitsWithoutClaim DEF NothingToClaim, ClaimThrows
  <2>2. /\ UNCHANGED <<storeVars, up, stopping, claimed, active, aborted, aborting, run, thread,
                        restarts>>
        /\ failure' \in BOOLEAN
    BY <1>0, <1>4 DEF NothingToClaim, ClaimThrows, ProcessorTypeOK
  <2> QED
    BY <1>0, <2>1, <2>2 DEF ProcessorTypeOK
<1>5. ASSUME NEW j \in JobIds, RequestCancel(j) \/ AbortRun(j) \/ Claim(j)
      PROVE  ProcessorTypeOK'
  BY <1>0, <1>5 DEF RequestCancel, AbortRun, Claim, ProcessorTypeOK
<1>6. ASSUME NEW j \in JobIds, Register(j)
      PROVE  ProcessorTypeOK'
  <2>1. pumpCalls = 1
    BY <1>0, <1>6 DEF Register, ClaimsSound
  <2>2. pumpCalls' \in {1, 0}
    BY <1>6, <2>1 DEF Register
  <2> QED
    BY <1>0, <1>6, <2>2 DEF Register, ProcessorTypeOK, Phase
<1>7. ASSUME NEW j \in JobIds, RunReads(j)
      PROVE  ProcessorTypeOK'
  <2>1. IsRunning(j)
    BY <1>0, <1>7 DEF RunReads, RunsSound
  <2>2. jobs[j].conversation \in ConversationIds
    BY <2>1 DEF ProcessorInd, StoreInv, ConversationIntact, JobExists, IsRunning
  <2>3. conversations[jobs[j].conversation].backendThread \in Threads \cup {NoThread}
    BY <1>0, <2>2 DEF StoreTypeOK, ConversationRow
  <2> QED
    BY <1>0, <1>7, <2>3 DEF RunReads, Goto, runVars, ProcessorTypeOK, Phase
<1>8. ASSUME NEW j \in JobIds,
             \/ RunPrepared(j) \/ RunnerThrows(j) \/ CallThrows(j) \/ RunStoresThread(j)
             \/ RunEmits(j) \/ RepositoryGone(j) \/ RunCompletes(j) \/ RunFails(j)
             \/ RunCancelled(j)
      PROVE  ProcessorTypeOK'
  <2>1. run' \in [JobIds -> Phase]
    BY <1>0, <1>8 DEF RunPrepared, RunnerThrows, CallThrows, RunStoresThread, RunEmits,
       RepositoryGone, RunCompletes, RunFails, RunCancelled, Thrown, Goto, ProcessorTypeOK, Phase
  <2>2. UNCHANGED <<runVars, active, aborted, thread>>
    BY <1>8 DEF RunPrepared, RunnerThrows, CallThrows, RunStoresThread, RunEmits,
       RepositoryGone, RunCompletes, RunFails, RunCancelled
  <2> QED
    BY <1>0, <2>1, <2>2 DEF runVars, ProcessorTypeOK
<1>9. ASSUME NEW j \in JobIds, RunnerReturns(j)
      PROVE  ProcessorTypeOK'
  BY <1>0, <1>9 DEF RunnerReturns, Goto, runVars, ProcessorTypeOK, Phase
<1>10. ASSUME NEW j \in JobIds, RunEnds(j) \/ RunRejects(j)
       PROVE  ProcessorTypeOK'
  BY <1>0, <1>10 DEF RunEnds, RunRejects, Forget, Goto, runVars, ProcessorTypeOK, Phase
<1>11. CASE UNCHANGED vars
  BY <1>0, <1>11 DEF vars, memory, ProcessorTypeOK
<1> QED
  BY <1>1, <1>2, <1>3, <1>4, <1>5, <1>6, <1>7, <1>8, <1>9, <1>10, <1>11 DEF Next, RunStep

LEMMA ProcessorInit == Init => ProcessorInd
<1> SUFFICES ASSUME Init PROVE ProcessorInd
  OBVIOUS
<1>1. StoreTypeOK /\ StoreInv
  BY StoreInitTypeOK, StoreInitInv DEF Init
<1>2. ProcessorTypeOK
  <2>1. pumpCalls \in 0 .. 1 /\ restarts \in 0 .. MaxRestarts
    BY ProcessorAssumption DEF Init
  <2> QED
    BY <1>1, <2>1 DEF Init, ProcessorTypeOK, Phase
<1>3. Cardinality({}) = 0
  BY FS_EmptySet
<1>4. OwnershipInd
  BY <1>3, ProcessorAssumption DEF Init, OwnershipInd, RunsSound, ClaimsSound, PumpHasRoom,
     DownIsEmpty, StrandedIsUnready, Stranded
<1> QED
  BY <1>1, <1>2, <1>4 DEF ProcessorInd

LEMMA ProcessorStep == ProcessorInd /\ [Next]_vars => ProcessorInd'
<1> SUFFICES ASSUME ProcessorInd, [Next]_vars PROVE ProcessorInd'
  OBVIOUS
<1>1. [StoreNext]_storeVars /\ StoreTypeOK /\ StoreInv
  BY CallsAreAllowed DEF ProcessorInd, ProcessorTypeOK
<1>2. StoreTypeOK' /\ StoreInv'
  BY <1>1, StoreStepTypeOK, StoreStepInv
<1> QED
  BY <1>2, ProcessorTypeStep, OwnershipStep DEF ProcessorInd

LEMMA ProcessorInvariant == Spec => []ProcessorInd
BY ProcessorInit, ProcessorStep, PTL DEF Spec

-----------------------------------------------------------------------------
(* Theorems *)

\* The processor keeps to the protocol of the store through crashes, shutdowns and
\* rejected runs, so that everything proved of the store holds of the gateway.
THEOREM ProcessorImplementsStore == Spec => StoreSpec
<1>1. ProcessorInd /\ [Next]_vars => [StoreNext]_storeVars
  BY CallsAreAllowed
<1>2. Init => StoreInit
  BY DEF Init
<1> QED
  BY <1>1, <1>2, ProcessorInvariant, PTL DEF Spec, StoreSpec

\* The variables are typed, database and memory agree about who owns a job, and
\* no interleaving of pumps, claims and runs exceeds the limit.
THEOREM ProcessorCorrect == Spec => []ProcessorInv
<1>1. ASSUME ProcessorInd PROVE ProcessorInv
  <2>1. OwnershipAgrees
    BY <1>1 DEF ProcessorInd, ProcessorTypeOK, OwnershipInd, OwnershipAgrees, RunsSound,
       ClaimsSound, StrandedIsUnready
  <2>2. ConcurrencyBounded
    <3>1. /\ Cardinality(active) \in Nat /\ pumpCalls \in 0 .. 1
          /\ Cardinality(active) + pumpCalls <= MaxConcurrent
      BY <1>1, ActiveIsFinite DEF ProcessorInd, OwnershipInd, PumpHasRoom, ProcessorTypeOK
    <3>2. CASE claimed = {}
      <4>1. active \cup claimed = active
        BY <3>2
      <4>2. Cardinality(active) <= MaxConcurrent
        BY <3>1, ProcessorAssumption
      <4> QED
        BY <4>1, <4>2 DEF ConcurrencyBounded
    <3>3. CASE claimed # {}
      <4>1. PICK j \in JobIds : claimed = {j} /\ pumpCalls = 1
        BY <1>1, <3>3 DEF ProcessorInd, OwnershipInd, ClaimsSound
      <4>2. Cardinality(active \cup claimed) <= Cardinality(active) + 1
        BY <1>1, <4>1, ActiveIsFinite DEF ProcessorInd
      <4>3. Cardinality(active \cup claimed) \in Nat
        BY <1>1, LimitsAssumption, FS_Subset, FS_CardinalityType
        DEF ProcessorInd, ProcessorTypeOK
      <4> QED
        BY <3>1, <4>1, <4>2, <4>3, ProcessorAssumption DEF ConcurrencyBounded
    <3> QED
      BY <3>2, <3>3
  <2> QED
    BY <1>1, <2>1, <2>2 DEF ProcessorInv, ProcessorInd
<1> QED
  BY <1>1, ProcessorInvariant, PTL

-----------------------------------------------------------------------------
(* Aborts *)

\* Without a yield in the claim: stop() finds no pump at work, and cancel() no
\* claim that is not yet a run.
AbortInd ==
  /\ stopping => pumpCalls = 0 /\ active \subseteq aborted
  /\ \A j \in claimed : jobs[j].cancelRequested = 0
  /\ CancelReachesRun

LEMMA AbortStep ==
  ASSUME ~YieldsInClaim, ProcessorInd, AbortInd, [Next]_vars
  PROVE  AbortInd'
<1>0. /\ ProcessorTypeOK /\ StoreTypeOK
      /\ RunsSound /\ ClaimsSound /\ DownIsEmpty
      /\ CancelReachesRun
  BY DEF ProcessorInd, OwnershipInd, ProcessorTypeOK, AbortInd
<1>1. CASE Start \/ Crash \/ Exit
  <2>1. EmptyMemory
    BY <1>1 DEF Start, Crash, Exit, ProcessEnds
  <2> QED
    BY <2>1 DEF EmptyMemory, AbortInd, CancelReachesRun
<1>2. CASE Stop
  <2>1. pumpCalls = 0 /\ claimed = {}
    BY <1>0, <1>2 DEF Stop, MayInterleave, ClaimsSound
  <2>2. UNCHANGED <<jobs, pumpCalls, claimed, active, aborting>> /\ aborted' = aborted \cup active
    BY <1>2 DEF Stop, storeVars
  <2> QED
    BY <1>0, <2>1, <2>2 DEF AbortInd, CancelReachesRun, IsRunning
<1>3. CASE Sweep \/ SubmitJob \/ Clock
  <2>1. UNCHANGED memory
    BY <1>3 DEF Sweep, SubmitJob, Clock
  <2>2. \A j \in active \cup claimed : IsRunning(j) => jobs'[j] = jobs[j]
    <3>1. CASE Sweep
      BY <1>0, <3>1, PrunedRow
      DEF Sweep, Expired, IsTerminal, IsRunning, TerminalStatus, ProcessorTypeOK
    <3>2. CASE SubmitJob
      BY <1>0, <3>2, SubmittedRows DEF FreshJob, JobExists, IsRunning, ProcessorTypeOK
    <3>3. CASE Clock
      BY <3>3 DEF Clock, Tick, tables
    <3> QED
      BY <1>3, <3>1, <3>2, <3>3
  <2>3. Undisturbed
    BY <1>0, <1>3, RowsDisturbNothing, SweepDisturbsNothing, SubmissionDisturbsNothing
    DEF Sweep, Clock, Tick, tables
  <2>4. \A j \in claimed : jobs'[j].cancelRequested = 0
    BY <1>0, <2>2 DEF AbortInd, ClaimsSound
  <2>5. CancelReachesRun'
    BY <1>0, <2>1, <2>2, <2>3 DEF CancelReachesRun, memory, Undisturbed, ProcessorTypeOK
  <2> QED
    BY <2>1, <2>4, <2>5 DEF AbortInd, memory
<1>4. CASE PumpBegins \/ NothingToClaim \/ ClaimThrows
  <2>1. UNCHANGED <<jobs, stopping, claimed, active, aborted, aborting>>
    BY <1>4 DEF PumpBegins, NothingToClaim, ClaimThrows, storeVars
  <2>2. ~stopping
    <3>1. CASE PumpBegins
      BY <3>1 DEF PumpBegins
    <3>2. CASE NothingToClaim \/ ClaimThrows
      BY <3>2, AwaitsWithoutClaim DEF NothingToClaim, ClaimThrows, AbortInd
    <3> QED
      BY <1>4, <3>1, <3>2
  <2> QED
    BY <2>1, <2>2 DEF AbortInd, CancelReachesRun, IsRunning
<1>5. ASSUME NEW j \in JobIds, RequestCancel(j)
      PROVE  AbortInd'
  <2>1. claimed = {} /\ UNCHANGED <<stopping, pumpCalls, claimed, active, aborted>>
    BY <1>0, <1>5 DEF RequestCancel, MayInterleave, ClaimsSound
  <2>2. aborting' = IF IsRunning(j) THEN aborting \cup {j} ELSE aborting
    BY <1>5 DEF RequestCancel
  <2>3. /\ \A i \in JobIds \ {j} : jobs'[i] = jobs[i]
        /\ IsRunning(j)' <=> IsRunning(j)
    BY <1>0, <1>5, WrittenRows DEF RequestCancel, RequestCancellation, Rewritten, IsRunning
  <2>4. CancelReachesRun'
    BY <1>0, <2>1, <2>2, <2>3 DEF CancelReachesRun, IsRunning, ProcessorTypeOK
  <2> QED
    BY <2>1, <2>4 DEF AbortInd
<1>6. ASSUME NEW j \in JobIds, AbortRun(j)
      PROVE  AbortInd'
  <2>1. UNCHANGED <<jobs, stopping, pumpCalls, claimed, active>>
    BY <1>6 DEF AbortRun, storeVars
  <2>2. aborting' = aborting \ {j} /\ aborted' = aborted \cup ({j} \cap active)
    BY <1>6 DEF AbortRun
  <2> QED
    BY <2>1, <2>2 DEF AbortInd, CancelReachesRun, IsRunning
<1>7. ASSUME NEW j \in JobIds, Claim(j)
      PROVE  AbortInd'
  <2>1. pumpCalls = 1 /\ claimed' = {j} /\ UNCHANGED <<stopping, pumpCalls, active, aborted, aborting>>
    BY <1>7, AwaitsWithoutClaim DEF Claim
  <2>2. /\ jobs[j].status = "queued" /\ jobs'[j].cancelRequested = 0
        /\ \A i \in JobIds \ {j} : jobs'[i] = jobs[i]
    BY <1>0, <1>7, WrittenRows DEF Claim, Rewritten
  <2>3. CancelReachesRun'
    BY <1>0, <2>1, <2>2 DEF CancelReachesRun, IsRunning, ProcessorTypeOK
  <2> QED
    BY <2>1, <2>2, <2>3 DEF AbortInd
<1>8. ASSUME NEW j \in JobIds, Register(j)
      PROVE  AbortInd'
  <2>1. /\ pumpCalls = 1 /\ j \in claimed /\ claimed' = {} /\ active' = active \cup {j}
        /\ UNCHANGED <<jobs, stopping, aborted, aborting>>
    BY <1>0, <1>8 DEF Register, ClaimsSound, storeVars
  <2>2. jobs[j].cancelRequested = 0 /\ ~stopping
    BY <2>1 DEF AbortInd
  <2> QED
    BY <1>0, <2>1, <2>2 DEF AbortInd, CancelReachesRun, IsRunning
<1>9. ASSUME NEW j \in JobIds, RunStep(j) \/ RunEmits(j)
      PROVE  AbortInd'
  <2>1. CASE RunEnds(j) \/ RunRejects(j)
    <3>1. /\ active' = active \ {j} /\ aborted' = aborted \ {j}
          /\ UNCHANGED <<jobs, stopping, pumpCalls, claimed, aborting>>
      BY <2>1 DEF RunEnds, RunRejects, Forget, runVars, storeVars
    <3> QED
      BY <1>0, <3>1 DEF AbortInd, CancelReachesRun, IsRunning
  <2>2. CASE RepositoryGone(j) \/ RunCompletes(j) \/ RunFails(j) \/ RunCancelled(j)
    <3>1. CompleteJob(j) \/ FailJob(j) \/ MarkCancelled(j)
      BY <2>2 DEF RepositoryGone, RunCompletes, RunFails, RunCancelled
    <3>2. UNCHANGED <<stopping, pumpCalls, claimed, active, aborted, aborting>>
      BY <2>2 DEF RepositoryGone, RunCompletes, RunFails, RunCancelled, runVars
    <3>3. ~IsActive(j)' /\ \A i \in JobIds \ {j} : jobs'[i] = jobs[i]
      BY <1>0, <3>1, LastCall
    <3>4. j \notin claimed
      BY <1>0, <2>2
      DEF ClaimsSound, RepositoryGone, RunCompletes, RunFails, RunCancelled
    <3> QED
      BY <1>0, <3>2, <3>3, <3>4
      DEF AbortInd, CancelReachesRun, IsRunning, IsActive, ActiveStatus, ProcessorTypeOK
  <2>3. CASE \/ RunPrepared(j) \/ RunReads(j) \/ RunnerReturns(j) \/ RunnerThrows(j)
             \/ RunStoresThread(j) \/ CallThrows(j) \/ RunEmits(j)
    <3>1. UNCHANGED <<jobs, stopping, pumpCalls, claimed, active, aborted, aborting>>
      BY <2>3 DEF RunPrepared, RunReads, RunnerReturns, RunnerThrows, RunStoresThread, CallThrows,
         RunEmits, runVars, storeVars, UpdateBackendThread, AppendEvent
    <3> QED
      BY <3>1 DEF AbortInd, CancelReachesRun, IsRunning
  <2> QED
    BY <1>9, <2>1, <2>2, <2>3 DEF RunStep
<1>10. CASE UNCHANGED vars
  BY <1>10 DEF vars, memory, storeVars, AbortInd, CancelReachesRun, IsRunning
<1> QED
  BY <1>1, <1>2, <1>3, <1>4, <1>5, <1>6, <1>7, <1>8, <1>9, <1>10 DEF Next

\* Wherever the pump, a claim or a run is when somebody cancels or stop() is called,
\* the run is aborted, as long as nothing runs between the statements of a claim and
\* the registration of its run.
THEOREM AbortsReachRuns == ~YieldsInClaim => (Spec => []AbortReachesRuns)
<1> SUFFICES ASSUME ~YieldsInClaim PROVE Spec => []AbortReachesRuns
  OBVIOUS
<1>1. Init => AbortInd
  BY DEF Init, AbortInd, CancelReachesRun
<1>2. ProcessorInd /\ AbortInd /\ [Next]_vars => AbortInd'
  BY AbortStep
<1>3. ProcessorInd /\ AbortInd => AbortReachesRuns
  BY DEF ProcessorInd, OwnershipInd, ClaimsSound, AbortInd, AbortReachesRuns, StopReachesAll
<1> QED
  BY <1>1, <1>2, <1>3, ProcessorInvariant, PTL DEF Spec

-----------------------------------------------------------------------------
(* Threads *)

\* A coding turn holds the thread of its conversation, or the first it will have;
\* a conversation that is free has none.
ThreadInd ==
  /\ \A j \in JobIds : jobs[j].kind = "coding.turn" =>
       LET stored == conversations[jobs[j].conversation].backendThread IN
       /\ run[j] = "running" => thread[j] = stored
       /\ run[j] = "storing" => stored \in {NoThread, thread[j]}
  /\ \A c \in ConversationIds :
       FreshConversation(c) => conversations[c].backendThread = NoThread

ThreadKept(c) ==
  /\ conversations'[c].backendThread = conversations[c].backendThread
  /\ conversations'[c].owner = conversations[c].owner

ThreadStored(j, c) ==
  /\ RunStoresThread(j)
  /\ c = jobs[j].conversation
  /\ ConversationExists(c)
  /\ conversations'[c].backendThread = thread[j]
  /\ conversations'[c].owner = conversations[c].owner

\* The sweep takes a conversation away when no job is left in it.
LEMMA SweptConversations ==
  ASSUME StoreTypeOK, PruneExpired, NEW c \in ConversationIds
  PROVE  \/ ThreadKept(c)
         \/ /\ conversations'[c] = NoConversationRow
            /\ \A j \in JobIds : IsRunning(j) => jobs[j].conversation # c
<1> DEFINE gone == {j \in JobIds : Expired(j)}
<1>1. conversations'[c] = IF Idle(c, gone) THEN NoConversationRow ELSE conversations[c]
  BY DEF PruneExpired
<1>2. ASSUME Idle(c, gone), NEW j \in JobIds, IsRunning(j)
      PROVE  jobs[j].conversation # c
  BY <1>2 DEF Idle, Expired, IsRunning, IsTerminal, TerminalStatus
<1> QED
  BY <1>1, <1>2 DEF ThreadKept

\* Only a free conversation is created.
LEMMA SubmittedConversations ==
  ASSUME StoreTypeOK, Submit, NEW d \in ConversationIds
  PROVE  \/ ThreadKept(d)
         \/ FreshConversation(d) /\ conversations'[d].backendThread = NoThread
<1>0. conversations \in [ConversationIds -> ConversationRow]
  BY DEF StoreTypeOK
<1>1. PICK o \in Owners, c \in ConversationIds :
        \/ \E r \in Repositories : CreateConversation(c, o, r)
        \/ \E j \in JobIds, k \in Keys :
             \/ SubmitTurn(j, o, k, c)
             \/ \E r \in Repositories : SubmitRun(j, o, k, c, r)
             \/ SubmitInference(j, o, k, c)
  BY DEF Submit
<1>2. ASSUME NEW r \in Repositories, CreateConversation(c, o, r)
      PROVE  \/ ThreadKept(d)
             \/ FreshConversation(d) /\ conversations'[d].backendThread = NoThread
  BY <1>0, <1>2 DEF CreateConversation, ThreadKept
<1>3. ASSUME NEW j \in JobIds, NEW k \in Keys, SubmitTurn(j, o, k, c)
      PROVE  ThreadKept(d)
  BY <1>0, <1>3 DEF SubmitTurn, ThreadKept, ConversationRow
<1>4. ASSUME NEW j \in JobIds, NEW k \in Keys, NEW kind \in JobKind,
             NEW r \in Repositories \cup {NoRepository}, InsertRun(j, o, k, c, r, kind)
      PROVE  \/ ThreadKept(d)
             \/ FreshConversation(d) /\ conversations'[d].backendThread = NoThread
  BY <1>0, <1>4 DEF InsertRun, ThreadKept
<1> QED
  BY <1>1, <1>2, <1>3, <1>4 DEF SubmitRun, SubmitInference, JobKind

\* What a step may do to the thread of a conversation.
LEMMA ThreadCases ==
  ASSUME ProcessorInd, [Next]_vars, NEW c \in ConversationIds
  PROVE  \/ ThreadKept(c)
         \/ FreshConversation(c) /\ conversations'[c].backendThread = NoThread
         \/ /\ conversations'[c] = NoConversationRow
            /\ \A j \in JobIds : IsRunning(j) => jobs[j].conversation # c
         \/ \E j \in JobIds : ThreadStored(j, c)
<1>0. StoreTypeOK
  BY DEF ProcessorInd, ProcessorTypeOK
<1>1. CASE SubmitJob
  BY <1>0, <1>1, SubmittedConversations DEF SubmitJob
<1>2. CASE Sweep
  BY <1>0, <1>2, SweptConversations DEF Sweep
<1>3. ASSUME NEW j \in JobIds, RunStoresThread(j)
      PROVE  ThreadKept(c) \/ ThreadStored(j, c)
  BY <1>0, <1>3
  DEF RunStoresThread, UpdateBackendThread, ThreadKept, ThreadStored, StoreTypeOK,
      ConversationRow, ConversationExists
<1>4. CASE UNCHANGED conversations
  BY <1>4 DEF ThreadKept
<1>5. \/ SubmitJob \/ Sweep \/ UNCHANGED conversations
      \/ \E j \in JobIds : RunStoresThread(j)
  <2>1. CASE Start \/ Crash \/ Stop \/ Exit \/ Clock \/ PumpBegins \/ NothingToClaim \/ ClaimThrows
    BY <2>1 DEF Start, RecoverInterruptedJobs, Crash, Stop, Exit, ProcessEnds, Clock, Tick,
       tables, PumpBegins, NothingToClaim, ClaimThrows, storeVars
  <2>2. ASSUME NEW j \in JobIds,
               RequestCancel(j) \/ AbortRun(j) \/ Claim(j) \/ Register(j) \/ RunEmits(j)
        PROVE  UNCHANGED conversations
    BY <2>2 DEF RequestCancel, RequestCancellation, CancelQueued, CancelRunning, AbortRun, Claim,
       ClaimNextJob, Register, RunEmits, AppendEvent, storeVars
  <2>3. ASSUME NEW j \in JobIds, RunStep(j)
        PROVE  UNCHANGED conversations \/ RunStoresThread(j)
    BY <2>3 DEF RunStep, RunPrepared, RepositoryGone, RunRejects, RunReads, RunnerReturns,
       RunnerThrows, RunCompletes, CallThrows, RunFails, RunCancelled, RunEnds, CompleteJob,
       FailJob, MarkCancelled, FinalizeCancellation, EndJob, storeVars
  <2>4. CASE UNCHANGED vars
    BY <2>4 DEF vars, storeVars
  <2> QED
    BY <2>1, <2>2, <2>3, <2>4 DEF Next
<1> QED
  BY <1>1, <1>2, <1>3, <1>4, <1>5

\* A job that is running keeps its kind and its conversation.
LEMMA RunningRowKept ==
  ASSUME StoreTypeOK, [StoreNext]_storeVars, NEW j \in JobIds, IsRunning(j)
  PROVE  jobs'[j].kind = jobs[j].kind /\ jobs'[j].conversation = jobs[j].conversation
<1>1. CASE JobsUntouched
  BY <1>1 DEF JobsUntouched
<1>2. ASSUME NEW i \in JobIds, NEW o \in Owners, NEW c \in ConversationIds, NEW kind \in JobKind,
             Inserts(i, o, c, kind)
      PROVE  jobs'[j] = jobs[j]
  BY <1>2 DEF Inserts, FreshJob, JobExists, IsRunning, StoreTypeOK
<1>3. CASE PruneExpired
  BY <1>3, PrunedRow DEF Expired, IsTerminal, IsRunning, TerminalStatus
<1> QED
  BY <1>1, <1>2, <1>3, StepCases, RowsKept

\* What a run does before it runs or stores.
LEMMA RunCases ==
  ASSUME ProcessorInd, [Next]_vars, NEW j \in JobIds, run'[j] \in {"running", "storing"}
  PROVE  \/ run'[j] = run[j] /\ thread'[j] = thread[j]
         \/ RunReads(j)
         \/ RunnerReturns(j)
<1>0. run \in [JobIds -> Phase] /\ thread \in [JobIds -> Threads \cup {NoThread}]
  BY DEF ProcessorInd, ProcessorTypeOK
<1>1. CASE Start \/ Crash \/ Exit
  BY <1>1 DEF Start, Crash, Exit, ProcessEnds, EmptyMemory
<1>2. CASE \/ Stop \/ SubmitJob \/ Sweep \/ Clock \/ PumpBegins \/ NothingToClaim \/ ClaimThrows
           \/ UNCHANGED vars
  BY <1>2 DEF Stop, SubmitJob, Sweep, Clock, PumpBegins, NothingToClaim, ClaimThrows, memory, vars
<1>3. ASSUME NEW i \in JobIds,
             RequestCancel(i) \/ AbortRun(i) \/ Claim(i) \/ Register(i) \/ RunEmits(i)
      PROVE  run'[j] = run[j] /\ thread'[j] = thread[j]
  BY <1>0, <1>3 DEF RequestCancel, AbortRun, Claim, Register, RunEmits
<1>4. ASSUME NEW i \in JobIds, RunStep(i), i # j
      PROVE  run'[j] = run[j] /\ thread'[j] = thread[j]
  <2>1. /\ \A phase \in Phase : Goto(i, phase) => run'[j] = run[j]
        /\ Forget(i) => run'[j] = run[j] /\ thread'[j] = thread[j]
        /\ Thrown(i) => run'[j] = run[j]
    BY <1>0, <1>4 DEF Goto, Forget, Thrown
  <2>2. CASE RunReads(i) \/ RunnerReturns(i)
    BY <1>0, <1>4, <2>1, <2>2 DEF RunReads, RunnerReturns, Phase, Goto
  <2>3. CASE RunEnds(i) \/ RunRejects(i)
    BY <2>1, <2>3 DEF RunEnds, RunRejects
  <2>4. CASE \/ RunPrepared(i) \/ RepositoryGone(i) \/ RunnerThrows(i) \/ RunStoresThread(i)
             \/ RunCompletes(i) \/ CallThrows(i) \/ RunFails(i) \/ RunCancelled(i)
    BY <2>1, <2>4 DEF RunPrepared, RepositoryGone, RunnerThrows, RunStoresThread, RunCompletes,
       CallThrows, RunFails, RunCancelled, Phase
  <2> QED
    BY <1>4, <2>2, <2>3, <2>4 DEF RunStep
<1>5. ASSUME RunStep(j)
      PROVE  RunReads(j) \/ RunnerReturns(j)
  <2>1. /\ \A phase \in Phase : Goto(j, phase) => run'[j] = phase
        /\ Forget(j) => run'[j] = "none"
        /\ Thrown(j) => run'[j] \in {"cancelling", "failing"}
    BY <1>0 DEF Goto, Forget, Thrown
  <2> QED
    BY <1>5, <2>1 DEF RunStep, RunPrepared, RepositoryGone, RunnerThrows, RunStoresThread,
       RunCompletes, CallThrows, RunFails, RunCancelled, RunEnds, RunRejects, Phase
<1> QED
  BY <1>1, <1>2, <1>3, <1>4, <1>5 DEF Next

LEMMA ThreadStep ==
  ASSUME ProcessorInd, ThreadInd, [Next]_vars
  PROVE  ThreadInd'
<1>0. /\ StoreTypeOK /\ ProcessorTypeOK /\ RunsSound
      /\ ConversationIntact /\ OneRunningPerConversation
      /\ [StoreNext]_storeVars
  BY CallsAreAllowed DEF ProcessorInd, ProcessorTypeOK, OwnershipInd, StoreInv
<1>1. ASSUME NEW j \in JobIds, jobs'[j].kind = "coding.turn", run'[j] \in {"running", "storing"}
      PROVE  LET stored == conversations'[jobs'[j].conversation].backendThread IN
             /\ run'[j] = "running" => thread'[j] = stored
             /\ run'[j] = "storing" => stored \in {NoThread, thread'[j]}
  <2>1. \/ run'[j] = run[j] /\ thread'[j] = thread[j]
        \/ RunReads(j)
        \/ RunnerReturns(j)
    BY <1>1, RunCases
  <2>2. IsRunning(j)
    BY <1>0, <1>1, <2>1 DEF RunsSound, RunReads, RunnerReturns
  <2>3. jobs'[j].kind = jobs[j].kind /\ jobs'[j].conversation = jobs[j].conversation
    BY <1>0, <2>2, RunningRowKept
  <2> DEFINE c == jobs[j].conversation
  <2>4. c \in ConversationIds /\ ConversationExists(c)
    BY <1>0, <2>2, NullsAssumption
    DEF ConversationIntact, JobExists, IsRunning, ConversationExists
  <2>5. ~\E i \in JobIds : ThreadStored(i, c)
    <3> SUFFICES ASSUME NEW i \in JobIds, ThreadStored(i, c) PROVE FALSE
      OBVIOUS
    <3>1. IsRunning(i) /\ jobs[i].conversation = c
      BY <1>0 DEF ThreadStored, RunStoresThread, RunsSound
    <3>2. i = j
      BY <1>0, <2>2, <3>1 DEF OneRunningPerConversation
    <3>3. run[j] = "storing" /\ run'[j] = "finishing"
      BY <1>0, <3>2 DEF ThreadStored, RunStoresThread, Goto, ProcessorTypeOK
    <3> QED
      BY <1>1, <3>3
  <2>6. conversations'[c].backendThread = conversations[c].backendThread
    BY <2>2, <2>4, <2>5, ThreadCases DEF ThreadKept, FreshConversation
  <2>7. CASE run'[j] = run[j] /\ thread'[j] = thread[j]
    BY <1>1, <2>3, <2>6, <2>7 DEF ThreadInd
  <2>8. CASE RunReads(j)
    BY <1>0, <2>3, <2>6, <2>8 DEF RunReads, Goto, ProcessorTypeOK
  <2>9. CASE RunnerReturns(j)
    <3>1. run[j] = "running" /\ thread[j] = conversations[c].backendThread
      BY <1>1, <2>3, <2>9 DEF RunnerReturns, ThreadInd
    <3>2. thread[j] # NoThread => thread'[j] = thread[j]
      BY <1>0, <1>1, <2>3, <2>9 DEF RunnerReturns, ReturnedThread, ProcessorTypeOK
    <3>3. run'[j] # "running"
      BY <1>0, <2>9 DEF RunnerReturns, Goto, ProcessorTypeOK
    <3> QED
      BY <2>3, <2>6, <3>1, <3>2, <3>3
  <2> QED
    BY <2>1, <2>7, <2>8, <2>9
<1>2. ASSUME NEW c \in ConversationIds, FreshConversation(c)'
      PROVE  conversations'[c].backendThread = NoThread
  BY <1>2, ThreadCases
  DEF ThreadInd, ThreadKept, ThreadStored, FreshConversation, ConversationExists, NoConversationRow
<1> QED
  BY <1>1, <1>2 DEF ThreadInd

\* The thread a coding conversation once stored is its thread for good: no two
\* turns race for it, whatever was cancelled, rejected, interrupted or swept.  (That a
\* resumed thread answers with the id asked for is assumed, see ReturnedThread.)
THEOREM ThreadsStay == Spec => ThreadNeverReplaced
<1>1. Init => ThreadInd
  BY DEF Init, StoreInit, ThreadInd, NoConversationRow
<1>2. ProcessorInd /\ ThreadInd /\ [Next]_vars => ThreadInd'
  BY ThreadStep
<1> DEFINE Stays ==
      \A c \in ConversationIds :
        /\ conversations[c].repository # NoRepository
        /\ conversations[c].backendThread # NoThread
        /\ conversations'[c].owner # NoOwner
        => conversations'[c].backendThread = conversations[c].backendThread
<1>3. ASSUME ProcessorInd, ThreadInd, [Next]_vars PROVE Stays
  <2> SUFFICES ASSUME NEW c \in ConversationIds,
                      conversations[c].repository # NoRepository,
                      conversations[c].backendThread # NoThread,
                      conversations'[c].owner # NoOwner
               PROVE  conversations'[c].backendThread = conversations[c].backendThread
    OBVIOUS
  <2>1. ~FreshConversation(c)
    BY <1>3 DEF ThreadInd
  <2>2. conversations'[c] # NoConversationRow
    BY DEF NoConversationRow
  <2>3. ASSUME NEW j \in JobIds, ThreadStored(j, c)
        PROVE  conversations'[c].backendThread = conversations[c].backendThread
    <3>1. run[j] = "storing" /\ IsRunning(j) /\ c = jobs[j].conversation
      BY <1>3, <2>3 DEF ThreadStored, RunStoresThread, ProcessorInd, OwnershipInd, RunsSound
    <3>2. jobs[j].kind = "coding.turn"
      <4>1. jobs[j].kind \in JobKind
        BY <1>3 DEF ProcessorInd, ProcessorTypeOK, StoreTypeOK, JobRow
      <4>2. jobs[j].kind # "inference.turn"
        BY <1>3, <3>1 DEF ProcessorInd, StoreInv, ConversationIntact, JobExists, IsRunning
      <4> QED
        BY <4>1, <4>2 DEF JobKind
    <3>3. conversations[c].backendThread = thread[j]
      BY <1>3, <3>1, <3>2 DEF ThreadInd
    <3> QED
      BY <2>3, <3>3 DEF ThreadStored
  <2> QED
    BY <1>3, <2>1, <2>2, <2>3, ThreadCases DEF ThreadKept
<1>4. ProcessorInd /\ ThreadInd /\ [Next]_vars => [Stays]_vars
  BY <1>3
<1> QED
  BY <1>1, <1>2, <1>4, ProcessorInvariant, PTL DEF Spec, ThreadNeverReplaced
=============================================================================
