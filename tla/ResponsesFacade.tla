-------------------------- MODULE ResponsesFacade --------------------------
(***************************************************************************)
(* POST /v1/responses (src/src/adapters/openai/routes.ts): a request of    *)
(* the OpenAI Responses API submits a job, or finds the one its key stands *)
(* for, and then waits for it or streams its text, until the job ends, the *)
(* client leaves, the delivery deadline passes or the process goes down.   *)
(*                                                                         *)
(* An action is what a handler does between two awaits; frames that are    *)
(* written one after another with nothing to choose in between are one.    *)
(***************************************************************************)
EXTENDS JobStore

CONSTANTS
  Requests,     \* BOUND: the requests that are made, each once
  PrivateKeys,  \* generated for requests without Idempotency-Key, each for one
  Streaming,    \* the requests with stream: true
  NoKey,        \* a request that has not been made
  Client        \* the owner of all of them

ASSUME RequestsAssumption ==
  /\ PrivateKeys \subseteq Keys
  /\ Streaming \subseteq Requests
  /\ NoKey \notin Keys
  /\ Client \in Owners

VARIABLE req     \* the handler and the connection of every request

vars == <<storeVars, req>>

\* submitting, submitted: in submitInference, and back from it.  waiting: the
\* loop of waitForTerminalJob.  opening .. finishing: streamResponse, which
\* drains the events before (draining) and after (redraining) it has seen that
\* the job is over.  abandoning, cancelling: in processor.cancel.
Phase ==
  {"idle", "submitting", "submitted", "abandoning", "waiting", "cancelling",
   "opening", "head", "draining", "checking", "redraining", "finishing", "over"}

Request ==
  [at: Phase,
   key: Keys \cup {NoKey},         \* its Idempotency-Key, or the private one
   job: JobIds \cup {NoJob},       \* what the submission committed or found
   gone: BOOLEAN,                  \* the client left: `disconnected'
   cancellation: {"none", "pending", "done", "lost"},  \* what leaving causes
   late: BOOLEAN,                  \* the deadline has passed
   grace: {"unset", "open", "over"},                   \* cancellationDeadline
   cursor: Nat,                    \* how far the events were read
   batch: SUBSET Nat,              \* deltas that were read and not written
   sent: Seq(Nat),                 \* and those that were, as places in the log
   stalled: BOOLEAN,               \* the socket is full: waitForDrain
   seen: TerminalStatus \cup {"none", "timeout"},      \* what ends the stream
   answer: {"none", "completed", "failed", "timeout", "refused", "left", "broken", "lost"}]

FacadeTypeOK == req \in [Requests -> Request]

Move(r, phase) == req' = [req EXCEPT ![r].at = phase] /\ UNCHANGED storeVars

End(r, a) ==
  req' = [req EXCEPT ![r].at = "over", ![r].answer = a] /\ UNCHANGED storeVars

\* processor.cancel(...).catch(() => undefined): refused when the job is over.
Cancel(j) ==
  \/ RequestCancellation(j)
  \/ ~IsActive(j) /\ UNCHANGED storeVars

-----------------------------------------------------------------------------
(* The rest of the gateway *)

\* Runs, sweeps, and other clients, who can cancel what they hold the id of.  The
\* clock matters only to the age of a job that is over.
Work ==
  /\ \/ \E j \in JobIds : ClaimNextJob(j) \/ RequestCancellation(j) \/ RunCall(j)
     \/ PruneExpired
     \/ (\E j \in JobIds : JobExists(j) /\ IsTerminal(j)) /\ Tick
  /\ UNCHANGED req

\* The process goes down with its handlers and the cancellations under way.  Before
\* it comes back the key may be rotated: then a request finds no job of an earlier one.
Restart ==
  /\ DownAndUp
  /\ req' = [r \in Requests |->
       IF req[r].at = "idle" THEN req[r]
       ELSE [req[r] EXCEPT
              !.at = "over",
              !.gone = TRUE,
              !.answer = IF req[r].at = "over" THEN @ ELSE "lost",
              !.cancellation = IF @ = "done" THEN @ ELSE "lost"]]

\* The deadlines of a request that is still under way.
DeadlinePasses(r) ==
  /\ req[r].at \notin {"idle", "submitting", "submitted", "over"} /\ ~req[r].late
  /\ req' = [req EXCEPT ![r].late = TRUE]
  /\ UNCHANGED storeVars

GracePasses(r) ==
  /\ req[r].grace = "open"
  /\ req' = [req EXCEPT ![r].grace = "over"]
  /\ UNCHANGED storeVars

-----------------------------------------------------------------------------
(* Connection *)

\* With a key of the client's, or a random one that nobody else has.
Arrive(r) ==
  /\ req[r].at = "idle"
  /\ \E k \in Keys :
       /\ k \in PrivateKeys => \A q \in Requests : req[q].key # k
       /\ req' = [req EXCEPT ![r].at = "submitting", ![r].key = k]
  /\ UNCHANGED storeVars

\* Faulty: whoever leaves, the job is cancelled.
MayCancelAny(r) == TRUE

MayCancelJob(r) == req[r].key \in PrivateKeys

\* Whether submittedJobId has been assigned.
Submitted(r) == req[r].at \notin {"idle", "submitting", "submitted"}

\* cancelOnClose; the listener is removed when the handler returns.
Leave(r) ==
  /\ req[r].at # "idle" /\ ~req[r].gone
  /\ req' = [req EXCEPT
       ![r].gone = TRUE,
       ![r].cancellation =
         IF req[r].at # "over" /\ MayCancelJob(r) /\ Submitted(r) THEN "pending" ELSE @]
  /\ UNCHANGED storeVars

CancellationCommits(r) ==
  /\ req[r].cancellation = "pending"
  /\ Cancel(req[r].job)
  /\ req' = [req EXCEPT ![r].cancellation = "done"]

\* The client takes what the socket holds.
Drained(r) ==
  /\ req[r].stalled /\ ~req[r].gone
  /\ req' = [req EXCEPT ![r].stalled = FALSE]
  /\ UNCHANGED storeVars

-----------------------------------------------------------------------------
(* Submission *)

\* submitInference: a new job, the job of the key, or QUEUE_FULL.  An id is not
\* used again while a request remembers it.
SubmitCommits(r) ==
  LET known == idempotency[<<Client, req[r].key>>] IN
  /\ req[r].at = "submitting"
  /\ \/ /\ known # NoJob
        /\ req' = [req EXCEPT ![r].at = "submitted", ![r].job = known]
        /\ UNCHANGED storeVars
     \/ \E j \in JobIds, c \in ConversationIds :
          /\ \A q \in Requests : req[q].job # j
          /\ SubmitInference(j, Client, req[r].key, c)
          /\ req' = [req EXCEPT ![r].at = "submitted", ![r].job = j]
     \/ known = NoJob /\ ~HasQueueCapacity /\ End(r, "refused")

Begins(r) == Move(r, IF r \in Streaming THEN "opening" ELSE "waiting")

\* Faulty: a client that left while the job was submitted is not noticed.
ContinuesRegardless(r) == req[r].at = "submitted" /\ Begins(r)

\* submittedJobId is known from here on; a disconnection before is made up for.
Continues(r) ==
  /\ req[r].at = "submitted"
  /\ \/ ~req[r].gone /\ Begins(r)
     \/ /\ req[r].gone /\ MayCancelJob(r)
        /\ req' = [req EXCEPT ![r].at = "abandoning", ![r].cancellation = "pending"]
        /\ UNCHANGED storeVars
     \/ req[r].gone /\ ~MayCancelJob(r) /\ End(r, "left")

Abandons(r) ==
  req[r].at = "abandoning" /\ req[r].cancellation = "done" /\ End(r, "left")

-----------------------------------------------------------------------------
(* waitForTerminalJob *)

\* One round of the loop.  After the deadline the job is not looked at again.
Polls(r) ==
  LET j == req[r].job IN
  /\ req[r].at = "waiting"
  /\ \/ req[r].late /\ MayCancelJob(r) /\ Move(r, "cancelling")
     \/ req[r].late /\ ~MayCancelJob(r) /\ End(r, "timeout")
     \/ /\ ~req[r].late
        /\ \/ req[r].gone /\ End(r, "left")
           \/ ~req[r].gone /\ ~JobExists(j) /\ End(r, "broken")
           \/ /\ ~req[r].gone /\ IsTerminal(j)
              /\ End(r, IF jobs[j].status = "completed" THEN "completed" ELSE "failed")

AfterCancel(r) ==
  req' = [req EXCEPT ![r].at = IF r \in Streaming THEN "head" ELSE "over",
                     ![r].answer = IF r \in Streaming THEN @ ELSE "timeout"]

\* The cancellation after the deadline: then a waiting request is answered, a
\* streaming one goes on for the time of grace.
CancelsLate(r) == req[r].at = "cancelling" /\ Cancel(req[r].job) /\ AfterCancel(r)

-----------------------------------------------------------------------------
(* streamResponse *)

\* writeEvent throws on a connection that is gone, waiting for it or not.
Throws(r) ==
  /\ req[r].at # "over" /\ req[r].gone
  /\ req[r].stalled \/ req[r].at \in {"opening", "finishing"} \/ req[r].batch # {}
  /\ End(r, "left")

\* The four frames every stream begins with.
Opens(r) == req[r].at = "opening" /\ ~req[r].gone /\ Move(r, "head")

\* while (!disconnected()), after the 25 ms of the round before.
Loops(r) ==
  /\ req[r].at = "head"
  /\ IF req[r].gone THEN End(r, "left") ELSE Move(r, "draining")

Log(r) == jobEvents[req[r].job]

\* The deltas of r's job after the first n events, by their place in the log.
DeltasAfter(r, n) ==
  {i \in DOMAIN Log(r) : i > n /\ Log(r)[i] = "agent.message.delta"}

\* At a read of drainAvailableDeltas: nothing is left of the one before.
AtRead(r) ==
  /\ req[r].at \in {"draining", "redraining"}
  /\ req[r].batch = {} /\ ~req[r].stalled

\* drainAvailableDeltas reads what there is, until there is nothing.
Reads(r) ==
  /\ AtRead(r)
  /\ JobExists(req[r].job)
  /\ req' = [req EXCEPT
       ![r].cursor = Len(Log(r)),
       ![r].batch = DeltasAfter(r, req[r].cursor),
       ![r].at = IF req[r].cursor < Len(Log(r)) THEN @
                 ELSE IF @ = "draining" THEN "checking" ELSE "finishing"]
  /\ UNCHANGED storeVars

\* The next one of the batch; the socket may be full then.
Writes(r) ==
  /\ req[r].at # "over" /\ ~req[r].stalled /\ ~req[r].gone
  /\ \E i \in req[r].batch, full \in BOOLEAN :
       /\ \A k \in req[r].batch : i <= k
       /\ req' = [req EXCEPT ![r].sent = Append(@, i),
                             ![r].batch = @ \ {i},
                             ![r].stalled = full]
  /\ UNCHANGED storeVars

\* events() and getJob() of a job that was swept: the reply is hijacked.
Breaks(r) ==
  /\ AtRead(r) \/ req[r].at = "checking"
  /\ ~JobExists(req[r].job)
  /\ End(r, "broken")

StreamEnds(r, status, phase) ==
  /\ req' = [req EXCEPT ![r].seen = status, ![r].at = phase]
  /\ UNCHANGED storeVars

\* Faulty: the stream ends with what it had read before.
ChecksOnce(r) ==
  /\ req[r].at = "checking" /\ IsTerminal(req[r].job)
  /\ StreamEnds(r, jobs[req[r].job].status, "finishing")

\* The job is over: drain once more.
SeesEnd(r) ==
  /\ req[r].at = "checking" /\ IsTerminal(req[r].job)
  /\ StreamEnds(r, jobs[req[r].job].status, "redraining")

\* Faulty: after the deadline the stream goes on until the job is over.
NeverGivesUp(r) == FALSE /\ UNCHANGED vars

\* Nor is it when the time of grace is over.
GivesUp(r) ==
  /\ req[r].at = "checking" /\ IsActive(req[r].job) /\ req[r].grace = "over"
  /\ StreamEnds(r, "timeout", "finishing")

\* It is not over: another round, and the time of grace from the deadline on.
GoesOn(r) ==
  LET expires == req[r].late /\ req[r].grace = "unset" IN
  /\ req[r].at = "checking" /\ IsActive(req[r].job) /\ req[r].grace # "over"
  /\ req' = [req EXCEPT
       ![r].grace = IF expires THEN "open" ELSE @,
       ![r].at = IF expires /\ MayCancelJob(r) THEN "cancelling" ELSE "head"]
  /\ UNCHANGED storeVars

\* Once the deadline was noticed the answer is a timeout, however the job ended.
Final(r) ==
  IF req[r].seen = "timeout" \/ req[r].grace # "unset" THEN "timeout"
  ELSE IF req[r].seen = "completed" THEN "completed"
  ELSE "failed"

\* The closing frames and end().
Finishes(r) == req[r].at = "finishing" /\ ~req[r].gone /\ End(r, Final(r))

Handler(r) ==
  \/ SubmitCommits(r) \/ Continues(r) \/ Abandons(r) \/ Polls(r) \/ CancelsLate(r)
  \/ Throws(r) \/ Opens(r) \/ Loops(r) \/ Reads(r) \/ Writes(r) \/ Breaks(r)
  \/ SeesEnd(r) \/ GivesUp(r) \/ GoesOn(r) \/ Finishes(r)

-----------------------------------------------------------------------------
Init ==
  /\ StoreInit
  /\ req = [r \in Requests |->
       [at |-> "idle", key |-> NoKey, job |-> NoJob, gone |-> FALSE, cancellation |-> "none",
        late |-> FALSE, grace |-> "unset", cursor |-> 0, batch |-> {}, sent |-> <<>>,
        stalled |-> FALSE, seen |-> "none", answer |-> "none"]]

Next ==
  \/ Work \/ Restart
  \/ \E r \in Requests :
       \/ Arrive(r) \/ Leave(r) \/ CancellationCommits(r) \/ Drained(r)
       \/ DeadlinePasses(r) \/ GracePasses(r) \/ Handler(r)

Spec == Init /\ [][Next]_vars

\* What is bound to happen to a request besides the work of its handler: the
\* cancellation it caused, the client reading what it is sent or leaving, the two
\* deadlines.  Each happens finitely often, so that one fairness stands for all.
Settles(r) == CancellationCommits(r) \/ Drained(r) \/ DeadlinePasses(r) \/ GracePasses(r)

\* The event loop goes on with every handler.  Nobody owes the job any progress.
Fairness ==
  /\ \A r \in Requests : WF_vars(Handler(r))
  /\ WF_vars(\E r \in Requests : Settles(r))

FairSpec == Spec /\ Fairness

-----------------------------------------------------------------------------
(* Properties *)

Known(r) == req[r].job # NoJob /\ JobExists(req[r].job)

\* "so the stream cannot omit text committed between the preceding event poll
\* and this status read": a stream writes the deltas of its job once and in
\* order, it has none left out of what it has read, and when it says completed
\* it has written them all.
StreamCarriesText ==
  \A r \in Streaming : Known(r) =>
    LET sent == req[r].sent
        written == {sent[n] : n \in DOMAIN sent}
    IN
    /\ \A m, n \in DOMAIN sent : m < n => sent[m] < sent[n]
    /\ \A i \in written, k \in req[r].batch : i < k
    /\ written \cup req[r].batch = DeltasAfter(r, 0) \ DeltasAfter(r, req[r].cursor)
    /\ req[r].answer = "completed" => written = DeltasAfter(r, 0)

\* "disconnect and delivery timeout stop only that client wait and do not cancel
\* the shared durable job": when the facade cancels a job, the job was submitted
\* under a private key, its client has left or run out of time, and no other
\* request waits for it.
SharedJobSpared ==
  [][req' # req =>
       \A j \in JobIds : jobs[j].cancelRequested = 0 /\ jobs'[j].cancelRequested = 1 =>
         \E r \in Requests :
           /\ req[r].key \in PrivateKeys
           /\ req[r].job = j /\ (req[r].gone \/ req[r].late)
           /\ \A q \in Requests \ {r} : req[q].job # j]_vars

\* An answer is true of the job, whatever it did meanwhile: completed only if it
\* completed, failed only if it failed or was cancelled; and a private request
\* that timed out has not left its job to run on.
AnswersTruthful ==
  \A r \in Requests : Known(r) =>
    LET j == jobs[req[r].job] a == req[r].answer IN
    /\ a = "completed" => j.status = "completed"
    /\ a = "failed" => j.status \in {"failed", "cancelled"}
    /\ a = "timeout" /\ req[r].key \in PrivateKeys => IsTerminal(req[r].job) \/ j.cancelRequested = 1

\* The variables are typed, the streams carry the text, and the answers are true.
FacadeInv == FacadeTypeOK /\ StreamCarriesText /\ AnswersTruthful

\* The job of r may still run, and nobody asked to cancel it.
RunsOn(r) ==
  Known(r) /\ IsActive(req[r].job) /\ jobs[req[r].job].cancelRequested = 0

\* "Client disconnect triggers best-effort cancellation when the Gateway
\* generated a private idempotency key": a job only the departed client could
\* ask for does not run on, unless the process went down before it was cancelled.
AbandonedIsCancelled ==
  \A r \in Requests :
    req[r].key \in PrivateKeys /\ req[r].gone /\ RunsOn(r) ~> ~RunsOn(r) \/ req[r].cancellation = "lost"

\* "enforces a bounded grace period before emitting a timeout failure and
\* closing the stream, even if the durable job has not yet reached a terminal
\* state": every request is answered, though the job may never move.
EveryRequestEnds == \A r \in Requests : req[r].at = "submitted" ~> req[r].at = "over"
=============================================================================
