----------------------------- MODULE McpAdapter -----------------------------
(***************************************************************************)
(* The stdio process of src/src/mcp: an MCP client writes JSON-RPC frames  *)
(* to its standard input, McpFrameDecoder cuts them out of chunks of any   *)
(* size, runMcpStdio answers them one by one, and GatewayInferenceClient   *)
(* turns the two tools into POST /v2/inference/runs and GET /v2/jobs/:id.  *)
(* It runs beside a gateway that works, sweeps and restarts on its own.    *)
(*                                                                         *)
(* A frame is two tokens, its header and its body.  An HTTP request may    *)
(* fail at any point of its way, and a POST the adapter has given up may   *)
(* still reach the gateway.                                                *)
(***************************************************************************)
EXTENDS JobStore

CONSTANTS
  Calls,         \* BOUND: the frames the client writes, each once
  PrivateKeys,   \* generated for calls without idempotencyKey, each for one
  NoKey,         \* of a frame that submits nothing
  Client         \* the owner the adapter's bearer token stands for

ASSUME CallsAssumption ==
  /\ PrivateKeys \subseteq Keys
  /\ NoKey \notin Keys
  /\ Client \in Owners

VARIABLES
  call,    \* what each frame asks for, and what has become of it
  io,      \* the pipe, the decoder's buffer, the frames of the last push
  tool,    \* where the tool call in progress is
  posts    \* the calls whose POST is on its way to the gateway

mcpVars == <<storeVars, call, io, tool, posts>>

-----------------------------------------------------------------------------
(* run, get: the two tools.  plain: every frame answered from within the    *)
(* adapter, be it ping, tools/list, an unknown method, arguments refused or *)
(* a body that does not parse.  silent: a notification.  malformed: a       *)
(* header without a valid Content-Length.                                   *)
Kind == {"run", "get", "plain", "silent", "malformed"}

Answer == {"none", "plain", "completed", "failed", "cancelled", "queued", "running",
           "timeout", "error"}

Call ==
  [kind: Kind,
   key: Keys \cup {NoKey},
   job: JobIds \cup {NoJob},   \* the one asked for, committed or found
   at: {"unsent", "sent", "done", "lost"},
   answer: Answer]

Token == [of: Calls, part: {"head", "body"}]

\* wrote, out: the frames written to this process, and those it has answered.
Io == [pipe: Seq(Token), buffer: Seq(Token), todo: Seq(Calls),
       wrote: Seq(Calls), out: Seq(Calls)]

Tool ==
  [at: {"none", "posting", "reading", "deciding", "sleeping"},
   late: BOOLEAN,                                        \* timeoutMs have passed
   view: ActiveStatus \cup TerminalStatus \cup {"none"}] \* the job as last read

NewIo == [pipe |-> <<>>, buffer |-> <<>>, todo |-> <<>>, wrote |-> <<>>, out |-> <<>>]
NoTool == [at |-> "none", late |-> FALSE, view |-> "none"]

McpTypeOK ==
  /\ call \in [Calls -> Call]
  /\ io \in Io
  /\ tool \in Tool
  /\ posts \subseteq Calls

-----------------------------------------------------------------------------
(* The client *)

\* A job id the client has been told.
Told(j) == \E r \in Calls : call[r].job = j /\ call[r].answer \notin {"none", "plain", "error"}

Writes(r, kind, key, job) ==
  /\ call[r].at = "unsent"
  /\ call' = [call EXCEPT ![r] = [kind |-> kind, key |-> key, job |-> job,
                                  at |-> "sent", answer |-> "none"]]
  /\ io' = [io EXCEPT
       !.pipe = @ \o <<[of |-> r, part |-> "head"], [of |-> r, part |-> "body"]>>,
       !.wrote = Append(@, r)]
  /\ UNCHANGED <<storeVars, tool, posts>>

\* With a key of the client's, or a random one that nobody else has.
WritesRun(r) ==
  \E k \in Keys :
    /\ k \in PrivateKeys => \A q \in Calls : call[q].key # k
    /\ Writes(r, "run", k, NoJob)

WritesGet(r) == \E j \in JobIds : Told(j) /\ Writes(r, "get", NoKey, j)

WritesOther(r) == \E kind \in Kind \ {"run", "get"} : Writes(r, kind, NoKey, NoJob)

\* The process ends and the client starts it again: what was written to the old
\* one and not answered is lost.
EndsProcess ==
  /\ call' = [r \in Calls |->
       IF call[r].at = "sent" THEN [call[r] EXCEPT !.at = "lost"] ELSE call[r]]
  /\ io' = NewIo
  /\ tool' = NoTool
  /\ UNCHANGED <<storeVars, posts>>

Killed == io.wrote # <<>> /\ EndsProcess

-----------------------------------------------------------------------------
(* McpFrameDecoder.push *)

IsFrame(tokens, n) ==
  /\ 2 * n <= Len(tokens)
  /\ tokens[2 * n - 1].part = "head"
  /\ tokens[2 * n].part = "body"

\* Faulty: one frame for each chunk.
OnlyFirst(tokens) == {IF IsFrame(tokens, 1) THEN 1 ELSE 0}

\* How many frames the loop cuts off: all that are whole.
WholeFrames(tokens) ==
  {n \in 0 .. Len(tokens) :
     /\ \A i \in 1 .. n : IsFrame(tokens, i)
     /\ ~IsFrame(tokens, n + 1)}

\* contentLength throws as soon as the header is there, whatever came before it.
BadHeader(tokens) ==
  \E i \in DOMAIN tokens :
    tokens[i].part = "head" /\ call[tokens[i].of].kind = "malformed"

\* The next chunk is awaited only when every frame of the last one is answered.
Push ==
  /\ io.todo = <<>>
  /\ \E size \in 1 .. Len(io.pipe) :
       LET tokens == io.buffer \o SubSeq(io.pipe, 1, size) IN
       \/ BadHeader(tokens) /\ EndsProcess
       \/ /\ ~BadHeader(tokens)
          /\ \E n \in WholeFrames(tokens) :
               io' = [io EXCEPT
                 !.pipe = SubSeq(@, size + 1, Len(@)),
                 !.buffer = SubSeq(tokens, 2 * n + 1, Len(tokens)),
                 !.todo = [i \in 1 .. n |-> tokens[2 * i].of]]
          /\ UNCHANGED <<storeVars, call, tool, posts>>

-----------------------------------------------------------------------------
(* runMcpStdio and dispatchMcpMessage: the frame whose turn it is *)

\* Faulty: a frame of the chunk is answered in the place of another.
TurnOfAny(r) == \E i \in DOMAIN io.todo : io.todo[i] = r

Turn(r) == io.todo # <<>> /\ Head(io.todo) = r

Dispatched(r) ==
  /\ io' = [io EXCEPT !.todo = Tail(@)]
  /\ call' = [call EXCEPT ![r].at = "done"]
  /\ UNCHANGED <<storeVars, tool, posts>>

Answered(r, a) ==
  /\ io' = [io EXCEPT !.todo = Tail(@), !.out = Append(@, r)]
  /\ call' = [call EXCEPT ![r].at = "done", ![r].answer = a]
  /\ tool' = NoTool
  /\ UNCHANGED <<storeVars, posts>>

Dispatch(r) ==
  /\ Turn(r) /\ tool.at = "none"
  /\ \/ call[r].kind = "silent" /\ Dispatched(r)
     \/ call[r].kind = "plain" /\ Answered(r, "plain")
     \/ /\ call[r].kind = "run"
        /\ tool' = [tool EXCEPT !.at = "posting"]
        /\ posts' = posts \cup {r}
        /\ UNCHANGED <<storeVars, call, io>>
     \/ /\ call[r].kind = "get"
        /\ tool' = [tool EXCEPT !.at = "reading"]
        /\ UNCHANGED <<storeVars, call, io, posts>>

-----------------------------------------------------------------------------
(* GatewayInferenceClient *)

\* The 202 has come, and with it the job; the clock of the wait starts.
Accepted(r) ==
  /\ Turn(r) /\ tool.at = "posting" /\ call[r].job # NoJob
  /\ tool' = [tool EXCEPT !.at = "reading"]
  /\ UNCHANGED <<storeVars, call, io, posts>>

\* The gateway does not answer, answers something else than it is asked for, or
\* refuses: QUEUE_FULL, a conflict of keys, too many requests.
RequestFails(r) ==
  Turn(r) /\ tool.at \in {"posting", "reading"} /\ Answered(r, "error")

\* A job the sweep has taken is a 404, and ends as RequestFails.
JobRead(r) ==
  /\ Turn(r) /\ tool.at = "reading"
  /\ JobExists(call[r].job)
  /\ tool' = [tool EXCEPT !.at = "deciding", !.view = jobs[call[r].job].status]
  /\ UNCHANGED <<storeVars, call, io, posts>>

\* The loop of runInference; get_inference_job answers what it has read.
Decides(r) ==
  /\ Turn(r) /\ tool.at = "deciding"
  /\ \/ /\ call[r].kind = "get" \/ tool.view \in TerminalStatus
        /\ Answered(r, tool.view)
     \/ /\ call[r].kind = "run" /\ tool.view \notin TerminalStatus /\ tool.late
        /\ Answered(r, "timeout")
     \/ /\ call[r].kind = "run" /\ tool.view \notin TerminalStatus /\ ~tool.late
        /\ tool' = [tool EXCEPT !.at = "sleeping"]
        /\ UNCHANGED <<storeVars, call, io, posts>>

Wakes(r) ==
  /\ Turn(r) /\ tool.at = "sleeping"
  /\ tool' = [tool EXCEPT !.at = "reading"]
  /\ UNCHANGED <<storeVars, call, io, posts>>

TimePasses(r) ==
  /\ Turn(r) /\ call[r].kind = "run"
  /\ tool.at \in {"reading", "deciding", "sleeping"} /\ ~tool.late
  /\ tool' = [tool EXCEPT !.late = TRUE]
  /\ UNCHANGED <<storeVars, call, io, posts>>

-----------------------------------------------------------------------------
(* The gateway *)

\* Faulty: whatever key the call has, the job is filed under one of its own.
KeysFresh(r) == {k \in Keys : idempotency[<<Client, k>>] = NoJob}

\* The Idempotency-Key header of the POST.
KeysSent(r) == {call[r].key}

\* submitInference, whether or not somebody still waits for its answer.
PostArrives(r) ==
  /\ r \in posts
  /\ posts' = posts \ {r}
  /\ \E k \in KeysSent(r) :
       LET known == idempotency[<<Client, k>>] IN
       \/ /\ known # NoJob
          /\ call' = [call EXCEPT ![r].job = known]
          /\ UNCHANGED storeVars
       \/ \E j \in JobIds, c \in ConversationIds :
            /\ \A q \in Calls : call[q].job # j   \* an id is never used again
            /\ SubmitInference(j, Client, k, c)
            /\ call' = [call EXCEPT ![r].job = j]
       \/ known = NoJob /\ ~HasQueueCapacity /\ UNCHANGED <<call, storeVars>>
  /\ UNCHANGED <<io, tool>>

\* Runs, cancellations of other clients, sweeps.
GatewayWorks ==
  /\ \/ \E j \in JobIds : ClaimNextJob(j) \/ RequestCancellation(j) \/ RunCall(j)
     \/ PruneExpired
     \/ (\E j \in JobIds : JobExists(j) /\ IsTerminal(j)) /\ Tick
  /\ UNCHANGED <<call, io, tool, posts>>

\* The requests it has not read end with the process.  Its key is not rotated.
GatewayRestarts ==
  /\ RecoverInterruptedJobs
  /\ posts' = {}
  /\ UNCHANGED <<call, io, tool>>

-----------------------------------------------------------------------------
McpInit ==
  /\ StoreInit
  /\ call = [r \in Calls |-> [kind |-> "plain", key |-> NoKey, job |-> NoJob,
                              at |-> "unsent", answer |-> "none"]]
  /\ io = NewIo
  /\ tool = NoTool
  /\ posts = {}

\* What the adapter does with what it has; a request times out at the latest.
Adapter(r) ==
  \/ Dispatch(r) \/ Accepted(r) \/ RequestFails(r)
  \/ JobRead(r) \/ Decides(r) \/ Wakes(r)

McpNext ==
  \/ \E r \in Calls :
       \/ WritesRun(r) \/ WritesGet(r) \/ WritesOther(r)
       \/ Adapter(r) \/ TimePasses(r) \/ PostArrives(r)
  \/ Push \/ Killed
  \/ GatewayWorks \/ GatewayRestarts

McpSpec == McpInit /\ [][McpNext]_mcpVars

\* Nothing is expected of the gateway, of its clients or of the network.
McpFairness ==
  /\ WF_mcpVars(Push)
  /\ \A r \in Calls : WF_mcpVars(Adapter(r)) /\ WF_mcpVars(TimePasses(r))

McpFairSpec == McpSpec /\ McpFairness

-----------------------------------------------------------------------------
Written(r) == \E i \in DOMAIN io.wrote : io.wrote[i] = r

Before(q, r) ==
  \E i, k \in DOMAIN io.wrote : i < k /\ io.wrote[i] = q /\ io.wrote[k] = r

HasAnswer(r) == \E n \in DOMAIN io.out : io.out[n] = r

\* Whatever the size of the chunks and whatever the tools wait for, the frames
\* of a process are answered in the order they were written, each that asks for
\* an answer exactly once, the notifications never.
AnswersInOrder ==
  /\ \A m, n \in DOMAIN io.out : m < n => Before(io.out[m], io.out[n])
  /\ \A r \in Calls : HasAnswer(r) => Written(r) /\ call[r].kind # "silent"
  /\ \A q, r \in Calls :
       Before(q, r) /\ HasAnswer(r) /\ call[q].kind # "silent" => HasAnswer(q)

McpInv == McpTypeOK /\ AnswersInOrder

\* A tool result tells the truth about the gateway's job although it was read a
\* while ago: the status it ends with is the job's, and a run that answers with
\* a job, a timeout too, names the one its key stands for, so a retry after a
\* lost answer, a timeout or a crash of either process joins it instead of
\* running the prompt again.  (Until the encryption key is rotated, which makes the
\* gateway forget every key: here it is not.)
ToolTruthful ==
  \A r \in Calls :
    LET j == call[r].job IN
    call[r].answer \notin {"none", "plain", "error"} /\ JobExists(j) =>
      /\ call[r].answer \in TerminalStatus => call[r].answer = jobs[j].status
      /\ call[r].kind = "run" => idempotency[<<Client, call[r].key>>] = j

\* "until the job is terminal": every frame is dealt with, or lost with the
\* process, even if the gateway never answers, the job never ends and frames
\* wait behind a long call.
EveryCallAnswered ==
  \A r \in Calls : call[r].at = "sent" ~> call[r].at \in {"done", "lost"}
=============================================================================
