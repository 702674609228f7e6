# Local Agent Gateway in TLA+

The gateway accepts coding and inference jobs over HTTP, keeps them in SQLite,
and runs them one by one or a few at a time on an agent backend (Codex App
Server, Claude, Grok, Cursor). Its promises are about jobs: an accepted request
runs at least once and ends, a cancellation that was accepted is never
overridden, the turns of a conversation run in order and never two at a time,
a retried request is not executed twice while its key is on record, and a client
may follow the events of a job from anywhere. These modules say what those promises are, model the code
that keeps them, check the models with TLC and prove the most important
promises with TLAPS.

## The system

| Part | State | Operations | Talks to |
| --- | --- | --- | --- |
| Job store (`src/src/application/store.ts`, `infrastructure/database.ts`) | tables `conversations`, `jobs`, `jobAttempts`, `jobEvents`, `idempotencyRecords`, `gatewayMetadata` | submit, claim, append event, store thread, complete, fail, cancel, recover, prune, read | everything else calls it |
| Job processor (`application/job-processor.ts`) | `active`, `activeRuns`, `pumping`, `stopping`, `failure`, one AbortController per run | `start`, `stop`, `wake`, `cancel`, `pump`, `run` | store, runners |
| Process (`index.ts`) | up or down | start, SIGTERM, crash, restart by launchd after a crash or a failed start | processor, HTTP server |
| HTTP API (`app.ts`) | one handler per request, retention timer | submissions, cancellation, reads, event stream, retention sweep | store, processor |
| Responses facade (`adapters/openai/`) | one handler per response | submit, wait or stream, cancel on disconnect or timeout | store, processor |
| Codex runner and transport (`adapters/codex/runner.ts`, `json-rpc.ts`) | pending requests, buffered notifications, waiters | request, notify, next notification, fail all, close | App Server child process |
| Claude, Grok, Cursor runners | one child process or SDK call per run | spawn, exit, error, abort, timeout | child process |
| Launchers (`adapters/codex/launcher.ts`, `lima/`) | the snapshot of a run in the guest, the children that make and remove it | prepare workspace, probe version, clean up | OS, Lima VM |
| Database schema (`infrastructure/database.ts`) | `user_version`, tables | migrations V1 to V6 | SQLite |
| Encryption (`infrastructure/crypto.ts`, `key-rotation.ts`, store bootstrap) | key of every payload, sentinel | assert key at start, rotate | store |
| MCP server (`mcp/`) | decoder buffer, the frame being answered, the poll of its job | decode frames, dispatch, submit, poll | HTTP API |
| Deployment (`scripts/local-production.ts`, `local-production/gatewayctl.sh`) | releases and which of them proved ready, `current`, plist, service | install and roll back; start, stop, restart, back up, uninstall | launchd, database file |
| Configuration, structured output, errors | none | pure functions | |

### What is hard about it

* Control passes between activities at every `await`. A run, a cancellation, a
  stop, the pump and the sweep each keep something in memory that the tables may
  have outrun: `cancel()` commits and then looks for a controller, `pump()`
  compares `active.size` and then waits for a claim, `stop()` aborts the runs it
  can see.
* Whatever a cancellation meets - a queued job, a claim under way, a run that is
  returning, a run that is failing, a crash - it has to win.
* A crash may fall between any two transactions. Recovery ends the running jobs
  somebody asked to cancel and queues the others again, in front of later turns.
* Some failures have no handler: `mkdtemp` and one `failJob` stand before the
  `try` of `run()`, and the calls in its `catch` may throw themselves. The job
  then stays `running` until the next start, and blocks its conversation.
* A backend is a child process or an SDK that answers late, twice or never, while
  its run is aborted, times out or is told that the process is gone.
* A request of the Responses API has a client that leaves, a deadline, a time of
  grace, and perhaps another request that waits for the same job.
* A database that a crash left between two versions of its schema, and a key that
  somebody replaced, meet the next start.
* The snapshot of a repository takes five commands in a guest; any of them may be
  killed by an abort, and killing `limactl` does not kill what it has started.
* An MCP client writes frames while the one before is answered for minutes, and a
  request the adapter gave up may be carried out all the same.
* An installation switches the release, the LaunchAgent and the process one after
  another. Any step may fail, the way back may, and the command may be killed; the
  answer it waits for may come from a process it did not start.
* The sweep deletes jobs, idempotency records and conversations by three
  different conditions that have to agree with each other.

The full list is under `hazards` in `PROJECT.json`, each with the properties
that would catch it going wrong.

## The modules

    JobLifecycle            what the jobs API promises a client
        ^  implements (proved)
    JobStore                the tables; one action per transaction
        ^  use only as StoreSpec says (proved)
    JobProcessor            memory, awaits, crashes, fairness
    EventStream             a client following a job
    ResponsesFacade         requests of /v1/responses
    McpAdapter              the stdio process of mcp/     (all four EXTEND JobStore)

    AgentRunner             what JobProcessor relies on in a runner
        ^  implement (safety proved, liveness checked)
    CodexRun                Codex, its transport and the App Server
        (EXTENDS CodexWorkspace: the snapshot it runs on)
    InferenceRun            Claude, Grok and Cursor

    EncryptionKey           the key everything stored is under
    Migration               openDatabase and its ladder of versions
        ^  implements both (proved)
    Startup                 gateway and rotation script on one file

    Deployment              install, gatewayctl, launchd

Theorems stand in a module of their own per component, which extends it:
`JobStoreProofs`, and on top of it `JobProcessorProofs`, `ResponsesFacadeProofs` and
`ClientProofs` (of `EventStream` and of `McpAdapter`); `CodexRunProofs`, `InferenceRunProofs`, `StartupProofs`
(with those of `EncryptionKey` and `Migration`) and `DeploymentProofs`.

Each `MC` module instantiates one of them for TLC. A definition marked `Faulty`
is a way the code could be wrong; no specification uses it, and putting it in the
place of the definition below it makes a run fail.

### JobStore

A row of a table is a record, a table is a function from ids to rows, and an id
without a row maps to a null row (`NoJobRow`, `NoConversationRow`). Ids are
random UUIDs in the code; here an id is a slot, free when no row bears it. The
process has one SQLite connection and every writing method of `GatewayStore` is
one transaction on it, so each is one action: `SubmitTurn`, `SubmitRun`,
`SubmitInference`, `CreateConversation`, `ClaimNextJob`, `AppendEvent`,
`UpdateBackendThread`, `CompleteJob`, `FailJob`, `MarkCancelled`,
`RequestCancellation`, `RecoverInterruptedJobs`, `PruneExpired`. A call that
throws rolls back and is a stuttering step. Payloads (prompts, results, error
texts, ciphertext, request hashes) are left out; a replayed or conflicting key
changes nothing, so both are the same stutter. The event log of a job is the
sequence of its event types, `sequence` being the position. `now` is the clock
all timestamps come from; two calls may fall into the same tick, as they may
into the same millisecond.

Keys are forgotten in two ways: the sweep takes the record of each job it takes, and
a rotation of the encryption key (`RotateKey`, `key-rotation.ts:56`) takes all
records and keeps the jobs, so that a retry after it runs its request again, as
`docs/LOCAL_PRODUCTION.md` says. The script rotates while the gateway is down; the
store alone does not know when that is, so `StoreNext` is `GatewayNext` or a rotation
at any time. `IdempotencyConsistent` and `KeysKept` say what is left of idempotency.

`StoreNext` lets the calls of a run (`RunCall`) happen whenever the job is
running. That the processor really keeps to this is a property of its own:
`StoreSpec`, checked of `JobProcessor`.

### JobProcessor

One action per stretch of code between two awaits, with the transaction the
second of them waits for. `run[j]` says which await the run of job j is at:

| phase | waits for | code |
| --- | --- | --- |
| `starting` | `mkdtemp`, or nothing | `job-processor.ts:115-132` |
| `reading` | `backendThreadId` | 138 |
| `running` | `runner.run`, with `onEvent` on the way | 136-143 |
| `storing`, `finishing` | `updateBackendThread`, `completeJob` | 149, 150 |
| `failing`, `cancelling` | `failJob`, `markCancelled` | 145, 153, 157 |
| `ended` | the removal of the workspace | 158-160 |

`cancel()` is two actions, `RequestCancel` and `AbortRun`, because the abort
follows the commit. The pump is four: `PumpBegins`, `Claim` or `NothingToClaim`
(or `ClaimThrows`), and `Register`, so a stop or a cancellation may fall between
a committed claim and the registration of its run. Whether it really can depends
on the driver: the synchronous SQLite driver runs the statements of a claim
without letting a timer or a socket in between. `YieldsInClaim` chooses: TRUE
lets everything in, FALSE nothing. The properties that hold at either setting
are checked with TRUE; `AbortReachesRuns` holds only with
FALSE, which is worth knowing before the driver is replaced by an asynchronous
one: a run registered after `stop()` went through `active` is never aborted.

Memory is lost in a crash (`Crash`) and at the end of a graceful shutdown
(`Stop`, then `Exit`, at once or with runs still under way, as the 30 s bound
allows); `Start` recovers the tables before anything else happens.

### EventStream

`GET /v2/jobs/:jobId/events` reads the log and the status of a job in a loop.
One action is one stretch between two awaits: `Poll` (`events()`), `Write` (one
event; the buffer may be full), `Drained` (`once(drain)`), `Check` (`getJob()`
and the decision to go on), `Leave` (the loop condition) and `ReadFails` (either
read when the job has been swept). `wire` is what was written to the open
connection and not read by the client yet; `Disconnect` and `Restart` lose it.
The client opens one stream after another with the last id it read. `Work` is
the rest of the gateway: every call of `JobStore` but the recovery, which is
part of `Restart`.

Three things about this handler are worth knowing, and the model says them.
It reads the events before the status, so a terminal event committed between
the two reads of an empty poll would be missing from a response that was ended
in order; the synchronous SQLite driver commits nothing there. `ReadsYield` is
FALSE in the run, because `EndsComplete` (in `StreamInv`) does not hold otherwise. A
handler that waits for `drain` when the client leaves waits until
the process ends (`NobodyPollsForTheGone` lists it). And a job swept under a
stream leaves the response open, because the reply was hijacked
(`phase = "failed"`): its client learns the end only by coming back, to a 404.

### ResponsesFacade

A request of `POST /v1/responses` submits a job under its `Idempotency-Key`, or
under a random key nobody else knows (`PrivateKeys`), and waits for the job
(`waitForTerminalJob`) or streams its text (`streamResponse`). `req[r].at` names
the await its handler is at; `gone`, `late` and `grace` are what the connection
and the clock did meanwhile; `cancellation` is the call of `processor.cancel` that
a disconnection causes, which the handler does not wait for. The stream drains
the events, looks at the status, and drains once more when the job is over; the
model keeps the two drains apart (`draining`, `redraining`), because text may be
committed between the first and the look. A job id is not used again while a
request remembers it.

### CodexRun, CodexWorkspace, InferenceRun and AgentRunner

`CodexRun` is one `run()` over its transport and an App Server process. Promises
that are settled are continued before the event loop turns to anything else; the
exception is several lines in one chunk of output, and `Settled` says so. `run.at`
is the await, `run.promise` what became of it. The server answers, notifies, asks,
exits or says nothing, in any order; a line is a member of a small set. What it asks
is rejected as a matter of policy, which is one more write to it.

A text is a sequence of pieces, numbered as the server sent them; a piece may have
any length. The redaction of paths holds text back (`carry`), which `finish()` hands
over at the end, and `reconcile()` what only the final message has; what is replaced
is data. `run.cut` counts the pieces that went over `maxResultBytes`: where the limit
falls is left open, so that any end of what is held back or emitted may be cut off.
A run that was cut returns all the same, and so does one whose final message does not
begin with the text of its deltas: `reconcile()` then emits nothing, and the text that
is returned is another one than the text that was streamed (`runner.ts:307`). The
model keeps what was streamed.

Nobody listens to errors of the App Server's stdin (`json-rpc.ts:154`). What is
written to one that has exited, before Node learns of it, breaks the pipe and ends the
gateway (`StdinBreaks`). So does a child that is given no pipes because the gateway is
out of descriptors: the constructor of the transport reads its stdout before anybody
listens to its error (`json-rpc.ts:57`), and `spawnClaude` and `spawnGrok` reject before
they listen (`NoPipes`, `claude/runner.ts:109`, `grok/runner.ts:97`). The run is
`crashed` then; to the processor that is one of the crashes it recovers from.

`CodexWorkspace` is what comes before and after: on the host the version check
alone, with Lima the commands of `copySnapshot` first. `workspace.step` is the
command, `children` the processes of the host at work on it, two for the pipe of
`tar` into `limactl`. Each closes, fails, is killed by its timer or by the signal of
the run. `cleanup()` removes the directory, and its failure is swallowed; so a
snapshot may stay in the guest where the removal itself failed, or where a `mkdir`
whose `limactl` was killed came to its end after the removal. `NothingLeft` says that
it stays nowhere else. `pipeTar` puts no listener on `lima.stdin`: when `limactl` ends
while `tar` writes, the error of the broken pipe has nobody to go to and ends the
gateway (`PipeBreaks`, `client.ts:163`). To the processor that is one of the crashes
it recovers from.

`InferenceRun` is `run()` of Claude and Grok, over a child process, and of Cursor,
over an SDK agent whose creation, prompt and disposal go on behind the back of a
run that was aborted.

`AgentRunner` is what the processor relies on: events only while a run is under
way, one settlement, silence after it, and that it comes. The last part
holds with exceptions, which `ImplementsRunner` of `CodexRun` and of `InferenceRun`
name. The broken pipes and the missing pipes above end the gateway, not the run. And
of Codex, `turnTimeoutMs` bounds the wait for one notification (`runner.ts:180`), not the
turn, and any notification starts it again. A server that goes on notifying keeps
the run, and a place of the processor, for as long as it likes.

The processor takes the thread a coding turn answers with for that of its
conversation. The runner returns the id in the answer to `thread/resume` without
comparing it with the id it asked for (`runner.ts:97-121`); `ReturnedThread` assumes
that the App Server answers with the same, and `ThreadNeverReplaced` rests on it.

Two more things are worth knowing. The App Server is told `turn/interrupt` only by
an abort that comes once `turn/start` was answered (`runner.ts:118`); one that
comes before is noticed by the first wait for a notification, and the process is
terminated without it. And a notification that is still buffered when the process
exits is dropped, `turn/completed` included (`json-rpc.ts:270`): a turn that was
completed then fails.

### EncryptionKey, Migration and Startup

`EncryptionKey` keeps, of every payload, the key it is under: the prompt, which
stands for a job when a database without a sentinel is opened for the first time;
everything else of the job; the hash of its request; the sentinel. The operator
replaces the key in the Keychain whenever he likes and rotates while the gateway
is down, as the documentation asks; the gateway starts with what the Keychain
holds, and compares. `docs/LOCAL_PRODUCTION.md:126` still says that rotation is
not supported because rows are not re-encrypted; `rotateEncryptedPayloads`
re-encrypts them, as lines 211 and after of the same file describe.

`Migration` is `openDatabase` statement by statement. Only V2 to V3 is a
transaction; the other steps are handed to SQLite as several statements that
commit one by one. After a crash three places are left that no start gets out of
(`Stuck`): tables without a version, the column of V2 without its version, and the
column of V6 without its version. From everywhere else the next start goes on.

`Startup` is the two of them on one file. The gateway opens the file and climbs the
ladder, compares its key, and listens; a crash takes it down anywhere on the way, and
the rotation script opens the file the same way while the gateway is down. What
neither module can say alone is that nothing is served, stored or rotated but on the
whole schema (`ServesOnComplete`), and that a database of a later gateway is left
alone with all that is stored in it (`NeverDowngrades`).

### McpAdapter

The decoder, the loop of `runMcpStdio`, the two tools and the requests they make,
over the tables of `JobStore`. A frame is two tokens, header and body; the pipe hands
them over in chunks of any size (`Push`). Frames are answered one at a time: the next
chunk is read when the last frame of the one before was answered, so a `ping` waits
behind a `run_inference` for as long as `timeoutMs`. `posts` holds the POSTs on their
way, and one the adapter gave up may still arrive. `call[r].key` is the key the client
gave, or a random one.

Worth knowing: the adapter never cancels. A call without `idempotencyKey` that times
out on the POST leaves a job behind that nobody can ask for; one that times out later
names its job, and the client may poll it. A header without a valid `Content-Length`
ends the process, and with it the frames that came whole in the same chunk. And
`get_inference_job` of a job that is not completed yet is reported as an error, with
its status.

### Deployment

One command at a time: `pnpm local:install`, step by step as `activateRelease` and
its `catch` go (`op.at`, `op.back`), or one of `gatewayctl`. launchd, the gateway, and
whoever else may use the port go on meanwhile. `status` tells a release that is on
trial (`.pending-activation`) from one that was ready; `order` is the order of the
directories by modification time, which `gatewayctl rollback` chooses by.
`launchctl bootout` returns while the process may still be ending (`service =
"removing"`), and a process is of the release that was current when it started.
Every step may throw, and the command may be killed between any two (`Killed`).

Worth knowing, and in the model: a candidate that migrates the database and then
fails leaves the release before it unable to start, which the installation reports
as one that "could not be restarted" (`stranded`). `rollback` goes to the directory
that was modified last and is not current: after R1, R2, a rollback to R1 and an
installation of R3, it goes to R2. `gatewayctl restart` while the old process is still
ending finds the label loaded, does not bootstrap it, and then fails to kick it.
`gatewayctl start` does not look at the port, so that the answer it waits for may come
from somebody else; `install` does, and marks a release only after it. What it cannot
exclude is a gateway that somebody starts by hand between that look and the answer:
`Quiet` assumes that nobody does.

### JobLifecycle

Only what a client of the API can tell: status, whether a cancellation was
accepted, the conversation. Accepting is bounded; a turn begins only when no
other one of its conversation runs; a result or a failure comes only to a job
nobody asked to cancel; terminal means terminal until the job is forgotten. The
refinement mapping reads `status`, `wanted` and `conversation` from the rows.

## What the runs check

| Run | Instance | Question |
| --- | --- | --- |
| `store` | 3 jobs, 2 conversations, queue of 2, 2 attempts, 2 ticks | Do the tables stay truthful under every order of calls, and is every call a step a client may see? |
| `store_retention` | 2 jobs, 2 owners, 1 attempt, 3 ticks, window of 1, rotations of the key | Do keys, conversations and the sweep agree, and is a key kept as long as its job unless it is rotated? |
| `processor` | 2 jobs, 2 places, `YieldsInClaim`, one crash or shutdown | Do memory and tables agree, is concurrency bounded, does the processor call the store as it may, does a conversation keep its thread? |
| `processor_one_run` | 2 jobs in a conversation, 1 place, no yield in a claim, one crash or shutdown, 2 ticks, fairness | Do stop and cancel reach every run, does every accepted job end? |
| `event_stream` | 1 job with a log of 3, pages of 2, 2 connections, fairness | Does a client that comes back read every event once and in order and learn the end, has a response that was ended carried everything, does a loop outlive its client? |
| `facade` | 2 requests, one of them streaming, each with the shared key or the private one, one job, fairness | Does the stream carry the text, are answers true, is the shared job left alone and the abandoned one cancelled, is every request answered? |
| `codex_run` | one run on the host or in Lima, buffer of 1, 3 notifications and any number of foreign ones, fairness | Do transport and run agree, is the text in order and all of it handed over that fits, is a process or a snapshot left, does the run settle? |
| `inference_run` | one run of each other backend, output of 2 | Does it settle once, clean up, and return only what was made of a whole output? |
| `inference_cancelled` | the same | Does an active job receive its cancellation? It does not always: see below. |
| `startup` | every version of a file, 2 jobs, 3 keys, 3 crashes, fairness | Is the version true at all times, does a gateway serve only on a whole schema with the key of what is stored, does it know its requests again, does every file open? |
| `deployment` | 3 releases, two versions of the schema | Are only releases marked that were ready, does a failed installation go back, is a backup cold? |
| `mcp` | 2 frames, 2 jobs, one key of the client's and a private one, fairness | Are frames answered once and in order, are the answers true, is every frame dealt with? |

The properties, by what they are about:

* One turn at a time and in order: `OneRunningPerConversation`,
  `ConversationOrder`, `ThreadNeverReplaced`.
* Cancellation: `CancellationWins`, `AbortReachesRuns`
  (`CancelReachesRun`, `StopReachesAll`), `AbandonedIsCancelled`, `SharedJobSpared`.
* Records that tell the truth: `AttemptsMatch`, `EventLogMatches`,
  `HistoryIsFinal`, `PruneSparesRecent`.
* Retries: `IdempotencyConsistent` (a key answers with an existing job of its owner,
  and keys are forgotten all at once or not at all), `KeysKept` (by a rotation only,
  while the job is there).
* Bounds: `QueueBounded`.
* Memory and tables: `ProcessorInv` (`OwnershipAgrees`, `ConcurrencyBounded`, and the
  types of the tables), `StoreSpec`.
* What a client sees: `StreamInv` (`NoGapNoRepeat`, `EndsComplete`),
  `ClientLearnsEnd`, `NobodyPollsForTheGone`, `FacadeInv` (`StreamCarriesText`,
  `AnswersTruthful`), `McpInv` (`AnswersInOrder`), `ToolTruthful`.
* Backends: `CodexInv` (`TransportSound`, `NobodyForgotten`), `TextInOrder`,
  `NoOrphan`, `InferenceInv` (`NothingLeft`, `AgentTold`, `ResultWhole`),
  `ImplementsRunner`.
* The next start: `Readable`, `RetriesRecognised`, `StartupInv`
  (`VersionTruthful`, `OpenIsComplete`, `ServesOnComplete`), `NeverDowngrades`,
  `OpensUnlessStuck`.
* The next release: `DeploymentInv` (`CurrentStands`, `BackupIsCold`),
  `ProvenWasReady`, `FailureRestores`.
* Everything together: `ImplementsLifecycle`, `EveryJobEnds`, `EveryRequestEnds`,
  `EveryCallAnswered`.

`inference_cancelled` is expected to fail. `docs/QUALITY.md:26` says that active
jobs receive cancellation on graceful shutdown. A job is active from its claim on,
and `spawnClaude` and `spawnGrok` add their listener to a signal that may have been
aborted before, while the run waited for `mkdtemp` or `backendThreadId`; such a
signal calls no listener. The counterexample is a run that was aborted, starts its
child all the same, and waits for it.

`EveryJobEnds` is weaker than one might wish, for a reason in the code. A run
that rejects leaves its job `running` with nobody to end it. The gateway reports
itself unready from then on (`OwnershipAgrees`), but goes on serving, and the
turns behind that job wait. So the property is: an active job ends, or a job of
its conversation is stranded in this way and waits for a restart.

### Bounds, and why they are enough

* Three jobs and two conversations give two turns of one conversation and one
  of another; a queue of two is full with one job left to refuse.
* `MaxAttempts = 2`: one interruption and a second attempt; 1 in `store_retention`,
  where attempts do not matter. `MayInterrupt`
  keeps a crash from interrupting a job that has no attempt left; nothing in
  the code is bounded this way.
* `MaxEventsPerJob` is the code's limit, made so small that a delta is refused
  while the terminal event still passes.
* `MaxTime`: 3 ticks with a window of 1 are the shortest clock on which a job is
  submitted in one tick, ends in another and expires or not.
* `RotationTimes` are the ticks at which the encryption key may be rotated: all in
  `store_retention`, all in `facade`, where a rotation comes with a restart. None in
  the other runs: no property of theirs but `ToolTruthful` looks at a key, and that one
  is about retries between rotations.
* `MaxRestarts = 1` for the processor: one crash or one graceful shutdown, at
  any point. `MayThrow` lets one uncaught exception happen per process.
* `Page = 2` with a log of 3 needs a second poll; two connections are one
  interruption. The handler of a stream shares nothing with that of another, so
  one client, one connection at a time, is enough.
* Two requests of the facade are the fewest of which one can take a job from the
  other. There is one job id, so that of two requests with different keys only one
  gets a job at a time; such requests share nothing.
* `MaxBufferedNotifications = 1` makes a second notification overflow; three
  notifications are two deltas and an end. Where the byte limit falls is any choice
  at every piece, so no number bounds it. `ServerChats` sends one line at a time,
  while the run waits for one, and is not counted.
* `MaxOutput = 2` is two pieces of output within the limit and one beyond it.
* Three keys are the stored one, one that is rotated to, and one that fits neither;
  two jobs can be under different keys. Three crashes let each rung that may get
  stuck be reached from a database that was cut short before.
* Two frames are a call and one behind it, which may be a retry with its key, a poll
  of its job, or anything else; four tokens come in every division into chunks. Two
  jobs let a retry be told from a second run. An id that was swept is not used again
  while a call remembers it.
* Three releases are one that was replaced, one that is current and a candidate, one
  of which brings the database to a schema another cannot open. Each is built once;
  there is no bound on the commands.
* A guest or a host, and one snapshot: runs share neither.
* Jobs, conversations, keys and threads are interchangeable and permuted by
  symmetry in the safety runs of the store and the processor, never where
  liveness is checked.

### Fairness

`FairSpec` assumes what the code and its host provide, in `JobProcessor`: launchd
starts a process again that went down with an error (`KeepAlive` with
`SuccessfulExit` false) and the operator one that he stopped, the pump is on a
100 ms timer, a promise that the event loop holds is settled, a turn ends, and
`stop()` is bounded by 30 s. That a turn ends is what `ImplementsRunner` says of
the backends, with the exception of the Codex server that goes on chatting. It is
weak fairness throughout. Nobody owes the gateway a request, a cancellation, a
tick, a sweep or a crash. In `EventStream` the handler's own timer and reads come
back (its only wait without a bound, for `drain`, is not assumed to end), the
network delivers what was written to an open connection, and a client that has
connections left opens one. In `ResponsesFacade` the event loop goes on with every
handler, the two deadlines pass, and a client reads what it is sent or leaves; the
job owes nothing. In `CodexRun` and `InferenceRun` the run's own continuations and
timers come; the App Server, the child and the SDK owe nothing. In `Startup` a
start that was begun goes on, and one that was refused is repeated. In `McpAdapter` the
adapter reads what is in its pipe and goes on with the call at hand, whose requests
fail after 30 s at the latest (`client.ts:143`) and whose clock runs on; the gateway,
its clients and the network owe nothing. `Deployment` claims no liveness: every
wait of it has a deadline, and what launchd does when is not the code's.

## What is proved

Every theorem holds for all values of the constants under the named assumptions of
the module that declares them: nulls are no ids (`NullsAssumption`,
`NoKeyAssumption`, parts of others), the ids of jobs are finitely many and the queue
holds at least one (`LimitsAssumption`), limits are naturals
(`MaxCrashesAssumption`, `CodexAssumption`, `InferenceAssumption`,
`StreamAssumption`, `ProcessorAssumption`), each release supports some version of
the schema (`ReleasesAssumption`), the client is an owner and its private keys are
keys (`RequestsAssumption`, `CallsAssumption`). TLC evaluates each of them in a run. Two theorems have
a hypothesis besides, which is about the SQLite driver and is said with them.

### The store

| Theorem | States |
| --- | --- |
| `StoreTypeCorrect` | `StoreSpec => []StoreTypeOK` |
| `StoreInvariant` | `StoreSpec => []StoreInv` |
| `ConversationExclusive`, `AttemptsTruthful`, `CancellationFinal`, `KeysAnswer`, `TurnsInOrder` | one conjunct of it each |
| `RowsStayTruthful` | `StoreSpec => []RowsTruthful`, two conjuncts of it |
| `KeysStay` | `StoreSpec => KeysKept` |
| `QueueIsBounded` | `StoreSpec => []QueueBounded` |
| `LogsTruthful` | `StoreSpec => []EventLogMatches` |
| `SweepSparesRecent`, `HistoryStaysFinal` | the action properties |
| `StoreImplementsLifecycle` | `StoreSpec => Lifecycle!Spec` |

`StoreInv` is inductive together with the types. Its parts need each other:
that no two turns of a conversation run (`OneRunningPerConversation`) keeps them
in order when recovery queues one again; that attempts are numbered without a
gap (`AttemptsMatch`) is what makes the UNIQUE constraint harmless; that a job
which is over has the time it ended at (`RowsCoherent`) is what lets the sweep
be described by `completedAt` alone; that a conversation lives as long as its
jobs (`ConversationIntact`) and that each key on record answers with one job
(`IdempotencyConsistent`) survive the sweep only together. `StoreInv` is the
invariant of the proofs; the runs check its parts, but for `RowsTruthful`
(`RowsCoherent` and `ConversationIntact`), which is only proved.

The proof first sorts the steps of the store by what they do to the rows
(`StepCases`: untouched, inserted, claimed, ended, cancelled, recovered,
pruned), describes for each what every row looks like afterwards, and then takes
each conjunct through these cases. `QueueIsBounded` adds a counting argument:
a step inserts at most one active job, and only below the limit. The refinement
uses `StoreInv` where a step of the store carries less in its guard than the
lifecycle asks for. `LogsTruthful` needs that every transaction
that ends a job writes its terminal event, and that this event passes a full log.

What the components above the store need of it are four lemmas: a job that ended
stays as it is until it is swept (`EndedStays`), a job that goes on keeps its log and
what was asked of it (`JobGoesOn`), a key answers with the same job as long as the
job exists and no key is rotated (`KeyStays`), and no job appears but by a submission (`NoneAppears`).

### The components over the store

| Theorem | States |
| --- | --- |
| `ProcessorImplementsStore` | `Spec => StoreSpec` of `JobProcessor` |
| `ProcessorCorrect` | `Spec => []ProcessorInv` |
| `AbortsReachRuns` | `~YieldsInClaim => (Spec => []AbortReachesRuns)` |
| `ThreadsStay` | `Spec => ThreadNeverReplaced` |
| `StreamImplementsStore` | `Spec => StoreSpec` of `EventStream` |
| `NothingMissed` | `Spec => []NoGapNoRepeat` |
| `StreamCorrect` | `~ReadsYield => (Spec => []StreamInv)` |
| `FacadeImplementsStore` | `Spec => StoreSpec` of `ResponsesFacade` |
| `FacadeCorrect` | `Spec => []FacadeInv` |
| `SharedJobsSpared` | `Spec => SharedJobSpared` |
| `McpImplementsStore` | `McpSpec => StoreSpec` |
| `McpCorrect`, `ToolsTruthful` | `McpSpec => []McpInv`, `[]ToolTruthful` |

With `... => StoreSpec` every theorem of the store is one of the component. For the
processor this is the heart of the matter: a run calls the store a while after
it was claimed, and `RunsSound` says that its job is still `running` then, through
whatever cancellation, stop or rejected run came in between. It needs
`ClaimsSound` (at most one job is between its claim and its run, and only while a
pump is at work) and `DownIsEmpty`; `PumpHasRoom`, that every pump under way has a
place for one more run, gives `ConcurrencyBounded`.

`~YieldsInClaim` in `AbortsReachRuns`, and `~ReadsYield` in `StreamCorrect`, say that
nothing runs between the statements of a claim and the registration of its run, and
between the two reads of a poll: true of the synchronous driver in use, and wrong of
another. Both theorems fail without, as the sections above explain; everything else
holds at either setting. `AbortInd` adds to the invariant of the processor that
`stop()` finds no pump at work; `ThreadInd` that a run of a conversation holds the
thread that is stored, or the first there will be. The conversation may only be taken
from under it by the sweep when no job of it is left (`SweptConversations`).

In `EventStream` the cursor of the open connection is the number of events the client
has read or will (`CursorSound`), what is on the wire goes on from there
(`NothingSkipped`), and only one connection is open (`OneConnection`). That a
response that was ended was complete (`EndInd`) needs that a poll which found nothing
was at the end of the log, and a log that does not grow once its job is over.

In `ResponsesFacade` `Controlled` says for each await what the handler knows there.
`Told` says what stays true of what it has read, while its job exists: the status it
saw, and that a job with a private key whose time is up was cancelled. `Delivers` is
the text, as far as the cursor. `KeysSound` says that the job of a request is the one
its key stands for, and that a private key and its job are nobody else's; without it
a swept job whose key is used again would be taken for the old one.

In `McpAdapter` the order of the answers is that of three queues. `InRow` says that of
the frames written so many are dealt with, that the next ones are those of the chunk in
hand, and that the tokens of the others are all still in the buffer and the pipe, in
their order (`Unread`); a write, a cut at any place (`ChunkCut`) and an answer
(`TurnPasses`) each move the borders. `CallSound` says that a POST is made once, by the
call in hand, and that until it arrives the call has no job; `ToolSound` and `CallTold`
that a status which was read at the end of a job is its status still. A job that was
found or committed by a POST which the adapter has given up is the one its key stands
for all the same (`JobComes`).

### The runners

| Theorem | States |
| --- | --- |
| `CodexCorrect`, `TextCorrect`, `NothingOrphaned` | `Spec => []CodexInv`, `[]TextInOrder`, `[]NoOrphan` |
| `CodexImplementsRunner` | `Spec => Runner!Quiet` of `CodexRun` |
| `InferenceCorrect` | `Spec => []InferenceInv` |
| `InferenceImplementsRunner` | `Spec => Runner!Quiet` of `InferenceRun` |

`Runner!Quiet` is the safety part of `ImplementsRunner`: events only while a run is
under way, one settlement, silence after it. That a run settles is left to TLC.

`CodexInd` ties the await of the run to what the transport has pending (`WaitsSound`)
and says what is not there yet before the App Server is, and not any more once the
run cleans up (`PhaseSound`). `NothingOrphaned` needs besides that no child outlives its
command (`WorkspaceSound`). For the text, `TextSound` follows each delta from the
server to `onEvent`: the notification in hand, those buffered and those on the standard
output are the deltas in a row, with nothing missing, unless the transport has failed;
they go on where the text ends that was emitted, held back or cut off (`TextLen`); and
an end comes behind the last of them. What was emitted and held back rises, and counts
from 1 without a gap while nothing was cut off (`Counted`). `Pipe` is this for two queues, with lemmas for each way a line moves.

### Files and releases

| Theorem | States |
| --- | --- |
| `OneKeyAlways`, `EverythingReadable`, `RetriesAlwaysRecognised` | `Spec => []...` of `EncryptionKey` |
| `StartupImplementsKey`, `StartupImplementsMigration` | `StartSpec` implies `Spec` of `EncryptionKey`, and of `Migration` |
| `ServedIsReadable`, `GatewayHoldsFile` | `StartSpec => []Readable`, `[]HoldsFile` |
| `StartupCorrect` | `StartSpec => []StartupInv` |
| `NothingDowngrades` | `StartSpec => NeverDowngrades` |
| `DeploymentCorrect`, `OnlyReadyIsProven` | `Spec => []DeploymentInv`, `[]ProvenWasReady` |
| `FailureGoesBack` | `Spec => FailureRestores` |

`OneKey` says that there is a key everything is under, and that a gateway which
serves has it and has written it into the sentinel. It is inductive with the
types: a start compares one prompt or the sentinel with its key, and because all
is under one key, that one comparison decides about everything. `Readable` alone
would not survive a stop followed by a start with another key. Every step of `Startup`
is a step of `EncryptionKey` or leaves its variables alone (`StepOfKey`), which
carries this over.

Of the schema, what the statements that are left to run lead to is part of the
invariant (`ClimbsToLatest`, with `Leads`): whatever prefix of them a crash lets
through, each version is written after the parts it promises, and what is left of the
ladder ends at the version of the binary. Then an open database is complete, and
`HoldsFile` (only a gateway that is down lets the script or an opening have the file)
gives it to a gateway that serves.

`DeploymentInd` says for each step of an installation where `current` points, on the
way there and on the way back (`CurrentSound`), whose process may answer
(`PortSound`) and what has been reached (`ProgressSound`). That the release that is
marked has answered itself needs all three: the port is free from the look at it on,
so that a process that answers is that of the candidate.

### Only model-checked

Liveness and everything with ENABLED is out of the prover's reach: `EveryJobEnds`,
`ClientLearnsEnd`, `NobodyPollsForTheGone`, `EveryRequestEnds`, `AbandonedIsCancelled`,
`EveryCallAnswered`, `OpensUnlessStuck`, and the settling in `ImplementsRunner`.
There is no induction over data in any proof: what a sequence holds is said of its
places, and each step moves one of them or cuts a piece off.

## What is not modelled

* Payloads, ciphertext, error texts, metrics: of a payload only its key matters.
* The report of the last sweep in `gatewayMetadata`.
* A rotation while the gateway runs, which only the documentation forbids.
* The readiness probes of the backends and of the Lima guest, and what the parsers
  of the backends' output accept. The probe of Codex writes to an App Server of its own
  over the same transport, and a broken pipe ends the gateway there as well.
* Reads that change nothing, except where a later step depends on what was read.
* Request validation, authentication, rate limits: per request and stateless.
* Configuration, structured output, identifiers and errors: functions of one value
  without state or order. Where their outcome decides something (a result that does
  not match its schema, a version that is refused) the models allow either.
* Back pressure on the output of the MCP adapter: it waits for its only reader.
* Of a deployment: what a release is built from, the registry of repositories, the
  secrets, and the copies of assets for releases from before they were versioned,
  which touch a directory and may change its place in the order of `rollback`.
* `launcher.sh`, `smoke.ts`, `verify.sh`, `checkpoint.sh`: tools run in a row.

## Plan

1. `JobProcessor` over `AgentRunner` instead of a runner of its own.
2. Pure functions: percentiles of the metrics, the redaction of paths across the
   borders of deltas.
