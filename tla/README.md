# Formal models of langgraph_api

This directory holds TLA+ models of the in-memory LangGraph API server
(`langgraph_api/` and `langgraph_storage/`), TLC configurations that check them on
small instances, and TLAPS proofs of the results that matter most. The files at the
root of the repository and in `api/`, `auth/`, `js/`, `models/` and `middleware/`
there are copies of those in `langgraph_api/`; the models refer to the latter.

The server is one asyncio process. Between two awaits that really suspend nothing
else runs, so one action of a model is the code between two such points. Which awaits
suspend decides everything: a lookup in a dictionary behind `await` does not, a log
call (`await logger.ainfo`, a thread pool) does. Without an authorization handler
`handle_event` returns without suspending. Access, Configuration, Batch and Items are
models of a server that has such a handler, Identity of every way to authenticate;
the others assume that there is none.

## 1. The parts of the system

| Part | State | Operations | Interacts with | Module |
|---|---|---|---|---|
| Run table and queue (`ops.py` `Runs`, `models/run.py`) | list of run rows, status, `created_at`, retry counter | `put` with four multitask strategies, `next`, `enter`, `set_status`, `delete`, `cancel`, batches | clients, scheduler, worker, threads, streams | RunLifecycle, Configuration, Batch |
| Worker (`worker.py`, `stream.py`, `asyncio.py`, `command.py`) | outcome of a run, the `done` event, the listener task, the context of the graph | enter, resolve the graph, stream it, publish, end in one of seven ways, set run and thread status | run table, control messages, stream, graph | RunLifecycle, Execution |
| Scheduler loop (`queue.py`) | semaphore, worker tasks, webhook tasks | acquire, poll, done callback, handler, `finally` | worker, webhooks, process | Scheduler |
| Process and persistence (`lifespan.py`, `database.py`, `checkpoint.py`, `store.py`) | seven files | start, stop, kill | all tables | Server, Scheduler (the run table) |
| Webhooks (`webhook.py`) | one task per call | call, drop at a stop | scheduler loop | Scheduler |
| Stream of a run (`inmem_stream.py`, `Runs.Stream`, `stream.py`) | queues per run, kept control messages | publish, subscribe, join, time out, leave | worker, clients | RunStream, Emission |
| Waiting for an answer (`api/runs.py`, `asyncio.py`) | `ValueEvent`, heartbeat | consume, beat, answer, disconnect | stream | WaitResponse |
| Assistants and versions (`ops.py` `Assistants`) | rows, version table | `put`, `patch`, `set_latest`, `delete` with cascade | run table | Assistants |
| Graph registry (`graph.py`) | `GRAPHS`, assistants of graphs | register at a start, resolve, truncate | process, assistants, worker | Registry, Execution |
| Threads, state and checkpoints (`ops.py` `Threads`, `checkpoint.py`) | rows with values, checkpoints | `put`, `patch`, `delete`, `copy`, `search`, `set_status`, `State.post`, rollback | runs, worker | ThreadState, Access; RunLifecycle (status) |
| Authorization (`auth/custom.py`) | handlers, their cache, marks on rows | choose a handler, filter | all tables | Access |
| Authentication and identity (`auth/`, `route.py`, `utils.py`) | user of a request, context variable of a task | verify, set and reset the context | routes, worker | Identity |
| Usage counters (`metadata.py`, `http.py`) | counters, window | count, submit, put back | worker, network | Metering |
| JavaScript graphs (`js/remote.py`, `js/client.mts`) | a process, calls, call-backs with retries | call, call back, supervise | checkpointer, store, worker | RemoteGraph, Server (supervision) |
| Event streams (`sse.py`, `js/sse.py`) | bytes on the way, decoder | send, cut, decode | clients, JavaScript process | EventStream |
| HTTP answers (`api/assistants.py`, `api/threads.py`, `api/runs.py`) | calls under way | every operation | all tables | Answers |
| Store (`store.py`, `api/store.py`) | items, a batching wrapper per thread, a file | put, get, delete, search, replace, save | graphs, process | Items |
| Pure helpers (`ops.py`, `utils.py`) | none | merges, filters | tables | `Merge` of Configuration, `Lets` of Access |
| Crons, Redis stream, `ttl_dict.py` | none in this storage | crons raise `NotImplementedError`; the others are imported nowhere | | `Cron` of Answers |
| Command line, configuration | none of their own | parsing | | not modelled |

### What makes each part correct, and what makes that hard

- **Run table and worker.** Two runs of a thread are never running together; a running
  run has a worker; a result that a client may have seen does not change; every run ends
  and its end is announced; its thread is busy while it is in flight. Hard, because a
  worker reads the status once, executes for minutes, chooses its outcome, *logs*, and only
  then writes; cancellations, deletions and new runs come in between, and
  `Runs.cancel` itself suspends while it walks over its candidates.
- **One attempt.** The status it ends with says what happened, and the graph's
  context is closed before it is written. Hard, because signals, a time limit, a stop and the
  user's code meet in one generator, with a different exception path at each of its awaits.
- **Scheduler.** It keeps polling whatever workers do, its stop ends, results written at a
  stop survive, a webhook is called once. Hard, because of callbacks that run
  while the loop is dying, kills at any point, and a semaphore released in three places.
- **Process.** A stop that is cut short leaves the files in an order that can be
  loaded, and a later start gets to serve. Hard, because of kills between seven files and of
  files that cannot be read.
- **Registry.** After a restart the same graphs and assistants are there, though the
  environment and the assistants have changed on both sides of it.
- **Stream.** A reader gets every chunk since it subscribed, in order, once, also across
  retries, and leaves when the run is over; it is told only what it asked for. Hard, because
  readers come and go at any time, look at the status only after half a second of
  silence, and queues listed under the wrong key are never removed.
- **Waiting.** A call whose run is over is answered. Hard, because the value of the
  event is also its flag, and because nobody but the client ends a call whose task has raised.
- **Assistants.** Numbers are never reused, the row is one of its versions, a deletion
  takes the runs with it. Hard, because of selections of older versions, re-creation under
  the same identifier, and a loop over a list that other requests change or replace.
- **Threads.** A rollback leaves nothing of its run and restores the state; a row shows
  the state of its thread. Hard, because checkpoints are written by whoever still
  executes, row or no row, and the worker hears of them behind the fact.
- **Configuration and identity.** A run has only what its assistant, its thread and its own
  request gave it, and acts as whoever asked for it, through graphs that call the server.
- **Authorization.** Marks stay and pages are complete, although positions in a list are kept
  over an await.
- **Usage.** Every run is in a report that arrived or still counted.
- **JavaScript graphs.** A failure there is a failure here, and what was put is stored
  when the call returns. Hard, because the status of a stream is sent before its outcome is
  known, and lost connections are tried again.
- **Answers.** Each call is answered with a code that was right at some moment of it,
  whatever other clients do meanwhile.
- **Items.** What was written is there, for every thread and after a stop.

`PROJECT.json` lists every hazard at its line with the properties aimed at it.

## 2. The modules

| Module | Role |
|---|---|
| `RunLifecycle` | run table, queue, worker, cancellation, threads' status |
| `RunContract` | abstract: what a client may see of run statuses; RunLifecycle implements it |
| `RunLifecycleProofs` | inductive invariants of runs and of busy threads, refinement |
| `Scheduler`, `SchedulerProofs` | loop, tasks, webhooks, process, the run table on disk |
| `RunStream` | one run's stream with its readers |
| `ChunkLog` | abstract: a log with a position per reader; RunStream implements it |
| `Execution` | one attempt, from its graph to its status |
| `Emission` | which events an attempt publishes for which stream modes |
| `EventStream`, `EventStreamProofs` | the bytes of an event stream and their reader |
| `WaitResponse` | one waiting call |
| `Answers` | the code of the answer to every call for assistants, threads and runs |
| `RunStreamProofs` | about the stream, an attempt, what it emits, a waiting call and the answers |
| `Assistants`, `AssistantsProofs` | assistants, versions, the cascade |
| `VersionHistory` | abstract: a history per assistant; Assistants implements it |
| `ThreadState`, `ThreadStateProofs` | rows, checkpoints, rollbacks, updates, copies |
| `Metering`, `Server`, `ServerProofs` | usage reports; Server extends it by the process and its files |
| `Registry`, `Items` | graphs over restarts; the store (both proved about in ServerProofs) |
| `Access` | threads under authorization handlers (proofs in RequestProofs) |
| `Identity` | authentication, and whose work a run is (proofs in RequestProofs) |
| `Configuration` | where the configuration of a run comes from (proofs in RequestProofs) |
| `Batch`, `RemoteGraph`, `RequestProofs` | batches of creations; graphs in JavaScript |
| `MCRunLifecycle`, `MCScheduler`, `MCThreadState` | values of the constants for TLC |
| `MCAssistants` | the same; looks at versions and at the run table in turn (`focus`) |
| `MCRunStream` | RunStream, Execution, Emission, EventStream, WaitResponse, Answers |
| `MCRequests` | Access, Identity, Configuration, Batch, RemoteGraph |
| `MCServer` | Server with Metering, Registry, Items |

The last three put machines that share no state into one run: `mode`, chosen in the
first state, says which of them moves, and the others stay in one initial state.
Each is checked as if it were alone, and no product of their states is made. `ServerProofs`,
`RunStreamProofs`, `EventStreamProofs` and `RequestProofs` extend these three and prove the
properties that the runs check, under the names the runs have for them. What they
prove of a machine they prove from its own `Init` and `Next`, so also of the machine by itself.
What is chosen for TLC is a constant (`Streams`, the sets of stream modes asked for;
`Registrations`, the tables of authorization handlers), and the theorems hold for any choice.

An operator marked `slip` is a plausible wrong version of the operator after it: a
dropped guard, a wrong order, a forgotten reset. No specification uses it; it
documents which mistake a property notices, and `PROJECT.json` pairs each property
with one.

### RunLifecycle and the code

`status`, `thread`, `temp`, `attempt` are columns of a run and its retry counter.
`line` is the order of `created_at` among the runs whose time has come (`Due` is the
passing of `after_seconds`). `pc` is the place of the worker task:
`claimed` (yielded by `Runs.next`, task not yet run), `entered`, `executing`, one of the
outcomes (`success`, `error`, `timeout`, `retry`, `interrupted`, `rollback`) while
the log call is pending, `unthreaded` after a 404 from the thread, `closing` before
the exit of `Runs.enter`. `signal` is the event `done`; `ear` the task
`listen_for_cancellation`; `control` the first kept cancel message; `done`
the kept "done"; `others` the foreign queues, which decide between marking and deleting
in `Runs.cancel`; `req` the suspended calls of `Runs.cancel`.

| Action | Code |
|---|---|
| `CreateThread`, `DeleteThread` | `Threads.put`, `Threads.delete` |
| `CreateRun`, `CreateRunCancelling`, `CreateStateless` | `create_valid_run`, `Runs.put`, with the call of `Runs.cancel` for interrupt and rollback |
| `CancelOne`, `CancelScan`, `CancelGather` | `Runs.cancel`, split at the log calls and at the final `gather` |
| `DeleteRun` | `Runs.delete` |
| `Join`, `Detach` | `Runs.Stream.join` as far as queues matter to cancel |
| `Due`, `Claim` | `Runs.next` |
| `Enter`, `Close` | the two halves of `Runs.enter` |
| `Start`, `GraphEnds`, `GraphInterrupted`, `GraphRolledBack` | the try block of `worker` and its handlers |
| `Retry`, `Finish`, `FinishUnthreaded`, `AnnounceUnthreaded`, `FinishTemporary`, `FinishTemporaryLost` | from the log call to the end of `worker`: `Runs.set_status`, `Threads.set_status` / `delete` |
| `ListenerStart`, `ListenerHears`, `ListenerLapses` | `listen_for_cancellation`, its 240 second time-out |

### Execution and the code

One call of `worker` with the generator it consumes. `at` is where it waits; `resource` the
context of `get_graph` and the graph's stream; `raised` the exception under way. `Resolve`
is `get_graph`, `Tell` the metadata chunk, `Chunk`/`Exhaust`/`GraphFails` the graph,
`Heed` the value event `wait_if_not_done` looks at, `Publish`/`PublishFails` the
body of `consume`, `Close`/`CloseFails` the exit stack, `Give` the feedback chunk, `Tells` the
error chunk, `Unwind` the way of an exception to the worker, `Status` the class it is
caught by. A cancellation (`Expire`, `Stop`) meets the attempt where it is. A
generator nobody closes is left to the collector (`Collect`).

### Scheduler and the code

A run is only its row, its worker only what the loop sees. `Acquire`, `Poll`,
`PollEmpty`, `PollFails` are a pass of `queue()`; `QueueEnds`, `GraceOver` its
`finally`; `Cleanup` the done callback; `CallWebhook`, `DropWebhook` the webhook
task; `Stop`, `Close`, `Crash`, `Start` are `lifespan` with `stop_pool` and `start_pool`.
`disk` is the run table in the pickle file. The retry counters are written to a file that
nothing loads, so `Start` resets `attempt`. A pass that fails ends the loop: the
handler calls `exit.aclose()` and `exit` is the builtin.

### Server, Metering, Registry, Items and the code

`Boot`, `ServePython`, `StartChild`, `Answer`, `PollFails` are `lifespan` up to its
`yield`, with `collect_graphs_from_env` and `wait_until_js_ready`; `ChildDies` and
`ExitEarly` the supervision of the JavaScript process, which exits Python when
its task ends; `StopPool`, `Save`, `SaveFails` are `stop_pool`, one file at a time; `Kill` may come
anywhere; `Spoil` makes a file unreadable, as a renamed class does. A file is the
number of the session that wrote it. `Metering` is `metadata_loop`: `counter`, `from`, the
`report` in flight with its `tries`; the loop puts back what it could not send.

In `Registry` a start registers the graphs it was given one by one (`Load` is
`register_graph` with `Assistants.put(if_exists="do_nothing")`), may fail at any, and serves
when all are there. `env` is `LANGSERVE_GRAPHS`, other at every start; `Create`, `Patch`, `Delete`
are what clients do to these assistants; `Truncate` keeps those made by the system.

In `Items`, `memory` has the two stores there can be: the one made by the import and the
one `set_store_config` puts in its place. `batched` is the wrapper a thread keeps in
`BATCHED_STORE`. A call is `deciding` while `handle_event` is awaited, `queued` in the
wrapper, and done with the batch it is in. The stores themselves are `InMemoryStore` of
langgraph, modelled as a function from places to values.

### RunStream, Emission, EventStream, WaitResponse and the code

Chunks are numbered; `Put` is `StreamManager.put`. `Join` is `subscribe`, with the
stored "done" first; `Receive`, `HearDone`, `TimeOut`, `Disconnect` are the loop of
`Runs.Stream.join`; `Quit` is its `finally`, which for a join by URL passes a
string where the queue is listed under a UUID, so the queue stays. To a client all this is
`ChunkLog`: the run is a log, closed once the worker has written the end (`Settled`), and each
reader is at a position in it. `Vanish` is a worker whose temporary thread a client has deleted
first: `Threads.delete` raises 404 (`worker.py:242`), and "done" is never published, so that readers
have to leave by the status alone. `Put` keeps "done" only; `StreamManager.put` keeps each message whose topic
has "control" in it, which for the other control messages is `control` of RunLifecycle.

`Emission` is the body of `astream_state` for each stream mode and for graphs on either
side: what the graph is asked for (`due`), what it says in chunks (`GraphSays`), and what of it is
published (`NextEvent`); for JavaScript graphs `RemoteSays` and `RemoteCompletes` are
`streamEventsRequest`, which puts chunks together itself. `TakenApart` is what a retry loses:
only the first attempt has `run_id` in its config (`stream.py:123`), so in a later one that streams events no
event passes for the run's own (`stream.py:159`), and its chunks are published as plain events or
dropped (`AsEvent`); the JavaScript server, which compares the same ids (`client.mts:589`), does not
find complete messages either, nor does it with `stream_subgraphs`, where a chunk has one more part than it looks for.

`EventStream` has the sender (`SendEvent`, `SendBeat`, `SendError`, `Close`), the network
(`Read` takes any piece, `Cut` ends it anywhere) and `BytesLineDecoder` with `SSEDecoder`
(`Decode`, `PartOf`). `SendRaw` sends any text, for the decoder alone. `Splitlines` is defined as
a scan that looks at one token at a time (`Scan`), and `PartsOf` goes through lines as `_client_stream`
does; both are recursive functions over the positions of a sequence, so that they can be proved about.

In `WaitResponse`, `ReadAll` is `consume()`, `Beat`, `BeatSent`, `Answer` are the
generator `body()`, and `Wait`/`SetEvent` are `ValueEvent`. `ReadRaises` is what else becomes of
`consume()`: `Threads.get` finds no thread or an error chunk is no JSON (`api/runs.py:186`, 191), nobody sets
the event, and the body sends newlines until the client leaves. `ValueEvent.set` with a value that is false
in Python, as the values of a thread without any are, wakes who waits but leaves the flag down: when it
comes while a newline is being sent (`late`), the call waits on in vain. `NotForgotten` says that these are the
only two ways, and that a chunk is never lost like this.

### Answers and the code

One assistant, one thread with its runs, and calls that come again and again. A call that
does not suspend is one action. One that does goes on with what it read: for the graph of
an assistant or of a thread (`Open`, `Read`, `Update`, `Reread`, `Show`), for a log call
(`Cascade`, `CascadeEnds`), for a gather (`Gathered`, `CancelErases`, `Cancelled`) or for the end of
a run (`Joined`). `RightNow` says what the code should answer in the present state; `right` collects this
over the call until it changes something. A call and its first step are one
action, and an answer is taken at once: before its first step a call has read nothing,
and after its answer it reads nothing, so both moves commute with all others.
`Execute` is the worker's end of a run. A creation with `if_not_exists="create"` makes a second thread and
is left out; a creation that is refused by `multitask_strategy="reject"` changes no row,
because the thread of a run in flight is busy already, which is `BusyCoversInflight`.

`GetVersions` answers 404 also for an assistant that exists, when the metadata asked for or the offset
leaves an empty page (`api/assistants.py:344`): "Assistant ... not found" is then untrue, and
`AnswersAreTrue` names it as the one such answer (`SaidGone`).

What the model shows besides: a call may have had an effect and answer with a failure
(`create thread with state` keeps the thread when the update fails; a deletion of an assistant is
over when its cascade raises), which is why what is right counts up to the first change.

### Assistants and the code

`row` and `versions` are the two tables; `Put`, `Patch`, `SetLatest`, `Delete` the four
operations. `job` is a suspended `Assistants.delete`: the position of its iteration and
the list object it iterates over, which stops being the run table (`shared`)
when `Threads.delete` rebinds it. `BeginRun`/`InsertRun` is `Runs.put` around the log
call that precedes a new thread; `DeleteRun`, `CreateThread`, `DeleteThread` are what other
clients do meanwhile. `threads` counts the rows of a thread, because `InsertRun` adds one
without looking again. `Only` is the list comprehension that keeps some runs: a recursive
function, so that what it keeps can be proved.

### ThreadState and the code

`present` and `values` are the rows; `saved` the checkpoints under each thread, with the
run each is tagged with; they are numbered in the order they are made. A writer needs no
row. `worker`, `outcome`, `mine`, `seen`, `told` are an attempt: the last checkpoint it made,
the last one `on_checkpoint` brought, the control message it will find. What the graph reads at
its start comes as an event too, so a success that made no checkpoint shows the state it found.
A run of `Evented` streams events; its retries hear of no checkpoint (`Deaf`; see `TakenApart` of
Emission), and a success of such a retry writes None over the values of the row, which `RowShowsState` says
of them (`Shown`). `post`, `target`,
`given`, `read` are a suspended `State.post`: it writes a checkpoint, waits, reads the
state back, and writes the row. `base` and `alone` are history for the properties.

### Access, Configuration, Identity, Batch and the code

`Access`: every operation is `Ask`ed, waits for the handler that `_get_handler` chooses
and caches, and then does its work (`Put`, `PutRun`, `Patch`, `Delete`, `Copy`, `Search`). Those that
looked at the table before the wait keep what they saw; those that look afterwards are
one action. `SearchAgain` is the next page of a client that reads them all.

`Configuration`: `Ask` to `PutOnFound` are `create_valid_run` and `Runs.put`, split where it
waits between looking for assistant and thread and writing to them. `row` are all rows ever made,
`table` those in the thread table, since a row that was looked up may be deleted and
written to all the same. The value of a key is the request that named it, so that its
origin can be read off; `Merge` is `_merge_jsonb`.

`Identity`: `Arrive` to `VerifyUnreachable` are `get_auth_backend` and the three backends;
`Handle`, `Respond`, `HandlerFails` are `ApiRoute.handle` around a handler; `Begin`, `End`, `Settle`
the worker around a graph, and `CallServer`, `Return`, `CallFails` the graph's calls in the context of the
worker. `held` is the stack of what each `with_user` has found.

`Batch`: `at` is where each creation of `create_stateless_run_batch` stands, `open` the
barrier, `reply` what `gather` gives.

### RemoteGraph and the code

`call` are the calls of Python into the JavaScript process, `node` what the handler there is
doing, `wire` the answer, `op` each call-back (loading and putting checkpoints,
writes, the store) with its tries, `table`, `writes`, `items` what Python has stored. `ServePut` and
its like serve a call-back in Python; `Hear`, `TryAgain`, `GiveUp` are `tryFetch`.
`Interrupt`, `RollBack`, `TimeOut` end the call on Python's side only: nobody tells the graph.
`Die` and `Restart` are the process. `serde` is the serialiser of the
checkpointer, which the call-backs of a JavaScript graph replace for all.

## 3. The runs

Runs that pass (distinct states in parentheses):

| Run | Shows | Bounds |
|---|---|---|
| `lifecycle` (1 933 735) | `OneRunningPerThread`, `RunningIsOwned`, `DoneIsFinal`, `BusyCoversInflight`, and that RunLifecycle implements RunContract (`ContractHolds`), under every client behaviour | 2 runs, 1 thread, 1 call of cancel, 1 retry, graphs that succeed or ask for a retry |
| `lifecycle_live` (209 816) | `EveryRunSettles`, `DoneAnnounced`, `CancelCompletes` | 2 runs on 2 threads, graphs that always ask for a retry, cancellations, no deletions or joins |
| `scheduler` (102 642) | `StoredResultsStay`, `WebhooksOnce`, `QueueKeepsPolling`, `StopCompletes` | 2 runs on 2 threads, 1 job, 1 retry, 3 starts, kills, failing passes |
| `stream` (2 638 189) | that RunStream implements ChunkLog (`ReadsTheLog`), and `AllReadersLeave`; of an attempt `OutcomeIsTrue`, `Released`, `EmitsWhatIsAsked`; of the bytes `AsSplitlines`, `PartsAreEvents`; of a waiting call `NotForgotten`; of all calls `AnswersAreTrue` | a creator and a joiner, 3 chunks, 1 retry; 2 attempts; 3 events of a graph, 7 sets of modes; 2 events, 1 comment, texts of 6 tokens; 2 calls at a time, 2 runs, 2 versions |
| `assistants` (865 242) | `RowIsItsVersion`, and that Assistants implements VersionHistory (`HistoryHolds`); `RunsHaveThreads`, `DeletionEnds` | 2 assistants, 1 deletion; versions up to 3, with 1 run on 1 thread, or 1 version, with 3 runs on 2 threads |
| `threads` (6 603 575) | `RollbackErases`, `RollbackRestores`, `RowShowsState` | 1 thread and 1 fresh identifier, 2 runs of which 1 is stateless and 1 streams events, 1 update at a time, 2 checkpoints, 2 calls, 2 attempts |
| `server` (1 268 283) | of the process `Reported`, `SavedInOrder`, `ServerStartsAgain`; `ServesAsLeft` of the registry; `ItemsKept` of the store | 2 sessions, 1 kill, 1 unreadable file, 2 runs over 3 moments, 3 tries, 1 poll, 1 death; 2 graphs, 2 settings, 3 starts; 2 calls, 2 threads, 2 namespaces, 1 key |
| `requests` (2 021 153) | `PagesComplete`, `OwnerStays` of Access; `RunsAsCreator`; `Provenance`; `BatchAnswered`; `NoFalseSuccess`, `AppliedBeforeDone` of RemoteGraph | 2 users, 2 requests at a time, 3 rows, pages of 1, 4 calls, 2 tables of handlers; 2 people, 2 requests, 2 runs, 1 call within a call; 2 requests, 1 thread, 2 rows, 3 keys, 1 patch; 3 creations; 1 run and 1 other call, 2 tries, 2 faults |

Why these bounds are enough to be interesting: two runs on one thread are all that a
claim, a strategy or a busy check ever compares; one retry reaches both a
first and a last attempt, and one start over the limit; one call of cancel that
suspends can meet the end, the start and the deletion of each of its
candidates; three starts of the process have a stop after a kill and a kill after
a stop; three runs are what a list needs for an element that moves under an
iteration and one after it. The live run needs two threads, since what threatens
progress is the run at the head of the queue. Two checkpoints are a state to go back to and one
to lose. Two sessions leave files of both. Three rows with pages of one are a
row that was read, one at the boundary and one that appears. Six tokens hold
a newline of two characters cut in half with lines on both sides. Two calls are
one that goes on with what it read and one that changes it. Deadlock is not
checked anywhere, because every instance stops when its bound on runs, requests
or starts is used up.

Type invariants are proved, not listed with the runs. So are `BoundedAttempts`,
`NumbersAreUnique`, `ResultsAreStable`, `ChunksInOrder`, `Windowed` and
`WebhookAnnouncesResult`, which no run repeats.

Runs that show a disagreement between the code and what the repository says of it
(each checks one property and TLC violates it):

| Run | What the repository says | What happens |
|---|---|---|
| `stuck_running` | `worker.py:253`: the run of a cancelled worker is available again | there is no transaction; the run stays running in the file and blocks the queue behind it |
| `orphan_runs` | `ops.py:371`: the deletion cascades to the runs on the assistant | the list is changed while it is iterated over, and every second run stays |
| `stale_index` | `ops.py:847`: a deletion removes the thread with that ID | the position is found, an authorization handler awaited, and what is then at that position is removed (`ops.py:876`) |
| `sticky_checkpoint` | `models/run.py:33`: a run starts from the latest checkpoint unless it names one | the name is kept in the configuration of the thread (`ops.py:1482`) and every later run of the thread starts there |

`stuck_running` is what `EveryRunSettles` leaves out: it speaks of one life of the process.

### Fairness

- RunLifecycle: weak fairness of every step of a worker, of a claim, of a suspended
  cancellation and of the listener. The event loop runs each ready task, `queue()`
  polls for ever, `created_at` is reached by the clock, and a graph that does not stop
  is ended by `BG_JOB_TIMEOUT_SECS`. Nothing is assumed of clients, and the
  listener's time-out need not happen.
- Scheduler: of the loop, the callbacks, the ends of `finally` and the close.
  **Not** of workers: how long a graph takes, also to unwind, is the user's code.
- RunStream, in mode `stream` only: of the worker as a whole (justified by
  `EveryRunSettles`) and of the readers that are connected.
- Assistants: of the suspended deletion.
- Server, in mode `server` only: weak fairness of `Boot`, `ServePython`, `PollFails`,
  `StopPool` and `Save`: a start and a stop go on by themselves, and whoever runs the container starts it
  again. Strong fairness of `Answer`: a JavaScript process that is started again and
  again answers a poll at some time. Nothing is assumed of kills, deaths and files.

## 4. The proofs

All theorems hold for every value of the constants that satisfies the named
assumptions of the module (bounds are naturals, null values are not
identifiers), so for any number of runs, threads, readers and requests. Machines that are
instantiated in an MC module have their assumption repeated there under a name of its own
(`AnswersAssumed == A!AnswersAssumption`), which TLC evaluates and the proofs cite. Every invariant
and every action property of a passing run is proved.

**RunLifecycleProofs.** None of the safety properties is inductive alone. `IInv`
adds to the types the relation `Stage` between a run's status and its worker's
place: a worker that still owns its run sees it running, interrupted or gone; a
running run has such a worker; a pending or unborn run has none and is not
announced; "done" is only announced by a worker about to leave; a run that can be
started again is below the limit of attempts. That is what makes the late writes
of a worker safe: the status may have been lowered by cancellations and deletions
(`Lowers`) since the worker looked, but no second worker can have started.
`IInvStep` has one step per action; from it follow `TypeCorrect`, `MutualExclusion`,
`NoOrphanedRun`, `DoneAfterStatus`, `BoundedAttempts`, `ResultsAreStable`, and
`ImplementsContract`, where every step maps to a step of RunContract or a stutter.

`BusyCoversInflight` relates two tables that are never written together, and speaks of the
runs that no suspended cancellation was called with. `BInv` adds to `IInv` what makes it
inductive: a cancellation changes only the runs it was called with (`Reach`), every run is
on a thread (`Placed`), and a worker whose run no cancellation was called with still finds it
running or deleted (`Calm`), so that it never puts a run back into a thread that was set to
another status meanwhile. From it `ThreadShowsBusy`.

**SchedulerProofs.** `IInv` relates each task to its row (`TaskMatchesRow`), the file to
memory (`DiskBehind`) and the calls of a webhook to the number of crashes (`Announced`,
`Down`): a call was made for a row that is final now, or before the last kill.
From it `TypeCorrect`, `ResultsSurvive`, `WebhooksAtMostOnce`, `WebhooksAreTrue`.

**AssistantsProofs.** `max() + 1` is a fresh number only because the numbers of an
assistant are dense, 1 to k, after any sequence of patches, selections, deletions and
re-creations (`Dense`). With that: `NumbersAreUnique`, `RowsAreVersions`, and
`ImplementsHistory`, the refinement of VersionHistory under the mapping `HistoryOf`,
`CurrentOf`. For the run table the proofs begin with what `Only` leaves of a list, by induction
over the list (`OnlyKeeps`; `Induct` as in EventStreamProofs). `TableInv` then says that a run of
the table is none that is still to be inserted (`Placed`), and that a run which is to be
inserted has its assistant and its thread chosen (`Pending`): without the first a run might be
inserted twice. From it `TypeCorrect`, the lists of the suspended deletions included, and
`TheRunsHaveThreads`.

**RunStreamProofs.** `IInv` says what a queue holds, not only what a reader took: while a
reader waits, its queue is exactly the chunks published since it subscribed and not read yet,
in order, and behind them "done" once it was said (`Waiting`); "done" is in no queue before
(`DoneSaid`); who left by itself had read all of it (`Complete`); and `Stage` ties the
publishing worker to the status the reader looks at. From it `TypeCorrect`, `NothingIsMissed`,
`DoneIsNeverEarly`, `ChunksInOrder`, and `ImplementsLog`: every step of queues, worker and readers
is a step of ChunkLog or a stutter, because a reader leaves only with an empty queue or at
"done" (`LeavesAtTheEnd`), and a log once closed stays closed (`SettledStays`). What a reader
has when it leaves (`LeavesWithEverything`), the order (`NoGap`) and "done" (`DoneIsTrue`) are
theorems, so that no run repeats them: TLC checks the refinement.

For Execution, `Opened` says at which places the context of the graph is open, `Going` how
what was yielded, published and raised belong together while nothing has failed, and
`Caused` what an exception under way has to do with the signals and limits it came from:
`OutcomesAreTrue`, `GraphsAreReleased`. For WaitResponse the types say that only a result wakes
the body, and `SetAtTheEnd` that the event is set when the task has ended by itself, by a chunk that stays or
by empty values; that nobody was woken then means that the body was sending a newline:
`WaitingIsNotForgotten`.

For Emission it is not enough to look at what was published, since an event is decided on long
before it is: `Together` speaks, for each message, of the events that are still due together with
those that are out. A partial that is due follows the one before it, which is out or due before it
(`PartInOrder`), the metadata are out or due once (`HeadInOrder`), a message a Python graph has
said in chunks is not said whole as well (`SaidInOrder`), and no more chunks of it are out than are known
(`Counted`). `Fine` says of what is out that it was asked for and adds up, event by
event, which is easier to keep than the property over all pairs; the names it allows are fewer in a retry
that streams events (`NamesIn`), so that only what was found in the first attempt may be due as a complete message
(`Kind`). `ReachInv` is the other direction, that nothing which was said is lost: it is put together
already or among what is due, and a JavaScript server knows exactly what was said: `EmitsAsAsked`.

For Answers, `Followed` has one conjunct for each place where a call can be suspended (`Placed`):
what it may be there, whether it has changed something, and which answers it has been right to give
since it came. As long as it has changed nothing, what is right now is among them; once it has
there is a success, or a failure of one of its parts, that it may end with. An empty page of versions
is the one answer that was never right (`SaidGone`). The graph of a thread is
the delicate place (`Graphed`): whatever `get_graph` and the user's code will come to was right
when the call went there. `NoneLeft`, that a thread which is gone has no runs, lets a call that looked
for the thread speak about the run. A step of one call changes of the others only the lists that
deletions go through (`ListsChange`), so that each operation has to be looked at for the call that takes it only:
`AnswersTrue`.

**EventStreamProofs.** What a scan computes of every text needs an induction, and the library's
induction theorems take an operator as a parameter, which no prover here instantiates. So induction
is proved first, for sets instead of predicates: a set of naturals that has 0 and the successor
of each of its members is all of them (`Induct`, from the well-foundedness of the finite sets), and
a set of sequences that has the empty one and each of its members with one more element is all of them
(`TextInduct`). With it the two recursive functions satisfy their equations (`ScanningExists`), a
text can be scanned in parts (`ScannedJoined`, `PartsOfJoined`), and a scan that goes on from
a line begun before differs from the scan of the rest by itself in the first line only (`GoingOnFrom`).
That is the heart of `DecodeIs`: what `BytesLineDecoder.decode` puts together from the `splitlines`
of a piece, what it kept and the CR it holds back is what a scan would have come to.

`CutInv` says which text that is: all that was read, but for a CR that is held back; the lines are its
whole lines and the buffer is its rest. Hence `LinesAreThoseOfTheText`. `PartInv` adds that the
reader's state is what `SSEDecoder` makes of those lines, and looks at the other end: while the
connection is there, what was read and what is under way together end between two bodies
and have exactly the parts that were sent (`Boundary`, kept by `BodyAdds` and `BeatAdds` for both servers).
Since more text only adds parts (`IdealGrows`), the reader, and whoever is left with the beginning of the text
after `Cut`, has the first of them. A line that was cut off has no end, and `flush` gives it without
the empty line that would make a part of it (`FlushParts`): `PartsAreThoseSent`.

**ThreadStateProofs.** `Shape` is the types with the stages of a worker; `Untagged`: a
run that has not started has made no checkpoint (so that who is rolled back has tagged
all of its own); `BaseHolds`: while a run is alone, what others have written under its thread ends at the
state it found; `MineIsNewest`, `StartIsNewest` and `SeenAll`: what it made last, or what it found if it made
none, is the newest there is, and after a success the worker has heard of it unless it hears
nothing in this attempt; `RowsThere` and `ReadIsNewest` say the
same of an update and its row. From them `TypeCorrect`, `RollbacksErase`, `RollbacksRestore`,
`RowsShowState`.

**ServerProofs.** `MInv`: what was counted is in the counter, in the report on its way or in one that
arrived (`Reported`), and a report on its way has a window of its own that ends where the next
begins (`WindowsInOrder`). With `Progress`, how far a stop has come and which session the files written so far
are of, follow `NoRunUnreported`, `WindowsFit`, `FilesInOrder`, `TypeCorrect`. For Registry,
`Loaded` says which of the graphs a start has brought so far and `AsLeft` that
an assistant nobody has touched is the saved one, or, if there was none, was made with its
graph: `GraphsServedAsLeft`. For Items, `OneStore` says that no thread has asked for the
store before it was replaced, so that every wrapper is for the one that is saved; and `Holds` what
that store has: `NothingWrittenIsLost`.

**RequestProofs.** A row that a suspended request holds may be out of the table, but is
one made for its thread (`Held`), and what a row has was named by requests on that thread
(`RowValues`): `ValuesOfTheThread`. For Access, rows stand in the order they were made in
(`InOrder`), what is cached for an action is the handler it has (`CacheTrue`), and who still holds a position was
found there (`Holds`). A page is a range of ranks, counted from the newest, and the ranks of the rows a
reader may see are 0, 1, ... without a gap (`EveryRankIsTaken`); a row that is added is newer and
only moves the others to later ranks. So what a reader could see when it began and has not been given
is on pages to come (`StillToCome`), and `PagesAreComplete`; `OwnersStay` is about single steps
from the same states.

For RemoteGraph, `AsMarked`: all of an answer comes only from a handler that returned,
and that has heard of all its call-backs; `PutApplied`, `WritesApplied`, `StoreApplied`: what a
graph has put is stored, or its call-back is on its way or was given up. From them `NeverFalselyFinished` and
`AppliedWhenDone`. `Barrier` and `Told` of the batch: the barrier opens when all are in the table, and
whoever raised has answered: `BatchesAnswered`. For Identity the invariant is about
the stack of the calls within a worker: the worker found nobody, and each call found the user
of the run (`Trail`), so that neither returning nor failing changes who acts:
`RunsAreTheirCreators`.

Only model-checked: all liveness, which needs fairness and ENABLED; and the four runs that show a
disagreement, where TLC has the counterexample.

## 5. What is left out, and the plan

The map in `PROJECT.json` names 5 847 of the repository's 18 997 lines of Python (30.8 %), a
count that holds most files twice, as the root of the repository repeats `langgraph_api/`.

Left out on purpose: the contents of inputs, checkpoints and chunks; log and wire formats;
the translation of messages and snapshots between the two processes; the SQL storage the
interfaces were made for, which is not in the repository; Redis, which this storage never uses,
and crons, whose every operation raises; `is_jsonb_contained`; the schemas of
request bodies; what schemas of graphs contain.

What the code is exposed to and no property covers:

- a handler that answers 403 to the deletion of a rolled-back run leaves the row as it is
  (`worker.py:160`), and the worker ends with an error; that deletion acts as the user of the run, since
  the worker drops the user only behind it (`worker.py:239`);
- a retry that streams events publishes no values, messages or debug events and writes None as the values
  of its thread (`stream.py:159`; in Emission and ThreadState, where the properties say so);
- a call that waits is left beating by a task that has raised, or by empty values that meet a newline
  (`asyncio.py:23`, "Set the internal flag to true", does not hold for a false value; in WaitResponse);
- a thread that is patched is replaced by a copy of its row (`ops.py:759`), so that a creation which holds the
  old row writes its configuration to an orphan (not in Configuration);
- a store that cannot be pickled at a stop loses its items as a kill does (in Items);
- a graph that cancels itself raises `CancelledError` in the worker outside of a stop
  (`worker.py:253`); Scheduler has it as a worker that was cancelled;
- rows may hold a `ProxyUser` of the user's code, which the next start may not be able to
  read (`database.py:166`; Server has the unreadable file);
- `create_stateless_run_batch` and streams that fail between subscribing and reading leave a
  queue behind (`api/runs.py:95`);
- two suspended creations with one new thread id make two rows (`ops.py:1469`; in
  Configuration and Assistants, but nothing promises that there is one);
- `Threads.copy` takes an id that was not validated; an update at a named checkpoint sets the
  row to that older state; after `/internal/truncate` the assistants of the system have no versions
  (`database.py:73`);
- a plain authorization handler, or one with plain dependencies under a coroutine function, is
  awaited and can never run (`custom.py`; `CanRun` of Identity has it, and refuses everybody);
- a cancel, a rollback or a time-out does not reach a JavaScript graph, which goes on putting
  checkpoints (in RemoteGraph; the code promises nothing about what is left);
- a deletion of an assistant that meets a deletion of a thread stops half way with a 404, the
  assistant being gone already (in Assistants; `CascadeIsComplete` shows what is left);
- the callback of the JavaScript task may exit the process before a stop has written its files
  (`graph.py:276`; `ExitEarly` of Server; `SavedInOrder` holds, the session's work is lost).

Next, in this order:

1. The refinement of a smaller specification by Answers.
2. `is_jsonb_contained` and `_check_filter_match` against reference definitions over bounded
   values, as a pure module.
3. Searches other than that for threads, in Access; `Runs.put` with two authorization handlers.
4. `RowShowsState` composed with RunLifecycle's cancellations instead of the statuses
   ThreadState keeps.
