---------------------------- MODULE RunLifecycle ----------------------------
(***************************************************************************)
(* The life of a background run: langgraph_storage/ops.py (the run table,  *)
(* Runs.next / enter / put / delete / cancel, Threads.set_status / delete, *)
(* listen_for_cancellation), worker.py (the worker) and models/run.py      *)
(* (multitask strategies).                                                 *)
(*                                                                         *)
(* Everything runs on one asyncio loop, so the code between two awaits     *)
(* that really suspend is one action.  A log call of the worker is such an *)
(* await: the worker decides its outcome, logs, and only then writes the   *)
(* status, and other requests run in between.                              *)
(*                                                                         *)
(* Runs are numbered in the order of insertion, which is the order of the  *)
(* rows of the run table.  No authentication handler is installed, so      *)
(* handle_event returns without suspending.                                *)
(*                                                                         *)
(* An operator marked "slip" is a wrong version of the one after it, kept  *)
(* to show that the properties would notice; no specification uses it.     *)
(***************************************************************************)
EXTENDS Naturals, Sequences, FiniteSets

CONSTANTS
    NumRuns,        \* bound: how many runs are ever created
    Threads,        \* thread identifiers
    NoThread,       \* the thread of a run that does not exist yet
    Requests,       \* bound: one identifier per call of Runs.cancel
    MaxRetries,     \* BG_JOB_MAX_RETRIES
    Strategies,     \* the multitask strategies clients use
    GraphOutcomes,  \* how the user's graph may end when nobody stops it
    Deleting,       \* whether clients delete runs and threads
    Streaming       \* whether clients subscribe to runs

Runs == 1..NumRuns

AllStrategies == {"reject", "enqueue", "interrupt", "rollback"}
AllOutcomes   == {"success", "error", "timeout", "retry"}

ASSUME BoundsAssumption == NumRuns \in Nat /\ MaxRetries \in Nat
ASSUME ThreadAssumption == NoThread \notin Threads
ASSUME ClientAssumption == /\ Strategies \subseteq AllStrategies
                           /\ GraphOutcomes \subseteq AllOutcomes
                           /\ Deleting \in BOOLEAN /\ Streaming \in BOOLEAN

VARIABLES
    status,    \* the status column of the run table
    thread,    \* thread_id of each run
    temp,      \* kwargs["temporary"]: the thread goes when the run ends
    line,      \* runs whose created_at has passed, by created_at
    attempt,   \* the retry counter of each run
    thStatus,  \* the status column of the thread table
    pc,        \* where the worker task of each run stands
    signal,    \* the `done` ValueEvent the worker gives to the graph
    ear,       \* the task listen_for_cancellation of the worker
    control,   \* the first cancel message in control_queues[run]
    done,      \* whether control_queues[run] holds "done"
    others,    \* the queues on the run besides its worker's: none, the one
               \* of the client that created it, or one nobody will remove
    req        \* the calls of Runs.cancel

store   == <<status, thread, temp, line, attempt, thStatus>>
workers == <<pc, signal, ear>>
streams == <<control, done, others>>
vars    == <<status, thread, temp, line, attempt, thStatus, pc, signal, ear,
             control, done, others, req>>

----------------------------------------------------------------------------
Live         == {"pending", "running"}
Final        == {"success", "error", "timeout"}
RunStatus    == Live \cup Final \cup {"unborn", "interrupted", "gone"}
ThreadStatus == {"none", "idle", "busy", "interrupted", "error"}

\* How a worker may leave the try block of worker(); each logs, then finishes.
Ended      == Final \cup {"interrupted", "rollback"}
\* A worker that has yet to write the status of its run.
Owning     == {"claimed", "entered", "executing", "retry"} \cup Ended
\* Between Runs.enter and the removal of the worker's queue.
Subscribed == Ended \cup {"entered", "executing", "retry", "unthreaded", "closing"}
WorkerPc   == Subscribed \cup {"none", "claimed"}

Cancelling   == {"interrupt", "rollback"}
RequestPhase == {"free", "scan", "gather", "done"}
CancelRequest == [phase : RequestPhase, action : Cancelling, all : SUBSET Runs,
                  todo : SUBSET Runs, dels : SUBSET Runs, by : Nat]
FreeRequest  == [phase |-> "free", action |-> "interrupt", all |-> {},
                 todo |-> {}, dels |-> {}, by |-> 0]

InStore(r)   == status[r] \notin {"unborn", "gone"}
Exists(t)    == t # NoThread /\ thStatus[t] # "none"
LiveOn(t)    == {r \in Runs : thread[r] = t /\ status[r] \in Live}
\* get_queues(run) is not empty
HasQueue(r)  == others[r] # "none" \/ pc[r] \in Subscribed

Init ==
    /\ status = [r \in Runs |-> "unborn"]
    /\ thread = [r \in Runs |-> NoThread]
    /\ temp = [r \in Runs |-> FALSE]
    /\ line = <<>>
    /\ attempt = [r \in Runs |-> 0]
    /\ thStatus = [t \in Threads |-> "none"]
    /\ pc = [r \in Runs |-> "none"]
    /\ signal = [r \in Runs |-> "none"]
    /\ ear = [r \in Runs |-> "off"]
    /\ control = [r \in Runs |-> "none"]
    /\ done = [r \in Runs |-> FALSE]
    /\ others = [r \in Runs |-> "none"]
    /\ req = [c \in Requests |-> FreeRequest]

----------------------------------------------------------------------------
(* Runs.cancel.  Candidates are visited in the order of the table.  A live *)
(* one is marked interrupted at once when somebody holds a queue on it or  *)
(* the action is interrupt; every other candidate costs a log call, an     *)
(* await at which the visit is suspended.  Messages and deletions are only *)
(* prepared here and happen in the gather at the end.                      *)

EagerAnyStatus(r, action) == action # "rollback" \/ HasQueue(r)   \* slip

Eager(r, action) ==
    status[r] \in Live /\ (action # "rollback" \/ HasQueue(r))

\* The candidates visited up to the next suspension.
Visited(rq) ==
    {r \in rq.todo : \A s \in rq.todo : s < r => Eager(s, rq.action)}

Interrupted(rq) == {r \in Visited(rq) : Eager(r, rq.action)}

AfterVisitEmpty(rq) ==                                           \* slip
    [rq EXCEPT !.todo = @ \ Visited(rq),
               !.phase = IF rq.todo # {} THEN "scan" ELSE "free"]

AfterVisit(rq) ==
    [rq EXCEPT !.todo = @ \ Visited(rq),
               !.dels = @ \cup {r \in Visited(rq) \ Interrupted(rq) :
                                   status[r] \in Live},
               !.phase = IF Interrupted(rq) = rq.todo THEN "gather" ELSE "scan"]

CancelCall(action, all, by) ==
    [phase |-> "scan", action |-> action, all |-> all, todo |-> all,
     dels |-> {}, by |-> by]

\* The first visit is part of the call itself.
CancelBegin(c, rq) ==
    /\ req[c].phase = "free"
    /\ req' = [req EXCEPT ![c] = AfterVisit(rq)]

Marked(rq) ==
    [r \in Runs |-> IF r \in Interrupted(rq) THEN "interrupted" ELSE status[r]]

\* POST /threads/{t}/runs/{r}/cancel, and cancel_run when a client that asked
\* for cancel_on_disconnect goes away.
CancelOne(c, r, action) ==
    LET rq == CancelCall(action, {r}, 0)
    IN  /\ InStore(r)
        /\ CancelBegin(c, rq)
        /\ status' = Marked(rq)
        /\ UNCHANGED <<thread, temp, line, attempt, thStatus, workers, streams>>

CancelScan(c) ==
    /\ req[c].phase = "scan"
    /\ req' = [req EXCEPT ![c] = AfterVisit(req[c])]
    /\ status' = Marked(req[c])
    /\ UNCHANGED <<thread, temp, line, attempt, thStatus, workers, streams>>

\* The gather: every message is stored for late subscribers and put into the
\* queues, and the prepared deletions take place.  The listener acts on the
\* first message only, so later ones are not kept.
CancelGather(c) ==
    /\ req[c].phase = "gather"
    /\ req' = [req EXCEPT ![c].phase = "done"]
    /\ control' = [r \in Runs |-> IF r \in req[c].all /\ control[r] = "none"
                                  THEN req[c].action ELSE control[r]]
    /\ status' = [r \in Runs |-> IF r \in req[c].dels /\ InStore(r)
                                 THEN "gone" ELSE status[r]]
    /\ UNCHANGED <<thread, temp, line, attempt, thStatus, workers, done,
                   others>>

----------------------------------------------------------------------------
(* The HTTP handlers that change the tables.                               *)

CreateThread(t) ==
    /\ thStatus[t] = "none"
    /\ thStatus' = [thStatus EXCEPT ![t] = "idle"]
    /\ UNCHANGED <<status, thread, temp, line, attempt, workers, streams, req>>

\* Threads.delete removes the thread and every run on it.
Wiped(st, t) ==
    [r \in Runs |-> IF thread[r] = t THEN "gone" ELSE st[r]]

DeleteThread(t) ==
    /\ Deleting
    /\ Exists(t)
    /\ thStatus' = [thStatus EXCEPT ![t] = "none"]
    /\ status' = Wiped(status, t)
    /\ UNCHANGED <<thread, temp, line, attempt, workers, streams, req>>

DeleteRun(r) ==
    /\ Deleting
    /\ InStore(r)
    /\ status' = [status EXCEPT ![r] = "gone"]
    /\ UNCHANGED <<thread, temp, line, attempt, thStatus, workers, streams, req>>

NextRow(r) == status[r] = "unborn" /\ \A s \in 1..(r - 1) : status[s] # "unborn"

\* The row Runs.put appends.  `later` is after_seconds > 0: the run waits for
\* Due.  stream_run and wait_run are subscribed before a worker can start.
Insert(r, t, isTemp, later, watched) ==
    /\ watched => Streaming
    /\ NextRow(r)
    /\ thread' = [thread EXCEPT ![r] = t]
    /\ temp' = [temp EXCEPT ![r] = isTemp]
    /\ line' = IF later THEN line ELSE Append(line, r)
    /\ others' = [others EXCEPT ![r] = IF watched THEN "creator" ELSE "none"]
    /\ thStatus' = [thStatus EXCEPT ![t] = "busy"]
    /\ UNCHANGED <<attempt, workers, control, done>>

\* create_valid_run on an existing thread when nothing has to be cancelled.
CreateRun(r, t, strategy, later, watched) ==
    /\ strategy \in Strategies
    /\ Exists(t)
    /\ LiveOn(t) = {} \/ strategy = "enqueue"
    /\ Insert(r, t, FALSE, later, watched)
    /\ status' = [status EXCEPT ![r] = "pending"]
    /\ UNCHANGED req

\* The same, for "interrupt" and "rollback" with runs in flight: the new run
\* is in the table before the others are cancelled.
CreateRunCancelling(r, t, strategy, later, watched, c) ==
    LET rq == CancelCall(strategy, LiveOn(t), r)
    IN  /\ strategy \in Strategies \cap Cancelling
        /\ Exists(t)
        /\ LiveOn(t) # {}
        /\ Insert(r, t, FALSE, later, watched)
        /\ CancelBegin(c, rq)
        /\ status' = [Marked(rq) EXCEPT ![r] = "pending"]

\* "reject" with runs in flight: 409, after the thread has been set busy.
RejectRun(t) ==
    /\ "reject" \in Strategies
    /\ Exists(t)
    /\ LiveOn(t) # {}
    /\ thStatus' = [thStatus EXCEPT ![t] = "busy"]
    /\ UNCHANGED <<status, thread, temp, line, attempt, workers, streams, req>>

\* A stateless run gets a thread of its own, deleted on completion if isTemp.
CreateStateless(r, t, isTemp, later, watched) ==
    /\ thStatus[t] = "none"
    /\ \A s \in Runs : thread[s] # t      \* uuid4: a thread never seen before
    /\ Insert(r, t, isTemp, later, watched)
    /\ status' = [status EXCEPT ![r] = "pending"]
    /\ UNCHANGED req

\* created_at of a run with after_seconds > 0 is reached.
Due(r) ==
    /\ status[r] = "pending"
    /\ \A i \in 1..Len(line) : line[i] # r
    /\ line' = Append(line, r)
    /\ UNCHANGED <<status, thread, temp, attempt, thStatus, workers, streams, req>>

\* A join by URL gives the run id as a string: the queue is added under the
\* UUID, and the removal at the end does not find it under the string.
Join(r) ==
    /\ Streaming
    /\ InStore(r) /\ others[r] # "stale"
    /\ others' = [others EXCEPT ![r] = "stale"]
    /\ UNCHANGED <<store, workers, control, done, req>>

\* The client of stream_run or wait_run goes away, or is told "done".
Detach(r) ==
    /\ others[r] = "creator"
    /\ others' = [others EXCEPT ![r] = "none"]
    /\ UNCHANGED <<store, workers, control, done, req>>

----------------------------------------------------------------------------
(* The scheduler and the worker.                                           *)

\* Runs.next(limit=1) looks at the oldest due pending run and at no other.
Oldest(r) ==
    \E i \in 1..Len(line) :
        line[i] = r /\ \A j \in 1..(i - 1) : status[line[j]] # "pending"

ClaimBusyThread(r) ==                                            \* slip
    /\ status[r] = "pending" /\ Oldest(r) /\ Exists(thread[r])
    /\ attempt' = [attempt EXCEPT ![r] = @ + 1]
    /\ status' = [status EXCEPT ![r] = "running"]
    /\ pc' = [pc EXCEPT ![r] = "claimed"]
    /\ UNCHANGED <<thread, temp, line, thStatus, signal, ear, streams, req>>

Claim(r) ==
    /\ status[r] = "pending"
    /\ Oldest(r)
    /\ Exists(thread[r])
    /\ \A s \in Runs : thread[s] = thread[r] => status[s] # "running"
    /\ attempt' = [attempt EXCEPT ![r] = @ + 1]
    /\ status' = [status EXCEPT ![r] = "running"]
    /\ pc' = [pc EXCEPT ![r] = "claimed"]
    /\ UNCHANGED <<thread, temp, line, thStatus, signal, ear, streams, req>>

\* Runs.enter up to its yield, then the log of the worker.
Enter(r) ==
    /\ pc[r] = "claimed"
    /\ pc' = [pc EXCEPT ![r] = "entered"]
    /\ signal' = [signal EXCEPT ![r] = "none"]
    /\ ear' = [ear EXCEPT ![r] = "new"]
    /\ UNCHANGED <<store, streams, req>>

\* listen_for_cancellation: what is already stored first, then the queue.
ListenerStart(r) ==
    /\ ear[r] = "new"
    /\ signal' = [signal EXCEPT ![r] = control[r]]
    /\ ear' = [ear EXCEPT ![r] = IF control[r] = "none" THEN "on" ELSE "off"]
    /\ UNCHANGED <<store, pc, streams, req>>

ListenerHears(r) ==
    /\ ear[r] = "on"
    /\ control[r] # "none"
    /\ signal' = [signal EXCEPT ![r] = control[r]]
    /\ ear' = [ear EXCEPT ![r] = "off"]
    /\ UNCHANGED <<store, pc, streams, req>>

\* 240 seconds without a message in the queue, chunks of the stream included,
\* end the listener; only a graph takes that long.
ListenerLapses(r) ==
    /\ ear[r] = "on"
    /\ pc[r] = "executing"
    /\ control[r] = "none"
    /\ ear' = [ear EXCEPT ![r] = "off"]
    /\ UNCHANGED <<store, pc, signal, streams, req>>

Start(r) ==
    /\ pc[r] = "entered"
    /\ pc' = [pc EXCEPT ![r] = IF attempt[r] > MaxRetries THEN "error"
                               ELSE "executing"]
    /\ UNCHANGED <<store, signal, ear, streams, req>>

\* The stream of the graph ends by itself; a signal that has not been seen
\* at the last wait_if_not_done makes no difference.
GraphEnds(r, outcome) ==
    /\ pc[r] = "executing"
    /\ outcome \in GraphOutcomes
    /\ pc' = [pc EXCEPT ![r] = outcome]
    /\ UNCHANGED <<store, signal, ear, streams, req>>

GraphInterrupted(r) ==
    /\ pc[r] = "executing"
    /\ signal[r] = "interrupt"
    /\ pc' = [pc EXCEPT ![r] = "interrupted"]
    /\ UNCHANGED <<store, signal, ear, streams, req>>

\* UserRollback: the run is deleted before the log call; a run that is
\* already missing is ignored.
GraphRolledBack(r) ==
    /\ pc[r] = "executing"
    /\ signal[r] = "rollback"
    /\ pc' = [pc EXCEPT ![r] = "rollback"]
    /\ status' = [status EXCEPT ![r] = "gone"]
    /\ UNCHANGED <<thread, temp, line, attempt, thStatus, signal, ear, streams, req>>

\* Runs.set_status: a missing run, as after a rollback, is left alone.
Written(r, value) ==
    IF InStore(r) THEN [status EXCEPT ![r] = value] ELSE status

\* The worker raised: its queue stays, nothing is announced.
Abandon(r) ==
    /\ pc' = [pc EXCEPT ![r] = "none"]
    /\ signal' = [signal EXCEPT ![r] = "none"]
    /\ ear' = [ear EXCEPT ![r] = "off"]
    /\ others' = [others EXCEPT ![r] = "stale"]
    /\ UNCHANGED <<thread, temp, line, attempt, control, done, req>>

RetryUnwritten(r) ==                                             \* slip
    pc[r] = "retry" /\ Abandon(r) /\ UNCHANGED <<status, thStatus>>

Retry(r) ==
    /\ pc[r] = "retry"
    /\ status' = Written(r, "pending")
    /\ Abandon(r)
    /\ UNCHANGED thStatus

AnnounceSilently(r) ==                                           \* slip
    /\ pc' = [pc EXCEPT ![r] = "closing"]
    /\ UNCHANGED <<thread, temp, line, attempt, signal, ear, streams, req>>

\* The exit of Runs.enter stores "done" before its first suspension.
Announce(r) ==
    /\ pc' = [pc EXCEPT ![r] = "closing"]
    /\ done' = [done EXCEPT ![r] = TRUE]
    /\ UNCHANGED <<thread, temp, line, attempt, signal, ear, control, others, req>>

ThreadResultUnchecked(r, st, hasNext) ==                         \* slip
    IF pc[r] # "success" THEN "error" ELSE IF hasNext THEN "interrupted" ELSE "idle"

\* Threads.set_status; hasNext says that the last checkpoint has next nodes.
ThreadResult(r, st, hasNext) ==
    IF \E s \in Runs : thread[s] = thread[r] /\ st[s] \in Live THEN "busy"
    ELSE IF pc[r] # "success" THEN "error"
    ELSE IF hasNext THEN "interrupted"
    ELSE "idle"

FinishUnwritten(r, hasNext) ==                                   \* slip
    /\ pc[r] \in Ended /\ ~temp[r] /\ Exists(thread[r])
    /\ thStatus' = [thStatus EXCEPT ![thread[r]] = ThreadResult(r, status, hasNext)]
    /\ Announce(r)
    /\ UNCHANGED status

Finish(r, hasNext) ==
    /\ pc[r] \in Ended /\ ~temp[r] /\ Exists(thread[r])
    /\ status' = Written(r, pc[r])
    /\ thStatus' = [thStatus EXCEPT ![thread[r]] =
                        ThreadResult(r, Written(r, pc[r]), hasNext)]
    /\ Announce(r)

\* Threads.set_status raised 404: it is logged and ignored.
FinishUnthreaded(r) ==
    /\ pc[r] \in Ended /\ ~temp[r] /\ ~Exists(thread[r])
    /\ status' = Written(r, pc[r])
    /\ pc' = [pc EXCEPT ![r] = "unthreaded"]
    /\ UNCHANGED <<thread, temp, line, attempt, thStatus, signal, ear, streams, req>>

AnnounceUnthreaded(r) ==
    /\ pc[r] = "unthreaded"
    /\ Announce(r)
    /\ UNCHANGED <<status, thStatus>>

FinishTemporary(r) ==
    /\ pc[r] \in Ended /\ temp[r] /\ Exists(thread[r])
    /\ status' = Wiped(Written(r, pc[r]), thread[r])
    /\ thStatus' = [thStatus EXCEPT ![thread[r]] = "none"]
    /\ Announce(r)

\* Threads.delete raised 404 and nobody catches it.
FinishTemporaryLost(r) ==
    /\ pc[r] \in Ended /\ temp[r] /\ ~Exists(thread[r])
    /\ status' = Written(r, pc[r])
    /\ Abandon(r)
    /\ UNCHANGED thStatus

\* "done" is in the queues; the worker's queue and listener go.
Close(r) ==
    /\ pc[r] = "closing"
    /\ pc' = [pc EXCEPT ![r] = "none"]
    /\ signal' = [signal EXCEPT ![r] = "none"]
    /\ ear' = [ear EXCEPT ![r] = "off"]
    /\ UNCHANGED <<store, streams, req>>

----------------------------------------------------------------------------
ThreadRequest(t) == CreateThread(t) \/ DeleteThread(t) \/ RejectRun(t)

Creation(r) ==
    \E t \in Threads, later, watched \in BOOLEAN :
        \/ \E strategy \in Strategies : CreateRun(r, t, strategy, later, watched)
        \/ \E strategy \in Strategies, c \in Requests :
              CreateRunCancelling(r, t, strategy, later, watched, c)
        \/ \E isTemp \in BOOLEAN : CreateStateless(r, t, isTemp, later, watched)

RunRequest(r) ==
    \/ Creation(r)
    \/ DeleteRun(r)
    \/ Join(r)
    \/ Detach(r)
    \/ \E c \in Requests, action \in Cancelling : CancelOne(c, r, action)

CancelTask(c) == CancelScan(c) \/ CancelGather(c)

Listener(r) == ListenerStart(r) \/ ListenerHears(r) \/ ListenerLapses(r)

Execution(r) ==
    \/ \E outcome \in GraphOutcomes : GraphEnds(r, outcome)
    \/ GraphInterrupted(r)
    \/ GraphRolledBack(r)

Ending(r) ==
    \/ Retry(r)
    \/ \E hasNext \in BOOLEAN : Finish(r, hasNext)
    \/ FinishUnthreaded(r)
    \/ AnnounceUnthreaded(r)
    \/ FinishTemporary(r)
    \/ FinishTemporaryLost(r)
    \/ Close(r)

Worker(r) == Enter(r) \/ Start(r) \/ Execution(r) \/ Ending(r)

Next ==
    \/ \E t \in Threads : ThreadRequest(t)
    \/ \E c \in Requests : CancelTask(c)
    \/ \E r \in Runs :
          RunRequest(r) \/ Due(r) \/ Claim(r) \/ Listener(r) \/ Worker(r)

Spec == Init /\ [][Next]_vars

(* The loop runs every ready task; queue() polls for ever; created_at is   *)
(* reached; a graph that does not stop is ended by BG_JOB_TIMEOUT_SECS, so *)
(* executing ends too.  Clients owe nothing, and a listener may lapse.     *)
Fairness ==
    /\ \A c \in Requests : WF_vars(CancelTask(c))
    /\ \A r \in Runs : /\ WF_vars(Due(r))
                       /\ WF_vars(Claim(r))
                       /\ WF_vars(ListenerStart(r))
                       /\ WF_vars(ListenerHears(r))
                       /\ WF_vars(Worker(r))

FairSpec == Spec /\ Fairness

----------------------------------------------------------------------------
(* Properties.                                                             *)

\* Every variable has its type.
TypeOK ==
    /\ status \in [Runs -> RunStatus]
    /\ thread \in [Runs -> Threads \cup {NoThread}]
    /\ temp \in [Runs -> BOOLEAN]
    /\ line \in Seq(Runs)
    /\ attempt \in [Runs -> Nat]
    /\ thStatus \in [Threads -> ThreadStatus]
    /\ pc \in [Runs -> WorkerPc]
    /\ signal \in [Runs -> Cancelling \cup {"none"}]
    /\ ear \in [Runs -> {"off", "new", "on"}]
    /\ control \in [Runs -> Cancelling \cup {"none"}]
    /\ done \in [Runs -> BOOLEAN]
    /\ others \in [Runs -> {"none", "creator", "stale"}]
    /\ req \in [Requests -> CancelRequest]

\* The check in Runs.next keeps two runs of one thread from being in status
\* "running" together, whatever cancellations, retries and deletions happen
\* between the check and the end of the worker.
OneRunningPerThread ==
    \A r, s \in Runs :
        (status[r] = "running" /\ status[s] = "running" /\ r # s)
            => thread[r] # thread[s]

\* Without a shutdown no run is left in status "running": a worker that will
\* still write its status is on it.  A run that lost its worker would block
\* its thread, and the whole queue behind it, for ever.
RunningIsOwned == \A r \in Runs : status[r] = "running" => pc[r] \in Owning

\* Whoever sees "done" in the control queue of a run finds the run out of the
\* queue for good: Runs.enter announces it after the status is written.
DoneIsFinal ==
    \A r \in Runs : done[r] => status[r] \notin Live /\ pc[r] \in {"closing", "none"}

\* A run that was announced, or has a final status, is only ever deleted: no
\* late cancellation, retry or second worker changes its result.
FinalIsStable ==
    [][\A r \in Runs : (done[r] \/ status[r] \in Final)
            => status'[r] \in {status[r], "gone"}]_vars

\* The graph of a run is started BG_JOB_MAX_RETRIES times at most.
AttemptsBounded ==
    \A r \in Runs : /\ attempt[r] <= MaxRetries + 1
                    /\ pc[r] \in {"executing", "retry"} => attempt[r] <= MaxRetries

\* A thread with a run in flight shows "busy", except for a run that was
\* marked interrupted and whose worker then puts it back for a retry.
BusyCoversInflight ==
    \A r \in Runs :
        (status[r] \in Live /\ \A c \in Requests : r \notin req[c].all)
            => thStatus[thread[r]] = "busy"

\* A run in flight leaves the queue and its worker ends: no retry loop, cancel
\* or deletion leaves it, or the runs behind it, waiting for ever.
EveryRunSettles ==
    \A r \in Runs :
        status[r] \in Live ~> (status[r] \notin Live /\ pc[r] = "none")

\* Late subscribers of a run whose worker has entered are told "done", unless
\* the worker raised and left its queue (the instance has no joins).
DoneAnnounced ==
    \A r \in Runs : pc[r] = "entered" ~> (done[r] \/ others[r] = "stale")

\* A cancellation that was begun delivers its messages.
CancelCompletes ==
    \A c \in Requests : req[c].phase \in {"scan", "gather"} ~> req[c].phase = "done"

\* The statuses clients see move as the contract says.
Contract == INSTANCE RunContract
ContractHolds == Contract!Spec

=============================================================================
