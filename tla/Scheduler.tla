----------------------------- MODULE Scheduler -----------------------------
(***************************************************************************)
(* The process around the runs: the polling loop of                        *)
(* langgraph_storage/queue.py with its semaphore, worker tasks and webhook *)
(* tasks, the start and the stop of the server (lifespan.py), and the      *)
(* tables written at a clean stop and read at the start (database.py).     *)
(*                                                                         *)
(* A run is reduced to its row (pending, running, final) and its worker to *)
(* what the loop sees of it; RunLifecycle has the details.  Every run asks *)
(* for a webhook.  Runs are numbered in the order of the queue.            *)
(***************************************************************************)
EXTENDS Naturals

CONSTANTS
    NumRuns,      \* bound: how many runs are ever created
    Threads,      \* thread identifiers
    ThreadOf,     \* the thread each run is created on
    Concurrency,  \* N_JOBS_PER_WORKER
    MaxRetries,   \* BG_JOB_MAX_RETRIES
    MaxStops,     \* bound: how often the process stops
    Crashing,     \* whether the process may be killed
    Failing       \* whether a pass of the loop may raise

Runs == 1..NumRuns

ASSUME NumbersAssumption ==
    /\ NumRuns \in Nat /\ MaxRetries \in Nat /\ MaxStops \in Nat
    /\ Concurrency \in Nat \ {0}
ASSUME ThreadOfAssumption == ThreadOf \in [Runs -> Threads]
ASSUME FaultAssumption == Crashing \in BOOLEAN /\ Failing \in BOOLEAN

VARIABLES
    row,       \* the status column of the run table in memory
    disk,      \* the same column in the file of GLOBAL_STORE
    attempt,   \* the retry counter; its file is written and never read
    task,      \* the worker task of each run, as the loop sees it
    hook,      \* the webhook task of each run
    calls,     \* how often the webhook of each run was called
    permits,   \* the value of the semaphore
    loop,      \* where queue() stands
    proc,      \* the process
    stops,     \* how often the process was stopped cleanly
    crashes    \* how often it was killed

tables == <<row, disk, attempt>>
tasks  == <<task, hook, calls>>
life   == <<proc, stops, crashes>>
vars   == <<row, disk, attempt, task, hook, calls, permits, loop, proc, stops,
            crashes>>

Row       == {"unborn", "pending", "running", "final", "lost"}
\* "written": the status is final and the worker has still to leave.
TaskState == {"none", "active", "written", "cancelling",
              "returned", "raised", "cancelled"}
HookState == {"none", "active", "cancelling"}
Loop      == {"top", "polling", "dying", "dead", "off"}

Ended(r)  == task[r] \in {"returned", "raised", "cancelled"}
Polls     == loop \in {"top", "polling"}

Init ==
    /\ row = [r \in Runs |-> "unborn"]
    /\ disk = [r \in Runs |-> "unborn"]
    /\ attempt = [r \in Runs |-> 0]
    /\ task = [r \in Runs |-> "none"]
    /\ hook = [r \in Runs |-> "none"]
    /\ calls = [r \in Runs |-> 0]
    /\ permits = Concurrency
    /\ loop = "top"
    /\ proc = "up"
    /\ stops = 0
    /\ crashes = 0

----------------------------------------------------------------------------
(* The loop.                                                               *)

\* A client creates the next run.
Create(r) ==
    /\ proc = "up"
    /\ row[r] = "unborn"
    /\ \A s \in 1..(r - 1) : row[s] # "unborn"
    /\ row' = [row EXCEPT ![r] = "pending"]
    /\ UNCHANGED <<disk, attempt, tasks, permits, loop, life>>

Acquire ==
    /\ loop = "top"
    /\ permits > 0
    /\ permits' = permits - 1
    /\ loop' = "polling"
    /\ UNCHANGED <<tables, tasks, life>>

\* The run Runs.next yields: the oldest pending one, unless its thread is busy.
Offered(r) ==
    /\ row[r] = "pending"
    /\ \A s \in 1..(r - 1) : row[s] # "pending"
    /\ \A s \in Runs : ThreadOf[s] = ThreadOf[r] => row[s] # "running"

\* The permit is released as soon as the worker is started: the `else` of the
\* `async for` runs whenever the loop is not left by a break.
Poll(r) ==
    /\ loop = "polling"
    /\ Offered(r)
    /\ row' = [row EXCEPT ![r] = "running"]
    /\ attempt' = [attempt EXCEPT ![r] = @ + 1]
    /\ task' = [task EXCEPT ![r] = "active"]
    /\ permits' = permits + 1
    /\ loop' = "top"
    /\ UNCHANGED <<disk, hook, calls, life>>

PollEmptyHolding ==                                              \* slip
    /\ loop = "polling" /\ \A r \in Runs : ~Offered(r)
    /\ loop' = "top"
    /\ UNCHANGED <<tables, tasks, permits, life>>

PollEmpty ==
    /\ loop = "polling"
    /\ \A r \in Runs : ~Offered(r)
    /\ permits' = permits + 1
    /\ loop' = "top"
    /\ UNCHANGED <<tables, tasks, life>>

\* The finally of queue(): every worker and webhook task is cancelled.
CancelTasks ==
    /\ loop' = "dying"
    /\ task' = [r \in Runs |-> IF task[r] \in {"active", "written"}
                               THEN "cancelling" ELSE task[r]]
    /\ hook' = [r \in Runs |-> IF hook[r] = "active" THEN "cancelling"
                               ELSE hook[r]]
    /\ UNCHANGED calls

\* A pass raises; the handler calls exit.aclose(), and the builtin exit has no
\* such method, so the handler raises too and queue() ends.
PollFails ==
    /\ Failing
    /\ loop = "polling"
    /\ permits' = permits + 1
    /\ CancelTasks
    /\ UNCHANGED <<tables, life>>

\* All the tasks the finally waits for have ended.
QueueEnds ==
    /\ loop = "dying"
    /\ \A r \in Runs : task[r] = "none" /\ hook[r] # "cancelling"
    /\ loop' = "dead"
    /\ UNCHANGED <<tables, tasks, permits, life>>

GraceWithoutEnd == FALSE /\ UNCHANGED vars                       \* slip

\* SHUTDOWN_GRACE_PERIOD_SECS are over and a task has not ended yet.
GraceOver ==
    /\ loop = "dying"
    /\ \E r \in Runs : task[r] = "cancelling" \/ hook[r] = "cancelling"
    /\ loop' = "dead"
    /\ UNCHANGED <<tables, tasks, permits, life>>

----------------------------------------------------------------------------
(* The tasks.                                                              *)

\* The worker writes the final status, then the thread, then "done".
Write(r) ==
    /\ task[r] = "active"
    /\ row' = [row EXCEPT ![r] = "final"]
    /\ task' = [task EXCEPT ![r] = "written"]
    /\ UNCHANGED <<disk, attempt, hook, calls, permits, loop, life>>

Return(r) ==
    /\ task[r] = "written"
    /\ task' = [task EXCEPT ![r] = "returned"]
    /\ UNCHANGED <<tables, hook, calls, permits, loop, life>>

\* A retriable exception; over the limit the worker does not get this far.
Raise(r) ==
    /\ task[r] = "active"
    /\ attempt[r] <= MaxRetries
    /\ row' = [row EXCEPT ![r] = "pending"]
    /\ task' = [task EXCEPT ![r] = "raised"]
    /\ UNCHANGED <<disk, attempt, hook, calls, permits, loop, life>>

\* The cancellation reaches the worker, which does not touch the row.
Unwind(r) ==
    /\ task[r] = "cancelling"
    /\ task' = [task EXCEPT ![r] = "cancelled"]
    /\ UNCHANGED <<tables, hook, calls, permits, loop, life>>

\* The done callback: only a worker that returned gets its webhook called.
Cleanup(r) ==
    /\ Ended(r)
    /\ task' = [task EXCEPT ![r] = "none"]
    /\ permits' = permits + 1
    /\ hook' = [hook EXCEPT ![r] = IF task[r] = "returned" THEN "active" ELSE @]
    /\ UNCHANGED <<tables, calls, loop, life>>

\* call_webhook: one POST, not repeated when it fails.
CallWebhook(r) ==
    /\ hook[r] = "active"
    /\ hook' = [hook EXCEPT ![r] = "none"]
    /\ calls' = [calls EXCEPT ![r] = @ + 1]
    /\ UNCHANGED <<tables, task, permits, loop, life>>

DropWebhook(r) ==
    /\ hook[r] = "cancelling"
    /\ hook' = [hook EXCEPT ![r] = "none"]
    /\ UNCHANGED <<tables, task, calls, permits, loop, life>>

----------------------------------------------------------------------------
(* The process.                                                            *)

\* lifespan is left: the task group cancels queue(), which then waits for its
\* own tasks; a queue() that is already waiting gives up.
Stop ==
    /\ proc = "up"
    /\ proc' = "stopping"
    /\ \/ Polls /\ CancelTasks
       \/ loop = "dying" /\ loop' = "dead" /\ UNCHANGED tasks
       \/ loop = "dead" /\ UNCHANGED <<loop, tasks>>
    /\ UNCHANGED <<tables, permits, stops, crashes>>

\* What is in memory goes.
Vanish ==
    /\ task' = [r \in Runs |-> "none"]
    /\ hook' = [r \in Runs |-> "none"]
    /\ loop' = "off"
    /\ proc' = "down"
    /\ UNCHANGED <<row, attempt, calls, permits>>

\* stop_pool writes the tables; tasks still alive die with the process.
Close ==
    /\ proc = "stopping"
    /\ loop = "dead"
    /\ disk' = row
    /\ stops' = stops + 1
    /\ Vanish
    /\ UNCHANGED crashes

Crash ==
    /\ Crashing
    /\ proc # "down"
    /\ crashes' = crashes + 1
    /\ Vanish
    /\ UNCHANGED <<disk, stops>>

StartForgetful ==                                                \* slip
    /\ proc = "down" /\ stops + crashes <= MaxStops
    /\ row' = [r \in Runs |-> IF row[r] = "unborn" THEN "unborn" ELSE "pending"]
    /\ attempt' = [r \in Runs |-> 0]
    /\ permits' = Concurrency /\ loop' = "top" /\ proc' = "up"
    /\ UNCHANGED <<disk, tasks, stops, crashes>>

\* start_pool loads the file; a run that was never written is lost.
Start ==
    /\ proc = "down"
    /\ stops + crashes <= MaxStops
    /\ row' = [r \in Runs |-> IF disk[r] = "unborn" /\ row[r] # "unborn"
                              THEN "lost" ELSE disk[r]]
    /\ attempt' = [r \in Runs |-> 0]
    /\ permits' = Concurrency
    /\ loop' = "top"
    /\ proc' = "up"
    /\ UNCHANGED <<disk, tasks, stops, crashes>>

----------------------------------------------------------------------------
Scheduling == Acquire \/ (\E r \in Runs : Poll(r)) \/ PollEmpty \/ PollFails

Ending == QueueEnds \/ GraceOver

Worker(r) == Write(r) \/ Return(r) \/ Raise(r) \/ Unwind(r)

Callback(r) == Cleanup(r) \/ CallWebhook(r) \/ DropWebhook(r)

Next ==
    \/ Scheduling
    \/ Ending
    \/ Stop \/ Close \/ Crash \/ Start
    \/ \E r \in Runs : Create(r) \/ Worker(r) \/ Callback(r)

Spec == Init /\ [][Next]_vars

(* The event loop runs ready tasks and timers.  How long a graph takes,    *)
(* also to unwind, is the user's affair, so Worker is not fair.            *)
Fairness ==
    /\ WF_vars(Scheduling) /\ WF_vars(Ending) /\ WF_vars(Close)
    /\ \A r \in Runs : WF_vars(Callback(r))

FairSpec == Spec /\ Fairness

----------------------------------------------------------------------------
(* Properties.                                                             *)

\* Every variable has its type.
TypeOK ==
    /\ row \in [Runs -> Row]
    /\ disk \in [Runs -> Row]
    /\ attempt \in [Runs -> Nat]
    /\ task \in [Runs -> TaskState]
    /\ hook \in [Runs -> HookState]
    /\ calls \in [Runs -> Nat]
    /\ permits \in Nat
    /\ loop \in Loop
    /\ proc \in {"up", "stopping", "down"}
    /\ stops \in Nat
    /\ crashes \in Nat

\* A result that a clean stop has written is never lost and never computed
\* again, however the process ends afterwards.
StoredResultsStay ==
    \A r \in Runs : disk[r] = "final" => row[r] = "final" /\ task[r] # "active"

\* The webhook of a run is called once at most, and again only when a crash
\* threw away the result it announced.
WebhooksOnce == \A r \in Runs : calls[r] <= 1 + crashes

\* A webhook in flight announces a result that stands: no retry, cancellation
\* or restart puts the run back while its receiver is told it is over.
WebhookAnnouncesResult ==
    \A r \in Runs : hook[r] # "none" => row[r] = "final" /\ task[r] = "none"

\* The loop is not starved of permits: while queue() lives it polls again and
\* again, whatever its workers do.
QueueKeepsPolling == (loop = "top") ~> (loop # "top")

\* A stop ends, also when a graph does not react to its cancellation.
StopCompletes == (proc = "stopping") ~> (proc = "down")

(* What a comment says and the code does not do; see the violation run.    *)

\* worker.py: a run whose worker was cancelled is available to be picked up.
CancelledIsAvailable ==
    Polls => \A r \in Runs : row[r] = "running" => task[r] # "none"

=============================================================================
