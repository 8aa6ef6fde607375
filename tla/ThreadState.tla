---------------------------- MODULE ThreadState ----------------------------
(***************************************************************************)
(* The state of threads: the rows of the thread table with their values    *)
(* (langgraph_storage/ops.py Threads), the checkpoints under each thread   *)
(* (langgraph_storage/checkpoint.py), the workers that write them          *)
(* (worker.py, stream.py) and the clients that update, copy, roll back and *)
(* delete them.                                                            *)
(*                                                                         *)
(* Checkpoints are numbered in the order they are made; a number stands    *)
(* for the state it holds, and 0 for no state.  The table of checkpoints   *)
(* is a dictionary of dictionaries that makes what is missing, so a writer *)
(* needs no row: it may write under a thread that is gone.  The statuses   *)
(* of runs are those RunLifecycle has in full; here they only decide who   *)
(* executes.  Threads without a graph_id, which take no updates, are left  *)
(* out.  A "slip" is a wrong version of the operator after it.             *)
(***************************************************************************)
EXTENDS Naturals, FiniteSets

CONSTANTS
    Given,           \* identifiers of threads that clients choose
    Fresh,           \* identifiers uuid4 makes: copies and stateless runs
    Runs,            \* identifiers of runs
    Stateless,       \* those that are created without a thread
    Evented,         \* those of a JavaScript graph, or whose stream_mode has "events"
    Posts,           \* requests that update the state of a thread
    NoRun,           \* the tag of a checkpoint that no run has written
    NoThread,        \* where a run or an update is before it has a thread
    MaxCheckpoints,  \* bound: checkpoints made in all
    MaxCalls,        \* bound: cancellations, deletions, copies and updates in all
    MaxAttempts      \* BG_JOB_MAX_RETRIES

Threads     == Given \cup Fresh
Writers     == Runs \cup Posts

ASSUME NamesAssumption ==
    /\ Given \cap Fresh = {}
    /\ Stateless \subseteq Runs /\ Evented \subseteq Runs
    /\ Runs \cap Posts = {}
    /\ NoRun \notin Writers
    /\ NoThread \notin Threads
ASSUME BoundsAssumption == 
    /\ MaxCheckpoints \in Nat
    /\ MaxCalls \in Nat
    /\ MaxAttempts \in Nat

VARIABLES
    present,   \* the threads that have a row
    values,    \* the checkpoint its values were taken from
    saved,     \* the checkpoints stored under it, each with the run_id it is tagged with
    used,      \* the fresh identifiers given out
    count,     \* the number of the last checkpoint made
    status,    \* each run: its status, as far as it decides who executes
    on,        \* its thread
    temp,      \* whether its thread goes with it
    attempt,   \* its retry counter
    worker,    \* where its worker stands
    outcome,   \* how its graph ended
    mine,      \* the last checkpoint its attempt has made
    seen,      \* the last one on_checkpoint has brought to the worker
    told,      \* the first control message the worker will find
    base,      \* history: the state of its thread when it first started
    post,      \* each update of state: where it stands
    target,    \* its thread
    given,     \* the checkpoint it names, or 0
    read,      \* the state it has read back
    calls,     \* bound: what is left of MaxCalls
    alone      \* history: no one else has touched the thread since a writer began

rows   == <<present, values>>
stored == <<saved, used, count>>
runs   == <<status, on, temp, attempt, worker, outcome, mine, seen, told, base>>
posts  == <<post, target, given, read>>
vars   == <<rows, stored, runs, posts, calls, alone>>

Status  == {"unborn", "pending", "running", "settled", "gone"}
Worker  == {"none", "executing", "ending", "over", "undone"}
\* "failed" is an error, a timeout or an interruption: the thread gets the same.
Outcome == {"none", "success", "failed", "rollback", "retry"}
Message == {"none", "interrupt", "rollback"}
Post    == {"idle", "opened", "written", "read"}

Stamp(c, r) == [id |-> c, run |-> r]
Ids(checkpoints) == {c.id : c \in checkpoints}

\* The checkpointer's latest: identifiers grow with time.
Newest(checkpoints) ==
    IF checkpoints = {} THEN 0
    ELSE CHOOSE c \in Ids(checkpoints) : \A d \in Ids(checkpoints) : d <= c

Present(t) == t \in present
\* The writers at work on thread t; a run that will be tried again is one.
AtWork(t) ==
    {r \in Runs : /\ on[r] = t
                  /\ \/ worker[r] \in {"executing", "ending"}
                     \/ status[r] = "pending" /\ attempt[r] > 0}
    \cup {p \in Posts : target[p] = t /\ post[p] # "idle"}

\* Who touches thread t disturbs the others at work on it.
Touched(t, who) ==
    [w \in Writers |-> alone[w] /\ w \notin AtWork(t) \ {who}]

Began(t, who) == [Touched(t, who) EXCEPT ![who] = AtWork(t) \ {who} = {}]

Init ==
    /\ present = {}
    /\ values = [t \in Threads |-> 0]
    /\ saved = [t \in Threads |-> {}]
    /\ used = {}
    /\ count = 0
    /\ status = [r \in Runs |-> "unborn"]
    /\ on = [r \in Runs |-> NoThread]
    /\ temp = [r \in Runs |-> FALSE]
    /\ attempt = [r \in Runs |-> 0]
    /\ worker = [r \in Runs |-> "none"]
    /\ outcome = [r \in Runs |-> "none"]
    /\ mine = [r \in Runs |-> 0]
    /\ seen = [r \in Runs |-> 0]
    /\ told = [r \in Runs |-> "none"]
    /\ base = [r \in Runs |-> 0]
    /\ post = [p \in Posts |-> "idle"]
    /\ target = [p \in Posts |-> NoThread]
    /\ given = [p \in Posts |-> 0]
    /\ read = [p \in Posts |-> 0]
    /\ calls = MaxCalls
    /\ alone = [w \in Writers |-> FALSE]

----------------------------------------------------------------------------
(* Threads.                                                                *)

Call == calls > 0 /\ calls' = calls - 1

\* Threads.put; what is stored under the identifier from before is not
\* looked at.
CreateThread(t) ==
    /\ ~Present(t)
    /\ t \in Given
    /\ present' = present \cup {t}
    /\ values' = [values EXCEPT ![t] = 0]
    /\ UNCHANGED <<stored, runs, posts, alone, calls>>

\* The runs of a thread leave the table with it; their workers go on.
Wiped(t) == [r \in Runs |-> IF on[r] = t THEN "gone" ELSE status[r]]

DeleteThread(t) ==
    /\ Call
    /\ Present(t)
    /\ present' = present \ {t}
    /\ values' = [values EXCEPT ![t] = 0]
    /\ saved' = [saved EXCEPT ![t] = {}]
    /\ status' = Wiped(t)
    /\ alone' = Touched(t, NoRun)
    /\ UNCHANGED <<used, count, on, temp, attempt, worker, outcome, mine,
                   seen, told, base, posts>>

\* Threads.copy: the row of the copy has no values; the checkpoints with their
\* tags are those of the original.
CopyThread(t, new) ==
    /\ Call
    /\ Present(t)
    /\ new \in Fresh \ used
    /\ used' = used \cup {new}
    /\ present' = present \cup {new}
    /\ saved' = [saved EXCEPT ![new] = saved[t]]
    /\ UNCHANGED <<values, count, runs, posts, alone>>

----------------------------------------------------------------------------
(* Runs: creation, cancellation, deletion.                                 *)

\* Runs.put on a thread; the row is made when the client has asked for that
\* (if_not_exists).
CreateRun(r, t) ==
    /\ status[r] = "unborn"
    /\ r \notin Stateless
    /\ t \in Given \/ Present(t)
    /\ present' = present \cup {t}
    /\ status' = [status EXCEPT ![r] = "pending"]
    /\ on' = [on EXCEPT ![r] = t]
    /\ UNCHANGED <<values, stored, temp, attempt, worker, outcome, mine, seen,
                   told, base, posts, alone, calls>>

\* Runs.put without a thread: a thread of its own, that goes with the run
\* unless on_completion is "keep".
CreateStateless(r, t, kept) ==
    /\ status[r] = "unborn"
    /\ r \in Stateless
    /\ t \in Fresh \ used
    /\ used' = used \cup {t}
    /\ present' = present \cup {t}
    /\ status' = [status EXCEPT ![r] = "pending"]
    /\ on' = [on EXCEPT ![r] = t]
    /\ temp' = [temp EXCEPT ![r] = ~kept]
    /\ UNCHANGED <<values, saved, count, attempt, worker, outcome, mine,
                   seen, told, base, posts, alone, calls>>

\* _delete_checkpoints_for_thread with a run_id.
Erase(r) == saved' = [saved EXCEPT ![on[r]] = {c \in @ : c.run # r}]

\* Runs.delete: the checkpoints go first, then the row if it is there.
DeleteRun(r) ==
    /\ Call
    /\ status[r] \notin {"unborn", "gone"}
    /\ Erase(r)
    /\ status' = [status EXCEPT ![r] = "gone"]
    /\ alone' = Touched(on[r], NoRun)
    /\ UNCHANGED <<rows, used, count, on, temp, attempt, worker, outcome,
                   mine, seen, told, base, posts>>

\* Runs.cancel with a worker that listens: a run in flight is marked at
\* once, and the first message the worker finds decides how it ends.
Cancel(r, action) ==
    /\ Call
    /\ worker[r] \in {"executing", "ending"}
    /\ status[r] # "gone"
    /\ status' = [status EXCEPT ![r] = "settled"]
    /\ told' = [told EXCEPT ![r] = IF @ = "none" THEN action ELSE @]
    /\ UNCHANGED <<rows, stored, on, temp, attempt, worker, outcome, mine, seen,
                   base, posts, alone>>

\* Runs.cancel that no worker hears: a rollback deletes the run unless some
\* reader is subscribed, else it is marked.  A worker that has stopped
\* listening goes on in both cases.
CancelDeaf(r, action) ==
    /\ status[r] \in {"pending", "running"}
    /\ \/ action = "rollback" /\ DeleteRun(r)
       \/ /\ Call
          /\ status' = [status EXCEPT ![r] = "settled"]
          /\ UNCHANGED <<rows, stored, on, temp, attempt, worker, outcome, mine,
                         seen, told, base, posts, alone>>

----------------------------------------------------------------------------
(* Workers.                                                                *)

\* Runs.next and the start of worker: one attempt too many fails at once.
Start(r) ==
    /\ status[r] = "pending"
    /\ worker[r] = "none"
    /\ \A q \in Runs : on[q] = on[r] => status[q] # "running"
    /\ status' = [status EXCEPT ![r] = "running"]
    /\ attempt' = [attempt EXCEPT ![r] = @ + 1]
    /\ worker' = [worker EXCEPT ![r] =
                    IF attempt[r] < MaxAttempts THEN "executing" ELSE "ending"]
    /\ outcome' = [outcome EXCEPT ![r] = "failed"]
    /\ mine' = [mine EXCEPT ![r] = 0]
    /\ seen' = [seen EXCEPT ![r] = 0]
    /\ IF attempt[r] = 0
       THEN /\ base' = [base EXCEPT ![r] = Newest(saved[on[r]])]
            /\ alone' = Began(on[r], r)
       ELSE UNCHANGED <<base, alone>>
    /\ UNCHANGED <<rows, stored, on, temp, told, posts, calls>>

CheckpointOfAttempt(r) ==                                        \* slip
    /\ worker[r] = "executing" /\ ~temp[r] /\ count < MaxCheckpoints
    /\ count' = count + 1
    /\ saved' = [saved EXCEPT ![on[r]] =
                    @ \cup {Stamp(count', IF attempt[r] = 1 THEN r ELSE NoRun)}]
    /\ mine' = [mine EXCEPT ![r] = count']
    /\ alone' = Touched(on[r], r)
    /\ UNCHANGED <<rows, used, status, on, temp, attempt, worker, outcome, seen,
                   told, base, posts, calls>>

\* The graph stores a checkpoint.  Every attempt tags it with the identifier
\* of the run; a run with a temporary thread has no checkpointer.
Checkpoint(r) ==
    /\ worker[r] = "executing"
    /\ ~temp[r]
    /\ count < MaxCheckpoints
    /\ count' = count + 1
    /\ saved' = [saved EXCEPT ![on[r]] = @ \cup {Stamp(count', r)}]
    /\ mine' = [mine EXCEPT ![r] = count']
    /\ alone' = Touched(on[r], r)
    /\ UNCHANGED <<rows, used, status, on, temp, attempt, worker, outcome, seen,
                   told, base, posts, calls>>

\* A retry has no run_id in its config, by which astream_state knows the run's own
\* among the events of a graph: it hears of no checkpoint.
Deaf(r) == r \in Evented /\ attempt[r] > 1

\* The debug event of a checkpoint reaches on_checkpoint: of the last one the attempt
\* has made, or before that of the one it has started from, when it has no input.
Observe(r) ==
    /\ worker[r] = "executing"
    /\ ~temp[r] /\ ~Deaf(r)
    /\ \/ /\ mine[r] \notin {0, seen[r]}
          /\ seen' = [seen EXCEPT ![r] = mine[r]]
       \/ /\ mine[r] = 0 /\ seen[r] = 0 /\ saved[on[r]] # {}
          /\ seen' = [seen EXCEPT ![r] = Newest(saved[on[r]])]
    /\ UNCHANGED <<rows, stored, status, on, temp, attempt, worker, outcome, mine,
                   told, base, posts, alone, calls>>

EndEarly(r, how) ==                                              \* slip
    /\ worker[r] = "executing"
    /\ worker' = [worker EXCEPT ![r] = "ending"]
    /\ outcome' = [outcome EXCEPT ![r] = how]
    /\ UNCHANGED <<rows, stored, status, on, temp, attempt, mine, seen, told, base,
                   posts, alone, calls>>

\* The stream of the graph is over; the worker logs before it writes.  Only
\* a stream that was read to its end has brought every checkpoint, unless it brings none.
End(r, how) ==
    /\ worker[r] = "executing"
    /\ how = "success" => mine[r] \in {0, seen[r]} \/ Deaf(r)
    /\ worker' = [worker EXCEPT ![r] = "ending"]
    /\ outcome' = [outcome EXCEPT ![r] = how]
    /\ UNCHANGED <<rows, stored, status, on, temp, attempt, mine, seen, told, base,
                   posts, alone, calls>>

RollBackListed(r) ==                                             \* slip
    /\ worker[r] = "executing" /\ told[r] = "rollback"
    /\ IF status[r] = "gone" THEN saved' = saved ELSE Erase(r)
    /\ status' = [status EXCEPT ![r] = "gone"]
    /\ worker' = [worker EXCEPT ![r] = "ending"]
    /\ outcome' = [outcome EXCEPT ![r] = "rollback"]
    /\ seen' = [seen EXCEPT ![r] = 0]
    /\ alone' = Touched(on[r], r)
    /\ UNCHANGED <<rows, used, count, on, temp, attempt, mine, told, base, posts, calls>>

\* UserRollback: Runs.delete before the log.  Its checkpoints go also when
\* its row is gone already, and the worker ignores the 404.
RollBack(r) ==
    /\ worker[r] = "executing"
    /\ told[r] = "rollback"
    /\ Erase(r)
    /\ status' = [status EXCEPT ![r] = "gone"]
    /\ worker' = [worker EXCEPT ![r] = "ending"]
    /\ outcome' = [outcome EXCEPT ![r] = "rollback"]
    /\ seen' = [seen EXCEPT ![r] = 0]
    /\ alone' = Touched(on[r], r)
    /\ UNCHANGED <<rows, used, count, on, temp, attempt, mine, told, base,
                   posts, calls>>

\* A row that is gone stays gone.
Written(r, value) == IF status[r] = "gone" THEN "gone" ELSE value

\* A retriable failure leaves before the thread is written.
Retry(r) ==
    /\ worker[r] = "ending"
    /\ outcome[r] = "retry"
    /\ status' = [status EXCEPT ![r] = Written(r, "pending")]
    /\ worker' = [worker EXCEPT ![r] = "none"]
    /\ outcome' = [outcome EXCEPT ![r] = "none"]
    /\ UNCHANGED <<rows, stored, on, temp, attempt, mine, seen, told, base, posts,
                   alone, calls>>

\* What a worker knew goes with it; that it rolled its run back is history.
Leave(r) ==
    /\ worker' = [worker EXCEPT ![r] = IF outcome[r] = "rollback" THEN "undone"
                                       ELSE "over"]
    /\ outcome' = [outcome EXCEPT ![r] = "none"]
    /\ mine' = [mine EXCEPT ![r] = 0]
    /\ seen' = [seen EXCEPT ![r] = 0]
    /\ told' = [told EXCEPT ![r] = "none"]
    /\ base' = [base EXCEPT ![r] = 0]
    /\ alone' = [Touched(on[r], r) EXCEPT ![r] = FALSE]

\* Threads.set_status: the values are those of the last checkpoint the
\* worker has seen, none if it has seen none; a missing row is ignored.
Finish(r) ==
    /\ worker[r] = "ending"
    /\ outcome[r] # "retry"
    /\ ~temp[r]
    /\ status' = [status EXCEPT ![r] = Written(r, "settled")]
    /\ values' = IF Present(on[r]) THEN [values EXCEPT ![on[r]] = seen[r]] ELSE values
    /\ Leave(r)
    /\ UNCHANGED <<present, stored, on, temp, attempt, posts, calls>>

\* The thread of a stateless run goes with it, if it is still there.
FinishTemporary(r) ==
    /\ worker[r] = "ending"
    /\ outcome[r] # "retry"
    /\ temp[r]
    /\ Leave(r)
    /\ IF Present(on[r])
       THEN /\ present' = present \ {on[r]}
            /\ values' = [values EXCEPT ![on[r]] = 0]
            /\ saved' = [saved EXCEPT ![on[r]] = {}]
            /\ status' = Wiped(on[r])
       ELSE /\ status' = [status EXCEPT ![r] = Written(r, "settled")]
            /\ UNCHANGED <<rows, saved>>
    /\ UNCHANGED <<used, count, on, temp, attempt, posts, calls>>

----------------------------------------------------------------------------
(* Threads.State.post and bulk: each await on the graph may suspend.       *)

\* The request finds the row and its graph; it may name a checkpoint.
OpenPost(p, t, c) ==
    /\ Call
    /\ post[p] = "idle"
    /\ Present(t)
    /\ c \in Ids(saved[t]) \cup {0}
    /\ post' = [post EXCEPT ![p] = "opened"]
    /\ target' = [target EXCEPT ![p] = t]
    /\ given' = [given EXCEPT ![p] = c]
    /\ alone' = Began(t, p)
    /\ UNCHANGED <<rows, stored, runs, read>>

\* aupdate_state: a checkpoint no run has made, under a thread that may be gone.
WritePost(p) ==
    /\ post[p] = "opened"
    /\ count < MaxCheckpoints
    /\ count' = count + 1
    /\ saved' = [saved EXCEPT ![target[p]] = @ \cup {Stamp(count', NoRun)}]
    /\ post' = [post EXCEPT ![p] = "written"]
    /\ alone' = Touched(target[p], p)
    /\ UNCHANGED <<rows, used, runs, target, given, read, calls>>

Close(p) ==
    /\ post' = [post EXCEPT ![p] = "idle"]
    /\ target' = [target EXCEPT ![p] = NoThread]
    /\ given' = [given EXCEPT ![p] = 0]
    /\ read' = [read EXCEPT ![p] = 0]
    /\ alone' = [Touched(target[p], p) EXCEPT ![p] = FALSE]

\* aupdate_state refuses the values.
RefusePost(p) ==
    /\ post[p] = "opened"
    /\ Close(p)
    /\ UNCHANGED <<rows, stored, runs, calls>>

\* State.get with the configuration of the request: with the checkpoint it
\* names, not with the new one.
Reads(p) ==
    LET t == target[p] IN
    IF given[p] = 0 THEN Newest(saved[t])
    ELSE IF given[p] \in Ids(saved[t]) THEN given[p] ELSE 0

ReadPost(p) ==
    /\ post[p] = "written"
    /\ Present(target[p])
    /\ read' = [read EXCEPT ![p] = Reads(p)]
    /\ post' = [post EXCEPT ![p] = "read"]
    /\ UNCHANGED <<rows, stored, runs, target, given, alone, calls>>

\* State.get finds no row: 404, and the checkpoint stays.
LosePost(p) ==
    /\ post[p] = "written"
    /\ ~Present(target[p])
    /\ Close(p)
    /\ UNCHANGED <<rows, stored, runs, calls>>

\* The values of the row, of whatever row has the identifier now.
ShowPost(p) ==
    /\ post[p] = "read"
    /\ values' = IF Present(target[p])
                 THEN [values EXCEPT ![target[p]] = read[p]] ELSE values
    /\ Close(p)
    /\ UNCHANGED <<present, stored, runs, calls>>

----------------------------------------------------------------------------
Client ==
    \/ \E t \in Threads :
          \/ CreateThread(t)
          \/ DeleteThread(t)
          \/ \E new \in Fresh : CopyThread(t, new)
    \/ \E r \in Runs :
          \/ \E t \in Threads : CreateRun(r, t)
          \/ \E t \in Fresh, kept \in BOOLEAN : CreateStateless(r, t, kept)
          \/ DeleteRun(r)
          \/ \E action \in {"interrupt", "rollback"} :
                Cancel(r, action) \/ CancelDeaf(r, action)

Work ==
    \E r \in Runs :
        \/ Start(r)
        \/ Checkpoint(r)
        \/ Observe(r)
        \/ \E how \in {"success", "failed", "retry"} : End(r, how)
        \/ RollBack(r)
        \/ Retry(r)
        \/ Finish(r)
        \/ FinishTemporary(r)

Update ==
    \E p \in Posts :
        \/ \E t \in Threads, c \in 0..MaxCheckpoints : OpenPost(p, t, c)
        \/ WritePost(p)
        \/ RefusePost(p)
        \/ ReadPost(p)
        \/ LosePost(p)
        \/ ShowPost(p)

Next == Client \/ Work \/ Update

Spec == Init /\ [][Next]_vars

----------------------------------------------------------------------------
(* Properties.                                                             *)

\* The variables have their types, and numbers above count are unused.
TypeOK ==
    /\ present \subseteq Threads
    /\ values \in [Threads -> 0..count]
    /\ saved \in [Threads -> SUBSET [id : 1..count, run : Runs \cup {NoRun}]]
    /\ used \subseteq Fresh
    /\ count \in 0..MaxCheckpoints
    /\ status \in [Runs -> Status]
    /\ on \in [Runs -> Threads \cup {NoThread}]
    /\ \A r \in Runs : on[r] = NoThread <=> status[r] = "unborn"
    /\ temp \in [Runs -> BOOLEAN]
    /\ attempt \in [Runs -> 0..MaxAttempts + 1]
    /\ worker \in [Runs -> Worker]
    /\ outcome \in [Runs -> Outcome]
    /\ mine \in [Runs -> 0..count] /\ seen \in [Runs -> 0..count]
    /\ told \in [Runs -> Message]
    /\ base \in [Runs -> 0..count]
    /\ post \in [Posts -> Post]
    /\ calls \in 0..MaxCalls
    /\ target \in [Posts -> Threads \cup {NoThread}]
    /\ given \in [Posts -> 0..count] /\ read \in [Posts -> 0..count]
    /\ alone \in [Writers -> BOOLEAN]

\* A worker that ended by a rollback has left no checkpoint of any attempt of
\* its run in the thread, whatever was cancelled, deleted or made again
\* meanwhile: Runs.delete removes them before it looks for the row, and the
\* graph has stopped writing by then.
RollbackErases ==
    \A r \in Runs :
        outcome[r] = "rollback" \/ worker[r] = "undone"
            => \A c \in saved[on[r]] : c.run # r

\* A run that was alone on its thread and is rolled back leaves the thread in
\* the state it had before the first attempt (Runs.delete, worker.py).
RollbackRestores ==
    [][\A r \in Runs :
          RollBack(r) /\ alone[r] => Newest(saved'[on[r]]) = base[r]]_vars

\* A run that succeeds and an update of the newest state, when no one else
\* has touched their thread since they began, leave the row with the state
\* of the thread: what on_checkpoint or State.get brought is the newest.  A run may
\* leave it without values when its last attempt has made no checkpoint, and does so
\* when that was a retry which hears of none.
Shown(r) ==
    IF Deaf(r) THEN {0}
    ELSE {Newest(saved[on[r]])} \cup (IF mine[r] = 0 THEN {0} ELSE {})

RowShowsState ==
    [][/\ \A r \in Runs : Finish(r) /\ alone[r] /\ outcome[r] = "success"
                          => values'[on[r]] \in Shown(r)
       /\ \A p \in Posts : ShowPost(p) /\ alone[p] /\ given[p] = 0
                          => values'[target[p]] = Newest(saved'[target[p]])]_vars

=============================================================================
