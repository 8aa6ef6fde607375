----------------------------- MODULE RunContract -----------------------------
(***************************************************************************)
(* What the API promises a client about the status of background runs,     *)
(* whatever the scheduler, the workers and the cancellations do inside:    *)
(* the moves a run's status may make, that a thread has one running run,   *)
(* and that a run announced as done no longer moves.  RunLifecycle         *)
(* implements it.                                                          *)
(***************************************************************************)
CONSTANTS Runs, Threads, NoThread

VARIABLES status, thread, done

cvars == <<status, thread, done>>

Live   == {"pending", "running"}
Final  == {"success", "error", "timeout"}
Stored == Live \cup Final \cup {"interrupted"}

Init ==
    /\ status = [r \in Runs |-> "unborn"]
    /\ thread = [r \in Runs |-> NoThread]
    /\ done = [r \in Runs |-> FALSE]

\* A run may be created, started, stopped by a client, put back for a retry,
\* ended by its worker (also after a client stopped it), and deleted.
May(from, to) ==
    \/ from = "unborn"                   /\ to = "pending"
    \/ from = "pending"                  /\ to \in {"running", "interrupted", "gone"}
    \/ from = "running"                  /\ to \in {"pending", "interrupted", "gone"}
    \/ from = "interrupted"              /\ to \in {"pending", "gone"}
    \/ from \in {"running", "interrupted"} /\ to \in Final
    \/ from \in Final                    /\ to = "gone"

Keeps(r) ==
    /\ status'[r] # status[r] => May(status[r], status'[r])
    /\ status[r] # "unborn" => thread'[r] = thread[r]
    /\ done[r] => done'[r] /\ status'[r] \in {status[r], "gone"}
    /\ done'[r] /\ ~done[r] => status[r] # "unborn" /\ status'[r] \notin Live

\* A run starts only when no run of its thread is running, and alone.
Starts(r) == status[r] = "pending" /\ status'[r] = "running"

Next ==
    /\ status' \in [Runs -> Stored \cup {"unborn", "gone"}]
    /\ thread' \in [Runs -> Threads \cup {NoThread}]
    /\ done' \in [Runs -> BOOLEAN]
    /\ \A r \in Runs : Keeps(r)
    /\ \A r \in Runs : Starts(r) =>
           \A s \in Runs \ {r} : thread[s] = thread[r] =>
               status[s] # "running" /\ status'[s] # "running"

Spec == Init /\ [][Next]_cvars

=============================================================================
