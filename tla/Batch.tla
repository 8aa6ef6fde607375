------------------------------- MODULE Batch -------------------------------
(***************************************************************************)
(* One call of create_stateless_run_batch (api/runs.py).  It gathers a     *)
(* creation for each payload; each sends its query (Runs.put) and waits at *)
(* a barrier for all the others before it looks at the answer              *)
(* (create_valid_run in models/run.py).  A creation may raise before the   *)
(* barrier, when an identifier is no UUID or the authorization handler     *)
(* refuses, and behind it, when there is no such assistant.  The first     *)
(* that raises decides the answer; the others go on.                       *)
(***************************************************************************)
EXTENDS Naturals, FiniteSets

CONSTANT Size   \* of the batch

BatchAssumption == Size \in Nat \ {0}

Creations == 1..Size

VARIABLES
    at,        \* where each creation stands
    inserted,  \* those whose run is in the table
    open,      \* whether the barrier has let them through
    reply      \* what the caller was told

vars == <<at, inserted, open, reply>>

Init ==
    /\ at = [i \in Creations |-> "called"]
    /\ inserted = {}
    /\ open = FALSE
    /\ reply = "none"

GatheredAll ==                                                   \* slip
    reply' = IF reply # "none" \/ \E i \in Creations : at'[i] \notin {"raised", "returned"}
             THEN reply
             ELSE IF \E i \in Creations : at'[i] = "raised" THEN "error" ELSE "runs"

\* asyncio.gather: the first error at once, the runs when all have returned.
Gathered ==
    reply' = IF reply # "none" THEN reply
             ELSE IF \E i \in Creations : at'[i] = "raised" THEN "error"
             ELSE IF \A i \in Creations : at'[i] = "returned" THEN "runs"
             ELSE "none"

\* "Thread or assistant not found."
Fetched(i) == IF i \in inserted' THEN "returned" ELSE "raised"

\* asyncio.Barrier: the last one opens it and goes on.
Arrive(i) ==
    /\ open' = (\A j \in Creations \ {i} : at[j] = "waiting")
    /\ at' = [at EXCEPT ![i] = IF open' THEN Fetched(i) ELSE "waiting"]

\* Up to the first await that suspends; the tasks of a gather begin in order.
Begins(i) == at[i] = "called" /\ \A j \in 1..(i - 1) : at[j] # "called"

Raise(i) ==
    /\ Begins(i) \/ at[i] = "sending"
    /\ at' = [at EXCEPT ![i] = "raised"]
    /\ Gathered
    /\ UNCHANGED <<inserted, open>>

\* The handler, or the log of the new thread, suspends.
Send(i) ==
    /\ Begins(i)
    /\ at' = [at EXCEPT ![i] = "sending"]
    /\ UNCHANGED <<inserted, open, reply>>

\* There is no such assistant.
SendInVain(i) ==
    /\ Begins(i)
    /\ inserted' = inserted
    /\ Arrive(i)
    /\ Gathered

Insert(i) ==
    /\ at[i] = "sending"
    /\ inserted' = inserted \cup {i}
    /\ Arrive(i)
    /\ Gathered

Pass(i) ==
    /\ at[i] = "waiting" /\ open
    /\ inserted' = inserted
    /\ at' = [at EXCEPT ![i] = Fetched(i)]
    /\ Gathered
    /\ UNCHANGED open

Next ==
    \E i \in Creations :
        Raise(i) \/ Send(i) \/ SendInVain(i) \/ Insert(i) \/ Pass(i)

Spec == Init /\ [][Next]_vars

----------------------------------------------------------------------------
(* Properties.                                                             *)

\* A creation that raises before the barrier leaves the others waiting at it for
\* ever, but not the caller: when nothing can go on, it has its answer; and an
\* answer with runs has all of them in the table.
CanGoOn(i) == at[i] \in {"called", "sending"} \/ (at[i] = "waiting" /\ open)
BatchAnswered ==
    /\ (\A i \in Creations : ~CanGoOn(i)) => reply # "none"
    /\ reply = "runs" => inserted = Creations

=============================================================================
