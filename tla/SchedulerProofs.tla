-------------------------- MODULE SchedulerProofs --------------------------
(***************************************************************************)
(* Theorems about Scheduler for every number of runs, jobs, stops and      *)
(* crashes: types, and what survives stops and restarts.                   *)
(***************************************************************************)
EXTENDS Scheduler, TLAPS

USE DEF tables, tasks, life

LEMMA TypeInit == Init => TypeOK
  BY NumbersAssumption DEF Init, TypeOK, Row, TaskState, HookState, Loop

LEMMA TypeNext == TypeOK /\ [Next]_vars => TypeOK'
<1> SUFFICES ASSUME TypeOK, [Next]_vars PROVE TypeOK'
  OBVIOUS
<1> USE DEF Row, TaskState, HookState, Loop
<1>1. CASE Scheduling
  BY <1>1 DEF TypeOK, Scheduling, Acquire, Poll, PollEmpty, PollFails, CancelTasks
<1>2. CASE Ending
  BY <1>2 DEF TypeOK, Ending, QueueEnds, GraceOver
<1>3. CASE Stop
  BY <1>3 DEF TypeOK, Stop, CancelTasks
<1>4. CASE Close \/ Crash
  BY <1>4 DEF TypeOK, Close, Crash, Vanish
<1>5. CASE Start
  BY <1>5, NumbersAssumption DEF TypeOK, Start
<1>6. ASSUME NEW r \in Runs, Create(r) PROVE TypeOK'
  BY <1>6 DEF TypeOK, Create
<1>7. ASSUME NEW r \in Runs, Worker(r) PROVE TypeOK'
  BY <1>7 DEF TypeOK, Worker, Write, Return, Raise, Unwind
<1>8. ASSUME NEW r \in Runs, Callback(r) PROVE TypeOK'
  BY <1>8 DEF TypeOK, Callback, Cleanup, CallWebhook, DropWebhook
<1>9. CASE UNCHANGED vars
  BY <1>9 DEF TypeOK, vars
<1> QED
  BY <1>1, <1>2, <1>3, <1>4, <1>5, <1>6, <1>7, <1>8, <1>9 DEF Next

\* Every variable keeps its type.
THEOREM TypeCorrect == Spec => []TypeOK
  BY TypeInit, TypeNext, PTL DEF Spec

----------------------------------------------------------------------------
(* The inductive invariant.  A final row is the only one whose webhook may *)
(* have been called since the last crash; a down process has nothing in    *)
(* memory, and what is then not final on disk was not announced since the  *)
(* last crash either.                                                      *)

\* A worker exists only for a row it may write.
TaskMatchesRow ==
    \A r \in Runs :
        /\ task[r] = "active" => row[r] = "running"
        /\ task[r] \in {"written", "returned"} => row[r] = "final"
        /\ row[r] = "pending" => task[r] \in {"none", "raised"}
        /\ row[r] = "unborn" => task[r] = "none"

\* A file that holds a final result is no older than that result.
DiskBehind == \A r \in Runs : disk[r] = "final" => row[r] = "final"

\* The webhook was called, or is about to be, only for a final row.
Announced ==
    \A r \in Runs :
        /\ calls[r] <= 1 + crashes
        /\ row[r] # "final" => calls[r] <= crashes
        /\ task[r] # "none" => calls[r] <= crashes
        /\ hook[r] # "none" => calls[r] <= crashes /\ task[r] = "none"
                               /\ row[r] = "final"

\* While the process is down.
Down ==
    proc = "down" => \A r \in Runs :
        /\ task[r] = "none" /\ hook[r] = "none"
        /\ disk[r] # "final" => calls[r] <= crashes

\* The loop lives in the process.
LoopAlive == proc = "down" <=> loop = "off"

IInv == TypeOK /\ TaskMatchesRow /\ DiskBehind /\ Announced /\ Down /\ LoopAlive

LEMMA InvInit == Init => IInv
<1> SUFFICES ASSUME Init PROVE IInv
  OBVIOUS
<1> QED
  BY TypeInit DEF Init, IInv, TaskMatchesRow, DiskBehind, Announced, Down, LoopAlive

LEMMA InvNext == IInv /\ [Next]_vars => IInv'
<1> SUFFICES ASSUME IInv, [Next]_vars PROVE IInv'
  OBVIOUS
<1>t. TypeOK'
  BY TypeNext DEF IInv
<1> USE DEF IInv, TypeOK, TaskMatchesRow, DiskBehind, Announced, Down, LoopAlive,
            Row, TaskState, HookState, Loop
<1>1. CASE Acquire
  BY <1>t, <1>1 DEF Acquire
<1>2. ASSUME NEW r \in Runs, Poll(r) PROVE IInv'
  BY <1>t, <1>2 DEF Poll, Offered
<1>3. CASE PollEmpty
  BY <1>t, <1>3 DEF PollEmpty
<1>4. CASE PollFails
  BY <1>t, <1>4 DEF PollFails, CancelTasks
<1>5. CASE Ending
  BY <1>t, <1>5 DEF Ending, QueueEnds, GraceOver
<1>6. CASE Stop
  BY <1>t, <1>6 DEF Stop, CancelTasks, Polls
<1>7. CASE Close
  BY <1>t, <1>7 DEF Close, Vanish
<1>8. CASE Crash
  BY <1>t, <1>8 DEF Crash, Vanish
<1>9. CASE Start
  BY <1>t, <1>9 DEF Start
<1>10. ASSUME NEW r \in Runs, Create(r) PROVE IInv'
  BY <1>t, <1>10 DEF Create
<1>11. ASSUME NEW r \in Runs, Worker(r) PROVE IInv'
  BY <1>t, <1>11 DEF Worker, Write, Return, Raise, Unwind
<1>12. ASSUME NEW r \in Runs, Cleanup(r) PROVE IInv'
  BY <1>t, <1>12 DEF Cleanup, Ended
<1>13. ASSUME NEW r \in Runs, CallWebhook(r) \/ DropWebhook(r) PROVE IInv'
  BY <1>t, <1>13 DEF CallWebhook, DropWebhook
<1>14. CASE UNCHANGED vars
  BY <1>t, <1>14 DEF vars
<1> QED
  BY <1>1, <1>2, <1>3, <1>4, <1>5, <1>6, <1>7, <1>8, <1>9, <1>10, <1>11, <1>12,
     <1>13, <1>14 DEF Next, Scheduling, Callback

LEMMA Invariance == Spec => []IInv
  BY InvInit, InvNext, PTL DEF Spec

\* A result written by a clean stop is neither lost nor computed again by any
\* later life of the process.
THEOREM ResultsSurvive == Spec => []StoredResultsStay
<1>1. IInv => StoredResultsStay
  BY DEF IInv, StoredResultsStay, DiskBehind, TaskMatchesRow
<1> QED
  BY <1>1, Invariance, PTL

\* Without crashes a webhook is called once at most, over all restarts.
THEOREM WebhooksAtMostOnce == Spec => []WebhooksOnce
<1>1. IInv => WebhooksOnce
  BY DEF IInv, WebhooksOnce, Announced
<1> QED
  BY <1>1, Invariance, PTL

\* A webhook in flight announces a result that stands.
THEOREM WebhooksAreTrue == Spec => []WebhookAnnouncesResult
<1>1. IInv => WebhookAnnouncesResult
  BY DEF IInv, WebhookAnnouncesResult, Announced
<1> QED
  BY <1>1, Invariance, PTL

=============================================================================
