------------------------- MODULE RunLifecycleProofs -------------------------
(***************************************************************************)
(* Theorems about RunLifecycle for every number of runs, threads and       *)
(* cancellations: type correctness, then the inductive invariant IInv and  *)
(* the safety properties that follow from it.                              *)
(***************************************************************************)
EXTENDS RunLifecycle, TLAPS

USE DEF store, workers, streams

Outside == <<thread, temp, line, attempt, thStatus, pc, signal, ear, done,
             others>>

\* What a cancellation call does to the two things it writes is well typed.
LEMMA AfterVisitType ==
    ASSUME TypeOK, NEW rq \in CancelRequest
    PROVE  AfterVisit(rq) \in CancelRequest
  BY DEF AfterVisit, Visited, Interrupted, CancelRequest, RequestPhase

LEMMA MarkedType ==
    ASSUME TypeOK, NEW rq
    PROVE  Marked(rq) \in [Runs -> RunStatus]
  BY DEF Marked, TypeOK, RunStatus

LEMMA CancelCallType ==
    ASSUME NEW action \in Cancelling, NEW all \in SUBSET Runs, NEW by \in Nat
    PROVE  CancelCall(action, all, by) \in CancelRequest
  BY DEF CancelCall, CancelRequest, RequestPhase

LEMMA RunsAreNat == Runs \subseteq Nat
  BY BoundsAssumption DEF Runs

LEMMA TypeInit == Init => TypeOK
<1> SUFFICES ASSUME Init PROVE TypeOK
  OBVIOUS
<1>1. FreeRequest \in CancelRequest
  BY DEF FreeRequest, CancelRequest, RequestPhase, Cancelling
<1> QED
  BY <1>1 DEF Init, TypeOK, RunStatus, ThreadStatus, WorkerPc, Subscribed

\* The steps of requests, listeners and cancellations keep the types.
LEMMA TypeRequest ==
    ASSUME TypeOK,
           \/ \E t \in Threads : ThreadRequest(t)
           \/ \E c \in Requests : CancelTask(c)
           \/ \E r \in Runs : RunRequest(r) \/ Due(r) \/ Listener(r)
    PROVE  TypeOK'
<1>1. ASSUME NEW t \in Threads, CreateThread(t) PROVE TypeOK'
  BY <1>1 DEF CreateThread, TypeOK, ThreadStatus
<1>2. ASSUME NEW t \in Threads, DeleteThread(t) PROVE TypeOK'
  BY <1>2 DEF DeleteThread, Wiped, TypeOK, ThreadStatus, RunStatus
<1>3. ASSUME NEW t \in Threads, RejectRun(t) PROVE TypeOK'
  BY <1>3 DEF RejectRun, TypeOK, ThreadStatus
<1>4. ASSUME NEW c \in Requests, CancelScan(c) PROVE TypeOK'
  <2>1. req[c] \in CancelRequest
    BY DEF TypeOK
  <2> QED
    BY <1>4, <2>1, AfterVisitType, MarkedType DEF CancelScan, TypeOK
<1>5. ASSUME NEW c \in Requests, CancelGather(c) PROVE TypeOK'
  <2>1. req[c] \in CancelRequest
    BY DEF TypeOK
  <2>2. [req[c] EXCEPT !.phase = "done"] \in CancelRequest
    BY <2>1 DEF CancelRequest, RequestPhase
  <2> QED
    BY <1>5, <2>1, <2>2 DEF CancelGather, TypeOK, CancelRequest, RunStatus
<1>6. ASSUME NEW r \in Runs, NEW t \in Threads, NEW later \in BOOLEAN,
             NEW watched \in BOOLEAN, NEW isTemp \in BOOLEAN,
             Insert(r, t, isTemp, later, watched)
      PROVE  /\ thread' \in [Runs -> Threads \cup {NoThread}]
             /\ temp' \in [Runs -> BOOLEAN]
             /\ line' \in Seq(Runs)
             /\ others' \in [Runs -> {"none", "creator", "stale"}]
             /\ thStatus' \in [Threads -> ThreadStatus]
             /\ UNCHANGED <<attempt, pc, signal, ear, control, done>>
  BY <1>6 DEF Insert, TypeOK, ThreadStatus
<1>7. ASSUME NEW r \in Runs, NEW t \in Threads, NEW later \in BOOLEAN,
             NEW watched \in BOOLEAN, NEW strategy \in Strategies,
             CreateRun(r, t, strategy, later, watched)
      PROVE  TypeOK'
  BY <1>6, <1>7, ZenonT(30) DEF CreateRun, TypeOK, RunStatus, Live
<1>8. ASSUME NEW r \in Runs, NEW t \in Threads, NEW later \in BOOLEAN,
             NEW watched \in BOOLEAN, NEW strategy \in Strategies, NEW c \in Requests,
             CreateRunCancelling(r, t, strategy, later, watched, c)
      PROVE  TypeOK'
  <2> DEFINE rq == CancelCall(strategy, LiveOn(t), r)
  <2>1. rq \in CancelRequest
    BY <1>8, CancelCallType, RunsAreNat DEF CreateRunCancelling, LiveOn
  <2>2. AfterVisit(rq) \in CancelRequest /\ Marked(rq) \in [Runs -> RunStatus]
    BY <2>1, AfterVisitType, MarkedType
  <2>3. status' \in [Runs -> RunStatus] /\ req' \in [Requests -> CancelRequest]
    <3> HIDE DEF rq
    <3>1. req' = [req EXCEPT ![c] = AfterVisit(rq)]
          /\ status' = [Marked(rq) EXCEPT ![r] = "pending"]
      BY <1>8 DEF CreateRunCancelling, CancelBegin, rq
    <3> QED
      BY <3>1, <2>2 DEF TypeOK, RunStatus, Live
  <2>4. Insert(r, t, FALSE, later, watched)
    BY <1>8 DEF CreateRunCancelling
  <2> QED
    BY <1>6, <2>3, <2>4, ZenonT(30) DEF TypeOK
<1>9. ASSUME NEW r \in Runs, NEW t \in Threads, NEW later \in BOOLEAN,
             NEW watched \in BOOLEAN, NEW isTemp \in BOOLEAN,
             CreateStateless(r, t, isTemp, later, watched)
      PROVE  TypeOK'
  BY <1>6, <1>9 DEF CreateStateless, TypeOK, RunStatus, Live
<1>10. ASSUME NEW r \in Runs, DeleteRun(r) PROVE TypeOK'
  BY <1>10 DEF DeleteRun, TypeOK, RunStatus
<1>11. ASSUME NEW r \in Runs, Join(r) \/ Detach(r) PROVE TypeOK'
  BY <1>11 DEF Join, Detach, TypeOK
<1>12. ASSUME NEW r \in Runs, NEW c \in Requests, NEW action \in Cancelling,
              CancelOne(c, r, action)
       PROVE  TypeOK'
  <2> DEFINE rq == CancelCall(action, {r}, 0)
  <2>1. rq \in CancelRequest
    BY CancelCallType
  <2>2. AfterVisit(rq) \in CancelRequest /\ Marked(rq) \in [Runs -> RunStatus]
    BY <2>1, AfterVisitType, MarkedType
  <2> HIDE DEF rq
  <2>3. req' = [req EXCEPT ![c] = AfterVisit(rq)] /\ status' = Marked(rq)
    BY <1>12 DEF CancelOne, CancelBegin, rq
  <2> QED
    BY <1>12, <2>2, <2>3 DEF CancelOne, TypeOK
<1>13. ASSUME NEW r \in Runs, Due(r) PROVE TypeOK'
  BY <1>13 DEF Due, TypeOK
<1>14. ASSUME NEW r \in Runs, Listener(r) PROVE TypeOK'
  BY <1>14, ZenonT(30) DEF Listener, ListenerStart, ListenerHears, ListenerLapses, TypeOK
<1> QED
  BY <1>1, <1>2, <1>3, <1>4, <1>5, <1>7, <1>8, <1>9, <1>10, <1>11, <1>12,
     <1>13, <1>14
  DEF ThreadRequest, CancelTask, RunRequest, Creation

\* Runs.set_status writes what worker() may write to a run in the table; the
\* outcome "rollback" is never written because that run is gone.
LEMMA WrittenType ==
    ASSUME TypeOK, NEW r \in Runs, NEW value,
           value \in Final \cup {"pending", "interrupted"} \/ ~InStore(r)
    PROVE  Written(r, value) \in [Runs -> RunStatus]
  BY DEF Written, TypeOK, RunStatus, Live

----------------------------------------------------------------------------
(* The inductive invariant.  The status of a run and the place of its      *)
(* worker bound each other: this is what the single writes of a worker,    *)
(* made long after it read anything, rest on.                              *)

Stage(r) ==
    /\ pc[r] \in Owning => status[r] \in {"running", "interrupted", "gone"}
    /\ pc[r] = "rollback" => status[r] = "gone"
    /\ pc[r] \in {"unthreaded", "closing"} => status[r] \notin Live \cup {"unborn"}
    /\ status[r] = "running" => pc[r] \in Owning
    /\ status[r] \in {"pending", "unborn"} => pc[r] = "none" /\ ~done[r]
    /\ status[r] = "unborn" => thread[r] = NoThread
    /\ done[r] => pc[r] \in {"closing", "none"}
    /\ attempt[r] <= MaxRetries + 1
    /\ (status[r] \in {"unborn", "pending"} \/ pc[r] \in {"executing", "retry"})
          => attempt[r] <= MaxRetries

Safe == (\A r \in Runs : Stage(r)) /\ OneRunningPerThread

IInv == TypeOK /\ Safe

\* What a cancellation or a deletion may do to a run's status.
Lowers(r) ==
    \/ status'[r] = status[r]
    \/ status[r] \in Live /\ status'[r] = "interrupted"
    \/ status[r] # "unborn" /\ status'[r] = "gone"

LEMMA SafeInit == Init => Safe
  BY BoundsAssumption DEF Init, Safe, Stage, OneRunningPerThread, Live, Owning,
     Ended, Final

LEMMA LoweredSafe ==
    ASSUME IInv, \A r \in Runs : Lowers(r),
           UNCHANGED <<thread, pc, done, attempt>>
    PROVE  Safe'
  BY DEF IInv, Safe, Stage, OneRunningPerThread, Lowers, Live, Owning, Ended, Final

LEMMA InsertedSafe ==
    ASSUME IInv, NEW r \in Runs, NEW t \in Threads,
           status[r] = "unborn", status'[r] = "pending",
           thread' = [thread EXCEPT ![r] = t],
           \A s \in Runs \ {r} : Lowers(s),
           UNCHANGED <<pc, done, attempt>>
    PROVE  Safe'
<1>1. \A s \in Runs \ {r} : thread'[s] = thread[s]
  BY DEF IInv, TypeOK
<1>2. \A s \in Runs \ {r} : Stage(s)'
  BY <1>1 DEF IInv, Safe, Stage, Lowers, Live, Owning, Ended, Final
<1>3. Stage(r)'
  BY DEF IInv, Safe, Stage, Live, Owning, Ended, Final
<1>4. OneRunningPerThread'
  BY <1>1 DEF IInv, Safe, OneRunningPerThread, Lowers, Live
<1> QED
  BY <1>2, <1>3, <1>4 DEF Safe

LEMMA MarkedLowers ==
    ASSUME NEW rq, NEW r \in Runs, status' = Marked(rq)
    PROVE  Lowers(r)
  BY DEF Marked, Interrupted, Eager, Lowers

LEMMA WipedLowers ==
    ASSUME IInv, NEW t \in Threads, NEW r \in Runs, status' = Wiped(status, t)
    PROVE  Lowers(r)
  BY ThreadAssumption DEF IInv, Safe, Stage, Wiped, Lowers

----------------------------------------------------------------------------
(* Preservation, one lemma for the clients' side and one for the worker.   *)

LEMMA SafeRequest ==
    ASSUME IInv,
           \/ \E t \in Threads : ThreadRequest(t)
           \/ \E c \in Requests : CancelTask(c)
           \/ \E r \in Runs : RunRequest(r) \/ Due(r) \/ Listener(r)
    PROVE  Safe'
<1>1. ASSUME UNCHANGED <<status, thread, pc, done, attempt>> PROVE Safe'
  BY <1>1, LoweredSafe DEF Lowers
<1>2. ASSUME NEW t \in Threads, CreateThread(t) \/ RejectRun(t) PROVE Safe'
  BY <1>1, <1>2 DEF CreateThread, RejectRun
<1>3. ASSUME NEW t \in Threads, DeleteThread(t) PROVE Safe'
  BY <1>3, WipedLowers, LoweredSafe DEF DeleteThread
<1>4. ASSUME NEW c \in Requests, CancelScan(c) PROVE Safe'
  BY <1>4, MarkedLowers, LoweredSafe DEF CancelScan
<1>5. ASSUME NEW c \in Requests, CancelGather(c) PROVE Safe'
  <2>1. \A r \in Runs : Lowers(r)
    BY <1>5 DEF CancelGather, InStore, Lowers
  <2> QED
    BY <1>5, <2>1, LoweredSafe DEF CancelGather
<1>6. ASSUME NEW r \in Runs, NEW t \in Threads, NEW later \in BOOLEAN,
             NEW watched \in BOOLEAN, NEW strategy \in Strategies,
             CreateRun(r, t, strategy, later, watched)
      PROVE  Safe'
  <2>1. status[r] = "unborn" /\ thread' = [thread EXCEPT ![r] = t]
        /\ UNCHANGED <<pc, done, attempt>>
    BY <1>6 DEF CreateRun, Insert, NextRow
  <2>2. status'[r] = "pending" /\ \A s \in Runs \ {r} : Lowers(s)
    BY <1>6 DEF CreateRun, IInv, TypeOK, Lowers
  <2> QED
    BY <2>1, <2>2, InsertedSafe
<1>7. ASSUME NEW r \in Runs, NEW t \in Threads, NEW later \in BOOLEAN,
             NEW watched \in BOOLEAN, NEW isTemp \in BOOLEAN,
             CreateStateless(r, t, isTemp, later, watched)
      PROVE  Safe'
  <2>1. status[r] = "unborn" /\ thread' = [thread EXCEPT ![r] = t]
        /\ UNCHANGED <<pc, done, attempt>>
    BY <1>7 DEF CreateStateless, Insert, NextRow
  <2>2. status'[r] = "pending" /\ \A s \in Runs \ {r} : Lowers(s)
    BY <1>7 DEF CreateStateless, IInv, TypeOK, Lowers
  <2> QED
    BY <2>1, <2>2, InsertedSafe
<1>8. ASSUME NEW r \in Runs, NEW t \in Threads, NEW later \in BOOLEAN,
             NEW watched \in BOOLEAN, NEW strategy \in Strategies, NEW c \in Requests,
             CreateRunCancelling(r, t, strategy, later, watched, c)
      PROVE  Safe'
  <2> DEFINE rq == CancelCall(strategy, LiveOn(t), r)
  <2>1. status[r] = "unborn" /\ thread' = [thread EXCEPT ![r] = t]
        /\ UNCHANGED <<pc, done, attempt>>
    BY <1>8 DEF CreateRunCancelling, Insert, NextRow
  <2>2. status' = [Marked(rq) EXCEPT ![r] = "pending"]
    BY <1>8 DEF CreateRunCancelling
  <2> HIDE DEF rq
  <2>3. status'[r] = "pending" /\ \A s \in Runs \ {r} : Lowers(s)
    BY <2>2 DEF Marked, Interrupted, Eager, Lowers
  <2> QED
    BY <2>1, <2>3, InsertedSafe
<1>9. ASSUME NEW r \in Runs, DeleteRun(r) PROVE Safe'
  <2>1. \A s \in Runs : Lowers(s)
    BY <1>9 DEF DeleteRun, InStore, IInv, TypeOK, Lowers
  <2> QED
    BY <1>9, <2>1, LoweredSafe DEF DeleteRun
<1>10. ASSUME NEW r \in Runs, Join(r) \/ Detach(r) \/ Due(r) \/ Listener(r)
       PROVE  Safe'
  BY <1>1, <1>10 DEF Join, Detach, Due, Listener, ListenerStart, ListenerHears,
     ListenerLapses
<1>11. ASSUME NEW r \in Runs, NEW c \in Requests, NEW action \in Cancelling,
              CancelOne(c, r, action)
       PROVE  Safe'
  BY <1>11, MarkedLowers, LoweredSafe DEF CancelOne
<1> QED
  BY <1>2, <1>3, <1>4, <1>5, <1>6, <1>7, <1>8, <1>9, <1>10, <1>11
  DEF ThreadRequest, CancelTask, RunRequest, Creation

----------------------------------------------------------------------------
(* The contract: every step is one of its steps or leaves it alone.        *)

LEMMA ContractTyped ==
    ASSUME TypeOK'
    PROVE  /\ status' \in [Runs -> Contract!Stored \cup {"unborn", "gone"}]
           /\ thread' \in [Runs -> Threads \cup {NoThread}]
           /\ done' \in [Runs -> BOOLEAN]
  BY DEF TypeOK, RunStatus, Live, Final, Contract!Stored, Contract!Live, Contract!Final

\* A run that is left alone, interrupted or deleted moves as it may.
LEMMA LoweredKeeps ==
    ASSUME IInv, NEW r \in Runs, Lowers(r), thread'[r] = thread[r], done'[r] = done[r]
    PROVE  Contract!Keeps(r) /\ ~Contract!Starts(r)
  BY DEF IInv, Safe, Stage, TypeOK, RunStatus, Lowers, Live, Final, Owning, Ended,
     Contract!Keeps, Contract!May, Contract!Live, Contract!Final, Contract!Starts

LEMMA LoweredContract ==
    ASSUME IInv, TypeOK', \A r \in Runs : Lowers(r), UNCHANGED <<thread, done>>
    PROVE  Contract!Next
  BY ContractTyped, LoweredKeeps DEF Contract!Next

LEMMA InsertedContract ==
    ASSUME IInv, TypeOK', NEW r \in Runs, NEW t \in Threads,
           status[r] = "unborn", status'[r] = "pending",
           thread' = [thread EXCEPT ![r] = t],
           \A s \in Runs \ {r} : Lowers(s), UNCHANGED done
    PROVE  Contract!Next
<1>1. \A s \in Runs \ {r} : Contract!Keeps(s) /\ ~Contract!Starts(s)
  BY LoweredKeeps DEF IInv, TypeOK
<1>2. Contract!Keeps(r) /\ ~Contract!Starts(r)
  <2>1. ~done[r] /\ ~done'[r]
    BY DEF IInv, Safe, Stage
  <2> QED
    BY <2>1 DEF Contract!Keeps, Contract!May, Contract!Starts
<1> QED
  BY <1>1, <1>2, ContractTyped DEF Contract!Next

LEMMA ContractRequest ==
    ASSUME IInv, TypeOK',
           \/ \E t \in Threads : ThreadRequest(t)
           \/ \E c \in Requests : CancelTask(c)
           \/ \E r \in Runs : RunRequest(r) \/ Due(r) \/ Listener(r)
    PROVE  Contract!Next
<1>1. ASSUME UNCHANGED <<status, thread, done>> PROVE Contract!Next
  BY <1>1, LoweredContract DEF Lowers
<1>2. ASSUME NEW t \in Threads, ThreadRequest(t) PROVE Contract!Next
  BY <1>1, <1>2, WipedLowers, LoweredContract
  DEF ThreadRequest, CreateThread, RejectRun, DeleteThread
<1>3. ASSUME NEW c \in Requests, CancelScan(c) PROVE Contract!Next
  BY <1>3, MarkedLowers, LoweredContract DEF CancelScan
<1>4. ASSUME NEW c \in Requests, CancelGather(c) PROVE Contract!Next
  <2>1. \A r \in Runs : Lowers(r)
    BY <1>4 DEF CancelGather, InStore, Lowers
  <2> QED
    BY <1>4, <2>1, LoweredContract DEF CancelGather
<1>5. ASSUME NEW r \in Runs, Creation(r) PROVE Contract!Next
  <2>1. PICK t \in Threads, later \in BOOLEAN, watched \in BOOLEAN :
           \/ \E strategy \in Strategies : CreateRun(r, t, strategy, later, watched)
           \/ \E strategy \in Strategies, c \in Requests :
                 CreateRunCancelling(r, t, strategy, later, watched, c)
           \/ \E isTemp \in BOOLEAN : CreateStateless(r, t, isTemp, later, watched)
    BY <1>5 DEF Creation
  <2>2. status[r] = "unborn" /\ thread' = [thread EXCEPT ![r] = t] /\ UNCHANGED done
    BY <2>1 DEF CreateRun, CreateRunCancelling, CreateStateless, Insert, NextRow
  <2>3. CASE status' = [status EXCEPT ![r] = "pending"]
    BY <2>2, <2>3, InsertedContract DEF IInv, TypeOK, Lowers
  <2>4. ASSUME NEW rq, status' = [Marked(rq) EXCEPT ![r] = "pending"]
        PROVE  Contract!Next
    <3>1. status'[r] = "pending" /\ \A s \in Runs \ {r} : Lowers(s)
      BY <2>4 DEF Marked, Interrupted, Eager, Lowers
    <3> QED
      BY <2>2, <3>1, InsertedContract
  <2> QED
    BY <2>1, <2>3, <2>4 DEF CreateRun, CreateRunCancelling, CreateStateless
<1>6. ASSUME NEW r \in Runs, DeleteRun(r) PROVE Contract!Next
  <2>1. \A s \in Runs : Lowers(s)
    BY <1>6 DEF DeleteRun, InStore, IInv, TypeOK, Lowers
  <2> QED
    BY <1>6, <2>1, LoweredContract DEF DeleteRun
<1>7. ASSUME NEW r \in Runs, NEW c \in Requests, NEW action \in Cancelling,
             CancelOne(c, r, action)
      PROVE  Contract!Next
  BY <1>7, MarkedLowers, LoweredContract DEF CancelOne
<1>8. ASSUME NEW r \in Runs, Join(r) \/ Detach(r) \/ Due(r) \/ Listener(r)
      PROVE  Contract!Next
  BY <1>1, <1>8 DEF Join, Detach, Due, Listener, ListenerStart, ListenerHears,
     ListenerLapses
<1> QED
  BY <1>2, <1>3, <1>4, <1>5, <1>6, <1>7, <1>8 DEF CancelTask, RunRequest

----------------------------------------------------------------------------
(* The scheduler and the worker. *)

\* A step of run r's worker or of the scheduler on r that leaves the other runs
\* where they are, or deletes them.
OthersKept(r) ==
    /\ thread' = thread
    /\ \A s \in Runs \ {r} :
          /\ pc'[s] = pc[s] /\ done'[s] = done[s] /\ attempt'[s] = attempt[s]
          /\ status'[s] = status[s] \/ (status[s] # "unborn" /\ status'[s] = "gone")

\* What a worker may write: it never starts its run, and only a worker that
\* has yet to write changes the status.
Writes(r) ==
    /\ status[r] = "gone" => status'[r] = "gone"
    /\ \/ status'[r] = status[r]
       \/ pc[r] \in Owning /\ status'[r] \in Final \cup {"pending", "interrupted", "gone"}
    /\ done[r] => done'[r]

LEMMA WorkerWrites ==
    ASSUME IInv, TypeOK', NEW r \in Runs, OthersKept(r), Stage(r)', Writes(r)
    PROVE  TypeOK' /\ Safe' /\ Contract!Next
<1>1. \A s \in Runs \ {r} : Stage(s)'
  BY DEF IInv, Safe, Stage, OthersKept, Live, Owning, Ended, Final
<1>2. OneRunningPerThread'
  BY DEF IInv, Safe, OneRunningPerThread, OthersKept, Writes, Final
<1>3. \A s \in Runs \ {r} : Contract!Keeps(s) /\ ~Contract!Starts(s)
  BY LoweredKeeps DEF OthersKept, Lowers
<1>4. Contract!Keeps(r) /\ ~Contract!Starts(r)
  BY DEF IInv, Safe, TypeOK, RunStatus, Stage, OthersKept, Writes, Live, Owning, Ended,
     Final, Contract!Keeps, Contract!May, Contract!Live, Contract!Final, Contract!Starts
<1> QED
  BY <1>1, <1>2, <1>3, <1>4, ContractTyped DEF Safe, Contract!Next

LEMMA WorkerStep ==
    ASSUME IInv, NEW r \in Runs, Claim(r) \/ Worker(r)
    PROVE  TypeOK' /\ Safe' /\ Contract!Next
<1> DEFINE Result == TypeOK' /\ Safe' /\ Contract!Next
<1> USE DEF OthersKept
<1>0. /\ Stage(r)
      /\ status[r] \in RunStatus /\ thread[r] \in Threads \cup {NoThread}
      /\ attempt[r] \in Nat /\ MaxRetries \in Nat
  BY BoundsAssumption DEF IInv, Safe, TypeOK
<1>1. ASSUME Claim(r) PROVE Result
  <2>1. TypeOK'
    BY <1>1 DEF Claim, IInv, TypeOK, RunStatus, Live, WorkerPc
  <2>2. OthersKept(r)
    BY <1>1 DEF Claim, IInv, TypeOK
  <2>3. status'[r] = "running" /\ pc'[r] = "claimed" /\ attempt'[r] = attempt[r] + 1
        /\ status[r] = "pending" /\ UNCHANGED done
    BY <1>1 DEF Claim, IInv, TypeOK
  <2>4. Stage(r)'
    BY <1>0, <2>3 DEF Stage, Live, Owning, Ended, Final
  <2>5. \A s \in Runs \ {r} : Stage(s)'
    BY <2>2 DEF IInv, Safe, Stage, Live, Owning, Ended, Final
  <2>6. OneRunningPerThread'
    BY <1>1, <2>2, <2>3 DEF Claim, OneRunningPerThread, IInv, Safe
  <2>7. \A s \in Runs \ {r} : Contract!Keeps(s) /\ ~Contract!Starts(s)
    BY <2>2, <2>3, LoweredKeeps DEF Lowers
  <2>8. Contract!Keeps(r)
    BY <1>0, <2>2, <2>3 DEF Stage, Contract!Keeps, Contract!May
  <2>9. \A s \in Runs \ {r} : thread[s] = thread[r] =>
             status[s] # "running" /\ status'[s] # "running"
    BY <1>1, <2>2 DEF Claim
  <2>10. Contract!Next
    BY <2>1, <2>7, <2>8, <2>9, ContractTyped DEF Contract!Next
  <2> QED
    BY <2>1, <2>4, <2>5, <2>6, <2>10 DEF Safe
<1>2. ASSUME Enter(r) \/ Start(r) \/ Close(r) PROVE Result
  <2>1. TypeOK'
    BY <1>2 DEF Enter, Start, Close, IInv, TypeOK, WorkerPc, Subscribed, Ended, Final
  <2>2. OthersKept(r)
    BY <1>2 DEF Enter, Start, Close, IInv, TypeOK
  <2>3. UNCHANGED <<status, done, thread, attempt>>
    BY <1>2 DEF Enter, Start, Close
  <2>4. \/ pc[r] = "claimed" /\ pc'[r] = "entered"
        \/ pc[r] = "entered" /\ attempt[r] > MaxRetries /\ pc'[r] = "error"
        \/ pc[r] = "entered" /\ attempt[r] <= MaxRetries /\ pc'[r] = "executing"
        \/ pc[r] = "closing" /\ pc'[r] = "none"
    BY <1>0, <1>2 DEF Enter, Start, Close, IInv, TypeOK
  <2>5. Stage(r)'
    BY <1>0, <2>3, <2>4 DEF Stage, Live, Owning, Ended, Final
  <2> QED
    BY <2>1, <2>2, <2>3, <2>5, WorkerWrites DEF Writes
<1>3. ASSUME Execution(r) PROVE Result
  <2>1. PICK p \in WorkerPc, st \in RunStatus :
           /\ pc[r] = "executing" /\ pc' = [pc EXCEPT ![r] = p]
           /\ p \in Final \cup {"retry", "interrupted", "rollback"}
           /\ status' = [status EXCEPT ![r] = st]
           /\ st \in {status[r], "gone"} /\ (p = "rollback" => st = "gone")
           /\ UNCHANGED <<thread, temp, line, attempt, thStatus, signal, ear,
                          control, done, others, req>>
    <3>1. status = [status EXCEPT ![r] = status[r]]
      BY DEF IInv, TypeOK
    <3>2. CASE \E outcome \in GraphOutcomes : GraphEnds(r, outcome)
      <4>1. PICK outcome \in GraphOutcomes : GraphEnds(r, outcome)
        BY <3>2
      <4>2. outcome \in WorkerPc /\ outcome \in Final \cup {"retry"}
        BY ClientAssumption DEF AllOutcomes, WorkerPc, Subscribed, Ended, Final
      <4> QED
        BY <1>0, <3>1, <4>1, <4>2 DEF GraphEnds, Final
    <3>3. CASE GraphInterrupted(r)
      BY <1>0, <3>1, <3>3 DEF GraphInterrupted, WorkerPc, Subscribed, Ended, Final
    <3>4. CASE GraphRolledBack(r)
      BY <1>0, <3>4 DEF GraphRolledBack, WorkerPc, Subscribed, Ended, Final, RunStatus
    <3> QED
      BY <1>3, <3>2, <3>3, <3>4 DEF Execution
  <2>2. TypeOK'
    BY <2>1 DEF IInv, TypeOK
  <2>3. OthersKept(r)
    BY <2>1 DEF IInv, TypeOK
  <2>4. pc'[r] = p /\ status'[r] = st
    BY <2>1 DEF IInv, TypeOK
  <2>5. Stage(r)'
    BY <1>0, <2>1, <2>4 DEF Stage, Live, Owning, Ended, Final
  <2> QED
    BY <2>1, <2>2, <2>3, <2>4, <2>5, WorkerWrites DEF Writes, Owning
<1>4. ASSUME Retry(r) PROVE Result
  <2>1. status' = Written(r, "pending") /\ status' \in [Runs -> RunStatus]
    BY <1>4, WrittenType DEF Retry, IInv
  <2>2. TypeOK'
    BY <1>4, <2>1 DEF Retry, Abandon, IInv, TypeOK, WorkerPc
  <2>3. OthersKept(r)
    BY <1>4 DEF Retry, Abandon, Written, IInv, TypeOK
  <2>4. Stage(r)' /\ status'[r] # "running"
    BY <1>0, <1>4 DEF Retry, Abandon, Written, InStore, IInv, TypeOK, Stage, Live,
       Owning, Ended, Final
  <2>5. Writes(r)
    BY <1>0, <1>4 DEF Retry, Abandon, Written, InStore, IInv, TypeOK, Writes, Owning
  <2> QED
    BY <2>2, <2>3, <2>4, <2>5, WorkerWrites
<1>5. ASSUME pc[r] \in Ended
      PROVE  /\ Written(r, pc[r]) \in [Runs -> RunStatus]
             /\ Written(r, pc[r])[r] \in Final \cup {"interrupted", "gone"}
             /\ status[r] = "gone" => Written(r, pc[r])[r] = "gone"
             /\ \A s \in Runs \ {r} : Written(r, pc[r])[s] = status[s]
  <2>1. pc[r] \in Final \cup {"pending", "interrupted"} \/ ~InStore(r)
    BY <1>0, <1>5 DEF Ended, Stage, InStore
  <2>2. Written(r, pc[r]) \in [Runs -> RunStatus]
    BY <2>1, WrittenType DEF IInv
  <2> QED
    BY <1>0, <1>5, <2>1, <2>2 DEF Written, InStore, IInv, TypeOK, Ended, Owning, Stage
<1>6. ASSUME NEW hasNext \in BOOLEAN, Finish(r, hasNext) PROVE Result
  <2>1. ThreadResult(r, Written(r, pc[r]), hasNext) \in ThreadStatus
    BY DEF ThreadResult, ThreadStatus
  <2>2. TypeOK'
    BY <1>5, <1>6, <2>1 DEF Finish, Announce, IInv, TypeOK, WorkerPc, Subscribed
  <2>3. OthersKept(r)
    BY <1>5, <1>6 DEF Finish, Announce, IInv, TypeOK
  <2>4. Stage(r)' /\ status'[r] # "running"
    BY <1>0, <1>5, <1>6 DEF Finish, Announce, IInv, TypeOK, Stage, Live, Owning,
       Ended, Final
  <2>5. Writes(r)
    BY <1>5, <1>6 DEF Finish, Announce, IInv, TypeOK, Writes, Owning
  <2> QED
    BY <2>2, <2>3, <2>4, <2>5, WorkerWrites
<1>7. ASSUME FinishUnthreaded(r) PROVE Result
  <2>2. TypeOK'
    BY <1>5, <1>7 DEF FinishUnthreaded, IInv, TypeOK, WorkerPc, Subscribed
  <2>3. OthersKept(r)
    BY <1>5, <1>7 DEF FinishUnthreaded, IInv, TypeOK
  <2>4. Stage(r)' /\ status'[r] # "running"
    BY <1>0, <1>5, <1>7 DEF FinishUnthreaded, IInv, TypeOK, Stage, Live, Owning,
       Ended, Final
  <2>5. Writes(r)
    BY <1>5, <1>7 DEF FinishUnthreaded, Writes, Owning
  <2> QED
    BY <2>2, <2>3, <2>4, <2>5, WorkerWrites
<1>8. ASSUME AnnounceUnthreaded(r) PROVE Result
  <2>2. TypeOK'
    BY <1>8 DEF AnnounceUnthreaded, Announce, IInv, TypeOK, WorkerPc, Subscribed
  <2>3. OthersKept(r)
    BY <1>8 DEF AnnounceUnthreaded, Announce, IInv, TypeOK
  <2>4. Stage(r)' /\ status'[r] = status[r]
    BY <1>0, <1>8 DEF AnnounceUnthreaded, Announce, IInv, TypeOK, Stage, Live,
       Owning, Ended, Final
  <2>5. Writes(r)
    BY <1>8 DEF AnnounceUnthreaded, Announce, IInv, TypeOK, Writes
  <2> QED
    BY <2>2, <2>3, <2>4, <2>5, WorkerWrites
<1>9. ASSUME FinishTemporary(r) PROVE Result
  <2>1. /\ status' \in [Runs -> RunStatus]
        /\ status'[r] = "gone"
        /\ \A s \in Runs \ {r} : status'[s] \in {status[s], "gone"}
        /\ \A s \in Runs \ {r} : status[s] = "unborn" => status'[s] = "unborn"
    BY <1>5, <1>9, ThreadAssumption
    DEF FinishTemporary, Wiped, Exists, RunStatus, IInv, Safe, Stage
  <2>2. TypeOK'
    BY <1>9, <2>1 DEF FinishTemporary, Announce, IInv, TypeOK, WorkerPc, Subscribed,
       ThreadStatus
  <2>3. OthersKept(r)
    BY <1>9, <2>1 DEF FinishTemporary, Announce, IInv, TypeOK
  <2>4. Stage(r)' /\ status'[r] # "running"
    BY <1>0, <1>9, <2>1 DEF FinishTemporary, Announce, IInv, TypeOK, Stage, Live,
       Owning, Ended, Final
  <2>5. Writes(r)
    BY <1>9, <2>1 DEF FinishTemporary, Announce, IInv, TypeOK, Writes, Owning
  <2> QED
    BY <2>2, <2>3, <2>4, <2>5, WorkerWrites
<1>10. ASSUME FinishTemporaryLost(r) PROVE Result
  <2>2. TypeOK'
    BY <1>5, <1>10 DEF FinishTemporaryLost, Abandon, IInv, TypeOK, WorkerPc
  <2>3. OthersKept(r)
    BY <1>5, <1>10 DEF FinishTemporaryLost, Abandon, IInv, TypeOK
  <2>4. Stage(r)' /\ status'[r] # "running"
    BY <1>0, <1>5, <1>10 DEF FinishTemporaryLost, Abandon, IInv, TypeOK, Stage, Live,
       Owning, Ended, Final
  <2>5. Writes(r)
    BY <1>5, <1>10 DEF FinishTemporaryLost, Abandon, Writes, Owning
  <2> QED
    BY <2>2, <2>3, <2>4, <2>5, WorkerWrites
<1> QED
  BY <1>1, <1>2, <1>3, <1>4, <1>6, <1>7, <1>8, <1>9, <1>10 DEF Worker, Ending

LEMMA IInvStep == IInv /\ [Next]_vars => IInv' /\ [Contract!Next]_<<status, thread, done>>
<1> SUFFICES ASSUME IInv, [Next]_vars
             PROVE  IInv' /\ [Contract!Next]_<<status, thread, done>>
  OBVIOUS
<1>1. CASE \/ \E t \in Threads : ThreadRequest(t)
           \/ \E c \in Requests : CancelTask(c)
           \/ \E r \in Runs : RunRequest(r) \/ Due(r) \/ Listener(r)
  BY <1>1, TypeRequest, SafeRequest, ContractRequest DEF IInv
<1>2. CASE \E r \in Runs : Claim(r) \/ Worker(r)
  BY <1>2, WorkerStep DEF IInv
<1>3. CASE UNCHANGED vars
  <2>1. TypeOK'
    BY <1>3 DEF IInv, TypeOK, vars
  <2>2. Safe'
    BY <1>3, LoweredSafe DEF vars, Lowers
  <2> QED
    BY <1>3, <2>1, <2>2 DEF IInv, vars
<1> QED
  BY <1>1, <1>2, <1>3 DEF Next

\* Every reachable state satisfies the inductive invariant.
THEOREM Invariance == Spec => []IInv
<1>1. Init => IInv
  BY TypeInit, SafeInit DEF IInv
<1> QED
  BY <1>1, IInvStep, PTL DEF Spec

\* Every variable keeps its type.
THEOREM TypeCorrect == Spec => []TypeOK
<1>1. IInv => TypeOK
  BY DEF IInv
<1> QED
  BY <1>1, Invariance, PTL

\* No two runs of a thread are ever in status "running" together.
THEOREM MutualExclusion == Spec => []OneRunningPerThread
<1>1. IInv => OneRunningPerThread
  BY DEF IInv, Safe
<1> QED
  BY <1>1, Invariance, PTL

\* A run in status "running" always has a worker that will write its status.
THEOREM NoOrphanedRun == Spec => []RunningIsOwned
<1>1. IInv => RunningIsOwned
  BY DEF IInv, Safe, Stage, RunningIsOwned
<1> QED
  BY <1>1, Invariance, PTL

\* A run announced as done has left the queue and its worker is at its end.
THEOREM DoneAfterStatus == Spec => []DoneIsFinal
<1>1. IInv => DoneIsFinal
  BY DEF IInv, Safe, Stage, DoneIsFinal, Live, Owning, Ended, Final
<1> QED
  BY <1>1, Invariance, PTL

\* The graph is never started more than BG_JOB_MAX_RETRIES times for a run.
THEOREM BoundedAttempts == Spec => []AttemptsBounded
<1>1. IInv => AttemptsBounded
  BY DEF IInv, Safe, Stage, AttemptsBounded
<1> QED
  BY <1>1, Invariance, PTL

\* RunLifecycle implements RunContract: initial states are initial states of
\* the contract, and every step is a step of the contract or changes nothing
\* that the contract speaks of.
THEOREM ImplementsContract == Spec => ContractHolds
<1>1. Init => Contract!Init
  BY DEF Init, Contract!Init
<1>2. IInv /\ [Next]_vars => [Contract!Next]_<<status, thread, done>>
  BY IInvStep
<1> QED
  BY <1>1, <1>2, Invariance, PTL DEF Spec, ContractHolds, Contract!Spec, Contract!cvars

\* A result, once final or announced, is never replaced.
THEOREM ResultsAreStable == Spec => FinalIsStable
<1>1. IInv /\ [Next]_vars =>
          [\A r \in Runs : (done[r] \/ status[r] \in Final)
               => status'[r] \in {status[r], "gone"}]_vars
  <2> SUFFICES ASSUME IInv, [Next]_vars, NEW r \in Runs,
                      done[r] \/ status[r] \in Final
               PROVE  status'[r] \in {status[r], "gone"}
    OBVIOUS
  <2>1. CASE UNCHANGED <<status, thread, done>>
    BY <2>1
  <2>2. CASE Contract!Next
    BY <2>2 DEF Contract!Next, Contract!Keeps, Contract!May, Final, Contract!Final
  <2> QED
    BY <2>1, <2>2, IInvStep
<1> QED
  BY <1>1, Invariance, PTL DEF Spec, FinalIsStable

----------------------------------------------------------------------------
(* A thread with a run in flight shows "busy".                             *)

(* The inductive invariant.  A worker whose run no cancellation has been   *)
(* asked for still finds it running or deleted, so it is never put back    *)
(* into a thread that has meanwhile been set to another status.            *)

Untouched(r) == \A c \in Requests : r \notin req[c].all

\* A cancellation changes the runs it was called with and no others.
Reach ==
    \A c \in Requests :
        /\ req[c].todo \subseteq req[c].all
        /\ req[c].dels \subseteq req[c].all
        /\ req[c].phase = "free" => req[c].all = {}

Placed == \A r \in Runs : status[r] # "unborn" => thread[r] \in Threads

Calm ==
    \A r \in Runs :
        Untouched(r) /\ pc[r] \in Owning => status[r] \in {"running", "gone"}

BInv == IInv /\ Reach /\ Placed /\ Calm /\ BusyCoversInflight

LEMMA BusyInit == Init => BInv
<1> SUFFICES ASSUME Init PROVE BInv
  OBVIOUS
<1>1. IInv
  BY TypeInit, SafeInit DEF IInv
<1>2. Reach
  BY DEF Init, Reach, FreeRequest
<1>3. Placed /\ Calm /\ BusyCoversInflight
  BY DEF Init, Placed, Calm, BusyCoversInflight, Owning, Ended, Final, Live
<1> QED
  BY <1>1, <1>2, <1>3 DEF BInv

----------------------------------------------------------------------------
(* The clients' side.                                                      *)

\* What a cancellation or a deletion may do to the runs and the threads.
LEMMA LoweredBusy ==
    ASSUME BInv, \A r \in Runs : Lowers(r),
           \A c \in Requests : req[c].all \subseteq req'[c].all,
           \A r \in Runs : status'[r] = "interrupted" =>
               status[r] = "interrupted" \/ ~Untouched(r)',
           \A t \in Threads :
               \/ thStatus'[t] \in {thStatus[t], "busy"}
               \/ thStatus[t] = "none"
               \/ \A r \in Runs : thread[r] = t => status'[r] = "gone",
           UNCHANGED <<thread, pc>>
    PROVE  Placed' /\ Calm' /\ BusyCoversInflight'
<1>1. ASSUME NEW r \in Runs, Untouched(r)' PROVE Untouched(r)
  BY <1>1 DEF Untouched
<1>2. Placed'
  BY DEF BInv, Placed, Lowers, Live
<1>3. Calm'
  BY <1>1 DEF BInv, Calm, Lowers
<1>4. BusyCoversInflight'
  <2> SUFFICES ASSUME NEW r \in Runs, status'[r] \in Live, Untouched(r)'
               PROVE  thStatus'[thread[r]] = "busy"
    BY DEF BusyCoversInflight, Untouched
  <2>1. status[r] \in Live /\ status'[r] # "gone"
    BY DEF Lowers, Live
  <2>2. thStatus[thread[r]] = "busy"
    BY <1>1, <2>1 DEF BInv, BusyCoversInflight, Untouched
  <2>3. thread[r] \in Threads
    BY <2>1 DEF BInv, Placed, Live
  <2> QED
    BY <2>1, <2>2, <2>3
<1> QED
  BY <1>2, <1>3, <1>4

LEMMA InsertedBusy ==
    ASSUME BInv, NEW r \in Runs, NEW t \in Threads,
           status[r] = "unborn", status'[r] = "pending",
           thread' = [thread EXCEPT ![r] = t],
           thStatus' = [thStatus EXCEPT ![t] = "busy"],
           \A s \in Runs \ {r} : Lowers(s),
           \A c \in Requests : req[c].all \subseteq req'[c].all,
           \A s \in Runs \ {r} : status'[s] = "interrupted" =>
               status[s] = "interrupted" \/ ~Untouched(s)',
           UNCHANGED pc
    PROVE  Placed' /\ Calm' /\ BusyCoversInflight'
<1>1. /\ thread'[r] = t /\ thStatus'[t] = "busy" /\ pc[r] = "none"
      /\ \A s \in Runs \ {r} : thread'[s] = thread[s]
      /\ \A u \in Threads \ {t} : thStatus'[u] = thStatus[u]
  BY DEF BInv, IInv, TypeOK, Safe, Stage
<1>2. ASSUME NEW s \in Runs, Untouched(s)' PROVE Untouched(s)
  BY <1>2 DEF Untouched
<1>3. Placed'
  BY <1>1 DEF BInv, Placed, Lowers, Live
<1>4. Calm'
  BY <1>1, <1>2 DEF BInv, Calm, Lowers, Owning, Ended, Final
<1>5. BusyCoversInflight'
  <2> SUFFICES ASSUME NEW s \in Runs, s # r, status'[s] \in Live, Untouched(s)'
               PROVE  thStatus'[thread'[s]] = "busy"
    BY <1>1 DEF BusyCoversInflight, Untouched
  <2>1. status[s] \in Live
    BY DEF Lowers, Live
  <2>2. thStatus[thread[s]] = "busy" /\ thread[s] \in Threads
    BY <1>2, <2>1 DEF BInv, BusyCoversInflight, Untouched, Placed, Live
  <2> QED
    BY <1>1, <2>2
<1> QED
  BY <1>3, <1>4, <1>5

\* A visit of a cancellation stays within the runs of its call.
LEMMA VisitReach ==
    ASSUME NEW rq, rq \in CancelRequest,
           rq.todo \subseteq rq.all, rq.dels \subseteq rq.all
    PROVE  /\ AfterVisit(rq).all = rq.all
           /\ AfterVisit(rq).todo \subseteq rq.all
           /\ AfterVisit(rq).dels \subseteq rq.all
           /\ AfterVisit(rq).phase # "free"
           /\ \A r \in Runs : Marked(rq)[r] = status[r] \/ r \in rq.all
  BY DEF AfterVisit, Visited, Interrupted, CancelRequest, Marked

\* The begin of a cancellation: its runs are touched from now on.
LEMMA BeginReach ==
    ASSUME BInv, NEW c \in Requests, NEW action \in Cancelling,
           NEW all \in SUBSET Runs, NEW by \in Nat,
           CancelBegin(c, CancelCall(action, all, by))
    PROVE  /\ Reach'
           /\ \A d \in Requests : req[d].all \subseteq req'[d].all
           /\ \A r \in all : ~Untouched(r)'
           /\ \A r \in Runs :
                 Marked(CancelCall(action, all, by))[r] = status[r] \/ r \in all
<1> DEFINE rq == CancelCall(action, all, by)
<1>1. rq \in CancelRequest /\ rq.all = all /\ rq.todo = all /\ rq.dels = {}
  BY CancelCallType DEF CancelCall
<1>2. req' = [req EXCEPT ![c] = AfterVisit(rq)] /\ req[c].phase = "free"
  BY DEF CancelBegin
<1> HIDE DEF rq
<1>3. /\ AfterVisit(rq).all = all /\ AfterVisit(rq).todo \subseteq all
      /\ AfterVisit(rq).dels \subseteq all /\ AfterVisit(rq).phase # "free"
      /\ \A r \in Runs : Marked(rq)[r] = status[r] \/ r \in all
  BY <1>1, VisitReach
<1>4. req'[c] = AfterVisit(rq) /\ \A d \in Requests \ {c} : req'[d] = req[d]
  BY <1>2 DEF BInv, IInv, TypeOK
<1>5. Reach'
  BY <1>3, <1>4 DEF BInv, Reach
<1>6. \A d \in Requests : req[d].all \subseteq req'[d].all
  BY <1>2, <1>3, <1>4 DEF BInv, Reach
<1>7. \A r \in all : ~Untouched(r)'
  BY <1>3, <1>4 DEF Untouched
<1> QED
  BY <1>3, <1>5, <1>6, <1>7 DEF rq

LEMMA BusyRequest ==
    ASSUME BInv,
           \/ \E t \in Threads : ThreadRequest(t)
           \/ \E c \in Requests : CancelTask(c)
           \/ \E r \in Runs : RunRequest(r) \/ Due(r) \/ Listener(r)
    PROVE  Reach' /\ Placed' /\ Calm' /\ BusyCoversInflight'
<1> DEFINE Result == Reach' /\ Placed' /\ Calm' /\ BusyCoversInflight'
<1>0. IInv /\ TypeOK /\ Reach
  BY DEF BInv, IInv
<1>1. ASSUME UNCHANGED <<status, thread, pc, req>>,
             \A t \in Threads : thStatus'[t] \in {thStatus[t], "busy"}
                               \/ thStatus[t] = "none"
      PROVE  Result
  <2>1. Reach'
    BY <1>0, <1>1 DEF Reach
  <2>2. \A r \in Runs : Lowers(r)
    BY <1>1 DEF Lowers
  <2>3. \A r \in Runs : status'[r] = "interrupted" =>
            status[r] = "interrupted" \/ ~Untouched(r)'
    BY <1>1
  <2>4. \A c \in Requests : req[c].all \subseteq req'[c].all
    BY <1>1
  <2> QED
    BY <1>1, <2>1, <2>2, <2>3, <2>4, LoweredBusy
<1>2. ASSUME NEW t \in Threads, CreateThread(t) \/ RejectRun(t) PROVE Result
  <2>1. \A u \in Threads : thStatus'[u] \in {thStatus[u], "busy"} \/ thStatus[u] = "none"
    BY <1>0, <1>2 DEF CreateThread, RejectRun, TypeOK
  <2> QED
    BY <1>1, <1>2, <2>1 DEF CreateThread, RejectRun
<1>3. ASSUME NEW t \in Threads, DeleteThread(t) PROVE Result
  <2>1. \A r \in Runs : Lowers(r) /\ status'[r] \in {status[r], "gone"}
    BY <1>0, <1>3, WipedLowers DEF DeleteThread, Wiped, Lowers
  <2>2. \A u \in Threads : thStatus'[u] = thStatus[u]
            \/ \A r \in Runs : thread[r] = u => status'[r] = "gone"
    BY <1>0, <1>3 DEF DeleteThread, Wiped, TypeOK
  <2>3. UNCHANGED <<thread, pc, req>> /\ Reach'
    BY <1>0, <1>3 DEF DeleteThread, Reach
  <2> QED
    BY <2>1, <2>2, <2>3, LoweredBusy
<1>4. ASSUME NEW c \in Requests, CancelScan(c) PROVE Result
  <2>1. req[c] \in CancelRequest /\ req[c].todo \subseteq req[c].all
        /\ req[c].dels \subseteq req[c].all
    BY <1>0 DEF TypeOK, Reach
  <2>2. req'[c] = AfterVisit(req[c]) /\ \A d \in Requests \ {c} : req'[d] = req[d]
    BY <1>0, <1>4 DEF CancelScan, TypeOK
  <2>3. /\ Reach' /\ \A d \in Requests : req[d].all \subseteq req'[d].all
        /\ \A r \in Runs : status'[r] = status[r] \/ ~Untouched(r)'
    BY <1>0, <1>4, <2>1, <2>2, VisitReach DEF CancelScan, Reach, Untouched
  <2>4. \A r \in Runs : Lowers(r)
    BY <1>4, MarkedLowers DEF CancelScan
  <2> QED
    BY <1>4, <2>3, <2>4, LoweredBusy DEF CancelScan
<1>5. ASSUME NEW c \in Requests, CancelGather(c) PROVE Result
  <2>1. \A r \in Runs : Lowers(r) /\ status'[r] \in {status[r], "gone"}
    BY <1>5 DEF CancelGather, InStore, Lowers
  <2>2. /\ req'[c].all = req[c].all /\ req'[c].todo = req[c].todo
        /\ req'[c].dels = req[c].dels /\ req'[c].phase = "done"
        /\ \A d \in Requests \ {c} : req'[d] = req[d]
    BY <1>0, <1>5 DEF CancelGather, TypeOK, CancelRequest
  <2>3. Reach' /\ \A d \in Requests : req[d].all \subseteq req'[d].all
    BY <1>0, <2>2 DEF Reach
  <2> QED
    BY <1>5, <2>1, <2>3, LoweredBusy DEF CancelGather
<1>6. ASSUME NEW r \in Runs, NEW t \in Threads, NEW isTemp \in BOOLEAN,
             NEW later \in BOOLEAN, NEW watched \in BOOLEAN,
             Insert(r, t, isTemp, later, watched),
             status' = [status EXCEPT ![r] = "pending"], req' = req
      PROVE  Result
  <2>1. /\ status[r] = "unborn" /\ thread' = [thread EXCEPT ![r] = t]
        /\ thStatus' = [thStatus EXCEPT ![t] = "busy"] /\ pc' = pc
    BY <1>6 DEF Insert, NextRow
  <2>2. status'[r] = "pending" /\ \A s \in Runs \ {r} : status'[s] = status[s]
    BY <1>0, <1>6 DEF TypeOK
  <2>3. Reach'
    BY <1>0, <1>6 DEF Reach
  <2>4. \A s \in Runs \ {r} : Lowers(s)
    BY <2>2 DEF Lowers
  <2> QED
    BY <1>6, <2>1, <2>2, <2>3, <2>4, InsertedBusy
<1>7. ASSUME NEW r \in Runs, NEW t \in Threads, NEW later \in BOOLEAN,
             NEW watched \in BOOLEAN, NEW strategy \in Strategies, NEW c \in Requests,
             CreateRunCancelling(r, t, strategy, later, watched, c)
      PROVE  Result
  <2> DEFINE rq == CancelCall(strategy, LiveOn(t), r)
  <2>1. /\ status[r] = "unborn" /\ thread' = [thread EXCEPT ![r] = t]
        /\ thStatus' = [thStatus EXCEPT ![t] = "busy"] /\ pc' = pc
    BY <1>7 DEF CreateRunCancelling, Insert, NextRow
  <2>2. /\ CancelBegin(c, rq) /\ strategy \in Cancelling
        /\ status' = [Marked(rq) EXCEPT ![r] = "pending"]
    BY <1>7 DEF CreateRunCancelling
  <2>3. /\ Reach' /\ \A d \in Requests : req[d].all \subseteq req'[d].all
        /\ \A s \in LiveOn(t) : ~Untouched(s)'
        /\ \A s \in Runs : Marked(rq)[s] = status[s] \/ s \in LiveOn(t)
    <3>1. LiveOn(t) \in SUBSET Runs /\ r \in Nat
      BY RunsAreNat DEF LiveOn
    <3> QED
      BY <2>2, <3>1, BeginReach
  <2> HIDE DEF rq
  <2>4. status'[r] = "pending" /\ \A s \in Runs \ {r} : status'[s] = Marked(rq)[s]
    BY <2>2 DEF Marked
  <2>5. \A s \in Runs \ {r} : Lowers(s)
    BY <2>4 DEF Marked, Interrupted, Eager, Lowers
  <2> QED
    BY <2>1, <2>3, <2>4, <2>5, InsertedBusy
<1>8. ASSUME NEW r \in Runs, DeleteRun(r) PROVE Result
  <2>1. \A s \in Runs : Lowers(s) /\ status'[s] \in {status[s], "gone"}
    BY <1>0, <1>8 DEF DeleteRun, InStore, TypeOK, Lowers
  <2>2. UNCHANGED <<thread, pc, req, thStatus>> /\ Reach'
    BY <1>0, <1>8 DEF DeleteRun, Reach
  <2> QED
    BY <2>1, <2>2, LoweredBusy
<1>9. ASSUME NEW r \in Runs, Join(r) \/ Detach(r) \/ Due(r) \/ Listener(r)
      PROVE  Result
  BY <1>1, <1>9 DEF Join, Detach, Due, Listener, ListenerStart, ListenerHears,
     ListenerLapses
<1>10. ASSUME NEW r \in Runs, NEW c \in Requests, NEW action \in Cancelling,
              CancelOne(c, r, action)
       PROVE  Result
  <2> DEFINE rq == CancelCall(action, {r}, 0)
  <2>1. CancelBegin(c, rq) /\ status' = Marked(rq)
        /\ UNCHANGED <<thread, pc, thStatus>>
    BY <1>10 DEF CancelOne
  <2>2. /\ Reach' /\ \A d \in Requests : req[d].all \subseteq req'[d].all
        /\ \A s \in {r} : ~Untouched(s)'
        /\ \A s \in Runs : Marked(rq)[s] = status[s] \/ s \in {r}
    <3>1. {r} \in SUBSET Runs /\ 0 \in Nat
      OBVIOUS
    <3> QED
      BY <2>1, <3>1, BeginReach
  <2> HIDE DEF rq
  <2>3. \A s \in Runs : Lowers(s)
    BY <2>1, MarkedLowers
  <2> QED
    BY <2>1, <2>2, <2>3, LoweredBusy
<1> QED
  BY <1>2, <1>3, <1>4, <1>5, <1>6, <1>7, <1>8, <1>9, <1>10, ZenonT(30)
  DEF ThreadRequest, CancelTask, RunRequest, Creation, CreateRun, CreateStateless

----------------------------------------------------------------------------
(* The scheduler and the worker.                                           *)

\* A step on run r that leaves the cancellations alone.
LEMMA WorkerBusy ==
    ASSUME BInv, NEW r \in Runs, OthersKept(r), req' = req,
           status[r] # "unborn",
           Untouched(r) /\ pc'[r] \in Owning => status'[r] \in {"running", "gone"},
           Untouched(r) /\ status'[r] \in Live => status[r] \in Live,
           \A t \in Threads :
               \/ thStatus'[t] \in {thStatus[t], "busy"}
               \/ \A s \in Runs : thread[s] = t => status'[s] \notin Live
    PROVE  Reach' /\ Placed' /\ Calm' /\ BusyCoversInflight'
<1>1. Reach'
  BY DEF BInv, Reach
<1>2. \A s \in Runs : Untouched(s)' <=> Untouched(s)
  BY DEF Untouched
<1>3. Placed'
  BY DEF BInv, Placed, OthersKept
<1>4. Calm'
  BY <1>2 DEF BInv, Calm, OthersKept
<1>5. BusyCoversInflight'
  <2> SUFFICES ASSUME NEW s \in Runs, status'[s] \in Live, Untouched(s)
               PROVE  thStatus'[thread'[s]] = "busy"
    BY <1>2 DEF BusyCoversInflight, Untouched
  <2>1. status[s] \in Live
    BY DEF OthersKept, Live
  <2>2. thStatus[thread[s]] = "busy" /\ thread[s] \in Threads /\ thread' = thread
    BY <2>1 DEF BInv, BusyCoversInflight, Untouched, Placed, Live, OthersKept
  <2> QED
    BY <2>2
<1> QED
  BY <1>1, <1>3, <1>4, <1>5

LEMMA BusyWorker ==
    ASSUME BInv, NEW r \in Runs, Claim(r) \/ Worker(r)
    PROVE  Reach' /\ Placed' /\ Calm' /\ BusyCoversInflight'
<1> DEFINE Result == Reach' /\ Placed' /\ Calm' /\ BusyCoversInflight'
<1>0. /\ TypeOK /\ Stage(r)
      /\ Untouched(r) /\ pc[r] \in Owning => status[r] \in {"running", "gone"}
      /\ Owning \cap {"none", "unthreaded", "closing"} = {}
      /\ Ended \subseteq Owning /\ Ended \cap Live = {}
  BY DEF BInv, IInv, Safe, Calm, Owning, Ended, Final, Live
<1>1. ASSUME Claim(r) PROVE Result
  <2>1. OthersKept(r) /\ req' = req /\ thStatus' = thStatus
        /\ status[r] = "pending" /\ status'[r] = "running"
    BY <1>0, <1>1 DEF Claim, TypeOK, OthersKept
  <2> QED
    BY <2>1, WorkerBusy DEF Live
<1>2. ASSUME Enter(r) \/ Start(r) \/ Close(r) PROVE Result
  <2>1. OthersKept(r) /\ UNCHANGED <<req, thStatus, status>>
    BY <1>0, <1>2 DEF Enter, Start, Close, TypeOK, OthersKept
  <2>2. pc[r] \in Owning \/ pc'[r] \notin Owning
    BY <1>0, <1>2 DEF Enter, Start, Close, TypeOK, Owning
  <2>3. status[r] # "unborn"
    BY <1>0, <1>2 DEF Enter, Start, Close, Stage
  <2> QED
    BY <1>0, <2>1, <2>2, <2>3, WorkerBusy
<1>3. ASSUME Execution(r) PROVE Result
  <2>1. pc[r] = "executing" /\ OthersKept(r) /\ UNCHANGED <<req, thStatus>>
        /\ status'[r] \in {status[r], "gone"}
    BY <1>0, <1>3 DEF Execution, GraphEnds, GraphInterrupted, GraphRolledBack, TypeOK,
       OthersKept
  <2>2. status[r] # "unborn" /\ pc[r] \in Owning
    BY <1>0, <2>1 DEF Stage, Owning
  <2> QED
    BY <1>0, <2>1, <2>2, WorkerBusy DEF Live
<1>4. ASSUME Retry(r) PROVE Result
  <2>1. /\ pc[r] = "retry" /\ pc'[r] = "none" /\ OthersKept(r)
        /\ UNCHANGED <<req, thStatus>>
        /\ status'[r] \in {status[r], "pending"}
        /\ status[r] = "gone" => status'[r] = "gone"
    BY <1>0, <1>4 DEF Retry, Abandon, Written, InStore, TypeOK, OthersKept
  <2>2. status[r] # "unborn" /\ pc[r] \in Owning
    BY <1>0, <2>1 DEF Stage, Owning
  <2> QED
    BY <1>0, <2>1, <2>2, WorkerBusy DEF Live
<1>5. ASSUME pc[r] \in Ended
      PROVE  /\ status[r] # "unborn"
             /\ Written(r, pc[r])[r] \in {pc[r], "gone"}
             /\ \A s \in Runs \ {r} : Written(r, pc[r])[s] = status[s]
  BY <1>0, <1>5 DEF Stage, Written, InStore, TypeOK
<1>6. ASSUME NEW hasNext \in BOOLEAN, Finish(r, hasNext) PROVE Result
  <2>1. /\ status' = Written(r, pc[r]) /\ pc[r] \in Ended /\ pc'[r] = "closing"
        /\ OthersKept(r) /\ req' = req
        /\ thStatus' = [thStatus EXCEPT ![thread[r]] = ThreadResult(r, status', hasNext)]
    BY <1>0, <1>5, <1>6 DEF Finish, Announce, TypeOK, OthersKept
  <2>2. ASSUME NEW t \in Threads
        PROVE  \/ thStatus'[t] \in {thStatus[t], "busy"}
               \/ \A s \in Runs : thread[s] = t => status'[s] \notin Live
    <3>1. CASE t # thread[r]
      BY <1>0, <2>1, <3>1 DEF TypeOK
    <3>2. CASE t = thread[r]
      <4>1. thStatus'[t] = ThreadResult(r, status', hasNext)
        BY <1>0, <2>1, <3>2 DEF TypeOK
      <4> QED
        BY <3>2, <4>1 DEF ThreadResult
    <3> QED
      BY <3>1, <3>2
  <2> QED
    BY <1>0, <1>5, <2>1, <2>2, WorkerBusy DEF Live
<1>7. ASSUME FinishUnthreaded(r) \/ FinishTemporaryLost(r) PROVE Result
  <2>1. /\ status' = Written(r, pc[r]) /\ pc[r] \in Ended
        /\ pc'[r] \in {"unthreaded", "none"} /\ UNCHANGED <<req, thStatus>>
    BY <1>0, <1>7 DEF FinishUnthreaded, FinishTemporaryLost, Abandon, TypeOK
  <2>2. OthersKept(r)
    BY <1>0, <1>5, <1>7, <2>1
    DEF FinishUnthreaded, FinishTemporaryLost, Abandon, TypeOK, OthersKept
  <2> QED
    BY <1>0, <1>5, <2>1, <2>2, WorkerBusy DEF Live
<1>8. ASSUME AnnounceUnthreaded(r) PROVE Result
  <2>1. pc[r] = "unthreaded" /\ pc'[r] = "closing" /\ OthersKept(r)
        /\ UNCHANGED <<req, thStatus, status>>
    BY <1>0, <1>8 DEF AnnounceUnthreaded, Announce, TypeOK, OthersKept
  <2>2. status[r] # "unborn"
    BY <1>0, <2>1 DEF Stage
  <2> QED
    BY <1>0, <2>1, <2>2, WorkerBusy
<1>9. ASSUME FinishTemporary(r) PROVE Result
  <2>1. /\ status' = Wiped(Written(r, pc[r]), thread[r]) /\ pc[r] \in Ended
        /\ pc'[r] = "closing" /\ req' = req /\ thread' = thread
        /\ thread[r] # NoThread
        /\ thStatus' = [thStatus EXCEPT ![thread[r]] = "none"]
    BY <1>0, <1>9 DEF FinishTemporary, Announce, TypeOK, Exists
  <2>2. \A s \in Runs :
            IF thread[s] = thread[r] THEN status'[s] = "gone"
            ELSE status'[s] = status[s]
    BY <1>5, <2>1 DEF Wiped
  <2>3. \A s \in Runs : thread[s] = thread[r] => status[s] # "unborn"
    BY <2>1 DEF BInv, IInv, Safe, Stage
  <2>4. OthersKept(r)
    BY <1>0, <1>9, <2>2, <2>3 DEF FinishTemporary, Announce, TypeOK, OthersKept
  <2>5. ASSUME NEW t \in Threads
        PROVE  \/ thStatus'[t] = thStatus[t]
               \/ \A s \in Runs : thread[s] = t => status'[s] = "gone"
    BY <1>0, <2>1, <2>2 DEF TypeOK
  <2> QED
    BY <1>0, <1>5, <2>1, <2>2, <2>4, <2>5, WorkerBusy DEF Live
<1> QED
  BY <1>1, <1>2, <1>3, <1>4, <1>6, <1>7, <1>8, <1>9 DEF Worker, Ending

LEMMA BusyStep == BInv /\ [Next]_vars => BInv'
<1> SUFFICES ASSUME BInv, [Next]_vars
             PROVE  Reach' /\ Placed' /\ Calm' /\ BusyCoversInflight'
  BY IInvStep DEF BInv
<1>1. CASE \/ \E t \in Threads : ThreadRequest(t)
           \/ \E c \in Requests : CancelTask(c)
           \/ \E r \in Runs : RunRequest(r) \/ Due(r) \/ Listener(r)
  BY <1>1, BusyRequest
<1>2. CASE \E r \in Runs : Claim(r) \/ Worker(r)
  BY <1>2, BusyWorker
<1>3. CASE UNCHANGED vars
  BY <1>3 DEF BInv, Reach, Placed, Calm, BusyCoversInflight, Untouched, vars
<1> QED
  BY <1>1, <1>2, <1>3 DEF Next

\* A thread with a run in flight shows "busy", whatever creations, workers,
\* deletions and cancellations of other runs wrote to it since.
THEOREM ThreadShowsBusy == Spec => []BusyCoversInflight
<1>1. BInv => BusyCoversInflight
  BY DEF BInv
<1> QED
  BY <1>1, BusyInit, BusyStep, PTL DEF Spec

=============================================================================
