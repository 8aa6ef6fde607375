-------------------------- MODULE RunStreamProofs --------------------------
(***************************************************************************)
(* Theorems about what becomes of a run on its way to a client: what a     *)
(* reader of its stream has got when it leaves (RunStream, which           *)
(* implements ChunkLog), what an attempt comes to (Execution), what a call *)
(* waits for (WaitResponse), what is published of a graph (Emission) and   *)
(* what calls are answered (Answers), for every number of readers, chunks, *)
(* retries, messages, events, calls, runs and versions.                    *)
(***************************************************************************)
EXTENDS MCRunStream, SequenceTheorems, TLAPS

USE DEF work, clients

\* What StreamManager.put does to the queues is well typed.
LEMMA PutTyped ==
    ASSUME queue \in [Readers -> Seq(0..MaxChunks)], NEW m \in 0..MaxChunks, Put(m)
    PROVE  queue' \in [Readers -> Seq(0..MaxChunks)]
<1>1. ASSUME NEW j \in Readers PROVE Append(queue[j], m) \in Seq(0..MaxChunks)
  OBVIOUS
<1> QED
  BY <1>1 DEF Put

LEMMA TypeInit == Init => TypeOK
<1> SUFFICES ASSUME Init PROVE TypeOK
  OBVIOUS
<1>1. queue \in [Readers -> Seq(0..MaxChunks)]
  BY DEF Init
<1>2. listed \in SUBSET Readers
  BY DEF Init, Readers
<1>3. reader \in [Readers -> Reader]
  BY DEF Init, Reader
<1>4. read \in [Readers -> 0..MaxChunks]
  BY BoundsAssumption DEF Init
<1>5. status \in Status /\ worker \in Worker /\ outcome \in Outcome
  BY DEF Init, Status, Live, Worker, Outcome
<1>6. attempt \in Nat /\ published \in 0..MaxChunks
  BY BoundsAssumption DEF Init
<1>7. done \in BOOLEAN /\ stopped \in BOOLEAN
  BY DEF Init
<1> QED
  BY <1>1, <1>2, <1>3, <1>4, <1>5, <1>6, <1>7 DEF TypeOK

\* The steps of the worker.
LEMMA TypeWorker == TypeOK /\ WorkerStep => TypeOK'
<1> SUFFICES ASSUME TypeOK, WorkerStep PROVE TypeOK'
  OBVIOUS
<1> USE BoundsAssumption DEF Status, Live, Worker, Outcome
<1>1. CASE Start
  BY <1>1 DEF TypeOK, Start
<1>2. CASE Publish
  <2>1. published' \in 0..MaxChunks
    BY <1>2 DEF Publish, TypeOK
  <2>2. queue' \in [Readers -> Seq(0..MaxChunks)]
    BY <1>2, <2>1, PutTyped DEF Publish, TypeOK
  <2> QED
    BY <1>2, <2>1, <2>2 DEF TypeOK, Publish
<1>3. ASSUME NEW how \in Outcome, End(how) PROVE TypeOK'
  BY <1>3 DEF TypeOK, End
<1>4. CASE RollBack
  BY <1>4 DEF TypeOK, RollBack
<1>5. CASE Write
  BY <1>5 DEF TypeOK, Write, Written
<1>6. CASE Announce
  <2>1. queue' \in [Readers -> Seq(0..MaxChunks)]
    BY <1>6, PutTyped DEF Announce, TypeOK, Done
  <2> QED
    BY <1>6, <2>1 DEF TypeOK, Announce
<1>7. CASE Vanish
  BY <1>7 DEF TypeOK, Vanish
<1> QED
  BY <1>1, <1>2, <1>3, <1>4, <1>5, <1>6, <1>7 DEF WorkerStep

LEMMA TypeNext == TypeOK /\ [Next]_vars => TypeOK'
<1> SUFFICES ASSUME TypeOK, [Next]_vars PROVE TypeOK'
  OBVIOUS
<1> USE BoundsAssumption DEF Status, Live, Reader
<1>1. CASE WorkerStep
  BY <1>1, TypeWorker
<1>2. CASE Cancel \/ Delete
  BY <1>2 DEF TypeOK, Cancel, Delete
<1>3. ASSUME NEW j \in Joiners, Join(j) PROVE TypeOK'
  <2>1. j \in Readers
    BY DEF Readers
  <2>2. queue' \in [Readers -> Seq(0..MaxChunks)]
    <3>1. <<>> \in Seq(0..MaxChunks) /\ <<Done>> \in Seq(0..MaxChunks)
      BY DEF Done
    <3> QED
      BY <1>3, <2>1, <3>1 DEF TypeOK, Join
  <2> QED
    BY <1>3, <2>1, <2>2 DEF TypeOK, Join
<1>4. ASSUME NEW j \in Readers, Receive(j) PROVE TypeOK'
  BY <1>4 DEF TypeOK, Receive
<1>5. ASSUME NEW j \in Readers, HearDone(j) \/ TimeOut(j) \/ Disconnect(j)
      PROVE  TypeOK'
  <2>1. PICK how \in {"left", "away"} : Quit(j, how)
    BY <1>5 DEF HearDone, TimeOut, Disconnect
  <2>2. queue' \in [Readers -> Seq(0..MaxChunks)]
    <3>1. <<>> \in Seq(0..MaxChunks)
      OBVIOUS
    <3> QED
      BY <2>1, <3>1 DEF TypeOK, Quit
  <2> QED
    BY <2>1, <2>2 DEF TypeOK, Quit
<1>6. CASE UNCHANGED vars
  BY <1>6 DEF TypeOK, vars
<1> QED
  BY <1>1, <1>2, <1>3, <1>4, <1>5, <1>6 DEF Next, Reading

\* Every variable keeps its type.
THEOREM TypeCorrect == Spec => []TypeOK
  BY TypeInit, TypeNext, PTL DEF Spec

----------------------------------------------------------------------------
(* The inductive invariant.  A run that nobody stopped is running exactly  *)
(* while its worker may publish, and a waiting reader's queue is what was  *)
(* published and not read yet, with "done" behind it once it was said.     *)

Stage ==
    /\ status = "pending" => worker = "none"
    /\ status = "running" => worker \in {"streaming", "ending"}
    /\ worker = "closing" => status \notin Live
    /\ done => status \notin Live /\ worker = "none"
    /\ ~stopped /\ worker \in {"streaming", "ending"} => status = "running"

\* Nothing is in a waiting reader's queue but the rest of the stream.
Backlog(j) ==
    /\ j \in listed
    /\ read[j] <= published
    /\ Len(queue[j]) = (published - read[j]) + (IF done THEN 1 ELSE 0)
    /\ \A i \in 1..(published - read[j]) : queue[j][i] = read[j] + i
    /\ done => queue[j][Len(queue[j])] = Done

Waiting == \A j \in Readers : reader[j] = "waiting" => Backlog(j)

\* Also the queues nobody reads any more hold "done" only when it was said.
DoneSaid ==
    \A j \in Readers : \A i \in 1..Len(queue[j]) : queue[j][i] = Done => done

\* Who left by itself has everything, and nothing will follow.
Complete ==
    \A j \in Readers :
        (reader[j] = "left" /\ ~stopped) => read[j] = published /\ status \notin Live

IInv == TypeOK /\ Stage /\ Waiting /\ DoneSaid /\ Complete

LEMMA InitInvariant == Init => IInv
<1> SUFFICES ASSUME Init PROVE IInv
  OBVIOUS
<1>1. Stage
  BY DEF Init, Stage, Live
<1>2. Waiting
  BY DEF Init, Waiting, Backlog
<1>3. DoneSaid /\ Complete
  BY DEF Init, DoneSaid, Complete
<1> QED
  BY <1>1, <1>2, <1>3, TypeInit DEF IInv

\* The status and the worker move together whatever the readers do.
LEMMA StageNext == TypeOK /\ Stage /\ [Next]_vars => Stage'
<1> SUFFICES ASSUME TypeOK, Stage, [Next]_vars PROVE Stage'
  OBVIOUS
<1> USE DEF Stage, Live
<1>1. CASE Start
  BY <1>1 DEF Start
<1>2. CASE Publish \/ \E how \in Outcome : End(how)
  BY <1>2 DEF Publish, End
<1>3. CASE RollBack \/ Write
  BY <1>3 DEF RollBack, Write, Written, TypeOK, Outcome
<1>4. CASE Announce \/ Vanish
  BY <1>4 DEF Announce, Vanish
<1>5. CASE Cancel \/ Delete
  BY <1>5 DEF Cancel, Delete
<1>6. CASE \/ \E j \in Joiners : Join(j)
           \/ \E j \in Readers : Reading(j) \/ Disconnect(j)
  BY <1>6 DEF Join, Reading, Receive, HearDone, TimeOut, Disconnect, Quit
<1>7. CASE UNCHANGED vars
  BY <1>7 DEF vars
<1> QED
  BY <1>1, <1>2, <1>3, <1>4, <1>5, <1>6, <1>7 DEF Next, WorkerStep

\* The two messages a worker puts into the queues keep what they hold.
LEMMA PublishKeeps ==
    IInv /\ Publish => Waiting' /\ DoneSaid'
<1> SUFFICES ASSUME IInv, Publish PROVE Waiting' /\ DoneSaid'
  OBVIOUS
<1>1. ~done /\ ~done' /\ published' = published + 1 /\ published \in Nat
  BY BoundsAssumption DEF IInv, Stage, Publish, TypeOK
<1>2. ASSUME NEW j \in Readers
      PROVE  /\ queue[j] \in Seq(0..MaxChunks)
             /\ queue'[j] = IF j \in listed THEN Append(queue[j], published')
                            ELSE queue[j]
  BY DEF IInv, TypeOK, Publish, Put
<1>3. ASSUME NEW j \in Readers, reader'[j] = "waiting" PROVE Backlog(j)'
  <2>1. Backlog(j) /\ read[j] \in Nat /\ read'[j] = read[j] /\ j \in listed'
    BY <1>3 DEF IInv, Waiting, Publish, Backlog, TypeOK
  <2>2. /\ Len(queue'[j]) = Len(queue[j]) + 1
        /\ \A i \in 1..Len(queue[j]) : queue'[j][i] = queue[j][i]
        /\ queue'[j][Len(queue[j]) + 1] = published'
    <3>1. published' \in 0..MaxChunks
      BY <1>1, BoundsAssumption DEF Publish
    <3>2. queue'[j] = Append(queue[j], published') /\ queue[j] \in Seq(0..MaxChunks)
      BY <1>2, <2>1 DEF Backlog
    <3> QED
      BY <3>1, <3>2, AppendProperties
  <2>3. Len(queue[j]) = published - read[j] /\ Len(queue[j]) \in Nat
    BY <1>1, <2>1 DEF Backlog
  <2>4. ASSUME NEW i \in 1..(published' - read[j]) PROVE queue'[j][i] = read[j] + i
    <3>1. CASE i \in 1..Len(queue[j])
      BY <2>1, <2>2, <2>3, <3>1 DEF Backlog
    <3>2. CASE i = Len(queue[j]) + 1
      BY <1>1, <2>1, <2>2, <2>3, <3>2
    <3> QED
      BY <1>1, <2>1, <2>3, <3>1, <3>2
  <2>5. read'[j] <= published' /\ Len(queue'[j]) = published' - read'[j]
    BY <1>1, <2>1, <2>2, <2>3 DEF Backlog
  <2> QED
    BY <1>1, <2>1, <2>4, <2>5 DEF Backlog
<1>4. DoneSaid'
  <2> SUFFICES ASSUME NEW j \in Readers, NEW i \in 1..Len(queue'[j]),
                      queue'[j][i] = Done
               PROVE  FALSE
    BY DEF DoneSaid
  <2>1. i \in 1..Len(queue[j]) => queue[j][i] # Done
    BY <1>1 DEF IInv, DoneSaid
  <2>2. CASE j \in listed
    <3>1. queue'[j] = Append(queue[j], published')
      BY <1>2, <2>2
    <3>2. published' \in 0..MaxChunks /\ published' # Done
      BY <1>1, BoundsAssumption DEF Publish, IInv, TypeOK, Done
    <3>3. /\ Len(queue'[j]) = Len(queue[j]) + 1 /\ Len(queue[j]) \in Nat
          /\ \A k \in 1..Len(queue[j]) : queue'[j][k] = queue[j][k]
          /\ queue'[j][Len(queue[j]) + 1] = published'
      BY <1>2, <3>1, <3>2, AppendProperties
    <3> QED
      BY <2>1, <3>2, <3>3
  <2> QED
    BY <1>2, <2>1, <2>2
<1> QED
  BY <1>3, <1>4 DEF Waiting

LEMMA AnnounceKeeps ==
    IInv /\ Announce => Waiting' /\ DoneSaid'
<1> SUFFICES ASSUME IInv, Announce PROVE Waiting' /\ DoneSaid'
  OBVIOUS
<1>1. ~done /\ done' /\ published' = published /\ published \in Nat
  BY BoundsAssumption DEF IInv, Stage, Announce, TypeOK
<1>2. ASSUME NEW j \in Readers, reader'[j] = "waiting" PROVE Backlog(j)'
  <2>1. Backlog(j) /\ read[j] \in Nat /\ read'[j] = read[j] /\ j \in listed'
    BY <1>2 DEF IInv, Waiting, Announce, Backlog, TypeOK
  <2>2. queue'[j] = Append(queue[j], Done) /\ queue[j] \in Seq(0..MaxChunks)
    BY <2>1 DEF IInv, TypeOK, Announce, Put, Backlog
  <2> QED
    BY <1>1, <2>1, <2>2 DEF Backlog
<1> QED
  BY <1>1, <1>2 DEF Waiting, DoneSaid

\* What a waiting reader finds at the head of its queue.
LEMMA HeadIsNext ==
    ASSUME IInv, NEW j \in Readers, reader[j] = "waiting"
    PROVE  /\ queue[j] = <<>> => read[j] = published
           /\ queue[j] # <<>> /\ Head(queue[j]) = Done => read[j] = published /\ done
           /\ queue[j] # <<>> /\ Head(queue[j]) # Done =>
                 Head(queue[j]) = read[j] + 1 /\ read[j] < published
<1>1. Backlog(j) /\ read[j] \in Nat /\ published \in Nat
  BY BoundsAssumption DEF IInv, Waiting, TypeOK
<1>2. queue[j] \in Seq(0..MaxChunks)
  BY DEF IInv, TypeOK
<1>3. queue[j] # <<>> => Len(queue[j]) \in Nat \ {0} /\ Head(queue[j]) = queue[j][1]
  BY <1>2
<1>4. CASE read[j] = published
  BY <1>1, <1>2, <1>3, <1>4 DEF Backlog
<1>5. CASE read[j] < published
  <2>1. queue[j][1] = read[j] + 1 /\ Len(queue[j]) > 0
    BY <1>1, <1>5 DEF Backlog
  <2> QED
    BY <1>1, <1>2, <1>3, <1>5, <2>1 DEF Done
<1> QED
  BY <1>1, <1>4, <1>5 DEF Backlog

\* The readers' own steps change one queue and its reader at a time.
LEMMA ReaderKeeps ==
    ASSUME IInv, NEW j \in Readers,
           Receive(j) \/ HearDone(j) \/ TimeOut(j) \/ Disconnect(j)
    PROVE  Waiting' /\ DoneSaid' /\ Complete'
<1>1. TypeOK /\ reader[j] = "waiting" /\ queue[j] \in Seq(0..MaxChunks)
  BY DEF IInv, TypeOK, Receive, HearDone, TimeOut, Disconnect
<1>2. done' = done /\ published' = published /\ status' = status /\ stopped' = stopped
  BY DEF Receive, HearDone, TimeOut, Disconnect, Quit
<1>3. CASE Receive(j)
  <2>1. /\ queue' = [queue EXCEPT ![j] = Tail(queue[j])]
        /\ read' = [read EXCEPT ![j] = read[j] + 1]
        /\ read[j] < published /\ queue[j] # <<>>
        /\ listed' = listed /\ reader' = reader
    BY <1>1, <1>3, HeadIsNext DEF Receive
  <2>2. queue'[j] = Tail(queue[j]) /\ read'[j] = read[j] + 1
    BY <1>1, <2>1 DEF TypeOK
  <2>3. /\ Len(queue'[j]) = Len(queue[j]) - 1
        /\ \A i \in 1..Len(queue'[j]) : queue'[j][i] = queue[j][i + 1]
    BY <1>1, <2>1, <2>2, HeadTailProperties, ZenonT(30)
  <2>4. Len(queue[j]) \in Nat /\ read[j] \in Nat /\ published \in Nat
    BY <1>1, BoundsAssumption DEF TypeOK
  <2>5. Backlog(j)
    BY <1>1 DEF IInv, Waiting
  <2>6. Backlog(j)'
    <3>1. Len(queue'[j]) = (published - read'[j]) + (IF done THEN 1 ELSE 0)
      BY <2>2, <2>3, <2>4, <2>5 DEF Backlog
    <3>2. ASSUME NEW i \in 1..(published - read'[j])
          PROVE  queue'[j][i] = read'[j] + i
      <4>1. i \in 1..Len(queue'[j]) /\ i + 1 \in 1..(published - read[j])
        BY <2>1, <2>2, <2>4, <3>1
      <4>2. queue'[j][i] = queue[j][i + 1]
        BY <2>3, <4>1
      <4>3. queue[j][i + 1] = read[j] + (i + 1)
        BY <2>5, <4>1 DEF Backlog
      <4>4. i \in Int
        BY <2>1, <2>2, <2>4
      <4>5. read[j] + (i + 1) = read'[j] + i
        BY <2>2, <2>4, <4>4
      <4> QED
        BY <4>2, <4>3, <4>5
    <3>3. done => queue'[j][Len(queue'[j])] = Done
      <4> SUFFICES ASSUME done PROVE queue'[j][Len(queue'[j])] = Done
        OBVIOUS
      <4>1. Len(queue'[j]) \in 1..Len(queue'[j]) /\ Len(queue'[j]) + 1 = Len(queue[j])
        BY <2>1, <2>2, <2>3, <2>4, <3>1
      <4>2. queue'[j][Len(queue'[j])] = queue[j][Len(queue[j])]
        BY <2>3, <4>1
      <4> QED
        BY <2>5, <4>2 DEF Backlog
    <3> QED
      BY <1>2, <2>1, <2>2, <2>4, <2>5, <3>1, <3>2, <3>3 DEF Backlog
  <2>7. ASSUME NEW k \in Readers, k # j
        PROVE  queue'[k] = queue[k] /\ read'[k] = read[k] /\ reader'[k] = reader[k]
    BY <1>1, <2>1, <2>7 DEF TypeOK
  <2>8. ASSUME NEW k \in Readers, reader'[k] = "waiting" PROVE Backlog(k)'
    <3>1. CASE k # j
      <4>1. Backlog(k)
        BY <2>1, <2>8 DEF IInv, Waiting
      <4> QED
        BY <1>2, <2>1, <2>7, <3>1, <4>1 DEF Backlog
    <3> QED
      BY <2>6, <3>1
  <2>9. DoneSaid'
    <3>1. ASSUME NEW i \in 1..Len(queue'[j]), queue'[j][i] = Done PROVE done
      <4>1. i + 1 \in 1..Len(queue[j]) /\ queue[j][i + 1] = Done
        BY <2>3, <2>4, <3>1
      <4> QED
        BY <4>1 DEF IInv, DoneSaid
    <3>2. ASSUME NEW k \in Readers, k # j, NEW i \in 1..Len(queue'[k]),
                 queue'[k][i] = Done
          PROVE  done
      BY <2>7, <3>2 DEF IInv, DoneSaid
    <3> QED
      BY <1>2, <3>1, <3>2 DEF DoneSaid
  <2>10. Complete'
    BY <1>1, <1>2, <2>1, <2>7 DEF IInv, Complete
  <2> QED
    BY <2>8, <2>9, <2>10 DEF Waiting
<1>4. CASE HearDone(j) \/ TimeOut(j) \/ Disconnect(j)
  <2>1. PICK how \in {"left", "away"} :
           /\ Quit(j, how)
           /\ how = "left" => read[j] = published /\ status \notin Live
    BY <1>1, <1>4, HeadIsNext DEF HearDone, TimeOut, Disconnect, IInv, Stage
  <2>2. /\ reader'[j] = how /\ read' = read
        /\ queue'[j] = queue[j] \/ queue'[j] = <<>>
    BY <1>1, <2>1 DEF Quit, TypeOK
  <2>3. ASSUME NEW k \in Readers, k # j
        PROVE  /\ queue'[k] = queue[k] /\ reader'[k] = reader[k]
               /\ k \in listed => k \in listed'
    BY <1>1, <2>1, <2>3 DEF Quit, TypeOK
  <2>4. Waiting'
    BY <1>2, <2>2, <2>3 DEF IInv, Waiting, Backlog
  <2>5. DoneSaid'
    BY <1>2, <2>2, <2>3 DEF IInv, DoneSaid
  <2>6. Complete'
    BY <1>2, <2>1, <2>2, <2>3 DEF IInv, Complete
  <2> QED
    BY <2>4, <2>5, <2>6
<1> QED
  BY <1>3, <1>4

\* A reader that subscribes has read what was published before.
LEMMA JoinKeeps ==
    ASSUME IInv, NEW j \in Joiners, Join(j)
    PROVE  Waiting' /\ DoneSaid' /\ Complete'
<1>1. TypeOK /\ j \in Readers /\ published \in Nat
  BY BoundsAssumption DEF IInv, TypeOK, Readers
<1>2. /\ done' = done /\ published' = published /\ status' = status
      /\ stopped' = stopped
  BY DEF Join
<1>3. /\ queue'[j] = (IF done THEN <<Done>> ELSE <<>>)
      /\ read'[j] = published /\ reader'[j] = "waiting" /\ j \in listed'
  BY <1>1 DEF Join, TypeOK
<1>4. ASSUME NEW k \in Readers, k # j
      PROVE  /\ queue'[k] = queue[k] /\ read'[k] = read[k] /\ reader'[k] = reader[k]
             /\ k \in listed => k \in listed'
  BY <1>1, <1>4 DEF Join, TypeOK
<1>5. Backlog(j)'
  BY <1>1, <1>2, <1>3 DEF Backlog
<1>6. Waiting'
  BY <1>2, <1>4, <1>5 DEF IInv, Waiting, Backlog
<1>7. DoneSaid'
  BY <1>2, <1>3, <1>4 DEF IInv, DoneSaid
<1>8. Complete'
  BY <1>2, <1>3, <1>4 DEF IInv, Complete
<1> QED
  BY <1>6, <1>7, <1>8

LEMMA Invariance == IInv /\ [Next]_vars => IInv'
<1> SUFFICES ASSUME IInv, [Next]_vars PROVE Waiting' /\ DoneSaid' /\ Complete'
  BY TypeNext, StageNext DEF IInv
<1>1. CASE Publish
  <2>1. Complete'
    BY <1>1 DEF IInv, Stage, Complete, Publish, Live
  <2> QED
    BY <1>1, <2>1, PublishKeeps
<1>2. CASE Announce
  <2>1. Complete'
    BY <1>2 DEF IInv, Complete, Announce
  <2> QED
    BY <1>2, <2>1, AnnounceKeeps
<1>3. CASE Start \/ RollBack \/ Write \/ Vanish \/ \E how \in Outcome : End(how)
  <2>1. UNCHANGED <<published, done, clients, stopped>>
    BY <1>3 DEF Start, RollBack, Write, Vanish, End
  <2>2. ~stopped /\ status \notin Live => status' = status
    BY <1>3 DEF IInv, Stage, Live, Start, RollBack, Write, Vanish, End
  <2> QED
    BY <2>1, <2>2 DEF IInv, Waiting, Backlog, DoneSaid, Complete
<1>4. CASE Cancel \/ Delete
  BY <1>4 DEF IInv, Waiting, Backlog, DoneSaid, Complete, Cancel, Delete
<1>5. ASSUME NEW j \in Joiners, Join(j) PROVE Waiting' /\ DoneSaid' /\ Complete'
  BY <1>5, JoinKeeps
<1>6. ASSUME NEW j \in Readers, Reading(j) \/ Disconnect(j)
      PROVE  Waiting' /\ DoneSaid' /\ Complete'
  BY <1>6, ReaderKeeps DEF Reading
<1>7. CASE UNCHANGED vars
  BY <1>7 DEF IInv, Waiting, Backlog, DoneSaid, Complete, vars
<1> QED
  BY <1>1, <1>2, <1>3, <1>4, <1>5, <1>6, <1>7 DEF Next, WorkerStep

LEMMA InvariantHolds == Spec => []IInv
  BY InitInvariant, Invariance, PTL DEF Spec

\* A reader that left by itself has got every chunk since it subscribed, over
\* all retries, and no chunk follows; unless the run was stopped.
THEOREM NothingIsMissed == Spec => []LeavesWithEverything
<1>1. IInv => LeavesWithEverything
  BY DEF IInv, TypeOK, LeavesWithEverything, Complete, Stage, Worker, Live
<1> QED
  BY <1>1, InvariantHolds, PTL

\* "done" reaches a reader only when the run has left the queue for good.
THEOREM DoneIsNeverEarly == Spec => []DoneIsTrue
<1>1. IInv => DoneIsTrue
  BY DEF IInv, DoneIsTrue, DoneSaid, Stage
<1> QED
  BY <1>1, InvariantHolds, PTL

\* A waiting reader gets the chunks one after the other.
THEOREM ChunksInOrder == Spec => NoGap
<1> DEFINE Step == \A j \in Readers :
              reader[j] = "waiting" => read'[j] \in {read[j], read[j] + 1}
<1>1. IInv /\ [Next]_vars => [Step]_vars
  <2> SUFFICES ASSUME IInv, Next, NEW j \in Readers, reader[j] = "waiting"
               PROVE  read'[j] \in {read[j], read[j] + 1}
    OBVIOUS
  <2>1. CASE WorkerStep \/ Cancel \/ Delete
    BY <2>1 DEF WorkerStep, Start, Publish, End, RollBack, Write, Announce, Vanish, Cancel,
      Delete
  <2>2. ASSUME NEW k \in Joiners, Join(k) PROVE read'[j] = read[j]
    BY <2>2 DEF Join, IInv, TypeOK
  <2>3. ASSUME NEW k \in Readers, Receive(k) PROVE read'[j] \in {read[j], read[j] + 1}
    BY <2>3, HeadIsNext DEF Receive, IInv, TypeOK
  <2>4. ASSUME NEW k \in Readers, HearDone(k) \/ TimeOut(k) \/ Disconnect(k)
        PROVE  read'[j] = read[j]
    BY <2>4 DEF HearDone, TimeOut, Disconnect, Quit
  <2> QED
    BY <2>1, <2>2, <2>3, <2>4 DEF Next, Reading
<1> QED
  BY <1>1, InvariantHolds, PTL DEF Spec, NoGap


----------------------------------------------------------------------------
(* The refinement of ChunkLog.  Steps of the worker that write no end, and *)
(* "done", are not seen in the log; that a reader has the whole log when   *)
(* it leaves is what the invariant says of its queue.                      *)

\* A log that is closed stays closed.
LEMMA SettledStays == IInv /\ [Next]_vars => (Settled => Settled')
<1> SUFFICES ASSUME IInv, Next, Settled PROVE Settled'
  BY DEF vars, Settled
<1>1. status \notin Live /\ worker \in {"closing", "none"}
  BY DEF Settled
<1>2. CASE WorkerStep
  BY <1>1, <1>2 DEF Settled, Live, WorkerStep, Start, Publish, End, RollBack, Write, Announce,
     Vanish
<1>3. CASE Cancel \/ Delete
  BY <1>1, <1>3 DEF Settled, Live, Cancel, Delete
<1>4. CASE \E j \in Joiners : Join(j)
  BY <1>1, <1>4 DEF Settled, Join, work
<1>5. CASE \E j \in Readers : Reading(j) \/ Disconnect(j)
  BY <1>1, <1>5 DEF Settled, Reading, Receive, HearDone, TimeOut, Disconnect, Quit, work
<1> QED BY <1>2, <1>3, <1>4, <1>5 DEF Next

\* What a reader sees when it leaves by itself.
LEMMA LeavesAtTheEnd ==
    ASSUME IInv, NEW j \in Readers, HearDone(j) \/ TimeOut(j)
    PROVE  read[j] = published /\ (Settled \/ stopped)
<1>1. TypeOK /\ Stage /\ reader[j] = "waiting"
  BY DEF IInv, HearDone, TimeOut
<1>2. CASE HearDone(j)
  <2>1. read[j] = published /\ done
    BY <1>1, <1>2, HeadIsNext DEF HearDone
  <2> QED BY <1>1, <2>1 DEF Stage, Settled
<1>3. CASE TimeOut(j)
  <2>1. read[j] = published /\ status \notin Live
    BY <1>1, <1>3, HeadIsNext DEF TimeOut
  <2> QED BY <1>1, <2>1 DEF Settled, Stage, TypeOK, Worker, Live
<1> QED BY <1>2, <1>3

LEMMA InitMaps == Init => Log!Init
  BY DEF Init, Log!Init, Settled, Live, PlaceOf

\* Where the readers stand, after one of them has moved.
LEMMA PlaceMoves ==
    ASSUME TypeOK, NEW j \in Readers, NEW how \in {"waiting", "left", "away"},
           reader' = [reader EXCEPT ![j] = how]
    PROVE  PlaceOf' = [PlaceOf EXCEPT ![j] = IF how = "waiting" THEN "reading" ELSE how]
  BY DEF TypeOK, PlaceOf

LEMMA StepMaps == IInv /\ [Next]_vars => [Log!Next]_(Log!lvars)
<1> SUFFICES ASSUME IInv, [Next]_vars PROVE [Log!Next]_(Log!lvars)
  OBVIOUS
<1>1. TypeOK /\ Stage /\ Waiting /\ (Settled => Settled')
  BY SettledStays DEF IInv
<1>2. published \in Nat /\ read \in [Readers -> Nat] /\ Settled \in BOOLEAN
  BY <1>1, BoundsAssumption DEF TypeOK, Settled
<1>3. ASSUME UNCHANGED <<published, clients, stopped>> PROVE [Log!Next]_(Log!lvars)
  <2>1. UNCHANGED <<published, stopped, PlaceOf, read>>
    BY <1>3 DEF clients, PlaceOf
  <2>2. CASE Settled' = Settled
    BY <2>1, <2>2 DEF Log!lvars
  <2>3. CASE Settled' # Settled
    <3>1. Settled'
      BY <1>1, <1>2, <2>3 DEF Settled
    <3> QED BY <2>1, <3>1 DEF Log!Next, Log!Close
  <2> QED BY <2>2, <2>3
<1>4. CASE Publish
  <2>1. /\ published' = published + 1 /\ UNCHANGED <<status, worker, reader, read, stopped>>
        /\ worker = "streaming"
    BY <1>4 DEF Publish, work
  <2>2. ~Settled /\ Settled' = Settled /\ UNCHANGED PlaceOf
    BY <2>1 DEF Settled, PlaceOf
  <2> QED BY <2>1, <2>2 DEF Log!Next, Log!Add
<1>5. CASE Announce
  <2>1. UNCHANGED <<status, published, reader, read, stopped>> /\ worker = "closing" /\ worker' = "none"
    BY <1>5 DEF Announce
  <2>2. Settled' = Settled /\ UNCHANGED PlaceOf
    BY <2>1 DEF Settled, PlaceOf
  <2> QED BY <2>1, <2>2 DEF Log!lvars
<1>6. CASE Start \/ RollBack \/ Write \/ Vanish \/ \E how \in Outcome : End(how)
  BY <1>3, <1>6 DEF Start, RollBack, Write, Vanish, End
<1>7. CASE Cancel \/ Delete
  <2>1. stopped' /\ UNCHANGED <<published, reader, read>>
    BY <1>7 DEF Cancel, Delete, clients
  <2>2. Settled' \in {Settled, TRUE} /\ UNCHANGED PlaceOf
    BY <1>1, <2>1 DEF Settled, PlaceOf
  <2> QED BY <2>1, <2>2 DEF Log!Next, Log!Halt
<1>8. ASSUME NEW j \in Joiners, Join(j) PROVE [Log!Next]_(Log!lvars)
  <2>1. /\ j \in Readers /\ reader[j] = "new" /\ reader' = [reader EXCEPT ![j] = "waiting"]
        /\ read' = [read EXCEPT ![j] = published]
        /\ UNCHANGED <<status, worker, published, stopped>>
    BY <1>8 DEF Join, work, Readers
  <2>2. PlaceOf' = [PlaceOf EXCEPT ![j] = "reading"] /\ PlaceOf[j] = "new" /\ Settled' = Settled
    BY <1>1, <2>1, PlaceMoves DEF PlaceOf, Settled
  <2>3. Log!Subscribe(j)
    BY <2>1, <2>2 DEF Log!Subscribe
  <2> QED BY <2>1, <2>3 DEF Log!Next
<1>9. ASSUME NEW j \in Readers, Receive(j) PROVE [Log!Next]_(Log!lvars)
  <2>1. /\ reader[j] = "waiting" /\ read' = [read EXCEPT ![j] = Head(queue[j])]
        /\ queue[j] # <<>> /\ Head(queue[j]) # Done
        /\ UNCHANGED <<status, worker, reader, published, stopped>>
    BY <1>9 DEF Receive, work
  <2>2. Head(queue[j]) = read[j] + 1 /\ read[j] < published
    BY <2>1, HeadIsNext DEF IInv
  <2>3. PlaceOf[j] = "reading" /\ UNCHANGED PlaceOf /\ Settled' = Settled
    BY <2>1 DEF PlaceOf, Settled
  <2>4. Log!Take(j)
    BY <2>1, <2>2, <2>3 DEF Log!Take
  <2> QED BY <2>4 DEF Log!Next
<1>10. ASSUME NEW j \in Readers, HearDone(j) \/ TimeOut(j) PROVE [Log!Next]_(Log!lvars)
  <2>1. /\ reader[j] = "waiting" /\ reader' = [reader EXCEPT ![j] = "left"]
        /\ UNCHANGED <<status, worker, published, read, stopped>>
    BY <1>10 DEF HearDone, TimeOut, Quit, work
  <2>2. PlaceOf' = [PlaceOf EXCEPT ![j] = "left"] /\ PlaceOf[j] = "reading" /\ Settled' = Settled
    BY <1>1, <2>1, PlaceMoves DEF PlaceOf, Settled
  <2>3. Log!Leave(j)
    BY <1>10, <2>1, <2>2, LeavesAtTheEnd DEF Log!Leave
  <2> QED BY <2>3 DEF Log!Next
<1>11. ASSUME NEW j \in Readers, Disconnect(j) PROVE [Log!Next]_(Log!lvars)
  <2>1. /\ reader[j] = "waiting" /\ reader' = [reader EXCEPT ![j] = "away"]
        /\ UNCHANGED <<status, worker, published, read, stopped>>
    BY <1>11 DEF Disconnect, Quit, work
  <2>2. PlaceOf' = [PlaceOf EXCEPT ![j] = "away"] /\ PlaceOf[j] = "reading" /\ Settled' = Settled
    BY <1>1, <2>1, PlaceMoves DEF PlaceOf, Settled
  <2> QED BY <2>1, <2>2 DEF Log!Next, Log!Disconnect
<1>12. CASE UNCHANGED vars
  BY <1>3, <1>12 DEF vars, clients
<1> QED
  BY <1>4, <1>5, <1>6, <1>7, <1>8, <1>9, <1>10, <1>11, <1>12 DEF Next, WorkerStep, Reading

\* The queues implement a log in which each reader has a position: it begins at
\* the end, takes the chunks of all attempts one by one, and when it leaves by
\* itself it has them all and none follows, or somebody stopped the run.
THEOREM ImplementsLog == Spec => ReadsTheLog
<1>1. Init /\ [][Next]_vars => [][Log!Next]_(Log!lvars)
  BY InvariantHolds, StepMaps, PTL DEF Spec
<1> QED
  BY <1>1, InitMaps, PTL DEF Spec, ReadsTheLog, Log!Spec

----------------------------------------------------------------------------
(* An attempt (Execution).                                                 *)

\* The context of a graph is open from the metadata on until it is left, and one
\* nobody leaves has never been asked for anything.
Opened ==
    /\ at \in {"start", "resolving"} => resource = "none"
    /\ at = "telling" => resource \in {"none", "open"}
    /\ at \in {"waiting", "publishing", "closing", "unwinding"} => resource = "open"
    /\ at \in {"asking", "giving"} => resource = "closed"
    /\ at = "over" => resource # "open"
    /\ at \in {"start", "resolving", "telling"} \/ resource \in {"none", "left"} =>
          yielded = 0 /\ ~exhausted

\* Without an exception under way nothing is missing.
Going ==
    /\ told \in {yielded, yielded - 1}
    /\ at = "publishing" => yielded = told + 1
    /\ raised = "none" => last # "error" /\ (at = "publishing" \/ yielded = told)
    /\ raised = "none" => at \notin {"reporting", "unwinding"}
    /\ raised = "none" \/ at \in {"closing", "reporting", "unwinding", "over"}
    /\ raised = "none" /\ at \in {"closing", "asking", "giving", "over"} => exhausted
    /\ raised = "none" /\ at = "over" /\ keyed => last = "feedback"

\* An exception has a cause, and was published unless a cancellation came before.
Caused ==
    /\ raised \in {"interrupt", "rollback"} => signal = raised
    /\ at = "unwinding" => last = "error" \/ expired \/ stopping
    /\ at = "over" /\ raised \notin {"none", "cancelled"} =>
          last = "error" \/ expired \/ stopping \/ number > MaxAttempts

AttemptInv == X!TypeOK /\ Opened /\ Going /\ Caused

LEMMA AttemptStart == X!Init => AttemptInv
<1> SUFFICES ASSUME X!Init PROVE AttemptInv
  OBVIOUS
<1>1. X!TypeOK
  <2>1. graph \in X!Graphs /\ number \in 1..(MaxAttempts + 1) /\ keyed \in BOOLEAN
    BY DEF X!Init
  <2>2. yielded \in 0..MaxChunks /\ told \in 0..MaxChunks
    BY ExecutionAssumed DEF X!ExecutionAssumption, X!Init
  <2>3. /\ expired \in BOOLEAN /\ stopping \in BOOLEAN /\ exhausted \in BOOLEAN
        /\ raised \in X!Failures \cup {"none", "interrupt", "rollback", "cancelled"}
    BY DEF X!Init
  <2> QED BY <2>1, <2>2, <2>3 DEF X!Init, X!TypeOK
<1>2. Opened
  BY DEF X!Init, Opened
<1>3. Going
  BY DEF X!Init, Going
<1>4. Caused
  BY DEF X!Init, Caused
<1> QED BY <1>1, <1>2, <1>3, <1>4 DEF AttemptInv

LEMMA AttemptStep ==
    ASSUME AttemptInv, [X!Next]_(X!vars)
    PROVE  AttemptInv'
<1> USE ExecutionAssumed
    DEF X!ExecutionAssumption, AttemptInv, X!TypeOK, Opened, Going, Caused, X!Failures,
        X!given, X!events, X!At, X!Over
<1>1. CASE X!Begin
  BY <1>1 DEF X!Begin
<1>2. CASE X!ResolveFails
  BY <1>2 DEF X!ResolveFails
<1>3. CASE X!ResolveInvalid
  BY <1>3 DEF X!ResolveInvalid
<1>4. CASE X!Resolve
  BY <1>4 DEF X!Resolve
<1>5. CASE X!MapFails
  BY <1>5 DEF X!MapFails
<1>6. CASE X!Tell
  BY <1>6 DEF X!Tell
<1>7. CASE X!Chunk
  BY <1>7 DEF X!Chunk
<1>8. CASE X!Exhaust
  BY <1>8 DEF X!Exhaust
<1>9. CASE X!GraphFails
  BY <1>9 DEF X!GraphFails
<1>10. CASE X!Heed
  BY <1>10 DEF X!Heed
<1>11. CASE X!Publish
  BY <1>11 DEF X!Publish
<1>12. CASE X!PublishFails
  BY <1>12 DEF X!PublishFails
<1>13. CASE X!Close
  BY <1>13 DEF X!Close, X!Closed, X!Report, X!Left
<1>14. CASE X!CloseFails
  BY <1>14 DEF X!CloseFails, X!Closed, X!Report, X!Left
<1>15. CASE X!Give
  BY <1>15 DEF X!Give
<1>16. CASE X!Tells
  BY <1>16 DEF X!Tells
<1>17. CASE X!Unwind
  BY <1>17 DEF X!Unwind, X!Left
<1>18. CASE X!Collect
  BY <1>18 DEF X!Collect
<1>19. ASSUME NEW e \in X!Failures \cup {"none"}, X!Ask(e) PROVE AttemptInv'
  BY <1>19 DEF X!Ask
<1>20. ASSUME NEW what \in {"interrupt", "rollback"}, X!Signal(what) PROVE AttemptInv'
  BY <1>20 DEF X!Signal
<1>21. CASE X!Expire
  BY <1>21 DEF X!Expire, X!Cancelled
<1>22. CASE X!Stop
  BY <1>22 DEF X!Stop, X!Cancelled
<1>23. CASE UNCHANGED X!vars
  BY <1>23 DEF X!vars
<1> HIDE DEF AttemptInv
<1> QED
  BY <1>1, <1>2, <1>3, <1>4, <1>5, <1>6, <1>7, <1>8, <1>9, <1>10, <1>11, <1>12, <1>13,
     <1>14, <1>15, <1>16, <1>17, <1>18, <1>19, <1>20, <1>21, <1>22, <1>23 DEF X!Next

\* The status an attempt ends with says what happened: a success was streamed to its
\* end, an interrupt and a rollback were asked for, and whoever streams the run hears
\* of any other end (worker.py, stream.py).
THEOREM OutcomesAreTrue == MCSpec => []OutcomeIsTrue
<1>1. MCInit => AttemptInv
  BY AttemptStart DEF MCInit
<1>2. [MCNext]_allVars => [X!Next]_(X!vars)
  BY DEF MCNext, allVars, attempts, X!vars, X!given, X!events
<1>3. AttemptInv => OutcomeIsTrue
  BY DEF AttemptInv, X!TypeOK, Going, Caused, OutcomeIsTrue, X!OutcomeIsTrue, X!Status,
     X!Classify, X!SuccessIsComplete, X!SignalsObeyed, X!FailuresTold, X!Failures
<1> QED BY <1>1, <1>2, <1>3, AttemptStep, PTL DEF MCSpec

\* The context of a graph is there while the graph is used and is given back before the
\* status is written, whatever fails on the way (get_graph, astream_state, consume).
THEOREM GraphsAreReleased == MCSpec => []Released
<1>1. MCInit => AttemptInv
  BY AttemptStart DEF MCInit
<1>2. [MCNext]_allVars => [X!Next]_(X!vars)
  BY DEF MCNext, allVars, attempts, X!vars, X!given, X!events
<1>3. AttemptInv => Released
  BY DEF AttemptInv, X!TypeOK, Opened, Released, X!Released
<1> QED BY <1>1, <1>2, <1>3, AttemptStep, PTL DEF MCSpec

----------------------------------------------------------------------------
(* A call that waits (WaitResponse).                                       *)

\* What wakes the body is a result.
WaitTypes ==
    /\ value \in W!Result \cup {"unset"}
    /\ woken \in W!Result \cup {"no"}
    /\ body \in {"waiting", "beating", "answered", "gone"}
    /\ consumer \in {"reading", "ended", "failed", "cancelled"}
    /\ late \in BOOLEAN

\* The event is set when the task has ended, and late when a newline was being sent then;
\* the task is cancelled when the client has left.
SetAtTheEnd ==
    /\ value # "unset" <=> consumer = "ended"
    /\ body = "beating" => woken = "no" /\ (consumer = "ended" => late)
    /\ consumer = "cancelled" => body = "gone"

WaitInv == WaitTypes /\ SetAtTheEnd /\ W!NotForgotten

LEMMA WaitStep == WaitInv /\ [W!Next]_(W!vars) => WaitInv'
<1> SUFFICES ASSUME WaitInv, [W!Next]_(W!vars) PROVE WaitInv'
  OBVIOUS
<1> USE DEF WaitInv, WaitTypes, SetAtTheEnd, W!NotForgotten, W!Result, W!IsTrue
<1>1. ASSUME NEW v \in W!Result, W!ReadAll(v) PROVE WaitInv'
  BY <1>1 DEF W!ReadAll, W!SetEvent
<1>7. CASE W!ReadRaises
  BY <1>7 DEF W!ReadRaises
<1>2. CASE W!Beat
  BY <1>2 DEF W!Beat
<1>3. CASE W!BeatSent
  BY <1>3 DEF W!BeatSent, W!Wait
<1>4. CASE W!Answer
  BY <1>4 DEF W!Answer
<1>5. CASE W!Disconnect
  BY <1>5 DEF W!Disconnect
<1>6. CASE UNCHANGED W!vars
  BY <1>6 DEF W!vars
<1> QED BY <1>1, <1>2, <1>3, <1>4, <1>5, <1>6, <1>7 DEF W!Next

\* A call that waits and was not woken waits for a task that reads on or has raised, or
\* for empty values that came while a newline was being sent; a chunk that came then is
\* seen when it waits again (ValueEvent, wait_run).
THEOREM WaitingIsNotForgotten == MCSpec => []NotForgotten
<1>1. MCInit => WaitInv
  BY DEF MCInit, W!Init, WaitInv, WaitTypes, SetAtTheEnd, W!NotForgotten, W!IsTrue
<1>2. [MCNext]_allVars => [W!Next]_(W!vars)
  BY DEF MCNext, allVars, waits, W!vars
<1>3. WaitInv => NotForgotten
  BY DEF WaitInv, NotForgotten
<1> QED BY <1>1, <1>2, <1>3, WaitStep, PTL DEF MCSpec

----------------------------------------------------------------------------
(* What a run publishes of what its graph does.                            *)

Hows    == {"chunk", "event", "custom"}
Printed == {"debug", "values", "messages", "message", "messages/metadata", "messages/partial",
            "messages/complete", "on_chat_model_stream", "on_chain_start",
            "metadata", "events", "error", "feedback"}
Entry == [name : Printed, ns : {"root", "sub"}, id : Messages \cup {Checkpoint}, n : Nat,
          attempt : Nat]
Event == [how : Hows, name : Printed, ns : {"root", "sub"},
          id : Messages \cup {Checkpoint}, n : Nat]

LEMMA NewEvent ==
    ASSUME NEW how \in Hows, NEW name \in Printed, NEW ns \in {"root", "sub"},
           NEW id \in Messages \cup {Checkpoint}, NEW n \in Nat
    PROVE  LET e == M!Ev(how, name, ns, id, n)
           IN /\ e \in Event /\ e.how = how /\ e.name = name /\ e.id = id /\ e.n = n /\ e.ns = ns
              /\ <<e>> \in Seq(Event) /\ Len(<<e>>) = 1 /\ <<e>>[1] = e
  BY DEF M!Ev, Event

\* The names that may be published in an attempt.
NamesIn(n) ==
    {name \in M!Always \cup UNION {M!NamesOf(m) : m \in asked} :
        M!UsesEvents /\ n > 1 => name \in M!Always \cup M!Retried}

\* The chunks and the metadata of messages among what is published.
Chunks(s) == {<<s[j].id, s[j].attempt, s[j].n>> :
                j \in {i \in 1..Len(s) : s[i].name = "messages/partial"}}
Headed(s) == {<<s[j].id, s[j].attempt>> :
                j \in {i \in 1..Len(s) : s[i].name = "messages/metadata"}}

\* What may follow s.
Fits(s, x) ==
    /\ x.name = "messages/partial" =>
          /\ x.n = 1 \/ <<x.id, x.attempt, x.n - 1>> \in Chunks(s)
          /\ \A n \in Nat : <<x.id, x.attempt, n>> \in Chunks(s) => n < x.n
          /\ <<x.id, x.attempt>> \in Headed(s)
    /\ x.name = "messages/metadata" => <<x.id, x.attempt>> \notin Headed(s)

\* Messages add up in what is published (MessagesAddUp of Emission).
AddsUp(s) == \A i \in 1..Len(s) : Fits(SubSeq(s, 1, i - 1), s[i])

Fine(s) == /\ s \in Seq(Entry) /\ AddsUp(s)
           /\ \A i \in 1..Len(s) : s[i].name \in NamesIn(s[i].attempt) /\ s[i].attempt <= try

ChunkOf(x) == IF x.name = "messages/partial" THEN {<<x.id, x.attempt, x.n>>} ELSE {}
HeadOf(x)  == IF x.name = "messages/metadata" THEN {<<x.id, x.attempt>>} ELSE {}

LEMMA ChunksOfMore ==
    ASSUME NEW s \in Seq(Entry), NEW x \in Entry
    PROVE  /\ Chunks(Append(s, x)) = Chunks(s) \cup ChunkOf(x)
           /\ Headed(Append(s, x)) = Headed(s) \cup HeadOf(x)
<1> DEFINE t == Append(s, x)
<1>1. /\ Len(t) = Len(s) + 1 /\ Len(s) \in Nat /\ t[Len(s) + 1] = x
      /\ \A i \in 1..Len(s) : t[i] = s[i]
  OBVIOUS
<1> HIDE DEF t
<1>2. Chunks(t) = Chunks(s) \cup ChunkOf(x)
  <2>1. ASSUME NEW c \in Chunks(t) PROVE c \in Chunks(s) \cup ChunkOf(x)
    <3>1. PICK j \in 1..Len(t) :
             t[j].name = "messages/partial" /\ c = <<t[j].id, t[j].attempt, t[j].n>>
      BY <2>1 DEF Chunks
    <3>2. CASE j = Len(s) + 1
      BY <1>1, <3>1, <3>2 DEF ChunkOf
    <3>3. CASE j # Len(s) + 1
      <4>1. j \in 1..Len(s) /\ t[j] = s[j]
        BY <1>1, <3>3
      <4> QED BY <3>1, <4>1 DEF Chunks
    <3> QED BY <3>2, <3>3
  <2>2. ASSUME NEW c \in Chunks(s) PROVE c \in Chunks(t)
    <3>1. PICK j \in 1..Len(s) :
             s[j].name = "messages/partial" /\ c = <<s[j].id, s[j].attempt, s[j].n>>
      BY <2>2 DEF Chunks
    <3>2. j \in 1..Len(t) /\ t[j] = s[j]
      BY <1>1
    <3> QED BY <3>1, <3>2 DEF Chunks
  <2>3. ASSUME NEW c \in ChunkOf(x) PROVE c \in Chunks(t)
    <3>1. Len(s) + 1 \in 1..Len(t)
      BY <1>1
    <3> QED BY <1>1, <2>3, <3>1 DEF Chunks, ChunkOf
  <2> QED BY <2>1, <2>2, <2>3
<1>3. Headed(t) = Headed(s) \cup HeadOf(x)
  <2>1. ASSUME NEW c \in Headed(t) PROVE c \in Headed(s) \cup HeadOf(x)
    <3>1. PICK j \in 1..Len(t) :
             t[j].name = "messages/metadata" /\ c = <<t[j].id, t[j].attempt>>
      BY <2>1 DEF Headed
    <3>2. CASE j = Len(s) + 1
      BY <1>1, <3>1, <3>2 DEF HeadOf
    <3>3. CASE j # Len(s) + 1
      <4>1. j \in 1..Len(s) /\ t[j] = s[j]
        BY <1>1, <3>3
      <4> QED BY <3>1, <4>1 DEF Headed
    <3> QED BY <3>2, <3>3
  <2>2. ASSUME NEW c \in Headed(s) PROVE c \in Headed(t)
    <3>1. PICK j \in 1..Len(s) :
             s[j].name = "messages/metadata" /\ c = <<s[j].id, s[j].attempt>>
      BY <2>2 DEF Headed
    <3>2. j \in 1..Len(t) /\ t[j] = s[j]
      BY <1>1
    <3> QED BY <3>1, <3>2 DEF Headed
  <2>3. ASSUME NEW c \in HeadOf(x) PROVE c \in Headed(t)
    <3>1. Len(s) + 1 \in 1..Len(t)
      BY <1>1
    <3> QED BY <1>1, <2>3, <3>1 DEF Headed, HeadOf
  <2> QED BY <2>1, <2>2, <2>3
<1> QED BY <1>2, <1>3 DEF t

\* What fits keeps everything adding up.
LEMMA More ==
    ASSUME NEW s, Fine(s), NEW x \in Entry, x.name \in NamesIn(try), x.attempt = try,
           try \in Nat, Fits(s, x)
    PROVE  /\ Fine(Append(s, x))
           /\ Chunks(Append(s, x)) = Chunks(s) \cup ChunkOf(x)
           /\ Headed(Append(s, x)) = Headed(s) \cup HeadOf(x)
<1> DEFINE t == Append(s, x)
<1>1. /\ s \in Seq(Entry) /\ Len(s) \in Nat /\ AddsUp(s)
      /\ \A i \in 1..Len(s) : s[i].name \in NamesIn(s[i].attempt) /\ s[i].attempt <= try
  BY DEF Fine
<1>2. /\ t \in Seq(Entry) /\ Len(t) = Len(s) + 1 /\ t[Len(s) + 1] = x
      /\ \A i \in 1..Len(s) : t[i] = s[i]
  BY <1>1
<1>3. ASSUME NEW i \in 1..Len(t)
      PROVE  SubSeq(t, 1, i - 1) = SubSeq(s, 1, i - 1)
  <2>1. i - 1 \in 0..Len(s)
    BY <1>1, <1>2
  <2> HIDE DEF t
  <2>2. /\ Len(SubSeq(t, 1, i - 1)) = i - 1 /\ Len(SubSeq(s, 1, i - 1)) = i - 1
        /\ SubSeq(t, 1, i - 1) \in Seq(Entry) /\ SubSeq(s, 1, i - 1) \in Seq(Entry)
        /\ \A j \in 1..(i - 1) : /\ SubSeq(t, 1, i - 1)[j] = t[j]
                                 /\ SubSeq(s, 1, i - 1)[j] = s[j]
    BY <1>1, <1>2, <2>1
  <2>3. \A j \in 1..(i - 1) : SubSeq(t, 1, i - 1)[j] = SubSeq(s, 1, i - 1)[j]
    BY <1>1, <1>2, <2>1, <2>2
  <2> QED BY <2>2, <2>3, SeqEqual
<1>4. SubSeq(s, 1, Len(s)) = s
  BY <1>1
<1> HIDE DEF t
<1>5. AddsUp(t)
  <2> SUFFICES ASSUME NEW i \in 1..Len(t) PROVE Fits(SubSeq(t, 1, i - 1), t[i])
    BY DEF AddsUp
  <2>1. CASE i = Len(s) + 1
    <3>1. i - 1 = Len(s)
      BY <1>1, <2>1
    <3> QED BY <1>2, <1>3, <1>4, <2>1, <3>1
  <2>2. CASE i # Len(s) + 1
    <3>1. i \in 1..Len(s) /\ t[i] = s[i]
      BY <1>1, <1>2, <2>2
    <3> QED BY <1>1, <1>3, <3>1 DEF AddsUp
  <2> QED BY <2>1, <2>2
<1>6. \A i \in 1..Len(t) : t[i].name \in NamesIn(t[i].attempt) /\ t[i].attempt <= try
  BY <1>1, <1>2
<1>7. Fine(t)
  BY <1>2, <1>5, <1>6 DEF Fine
<1> QED BY <1>1, <1>7, ChunksOfMore DEF t

\* Where everything fits and is asked for, only what is asked is published, and
\* messages add up.
LEMMA FineIsRight == Fine(out) => M!OnlyAsked /\ M!MessagesAddUp
<1> SUFFICES ASSUME Fine(out) PROVE M!OnlyAsked /\ M!MessagesAddUp
  OBVIOUS
<1>1. /\ out \in Seq(Entry) /\ Len(out) \in Nat /\ AddsUp(out)
      /\ \A i \in 1..Len(out) : out[i].name \in NamesIn(out[i].attempt)
  BY DEF Fine
<1>2. M!OnlyAsked
  BY <1>1 DEF M!OnlyAsked, NamesIn
<1>3. M!MessagesAddUp
  <2> SUFFICES ASSUME NEW i \in 1..Len(out)
               PROVE  LET before == {j \in 1..(i - 1) : M!Same(i, j)}
                      IN /\ M!Partial(i) =>
                              /\ \/ out[i].n = 1
                                 \/ \E j \in before : M!Partial(j) /\ out[j].n = out[i].n - 1
                              /\ \A j \in before : M!Partial(j) => out[j].n < out[i].n
                              /\ \E j \in before : M!Metadata(j)
                         /\ M!Metadata(i) => \A j \in before : ~M!Metadata(j)
    BY DEF M!MessagesAddUp
  <2> DEFINE s == SubSeq(out, 1, i - 1)
             x == out[i]
             before == {j \in 1..(i - 1) : M!Same(i, j)}
  <2>1. Len(s) = i - 1 /\ \A j \in 1..(i - 1) : s[j] = out[j]
    BY <1>1
  <2>2. Fits(s, x)
    BY <1>1 DEF AddsUp
  <2> HIDE DEF s
  <2>3. ASSUME NEW n, <<x.id, x.attempt, n>> \in Chunks(s)
        PROVE  \E j \in before : M!Partial(j) /\ out[j].n = n
    BY <2>1, <2>3 DEF Chunks, M!Partial, M!Same
  <2>4. ASSUME NEW j \in before, M!Partial(j) PROVE <<x.id, x.attempt, out[j].n>> \in Chunks(s)
    BY <2>1, <2>4 DEF Chunks, M!Partial, M!Same
  <2>5. <<x.id, x.attempt>> \in Headed(s) => \E j \in before : M!Metadata(j)
    BY <2>1 DEF Headed, M!Metadata, M!Same
  <2>6. ASSUME NEW j \in before, M!Metadata(j) PROVE <<x.id, x.attempt>> \in Headed(s)
    BY <2>1, <2>6 DEF Headed, M!Metadata, M!Same
  <2>7. \A j \in before : out[j].n \in Nat
    <3> SUFFICES ASSUME NEW j \in before PROVE out[j].n \in Nat
      OBVIOUS
    <3>1. j \in 1..Len(out)
      BY <1>1
    <3>2. out[j] \in Entry
      BY <1>1, <3>1
    <3> QED BY <3>2 DEF Entry
  <2> HIDE DEF before
  <2>8. M!Partial(i) => /\ x.n = 1 \/ \E j \in before : M!Partial(j) /\ out[j].n = x.n - 1
                        /\ \A j \in before : M!Partial(j) => out[j].n < x.n
                        /\ \E j \in before : M!Metadata(j)
    <3> SUFFICES ASSUME M!Partial(i)
                 PROVE  /\ x.n = 1 \/ \E j \in before : M!Partial(j) /\ out[j].n = x.n - 1
                        /\ \A j \in before : M!Partial(j) => out[j].n < x.n
                        /\ \E j \in before : M!Metadata(j)
      OBVIOUS
    <3>1. /\ x.n = 1 \/ <<x.id, x.attempt, x.n - 1>> \in Chunks(s)
          /\ \A n \in Nat : <<x.id, x.attempt, n>> \in Chunks(s) => n < x.n
          /\ <<x.id, x.attempt>> \in Headed(s)
      BY <2>2 DEF Fits, M!Partial
    <3> HIDE DEF x
    <3> QED BY <3>1, <2>3, <2>4, <2>5, <2>7
  <2>9. M!Metadata(i) => \A j \in before : ~M!Metadata(j)
    BY <2>2, <2>6 DEF Fits, M!Metadata
  <2> QED BY <2>8, <2>9 DEF before
<1> QED BY <1>2, <1>3

----------------------------------------------------------------------------
(* What is due.                                                            *)

\* An event is a partial of the JavaScript server, its metadata, or a chunk of a
\* Python graph.
IsPart(e, m) == e.how = "custom" /\ e.name = "messages/partial" /\ e.id = m
IsHead(e, m) == e.how = "custom" /\ e.name = "messages/metadata" /\ e.id = m
Says(e)      == e.how = "chunk" /\ e.name \in {"messages", "message"}
IsSaid(e, m) == Says(e) /\ e.id = m

\* What events there are.
Kind(e) ==
    /\ e.how \in {"custom", "event", "chunk"}
    /\ e.how = "custom" =>
          /\ remote /\ "messages" \in asked /\ e.id \in Messages
          /\ e.name \in {"messages/metadata", "messages/partial", "messages/complete"}
          /\ e.name = "messages/complete" => M!TakenApart
    /\ e.how = "chunk" => e.name \in {"debug", "values", "messages", "message"}
    /\ Says(e) => /\ e.id \in Messages
                  /\ "messages-tuple" \in asked \/ (~remote /\ "messages" \in asked)

\* A partial or the metadata of a message, in the current attempt, is published.
Sent(m, n) == <<m, try, n>> \in Chunks(out)
Started(m) == <<m, try>> \in Headed(out)

\* A partial that is due comes after the one before it, and after the metadata.
PartInOrder(m, k) ==
    /\ due[k].n \in 1..known[m]
    /\ \A n \in Nat : Sent(m, n) => n < due[k].n
    /\ \/ due[k].n = 1 \/ Sent(m, due[k].n - 1)
       \/ \E j \in 1..(k - 1) : IsPart(due[j], m) /\ due[j].n = due[k].n - 1
    /\ \A j \in 1..(k - 1) : IsPart(due[j], m) => due[j].n < due[k].n
    /\ Started(m) \/ \E j \in 1..(k - 1) : IsHead(due[j], m)

HeadInOrder(m, k) ==
    known[m] > 0 /\ ~Started(m) /\ \A j \in 1..(k - 1) : ~IsHead(due[j], m)

\* What the server has put together is published or due.
RemoteAddsUp(m) ==
    /\ \A k \in 1..Len(due) : /\ IsPart(due[k], m) => PartInOrder(m, k)
                              /\ IsHead(due[k], m) => HeadInOrder(m, k)
    /\ phase = "streaming" /\ known[m] > 0 =>
          /\ Sent(m, known[m])
             \/ \E k \in 1..Len(due) : IsPart(due[k], m) /\ due[k].n = known[m]
          /\ Started(m) \/ \E k \in 1..Len(due) : IsHead(due[k], m)

\* Chunks of one message are all of one kind: said in chunks, or at once.
SaidInOrder(m, k) ==
    /\ said[m] > 0
    /\ due[k].name = "messages" => m \notin whole
    /\ due[k].name = "message" =>
          m \in whole /\ known[m] = 0 /\ \A j \in 1..(k - 1) : ~IsSaid(due[j], m)

LocalAddsUp(m) ==
    /\ \A k \in 1..Len(due) : IsSaid(due[k], m) => SaidInOrder(m, k)
    /\ known[m] > 0 => said[m] > 0 /\ Started(m) /\ (m \notin whole => Sent(m, known[m]))

Counted(m) ==
    /\ \A n \in Nat : Sent(m, n) => n <= known[m]
    /\ Started(m) => known[m] > 0

Together(m) == Counted(m) /\ (remote => RemoteAddsUp(m)) /\ (~remote => LocalAddsUp(m))

EmissionTypes ==
    /\ asked \in SUBSET M!Modes /\ remote \in BOOLEAN /\ subgraphs \in BOOLEAN
    /\ phase \in {"begin", "streaming", "over"} /\ try \in Nat
    /\ whole \subseteq Messages /\ known \in [Messages -> Nat] /\ said \in [Messages -> Nat]
    /\ due \in Seq(Event)

EmissionInv ==
    /\ EmissionTypes
    /\ Fine(out)
    /\ \A k \in 1..Len(due) : Kind(due[k])
    /\ \A m \in Messages : Together(m)
    /\ phase # "streaming" => due = <<>>
    /\ phase = "begin" => \A m \in Messages : known[m] = 0

----------------------------------------------------------------------------
(* The graph produces.                                                     *)

\* What is produced is due behind the rest.
LEMMA Queued ==
    ASSUME due \in Seq(Event), NEW q \in Seq(Event), due' = due \o q
    PROVE  /\ due' \in Seq(Event) /\ Len(due') = Len(due) + Len(q)
           /\ Len(due) \in Nat /\ Len(q) \in Nat
           /\ \A k \in 1..Len(due) : k \in 1..Len(due') /\ due'[k] = due[k]
           /\ \A k \in 1..Len(q) :
                 Len(due) + k \in 1..Len(due') /\ due'[Len(due) + k] = q[k]
           /\ \A k \in 1..Len(due') :
                 k \in 1..Len(due) \/ \E i \in 1..Len(q) : k = Len(due) + i /\ due'[k] = q[i]
<1>1. /\ due' \in Seq(Event) /\ Len(due') = Len(due) + Len(q)
      /\ Len(due) \in Nat /\ Len(q) \in Nat
      /\ \A k \in 1..Len(due') : due'[k] = IF k <= Len(due) THEN due[k] ELSE q[k - Len(due)]
  OBVIOUS
<1>2. ASSUME NEW k \in 1..Len(due) PROVE k \in 1..Len(due') /\ due'[k] = due[k]
  BY <1>1
<1>3. ASSUME NEW k \in 1..Len(q)
      PROVE  Len(due) + k \in 1..Len(due') /\ due'[Len(due) + k] = q[k]
  <2>1. Len(due) + k \in 1..Len(due') /\ ~ (Len(due) + k <= Len(due))
        /\ Len(due) + k - Len(due) = k
    BY <1>1
  <2>2. due'[Len(due) + k] = q[Len(due) + k - Len(due)]
    BY <1>1, <2>1
  <2> QED BY <2>1, <2>2
<1>4. ASSUME NEW k \in 1..Len(due'), k \notin 1..Len(due)
      PROVE  \E i \in 1..Len(q) : k = Len(due) + i /\ due'[k] = q[i]
  <2>1. k - Len(due) \in 1..Len(q) /\ k = Len(due) + (k - Len(due))
    BY <1>1, <1>4
  <2> QED BY <1>3, <2>1
<1> QED BY <1>1, <1>2, <1>3, <1>4

\* What says nothing of a message leaves it as it was.
LEMMA Unsaid ==
    ASSUME EmissionInv, NEW q \in Seq(Event), due' = due \o q, NEW m \in Messages,
           UNCHANGED <<remote, try, out, phase>>, known'[m] = known[m],
           ~remote => said'[m] = said[m] /\ (m \in whole' <=> m \in whole),
           \A i \in 1..Len(q) : ~IsPart(q[i], m) /\ ~IsHead(q[i], m) /\ (~remote => ~IsSaid(q[i], m))
    PROVE  Together(m)'
<1> DEFINE L == Len(due)
<1>1. due \in Seq(Event) /\ Together(m)
  BY DEF EmissionInv, EmissionTypes
<1>2. /\ L \in Nat
      /\ \A k \in 1..L : k \in 1..Len(due') /\ due'[k] = due[k]
      /\ \A k \in 1..Len(due') : k \in 1..L \/ \E i \in 1..Len(q) : due'[k] = q[i]
  <2>1. due' = due \o q
    OBVIOUS
  <2> QED BY <1>1, <2>1, Queued
<1>3. \A k \in 1..Len(due') : IsPart(due'[k], m) \/ IsHead(due'[k], m) => k \in 1..L
  BY <1>2
<1>4. ~remote => \A k \in 1..Len(due') : IsSaid(due'[k], m) => k \in 1..L
  BY <1>2
<1>5. \A k \in 1..L : /\ IsPart(due'[k], m) <=> IsPart(due[k], m)
                      /\ IsHead(due'[k], m) <=> IsHead(due[k], m)
                      /\ IsSaid(due'[k], m) <=> IsSaid(due[k], m)
                      /\ due'[k].n = due[k].n /\ due'[k].name = due[k].name
                      /\ \A j \in 1..(k - 1) : j \in 1..L
  BY <1>2
<1>6. (\A n : Sent(m, n)' <=> Sent(m, n)) /\ (Started(m)' <=> Started(m))
  BY DEF Sent, Started
<1> HIDE DEF L
<1>7. Counted(m)'
  BY <1>1, <1>6 DEF Together, Counted
<1>8. ASSUME remote PROVE RemoteAddsUp(m)'
  <2>1. RemoteAddsUp(m)
    BY <1>1, <1>8 DEF Together
  <2>2. ASSUME NEW k \in 1..Len(due'), IsPart(due'[k], m) PROVE PartInOrder(m, k)'
    <3>1. k \in 1..L /\ IsPart(due[k], m)
      BY <1>3, <1>5, <2>2
    <3>2. PartInOrder(m, k)
      BY <2>1, <3>1 DEF RemoteAddsUp, L
    <3> QED BY <1>5, <1>6, <3>1, <3>2 DEF PartInOrder
  <2>3. ASSUME NEW k \in 1..Len(due'), IsHead(due'[k], m) PROVE HeadInOrder(m, k)'
    <3>1. k \in 1..L /\ IsHead(due[k], m)
      BY <1>3, <1>5, <2>3
    <3>2. HeadInOrder(m, k)
      BY <2>1, <3>1 DEF RemoteAddsUp, L
    <3> QED BY <1>5, <1>6, <3>1, <3>2 DEF HeadInOrder
  <2> QED BY <1>2, <1>5, <1>6, <2>1, <2>2, <2>3 DEF RemoteAddsUp, L
<1>9. ASSUME ~remote PROVE LocalAddsUp(m)'
  <2>1. LocalAddsUp(m)
    BY <1>1, <1>9 DEF Together
  <2>2. ASSUME NEW k \in 1..Len(due'), IsSaid(due'[k], m) PROVE SaidInOrder(m, k)'
    <3>1. k \in 1..L /\ IsSaid(due[k], m)
      BY <1>4, <1>5, <1>9, <2>2
    <3>2. SaidInOrder(m, k)
      BY <2>1, <3>1 DEF LocalAddsUp, L
    <3> QED BY <1>5, <1>9, <3>1, <3>2 DEF SaidInOrder
  <2> QED BY <1>6, <1>9, <2>1, <2>2 DEF LocalAddsUp
<1> QED BY <1>7, <1>8, <1>9 DEF Together

LEMMA Produced ==
    ASSUME EmissionInv, NEW q \in Seq(Event), M!Produce(q),
           \A i \in 1..Len(q) : Kind(q[i]), \A m \in Messages : Together(m)',
           whole' \subseteq Messages, known' \in [Messages -> Nat], said' \in [Messages -> Nat]
    PROVE  EmissionInv'
<1>1. /\ due' = due \o q /\ phase = "streaming"
      /\ UNCHANGED <<asked, remote, subgraphs, phase, try, out>>
  BY DEF M!Produce, M!given
<1>2. EmissionTypes /\ due \in Seq(Event) /\ Fine(out)
  BY DEF EmissionInv, EmissionTypes
<1>3. /\ due' \in Seq(Event)
      /\ \A k \in 1..Len(due) : due'[k] = due[k]
      /\ \A k \in 1..Len(due') : k \in 1..Len(due) \/ \E i \in 1..Len(q) : due'[k] = q[i]
  BY <1>1, <1>2, Queued
<1>4. \A k \in 1..Len(due') : Kind(due'[k])
  BY <1>3 DEF EmissionInv
<1>5. (\A k \in 1..Len(due) : Kind(due[k]))'
  BY <1>1, <1>4 DEF Kind, Says, M!TakenApart, M!UsesEvents
<1>6. Fine(out)'
  BY <1>1, <1>2 DEF Fine, NamesIn, M!NamesOf, M!Always, M!Retried, M!UsesEvents
<1>7. EmissionTypes'
  BY <1>1, <1>2, <1>3 DEF EmissionTypes
<1> QED BY <1>1, <1>5, <1>6, <1>7 DEF EmissionInv

\* A checkpoint, values, or another event says nothing of a message.
LEMMA GraphMoves ==
    ASSUME EmissionInv, NEW e \in Event, M!Produce(<<e>>), Kind(e), ~Says(e), e.how # "custom",
           UNCHANGED <<whole, known, said>>
    PROVE  EmissionInv'
<1>1. /\ <<e>> \in Seq(Event) /\ \A i \in 1..Len(<<e>>) : <<e>>[i] = e
  OBVIOUS
<1>2. /\ due' = due \o <<e>> /\ UNCHANGED <<remote, try, out, phase>>
  BY DEF M!Produce, M!given
<1>3. \A m : ~IsPart(e, m) /\ ~IsHead(e, m) /\ ~IsSaid(e, m)
  BY DEF IsPart, IsHead, IsSaid
<1>4. ASSUME NEW m \in Messages PROVE Together(m)'
  BY <1>1, <1>2, <1>3, Unsaid
<1>5. whole' \subseteq Messages /\ known' \in [Messages -> Nat] /\ said' \in [Messages -> Nat]
  BY DEF EmissionInv, EmissionTypes
<1> QED BY <1>1, <1>4, <1>5, Produced

LEMMA StepsAndTraces ==
    ASSUME EmissionInv,
           \/ \E mode_ \in {"debug", "values"}, ns \in M!Namespaces : M!GraphSteps(mode_, ns)
           \/ M!GraphTraces
    PROVE  EmissionInv'
<1>1. M!Namespaces \subseteq {"root", "sub"}
  BY DEF M!Namespaces
<1>2. ASSUME NEW mode_ \in {"debug", "values"}, NEW ns \in M!Namespaces, M!GraphSteps(mode_, ns)
      PROVE  EmissionInv'
  <2> DEFINE e == M!Ev("chunk", mode_, ns, Checkpoint, 0)
  <2>1. /\ e \in Event /\ e.how = "chunk" /\ e.name \in {"debug", "values"}
    BY <1>1, NewEvent DEF Hows, Printed
  <2> HIDE DEF e
  <2>2. Kind(e) /\ ~Says(e) /\ e.how # "custom"
    BY <2>1 DEF Kind, Says
  <2>3. M!Produce(<<e>>) /\ UNCHANGED <<whole, known, said>>
    BY <1>2 DEF M!GraphSteps, e
  <2> QED BY <2>1, <2>2, <2>3, GraphMoves
<1>3. ASSUME M!GraphTraces PROVE EmissionInv'
  <2> DEFINE e == M!Ev("event", "on_chain_start", "root", Checkpoint, 0)
  <2>1. /\ e \in Event /\ e.how = "event"
    BY NewEvent DEF Hows, Printed
  <2> HIDE DEF e
  <2>2. Kind(e) /\ ~Says(e) /\ e.how # "custom"
    BY <2>1 DEF Kind, Says
  <2>3. M!Produce(<<e>>) /\ UNCHANGED <<whole, known, said>>
    BY <1>3 DEF M!GraphTraces, e
  <2> QED BY <2>1, <2>2, <2>3, GraphMoves
<1> QED BY <1>2, <1>3

\* A chunk of a Python graph.
LEMMA Saying ==
    ASSUME EmissionInv, NEW m \in Messages, NEW all \in BOOLEAN, M!GraphSays(m, all)
    PROVE  EmissionInv'
<1> DEFINE name == IF all THEN "message" ELSE "messages"
           e == M!Ev("chunk", name, "root", m, 1)
           L == Len(due)
<1>1. /\ e \in Event /\ e.how = "chunk" /\ e.name = name /\ e.id = m
      /\ name \in {"messages", "message"} /\ (name = "message" <=> all)
  <2>1. name \in {"messages", "message"} /\ (name = "message" <=> all)
    OBVIOUS
  <2> HIDE DEF name
  <2> QED BY <2>1, NewEvent DEF Hows, Printed
<1> HIDE DEF name, e
<1>2. /\ ~remote /\ "messages" \in M!StreamModes /\ m \notin whole /\ (all => said[m] = 0)
      /\ M!Produce(<<e>>)
      /\ said' = [said EXCEPT ![m] = @ + 1]
      /\ whole' = IF all THEN whole \cup {m} ELSE whole
      /\ known' = known
  BY DEF M!GraphSays, e, name
<1>3. "messages-tuple" \in asked \/ "messages" \in asked
  BY <1>2 DEF M!StreamModes
<1>4. Kind(e) /\ IsSaid(e, m) /\ \A p : ~IsPart(e, p) /\ ~IsHead(e, p) /\ (p # m => ~IsSaid(e, p))
  BY <1>1, <1>2, <1>3 DEF Kind, Says, IsSaid, IsPart, IsHead
<1>5. /\ due' = due \o <<e>> /\ phase = "streaming"
      /\ UNCHANGED <<asked, remote, subgraphs, phase, try, out>>
      /\ <<e>> \in Seq(Event) /\ Len(<<e>>) = 1 /\ <<e>>[1] = e
  BY <1>1, <1>2 DEF M!Produce, M!given
<1>6. /\ due \in Seq(Event) /\ whole \subseteq Messages /\ known \in [Messages -> Nat]
      /\ said \in [Messages -> Nat] /\ LocalAddsUp(m) /\ Counted(m)
  BY <1>2 DEF EmissionInv, EmissionTypes, Together
<1>7. /\ whole' \subseteq Messages /\ known' \in [Messages -> Nat] /\ said' \in [Messages -> Nat]
      /\ said'[m] = said[m] + 1 /\ \A p \in Messages : p # m => said'[p] = said[p]
      /\ m \in whole' <=> all
      /\ \A p \in Messages : p # m => (p \in whole' <=> p \in whole)
  BY <1>2, <1>6
<1>8. ASSUME NEW p \in Messages, p # m PROVE Together(p)'
  <2>1. \A i \in 1..Len(<<e>>) :
           ~IsPart(<<e>>[i], p) /\ ~IsHead(<<e>>[i], p) /\ (~remote => ~IsSaid(<<e>>[i], p))
    BY <1>4, <1>5, <1>8
  <2>2. known'[p] = known[p] /\ said'[p] = said[p] /\ (p \in whole' <=> p \in whole)
    BY <1>2, <1>7, <1>8
  <2> QED BY <1>5, <2>1, <2>2, Unsaid
<1>9. Together(m)'
  <2>1. /\ L \in Nat /\ Len(due') = L + 1 /\ due'[L + 1] = e
        /\ \A k \in 1..L : k \in 1..Len(due') /\ due'[k] = due[k]
    BY <1>5, <1>6, Queued
  <2>2. (\A n : Sent(m, n)' <=> Sent(m, n)) /\ (Started(m)' <=> Started(m))
    BY <1>5 DEF Sent, Started
  <2>3. ASSUME all, NEW k \in 1..L PROVE ~IsSaid(due[k], m)
    BY <1>2, <1>6, <2>3 DEF LocalAddsUp, SaidInOrder
  <2>4. ASSUME NEW k \in 1..Len(due'), IsSaid(due'[k], m) PROVE SaidInOrder(m, k)'
    <3>1. CASE k = L + 1
      <4>1. ASSUME all, NEW j \in 1..(k - 1) PROVE ~IsSaid(due'[j], m)
        <5>1. j \in 1..L /\ due'[j] = due[j]
          BY <2>1, <3>1
        <5> QED BY <2>3, <4>1, <5>1
      <4>2. all => known'[m] = 0
        BY <1>2, <1>6 DEF LocalAddsUp
      <4>3. said'[m] > 0
        BY <1>6, <1>7
      <4> QED BY <1>1, <1>7, <2>1, <3>1, <4>1, <4>2, <4>3 DEF SaidInOrder
    <3>2. CASE k # L + 1
      <4>1. k \in 1..L /\ due'[k] = due[k] /\ IsSaid(due[k], m) /\ ~all
        BY <2>1, <2>3, <2>4, <3>2
      <4>2. SaidInOrder(m, k)
        BY <1>6, <4>1 DEF LocalAddsUp
      <4>3. due[k].name # "message"
        BY <1>2, <4>2 DEF SaidInOrder
      <4> QED BY <1>6, <1>7, <4>1, <4>2, <4>3 DEF SaidInOrder
    <3> QED BY <3>1, <3>2
  <2>5. LocalAddsUp(m)'
    <3>1. (known[m] > 0 => said[m] > 0 /\ Started(m) /\ (m \notin whole => Sent(m, known[m])))'
      BY <1>2, <1>6, <1>7, <2>2 DEF LocalAddsUp
    <3> QED BY <2>4, <3>1 DEF LocalAddsUp
  <2>6. Counted(m)'
    BY <1>2, <1>6, <2>2 DEF Counted
  <2> QED BY <1>2, <1>5, <2>5, <2>6 DEF Together
<1>10. \A i \in 1..Len(<<e>>) : Kind(<<e>>[i])
  BY <1>4, <1>5
<1> QED BY <1>2, <1>5, <1>7, <1>8, <1>9, <1>10, Produced

\* A partial that the JavaScript server adds, with the metadata before the first.
LEMMA PartAdded ==
    ASSUME EmissionInv, remote, phase = "streaming", NEW m \in Messages, NEW q \in Seq(Event),
           due' = due \o q, UNCHANGED <<remote, phase, try, out>>, known'[m] = known[m] + 1,
           NEW p \in 1..Len(q), IsPart(q[p], m), q[p].n = known[m] + 1,
           \A i \in 1..Len(q) : IsPart(q[i], m) => i = p,
           known[m] = 0 => p - 1 \in 1..Len(q) /\ IsHead(q[p - 1], m),
           \A i \in 1..Len(q) : IsHead(q[i], m) => i = p - 1 /\ known[m] = 0
    PROVE  Together(m)'
<1> DEFINE L == Len(due)
<1>1. /\ due \in Seq(Event) /\ Counted(m) /\ RemoteAddsUp(m) /\ known[m] \in Nat
  BY DEF EmissionInv, EmissionTypes, Together
<1>2. due' = due \o q
  OBVIOUS
<1>3. /\ L \in Nat /\ Len(q) \in Nat /\ Len(due') = L + Len(q)
      /\ \A k \in 1..L : k \in 1..Len(due') /\ due'[k] = due[k]
      /\ \A k \in 1..Len(q) : L + k \in 1..Len(due') /\ due'[L + k] = q[k]
      /\ \A k \in 1..Len(due') : k \in 1..L \/ \E i \in 1..Len(q) : k = L + i /\ due'[k] = q[i]
  BY <1>1, <1>2, Queued
<1>4. (\A n : Sent(m, n)' <=> Sent(m, n)) /\ (Started(m)' <=> Started(m))
  BY DEF Sent, Started
<1> HIDE DEF L
<1>5. Counted(m)'
  BY <1>1, <1>4 DEF Counted
<1>6. /\ L + p \in 1..Len(due') /\ IsPart(due'[L + p], m) /\ due'[L + p].n = known'[m]
  BY <1>3
<1>7. ASSUME NEW k \in 1..Len(due'), IsPart(due'[k], m)
      PROVE  k = L + p \/ (k \in 1..L /\ due'[k] = due[k] /\ PartInOrder(m, k))
  BY <1>1, <1>3, <1>7 DEF RemoteAddsUp, L
<1>8. ASSUME NEW k \in 1..Len(due'), IsHead(due'[k], m)
      PROVE  \/ k = L + p - 1 /\ known[m] = 0
             \/ k \in 1..L /\ due'[k] = due[k] /\ HeadInOrder(m, k)
  <2>1. CASE k \in 1..L
    BY <1>1, <1>3, <1>8, <2>1 DEF RemoteAddsUp, L
  <2>2. ASSUME NEW i \in 1..Len(q), k = L + i, due'[k] = q[i]
        PROVE  k = L + p - 1 /\ known[m] = 0
    BY <1>3, <1>8, <2>2
  <2> QED BY <1>3, <2>1, <2>2
<1>9. ASSUME NEW k \in 1..Len(due'), IsPart(due'[k], m) PROVE PartInOrder(m, k)'
  <2>1. CASE k = L + p
    <3>1. due'[k].n = known[m] + 1 /\ known'[m] = known[m] + 1
      BY <1>6, <2>1
    <3>2. \A n \in Nat : Sent(m, n) => n < due'[k].n
      BY <1>1, <3>1 DEF Counted
    <3>3. \/ due'[k].n = 1 \/ Sent(m, due'[k].n - 1)
          \/ \E j \in 1..(k - 1) : IsPart(due'[j], m) /\ due'[j].n = due'[k].n - 1
      <4>1. CASE known[m] = 0
        BY <3>1, <4>1
      <4>2. CASE known[m] > 0
        <5>1. \/ Sent(m, known[m])
              \/ \E j \in 1..L : IsPart(due[j], m) /\ due[j].n = known[m]
          BY <1>1, <4>2 DEF RemoteAddsUp, L
        <5>2. \A j \in 1..L : j \in 1..(k - 1) /\ due'[j] = due[j]
          BY <1>3, <2>1
        <5>3. due'[k].n - 1 = known[m]
          BY <1>1, <3>1
        <5> QED BY <5>1, <5>2, <5>3
      <4>3. known[m] = 0 \/ known[m] > 0
        BY <1>1
      <4> QED BY <4>1, <4>2, <4>3
    <3>4. ASSUME NEW j \in 1..(k - 1), IsPart(due'[j], m) PROVE due'[j].n < due'[k].n
      <4>1. j \in 1..Len(due') /\ j # L + p
        BY <1>3, <2>1
      <4>2. j \in 1..L /\ due'[j] = due[j] /\ PartInOrder(m, j)
        BY <1>7, <3>4, <4>1
      <4>3. due[j].n \in 1..known[m]
        BY <4>2 DEF PartInOrder
      <4> QED BY <1>1, <3>1, <4>2, <4>3, SMTT(30)
    <3>5. Started(m) \/ \E j \in 1..(k - 1) : IsHead(due'[j], m)
      <4>1. CASE known[m] = 0
        <5>1. L + (p - 1) \in 1..(k - 1) /\ due'[L + (p - 1)] = q[p - 1]
          BY <1>3, <2>1, <4>1
        <5> QED BY <4>1, <5>1
      <4>2. CASE known[m] > 0
        <5>1. Started(m) \/ \E j \in 1..L : IsHead(due[j], m)
          BY <1>1, <4>2 DEF RemoteAddsUp, L
        <5>2. \A j \in 1..L : j \in 1..(k - 1) /\ due'[j] = due[j]
          BY <1>3, <2>1
        <5> QED BY <5>1, <5>2
      <4> QED BY <1>1, <4>1, <4>2, SMTT(30)
    <3>6. due'[k].n \in 1..known'[m]
      BY <1>1, <3>1
    <3>7. \A n : Sent(m, n)' <=> Sent(m, n)
      BY <1>4
    <3>8. Started(m)' <=> Started(m)
      BY <1>4
    <3>9. Sent(m, due[k].n - 1)' <=> Sent(m, due'[k].n - 1)
      BY DEF Sent
    <3> QED BY <3>2, <3>3, <3>4, <3>5, <3>6, <3>7, <3>8, <3>9 DEF PartInOrder
  <2>2. CASE k # L + p
    <3>1. k \in 1..L /\ due'[k] = due[k] /\ PartInOrder(m, k)
      BY <1>7, <1>9, <2>2
    <3>2. \A j \in 1..(k - 1) : j \in 1..L /\ due'[j] = due[j]
      BY <1>3, <3>1
    <3>3. Sent(m, due[k].n - 1)' <=> Sent(m, due[k].n - 1)
      BY <3>1 DEF Sent
    <3>4. due[k].n \in 1..known'[m]
      BY <1>1, <3>1 DEF PartInOrder
    <3>5. /\ \A n \in Nat : Sent(m, n) => n < due[k].n
          /\ \/ due[k].n = 1 \/ Sent(m, due[k].n - 1)
             \/ \E j \in 1..(k - 1) : IsPart(due'[j], m) /\ due'[j].n = due[k].n - 1
          /\ \A j \in 1..(k - 1) : IsPart(due'[j], m) => due'[j].n < due[k].n
          /\ Started(m) \/ \E j \in 1..(k - 1) : IsHead(due'[j], m)
      BY <3>1, <3>2 DEF PartInOrder
    <3> QED BY <1>4, <3>1, <3>3, <3>4, <3>5 DEF PartInOrder
  <2> QED BY <2>1, <2>2
<1>10. ASSUME NEW k \in 1..Len(due'), IsHead(due'[k], m) PROVE HeadInOrder(m, k)'
  <2>1. CASE k = L + p - 1 /\ known[m] = 0
    <3>1. ~Started(m)
      BY <1>1, <2>1 DEF Counted
    <3>2. ASSUME NEW j \in 1..(k - 1), IsHead(due'[j], m) PROVE FALSE
      <4>1. j \in 1..Len(due') /\ j # L + p - 1
        BY <1>3, <2>1
      <4>2. HeadInOrder(m, j)
        BY <1>8, <3>2, <4>1
      <4> QED BY <2>1, <4>2 DEF HeadInOrder
    <3> QED BY <1>1, <1>4, <2>1, <3>1, <3>2 DEF HeadInOrder
  <2>2. CASE k \in 1..L /\ due'[k] = due[k] /\ HeadInOrder(m, k)
    <3>1. \A j \in 1..(k - 1) : j \in 1..L /\ due'[j] = due[j]
      BY <1>3, <2>2
    <3> QED BY <1>1, <1>4, <2>2, <3>1 DEF HeadInOrder
  <2> QED BY <1>8, <1>10, <2>1, <2>2
<1>11. \E k \in 1..Len(due') : IsPart(due'[k], m) /\ due'[k].n = known'[m]
  BY <1>6
<1>12. Started(m)' \/ \E k \in 1..Len(due') : IsHead(due'[k], m)
  <2>1. CASE known[m] = 0
    <3>1. L + (p - 1) \in 1..Len(due') /\ due'[L + (p - 1)] = q[p - 1]
      BY <1>3, <2>1
    <3> QED BY <2>1, <3>1
  <2>2. CASE known[m] > 0
    <3>1. Started(m) \/ \E j \in 1..L : IsHead(due[j], m)
      BY <1>1, <2>2 DEF RemoteAddsUp, L
    <3> QED BY <1>3, <1>4, <3>1
  <2> QED BY <1>1, <2>1, <2>2
<1>13. RemoteAddsUp(m)'
  BY <1>9, <1>10, <1>11, <1>12 DEF RemoteAddsUp
<1> QED BY <1>5, <1>13 DEF Together

LEMMA Joined ==
    ASSUME NEW S, NEW s \in Seq(S), NEW t \in Seq(S)
    PROVE  /\ s \o t \in Seq(S) /\ Len(s \o t) = Len(s) + Len(t)
           /\ Len(s) \in Nat /\ Len(t) \in Nat
           /\ \A k \in 1..Len(s) : (s \o t)[k] = s[k]
           /\ \A k \in 1..Len(t) : (s \o t)[Len(s) + k] = t[k]
           /\ \A k \in 1..Len(s \o t) :
                 k \in 1..Len(s) \/ \E i \in 1..Len(t) : k = Len(s) + i /\ (s \o t)[k] = t[i]
<1> DEFINE u == s \o t
<1>1. /\ u \in Seq(S) /\ Len(u) = Len(s) + Len(t) /\ Len(s) \in Nat /\ Len(t) \in Nat
      /\ \A k \in 1..Len(u) : u[k] = IF k <= Len(s) THEN s[k] ELSE t[k - Len(s)]
  OBVIOUS
<1> HIDE DEF u
<1>2. \A k \in 1..Len(s) : u[k] = s[k]
  BY <1>1
<1>3. ASSUME NEW k \in 1..Len(t) PROVE u[Len(s) + k] = t[k]
  <2>1. Len(s) + k \in 1..Len(u) /\ ~ (Len(s) + k <= Len(s)) /\ Len(s) + k - Len(s) = k
    BY <1>1
  <2>2. u[Len(s) + k] = t[Len(s) + k - Len(s)]
    BY <1>1, <2>1
  <2> QED BY <2>1, <2>2
<1>4. ASSUME NEW k \in 1..Len(u), k \notin 1..Len(s)
      PROVE  \E i \in 1..Len(t) : k = Len(s) + i /\ u[k] = t[i]
  <2>1. k - Len(s) \in 1..Len(t) /\ k = Len(s) + (k - Len(s))
    BY <1>1, <1>4
  <2> QED BY <1>3, <2>1
<1> QED BY <1>1, <1>2, <1>3, <1>4 DEF u

LEMMA One ==
    ASSUME NEW S, NEW a \in S
    PROVE  /\ <<>> \in Seq(S) /\ Len(<<>>) = 0
           /\ <<a>> \in Seq(S) /\ Len(<<a>>) = 1 /\ <<a>>[1] = a /\ <<a>> # <<>>
  OBVIOUS

LEMMA Two ==
    ASSUME NEW S, NEW a \in S, NEW b \in S, NEW B, B \in {<<>>, <<b>>}
    PROVE  LET q == <<a>> \o B
           IN /\ q \in Seq(S) /\ Len(q) >= 1 /\ q[1] = a
              /\ \A j \in 1..Len(q) : q[j] = a \/ (B = <<b>> /\ q[j] = b)
<1> DEFINE q == <<a>> \o B
<1>1. /\ <<a>> \in Seq(S) /\ Len(<<a>>) = 1 /\ <<a>>[1] = a /\ B \in Seq(S)
      /\ B = <<>> \/ (B = <<b>> /\ Len(B) = 1 /\ B[1] = b)
  BY One
<1>2. B = <<>> => Len(B) = 0
  BY One
<1> DEFINE s == <<a>>
<1>3. /\ q \in Seq(S) /\ Len(q) = Len(s) + Len(B) /\ Len(B) \in Nat
      /\ \A k \in 1..Len(s) : q[k] = s[k]
      /\ \A k \in 1..Len(q) :
            k \in 1..Len(s) \/ \E i \in 1..Len(B) : k = Len(s) + i /\ q[k] = B[i]
  BY <1>1, Joined
<1> HIDE DEF q, s
<1>4. s \in Seq(S) /\ Len(s) = 1 /\ s[1] = a
  BY <1>1 DEF s
<1>5. q[1] = a /\ Len(q) >= 1
  BY <1>3, <1>4
<1>6. ASSUME NEW k \in 1..Len(q) PROVE q[k] = a \/ (B = <<b>> /\ q[k] = b)
  BY <1>1, <1>2, <1>3, <1>4
<1> QED BY <1>3, <1>5, <1>6 DEF q

\* What the JavaScript server sends for a chunk, where messages are asked for: the
\* event a, the metadata h when they are due, the partial p at i, and the chunk c
\* for a request that wants tuples.
Bundle(q, i, a, h, p, c, Z, B) ==
    /\ q \in Seq(Event) /\ q[i] = p /\ q[1] = a /\ i \in 1..Len(q)
    /\ Z = <<h>> => q[2] = h
    /\ \A j \in 1..Len(q) : \/ j = i \/ j = 1 \/ (Z = <<h>> /\ j = 2)
                            \/ (B = <<c>> /\ q[j] = c)

LEMMA Four ==
    ASSUME NEW a \in Event, NEW h \in Event, NEW p \in Event, NEW c \in Event,
           NEW Z, Z \in {<<>>, <<h>>}, NEW B, B \in {<<>>, <<c>>}
    PROVE  Bundle(<<a>> \o (Z \o <<p>>) \o B, IF Z = <<>> THEN 2 ELSE 3, a, h, p, c, Z, B)
<1> DEFINE sa == <<a>>
           sp == <<p>>
           r  == Z \o sp
           s  == sa \o r
           q  == s \o B
           i  == IF Z = <<>> THEN 2 ELSE 3
<1>1. /\ sa \in Seq(Event) /\ Len(sa) = 1 /\ sa[1] = a
      /\ sp \in Seq(Event) /\ Len(sp) = 1 /\ sp[1] = p
  BY One
<1>2. /\ Z \in Seq(Event)
      /\ (Z = <<>> /\ Z # <<h>> /\ Len(Z) = 0) \/ (Z = <<h>> /\ Z # <<>> /\ Len(Z) = 1 /\ Z[1] = h)
  BY One
<1>3. B \in Seq(Event) /\ (Len(B) = 0 \/ (B = <<c>> /\ Len(B) = 1 /\ B[1] = c))
  BY One
<1> HIDE DEF sa, sp
<1>4. /\ r \in Seq(Event) /\ Len(r) = Len(Z) + 1
      /\ \A k \in 1..Len(Z) : r[k] = Z[k]
      /\ \A k \in 1..1 : r[Len(Z) + k] = sp[k]
  <2>1. Z \in Seq(Event) /\ sp \in Seq(Event) /\ Len(sp) = 1
    BY <1>1, <1>2
  <2>2. /\ Z \o sp \in Seq(Event) /\ Len(Z \o sp) = Len(Z) + Len(sp)
        /\ \A k \in 1..Len(Z) : (Z \o sp)[k] = Z[k]
        /\ \A k \in 1..Len(sp) : (Z \o sp)[Len(Z) + k] = sp[k]
    <3> HIDE DEF r, s, q, i
    <3> QED BY <2>1, Joined
  <2> QED BY <2>1, <2>2
<1> HIDE DEF r
<1>5. r[Len(Z) + 1] = p /\ (Z = <<h>> => r[1] = h)
  BY <1>1, <1>2, <1>4
<1>6. /\ s \in Seq(Event) /\ Len(s) = 1 + Len(r) /\ Len(r) \in Nat
      /\ \A k \in 1..1 : s[k] = sa[k]
      /\ \A k \in 1..Len(r) : s[1 + k] = r[k]
  <2>1. /\ s \in Seq(Event) /\ Len(s) = Len(sa) + Len(r) /\ Len(r) \in Nat
        /\ \A k \in 1..Len(sa) : s[k] = sa[k]
        /\ \A k \in 1..Len(r) : s[Len(sa) + k] = r[k]
    <3>1. sa \in Seq(Event) /\ r \in Seq(Event)
      BY <1>1, <1>4
    <3> QED BY <3>1, Joined
  <2> HIDE DEF s
  <2> QED BY <1>1, <2>1
<1> HIDE DEF s
<1>7. s[1] = a /\ s[1 + (Len(Z) + 1)] = p /\ (Z = <<h>> => s[1 + 1] = h)
  BY <1>1, <1>2, <1>4, <1>5, <1>6
<1>8. i = 1 + (Len(Z) + 1) /\ i = Len(s) /\ i \in {2, 3} /\ (Z = <<h>> => i = 3) /\ (Z # <<h>> => i = 2)
  BY <1>2, <1>4, <1>6
<1>9. /\ q \in Seq(Event) /\ Len(q) = Len(s) + Len(B)
      /\ \A k \in 1..Len(s) : q[k] = s[k]
      /\ \A k \in 1..Len(q) :
            k \in 1..Len(s) \/ \E j \in 1..Len(B) : k = Len(s) + j /\ q[k] = B[j]
  BY <1>3, <1>6, Joined
<1> HIDE DEF q, i
<1>10. /\ i \in 1..Len(s) /\ 1 \in 1..Len(s) /\ (Z = <<h>> => 2 \in 1..Len(s))
       /\ s[i] = p /\ (Z = <<h>> => s[2] = h) /\ i \in 1..Len(q)
  BY <1>3, <1>7, <1>8, <1>9
<1>11. ASSUME NEW j \in 1..Len(q)
       PROVE  j = i \/ j = 1 \/ (Z = <<h>> /\ j = 2) \/ (B = <<c>> /\ q[j] = c)
  <2>1. CASE j \in 1..Len(s)
    BY <1>8, <2>1
  <2>2. CASE \E k \in 1..Len(B) : j = Len(s) + k /\ q[j] = B[k]
    BY <1>3, <2>2
  <2> QED BY <1>9, <2>1, <2>2
<1>12. q \in Seq(Event) /\ q[i] = p /\ q[1] = a /\ (Z = <<h>> => q[2] = h)
  BY <1>7, <1>9, <1>10
<1>13. Bundle(q, i, a, h, p, c, Z, B)
  BY <1>10, <1>11, <1>12 DEF Bundle
<1> QED BY <1>13 DEF q, s, r, sa, sp, i

LEMMA RemoteSaying ==
    ASSUME EmissionInv, NEW m \in Messages, M!RemoteSays(m)
    PROVE  EmissionInv'
<1> DEFINE a == M!Ev("event", "on_chat_model_stream", "root", m, 0)
           h == M!Ev("custom", "messages/metadata", "root", m, 0)
           p == M!Ev("custom", "messages/partial", "root", m, known[m] + 1)
           c == M!Ev("chunk", "messages", "root", m, 1)
           Z == IF known[m] = 0 THEN <<h>> ELSE <<>>
           B == IF "messages" \in M!StreamModes THEN <<c>> ELSE <<>>
           q == <<a>> \o (IF "messages" \notin asked THEN <<>> ELSE Z \o <<p>>) \o B
<1>1. /\ remote /\ M!Produce(q)
      /\ said' = [said EXCEPT ![m] = @ + 1]
      /\ known' = IF "messages" \in asked THEN [known EXCEPT ![m] = @ + 1] ELSE known
      /\ whole' = whole
  BY DEF M!RemoteSays
<1>2. /\ known \in [Messages -> Nat] /\ said \in [Messages -> Nat] /\ whole \subseteq Messages
  BY DEF EmissionInv, EmissionTypes
<1>3. /\ a \in Event /\ a.how = "event"
      /\ h \in Event /\ h.how = "custom" /\ h.name = "messages/metadata" /\ h.id = m
      /\ p \in Event /\ p.how = "custom" /\ p.name = "messages/partial" /\ p.id = m
      /\ p.n = known[m] + 1
      /\ c \in Event /\ c.how = "chunk" /\ c.name = "messages" /\ c.id = m
  BY <1>2, NewEvent, SMTT(30) DEF Hows, Printed
<1> HIDE DEF a, h, p, c
<1>4. "messages" \in M!StreamModes => "messages-tuple" \in asked
  BY <1>1 DEF M!StreamModes
<1>5. Kind(a) /\ ("messages" \in asked => Kind(h) /\ Kind(p)) /\ (B = <<c>> => Kind(c))
  <2>1. Kind(a)
    BY <1>3 DEF Kind, Says
  <2>2. ASSUME "messages" \in asked PROVE Kind(h) /\ Kind(p)
    BY <1>1, <1>3, <2>2 DEF Kind, Says
  <2>3. ASSUME B = <<c>> PROVE Kind(c)
    <3>1. "messages-tuple" \in asked
      BY <1>4, <2>3
    <3> QED BY <1>3, <3>1 DEF Kind, Says
  <2> QED BY <2>1, <2>2, <2>3
<1>6. Z \in {<<>>, <<h>>} /\ (Z = <<>> <=> known[m] # 0) /\ B \in {<<>>, <<c>>}
  OBVIOUS
<1>7. /\ whole' \subseteq Messages /\ known' \in [Messages -> Nat] /\ said' \in [Messages -> Nat]
      /\ \A r \in Messages : r # m => known'[r] = known[r]
  BY <1>1, <1>2
<1>8. \A r : ~IsPart(a, r) /\ ~IsHead(a, r) /\ ~IsPart(c, r) /\ ~IsHead(c, r)
             /\ ~IsHead(p, r) /\ ~IsPart(h, r)
  BY <1>3 DEF IsPart, IsHead
<1>9. IsPart(p, m) /\ IsHead(h, m) /\ \A r : r # m => ~IsPart(p, r) /\ ~IsHead(h, r)
  BY <1>3 DEF IsPart, IsHead
<1>10. CASE "messages" \in asked
  <2> DEFINE i == IF Z = <<>> THEN 2 ELSE 3
  <2>0. i = IF Z = <<>> THEN 2 ELSE 3
    OBVIOUS
  <2>1. q = <<a>> \o (Z \o <<p>>) \o B
    BY <1>10
  <2> DEFINE w == <<a>> \o (Z \o <<p>>) \o B
  <2> HIDE DEF Z, B, q
  <2>9. Bundle(w, i, a, h, p, c, Z, B)
    <3>1. /\ a \in Event /\ h \in Event /\ p \in Event /\ c \in Event
          /\ Z \in {<<>>, <<h>>} /\ B \in {<<>>, <<c>>}
      BY <1>3, <1>6
    <3> QED BY <3>1, Four
  <2>10. q = w
    BY <2>1
  <2> HIDE DEF i, w
  <2>2. /\ q \in Seq(Event) /\ q[i] = p /\ q[1] = a /\ i \in 1..Len(q)
        /\ Z = <<h>> => q[2] = h
        /\ \A j \in 1..Len(q) : \/ j = i \/ j = 1 \/ (Z = <<h>> /\ j = 2)
                                \/ (B = <<c>> /\ q[j] = c)
    BY <2>9, <2>10 DEF Bundle
  <2>3. \A j \in 1..Len(q) : Kind(q[j])
    BY <1>5, <1>10, <2>2
  <2>4. ASSUME NEW r \in Messages, r # m PROVE Together(r)'
    <3>1. \A j \in 1..Len(q) : ~IsPart(q[j], r) /\ ~IsHead(q[j], r)
      BY <1>8, <1>9, <2>2, <2>4
    <3>2. due' = due \o q /\ UNCHANGED <<remote, try, out, phase>>
      BY <1>1 DEF M!Produce, M!given
    <3> QED BY <1>1, <1>7, <2>2, <2>4, <3>1, <3>2, Unsaid
  <2>5. Together(m)'
    <3>1. /\ due' = due \o q /\ UNCHANGED <<remote, try, out, phase>> /\ phase = "streaming"
      BY <1>1 DEF M!Produce, M!given
    <3>2. \A j \in 1..Len(q) : IsPart(q[j], m) => j = i
      BY <1>8, <2>2
    <3>3. known[m] = 0 => i - 1 \in 1..Len(q) /\ IsHead(q[i - 1], m)
      <4> SUFFICES ASSUME known[m] = 0 PROVE i - 1 \in 1..Len(q) /\ IsHead(q[i - 1], m)
        OBVIOUS
      <4>1. Z = <<h>> /\ i = 3
        BY <1>6, <2>0
      <4> QED BY <1>9, <2>2, <4>1
    <3>4. \A j \in 1..Len(q) : IsHead(q[j], m) => j = i - 1 /\ known[m] = 0
      <4> SUFFICES ASSUME NEW j \in 1..Len(q), IsHead(q[j], m) PROVE j = i - 1 /\ known[m] = 0
        OBVIOUS
      <4>1. Z = <<h>> /\ j = 2
        BY <1>8, <2>2
      <4>2. <<h>> # <<>>
        OBVIOUS
      <4> QED BY <1>6, <2>0, <4>1, <4>2
    <3>5. known'[m] = known[m] + 1
      BY <1>1, <1>2, <1>10
    <3>6. IsPart(q[i], m) /\ q[i].n = known[m] + 1
      BY <1>3, <1>9, <2>2
    <3> QED BY <1>1, <2>2, <3>1, <3>2, <3>3, <3>4, <3>5, <3>6, PartAdded
  <2>6. \A r \in Messages : Together(r)'
    BY <2>4, <2>5
  <2> QED BY <1>1, <1>7, <2>2, <2>3, <2>6, Produced
<1>11. CASE "messages" \notin asked
  <2>1. q = (<<a>> \o <<>>) \o B /\ <<a>> \o <<>> = <<a>>
    BY <1>3, <1>11
  <2>2. q \in Seq(Event) /\ \A j \in 1..Len(q) : q[j] = a \/ (B = <<c>> /\ q[j] = c)
    <3>1. q = <<a>> \o B
      BY <2>1
    <3> HIDE DEF q, B
    <3> QED BY <1>3, <1>6, <3>1, Two
  <2> HIDE DEF q
  <2>3. \A j \in 1..Len(q) : Kind(q[j])
    BY <1>5, <2>2
  <2>4. ASSUME NEW r \in Messages PROVE Together(r)'
    <3>1. \A j \in 1..Len(q) : ~IsPart(q[j], r) /\ ~IsHead(q[j], r)
      BY <1>8, <2>2
    <3>2. due' = due \o q /\ UNCHANGED <<remote, try, out, phase>> /\ known'[r] = known[r]
      BY <1>1, <1>11 DEF M!Produce, M!given
    <3> QED BY <1>1, <2>2, <3>1, <3>2, Unsaid
  <2> QED BY <1>1, <1>7, <2>2, <2>3, <2>4, Produced
<1> QED BY <1>10, <1>11

LEMMA RemoteCompleting ==
    ASSUME EmissionInv, NEW m \in Messages, M!RemoteCompletes(m)
    PROVE  EmissionInv'
<1> DEFINE a == M!Ev("chunk", "values", "root", Checkpoint, 0)
           c == M!Ev("custom", "messages/complete", "root", m, 0)
           due_ == "messages" \in asked /\ M!TakenApart /\ ~subgraphs
           B == IF due_ THEN <<c>> ELSE <<>>
           q == <<a>> \o B
<1>1. /\ remote /\ M!Produce(q) /\ whole' = whole \cup {m} /\ UNCHANGED <<known, said>>
  BY DEF M!RemoteCompletes
<1>2. a \in Event /\ a.how = "chunk" /\ a.name = "values"
  <2>1. /\ "chunk" \in Hows /\ "values" \in Printed /\ 0 \in Nat
        /\ Checkpoint \in Messages \cup {Checkpoint}
    BY DEF Hows, Printed
  <2> QED BY <2>1, NewEvent
<1>3. c \in Event /\ c.how = "custom" /\ c.name = "messages/complete" /\ c.id = m
  BY NewEvent DEF Hows, Printed
<1> HIDE DEF a, c
<1>4. q \in Seq(Event) /\ \A j \in 1..Len(q) : q[j] = a \/ (due_ /\ q[j] = c)
  <2>1. B \in {<<>>, <<c>>} /\ (B = <<c>> => due_)
    BY <1>3, One
  <2> HIDE DEF B
  <2> QED BY <1>2, <1>3, <2>1, Two
<1> HIDE DEF q
<1>5. Kind(a) /\ (due_ => Kind(c))
  <2>1. Kind(a)
    BY <1>2 DEF Kind, Says
  <2>2. ASSUME due_ PROVE Kind(c)
    BY <1>1, <1>3, <2>2 DEF Kind, Says
  <2> QED BY <2>1, <2>2
<1>6. \A r : ~IsPart(a, r) /\ ~IsHead(a, r) /\ ~IsPart(c, r) /\ ~IsHead(c, r)
  BY <1>2, <1>3 DEF IsPart, IsHead
<1>7. ASSUME NEW r \in Messages PROVE Together(r)'
  <2>1. \A j \in 1..Len(q) : ~IsPart(q[j], r) /\ ~IsHead(q[j], r)
    BY <1>4, <1>6
  <2>2. due' = due \o q /\ UNCHANGED <<remote, try, out, phase>>
    BY <1>1 DEF M!Produce, M!given
  <2> QED BY <1>1, <1>4, <2>1, <2>2, Unsaid
<1>8. \A j \in 1..Len(q) : Kind(q[j])
  BY <1>4, <1>5
<1>9. whole' \subseteq Messages /\ known' \in [Messages -> Nat] /\ said' \in [Messages -> Nat]
  BY <1>1 DEF EmissionInv, EmissionTypes
<1> QED BY <1>1, <1>4, <1>7, <1>8, <1>9, Produced

----------------------------------------------------------------------------
(* What is yielded is published.                                           *)

LEMMA NewPub ==
    ASSUME NEW name \in Printed, NEW ns \in {"root", "sub"},
           NEW id \in Messages \cup {Checkpoint}, NEW n \in Nat, try \in Nat
    PROVE  LET x == M!Pub(name, ns, id, n)
           IN /\ x \in Entry /\ x.name = name /\ x.id = id /\ x.n = n /\ x.attempt = try
  BY DEF M!Pub, Entry

LEMMA Appended ==
    ASSUME NEW S, NEW s \in Seq(S), NEW x \in S
    PROVE  /\ s \o <<x>> = Append(s, x) /\ Append(s, x) \in Seq(S)
           /\ s \o <<>> = s
<1>1. <<x>> \in Seq(S) /\ Len(<<x>>) = 1 /\ <<x>>[1] = x
  BY One
<1> DEFINE t == <<x>>
           u == s \o t
           v == Append(s, x)
<1>2. /\ u \in Seq(S) /\ Len(u) = Len(s) + Len(t) /\ Len(s) \in Nat
      /\ \A k \in 1..Len(s) : u[k] = s[k]
      /\ \A k \in 1..Len(t) : u[Len(s) + k] = t[k]
  BY <1>1, Joined
<1>3. /\ v \in Seq(S) /\ Len(v) = Len(s) + 1 /\ v[Len(s) + 1] = x
      /\ \A k \in 1..Len(s) : v[k] = s[k]
  OBVIOUS
<1> HIDE DEF u, v, t
<1>4. Len(t) = 1 /\ t[1] = x
  BY <1>1 DEF t
<1>5. \A k \in 1..Len(u) : u[k] = v[k]
  BY <1>2, <1>3, <1>4
<1>6. u = v
  BY <1>2, <1>3, <1>4, <1>5, SeqEqual
<1>7. s \o <<>> = s
  OBVIOUS
<1> QED BY <1>3, <1>6, <1>7 DEF u, v, t

\* At most two entries are published: the first fits what there is, the second
\* what there is then.
Then(s, V, x) == IF V = <<>> THEN s ELSE Append(s, x)
Of(V, C) == IF V = <<>> THEN {} ELSE C

LEMMA OneByOne ==
    ASSUME NEW s \in Seq(Entry), NEW x \in Entry, NEW y \in Entry,
           NEW V \in {<<>>, <<x>>}, NEW Y \in {<<>>, <<y>>}
    PROVE  s \o (V \o Y) = Then(Then(s, V, x), Y, y)
<1>1. /\ V \in Seq(Entry) /\ Y \in Seq(Entry) /\ s \o V \in Seq(Entry)
      /\ V = <<>> \/ (V = <<x>> /\ V # <<>>)
      /\ Y = <<>> \/ (Y = <<y>> /\ Y # <<>>)
  <2>1. V \in Seq(Entry) /\ (V = <<>> \/ (V = <<x>> /\ V # <<>>))
    BY One
  <2>2. Y \in Seq(Entry) /\ (Y = <<>> \/ (Y = <<y>> /\ Y # <<>>))
    BY One
  <2> QED BY <2>1, <2>2, Joined
<1>2. s \o (V \o Y) = (s \o V) \o Y
  BY <1>1
<1>3. s \o V = Then(s, V, x)
  BY <1>1, Appended DEF Then
<1> DEFINE t == s \o V
<1>4. t \in Seq(Entry)
  BY <1>1
<1> HIDE DEF t
<1>5. t \o Y = Then(t, Y, y)
  BY <1>1, <1>4, Appended DEF Then
<1> QED BY <1>2, <1>3, <1>5 DEF t

Fitting(s, V, x, Y, y) ==
    /\ Fine(s) /\ try \in Nat /\ x \in Entry /\ y \in Entry
    /\ x.attempt = try /\ y.attempt = try
    /\ V \in {<<>>, <<x>>} /\ Y \in {<<>>, <<y>>}
    /\ V # <<>> => x.name \in NamesIn(try) /\ Fits(s, x)
    /\ Y # <<>> => y.name \in NamesIn(try) /\ Fits(Then(s, V, x), y)

Grown(t, s, V, x, Y, y) ==
    /\ Fine(t)
    /\ Chunks(t) = Chunks(s) \cup Of(V, ChunkOf(x)) \cup Of(Y, ChunkOf(y))
    /\ Headed(t) = Headed(s) \cup Of(V, HeadOf(x)) \cup Of(Y, HeadOf(y))

LEMMA Published ==
    ASSUME NEW s, NEW V, NEW x, NEW Y, NEW y, Fitting(s, V, x, Y, y)
    PROVE  Grown(s \o (V \o Y), s, V, x, Y, y)
<1> DEFINE t == Then(s, V, x)
           u == Then(t, Y, y)
<1>1. /\ Fine(t) /\ Chunks(t) = Chunks(s) \cup Of(V, ChunkOf(x))
      /\ Headed(t) = Headed(s) \cup Of(V, HeadOf(x))
  BY More DEF Fitting, Then, Of
<1>2. Y # <<>> => Fits(t, y)
  BY DEF Fitting
<1> HIDE DEF t
<1>3. /\ Fine(u) /\ Chunks(u) = Chunks(t) \cup Of(Y, ChunkOf(y))
      /\ Headed(u) = Headed(t) \cup Of(Y, HeadOf(y))
  BY <1>1, <1>2, More DEF Fitting, Then, Of
<1>4. s \in Seq(Entry)
  BY DEF Fine, Fitting
<1>5. s \o (V \o Y) = u
  <2>1. s \o (V \o Y) = Then(Then(s, V, x), Y, y)
    BY <1>4, OneByOne DEF Fitting
  <2> QED BY <2>1 DEF t
<1> QED BY <1>1, <1>3, <1>5 DEF Grown

\* An entry that is no chunk and no metadata of a message fits anywhere.
LEMMA PlainFits ==
    ASSUME NEW s, NEW x, x.name \notin {"messages/partial", "messages/metadata"}
    PROVE  Fits(s, x) /\ ChunkOf(x) = {} /\ HeadOf(x) = {}
  BY DEF Fits, ChunkOf, HeadOf

\* What a mode brings is asked for, and in a retry where it is not taken apart.
LEMMA NamesAsked ==
    /\ M!TakenApart =>
          /\ "messages" \in asked =>
                {"messages/metadata", "messages/partial", "messages/complete"} \subseteq NamesIn(try)
          /\ "messages-tuple" \in asked => "messages" \in NamesIn(try)
          /\ \A mode_ \in {"debug", "values"} : mode_ \in asked => mode_ \in NamesIn(try)
    /\ remote /\ "messages" \in asked =>
          {"messages/metadata", "messages/partial"} \subseteq NamesIn(try)
    /\ "events" \in asked => "events" \in NamesIn(try)
    /\ {"metadata", "error", "feedback"} \subseteq NamesIn(try)
<1> DEFINE All == M!Always \cup UNION {M!NamesOf(m) : m \in asked}
<1>1. ASSUME NEW mode_ \in asked PROVE M!NamesOf(mode_) \subseteq All
  OBVIOUS
<1>2. /\ M!NamesOf("messages") = {"messages/metadata", "messages/partial", "messages/complete"}
      /\ M!NamesOf("messages-tuple") = {"messages"}
      /\ \A mode_ \in {"debug", "values", "events"} : M!NamesOf(mode_) = {mode_}
  BY DEF M!NamesOf
<1>3. {"metadata", "error", "feedback"} = M!Always
  BY DEF M!Always
<1>4. M!Always \subseteq All
  OBVIOUS
<1>5. \A name : name \in NamesIn(try) <=>
         name \in All /\ (M!UsesEvents /\ try > 1 => name \in M!Always \cup M!Retried)
  BY DEF NamesIn
<1>6. M!TakenApart => ~(M!UsesEvents /\ try > 1)
  BY DEF M!TakenApart
<1>7. /\ "events" \in M!Retried
      /\ remote => {"messages/metadata", "messages/partial"} \subseteq M!Retried
  BY DEF M!Retried
<1> HIDE DEF All
<1>8. M!TakenApart => \A name : name \in NamesIn(try) <=> name \in All
  BY <1>5, <1>6
<1>9. M!TakenApart =>
         /\ "messages" \in asked =>
               {"messages/metadata", "messages/partial", "messages/complete"} \subseteq NamesIn(try)
         /\ "messages-tuple" \in asked => "messages" \in NamesIn(try)
         /\ \A mode_ \in {"debug", "values"} : mode_ \in asked => mode_ \in NamesIn(try)
  BY <1>1, <1>2, <1>8
<1>10. remote /\ "messages" \in asked =>
          {"messages/metadata", "messages/partial"} \subseteq NamesIn(try)
  BY <1>1, <1>2, <1>5, <1>7
<1>11. "events" \in asked => "events" \in NamesIn(try)
  BY <1>1, <1>2, <1>5, <1>7
<1>12. {"metadata", "error", "feedback"} \subseteq NamesIn(try)
  BY <1>3, <1>4, <1>5
<1> QED BY <1>9, <1>10, <1>11, <1>12

\* What is taken from the front moves the rest up.
LEMMA Taken ==
    ASSUME due \in Seq(Event), due # <<>>, due' = Tail(due)
    PROVE  /\ due' \in Seq(Event) /\ Len(due) \in Nat \ {0} /\ Len(due') = Len(due) - 1
           /\ due[1] = Head(due) /\ due[1] \in Event
           /\ \A k \in 1..Len(due') : k + 1 \in 1..Len(due) /\ due'[k] = due[k + 1]
           /\ \A k \in 1..Len(due) : k # 1 => k - 1 \in 1..Len(due') /\ due'[k - 1] = due[k]
<1>1. /\ due' \in Seq(Event) /\ Len(due) \in Nat \ {0} /\ Len(due') = Len(due) - 1
      /\ due[1] = Head(due)
      /\ \A k \in 1..Len(due') : due'[k] = due[k + 1]
  OBVIOUS
<1>2. ASSUME NEW k \in 1..Len(due'), due'[k] = due[k + 1]
      PROVE  k + 1 \in 1..Len(due)
  BY <1>1
<1>3. ASSUME NEW k \in 1..Len(due), k # 1
      PROVE  k - 1 \in 1..Len(due') /\ due'[k - 1] = due[k]
  <2>1. k - 1 \in 1..Len(due') /\ k - 1 + 1 = k
    BY <1>1, <1>3
  <2> QED BY <1>1, <2>1
<1> QED BY <1>1, <1>2, <1>3

\* Taking the next event of a JavaScript graph: a partial or the metadata that was
\* due is published.
LEMMA RemoteTaken ==
    ASSUME EmissionInv, remote, phase = "streaming", due # <<>>, due' = Tail(due),
           NEW m \in Messages, UNCHANGED <<remote, phase>>, known'[m] = known[m],
           \A n \in Nat : Sent(m, n)' <=> Sent(m, n) \/ (IsPart(due[1], m) /\ n = due[1].n),
           Started(m)' <=> Started(m) \/ IsHead(due[1], m)
    PROVE  Together(m)'
<1> DEFINE Now(n) == <<m, try', n>> \in Chunks(out')
<1>0. \A n \in Nat : Now(n) <=> Sent(m, n) \/ (IsPart(due[1], m) /\ n = due[1].n)
  BY DEF Sent
<1> HIDE DEF Now
<1>1. /\ due \in Seq(Event) /\ Counted(m) /\ RemoteAddsUp(m) /\ known[m] \in Nat
  BY DEF EmissionInv, EmissionTypes, Together
<1>2. /\ Len(due) \in Nat \ {0} /\ Len(due') = Len(due) - 1
      /\ \A k \in 1..Len(due') : k + 1 \in 1..Len(due) /\ due'[k] = due[k + 1]
      /\ \A k \in 1..Len(due) : k # 1 => k - 1 \in 1..Len(due') /\ due'[k - 1] = due[k]
  BY <1>1, Taken
<1>3. 1 \in 1..Len(due)
  BY <1>2
<1>4. /\ IsPart(due[1], m) => due[1].n \in 1..known[m]
      /\ IsHead(due[1], m) => known[m] > 0
  BY <1>1, <1>3 DEF RemoteAddsUp, PartInOrder, HeadInOrder
<1>5. Counted(m)'
  <2>1. ASSUME NEW n \in Nat, Sent(m, n)' PROVE n <= known'[m]
    BY <1>1, <1>4, <2>1 DEF Counted
  <2>2. Started(m)' => known'[m] > 0
    BY <1>1, <1>4 DEF Counted
  <2> QED BY <2>1, <2>2 DEF Counted
<1>6. ASSUME NEW k \in 1..Len(due'), IsPart(due'[k], m) PROVE PartInOrder(m, k)'
  <2>1. k + 1 \in 1..Len(due) /\ due'[k] = due[k + 1] /\ k \in Nat /\ k >= 1
    BY <1>2
  <2> DEFINE e == due[k + 1]
  <2>2. PartInOrder(m, k + 1)
    BY <1>1, <1>6, <2>1 DEF RemoteAddsUp
  <2>3. (k + 1) - 1 = k /\ 1 \in 1..k
    BY <2>1
  <2>4. /\ e.n \in 1..known[m]
        /\ \A n \in Nat : Sent(m, n) => n < e.n
        /\ \/ e.n = 1 \/ Sent(m, e.n - 1)
           \/ \E j \in 1..k : IsPart(due[j], m) /\ due[j].n = e.n - 1
        /\ \A j \in 1..k : IsPart(due[j], m) => due[j].n < e.n
        /\ Started(m) \/ \E j \in 1..k : IsHead(due[j], m)
    BY <2>2, <2>3 DEF PartInOrder
  <2> HIDE DEF e
  <2>5. e.n \in Nat /\ e.n - 1 \in Nat
    BY <1>1, <2>4
  <2>6. \A n \in Nat : Now(n) => n < e.n
    BY <1>0, <2>3, <2>4
  <2>7. \A j \in 1..k : j = 1 \/ (j - 1 \in 1..(k - 1) /\ due'[j - 1] = due[j])
    BY <1>2, <2>1
  <2>8. \/ e.n = 1 \/ Now(e.n - 1)
        \/ \E j \in 1..(k - 1) : IsPart(due'[j], m) /\ due'[j].n = e.n - 1
    BY <1>0, <2>4, <2>5, <2>7
  <2>9. \A j \in 1..(k - 1) : IsPart(due'[j], m) => due'[j].n < e.n
    <3>1. \A j \in 1..(k - 1) : j + 1 \in 1..k /\ due'[j] = due[j + 1]
      BY <1>2, <2>1
    <3> QED BY <2>4, <3>1
  <2>10. Started(m)' \/ \E j \in 1..(k - 1) : IsHead(due'[j], m)
    BY <2>4, <2>7
  <2>11. e = due'[k]
    BY <2>1 DEF e
  <2> QED BY <2>4, <2>6, <2>8, <2>9, <2>10, <2>11 DEF PartInOrder, Sent, Now
<1>7. ASSUME NEW k \in 1..Len(due'), IsHead(due'[k], m) PROVE HeadInOrder(m, k)'
  <2>1. k + 1 \in 1..Len(due) /\ due'[k] = due[k + 1] /\ k \in Nat /\ k >= 1
    BY <1>2
  <2>2. HeadInOrder(m, k + 1)
    BY <1>1, <1>7, <2>1 DEF RemoteAddsUp
  <2>3. (k + 1) - 1 = k /\ 1 \in 1..k
    BY <2>1
  <2>4. \A j \in 1..(k - 1) : j + 1 \in 1..k /\ due'[j] = due[j + 1]
    BY <1>2, <2>1
  <2> QED BY <2>2, <2>3, <2>4 DEF HeadInOrder
<1>8. ASSUME known[m] > 0
      PROVE  /\ \/ Now(known[m])
                \/ \E k \in 1..Len(due') : IsPart(due'[k], m) /\ due'[k].n = known[m]
             /\ Started(m)' \/ \E k \in 1..Len(due') : IsHead(due'[k], m)
  <2>1. \A k \in 1..Len(due) : k = 1 \/ (k - 1 \in 1..Len(due') /\ due'[k - 1] = due[k])
    BY <1>2
  <2>2. /\ Sent(m, known[m])
           \/ \E k \in 1..Len(due) : IsPart(due[k], m) /\ due[k].n = known[m]
        /\ Started(m) \/ \E k \in 1..Len(due) : IsHead(due[k], m)
    BY <1>1, <1>8 DEF RemoteAddsUp
  <2>3. Now(known[m]) \/ \E k \in 1..Len(due') : IsPart(due'[k], m) /\ due'[k].n = known[m]
    BY <1>0, <1>1, <2>1, <2>2
  <2>4. Started(m)' \/ \E k \in 1..Len(due') : IsHead(due'[k], m)
    BY <2>1, <2>2
  <2> QED BY <2>3, <2>4
<1>9. RemoteAddsUp(m)'
  BY <1>6, <1>7, <1>8 DEF RemoteAddsUp, Sent, Now
<1> QED BY <1>5, <1>9 DEF Together

\* Taking the next event of a Python graph: a chunk is put together with what was
\* said before.
LEMMA LocalTaken ==
    ASSUME EmissionInv, ~remote, due # <<>>, due' = Tail(due),
           NEW m \in Messages, UNCHANGED <<remote, said, whole>>,
           NEW F, F \in BOOLEAN, F => IsSaid(due[1], m),
           known'[m] = IF F THEN known[m] + 1 ELSE known[m],
           \A n \in Nat : Sent(m, n)' <=>
              Sent(m, n) \/ (F /\ due[1].name = "messages" /\ n = known[m] + 1),
           Started(m)' <=> Started(m) \/ F
    PROVE  Together(m)'
<1> DEFINE Now(n) == <<m, try', n>> \in Chunks(out')
<1>0. \A n \in Nat : Now(n) <=>
         Sent(m, n) \/ (F /\ due[1].name = "messages" /\ n = known[m] + 1)
  BY DEF Sent
<1> HIDE DEF Now
<1>1. /\ due \in Seq(Event) /\ Counted(m) /\ LocalAddsUp(m) /\ known[m] \in Nat
  BY DEF EmissionInv, EmissionTypes, Together
<1>2. /\ Len(due) \in Nat \ {0} /\ Len(due') = Len(due) - 1
      /\ \A k \in 1..Len(due') : k + 1 \in 1..Len(due) /\ due'[k] = due[k + 1]
  BY <1>1, Taken
<1>3. 1 \in 1..Len(due)
  BY <1>2
<1>4. F => SaidInOrder(m, 1) /\ due[1].name \in {"messages", "message"}
  BY <1>1, <1>3 DEF LocalAddsUp, IsSaid, Says
<1>5. Counted(m)'
  <2>1. ASSUME NEW n \in Nat, Sent(m, n)' PROVE n <= known'[m]
    BY <1>1, <2>1 DEF Counted
  <2>2. Started(m)' => known'[m] > 0
    BY <1>1 DEF Counted
  <2> QED BY <2>1, <2>2 DEF Counted
<1>6. ASSUME NEW k \in 1..Len(due'), IsSaid(due'[k], m) PROVE SaidInOrder(m, k)'
  <2>1. k + 1 \in 1..Len(due) /\ due'[k] = due[k + 1] /\ (k + 1) - 1 = k /\ 1 \in 1..k
    BY <1>2
  <2>2. SaidInOrder(m, k + 1)
    BY <1>1, <1>6, <2>1 DEF LocalAddsUp
  <2>3. \A j \in 1..(k - 1) : j + 1 \in 1..k /\ due'[j] = due[j + 1]
    BY <1>2, <2>1
  <2>4. due'[k].name = "message" => known'[m] = 0
    BY <2>1, <2>2 DEF SaidInOrder
  <2> QED BY <2>1, <2>2, <2>3, <2>4 DEF SaidInOrder
<1>7. known'[m] > 0 => said[m] > 0 /\ Started(m)' /\ (m \notin whole => Now(known'[m]))
  <2>1. CASE F
    <3>1. m \notin whole => due[1].name = "messages"
      BY <1>4, <2>1 DEF SaidInOrder
    <3>2. known'[m] = known[m] + 1 /\ known[m] + 1 \in Nat
      BY <1>1, <2>1
    <3>3. m \notin whole => Now(known[m] + 1)
      BY <1>0, <2>1, <3>1, <3>2
    <3> QED BY <1>4, <2>1, <3>2, <3>3 DEF SaidInOrder
  <2>2. CASE ~F
    BY <1>0, <1>1, <2>2 DEF LocalAddsUp
  <2> QED BY <2>1, <2>2
<1>8. LocalAddsUp(m)'
  BY <1>6, <1>7 DEF LocalAddsUp, Sent, Now
<1> QED BY <1>5, <1>8 DEF Together

\* What is yielded for each kind of event.
LEMMA WhatIsYielded ==
    ASSUME NEW e
    PROVE  /\ e.how = "custom" =>
                 M!Yielded(e) =
                    (IF "messages" \in asked THEN <<M!Pub(e.name, e.ns, e.id, e.n)>> ELSE <<>>)
                    \o (IF "events" \in asked THEN <<M!Pub("events", "root", e.id, 0)>> ELSE <<>>)
           /\ e.how = "event" \/ (e.how = "chunk" /\ ~M!TakenApart) =>
                 M!Yielded(e) =
                    IF "events" \in asked THEN <<M!Pub("events", "root", e.id, 0)>> ELSE <<>>
           /\ Says(e) /\ M!TakenApart /\ "messages-tuple" \in asked =>
                 M!Yielded(e) = <<M!Pub("messages", e.ns, e.id, 1)>>
           /\ Says(e) /\ M!TakenApart /\ "messages-tuple" \notin asked =>
                 M!Yielded(e) =
                    (IF known[e.id] = 0 THEN <<M!Pub("messages/metadata", e.ns, e.id, 0)>>
                     ELSE <<>>)
                    \o <<M!Pub(IF e.name = "messages" THEN "messages/partial"
                               ELSE "messages/complete", e.ns, e.id, known[e.id] + 1)>>
           /\ e.how = "chunk" /\ M!TakenApart /\ e.name \in {"debug", "values"} =>
                 M!Yielded(e) = IF e.name \in asked THEN <<M!Pub(e.name, e.ns, e.id, 0)>> ELSE <<>>
  BY DEF M!Yielded, M!AsEvent, Says

LEMMA TakingSays ==
    ASSUME EmissionInv, M!NextEvent
    PROVE  /\ phase = "streaming" /\ due # <<>> /\ due' = Tail(due)
           /\ out' = out \o M!Yielded(due[1]) /\ known' = M!Accumulated(due[1])
           /\ UNCHANGED <<asked, remote, subgraphs, phase, try, whole, said>>
           /\ 1 \in 1..Len(due) /\ Kind(due[1]) /\ due[1] \in Event
           /\ Fine(out) /\ out \in Seq(Entry) /\ try \in Nat /\ known \in [Messages -> Nat]
<1>1. due # <<>> /\ due' = Tail(due) /\ due \in Seq(Event)
  BY DEF M!NextEvent, EmissionInv, EmissionTypes
<1>2. /\ due[1] = Head(due) /\ due[1] \in Event /\ 1 \in 1..Len(due)
  BY <1>1, Taken
<1>3. /\ out' = out \o M!Yielded(due[1]) /\ known' = M!Accumulated(due[1])
      /\ phase = "streaming" /\ UNCHANGED <<asked, remote, subgraphs, phase, try, whole, said>>
  BY <1>2 DEF M!NextEvent, M!given, M!graph
<1>4. Kind(due[1])
  BY <1>2 DEF EmissionInv
<1>5. Fine(out) /\ out \in Seq(Entry) /\ try \in Nat /\ known \in [Messages -> Nat]
  BY DEF EmissionInv, EmissionTypes, Fine
<1> QED BY <1>1, <1>2, <1>3, <1>4, <1>5

LEMMA TakingKeeps ==
    ASSUME EmissionInv, M!NextEvent, Fine(out'), known' \in [Messages -> Nat],
           \A m \in Messages : Together(m)'
    PROVE  EmissionInv'
<1>1. /\ phase = "streaming" /\ due # <<>> /\ due' = Tail(due)
      /\ UNCHANGED <<asked, remote, subgraphs, phase, try, whole, said>>
  BY TakingSays
<1>2. due \in Seq(Event) /\ EmissionTypes /\ \A k \in 1..Len(due) : Kind(due[k])
  BY DEF EmissionInv, EmissionTypes
<1>3. /\ due' \in Seq(Event)
      /\ \A k \in 1..Len(due') : k + 1 \in 1..Len(due) /\ due'[k] = due[k + 1]
  BY <1>1, <1>2, Taken
<1>4. EmissionTypes'
  BY <1>1, <1>2, <1>3 DEF EmissionTypes
<1>5. Fine(out)'
  BY <1>1 DEF Fine, NamesIn, M!Retried, M!UsesEvents
<1>6. ASSUME NEW k \in 1..Len(due') PROVE Kind(due[k])'
  <2>1. Kind(due[k + 1]) /\ due'[k] = due[k + 1]
    BY <1>2, <1>3
  <2> QED BY <1>1, <2>1 DEF Kind, M!TakenApart, M!UsesEvents
<1> QED BY <1>1, <1>4, <1>5, <1>6 DEF EmissionInv

\* The names and the fields of what is due.
LEMMA FieldsOf ==
    ASSUME NEW e \in Event
    PROVE  /\ e.how \in Hows /\ e.name \in Printed /\ e.ns \in {"root", "sub"}
           /\ e.id \in Messages \cup {Checkpoint} /\ e.n \in Nat
  BY DEF Event

LEMMA TakingCustom ==
    ASSUME EmissionInv, M!NextEvent, due[1].how = "custom"
    PROVE  EmissionInv'
<1> DEFINE e == due[1]
           x == M!Pub(e.name, e.ns, e.id, e.n)
           y == M!Pub("events", "root", e.id, 0)
           V == IF "messages" \in asked THEN <<x>> ELSE <<>>
           Y == IF "events" \in asked THEN <<y>> ELSE <<>>
<1>1. /\ phase = "streaming" /\ due # <<>> /\ due' = Tail(due)
      /\ out' = out \o M!Yielded(e) /\ known' = M!Accumulated(e)
      /\ UNCHANGED <<asked, remote, subgraphs, phase, try, whole, said>>
      /\ 1 \in 1..Len(due) /\ Kind(e) /\ e \in Event
      /\ Fine(out) /\ out \in Seq(Entry) /\ try \in Nat /\ known \in [Messages -> Nat]
  BY TakingSays
<1>2. /\ remote /\ "messages" \in asked /\ e.id \in Messages
      /\ e.name \in {"messages/metadata", "messages/partial", "messages/complete"}
      /\ e.name = "messages/complete" => M!TakenApart
  BY <1>1 DEF Kind
<1>3. e.name \in Printed /\ e.ns \in {"root", "sub"} /\ e.n \in Nat
  BY <1>1, FieldsOf
<1>4. /\ x \in Entry /\ x.name = e.name /\ x.id = e.id /\ x.n = e.n /\ x.attempt = try
  BY <1>1, <1>2, <1>3, NewPub
<1>5. /\ y \in Entry /\ y.name = "events" /\ y.attempt = try
  <2>1. "events" \in Printed /\ 0 \in Nat /\ e.id \in Messages \cup {Checkpoint}
    BY <1>2 DEF Printed
  <2>2. e.ns \in {"root", "sub"} /\ try \in Nat
    BY <1>1, <1>3
  <2> QED BY <2>1, <2>2 DEF M!Pub, Entry
<1>6. out' = out \o (V \o Y) /\ known' = known
  <2>1. known' = known
    BY <1>1 DEF M!Accumulated
  <2>2. M!Yielded(e) = V \o Y
    BY WhatIsYielded
  <2> QED BY <1>1, <2>1, <2>2
<1> HIDE DEF x, y
<1>7. V = <<x>> /\ V # <<>> /\ V \in {<<>>, <<x>>} /\ Y \in {<<>>, <<y>>}
      /\ (Y # <<>> => "events" \in asked)
  BY <1>2
<1> HIDE DEF V, Y
<1>8. x.name \in NamesIn(try)
  BY <1>2, <1>4, NamesAsked
<1>9. Y # <<>> => y.name \in NamesIn(try)
  BY <1>5, <1>7, NamesAsked
<1>10. Together(e.id) /\ RemoteAddsUp(e.id)
  BY <1>2 DEF EmissionInv, Together
<1>11. Fits(out, x)
  <2>1. CASE e.name = "messages/partial"
    <3>1. PartInOrder(e.id, 1)
      BY <1>1, <1>10, <2>1 DEF RemoteAddsUp, IsPart
    <3>2. /\ \A n \in Nat : Sent(e.id, n) => n < e.n
          /\ e.n = 1 \/ Sent(e.id, e.n - 1)
          /\ Started(e.id)
      BY <3>1 DEF PartInOrder
    <3> QED BY <1>4, <2>1, <3>2 DEF Fits, Sent, Started
  <2>2. CASE e.name = "messages/metadata"
    <3>1. HeadInOrder(e.id, 1)
      BY <1>1, <1>10, <2>2 DEF RemoteAddsUp, IsHead
    <3> QED BY <1>4, <2>2, <3>1 DEF Fits, HeadInOrder, Started
  <2>3. CASE e.name = "messages/complete"
    BY <1>4, <2>3 DEF Fits
  <2> QED BY <1>2, <2>1, <2>2, <2>3
<1>12. Fits(Then(out, V, x), y) /\ ChunkOf(y) = {} /\ HeadOf(y) = {}
  BY <1>5, PlainFits
<1>13. /\ Fine(out')
       /\ Chunks(out') = Chunks(out) \cup ChunkOf(x)
       /\ Headed(out') = Headed(out) \cup HeadOf(x)
  <2>1. Fitting(out, V, x, Y, y)
    BY <1>1, <1>4, <1>5, <1>7, <1>8, <1>9, <1>11, <1>12 DEF Fitting
  <2>2. Grown(out', out, V, x, Y, y)
    BY <1>6, <2>1, Published
  <2> QED BY <1>7, <1>12, <2>2 DEF Grown, Of
<1>14. ASSUME NEW m \in Messages PROVE Together(m)'
  <2>1. \A n \in Nat : Sent(m, n)' <=> Sent(m, n) \/ (IsPart(e, m) /\ n = e.n)
    BY <1>1, <1>4, <1>13 DEF Sent, ChunkOf, IsPart
  <2>2. Started(m)' <=> Started(m) \/ IsHead(e, m)
    BY <1>1, <1>4, <1>13 DEF Started, HeadOf, IsHead
  <2>3. known'[m] = known[m]
    BY <1>6
  <2> QED BY <1>1, <1>2, <2>1, <2>2, <2>3, RemoteTaken
<1> QED BY <1>1, <1>6, <1>13, <1>14, TakingKeeps

\* Where what is published is no chunk and no metadata, and nothing is put together.
LEMMA TakingPlain ==
    ASSUME EmissionInv, M!NextEvent, due[1].how # "custom", known' = known,
           NEW x \in Entry, x.attempt = try, x.name \in NamesIn(try),
           x.name \notin {"messages/partial", "messages/metadata"},
           M!Yielded(due[1]) = <<>> \/ M!Yielded(due[1]) = <<x>>
    PROVE  EmissionInv'
<1> DEFINE e == due[1]
<1>1. /\ phase = "streaming" /\ due # <<>> /\ due' = Tail(due)
      /\ out' = out \o M!Yielded(e)
      /\ UNCHANGED <<asked, remote, subgraphs, phase, try, whole, said>>
      /\ Fine(out) /\ out \in Seq(Entry) /\ try \in Nat /\ known \in [Messages -> Nat]
  BY TakingSays
<1>2. Fits(out, x) /\ ChunkOf(x) = {} /\ HeadOf(x) = {}
  BY PlainFits
<1>3. out' = out \/ out' = Append(out, x)
  BY <1>1, Appended
<1>4. Fine(out') /\ Chunks(out') = Chunks(out) /\ Headed(out') = Headed(out)
  BY <1>1, <1>2, <1>3, More, ZenonT(30)
<1>5. ASSUME NEW m \in Messages PROVE Together(m)'
  <2>1. (\A n \in Nat : Sent(m, n)' <=> Sent(m, n)) /\ (Started(m)' <=> Started(m))
    BY <1>1, <1>4 DEF Sent, Started
  <2>2. ~IsPart(e, m) /\ ~IsHead(e, m)
    BY DEF IsPart, IsHead
  <2>3. CASE remote
    BY <1>1, <2>1, <2>2, <2>3, RemoteTaken
  <2>4. CASE ~remote
    <3> DEFINE F == FALSE
    <3>1. /\ F \in BOOLEAN /\ ~F
          /\ \A n \in Nat : Sent(m, n)' <=>
                Sent(m, n) \/ (F /\ due[1].name = "messages" /\ n = known[m] + 1)
          /\ Started(m)' <=> Started(m) \/ F
          /\ known'[m] = IF F THEN known[m] + 1 ELSE known[m]
      BY <2>1
    <3> HIDE DEF F
    <3> QED BY <1>1, <2>4, <3>1, LocalTaken
  <2> QED BY <2>3, <2>4
<1> QED BY <1>1, <1>4, <1>5, TakingKeeps

\* A chunk of a Python graph is put together with what was said, and published
\* behind its metadata.
LEMMA TakingChunk ==
    ASSUME EmissionInv, M!NextEvent, Says(due[1]), M!TakenApart, "messages-tuple" \notin asked
    PROVE  EmissionInv'
<1> DEFINE e == due[1]
           r == e.id
           z == IF e.name = "messages" THEN "messages/partial" ELSE "messages/complete"
           x == M!Pub("messages/metadata", e.ns, r, 0)
           y == M!Pub(z, e.ns, r, known[r] + 1)
           V == IF known[r] = 0 THEN <<x>> ELSE <<>>
           Y == <<y>>
<1>1. /\ phase = "streaming" /\ due # <<>> /\ due' = Tail(due)
      /\ out' = out \o M!Yielded(e) /\ known' = M!Accumulated(e)
      /\ UNCHANGED <<asked, remote, subgraphs, phase, try, whole, said>>
      /\ 1 \in 1..Len(due) /\ Kind(e) /\ e \in Event
      /\ Fine(out) /\ out \in Seq(Entry) /\ try \in Nat /\ known \in [Messages -> Nat]
  BY TakingSays
<1>2. ~remote /\ "messages" \in asked /\ r \in Messages
  BY <1>1 DEF Kind
<1>3. /\ e.how = "chunk" /\ e.name \in {"messages", "message"} /\ e.ns \in {"root", "sub"}
      /\ known[r] \in Nat /\ known[r] + 1 \in Nat /\ r \in Messages \cup {Checkpoint}
  <2>1. e.ns \in {"root", "sub"}
    BY <1>1, FieldsOf
  <2>2. known[r] \in Nat
    BY <1>1, <1>2
  <2> QED BY <1>2, <2>1, <2>2 DEF Says
<1>4. z \in Printed /\ z \in {"messages/partial", "messages/complete"} /\ "messages/metadata" \in Printed
      /\ (z = "messages/partial" <=> e.name = "messages")
  BY <1>3 DEF Printed
<1>5. /\ x \in Entry /\ x.name = "messages/metadata" /\ x.id = r /\ x.attempt = try
  BY <1>1, <1>3, <1>4 DEF M!Pub, Entry
<1>6. /\ y \in Entry /\ y.name = z /\ y.id = r /\ y.n = known[r] + 1 /\ y.attempt = try
  BY <1>1, <1>3, <1>4 DEF M!Pub, Entry
<1>7. out' = out \o (V \o Y)
  <2>1. M!Yielded(e) = V \o Y
    BY WhatIsYielded
  <2> QED BY <1>1, <2>1
<1>8. known' = [known EXCEPT ![r] = @ + 1]
  BY <1>1, <1>3 DEF M!Accumulated
<1> HIDE DEF x, y
<1>9. /\ V \in {<<>>, <<x>>} /\ (V # <<>> <=> known[r] = 0)
      /\ Y \in {<<>>, <<y>>} /\ Y # <<>>
  <2>1. <<x>> # <<>> /\ <<y>> # <<>>
    OBVIOUS
  <2> QED BY <2>1
<1> HIDE DEF V, Y
<1>10. x.name \in NamesIn(try) /\ y.name \in NamesIn(try)
  BY <1>2, <1>4, <1>5, <1>6, NamesAsked
<1>11. /\ Counted(r) /\ LocalAddsUp(r) /\ SaidInOrder(r, 1)
  <2>1. Counted(r) /\ LocalAddsUp(r)
    BY <1>2 DEF EmissionInv, Together
  <2> QED BY <1>1, <2>1 DEF LocalAddsUp, IsSaid
<1>12. V # <<>> => Fits(out, x)
  BY <1>5, <1>9, <1>11 DEF Fits, Counted, Started
<1> DEFINE s == Then(out, V, x)
<1>13. /\ Chunks(s) = Chunks(out)
       /\ Headed(s) = Headed(out) \cup Of(V, HeadOf(x))
  <2>1. ChunkOf(x) = {}
    BY <1>5 DEF ChunkOf
  <2> QED BY <1>1, <1>5, <2>1, ChunksOfMore DEF Then, Of
<1>14. <<r, try>> \in Headed(s)
  <2>1. CASE known[r] = 0
    BY <1>5, <1>9, <1>13, <2>1 DEF Of, HeadOf
  <2>2. CASE known[r] > 0
    BY <1>11, <1>13, <2>2 DEF LocalAddsUp, Started
  <2> QED BY <1>3, <2>1, <2>2
<1> HIDE DEF s
<1>15. Fits(s, y)
  <2>1. CASE z = "messages/partial"
    <3>1. r \notin whole
      BY <1>4, <1>11, <2>1 DEF SaidInOrder
    <3>2. known[r] = 0 \/ <<r, try, known[r]>> \in Chunks(s)
      BY <1>3, <1>11, <1>13, <3>1 DEF LocalAddsUp, Sent
    <3>3. \A n \in Nat : <<r, try, n>> \in Chunks(s) => n < known[r] + 1
      BY <1>3, <1>11, <1>13 DEF Counted, Sent
    <3>4. y.n - 1 = known[r] /\ (known[r] = 0 => y.n = 1)
      BY <1>3, <1>6
    <3> QED BY <1>6, <1>14, <2>1, <3>2, <3>3, <3>4 DEF Fits
  <2>2. CASE z = "messages/complete"
    BY <1>6, <2>2 DEF Fits
  <2> QED BY <1>4, <2>1, <2>2
<1>16. Grown(out', out, V, x, Y, y)
  <2>1. Fitting(out, V, x, Y, y)
    BY <1>1, <1>5, <1>6, <1>9, <1>10, <1>12, <1>15 DEF Fitting, s
  <2> QED BY <1>7, <2>1, Published
<1>17. /\ Fine(out')
       /\ Chunks(out') = Chunks(out) \cup ChunkOf(y)
       /\ Headed(out') = Headed(out) \cup Of(V, HeadOf(x))
  <2>1. ChunkOf(x) = {} /\ HeadOf(y) = {}
    BY <1>4, <1>5, <1>6 DEF ChunkOf, HeadOf
  <2> QED BY <1>9, <1>16, <2>1 DEF Grown, Of
<1>18. /\ known' \in [Messages -> Nat] /\ known'[r] = known[r] + 1
       /\ \A m \in Messages : m # r => known'[m] = known[m]
  BY <1>1, <1>2, <1>3, <1>8
<1> HIDE DEF z
<1>19. ASSUME NEW m \in Messages PROVE Together(m)'
  <2> DEFINE F == m = r
  <2>1. F \in BOOLEAN /\ (F => IsSaid(e, m))
    BY DEF IsSaid
  <2>2. known'[m] = IF F THEN known[m] + 1 ELSE known[m]
    BY <1>18
  <2>3. \A n \in Nat : Sent(m, n)' <=> Sent(m, n) \/ (F /\ e.name = "messages" /\ n = known[m] + 1)
    BY <1>1, <1>4, <1>6, <1>17 DEF Sent, ChunkOf
  <2>4. Started(m)' <=> Started(m) \/ F
    <3>1. CASE known[r] = 0
      BY <1>1, <1>5, <1>9, <1>17, <3>1 DEF Started, Of, HeadOf
    <3>2. CASE known[r] > 0
      <4>1. Headed(out') = Headed(out) /\ Started(r)
        BY <1>9, <1>11, <1>17, <3>2 DEF Of, LocalAddsUp
      <4> QED BY <1>1, <4>1 DEF Started
    <3> QED BY <1>3, <3>1, <3>2
  <2> HIDE DEF F
  <2> QED BY <1>1, <1>2, <2>1, <2>2, <2>3, <2>4, LocalTaken
<1> QED BY <1>17, <1>18, <1>19, TakingKeeps

LEMMA Taking ==
    ASSUME EmissionInv, M!NextEvent
    PROVE  EmissionInv'
<1> DEFINE e == due[1]
<1>1. /\ Kind(e) /\ e \in Event /\ try \in Nat /\ known' = M!Accumulated(e)
  BY TakingSays
<1>2. /\ e.how \in {"custom", "event", "chunk"} /\ e.ns \in {"root", "sub"}
      /\ e.id \in Messages \cup {Checkpoint}
      /\ e.how = "chunk" => e.name \in {"debug", "values", "messages", "message"}
  BY <1>1, FieldsOf DEF Kind
<1>3. CASE e.how = "custom"
  BY <1>3, TakingCustom
<1>4. CASE Says(e) /\ M!TakenApart /\ "messages-tuple" \notin asked
  BY <1>4, TakingChunk
<1>5. CASE Says(e) /\ M!TakenApart /\ "messages-tuple" \in asked
  <2> DEFINE x == M!Pub("messages", e.ns, e.id, 1)
  <2>1. M!Yielded(e) = <<x>>
    BY <1>5, WhatIsYielded
  <2>2. x \in Entry /\ x.attempt = try /\ x.name = "messages"
    BY <1>1, <1>2 DEF M!Pub, Entry, Printed
  <2>3. x.name \in NamesIn(try)
    BY <1>5, <2>2, NamesAsked
  <2>4. known' = known /\ e.how # "custom"
    BY <1>1, <1>5 DEF M!Accumulated, Says
  <2> HIDE DEF x
  <2> QED BY <1>5, <2>1, <2>2, <2>3, <2>4, TakingPlain
<1>6. CASE e.how = "event" \/ (e.how = "chunk" /\ ~M!TakenApart)
  <2> DEFINE x == M!Pub("events", "root", e.id, 0)
  <2>1. M!Yielded(e) = IF "events" \in asked THEN <<x>> ELSE <<>>
    BY <1>6, WhatIsYielded
  <2>2. x \in Entry /\ x.attempt = try /\ x.name = "events"
    BY <1>1, <1>2 DEF M!Pub, Entry, Printed
  <2>3. known' = known /\ e.how # "custom"
    BY <1>1, <1>6 DEF M!Accumulated
  <2> HIDE DEF x
  <2>4. CASE "events" \in asked
    BY <2>1, <2>2, <2>3, <2>4, NamesAsked, TakingPlain
  <2>5. CASE "events" \notin asked
    <3> DEFINE w == M!Pub("metadata", e.ns, e.id, 0)
    <3>1. w \in Entry /\ w.attempt = try /\ w.name = "metadata"
      BY <1>1, <1>2 DEF M!Pub, Entry, Printed
    <3> HIDE DEF w
    <3> QED BY <2>1, <2>3, <2>5, <3>1, NamesAsked, TakingPlain
  <2> QED BY <2>4, <2>5
<1>7. CASE e.how = "chunk" /\ M!TakenApart /\ e.name \in {"debug", "values"}
  <2> DEFINE x == M!Pub(e.name, e.ns, e.id, 0)
  <2>1. M!Yielded(e) = IF e.name \in asked THEN <<x>> ELSE <<>>
    BY <1>7, WhatIsYielded
  <2>2. x \in Entry /\ x.attempt = try /\ x.name = e.name
    BY <1>1, <1>2, <1>7 DEF M!Pub, Entry, Printed
  <2>3. known' = known /\ e.how # "custom"
    BY <1>1, <1>7 DEF M!Accumulated
  <2> HIDE DEF x
  <2>4. CASE e.name \in asked
    BY <1>7, <2>1, <2>2, <2>3, <2>4, NamesAsked, TakingPlain
  <2>5. CASE e.name \notin asked
    <3> DEFINE w == M!Pub("metadata", e.ns, e.id, 0)
    <3>1. w \in Entry /\ w.attempt = try /\ w.name = "metadata"
      BY <1>1, <1>2 DEF M!Pub, Entry, Printed
    <3> HIDE DEF w
    <3> QED BY <2>1, <2>3, <2>5, <3>1, NamesAsked, TakingPlain
  <2> QED BY <2>4, <2>5
<1> QED BY <1>2, <1>3, <1>4, <1>5, <1>6, <1>7 DEF Says

\* Publishing an entry that is no part of a message, where nothing is due.
LEMMA Between ==
    ASSUME EmissionInv, NEW name \in {"metadata", "error", "feedback"},
           out' = Append(out, M!Pub(name, "root", Checkpoint, 0)) \/ out' = out,
           UNCHANGED <<asked, remote, subgraphs, try, whole, said, known>>,
           due' = <<>>, phase' \in {"streaming", "over"},
           remote /\ phase' = "streaming" => \A m \in Messages : known[m] = 0
    PROVE  EmissionInv'
<1> DEFINE x == M!Pub(name, "root", Checkpoint, 0)
<1>1. Fine(out) /\ out \in Seq(Entry) /\ try \in Nat /\ EmissionTypes
      /\ \A m \in Messages : Together(m)
  BY DEF EmissionInv, EmissionTypes, Fine
<1>2. x \in Entry /\ x.attempt = try /\ x.name = name
  BY <1>1 DEF M!Pub, Entry, Printed
<1>3. out' = Append(out, x) \/ out' = out
  OBVIOUS
<1> HIDE DEF x
<1>4. name \in NamesIn(try)
  BY NamesAsked
<1>5. Fits(out, x) /\ ChunkOf(x) = {} /\ HeadOf(x) = {}
  BY <1>2, PlainFits
<1>6. Fine(out') /\ Chunks(out') = Chunks(out) /\ Headed(out') = Headed(out)
  <2>1. /\ Fine(out) /\ try \in Nat /\ x \in Entry /\ x.attempt = try
        /\ x.name \in NamesIn(try) /\ Fits(out, x)
    BY <1>1, <1>2, <1>4, <1>5
  <2>2. /\ Fine(Append(out, x))
        /\ Chunks(Append(out, x)) = Chunks(out) \cup ChunkOf(x)
        /\ Headed(Append(out, x)) = Headed(out) \cup HeadOf(x)
    BY <2>1, More
  <2> QED BY <1>1, <1>3, <1>5, <2>2
<1>7. Fine(out)'
  BY <1>6 DEF Fine, NamesIn, M!Retried, M!UsesEvents
<1>8. due' \in Seq(Event) /\ Len(due') = 0
  OBVIOUS
<1>9. EmissionTypes'
  BY <1>1, <1>8 DEF EmissionTypes
<1>10. ASSUME NEW m \in Messages PROVE Together(m)'
  <2>1. (\A n : Sent(m, n)' <=> Sent(m, n)) /\ (Started(m)' <=> Started(m))
    BY <1>6 DEF Sent, Started
  <2>2. Counted(m)'
    BY <1>1, <2>1 DEF Together, Counted
  <2>3. remote => RemoteAddsUp(m)'
    BY <1>1, <1>8, <2>1 DEF RemoteAddsUp, EmissionTypes
  <2>4. ~remote => LocalAddsUp(m)'
    <3>1. ASSUME ~remote
          PROVE  known[m] > 0 => said[m] > 0 /\ Started(m) /\ (m \notin whole => Sent(m, known[m]))
      BY <1>1, <3>1 DEF Together, LocalAddsUp
    <3> QED BY <1>6, <1>8, <3>1 DEF LocalAddsUp, Sent, Started
  <2> QED BY <2>2, <2>3, <2>4 DEF Together
<1> QED BY <1>7, <1>8, <1>9, <1>10 DEF EmissionInv

\* Where nothing is put together, said or published of an attempt, all adds up.
LEMMA FromTheStart ==
    ASSUME \A m \in Messages : known[m] = 0,
           \A i \in 1..Len(out) : out[i].attempt # try,
           due = <<>>
    PROVE  \A m \in Messages : Together(m)
<1> SUFFICES ASSUME NEW m \in Messages PROVE Together(m)
  OBVIOUS
<1>1. (\A n : ~Sent(m, n)) /\ ~Started(m)
  BY DEF Sent, Started, Chunks, Headed
<1>2. Len(due) = 0
  OBVIOUS
<1> QED BY <1>1, <1>2 DEF Together, Counted, RemoteAddsUp, LocalAddsUp

LEMMA FromTheStartNext ==
    (/\ \A m \in Messages : known[m] = 0
     /\ \A i \in 1..Len(out) : out[i].attempt # try
     /\ due = <<>>)' => (\A m \in Messages : Together(m))'
<1>1. (/\ \A m \in Messages : known[m] = 0
       /\ \A i \in 1..Len(out) : out[i].attempt # try
       /\ due = <<>>) => \A m \in Messages : Together(m)
  BY FromTheStart
<1> QED BY <1>1, PTL

LEMMA EmissionStarts == M!Init => EmissionInv
<1> SUFFICES ASSUME M!Init PROVE EmissionInv
  OBVIOUS
<1>1. /\ asked \in Streams /\ remote \in BOOLEAN /\ subgraphs \in BOOLEAN
      /\ phase = "begin" /\ try = 1 /\ whole = {} /\ due = <<>> /\ out = <<>>
      /\ known = [m \in Messages |-> 0] /\ said = [m \in Messages |-> 0]
  BY DEF M!Init, M!Fresh
<1>2. asked \in SUBSET M!Modes
  BY <1>1, EmissionAssumed DEF M!EmissionAssumption
<1>3. EmissionTypes
  BY <1>1, <1>2 DEF EmissionTypes
<1>4. Len(out) = 0 /\ out \in Seq(Entry) /\ Len(due) = 0
  BY <1>1
<1>5. Fine(out)
  BY <1>4 DEF Fine, AddsUp
<1>6. \A m \in Messages : Together(m)
  BY <1>1, <1>4, FromTheStart
<1> QED BY <1>1, <1>3, <1>4, <1>5, <1>6 DEF EmissionInv

LEMMA EmissionGoesOn == EmissionInv /\ [M!Next]_(M!vars) => EmissionInv'
<1> SUFFICES ASSUME EmissionInv, [M!Next]_(M!vars) PROVE EmissionInv'
  OBVIOUS
<1>0. EmissionTypes /\ Fine(out)
  BY DEF EmissionInv
<1>1. ASSUME NEW mode_ \in {"debug", "values"}, NEW ns \in M!Namespaces, M!GraphSteps(mode_, ns)
      PROVE  EmissionInv'
  BY <1>1, StepsAndTraces
<1>2. ASSUME NEW m \in Messages, NEW all \in BOOLEAN, M!GraphSays(m, all) PROVE EmissionInv'
  BY <1>2, Saying
<1>3. ASSUME NEW m \in Messages, M!RemoteSays(m) PROVE EmissionInv'
  BY <1>3, RemoteSaying
<1>4. ASSUME NEW m \in Messages, M!RemoteCompletes(m) PROVE EmissionInv'
  BY <1>4, RemoteCompleting
<1>5. CASE M!GraphTraces
  BY <1>5, StepsAndTraces
<1>6. CASE M!Begin
  <2>1. /\ phase = "begin" /\ phase' = "streaming" /\ due = <<>> /\ due' = due
        /\ out' = Append(out, M!Pub("metadata", "root", Checkpoint, 0))
        /\ UNCHANGED <<asked, remote, subgraphs, try, whole, said, known>>
    BY <1>6 DEF M!Begin, M!given, M!graph, EmissionInv
  <2>2. \A m \in Messages : known[m] = 0
    BY <2>1 DEF EmissionInv
  <2> QED BY <2>1, <2>2, Between
<1>7. CASE M!NextEvent
  BY <1>7, Taking
<1>8. ASSUME NEW f \in BOOLEAN, M!End(f) PROVE EmissionInv'
  <2>1. /\ phase' = "over" /\ due = <<>> /\ due' = due
        /\ out' = Append(out, M!Pub("feedback", "root", Checkpoint, 0)) \/ out' = out
        /\ UNCHANGED <<asked, remote, subgraphs, try, whole, said, known>>
    BY <1>8 DEF M!End, M!given, M!graph
  <2> QED BY <2>1, Between
<1>9. CASE M!Fail
  <2>1. /\ phase' = "over" /\ due' = <<>>
        /\ out' = Append(out, M!Pub("error", "root", Checkpoint, 0))
        /\ UNCHANGED <<asked, remote, subgraphs, try, whole, said, known>>
    BY <1>9 DEF M!Fail, M!given, M!graph
  <2> QED BY <2>1, Between
<1>10. CASE M!Retry
  <2>1. /\ phase = "over" /\ phase' = "begin" /\ try' = try + 1 /\ due = <<>> /\ due' = due
        /\ known' = [m \in Messages |-> 0] /\ said' = [m \in Messages |-> 0] /\ whole' = {}
        /\ UNCHANGED <<asked, remote, subgraphs, out>>
    BY <1>10 DEF M!Retry, M!given, M!Fresh, EmissionInv
  <2>2. EmissionTypes'
    BY <1>0, <2>1 DEF EmissionTypes
  <2>3. \A i \in 1..Len(out) : out[i].attempt \in Nat /\ out[i].attempt <= try
    <3>1. out \in Seq(Entry) /\ \A i \in 1..Len(out) : out[i].attempt <= try
      BY <1>0 DEF Fine
    <3>2. \A i \in 1..Len(out) : out[i] \in Entry
      BY <3>1
    <3> QED BY <3>1, <3>2 DEF Entry
  <2>4. try \in Nat
    BY <1>0 DEF EmissionTypes
  <2>5. \A i \in 1..Len(out) : out[i].attempt <= try + 1 /\ out[i].attempt # try + 1
    BY <2>3, <2>4
  <2>6. Fine(out)'
    BY <1>0, <2>1, <2>5 DEF Fine, NamesIn, M!Retried, M!UsesEvents
  <2>7. (\A m \in Messages : Together(m))'
    BY <2>1, <2>5, FromTheStartNext
  <2>8. \A m \in Messages : known'[m] = 0
    BY <2>1
  <2>9. Len(due') = 0
    BY <2>1
  <2> QED BY <2>1, <2>2, <2>6, <2>7, <2>8, <2>9 DEF EmissionInv
<1>11. CASE UNCHANGED M!vars
  <2>1. UNCHANGED <<asked, remote, subgraphs, phase, try, steps, whole, said, due, known, out>>
    BY <1>11 DEF M!vars, M!given, M!graph
  <2> QED BY <2>1 DEF EmissionInv, EmissionTypes, Fine, NamesIn, M!Retried, M!UsesEvents,
          M!TakenApart, Kind, Together, Counted, RemoteAddsUp, LocalAddsUp, PartInOrder,
          HeadInOrder, SaidInOrder, Sent, Started
<1> QED BY <1>1, <1>2, <1>3, <1>4, <1>5, <1>6, <1>7, <1>8, <1>9, <1>10, <1>11 DEF M!Next

----------------------------------------------------------------------------
(* What the graph has said of a message is put together, or is due.        *)

ReachesOf(m) ==
    /\ remote /\ "messages" \in asked => known[m] = said[m]
    /\ ~remote /\ ~M!TakenApart => known[m] = 0
    /\ (~remote /\ M!TakenApart /\ "messages-tuple" \notin asked /\ phase = "streaming") =>
          (said[m] > 0 => known[m] > 0 \/ \E k \in 1..Len(due) : IsSaid(due[k], m))
    /\ phase = "begin" => said[m] = 0

ReachInv == \A m \in Messages : ReachesOf(m)

\* Where nothing is due that was said, what is put together is what was said.
LEMMA WhatReaches == EmissionInv /\ ReachInv => M!MessagesReach
<1> SUFFICES ASSUME EmissionInv, ReachInv, phase = "streaming", due = <<>>, "messages" \in asked,
                    remote \/ "messages-tuple" \notin asked, NEW m \in Messages
             PROVE  (\E i \in 1..Len(out) : /\ M!Metadata(i) /\ out[i].id = m
                                           /\ out[i].attempt = try)
                       <=> said[m] > 0 /\ (remote \/ M!TakenApart)
  BY DEF M!MessagesReach
<1>1. Started(m) <=> \E i \in 1..Len(out) : M!Metadata(i) /\ out[i].id = m /\ out[i].attempt = try
  BY DEF Started, Headed, M!Metadata
<1>2. /\ Together(m) /\ ReachesOf(m) /\ known[m] \in Nat /\ said[m] \in Nat
      /\ 1..Len(due) = {}
  BY DEF EmissionInv, EmissionTypes, ReachInv
<1>3. Started(m) => known[m] > 0
  BY <1>2 DEF Together, Counted
<1>4. CASE remote
  BY <1>1, <1>2, <1>3, <1>4 DEF Together, RemoteAddsUp, ReachesOf
<1>5. CASE ~remote /\ M!TakenApart
  <2>1. /\ said[m] > 0 => known[m] > 0
        /\ known[m] > 0 => said[m] > 0 /\ Started(m)
    BY <1>2, <1>5 DEF Together, LocalAddsUp, ReachesOf
  <2> QED BY <1>1, <1>3, <1>5, <2>1
<1>6. CASE ~remote /\ ~M!TakenApart
  BY <1>1, <1>2, <1>3, <1>6 DEF ReachesOf
<1> QED BY <1>4, <1>5, <1>6

LEMMA ReachStarts == M!Init => ReachInv
  BY DEF M!Init, M!Fresh, ReachInv, ReachesOf

\* What is produced leaves what was due.
LEMMA ReachMore ==
    ASSUME EmissionInv, ReachInv, NEW q \in Seq(Event), M!Produce(q), NEW m \in Messages,
           remote /\ "messages" \in asked => known'[m] - said'[m] = known[m] - said[m],
           ~remote => /\ known'[m] = known[m]
                      /\ said'[m] = said[m] \/ \E i \in 1..Len(q) : IsSaid(q[i], m),
           known'[m] \in Nat, said'[m] \in Nat
    PROVE  ReachesOf(m)'
<1>1. /\ due' = due \o q /\ phase = "streaming" /\ UNCHANGED <<asked, remote, phase, try>>
      /\ due \in Seq(Event) /\ ReachesOf(m) /\ known[m] \in Nat /\ said[m] \in Nat
  BY DEF M!Produce, M!given, EmissionInv, EmissionTypes, ReachInv
<1>2. M!TakenApart' <=> M!TakenApart
  BY <1>1 DEF M!TakenApart, M!UsesEvents
<1>3. /\ \A k \in 1..Len(due) : k \in 1..Len(due') /\ due'[k] = due[k]
      /\ \A k \in 1..Len(q) : Len(due) + k \in 1..Len(due') /\ due'[Len(due) + k] = q[k]
  BY <1>1, Queued
<1>4. (\E k \in 1..Len(due) : IsSaid(due[k], m)) \/ (\E i \in 1..Len(q) : IsSaid(q[i], m))
         => \E k \in 1..Len(due') : IsSaid(due'[k], m)
  BY <1>3
<1>5. (remote /\ "messages" \in asked => known[m] = said[m])'
  BY <1>1 DEF ReachesOf
<1>6. (~remote /\ ~M!TakenApart => known[m] = 0)'
  BY <1>1, <1>2 DEF ReachesOf
<1>7. ASSUME ~remote, M!TakenApart, "messages-tuple" \notin asked, said'[m] > 0
      PROVE  known'[m] > 0 \/ \E k \in 1..Len(due') : IsSaid(due'[k], m)
  BY <1>1, <1>4, <1>7 DEF ReachesOf
<1> QED BY <1>1, <1>2, <1>5, <1>6, <1>7 DEF ReachesOf, IsSaid, Says

LEMMA ReachProduced ==
    ASSUME EmissionInv, ReachInv,
           \/ \E mode_ \in {"debug", "values"}, ns \in M!Namespaces : M!GraphSteps(mode_, ns)
           \/ \E m \in Messages, all \in BOOLEAN : M!GraphSays(m, all)
           \/ \E m \in Messages : M!RemoteSays(m)
           \/ \E m \in Messages : M!RemoteCompletes(m)
           \/ M!GraphTraces
    PROVE  ReachInv'
<1>1. EmissionTypes /\ known \in [Messages -> Nat] /\ said \in [Messages -> Nat]
  BY DEF EmissionInv, EmissionTypes
<1>2. ASSUME NEW mode_ \in {"debug", "values"}, NEW ns \in M!Namespaces, M!GraphSteps(mode_, ns)
      PROVE  ReachInv'
  <2> DEFINE e == M!Ev("chunk", mode_, ns, Checkpoint, 0)
  <2>1. e \in Event
    BY DEF M!Ev, Event, Hows, Printed, M!Namespaces
  <2> HIDE DEF e
  <2>2. <<e>> \in Seq(Event) /\ M!Produce(<<e>>) /\ UNCHANGED <<known, said>>
    BY <1>2, <2>1 DEF M!GraphSteps, e
  <2>3. ASSUME NEW m \in Messages PROVE ReachesOf(m)'
    BY <1>1, <2>2, ReachMore
  <2> QED BY <2>3 DEF ReachInv
<1>3. ASSUME NEW m \in Messages, NEW all \in BOOLEAN, M!GraphSays(m, all) PROVE ReachInv'
  <2> DEFINE e == M!Ev("chunk", IF all THEN "message" ELSE "messages", "root", m, 1)
  <2>1. e \in Event /\ IsSaid(e, m)
    BY DEF M!Ev, Event, Hows, Printed, IsSaid, Says
  <2> HIDE DEF e
  <2>2. /\ <<e>> \in Seq(Event) /\ Len(<<e>>) = 1 /\ <<e>>[1] = e /\ M!Produce(<<e>>)
        /\ ~remote /\ known' = known /\ said' = [said EXCEPT ![m] = @ + 1]
    BY <1>3, <2>1 DEF M!GraphSays, e
  <2>3. ASSUME NEW r \in Messages PROVE ReachesOf(r)'
    <3>1. said'[r] = said[r] \/ \E i \in 1..Len(<<e>>) : IsSaid(<<e>>[i], r)
      BY <1>1, <2>1, <2>2
    <3>2. said'[r] \in Nat /\ known'[r] = known[r] /\ known'[r] \in Nat
      BY <1>1, <2>2
    <3> QED BY <2>2, <3>1, <3>2, ReachMore
  <2> QED BY <2>3 DEF ReachInv
<1>4. ASSUME NEW m \in Messages, M!RemoteSays(m) PROVE ReachInv'
  <2>1. /\ remote /\ said' = [said EXCEPT ![m] = @ + 1]
        /\ known' = IF "messages" \in asked THEN [known EXCEPT ![m] = @ + 1] ELSE known
        /\ phase = "streaming" /\ UNCHANGED <<asked, remote, phase>>
    BY <1>4 DEF M!RemoteSays, M!Produce, M!given
  <2>2. ASSUME NEW r \in Messages PROVE ReachesOf(r)'
    <3>1. "messages" \in asked => known[r] = said[r]
      BY <2>1 DEF ReachInv, ReachesOf
    <3>2. "messages" \in asked => known'[r] = said'[r]
      BY <1>1, <2>1, <3>1
    <3> QED BY <2>1, <3>2 DEF ReachesOf
  <2> QED BY <2>2 DEF ReachInv
<1>5. ASSUME NEW m \in Messages, M!RemoteCompletes(m) PROVE ReachInv'
  <2>1. /\ remote /\ phase = "streaming" /\ UNCHANGED <<asked, remote, phase, known, said>>
    BY <1>5 DEF M!RemoteCompletes, M!Produce, M!given
  <2> QED BY <2>1 DEF ReachInv, ReachesOf
<1>6. ASSUME M!GraphTraces PROVE ReachInv'
  <2> DEFINE e == M!Ev("event", "on_chain_start", "root", Checkpoint, 0)
  <2>1. e \in Event
    BY DEF M!Ev, Event, Hows, Printed
  <2> HIDE DEF e
  <2>2. <<e>> \in Seq(Event) /\ M!Produce(<<e>>) /\ UNCHANGED <<known, said>>
    BY <1>6, <2>1 DEF M!GraphTraces, e
  <2>3. ASSUME NEW m \in Messages PROVE ReachesOf(m)'
    BY <1>1, <2>2, ReachMore
  <2> QED BY <2>3 DEF ReachInv
<1> QED BY <1>2, <1>3, <1>4, <1>5, <1>6

\* What was due is put together when it is taken.
LEMMA ReachTaken ==
    ASSUME EmissionInv, ReachInv, M!NextEvent
    PROVE  ReachInv'
<1> DEFINE e == due[1]
<1>1. /\ phase = "streaming" /\ due # <<>> /\ due' = Tail(due) /\ known' = M!Accumulated(e)
      /\ UNCHANGED <<asked, remote, phase, try, said>> /\ 1 \in 1..Len(due) /\ Kind(e)
      /\ known \in [Messages -> Nat] /\ due \in Seq(Event)
  BY TakingSays DEF EmissionInv, EmissionTypes
<1>2. /\ M!TakenApart' <=> M!TakenApart
      /\ \A k \in 1..Len(due) : k # 1 => k - 1 \in 1..Len(due') /\ due'[k - 1] = due[k]
  BY <1>1, Taken DEF M!TakenApart, M!UsesEvents
<1>3. remote \/ ~M!TakenApart => known' = known
  BY <1>1 DEF M!Accumulated, Kind, Says
<1>4. ASSUME NEW m \in Messages PROVE ReachesOf(m)'
  <2>1. ReachesOf(m) /\ known[m] \in Nat
    BY <1>1 DEF ReachInv
  <2>2. CASE remote
    BY <1>1, <1>3, <2>1, <2>2 DEF ReachesOf
  <2>3. CASE ~remote /\ ~M!TakenApart
    BY <1>1, <1>2, <1>3, <2>1, <2>3 DEF ReachesOf
  <2>4. CASE ~remote /\ M!TakenApart
    <3>1. ASSUME "messages-tuple" \notin asked, said[m] > 0
          PROVE  known'[m] > 0 \/ \E k \in 1..Len(due') : IsSaid(due'[k], m)
      <4>1. known'[m] >= known[m] /\ (IsSaid(e, m) => known'[m] > 0) /\ known'[m] \in Nat
        BY <1>1, <2>1, <2>4, <3>1 DEF M!Accumulated, IsSaid, Says, Kind
      <4>2. known[m] > 0 \/ \E k \in 1..Len(due) : IsSaid(due[k], m)
        BY <1>1, <2>1, <2>4, <3>1 DEF ReachesOf
      <4>3. CASE known[m] > 0
        BY <2>1, <4>1, <4>3
      <4>4. ASSUME NEW k \in 1..Len(due), IsSaid(due[k], m)
            PROVE  known'[m] > 0 \/ \E j \in 1..Len(due') : IsSaid(due'[j], m)
        BY <1>2, <4>1, <4>4
      <4> QED BY <4>2, <4>3, <4>4
    <3> QED BY <1>1, <1>2, <2>4, <3>1 DEF ReachesOf, IsSaid, Says
  <2> QED BY <2>2, <2>3, <2>4
<1> QED BY <1>4 DEF ReachInv

LEMMA ReachGoesOn == EmissionInv /\ ReachInv /\ [M!Next]_(M!vars) => ReachInv'
<1> SUFFICES ASSUME EmissionInv, ReachInv, [M!Next]_(M!vars) PROVE ReachInv'
  OBVIOUS
<1>1. CASE M!Begin
  BY <1>1 DEF M!Begin, M!given, M!graph, ReachInv, ReachesOf, M!TakenApart, M!UsesEvents
<1>2. ASSUME NEW f \in BOOLEAN, M!End(f) PROVE ReachInv'
  BY <1>2 DEF M!End, M!given, M!graph, ReachInv, ReachesOf, M!TakenApart, M!UsesEvents
<1>3. CASE M!Fail
  BY <1>3 DEF M!Fail, M!given, M!graph, ReachInv, ReachesOf, M!TakenApart, M!UsesEvents
<1>4. CASE M!Retry
  BY <1>4 DEF M!Retry, M!Fresh, ReachInv, ReachesOf
<1>5. CASE UNCHANGED M!vars
  BY <1>5 DEF M!vars, M!given, M!graph, ReachInv, ReachesOf, M!TakenApart, M!UsesEvents
<1> QED BY <1>1, <1>2, <1>3, <1>4, <1>5, ReachProduced, ReachTaken DEF M!Next

\* A run publishes what its request asked for, though its graph is asked for more, and of
\* a retry that streams events only events, and what a JavaScript server has put together;
\* the partials of a message have one chunk, two and so on behind its metadata, whoever
\* puts the chunks together, whatever is waiting between the graph and the stream, and in
\* every attempt anew; and of an attempt in which messages can be put together each that
\* was said reaches who asked for it (astream_state, consume, streamEventsRequest).
THEOREM EmitsAsAsked == MCSpec => []EmitsWhatIsAsked
<1>1. MCInit => EmissionInv /\ ReachInv
  BY EmissionStarts, ReachStarts DEF MCInit
<1>2. [MCNext]_allVars => [M!Next]_(M!vars)
  BY DEF MCNext, allVars, emits, M!vars, M!given, M!graph
<1>3. EmissionInv /\ ReachInv => EmitsWhatIsAsked
  BY FineIsRight, WhatReaches DEF EmissionInv, EmitsWhatIsAsked, M!EmitsWhatIsAsked
<1>4. EmissionInv /\ ReachInv /\ [M!Next]_(M!vars) => EmissionInv' /\ ReachInv'
  BY EmissionGoesOn, ReachGoesOn
<1> QED BY <1>1, <1>2, <1>3, <1>4, PTL DEF MCSpec

----------------------------------------------------------------------------
(* The answers of calls (Answers).                                         *)

OpNames == {"search", "metrics", "cron", "get assistant", "get versions",
            "patch assistant", "delete assistant", "describe", "draw", "get thread",
            "patch thread", "delete thread", "copy thread", "get state", "get history", "update state",
            "create assistant", "create run", "create thread", "create thread with state",
            "get run", "list runs", "join run", "delete run", "set latest", "cancel run"}
Places == {"new", "asked", "over", "cascading", "opening", "reading", "updating",
           "rereading", "showing", "gathering", "joining", "cancelled", "erasing"}
CallRecord == [op : OpNames, opt : BOOLEAN, valid : BOOLEAN, arg : {1, 2}, run : Works,
               rows : SUBSET Works, live : BOOLEAN, at : Places,
               answer : A!Codes \cup {"none"}]

\* What is asked, whatever became of it.
Alike(d, c) == d.op = c.op /\ d.opt = c.opt /\ d.valid = c.valid /\ d.arg = c.arg /\ d.run = c.run

\* The answers right so far of a call on its way to the graph, or what it has done.
Graphed(c, R, w) ==
    \/ ~w /\ A!OfGraph \subseteq R /\ (c.op = "draw" /\ registered = "fine" => "422" \in R)
    \/ w /\ c.op = "create thread with state" /\ "200" \in R

\* What is known of a call where it is: the answers R that were right, and whether it has
\* changed something.
Placed(c, R, w) ==
    /\ c.at # "asked"
    /\ c.at = "new" => ~w
    /\ c.at = "cascading" => c.op = "delete assistant" /\ w /\ "200" \in R
    /\ c.at = "opening" =>
          c.op \in {"describe", "draw"} \cup A!Reading \cup A!Stateful /\ Graphed(c, R, w)
    /\ c.at = "reading" =>
          /\ c.op \in {"describe", "draw"} \cup A!Reading
          /\ registered = "fine" /\ Graphed(c, R, w)
    /\ c.at = "updating" => c.op \in A!Stateful /\ registered = "fine" /\ Graphed(c, R, w)
    /\ c.at \in {"rereading", "showing"} => c.op \in A!Stateful /\ w /\ "200" \in R
    /\ c.at = "gathering" =>
          c.op \in {"get run", "list runs"} /\ ~w /\ (c.op = "list runs" => "200" \in R)
    /\ c.at = "joining" =>
          ((c.op = "join run" /\ ~w) \/ (c.op = "cancel run" /\ c.opt)) /\ "200" \in R
    /\ c.at = "cancelled" => c.op = "cancel run" /\ "200" \in R
    /\ c.at = "erasing" => c.op = "cancel run" /\ ~w /\ "200" \in R

Truth(c, R, w) ==
    \/ c.answer \in R /\ (w => c.answer = "200")
    \/ w /\ c.answer \in A!PartialFailures(c)
    \/ ~w /\ A!SaidGone(c)

\* A thread that is gone has no runs.
NoneLeft ==
    /\ jobs \in [Works -> {"none", "in flight", "ended", "gone"}]
    /\ thread = "gone" => \A r \in Works : ~A!Exists(r)

\* The answer that is right now is among those that were, until the call has changed
\* something.
Followed(q) ==
    /\ Placed(call[q], right[q], wrote[q])
    /\ call[q].at = "over" => Truth(call[q], right[q], wrote[q])
    /\ call[q].at \notin {"new", "over"} =>
          call[q].valid /\ (~wrote[q] => A!RightNow(call[q]) \subseteq right[q])

AnswersInv ==
    /\ call \in [Requests -> CallRecord] /\ wrote \in [Requests -> BOOLEAN]
    /\ NoneLeft
    /\ \A q \in Requests : Followed(q)

\* A step of q as c: a call that comes, or that goes on.
Underway(q, c) ==
    \/ call[q].at = "new" /\ c.at = "asked"
    \/ call[q].at \notin {"new", "over"} /\ c = call[q]
Before(q, c) == IF call[q].at = "new" THEN A!RightNow(c) ELSE right[q]

Rights ==
    right' = [q \in Requests |->
         LET before == IF A!At(call[q], "new") THEN A!RightNow(call'[q]) ELSE right[q]
         IN IF A!At(call'[q], "new") THEN {}
            ELSE IF A!At(call'[q], "over") \/ wrote'[q] THEN before
            ELSE before \cup A!RightNow(call[q])']

LEMMA RightAlike ==
    ASSUME NEW c, NEW d, Alike(d, c)
    PROVE  A!RightNow(d) = A!RightNow(c)
  BY DEF Alike, A!RightNow

LEMMA PlacedMore ==
    ASSUME NEW c, NEW d, Alike(d, c), d.at = c.at, NEW R, NEW S, R \subseteq S, NEW w, Placed(c, R, w)
    PROVE  Placed(d, S, w)
  BY DEF Alike, Placed, Graphed

LEMMA PlacedNext ==
    ASSUME registered' = registered, NEW q \in Requests,
           Placed(call'[q], right'[q], wrote'[q])
    PROVE  Placed(call[q], right[q], wrote[q])'
  BY DEF Placed, Graphed, A!OfGraph

\* A call that takes no step.
LEMMA OthersFollowed ==
    ASSUME AnswersInv, Rights, registered' = registered, NEW p \in Requests,
           Alike(call'[p], call[p]), call'[p].at = call[p].at, call'[p].answer = call[p].answer,
           wrote'[p] = wrote[p]
    PROVE  Followed(p)'
<1>1. Followed(p)
  BY DEF AnswersInv
<1>2. CASE call[p].at = "new"
  <2>1. Placed(call'[p], right'[p], wrote'[p])
    BY <1>1, <1>2 DEF Followed, Placed
  <2> QED BY <1>2, <2>1, PlacedNext DEF Followed
<1>3. CASE call[p].at = "over"
  <2>1. right'[p] = right[p]
    BY <1>3 DEF Rights, A!At
  <2>2. Placed(call'[p], right'[p], wrote'[p])
    BY <1>1, <2>1, PlacedMore DEF Followed
  <2>3. Truth(call'[p], right'[p], wrote'[p])
    BY <1>1, <1>3, <2>1 DEF Followed, Truth, Alike, A!PartialFailures, A!SaidGone
  <2>4. Truth(call[p], right[p], wrote[p])'
    BY <2>3 DEF Truth, A!PartialFailures, A!SaidGone
  <2> QED BY <1>3, <2>2, <2>4, PlacedNext DEF Followed
<1>4. CASE call[p].at \notin {"new", "over"}
  <2>1. right'[p] = IF wrote'[p] THEN right[p] ELSE right[p] \cup A!RightNow(call[p])'
    BY <1>4 DEF Rights, A!At
  <2>2. right[p] \subseteq right'[p]
    BY <2>1
  <2>3. Placed(call'[p], right'[p], wrote'[p])
    BY <1>1, <2>2, PlacedMore DEF Followed
  <2>4. (~wrote[p] => A!RightNow(call[p]) \subseteq right[p])'
    BY <2>1
  <2>5. call'[p].valid
    BY <1>1, <1>4 DEF Followed, Alike
  <2> QED BY <1>4, <2>3, <2>4, <2>5, PlacedNext DEF Followed
<1> QED BY <1>2, <1>3, <1>4

\* What is right for each call, when its parameters are valid.
LEMMA RightFor ==
    ASSUME NEW c, c.valid
    PROVE  /\ c.op \in {"search", "metrics"} => "200" \in A!RightNow(c)
           /\ c.op = "cron" => "500" \in A!RightNow(c)
           /\ c.op = "create assistant" =>
                 (IF versions = {} \/ c.opt THEN "200" ELSE "409") \in A!RightNow(c)
           /\ c.op \in {"get assistant", "get versions", "patch assistant", "delete assistant"} =>
                 (IF versions = {} THEN "404" ELSE "200") \in A!RightNow(c)
           /\ c.op = "set latest" =>
                 (IF c.arg \notin versions THEN "404" ELSE "200") \in A!RightNow(c)
           /\ c.op \in {"describe", "draw"} /\ versions = {} => "404" \in A!RightNow(c)
           /\ c.op \in {"describe", "draw"} /\ versions # {} =>
                 Graphed(c, A!RightNow(c), FALSE)
           /\ c.op \in {"get thread", "patch thread", "delete thread", "list runs", "join run"} =>
                 (IF thread = "gone" THEN "404" ELSE "200") \in A!RightNow(c)
           /\ c.op = "copy thread" =>
                 (IF thread = "gone" THEN "409" ELSE "200") \in A!RightNow(c)
           /\ c.op \in A!WithGraph /\ thread = "gone" => "200" \in A!RightNow(c)
           /\ c.op \in A!WithGraph /\ thread # "gone" /\ ~c.opt => "409" \in A!RightNow(c)
           /\ c.op = "create thread" /\ thread # "gone" /\ c.opt => "200" \in A!RightNow(c)
  BY DEF A!RightNow, A!WithGraph, A!Reading, A!Stateful, A!Found, Graphed

LEMMA RightForState ==
    ASSUME NEW c, c.valid
    PROVE  /\ c.op \in A!Reading \cup {"update state"} /\ thread = "gone" => "404" \in A!RightNow(c)
           /\ c.op \in A!Reading /\ thread = "bare" => "200" \in A!RightNow(c)
           /\ c.op = "update state" /\ thread = "bare" => "400" \in A!RightNow(c)
           /\ c.op \in A!Reading \cup {"update state"} /\ thread \notin {"gone", "bare"} =>
                 Graphed(c, A!RightNow(c), FALSE)
           /\ c.op = "create thread with state" /\ c.opt /\ thread = "bare" =>
                 "400" \in A!RightNow(c)
           /\ c.op = "create thread with state" /\ c.opt /\ thread \notin {"gone", "bare"} =>
                 Graphed(c, A!RightNow(c), FALSE)
  BY DEF A!RightNow, A!WithGraph, A!Reading, A!Stateful, Graphed

LEMMA RightForRuns ==
    ASSUME NEW c, c.valid
    PROVE  /\ c.op = "create run" /\ (versions = {} \/ thread = "gone") => "404" \in A!RightNow(c)
           /\ c.op = "create run" /\ versions # {} /\ thread # "gone" =>
                 (IF c.opt /\ A!Busy THEN "409" ELSE "200") \in A!RightNow(c)
           /\ c.op \in {"get run", "cancel run", "delete run"} =>
                 (IF A!Exists(c.run) THEN "200" ELSE "404") \in A!RightNow(c)
  BY DEF A!RightNow, A!WithGraph, A!Reading, A!Stateful, A!Found

\* A call that takes a step, of which what is known holds afterwards.
LEMMA Stepped ==
    ASSUME AnswersInv, Rights, registered' = registered,
           NEW q \in Requests, NEW c \in CallRecord, Underway(q, c),
           call' \in [Requests -> CallRecord], wrote' \in [Requests -> BOOLEAN], NoneLeft',
           \A p \in Requests : p # q =>
              /\ Alike(call'[p], call[p]) /\ call'[p].at = call[p].at
              /\ call'[p].answer = call[p].answer /\ wrote'[p] = wrote[p],
           Alike(call'[q], c), call'[q].at # "new",
           Placed(call'[q], Before(q, c), wrote'[q]),
           call'[q].at = "over" => Truth(call'[q], Before(q, c), wrote'[q]),
           call'[q].at # "over" => c.valid
    PROVE  AnswersInv'
<1>1. ASSUME NEW p \in Requests, p # q PROVE Followed(p)'
  BY <1>1, OthersFollowed
<1>2. (IF A!At(call[q], "new") THEN A!RightNow(call'[q]) ELSE right[q]) = Before(q, c)
  BY RightAlike DEF Before, A!At
<1>3. right'[q] = IF call'[q].at = "over" \/ wrote'[q] THEN Before(q, c)
                  ELSE Before(q, c) \cup A!RightNow(call[q])'
  BY <1>2 DEF Rights, A!At
<1>4. Before(q, c) \subseteq right'[q]
  BY <1>3
<1>5. Placed(call'[q], right'[q], wrote'[q])
  BY <1>4, PlacedMore DEF Alike
<1>6. ASSUME call'[q].at = "over" PROVE Truth(call[q], right[q], wrote[q])'
  <2>1. Truth(call'[q], right'[q], wrote'[q])
    BY <1>3, <1>6
  <2> QED BY <2>1 DEF Truth, A!PartialFailures, A!SaidGone
<1>7. ASSUME call'[q].at # "over" PROVE (~wrote[q] => A!RightNow(call[q]) \subseteq right[q])'
  BY <1>3, <1>7
<1>8. call'[q].at # "over" => call'[q].valid
  BY DEF Alike
<1>9. Followed(q)'
  BY <1>5, <1>6, <1>7, <1>8, PlacedNext DEF Followed
<1> QED BY <1>1, <1>9 DEF AnswersInv

\* A call that is answered or goes on.
LEMMA AnsweredIs ==
    ASSUME NEW c \in CallRecord, NEW code \in A!Codes
    PROVE  LET d == A!Over(c, code)
           IN d \in CallRecord /\ Alike(d, c) /\ d.at = "over" /\ d.answer = code
  BY DEF A!Over, CallRecord, Places, Alike

LEMMA GoneIs ==
    ASSUME NEW c \in CallRecord, NEW place \in Places
    PROVE  LET d == [c EXCEPT !.at = place]
           IN d \in CallRecord /\ Alike(d, c) /\ d.at = place
  BY DEF CallRecord, Alike

\* A call other than q is as it was, but for the rows of a deletion.
Untouched(q) ==
    \A p \in Requests : p # q =>
       /\ call'[p] \in CallRecord /\ Alike(call'[p], call[p]) /\ call'[p].at = call[p].at
       /\ call'[p].answer = call[p].answer

\* The code is one that was right, with nothing changed by a call that fails, or it is
\* of a partial failure, or of versions none of which the page shows.
Honest(q, c, code, w) ==
    \/ code \in Before(q, c) /\ (w => code = "200")
    \/ w /\ code \in A!PartialFailures(c)
    \/ ~w /\ c.op = "get versions" /\ c.opt /\ code = "404"

\* q is answered, after a step that changes something or not.
LEMMA Answering ==
    ASSUME AnswersInv, Rights, registered' = registered,
           NEW q \in Requests, NEW c \in CallRecord, Underway(q, c), NEW code \in A!Codes,
           call' \in [Requests -> CallRecord], Untouched(q), call'[q] = A!Over(c, code),
           wrote' = wrote \/ wrote' = [wrote EXCEPT ![q] = TRUE],
           NoneLeft', Honest(q, c, code, wrote'[q])
    PROVE  AnswersInv'
<1>1. call'[q] \in CallRecord /\ Alike(call'[q], c) /\ call'[q].at = "over" /\ call'[q].answer = code
  BY AnsweredIs
<1>3. wrote' \in [Requests -> BOOLEAN] /\ \A p \in Requests : p # q => wrote'[p] = wrote[p]
  BY DEF AnswersInv
<1>4. Placed(call'[q], Before(q, c), wrote'[q])
  BY <1>1 DEF Placed
<1>5. Truth(call'[q], Before(q, c), wrote'[q])
  BY <1>1 DEF Truth, Honest, Alike, A!PartialFailures, A!SaidGone
<1> QED BY <1>1, <1>3, <1>4, <1>5, Stepped DEF Untouched

\* q goes on to a place.
LEMMA GoingOn ==
    ASSUME AnswersInv, Rights, registered' = registered,
           NEW q \in Requests, NEW c \in CallRecord, Underway(q, c), c.valid,
           call' \in [Requests -> CallRecord], Untouched(q), Alike(call'[q], c),
           call'[q].at \notin {"new", "over"},
           wrote' = wrote \/ wrote' = [wrote EXCEPT ![q] = TRUE],
           NoneLeft', Placed(call'[q], Before(q, c), wrote'[q])
    PROVE  AnswersInv'
<1>1. wrote' \in [Requests -> BOOLEAN] /\ \A p \in Requests : p # q => wrote'[p] = wrote[p]
  BY DEF AnswersInv
<1> QED BY <1>1, Stepped DEF Untouched

\* Where a call with the parameters of c may go.
MayGo(q, c, place, w) ==
    \A d : Alike(d, c) /\ d.at = place => Placed(d, Before(q, c), w)
Stops == Places \ {"new", "asked", "over"}

LEMMA OnlyOne ==
    ASSUME AnswersInv, NEW q \in Requests, NEW d \in CallRecord,
           call' = [call EXCEPT ![q] = d]
    PROVE  call' \in [Requests -> CallRecord] /\ call'[q] = d /\ Untouched(q)
<1>1. call \in [Requests -> CallRecord]
  BY DEF AnswersInv
<1>2. /\ call' \in [Requests -> CallRecord] /\ call'[q] = d
      /\ \A p \in Requests : p # q => call'[p] = call[p]
  BY <1>1
<1> QED BY <1>1, <1>2 DEF Untouched, Alike

LEMMA Telling ==
    ASSUME AnswersInv, Rights, NEW q \in Requests, NEW c \in CallRecord, Underway(q, c),
           NEW code \in A!Codes, A!Tells(q, c, code), Honest(q, c, code, wrote[q])
    PROVE  AnswersInv'
<1>1. /\ registered' = registered /\ wrote' = wrote /\ UNCHANGED <<versions, thread, jobs>>
      /\ call' = [call EXCEPT ![q] = A!Over(c, code)]
  BY DEF A!Tells, A!Says, A!Reads, A!tables
<1>2. NoneLeft'
  BY <1>1 DEF AnswersInv, NoneLeft, A!Exists
<1>3. A!Over(c, code) \in CallRecord
  BY AnsweredIs
<1>4. call' \in [Requests -> CallRecord] /\ call'[q] = A!Over(c, code) /\ Untouched(q)
  BY <1>1, <1>3, OnlyOne
<1> QED BY <1>1, <1>2, <1>4, Answering

LEMMA GoingTo ==
    ASSUME AnswersInv, Rights, NEW q \in Requests, NEW c \in CallRecord, Underway(q, c),
           NEW place \in Stops, A!Waits(q, c, place), c.valid, MayGo(q, c, place, wrote[q])
    PROVE  AnswersInv'
<1> DEFINE d == [c EXCEPT !.at = place]
<1>1. /\ registered' = registered /\ wrote' = wrote /\ UNCHANGED <<versions, thread, jobs>>
      /\ call' = [call EXCEPT ![q] = d]
  BY DEF A!Waits, A!Goes, A!Reads, A!tables
<1>2. NoneLeft'
  BY <1>1 DEF AnswersInv, NoneLeft, A!Exists
<1>3. d \in CallRecord /\ Alike(d, c) /\ d.at = place
  BY GoneIs DEF Stops
<1> HIDE DEF d
<1>4. call' \in [Requests -> CallRecord] /\ call'[q] = d /\ Untouched(q)
  BY <1>1, <1>3, OnlyOne
<1>5. Placed(d, Before(q, c), wrote'[q])
  BY <1>1, <1>3 DEF MayGo
<1> QED BY <1>1, <1>2, <1>3, <1>4, <1>5, GoingOn DEF Stops

LEMMA WritingAnswer ==
    ASSUME AnswersInv, Rights, NEW q \in Requests, NEW c \in CallRecord, Underway(q, c),
           NEW code \in A!Codes, A!Says(q, c, code), A!Writes(q), NoneLeft',
           Honest(q, c, code, TRUE)
    PROVE  AnswersInv'
<1>1. /\ registered' = registered /\ wrote' = [wrote EXCEPT ![q] = TRUE]
      /\ call' = [call EXCEPT ![q] = A!Over(c, code)]
  BY DEF A!Says, A!Writes
<1>2. wrote'[q] = TRUE
  BY <1>1 DEF AnswersInv
<1>3. A!Over(c, code) \in CallRecord
  BY AnsweredIs
<1>4. call' \in [Requests -> CallRecord] /\ call'[q] = A!Over(c, code) /\ Untouched(q)
  BY <1>1, <1>3, OnlyOne
<1> QED BY <1>1, <1>2, <1>4, Answering

LEMMA WritingOn ==
    ASSUME AnswersInv, Rights, NEW q \in Requests, NEW c \in CallRecord, Underway(q, c),
           NEW place \in Stops, A!Goes(q, c, place), A!Writes(q), NoneLeft', c.valid,
           MayGo(q, c, place, TRUE)
    PROVE  AnswersInv'
<1> DEFINE d == [c EXCEPT !.at = place]
<1>1. /\ registered' = registered /\ wrote' = [wrote EXCEPT ![q] = TRUE]
      /\ call' = [call EXCEPT ![q] = d]
  BY DEF A!Goes, A!Writes
<1>2. wrote'[q] = TRUE
  BY <1>1 DEF AnswersInv
<1>3. d \in CallRecord /\ Alike(d, c) /\ d.at = place
  BY GoneIs DEF Stops
<1> HIDE DEF d
<1>4. call' \in [Requests -> CallRecord] /\ call'[q] = d /\ Untouched(q)
  BY <1>1, <1>3, OnlyOne
<1>5. Placed(d, Before(q, c), wrote'[q])
  BY <1>2, <1>3 DEF MayGo
<1> QED BY <1>1, <1>3, <1>4, <1>5, GoingOn DEF Stops

\* A call that comes was answered right by what is right now, and has changed nothing.
LEMMA Comes ==
    ASSUME AnswersInv, NEW q \in Requests, NEW c, Underway(q, c), c.at = "asked"
    PROVE  Before(q, c) = A!RightNow(c) /\ wrote[q] = FALSE
<1>1. Followed(q) /\ wrote[q] \in BOOLEAN
  BY DEF AnswersInv
<1>2. call[q].at = "new"
  BY <1>1 DEF Underway, Followed, Placed
<1> QED BY <1>1, <1>2 DEF Before, Followed, Placed

\* A call that goes on.
LEMMA GoesOn ==
    ASSUME AnswersInv, NEW q \in Requests, NEW c, Underway(q, c), c.at # "asked"
    PROVE  /\ c = call[q] /\ c.valid /\ Placed(c, Before(q, c), wrote[q])
           /\ ~wrote[q] => A!RightNow(c) \subseteq Before(q, c)
           /\ wrote[q] \in BOOLEAN
<1>1. Followed(q) /\ wrote[q] \in BOOLEAN
  BY DEF AnswersInv
<1> QED BY <1>1 DEF Underway, Followed, Before

LEMMA AskedTells ==
    ASSUME AnswersInv, Rights, NEW q \in Requests, NEW c \in CallRecord, Underway(q, c),
           c.at = "asked", NEW code \in A!Codes, A!Tells(q, c, code), code \in A!RightNow(c)
    PROVE  AnswersInv'
<1>1. Honest(q, c, code, wrote[q])
  BY Comes DEF Honest
<1> QED BY <1>1, Telling

LEMMA AskedWaits ==
    ASSUME AnswersInv, Rights, NEW q \in Requests, NEW c \in CallRecord, Underway(q, c),
           c.at = "asked", c.valid, NEW place \in Stops, A!Waits(q, c, place),
           \A d : Alike(d, c) /\ d.at = place => Placed(d, A!RightNow(c), FALSE)
    PROVE  AnswersInv'
<1>1. MayGo(q, c, place, wrote[q])
  BY Comes DEF MayGo
<1> QED BY <1>1, GoingTo

LEMMA AskedWrites ==
    ASSUME AnswersInv, Rights, NEW q \in Requests, NEW c \in CallRecord, Underway(q, c),
           c.at = "asked", NEW code \in A!Codes, A!Says(q, c, code), A!Writes(q), NoneLeft',
           (code = "200" /\ code \in A!RightNow(c)) \/ code \in A!PartialFailures(c)
    PROVE  AnswersInv'
<1>1. Honest(q, c, code, TRUE)
  BY Comes DEF Honest
<1> QED BY <1>1, WritingAnswer

LEMMA AskedWritesOn ==
    ASSUME AnswersInv, Rights, NEW q \in Requests, NEW c \in CallRecord, Underway(q, c),
           c.at = "asked", c.valid, NEW place \in Stops, A!Goes(q, c, place), A!Writes(q),
           NoneLeft', \A d : Alike(d, c) /\ d.at = place => Placed(d, A!RightNow(c), TRUE)
    PROVE  AnswersInv'
<1>1. MayGo(q, c, place, TRUE)
  BY Comes DEF MayGo
<1> QED BY <1>1, WritingOn

\* Runs that end or go leave none where there was none.
LEMMA FewerLeft ==
    ASSUME NoneLeft, NEW r \in Works, NEW state \in {"ended", "gone"}, A!Exists(r),
           jobs' = [jobs EXCEPT ![r] = state], thread' = thread
    PROVE  NoneLeft'
  BY DEF NoneLeft, A!Exists

LEMMA SameLeft ==
    ASSUME NoneLeft, jobs' = jobs, thread' = thread \/ thread' # "gone"
    PROVE  NoneLeft'
  BY DEF NoneLeft, A!Exists

----------------------------------------------------------------------------
(* Calls that come: assistants.                                            *)

LEMMA AskingForNothing ==
    ASSUME AnswersInv, Rights, NEW q \in Requests, NEW c \in CallRecord, Underway(q, c),
           A!Refuse(q, c) \/ A!Search(q, c) \/ A!Metrics(q, c) \/ A!Cron(q, c)
    PROVE  AnswersInv'
<1>1. CASE A!Refuse(q, c)
  <2> DEFINE code == IF c.op = "copy thread" THEN "400" ELSE "422"
  <2>1. c.at = "asked" /\ A!Tells(q, c, code) /\ code \in A!RightNow(c) /\ code \in A!Codes
    BY <1>1 DEF A!Refuse, A!At, A!RightNow, A!Codes
  <2> HIDE DEF code
  <2> QED BY <2>1, AskedTells
<1>2. CASE A!Search(q, c) \/ A!Metrics(q, c)
  <2>1. c.at = "asked" /\ A!Tells(q, c, "200") /\ "200" \in A!RightNow(c) /\ "200" \in A!Codes
    BY <1>2, RightFor DEF A!Search, A!Metrics, A!Asked, A!At, A!Codes
  <2> QED BY <2>1, AskedTells
<1>3. CASE A!Cron(q, c)
  <2>1. c.at = "asked" /\ A!Tells(q, c, "500") /\ "500" \in A!RightNow(c) /\ "500" \in A!Codes
    BY <1>3, RightFor DEF A!Cron, A!NoCrons, A!Asked, A!At, A!Codes
  <2> QED BY <2>1, AskedTells
<1> QED BY <1>1, <1>2, <1>3

LEMMA AskingForAssistants ==
    ASSUME AnswersInv, Rights, NEW q \in Requests, NEW c \in CallRecord, Underway(q, c),
           \/ A!CreateAssistant(q, c) \/ A!GetAssistant(q, c) \/ A!GetVersions(q, c)
           \/ A!PatchAssistant(q, c) \/ A!SetLatest(q, c)
    PROVE  AnswersInv'
<1>0. NoneLeft
  BY DEF AnswersInv
<1>1. CASE A!CreateAssistant(q, c)
  <2>1. c.at = "asked" /\ c.valid /\ c.op = "create assistant"
    BY <1>1 DEF A!CreateAssistant, A!Asked, A!At
  <2>2. CASE versions = {}
    <3>1. /\ "200" \in A!Codes /\ "200" \in A!RightNow(c) /\ A!Says(q, c, "200") /\ A!Writes(q)
          /\ thread' = thread /\ jobs' = jobs
      BY <1>1, <2>1, <2>2, RightFor DEF A!CreateAssistant, A!Codes
    <3> QED BY <1>0, <2>1, <3>1, SameLeft, AskedWrites
  <2>3. CASE versions # {}
    <3> DEFINE code == IF c.opt THEN "200" ELSE "409"
    <3>1. code \in A!Codes /\ code \in A!RightNow(c) /\ A!Tells(q, c, code)
      BY <1>1, <2>1, <2>3, RightFor DEF A!CreateAssistant, A!Codes
    <3> HIDE DEF code
    <3> QED BY <2>1, <3>1, AskedTells
  <2> QED BY <2>2, <2>3
<1>2. CASE A!GetAssistant(q, c)
  <2> DEFINE code == IF versions = {} THEN "404" ELSE "200"
  <2>1. c.at = "asked" /\ code \in A!Codes /\ code \in A!RightNow(c) /\ A!Tells(q, c, code)
    BY <1>2, RightFor DEF A!GetAssistant, A!Codes, A!Asked, A!At
  <2> HIDE DEF code
  <2> QED BY <2>1, AskedTells
<1>3. CASE A!GetVersions(q, c)
  <2>1. /\ c.at = "asked" /\ c.valid /\ c.op = "get versions" /\ {"404", "200"} \subseteq A!Codes
        /\ (IF versions = {} THEN "404" ELSE "200") \in A!RightNow(c)
    BY <1>3, RightFor DEF A!GetVersions, A!Asked, A!At, A!Codes
  <2>2. PICK page \in SUBSET versions :
           (c.opt \/ page = versions) /\ A!Tells(q, c, IF page = {} THEN "404" ELSE "200")
    BY <1>3 DEF A!GetVersions
  <2>3. CASE page # {} \/ versions = {}
    <3> DEFINE code == IF page = {} THEN "404" ELSE "200"
    <3>1. code \in A!Codes /\ code \in A!RightNow(c) /\ A!Tells(q, c, code)
      BY <2>1, <2>2, <2>3
    <3> HIDE DEF code
    <3> QED BY <2>1, <3>1, AskedTells
  <2>4. CASE page = {} /\ versions # {}
    <3>1. c.opt /\ A!Tells(q, c, "404") /\ "404" \in A!Codes
      BY <2>1, <2>2, <2>4
    <3>2. Honest(q, c, "404", wrote[q])
      BY <2>1, <3>1, Comes DEF Honest
    <3> QED BY <3>1, <3>2, Telling
  <2> QED BY <2>3, <2>4
<1>4. CASE A!PatchAssistant(q, c)
  <2>1. c.at = "asked" /\ c.valid /\ c.op = "patch assistant" /\ "404" \in A!Codes /\ "200" \in A!Codes
    BY <1>4 DEF A!PatchAssistant, A!Asked, A!At, A!Codes
  <2>2. CASE versions = {}
    <3>1. "404" \in A!RightNow(c) /\ A!Tells(q, c, "404")
      BY <1>4, <2>1, <2>2, RightFor DEF A!PatchAssistant
    <3> QED BY <2>1, <3>1, AskedTells
  <2>3. CASE versions # {}
    <3>1. /\ "200" \in A!RightNow(c) /\ A!Says(q, c, "200") /\ A!Writes(q)
          /\ thread' = thread /\ jobs' = jobs
      BY <1>4, <2>1, <2>3, RightFor DEF A!PatchAssistant
    <3> QED BY <1>0, <2>1, <3>1, SameLeft, AskedWrites
  <2> QED BY <2>2, <2>3
<1>5. CASE A!SetLatest(q, c)
  <2>1. c.at = "asked" /\ c.valid /\ c.op = "set latest" /\ "404" \in A!Codes /\ "200" \in A!Codes
    BY <1>5 DEF A!SetLatest, A!Asked, A!At, A!Codes
  <2>2. CASE c.arg \notin versions
    <3>1. "404" \in A!RightNow(c) /\ A!Tells(q, c, "404")
      BY <1>5, <2>1, <2>2, RightFor DEF A!SetLatest
    <3> QED BY <2>1, <3>1, AskedTells
  <2>3. CASE c.arg \in versions
    <3>1. /\ "200" \in A!RightNow(c) /\ A!Says(q, c, "200") /\ A!Writes(q)
          /\ thread' = thread /\ jobs' = jobs
      BY <1>5, <2>1, <2>3, RightFor DEF A!SetLatest, A!tables
    <3> QED BY <1>0, <2>1, <3>1, SameLeft, AskedWrites
  <2> QED BY <2>2, <2>3
<1> QED BY <1>1, <1>2, <1>3, <1>4, <1>5

\* What happens to the lists that deletions go through changes nothing of what is asked.
LEMMA ListsChange ==
    ASSUME AnswersInv, NEW lists, NEW r \in Works,
           \/ lists = A!Without(r) \/ lists = A!With(r) \/ lists = A!Dead
    PROVE  /\ lists \in [Requests -> CallRecord]
           /\ \A p \in Requests : /\ Alike(lists[p], call[p]) /\ lists[p].at = call[p].at
                                  /\ lists[p].answer = call[p].answer
<1>1. call \in [Requests -> CallRecord]
  BY DEF AnswersInv
<1>2. ASSUME NEW p \in Requests
      PROVE  /\ [call[p] EXCEPT !.rows = @ \ {r}] \in CallRecord
             /\ [call[p] EXCEPT !.rows = @ \cup {r}] \in CallRecord
             /\ [call[p] EXCEPT !.live = FALSE] \in CallRecord
  <2> DEFINE c == call[p]
  <2>1. c \in CallRecord
    BY <1>1
  <2> HIDE DEF c
  <2>2. c.rows \ {r} \in SUBSET Works /\ c.rows \cup {r} \in SUBSET Works
    BY <2>1 DEF CallRecord
  <2>3. [c EXCEPT !.rows = @ \ {r}] \in CallRecord
    BY <2>1, <2>2 DEF CallRecord
  <2>4. [c EXCEPT !.rows = @ \cup {r}] \in CallRecord
    BY <2>1, <2>2 DEF CallRecord
  <2>5. [c EXCEPT !.live = FALSE] \in CallRecord
    BY <2>1 DEF CallRecord
  <2> QED BY <2>3, <2>4, <2>5 DEF c
<1>3. CASE lists = A!Without(r)
  BY <1>1, <1>2, <1>3 DEF A!Without, CallRecord, Alike
<1>4. CASE lists = A!With(r)
  BY <1>1, <1>2, <1>4 DEF A!With, CallRecord, Alike
<1>5. CASE lists = A!Dead
  BY <1>1, <1>2, <1>5 DEF A!Dead, CallRecord, Alike
<1> QED BY <1>3, <1>4, <1>5

LEMMA ListsAndOne ==
    ASSUME AnswersInv, NEW lists, NEW r \in Works,
           \/ lists = A!Without(r) \/ lists = A!With(r) \/ lists = A!Dead,
           NEW q \in Requests, NEW d \in CallRecord, call' = [lists EXCEPT ![q] = d]
    PROVE  call' \in [Requests -> CallRecord] /\ call'[q] = d /\ Untouched(q)
<1>1. /\ lists \in [Requests -> CallRecord]
      /\ \A p \in Requests : /\ Alike(lists[p], call[p]) /\ lists[p].at = call[p].at
                             /\ lists[p].answer = call[p].answer
  BY ListsChange
<1>2. /\ call' \in [Requests -> CallRecord] /\ call'[q] = d
      /\ \A p \in Requests : p # q => call'[p] = lists[p]
  BY <1>1
<1> QED BY <1>1, <1>2 DEF Untouched

LEMMA DeletingAssistant ==
    ASSUME AnswersInv, Rights, NEW q \in Requests, NEW c \in CallRecord, Underway(q, c),
           A!DeleteAssistant(q, c)
    PROVE  AnswersInv'
<1>0. NoneLeft
  BY DEF AnswersInv
<1>1. c.at = "asked" /\ c.valid /\ c.op = "delete assistant" /\ "404" \in A!Codes /\ "200" \in A!Codes
  BY DEF A!DeleteAssistant, A!Asked, A!At, A!Codes
<1>2. CASE versions = {}
  <2>1. "404" \in A!RightNow(c) /\ A!Tells(q, c, "404")
    BY <1>1, <1>2, RightFor DEF A!DeleteAssistant
  <2> QED BY <1>1, <2>1, AskedTells
<1>3. CASE versions # {}
  <2> DEFINE rows == {r \in Works : A!Exists(r)}
  <2>1. /\ "200" \in A!RightNow(c) /\ thread' = thread /\ A!Writes(q)
        /\ \/ A!Says(q, c, "200") /\ jobs' = jobs
           \/ \E r \in rows :
                /\ jobs' = [jobs EXCEPT ![r] = "gone"]
                /\ call' = [A!Without(r) EXCEPT ![q] = [c EXCEPT !.at = "cascading",
                                !.rows = rows \ {r}, !.live = TRUE]]
    BY <1>1, <1>3, RightFor DEF A!DeleteAssistant
  <2>2. CASE A!Says(q, c, "200") /\ jobs' = jobs
    BY <1>0, <1>1, <2>1, <2>2, SameLeft, AskedWrites
  <2>3. ASSUME NEW r \in rows, jobs' = [jobs EXCEPT ![r] = "gone"],
               call' = [A!Without(r) EXCEPT ![q] = [c EXCEPT !.at = "cascading",
                            !.rows = rows \ {r}, !.live = TRUE]]
        PROVE  AnswersInv'
    <3> DEFINE d == [c EXCEPT !.at = "cascading", !.rows = rows \ {r}, !.live = TRUE]
    <3>1. rows \ {r} \in SUBSET Works
      OBVIOUS
    <3>2. d \in CallRecord /\ Alike(d, c) /\ d.at = "cascading"
      <4> HIDE DEF rows
      <4> QED BY <3>1 DEF CallRecord, Places, Alike
    <3> HIDE DEF d
    <3>3. call' \in [Requests -> CallRecord] /\ call'[q] = d /\ Untouched(q)
      BY <2>3, <3>2, ListsAndOne DEF d
    <3>4. NoneLeft'
      BY <1>0, <2>1, <2>3, FewerLeft
    <3>5. registered' = registered /\ wrote' = [wrote EXCEPT ![q] = TRUE] /\ wrote'[q] = TRUE
      BY <2>1 DEF A!Writes, AnswersInv
    <3>6. Placed(d, Before(q, c), wrote'[q])
      BY <1>1, <2>1, <3>2, <3>5, Comes DEF Placed, Alike
    <3> QED BY <1>1, <3>2, <3>3, <3>4, <3>5, <3>6, GoingOn
  <2> QED BY <2>1, <2>2, <2>3
<1> QED BY <1>2, <1>3

\* A step that no call takes, or that changes only the lists.
LEMMA NobodySteps ==
    ASSUME AnswersInv, Rights, registered' = registered, wrote' = wrote, NoneLeft',
           call' \in [Requests -> CallRecord],
           \A p \in Requests : /\ Alike(call'[p], call[p]) /\ call'[p].at = call[p].at
                               /\ call'[p].answer = call[p].answer
    PROVE  AnswersInv'
<1>1. ASSUME NEW p \in Requests PROVE Followed(p)'
  BY OthersFollowed
<1>2. wrote' \in [Requests -> BOOLEAN]
  BY DEF AnswersInv
<1> QED BY <1>1, <1>2 DEF AnswersInv

LEMMA Cascading ==
    ASSUME AnswersInv, Rights, NEW q \in Requests, NEW c \in CallRecord, Underway(q, c),
           A!CascadeEnds(q, c) \/ \E r \in Works : A!Cascade(q, c, r)
    PROVE  AnswersInv'
<1>0. NoneLeft
  BY DEF AnswersInv
<1>1. c.at = "cascading" /\ "404" \in A!Codes /\ "200" \in A!Codes
  BY DEF A!CascadeEnds, A!Cascade, A!At, A!Codes
<1>2. c.op = "delete assistant" /\ wrote[q] /\ "200" \in Before(q, c)
  BY <1>1, GoesOn DEF Placed
<1>3. CASE A!CascadeEnds(q, c)
  <2>1. A!Tells(q, c, "200") /\ Honest(q, c, "200", wrote[q])
    BY <1>2, <1>3 DEF A!CascadeEnds, Honest
  <2> QED BY <1>1, <2>1, Telling
<1>4. ASSUME NEW r \in Works, A!Cascade(q, c, r), ~A!Exists(r) PROVE AnswersInv'
  <2>1. A!Tells(q, c, "404") /\ Honest(q, c, "404", wrote[q])
    BY <1>2, <1>4 DEF A!Cascade, Honest, A!PartialFailures, A!Stateful
  <2> QED BY <1>1, <2>1, Telling
<1>5. ASSUME NEW r \in Works, A!Cascade(q, c, r), A!Exists(r) PROVE AnswersInv'
  <2>1. /\ registered' = registered /\ wrote' = wrote /\ thread' = thread
        /\ jobs' = [jobs EXCEPT ![r] = "gone"] /\ call' = A!Without(r)
    BY <1>5 DEF A!Cascade
  <2>2. NoneLeft'
    BY <1>0, <1>5, <2>1, FewerLeft
  <2>3. /\ call' \in [Requests -> CallRecord]
        /\ \A p \in Requests : /\ Alike(call'[p], call[p]) /\ call'[p].at = call[p].at
                               /\ call'[p].answer = call[p].answer
    BY <2>1, ListsChange
  <2> QED BY <2>1, <2>2, <2>3, NobodySteps
<1> QED BY <1>3, <1>4, <1>5

----------------------------------------------------------------------------
(* Graphs.                                                                 *)

LEMMA AskingForGraphs ==
    ASSUME AnswersInv, Rights, NEW q \in Requests, NEW c \in CallRecord, Underway(q, c),
           A!Describe(q, c)
    PROVE  AnswersInv'
<1>1. c.at = "asked" /\ c.valid /\ c.op \in {"describe", "draw"} /\ "404" \in A!Codes
      /\ "opening" \in Stops
  BY DEF A!Describe, A!Asked, A!At, A!Codes, Stops, Places
<1>2. CASE versions = {}
  <2>1. "404" \in A!RightNow(c) /\ A!Tells(q, c, "404")
    BY <1>1, <1>2, RightFor DEF A!Describe
  <2> QED BY <1>1, <2>1, AskedTells
<1>3. CASE versions # {}
  <2>1. Graphed(c, A!RightNow(c), FALSE) /\ A!Waits(q, c, "opening")
    BY <1>1, <1>3, RightFor DEF A!Describe
  <2>2. ASSUME NEW d, Alike(d, c), d.at = "opening" PROVE Placed(d, A!RightNow(c), FALSE)
    BY <1>1, <2>1, <2>2 DEF Placed, Alike, Graphed
  <2> QED BY <1>1, <2>1, <2>2, AskedWaits
<1> QED BY <1>2, <1>3

\* What the graph makes of it, of a call that has changed nothing and of one that has.
LEMMA GraphAnswers ==
    ASSUME NEW q, NEW c, NEW code, NEW w, Graphed(c, Before(q, c), w),
           code \in A!OfGraph \/ (code \in A!Failures \cup {"404", "424"} /\ w),
           code # "200" \/ ~w
    PROVE  Honest(q, c, code, w)
<1>1. CASE ~w
  BY <1>1 DEF Graphed, Honest
<1>2. CASE w
  <2>1. code \in {"400", "404", "424", "500"}
    BY <1>2 DEF A!OfGraph, A!Failures
  <2>2. c.op = "create thread with state"
    BY <1>2 DEF Graphed
  <2>3. code \in A!PartialFailures(c)
    BY <2>1, <2>2 DEF A!PartialFailures, A!Stateful
  <2> QED BY <1>2, <2>3 DEF Honest
<1> QED BY <1>1, <1>2

LEMMA AtTheGraph ==
    ASSUME AnswersInv, Rights, NEW q \in Requests, NEW c \in CallRecord, Underway(q, c),
           A!NotDrawable(q, c) \/ A!Open(q, c) \/ A!Read(q, c)
    PROVE  AnswersInv'
<1>1. c.at \in {"opening", "reading"}
  BY DEF A!NotDrawable, A!Open, A!Read, A!At
<1>2. /\ c.valid /\ Placed(c, Before(q, c), wrote[q]) /\ wrote[q] \in BOOLEAN
  BY <1>1, GoesOn
<1>3. Graphed(c, Before(q, c), wrote[q])
  BY <1>1, <1>2 DEF Placed
<1>4. {"200", "404", "422", "424"} \cup A!Failures \subseteq A!Codes
  BY DEF A!Codes, A!Failures
<1>5. CASE A!NotDrawable(q, c)
  <2>1. c.at = "reading" /\ c.op = "draw" /\ A!Tells(q, c, "422")
    BY <1>5 DEF A!NotDrawable, A!At
  <2>2. Honest(q, c, "422", wrote[q])
    BY <1>2, <1>3, <2>1 DEF Placed, Graphed, Honest
  <2> QED BY <1>4, <2>1, <2>2, Telling
<1>6. CASE A!Read(q, c)
  <2>1. PICK code \in {"200"} \cup A!Failures : A!Tells(q, c, code)
    BY <1>6 DEF A!Read
  <2>2. /\ c.at = "reading" /\ registered = "fine"
        /\ c.op \in {"describe", "draw"} \cup A!Reading
    BY <1>2, <1>6 DEF A!Read, A!At, Placed
  <2>3. ~wrote[q]
    BY <1>3, <2>2 DEF Graphed, A!Reading
  <2>4. code \in A!OfGraph
    BY <2>1, <2>2 DEF A!OfGraph
  <2>5. Honest(q, c, code, wrote[q])
    BY <1>3, <2>3, <2>4, GraphAnswers
  <2> QED BY <1>4, <2>1, <2>5, Telling
<1>7. CASE A!Open(q, c)
  <2>0. c.at = "opening"
    BY <1>7 DEF A!Open, A!At
  <2>1. ASSUME NEW code \in {"404", "424"} \cup A!Failures, A!Tells(q, c, code),
               code \in A!OfGraph
        PROVE  AnswersInv'
    <3>1. Honest(q, c, code, wrote[q])
      BY <1>3, <2>1, GraphAnswers DEF A!Failures
    <3> QED BY <1>4, <2>1, <3>1, Telling
  <2>2. CASE registered = "unknown" /\ A!Tells(q, c, "404")
    BY <2>1, <2>2 DEF A!OfGraph
  <2>3. CASE registered = "invalid" /\ A!Tells(q, c, "424")
    BY <2>1, <2>3 DEF A!OfGraph
  <2>4. ASSUME registered # "unknown", NEW code \in A!Failures, A!Tells(q, c, code)
        PROVE  AnswersInv'
    <3>1. code \in A!OfGraph
      BY <2>4 DEF A!OfGraph
    <3> QED BY <2>1, <2>4, <3>1
  <2>5. CASE registered = "fine" /\ A!Waits(q, c, A!AfterOpening(c))
    <3> DEFINE place == A!AfterOpening(c)
    <3>1. place \in Stops
      BY DEF A!AfterOpening, Stops, Places
    <3>2. ASSUME NEW d, Alike(d, c), d.at = place PROVE Placed(d, Before(q, c), wrote[q])
      <4>1. c.op \in {"describe", "draw"} \cup A!Reading \cup A!Stateful
        BY <1>2, <2>0 DEF Placed
      <4>2. Graphed(d, Before(q, c), wrote[q])
        BY <1>3, <3>2 DEF Graphed, Alike
      <4>3. CASE c.op \in A!Stateful
        <5>1. d.at = "updating" /\ d.op \in A!Stateful
          BY <3>2, <4>3 DEF A!AfterOpening, Alike
        <5> QED BY <2>5, <4>2, <5>1 DEF Placed
      <4>4. CASE c.op \notin A!Stateful
        <5>1. d.at = "reading" /\ d.op \in {"describe", "draw"} \cup A!Reading
          BY <3>2, <4>1, <4>4 DEF A!AfterOpening, Alike
        <5> QED BY <2>5, <4>2, <5>1 DEF Placed
      <4> QED BY <4>3, <4>4
    <3> HIDE DEF place
    <3>3. A!Waits(q, c, place)
      BY <2>5 DEF place
    <3>4. MayGo(q, c, place, wrote[q])
      BY <3>2 DEF MayGo
    <3> QED BY <1>2, <3>1, <3>3, <3>4, GoingTo
  <2> QED BY <1>7, <2>2, <2>3, <2>4, <2>5 DEF A!Open
<1> QED BY <1>5, <1>6, <1>7

LEMMA PartialFor ==
    ASSUME NEW c, c.op \in A!Stateful
    PROVE  {"400", "404", "500"} \subseteq A!PartialFailures(c)
<1>1. \A code \in {"400", "404", "500"} : code \in A!PartialFailures(c)
  BY DEF A!PartialFailures, A!Stateful
<1> QED BY <1>1

\* Changing the state of a thread, and reading it for the row.
LEMMA Updating ==
    ASSUME AnswersInv, Rights, NEW q \in Requests, NEW c \in CallRecord, Underway(q, c),
           A!Update(q, c) \/ A!Reread(q, c) \/ A!Show(q, c)
    PROVE  AnswersInv'
<1>0. NoneLeft
  BY DEF AnswersInv
<1>1. c.at \in {"updating", "rereading", "showing"}
  BY DEF A!Update, A!Reread, A!Show, A!At
<1>2. /\ c.valid /\ Placed(c, Before(q, c), wrote[q]) /\ wrote[q] \in BOOLEAN
      /\ c.op \in A!Stateful
  BY <1>1, GoesOn DEF Placed
<1>3. {"200", "404"} \cup A!Failures \subseteq A!Codes /\ {"rereading", "showing"} \subseteq Stops
  BY DEF A!Codes, A!Failures, Stops, Places
<1>4. {"404"} \cup A!Failures \subseteq A!PartialFailures(c)
  BY <1>2, PartialFor DEF A!Failures
<1>5. CASE A!Update(q, c)
  <2>1. c.at = "updating" /\ registered = "fine" /\ Graphed(c, Before(q, c), wrote[q])
    BY <1>2, <1>5 DEF A!Update, A!At, Placed
  <2>2. A!Failures \subseteq A!OfGraph /\ "200" \in A!OfGraph /\ "200" \notin A!Failures
    BY <2>1 DEF A!OfGraph, A!Failures
  <2>3. ASSUME NEW code \in A!Failures, A!Tells(q, c, code) PROVE AnswersInv'
    <3>1. Honest(q, c, code, wrote[q])
      BY <2>1, <2>2, <2>3, GraphAnswers
    <3> QED BY <1>3, <2>3, <3>1, Telling
  <2>4. ASSUME NEW code \in A!Failures, A!Says(q, c, code), A!Writes(q), UNCHANGED A!tables
        PROVE  AnswersInv'
    <3>1. Honest(q, c, code, TRUE)
      BY <1>4 DEF Honest
    <3>2. NoneLeft'
      BY <1>0, <2>4, SameLeft DEF A!tables
    <3> QED BY <1>3, <2>4, <3>1, <3>2, WritingAnswer
  <2>5. CASE A!Goes(q, c, "rereading") /\ A!Writes(q) /\ UNCHANGED A!tables
    <3>1. "200" \in Before(q, c)
      BY <2>1, <2>2 DEF Graphed
    <3>2. MayGo(q, c, "rereading", TRUE)
      BY <1>2, <3>1 DEF MayGo, Placed, Alike
    <3>3. NoneLeft'
      BY <1>0, <2>5, SameLeft DEF A!tables
    <3> QED BY <1>2, <1>3, <2>5, <3>2, <3>3, WritingOn
  <2> QED BY <1>5, <2>3, <2>4, <2>5 DEF A!Update
<1>6. CASE A!Reread(q, c)
  <2>1. c.at = "rereading" /\ wrote[q] /\ "200" \in Before(q, c)
    BY <1>2, <1>6 DEF A!Reread, A!At, Placed
  <2>2. ASSUME NEW code \in {"404"} \cup A!Failures, A!Tells(q, c, code) PROVE AnswersInv'
    <3>1. Honest(q, c, code, wrote[q])
      BY <1>4, <2>1 DEF Honest
    <3> QED BY <1>3, <2>2, <3>1, Telling
  <2>3. CASE A!Waits(q, c, "showing")
    <3>1. MayGo(q, c, "showing", wrote[q])
      BY <1>2, <2>1 DEF MayGo, Placed, Alike
    <3> QED BY <1>2, <1>3, <2>3, <3>1, GoingTo
  <2>4. \/ A!Tells(q, c, "404") \/ A!Waits(q, c, "showing")
        \/ \E code \in A!Failures : A!Tells(q, c, code)
    BY <1>6 DEF A!Reread
  <2> QED BY <2>2, <2>3, <2>4
<1>7. CASE A!Show(q, c)
  <2>1. c.at = "showing" /\ wrote[q] /\ "200" \in Before(q, c) /\ A!Tells(q, c, "200")
    BY <1>2, <1>7 DEF A!Show, A!At, Placed
  <2>2. Honest(q, c, "200", wrote[q])
    BY <2>1 DEF Honest
  <2> QED BY <1>3, <2>1, <2>2, Telling
<1> QED BY <1>5, <1>6, <1>7

----------------------------------------------------------------------------
(* Calls that come: threads.                                               *)

LEMMA MakingThreads ==
    ASSUME AnswersInv, Rights, NEW q \in Requests, NEW c \in CallRecord, Underway(q, c),
           A!CreateThread(q, c) \/ A!CreateThreadWithState(q, c)
    PROVE  AnswersInv'
<1>0. NoneLeft
  BY DEF AnswersInv
<1>1. c.at = "asked" /\ c.valid /\ c.op \in A!WithGraph
      /\ (A!CreateThread(q, c) => c.op = "create thread")
      /\ (A!CreateThreadWithState(q, c) => c.op = "create thread with state")
  BY DEF A!CreateThread, A!CreateThreadWithState, A!Asked, A!At, A!WithGraph
<1>2. {"200", "400", "409"} \subseteq A!Codes /\ "opening" \in Stops
  BY DEF A!Codes, Stops, Places
<1>3. A!NewThread(c) # "gone"
  BY DEF A!NewThread
<1>4. CASE A!CreateThread(q, c)
  <2>1. CASE thread = "gone"
    <3>1. /\ "200" \in A!RightNow(c) /\ A!Says(q, c, "200") /\ A!Writes(q)
          /\ thread' = A!NewThread(c) /\ jobs' = jobs
      BY <1>1, <1>4, <2>1, RightFor DEF A!CreateThread
    <3> QED BY <1>0, <1>1, <1>2, <1>3, <3>1, SameLeft, AskedWrites
  <2>2. CASE thread # "gone"
    <3> DEFINE code == IF c.opt THEN "200" ELSE "409"
    <3>1. code \in A!Codes /\ code \in A!RightNow(c) /\ A!Tells(q, c, code)
      BY <1>1, <1>2, <1>4, <2>2, RightFor DEF A!CreateThread
    <3> HIDE DEF code
    <3> QED BY <1>1, <3>1, AskedTells
  <2> QED BY <2>1, <2>2
<1>5. CASE A!CreateThreadWithState(q, c)
  <2>0. c.op = "create thread with state"
    BY <1>1, <1>5
  <2>1. CASE thread = "gone"
    <3>1. /\ "200" \in A!RightNow(c) /\ A!Writes(q) /\ thread' = A!NewThread(c) /\ jobs' = jobs
          /\ A!Says(q, c, "400") \/ A!Goes(q, c, "opening")
      BY <1>1, <1>5, <2>1, RightFor DEF A!CreateThreadWithState
    <3>2. NoneLeft'
      BY <1>0, <1>3, <3>1, SameLeft
    <3>3. "400" \in A!PartialFailures(c)
      BY <2>0 DEF A!PartialFailures, A!Stateful
    <3>4. \A d : Alike(d, c) /\ d.at = "opening" => Placed(d, A!RightNow(c), TRUE)
      BY <2>0, <3>1 DEF Alike, Placed, Graphed, A!Stateful
    <3>5. CASE A!Says(q, c, "400")
      BY <1>1, <1>2, <3>1, <3>2, <3>3, <3>5, AskedWrites
    <3>6. CASE A!Goes(q, c, "opening")
      BY <1>1, <1>2, <3>1, <3>2, <3>4, <3>6, AskedWritesOn
    <3> QED BY <3>1, <3>5, <3>6
  <2>2. CASE thread # "gone" /\ ~c.opt
    <3>1. "409" \in A!RightNow(c) /\ A!Tells(q, c, "409")
      BY <1>1, <1>5, <2>2, RightFor DEF A!CreateThreadWithState
    <3> QED BY <1>1, <1>2, <3>1, AskedTells
  <2>3. CASE c.opt /\ thread = "bare"
    <3>1. "400" \in A!RightNow(c) /\ A!Tells(q, c, "400")
      BY <1>1, <1>5, <2>0, <2>3, RightForState DEF A!CreateThreadWithState
    <3> QED BY <1>1, <1>2, <3>1, AskedTells
  <2>4. CASE c.opt /\ thread \notin {"gone", "bare"}
    <3>1. Graphed(c, A!RightNow(c), FALSE) /\ A!Waits(q, c, "opening")
      BY <1>1, <1>5, <2>0, <2>4, RightForState DEF A!CreateThreadWithState
    <3>2. \A d : Alike(d, c) /\ d.at = "opening" => Placed(d, A!RightNow(c), FALSE)
      BY <2>0, <3>1 DEF Alike, Placed, Graphed, A!Stateful
    <3> QED BY <1>1, <1>2, <3>1, <3>2, AskedWaits
  <2> QED BY <2>1, <2>2, <2>3, <2>4
<1> QED BY <1>4, <1>5

LEMMA AskingForThreads ==
    ASSUME AnswersInv, Rights, NEW q \in Requests, NEW c \in CallRecord, Underway(q, c),
           A!GetThread(q, c) \/ A!PatchThread(q, c) \/ A!CopyThread(q, c)
    PROVE  AnswersInv'
<1>0. NoneLeft
  BY DEF AnswersInv
<1>2. {"200", "404", "409"} \subseteq A!Codes
  BY DEF A!Codes
<1>3. CASE A!GetThread(q, c)
  <2> DEFINE code == IF thread = "gone" THEN "404" ELSE "200"
  <2>1. c.at = "asked" /\ code \in A!Codes /\ code \in A!RightNow(c) /\ A!Tells(q, c, code)
    BY <1>2, <1>3, RightFor DEF A!GetThread, A!Asked, A!At
  <2> HIDE DEF code
  <2> QED BY <2>1, AskedTells
<1>4. CASE A!PatchThread(q, c)
  <2>1. c.at = "asked" /\ c.valid /\ c.op = "patch thread"
    BY <1>4 DEF A!PatchThread, A!Asked, A!At
  <2>2. CASE thread = "gone"
    <3>1. "404" \in A!RightNow(c) /\ A!Tells(q, c, "404")
      BY <1>4, <2>1, <2>2, RightFor DEF A!PatchThread
    <3> QED BY <1>2, <2>1, <3>1, AskedTells
  <2>3. CASE thread # "gone"
    <3>1. /\ "200" \in A!RightNow(c) /\ A!Says(q, c, "200") /\ A!Writes(q)
          /\ thread' # "gone" /\ jobs' = jobs
      BY <1>4, <2>1, <2>3, RightFor DEF A!PatchThread
    <3> QED BY <1>0, <1>2, <2>1, <3>1, SameLeft, AskedWrites
  <2> QED BY <2>2, <2>3
<1>5. CASE A!CopyThread(q, c)
  <2>1. c.at = "asked" /\ c.valid /\ c.op = "copy thread"
    BY <1>5 DEF A!CopyThread, A!Asked, A!At
  <2>2. CASE thread = "gone"
    <3>1. "409" \in A!RightNow(c) /\ A!Tells(q, c, "409")
      BY <1>5, <2>1, <2>2, RightFor DEF A!CopyThread
    <3> QED BY <1>2, <2>1, <3>1, AskedTells
  <2>3. CASE thread # "gone"
    <3>1. /\ "200" \in A!RightNow(c) /\ A!Says(q, c, "200") /\ A!Writes(q)
          /\ thread' = thread /\ jobs' = jobs
      BY <1>5, <2>1, <2>3, RightFor DEF A!CopyThread, A!tables
    <3> QED BY <1>0, <1>2, <2>1, <3>1, SameLeft, AskedWrites
  <2> QED BY <2>2, <2>3
<1> QED BY <1>3, <1>4, <1>5

LEMMA DeletingThread ==
    ASSUME AnswersInv, Rights, NEW q \in Requests, NEW c \in CallRecord, Underway(q, c),
           A!DeleteThread(q, c)
    PROVE  AnswersInv'
<1>0. NoneLeft /\ wrote \in [Requests -> BOOLEAN]
  BY DEF AnswersInv
<1>1. c.at = "asked" /\ c.valid /\ c.op = "delete thread" /\ "404" \in A!Codes /\ "200" \in A!Codes
  BY DEF A!DeleteThread, A!Asked, A!At, A!Codes
<1>2. CASE thread = "gone"
  <2>1. "404" \in A!RightNow(c) /\ A!Tells(q, c, "404")
    BY <1>1, <1>2, RightFor DEF A!DeleteThread
  <2> QED BY <1>1, <2>1, AskedTells
<1>3. CASE thread # "gone"
  <2>1. /\ "200" \in A!RightNow(c) /\ registered' = registered
        /\ jobs' = [r \in Works |-> IF A!Exists(r) THEN "gone" ELSE jobs[r]]
        /\ call' = [A!Dead EXCEPT ![q] = A!Over(c, "200")]
        /\ wrote' = [wrote EXCEPT ![q] = TRUE]
    BY <1>1, <1>3, RightFor DEF A!DeleteThread, A!Writes
  <2>2. NoneLeft'
    BY <1>0, <2>1 DEF NoneLeft, A!Exists
  <2>3. A!Over(c, "200") \in CallRecord
    BY <1>1, AnsweredIs
  <2>4. PICK r \in Works : TRUE
    BY AnswersAssumed DEF A!AnswersAssumption
  <2>5. /\ call' \in [Requests -> CallRecord] /\ call'[q] = A!Over(c, "200") /\ Untouched(q)
    BY <2>1, <2>3, <2>4, ListsAndOne
  <2>6. Honest(q, c, "200", wrote'[q])
    BY <1>1, <2>1, Comes DEF Honest
  <2> QED BY <1>1, <2>1, <2>2, <2>5, <2>6, Answering
<1> QED BY <1>2, <1>3

LEMMA AskingForStates ==
    ASSUME AnswersInv, Rights, NEW q \in Requests, NEW c \in CallRecord, Underway(q, c),
           A!ReadState(q, c) \/ A!ReadHistory(q, c) \/ A!UpdateState(q, c)
    PROVE  AnswersInv'
<1>1. c.at = "asked" /\ c.valid /\ c.op \in A!Reading \cup {"update state"}
  BY DEF A!ReadState, A!ReadHistory, A!UpdateState, A!Asked, A!At, A!Reading
<1>2. {"200", "404", "400"} \subseteq A!Codes /\ "opening" \in Stops
  BY DEF A!Codes, Stops, Places
<1>3. /\ thread = "gone" => A!Tells(q, c, "404")
      /\ thread = "bare" => A!Tells(q, c, IF c.op \in A!Reading THEN "200" ELSE "400")
      /\ thread \notin {"gone", "bare"} => A!Waits(q, c, "opening")
  BY DEF A!ReadState, A!ReadHistory, A!UpdateState, A!Asked, A!Look, A!Reading
<1>4. CASE thread = "gone"
  <2>1. "404" \in A!RightNow(c)
    BY <1>1, <1>4, RightForState
  <2> QED BY <1>1, <1>2, <1>3, <1>4, <2>1, AskedTells
<1>5. CASE thread = "bare"
  <2> DEFINE code == IF c.op \in A!Reading THEN "200" ELSE "400"
  <2>1. code \in A!RightNow(c) /\ code \in A!Codes /\ A!Tells(q, c, code)
    BY <1>1, <1>2, <1>3, <1>5, RightForState
  <2> HIDE DEF code
  <2> QED BY <1>1, <2>1, AskedTells
<1>6. CASE thread \notin {"gone", "bare"}
  <2>1. Graphed(c, A!RightNow(c), FALSE)
    BY <1>1, <1>6, RightForState
  <2>2. \A d : Alike(d, c) /\ d.at = "opening" => Placed(d, A!RightNow(c), FALSE)
    BY <1>1, <2>1 DEF Alike, Placed, Graphed, A!Stateful, A!Reading
  <2> QED BY <1>1, <1>2, <1>3, <1>6, <2>2, AskedWaits
<1> QED BY <1>4, <1>5, <1>6

----------------------------------------------------------------------------
(* Calls about runs.                                                       *)

LEMMA CreatingRun ==
    ASSUME AnswersInv, Rights, NEW q \in Requests, NEW c \in CallRecord, Underway(q, c),
           A!CreateRun(q, c)
    PROVE  AnswersInv'
<1>0. NoneLeft
  BY DEF AnswersInv
<1>1. c.at = "asked" /\ c.valid /\ c.op = "create run" /\ {"200", "404", "409"} \subseteq A!Codes
  BY DEF A!CreateRun, A!Asked, A!At, A!Codes
<1>2. CASE versions = {} \/ thread = "gone"
  <2>1. "404" \in A!RightNow(c) /\ A!Tells(q, c, "404")
    BY <1>1, <1>2, RightForRuns DEF A!CreateRun
  <2> QED BY <1>1, <2>1, AskedTells
<1>3. CASE versions # {} /\ thread # "gone" /\ c.opt /\ A!Busy
  <2>1. "409" \in A!RightNow(c) /\ A!Tells(q, c, "409")
    BY <1>1, <1>3, RightForRuns DEF A!CreateRun
  <2> QED BY <1>1, <2>1, AskedTells
<1>4. CASE versions # {} /\ thread # "gone" /\ ~(c.opt /\ A!Busy)
  <2>1. "200" \in A!RightNow(c) /\ A!Writes(q) /\ thread' \in {thread, "graph"}
    BY <1>1, <1>4, RightForRuns DEF A!CreateRun
  <2>2. PICK r \in Works : /\ jobs' = [jobs EXCEPT ![r] = "in flight"]
                           /\ call' = [A!With(r) EXCEPT ![q] = A!Over(c, "200")]
    BY <1>4 DEF A!CreateRun
  <2>3. NoneLeft'
    BY <1>0, <1>4, <2>1, <2>2 DEF NoneLeft
  <2>4. A!Over(c, "200") \in CallRecord
    BY <1>1, AnsweredIs
  <2>5. call' \in [Requests -> CallRecord] /\ call'[q] = A!Over(c, "200") /\ Untouched(q)
    BY <2>2, <2>4, ListsAndOne
  <2>6. Honest(q, c, "200", wrote'[q])
    BY <1>1, <2>1, Comes DEF Honest
  <2>7. registered' = registered /\ wrote' = [wrote EXCEPT ![q] = TRUE]
    BY <2>1 DEF A!Writes
  <2> QED BY <1>1, <2>3, <2>5, <2>6, <2>7, Answering
<1> QED BY <1>2, <1>3, <1>4

LEMMA GettingRun ==
    ASSUME AnswersInv, Rights, NEW q \in Requests, NEW c \in CallRecord, Underway(q, c),
           A!GetRun(q, c) \/ A!Gathered(q, c)
    PROVE  AnswersInv'
<1>0. {"200", "404"} \subseteq A!Codes /\ "gathering" \in Stops
  BY DEF A!Codes, Stops, Places
<1>1. CASE A!GetRun(q, c)
  <2>1. c.at = "asked" /\ c.valid /\ c.op \in {"get run", "list runs"}
    BY <1>1 DEF A!GetRun, A!Asked, A!At
  <2>2. CASE thread = "gone"
    <3>1. c.run \in Works /\ ~A!Exists(c.run)
      BY <2>2 DEF AnswersInv, NoneLeft, CallRecord
    <3>2. "404" \in A!RightNow(c) /\ A!Tells(q, c, "404")
      BY <1>1, <2>1, <2>2, <3>1, RightFor, RightForRuns DEF A!GetRun
    <3> QED BY <1>0, <2>1, <3>2, AskedTells
  <2>3. CASE thread # "gone"
    <3>1. c.op = "list runs" => "200" \in A!RightNow(c)
      BY <2>1, <2>3, RightFor
    <3>2. A!Waits(q, c, "gathering")
      BY <1>1, <2>3 DEF A!GetRun
    <3>3. \A d : Alike(d, c) /\ d.at = "gathering" => Placed(d, A!RightNow(c), FALSE)
      BY <2>1, <3>1 DEF Alike, Placed
    <3> QED BY <1>0, <2>1, <3>2, <3>3, AskedWaits
  <2> QED BY <2>2, <2>3
<1>2. CASE A!Gathered(q, c)
  <2> DEFINE code == IF c.op = "get run" /\ ~A!Exists(c.run) THEN "404" ELSE "200"
  <2>1. c.at = "gathering" /\ A!Tells(q, c, code)
    BY <1>2 DEF A!Gathered, A!At
  <2>2. /\ c.valid /\ Placed(c, Before(q, c), wrote[q])
        /\ ~wrote[q] => A!RightNow(c) \subseteq Before(q, c)
    BY <2>1, GoesOn
  <2>3. /\ c.op \in {"get run", "list runs"} /\ ~wrote[q]
        /\ c.op = "list runs" => "200" \in Before(q, c)
    BY <2>1, <2>2 DEF Placed
  <2>4. code \in Before(q, c) /\ code \in A!Codes
    BY <1>0, <2>2, <2>3, RightForRuns
  <2> HIDE DEF code
  <2>5. Honest(q, c, code, wrote[q])
    BY <2>3, <2>4 DEF Honest
  <2> QED BY <2>1, <2>4, <2>5, Telling
<1> QED BY <1>1, <1>2

\* A thread that is gone is an answer to a call that joins a run, whatever else it has
\* done.
LEMMA NothingToJoin ==
    ASSUME AnswersInv, NEW q \in Requests, NEW c \in CallRecord, Underway(q, c),
           c.at # "asked", thread = "gone",
           (c.op = "join run" /\ ~wrote[q]) \/ (c.op = "cancel run" /\ c.opt)
    PROVE  Honest(q, c, "404", wrote[q])
<1>1. /\ c.valid /\ wrote[q] \in BOOLEAN
      /\ ~wrote[q] => A!RightNow(c) \subseteq Before(q, c)
  BY GoesOn
<1>2. CASE wrote[q]
  <2>1. "404" \in A!PartialFailures(c)
    BY <1>2 DEF A!PartialFailures, A!Stateful
  <2> QED BY <1>2, <2>1 DEF Honest
<1>3. CASE ~wrote[q]
  <2>1. c.run \in Works /\ ~A!Exists(c.run)
    BY DEF AnswersInv, NoneLeft, CallRecord
  <2>2. "404" \in A!RightNow(c)
    BY <1>1, <2>1, RightFor, RightForRuns
  <2> QED BY <1>1, <1>3, <2>2 DEF Honest
<1> QED BY <1>1, <1>2, <1>3

LEMMA JoiningRun ==
    ASSUME AnswersInv, Rights, NEW q \in Requests, NEW c \in CallRecord, Underway(q, c),
           A!JoinRun(q, c) \/ A!Joined(q, c)
    PROVE  AnswersInv'
<1>0. {"200", "404"} \subseteq A!Codes /\ "joining" \in Stops
  BY DEF A!Codes, Stops, Places
<1>1. CASE A!JoinRun(q, c) /\ c.at = "asked"
  <2>1. c.valid /\ c.op = "join run"
    BY <1>1 DEF A!JoinRun, A!Asked, A!At
  <2>2. CASE thread = "gone"
    <3>1. "404" \in A!RightNow(c) /\ A!Tells(q, c, "404")
      BY <1>1, <2>1, <2>2, RightFor DEF A!JoinRun
    <3> QED BY <1>0, <1>1, <3>1, AskedTells
  <2>3. CASE thread # "gone"
    <3>1. "200" \in A!RightNow(c) /\ A!Waits(q, c, "joining")
      BY <1>1, <2>1, <2>3, RightFor DEF A!JoinRun
    <3>2. \A d : Alike(d, c) /\ d.at = "joining" => Placed(d, A!RightNow(c), FALSE)
      BY <2>1, <3>1 DEF Alike, Placed
    <3> QED BY <1>0, <1>1, <2>1, <3>1, <3>2, AskedWaits
  <2> QED BY <2>2, <2>3
<1>2. CASE A!JoinRun(q, c) /\ c.at # "asked"
  <2>1. c.at = "cancelled" /\ c.opt
    BY <1>2 DEF A!JoinRun, A!Asked, A!At
  <2>2. c.valid /\ c.op = "cancel run" /\ "200" \in Before(q, c)
    BY <2>1, GoesOn DEF Placed
  <2>3. CASE thread = "gone"
    <3>1. Honest(q, c, "404", wrote[q]) /\ A!Tells(q, c, "404")
      BY <1>2, <2>1, <2>2, <2>3, NothingToJoin DEF A!JoinRun
    <3> QED BY <1>0, <3>1, Telling
  <2>4. CASE thread # "gone"
    <3>1. A!Waits(q, c, "joining")
      BY <1>2, <2>4 DEF A!JoinRun
    <3>2. MayGo(q, c, "joining", wrote[q])
      BY <2>1, <2>2 DEF MayGo, Placed, Alike
    <3> QED BY <1>0, <2>2, <3>1, <3>2, GoingTo
  <2> QED BY <2>3, <2>4
<1>3. CASE A!Joined(q, c)
  <2>1. c.at = "joining"
    BY <1>3 DEF A!Joined, A!At
  <2>2. /\ (c.op = "join run" /\ ~wrote[q]) \/ (c.op = "cancel run" /\ c.opt)
        /\ "200" \in Before(q, c)
    BY <2>1, GoesOn DEF Placed
  <2>3. CASE A!Tells(q, c, "200")
    <3>1. Honest(q, c, "200", wrote[q])
      BY <2>2 DEF Honest
    <3> QED BY <1>0, <2>3, <3>1, Telling
  <2>4. CASE thread = "gone" /\ A!Tells(q, c, "404")
    <3>1. Honest(q, c, "404", wrote[q])
      BY <2>1, <2>2, <2>4, NothingToJoin
    <3> QED BY <1>0, <2>4, <3>1, Telling
  <2> QED BY <1>3, <2>3, <2>4 DEF A!Joined
<1> QED BY <1>1, <1>2, <1>3

LEMMA Cancelling ==
    ASSUME AnswersInv, Rights, NEW q \in Requests, NEW c \in CallRecord, Underway(q, c),
           A!CancelRun(q, c) \/ A!Cancelled(q, c)
    PROVE  AnswersInv'
<1>0. NoneLeft /\ {"200", "404"} \subseteq A!Codes /\ {"cancelled", "erasing"} \subseteq Stops
      /\ c.run \in Works
  BY DEF AnswersInv, A!Codes, Stops, Places, CallRecord
<1>1. CASE A!CancelRun(q, c)
  <2>1. c.at = "asked" /\ c.valid /\ c.op = "cancel run"
    BY <1>1 DEF A!CancelRun, A!Asked, A!At
  <2>2. CASE ~A!Exists(c.run)
    <3>1. "404" \in A!RightNow(c)
      BY <2>1, <2>2, RightForRuns
    <3>2. A!Tells(q, c, "404")
      BY <1>1, <2>2 DEF A!CancelRun, A!Exists
    <3> QED BY <1>0, <2>1, <3>1, <3>2, AskedTells
  <2>3. CASE A!Exists(c.run)
    <3>1. "200" \in A!RightNow(c)
      BY <2>1, <2>3, RightForRuns
    <3>2. ASSUME NEW place \in {"cancelled", "erasing"}, A!Waits(q, c, place) PROVE AnswersInv'
      <4>1. \A d : Alike(d, c) /\ d.at = place => Placed(d, A!RightNow(c), FALSE)
        BY <2>1, <3>1, <3>2 DEF Alike, Placed
      <4> QED BY <1>0, <2>1, <3>2, <4>1, AskedWaits
    <3>3. CASE /\ jobs' = [jobs EXCEPT ![c.run] = "ended"] /\ thread' = thread
               /\ A!Goes(q, c, "cancelled") /\ A!Writes(q)
      <4>1. \A d : Alike(d, c) /\ d.at = "cancelled" => Placed(d, A!RightNow(c), TRUE)
        BY <2>1, <3>1 DEF Alike, Placed
      <4>2. NoneLeft'
        BY <1>0, <2>3, <3>3, FewerLeft
      <4> QED BY <1>0, <2>1, <3>3, <4>1, <4>2, AskedWritesOn
    <3>4. \/ A!Waits(q, c, "cancelled") \/ A!Waits(q, c, "erasing")
          \/ /\ jobs' = [jobs EXCEPT ![c.run] = "ended"] /\ thread' = thread
             /\ A!Goes(q, c, "cancelled") /\ A!Writes(q)
      BY <1>1, <2>3 DEF A!CancelRun
    <3> QED BY <3>2, <3>3, <3>4
  <2> QED BY <2>2, <2>3
<1>2. CASE A!Cancelled(q, c)
  <2>1. c.at = "cancelled" /\ A!Tells(q, c, "200")
    BY <1>2 DEF A!Cancelled, A!At
  <2>2. Honest(q, c, "200", wrote[q])
    BY <2>1, GoesOn DEF Placed, Honest
  <2> QED BY <1>0, <2>1, <2>2, Telling
<1> QED BY <1>1, <1>2

LEMMA Erasing ==
    ASSUME AnswersInv, Rights, NEW q \in Requests, NEW c \in CallRecord, Underway(q, c),
           A!CancelErases(q, c)
    PROVE  AnswersInv'
<1>0. NoneLeft /\ {"200", "404"} \subseteq A!Codes /\ "cancelled" \in Stops /\ c.run \in Works
  BY DEF AnswersInv, A!Codes, Stops, Places, CallRecord
<1>1. c.at = "erasing"
  BY DEF A!CancelErases, A!At
<1>2. /\ c.valid /\ c.op = "cancel run" /\ ~wrote[q] /\ "200" \in Before(q, c)
      /\ A!RightNow(c) \subseteq Before(q, c)
  BY <1>1, GoesOn DEF Placed
<1>3. CASE ~A!Exists(c.run)
  <2>1. "404" \in A!RightNow(c) /\ A!Tells(q, c, "404")
    BY <1>2, <1>3, RightForRuns DEF A!CancelErases
  <2>2. Honest(q, c, "404", wrote[q])
    BY <1>2, <2>1 DEF Honest
  <2> QED BY <1>0, <2>1, <2>2, Telling
<1>4. CASE A!Exists(c.run)
  <2> DEFINE d == [c EXCEPT !.at = "cancelled"]
  <2>1. /\ jobs' = [jobs EXCEPT ![c.run] = "gone"] /\ thread' = thread
        /\ call' = [A!Without(c.run) EXCEPT ![q] = d]
        /\ registered' = registered /\ wrote' = [wrote EXCEPT ![q] = TRUE]
    BY <1>4 DEF A!CancelErases, A!Writes
  <2>2. d \in CallRecord /\ Alike(d, c) /\ d.at = "cancelled"
    BY <1>0, GoneIs DEF Stops
  <2> HIDE DEF d
  <2>3. call' \in [Requests -> CallRecord] /\ call'[q] = d /\ Untouched(q)
    BY <1>0, <2>1, <2>2, ListsAndOne
  <2>4. NoneLeft'
    BY <1>0, <1>4, <2>1, FewerLeft
  <2>5. Placed(d, Before(q, c), wrote'[q])
    BY <1>2, <2>2 DEF Placed, Alike
  <2> QED BY <1>2, <2>1, <2>2, <2>3, <2>4, <2>5, GoingOn
<1> QED BY <1>3, <1>4

LEMMA DeletingRun ==
    ASSUME AnswersInv, Rights, NEW q \in Requests, NEW c \in CallRecord, Underway(q, c),
           A!DeleteRun(q, c)
    PROVE  AnswersInv'
<1>0. NoneLeft /\ {"200", "404"} \subseteq A!Codes /\ c.run \in Works
  BY DEF AnswersInv, A!Codes, CallRecord
<1>1. c.at = "asked" /\ c.valid /\ c.op = "delete run"
  BY DEF A!DeleteRun, A!Asked, A!At
<1>2. CASE ~A!Exists(c.run)
  <2>1. "404" \in A!RightNow(c) /\ A!Tells(q, c, "404")
    BY <1>1, <1>2, RightForRuns DEF A!DeleteRun
  <2> QED BY <1>0, <1>1, <2>1, AskedTells
<1>3. CASE A!Exists(c.run)
  <2>1. /\ "200" \in A!RightNow(c)
        /\ jobs' = [jobs EXCEPT ![c.run] = "gone"] /\ thread' = thread
        /\ call' = [A!Without(c.run) EXCEPT ![q] = A!Over(c, "200")]
        /\ registered' = registered /\ wrote' = [wrote EXCEPT ![q] = TRUE]
    BY <1>1, <1>3, RightForRuns DEF A!DeleteRun, A!Writes
  <2>2. A!Over(c, "200") \in CallRecord
    BY <1>0, AnsweredIs
  <2>3. call' \in [Requests -> CallRecord] /\ call'[q] = A!Over(c, "200") /\ Untouched(q)
    BY <1>0, <2>1, <2>2, ListsAndOne
  <2>4. NoneLeft'
    BY <1>0, <1>3, <2>1, FewerLeft
  <2>5. Honest(q, c, "200", wrote'[q])
    BY <1>1, <2>1, Comes DEF Honest
  <2> QED BY <1>0, <2>1, <2>3, <2>4, <2>5, Answering
<1> QED BY <1>2, <1>3

----------------------------------------------------------------------------
(* Every step.                                                             *)

LEMMA StepAnswers ==
    ASSUME AnswersInv, Rights, NEW q \in Requests, NEW c \in CallRecord, Underway(q, c),
           A!StepOf(q, c)
    PROVE  AnswersInv'
  BY AskingForNothing, AskingForAssistants, DeletingAssistant, Cascading, AskingForGraphs,
     AtTheGraph, MakingThreads, AskingForThreads, DeletingThread, AskingForStates, Updating,
     CreatingRun, GettingRun, JoiningRun, Cancelling, Erasing, DeletingRun
  DEF A!StepOf

\* A worker ends a run.
LEMMA ExecuteAnswers ==
    ASSUME AnswersInv, Rights, NEW r \in Works, A!Execute(r)
    PROVE  AnswersInv'
<1>1. /\ NoneLeft /\ call \in [Requests -> CallRecord]
      /\ registered' = registered /\ wrote' = wrote /\ call' = call /\ thread' = thread
      /\ jobs' = [jobs EXCEPT ![r] = "ended"]
  BY DEF AnswersInv, A!Execute
<1>2. A!Exists(r)
  BY DEF A!Execute, A!InFlight, A!Exists
<1>3. NoneLeft'
  BY <1>1, <1>2, FewerLeft
<1> QED BY <1>1, <1>3, NobodySteps DEF Alike

LEMMA NewCallIs == A!NewCall \in CallRecord /\ A!NewCall.at = "new"
<1>1. PICK r \in Works : r = A!NewCall.run
  BY AnswersAssumed DEF A!AnswersAssumption, A!NewCall
<1>2. A!NewCall = [op |-> "search", opt |-> FALSE, valid |-> TRUE, arg |-> 1, run |-> r,
                   rows |-> {}, live |-> FALSE, at |-> "new", answer |-> "none"]
  BY <1>1 DEF A!NewCall
<1> QED BY <1>2 DEF CallRecord, OpNames, Places

LEMMA LeaveAnswers ==
    ASSUME AnswersInv, Rights, NEW q \in Requests, A!Leave(q)
    PROVE  AnswersInv'
<1>1. /\ NoneLeft /\ call \in [Requests -> CallRecord] /\ wrote \in [Requests -> BOOLEAN]
      /\ registered' = registered /\ thread' = thread /\ jobs' = jobs
      /\ call' = [call EXCEPT ![q] = A!NewCall] /\ wrote' = [wrote EXCEPT ![q] = FALSE]
  BY DEF AnswersInv, A!Leave, A!tables
<1>2. NoneLeft'
  BY <1>1, SameLeft
<1>3. call' \in [Requests -> CallRecord] /\ wrote' \in [Requests -> BOOLEAN]
  BY <1>1, NewCallIs
<1>4. ASSUME NEW p \in Requests, p # q PROVE Followed(p)'
  <2>1. call'[p] = call[p] /\ wrote'[p] = wrote[p]
    BY <1>1, <1>4
  <2> QED BY <1>1, <2>1, OthersFollowed DEF Alike
<1>5. Followed(q)'
  <2>1. call'[q].at = "new" /\ wrote'[q] = FALSE
    BY <1>1, NewCallIs
  <2>2. Placed(call'[q], right'[q], wrote'[q])
    BY <2>1 DEF Placed
  <2> QED BY <1>1, <2>1, <2>2, PlacedNext DEF Followed
<1> QED BY <1>2, <1>3, <1>4, <1>5 DEF AnswersInv

\* A call is made with parameters of the operation, and is asked.
LEMMA CallIs ==
    ASSUME NEW op \in OpNames, NEW opt \in BOOLEAN, NEW valid \in BOOLEAN,
           NEW arg \in {1, 2}, NEW run \in Works
    PROVE  LET c == A!Call(op, opt, valid, arg, run) IN c \in CallRecord /\ c.at = "asked"
<1>1. A!NewCall \in CallRecord
  BY NewCallIs
<1> QED BY <1>1 DEF A!Call, CallRecord, Places

LEMMA CallsAre == \A c \in A!Calls : c \in CallRecord /\ c.at = "asked"
<1>1. A!NewCall.run \in Works
  BY NewCallIs DEF CallRecord
<1>2. A!Ops \subseteq OpNames /\ A!WithOpt \cup A!WithGraph \cup A!OnRuns \subseteq OpNames
  BY DEF A!Ops, A!Plain, A!WithOpt, A!WithGraph, A!OnRuns, OpNames
<1>3. {"set latest", "cancel run", "get thread", "copy thread"} \subseteq OpNames
  BY DEF OpNames
<1> DEFINE Good(c) == c \in CallRecord /\ c.at = "asked"
           yes == TRUE
           no  == FALSE
           cancel == "cancel run"
           either == BOOLEAN
           args == {1, 2}
           who == A!NewCall.run
           Simple   == {A!Call(op, no, yes, 1, who) : op \in A!Ops}
           Opting   == {A!Call(op, yes, yes, 1, who) : op \in A!WithOpt \cup A!WithGraph}
           Graphing == {A!Call(op, yes, yes, 2, who) : op \in A!WithGraph}
           Second   == {A!Call(op, no, yes, 2, who) : op \in A!WithGraph \cup {"set latest"}}
           Cancels  == {A!Call(cancel, opt, yes, arg, run) :
                           opt \in either, arg \in args, run \in Works}
           OfRuns   == {A!Call(op, no, yes, 1, run) : op \in A!OnRuns, run \in Works}
           Invalid  == {A!Call(op, no, no, 1, who) : op \in {"get thread", "copy thread"}}
<1>4. A!Calls = Simple \cup Opting \cup Graphing \cup Second \cup Cancels \cup OfRuns
                \cup Invalid
  BY DEF A!Calls
<1>5. \A op \in OpNames, opt \in BOOLEAN, valid \in BOOLEAN, arg \in {1, 2}, run \in Works :
         Good(A!Call(op, opt, valid, arg, run))
  BY CallIs
<1>6. yes \in BOOLEAN /\ no \in BOOLEAN /\ who \in Works
      /\ (\A b \in either : b \in BOOLEAN) /\ args = {1, 2} /\ cancel \in OpNames
  BY <1>1, <1>3
<1> HIDE DEF Good, yes, no, who, either, args, cancel
<1>7. \A c \in Simple \cup Opting \cup Graphing \cup Second \cup Invalid : Good(c)
  BY <1>2, <1>3, <1>5, <1>6, ZenonT(30)
<1>8. ASSUME NEW c \in Cancels PROVE Good(c)
  <2>1. PICK opt \in either : \E arg \in args : \E run \in Works :
           c = A!Call(cancel, opt, yes, arg, run)
    BY SMT
  <2>2. PICK arg \in args : \E run \in Works : c = A!Call(cancel, opt, yes, arg, run)
    BY <2>1
  <2>3. opt \in BOOLEAN /\ arg \in {1, 2}
    BY <1>6
  <2> HIDE DEF Cancels
  <2> QED BY <1>5, <1>6, <2>2, <2>3
<1>9. ASSUME NEW c \in OfRuns PROVE Good(c)
  <2>1. \E op \in A!OnRuns : \E run \in Works : c = A!Call(op, no, yes, 1, run)
    BY SMT
  <2> QED BY <1>2, <1>5, <1>6, <2>1
<1> HIDE DEF Simple, Opting, Graphing, Second, Cancels, OfRuns, Invalid
<1>10. \A c \in A!Calls : Good(c)
  BY <1>4, <1>7, <1>8, <1>9
<1> QED BY <1>10 DEF Good

LEMMA AnswersBegin == A!Init => AnswersInv
<1> SUFFICES ASSUME A!Init PROVE AnswersInv
  OBVIOUS
<1>1. /\ call = [q \in Requests |-> A!NewCall] /\ wrote = [q \in Requests |-> FALSE]
      /\ jobs \in [Works -> {"none", "ended"}]
      /\ thread = "gone" => jobs = [r \in Works |-> "none"]
  BY DEF A!Init
<1>2. NoneLeft
  BY <1>1 DEF NoneLeft, A!Exists
<1>3. ASSUME NEW q \in Requests PROVE Followed(q)
  <2>1. call[q].at = "new" /\ wrote[q] = FALSE
    BY <1>1, NewCallIs
  <2> QED BY <2>1 DEF Followed, Placed
<1> QED BY <1>1, <1>2, <1>3, NewCallIs DEF AnswersInv

LEMMA AnswersGoOn == AnswersInv /\ [A!Next]_(A!vars) => AnswersInv'
<1> SUFFICES ASSUME AnswersInv, [A!Next]_(A!vars) PROVE AnswersInv'
  OBVIOUS
<1>1. CASE A!Next
  <2>1. A!Step /\ Rights
    BY <1>1 DEF A!Next, Rights
  <2>2. ASSUME NEW q \in Requests, A!Leave(q) PROVE AnswersInv'
    BY <2>1, <2>2, LeaveAnswers
  <2>3. ASSUME NEW r \in Works, A!Execute(r) PROVE AnswersInv'
    BY <2>1, <2>3, ExecuteAnswers
  <2>4. ASSUME \A q \in Requests : ~A!At(call[q], "over"), NEW q \in Requests,
               NEW c \in IF A!At(call[q], "new") THEN {d \in A!Calls : A!Within(d)}
                         ELSE {call[q]},
               A!StepOf(q, c)
        PROVE  AnswersInv'
    <3>1. call[q] \in CallRecord /\ call[q].at # "over"
      BY <2>4 DEF AnswersInv, A!At
    <3>2. c \in CallRecord /\ Underway(q, c)
      BY <2>4, <3>1, CallsAre DEF Underway, A!At
    <3> QED BY <2>1, <2>4, <3>2, StepAnswers
  <2> QED BY <2>1, <2>2, <2>3, <2>4 DEF A!Step
<1>2. CASE UNCHANGED A!vars
  <2>1. ASSUME NEW q \in Requests PROVE Followed(q)'
    BY <1>2, ZenonT(30) DEF A!vars, A!tables, AnswersInv, Followed, Placed, Graphed, Truth,
       A!PartialFailures, A!SaidGone, A!OfGraph, A!RightNow, A!Exists, A!InFlight, A!Busy, A!Found
  <2>2. NoneLeft'
    BY <1>2 DEF A!vars, A!tables, AnswersInv, NoneLeft, A!Exists
  <2> QED BY <1>2, <2>1, <2>2 DEF A!vars, AnswersInv
<1> QED BY <1>1, <1>2

LEMMA AnswersTell == AnswersInv => AnswersAreTrue
  BY DEF AnswersInv, Followed, Truth, AnswersAreTrue, A!AnswersAreTrue, A!At

\* Every answer was right at some moment of its call, and one that is an error means that
\* nothing was changed, but for the partial failures and for a page of versions that shows
\* none of those there are, however the calls of the clients interleave.
THEOREM AnswersTrue == MCSpec => []AnswersAreTrue
<1>1. MCInit => AnswersInv
  BY AnswersBegin DEF MCInit
<1>2. [MCNext]_allVars => [A!Next]_(A!vars)
  BY DEF MCNext, allVars, calls, A!vars, A!tables
<1>3. AnswersInv /\ [MCNext]_allVars => AnswersInv'
  BY <1>2, AnswersGoOn
<1> QED BY <1>1, <1>3, AnswersTell, PTL DEF MCSpec

=============================================================================
