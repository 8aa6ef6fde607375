-------------------------- MODULE ThreadStateProofs --------------------------
(***************************************************************************)
(* Theorems about ThreadState for every number of threads, runs, updates,  *)
(* checkpoints and calls: what a rollback erases and restores, and when    *)
(* the row of a thread shows its state.                                    *)
(***************************************************************************)
EXTENDS ThreadState, TLAPS, FiniteSetTheorems

\* A run whose worker is at work, or that will be tried again.
Working(r) ==
    \/ worker[r] \in {"executing", "ending"}
    \/ status[r] = "pending" /\ attempt[r] > 0

\* How far a run can be, given its retry counter and its worker.
Stage ==
    \A r \in Runs :
        /\ status[r] = "unborn" => attempt[r] = 0
        /\ attempt[r] = 0 => worker[r] = "none"
        /\ attempt[r] > MaxAttempts => worker[r] \in {"ending", "over", "undone"}
        /\ outcome[r] = "retry" => worker[r] = "ending" /\ attempt[r] <= MaxAttempts
        /\ outcome[r] = "rollback" => worker[r] = "ending"
        /\ worker[r] = "executing" => outcome[r] = "failed"
        /\ worker[r] \in {"none", "over", "undone"} => outcome[r] = "none"

\* A fresh identifier is given out once, and an update at work has its thread.
Given1 ==
    /\ present \subseteq Given \cup used
    /\ \A r \in Runs : on[r] \in Given \cup used \cup {NoThread}
    /\ \A p \in Posts : post[p] # "idle" => target[p] \in Given \cup used

Shape == TypeOK /\ Stage /\ Given1

USE DEF rows, stored, runs, posts

\* The type invariant in parts.
RowTypes ==
    /\ present \subseteq Threads
    /\ values \in [Threads -> 0..count]
    /\ saved \in [Threads -> SUBSET [id : 1..count, run : Runs \cup {NoRun}]]
    /\ used \subseteq Fresh
    /\ count \in 0..MaxCheckpoints
    /\ calls \in 0..MaxCalls

RunTypes ==
    /\ status \in [Runs -> Status]
    /\ on \in [Runs -> Threads \cup {NoThread}]
    /\ \A r \in Runs : on[r] = NoThread <=> status[r] = "unborn"
    /\ temp \in [Runs -> BOOLEAN]
    /\ attempt \in [Runs -> 0..MaxAttempts + 1]
    /\ worker \in [Runs -> Worker]
    /\ outcome \in [Runs -> Outcome]
    /\ mine \in [Runs -> 0..count] /\ seen \in [Runs -> 0..count]
    /\ told \in [Runs -> Message]
    /\ base \in [Runs -> 0..count]

PostTypes ==
    /\ post \in [Posts -> Post]
    /\ target \in [Posts -> Threads \cup {NoThread}]
    /\ given \in [Posts -> 0..count] /\ read \in [Posts -> 0..count]

LEMMA Parts ==
    /\ TypeOK <=> RowTypes /\ RunTypes /\ PostTypes /\ alone \in [Writers -> BOOLEAN]
    /\ TypeOK' <=> RowTypes' /\ RunTypes' /\ PostTypes' /\ alone' \in [Writers -> BOOLEAN]
<1>1. TypeOK <=> RowTypes /\ RunTypes /\ PostTypes /\ alone \in [Writers -> BOOLEAN]
  BY Zenon DEF TypeOK, RowTypes, RunTypes, PostTypes
<1>2. TypeOK' <=> RowTypes' /\ RunTypes' /\ PostTypes' /\ alone' \in [Writers -> BOOLEAN]
  BY Zenon DEF TypeOK, RowTypes, RunTypes, PostTypes
<1> QED BY <1>1, <1>2

LEMMA TouchedType == \A t, who : Touched(t, who) \in [Writers -> BOOLEAN]
  BY DEF Touched

LEMMA BeganType == \A t, who : Began(t, who) \in [Writers -> BOOLEAN]
<1> SUFFICES ASSUME NEW t, NEW who PROVE Began(t, who) \in [Writers -> BOOLEAN]
  OBVIOUS
<1> QED BY TouchedType DEF Began

LEMMA ShapeInit == Init => Shape
<1> USE NamesAssumption, BoundsAssumption
<1>1. Init => TypeOK
  BY DEF Init, TypeOK, Status, Worker, Outcome, Message, Post
<1>2. Init => Stage /\ Given1
  BY DEF Init, Stage, Given1
<1> QED BY <1>1, <1>2 DEF Shape
----------------------------------------------------------------------------
(* The newest of a set of checkpoints.                                     *)

\* The greatest is the one with the fewest above it.
LEMMA HasGreatest ==
    ASSUME NEW n \in Nat, NEW S, S \subseteq 1..n, S # {}
    PROVE  \E x \in S : \A y \in S : y <= x
<1> DEFINE Above(x) == {y \in S : y > x}
           T == {Above(x) : x \in S}
           R == StrictSubsetOrdering(S)
<1>1. IsFiniteSet(S)
  <2>1. S \in SUBSET Nat /\ \A s \in S : s <= n
    OBVIOUS
  <2> QED BY <2>1, FS_BoundedSetOfNaturals
<1>2. T \subseteq FiniteSubsetsOf(S) /\ T # {}
  <2>1. T \subseteq SUBSET S /\ T # {}
    OBVIOUS
  <2>2. \A U \in SUBSET S : IsFiniteSet(U)
    BY <1>1, FS_Subset
  <2> QED BY <2>1, <2>2 DEF FiniteSubsetsOf
<1>3. PICK m \in T : \A U \in T : ~ (<<U, m>> \in R)
  <2> HIDE DEF T, R
  <2>1. IsWellFoundedOn(R, FiniteSubsetsOf(S))
    BY FS_StrictSubsetOrderingWellFounded DEF R
  <2> QED BY <1>2, <2>1, WFMin, Zenon
<1>4. PICK x \in S : m = Above(x)
  OBVIOUS
<1>5. ASSUME NEW y \in S, y > x PROVE FALSE
  <2>1. Above(y) \in T /\ Above(y) \in SUBSET S /\ m \in SUBSET S
    BY <1>4
  <2>2. Above(y) \subseteq m /\ Above(y) # m
    <3>1. y \in m /\ y \notin Above(y)
      BY <1>4, <1>5
    <3>2. \A z \in Above(y) : z \in Above(x)
      BY <1>5
    <3> QED BY <3>1, <3>2, <1>4
  <2>3. <<Above(y), m>> \in R
    <3> HIDE DEF Above
    <3> QED BY <2>1, <2>2 DEF StrictSubsetOrdering
  <2> QED BY <2>1, <2>3, <1>3
<1> QED BY <1>5

Checkpoints(n) == [id : 1..n, run : Runs \cup {NoRun}]

LEMMA NewestIsGreatest ==
    ASSUME NEW n \in Nat, NEW C, C \subseteq Checkpoints(n)
    PROVE  /\ Newest(C) \in 0..n
           /\ C # {} => /\ Newest(C) \in Ids(C)
                        /\ \A d \in Ids(C) : d <= Newest(C)
<1>1. Ids(C) \subseteq 1..n
  BY DEF Ids, Checkpoints
<1>2. CASE C = {}
  BY <1>2 DEF Newest
<1>3. CASE C # {}
  <2>1. Ids(C) # {}
    BY <1>3 DEF Ids
  <2>2. \E x \in Ids(C) : \A y \in Ids(C) : y <= x
    BY <1>1, <2>1, HasGreatest
  <2>3. /\ Newest(C) \in Ids(C)
        /\ \A d \in Ids(C) : d <= Newest(C)
    BY <1>3, <2>2 DEF Newest
  <2> QED BY <2>3, <1>1
<1> QED BY <1>2, <1>3

\* A checkpoint just made is the newest.
LEMMA NewestIsLast ==
    ASSUME NEW n \in Nat, NEW C, C \subseteq Checkpoints(n), NEW w
    PROVE  Newest(C \cup {Stamp(n + 1, w)}) = n + 1
<1> DEFINE D == C \cup {Stamp(n + 1, w)}
<1>1. Ids(D) = Ids(C) \cup {n + 1}
  <2>1. Stamp(n + 1, w).id = n + 1
    BY DEF Stamp
  <2>2. Ids(D) = {c.id : c \in D}
    BY DEF Ids
  <2>3. Ids(C) = {c.id : c \in C}
    BY DEF Ids
  <2>4. \A i : i \in Ids(D) <=> i \in Ids(C) \/ i = n + 1
    BY <2>1, <2>2, <2>3
  <2> HIDE DEF D
  <2> QED BY <2>4
<1>2. Ids(C) \subseteq 1..n
  BY DEF Ids, Checkpoints
<1> HIDE DEF D
<1>3. n + 1 \in Ids(D) /\ \A d \in Ids(D) : d <= n + 1
  BY <1>1, <1>2
<1>4. \A x \in Ids(D) : (\A y \in Ids(D) : y <= x) => x = n + 1
  BY <1>1, <1>2, <1>3
<1>5. Newest(D) = CHOOSE c \in Ids(D) : \A d \in Ids(D) : d <= c
  BY DEF Newest, D
<1>6. Newest(D) = n + 1
  BY <1>3, <1>4, <1>5
<1> QED BY <1>6 DEF D

LEMMA ShapeKept == Shape /\ Next => Shape'
<1> SUFFICES ASSUME Shape, Next PROVE Shape'
  OBVIOUS
<1> USE NamesAssumption, BoundsAssumption
<1>0. /\ RowTypes /\ RunTypes /\ PostTypes /\ alone \in [Writers -> BOOLEAN]
      /\ Stage /\ Given1
  BY Parts DEF Shape
<1>n. \A t \in Threads : Newest(saved[t]) \in 0..count
  BY <1>0, NewestIsGreatest DEF RowTypes, Checkpoints
<1> USE <1>0, <1>n
<1>1. ASSUME NEW t \in Threads, CreateThread(t) PROVE Shape'
  <2>1. RowTypes'
    BY <1>1 DEF CreateThread, RowTypes, RunTypes, Given1, Threads, Writers, Status
  <2>2. RunTypes'
    BY <1>1 DEF CreateThread, RowTypes, RunTypes, Stage, Status, Worker, Outcome,
       Message, Threads
  <2>3. PostTypes'
    BY <1>1 DEF CreateThread, RowTypes, PostTypes, Given1, Post, Threads
  <2>4. alone' \in [Writers -> BOOLEAN]
    BY <1>1, TouchedType, BeganType DEF CreateThread, Writers
  <2>5. Stage'
    BY <1>1 DEF CreateThread, RunTypes, Stage, Worker, Status
  <2>6. Given1'
    BY <1>1 DEF CreateThread, RowTypes, RunTypes, PostTypes, Given1, Threads,
       Present
  <2> QED BY <2>1, <2>2, <2>3, <2>4, <2>5, <2>6, Parts DEF Shape
<1>2. ASSUME NEW t \in Threads, DeleteThread(t) PROVE Shape'
  <2>1. RowTypes'
    BY <1>2 DEF DeleteThread, RowTypes, RunTypes, Given1, Threads, Writers,
       Status, Call, Wiped
  <2>2. RunTypes'
    BY <1>2 DEF DeleteThread, RowTypes, RunTypes, Stage, Status, Worker, Outcome,
       Message, Threads, Call, Wiped
  <2>3. PostTypes'
    BY <1>2 DEF DeleteThread, RowTypes, PostTypes, Given1, Post, Threads, Call,
       Wiped
  <2>4. alone' \in [Writers -> BOOLEAN]
    BY <1>2, TouchedType, BeganType DEF DeleteThread, Writers, Call, Wiped
  <2>5. Stage'
    BY <1>2 DEF DeleteThread, RunTypes, Stage, Worker, Status, Call, Wiped
  <2>6. Given1'
    BY <1>2 DEF DeleteThread, RowTypes, RunTypes, PostTypes, Given1, Threads,
       Present, Call, Wiped
  <2> QED BY <2>1, <2>2, <2>3, <2>4, <2>5, <2>6, Parts DEF Shape
<1>3. ASSUME NEW t \in Threads, NEW new \in Fresh, CopyThread(t, new) PROVE Shape'
  <2>1. RowTypes'
    BY <1>3 DEF CopyThread, RowTypes, RunTypes, Given1, Threads, Writers, Status,
       Call
  <2>2. RunTypes'
    BY <1>3 DEF CopyThread, RowTypes, RunTypes, Stage, Status, Worker, Outcome,
       Message, Threads, Call
  <2>3. PostTypes'
    BY <1>3 DEF CopyThread, RowTypes, PostTypes, Given1, Post, Threads, Call
  <2>4. alone' \in [Writers -> BOOLEAN]
    BY <1>3, TouchedType, BeganType DEF CopyThread, Writers, Call
  <2>5. Stage'
    BY <1>3 DEF CopyThread, RunTypes, Stage, Worker, Status, Call
  <2>6. Given1'
    BY <1>3 DEF CopyThread, RowTypes, RunTypes, PostTypes, Given1, Threads,
       Present, Call
  <2> QED BY <2>1, <2>2, <2>3, <2>4, <2>5, <2>6, Parts DEF Shape
<1>4. ASSUME NEW r \in Runs, NEW t \in Threads, CreateRun(r, t) PROVE Shape'
  <2>1. RowTypes'
    BY <1>4 DEF CreateRun, RowTypes, RunTypes, Given1, Threads, Writers, Status
  <2>2. RunTypes'
    BY <1>4 DEF CreateRun, RowTypes, RunTypes, Stage, Status, Worker, Outcome,
       Message, Threads
  <2>3. PostTypes'
    BY <1>4 DEF CreateRun, RowTypes, PostTypes, Given1, Post, Threads
  <2>4. alone' \in [Writers -> BOOLEAN]
    BY <1>4, TouchedType, BeganType DEF CreateRun, Writers
  <2>5. Stage'
    BY <1>4 DEF CreateRun, RunTypes, Stage, Worker, Status
  <2>6. Given1'
    BY <1>4 DEF CreateRun, RowTypes, RunTypes, PostTypes, Given1, Threads, Present
  <2> QED BY <2>1, <2>2, <2>3, <2>4, <2>5, <2>6, Parts DEF Shape
<1>5. ASSUME NEW r \in Runs, NEW t \in Fresh, NEW kept \in BOOLEAN, CreateStateless(r, t, kept)
      PROVE  Shape'
  <2>1. RowTypes'
    BY <1>5 DEF CreateStateless, RowTypes, RunTypes, Given1, Threads, Writers,
       Status
  <2>2. RunTypes'
    BY <1>5 DEF CreateStateless, RowTypes, RunTypes, Stage, Status, Worker,
       Outcome, Message, Threads
  <2>3. PostTypes'
    BY <1>5 DEF CreateStateless, RowTypes, PostTypes, Given1, Post, Threads
  <2>4. alone' \in [Writers -> BOOLEAN]
    BY <1>5, TouchedType, BeganType DEF CreateStateless, Writers
  <2>5. Stage'
    BY <1>5 DEF CreateStateless, RunTypes, Stage, Worker, Status
  <2>6. Given1'
    BY <1>5 DEF CreateStateless, RowTypes, RunTypes, PostTypes, Given1, Threads,
       Present
  <2> QED BY <2>1, <2>2, <2>3, <2>4, <2>5, <2>6, Parts DEF Shape
<1>6. ASSUME NEW r \in Runs, DeleteRun(r) PROVE Shape'
  <2>1. RowTypes'
    BY <1>6 DEF DeleteRun, RowTypes, RunTypes, Given1, Threads, Writers, Status,
       Call, Erase
  <2>2. RunTypes'
    BY <1>6 DEF DeleteRun, RowTypes, RunTypes, Stage, Status, Worker, Outcome,
       Message, Threads, Call, Erase
  <2>3. PostTypes'
    BY <1>6 DEF DeleteRun, RowTypes, PostTypes, Given1, Post, Threads, Call, Erase
  <2>4. alone' \in [Writers -> BOOLEAN]
    BY <1>6, TouchedType, BeganType DEF DeleteRun, Writers, Call, Erase
  <2>5. Stage'
    BY <1>6 DEF DeleteRun, RunTypes, Stage, Worker, Status, Call, Erase
  <2>6. Given1'
    BY <1>6 DEF DeleteRun, RowTypes, RunTypes, PostTypes, Given1, Threads,
       Present, Call, Erase
  <2> QED BY <2>1, <2>2, <2>3, <2>4, <2>5, <2>6, Parts DEF Shape
<1>7. ASSUME NEW r \in Runs, NEW action \in {"interrupt", "rollback"}, Cancel(r, action)
      PROVE  Shape'
  <2>1. RowTypes'
    BY <1>7 DEF Cancel, RowTypes, RunTypes, Given1, Threads, Writers, Status, Call
  <2>2. RunTypes'
    BY <1>7 DEF Cancel, RowTypes, RunTypes, Stage, Status, Worker, Outcome,
       Message, Threads, Call
  <2>3. PostTypes'
    BY <1>7 DEF Cancel, RowTypes, PostTypes, Given1, Post, Threads, Call
  <2>4. alone' \in [Writers -> BOOLEAN]
    BY <1>7, TouchedType, BeganType DEF Cancel, Writers, Call
  <2>5. Stage'
    BY <1>7 DEF Cancel, RunTypes, Stage, Worker, Status, Call
  <2>6. Given1'
    BY <1>7 DEF Cancel, RowTypes, RunTypes, PostTypes, Given1, Threads, Present,
       Call
  <2> QED BY <2>1, <2>2, <2>3, <2>4, <2>5, <2>6, Parts DEF Shape
<1>8. ASSUME NEW r \in Runs, NEW action \in {"interrupt", "rollback"}, CancelDeaf(r, action)
      PROVE  Shape'
  <2>1. RowTypes'
    BY <1>8 DEF CancelDeaf, RowTypes, RunTypes, Given1, Threads, Writers, Status,
       Call, DeleteRun, Erase
  <2>2. RunTypes'
    BY <1>8 DEF CancelDeaf, RowTypes, RunTypes, Stage, Status, Worker, Outcome,
       Message, Threads, Call, DeleteRun, Erase
  <2>3. PostTypes'
    BY <1>8 DEF CancelDeaf, RowTypes, PostTypes, Given1, Post, Threads, Call,
       DeleteRun, Erase
  <2>4. alone' \in [Writers -> BOOLEAN]
    BY <1>8, TouchedType, BeganType DEF CancelDeaf, Writers, Call, DeleteRun, Erase
  <2>5. Stage'
    BY <1>8 DEF CancelDeaf, RunTypes, Stage, Worker, Status, Call, DeleteRun, Erase
  <2>6. Given1'
    BY <1>8 DEF CancelDeaf, RowTypes, RunTypes, PostTypes, Given1, Threads,
       Present, Call, DeleteRun, Erase
  <2> QED BY <2>1, <2>2, <2>3, <2>4, <2>5, <2>6, Parts DEF Shape
<1>9. ASSUME NEW r \in Runs, Start(r) PROVE Shape'
  <2>1. RowTypes'
    BY <1>9 DEF Start, RowTypes, RunTypes, Given1, Threads, Writers, Status
  <2>2. RunTypes'
    BY <1>9 DEF Start, RowTypes, RunTypes, Stage, Status, Worker, Outcome,
       Message, Threads
  <2>3. PostTypes'
    BY <1>9 DEF Start, RowTypes, PostTypes, Given1, Post, Threads
  <2>4. alone' \in [Writers -> BOOLEAN]
    BY <1>9, TouchedType, BeganType DEF Start, Writers
  <2>5. Stage'
    BY <1>9 DEF Start, RunTypes, Stage, Worker, Status
  <2>6. Given1'
    BY <1>9 DEF Start, RowTypes, RunTypes, PostTypes, Given1, Threads, Present
  <2> QED BY <2>1, <2>2, <2>3, <2>4, <2>5, <2>6, Parts DEF Shape
<1>10. ASSUME NEW r \in Runs, Checkpoint(r) PROVE Shape'
  <2>1. RowTypes'
    <3>1. count' = count + 1 /\ count < MaxCheckpoints /\ UNCHANGED <<rows, used, calls>>
      BY <1>10 DEF Checkpoint
    <3>2. Stamp(count', r) \in [id : 1..count', run : Runs \cup {NoRun}]
      BY <3>1 DEF Stamp, RowTypes
    <3>3. saved' \in [Threads -> SUBSET [id : 1..count', run : Runs \cup {NoRun}]]
      <4> DEFINE new == Stamp(count', r)
             S == [id : 1..count', run : Runs \cup {NoRun}]
      <4>1. saved' = [saved EXCEPT ![on[r]] = @ \cup {new}]
        BY <1>10 DEF Checkpoint
      <4>2. saved \in [Threads -> SUBSET S]
        BY <3>1 DEF RowTypes
      <4> HIDE DEF S, new
      <4> QED BY <4>1, <4>2, <3>2 DEF S, new
    <3> QED BY <3>1, <3>3 DEF RowTypes
  <2>2. RunTypes'
    BY <1>10 DEF Checkpoint, RowTypes, RunTypes, Stage, Status, Worker, Outcome,
       Message, Threads, Stamp
  <2>3. PostTypes'
    BY <1>10 DEF Checkpoint, RowTypes, PostTypes, Given1, Post, Threads, Stamp
  <2>4. alone' \in [Writers -> BOOLEAN]
    BY <1>10, TouchedType, BeganType DEF Checkpoint, Writers, Stamp
  <2>5. Stage'
    BY <1>10 DEF Checkpoint, RunTypes, Stage, Worker, Status, Stamp
  <2>6. Given1'
    BY <1>10 DEF Checkpoint, RowTypes, RunTypes, PostTypes, Given1, Threads,
       Present, Stamp
  <2> QED BY <2>1, <2>2, <2>3, <2>4, <2>5, <2>6, Parts DEF Shape
<1>11. ASSUME NEW r \in Runs, Observe(r) PROVE Shape'
  <2>1. RowTypes'
    BY <1>11 DEF Observe, RowTypes, RunTypes, Given1, Threads, Writers, Status
  <2>2. RunTypes'
    <3>1. mine[r] \in 0..count /\ Newest(saved[on[r]]) \in 0..count
      <4>1. on[r] \in Threads /\ count \in Nat /\ mine[r] \in 0..count
        BY <1>11, BoundsAssumption DEF Observe, RowTypes, RunTypes, Stage
      <4>2. saved[on[r]] \subseteq Checkpoints(count)
        BY <4>1 DEF RowTypes, Checkpoints
      <4> QED BY <4>1, <4>2, NewestIsGreatest
    <3>2. seen' \in [Runs -> 0..count] /\ count' = count
      BY <1>11, <3>1 DEF Observe, RunTypes
    <3> QED
      BY <1>11, <3>2 DEF Observe, RunTypes
  <2>3. PostTypes'
    BY <1>11 DEF Observe, RowTypes, PostTypes, Given1, Post, Threads
  <2>4. alone' \in [Writers -> BOOLEAN]
    BY <1>11, TouchedType, BeganType DEF Observe, Writers
  <2>5. Stage'
    BY <1>11 DEF Observe, RunTypes, Stage, Worker, Status
  <2>6. Given1'
    BY <1>11 DEF Observe, RowTypes, RunTypes, PostTypes, Given1, Threads, Present
  <2> QED BY <2>1, <2>2, <2>3, <2>4, <2>5, <2>6, Parts DEF Shape
<1>12. ASSUME NEW r \in Runs, NEW how \in {"success", "failed", "retry"}, End(r, how)
      PROVE  Shape'
  <2>1. RowTypes'
    BY <1>12 DEF End, RowTypes, RunTypes, Given1, Threads, Writers, Status
  <2>2. RunTypes'
    BY <1>12 DEF End, RowTypes, RunTypes, Stage, Status, Worker, Outcome, Message,
       Threads
  <2>3. PostTypes'
    BY <1>12 DEF End, RowTypes, PostTypes, Given1, Post, Threads
  <2>4. alone' \in [Writers -> BOOLEAN]
    BY <1>12, TouchedType, BeganType DEF End, Writers
  <2>5. Stage'
    BY <1>12 DEF End, RunTypes, Stage, Worker, Status
  <2>6. Given1'
    BY <1>12 DEF End, RowTypes, RunTypes, PostTypes, Given1, Threads, Present
  <2> QED BY <2>1, <2>2, <2>3, <2>4, <2>5, <2>6, Parts DEF Shape
<1>13. ASSUME NEW r \in Runs, RollBack(r) PROVE Shape'
  <2>1. RowTypes'
    BY <1>13 DEF RollBack, RowTypes, RunTypes, Given1, Threads, Writers, Status,
       Erase
  <2>2. RunTypes'
    BY <1>13 DEF RollBack, RowTypes, RunTypes, Stage, Status, Worker, Outcome,
       Message, Threads, Erase
  <2>3. PostTypes'
    BY <1>13 DEF RollBack, RowTypes, PostTypes, Given1, Post, Threads, Erase
  <2>4. alone' \in [Writers -> BOOLEAN]
    BY <1>13, TouchedType, BeganType DEF RollBack, Writers, Erase
  <2>5. Stage'
    BY <1>13 DEF RollBack, RunTypes, Stage, Worker, Status, Erase
  <2>6. Given1'
    BY <1>13 DEF RollBack, RowTypes, RunTypes, PostTypes, Given1, Threads,
       Present, Erase
  <2> QED BY <2>1, <2>2, <2>3, <2>4, <2>5, <2>6, Parts DEF Shape
<1>14. ASSUME NEW r \in Runs, Retry(r) PROVE Shape'
  <2>1. RowTypes'
    BY <1>14 DEF Retry, RowTypes, RunTypes, Given1, Threads, Writers, Status,
       Written
  <2>2. RunTypes'
    BY <1>14 DEF Retry, RowTypes, RunTypes, Stage, Status, Worker, Outcome,
       Message, Threads, Written
  <2>3. PostTypes'
    BY <1>14 DEF Retry, RowTypes, PostTypes, Given1, Post, Threads, Written
  <2>4. alone' \in [Writers -> BOOLEAN]
    BY <1>14, TouchedType, BeganType DEF Retry, Writers, Written
  <2>5. Stage'
    BY <1>14 DEF Retry, RunTypes, Stage, Worker, Status, Written
  <2>6. Given1'
    BY <1>14 DEF Retry, RowTypes, RunTypes, PostTypes, Given1, Threads, Present,
       Written
  <2> QED BY <2>1, <2>2, <2>3, <2>4, <2>5, <2>6, Parts DEF Shape
<1>15. ASSUME NEW r \in Runs, Finish(r) PROVE Shape'
  <2>1. RowTypes'
    BY <1>15 DEF Finish, RowTypes, RunTypes, Given1, Threads, Writers, Status,
       Leave, Written
  <2>2. RunTypes'
    BY <1>15 DEF Finish, RowTypes, RunTypes, Stage, Status, Worker, Outcome,
       Message, Threads, Leave, Written
  <2>3. PostTypes'
    BY <1>15 DEF Finish, RowTypes, PostTypes, Given1, Post, Threads, Leave, Written
  <2>4. alone' \in [Writers -> BOOLEAN]
    BY <1>15, TouchedType, BeganType DEF Finish, Writers, Leave, Written
  <2>5. Stage'
    BY <1>15 DEF Finish, RunTypes, Stage, Worker, Status, Leave, Written
  <2>6. Given1'
    BY <1>15 DEF Finish, RowTypes, RunTypes, PostTypes, Given1, Threads, Present,
       Leave, Written
  <2> QED BY <2>1, <2>2, <2>3, <2>4, <2>5, <2>6, Parts DEF Shape
<1>16. ASSUME NEW r \in Runs, FinishTemporary(r) PROVE Shape'
  <2>1. RowTypes'
    BY <1>16 DEF FinishTemporary, RowTypes, RunTypes, Given1, Threads, Writers,
       Status, Leave, Written, Wiped
  <2>2. RunTypes'
    BY <1>16 DEF FinishTemporary, RowTypes, RunTypes, Stage, Status, Worker,
       Outcome, Message, Threads, Leave, Written, Wiped
  <2>3. PostTypes'
    BY <1>16 DEF FinishTemporary, RowTypes, PostTypes, Given1, Post, Threads,
       Leave, Written, Wiped
  <2>4. alone' \in [Writers -> BOOLEAN]
    BY <1>16, TouchedType, BeganType DEF FinishTemporary, Writers, Leave, Written,
       Wiped
  <2>5. Stage'
    BY <1>16 DEF FinishTemporary, RunTypes, Stage, Worker, Status, Leave, Written,
       Wiped
  <2>6. Given1'
    BY <1>16 DEF FinishTemporary, RowTypes, RunTypes, PostTypes, Given1, Threads,
       Present, Leave, Written, Wiped
  <2> QED BY <2>1, <2>2, <2>3, <2>4, <2>5, <2>6, Parts DEF Shape
<1>17. ASSUME NEW p \in Posts, NEW t \in Threads, NEW c \in 0..MaxCheckpoints, OpenPost(p, t, c)
      PROVE  Shape'
  <2>1. RowTypes'
    BY <1>17 DEF OpenPost, RowTypes, RunTypes, Given1, Threads, Writers, Status,
       Call, Ids
  <2>2. RunTypes'
    BY <1>17 DEF OpenPost, RowTypes, RunTypes, Stage, Status, Worker, Outcome,
       Message, Threads, Call, Ids
  <2>3. PostTypes'
    BY <1>17 DEF OpenPost, RowTypes, PostTypes, Given1, Post, Threads, Call, Ids
  <2>4. alone' \in [Writers -> BOOLEAN]
    BY <1>17, TouchedType, BeganType DEF OpenPost, Writers, Call, Ids
  <2>5. Stage'
    BY <1>17 DEF OpenPost, RunTypes, Stage, Worker, Status, Call, Ids
  <2>6. Given1'
    BY <1>17 DEF OpenPost, RowTypes, RunTypes, PostTypes, Given1, Threads,
       Present, Call, Ids
  <2> QED BY <2>1, <2>2, <2>3, <2>4, <2>5, <2>6, Parts DEF Shape
<1>18. ASSUME NEW p \in Posts, WritePost(p) PROVE Shape'
  <2>1. RowTypes'
    BY <1>18 DEF WritePost, RowTypes, RunTypes, Given1, Threads, Writers, Status,
       Stamp
  <2>2. RunTypes'
    BY <1>18 DEF WritePost, RowTypes, RunTypes, Stage, Status, Worker, Outcome,
       Message, Threads, Stamp
  <2>3. PostTypes'
    BY <1>18 DEF WritePost, RowTypes, PostTypes, Given1, Post, Threads, Stamp
  <2>4. alone' \in [Writers -> BOOLEAN]
    BY <1>18, TouchedType, BeganType DEF WritePost, Writers, Stamp
  <2>5. Stage'
    BY <1>18 DEF WritePost, RunTypes, Stage, Worker, Status, Stamp
  <2>6. Given1'
    BY <1>18 DEF WritePost, RowTypes, RunTypes, PostTypes, Given1, Threads,
       Present, Stamp
  <2> QED BY <2>1, <2>2, <2>3, <2>4, <2>5, <2>6, Parts DEF Shape
<1>19. ASSUME NEW p \in Posts, RefusePost(p) PROVE Shape'
  <2>1. RowTypes'
    BY <1>19 DEF RefusePost, RowTypes, RunTypes, Given1, Threads, Writers, Status,
       Close
  <2>2. RunTypes'
    BY <1>19 DEF RefusePost, RowTypes, RunTypes, Stage, Status, Worker, Outcome,
       Message, Threads, Close
  <2>3. PostTypes'
    BY <1>19 DEF RefusePost, RowTypes, PostTypes, Given1, Post, Threads, Close
  <2>4. alone' \in [Writers -> BOOLEAN]
    BY <1>19, TouchedType, BeganType DEF RefusePost, Writers, Close
  <2>5. Stage'
    BY <1>19 DEF RefusePost, RunTypes, Stage, Worker, Status, Close
  <2>6. Given1'
    BY <1>19 DEF RefusePost, RowTypes, RunTypes, PostTypes, Given1, Threads,
       Present, Close
  <2> QED BY <2>1, <2>2, <2>3, <2>4, <2>5, <2>6, Parts DEF Shape
<1>20. ASSUME NEW p \in Posts, ReadPost(p) PROVE Shape'
  <2>1. RowTypes'
    BY <1>20 DEF ReadPost, RowTypes, RunTypes, Given1, Threads, Writers, Status,
       Reads, Ids
  <2>2. RunTypes'
    BY <1>20 DEF ReadPost, RowTypes, RunTypes, Stage, Status, Worker, Outcome,
       Message, Threads, Reads, Ids
  <2>3. PostTypes'
    BY <1>20 DEF ReadPost, RowTypes, PostTypes, Given1, Post, Threads, Reads, Ids
  <2>4. alone' \in [Writers -> BOOLEAN]
    BY <1>20, TouchedType, BeganType DEF ReadPost, Writers, Reads, Ids
  <2>5. Stage'
    BY <1>20 DEF ReadPost, RunTypes, Stage, Worker, Status, Reads, Ids
  <2>6. Given1'
    BY <1>20 DEF ReadPost, RowTypes, RunTypes, PostTypes, Given1, Threads,
       Present, Reads, Ids
  <2> QED BY <2>1, <2>2, <2>3, <2>4, <2>5, <2>6, Parts DEF Shape
<1>21. ASSUME NEW p \in Posts, LosePost(p) PROVE Shape'
  <2>1. RowTypes'
    BY <1>21 DEF LosePost, RowTypes, RunTypes, Given1, Threads, Writers, Status,
       Close
  <2>2. RunTypes'
    BY <1>21 DEF LosePost, RowTypes, RunTypes, Stage, Status, Worker, Outcome,
       Message, Threads, Close
  <2>3. PostTypes'
    BY <1>21 DEF LosePost, RowTypes, PostTypes, Given1, Post, Threads, Close
  <2>4. alone' \in [Writers -> BOOLEAN]
    BY <1>21, TouchedType, BeganType DEF LosePost, Writers, Close
  <2>5. Stage'
    BY <1>21 DEF LosePost, RunTypes, Stage, Worker, Status, Close
  <2>6. Given1'
    BY <1>21 DEF LosePost, RowTypes, RunTypes, PostTypes, Given1, Threads,
       Present, Close
  <2> QED BY <2>1, <2>2, <2>3, <2>4, <2>5, <2>6, Parts DEF Shape
<1>22. ASSUME NEW p \in Posts, ShowPost(p) PROVE Shape'
  <2>1. RowTypes'
    BY <1>22 DEF ShowPost, RowTypes, PostTypes, Given1, Threads, Writers, Status,
       Close
  <2>2. RunTypes'
    BY <1>22 DEF ShowPost, RowTypes, RunTypes, Stage, Status, Worker, Outcome,
       Message, Threads, Close
  <2>3. PostTypes'
    BY <1>22 DEF ShowPost, RowTypes, PostTypes, Given1, Post, Threads, Close
  <2>4. alone' \in [Writers -> BOOLEAN]
    BY <1>22, TouchedType, BeganType DEF ShowPost, Writers, Close
  <2>5. Stage'
    BY <1>22 DEF ShowPost, RunTypes, Stage, Worker, Status, Close
  <2>6. Given1'
    BY <1>22 DEF ShowPost, RowTypes, RunTypes, PostTypes, Given1, Threads,
       Present, Close
  <2> QED BY <2>1, <2>2, <2>3, <2>4, <2>5, <2>6, Parts DEF Shape
<1> QED
  BY <1>1, <1>2, <1>3, <1>4, <1>5, <1>6, <1>7, <1>8, <1>9, <1>10, <1>11, <1>12,
     <1>13, <1>14, <1>15, <1>16, <1>17, <1>18, <1>19, <1>20, <1>21, <1>22 DEF
     Next, Client, Work, Update

----------------------------------------------------------------------------
(* What a rollback erases.                                                 *)

\* A run that has not started has made no checkpoint.
Untagged ==
    \A r \in Runs : attempt[r] = 0 =>
        \A t \in Threads : \A c \in saved[t] : c.run # r

\* Where the checkpoint c, stored under thread t by this step, comes from.
Source(c, t) ==
    \/ c \in saved[t]
    \/ t \in Fresh \ used /\ \E u \in Threads : c \in saved[u]
    \/ c.run = NoRun
    \/ c.run \in Runs /\ worker[c.run] = "executing"

LEMMA Sources ==
    ASSUME Shape, Next, NEW t \in Threads, NEW c \in saved'[t]
    PROVE  Source(c, t)
<1> USE NamesAssumption
<1>0. /\ saved \in [Threads -> SUBSET Checkpoints(count)]
      /\ \A r \in Runs : on[r] \in Threads \/ status[r] = "unborn"
  BY Parts DEF Shape, RowTypes, RunTypes, Checkpoints
<1>1. ASSUME NEW u \in Threads, CreateThread(u) PROVE Source(c, t)
  BY <1>1, <1>0 DEF CreateThread, Source
<1>2. ASSUME NEW u \in Threads, DeleteThread(u) PROVE Source(c, t)
  BY <1>2, <1>0 DEF DeleteThread, Call, Wiped, Touched, Source
<1>3. ASSUME NEW u \in Threads, NEW new \in Fresh, CopyThread(u, new)
      PROVE  Source(c, t)
  BY <1>3, <1>0 DEF CopyThread, Call, Source
<1>4. ASSUME NEW q \in Runs, NEW u \in Threads, CreateRun(q, u) PROVE Source(c, t)
  BY <1>4, <1>0 DEF CreateRun, Source
<1>5. ASSUME NEW q \in Runs, NEW u \in Fresh, NEW kept \in BOOLEAN, CreateStateless(q, u, kept)
      PROVE  Source(c, t)
  BY <1>5, <1>0 DEF CreateStateless, Source
<1>6. ASSUME NEW q \in Runs, DeleteRun(q) PROVE Source(c, t)
  BY <1>6, <1>0 DEF DeleteRun, Call, Erase, Touched, Source
<1>7. ASSUME NEW q \in Runs, NEW action \in {"interrupt", "rollback"}, Cancel(q, action)
      PROVE  Source(c, t)
  BY <1>7, <1>0 DEF Cancel, Call, Source
<1>8. ASSUME NEW q \in Runs, NEW action \in {"interrupt", "rollback"}, CancelDeaf(q, action)
      PROVE  Source(c, t)
  BY <1>8, <1>0 DEF CancelDeaf, Call, DeleteRun, Erase, Touched, Source
<1>9. ASSUME NEW q \in Runs, Start(q) PROVE Source(c, t)
  BY <1>9, <1>0 DEF Start, Began, Touched, Source
<1>10. ASSUME NEW q \in Runs, Checkpoint(q) PROVE Source(c, t)
  BY <1>10, <1>0 DEF Checkpoint, Stamp, Touched, Source
<1>11. ASSUME NEW q \in Runs, Observe(q) PROVE Source(c, t)
  BY <1>11, <1>0 DEF Observe, Source
<1>12. ASSUME NEW q \in Runs, NEW how \in {"success", "failed", "retry"}, End(q, how)
      PROVE  Source(c, t)
  BY <1>12, <1>0 DEF End, Source
<1>13. ASSUME NEW q \in Runs, RollBack(q) PROVE Source(c, t)
  BY <1>13, <1>0 DEF RollBack, Erase, Touched, Source
<1>14. ASSUME NEW q \in Runs, Retry(q) PROVE Source(c, t)
  BY <1>14, <1>0 DEF Retry, Written, Source
<1>15. ASSUME NEW q \in Runs, Finish(q) PROVE Source(c, t)
  BY <1>15, <1>0 DEF Finish, Leave, Written, Touched, Source
<1>16. ASSUME NEW q \in Runs, FinishTemporary(q) PROVE Source(c, t)
  BY <1>16, <1>0 DEF FinishTemporary, Leave, Written, Wiped, Touched, Source
<1>17. ASSUME NEW p \in Posts, NEW u \in Threads, NEW d \in 0..MaxCheckpoints, OpenPost(p, u, d)
      PROVE  Source(c, t)
  BY <1>17, <1>0 DEF OpenPost, Call, Began, Touched, Ids, Source
<1>18. ASSUME NEW p \in Posts, WritePost(p) PROVE Source(c, t)
  BY <1>18, <1>0 DEF WritePost, Stamp, Touched, Source
<1>19. ASSUME NEW p \in Posts, RefusePost(p) PROVE Source(c, t)
  BY <1>19, <1>0 DEF RefusePost, Close, Touched, Source
<1>20. ASSUME NEW p \in Posts, ReadPost(p) PROVE Source(c, t)
  BY <1>20, <1>0 DEF ReadPost, Reads, Ids, Source
<1>21. ASSUME NEW p \in Posts, LosePost(p) PROVE Source(c, t)
  BY <1>21, <1>0 DEF LosePost, Close, Touched, Source
<1>22. ASSUME NEW p \in Posts, ShowPost(p) PROVE Source(c, t)
  BY <1>22, <1>0 DEF ShowPost, Close, Touched, Source
<1> QED
  BY <1>1, <1>2, <1>3, <1>4, <1>5, <1>6, <1>7, <1>8, <1>9, <1>10, <1>11, <1>12,
     <1>13, <1>14, <1>15, <1>16, <1>17, <1>18, <1>19, <1>20, <1>21, <1>22 DEF
     Next, Client, Work, Update

Undoing(r) == outcome[r] = "rollback" \/ worker[r] = "undone"

\* What a run is left with by a step.
LEMMA Onward ==
    ASSUME Shape, Next, NEW r \in Runs
    PROVE  /\ attempt'[r] = 0 => attempt[r] = 0
           /\ attempt[r] # 0 => on'[r] = on[r]
           /\ Undoing(r)' => Undoing(r) \/ RollBack(r)
<1> DEFINE Goal == /\ attempt'[r] = 0 => attempt[r] = 0
                   /\ attempt[r] # 0 => on'[r] = on[r]
                   /\ Undoing(r)' => Undoing(r) \/ RollBack(r)
<1>0. RunTypes /\ Stage
  BY Parts DEF Shape
<1>1. ASSUME NEW u \in Threads, CreateThread(u) PROVE Goal
  BY <1>1, <1>0 DEF CreateThread, Undoing, RunTypes, Stage, Outcome, Worker
<1>2. ASSUME NEW u \in Threads, DeleteThread(u) PROVE Goal
  BY <1>2, <1>0 DEF DeleteThread, Call, Wiped, Touched, Undoing, RunTypes, Stage,
     Outcome, Worker
<1>3. ASSUME NEW u \in Threads, NEW new \in Fresh, CopyThread(u, new) PROVE Goal
  BY <1>3, <1>0 DEF CopyThread, Call, Undoing, RunTypes, Stage, Outcome, Worker
<1>4. ASSUME NEW q \in Runs, NEW u \in Threads, CreateRun(q, u) PROVE Goal
  BY <1>4, <1>0 DEF CreateRun, Undoing, RunTypes, Stage, Outcome, Worker
<1>5. ASSUME NEW q \in Runs, NEW u \in Fresh, NEW kept \in BOOLEAN, CreateStateless(q, u, kept)
      PROVE  Goal
  BY <1>5, <1>0 DEF CreateStateless, Undoing, RunTypes, Stage, Outcome, Worker
<1>6. ASSUME NEW q \in Runs, DeleteRun(q) PROVE Goal
  BY <1>6, <1>0 DEF DeleteRun, Call, Erase, Touched, Undoing, RunTypes, Stage,
     Outcome, Worker
<1>7. ASSUME NEW q \in Runs, NEW action \in {"interrupt", "rollback"}, Cancel(q, action)
      PROVE  Goal
  BY <1>7, <1>0 DEF Cancel, Call, Undoing, RunTypes, Stage, Outcome, Worker
<1>8. ASSUME NEW q \in Runs, NEW action \in {"interrupt", "rollback"}, CancelDeaf(q, action)
      PROVE  Goal
  BY <1>8, <1>0 DEF CancelDeaf, Call, DeleteRun, Erase, Touched, Undoing,
     RunTypes, Stage, Outcome, Worker
<1>9. ASSUME NEW q \in Runs, Start(q) PROVE Goal
  BY <1>9, <1>0 DEF Start, Began, Touched, Undoing, RunTypes, Stage, Outcome, Worker
<1>10. ASSUME NEW q \in Runs, Checkpoint(q) PROVE Goal
  BY <1>10, <1>0 DEF Checkpoint, Stamp, Touched, Undoing, RunTypes, Stage,
     Outcome, Worker
<1>11. ASSUME NEW q \in Runs, Observe(q) PROVE Goal
  BY <1>11, <1>0 DEF Observe, Undoing, RunTypes, Stage, Outcome, Worker
<1>12. ASSUME NEW q \in Runs, NEW how \in {"success", "failed", "retry"}, End(q, how)
      PROVE  Goal
  BY <1>12, <1>0 DEF End, Undoing, RunTypes, Stage, Outcome, Worker
<1>13. ASSUME NEW q \in Runs, RollBack(q) PROVE Goal
  <2>1. CASE q = r
    <3>1. RollBack(r)
      BY <1>13, <2>1
    <3>2. attempt'[r] = attempt[r] /\ on'[r] = on[r]
      BY <3>1 DEF RollBack
    <3> QED BY <3>1, <3>2
  <2>2. CASE q # r
    BY <1>13, <1>0, <2>2 DEF RollBack, Undoing, RunTypes
  <2> QED BY <2>1, <2>2
<1>14. ASSUME NEW q \in Runs, Retry(q) PROVE Goal
  BY <1>14, <1>0 DEF Retry, Written, Undoing, RunTypes, Stage, Outcome, Worker
<1>15. ASSUME NEW q \in Runs, Finish(q) PROVE Goal
  BY <1>15, <1>0 DEF Finish, Leave, Written, Touched, Undoing, RunTypes, Stage,
     Outcome, Worker
<1>16. ASSUME NEW q \in Runs, FinishTemporary(q) PROVE Goal
  BY <1>16, <1>0 DEF FinishTemporary, Leave, Written, Wiped, Touched, Undoing,
     RunTypes, Stage, Outcome, Worker
<1>17. ASSUME NEW p \in Posts, NEW u \in Threads, NEW d \in 0..MaxCheckpoints, OpenPost(p, u, d)
      PROVE  Goal
  BY <1>17, <1>0 DEF OpenPost, Call, Began, Touched, Ids, Undoing, RunTypes,
     Stage, Outcome, Worker
<1>18. ASSUME NEW p \in Posts, WritePost(p) PROVE Goal
  BY <1>18, <1>0 DEF WritePost, Stamp, Touched, Undoing, RunTypes, Stage, Outcome,
     Worker
<1>19. ASSUME NEW p \in Posts, RefusePost(p) PROVE Goal
  BY <1>19, <1>0 DEF RefusePost, Close, Touched, Undoing, RunTypes, Stage,
     Outcome, Worker
<1>20. ASSUME NEW p \in Posts, ReadPost(p) PROVE Goal
  BY <1>20, <1>0 DEF ReadPost, Reads, Ids, Undoing, RunTypes, Stage, Outcome, Worker
<1>21. ASSUME NEW p \in Posts, LosePost(p) PROVE Goal
  BY <1>21, <1>0 DEF LosePost, Close, Touched, Undoing, RunTypes, Stage, Outcome,
     Worker
<1>22. ASSUME NEW p \in Posts, ShowPost(p) PROVE Goal
  BY <1>22, <1>0 DEF ShowPost, Close, Touched, Undoing, RunTypes, Stage, Outcome,
     Worker
<1> QED
  BY <1>1, <1>2, <1>3, <1>4, <1>5, <1>6, <1>7, <1>8, <1>9, <1>10, <1>11, <1>12,
     <1>13, <1>14, <1>15, <1>16, <1>17, <1>18, <1>19, <1>20, <1>21, <1>22 DEF
     Next, Client, Work, Update

LEMMA UntaggedKept == Shape /\ Untagged /\ Next => Untagged'
<1> SUFFICES ASSUME Shape, Untagged, Next,
                    NEW r \in Runs, attempt'[r] = 0,
                    NEW t \in Threads, NEW c \in saved'[t]
             PROVE  c.run # r
  BY DEF Untagged
<1>1. Source(c, t)
  BY Sources
<1>2. attempt[r] = 0 /\ worker[r] = "none"
  <2>1. attempt[r] = 0
    BY Onward
  <2> QED BY <2>1 DEF Shape, Stage
<1>3. r # NoRun
  BY NamesAssumption DEF Writers
<1> QED BY <1>1, <1>2, <1>3 DEF Source, Untagged

LEMMA ErasedKept == Shape /\ RollbackErases /\ Next => RollbackErases'
<1> SUFFICES ASSUME Shape, RollbackErases, Next, NEW r \in Runs, Undoing(r)',
                    NEW c \in saved'[on'[r]]
             PROVE  c.run # r
  BY DEF RollbackErases, Undoing
<1>1. CASE RollBack(r)
  <2>1. on' = on /\ saved' = [saved EXCEPT ![on[r]] = {d \in @ : d.run # r}]
    BY <1>1 DEF RollBack, Erase
  <2>2. worker[r] = "executing"
    BY <1>1 DEF RollBack
  <2>3. on[r] \in DOMAIN saved
    BY <2>2, Parts DEF Shape, Stage, RowTypes, RunTypes
  <2> QED BY <2>1, <2>3
<1>2. CASE ~RollBack(r)
  <2>1. Undoing(r)
    BY <1>2, Onward
  <2>2. attempt[r] # 0 /\ worker[r] # "executing"
    BY <2>1 DEF Shape, Stage, Undoing
  <2>3. on'[r] = on[r]
    BY <2>2, Onward
  <2>4. on[r] \in Threads /\ on[r] \notin Fresh \ used
    BY <2>2, Parts, NamesAssumption DEF Shape, Stage, RunTypes, Given1, Threads
  <2>5. Source(c, on[r])
    BY <2>3, <2>4, Sources
  <2>6. \A d \in saved[on[r]] : d.run # r
    BY <2>1 DEF RollbackErases, Undoing
  <2>7. r # NoRun
    BY NamesAssumption DEF Writers
  <2> QED BY <2>2, <2>4, <2>5, <2>6, <2>7 DEF Source
<1> QED BY <1>1, <1>2

----------------------------------------------------------------------------
(* Writers nobody disturbs.                                                *)

\* Who stays alone when someone touches thread t is not at work on it.
LEMMA TouchedMeans ==
    ASSUME NEW t, NEW who, NEW w \in Writers
    PROVE  /\ Touched(t, who)[w] => alone[w] /\ (w \in AtWork(t) => w = who)
           /\ w # who /\ Began(t, who)[w] => alone[w]
<1>1. Touched(t, who)[w] => alone[w] /\ (w \in AtWork(t) => w = who)
  BY DEF Touched
<1>2. w # who => Began(t, who)[w] = Touched(t, who)[w]
  BY DEF Began, Touched
<1> QED BY <1>1, <1>2

LEMMA WorkersAreAtWork ==
    /\ \A r \in Runs : Working(r) => r \in AtWork(on[r])
    /\ \A p \in Posts : post[p] # "idle" => p \in AtWork(target[p])
  BY DEF AtWork, Working

\* The attempt of run r is under way and has not been rolled back.
AtIt(r) == worker[r] \in {"executing", "ending"} /\ outcome[r] # "rollback"

FirstStart(r) == attempt[r] = 0 /\ Start(r)

\* A step that leaves what run r, alone on its thread, relies on.
Spares(r) ==
    /\ alone[r]
    /\ Working(r)
    /\ on'[r] = on[r]
    /\ saved'[on[r]] = saved[on[r]]
    /\ base'[r] = base[r]
    /\ on[r] \in present => on[r] \in present'
    /\ \/ mine'[r] = 0 /\ seen'[r] = 0
       \/ /\ mine'[r] = mine[r] /\ (AtIt(r)' => AtIt(r))
          /\ seen'[r] \in {0, seen[r]} \/ Observe(r)

LEMMA RunAlone ==
    ASSUME Shape, Next, NEW r \in Runs, alone'[r], Working(r)'
    PROVE  \/ FirstStart(r)
           \/ alone[r] /\ (Checkpoint(r) \/ RollBack(r))
           \/ Spares(r)
<1> DEFINE Goal == \/ FirstStart(r)
                   \/ alone[r] /\ (Checkpoint(r) \/ RollBack(r))
                   \/ Spares(r)
<1>0. /\ RowTypes /\ RunTypes /\ Stage /\ Given1
      /\ r \in Writers /\ r \notin Posts /\ NoRun # r
  BY Parts, NamesAssumption DEF Shape, Writers
<1>t. \A t, who : /\ Touched(t, who)[r] => alone[r] /\ (r \in AtWork(t) => r = who)
                  /\ r # who /\ Began(t, who)[r] => alone[r]
  BY <1>0, TouchedMeans
<1>w. Working(r) => r \in AtWork(on[r])
  BY WorkersAreAtWork
<1>p. \A t, who, w : w # r => [Touched(t, who) EXCEPT ![w] = FALSE][r] = Touched(t, who)[r]
  BY <1>0 DEF Touched
<1>1. ASSUME NEW u \in Threads, CreateThread(u) PROVE Goal
  BY <1>1, <1>0, <1>t, <1>w, <1>p DEF CreateThread, Spares, Working, AtIt,
     FirstStart, RowTypes, RunTypes, Stage, Given1, Outcome, Worker, Threads,
     Present
<1>2. ASSUME NEW u \in Threads, DeleteThread(u) PROVE Goal
  BY <1>2, <1>0, <1>t, <1>w, <1>p DEF DeleteThread, Call, Wiped, Spares, Working,
     AtIt, FirstStart, RowTypes, RunTypes, Stage, Given1, Outcome, Worker,
     Threads, Present
<1>3. ASSUME NEW u \in Threads, NEW new \in Fresh, CopyThread(u, new) PROVE Goal
  <2>1. Working(r) /\ on[r] # new
    <3>1. Working(r)
      BY <1>3 DEF CopyThread, Working
    <3>2. on[r] \in Given \cup used
      BY <3>1, <1>0 DEF Working, RunTypes, Stage, Given1
    <3> QED BY <3>1, <3>2, <1>3, NamesAssumption DEF CopyThread
  <2>2. saved'[on[r]] = saved[on[r]]
    BY <2>1, <1>3, <1>0 DEF CopyThread, RowTypes
  <2>3. Spares(r)
    BY <2>1, <2>2, <1>3 DEF CopyThread, Spares, AtIt
  <2> QED BY <2>3
<1>4. ASSUME NEW q \in Runs, NEW u \in Threads, CreateRun(q, u) PROVE Goal
  BY <1>4, <1>0, <1>t, <1>w, <1>p DEF CreateRun, Spares, Working, AtIt,
     FirstStart, RowTypes, RunTypes, Stage, Given1, Outcome, Worker, Threads,
     Present
<1>5. ASSUME NEW q \in Runs, NEW u \in Fresh, NEW kept \in BOOLEAN, CreateStateless(q, u, kept)
      PROVE  Goal
  BY <1>5, <1>0, <1>t, <1>w, <1>p DEF CreateStateless, Spares, Working, AtIt,
     FirstStart, RowTypes, RunTypes, Stage, Given1, Outcome, Worker, Threads,
     Present
<1>6. ASSUME NEW q \in Runs, DeleteRun(q) PROVE Goal
  BY <1>6, <1>0, <1>t, <1>w, <1>p DEF DeleteRun, Call, Erase, Spares, Working,
     AtIt, FirstStart, RowTypes, RunTypes, Stage, Given1, Outcome, Worker,
     Threads, Present
<1>7. ASSUME NEW q \in Runs, NEW action \in {"interrupt", "rollback"}, Cancel(q, action)
      PROVE  Goal
  BY <1>7, <1>0, <1>t, <1>w, <1>p DEF Cancel, Call, Spares, Working, AtIt,
     FirstStart, RowTypes, RunTypes, Stage, Given1, Outcome, Worker, Threads,
     Present
<1>8. ASSUME NEW q \in Runs, NEW action \in {"interrupt", "rollback"}, CancelDeaf(q, action)
      PROVE  Goal
  BY <1>8, <1>0, <1>t, <1>w, <1>p DEF CancelDeaf, Call, DeleteRun, Erase, Spares,
     Working, AtIt, FirstStart, RowTypes, RunTypes, Stage, Given1, Outcome,
     Worker, Threads, Present
<1>9. ASSUME NEW q \in Runs, Start(q) PROVE Goal
  <2>1. CASE q = r /\ attempt[r] = 0
    BY <1>9, <2>1 DEF FirstStart
  <2>2. CASE q = r /\ attempt[r] # 0
    <3>1. Start(r)
      BY <1>9, <2>2
    <3>2. /\ alone'[r] = alone[r] /\ base'[r] = base[r] /\ status[r] = "pending"
          /\ mine'[r] = 0 /\ seen'[r] = 0
          /\ on' = on /\ saved' = saved /\ present' = present
      BY <3>1, <2>2, <1>0 DEF Start, RunTypes
    <3>3. attempt[r] > 0
      BY <2>2, <1>0 DEF RunTypes
    <3>4. Spares(r)
      BY <3>2, <3>3 DEF Spares, Working
    <3> QED BY <3>4
  <2>3. CASE q # r
    <3>1. alone[r] /\ base'[r] = base[r]
      BY <1>9, <1>0, <1>t, <2>3 DEF Start, RunTypes
    <3>2. /\ status'[r] = status[r] /\ attempt'[r] = attempt[r] /\ worker'[r] = worker[r]
          /\ outcome'[r] = outcome[r] /\ mine'[r] = mine[r] /\ seen'[r] = seen[r]
          /\ on' = on /\ saved' = saved /\ present' = present
      BY <1>9, <1>0, <2>3 DEF Start, RunTypes
    <3>3. Spares(r)
      BY <3>1, <3>2 DEF Spares, Working, AtIt
    <3> QED BY <3>3
  <2> QED BY <2>1, <2>2, <2>3
<1>10. ASSUME NEW q \in Runs, Checkpoint(q) PROVE Goal
  <2>1. CASE q = r
    <3>1. Checkpoint(r) /\ alone' = Touched(on[r], r)
      BY <1>10, <2>1 DEF Checkpoint
    <3>2. alone[r]
      BY <1>t, <3>1, Zenon
    <3> QED BY <3>1, <3>2
  <2>2. CASE q # r
    BY <1>10, <1>0, <1>t, <1>w, <2>2 DEF Checkpoint, Stamp, Spares, Working, AtIt,
       FirstStart, RowTypes, RunTypes, Stage, Given1, Outcome, Worker, Threads,
       Present
  <2> QED BY <2>1, <2>2
<1>11. ASSUME NEW q \in Runs, Observe(q) PROVE Goal
  BY <1>11, <1>0, <1>t, <1>w, <1>p DEF Observe, Spares, Working, AtIt, FirstStart,
     RowTypes, RunTypes, Stage, Given1, Outcome, Worker, Threads, Present
<1>12. ASSUME NEW q \in Runs, NEW how \in {"success", "failed", "retry"}, End(q, how)
      PROVE  Goal
  BY <1>12, <1>0, <1>t, <1>w, <1>p DEF End, Spares, Working, AtIt, FirstStart,
     RowTypes, RunTypes, Stage, Given1, Outcome, Worker, Threads, Present
<1>13. ASSUME NEW q \in Runs, RollBack(q) PROVE Goal
  <2>1. CASE q = r
    <3>1. RollBack(r) /\ alone' = Touched(on[r], r)
      BY <1>13, <2>1 DEF RollBack
    <3>2. alone[r]
      BY <1>t, <3>1, Zenon
    <3> QED BY <3>1, <3>2
  <2>2. CASE q # r
    BY <1>13, <1>0, <1>t, <1>w, <2>2 DEF RollBack, Erase, Spares, Working, AtIt,
       FirstStart, RowTypes, RunTypes, Stage, Given1, Outcome, Worker, Threads,
       Present
  <2> QED BY <2>1, <2>2
<1>14. ASSUME NEW q \in Runs, Retry(q) PROVE Goal
  BY <1>14, <1>0, <1>t, <1>w, <1>p DEF Retry, Written, Spares, Working, AtIt,
     FirstStart, RowTypes, RunTypes, Stage, Given1, Outcome, Worker, Threads,
     Present
<1>15. ASSUME NEW q \in Runs, Finish(q) PROVE Goal
  BY <1>15, <1>0, <1>t, <1>w, <1>p DEF Finish, Leave, Written, Spares, Working,
     AtIt, FirstStart, RowTypes, RunTypes, Stage, Given1, Outcome, Worker,
     Threads, Present
<1>16. ASSUME NEW q \in Runs, FinishTemporary(q) PROVE Goal
  BY <1>16, <1>0, <1>t, <1>w, <1>p DEF FinishTemporary, Leave, Written, Wiped,
     Spares, Working, AtIt, FirstStart, RowTypes, RunTypes, Stage, Given1,
     Outcome, Worker, Threads, Present
<1>17. ASSUME NEW p \in Posts, NEW u \in Threads, NEW d \in 0..MaxCheckpoints, OpenPost(p, u, d)
      PROVE  Goal
  BY <1>17, <1>0, <1>t, <1>w, <1>p DEF OpenPost, Call, Ids, Spares, Working, AtIt,
     FirstStart, RowTypes, RunTypes, Stage, Given1, Outcome, Worker, Threads,
     Present
<1>18. ASSUME NEW p \in Posts, WritePost(p) PROVE Goal
  BY <1>18, <1>0, <1>t, <1>w, <1>p DEF WritePost, Stamp, Spares, Working, AtIt,
     FirstStart, RowTypes, RunTypes, Stage, Given1, Outcome, Worker, Threads,
     Present
<1>19. ASSUME NEW p \in Posts, RefusePost(p) PROVE Goal
  BY <1>19, <1>0, <1>t, <1>w, <1>p DEF RefusePost, Close, Spares, Working, AtIt,
     FirstStart, RowTypes, RunTypes, Stage, Given1, Outcome, Worker, Threads,
     Present
<1>20. ASSUME NEW p \in Posts, ReadPost(p) PROVE Goal
  BY <1>20, <1>0, <1>t, <1>w, <1>p DEF ReadPost, Reads, Ids, Spares, Working,
     AtIt, FirstStart, RowTypes, RunTypes, Stage, Given1, Outcome, Worker,
     Threads, Present
<1>21. ASSUME NEW p \in Posts, LosePost(p) PROVE Goal
  BY <1>21, <1>0, <1>t, <1>w, <1>p DEF LosePost, Close, Spares, Working, AtIt,
     FirstStart, RowTypes, RunTypes, Stage, Given1, Outcome, Worker, Threads,
     Present
<1>22. ASSUME NEW p \in Posts, ShowPost(p) PROVE Goal
  BY <1>22, <1>0, <1>t, <1>w, <1>p DEF ShowPost, Close, Spares, Working, AtIt,
     FirstStart, RowTypes, RunTypes, Stage, Given1, Outcome, Worker, Threads,
     Present
<1> QED
  BY <1>1, <1>2, <1>3, <1>4, <1>5, <1>6, <1>7, <1>8, <1>9, <1>10, <1>11, <1>12,
     <1>13, <1>14, <1>15, <1>16, <1>17, <1>18, <1>19, <1>20, <1>21, <1>22 DEF
     Next, Client, Work, Update

----------------------------------------------------------------------------
(* The state a rollback goes back to, and the state a row shows.           *)

\* What others have left on the thread of run r.
Others(r) == {c \in saved[on[r]] : c.run # r}

\* It is the state from before the first attempt.
BaseHolds == \A r \in Runs : alone[r] /\ Working(r) => Newest(Others(r)) = base[r]

LEMMA BaseHoldsKept == Shape /\ Untagged /\ BaseHolds /\ Next => BaseHolds'
<1> SUFFICES ASSUME Shape, Untagged, BaseHolds, Next,
                    NEW r \in Runs, alone'[r], Working(r)'
             PROVE  Newest(Others(r)') = base'[r]
  BY DEF BaseHolds
<1> USE DEF Others
<1>0. RowTypes /\ RunTypes /\ Stage
  BY Parts DEF Shape
<1>1. CASE FirstStart(r)
  <2>1. /\ status[r] = "pending" /\ attempt[r] = 0
        /\ saved' = saved /\ on' = on /\ base'[r] = Newest(saved[on[r]])
    BY <1>1, <1>0 DEF FirstStart, Start, RunTypes
  <2>2. on[r] \in Threads
    BY <2>1, <1>0 DEF RunTypes
  <2>3. Others(r) = saved[on[r]]
    BY <2>1, <2>2 DEF Untagged
  <2> QED BY <2>1, <2>3
<1>2. CASE alone[r] /\ (Checkpoint(r) \/ RollBack(r))
  <2>1. worker[r] = "executing" /\ on' = on /\ base' = base
    BY <1>2 DEF Checkpoint, RollBack
  <2>2. on[r] \in Threads
    BY <2>1, <1>0 DEF RunTypes, Stage
  <2>3. \/ saved'[on[r]] = saved[on[r]] \cup {Stamp(count + 1, r)}
        \/ saved'[on[r]] = {c \in saved[on[r]] : c.run # r}
    BY <1>2, <2>2, <1>0 DEF Checkpoint, RollBack, Erase, RowTypes
  <2>4. Others(r)' = Others(r)
    BY <2>1, <2>3 DEF Stamp
  <2>5. Newest(Others(r)) = base[r]
    BY <1>2, <2>1 DEF BaseHolds, Working
  <2> QED BY <2>1, <2>4, <2>5
<1>3. CASE Spares(r)
  <2>1. Others(r)' = Others(r) /\ base'[r] = base[r]
    BY <1>3 DEF Spares
  <2> QED BY <2>1, <1>3 DEF BaseHolds, Spares
<1> QED BY <1>1, <1>2, <1>3, RunAlone

\* The last checkpoint of an attempt is the newest of the thread.
MineIsNewest ==
    \A r \in Runs : alone[r] /\ AtIt(r) /\ mine[r] # 0 => mine[r] = Newest(saved[on[r]])

LEMMA MineIsNewestKept == Shape /\ MineIsNewest /\ Next => MineIsNewest'
<1> SUFFICES ASSUME Shape, MineIsNewest, Next,
                    NEW r \in Runs, alone'[r], AtIt(r)', mine'[r] # 0
             PROVE  mine'[r] = Newest(saved'[on'[r]])
  BY DEF MineIsNewest
<1>0. RowTypes /\ RunTypes /\ Stage
  BY Parts DEF Shape
<1>1. ~FirstStart(r)
  BY <1>0 DEF FirstStart, Start, RunTypes
<1>2. ~RollBack(r)
  BY <1>0 DEF RollBack, RunTypes, AtIt
<1>3. CASE Checkpoint(r)
  <2>1. /\ worker[r] = "executing" /\ on' = on
        /\ mine'[r] = count + 1
    BY <1>3, <1>0 DEF Checkpoint, RunTypes
  <2>2. on[r] \in Threads
    BY <2>1, <1>0 DEF RunTypes, Stage
  <2>3. saved'[on[r]] = saved[on[r]] \cup {Stamp(count + 1, r)}
    BY <1>3, <2>2, <1>0 DEF Checkpoint, RowTypes
  <2>4. saved[on[r]] \subseteq Checkpoints(count) /\ count \in Nat
    BY <2>2, <1>0 DEF RowTypes, Checkpoints
  <2> QED BY <2>1, <2>3, <2>4, NewestIsLast, ZenonT(30)
<1>4. CASE Spares(r)
  BY <1>4 DEF Spares, MineIsNewest
<1>5. Working(r)'
  BY DEF AtIt, Working
<1> QED BY <1>1, <1>2, <1>3, <1>4, <1>5, RunAlone

\* What an attempt that has made no checkpoint has heard of is the newest, too.
StartIsNewest ==
    \A r \in Runs : alone[r] /\ AtIt(r) /\ mine[r] = 0 /\ seen[r] # 0
                       => seen[r] = Newest(saved[on[r]])

LEMMA StartIsNewestKept == Shape /\ StartIsNewest /\ Next => StartIsNewest'
<1> SUFFICES ASSUME Shape, StartIsNewest, Next,
                    NEW r \in Runs, alone'[r], AtIt(r)', mine'[r] = 0, seen'[r] # 0
             PROVE  seen'[r] = Newest(saved'[on'[r]])
  BY DEF StartIsNewest
<1>0. RowTypes /\ RunTypes /\ Stage
  BY Parts DEF Shape
<1>1. ~FirstStart(r)
  BY <1>0 DEF FirstStart, Start, RunTypes
<1>2. ~RollBack(r) /\ ~Checkpoint(r)
  BY <1>0 DEF RollBack, Checkpoint, RunTypes, RowTypes, AtIt
<1>3. CASE Spares(r)
  <2>1. CASE seen'[r] = seen[r]
    BY <1>3, <2>1 DEF Spares, StartIsNewest
  <2>2. CASE Observe(r)
    BY <1>0, <1>3, <2>2 DEF Observe, Spares, RunTypes
  <2> QED BY <1>3, <2>1, <2>2 DEF Spares
<1>5. Working(r)'
  BY DEF AtIt, Working
<1> QED BY <1>1, <1>2, <1>3, <1>5, RunAlone

\* Only a stream read to its end makes a success, unless it tells of no checkpoint.
SeenAll ==
    \A r \in Runs :
        /\ outcome[r] = "success" => mine[r] \in {0, seen[r]} \/ Deaf(r)
        /\ Deaf(r) => seen[r] = 0

LEMMA SeenAllKept == Shape /\ SeenAll /\ Next => SeenAll'
<1> DEFINE Heard(r) == /\ outcome[r] = "success" => mine[r] \in {0, seen[r]} \/ Deaf(r)
                       /\ Deaf(r) => seen[r] = 0
<1> SUFFICES ASSUME Shape, SeenAll, Next, NEW r \in Runs PROVE Heard(r)'
  BY DEF SeenAll
<1> USE DEF Deaf
<1> DEFINE Goal == Heard(r)'
<1>0. RunTypes /\ Stage
  BY Parts DEF Shape
<1>1. ASSUME NEW u \in Threads, CreateThread(u) PROVE Goal
  BY <1>1, <1>0 DEF CreateThread, SeenAll, RunTypes, Stage
<1>2. ASSUME NEW u \in Threads, DeleteThread(u) PROVE Goal
  BY <1>2, <1>0 DEF DeleteThread, Call, Wiped, Touched, SeenAll, RunTypes, Stage
<1>3. ASSUME NEW u \in Threads, NEW new \in Fresh, CopyThread(u, new) PROVE Goal
  BY <1>3, <1>0 DEF CopyThread, Call, SeenAll, RunTypes, Stage
<1>4. ASSUME NEW q \in Runs, NEW u \in Threads, CreateRun(q, u) PROVE Goal
  BY <1>4, <1>0 DEF CreateRun, SeenAll, RunTypes, Stage
<1>5. ASSUME NEW q \in Runs, NEW u \in Fresh, NEW kept \in BOOLEAN, CreateStateless(q, u, kept)
      PROVE  Goal
  BY <1>5, <1>0 DEF CreateStateless, SeenAll, RunTypes, Stage
<1>6. ASSUME NEW q \in Runs, DeleteRun(q) PROVE Goal
  BY <1>6, <1>0 DEF DeleteRun, Call, Erase, Touched, SeenAll, RunTypes, Stage
<1>7. ASSUME NEW q \in Runs, NEW action \in {"interrupt", "rollback"}, Cancel(q, action)
      PROVE  Goal
  BY <1>7, <1>0 DEF Cancel, Call, SeenAll, RunTypes, Stage
<1>8. ASSUME NEW q \in Runs, NEW action \in {"interrupt", "rollback"}, CancelDeaf(q, action)
      PROVE  Goal
  BY <1>8, <1>0 DEF CancelDeaf, Call, DeleteRun, Erase, Touched, SeenAll,
     RunTypes, Stage
<1>9. ASSUME NEW q \in Runs, Start(q) PROVE Goal
  BY <1>9, <1>0 DEF Start, Began, Touched, SeenAll, RunTypes, Stage
<1>10. ASSUME NEW q \in Runs, Checkpoint(q) PROVE Goal
  BY <1>10, <1>0 DEF Checkpoint, Stamp, Touched, SeenAll, RunTypes, Stage
<1>11. ASSUME NEW q \in Runs, Observe(q) PROVE Goal
  BY <1>11, <1>0 DEF Observe, SeenAll, RunTypes, Stage
<1>12. ASSUME NEW q \in Runs, NEW how \in {"success", "failed", "retry"}, End(q, how)
      PROVE  Goal
  BY <1>12, <1>0 DEF End, SeenAll, RunTypes, Stage
<1>13. ASSUME NEW q \in Runs, RollBack(q) PROVE Goal
  BY <1>13, <1>0 DEF RollBack, Erase, Touched, SeenAll, RunTypes, Stage
<1>14. ASSUME NEW q \in Runs, Retry(q) PROVE Goal
  BY <1>14, <1>0 DEF Retry, Written, SeenAll, RunTypes, Stage
<1>15. ASSUME NEW q \in Runs, Finish(q) PROVE Goal
  BY <1>15, <1>0 DEF Finish, Leave, Written, Touched, SeenAll, RunTypes, Stage
<1>16. ASSUME NEW q \in Runs, FinishTemporary(q) PROVE Goal
  BY <1>16, <1>0 DEF FinishTemporary, Leave, Written, Wiped, Touched, SeenAll,
     RunTypes, Stage
<1>17. ASSUME NEW p \in Posts, NEW u \in Threads, NEW d \in 0..MaxCheckpoints, OpenPost(p, u, d)
      PROVE  Goal
  BY <1>17, <1>0 DEF OpenPost, Call, Began, Touched, Ids, SeenAll, RunTypes, Stage
<1>18. ASSUME NEW p \in Posts, WritePost(p) PROVE Goal
  BY <1>18, <1>0 DEF WritePost, Stamp, Touched, SeenAll, RunTypes, Stage
<1>19. ASSUME NEW p \in Posts, RefusePost(p) PROVE Goal
  BY <1>19, <1>0 DEF RefusePost, Close, Touched, SeenAll, RunTypes, Stage
<1>20. ASSUME NEW p \in Posts, ReadPost(p) PROVE Goal
  BY <1>20, <1>0 DEF ReadPost, Reads, Ids, SeenAll, RunTypes, Stage
<1>21. ASSUME NEW p \in Posts, LosePost(p) PROVE Goal
  BY <1>21, <1>0 DEF LosePost, Close, Touched, SeenAll, RunTypes, Stage
<1>22. ASSUME NEW p \in Posts, ShowPost(p) PROVE Goal
  BY <1>22, <1>0 DEF ShowPost, Close, Touched, SeenAll, RunTypes, Stage
<1> QED
  BY <1>1, <1>2, <1>3, <1>4, <1>5, <1>6, <1>7, <1>8, <1>9, <1>10, <1>11, <1>12,
     <1>13, <1>14, <1>15, <1>16, <1>17, <1>18, <1>19, <1>20, <1>21, <1>22 DEF
     Next, Client, Work, Update

\* A run in the table has its thread, and so has a writer nobody disturbs.
RowsThere ==
    /\ \A r \in Runs : status[r] \notin {"unborn", "gone"} => on[r] \in present
    /\ \A r \in Runs : alone[r] /\ Working(r) => on[r] \in present
    /\ \A p \in Posts : alone[p] /\ post[p] # "idle" => target[p] \in present

LEMMA RunHasRow ==
    ASSUME Shape, RowsThere, Next, NEW r \in Runs
    PROVE  status'[r] \notin {"unborn", "gone"} => on'[r] \in present'
<1> DEFINE Goal == status'[r] \notin {"unborn", "gone"} => on'[r] \in present'
<1>0. RunTypes /\ Stage
  BY Parts DEF Shape
<1>1. ASSUME NEW u \in Threads, CreateThread(u) PROVE Goal
  BY <1>1, <1>0 DEF CreateThread, RowsThere, RunTypes, Stage, Present
<1>2. ASSUME NEW u \in Threads, DeleteThread(u) PROVE Goal
  BY <1>2, <1>0 DEF DeleteThread, Call, Wiped, Touched, RowsThere, RunTypes,
     Stage, Present
<1>3. ASSUME NEW u \in Threads, NEW new \in Fresh, CopyThread(u, new) PROVE Goal
  BY <1>3, <1>0 DEF CopyThread, Call, RowsThere, RunTypes, Stage, Present
<1>4. ASSUME NEW q \in Runs, NEW u \in Threads, CreateRun(q, u) PROVE Goal
  BY <1>4, <1>0 DEF CreateRun, RowsThere, RunTypes, Stage, Present
<1>5. ASSUME NEW q \in Runs, NEW u \in Fresh, NEW kept \in BOOLEAN, CreateStateless(q, u, kept)
      PROVE  Goal
  BY <1>5, <1>0 DEF CreateStateless, RowsThere, RunTypes, Stage, Present
<1>6. ASSUME NEW q \in Runs, DeleteRun(q) PROVE Goal
  BY <1>6, <1>0 DEF DeleteRun, Call, Erase, Touched, RowsThere, RunTypes, Stage,
     Present
<1>7. ASSUME NEW q \in Runs, NEW action \in {"interrupt", "rollback"}, Cancel(q, action)
      PROVE  Goal
  BY <1>7, <1>0 DEF Cancel, Call, RowsThere, RunTypes, Stage, Present
<1>8. ASSUME NEW q \in Runs, NEW action \in {"interrupt", "rollback"}, CancelDeaf(q, action)
      PROVE  Goal
  BY <1>8, <1>0 DEF CancelDeaf, Call, DeleteRun, Erase, Touched, RowsThere,
     RunTypes, Stage, Present
<1>9. ASSUME NEW q \in Runs, Start(q) PROVE Goal
  BY <1>9, <1>0 DEF Start, Began, Touched, RowsThere, RunTypes, Stage, Present
<1>10. ASSUME NEW q \in Runs, Checkpoint(q) PROVE Goal
  BY <1>10, <1>0 DEF Checkpoint, Stamp, Touched, RowsThere, RunTypes, Stage, Present
<1>11. ASSUME NEW q \in Runs, Observe(q) PROVE Goal
  BY <1>11, <1>0 DEF Observe, RowsThere, RunTypes, Stage, Present
<1>12. ASSUME NEW q \in Runs, NEW how \in {"success", "failed", "retry"}, End(q, how)
      PROVE  Goal
  BY <1>12, <1>0 DEF End, RowsThere, RunTypes, Stage, Present
<1>13. ASSUME NEW q \in Runs, RollBack(q) PROVE Goal
  BY <1>13, <1>0 DEF RollBack, Erase, Touched, RowsThere, RunTypes, Stage, Present
<1>14. ASSUME NEW q \in Runs, Retry(q) PROVE Goal
  BY <1>14, <1>0 DEF Retry, Written, RowsThere, RunTypes, Stage, Present
<1>15. ASSUME NEW q \in Runs, Finish(q) PROVE Goal
  BY <1>15, <1>0 DEF Finish, Leave, Written, Touched, RowsThere, RunTypes, Stage,
     Present
<1>16. ASSUME NEW q \in Runs, FinishTemporary(q) PROVE Goal
  BY <1>16, <1>0 DEF FinishTemporary, Leave, Written, Wiped, Touched, RowsThere,
     RunTypes, Stage, Present
<1>17. ASSUME NEW p \in Posts, NEW u \in Threads, NEW d \in 0..MaxCheckpoints, OpenPost(p, u, d)
      PROVE  Goal
  BY <1>17, <1>0 DEF OpenPost, Call, Began, Touched, Ids, RowsThere, RunTypes,
     Stage, Present
<1>18. ASSUME NEW p \in Posts, WritePost(p) PROVE Goal
  BY <1>18, <1>0 DEF WritePost, Stamp, Touched, RowsThere, RunTypes, Stage, Present
<1>19. ASSUME NEW p \in Posts, RefusePost(p) PROVE Goal
  BY <1>19, <1>0 DEF RefusePost, Close, Touched, RowsThere, RunTypes, Stage, Present
<1>20. ASSUME NEW p \in Posts, ReadPost(p) PROVE Goal
  BY <1>20, <1>0 DEF ReadPost, Reads, Ids, RowsThere, RunTypes, Stage, Present
<1>21. ASSUME NEW p \in Posts, LosePost(p) PROVE Goal
  BY <1>21, <1>0 DEF LosePost, Close, Touched, RowsThere, RunTypes, Stage, Present
<1>22. ASSUME NEW p \in Posts, ShowPost(p) PROVE Goal
  BY <1>22, <1>0 DEF ShowPost, Close, Touched, RowsThere, RunTypes, Stage, Present
<1> QED
  BY <1>1, <1>2, <1>3, <1>4, <1>5, <1>6, <1>7, <1>8, <1>9, <1>10, <1>11, <1>12,
     <1>13, <1>14, <1>15, <1>16, <1>17, <1>18, <1>19, <1>20, <1>21, <1>22 DEF
     Next, Client, Work, Update

\* A step that leaves what update p, alone on its thread, relies on.
SparesPost(p) ==
    /\ alone[p]
    /\ post[p] # "idle"
    /\ target'[p] = target[p]
    /\ given'[p] = given[p]
    /\ target[p] \in present => target[p] \in present'
    /\ \/ WritePost(p)
       \/ /\ saved'[target[p]] = saved[target[p]]
          /\ ReadPost(p) \/ (post'[p] = post[p] /\ read'[p] = read[p])

Opened(p) ==
    post[p] = "idle" /\ \E t \in Threads, c \in 0..MaxCheckpoints : OpenPost(p, t, c)

LEMMA PostAlone ==
    ASSUME Shape, Next, NEW p \in Posts, alone'[p], post'[p] # "idle"
    PROVE  Opened(p) \/ SparesPost(p)
<1> DEFINE Goal == Opened(p) \/ SparesPost(p)
<1>0. /\ RowTypes /\ RunTypes /\ PostTypes /\ Given1
      /\ p \in Writers /\ p \notin Runs /\ NoRun # p
  BY Parts, NamesAssumption DEF Shape, Writers
<1>t. \A t, who : /\ Touched(t, who)[p] => alone[p] /\ (p \in AtWork(t) => p = who)
                  /\ p # who /\ Began(t, who)[p] => alone[p]
  BY <1>0, TouchedMeans
<1>w. post[p] # "idle" => p \in AtWork(target[p])
  BY WorkersAreAtWork
<1>p. \A t, who, w : w # p => [Touched(t, who) EXCEPT ![w] = FALSE][p] = Touched(t, who)[p]
  BY <1>0 DEF Touched
<1>1. ASSUME NEW u \in Threads, CreateThread(u) PROVE Goal
  BY <1>1, <1>0, <1>t, <1>w, <1>p DEF CreateThread, SparesPost, RowTypes,
     PostTypes, Given1, Post, Present
<1>2. ASSUME NEW u \in Threads, DeleteThread(u) PROVE Goal
  BY <1>2, <1>0, <1>t, <1>w, <1>p DEF DeleteThread, Call, Wiped, SparesPost,
     RowTypes, PostTypes, Given1, Post, Present
<1>3. ASSUME NEW u \in Threads, NEW new \in Fresh, CopyThread(u, new) PROVE Goal
  <2>1. post[p] # "idle" /\ target[p] # new /\ alone[p]
    <3>1. post[p] # "idle" /\ alone[p]
      BY <1>3 DEF CopyThread
    <3>2. target[p] \in Given \cup used
      BY <3>1, <1>0 DEF Given1
    <3> QED BY <3>1, <3>2, <1>3, NamesAssumption DEF CopyThread
  <2>2. saved'[target[p]] = saved[target[p]]
    BY <2>1, <1>3, <1>0 DEF CopyThread, RowTypes
  <2>3. SparesPost(p)
    BY <2>1, <2>2, <1>3 DEF CopyThread, SparesPost
  <2> QED BY <2>3
<1>4. ASSUME NEW q \in Runs, NEW u \in Threads, CreateRun(q, u) PROVE Goal
  BY <1>4, <1>0, <1>t, <1>w, <1>p DEF CreateRun, SparesPost, RowTypes, PostTypes,
     Given1, Post, Present
<1>5. ASSUME NEW q \in Runs, NEW u \in Fresh, NEW kept \in BOOLEAN, CreateStateless(q, u, kept)
      PROVE  Goal
  BY <1>5, <1>0, <1>t, <1>w, <1>p DEF CreateStateless, SparesPost, RowTypes,
     PostTypes, Given1, Post, Present
<1>6. ASSUME NEW q \in Runs, DeleteRun(q) PROVE Goal
  BY <1>6, <1>0, <1>t, <1>w, <1>p DEF DeleteRun, Call, Erase, SparesPost,
     RowTypes, PostTypes, Given1, Post, Present
<1>7. ASSUME NEW q \in Runs, NEW action \in {"interrupt", "rollback"}, Cancel(q, action)
      PROVE  Goal
  BY <1>7, <1>0, <1>t, <1>w, <1>p DEF Cancel, Call, SparesPost, RowTypes,
     PostTypes, Given1, Post, Present
<1>8. ASSUME NEW q \in Runs, NEW action \in {"interrupt", "rollback"}, CancelDeaf(q, action)
      PROVE  Goal
  <2>1. CASE DeleteRun(q)
    BY <1>6, <2>1
  <2>2. CASE ~DeleteRun(q)
    BY <1>8, <1>0, <2>2 DEF CancelDeaf, SparesPost, Present
  <2> QED BY <2>1, <2>2
<1>9. ASSUME NEW q \in Runs, Start(q) PROVE Goal
  BY <1>9, <1>0, <1>t, <1>w, <1>p DEF Start, SparesPost, RowTypes, PostTypes,
     Given1, Post, Present
<1>10. ASSUME NEW q \in Runs, Checkpoint(q) PROVE Goal
  BY <1>10, <1>0, <1>t, <1>w, <1>p DEF Checkpoint, Stamp, SparesPost, RowTypes,
     PostTypes, Given1, Post, Present
<1>11. ASSUME NEW q \in Runs, Observe(q) PROVE Goal
  BY <1>11, <1>0, <1>t, <1>w, <1>p DEF Observe, SparesPost, RowTypes, PostTypes,
     Given1, Post, Present
<1>12. ASSUME NEW q \in Runs, NEW how \in {"success", "failed", "retry"}, End(q, how)
      PROVE  Goal
  BY <1>12, <1>0, <1>t, <1>w, <1>p DEF End, SparesPost, RowTypes, PostTypes,
     Given1, Post, Present
<1>13. ASSUME NEW q \in Runs, RollBack(q) PROVE Goal
  BY <1>13, <1>0, <1>t, <1>w, <1>p DEF RollBack, Erase, SparesPost, RowTypes,
     PostTypes, Given1, Post, Present
<1>14. ASSUME NEW q \in Runs, Retry(q) PROVE Goal
  BY <1>14, <1>0, <1>t, <1>w, <1>p DEF Retry, Written, SparesPost, RowTypes,
     PostTypes, Given1, Post, Present
<1>15. ASSUME NEW q \in Runs, Finish(q) PROVE Goal
  BY <1>15, <1>0, <1>t, <1>w, <1>p DEF Finish, Leave, Written, SparesPost,
     RowTypes, PostTypes, Given1, Post, Present
<1>16. ASSUME NEW q \in Runs, FinishTemporary(q) PROVE Goal
  <2>1. UNCHANGED posts /\ alone' = [Touched(on[q], q) EXCEPT ![q] = FALSE]
    BY <1>16 DEF FinishTemporary, Leave
  <2>2. post[p] # "idle" /\ alone[p] /\ p \notin AtWork(on[q])
    BY <2>1, <1>0, <1>t, <1>p
  <2>3. target[p] # on[q]
    BY <2>2, <1>w
  <2>4. /\ saved'[target[p]] = saved[target[p]]
        /\ target[p] \in present => target[p] \in present'
    <3>1. \/ saved' = [saved EXCEPT ![on[q]] = {}] /\ present' = present \ {on[q]}
          \/ saved' = saved /\ present' = present
      BY <1>16 DEF FinishTemporary
    <3>2. saved \in [Threads -> SUBSET Checkpoints(count)]
      BY <1>0 DEF RowTypes, Checkpoints
    <3>3. target[p] \in Threads
      BY <2>2, <1>0 DEF RowTypes, Given1, Threads
    <3> QED BY <2>3, <3>1, <3>2, <3>3
  <2> QED BY <2>1, <2>2, <2>4 DEF SparesPost
<1>17. ASSUME NEW o \in Posts, NEW u \in Threads, NEW d \in 0..MaxCheckpoints, OpenPost(o, u, d)
      PROVE  Goal
  <2>1. CASE o = p
    BY <1>17, <2>1 DEF Opened, OpenPost
  <2>2. CASE o # p
    BY <1>17, <2>2, <1>0, <1>t DEF OpenPost, SparesPost, PostTypes
  <2> QED BY <2>1, <2>2
<1>18. ASSUME NEW o \in Posts, WritePost(o) PROVE Goal
  <2>1. CASE o = p
    <3>1. WritePost(p) /\ alone' = Touched(target[p], p)
      BY <1>18, <2>1 DEF WritePost
    <3>2. alone[p]
      BY <1>t, <3>1, Zenon
    <3> QED BY <3>1, <3>2, <1>0 DEF WritePost, SparesPost
  <2>2. CASE o # p
    <3>1. alone' = Touched(target[o], o) /\ post'[p] = post[p]
      BY <1>18, <2>2, <1>0 DEF WritePost, PostTypes
    <3>2. alone[p] /\ p \notin AtWork(target[o])
      BY <3>1, <2>2, <1>t
    <3>3. target[p] # target[o]
      BY <3>1, <3>2, <1>w
    <3>4. saved'[target[p]] = saved[target[p]]
      BY <3>3, <1>18, <1>0 DEF WritePost, RowTypes
    <3> QED BY <3>1, <3>2, <3>4, <1>18 DEF WritePost, SparesPost
  <2> QED BY <2>1, <2>2
<1>19. ASSUME NEW o \in Posts, RefusePost(o) PROVE Goal
  BY <1>19, <1>0, <1>t, <1>w, <1>p DEF RefusePost, Close, SparesPost, RowTypes,
     PostTypes, Given1, Post, Present
<1>20. ASSUME NEW o \in Posts, ReadPost(o) PROVE Goal
  BY <1>20, <1>0, <1>t, <1>w, <1>p DEF ReadPost, Reads, Ids, SparesPost, RowTypes,
     PostTypes, Given1, Post, Present
<1>21. ASSUME NEW o \in Posts, LosePost(o) PROVE Goal
  BY <1>21, <1>0, <1>t, <1>w, <1>p DEF LosePost, Close, SparesPost, RowTypes,
     PostTypes, Given1, Post, Present
<1>22. ASSUME NEW o \in Posts, ShowPost(o) PROVE Goal
  BY <1>22, <1>0, <1>t, <1>w, <1>p DEF ShowPost, Close, SparesPost, RowTypes,
     PostTypes, Given1, Post, Present
<1> QED
  BY <1>1, <1>2, <1>3, <1>4, <1>5, <1>6, <1>7, <1>8, <1>9, <1>10, <1>11, <1>12,
     <1>13, <1>14, <1>15, <1>16, <1>17, <1>18, <1>19, <1>20, <1>21, <1>22 DEF
     Next, Client, Work, Update

\* An update nobody disturbed has read the newest state.
ReadIsNewest ==
    \A p \in Posts : alone[p] /\ post[p] = "read" /\ given[p] = 0
        => read[p] = Newest(saved[target[p]])

LEMMA ReadIsNewestKept == Shape /\ ReadIsNewest /\ Next => ReadIsNewest'
<1> SUFFICES ASSUME Shape, ReadIsNewest, Next, NEW p \in Posts,
                    alone'[p], post'[p] = "read", given'[p] = 0
             PROVE  read'[p] = Newest(saved'[target'[p]])
  BY DEF ReadIsNewest
<1>0. PostTypes
  BY Parts DEF Shape
<1>1. ~Opened(p) /\ ~WritePost(p)
  BY <1>0 DEF Opened, OpenPost, WritePost, PostTypes
<1>2. SparesPost(p)
  BY <1>1, PostAlone
<1>3. CASE ReadPost(p)
  BY <1>0, <1>2, <1>3 DEF ReadPost, Reads, SparesPost, PostTypes
<1>4. CASE ~ReadPost(p)
  BY <1>1, <1>2, <1>4 DEF SparesPost, ReadIsNewest
<1> QED BY <1>3, <1>4

LEMMA RowsThereKept == Shape /\ RowsThere /\ Next => RowsThere'
<1> SUFFICES ASSUME Shape, RowsThere, Next PROVE RowsThere'
  OBVIOUS
<1>0. RowTypes /\ RunTypes /\ PostTypes /\ Stage
  BY Parts DEF Shape
<1>1. \A r \in Runs : status'[r] \notin {"unborn", "gone"} => on'[r] \in present'
  BY RunHasRow
<1>2. ASSUME NEW r \in Runs, alone'[r], Working(r)' PROVE on'[r] \in present'
  <2>1. CASE FirstStart(r)
    BY <2>1 DEF FirstStart, Start, RowsThere
  <2>2. CASE alone[r] /\ (Checkpoint(r) \/ RollBack(r))
    BY <2>2 DEF Checkpoint, RollBack, RowsThere, Working
  <2>3. CASE Spares(r)
    BY <2>3 DEF Spares, RowsThere
  <2> QED BY <1>2, <2>1, <2>2, <2>3, RunAlone
<1>3. ASSUME NEW p \in Posts, alone'[p], post'[p] # "idle"
      PROVE  target'[p] \in present'
  <2>1. CASE Opened(p)
    BY <2>1, <1>0 DEF Opened, OpenPost, Present, PostTypes
  <2>2. CASE SparesPost(p)
    BY <2>2 DEF SparesPost, RowsThere
  <2> QED BY <1>3, <2>1, <2>2, PostAlone
<1> QED BY <1>1, <1>2, <1>3 DEF RowsThere

----------------------------------------------------------------------------
(* The theorems.                                                           *)

IInv ==
    /\ Shape
    /\ Untagged /\ RollbackErases
    /\ BaseHolds
    /\ MineIsNewest /\ StartIsNewest /\ SeenAll
    /\ RowsThere /\ ReadIsNewest

LEMMA IInvInit == Init => IInv
<1> SUFFICES ASSUME Init PROVE IInv
  OBVIOUS
<1>1. Shape
  BY ShapeInit
<1>2. Untagged /\ RollbackErases
  BY DEF Init, Untagged, RollbackErases
<1>3. BaseHolds /\ MineIsNewest /\ StartIsNewest /\ SeenAll
  BY DEF Init, BaseHolds, Working, MineIsNewest, StartIsNewest, AtIt, SeenAll
<1>4. RowsThere /\ ReadIsNewest
  BY DEF Init, RowsThere, Working, ReadIsNewest
<1> QED BY <1>1, <1>2, <1>3, <1>4 DEF IInv

LEMMA IInvStutters == IInv /\ UNCHANGED vars => IInv'
<1> SUFFICES ASSUME IInv, UNCHANGED vars PROVE IInv'
  OBVIOUS
<1> USE DEF vars
<1>1. Shape'
  <2>1. RowTypes' /\ RunTypes' /\ PostTypes' /\ alone' \in [Writers -> BOOLEAN]
    BY Parts DEF IInv, Shape, RowTypes, RunTypes, PostTypes
  <2>2. Stage' /\ Given1'
    BY DEF IInv, Shape, Stage, Given1
  <2> QED BY <2>1, <2>2, Parts DEF Shape
<1>2. Untagged' /\ RollbackErases'
  BY DEF IInv, Untagged, RollbackErases
<1>3. BaseHolds' /\ MineIsNewest' /\ StartIsNewest' /\ SeenAll'
  BY DEF IInv, BaseHolds, Working, Others, MineIsNewest, StartIsNewest, AtIt, SeenAll, Deaf
<1>4. RowsThere' /\ ReadIsNewest'
  BY DEF IInv, RowsThere, Working, ReadIsNewest
<1> QED BY <1>1, <1>2, <1>3, <1>4 DEF IInv

LEMMA IInvKept == IInv /\ [Next]_vars => IInv'
<1>1. IInv /\ Next => IInv'
  BY ShapeKept, UntaggedKept, ErasedKept, BaseHoldsKept, MineIsNewestKept,
     StartIsNewestKept, SeenAllKept, RowsThereKept, ReadIsNewestKept DEF IInv
<1> QED BY <1>1, IInvStutters

LEMMA Invariance == Spec => []IInv
  BY IInvInit, IInvKept, PTL DEF Spec

\* Every variable keeps its type; no number above the counter is in use.
THEOREM TypeCorrect == Spec => []TypeOK
<1>1. IInv => TypeOK
  BY DEF IInv, Shape
<1> QED BY <1>1, Invariance, PTL

\* A rollback leaves no checkpoint of any attempt of its run, whatever else
\* has been deleted, copied or cancelled (Runs.delete called by worker.py).
THEOREM RollbacksErase == Spec => []RollbackErases
<1>1. IInv => RollbackErases
  BY DEF IInv
<1> QED BY <1>1, Invariance, PTL

\* A run alone on its thread is rolled back to the state from before its
\* first attempt (worker.py, Runs.delete).
THEOREM RollbacksRestore == Spec => RollbackRestores
<1>1. ASSUME IInv, NEW r \in Runs, RollBack(r), alone[r]
      PROVE  Newest(saved'[on[r]]) = base[r]
  <2>1. worker[r] = "executing" /\ saved' = [saved EXCEPT ![on[r]] = {c \in @ : c.run # r}]
    BY <1>1 DEF RollBack, Erase
  <2>2. on[r] \in DOMAIN saved
    BY <1>1, <2>1, Parts DEF IInv, Shape, Stage, RowTypes, RunTypes
  <2>3. saved'[on[r]] = Others(r)
    BY <2>1, <2>2 DEF Others
  <2> QED BY <1>1, <2>1, <2>3 DEF IInv, BaseHolds, Working
<1>2. IInv => [\A r \in Runs :
                  RollBack(r) /\ alone[r] => Newest(saved'[on[r]]) = base[r]]_vars
  BY <1>1
<1> QED BY <1>2, Invariance, PTL DEF RollbackRestores

\* A run that succeeds, and an update of the newest state, leave the row with
\* the state of the thread when nobody has disturbed them; but a retry that is not
\* told of its checkpoints leaves it with none (Threads.set_status, astream_state,
\* Threads.State.post).
THEOREM RowsShowState == Spec => RowShowsState
<1> DEFINE
      Succeeds == \A r \in Runs : Finish(r) /\ alone[r] /\ outcome[r] = "success"
                          => values'[on[r]] \in Shown(r)
      Updates == \A p \in Posts : ShowPost(p) /\ alone[p] /\ given[p] = 0
                          => values'[target[p]] = Newest(saved'[target[p]])
<1>1. IInv => Succeeds
  <2> SUFFICES ASSUME IInv, NEW r \in Runs, Finish(r), alone[r],
                      outcome[r] = "success"
               PROVE  values'[on[r]] \in Shown(r)
    OBVIOUS
  <2>1. /\ worker[r] = "ending"
        /\ values' = IF on[r] \in present THEN [values EXCEPT ![on[r]] = seen[r]] ELSE values
    BY DEF Finish, Present
  <2>2. seen[r] \in Shown(r)
    <3>1. CASE Deaf(r)
      BY <3>1 DEF IInv, SeenAll, Shown
    <3>2. CASE ~Deaf(r) /\ mine[r] = 0
      BY <2>1, <3>2 DEF IInv, StartIsNewest, AtIt, Shown
    <3>3. CASE ~Deaf(r) /\ mine[r] # 0
      BY <2>1, <3>3 DEF IInv, SeenAll, MineIsNewest, AtIt, Shown
    <3> QED BY <3>1, <3>2, <3>3
  <2>3. on[r] \in present
    BY <2>1 DEF IInv, RowsThere, Working
  <2>4. on[r] \in DOMAIN values
    BY <2>3, Parts DEF IInv, Shape, RowTypes
  <2> QED BY <2>1, <2>2, <2>3, <2>4
<1>2. IInv => Updates
  <2> SUFFICES ASSUME IInv, NEW p \in Posts, ShowPost(p), alone[p], given[p] = 0
               PROVE  values'[target[p]] = Newest(saved'[target[p]])
    OBVIOUS
  <2>1. /\ post[p] = "read" /\ saved' = saved
        /\ values' = IF target[p] \in present
                     THEN [values EXCEPT ![target[p]] = read[p]] ELSE values
    BY DEF ShowPost, Present
  <2>2. read[p] = Newest(saved[target[p]])
    BY <2>1 DEF IInv, ReadIsNewest
  <2>3. target[p] \in present
    BY <2>1 DEF IInv, RowsThere
  <2>4. target[p] \in DOMAIN values
    BY <2>3, Parts DEF IInv, Shape, RowTypes
  <2> QED BY <2>1, <2>2, <2>3, <2>4
<1> HIDE DEF Succeeds, Updates
<1>3. IInv => [Succeeds /\ Updates]_vars
  BY <1>1, <1>2
<1> QED BY <1>3, Invariance, PTL DEF RowShowsState, Succeeds, Updates

=============================================================================
