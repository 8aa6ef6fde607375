---------------------------- MODULE MCScheduler ----------------------------
(***************************************************************************)
(* Instances of Scheduler for TLC: two threads, the third run shares the   *)
(* thread of the first.                                                    *)
(***************************************************************************)
EXTENDS Scheduler

CONSTANTS t1, t2

TwoThreads == {t1, t2}
Alternate  == [r \in Runs |-> IF r % 2 = 1 THEN t1 ELSE t2]

=============================================================================
