---------------------------- MODULE MCAssistants ----------------------------
(***************************************************************************)
(* Instances of Assistants for TLC.  The versions and the run table are    *)
(* looked at one after the other, so that each has room: either there is   *)
(* one run and one thread, or every assistant keeps its first version,     *)
(* without metadata.                                                       *)
(***************************************************************************)
EXTENDS Assistants

CONSTANTS a1, a2, g1, c1, k1, t1, t2

TwoIds   == {a1, a2}
OneGraph == {g1}
TheConfigs == {c1}
TheKeys  == {k1}
TwoThreads == {t1, t2}

VARIABLE focus

MCInit == Init /\ focus \in {"versions", "runs"}

MCNext ==
    /\ Next
    /\ UNCHANGED focus
    /\ focus = "versions" => /\ \A r \in Runs \ {1} : owner'[r] = Nil
                             /\ \A t \in Threads \ {t1} : threads'[t] = 0
    /\ focus = "runs" => \A v \in versions' : v.version = 1 /\ v.meta = {}

MCSpec == MCInit /\ [][MCNext]_<<focus, vars>>

\* A deletion is never kept back by what is looked at.
MCFairSpec == MCSpec /\ \A d \in Deletions : WF_vars(DeleteNext(d))

=============================================================================
