------------------------------ MODULE ChunkLog ------------------------------
(***************************************************************************)
(* What a client of a stream is promised: the run is a log that only       *)
(* grows, each reader has a position in it, begins at the end, goes on one *)
(* chunk at a time, and leaves by itself at the end of a log that is       *)
(* closed.  When somebody stops the run a reader may leave before the log  *)
(* is closed, but still not before it has what there is.  Queues, "done"   *)
(* and time-outs are how RunStream implements it.                          *)
(***************************************************************************)
EXTENDS Naturals

CONSTANTS Readers, Early    \* the readers, and those that are there from the start

VARIABLES
    length,     \* how many chunks the log has
    closed,     \* nothing will be added
    halted,     \* a client has stopped the run
    place,      \* where each reader stands
    position    \* how far each reader has come

lvars == <<length, closed, halted, place, position>>

Init ==
    /\ length = 0 /\ ~closed /\ ~halted
    /\ place = [j \in Readers |-> IF j \in Early THEN "reading" ELSE "new"]
    /\ position = [j \in Readers |-> 0]

Add ==
    /\ ~closed
    /\ length' = length + 1
    /\ UNCHANGED <<closed, halted, place, position>>

Close ==
    /\ closed'
    /\ UNCHANGED <<length, halted, place, position>>

Halt ==
    /\ halted'
    /\ closed' \in {closed, TRUE}
    /\ UNCHANGED <<length, place, position>>

Subscribe(j) ==
    /\ place[j] = "new"
    /\ place' = [place EXCEPT ![j] = "reading"]
    /\ position' = [position EXCEPT ![j] = length]
    /\ UNCHANGED <<length, closed, halted>>

Take(j) ==
    /\ place[j] = "reading"
    /\ position[j] < length
    /\ position' = [position EXCEPT ![j] = @ + 1]
    /\ UNCHANGED <<length, closed, halted, place>>

Leave(j) ==
    /\ place[j] = "reading"
    /\ position[j] = length
    /\ closed \/ halted
    /\ place' = [place EXCEPT ![j] = "left"]
    /\ UNCHANGED <<length, closed, halted, position>>

Disconnect(j) ==
    /\ place[j] = "reading"
    /\ place' = [place EXCEPT ![j] = "away"]
    /\ UNCHANGED <<length, closed, halted, position>>

Next ==
    \/ Add \/ Close \/ Halt
    \/ \E j \in Readers : Subscribe(j) \/ Take(j) \/ Leave(j) \/ Disconnect(j)

Spec == Init /\ [][Next]_lvars

=============================================================================
