--------------------------- MODULE VersionHistory ---------------------------
(***************************************************************************)
(* What the API promises of the versions of an assistant: a history that   *)
(* only grows, under numbers that are never used twice while the assistant *)
(* exists, and a current version that is one of them.  Assistants          *)
(* implements it.                                                          *)
(***************************************************************************)
EXTENDS Naturals

CONSTANTS Ids, Contents

VARIABLES
    history,   \* for each assistant, a function from numbers to contents
    current    \* the number in use; 0 when there is no such assistant

hvars == <<history, current>>

Empty == [n \in {} |-> n]

Init ==
    /\ history = [a \in Ids |-> Empty]
    /\ current = [a \in Ids |-> 0]

Create(a, c) ==
    /\ current[a] = 0
    /\ history' = [history EXCEPT ![a] = [n \in {1} |-> c]]
    /\ current' = [current EXCEPT ![a] = 1]

\* The new number is larger than any before it and becomes the current one.
Revise(a, c) ==
    /\ current[a] # 0
    /\ current'[a] \in Nat
    /\ \A m \in DOMAIN history[a] : m < current'[a]
    /\ history' = [history EXCEPT ![a] =
                      [m \in DOMAIN history[a] \cup {current'[a]} |->
                          IF m = current'[a] THEN c ELSE history[a][m]]]
    /\ current' = [current EXCEPT ![a] = current'[a]]

Select(a, n) ==
    /\ n \in DOMAIN history[a]
    /\ current' = [current EXCEPT ![a] = n]
    /\ UNCHANGED history

Drop(a) ==
    /\ current[a] # 0
    /\ history' = [history EXCEPT ![a] = Empty]
    /\ current' = [current EXCEPT ![a] = 0]

Next ==
    \E a \in Ids :
        \/ \E c \in Contents : Create(a, c) \/ Revise(a, c)
        \/ \E n \in DOMAIN history[a] : Select(a, n)
        \/ Drop(a)

Spec == Init /\ [][Next]_hvars

=============================================================================
