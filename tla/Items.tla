------------------------------- MODULE Items --------------------------------
(***************************************************************************)
(* The items that clients and graphs keep (api/store.py over store.py).    *)
(* There is one store in memory, made when its module is imported and, if  *)
(* an index is configured, closed and made once more by start_pool.  Every *)
(* thread has a BatchedStore of its own, over the store there was when it  *)
(* first asked for one; it collects the operations of its callers and hands*)
(* them over together.  stop_pool closes the store, which writes its file. *)
(* What is kept at a place is a value or nothing, which is also what a     *)
(* deletion puts there.                                                    *)
(***************************************************************************)
EXTENDS Naturals, FiniteSets

CONSTANTS
    Calls,        \* bound: calls under way at a time
    Threads,      \* threads of the server that use the store
    Namespaces, Keys, Values,
    MaxSessions,  \* bound: starts of the process
    Nothing       \* no value

\* A place is a namespace with a key.
Places == Namespaces \X Keys
SameNamespace(p, q) == p[1] = q[1]

ItemsAssumption ==
    /\ MaxSessions \in Nat /\ Nothing \notin Values
    /\ Threads # {} /\ Namespaces # {} /\ Keys # {}

Contents == [Places -> Values \cup {Nothing}]
Empty    == [p \in Places |-> Nothing]

VARIABLES
    phase,     \* "down", "imported" or "serving"
    session,
    memory,    \* what the stores hold, the first and the second
    store,     \* which of them STORE is
    batched,   \* the one under the BatchedStore of each thread; 0: none yet
    file,      \* store.pckl
    call,      \* what is asked for, and where it stands
    kept       \* history: what the operations of this session, and of those before it
               \* that were stopped, amount to

process == <<phase, session, store, file>>
vars    == <<process, memory, batched, call, kept>>

Idle == [at |-> "idle", op |-> "put", thread |-> CHOOSE t \in Threads : TRUE,
         place |-> CHOOSE p \in Places : TRUE, value |-> Nothing]
NoCalls == [c \in Calls |-> Idle]

Init ==
    /\ phase = "down" /\ session = 0 /\ store = 1
    /\ memory = <<Empty, Empty>> /\ batched = [t \in Threads |-> 0]
    /\ file = Empty /\ call = NoCalls /\ kept = Empty

----------------------------------------------------------------------------
(* The process.                                                            *)

Import ==
    /\ phase = "down" /\ session < MaxSessions
    /\ phase' = "imported" /\ session' = session + 1
    /\ store' = 1 /\ memory' = <<file, Empty>>
    /\ UNCHANGED <<batched, file, call, kept>>

StartPlain ==
    /\ phase = "imported"
    /\ phase' = "serving"
    /\ UNCHANGED <<session, store, file, memory, batched, call, kept>>

\* set_store_config, with an index whose embeddings can be made.
StartIndexed ==
    /\ phase = "imported"
    /\ phase' = "serving"
    /\ file' = memory[store]
    /\ store' = 2 /\ memory' = <<Empty, memory[store]>>
    /\ UNCHANGED <<session, batched, call, kept>>

Gone == /\ phase' = "down"
        /\ store' = 1 /\ memory' = <<Empty, Empty>>
        /\ batched' = [t \in Threads |-> 0] /\ call' = NoCalls
        /\ UNCHANGED session

\* A configuration with no index, as one with a TTL only, or embeddings that cannot be
\* made: nothing is closed yet.
StartFails ==
    /\ phase = "imported"
    /\ Gone /\ UNCHANGED <<file, kept>>

StopFirst ==                                                          \* slip
    /\ phase = "serving"
    /\ file' = memory[1]
    /\ Gone /\ UNCHANGED kept

\* stop_pool looks STORE up at that moment.  What has not been handed over is lost.
Stop ==
    /\ phase = "serving"
    /\ file' = memory[store]
    /\ Gone /\ UNCHANGED kept

\* The process is killed, or stopped with a store that cannot be pickled.
Kill ==
    /\ phase # "down"
    /\ kept' = file
    /\ Gone /\ UNCHANGED file

----------------------------------------------------------------------------
(* Calls.                                                                  *)

Asked(c, place) == phase = "serving" /\ call[c].at = place
Moves(c, record) == call' = [call EXCEPT ![c] = record]
Only == UNCHANGED <<process, memory, kept>>

\* One whose namespace has an empty label or one with a period, or that lacks a key, is
\* refused at once and not modelled.
Ask(c, t, op, p, v) ==
    /\ Asked(c, "idle")
    /\ v # Nothing <=> op = "put"
    /\ Moves(c, [Idle EXCEPT !.at = "deciding", !.op = op, !.thread = t, !.place = p,
                             !.value = v])
    /\ UNCHANGED batched /\ Only

\* The handler refuses.
Refuse(c) ==
    /\ Asked(c, "deciding")
    /\ Moves(c, Idle)
    /\ UNCHANGED batched /\ Only

\* It lets the call through, with the place and the value that are then in its payload;
\* the thread's store is made when it is first asked for.
Queue(c, p, v) ==
    /\ Moves(c, [call[c] EXCEPT !.at = "queued", !.place = p, !.value = v])
    /\ LET t == call[c].thread
       IN batched' = [batched EXCEPT ![t] = IF @ = 0 THEN store ELSE @]
    /\ Only

\* Of a put its key and value hold, but not its namespace.
PutItem(c, p, v) ==
    /\ Asked(c, "deciding") /\ call[c].op = "put"
    /\ SameNamespace(p, call[c].place) /\ v # Nothing
    /\ Queue(c, p, v)

\* Of a get nothing does.
GetItem(c) ==
    /\ Asked(c, "deciding") /\ call[c].op = "get"
    /\ Queue(c, call[c].place, Nothing)

DeleteItem(c, p) ==
    /\ Asked(c, "deciding") /\ call[c].op = "delete"
    /\ Queue(c, p, Nothing)

\* A search, and a list of namespaces.
SearchItems(c, p) ==
    /\ Asked(c, "deciding") /\ call[c].op = "search"
    /\ Queue(c, p, Nothing)

\* The batch of a thread; of two writes to a place one is written.
Batch(t, written) ==
    LET queue  == {c \in Calls : Asked(c, "queued") /\ call[c].thread = t}
        writes == {c \in queue : call[c].op \in {"put", "delete"}}
        old    == memory[batched[t]]
    IN /\ queue # {}
       /\ DOMAIN written = {call[c].place : c \in writes}
       /\ \A p \in DOMAIN written :
             \E c \in writes : call[c].place = p /\ call[c].value = written[p]
       /\ memory' = [memory EXCEPT ![batched[t]] =
             [p \in Places |-> IF p \in DOMAIN written THEN written[p] ELSE old[p]]]
       /\ kept' = [p \in Places |-> IF p \in DOMAIN written THEN written[p] ELSE kept[p]]
       /\ call' = [c \in Calls |->
             IF c \notin queue THEN call[c]
             ELSE [call[c] EXCEPT !.at = "done"]]
       /\ UNCHANGED <<process, batched>>

Leave(c) == /\ Asked(c, "done")
            /\ Moves(c, Idle)
            /\ UNCHANGED batched /\ Only

Writings == UNION {[P -> Values \cup {Nothing}] : P \in SUBSET Places}

Next ==
    \/ Import \/ StartPlain \/ StartIndexed \/ StartFails \/ Stop \/ Kill
    \/ \E c \in Calls : \/ Refuse(c) \/ Leave(c) \/ GetItem(c)
                        \/ \E p \in Places : \/ DeleteItem(c, p) \/ SearchItems(c, p)
                                            \/ \E v \in Values : PutItem(c, p, v)
                        \/ \E t \in Threads, op \in {"put", "get", "delete", "search"},
                              p \in Places, v \in Values \cup {Nothing} :
                              Ask(c, t, op, p, v)
    \/ \E t \in Threads, written \in Writings : Batch(t, written)

Spec == Init /\ [][Next]_vars

----------------------------------------------------------------------------
(* Properties.                                                             *)

TypeOK ==
    /\ phase \in {"down", "imported", "serving"} /\ session \in 0..MaxSessions
    /\ store \in {1, 2} /\ memory \in [1..2 -> Contents]
    /\ batched \in [Threads -> 0..2]
    /\ call \in [Calls -> [at : {"idle", "deciding", "queued", "done"},
                           op : {"put", "get", "delete", "search"}, thread : Threads,
                           place : Places, value : Values \cup {Nothing}]]
    /\ file \in Contents /\ kept \in Contents

\* Whatever thread a call comes in, and however the store was made again at a start,
\* the store has what the operations before amount to, and after a stop the file has it:
\* nothing that was written is lost but by a kill, or by a stop whose store cannot be
\* pickled (Store, set_store_config, stop_pool).
ItemsKept ==
    /\ phase = "serving" => memory[store] = kept
    /\ phase \in {"down", "imported"} => file = kept
    /\ \A c \in Calls : call[c].at = "queued" => batched[call[c].thread] = store
=============================================================================
