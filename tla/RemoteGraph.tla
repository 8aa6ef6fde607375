---------------------------- MODULE RemoteGraph ----------------------------
(***************************************************************************)
(* Graphs that run in the JavaScript process (js/remote.py, js/client.mts).*)
(* Python calls a handler there and reads its answer; the graph calls back *)
(* for its checkpoints and its store, each call-back with several tries, as*)
(* either side may lose the connection before or after it was served.      *)
(* Every call is about one thread, whose runs may be of Python graphs too; *)
(* both write to the one checkpointer MEMORY.                              *)
(*                                                                         *)
(* Not modelled: the events of a stream (Emission and EventStream are about*)
(* them), the heartbeats that put the time-out off, what checkpoints hold. *)
(* That a graph returns when its call-backs are answered is the library's  *)
(* promise.                                                                *)
(***************************************************************************)
EXTENDS Naturals, Sequences

CONSTANTS
    Runs,       \* runs of the thread
    Reads,      \* other calls: updates and reads of the state, schemas, drawings
    MaxTries,   \* requests tryFetch makes for a call-back
    MaxPuts,    \* bound: checkpoints
    MaxFaults   \* bound: lost connections and deaths of the process

RemoteAssumption ==
    /\ Runs \cap Reads = {}
    /\ MaxTries \in Nat \ {0} /\ MaxPuts \in Nat /\ MaxFaults \in Nat

Calls == Runs \cup Reads
CallBacks == {"load", "put", "put_writes", "store"}

VARIABLES
    call,    \* Python's side of a call, and what is called
    node,    \* the side of the JavaScript process
    wire,    \* what it has answered and Python has not read
    op,      \* the last call-back of each kind
    up,      \* whether the JavaScript process runs
    faults,
    serde,   \* the serializer of MEMORY
    table,   \* the checkpoints of the thread
    writes,  \* the checkpoints whose writes are stored
    made,    \* who made each checkpoint, in the order of their identifiers
    items    \* the calls whose puts to the store were carried out

process == <<node, up, faults>>
memory  == <<serde, table, writes, made, items>>
vars    == <<call, node, wire, op, up, faults, serde, table, writes, made, items>>

Streams == {"streamEvents", "getStateHistory"}
Idle == [at |-> "idle", tries |-> 0, id |-> 0]

Init ==
    /\ call = [c \in Calls |-> [kind |-> "none", at |-> "idle"]]
    /\ node = [c \in Calls |-> "none"]
    /\ wire = [c \in Calls |-> "nothing"]
    /\ op = [c \in Calls |-> [k \in CallBacks |-> Idle]]
    /\ up = TRUE /\ faults = 0
    /\ serde = "own"
    /\ table = {} /\ writes = {} /\ made = <<>> /\ items = {}

\* MEMORY loads what it is asked for with its own serializer, which takes
\* every form, or with PassthroughSerialiser.loads_typed.
Readable(x) == serde = "own" \/ x.form = "json"
Newest == CHOOSE x \in table : \A y \in table : y.id <= x.id
\* A checkpoint that is put again replaces itself.
Stored(id, by, form) ==
    IF \E x \in table : x.id = id THEN table
    ELSE table \cup {[id |-> id, by |-> by, form |-> form]}

----------------------------------------------------------------------------
(* Calls.                                                                  *)

Waiting(c) == call[c].at = "waiting"
End(c, how) == call' = [call EXCEPT ![c].at = how]

\* A graph starts with getTuple or list; schemas and drawings need neither.
LoadsFirst(kind) == kind \notin {"getSchema", "getGraph", "getSubgraphs"}

\* Without a process the connection is refused and the call raises.
Call(c, kind) ==
    /\ call[c].at = "idle"
    /\ call' = [call EXCEPT ![c] = [kind |-> kind, at |-> IF up THEN "waiting" ELSE "raised"]]
    /\ node' = [node EXCEPT ![c] = IF up THEN "running" ELSE "none"]
    /\ op' = [op EXCEPT ![c] = [k \in CallBacks |->
                IF up /\ k = "load" /\ LoadsFirst(kind)
                THEN [at |-> "sent", tries |-> 1, id |-> 0] ELSE Idle]]
    /\ UNCHANGED <<wire, up, faults, memory>>

\* One run of a thread at a time.
NoneRunning == \A r \in Runs : ~Waiting(r)
StreamEvents(c)    == c \in Runs /\ NoneRunning /\ Call(c, "streamEvents")
GetState(c)        == c \in Reads /\ Call(c, "getState")
UpdateState(c)     == c \in Reads /\ Call(c, "updateState")
GetStateHistory(c) == c \in Reads /\ Call(c, "getStateHistory")
GetSchema(c)       == c \in Reads /\ Call(c, "getSchema")
GetGraph(c)        == c \in Reads /\ Call(c, "getGraph")
GetSubgraphs(c)    == c \in Reads /\ Call(c, "getSubgraphs")

----------------------------------------------------------------------------
(* The handler.                                                            *)

\* What is written once nobody reads is dropped.
Write(c, what) == wire' = IF Waiting(c) THEN [wire EXCEPT ![c] = what] ELSE wire
Loaded(c) == op[c]["load"].at = "idle"
AllHeard(c) == \A k \in CallBacks : op[c][k].at = "idle"

Made(c) == \E id \in DOMAIN made : made[id] = c

\* handleInvoke writes the answer, handleStream ends what it has written.
Return(c) ==
    /\ up /\ node[c] = "running"
    /\ AllHeard(c)
    /\ call[c].kind = "updateState" => Made(c)
    /\ node' = [node EXCEPT ![c] = "returned"]
    /\ Write(c, "all")
    /\ UNCHANGED <<call, op, up, faults, memory>>

EndUnmarked(c) ==                                                \* slip
    /\ node' = [node EXCEPT ![c] = "threw"]
    /\ Write(c, IF call[c].kind \in Streams THEN "all" ELSE "blanks")

\* handleStream catches what the graph throws and says so before it ends;
\* handleInvoke leaves the answer empty.
Fail(c) ==
    /\ node' = [node EXCEPT ![c] = "threw"]
    /\ Write(c, IF call[c].kind \in Streams THEN "error" ELSE "blanks")

\* A node of the graph throws, or a schema cannot be extracted.
Throw(c) ==
    /\ up /\ node[c] = "running"
    /\ Fail(c)
    /\ UNCHANGED <<call, op, up, faults, memory>>

----------------------------------------------------------------------------
(* Call-backs.                                                             *)

Send(c, k, id) == op' = [op EXCEPT ![c][k] = [at |-> "sent", tries |-> 1, id |-> id]]

Checkpointing(c) ==
    /\ up /\ node[c] = "running" /\ Loaded(c)
    /\ call[c].kind \in {"streamEvents", "updateState"}

\* RemoteCheckpointer.put; an update makes one checkpoint.
Put(c) ==
    /\ Checkpointing(c)
    /\ op[c]["put"].at = "idle"
    /\ Len(made) < MaxPuts
    /\ call[c].kind = "updateState" => ~Made(c)
    /\ made' = Append(made, c)
    /\ Send(c, "put", Len(made'))
    /\ UNCHANGED <<call, process, wire, serde, table, writes, items>>

\* RemoteCheckpointer.putWrites, for a checkpoint of this call.
PutWrites(c) ==
    /\ Checkpointing(c)
    /\ op[c]["put_writes"].at = "idle"
    /\ \E id \in DOMAIN made :
          made[id] = c /\ op[c]["put_writes"].id < id /\ Send(c, "put_writes", id)
    /\ UNCHANGED <<call, process, wire, memory>>

\* RemoteStore.batch, by a node of a run, once.
Store(c) ==
    /\ c \in Runs /\ Checkpointing(c)
    /\ op[c]["store"].id = 0
    /\ Send(c, "store", 1)
    /\ UNCHANGED <<call, process, wire, memory>>

Served(c, k, how) == op' = [op EXCEPT ![c][k].at = how]

\* _get_passthrough_checkpointer.  Checkpointer() is MEMORY itself, so the
\* serializer stays.
TakesJson == serde' = "passthrough"

\* aget_tuple loads the newest checkpoint, alist every one; a ValueError is
\* answered with 400.
ServeLoad(c) ==
    /\ op[c]["load"].at = "sent"
    /\ TakesJson
    /\ LET asked == IF call[c].kind = "getStateHistory" \/ table = {}
                    THEN table ELSE {Newest}
       IN Served(c, "load", IF \A x \in asked : x.form = "json"
                            THEN "served" ELSE "refused")
    /\ UNCHANGED <<call, process, wire, table, writes, made, items>>

ServePut(c) ==
    /\ op[c]["put"].at = "sent"
    /\ TakesJson
    /\ table' = Stored(op[c]["put"].id, c, "json")
    /\ Served(c, "put", "served")
    /\ UNCHANGED <<call, process, wire, writes, made, items>>

ServePutWrites(c) ==
    /\ op[c]["put_writes"].at = "sent"
    /\ TakesJson
    /\ writes' = writes \cup {op[c]["put_writes"].id}
    /\ Served(c, "put_writes", "served")
    /\ UNCHANGED <<call, process, wire, table, made, items>>

ServeStore(c) ==
    /\ op[c]["store"].at = "sent"
    /\ items' = items \cup {c}
    /\ Served(c, "store", "served")
    /\ UNCHANGED <<call, process, wire, serde, table, writes, made>>

Alive(c) == node[c] \in {"running", "threw"}

\* sendRecv has read the answer; what was sent is kept to tell the writes
\* of one checkpoint from those of another.
Hear(c, k) ==
    /\ Alive(c)
    /\ op[c][k].at = "served"
    /\ op' = [op EXCEPT ![c][k].at = "idle", ![c][k].tries = 0]
    /\ UNCHANGED <<call, process, wire, memory>>

\* The connection broke before or after the call-back was served, or the
\* answer is not ok.
Unheard(c, k) ==
    /\ Alive(c)
    /\ \/ /\ op[c][k].at \in {"sent", "served"}
          /\ faults < MaxFaults
          /\ faults' = faults + 1
       \/ /\ op[c][k].at = "refused"
          /\ faults' = faults

TryAgain(c, k) ==
    /\ Unheard(c, k)
    /\ op[c][k].tries < MaxTries
    /\ op' = [op EXCEPT ![c][k].at = "sent", ![c][k].tries = @ + 1]
    /\ UNCHANGED <<call, node, up, wire, memory>>

GiveUpUnnoticed(c, k) ==                                         \* slip
    /\ Unheard(c, k)
    /\ op[c][k].tries = MaxTries
    /\ op' = [op EXCEPT ![c][k].at = "idle", ![c][k].tries = 0]
    /\ UNCHANGED <<call, node, up, wire, memory>>

\* The last try throws into the graph, which ends; its other call-backs go on.
GiveUp(c, k) ==
    /\ Unheard(c, k)
    /\ op[c][k].tries = MaxTries
    /\ op' = [op EXCEPT ![c][k].at = "rejected"]
    /\ IF node[c] = "running" THEN Fail(c) ELSE UNCHANGED <<node, wire>>
    /\ UNCHANGED <<call, up, memory>>

----------------------------------------------------------------------------
(* Python reads.                                                           *)

\* RemoteException of an error event, a connection that broke, or blanks that
\* are no JSON: anything but all of the answer raises.
Read(c) ==
    /\ Waiting(c) /\ wire[c] # "nothing"
    /\ wire' = [wire EXCEPT ![c] = "nothing"]
    /\ End(c, IF wire[c] = "all" THEN "returned" ELSE "raised")
    /\ UNCHANGED <<process, op, memory>>

\* Fifteen seconds without a byte; the graph is not told.
TimeOut(c) ==
    /\ Waiting(c) /\ call[c].kind # "python" /\ wire[c] = "nothing"
    /\ End(c, "raised")
    /\ UNCHANGED <<process, wire, op, memory>>

----------------------------------------------------------------------------
(* The runs of the thread as their worker sees them.                       *)

\* A cancel closes the connection; the graph is not told either.
Interrupt(c) ==
    /\ c \in Runs /\ Waiting(c)
    /\ End(c, "raised")
    /\ wire' = [wire EXCEPT ![c] = "nothing"]
    /\ UNCHANGED <<process, op, memory>>

\* Runs.delete loads the metadata of every checkpoint in turn; one it cannot
\* load raises, wherever in the table it is, and the rest stays.
RollBack(c) ==
    /\ c \in Runs /\ Waiting(c)
    /\ \E kept \in SUBSET {x \in table : x.by = c} :
          /\ (\A x \in table : Readable(x)) => kept = {}
          /\ table' = {x \in table : x.by # c} \cup kept
    /\ End(c, "raised")
    /\ wire' = [wire EXCEPT ![c] = "nothing"]
    /\ UNCHANGED <<process, op, serde, writes, made, items>>

\* A Python graph is loaded from the newest checkpoint.
StartPython(c) ==
    /\ c \in Runs /\ NoneRunning
    /\ call[c].at = "idle"
    /\ call' = [call EXCEPT ![c] =
          [kind |-> "python",
           at |-> IF table = {} \/ Readable(Newest) THEN "waiting" ELSE "raised"]]
    /\ UNCHANGED <<process, wire, op, memory>>

PutPython(c) ==
    /\ Waiting(c) /\ call[c].kind = "python"
    /\ Len(made) < MaxPuts
    /\ made' = Append(made, c)
    /\ table' = Stored(Len(made'), c, IF serde = "own" THEN "msgpack" ELSE "json")
    /\ UNCHANGED <<call, process, wire, op, serde, writes, items>>

EndPython(c) ==
    /\ Waiting(c) /\ call[c].kind = "python"
    /\ End(c, "returned")
    /\ UNCHANGED <<process, wire, op, memory>>

----------------------------------------------------------------------------
(* The JavaScript process.  What it has sent may still be served.          *)

Die ==
    /\ up /\ faults < MaxFaults
    /\ up' = FALSE
    /\ faults' = faults + 1
    /\ node' = [c \in Calls |-> IF node[c] \in {"running", "threw"} THEN "gone" ELSE node[c]]
    /\ wire' = [c \in Calls |-> IF Waiting(c) /\ node[c] = "running"
                                THEN "cut" ELSE wire[c]]
    /\ UNCHANGED <<call, op, memory>>

\* run_js_process.
Restart ==
    /\ ~up
    /\ up' = TRUE
    /\ UNCHANGED <<call, node, wire, op, faults, memory>>

Next ==
    \/ \E c \in Calls :
        \/ StreamEvents(c) \/ GetState(c) \/ UpdateState(c)
        \/ GetStateHistory(c) \/ GetSchema(c) \/ GetGraph(c) \/ GetSubgraphs(c)
        \/ Return(c) \/ Throw(c)
        \/ Put(c) \/ PutWrites(c) \/ Store(c)
        \/ ServeLoad(c) \/ ServePut(c) \/ ServePutWrites(c) \/ ServeStore(c)
        \/ \E k \in CallBacks : Hear(c, k) \/ TryAgain(c, k) \/ GiveUp(c, k)
        \/ Read(c) \/ TimeOut(c)
        \/ Interrupt(c) \/ RollBack(c)
        \/ StartPython(c) \/ PutPython(c) \/ EndPython(c)
    \/ Die \/ Restart

Spec == Init /\ [][Next]_vars

----------------------------------------------------------------------------
(* Properties.                                                             *)

Returned(c) == call[c].at = "returned" /\ call[c].kind # "python"

\* A call whose handler threw, or whose process died, never looks finished.
NoFalseSuccess == \A c \in Calls : Returned(c) => node[c] = "returned"

\* What a graph has put is in the checkpointer and the store when its call
\* returns, however often a connection was lost.
AppliedBeforeDone == \A c \in Calls : Returned(c) =>
    /\ \A id \in DOMAIN made : made[id] = c => \E x \in table : x.id = id
    /\ op[c]["put_writes"].id # 0 => op[c]["put_writes"].id \in writes
    /\ op[c]["store"].id # 0 => c \in items
=============================================================================
