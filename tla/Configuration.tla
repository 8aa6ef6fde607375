--------------------------- MODULE Configuration ---------------------------
(***************************************************************************)
(* Where the configuration of a run comes from (create_valid_run in        *)
(* models/run.py, Runs.put in ops.py).  A run is given the configurable    *)
(* keys of its assistant, of its thread and of its request, the later over *)
(* the earlier, and leaves them behind in its thread.  Between looking for *)
(* the thread and writing to it Runs.put awaits an authorization handler   *)
(* or the log, so that other requests, deletions and patches come between. *)
(* Threads.patch puts a copy in the place of the row; that a request may   *)
(* then write to the old row only, which nobody reads, is left out.        *)
(* The value of a key is the request that named it, or a setting of an     *)
(* assistant.                                                              *)
(***************************************************************************)
EXTENDS Naturals, Sequences, FiniteSets

CONSTANTS
    Requests,    \* requests for a run; each also stands for a fresh UUID
    Threads,     \* UUIDs of threads that clients name
    Assistants,
    Settings,    \* what assistants are configured with
    NoValue, NoRow,
    Configurable, \* keys of config["configurable"]: checkpoint_id, user_id, ...
    TopLevel,     \* keys of config itself: tags, recursion_limit
    CheckpointId, UserId,
    MaxRows,      \* bound: rows of threads ever made
    MaxPatches    \* bound: patches of assistants

Keys == Configurable \cup TopLevel
Uuids == Threads \cup Requests
Values == Requests \cup Settings \cup {NoValue}
Rows == 1..MaxRows

ConfigurationAssumption ==
    /\ CheckpointId \in Configurable /\ UserId \in Configurable
    /\ Configurable \cap TopLevel = {}
    /\ NoValue \notin Requests \cup Settings
    /\ Requests \cap Settings = {} /\ Requests \cap Threads = {}
    /\ MaxRows \in Nat /\ MaxPatches \in Nat /\ NoRow \notin Rows

VARIABLES
    catalog,   \* the configuration of each assistant
    patches,
    row,       \* the threads ever made; a row that was deleted can still be held
    made,      \* how many there are
    table,     \* the rows in the table, in its order
    asked,     \* a request on its way through Runs.put
    run        \* the runs inserted

vars == <<catalog, patches, row, made, table, asked, run>>

Empty == [k \in Keys |-> NoValue]
BlankRow == [thread |-> NoRow, status |-> "idle", config |-> Empty]
NoRun    == [in |-> FALSE, over |-> FALSE, thread |-> NoRow, config |-> Empty]

\* _merge_jsonb, of two: the later value of a key stands.
Merge(old, new) == [k \in Keys |-> IF new[k] = NoValue THEN old[k] ELSE new[k]]

\* What a request names: its own configuration, the checkpoint, the headers
\* that begin with x-, the user.
Own(r) == [k \in Keys |-> IF k \in asked[r].names THEN r ELSE NoValue]

Of(u)    == {i \in 1..Len(table) : row[table[i]].thread = u}
Place(u) == CHOOSE i \in Of(u) : \A j \in Of(u) : i <= j
Found(u) == IF Of(u) = {} THEN NoRow ELSE table[Place(u)]

Inflight(u) == {r \in Requests : run[r].in /\ run[r].thread = u /\ ~run[r].over}

Init ==
    /\ catalog \in [Assistants -> {[k \in Keys |-> v] : v \in Settings \cup {NoValue}}]
    /\ patches = 0
    /\ row = [i \in Rows |-> BlankRow] /\ made = 0 /\ table = <<>>
    /\ asked = [r \in Requests |->
                 [at |-> "new", thread |-> NoRow, assistant |-> NoRow, row |-> NoRow,
                  names |-> {}, rejects |-> FALSE]]
    /\ run = [r \in Requests |-> NoRun]

----------------------------------------------------------------------------
(* Threads and assistants.                                                 *)

NewRow(u, s, c) ==
    /\ made < MaxRows
    /\ made' = made + 1
    /\ row' = [row EXCEPT ![made + 1] = [thread |-> u, status |-> s, config |-> c]]

\* Threads.put.
CreateThread(u) ==
    /\ Found(u) = NoRow
    /\ NewRow(u, "idle", Empty)
    /\ table' = Append(table, made + 1)
    /\ UNCHANGED <<catalog, patches, asked, run>>

\* Threads.delete: the row and the runs.
DeleteThread(u) ==
    /\ Found(u) # NoRow
    /\ table' = SubSeq(table, 1, Place(u) - 1) \o SubSeq(table, Place(u) + 1, Len(table))
    /\ run' = [r \in Requests |-> IF run[r].thread = u THEN NoRun ELSE run[r]]
    /\ UNCHANGED <<catalog, patches, row, made, asked>>

\* Assistants.patch with a configuration: it replaces the one before, in place.
Patch(a, v) ==
    /\ patches < MaxPatches
    /\ patches' = patches + 1
    /\ catalog' = [catalog EXCEPT ![a] = [k \in Keys |-> v]]
    /\ UNCHANGED <<row, made, table, asked, run>>

----------------------------------------------------------------------------
(* A request.                                                              *)

\* create_valid_run up to the first await in Runs.put.  A request without a
\* thread is one for a new UUID.
Ask(r, u, a, names, rejects) ==
    /\ asked[r].at = "new"
    /\ u \in Threads \/ u = r
    /\ asked' = [asked EXCEPT ![r] =
                  [at |-> "looked", thread |-> u, assistant |-> a, row |-> Found(u),
                   names |-> names, rejects |-> rejects]]
    /\ UNCHANGED <<catalog, patches, row, made, table, run>>

\* The thread is not there, and the request does not make it.
Refuse(r) ==
    /\ asked[r].at = "looked" /\ asked[r].row = NoRow
    /\ asked[r].thread \in Threads
    /\ asked' = [asked EXCEPT ![r].at = "refused"]
    /\ UNCHANGED <<catalog, patches, row, made, table, run>>

\* The new row is computed, then the log is awaited, then it is inserted.
OpenThread(r) ==
    /\ asked[r].at = "looked" /\ asked[r].row = NoRow
    /\ NewRow(asked[r].thread, "busy", Merge(catalog[asked[r].assistant], Own(r)))
    /\ asked' = [asked EXCEPT ![r].at = "opened", ![r].row = made + 1]
    /\ UNCHANGED <<catalog, patches, table, run>>

\* The configuration of the run: keys of the configuration itself come from the
\* assistant and the request only.  A user_id that nobody names is the caller's.
RunConfig(r, base, stored) ==
    LET c == Merge(Merge(base, stored), Own(r))
        t == Merge(base, Own(r))
    IN [k \in Keys |-> IF k \in TopLevel THEN t[k]
                       ELSE IF k = UserId /\ c[k] = NoValue THEN r ELSE c[k]]

\* The runs of the thread decide, whichever row was found.
Insert(r, base, stored) ==
    LET u == asked[r].thread
        turned == asked[r].rejects /\ Inflight(u) # {}
    IN /\ asked' = [asked EXCEPT ![r].at = IF turned THEN "refused" ELSE "answered"]
       /\ run' = IF turned THEN run
                 ELSE [run EXCEPT ![r] = [in |-> TRUE, over |-> FALSE, thread |-> u,
                                          config |-> RunConfig(r, base, stored)]]

PutOnNew(r) ==
    /\ asked[r].at = "opened"
    /\ table' = Append(table, asked[r].row)
    /\ Insert(r, catalog[asked[r].assistant], Empty)
    /\ UNCHANGED <<catalog, patches, row, made>>

\* The row that was found is updated where nothing is under way on it, and only
\* then takes over the keys; it may have left the table meanwhile.
Left(r) == Merge(Merge(catalog[asked[r].assistant], row[asked[r].row].config), Own(r))

PutInPlace(r) ==                                                 \* slip
    LET i == asked[r].row
        a == asked[r].assistant
        c == IF row[i].status = "busy" THEN row[i].config ELSE Left(r)
    IN /\ asked[r].at = "looked" /\ i # NoRow
       /\ row' = [row EXCEPT ![i].status = "busy", ![i].config = c]
       /\ catalog' = [catalog EXCEPT ![a] = IF row[i].status = "busy" THEN @ ELSE c]
       /\ Insert(r, catalog[a], c)
       /\ UNCHANGED <<patches, made, table>>

PutOnFound(r) ==
    LET i == asked[r].row
        c == IF row[i].status = "busy" THEN row[i].config ELSE Left(r)
    IN /\ asked[r].at = "looked" /\ i # NoRow
       /\ row' = [row EXCEPT ![i].status = "busy", ![i].config = c]
       /\ Insert(r, catalog[asked[r].assistant], c)
       /\ UNCHANGED <<catalog, patches, made, table>>

\* A run ends: Runs.set_status and Threads.set_status, which shows busy as long
\* as the thread has other runs.
End(r) ==
    LET u == run[r].thread
        i == Found(u)
    IN /\ run[r].in /\ ~run[r].over
       /\ run' = [run EXCEPT ![r].over = TRUE]
       /\ row' = IF i = NoRow THEN row
                 ELSE [row EXCEPT ![i].status = IF Inflight(u) = {r} THEN "idle" ELSE "busy"]
       /\ UNCHANGED <<catalog, patches, made, table, asked>>

Next ==
    \/ \E u \in Threads : CreateThread(u) \/ DeleteThread(u)
    \/ \E a \in Assistants, v \in Settings : Patch(a, v)
    \/ \E r \in Requests, u \in Uuids, a \in Assistants, names \in SUBSET Keys, b \in BOOLEAN :
          Ask(r, u, a, names, b)
    \/ \E r \in Requests : Refuse(r)
    \/ \E r \in Requests : OpenThread(r)
    \/ \E r \in Requests : PutOnNew(r)
    \/ \E r \in Requests : PutOnFound(r)
    \/ \E r \in Requests : End(r)

Spec == Init /\ [][Next]_vars

----------------------------------------------------------------------------
(* Properties.                                                             *)

TypeOK ==
    /\ catalog \in [Assistants -> [Keys -> Values]]
    /\ patches \in 0..MaxPatches /\ made \in 0..MaxRows
    /\ row \in [Rows -> [thread : Uuids \cup {NoRow}, status : {"idle", "busy"},
                         config : [Keys -> Values]]]
    /\ table \in Seq(Rows)
    /\ asked \in [Requests ->
                   [at : {"new", "looked", "opened", "refused", "answered"},
                    thread : Uuids \cup {NoRow}, assistant : Assistants \cup {NoRow},
                    row : Rows \cup {NoRow}, names : SUBSET Keys, rejects : BOOLEAN]]
    /\ run \in [Requests -> [in : BOOLEAN, over : BOOLEAN, thread : Uuids \cup {NoRow},
                             config : [Keys -> Values]]]

\* _merge_jsonb copies, so that what a request says stays on its thread: every
\* value of a run is a setting of an assistant, or was named by a request on the
\* same thread; and what its own request names, it has.
Provenance ==
    \A r \in Requests : run[r].in =>
        \A k \in Keys :
            /\ k \in asked[r].names => run[r].config[k] = r
            /\ run[r].config[k] \in Requests =>
                 LET q == run[r].config[k]
                 IN /\ asked[q].thread = run[r].thread
                    /\ k \in asked[q].names \/ k = UserId

\* RunCreateDict.checkpoint_id: "Checkpoint ID to start from. Defaults to the
\* latest checkpoint."  A run whose request names no checkpoint has none.
StartsFromLatest ==
    \A r \in Requests :
        run[r].in /\ CheckpointId \notin asked[r].names => run[r].config[CheckpointId] = NoValue
=============================================================================
