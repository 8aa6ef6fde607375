----------------------------- MODULE Assistants -----------------------------
(***************************************************************************)
(* Assistants and their versions: Assistants.put / patch / set_latest /    *)
(* delete of langgraph_storage/ops.py, with the run table as far as the    *)
(* deletion of an assistant touches it.                                    *)
(*                                                                         *)
(* Without an authentication handler only two operations suspend: the      *)
(* deletion, in the log call after every run it deletes, and Runs.put, in  *)
(* the log call before it inserts a thread it had to make, which another   *)
(* request may have made meanwhile: there may be two rows.  "graph" stands *)
(* for graph_id and name, which every operation treats alike; metadata is  *)
(* the set of its keys.  The server registers its graphs with put and      *)
(* "do_nothing".  /internal/truncate, an endpoint for tests, is left out.  *)
(*                                                                         *)
(* An operator marked "slip" is a wrong version of the one after it, kept  *)
(* to show that the properties would notice; no specification uses it.     *)
(***************************************************************************)
EXTENDS Naturals, Sequences, FiniteSets, FiniteSetsExt, SequencesExt

CONSTANTS
    Ids,         \* assistant identifiers, which clients may choose
    Graphs,      \* values of graph_id
    Configs,     \* values of config
    Keys,        \* metadata keys
    MaxVersion,  \* bound: the largest version number
    NumRuns,     \* bound: how many runs are ever created
    Threads,     \* thread identifiers
    Deletions,   \* bound: one identifier per call of Assistants.delete
    Nil          \* no row, no assistant, no thread

Runs == 1..NumRuns

Rows     == [graph : Graphs, config : Configs, meta : SUBSET Keys,
             version : Nat \ {0}]
Versions == [id : Ids, version : Nat \ {0}, graph : Graphs, config : Configs,
             meta : SUBSET Keys]

ASSUME BoundsAssumption == MaxVersion \in Nat /\ NumRuns \in Nat
ASSUME NilAssumption == Nil \notin Rows \cup Ids \cup Threads

VARIABLES
    row,       \* the assistants table, at most one row per identifier
    versions,  \* the assistant_versions table
    runs,      \* the run table, in the order of insertion
    owner,     \* the assistant of each run
    on,        \* the thread of each run
    inserting, \* runs whose Runs.put is suspended
    threads,   \* how many rows each thread has in the threads table
    job        \* the calls of Assistants.delete

catalog == <<row, versions>>
table   == <<runs, owner, on, inserting, threads>>
vars    == <<row, versions, runs, owner, on, inserting, threads, job>>

\* A deletion iterates over the list object it found; `shared` says that this
\* still is the run table, and `list` is the object if it is not.
Jobs    == [phase : {"free", "deleting", "done", "failed"}, id : Ids \cup {Nil},
            next : Nat, shared : BOOLEAN, list : Seq(Runs), owed : SUBSET Runs]
FreeJob == [phase |-> "free", id |-> Nil, next |-> 1, shared |-> TRUE,
            list |-> <<>>, owed |-> {}]

Exists(a)  == row[a] # Nil
Numbers(a) == {v.version : v \in {w \in versions : w.id = a}}

Init ==
    /\ row = [a \in Ids |-> Nil]
    /\ versions = {}
    /\ runs = <<>>
    /\ owner = [r \in Runs |-> Nil]
    /\ on = [r \in Runs |-> Nil]
    /\ inserting = {}
    /\ threads = [t \in Threads |-> 0]
    /\ job = [d \in Deletions |-> FreeJob]

----------------------------------------------------------------------------
(* The assistants.                                                         *)

\* The row of an assistant and its entry in the version table.
Store(a, g, c, m, n) ==
    /\ row' = [row EXCEPT ![a] = [graph |-> g, config |-> c, meta |-> m,
                                  version |-> n]]
    /\ versions' = versions \cup {[id |-> a, version |-> n, graph |-> g,
                                   config |-> c, meta |-> m]}

\* On an assistant that exists "raise" and "do_nothing" change nothing.
Put(a, g, c, m) ==
    /\ ~Exists(a)
    /\ Store(a, g, c, m, 1)
    /\ UNCHANGED <<table, job>>

NumberAfterCurrent(a) == row[a].version + 1                      \* slip

NewNumber(a) == IF versions = {} THEN 1 ELSE Max(Numbers(a)) + 1

PatchRowOnly(a, g, c, m) ==                                      \* slip
    /\ Exists(a) /\ NewNumber(a) <= MaxVersion
    /\ row' = [row EXCEPT ![a].graph = g, ![a].config = c, ![a].meta = @ \cup m]
    /\ UNCHANGED <<versions, table, job>>

\* What the request leaves out keeps its value, except for the metadata: they
\* default to {}, and {} replaces the stored ones.
Patch(a, g, c, m) ==
    /\ Exists(a)
    /\ NewNumber(a) <= MaxVersion
    /\ Store(a, g, c, IF m = {} THEN {} ELSE row[a].meta \cup m, NewNumber(a))
    /\ UNCHANGED <<table, job>>

\* The graph and the name stay those of the version in use before.
SetLatest(a, v) ==
    /\ Exists(a)
    /\ v \in versions
    /\ v.id = a
    /\ row' = [row EXCEPT ![a].config = v.config, ![a].meta = v.meta,
                          ![a].version = v.version]
    /\ UNCHANGED <<versions, table, job>>

----------------------------------------------------------------------------
(* The run table.                                                          *)

\* What is left of a list when only some runs are kept, in their order.
Only(list, kept) ==
    LET part[n \in 0..Len(list)] ==
            IF n = 0 THEN <<>>
            ELSE IF list[n] \in kept THEN Append(part[n - 1], list[n]) ELSE part[n - 1]
    IN part[Len(list)]

Known(t) == threads[t] > 0

\* Threads.put, on a thread that does not exist.
CreateThread(t) ==
    /\ ~Known(t)
    /\ threads' = [threads EXCEPT ![t] = 1]
    /\ UNCHANGED <<catalog, runs, owner, on, inserting, job>>

NextRun(r) == owner[r] = Nil /\ \A s \in 1..(r - 1) : owner[s] # Nil

Claimed(r, a, t) ==
    /\ NextRun(r)
    /\ Exists(a)
    /\ owner' = [owner EXCEPT ![r] = a]
    /\ on' = [on EXCEPT ![r] = t]

\* Runs.put on a thread that exists does not suspend.
CreateRun(r, a, t) ==
    /\ Known(t)
    /\ Claimed(r, a, t)
    /\ runs' = Append(runs, r)
    /\ UNCHANGED <<catalog, inserting, threads, job>>

BeginRunAppended(r, a, t) ==                                      \* slip
    /\ ~Known(t)
    /\ Claimed(r, a, t)
    /\ inserting' = inserting \cup {r}
    /\ runs' = Append(runs, r)
    /\ UNCHANGED <<catalog, threads, job>>

\* Runs.put makes the thread: it has seen the assistant and logs.
BeginRun(r, a, t) ==
    /\ ~Known(t)
    /\ Claimed(r, a, t)
    /\ inserting' = inserting \cup {r}
    /\ UNCHANGED <<catalog, runs, threads, job>>

\* It does not look for the assistant again, nor for the thread.
InsertRun(r) ==
    /\ r \in inserting
    /\ inserting' = inserting \ {r}
    /\ threads' = [threads EXCEPT ![on[r]] = @ + 1]
    /\ runs' = Append(runs, r)
    /\ UNCHANGED <<catalog, owner, on, job>>

\* Runs.delete: the row is deleted in place.
DeleteRun(r) ==
    /\ Contains(runs, r)
    /\ runs' = Only(runs, Runs \ {r})
    /\ UNCHANGED <<catalog, owner, on, inserting, threads, job>>

\* Threads.delete: the table becomes a new list, and a deletion that is under
\* way goes on with the old one.  Of two rows of the thread the first goes.
DeleteThread(t) ==
    /\ Known(t)
    /\ threads' = [threads EXCEPT ![t] = @ - 1]
    /\ runs' = Only(runs, {r \in Runs : on[r] # t})
    /\ job' = [d \in Deletions |->
                  IF job[d].phase = "deleting" /\ job[d].shared
                  THEN [job[d] EXCEPT !.shared = FALSE, !.list = runs]
                  ELSE job[d]]
    /\ UNCHANGED <<catalog, owner, on, inserting>>

----------------------------------------------------------------------------
(* Assistants.delete.                                                      *)

List(j) == IF j.shared THEN runs ELSE j.list

\* Where the iteration finds the runs of the assistant that are still ahead.
Hits(j) == {i \in j.next..Len(List(j)) : owner[List(j)[i]] = j.id}

CascadeStuck(d, j) ==                                            \* slip
    \/ /\ Hits(j) = {}
       /\ job' = [job EXCEPT ![d] = [j EXCEPT !.phase = "done"]]
       /\ UNCHANGED runs
    \/ \E i \in Hits(j) :
          /\ i = Min(Hits(j))
          /\ runs' = Only(runs, Runs \ {List(j)[i]})
          /\ job' = [job EXCEPT ![d] =
                        [j EXCEPT !.next = IF Contains(runs, List(j)[i])
                                           THEN i + 1 ELSE @]]

\* The iteration up to its next suspension: the end, the log call after the
\* deletion of a run, or the 404 of a run that is not in the table any more.
\* It goes on with the following position also where the row just deleted has
\* moved the others down by one.
Cascade(d, j) ==
    \/ /\ Hits(j) = {}
       /\ job' = [job EXCEPT ![d] = [j EXCEPT !.phase = "done"]]
       /\ UNCHANGED runs
    \/ \E i \in Hits(j) :
          /\ i = Min(Hits(j))
          /\ runs' = Only(runs, Runs \ {List(j)[i]})
          /\ job' = [job EXCEPT ![d] =
                        IF Contains(runs, List(j)[i])
                        THEN [j EXCEPT !.next = i + 1]
                        ELSE [j EXCEPT !.phase = "failed"]]

\* The row and the versions go at once, then the runs one by one.
Delete(d, a) ==
    /\ job[d].phase = "free"
    /\ Exists(a)
    /\ row' = [row EXCEPT ![a] = Nil]
    /\ versions' = {v \in versions : v.id # a}
    /\ Cascade(d, [FreeJob EXCEPT !.phase = "deleting", !.id = a,
                                  !.owed = {r \in Runs : owner[r] = a
                                                /\ Contains(runs, r)}])
    /\ UNCHANGED <<owner, on, inserting, threads>>

DeleteNext(d) ==
    /\ job[d].phase = "deleting"
    /\ Cascade(d, job[d])
    /\ UNCHANGED <<catalog, owner, on, inserting, threads>>

----------------------------------------------------------------------------
AssistantRequest(a) ==
    \/ \E g \in Graphs, c \in Configs, m \in SUBSET Keys :
          Put(a, g, c, m) \/ Patch(a, g, c, m)
    \/ \E v \in versions : SetLatest(a, v)
    \/ \E d \in Deletions : Delete(d, a)

RunRequest(r) ==
    \/ \E a \in Ids, t \in Threads : CreateRun(r, a, t) \/ BeginRun(r, a, t)
    \/ InsertRun(r)
    \/ DeleteRun(r)

Next ==
    \/ \E a \in Ids : AssistantRequest(a)
    \/ \E r \in Runs : RunRequest(r)
    \/ \E t \in Threads : CreateThread(t) \/ DeleteThread(t)
    \/ \E d \in Deletions : DeleteNext(d)

Spec == Init /\ [][Next]_vars

\* The event loop resumes every suspended deletion.
FairSpec == Spec /\ \A d \in Deletions : WF_vars(DeleteNext(d))

----------------------------------------------------------------------------
(* Properties.                                                             *)

\* Every variable has its type; the proofs about the catalog use only its part.
CatalogTypeOK ==
    /\ row \in [Ids -> Rows \cup {Nil}]
    /\ versions \in SUBSET Versions

TypeOK ==
    /\ CatalogTypeOK
    /\ runs \in Seq(Runs)
    /\ owner \in [Runs -> Ids \cup {Nil}]
    /\ on \in [Runs -> Threads \cup {Nil}]
    /\ inserting \in SUBSET Runs
    /\ threads \in [Threads -> Nat]
    /\ job \in [Deletions -> Jobs]

\* No number is given to two versions of an assistant, also when an older
\* version was made the latest or the assistant was deleted and made again.
VersionsUnique ==
    \A v, w \in versions : v.id = w.id /\ v.version = w.version => v = w

\* The row of an assistant holds the config and the metadata of the version it
\* names, and versions outlive no assistant.
RowIsItsVersion ==
    /\ \A a \in Ids : Exists(a) =>
          \E v \in versions : /\ v.id = a
                              /\ v.version = row[a].version
                              /\ v.config = row[a].config
                              /\ v.meta = row[a].meta
    /\ \A v \in versions : Exists(v.id)

\* A run in the table is there once, and its thread exists: whatever is made
\* and deleted while Runs.put is suspended, it inserts both in one step, and no
\* thread goes without its runs.
RunsHaveThreads ==
    /\ \A i, k \in 1..Len(runs) : runs[i] = runs[k] => i = k
    /\ \A i \in 1..Len(runs) : Known(on[runs[i]])

Content(v)     == [config |-> v.config, meta |-> v.meta]
AllContents    == [config : Configs, meta : SUBSET Keys]
Numbered(a, n) == CHOOSE v \in versions : v.id = a /\ v.version = n
HistoryOf == [a \in Ids |-> [n \in Numbers(a) |-> Content(Numbered(a, n))]]
CurrentOf == [a \in Ids |-> IF Exists(a) THEN row[a].version ELSE 0]

History == INSTANCE VersionHistory WITH
    Contents <- AllContents, history <- HistoryOf, current <- CurrentOf

\* Numbers, contents and the current version move as the API promises: the
\* two tables together implement VersionHistory.
HistoryHolds == History!Spec

\* A deletion ends, though other requests change the list it iterates over.
DeletionEnds ==
    \A d \in Deletions :
        job[d].phase = "deleting" ~> job[d].phase \in {"done", "failed"}

(* What a comment says and the code does not do; see the violation run.    *)

\* ops.py: the deletion cascades to the runs on the assistant.
CascadeIsComplete ==
    \A d \in Deletions :
        job[d].phase = "done" => \A r \in job[d].owed : ~Contains(runs, r)

=============================================================================
