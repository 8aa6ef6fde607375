------------------------------- MODULE Server -------------------------------
(***************************************************************************)
(* The process: what it loads when it starts, the JavaScript process it    *)
(* waits for and supervises, the reports it makes while it serves, and the *)
(* files it writes when it stops (lifespan.py, database.py, checkpoint.py, *)
(* store.py, graph.py, js/remote.py).  It may be killed between any two    *)
(* steps, and what it has written may be unreadable for the next one, as   *)
(* when classes were renamed.  What a file holds is the session that wrote *)
(* it.  An import that fails changes nothing and is left out.              *)
(***************************************************************************)
EXTENDS Metering, Sequences

CONSTANTS
    MaxSessions,  \* bound: times the server gets to serve
    MaxKills,     \* bound: kills, and starts that fail on a graph
    MaxSpoils,    \* bound: files that become unreadable
    MaxPolls,     \* polls wait_until_js_ready makes before it gives up
    MaxDeaths     \* deaths of the JavaScript process that are made good

ASSUME ServerAssumption ==
    /\ MaxSessions \in Nat /\ MaxKills \in Nat /\ MaxSpoils \in Nat
    /\ MaxPolls \in Nat /\ MaxDeaths \in Nat

VARIABLES
    phase,    \* where the process stands
    session,  \* the times it has served
    file,     \* what is on disk
    next,     \* the file a stop writes next
    child,    \* whether a JavaScript process runs
    deaths,   \* how often it was started again
    polls,    \* the polls that have failed
    kills, spoils

disk   == <<session, file, next>>
js     == <<child, deaths, polls>>
faults == <<kills, spoils>>
vars   == <<phase, disk, js, faults, meter>>

Phase == {"down", "imported", "opened", "waiting", "serving", "closing", "saving"}

\* The files in the order in which stop_pool writes them: the tables, the
\* retry counters, the store, and the three parts of the checkpointer in
\* the order its exit stack closes them.
Order == <<"ops", "counter", "data", "vectors", "blobs", "writes", "storage">>
Files == {"ops", "counter", "data", "vectors", "blobs", "writes", "storage"}

Absent  == [by |-> 0, bad |-> FALSE]
Missing(f) == file[f].by = 0
Bad(f)  == file[f].bad
\* These are loaded when their modules are imported, and an error there is
\* raised: RuntimeError by the store, FileNotFoundError by the checkpointer,
\* which removes a file of another name.  The retry counters are not loaded.
LoadedByImport == {"data", "vectors", "blobs", "writes", "storage"}
Blocked == \E f \in LoadedByImport : Bad(f)

Init ==
    /\ phase = "down" /\ session = 0 /\ next = 0
    /\ file = [f \in Files |-> Absent]
    /\ child = FALSE /\ deaths = 0 /\ polls = 0
    /\ kills = 0 /\ spoils = 0
    /\ MeteringInit

----------------------------------------------------------------------------
(* The start.                                                              *)

Import ==
    /\ phase = "down"
    /\ session < MaxSessions
    /\ ~Blocked
    /\ phase' = "imported"
    /\ Forget
    /\ UNCHANGED <<disk, js, faults>>

\* start_pool.
LoadTables ==
    /\ phase = "imported"
    /\ ~Bad("ops")
    /\ phase' = "opened"
    /\ UNCHANGED <<disk, js, faults, meter>>

DropCounterFirst ==                                              \* slip
    /\ phase = "imported" /\ Bad("ops")
    /\ file' = IF Missing("counter") THEN file
               ELSE [file EXCEPT !["ops"] = Absent, !["counter"] = Absent]
    /\ phase' = IF Missing("counter") THEN "down" ELSE "opened"
    /\ UNCHANGED <<session, next, js, faults, meter>>

\* Tables that cannot be read are removed, then the counters; where there is
\* no file of counters the start fails.
DropTables ==
    /\ phase = "imported"
    /\ Bad("ops")
    /\ file' = [file EXCEPT !["ops"] = Absent, !["counter"] = Absent]
    /\ phase' = IF Missing("counter") THEN "down" ELSE "opened"
    /\ UNCHANGED <<session, next, js, faults, meter>>

Serve ==
    /\ phase' = "serving"
    /\ session' = session + 1
    /\ loop' = "asleep"
    /\ UNCHANGED <<file, next, child, deaths, faults,
                   clock, counter, from, moments, report, tries, started, accepted, upto>>

\* collect_graphs_from_env without JavaScript graphs, then the tasks.
ServePython ==
    /\ phase = "opened"
    /\ Serve
    /\ UNCHANGED polls

StartChild ==
    /\ phase = "opened"
    /\ phase' = "waiting"
    /\ child' = TRUE
    /\ deaths' = 0
    /\ polls' = 0
    /\ UNCHANGED <<disk, faults, meter>>

\* wait_until_js_ready: both servers answer; the graphs are registered.
Answer ==
    /\ phase = "waiting"
    /\ Serve
    /\ polls' = 0

Leave == /\ phase' = "down"
         /\ child' = FALSE
         /\ next' = 0

\* One poll too many raises, before anything would be stopped or saved.
PollFails ==
    /\ phase = "waiting"
    /\ polls' = IF polls > MaxPolls THEN 0 ELSE polls + 1
    /\ IF polls > MaxPolls THEN Leave ELSE UNCHANGED <<phase, child, next>>
    /\ UNCHANGED <<session, file, deaths, faults, meter>>

\* run_js_process starts it again, MaxDeaths times in the life of the server;
\* then _handle_exception exits the process.
ChildDies ==
    /\ child
    /\ phase \in {"waiting", "serving"}
    /\ deaths' = IF deaths < MaxDeaths THEN deaths + 1 ELSE deaths
    /\ IF deaths < MaxDeaths THEN UNCHANGED <<phase, child, next>> ELSE Leave
    /\ UNCHANGED <<session, file, polls, faults, meter>>

----------------------------------------------------------------------------
(* The server at work.                                                     *)

Usage ==
    /\ phase = "serving"
    /\ Count \/ Submit
    /\ UNCHANGED <<phase, disk, js, faults>>

Time == Tick /\ UNCHANGED <<phase, disk, js, faults>>

----------------------------------------------------------------------------
(* The stop.                                                               *)

\* The tasks are cancelled and awaited; what was not reported is lost.
Stop ==
    /\ phase = "serving"
    /\ phase' = "closing"
    /\ Forget
    /\ UNCHANGED <<disk, js, faults>>

\* stop_remote_graphs has cancelled the tasks of the JavaScript process, and
\* the callback of the first one that ends exits the process when
\* stop_http_client suspends.
ExitEarly ==
    /\ phase = "closing"
    /\ child
    /\ Leave
    /\ UNCHANGED <<session, file, deaths, polls, faults, meter>>

StopPool ==
    /\ phase = "closing"
    /\ phase' = "saving"
    /\ next' = 1
    /\ UNCHANGED <<session, file, js, faults, meter>>

SaveAsListed ==                                                  \* slip
    /\ phase = "saving"
    /\ file' = [file EXCEPT ![Order[8 - next]] = [by |-> session, bad |-> FALSE]]
    /\ IF next < Len(Order) THEN next' = next + 1 /\ UNCHANGED <<phase, child>> ELSE Leave
    /\ UNCHANGED <<session, deaths, polls, faults, meter>>

\* PersistentDict.close writes beside the file and moves it into place.
Save ==
    /\ phase = "saving"
    /\ file' = [file EXCEPT ![Order[next]] = [by |-> session, bad |-> FALSE]]
    /\ IF next < Len(Order) THEN next' = next + 1 /\ UNCHANGED <<phase, child>>
       ELSE Leave
    /\ UNCHANGED <<session, deaths, polls, faults, meter>>

\* Tables that hold an object that cannot be pickled: nothing is written.
SaveFails ==
    /\ phase = "saving"
    /\ next = 1
    /\ Leave
    /\ UNCHANGED <<session, file, deaths, polls, faults, meter>>

----------------------------------------------------------------------------
(* Faults.                                                                 *)

Kill ==
    /\ kills < MaxKills
    /\ phase # "down"
    /\ kills' = kills + 1
    /\ Leave
    /\ UNCHANGED <<session, file, deaths, polls, spoils, meter>>

Spoil(f) ==
    /\ spoils < MaxSpoils
    /\ phase = "down"
    /\ ~Missing(f)
    /\ spoils' = spoils + 1
    /\ file' = [file EXCEPT ![f].bad = TRUE]
    /\ UNCHANGED <<phase, session, next, js, kills, meter>>

----------------------------------------------------------------------------
Boot == Import \/ LoadTables \/ DropTables

Next ==
    \/ Boot \/ ServePython \/ StartChild \/ Answer \/ PollFails \/ ChildDies
    \/ Usage \/ Time
    \/ Stop \/ ExitEarly \/ StopPool \/ Save \/ SaveFails
    \/ Kill \/ \E f \in Files : Spoil(f)

\* A start and a stop go on by themselves, and the container that runs the
\* server starts it again.  SF is about the environment: a JavaScript process
\* that is started again and again answers some day.
Fairness ==
    /\ WF_vars(Boot)
    /\ WF_vars(ServePython)
    /\ SF_vars(Answer)
    /\ WF_vars(PollFails)
    /\ WF_vars(StopPool)
    /\ WF_vars(Save)

Spec == Init /\ [][Next]_vars /\ Fairness

----------------------------------------------------------------------------
(* Properties.                                                             *)

TypeOK ==
    /\ phase \in Phase
    /\ session \in 0..MaxSessions
    /\ file \in [Files -> [by : 0..MaxSessions, bad : BOOLEAN]]
    /\ next \in 0..Len(Order)
    /\ next > 0 <=> phase = "saving"
    /\ child \in BOOLEAN
    /\ deaths \in 0..MaxDeaths /\ polls \in 0..MaxPolls + 1
    /\ kills \in 0..MaxKills /\ spoils \in 0..MaxSpoils
    /\ MeteringTypes

\* Whatever stops were cut short and whatever was removed, what is on disk
\* of the store and of the checkpoints is no newer than the tables, and no
\* checkpoint is newer than the writes and blobs it names (stop_pool's order).
SavedInOrder ==
    \A i, j \in 1..Len(Order) :
        i < j /\ ~(Missing(Order[i]) /\ Order[i] \in {"ops", "counter"})
            => file[Order[i]].by >= file[Order[j]].by

\* A server that is down gets to serve again, unless a file that is loaded
\* by an import is unreadable: start_pool gets rid of tables it cannot read
\* even when there are no counters to remove with them.
StartsAgain ==
    (phase = "down" /\ session < MaxSessions) ~> (phase = "serving" \/ Blocked)

=============================================================================
