------------------------------ MODULE Registry ------------------------------
(***************************************************************************)
(* The graphs a server is started with and the assistants that stand for   *)
(* them (graph.py, with Assistants.put, start_pool and /internal/truncate).*)
(* Each start reads LANGSERVE_GRAPHS and LANGGRAPH_CONFIG, loads the graphs*)
(* they name, and makes an assistant for every graph that has none, under  *)
(* an identifier that is computed from the name of the graph.  Assistants  *)
(* outlive the process, the variables of the environment may be others at  *)
(* the next start, and clients patch, delete and make these assistants as  *)
(* any other.  Graphs are not served before all of them are loaded, so no  *)
(* request meets a registration.                                           *)
(*                                                                         *)
(* A LANGGRAPH_CONFIG that is no JSON object stops the start before it     *)
(* changes anything and is left out; so are versions, which are in         *)
(* Assistants.                                                             *)
(***************************************************************************)
EXTENDS Naturals, FiniteSets

CONSTANTS
    Graphs,     \* the names there are for graphs
    Settings,   \* values of a graph's config
    MaxStarts,  \* bound: attempts to start
    Nil         \* no graph, no assistant

VARIABLES
    phase,      \* "down", "loading" or "serving"
    starts,
    env,        \* the graphs of the environment, with what is behind their names
    accepts,    \* GRAPHS; of a factory it says whether it takes the config
    assistant,  \* the assistants of the graphs
    saved,      \* those in the file of the tables
    touched     \* history: those that were the business of a client since the start

vars == <<phase, starts, env, accepts, assistant, saved, touched>>

\* What a name of LANGSERVE_GRAPHS stands for: a JavaScript file, or what a variable of
\* a Python module holds; in a file of /graphs, where no variable is named, only a graph
\* is looked for.  "graph" is a graph or a builder of one; "nothing" is anything else, a
\* factory of two parameters or a module that is missing or fails among it.
Specs ==
    [lang : {"js"}, holds : {"anything"}, config : Settings]
    \cup [lang : {"python"}, config : Settings,
          holds : {"graph", "factory", "factory of config", "nothing"}]

\* _graph_from_spec and RemotePregel.load: what GRAPHS has of a graph that could be
\* loaded.
Loadable(spec) == spec.holds # "nothing"
Value(spec) == CASE spec.lang = "js" -> "remote"
                 [] spec.holds = "factory" -> "without config"
                 [] spec.holds = "factory of config" -> "with config"
                 [] OTHER -> "graph"

\* metadata of "system" makes truncate keep it.
Assistants == [graph : Graphs, config : Settings, system : BOOLEAN]
None       == [g \in Graphs |-> Nil]

RegistryAssumption ==
    /\ MaxStarts \in Nat
    /\ Nil \notin Specs \cup Assistants \cup {"remote", "graph", "without config", "with config"}

Named      == {g \in Graphs : env[g] # Nil}
System(g)  == [graph |-> g, config |-> env[g].config, system |-> TRUE]

Init ==
    /\ phase = "down" /\ starts = 0
    /\ env = None /\ accepts = None /\ assistant = None /\ saved = None
    /\ touched = {}

----------------------------------------------------------------------------
(* The start.                                                              *)

\* start_pool loads the tables; what is started with is whatever the environment says.
Start ==
    /\ phase = "down" /\ starts < MaxStarts
    /\ phase' = "loading" /\ starts' = starts + 1
    /\ env' \in [Graphs -> Specs \cup {Nil}]
    /\ accepts' = None
    /\ assistant' = saved
    /\ touched' = {}
    /\ UNCHANGED saved

RegisterAnew(g) ==                                                    \* slip
    /\ accepts' = [accepts EXCEPT ![g] = Value(env[g])]
    /\ assistant' = [assistant EXCEPT ![g] = System(g)]
    /\ UNCHANGED <<phase, starts, env, saved, touched>>

\* Assistants.put with "do_nothing".
Register(g) ==
    /\ accepts' = [accepts EXCEPT ![g] = Value(env[g])]
    /\ assistant' = [assistant EXCEPT ![g] = IF @ = Nil THEN System(g) ELSE @]
    /\ UNCHANGED <<phase, starts, env, saved, touched>>

\* The graphs still to load; those in JavaScript come first.
Left   == {g \in Named : accepts[g] = Nil}
Ahead(g) == {h \in Left : env[h].lang = "js" /\ env[g].lang # "js"}

Load(g) ==
    /\ phase = "loading"
    /\ g \in Left /\ Ahead(g) = {}
    /\ Loadable(env[g])
    /\ Register(g)

Down ==
    /\ phase' = "down"
    /\ env' = None /\ accepts' = None /\ assistant' = None /\ touched' = {}
    /\ UNCHANGED starts

\* A graph that cannot be loaded, or JavaScript graphs in local development or that do
\* not answer; stop_pool is not called.
StartFails ==
    /\ phase = "loading"
    /\ \E g \in Left : ~Loadable(env[g]) \/ env[g].lang = "js"
    /\ Down /\ UNCHANGED saved

Serve ==
    /\ phase = "loading"
    /\ Left = {}
    /\ phase' = "serving"
    /\ UNCHANGED <<starts, env, accepts, assistant, saved, touched>>

----------------------------------------------------------------------------
(* Clients.                                                                *)

Changed(g, row) ==
    /\ phase = "serving"
    /\ assistant' = [assistant EXCEPT ![g] = row]
    /\ touched' = touched \cup {g}
    /\ UNCHANGED <<phase, starts, env, accepts, saved>>

\* One of an identifier that is the graph's, for any graph there is.
Create(g, h, c) ==
    /\ assistant[g] = Nil
    /\ Changed(g, [graph |-> h, config |-> c, system |-> FALSE])

\* Without metadata in the request the stored ones go.
Patch(g, h, c) ==
    /\ assistant[g] # Nil
    /\ \E keeps \in BOOLEAN :
          Changed(g, [graph |-> h, config |-> c, system |-> keeps /\ assistant[g].system])

Delete(g) == assistant[g] # Nil /\ Changed(g, Nil)

\* GlobalStore.clear and the removal of the file.
Truncate ==
    /\ phase = "serving"
    /\ assistant' = [g \in Graphs |->
          IF assistant[g] # Nil /\ assistant[g].system THEN assistant[g] ELSE Nil]
    /\ saved' = None
    /\ touched' = Graphs
    /\ UNCHANGED <<phase, starts, env, accepts>>

----------------------------------------------------------------------------
(* The stop.                                                               *)

Stop == phase = "serving" /\ saved' = assistant /\ Down
Kill == phase # "down" /\ Down /\ UNCHANGED saved

Next ==
    \/ Start \/ StartFails \/ Serve \/ \E g \in Graphs : Load(g)
    \/ \E g, h \in Graphs, c \in Settings : Create(g, h, c) \/ Patch(g, h, c)
    \/ \E g \in Graphs : Delete(g)
    \/ Truncate \/ Stop \/ Kill

Spec == Init /\ [][Next]_vars

----------------------------------------------------------------------------
(* Properties.                                                             *)

TypeOK ==
    /\ phase \in {"down", "loading", "serving"} /\ starts \in 0..MaxStarts
    /\ env \in [Graphs -> Specs \cup {Nil}]
    /\ accepts \in [Graphs -> {Nil, "remote", "graph", "without config", "with config"}]
    /\ assistant \in [Graphs -> Assistants \cup {Nil}]
    /\ saved \in [Graphs -> Assistants \cup {Nil}]
    /\ touched \subseteq Graphs

\* A server that serves has every graph it was started with, and nothing else; each has
\* an assistant; and those that were there at the last stop are as they were left, with
\* the graph and the config that clients gave them, whatever starts have failed since
\* and whatever the environment says now (collect_graphs_from_env, register_graph).
ServesAsLeft ==
    phase = "serving" =>
        /\ \A g \in Graphs : accepts[g] = IF env[g] = Nil THEN Nil ELSE Value(env[g])
        /\ \A g \in Graphs \ touched :
              assistant[g] = IF saved[g] # Nil THEN saved[g]
                             ELSE IF env[g] # Nil THEN System(g) ELSE Nil
=============================================================================
