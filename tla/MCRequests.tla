----------------------------- MODULE MCRequests -----------------------------
(***************************************************************************)
(* Machines that share no state, each checked by itself: who may reach a   *)
(* thread (Access), whose work a run is (Identity), what a run is          *)
(* configured with (Configuration), how a batch of runs is made (Batch) and*)
(* a graph in JavaScript (RemoteGraph).  The choice is made in the first   *)
(* state.                                                                  *)
(***************************************************************************)
EXTENDS Configuration, TLC

CONSTANTS
    Users, Slots, Named, Copies, Registrations, Nobody, NoCall, Limit, MaxCalls,
    Size,
    Runs, Reads, MaxTries, MaxPuts, MaxFaults,
    People, Incoming, Jobs, Studio, Anonymous, NoUser, MaxDepth

VARIABLES
    mode,
    handlers, cache, rows, clock, call, calls, listing,
    at, inserted, open, reply,
    invoked, node, pipe, op, up, faults, serde, saved, writes, puts, items,
    backend, handler, studio, request, context, held, job

access == <<handlers, cache, rows, clock, call, calls, listing>>
batch  == <<at, inserted, open, reply>>
js     == <<invoked, node, pipe, op, up, faults, serde, saved, writes, puts, items>>
users  == <<backend, handler, studio, request, context, held, job>>
allVars == <<mode, access, vars, batch, js, users>>

AllPatterns == {"threads", "*"} \X
    {"create", "read", "update", "delete", "search", "create_run", "*"}
Table(f) == [p \in AllPatterns |-> IF p \in DOMAIN f THEN f[p] ELSE "none"]
\* Every operation marked or refused, with a handler that a more specific one
\* hides; and only the search filtered.
Marked == Table(<<"threads", "*">> :> "own" @@ <<"threads", "create_run">> :> "refuse"
                @@ <<"*", "create">> :> "accept")
Open   == Table(<<"*", "search">> :> "own" @@ <<"*", "*">> :> "accept")
Considered == {Marked, Open}

A == INSTANCE Access WITH MaxRows <- MaxRows + 1
B == INSTANCE Batch
R == INSTANCE RemoteGraph WITH call <- invoked, wire <- pipe,
        table <- saved, made <- puts
I == INSTANCE Identity

ASSUME AccessAssumed == A!AccessAssumption
ASSUME ConfigurationAssumed == ConfigurationAssumption
ASSUME BatchAssumed == B!BatchAssumption
ASSUME RemoteAssumed == R!RemoteAssumption
ASSUME IdentityAssumed == I!IdentityAssumption

MCInit ==
    /\ mode \in {"access", "configuration", "batch", "js", "identity"}
    /\ A!Init /\ Init /\ B!Init /\ R!Init /\ I!Init
    \* the machines that are not run begin in one state
    /\ mode # "access" => handlers = CHOOSE h \in Registrations : TRUE
    \* assistants are configured by a patch
    /\ \A a \in Assistants, k \in Keys : catalog[a][k] = NoValue
    /\ mode # "identity" => backend = "noop"
    \* a handler that runs with its dependencies, and one that does not
    /\ backend = "custom" => handler \in {[awaited |-> TRUE, needs |-> "awaited"],
                                         [awaited |-> FALSE, needs |-> "plain"]}

MCNext ==
    \/ /\ mode = "access" /\ A!Next
       /\ UNCHANGED <<mode, vars, batch, js, users>>
    \/ /\ mode = "configuration" /\ Next
       /\ UNCHANGED <<mode, access, batch, js, users>>
    \/ /\ mode = "batch" /\ B!Next
       /\ UNCHANGED <<mode, access, vars, js, users>>
    \/ /\ mode = "js" /\ R!Next
       /\ UNCHANGED <<mode, access, vars, batch, users>>
    \/ /\ mode = "identity" /\ I!Next
       /\ UNCHANGED <<mode, access, vars, batch, js>>

MCSpec == MCInit /\ [][MCNext]_allVars

\* Stated in Access.
OwnerStays == [][A!OwnerKept \/ ~A!Guarded]_access
PagesComplete == A!PagesComplete
DeletesNamed == [][A!NamedByItsCall]_access
\* Stated in Batch.
BatchAnswered == B!BatchAnswered
\* Stated in RemoteGraph.
NoFalseSuccess == R!NoFalseSuccess
AppliedBeforeDone == R!AppliedBeforeDone
\* Stated in Identity.
RunsAsCreator == I!RunsAsCreator
=============================================================================
