------------------------------ MODULE MCServer ------------------------------
(***************************************************************************)
(* What outlives a process: machines that share no state, each checked by  *)
(* itself.  The process and its files (Server), the graphs of the          *)
(* environment with their assistants (Registry), and the store of items    *)
(* (Items).  The choice is made in the first state.                        *)
(***************************************************************************)
EXTENDS Server

CONSTANTS
    Graphs, Settings, MaxStarts, Nil,
    Calls, Threads, Namespaces, Keys, Values, Nothing

VARIABLES
    mode,
    progress, starts, env, accepts, assistant, saved, touched,
    place, opened, memory, store, batched, written, call, kept

registry == <<progress, starts, env, accepts, assistant, saved, touched>>
items    == <<place, opened, memory, store, batched, written, call, kept>>
allVars  == <<mode, vars, registry, items>>

R == INSTANCE Registry WITH phase <- progress
I == INSTANCE Items WITH phase <- place, session <- opened, file <- written

ASSUME RegistryAssumed == R!RegistryAssumption
ASSUME ItemsAssumed == I!ItemsAssumption

MCInit ==
    /\ mode \in {"server", "registry", "items"}
    /\ Init /\ R!Init /\ I!Init

MCNext ==
    \/ mode = "server" /\ Next /\ UNCHANGED <<mode, registry, items>>
    \/ mode = "registry" /\ R!Next /\ UNCHANGED <<mode, vars, items>>
    \/ mode = "items" /\ I!Next /\ UNCHANGED <<mode, vars, registry>>

MCSpec == MCInit /\ [][MCNext]_allVars /\ (mode = "server" => Fairness)

\* Stated in Server, whose fairness is assumed when it is run.
ServerStartsAgain == mode = "server" => StartsAgain
\* Stated in Registry.
ServesAsLeft == R!ServesAsLeft
\* Stated in Items.
ItemsKept == I!ItemsKept
=============================================================================
