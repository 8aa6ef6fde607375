------------------------------- MODULE Answers -------------------------------
(***************************************************************************)
(* What clients are told (api/assistants.py, api/threads.py, api/runs.py   *)
(* over ops.py): every operation on an assistant, a thread and its runs    *)
(* with the code it is answered with, while the operations of other        *)
(* clients go on.  Most change and read their tables in one step.  The     *)
(* others are suspended on the way: for the graph of a thread or an        *)
(* assistant, which is the user's code, for a log call, for a gather or    *)
(* for the end of a run, and go on with what they saw before.              *)
(*                                                                         *)
(* There is no auth handler.  Codes below 300 are all "200".  Whether a    *)
(* thread has a graph_id and how that is registered decides what can be    *)
(* asked of its state; what the state is, is in ThreadState, what becomes  *)
(* of a run in RunLifecycle, and what its configuration is in              *)
(* Configuration.                                                          *)
(***************************************************************************)
EXTENDS Naturals, FiniteSets, FiniteSetsExt

CONSTANTS
    Requests,   \* calls of clients
    Works,      \* bound: the runs there can be, all on one thread for one assistant
    MaxVersions   \* bound: versions of the assistant

AnswersAssumption == MaxVersions \in Nat \ {0} /\ Works # {}

\* "describe" stands for the schemas of the assistant, "draw" for its graph and
\* subgraphs, "get state" for the state at a checkpoint too, "cron" for each operation
\* on crons.
Plain     == {"search", "metrics", "cron", "get assistant", "patch assistant",
              "delete assistant", "describe", "draw", "get thread", "patch thread",
              "delete thread", "copy thread", "get state", "get history",
              "update state"}
Reading   == {"get state", "get history"}
WithOpt   == {"create assistant", "get versions", "create run"}
WithGraph == {"create thread", "create thread with state"}
OnRuns    == {"get run", "list runs", "join run", "delete run"}
Ops       == Plain \cup WithOpt \cup WithGraph \cup OnRuns \cup {"set latest", "cancel run"}
Stateful  == {"update state", "create thread with state"}
Failures  == {"400", "500"}          \* a ValueError of the user's code, or another
Codes     == {"200", "400", "404", "409", "422", "424", "500"}

VARIABLES
    registered, \* how the graph is registered: "fine", "invalid" or "unknown"
    versions,   \* those of the assistant; none without its row
    thread,     \* "gone", "bare", or "graph" when it has a graph_id
    work,       \* each run: "none" before it is made, "gone" when it is deleted
    call,       \* each call: what it asks, where it is, its answer
    right,      \* history: the answers that were right at some moment of it
    wrote       \* history: it has changed something

tables == <<versions, thread, work>>
vars   == <<registered, tables, call, right, wrote>>

\* opt and arg are what of its parameters matters, see the operations; run is the run
\* it names; rows, those of a deletion still to come, as long as its list is live.
NewCall == [op |-> "search", opt |-> FALSE, valid |-> TRUE, arg |-> 1,
            run |-> CHOOSE r \in Works : TRUE, rows |-> {}, live |-> FALSE,
            at |-> "new", answer |-> "none"]

\* Whatever calls and restarts before have left.
Init ==
    /\ registered \in {"fine", "invalid", "unknown"}
    /\ \E n \in 0..MaxVersions : versions = 1..n
    /\ thread \in {"gone", "bare", "graph"}
    /\ work \in [Works -> {"none", "ended"}]
    /\ thread = "gone" => work = [r \in Works |-> "none"]
    /\ call = [q \in Requests |-> NewCall]
    /\ right = [q \in Requests |-> {}]
    /\ wrote = [q \in Requests |-> FALSE]

----------------------------------------------------------------------------
(* What the code should answer to a call, at one moment.                   *)

Exists(r)   == work[r] \notin {"none", "gone"}
InFlight(r) == work[r] = "in flight"     \* pending or running
Busy        == \E r \in Works : InFlight(r)
Found(b)    == IF b THEN {"200"} ELSE {"404"}

\* What get_graph and the graph make of it.
OfGraph == CASE registered = "unknown" -> {"404"}
             [] registered = "invalid" -> {"424"} \cup Failures
             [] OTHER -> {"200"} \cup Failures

RightNow(c) ==
    IF ~c.valid THEN {IF c.op = "copy thread" THEN "400" ELSE "422"}
    ELSE IF c.op \in WithGraph /\ (thread = "gone" \/ ~c.opt)
    THEN {IF thread = "gone" THEN "200" ELSE "409"}
    ELSE CASE c.op \in {"search", "metrics", "create thread"} -> {"200"}
           [] c.op = "cron" -> {"500"}      \* NotImplementedError
           [] c.op = "create assistant" -> IF versions = {} \/ c.opt THEN {"200"} ELSE {"409"}
           [] c.op \in {"get assistant", "get versions", "patch assistant",
                        "delete assistant"} ->
                Found(versions # {})
           [] c.op = "set latest" -> Found(c.arg \in versions)
           [] c.op = "describe" -> IF versions = {} THEN {"404"} ELSE OfGraph
           [] c.op = "draw" ->
                IF versions = {} THEN {"404"}
                ELSE OfGraph \cup (IF registered = "fine" THEN {"422"} ELSE {})
           [] c.op \in {"get thread", "patch thread", "delete thread", "list runs",
                        "join run"} -> Found(thread # "gone")
           [] c.op = "copy thread" -> IF thread = "gone" THEN {"409"} ELSE {"200"}
           [] c.op \in Reading \cup Stateful ->
                CASE thread = "gone" -> {"404"}
                  [] thread = "bare" -> {IF c.op \in Reading THEN "200" ELSE "400"}
                  [] OTHER -> OfGraph
           [] c.op = "create run" ->
                IF versions = {} \/ thread = "gone" THEN {"404"}
                ELSE IF c.opt /\ Busy THEN {"409"} ELSE {"200"}
           [] OTHER -> Found(Exists(c.run))   \* get, cancel and delete a run

----------------------------------------------------------------------------
(* Calls.                                                                  *)

\* A step of call q, which is at c.
At(c, place) == c.at = place
Asked(c, op) == At(c, "asked") /\ c.valid /\ c.op = op

Over(c, code) == [c EXCEPT !.at = "over", !.answer = code, !.rows = {}, !.live = FALSE]
Says(q, c, code) == call' = [call EXCEPT ![q] = Over(c, code)]
Goes(q, c, place) == call' = [call EXCEPT ![q] = [c EXCEPT !.at = place]]

Reads == UNCHANGED <<registered, tables, wrote>>
Writes(q) == wrote' = [wrote EXCEPT ![q] = TRUE] /\ UNCHANGED registered
Tells(q, c, code) == Says(q, c, code) /\ Reads
Waits(q, c, place) == Goes(q, c, place) /\ Reads

\* What of its parameters a call of each operation is made with, within the bounds.
Call(op, opt, valid, arg, run) ==
    [NewCall EXCEPT !.op = op, !.opt = opt, !.valid = valid, !.arg = arg, !.run = run,
                    !.at = "asked"]
Calls ==
    {Call(op, FALSE, TRUE, 1, NewCall.run) : op \in Ops}
    \cup {Call(op, TRUE, TRUE, 1, NewCall.run) : op \in WithOpt \cup WithGraph}
    \cup {Call(op, TRUE, TRUE, 2, NewCall.run) : op \in WithGraph}
    \cup {Call(op, FALSE, TRUE, 2, NewCall.run) : op \in WithGraph \cup {"set latest"}}
    \cup {Call("cancel run", opt, TRUE, arg, run) :
             opt \in BOOLEAN, arg \in {1, 2}, run \in Works}
    \cup {Call(op, FALSE, TRUE, 1, run) : op \in OnRuns, run \in Works}
    \* as any other is refused
    \cup {Call(op, FALSE, FALSE, 1, NewCall.run) : op \in {"get thread", "copy thread"}}

Within(c) ==
    /\ c.op = "patch assistant" /\ versions # {} => Max(versions) < MaxVersions
    /\ c.op = "create run" => \E r \in Works : work[r] = "none"

\* The client has its answer, and may call again.
Leave(q) ==
    /\ At(call[q], "over")
    /\ call' = [call EXCEPT ![q] = NewCall]
    /\ wrote' = [wrote EXCEPT ![q] = FALSE]
    /\ UNCHANGED <<registered, tables>>

\* An identifier that is not a UUID, or a body that is not as its schema says; the
\* thread to be copied is looked at by _ensure_uuid.
Refuse(q, c) ==
    /\ At(c, "asked") /\ ~c.valid
    /\ Tells(q, c, IF c.op = "copy thread" THEN "400" ELSE "422")

Search(q, c)  == Asked(c, "search") /\ Tells(q, c, "200")
Metrics(q, c) == Asked(c, "metrics") /\ Tells(q, c, "200")

\* Crons raises NotImplementedError in every operation, which no handler answers.
NoCrons == "500"
Cron(q, c) == Asked(c, "cron") /\ Tells(q, c, NoCrons)

----------------------------------------------------------------------------
(* Assistants.                                                             *)

\* opt: if_exists is "do_nothing".
CreateAssistant(q, c) ==
    /\ Asked(c, "create assistant")
    /\ IF versions = {}
       THEN /\ versions' = {1} /\ UNCHANGED <<thread, work>>
            /\ Writes(q) /\ Says(q, c, "200")
       ELSE Tells(q, c, IF c.opt THEN "200" ELSE "409")

GetAssistant(q, c) ==
    /\ Asked(c, "get assistant")
    /\ Tells(q, c, IF versions = {} THEN "404" ELSE "200")

\* opt: with a filter or an offset, which leave any part of them.  A page without a
\* version is answered as if there were no assistant.
GetVersions(q, c) ==
    /\ Asked(c, "get versions")
    /\ \E page \in SUBSET versions :
         /\ c.opt \/ page = versions
         /\ Tells(q, c, IF page = {} THEN "404" ELSE "200")

PatchAssistant(q, c) ==
    /\ Asked(c, "patch assistant")
    /\ IF versions = {} THEN Tells(q, c, "404")
       ELSE /\ versions' = versions \cup {Max(versions) + 1}
            /\ UNCHANGED <<thread, work>>
            /\ Writes(q) /\ Says(q, c, "200")

\* Which one the row is at is in Assistants.
SetLatest(q, c) ==
    /\ Asked(c, "set latest")
    /\ IF c.arg \notin versions THEN Tells(q, c, "404")
       ELSE Writes(q) /\ Says(q, c, "200") /\ UNCHANGED tables

\* A run that is deleted goes from the list that deletions iterate over, one that is
\* made comes to it; when its thread is deleted there is another list, and they go on
\* over the old one.
Without(r) == [p \in Requests |-> [call[p] EXCEPT !.rows = @ \ {r}]]
With(r) == [p \in Requests |-> IF call[p].live THEN [call[p] EXCEPT !.rows = @ \cup {r}]
                               ELSE call[p]]
Dead    == [p \in Requests |-> [call[p] EXCEPT !.live = FALSE]]

\* The row goes, and with it the first of its runs.
DeleteAssistant(q, c) ==
    /\ Asked(c, "delete assistant")
    /\ IF versions = {} THEN Tells(q, c, "404")
       ELSE /\ versions' = {} /\ UNCHANGED thread /\ Writes(q)
            /\ LET rows == {r \in Works : Exists(r)}
               IN \/ rows = {} /\ Says(q, c, "200") /\ UNCHANGED work
                  \/ \E r \in rows :
                       /\ work' = [work EXCEPT ![r] = "gone"]
                       /\ call' = [Without(r) EXCEPT ![q] = [c EXCEPT !.at = "cascading",
                                      !.rows = rows \ {r}, !.live = TRUE]]

\* The next row of the list.  That some are passed over is in Assistants.
Cascade(q, c, r) ==
    /\ At(c, "cascading") /\ r \in c.rows
    /\ IF ~Exists(r) THEN Tells(q, c, "404")
       ELSE /\ work' = [work EXCEPT ![r] = "gone"] /\ call' = Without(r)
            /\ UNCHANGED <<registered, versions, thread, wrote>>

CascadeEnds(q, c) == At(c, "cascading") /\ Tells(q, c, "200")

\* The schemas, the drawing and the subgraphs: the row is read, its config parsed in
\* a thread, and the row, which is the live one, read again for its graph.
Describe(q, c) ==
    /\ Asked(c, "describe") \/ Asked(c, "draw")
    /\ IF versions = {} THEN Tells(q, c, "404") ELSE Waits(q, c, "opening")

NotDrawable(q, c) == c.op = "draw" /\ At(c, "reading") /\ Tells(q, c, "422")

----------------------------------------------------------------------------
(* Graphs.                                                                 *)

\* get_graph, and where the call goes from there.
AfterOpening(c) == IF c.op \in Stateful THEN "updating" ELSE "reading"

Open(q, c) ==
    /\ At(c, "opening")
    /\ \/ registered = "unknown" /\ Tells(q, c, "404")
       \/ registered = "invalid" /\ Tells(q, c, "424")
       \/ registered # "unknown" /\ \E code \in Failures : Tells(q, c, code)
       \/ registered = "fine" /\ Waits(q, c, AfterOpening(c))

Read(q, c) == At(c, "reading") /\ \E code \in {"200"} \cup Failures : Tells(q, c, code)

----------------------------------------------------------------------------
(* Threads and their states.                                               *)

\* opt: if_exists is "do_nothing"; arg: 2 when metadata has a graph_id.
NewThread(c) == IF c.arg = 2 THEN "graph" ELSE "bare"

CreateThread(q, c) ==
    /\ Asked(c, "create thread")
    /\ IF thread = "gone"
       THEN /\ thread' = NewThread(c) /\ UNCHANGED <<versions, work>>
            /\ Writes(q) /\ Says(q, c, "200")
       ELSE Tells(q, c, IF c.opt THEN "200" ELSE "409")

\* With supersteps: the row is made, and then State.bulk is asked for its state.
CreateThreadWithState(q, c) ==
    /\ Asked(c, "create thread with state")
    /\ IF thread = "gone"
       THEN /\ thread' = NewThread(c) /\ UNCHANGED <<versions, work>>
            /\ IF NewThread(c) = "bare" THEN Says(q, c, "400") ELSE Goes(q, c, "opening")
            /\ Writes(q)
       ELSE CASE ~c.opt -> Tells(q, c, "409")
              [] c.opt /\ thread = "bare" -> Tells(q, c, "400")
              [] OTHER -> Waits(q, c, "opening")

GetThread(q, c) ==
    /\ Asked(c, "get thread")
    /\ Tells(q, c, IF thread = "gone" THEN "404" ELSE "200")

PatchThread(q, c) ==
    /\ Asked(c, "patch thread")
    /\ IF thread = "gone" THEN Tells(q, c, "404")
       ELSE /\ thread' \in {"bare", "graph"} /\ UNCHANGED <<versions, work>>
            /\ Writes(q) /\ Says(q, c, "200")

DeleteThread(q, c) ==
    /\ Asked(c, "delete thread")
    /\ IF thread = "gone" THEN Tells(q, c, "404")
       ELSE /\ thread' = "gone"
            /\ work' = [r \in Works |-> IF Exists(r) THEN "gone" ELSE work[r]]
            /\ UNCHANGED versions
            /\ call' = [Dead EXCEPT ![q] = Over(c, "200")]
            /\ Writes(q)

\* The copy is another thread, which nobody asks for here.
CopyThread(q, c) ==
    /\ Asked(c, "copy thread")
    /\ IF thread = "gone" THEN Tells(q, c, "409")
       ELSE Says(q, c, "200") /\ Writes(q) /\ UNCHANGED tables

\* State.get and State.list; without a graph_id the state is empty.
Look(q, c) ==
    CASE thread = "gone" -> Tells(q, c, "404")
      [] thread = "bare" -> Tells(q, c, "200")
      [] OTHER -> Waits(q, c, "opening")

ReadState(q, c)   == Asked(c, "get state") /\ Look(q, c)
ReadHistory(q, c) == Asked(c, "get history") /\ Look(q, c)

UpdateState(q, c) ==
    /\ Asked(c, "update state")
    /\ CASE thread = "gone" -> Tells(q, c, "404")
         [] thread = "bare" -> Tells(q, c, "400")
         [] OTHER -> Waits(q, c, "opening")

\* The graph makes the checkpoints, whether the thread is still there or not, and can
\* fail before or after the first.
Update(q, c) ==
    /\ At(c, "updating")
    /\ \/ \E code \in Failures : Tells(q, c, code)
       \/ \E code \in Failures : Says(q, c, code) /\ Writes(q) /\ UNCHANGED tables
       \/ Goes(q, c, "rereading") /\ Writes(q) /\ UNCHANGED tables

\* State.get again, to have the values for the row.
Reread(q, c) ==
    /\ At(c, "rereading")
    /\ CASE thread = "gone" -> Tells(q, c, "404")
         [] thread = "bare" -> Waits(q, c, "showing")
         [] OTHER -> \/ Waits(q, c, "showing")
                     \/ \E code \in Failures : Tells(q, c, code)

\* The answer to a creation is the row that was made, whatever became of it.
Show(q, c) == At(c, "showing") /\ Tells(q, c, "200")

----------------------------------------------------------------------------
(* Runs.                                                                   *)

\* opt: multitask_strategy is "reject"; if_not_exists is.  A run in flight has its thread
\* busy (BusyCoversInflight of RunLifecycle), so one that is refused changes no row.
CreateRun(q, c) ==
    /\ Asked(c, "create run")
    /\ IF versions = {} \/ thread = "gone" THEN Tells(q, c, "404")
       ELSE IF c.opt /\ Busy THEN Tells(q, c, "409")
       ELSE \E r \in Works :
            /\ work[r] = "none" /\ work' = [work EXCEPT ![r] = "in flight"]
            /\ thread' \in {thread, "graph"} /\ UNCHANGED versions
            /\ call' = [With(r) EXCEPT ![q] = Over(c, "200")]
            /\ Writes(q)

\* A worker ends it.
Execute(r) ==
    /\ InFlight(r)
    /\ work' = [work EXCEPT ![r] = "ended"]
    /\ UNCHANGED <<registered, versions, thread, call, wrote>>

\* The thread is looked up by a task of its own, the run when the gather is over.
GetRun(q, c) ==
    /\ Asked(c, "get run") \/ Asked(c, "list runs")
    /\ IF thread = "gone" THEN Tells(q, c, "404") ELSE Waits(q, c, "gathering")

Gathered(q, c) ==
    /\ At(c, "gathering")
    /\ Tells(q, c, IF c.op = "get run" /\ ~Exists(c.run) THEN "404" ELSE "200")

\* Runs.join: the thread is looked for, and once more at the end when no values came.
JoinRun(q, c) ==
    /\ Asked(c, "join run") \/ (At(c, "cancelled") /\ c.opt)
    /\ IF thread = "gone" THEN Tells(q, c, "404") ELSE Waits(q, c, "joining")

\* A run that is not there any more is no error.  In the slip it is: ignore_404 of
\* Runs.Stream.join is left at its default.
JoinedStrictly(q, c) ==                                               \* slip
    /\ At(c, "joining") /\ ~InFlight(c.run)
    /\ Tells(q, c, IF Exists(c.run) THEN "200" ELSE "404")

Joined(q, c) ==
    /\ At(c, "joining") /\ ~InFlight(c.run)
    /\ \/ Tells(q, c, "200")
       \/ thread = "gone" /\ Tells(q, c, "404")

\* opt: wait.  A rollback of a run nobody listens to deletes it, after a log call;
\* one that is over is only logged.
CancelRun(q, c) ==
    /\ Asked(c, "cancel run")
    /\ LET r == c.run
       IN CASE ~Exists(r) -> Tells(q, c, "404")
            [] work[r] = "ended" -> Waits(q, c, "cancelled")
            [] OTHER ->
                 \/ /\ work' = [work EXCEPT ![r] = "ended"]
                    /\ UNCHANGED <<versions, thread>>
                    /\ Goes(q, c, "cancelled") /\ Writes(q)
                 \/ c.arg = 2 /\ Waits(q, c, "erasing")

CancelErases(q, c) ==
    /\ At(c, "erasing")
    /\ LET r == c.run
       IN IF ~Exists(r) THEN Tells(q, c, "404")
          ELSE /\ work' = [work EXCEPT ![r] = "gone"]
               /\ UNCHANGED <<versions, thread>>
               /\ call' = [Without(r) EXCEPT ![q] = [c EXCEPT !.at = "cancelled"]]
               /\ Writes(q)

Cancelled(q, c) == At(c, "cancelled") /\ ~c.opt /\ Tells(q, c, "200")

DeleteRun(q, c) ==
    /\ Asked(c, "delete run")
    /\ LET r == c.run
       IN IF ~Exists(r) THEN Tells(q, c, "404")
          ELSE /\ work' = [work EXCEPT ![r] = "gone"]
               /\ UNCHANGED <<versions, thread>>
               /\ call' = [Without(r) EXCEPT ![q] = Over(c, "200")]
               /\ Writes(q)

----------------------------------------------------------------------------
StepOf(q, c) ==
    \/ Refuse(q, c) \/ Search(q, c) \/ Metrics(q, c) \/ Cron(q, c)
    \/ CreateAssistant(q, c) \/ GetAssistant(q, c) \/ GetVersions(q, c)
    \/ PatchAssistant(q, c) \/ SetLatest(q, c) \/ DeleteAssistant(q, c)
    \/ CascadeEnds(q, c) \/ \E r \in Works : Cascade(q, c, r)
    \/ Describe(q, c) \/ NotDrawable(q, c) \/ Open(q, c) \/ Read(q, c)
    \/ CreateThread(q, c) \/ CreateThreadWithState(q, c) \/ GetThread(q, c)
    \/ PatchThread(q, c) \/ DeleteThread(q, c) \/ CopyThread(q, c)
    \/ ReadState(q, c) \/ ReadHistory(q, c)
    \/ UpdateState(q, c) \/ Update(q, c) \/ Reread(q, c) \/ Show(q, c)
    \/ CreateRun(q, c) \/ GetRun(q, c) \/ Gathered(q, c) \/ JoinRun(q, c) \/ Joined(q, c)
    \/ CancelRun(q, c) \/ CancelErases(q, c) \/ Cancelled(q, c) \/ DeleteRun(q, c)

\* A call comes with its first step and its answer is taken at once.
Step ==
    \/ \E q \in Requests : Leave(q)
    \/ /\ \A q \in Requests : ~At(call[q], "over")
       /\ \/ \E q \in Requests :
               \E c \in IF At(call[q], "new") THEN {c \in Calls : Within(c)} ELSE {call[q]} :
                  StepOf(q, c)
          \/ \E r \in Works : Execute(r)

\* What is right counts from the first step of a call until it changes something.
Next ==
    /\ Step
    /\ right' = [q \in Requests |->
         LET before == IF At(call[q], "new") THEN RightNow(call'[q]) ELSE right[q]
         IN IF At(call'[q], "new") THEN {}
            ELSE IF At(call'[q], "over") \/ wrote'[q] THEN before
            ELSE before \cup RightNow(call[q])']

Spec == Init /\ [][Next]_vars

----------------------------------------------------------------------------
TypeOK ==
    /\ registered \in {"fine", "invalid", "unknown"}
    /\ versions \subseteq 1..MaxVersions
    /\ thread \in {"gone", "bare", "graph"}
    /\ work \in [Works -> {"none", "in flight", "ended", "gone"}]
    /\ right \in [Requests -> SUBSET Codes] /\ wrote \in [Requests -> BOOLEAN]

\* The operations of several parts, of which a later one can fail when an earlier one
\* has changed something: the thread is made and its state is not, the state is
\* updated and the row not, the assistant is deleted and not all its runs, the run is
\* cancelled and its thread deleted before it is joined.
PartialFailures(c) ==
    CASE c.op \in Stateful -> {"400", "404", "424", "500"}
      [] c.op = "delete assistant" \/ (c.op = "cancel run" /\ c.opt) -> {"404"}
      [] OTHER -> {}

\* The answer that is not true: an assistant that is there is said not to be, when a
\* filter or an offset leaves none of its versions.
SaidGone(c) == c.op = "get versions" /\ c.opt /\ c.answer = "404"

\* An answer was right at some moment of the call, whatever happened between its
\* steps, and one that is an error means that nothing was changed, but for the partial
\* failures and for the empty page of versions (create_thread to delete_run of api/).
AnswersAreTrue ==
    \A q \in Requests : At(call[q], "over") =>
        LET answer == call[q].answer
        IN \/ answer \in right[q] /\ (wrote[q] => answer = "200")
           \/ wrote[q] /\ answer \in PartialFailures(call[q])
           \/ ~wrote[q] /\ SaidGone(call[q])
=============================================================================
