----------------------------- MODULE Execution -----------------------------
(***************************************************************************)
(* One attempt to execute a run: get_graph opens what the graph needs,     *)
(* astream_state streams it, consume publishes it, and worker turns what   *)
(* came of it into a status.  The attempt may be told to interrupt or roll *)
(* back, which is heard only while it waits for the graph; its time may    *)
(* run out and the server may stop, which cancels it wherever it is; and   *)
(* the user's code may fail, or swallow a cancellation, while it opens,    *)
(* streams and closes.  What an exception does to the run depends on where *)
(* it meets the attempt: inside the generator, which closes the graph      *)
(* first, or in consume, which reports it first.                           *)
(* Assumed of the graph: the context managers it is made of do not         *)
(* suppress exceptions.                                                    *)
(***************************************************************************)
EXTENDS Naturals

CONSTANTS
    MaxAttempts,  \* BG_JOB_MAX_RETRIES
    MaxChunks     \* bound: chunks of a graph

ExecutionAssumption == MaxAttempts \in Nat /\ MaxChunks \in Nat

Graphs   == {"registered", "opened", "invalid", "unknown"}
Failures == {"error", "retry", "timeout"}

VARIABLES
    graph,     \* how its id is registered: a graph or what makes one, or a factory of a
               \* context that holds a graph or something else, or not at all
    number,    \* which attempt this is
    keyed,     \* whether the request gave feedback keys
    at,        \* where the attempt is
    resource,  \* the context of the graph and its stream: "none", "open", "closed", or
               \* "left" to the collector of garbage
    signal,    \* what the value event of the run holds
    expired, stopping,
    raised,    \* the exception under way, or "none"
    exhausted, \* the graph has produced all it had
    yielded,   \* chunks astream_state has yielded
    published, \* chunks consume has published
    last       \* the name of the last event published

given  == <<graph, number, keyed>>
events == <<published, last>>
vars   == <<given, at, resource, signal, expired, stopping, raised, exhausted,
            yielded, events>>

TypeOK ==
    /\ graph \in Graphs /\ number \in 1..(MaxAttempts + 1) /\ keyed \in BOOLEAN
    /\ at \in {"start", "resolving", "telling", "waiting", "publishing", "closing",
               "asking", "giving", "unwinding", "reporting", "over"}
    /\ resource \in {"none", "open", "closed", "left"}
    /\ signal \in {"none", "interrupt", "rollback"}
    /\ expired \in BOOLEAN /\ stopping \in BOOLEAN /\ exhausted \in BOOLEAN
    /\ raised \in Failures \cup {"none", "interrupt", "rollback", "cancelled"}
    /\ yielded \in 0..MaxChunks /\ published \in 0..MaxChunks
    /\ last \in {"none", "metadata", "chunk", "feedback", "error"}

Init ==
    /\ graph \in Graphs /\ number \in 1..(MaxAttempts + 1) /\ keyed \in BOOLEAN
    /\ at = "start" /\ resource = "none" /\ signal = "none"
    /\ expired = FALSE /\ stopping = FALSE /\ raised = "none" /\ exhausted = FALSE
    /\ yielded = 0 /\ published = 0 /\ last = "none"

----------------------------------------------------------------------------
(* The clauses of worker.                                                  *)

\* UserRollback is a UserInterrupt, so which clause comes first matters.
ClassifyInterruptFirst(e, late, stop) ==                         \* slip
    CASE e = "none" -> "success"
      [] e = "timeout" \/ (e = "cancelled" /\ late /\ ~stop) -> "timeout"
      [] e \in {"interrupt", "rollback"} -> "interrupted"
      [] e = "retry" -> "retry"
      [] e = "error" -> "error"
      [] OTHER -> "unwritten"

\* wait_for turns a cancellation into a TimeoutError when its time is up, but
\* not when somebody else has cancelled the task too (as it does since Python
\* 3.12; before, a stop could not be swallowed).  A graph may raise a
\* TimeoutError of its own.  A cancellation that is not the time-out's passes
\* every clause.
Classify(e, late, stop) ==
    CASE e = "none" -> "success"
      [] e = "timeout" \/ (e = "cancelled" /\ late /\ ~stop) -> "timeout"
      [] e = "rollback" -> "rollback"
      [] e = "interrupt" -> "interrupted"
      [] e = "retry" -> "retry"
      [] e = "error" -> "error"
      [] OTHER -> "unwritten"

\* What the worker writes.
Status == Classify(raised, expired, stopping)

At(place, e) == at' = place /\ raised' = e
Over(e) == At("over", e)

\* Where an exception that leaves astream_state goes: consume reports an Exception,
\* and nothing but an Exception.
Report(e) == IF e = "cancelled" THEN Over(e) ELSE At("reporting", e)

----------------------------------------------------------------------------
(* The attempt.                                                            *)

\* An attempt too many fails before anything is streamed.
Begin ==
    /\ at = "start"
    /\ IF number > MaxAttempts THEN Over("error") ELSE At("resolving", "none")
    /\ UNCHANGED <<given, resource, signal, expired, stopping, exhausted, yielded, events>>

\* get_graph: the id is not registered; or the factory or its context fails.
ResolveFails ==
    /\ at = "resolving"
    /\ \E e \in Failures : (graph = "unknown" => e = "error") /\ At("reporting", e)
    /\ UNCHANGED <<given, resource, signal, expired, stopping, exhausted, yielded, events>>

\* The context has been entered.  It does not hold a graph: it is left again.
ResolveInvalid ==
    /\ at = "resolving" /\ graph = "invalid"
    /\ resource' = "closed"
    /\ At("reporting", "error")
    /\ UNCHANGED <<given, signal, expired, stopping, exhausted, yielded, events>>

\* It holds one, and the metadata is yielded.
Resolve ==
    /\ at = "resolving" /\ graph \in {"registered", "opened"}
    /\ resource' = IF graph = "opened" THEN "open" ELSE resource
    /\ At("telling", "none")
    /\ UNCHANGED <<given, signal, expired, stopping, exhausted, yielded, events>>

\* map_cmd fails on a command whose goto names neither a node nor a node with its
\* input: astream_state ends before it enters the stack that would leave the context.
MapFails ==
    /\ at = "resolving" /\ graph \in {"registered", "opened"}
    /\ resource' = IF graph = "opened" THEN "left" ELSE resource
    /\ At("reporting", "error")
    /\ UNCHANGED <<given, signal, expired, stopping, exhausted, yielded, events>>

\* The metadata is published, and the graph is started.
Tell ==
    /\ at = "telling"
    /\ last' = "metadata" /\ resource' = "open"
    /\ At("waiting", "none")
    /\ UNCHANGED <<given, signal, expired, stopping, exhausted, yielded, published>>

\* wait_if_not_done returns what the graph has produced.  It may do so although
\* the event is set: a graph that does not suspend is done before the event is
\* looked at.
Chunk ==
    /\ at = "waiting" /\ yielded < MaxChunks
    /\ yielded' = yielded + 1
    /\ At("publishing", "none")
    /\ UNCHANGED <<given, resource, signal, expired, stopping, exhausted, events>>

Exhaust ==
    /\ at = "waiting"
    /\ exhausted' = TRUE
    /\ At("closing", "none")
    /\ UNCHANGED <<given, resource, signal, expired, stopping, yielded, events>>

\* The graph fails; what it raises is passed on, from a group the first.  It may
\* also cancel itself.
GraphFails ==
    /\ at = "waiting"
    /\ \E e \in Failures \cup {"cancelled"} : At("closing", e)
    /\ UNCHANGED <<given, resource, signal, expired, stopping, exhausted, yielded, events>>

\* wait_if_not_done sees that the event is set and cancels what it waits for with
\* the exception in it; the graph lets itself be cancelled.
Heed ==
    /\ at = "waiting" /\ signal # "none"
    /\ At("closing", signal)
    /\ UNCHANGED <<given, resource, signal, expired, stopping, exhausted, yielded, events>>

Publish ==
    /\ at = "publishing"
    /\ published' = published + 1 /\ last' = "chunk"
    /\ At("waiting", "none")
    /\ UNCHANGED <<given, resource, signal, expired, stopping, exhausted, yielded>>

\* A chunk that cannot be written as JSON.
PublishFails ==
    /\ at = "publishing"
    /\ At("reporting", "error")
    /\ UNCHANGED <<given, resource, signal, expired, stopping, exhausted, yielded, events>>

Left == IF resource = "open" THEN "closed" ELSE resource

\* The stack and the stream of the graph are left; that may fail, with an
\* exception that takes the place of the one under way.  Without one, feedback
\* addresses are fetched if there are keys.
Closed(e) ==
    IF e = "none" THEN IF keyed THEN At("asking", "none") ELSE Over("none") ELSE Report(e)

KeepOpen ==                                                      \* slip
    /\ at = "closing"
    /\ Closed(raised)
    /\ UNCHANGED <<given, resource, signal, expired, stopping, exhausted, yielded, events>>

Close ==
    /\ at = "closing"
    /\ resource' = Left
    /\ Closed(raised)
    /\ UNCHANGED <<given, signal, expired, stopping, exhausted, yielded, events>>

CloseFails ==
    /\ at = "closing"
    /\ resource' = Left
    /\ \E e \in Failures : Closed(e)
    /\ UNCHANGED <<given, signal, expired, stopping, exhausted, yielded, events>>

\* get_feedback_urls, in a thread.
Ask(e) ==
    /\ at = "asking"
    /\ IF e = "none" THEN At("giving", "none") ELSE At("reporting", e)
    /\ UNCHANGED <<given, resource, signal, expired, stopping, exhausted, yielded, events>>

Give ==
    /\ at = "giving"
    /\ last' = "feedback"
    /\ Over("none")
    /\ UNCHANGED <<given, resource, signal, expired, stopping, exhausted, yielded, published>>

\* consume publishes the exception, and then closes the generator, which leaves the
\* graph if it had not been left.
Tells ==
    /\ at = "reporting"
    /\ last' = "error"
    /\ IF resource = "open" THEN At("unwinding", raised) ELSE Over(raised)
    /\ UNCHANGED <<given, resource, signal, expired, stopping, exhausted, yielded, published>>

\* A failure here comes too late to be reported.
Unwind ==
    /\ at = "unwinding"
    /\ resource' = Left
    /\ \E e \in Failures \cup {raised} : Over(e)
    /\ UNCHANGED <<given, signal, expired, stopping, exhausted, yielded, events>>

----------------------------------------------------------------------------
(* What comes from outside.                                                *)

\* listen_for_cancellation sets the event once.
Signal(what) ==
    /\ at # "over" /\ signal = "none"
    /\ signal' = what
    /\ UNCHANGED <<given, at, resource, expired, stopping, raised, exhausted, yielded,
                   events>>

\* The task is cancelled where it waits.  The user's code may swallow that, or
\* raise something else; elsewhere the cancellation is raised.
Cancelled ==
    \/ /\ at \in {"start", "asking", "giving"}
       /\ Over("cancelled") /\ UNCHANGED resource
    \/ /\ at = "resolving" /\ graph # "unknown"
       /\ \/ UNCHANGED <<at, raised>>
          \/ \E e \in Failures : At("reporting", e)
          \/ Over("cancelled")
       /\ UNCHANGED resource
    \/ /\ at = "telling"
       \* aclose finds the generator outside its stack
       /\ resource' = IF resource = "open" THEN "left" ELSE resource
       /\ Over("cancelled")
    \/ /\ at = "waiting"
       /\ \/ UNCHANGED <<at, raised>>
          \/ \E e \in Failures \cup {"cancelled"} : At("closing", e)
       /\ UNCHANGED resource
    \/ at = "publishing" /\ At("unwinding", "cancelled") /\ UNCHANGED resource
    \/ /\ at \in {"closing", "unwinding"}
       /\ UNCHANGED <<at, raised>> \/ At(at, "cancelled")
       /\ UNCHANGED resource
    \/ /\ at = "reporting"
       /\ IF resource = "open" THEN At("unwinding", "cancelled") ELSE Over("cancelled")
       /\ UNCHANGED resource

\* BG_JOB_TIMEOUT_SECS are over: wait_for cancels once.
Expire ==
    /\ at \notin {"start", "over"} /\ ~expired
    /\ expired' = TRUE /\ UNCHANGED stopping
    /\ Cancelled
    /\ UNCHANGED <<given, signal, exhausted, yielded, events>>

\* The server stops, and queue() cancels its workers.
Stop ==
    /\ at # "over" /\ ~stopping
    /\ stopping' = TRUE /\ UNCHANGED expired
    /\ Cancelled
    /\ UNCHANGED <<given, signal, exhausted, yielded, events>>

\* A context nobody left is left when its generator is collected.
Collect ==
    /\ resource = "left"
    /\ resource' = "closed"
    /\ UNCHANGED <<given, at, signal, expired, stopping, raised, exhausted, yielded,
                   events>>

Next ==
    \/ Begin
    \/ ResolveFails
    \/ ResolveInvalid
    \/ Resolve
    \/ MapFails
    \/ Tell
    \/ Chunk
    \/ Exhaust
    \/ GraphFails
    \/ Heed
    \/ Publish
    \/ PublishFails
    \/ Close
    \/ CloseFails
    \/ \E e \in Failures \cup {"none"} : Ask(e)
    \/ Give
    \/ Tells
    \/ Unwind
    \/ \E what \in {"interrupt", "rollback"} : Signal(what)
    \/ Expire
    \/ Stop
    \/ Collect

Spec == Init /\ [][Next]_vars

----------------------------------------------------------------------------
(* Properties.                                                             *)

\* The status says what happened.  A run that is a success has been streamed to
\* its end, every chunk published and its feedback addresses given, and nobody was
\* told of an error.  It ends as interrupted or rolled back only when it was told
\* to, as what it was told.  Whoever streams it hears of any other end, unless the
\* attempt was cancelled or one too many.
SuccessIsComplete ==
    Status = "success" =>
        /\ exhausted /\ published = yielded
        /\ last # "error" /\ (keyed => last = "feedback")
SignalsObeyed ==
    /\ Status = "interrupted" => signal = "interrupt"
    /\ Status = "rollback" => signal = "rollback"
FailuresTold ==
    Status # "success" =>
        last = "error" \/ expired \/ stopping \/ number > MaxAttempts
           \/ raised = "cancelled"
OutcomeIsTrue == at = "over" => SuccessIsComplete /\ SignalsObeyed /\ FailuresTold

\* What a graph needs is there while it is used, and it is given back before the
\* status is written, whatever failed on the way, once the graph has been asked for
\* anything.
Released ==
    /\ at \in {"waiting", "publishing"} => resource = "open"
    /\ at = "over" => resource # "open"
    /\ at = "over" /\ (yielded > 0 \/ exhausted) => resource = "closed"
=============================================================================
