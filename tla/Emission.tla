------------------------------ MODULE Emission ------------------------------
(***************************************************************************)
(* What a run publishes of what its graph does (astream_state and consume  *)
(* in stream.py, streamEventsRequest in js/client.mts).  The graph is      *)
(* asked for debug events besides the modes of the request, so that the    *)
(* worker learns of checkpoints; messages arrive in chunks and are         *)
(* published as what has been said so far.  A JavaScript graph is asked    *)
(* for its values instead of messages, and its server puts the chunks      *)
(* together.  A run that is asked to stop raises where it waits for the    *)
(* graph; a retry starts over, behind what was published.  Events are told *)
(* to be the run's own by its run_id, which only the first attempt has in  *)
(* its config: of a retry that streams events nothing is taken apart.      *)
(***************************************************************************)
EXTENDS Naturals, Sequences

CONSTANTS
    Requested,    \* the sets of stream modes to consider
    Messages,     \* ids of messages
    Checkpoint,   \* stands for a checkpoint, where a message may stand
    MaxSteps,     \* bound: events of the graph
    MaxAttempts   \* bound: attempts

Modes == {"values", "messages", "messages-tuple", "debug", "events"}

EmissionAssumption ==
    /\ Requested \subseteq (SUBSET Modes) \ {{}}
    /\ Checkpoint \notin Messages
    /\ MaxSteps \in Nat /\ MaxAttempts \in Nat

VARIABLES
    asked,     \* the modes of the request
    remote,    \* whether the graph runs in JavaScript
    subgraphs, \* stream_subgraphs
    phase,     \* "begin", "streaming" or "over"
    attempt,
    steps,     \* events the graph has produced
    due,       \* produced, and not taken by astream_state yet
    whole,     \* messages the graph has said completely
    known,     \* chunks put together of each message
    said,      \* chunks the graph has produced of each message
    out        \* what was published, in order

graph == <<steps, whole, said>>
given == <<asked, remote, subgraphs>>
vars  == <<given, phase, attempt, graph, due, known, out>>

\* What the graph is asked for.
StreamModes ==
    LET modes == (asked \ {"events"}) \cup {"debug"}
    IN IF remote THEN {IF m = "messages" THEN "values"
                       ELSE IF m = "messages-tuple" THEN "messages" ELSE m : m \in modes}
       ELSE {IF m = "messages-tuple" THEN "messages" ELSE m : m \in modes}
UsesEvents == "events" \in asked \/ remote
\* Whether the chunks of the graph are known as such, and not as other events.
TakenApart == ~UsesEvents \/ attempt = 1

Namespaces == IF subgraphs THEN {"root", "sub"} ELSE {"root"}

\* An event: how it comes, the mode or the name, where from, and of a message
\* the chunks so far.
Ev(how, name, ns, id, n) == [how |-> how, name |-> name, ns |-> ns, id |-> id, n |-> n]
Pub(name, ns, id, n)     == [name |-> name, ns |-> ns, id |-> id, n |-> n, attempt |-> attempt]

Fresh == [m \in Messages |-> 0]

Init ==
    /\ asked \in Requested /\ remote \in BOOLEAN /\ subgraphs \in BOOLEAN
    /\ phase = "begin" /\ attempt = 1
    /\ steps = 0 /\ whole = {} /\ due = <<>>
    /\ known = Fresh /\ said = Fresh /\ out = <<>>

----------------------------------------------------------------------------
(* The graph.                                                              *)

Produce(events) ==
    /\ phase = "streaming" /\ steps < MaxSteps
    /\ steps' = steps + 1
    /\ due' = due \o events
    /\ UNCHANGED <<given, phase, attempt, out>>

\* A checkpoint, which is also handed to the worker (Observe in ThreadState), or
\* the values after a step.
GraphSteps(mode, ns) ==
    /\ mode \in StreamModes \cap {"debug", "values"}
    /\ Produce(<<Ev("chunk", mode, ns, Checkpoint, 0)>>)
    /\ UNCHANGED <<whole, known, said>>

\* A chunk of a message, or a message that was not said in chunks.
GraphSays(m, all) ==
    /\ ~remote /\ "messages" \in StreamModes
    /\ m \notin whole /\ (all => said[m] = 0)
    /\ Produce(<<Ev("chunk", IF all THEN "message" ELSE "messages", "root", m, 1)>>)
    /\ said' = [said EXCEPT ![m] = @ + 1]
    /\ whole' = IF all THEN whole \cup {m} ELSE whole
    /\ UNCHANGED known

\* The JavaScript server: a chunk is an event, and what has been said of the
\* message another one; a message in the values is complete, where the server can
\* tell the values of the run and finds them beside their mode.
RemoteSays(m) ==
    /\ remote
    /\ said' = [said EXCEPT ![m] = @ + 1]
    /\ known' = IF "messages" \in asked THEN [known EXCEPT ![m] = @ + 1] ELSE known
    /\ Produce(<<Ev("event", "on_chat_model_stream", "root", m, 0)>> \o
               (IF "messages" \notin asked THEN <<>>
                ELSE (IF known[m] = 0 THEN <<Ev("custom", "messages/metadata", "root", m, 0)>>
                      ELSE <<>>)
                     \o <<Ev("custom", "messages/partial", "root", m, known[m] + 1)>>)
               \o (IF "messages" \in StreamModes
                   THEN <<Ev("chunk", "messages", "root", m, 1)>> ELSE <<>>))
    /\ UNCHANGED whole

RemoteCompletes(m) ==
    /\ remote /\ "values" \in StreamModes /\ m \notin whole
    /\ whole' = whole \cup {m}
    /\ Produce(<<Ev("chunk", "values", "root", Checkpoint, 0)>> \o
               (IF "messages" \in asked /\ TakenApart /\ ~subgraphs
                THEN <<Ev("custom", "messages/complete", "root", m, 0)>> ELSE <<>>))
    /\ UNCHANGED <<known, said>>

\* Other events, where events are streamed.
GraphTraces ==
    /\ UsesEvents
    /\ Produce(<<Ev("event", "on_chain_start", "root", Checkpoint, 0)>>)
    /\ UNCHANGED <<whole, known, said>>

----------------------------------------------------------------------------
(* astream_state, and consume, which publishes what it yields.             *)

Begin ==
    /\ phase = "begin"
    /\ phase' = "streaming"
    /\ out' = Append(out, Pub("metadata", "root", Checkpoint, 0))
    /\ UNCHANGED <<given, attempt, graph, due, known>>

AsEvent(e) == IF "events" \in asked THEN <<Pub("events", "root", e.id, 0)>> ELSE <<>>

\* What is yielded for an event, given the messages known.
Yielded(e) ==
    CASE e.how = "custom" ->
            (IF "messages" \in asked THEN <<Pub(e.name, e.ns, e.id, e.n)>> ELSE <<>>)
            \o AsEvent(e)
      [] e.how = "event" \/ (e.how = "chunk" /\ ~TakenApart) -> AsEvent(e)
      [] e.how = "chunk" /\ TakenApart /\ e.name \in {"messages", "message"} ->
            IF "messages-tuple" \in asked THEN <<Pub("messages", e.ns, e.id, 1)>>
            ELSE (IF known[e.id] = 0 THEN <<Pub("messages/metadata", e.ns, e.id, 0)>> ELSE <<>>)
                 \o <<Pub(IF e.name = "messages" THEN "messages/partial" ELSE "messages/complete",
                          e.ns, e.id, known[e.id] + 1)>>
      [] e.how = "chunk" /\ TakenApart /\ e.name \in {"debug", "values"} ->
            IF e.name \in asked THEN <<Pub(e.name, e.ns, e.id, 0)>> ELSE <<>>

Accumulated(e) ==
    IF /\ e.how = "chunk" /\ TakenApart /\ e.name \in {"messages", "message"}
       /\ "messages-tuple" \notin asked
    THEN [known EXCEPT ![e.id] = @ + 1] ELSE known

\* Takes the next event.
NextOfAllModes ==                                                \* slip
    /\ phase = "streaming" /\ due # <<>>
    /\ LET e == Head(due)
       IN /\ out' = out \o (IF e.how = "chunk" /\ e.name \in StreamModes \cap {"debug", "values"}
                            THEN <<Pub(e.name, e.ns, e.id, 0)>> ELSE Yielded(e))
          /\ known' = Accumulated(e)
    /\ due' = Tail(due)
    /\ UNCHANGED <<given, phase, attempt, graph>>

NextEvent ==
    /\ phase = "streaming" /\ due # <<>>
    /\ LET e == Head(due)
       IN /\ out' = out \o Yielded(e)
          /\ known' = Accumulated(e)
    /\ due' = Tail(due)
    /\ UNCHANGED <<given, phase, attempt, graph>>

\* The graph has ended; feedback URLs are published last.
End(feedback) ==
    /\ phase = "streaming" /\ due = <<>>
    /\ phase' = "over"
    /\ out' = IF feedback THEN Append(out, Pub("feedback", "root", Checkpoint, 0)) ELSE out
    /\ UNCHANGED <<given, attempt, graph, due, known>>

\* The graph fails, or wait_if_not_done raises what the run was asked to do;
\* what the graph had produced is dropped.
Fail ==
    /\ phase = "streaming"
    /\ phase' = "over" /\ due' = <<>>
    /\ out' = Append(out, Pub("error", "root", Checkpoint, 0))
    /\ UNCHANGED <<given, attempt, graph, known>>

\* The next attempt: a new astream_state, which knows no message.
Retry ==
    /\ phase = "over" /\ attempt < MaxAttempts
    /\ phase' = "begin" /\ attempt' = attempt + 1
    /\ known' = Fresh /\ said' = Fresh /\ whole' = {}
    /\ UNCHANGED <<given, steps, due, out>>

Next ==
    \/ \E mode \in {"debug", "values"}, ns \in Namespaces : GraphSteps(mode, ns)
    \/ \E m \in Messages, all \in BOOLEAN : GraphSays(m, all)
    \/ \E m \in Messages : RemoteSays(m)
    \/ \E m \in Messages : RemoteCompletes(m)
    \/ GraphTraces
    \/ Begin
    \/ NextEvent
    \/ \E f \in BOOLEAN : End(f)
    \/ Fail
    \/ Retry

Spec == Init /\ [][Next]_vars

----------------------------------------------------------------------------
(* Properties.                                                             *)

\* The event names that belong to a mode.
NamesOf(mode) ==
    CASE mode = "messages" -> {"messages/metadata", "messages/partial", "messages/complete"}
      [] mode = "messages-tuple" -> {"messages"}
      [] OTHER -> {mode}
Always == {"metadata", "error", "feedback"}

\* A run publishes only what its request asked for, although the graph is asked
\* for more; a retry that streams events only events, and what a JavaScript server
\* has put together of messages.
Retried == {"events"} \cup (IF remote THEN {"messages/metadata", "messages/partial"} ELSE {})
OnlyAsked ==
    \A i \in 1..Len(out) :
        /\ out[i].name \in Always \cup UNION {NamesOf(mode) : mode \in asked}
        /\ UsesEvents /\ out[i].attempt > 1 => out[i].name \in Always \cup Retried

\* Messages add up: in each attempt the partials of a message have one chunk, two
\* and so on, and come after its metadata, which is published once.
Same(i, j)  == out[i].id = out[j].id /\ out[i].attempt = out[j].attempt
Partial(i)  == out[i].name = "messages/partial"
Metadata(i) == out[i].name = "messages/metadata"
MessagesAddUp ==
    \A i \in 1..Len(out) :
        LET before == {j \in 1..(i - 1) : Same(i, j)}
        IN /\ Partial(i) =>
                /\ out[i].n = 1 \/ \E j \in before : Partial(j) /\ out[j].n = out[i].n - 1
                /\ \A j \in before : Partial(j) => out[j].n < out[i].n
                /\ \E j \in before : Metadata(j)
           /\ Metadata(i) => \A j \in before : ~Metadata(j)

\* Who asked for messages, put together, has of every attempt those that its graph has
\* said, as soon as astream_state has taken what was produced, and of a retry of a
\* Python graph whose events are streamed none.
MessagesReach ==
    (/\ phase = "streaming" /\ due = <<>>
     /\ "messages" \in asked /\ (remote \/ "messages-tuple" \notin asked)) =>
        \A m \in Messages :
            (\E i \in 1..Len(out) : Metadata(i) /\ out[i].id = m /\ out[i].attempt = attempt)
               <=> said[m] > 0 /\ (remote \/ TakenApart)

EmitsWhatIsAsked == OnlyAsked /\ MessagesAddUp /\ MessagesReach
=============================================================================
