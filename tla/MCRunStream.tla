---------------------------- MODULE MCRunStream ----------------------------
(***************************************************************************)
(* What becomes of a run on its way to a client: machines that share no    *)
(* state, each checked by itself.  Its stream (RunStream), with the client *)
(* that created it and one that joins by URL; what an attempt comes to     *)
(* (Execution) and publishes (Emission); the stream of events that answers *)
(* a call (EventStream), the answer of a call that waits (WaitResponse) and*)
(* the code of every answer (Answers).  The choice is made in the first    *)
(* state.                                                                  *)
(***************************************************************************)
EXTENDS RunStream

CONSTANTS
    creator, joiner,
    MaxAttempts,
    Streams, Messages, Checkpoint, MaxSteps,
    MaxEvents, MaxBeats, MaxRaw,
    Stateless,
    Requests, Works, MaxVersions

OneCreator == {creator}
OneJoiner  == {joiner}

VARIABLES
    mode,
    graph, number, keyed, at, resource, signal, expired, stopping, raised, exhausted,
    yielded, told, last,
    asked, remote, subgraphs, phase, try, steps, due, whole, known, said, out,
    style, sent, beats, wire, line, buffer, trailing, event, data, parts, text, lines,
    value, woken, consumer, body, answer, late,
    registered, versions, thread, jobs, call, right, wrote

attempts == <<graph, number, keyed, at, resource, signal, expired, stopping, raised,
              exhausted, yielded, told, last>>
emits  == <<asked, remote, subgraphs, phase, try, steps, due, whole, known, said, out>>
events == <<style, sent, beats, wire, line, buffer, trailing, event, data, parts, text, lines>>
waits  == <<value, woken, consumer, body, answer, late>>
calls  == <<registered, versions, thread, jobs, call, right, wrote>>
allVars == <<mode, vars, attempts, emits, events, waits, calls>>

\* The modes of a stream, alone and where they meet.
Considered == {{"values"}, {"debug", "values"}, {"messages"}, {"messages-tuple"},
               {"messages", "messages-tuple"}, {"events"}, {"events", "messages"}}

X == INSTANCE Execution WITH published <- told
M == INSTANCE Emission WITH attempt <- try, Requested <- Streams
E == INSTANCE EventStream
W == INSTANCE WaitResponse
A == INSTANCE Answers WITH work <- jobs

ASSUME ExecutionAssumed == X!ExecutionAssumption
ASSUME EmissionAssumed == M!EmissionAssumption
ASSUME EventStreamAssumed == E!StreamAssumption
ASSUME AnswersAssumed == A!AnswersAssumption

MCInit ==
    /\ mode \in {"stream", "execution", "emission", "events", "waiting", "answers"}
    /\ Init /\ X!Init /\ M!Init /\ E!Init /\ W!Init /\ A!Init
    \* the machines that are not run begin in one state
    /\ mode # "execution" => graph = "registered" /\ number = 1 /\ ~keyed
    /\ mode # "emission" => asked = (CHOOSE s \in Streams : TRUE) /\ ~remote /\ ~subgraphs
    /\ mode # "events" => style = "raw"
    /\ mode # "answers" => registered = "fine" /\ versions = {} /\ thread = "gone"

MCNext ==
    \/ /\ mode = "stream" /\ Next
       /\ UNCHANGED <<mode, attempts, emits, events, waits, calls>>
    \/ /\ mode = "execution" /\ X!Next
       /\ UNCHANGED <<mode, vars, emits, events, waits, calls>>
    \/ /\ mode = "emission" /\ M!Next
       /\ UNCHANGED <<mode, vars, attempts, events, waits, calls>>
    \/ /\ mode = "events" /\ E!Next
       /\ UNCHANGED <<mode, vars, attempts, emits, waits, calls>>
    \/ /\ mode = "waiting" /\ W!Next
       /\ UNCHANGED <<mode, vars, attempts, emits, events, calls>>
    \/ /\ mode = "answers" /\ A!Next
       /\ UNCHANGED <<mode, vars, attempts, emits, events, waits>>

MCSpec == MCInit /\ [][MCNext]_allVars /\ (mode = "stream" => Fairness)

\* Stated in RunStream, whose fairness is assumed when it is run.
AllReadersLeave == mode = "stream" => ReadersLeave
\* Stated in Execution.
OutcomeIsTrue == X!OutcomeIsTrue
Released == X!Released
\* Stated in Emission.
EmitsWhatIsAsked == M!EmitsWhatIsAsked
\* Stated in EventStream.
AsSplitlines == E!AsSplitlines
PartsAreEvents == E!PartsAreEvents
\* Stated in WaitResponse.
NotForgotten == W!NotForgotten
\* Stated in Answers.
AnswersAreTrue == A!AnswersAreTrue
=============================================================================
