---------------------------- MODULE WaitResponse ----------------------------
(***************************************************************************)
(* One call of wait_run or wait_run_stateless (api/runs.py): a task that   *)
(* reads the stream of the run and sets the ValueEvent last_chunk, and the *)
(* body of the response that waits for the event and sends a newline every *)
(* five seconds meanwhile.  ValueEvent is the one of asyncio.py: its value *)
(* is its flag, so who comes after a value that is false in Python waits   *)
(* although it was set.  When the task raises nothing sets the event, and  *)
(* the body sends newlines until the client leaves.                        *)
(***************************************************************************)

CONSTANT Stateless   \* BOOLEAN: whether the thread is deleted with the run

VARIABLES
    value,     \* last_chunk._value
    woken,     \* what set() handed to the body waiting at that time
    consumer,  \* the task consume()
    body,      \* the generator body()
    answer,    \* what the body has sent as the result
    late       \* history: set() came while a newline was being sent

vars == <<value, woken, consumer, body, answer, late>>

\* A chunk of the stream, or {} for a thread that is not there; or the values
\* of a thread that has none: b"" from Runs.put, None from Threads.put.
Result  == {"chunk", "empty"}
IsTrue(v) == v = "chunk"

Init ==
    /\ value = "unset"
    /\ woken = "no"
    /\ consumer = "reading"
    /\ body = "waiting"
    /\ answer = "none"
    /\ late = FALSE

\* ValueEvent.set: a true value stays, and only who waits now is woken.
SetEvent(v) ==
    /\ value' = IF IsTrue(value) THEN value ELSE v
    /\ woken' = IF body = "waiting" /\ ~IsTrue(value) THEN v ELSE woken
    /\ late' = (body = "beating")

\* The join is over.  Without a chunk of values the thread's are taken; it has
\* none when the run was cancelled before its first step.
ReadAll(v) ==
    /\ consumer = "reading"
    /\ Stateless => v = "chunk"
    /\ consumer' = "ended"
    /\ SetEvent(v)
    /\ UNCHANGED <<body, answer>>

\* Threads.get finds no thread, a look at the run or an auth handler fails, or an
\* error chunk is no JSON.
ReadRaises ==
    /\ consumer = "reading"
    /\ consumer' = "failed"
    /\ UNCHANGED <<value, woken, body, answer, late>>

WaitBlind == body' = "waiting"                                   \* slip

\* ValueEvent.wait returns at once when the value is true.
Wait == body' = (IF IsTrue(value) THEN "answered" ELSE "waiting")

Beat ==
    /\ body = "waiting" /\ woken = "no"
    /\ body' = "beating"
    /\ UNCHANGED <<value, woken, consumer, answer, late>>

BeatSent ==
    /\ body = "beating"
    /\ Wait
    /\ answer' = IF IsTrue(value) THEN value ELSE answer
    /\ UNCHANGED <<value, woken, consumer, late>>

Answer ==
    /\ body = "waiting" /\ woken # "no"
    /\ body' = "answered"
    /\ answer' = woken
    /\ UNCHANGED <<value, woken, consumer, late>>

\* A cancellation in wait_for cancels the consumer; while a newline is being
\* sent it does not reach the generator, and the consumer reads on.
Disconnect ==
    /\ body \in {"waiting", "beating"}
    /\ body' = "gone"
    /\ consumer' = IF body = "waiting" /\ consumer = "reading" THEN "cancelled"
                   ELSE consumer
    /\ UNCHANGED <<value, woken, answer, late>>

Next ==
    \/ \E v \in Result : ReadAll(v)
    \/ ReadRaises
    \/ Beat
    \/ BeatSent
    \/ Answer
    \/ Disconnect

Spec == Init /\ [][Next]_vars

\* A result that arrives while a newline is being sent wakes nobody: the body sees
\* it when it waits again, unless it is false.  A body that waits and was not woken
\* waits for a task that is still reading, for one that has raised, or in vain for
\* the empty values of a thread that came at such a moment; never with a chunk there.
NotForgotten ==
    body = "waiting" /\ woken = "no" =>
        /\ consumer \in {"reading", "failed"} \/ (value = "empty" /\ late)
        /\ ~IsTrue(value)

=============================================================================
