----------------------------- MODULE RunStream -----------------------------
(***************************************************************************)
(* The stream of one run: the queues of langgraph_storage/inmem_stream.py, *)
(* what the worker publishes (stream.py consume, Runs.Stream.publish, the  *)
(* exit of Runs.enter) and the clients that read it (Runs.Stream.subscribe *)
(* and join, api/runs.py stream_run and the joins by URL).                 *)
(*                                                                         *)
(* Chunks are numbered in the order of publication.  Control messages      *)
(* other than "done" are ignored by every reader and left out.  put hands  *)
(* a message to all queues of the run before its caller goes on, so it is  *)
(* one step.  It would also keep, for who subscribes later, a stream event *)
(* with "control" in its name (a subgraph's namespace); there are none     *)
(* here.  As in RunLifecycle, a "slip" is a wrong version of the           *)
(* operator after it, kept to show that the properties notice.             *)
(***************************************************************************)
EXTENDS Naturals, Sequences

CONSTANTS
    Creators,    \* clients of stream_run or wait_run: subscribed from the start
    Joiners,     \* clients that join by URL at any time
    MaxChunks,   \* bound: chunks published over all attempts
    MaxRetries   \* BG_JOB_MAX_RETRIES

Readers == Creators \cup Joiners

ASSUME ReaderAssumption == Creators \cap Joiners = {}
ASSUME BoundsAssumption == MaxChunks \in Nat /\ MaxRetries \in Nat

VARIABLES
    status,     \* the status column of the run
    attempt,    \* its retry counter
    worker,     \* where its worker stands
    outcome,    \* how the stream of the graph ended
    published,  \* the number of the last chunk published
    done,       \* whether control_queues[run] holds "done"
    queue,      \* the queue of each reader
    listed,     \* the readers whose queue the stream manager holds
    reader,     \* where each reader stands
    read,       \* the number of the last chunk each reader has got
    stopped     \* history: a client has cancelled or deleted the run

work    == <<status, attempt, worker, outcome>>
clients == <<queue, listed, reader, read>>
vars    == <<status, attempt, worker, outcome, published, done, queue, listed,
             reader, read, stopped>>

Done == 0     \* the control message; chunks are numbered from 1

Live    == {"pending", "running"}
Status  == Live \cup {"interrupted", "final", "gone"}
Worker  == {"none", "streaming", "ending", "closing"}
Outcome == {"final", "interrupted", "retry"}
\* "left": join() returned by itself; "away": the client disconnected.
Reader  == {"new", "waiting", "left", "away"}

Subscribed == {j \in Readers : reader[j] # "new"}

Init ==
    /\ status = "pending"
    /\ attempt = 0
    /\ worker = "none"
    /\ outcome = "final"
    /\ published = 0
    /\ done = FALSE
    /\ queue = [j \in Readers |-> <<>>]
    /\ listed = Creators
    /\ reader = [j \in Readers |-> IF j \in Creators THEN "waiting" ELSE "new"]
    /\ read = [j \in Readers |-> 0]
    /\ stopped = FALSE

\* StreamManager.put
Put(message) ==
    queue' = [j \in Readers |-> IF j \in listed THEN Append(queue[j], message)
                                ELSE queue[j]]

----------------------------------------------------------------------------
(* The worker.                                                             *)

Start ==
    /\ status = "pending"
    /\ worker = "none"
    /\ status' = "running"
    /\ attempt' = attempt + 1
    /\ worker' = IF attempt' > MaxRetries THEN "ending" ELSE "streaming"
    /\ outcome' = "final"
    /\ UNCHANGED <<published, done, clients, stopped>>

\* A chunk of the graph, or the error event consume publishes last.
Publish ==
    /\ worker = "streaming"
    /\ published < MaxChunks
    /\ published' = published + 1
    /\ Put(published')
    /\ UNCHANGED <<work, done, listed, reader, read, stopped>>

\* The stream is over; the worker logs before it writes anything.
End(how) ==
    /\ worker = "streaming"
    /\ how = "interrupted" => stopped
    /\ worker' = "ending"
    /\ outcome' = how
    /\ UNCHANGED <<status, attempt, published, done, clients, stopped>>

\* UserRollback: the run is deleted before the log.
RollBack ==
    /\ worker = "streaming"
    /\ stopped
    /\ worker' = "ending"
    /\ outcome' = "final"
    /\ status' = "gone"
    /\ UNCHANGED <<attempt, published, done, clients, stopped>>

Written(value) == IF status = "gone" THEN "gone" ELSE value

\* Runs.set_status, and the raise of a retriable exception.
Write ==
    /\ worker = "ending"
    /\ IF outcome = "retry"
       THEN status' = Written("pending") /\ worker' = "none"
       ELSE status' = Written(outcome) /\ worker' = "closing"
    /\ UNCHANGED <<attempt, outcome, published, done, clients, stopped>>

\* The exit of Runs.enter: "done" is kept for late subscribers and sent.
Announce ==
    /\ worker = "closing"
    /\ worker' = "none"
    /\ done' = TRUE
    /\ Put(Done)
    /\ UNCHANGED <<status, attempt, outcome, published, listed, reader, read,
                   stopped>>

\* The thread of a stateless run is deleted already: Threads.delete raises in the worker,
\* and Runs.enter is left without a "done".
Vanish ==
    /\ worker = "closing"
    /\ status = "gone"
    /\ worker' = "none"
    /\ UNCHANGED <<status, attempt, outcome, published, done, clients, stopped>>

----------------------------------------------------------------------------
(* The clients.                                                            *)

\* Runs.cancel marks a live run at once; the worker hears of it later.
Cancel ==
    /\ status \in Live
    /\ status' = "interrupted"
    /\ stopped' = TRUE
    /\ UNCHANGED <<attempt, worker, outcome, published, done, clients>>

Delete ==
    /\ status # "gone"
    /\ status' = "gone"
    /\ stopped' = TRUE
    /\ UNCHANGED <<attempt, worker, outcome, published, done, clients>>

\* Runs.Stream.subscribe: the stored "done", then what is published from now.
Join(j) ==
    /\ reader[j] = "new"
    /\ reader' = [reader EXCEPT ![j] = "waiting"]
    /\ listed' = listed \cup {j}
    /\ queue' = [queue EXCEPT ![j] = IF done THEN <<Done>> ELSE <<>>]
    /\ read' = [read EXCEPT ![j] = published]
    /\ UNCHANGED <<work, published, done, stopped>>

ReceiveNewest(j) ==                                              \* slip
    /\ reader[j] = "waiting"
    /\ queue[j] # <<>> /\ queue[j][Len(queue[j])] # Done
    /\ read' = [read EXCEPT ![j] = queue[j][Len(queue[j])]]
    /\ queue' = [queue EXCEPT ![j] = SubSeq(@, 1, Len(@) - 1)]
    /\ UNCHANGED <<work, published, done, listed, reader, stopped>>

Receive(j) ==
    /\ reader[j] = "waiting"
    /\ queue[j] # <<>> /\ Head(queue[j]) # Done
    /\ read' = [read EXCEPT ![j] = Head(queue[j])]
    /\ queue' = [queue EXCEPT ![j] = Tail(@)]
    /\ UNCHANGED <<work, published, done, listed, reader, stopped>>

\* join() is left; its queue goes.  A join by URL passes the run id as a
\* string and does not find its queue, which is listed under the UUID.
Quit(j, how) ==
    /\ reader' = [reader EXCEPT ![j] = how]
    /\ listed' = IF j \in Joiners THEN listed ELSE listed \ {j}
    /\ queue' = [queue EXCEPT ![j] = IF j \in Joiners THEN @ ELSE <<>>]
    /\ UNCHANGED <<work, published, done, read, stopped>>

HearDone(j) ==
    /\ reader[j] = "waiting"
    /\ queue[j] # <<>> /\ Head(queue[j]) = Done
    /\ Quit(j, "left")

TimeOutUnlessGone(j) ==                                          \* slip
    /\ reader[j] = "waiting" /\ queue[j] = <<>>
    /\ status \notin Live \cup {"gone"}
    /\ Quit(j, "left")

\* 0.5 seconds without a message: the reader looks at the run and leaves when
\* it is missing or no longer in flight.
TimeOut(j) ==
    /\ reader[j] = "waiting"
    /\ queue[j] = <<>>
    /\ status \notin Live
    /\ Quit(j, "left")

Disconnect(j) ==
    /\ reader[j] = "waiting"
    /\ Quit(j, "away")

----------------------------------------------------------------------------
WorkerStep ==
    \/ Start
    \/ Publish
    \/ \E how \in Outcome : End(how)
    \/ RollBack
    \/ Write
    \/ Announce
    \/ Vanish

Reading(j) == Receive(j) \/ HearDone(j) \/ TimeOut(j)

Next ==
    \/ WorkerStep
    \/ Cancel
    \/ Delete
    \/ \E j \in Joiners : Join(j)
    \/ \E j \in Readers : Reading(j) \/ Disconnect(j)

Spec == Init /\ [][Next]_vars

(* The run is claimed and executed (RunLifecycle), a graph ends or is      *)
(* ended by BG_JOB_TIMEOUT_SECS, and a connected client is served.         *)
Fairness ==
    /\ WF_vars(WorkerStep)
    /\ \A j \in Readers : WF_vars(Reading(j))

FairSpec == Spec /\ Fairness

----------------------------------------------------------------------------
(* Properties.                                                             *)

\* Every variable has its type.
TypeOK ==
    /\ status \in Status
    /\ attempt \in Nat
    /\ worker \in Worker
    /\ outcome \in Outcome
    /\ published \in 0..MaxChunks
    /\ done \in BOOLEAN
    /\ queue \in [Readers -> Seq(0..MaxChunks)]
    /\ listed \in SUBSET Readers
    /\ reader \in [Readers -> Reader]
    /\ read \in [Readers -> 0..MaxChunks]
    /\ stopped \in BOOLEAN

\* A reader that leaves by itself, because of "done" or because the run is no
\* longer in flight, has got every chunk since it subscribed, also across
\* retries, and nothing is published afterwards; unless the run was stopped.
LeavesWithEverything ==
    \A j \in Readers :
        (reader[j] = "left" /\ ~stopped)
            => read[j] = published /\ worker \in {"closing", "none"}

\* Chunks reach a reader in the order of publication, none twice, none left out.
NoGap ==
    [][\A j \in Readers :
          reader[j] = "waiting" => read'[j] \in {read[j], read[j] + 1}]_vars

\* A reader is told "done" only when the run has left the queue for good.
DoneIsTrue ==
    \A j \in Readers :
        (\E i \in 1..Len(queue[j]) : queue[j][i] = Done)
            => status \notin Live /\ worker = "none"

\* The log is closed when the worker has written the end of the run, or there
\* is none to write it.
Settled == status \notin Live /\ worker \in {"closing", "none"}
PlaceOf == [j \in Readers |-> IF reader[j] = "waiting" THEN "reading" ELSE reader[j]]

Log == INSTANCE ChunkLog WITH
    Early <- Creators, length <- published, closed <- Settled, halted <- stopped,
    place <- PlaceOf, position <- read

\* Queues, "done" and time-outs together implement ChunkLog: each reader takes
\* the chunks of all attempts one by one, in order, from where it subscribed,
\* and leaves at the end.
ReadsTheLog == Log!Spec

\* Nobody waits for ever for a run: it is over, failed, retried to the limit,
\* cancelled or deleted, and its readers leave.
ReadersLeave == \A j \in Readers : reader[j] = "waiting" ~> reader[j] # "waiting"

=============================================================================
