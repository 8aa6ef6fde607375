------------------------------ MODULE Metering ------------------------------
(***************************************************************************)
(* The usage reports of langgraph_api/metadata.py: the counter the workers *)
(* raise, the loop that submits it with the window it was raised in, and   *)
(* the request with its retries (langgraph_api/http.py).  RUN_COUNTER and  *)
(* NODE_COUNTER are treated alike; one stands for both.  The log entries   *)
(* of a report are lost when it fails; no property is about them.          *)
(***************************************************************************)
EXTENDS Naturals

CONSTANTS
    MaxRuns,    \* bound: runs counted while a process lives
    MaxClock,   \* bound: moments told apart
    MaxTries    \* stop_after_attempt: requests for one submission

ASSUME MeteringAssumption ==
    /\ MaxRuns \in Nat
    /\ MaxClock \in Nat
    /\ MaxTries \in Nat \ {0}

VARIABLES
    clock,     \* the time
    counter,   \* RUN_COUNTER
    from,      \* FROM_TIMESTAMP
    moments,   \* history: when the runs behind counter were counted
    loop,      \* where metadata_loop stands
    report,    \* the payload it has in flight
    tries,     \* the request it is at
    started,   \* history: runs the process has counted
    accepted,  \* history: runs in the reports that were accepted
    upto       \* history: where the last accepted report ends

meter == <<clock, counter, from, moments, loop, report, tries, started, accepted, upto>>

Loop     == {"off", "asleep", "sending"}
Moments  == 0..MaxClock
Report   == [runs : 0..MaxRuns, from : Moments, to : Moments, moments : SUBSET Moments]
NoReport == [runs |-> 0, from |-> 0, to |-> 0, moments |-> {}]
Sending  == loop = "sending"

\* The module is imported: nothing is counted, the window begins now.
MeteringInit ==
    /\ clock = 0 /\ counter = 0 /\ from = 0 /\ moments = {}
    /\ loop = "off" /\ report = NoReport /\ tries = 0
    /\ started = 0 /\ accepted = 0 /\ upto = 0

Forget ==
    /\ counter' = 0 /\ moments' = {} /\ started' = 0 /\ accepted' = 0
    /\ from' = clock /\ upto' = clock
    /\ loop' = "off" /\ report' = NoReport /\ tries' = 0
    /\ UNCHANGED clock

Tick == /\ clock < MaxClock
        /\ clock' = clock + 1
        /\ UNCHANGED <<counter, from, moments, loop, report, tries, started, accepted, upto>>

\* A worker begins a run (incr_runs).
Count ==
    /\ started < MaxRuns
    /\ started' = started + 1
    /\ counter' = counter + 1
    /\ moments' = moments \cup {clock}
    /\ UNCHANGED <<clock, from, loop, report, tries, accepted, upto>>

CollectLate ==                                                   \* slip
    /\ loop = "asleep"
    /\ report' = [runs |-> counter, from |-> from, to |-> clock, moments |-> moments]
    /\ counter' = counter /\ moments' = moments /\ from' = clock
    /\ loop' = "sending" /\ tries' = 1
    /\ UNCHANGED <<clock, started, accepted, upto>>

\* One turn of the loop up to its request, without an await: what was
\* counted goes into the report and a new window begins.
Collect ==
    /\ loop = "asleep"
    /\ report' = [runs |-> counter, from |-> from, to |-> clock, moments |-> moments]
    /\ counter' = 0
    /\ moments' = {}
    /\ from' = clock
    /\ loop' = "sending"
    /\ tries' = 1
    /\ UNCHANGED <<clock, started, accepted, upto>>

Sleep == loop' = "asleep" /\ report' = NoReport /\ tries' = 0

\* The endpoint answers with success.
Accept ==
    /\ Sending
    /\ Sleep
    /\ accepted' = accepted + report.runs
    /\ upto' = report.to
    /\ UNCHANGED <<clock, counter, from, moments, started>>

\* retry_http: an answer from 500 on is tried again, MaxTries requests in all.
TryAgain ==
    /\ Sending
    /\ tries < MaxTries
    /\ tries' = tries + 1
    /\ UNCHANGED <<clock, counter, from, moments, loop, report, started, accepted, upto>>

\* The last request, or one that fails in another way, also after the
\* endpoint has read it: "retry on next iteration".
PutBack ==
    /\ Sending
    /\ Sleep
    /\ counter' = counter + report.runs
    /\ moments' = moments \cup report.moments
    /\ from' = report.from
    /\ UNCHANGED <<clock, started, accepted, upto>>

Submit == Collect \/ Accept \/ TryAgain \/ PutBack

----------------------------------------------------------------------------
(* Properties.                                                             *)

MeteringTypes ==
    /\ clock \in Moments /\ from \in Moments /\ upto \in Moments
    /\ moments \subseteq Moments
    /\ counter \in 0..MaxRuns /\ started \in 0..MaxRuns /\ accepted \in 0..MaxRuns
    /\ loop \in Loop
    /\ report \in Report
    /\ tries \in 0..MaxTries

\* Every run the process has counted is in the counter, in the report in
\* flight or in one accepted report, whatever requests fail and whatever is
\* counted meanwhile (metadata_loop reads and resets without an await).
Reported == started = counter + report.runs + accepted

\* Accepted reports leave no gap and do not overlap, and the window of each
\* holds the moments of its runs: a failed report gives its window back.
Windowed ==
    /\ upto = IF Sending THEN report.from ELSE from
    /\ Sending => report.to = from
    /\ moments \subseteq from..clock
    /\ report.moments \subseteq report.from..report.to

=============================================================================
