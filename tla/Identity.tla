------------------------------ MODULE Identity ------------------------------
(***************************************************************************)
(* Whose work it is (auth/, route.py, utils.py, worker.py).  A request is  *)
(* authenticated once, its handler runs with the user in a context         *)
(* variable of its task, and a run it creates keeps the user in its row.   *)
(* The worker of the run, a task of its own, sets the variable from the    *)
(* row; calls its graph makes to the server come in by a transport that    *)
(* skips authentication and run in the worker's context (at worst, a copy  *)
(* of it), so that a handler finds the variable set, sets it again and     *)
(* leaves it as it was, or does not when it fails.  When the graph has     *)
(* ended, the worker gives the run its status, or deletes it, still as the *)
(* user, whom it drops before it writes or deletes the thread.             *)
(***************************************************************************)
EXTENDS Naturals, Sequences

CONSTANTS
    People,     \* who can have valid credentials
    Incoming,   \* requests of clients
    Jobs,       \* runs
    Studio,     \* the user of the studio
    Anonymous,  \* the user without identity
    NoUser,     \* the context variable is not set
    MaxTries,   \* attempts to reach the service that verifies: 3
    MaxDepth    \* bound: calls of a graph within each other

Identities == People \cup {Studio, Anonymous}

IdentityAssumption ==
    /\ NoUser \notin Identities /\ Anonymous \notin People /\ Studio \notin People
    /\ Incoming \cap Jobs = {}
    /\ MaxTries \in Nat \ {0} /\ MaxDepth \in Nat

VARIABLES
    backend,   \* LANGGRAPH_AUTH, or LANGGRAPH_AUTH_TYPE
    handler,   \* the custom handler
    studio,    \* what authenticates the studio beside a custom handler, or "no"
    request,   \* a request: where it is, its credentials, its user, its answer
    context,   \* AuthContext in each task
    held,      \* what the calls of with_user in each task have found, innermost last
    job        \* the rows of the runs, and who asked for them

settings == <<backend, handler, studio>>
vars == <<settings, request, context, held, job>>

Tasks == Incoming \cup Jobs
NewRequest == [at |-> "new", by |-> "nothing", scheme |-> "none", tries |-> 0,
               user |-> NoUser, answer |-> "none"]
NoJob == [at |-> "none", user |-> NoUser, asker |-> NoUser]

Backends == {"noop", "langsmith", "custom"}

\* A custom handler is a coroutine function or a plain one, and parameters of it may
\* be FastAPI dependencies, of the one kind or the other.
Handlers == [awaited : BOOLEAN, needs : {"nothing", "awaited", "plain"}]

\* decorator awaits the handler, plain or not, and a dependency is awaited if the
\* handler is a coroutine function.
CanRun(h) == h.needs = "nothing" \/ (h.awaited /\ h.needs = "awaited")

Init ==
    /\ backend \in Backends
    /\ handler \in (IF backend = "custom" THEN Handlers
                    ELSE {[awaited |-> TRUE, needs |-> "nothing"]})
    /\ studio \in (IF backend = "custom" THEN {"no", "noop", "langsmith"} ELSE {"no"})
    /\ request = [q \in Incoming |-> NewRequest]
    /\ context = [t \in Tasks |-> NoUser]
    /\ held = [t \in Tasks |-> <<>>]
    /\ job = [r \in Jobs |-> NoJob]

----------------------------------------------------------------------------
(* Authentication.                                                         *)

\* A request with credentials, or with "nothing", or with "wrong" ones.
Arrive(q, by, scheme) ==
    /\ request[q].at = "new"
    /\ request' = [request EXCEPT ![q] = [@ EXCEPT !.at = "verifying", !.by = by,
                                                    !.scheme = scheme]]
    /\ UNCHANGED <<settings, context, held, job>>

Admit(q, u) ==
    /\ request' = [request EXCEPT ![q] = [@ EXCEPT !.at = "admitted", !.user = u]]
    /\ UNCHANGED <<settings, context, held, job>>
Turn(q, code) ==
    /\ request' = [request EXCEPT ![q] = [@ EXCEPT !.at = "answered", !.answer = code]]
    /\ UNCHANGED <<settings, context, held, job>>

\* Which backend speaks: a request of the studio, which says so in a header, is not
\* put to the custom handler.
Backend(q) ==
    IF backend = "custom" /\ studio # "no" /\ request[q].scheme = "langsmith"
    THEN IF studio = "noop" THEN "studio" ELSE "langsmith"
    ELSE backend

\* NoopAuthBackend and StudioNoopAuthBackend.
VerifyNobody(q) ==
    /\ request[q].at = "verifying"
    /\ \/ Backend(q) = "noop" /\ Admit(q, Anonymous)
       \/ Backend(q) = "studio" /\ Admit(q, Studio)

\* CustomAuthBackend: the handler returns a user, refuses with an error of its own or
\* an assertion, or fails, which is a refusal too; so does one that cannot run.
VerifyCustom(q) ==
    /\ request[q].at = "verifying" /\ Backend(q) = "custom"
    /\ \/ request[q].by \in People /\ CanRun(handler) /\ Admit(q, request[q].by)
       \/ request[q].by \notin People /\ \E code \in {"401", "403"} : Turn(q, code)
       \/ Turn(q, "401")

\* LangsmithAuthBackend, without headers.
VerifyMissing(q) ==
    /\ request[q].at = "verifying" /\ Backend(q) = "langsmith"
    /\ request[q].by = "nothing"
    /\ Turn(q, "403")

\* It asks the service: the answer is looked at outside the retries, which therefore
\* repeat only what did not come through.
VerifyAnswered(q) ==
    /\ request[q].at = "verifying" /\ Backend(q) = "langsmith"
    /\ request[q].by # "nothing"
    /\ \/ request[q].by \in People /\ Admit(q, request[q].by)
       \/ request[q].by = "wrong" /\ Turn(q, "403")
       \/ Turn(q, "500")

VerifyUnreachable(q) ==
    /\ request[q].at = "verifying" /\ Backend(q) = "langsmith"
    /\ request[q].by # "nothing"
    /\ IF request[q].tries + 1 = MaxTries THEN Turn(q, "500")
       ELSE /\ request' = [request EXCEPT ![q].tries = @ + 1]
            /\ UNCHANGED <<settings, context, held, job>>

----------------------------------------------------------------------------
(* Handlers.                                                               *)

\* with_user: entered, left, and left by an exception, which skips what comes after
\* the yield.
EnterAs(t, u) ==
    /\ held' = [held EXCEPT ![t] = Append(@, context[t])]
    /\ context' = [context EXCEPT ![t] = u]
Found(t) == held[t][Len(held[t])]
Leave(t) ==
    /\ held' = [held EXCEPT ![t] = SubSeq(@, 1, Len(@) - 1)]
    /\ context' = [context EXCEPT ![t] = IF Found(t) = NoUser THEN @ ELSE Found(t)]
LeaveByException(t) ==
    /\ held' = [held EXCEPT ![t] = SubSeq(@, 1, Len(@) - 1)]
    /\ UNCHANGED context

\* ApiRoute.handle takes the context it finds, or the user of the request.
HandleAsRequester(t, u) == EnterAs(t, u)                         \* slip

HandleAs(t, u) == EnterAs(t, IF context[t] # NoUser THEN context[t] ELSE u)

Handle(q) ==
    /\ request[q].at = "admitted"
    /\ HandleAs(q, request[q].user)
    /\ request' = [request EXCEPT ![q].at = "handling"]
    /\ UNCHANGED <<settings, job>>

\* create_valid_run in task t: the user goes into the row.
CreateIn(t, r, asker) ==
    /\ job[r].at = "none"
    /\ job' = [job EXCEPT ![r] = [at |-> "pending", user |-> context[t], asker |-> asker]]
    /\ UNCHANGED <<settings, request, context, held>>

Create(q, r) == request[q].at = "handling" /\ CreateIn(q, r, request[q].user)

Respond(q) ==
    /\ request[q].at = "handling"
    /\ request' = [request EXCEPT ![q].at = "answered", ![q].answer = "200"]
    /\ Leave(q)
    /\ UNCHANGED <<settings, job>>

HandlerFails(q) ==
    /\ request[q].at = "handling"
    /\ request' = [request EXCEPT ![q].at = "answered", ![q].answer = "500"]
    /\ LeaveByException(q)
    /\ UNCHANGED <<settings, job>>

----------------------------------------------------------------------------
(* Workers.                                                                *)

\* set_auth_ctx_for_run; a row without a user leaves the context alone.
Begin(r) ==
    /\ job[r].at = "pending"
    /\ job' = [job EXCEPT ![r].at = "executing"]
    /\ IF job[r].user = NoUser THEN UNCHANGED <<context, held>> ELSE EnterAs(r, job[r].user)
    /\ UNCHANGED <<settings, request>>

\* How many calls of the graph are within each other.
Depth(r) == Len(held[r]) - (IF job[r].user = NoUser THEN 0 ELSE 1)

\* The graph calls the server through get_loopback_client; nobody has put a user
\* into the scope.
CallServer(r) ==
    /\ job[r].at = "executing" /\ Depth(r) < MaxDepth
    /\ HandleAs(r, NoUser)
    /\ UNCHANGED <<settings, request, job>>

CreateFrom(r, s) ==
    /\ job[r].at = "executing" /\ Depth(r) > 0
    /\ CreateIn(r, s, job[r].asker)

Return(r) ==
    /\ job[r].at = "executing" /\ Depth(r) > 0
    /\ Leave(r)
    /\ UNCHANGED <<settings, request, job>>

CallFails(r) ==
    /\ job[r].at = "executing" /\ Depth(r) > 0
    /\ LeaveByException(r)
    /\ UNCHANGED <<settings, request, job>>

\* set_auth_ctx(None, None), after the status of the run or its deletion (Runs.delete
\* of a rollback) and before the thread is set to its status or deleted.
End(r) ==
    /\ job[r].at = "executing" /\ Depth(r) = 0
    /\ job' = [job EXCEPT ![r].at = "settling"]
    /\ context' = [context EXCEPT ![r] = NoUser]
    /\ UNCHANGED <<settings, request, held>>

Settle(r) ==
    /\ job[r].at = "settling"
    /\ job' = [job EXCEPT ![r].at = "over"]
    /\ IF job[r].user = NoUser THEN UNCHANGED <<context, held>> ELSE Leave(r)
    /\ UNCHANGED <<settings, request>>

Next ==
    \/ \E q \in Incoming, by \in People \cup {"nothing", "wrong"}, s \in {"none", "langsmith"} :
          Arrive(q, by, s)
    \/ \E q \in Incoming : VerifyNobody(q)
    \/ \E q \in Incoming : VerifyCustom(q)
    \/ \E q \in Incoming : VerifyMissing(q)
    \/ \E q \in Incoming : VerifyAnswered(q)
    \/ \E q \in Incoming : VerifyUnreachable(q)
    \/ \E q \in Incoming : Handle(q)
    \/ \E q \in Incoming, r \in Jobs : Create(q, r)
    \/ \E q \in Incoming : Respond(q)
    \/ \E q \in Incoming : HandlerFails(q)
    \/ \E r \in Jobs : Begin(r)
    \/ \E r \in Jobs : CallServer(r)
    \/ \E r, s \in Jobs : CreateFrom(r, s)
    \/ \E r \in Jobs : Return(r)
    \/ \E r \in Jobs : CallFails(r)
    \/ \E r \in Jobs : End(r)
    \/ \E r \in Jobs : Settle(r)

Spec == Init /\ [][Next]_vars

----------------------------------------------------------------------------
(* Properties.                                                             *)

\* A run belongs to whom the request that led to it was authenticated as, through
\* however many runs that created one another; it and every call it makes to the
\* server execute as that user, whatever calls before have failed; and what the
\* worker does to the thread afterwards is nobody's.
RunsAsCreator ==
    \A r \in Jobs :
        /\ job[r].at # "none" => job[r].user = job[r].asker /\ job[r].user \in Identities
        /\ job[r].at = "executing" => context[r] = job[r].user
        /\ job[r].at = "settling" => context[r] = NoUser
=============================================================================
