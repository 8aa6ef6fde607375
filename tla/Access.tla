------------------------------- MODULE Access -------------------------------
(***************************************************************************)
(* The table of threads as clients reach it while authorization is         *)
(* configured (Threads in ops.py, handle_event and _get_handler in         *)
(* auth/custom.py).  Every operation awaits the handler registered for it, *)
(* which may suspend; put, patch, delete and Runs.put have looked at the   *)
(* table before, search, get and copy look after.  A handler accepts,      *)
(* refuses, or marks what is written with its user and returns a filter    *)
(* for rows with that mark.  Rows carry the moment they were made, which   *)
(* no two share.                                                           *)
(***************************************************************************)
EXTENDS Naturals, Sequences, FiniteSets

CONSTANTS
    Users,
    Slots,          \* requests that can be under way together, 1 to some number
    Named,          \* UUIDs of threads that clients name
    Copies,         \* UUIDs that copies are given
    Registrations,  \* the tables of handlers to consider
    Nobody, NoCall,
    Limit,          \* rows of a page
    MaxRows,        \* bound: rows ever made
    MaxCalls        \* bound: calls that name a thread

Ids == Named \cup Copies
Actions == {"create", "read", "update", "delete", "search", "create_run"}
Patterns == {"threads", "*"} \X (Actions \cup {"*"})
Behaviours == {"accept", "refuse", "own", "none"}

AccessAssumption ==
    /\ Registrations \subseteq [Patterns -> Behaviours]
    /\ Nobody \notin Users
    /\ Limit \in Nat \ {0} /\ MaxRows \in Nat /\ MaxCalls \in Nat
    /\ NoCall \notin Ids

VARIABLES
    handlers,  \* auth._handlers, the last one defined of each pattern
    cache,     \* auth._handler_cache
    rows,      \* conn.store["threads"]
    clock,     \* the moment of the last row made
    call,      \* the calls that await their handlers
    calls,     \* how many there were
    listing    \* a client that reads Threads.search page by page

vars == <<handlers, cache, rows, clock, call, calls, listing>>

\* Idle, or what a suspended call holds: the position and the row it found.
Idle == [op |-> "none", user |-> Nobody, id |-> NoCall, at |-> 0, seen |-> Nobody]
NotListing == [user |-> Nobody, offset |-> 0, got |-> {}, mine |-> {}, deleted |-> FALSE,
               done |-> FALSE]

At(id)    == {i \in 1..Len(rows) : rows[i].id = id}
Place(id) == IF At(id) = {} THEN 0 ELSE CHOOSE i \in At(id) : \A j \in At(id) : i <= j

Init ==
    /\ handlers \in Registrations
    /\ cache = [p \in Patterns |-> "none"]
    /\ rows = <<>> /\ clock = 0
    /\ call = [s \in Slots |-> Idle] /\ calls = 0
    /\ listing = NotListing

----------------------------------------------------------------------------
(* Authorization.                                                          *)

\* The patterns of an action, the most specific first.
Tried(act) == <<<<"threads", act>>, <<"threads", "*">>, <<"*", act>>, <<"*", "*">>>>
First(act) == {i \in 1..4 : /\ handlers[Tried(act)[i]] # "none"
                            /\ \A j \in 1..(i - 1) : handlers[Tried(act)[j]] = "none"}

\* _get_handler.  What it found is cached under the pattern, which is looked up
\* by the action only.
Handler(act) ==
    IF cache[<<"threads", act>>] # "none" THEN cache[<<"threads", act>>]
    ELSE IF First(act) = {} THEN "none"
    ELSE handlers[Tried(act)[CHOOSE i \in First(act) : TRUE]]
Cached(act) ==
    IF cache[<<"threads", act>>] # "none" \/ First(act) = {} THEN cache
    ELSE [cache EXCEPT ![Tried(act)[CHOOSE i \in First(act) : TRUE]] = Handler(act)]

\* The mark a handler leaves, and what its filter lets through.
Mark(u, act)   == IF Handler(act) = "own" THEN u ELSE Nobody
Lets(u, act, owner) == Handler(act) = "own" => owner = u
Refused(act)   == Handler(act) = "refuse"

----------------------------------------------------------------------------
(* The operations that look before they wait.                              *)

ActionOf == [put |-> "create", patch |-> "update", delete |-> "delete",
             put_run |-> "create_run"]

\* What finds no row to patch or to delete, or one where it would make one, is
\* answered at once, for all the table is concerned, and left out.
Ask(s, u, op, id) ==
    /\ call[s].op = "none" /\ \A q \in 1..(s - 1) : call[q].op # "none"
    /\ calls < MaxCalls
    /\ Place(id) = 0 <=> op \in {"put", "put_run"}
    /\ call' = [call EXCEPT ![s] =
                  [op |-> op, user |-> u, id |-> id, at |-> Place(id),
                   seen |-> IF op \in {"put", "put_run"} THEN Nobody ELSE rows[Place(id)].owner]]
    /\ calls' = calls + 1
    /\ cache' = Cached(ActionOf[op])
    /\ UNCHANGED <<handlers, rows, clock, listing>>

Resume(s, op) ==
    /\ call[s].op = op
    /\ call' = [call EXCEPT ![s] = Idle]
    /\ UNCHANGED <<handlers, cache, calls>>

AddRow(id, owner) ==
    /\ clock < MaxRows
    /\ clock' = clock + 1
    /\ rows' = Append(rows, [id |-> id, owner |-> owner, made |-> clock + 1])
    /\ UNCHANGED listing

Nothing == UNCHANGED <<rows, clock, listing>>

\* Threads.put, and Runs.put with if_not_exists.  Both trust that there still is
\* no such row.
Put(s) ==
    /\ Resume(s, "put")
    /\ IF Refused("create") THEN Nothing
       ELSE AddRow(call[s].id, Mark(call[s].user, "create"))

PutRun(s) ==
    /\ Resume(s, "put_run")
    /\ IF Refused("create_run") THEN Nothing
       ELSE AddRow(call[s].id, Mark(call[s].user, "create_run"))

\* Threads.patch.  The filter is applied to the row that stands now where the
\* call found its own, and that row is replaced by a copy with the metadata of
\* the request, the handler's mark among it.
PatchSeen(s) ==                                                  \* slip
    /\ Resume(s, "patch")
    /\ LET i == call[s].at
       IN IF Refused("update") \/ i > Len(rows) \/ ~Lets(call[s].user, "update", call[s].seen)
          THEN Nothing
          ELSE /\ rows' = [rows EXCEPT ![i].owner =
                             IF Mark(call[s].user, "update") = Nobody THEN @ ELSE call[s].user]
               /\ UNCHANGED <<clock, listing>>

Patch(s) ==
    /\ Resume(s, "patch")
    /\ LET i == call[s].at
       IN IF Refused("update") \/ i > Len(rows) \/ ~Lets(call[s].user, "update", rows[i].owner)
          THEN Nothing
          ELSE /\ rows' = [rows EXCEPT ![i].owner =
                             IF Mark(call[s].user, "update") = Nobody THEN @ ELSE call[s].user]
               /\ UNCHANGED <<clock, listing>>

\* Threads.delete.  The filter is applied to the row the call found, and the row
\* that stands now in its place is removed; past the end of the table the
\* removal fails.
Delete(s) ==
    /\ Resume(s, "delete")
    /\ LET i == call[s].at
       IN IF Refused("delete") \/ i > Len(rows) \/ ~Lets(call[s].user, "delete", call[s].seen)
          THEN Nothing
          ELSE /\ rows' = SubSeq(rows, 1, i - 1) \o SubSeq(rows, i + 1, Len(rows))
               /\ listing' = [listing EXCEPT !.deleted = listing.user # Nobody]
               /\ UNCHANGED clock

----------------------------------------------------------------------------
(* The operations that look when they have waited.                         *)

\* Threads.copy, which asks for a reading of the new id.
Copy(u, id, new) ==
    /\ calls < MaxCalls
    /\ At(new) = {}
    /\ Place(id) # 0 /\ ~Refused("read") /\ Lets(u, "read", rows[Place(id)].owner)
    /\ AddRow(new, rows[Place(id)].owner)
    /\ calls' = calls + 1
    /\ cache' = Cached("read")
    /\ UNCHANGED <<handlers, call>>

\* Threads.search: the rows the filter lets through, the newest first, Limit of
\* them from the offset on.  created_at is in the order of the clock.
Visible(u)  == {x \in {rows[i] : i \in 1..Len(rows)} : Lets(u, "search", x.owner)}
Rank(u, x)  == Cardinality({y \in Visible(u) : y.made > x.made})

PageAfter(u, offset) ==                                          \* slip
    {x.made : x \in {y \in Visible(u) : Rank(u, y) > offset /\ Rank(u, y) <= offset + Limit}}

Page(u, offset) ==
    {x.made : x \in {y \in Visible(u) : Rank(u, y) >= offset /\ Rank(u, y) < offset + Limit}}

\* A client reads on until a page is not full.
Search(u) ==
    /\ ~Refused("search")
    /\ ~listing.done /\ listing.user \in {Nobody, u}
    /\ LET page == Page(u, listing.offset)
       IN listing' = [user |-> u, offset |-> listing.offset + Limit,
                      got  |-> listing.got \cup page,
                      mine |-> IF listing.user = Nobody THEN {x.made : x \in Visible(u)}
                               ELSE listing.mine,
                      deleted |-> listing.deleted, done |-> Cardinality(page) < Limit]
    /\ cache' = Cached("search")
    /\ UNCHANGED <<handlers, rows, clock, call, calls>>

SearchAgain ==
    /\ listing.done
    /\ listing' = NotListing
    /\ UNCHANGED <<handlers, cache, rows, clock, call, calls>>

Next ==
    \/ \E s \in Slots, u \in Users, op \in DOMAIN ActionOf, id \in Ids : Ask(s, u, op, id)
    \/ \E s \in Slots : Put(s)
    \/ \E s \in Slots : PutRun(s)
    \/ \E s \in Slots : Patch(s)
    \/ \E s \in Slots : Delete(s)
    \/ \E u \in Users, id \in Ids, new \in Copies : Copy(u, id, new)
    \/ \E u \in Users : Search(u)
    \/ SearchAgain

Spec == Init /\ [][Next]_vars

----------------------------------------------------------------------------
(* Properties.                                                             *)

TypeOK ==
    /\ handlers \in [Patterns -> Behaviours]
    /\ cache \in [Patterns -> Behaviours]
    /\ rows \in Seq([id : Ids, owner : Users \cup {Nobody}, made : 1..MaxRows])
    /\ clock \in 0..MaxRows /\ calls \in 0..MaxCalls
    /\ call \in [Slots -> [op : DOMAIN ActionOf \cup {"none"}, user : Users \cup {Nobody},
                           id : Ids \cup {NoCall}, at : Nat, seen : Users \cup {Nobody}]]

\* Where every action is marked or refused, no call changes whose row it is,
\* although Threads.patch writes to the position it found before it waited.
Guarded == \A act \in Actions : Handler(act) \in {"own", "refuse"}
OwnerKept ==
    \A i \in 1..Len(rows), j \in 1..Len(rows') :
        rows[i].made = rows'[j].made => rows[i].owner = rows'[j].owner
OwnerStays == [][OwnerKept \/ ~Guarded]_vars

\* A client that reads Threads.search page by page, to one that is not full, has
\* seen every row it could see when it began, whatever was made, marked or
\* copied meanwhile.  A deletion moves rows to pages already read.
PagesComplete ==
    listing.done /\ ~listing.deleted => listing.mine \subseteq listing.got

\* Threads.delete: "Delete a thread by ID and cascade delete all associated
\* runs."  A row is removed only for a call that names it.
NamedByItsCall ==
    \A i \in 1..Len(rows) :
        (\A j \in 1..Len(rows') : rows'[j].made # rows[i].made) =>
            \E s \in Slots : call[s].op = "delete" /\ call[s].id = rows[i].id
DeletesNamed == [][NamedByItsCall]_vars

=============================================================================
