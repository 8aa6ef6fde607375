--------------------------- MODULE RequestProofs ---------------------------
(***************************************************************************)
(* Theorems about what a request asks for and is answered, for every       *)
(* number of requests, calls, people, threads, assistants, rows, keys and  *)
(* pages.  Where the configuration of a run comes from (Configuration);    *)
(* who reaches a thread, and that the pages of a search show every one     *)
(* (Access); what a call of a JavaScript graph has done when it returns    *)
(* (RemoteGraph); that a batch is answered (Batch); and whose work a run   *)
(* is (Identity).                                                          *)
(***************************************************************************)
EXTENDS MCRequests, TLAPS, FiniteSetTheorems, SequenceTheorems

----------------------------------------------------------------------------
(* The configuration of a run, threads and their pages.                    *)

\* What the proofs need of the types.
ConfiguredTypes ==
    /\ catalog \in [Assistants -> [Keys -> Settings \cup {NoValue}]]
    /\ made \in 0..MaxRows
    /\ row \in [Rows -> [thread : Uuids \cup {NoRow}, status : {"idle", "busy"},
                         config : [Keys -> Values]]]
    /\ table \in Seq(Rows)
    /\ asked \in [Requests ->
                   [at : {"new", "looked", "opened", "refused", "answered"},
                    thread : Uuids \cup {NoRow}, assistant : Assistants \cup {NoRow},
                    row : Rows \cup {NoRow}, names : SUBSET Keys, rejects : BOOLEAN]]
    /\ run \in [Requests -> [in : BOOLEAN, over : BOOLEAN, thread : Uuids \cup {NoRow},
                             config : [Keys -> Values]]]

\* A row in the table has been made.
TableMade == \A i \in 1..Len(table) : table[i] <= made

\* A request under way has an assistant, and the row it holds is one made for
\* its thread.
Held ==
    \A r \in Requests :
        /\ asked[r].at # "new" => asked[r].assistant \in Assistants
        /\ asked[r].row # NoRow => /\ asked[r].row <= made
                                   /\ row[asked[r].row].thread = asked[r].thread
        /\ asked[r].at = "opened" => asked[r].row # NoRow
        /\ run[r].in => asked[r].at = "answered" /\ run[r].thread = asked[r].thread

\* The value q of a key was named by a request on the thread.
NamedOn(q, k, u) == asked[q].at # "new" /\ asked[q].thread = u /\ k \in asked[q].names

\* A row has values of the requests on its thread.
RowValues ==
    \A i \in Rows, k \in Keys :
        row[i].config[k] \in Requests => NamedOn(row[i].config[k], k, row[i].thread)

\* A run has them too, and perhaps the user of its own request.
RunValues ==
    \A r \in Requests : run[r].in =>
        \A k \in Keys :
            /\ k \in asked[r].names => run[r].config[k] = r
            /\ run[r].config[k] \in Requests =>
                  \/ NamedOn(run[r].config[k], k, run[r].thread)
                  \/ run[r].config[k] = r /\ k = UserId

ConfiguredInv == ConfiguredTypes /\ TableMade /\ Held /\ RowValues /\ RunValues

LEMMA ConfiguredInit == ConfigurationAssumption /\ Init => ConfiguredInv
<1> SUFFICES ASSUME ConfigurationAssumption, Init PROVE ConfiguredInv
  OBVIOUS
<1> USE DEF ConfigurationAssumption
<1>1. Empty \in [Keys -> Values] /\ \A k \in Keys : Empty[k] \notin Requests
  BY DEF Empty, Values
<1>2. ConfiguredTypes
  <2>1. catalog \in [Assistants -> [Keys -> Settings \cup {NoValue}]]
    BY DEF Init
  <2>2. row \in [Rows -> [thread : Uuids \cup {NoRow}, status : {"idle", "busy"},
                          config : [Keys -> Values]]]
    BY <1>1 DEF Init, BlankRow
  <2>3. run \in [Requests -> [in : BOOLEAN, over : BOOLEAN, thread : Uuids \cup {NoRow},
                              config : [Keys -> Values]]]
    BY <1>1 DEF Init, NoRun
  <2> QED BY <2>1, <2>2, <2>3 DEF Init, ConfiguredTypes
<1>3. TableMade
  BY DEF Init, TableMade
<1>4. Held
  BY DEF Init, Held, NoRun
<1>5. RowValues
  BY <1>1 DEF Init, RowValues, BlankRow
<1>6. RunValues
  BY DEF Init, RunValues, NoRun
<1> QED BY <1>2, <1>3, <1>4, <1>5, <1>6 DEF ConfiguredInv

----------------------------------------------------------------------------
(* The row of a thread.                                                    *)

\* The least is the one with the fewest below it.
LEMMA HasLeast ==
    ASSUME NEW n \in Nat, NEW S, S \subseteq 1..n, S # {}
    PROVE  \E x \in S : \A y \in S : x <= y
<1> DEFINE Below(x) == {y \in S : y < x}
           T == {Below(x) : x \in S}
           Fewer == StrictSubsetOrdering(S)
<1>1. IsFiniteSet(S)
  <2>1. S \in SUBSET Nat /\ \A s \in S : s <= n
    OBVIOUS
  <2> QED BY <2>1, FS_BoundedSetOfNaturals
<1>2. T \subseteq FiniteSubsetsOf(S) /\ T # {}
  <2>1. T \subseteq SUBSET S /\ T # {}
    OBVIOUS
  <2>2. \A U \in SUBSET S : IsFiniteSet(U)
    BY <1>1, FS_Subset
  <2> QED BY <2>1, <2>2 DEF FiniteSubsetsOf
<1>3. PICK m \in T : \A U \in T : ~ (<<U, m>> \in Fewer)
  <2> HIDE DEF T, Fewer
  <2>1. IsWellFoundedOn(Fewer, FiniteSubsetsOf(S))
    BY FS_StrictSubsetOrderingWellFounded DEF Fewer
  <2> QED BY <1>2, <2>1, WFMin, Zenon
<1>4. PICK x \in S : m = Below(x)
  OBVIOUS
<1>5. ASSUME NEW y \in S, y < x PROVE FALSE
  <2>1. Below(y) \in T /\ Below(y) \in SUBSET S /\ m \in SUBSET S
    BY <1>4
  <2>2. Below(y) \subseteq m /\ Below(y) # m
    <3>1. y \in m /\ y \notin Below(y)
      BY <1>4, <1>5
    <3>2. \A z \in Below(y) : z \in Below(x)
      BY <1>5
    <3> QED BY <3>1, <3>2, <1>4
  <2>3. <<Below(y), m>> \in Fewer
    <3> HIDE DEF Below
    <3> QED BY <2>1, <2>2 DEF StrictSubsetOrdering
  <2> QED BY <2>1, <2>3, <1>3
<1> QED BY <1>5

\* Runs.put and Threads.delete find the first row of a thread.
LEMMA FoundRow ==
    ASSUME ConfigurationAssumption, ConfiguredInv, NEW u
    PROVE  Found(u) # NoRow => /\ Place(u) \in 1..Len(table)
                               /\ Found(u) \in Rows
                               /\ Found(u) <= made
                               /\ row[Found(u)].thread = u
<1> SUFFICES ASSUME Found(u) # NoRow
             PROVE  /\ Place(u) \in 1..Len(table)
                    /\ Found(u) \in Rows
                    /\ Found(u) <= made
                    /\ row[Found(u)].thread = u
  OBVIOUS
<1>1. table \in Seq(Rows) /\ Len(table) \in Nat
  BY DEF ConfiguredInv, ConfiguredTypes
<1>2. Of(u) # {} /\ Of(u) \subseteq 1..Len(table)
  BY DEF Found, Of
<1>3. Place(u) \in Of(u)
  <2>1. \E x \in Of(u) : \A y \in Of(u) : x <= y
    BY <1>1, <1>2, HasLeast
  <2> QED BY <2>1 DEF Place
<1>4. Found(u) = table[Place(u)]
  BY <1>2 DEF Found
<1> QED BY <1>1, <1>2, <1>3, <1>4 DEF Of, ConfiguredInv, TableMade

----------------------------------------------------------------------------
(* The values of a configuration.                                          *)

LEMMA MergeValue ==
    ASSUME NEW c, NEW d, NEW k \in Keys
    PROVE  Merge(c, d)[k] = IF d[k] = NoValue THEN c[k] ELSE d[k]
BY DEF Merge

LEMMA OwnValue ==
    ASSUME NEW r \in Requests, NEW k \in Keys
    PROVE  Own(r)[k] = IF k \in asked[r].names THEN r ELSE NoValue
BY DEF Own

\* A configuration with values of requests on thread u only.
Fits(c, u) ==
    /\ c \in [Keys -> Values]
    /\ \A k \in Keys : c[k] \in Requests => NamedOn(c[k], k, u)

LEMMA EmptyFits == ConfigurationAssumption => \A u : Fits(Empty, u)
BY DEF ConfigurationAssumption, Fits, Empty, Values

LEMMA CatalogFits ==
    ASSUME ConfigurationAssumption, ConfiguredInv, NEW a \in Assistants
    PROVE  catalog[a] \in [Keys -> Settings \cup {NoValue}] /\ \A u : Fits(catalog[a], u)
<1>1. catalog[a] \in [Keys -> Settings \cup {NoValue}]
  BY DEF ConfiguredInv, ConfiguredTypes
<1>2. catalog[a] \in [Keys -> Values] /\ \A k \in Keys : catalog[a][k] \notin Requests
  BY <1>1 DEF ConfigurationAssumption, Values
<1> QED BY <1>1, <1>2 DEF Fits

LEMMA OwnFits ==
    ASSUME ConfigurationAssumption, NEW r \in Requests, asked[r].at # "new"
    PROVE  Fits(Own(r), asked[r].thread)
<1>1. Own(r) \in [Keys -> Values]
  BY DEF Own, Values
<1>2. ASSUME NEW k \in Keys, Own(r)[k] \in Requests
      PROVE  NamedOn(Own(r)[k], k, asked[r].thread)
  BY <1>2, OwnValue DEF ConfigurationAssumption, NamedOn
<1> QED BY <1>1, <1>2 DEF Fits

LEMMA MergeFits ==
    ASSUME NEW c, NEW d, NEW u, Fits(c, u), Fits(d, u)
    PROVE  Fits(Merge(c, d), u)
<1>1. Merge(c, d) \in [Keys -> Values]
  BY DEF Merge, Fits
<1>2. ASSUME NEW k \in Keys, Merge(c, d)[k] \in Requests
      PROVE  NamedOn(Merge(c, d)[k], k, u)
  BY <1>2, MergeValue DEF Fits
<1> QED BY <1>1, <1>2 DEF Fits

LEMMA RowFits ==
    ASSUME ConfiguredInv, NEW i \in Rows
    PROVE  Fits(row[i].config, row[i].thread)
BY DEF ConfiguredInv, ConfiguredTypes, RowValues, Fits

\* What a request leaves in the row it holds.
LEMMA LeftFits ==
    ASSUME ConfigurationAssumption, ConfiguredInv, NEW r \in Requests,
           asked[r].at = "looked", asked[r].row # NoRow
    PROVE  Fits(Left(r), asked[r].thread)
<1>1. asked[r].row \in Rows /\ asked[r].assistant \in Assistants
      /\ row[asked[r].row].thread = asked[r].thread
  BY DEF ConfiguredInv, ConfiguredTypes, Held
<1>2. Fits(row[asked[r].row].config, asked[r].thread)
  BY <1>1, RowFits
<1>3. Fits(catalog[asked[r].assistant], asked[r].thread)
  BY <1>1, CatalogFits
<1>4. Fits(Own(r), asked[r].thread)
  BY OwnFits
<1> QED BY <1>2, <1>3, <1>4, MergeFits DEF Left

\* What the run of a request is given.
LEMMA RunConfigFits ==
    ASSUME ConfigurationAssumption, ConfiguredInv, NEW r \in Requests, asked[r].at # "new",
           NEW base, Fits(base, asked[r].thread),
           NEW stored, Fits(stored, asked[r].thread)
    PROVE  /\ RunConfig(r, base, stored) \in [Keys -> Values]
           /\ \A k \in Keys :
                 LET v == RunConfig(r, base, stored)[k]
                 IN /\ k \in asked[r].names => v = r
                    /\ v \in Requests =>
                          NamedOn(v, k, asked[r].thread) \/ (v = r /\ k = UserId)
<1> DEFINE c == Merge(Merge(base, stored), Own(r))
           t == Merge(base, Own(r))
           f == RunConfig(r, base, stored)
<1>1. Fits(c, asked[r].thread) /\ Fits(t, asked[r].thread)
  BY OwnFits, MergeFits
<1>2. \A k \in Keys : k \in asked[r].names => c[k] = r /\ t[k] = r
  BY MergeValue, OwnValue DEF ConfigurationAssumption
<1>3. f = [k \in Keys |-> IF k \in TopLevel THEN t[k]
                          ELSE IF k = UserId /\ c[k] = NoValue THEN r ELSE c[k]]
  BY DEF RunConfig
<1> HIDE DEF c, t, f
<1>4. r # NoValue /\ r \in Values
  BY DEF ConfigurationAssumption, Values
<1>5. f \in [Keys -> Values]
  BY <1>1, <1>3, <1>4 DEF Fits
<1>6. ASSUME NEW k \in Keys
      PROVE  /\ k \in asked[r].names => f[k] = r
             /\ f[k] \in Requests =>
                   NamedOn(f[k], k, asked[r].thread) \/ (f[k] = r /\ k = UserId)
  BY <1>1, <1>2, <1>3, <1>4 DEF Fits
<1> QED BY <1>5, <1>6 DEF f

----------------------------------------------------------------------------
(* The steps.                                                              *)

NamedOnNext(q, k, u) ==
    asked'[q].at # "new" /\ asked'[q].thread = u /\ k \in asked'[q].names

\* What was named stays named.
LEMMA NamedStays ==
    ASSUME ConfiguredInv, Next, NEW k, NEW u
    PROVE  \A q \in Requests : NamedOn(q, k, u) => NamedOnNext(q, k, u)
<1> SUFFICES ASSUME NEW q \in Requests, NamedOn(q, k, u) PROVE NamedOnNext(q, k, u)
  OBVIOUS
<1>0. asked \in [Requests ->
                   [at : {"new", "looked", "opened", "refused", "answered"},
                    thread : Uuids \cup {NoRow}, assistant : Assistants \cup {NoRow},
                    row : Rows \cup {NoRow}, names : SUBSET Keys, rejects : BOOLEAN]]
  BY DEF ConfiguredInv, ConfiguredTypes
<1>1. CASE UNCHANGED asked
  BY <1>1 DEF NamedOn, NamedOnNext
<1>2. ASSUME NEW r \in Requests, NEW v, NEW a, NEW names, NEW b, Ask(r, v, a, names, b)
      PROVE  NamedOnNext(q, k, u)
  <2>1. q # r
    BY <1>2 DEF Ask, NamedOn
  <2>2. asked'[q] = asked[q]
    BY <1>0, <1>2, <2>1 DEF Ask
  <2> QED BY <2>2 DEF NamedOn, NamedOnNext
<1>3. ASSUME NEW r \in Requests, Refuse(r) \/ OpenThread(r) \/ PutOnNew(r) \/ PutOnFound(r)
      PROVE  NamedOnNext(q, k, u)
  <2>1. /\ asked'[q].thread = asked[q].thread
        /\ asked'[q].names = asked[q].names
        /\ asked[q].at # "new" => asked'[q].at # "new"
    BY <1>0, <1>3 DEF Refuse, OpenThread, PutOnNew, PutOnFound, Insert
  <2> QED BY <2>1 DEF NamedOn, NamedOnNext
<1> QED
  BY <1>1, <1>2, <1>3 DEF Next, CreateThread, DeleteThread, Patch, End

\* A configuration that fits a thread before a step fits it after.
FitsNext(c, u) ==
    /\ c \in [Keys -> Values]
    /\ \A k \in Keys : c[k] \in Requests => NamedOnNext(c[k], k, u)

LEMMA FitsStays == ASSUME ConfiguredInv, Next, NEW u PROVE \A c : Fits(c, u) => FitsNext(c, u)
BY NamedStays DEF Fits, FitsNext

\* Rows are made, marked and taken over, but keep their thread, and what is left
\* in them fits it.
LEMMA RowValuesKept ==
    ASSUME ConfigurationAssumption, ConfiguredInv, Next
    PROVE  /\ row' \in [Rows -> [thread : Uuids \cup {NoRow}, status : {"idle", "busy"},
                                 config : [Keys -> Values]]]
           /\ RowValues'
           /\ \A i \in Rows : i <= made => row'[i].thread = row[i].thread
<1> DEFINE Type == row' \in [Rows -> [thread : Uuids \cup {NoRow}, status : {"idle", "busy"},
                                 config : [Keys -> Values]]]
           Same == \A i \in Rows : i <= made => row'[i].thread = row[i].thread
           Fit(i) == FitsNext(row'[i].config, row'[i].thread)
           Goal == Type /\ Same /\ \A i \in Rows : Fit(i)
<1>0. /\ row \in [Rows -> [thread : Uuids \cup {NoRow}, status : {"idle", "busy"},
                           config : [Keys -> Values]]]
      /\ made \in 0..MaxRows
  BY DEF ConfiguredInv, ConfiguredTypes
<1>1. \A i \in Rows : FitsNext(row[i].config, row[i].thread)
  BY RowFits, FitsStays
<1>2. ASSUME NEW u \in Uuids \cup {NoRow}, NEW s \in {"idle", "busy"}, NEW c, Fits(c, u), NewRow(u, s, c)
      PROVE  Goal
  <2>1. row' = [row EXCEPT ![made + 1] = [thread |-> u, status |-> s, config |-> c]]
    BY <1>2 DEF NewRow
  <2>2. FitsNext(c, u) /\ c \in [Keys -> Values]
    BY <1>2, FitsStays DEF Fits
  <2>3. Type
    BY <1>0, <2>1, <2>2
  <2>4. Same
    BY <1>0, <2>1 DEF Rows
  <2>5. \A i \in Rows : Fit(i)
    BY <1>0, <1>1, <2>1, <2>2
  <2> QED BY <2>3, <2>4, <2>5
<1>3. UNCHANGED row => Goal
  <2> SUFFICES ASSUME UNCHANGED row PROVE Goal
    OBVIOUS
  <2>1. row' = row
    OBVIOUS
  <2>2. Type /\ Same
    BY <1>0, <2>1
  <2>3. \A i \in Rows : Fit(i)
    <3> SUFFICES ASSUME NEW i \in Rows PROVE FitsNext(row'[i].config, row'[i].thread)
      OBVIOUS
    <3> QED BY <1>1, <2>1, Zenon
  <2> QED BY <2>2, <2>3
<1>4. ASSUME NEW u \in Threads, CreateThread(u)
      PROVE  Goal
  BY <1>2, <1>4, EmptyFits DEF CreateThread, Uuids
<1>5. ASSUME NEW r \in Requests, OpenThread(r)
      PROVE  Goal
  <2>1. asked[r].at = "looked" /\ asked[r].assistant \in Assistants
        /\ asked[r].thread \in Uuids \cup {NoRow}
    BY <1>5 DEF OpenThread, ConfiguredInv, Held, ConfiguredTypes
  <2>2. Fits(Merge(catalog[asked[r].assistant], Own(r)), asked[r].thread)
    BY <2>1, CatalogFits, OwnFits, MergeFits
  <2> QED BY <1>2, <1>5, <2>1, <2>2 DEF OpenThread
<1>6. ASSUME NEW r \in Requests, PutOnFound(r)
      PROVE  Goal
  <2> DEFINE j == asked[r].row
             c == IF row[j].status = "busy" THEN row[j].config ELSE Left(r)
  <2>1. /\ asked[r].at = "looked" /\ j # NoRow
        /\ row' = [row EXCEPT ![j].status = "busy", ![j].config = c]
    BY <1>6 DEF PutOnFound
  <2>2. j \in Rows /\ row[j].thread = asked[r].thread
    BY <2>1 DEF ConfiguredInv, ConfiguredTypes, Held
  <2>3. Fits(c, row[j].thread)
    BY <2>1, <2>2, LeftFits, RowFits
  <2>4. FitsNext(c, row[j].thread) /\ c \in [Keys -> Values]
    BY <2>3, FitsStays DEF Fits
  <2> HIDE DEF c
  <2> QED BY <1>0, <1>1, <2>1, <2>2, <2>4
<1>7. ASSUME NEW r \in Requests, End(r)
      PROVE  Goal
  <2>1. /\ \A i \in Rows : row'[i].thread = row[i].thread /\ row'[i].config = row[i].config
        /\ Type
    BY <1>0, <1>7 DEF End
  <2> QED BY <1>1, <2>1
<1>8. Goal
  <2> HIDE DEF Goal
  <2>1. ASSUME NEW u \in Threads, DeleteThread(u) PROVE UNCHANGED row
    BY <2>1 DEF DeleteThread
  <2>2. ASSUME NEW a, NEW v, Patch(a, v) PROVE UNCHANGED row
    BY <2>2 DEF Patch
  <2>3. ASSUME NEW r, NEW u, NEW a, NEW names, NEW b, Ask(r, u, a, names, b)
        PROVE  UNCHANGED row
    BY <2>3 DEF Ask
  <2>4. ASSUME NEW r, Refuse(r) \/ PutOnNew(r) PROVE UNCHANGED row
    BY <2>4 DEF Refuse, PutOnNew
  <2> QED BY <1>3, <1>4, <1>5, <1>6, <1>7, <2>1, <2>2, <2>3, <2>4 DEF Next
<1>9. RowValues'
  BY <1>8 DEF RowValues, FitsNext, NamedOnNext, NamedOn
<1> QED BY <1>8, <1>9

AskedType ==
    asked \in [Requests ->
                 [at : {"new", "looked", "opened", "refused", "answered"},
                  thread : Uuids \cup {NoRow}, assistant : Assistants \cup {NoRow},
                  row : Rows \cup {NoRow}, names : SUBSET Keys, rejects : BOOLEAN]]

\* What Threads.delete keeps of the table.
LEMMA Removal ==
    ASSUME NEW S, NEW seq \in Seq(S), NEW i \in 1..Len(seq)
    PROVE  LET new == SubSeq(seq, 1, i - 1) \o SubSeq(seq, i + 1, Len(seq))
           IN /\ new \in Seq(S)
              /\ \A j \in 1..Len(new) : \E k \in 1..Len(seq) : new[j] = seq[k]
<1> DEFINE a == SubSeq(seq, 1, i - 1)
           b == SubSeq(seq, i + 1, Len(seq))
<1>1. /\ a \in Seq(S) /\ Len(a) = i - 1
      /\ \A j \in 1..Len(a) : a[j] = seq[j]
  OBVIOUS
<1>2. /\ b \in Seq(S) /\ Len(b) = Len(seq) - i
      /\ \A j \in 1..Len(b) : b[j] = seq[j + i]
  OBVIOUS
<1> HIDE DEF a, b
<1>3. /\ a \o b \in Seq(S) /\ Len(a \o b) = Len(a) + Len(b)
      /\ \A j \in 1..Len(a) + Len(b) : (a \o b)[j] = IF j <= Len(a) THEN a[j] ELSE b[j - Len(a)]
  BY <1>1, <1>2, ConcatProperties
<1>4. ASSUME NEW j \in 1..Len(a \o b)
      PROVE  \E k \in 1..Len(seq) : (a \o b)[j] = seq[k]
  <2>1. CASE j <= Len(a)
    <3>1. (a \o b)[j] = seq[j] /\ j \in 1..Len(seq)
      BY <1>1, <1>2, <1>3, <2>1
    <3> QED BY <3>1
  <2>2. CASE j > Len(a)
    <3>1. (a \o b)[j] = b[j - Len(a)] /\ j - Len(a) \in 1..Len(b)
      BY <1>1, <1>2, <1>3, <2>2
    <3>2. b[j - Len(a)] = seq[j - Len(a) + i] /\ j - Len(a) + i \in 1..Len(seq)
      BY <1>1, <1>2, <3>1
    <3> QED BY <3>1, <3>2
  <2> QED BY <1>1, <1>2, <2>1, <2>2
<1> QED BY <1>3, <1>4 DEF a, b

\* The table has rows that were made.
LEMMA TableKept ==
    ASSUME ConfigurationAssumption, ConfiguredInv, Next
    PROVE  /\ made' \in 0..MaxRows /\ made <= made'
           /\ table' \in Seq(Rows)
           /\ TableMade'
<1> DEFINE Goal == /\ made' \in 0..MaxRows /\ made <= made'
                   /\ table' \in Seq(Rows)
                   /\ TableMade'
           Added(i) == /\ table' \in Seq(Rows)
                       /\ \A j \in 1..Len(table') :
                             table'[j] = i \/ (j \in 1..Len(table) /\ table'[j] = table[j])
<1>0. /\ made \in 0..MaxRows /\ table \in Seq(Rows) /\ MaxRows \in Nat
      /\ Len(table) \in Nat /\ Rows \subseteq Nat
      /\ \A i \in 1..Len(table) : table[i] \in Rows /\ table[i] <= made
  BY DEF ConfiguredInv, ConfiguredTypes, TableMade, ConfigurationAssumption, Rows
<1>g. \A i \in 1..Len(table) : table[i] <= made + 1
  <2> SUFFICES ASSUME NEW i \in 1..Len(table) PROVE table[i] <= made + 1
    OBVIOUS
  <2>1. made \in Nat
    BY <1>0
  <2>2. table[i] \in Rows /\ table[i] <= made
    BY <1>0, Zenon
  <2>3. table[i] \in Nat
    BY <1>0, <2>2
  <2> QED BY <2>1, <2>2, <2>3
<1>1. UNCHANGED <<made, table>> => Goal
  BY <1>0 DEF TableMade
<1>2. ASSUME NEW u, NEW s, NEW c, NewRow(u, s, c), table' = table
      PROVE  Goal
  <2>1. made' = made + 1 /\ made < MaxRows
    BY <1>2 DEF NewRow
  <2>2. \A i \in 1..Len(table) : table[i] <= made + 1
    BY <1>g
  <2> QED BY <1>0, <1>2, <2>1, <2>2 DEF TableMade
<1>3. ASSUME NEW u, CreateThread(u) PROVE Goal
  <2>1. made' = made + 1 /\ made < MaxRows /\ table' = Append(table, made + 1)
    BY <1>3 DEF CreateThread, NewRow
  <2>2. made + 1 \in Rows
    BY <1>0, <2>1 DEF Rows
  <2>3. \A i \in 1..Len(table) : table[i] <= made + 1
    BY <1>g
  <2>4. Added(made + 1)
    BY <1>0, <2>1, <2>2, AppendProperties
  <2> QED BY <1>0, <2>1, <2>3, <2>4 DEF TableMade
<1>4. ASSUME NEW u, DeleteThread(u) PROVE Goal
  <2>1. Place(u) \in 1..Len(table)
    BY <1>4, FoundRow DEF DeleteThread
  <2>2. /\ table' = SubSeq(table, 1, Place(u) - 1) \o SubSeq(table, Place(u) + 1, Len(table))
        /\ made' = made
    BY <1>4 DEF DeleteThread
  <2>3. /\ table' \in Seq(Rows)
        /\ \A j \in 1..Len(table') : \E k \in 1..Len(table) : table'[j] = table[k]
    BY <1>0, <2>1, <2>2, Removal
  <2>4. \A j \in 1..Len(table') : table'[j] <= made
    BY <1>0, <2>3
  <2> QED BY <1>0, <2>2, <2>3, <2>4 DEF TableMade
<1>5. ASSUME NEW r \in Requests, PutOnNew(r) PROVE Goal
  <2>1. made' = made /\ table' = Append(table, asked[r].row) /\ asked[r].at = "opened"
    BY <1>5 DEF PutOnNew
  <2>2. asked[r].row \in Rows /\ asked[r].row <= made
    BY <2>1 DEF ConfiguredInv, Held, ConfiguredTypes
  <2>3. Added(asked[r].row)
    BY <1>0, <2>1, <2>2, AppendProperties
  <2> QED BY <1>0, <2>1, <2>2, <2>3 DEF TableMade
<1>6. ASSUME NEW r, OpenThread(r) PROVE Goal
  BY <1>2, <1>6 DEF OpenThread
<1>7. ASSUME NEW r, Refuse(r) \/ PutOnFound(r) \/ End(r) PROVE Goal
  BY <1>1, <1>7 DEF Refuse, PutOnFound, End
<1>8. ASSUME NEW r, NEW u, NEW a, NEW names, NEW b, Ask(r, u, a, names, b)
      PROVE  Goal
  BY <1>1, <1>8 DEF Ask
<1>9. ASSUME NEW a, NEW v, Patch(a, v) PROVE Goal
  BY <1>1, <1>9 DEF Patch
<1> HIDE DEF Goal
<1>10. Goal
  BY <1>3, <1>4, <1>5, <1>6, <1>7, <1>8, <1>9 DEF Next
<1> QED BY <1>10 DEF Goal

\* What a request holds, its run aside.
HeldRow(r) ==
    /\ asked[r].at # "new" => asked[r].assistant \in Assistants
    /\ asked[r].row # NoRow => /\ asked[r].row <= made
                               /\ row[asked[r].row].thread = asked[r].thread
    /\ asked[r].at = "opened" => asked[r].row # NoRow

LEMMA AskedKept ==
    ASSUME ConfigurationAssumption, ConfiguredInv, Next
    PROVE  AskedType' /\ \A r \in Requests : HeldRow(r)'
<1> DEFINE Goal == AskedType' /\ \A r \in Requests : HeldRow(r)'
<1>0. /\ AskedType /\ made \in 0..MaxRows
      /\ \A r \in Requests : HeldRow(r)
      /\ MaxRows \in Nat /\ NoRow \notin Rows
  BY DEF ConfiguredInv, ConfiguredTypes, Held, HeldRow, ConfigurationAssumption, AskedType
<1>1. /\ made' \in 0..MaxRows /\ made <= made'
      /\ \A i \in Rows : i <= made => row'[i].thread = row[i].thread
  BY TableKept, RowValuesKept
<1>2. \A r \in Requests : asked[r].row # NoRow =>
          /\ asked[r].row \in Rows /\ asked[r].row <= made'
          /\ row'[asked[r].row].thread = asked[r].thread
  <2> SUFFICES ASSUME NEW r \in Requests, asked[r].row # NoRow
               PROVE  /\ asked[r].row \in Rows /\ asked[r].row <= made'
                      /\ row'[asked[r].row].thread = asked[r].thread
    OBVIOUS
  <2>1. /\ asked[r].row \in Rows /\ asked[r].row <= made
        /\ row[asked[r].row].thread = asked[r].thread
    BY <1>0 DEF AskedType, HeldRow
  <2> QED BY <1>0, <1>1, <2>1 DEF Rows
<1>3. UNCHANGED asked => Goal
  BY <1>0, <1>2 DEF AskedType, HeldRow
<1>4. ASSUME NEW r \in Requests, NEW place \in {"refused", "answered"}, asked[r].at # "new",
             asked' = [asked EXCEPT ![r].at = place]
      PROVE  Goal
  <2>1. AskedType'
    BY <1>0, <1>4 DEF AskedType
  <2>2. ASSUME NEW q \in Requests PROVE HeldRow(q)'
    <3>1. CASE q = r
      <4>1. /\ asked'[r].row = asked[r].row /\ asked'[r].thread = asked[r].thread
            /\ asked'[r].assistant = asked[r].assistant /\ asked'[r].at = place
        BY <1>0, <1>4 DEF AskedType
      <4>2. place # "opened"
        OBVIOUS
      <4>3. asked[r].assistant \in Assistants
        BY <1>0, <1>4 DEF HeldRow
      <4> QED BY <1>2, <3>1, <4>1, <4>2, <4>3 DEF HeldRow
    <3>2. CASE q # r
      <4>1. asked'[q] = asked[q]
        BY <1>0, <1>4, <3>2 DEF AskedType
      <4> QED BY <1>0, <1>2, <4>1 DEF HeldRow
    <3> QED BY <3>1, <3>2
  <2> QED BY <2>1, <2>2
<1>5. ASSUME NEW r \in Requests, NEW u \in Uuids, NEW a \in Assistants,
             NEW names \in SUBSET Keys, NEW b \in BOOLEAN, Ask(r, u, a, names, b)
      PROVE  Goal
  <2>1. asked' = [asked EXCEPT ![r] =
                    [at |-> "looked", thread |-> u, assistant |-> a, row |-> Found(u),
                     names |-> names, rejects |-> b]]
    BY <1>5 DEF Ask
  <2>2. Found(u) \in Rows \cup {NoRow}
    BY FoundRow
  <2>3. Found(u) # NoRow => Found(u) <= made' /\ row'[Found(u)].thread = u
    <3> SUFFICES ASSUME Found(u) # NoRow PROVE Found(u) <= made' /\ row'[Found(u)].thread = u
      OBVIOUS
    <3>1. Found(u) \in Rows /\ Found(u) <= made /\ row[Found(u)].thread = u
      BY FoundRow
    <3> QED BY <1>0, <1>1, <3>1 DEF Rows
  <2>4. AskedType'
    BY <1>0, <2>1, <2>2 DEF AskedType
  <2>5. ASSUME NEW q \in Requests PROVE HeldRow(q)'
    <3>1. CASE q = r
      <4>1. /\ asked'[q].at = "looked" /\ asked'[q].thread = u
            /\ asked'[q].assistant = a /\ asked'[q].row = Found(u)
        BY <1>0, <2>1, <3>1 DEF AskedType
      <4> QED BY <2>3, <4>1 DEF HeldRow
    <3>2. CASE q # r
      <4>1. asked'[q] = asked[q]
        BY <1>0, <2>1, <3>2 DEF AskedType
      <4> QED BY <1>0, <1>2, <4>1 DEF HeldRow
    <3> QED BY <3>1, <3>2
  <2> QED BY <2>4, <2>5
<1>6. ASSUME NEW r \in Requests, OpenThread(r) PROVE Goal
  <2>1. /\ asked[r].at = "looked"
        /\ asked' = [asked EXCEPT ![r].at = "opened", ![r].row = made + 1]
        /\ made < MaxRows /\ made' = made + 1
        /\ row' = [row EXCEPT ![made + 1] =
                     [thread |-> asked[r].thread, status |-> "busy",
                      config |-> Merge(catalog[asked[r].assistant], Own(r))]]
    BY <1>6 DEF OpenThread, NewRow
  <2>2. made + 1 \in Rows /\ made + 1 # NoRow /\ made + 1 <= made'
    BY <1>0, <2>1 DEF Rows
  <2>3. row'[made + 1].thread = asked[r].thread
    BY <2>1, <2>2 DEF ConfiguredInv, ConfiguredTypes
  <2>4. AskedType'
    BY <1>0, <2>1, <2>2, ZenonT(30) DEF AskedType
  <2>5. ASSUME NEW q \in Requests PROVE HeldRow(q)'
    <3>1. CASE q = r
      <4>1. /\ asked'[q].at = "opened" /\ asked'[q].thread = asked[r].thread
            /\ asked'[q].assistant = asked[r].assistant /\ asked'[q].row = made + 1
        BY <1>0, <2>1, <3>1 DEF AskedType
      <4>2. asked[r].assistant \in Assistants
        BY <1>0, <2>1 DEF HeldRow
      <4> QED BY <2>2, <2>3, <4>1, <4>2 DEF HeldRow
    <3>2. CASE q # r
      <4>1. asked'[q] = asked[q]
        BY <1>0, <2>1, <3>2 DEF AskedType
      <4> QED BY <1>0, <1>2, <4>1 DEF HeldRow
    <3> QED BY <3>1, <3>2
  <2> QED BY <2>4, <2>5
<1>7. ASSUME NEW r \in Requests, Refuse(r) \/ PutOnNew(r) \/ PutOnFound(r)
      PROVE  Goal
  <2>1. asked[r].at # "new" /\ \E place \in {"refused", "answered"} :
            asked' = [asked EXCEPT ![r].at = place]
    BY <1>7 DEF Refuse, PutOnNew, PutOnFound, Insert
  <2> QED BY <1>4, <2>1
<1> HIDE DEF Goal
<1>8. ASSUME NEW u, CreateThread(u) \/ DeleteThread(u) PROVE Goal
  BY <1>3, <1>8 DEF CreateThread, DeleteThread
<1>9. ASSUME NEW a, NEW v, Patch(a, v) PROVE Goal
  BY <1>3, <1>9 DEF Patch
<1>10. ASSUME NEW r, End(r) PROVE Goal
  BY <1>3, <1>10 DEF End
<1>11. Goal
  BY <1>5, <1>6, <1>7, <1>8, <1>9, <1>10 DEF Next
<1> QED BY <1>11 DEF Goal

RunType == run \in [Requests -> [in : BOOLEAN, over : BOOLEAN, thread : Uuids \cup {NoRow},
                                 config : [Keys -> Values]]]

\* What makes the run of a request one of its own.
RunOf(r) == run[r].in =>
    /\ asked[r].at = "answered" /\ run[r].thread = asked[r].thread
    /\ \A k \in Keys :
          /\ k \in asked[r].names => run[r].config[k] = r
          /\ run[r].config[k] \in Requests =>
                \/ NamedOn(run[r].config[k], k, run[r].thread)
                \/ run[r].config[k] = r /\ k = UserId

LEMMA RunsOf == ConfiguredInv => RunType /\ \A r \in Requests : RunOf(r)
BY DEF ConfiguredInv, ConfiguredTypes, Held, RunValues, RunType, RunOf

\* A run that a step leaves, or ends.
LEMMA RunStays ==
    ASSUME ConfiguredInv, Next, NEW r \in Requests, asked[r].at = "answered" => asked'[r] = asked[r],
           run'[r].in => /\ run[r].in
                         /\ run'[r].thread = run[r].thread
                         /\ run'[r].config = run[r].config
    PROVE  RunOf(r)'
<1> SUFFICES ASSUME run'[r].in
             PROVE  /\ asked'[r].at = "answered" /\ run'[r].thread = asked'[r].thread
                    /\ \A k \in Keys :
                          /\ k \in asked'[r].names => run'[r].config[k] = r
                          /\ run'[r].config[k] \in Requests =>
                                \/ NamedOnNext(run'[r].config[k], k, run'[r].thread)
                                \/ run'[r].config[k] = r /\ k = UserId
  BY DEF RunOf, NamedOn, NamedOnNext
<1>1. RunOf(r) /\ run[r].in
  BY RunsOf
<1>2. asked'[r] = asked[r] /\ asked[r].at = "answered" /\ run[r].thread = asked[r].thread
  BY <1>1 DEF RunOf
<1>3. ASSUME NEW k \in Keys
      PROVE  /\ k \in asked[r].names => run[r].config[k] = r
             /\ run[r].config[k] \in Requests =>
                   \/ NamedOnNext(run[r].config[k], k, run[r].thread)
                   \/ run[r].config[k] = r /\ k = UserId
  BY <1>1, NamedStays DEF RunOf
<1> QED BY <1>2, <1>3

\* The run a request inserts.
LEMMA InsertKeeps ==
    ASSUME ConfigurationAssumption, ConfiguredInv, Next, NEW r \in Requests,
           NEW base, Fits(base, asked[r].thread),
           NEW stored, Fits(stored, asked[r].thread),
           asked[r].at \in {"looked", "opened"},
           Insert(r, base, stored)
    PROVE  RunType' /\ \A q \in Requests : RunOf(q)'
<1> DEFINE f == RunConfig(r, base, stored)
<1>0. RunType /\ AskedType /\ \A q \in Requests : RunOf(q)
  BY RunsOf DEF ConfiguredInv, ConfiguredTypes, AskedType
<1>1. /\ f \in [Keys -> Values]
      /\ \A k \in Keys :
            /\ k \in asked[r].names => f[k] = r
            /\ f[k] \in Requests => NamedOn(f[k], k, asked[r].thread) \/ (f[k] = r /\ k = UserId)
  BY RunConfigFits
<1> HIDE DEF f
<1>2. ~run[r].in
  BY <1>0 DEF RunOf
<1>3. ASSUME NEW q \in Requests, q # r PROVE RunOf(q)'
  <2>1. asked'[q] = asked[q] /\ run'[q] = run[q]
    BY <1>0, <1>3 DEF Insert, AskedType, RunType
  <2> QED BY <2>1, RunStays
<1>4. CASE run' = run
  <2>1. RunOf(r)'
    BY <1>2, <1>4 DEF RunOf
  <2>2. RunType'
    BY <1>0, <1>4 DEF RunType
  <2> QED BY <1>3, <2>1, <2>2
<1>5. CASE run' # run
  <2>1. /\ asked' = [asked EXCEPT ![r].at = "answered"]
        /\ run' = [run EXCEPT ![r] = [in |-> TRUE, over |-> FALSE,
                                      thread |-> asked[r].thread, config |-> f]]
    BY <1>5 DEF Insert, f
  <2>2. /\ asked'[r].at = "answered" /\ asked'[r].thread = asked[r].thread
        /\ asked'[r].names = asked[r].names
        /\ run'[r].thread = asked[r].thread /\ run'[r].config = f
    BY <1>0, <2>1 DEF AskedType, RunType
  <2>3. RunType'
    BY <1>0, <1>1, <2>1 DEF RunType, AskedType
  <2>4. ASSUME NEW k \in Keys
        PROVE  /\ k \in asked'[r].names => run'[r].config[k] = r
               /\ run'[r].config[k] \in Requests =>
                     \/ NamedOnNext(run'[r].config[k], k, run'[r].thread)
                     \/ run'[r].config[k] = r /\ k = UserId
    BY <1>1, <2>2, NamedStays
  <2>5. RunOf(r)'
    BY <2>2, <2>4 DEF RunOf, NamedOn, NamedOnNext
  <2> QED BY <1>3, <2>3, <2>5
<1> QED BY <1>4, <1>5

LEMMA RunsKept ==
    ASSUME ConfigurationAssumption, ConfiguredInv, Next
    PROVE  RunType' /\ \A r \in Requests : RunOf(r)'
<1> DEFINE Goal == RunType' /\ \A r \in Requests : RunOf(r)'
<1>0. RunType /\ AskedType
  BY RunsOf DEF ConfiguredInv, ConfiguredTypes, AskedType
<1>1. UNCHANGED run /\ (\A q \in Requests : asked[q].at = "answered" => asked'[q] = asked[q]) => Goal
  <2> SUFFICES ASSUME UNCHANGED run, \A q \in Requests : asked[q].at = "answered" => asked'[q] = asked[q]
               PROVE  Goal
    OBVIOUS
  <2>1. RunType'
    BY <1>0 DEF RunType
  <2>2. ASSUME NEW r \in Requests PROVE RunOf(r)'
    BY RunStays
  <2> QED BY <2>1, <2>2
<1>2. ASSUME NEW u, DeleteThread(u) PROVE Goal
  <2>1. /\ run' = [r \in Requests |-> IF run[r].thread = u THEN NoRun ELSE run[r]]
        /\ asked' = asked
    BY <1>2 DEF DeleteThread
  <2>2. NoRun \in [in : BOOLEAN, over : BOOLEAN, thread : Uuids \cup {NoRow},
                   config : [Keys -> Values]]
    BY DEF NoRun, Empty, Values
  <2>3. RunType'
    BY <1>0, <2>1, <2>2 DEF RunType
  <2>4. ASSUME NEW r \in Requests PROVE RunOf(r)'
    <3>1. run'[r].in => run[r].in /\ run'[r] = run[r]
      BY <2>1 DEF NoRun
    <3> QED BY <2>1, <3>1, RunStays
  <2> QED BY <2>3, <2>4
<1>3. ASSUME NEW r \in Requests, End(r) PROVE Goal
  <2>1. run' = [run EXCEPT ![r].over = TRUE] /\ asked' = asked
    BY <1>3 DEF End
  <2>2. RunType'
    BY <1>0, <2>1 DEF RunType
  <2>3. ASSUME NEW q \in Requests PROVE RunOf(q)'
    <3>1. /\ run'[q].in = run[q].in /\ run'[q].thread = run[q].thread
          /\ run'[q].config = run[q].config
      BY <1>0, <2>1 DEF RunType
    <3> QED BY <2>1, <3>1, RunStays
  <2> QED BY <2>2, <2>3
<1>4. ASSUME NEW r \in Requests, PutOnNew(r) PROVE Goal
  <2>1. asked[r].at = "opened" /\ Insert(r, catalog[asked[r].assistant], Empty)
    BY <1>4 DEF PutOnNew
  <2>2. asked[r].assistant \in Assistants
    BY <2>1 DEF ConfiguredInv, Held
  <2>3. Fits(catalog[asked[r].assistant], asked[r].thread) /\ Fits(Empty, asked[r].thread)
    BY <2>2, CatalogFits, EmptyFits
  <2> QED BY <2>1, <2>3, InsertKeeps
<1>5. ASSUME NEW r \in Requests, PutOnFound(r) PROVE Goal
  <2> DEFINE j == asked[r].row
             c == IF row[j].status = "busy" THEN row[j].config ELSE Left(r)
  <2>1. asked[r].at = "looked" /\ j # NoRow /\ Insert(r, catalog[asked[r].assistant], c)
    BY <1>5 DEF PutOnFound
  <2>2. asked[r].assistant \in Assistants /\ j \in Rows /\ row[j].thread = asked[r].thread
    BY <2>1 DEF ConfiguredInv, Held, ConfiguredTypes
  <2>3. Fits(c, asked[r].thread)
    BY <2>1, <2>2, LeftFits, RowFits
  <2>4. Fits(catalog[asked[r].assistant], asked[r].thread)
    BY <2>2, CatalogFits
  <2> HIDE DEF c
  <2> QED BY <2>1, <2>3, <2>4, InsertKeeps
<1>6. ASSUME NEW r \in Requests, NEW u, NEW a, NEW names, NEW b, Ask(r, u, a, names, b)
      PROVE  Goal
  <2>1. UNCHANGED run /\ \A q \in Requests : asked[q].at = "answered" => asked'[q] = asked[q]
    BY <1>0, <1>6 DEF Ask, AskedType
  <2> QED BY <1>1, <2>1
<1>7. ASSUME NEW r \in Requests, Refuse(r) \/ OpenThread(r) PROVE Goal
  <2>1. UNCHANGED run /\ \A q \in Requests : asked[q].at = "answered" => asked'[q] = asked[q]
    BY <1>0, <1>7 DEF Refuse, OpenThread, AskedType
  <2> QED BY <1>1, <2>1
<1> HIDE DEF Goal
<1>8. ASSUME NEW u, CreateThread(u) PROVE Goal
  BY <1>1, <1>8 DEF CreateThread
<1>9. ASSUME NEW a, NEW v, Patch(a, v) PROVE Goal
  BY <1>1, <1>9 DEF Patch
<1>10. Goal
  BY <1>2, <1>3, <1>4, <1>5, <1>6, <1>7, <1>8, <1>9 DEF Next
<1> QED BY <1>10 DEF Goal

LEMMA CatalogKept ==
    ASSUME ConfiguredInv, Next
    PROVE  catalog' \in [Assistants -> [Keys -> Settings \cup {NoValue}]]
<1>0. catalog \in [Assistants -> [Keys -> Settings \cup {NoValue}]]
  BY DEF ConfiguredInv, ConfiguredTypes
<1>1. ASSUME NEW a \in Assistants, NEW v \in Settings, Patch(a, v)
      PROVE  catalog' \in [Assistants -> [Keys -> Settings \cup {NoValue}]]
  BY <1>0, <1>1 DEF Patch
<1>2. CASE UNCHANGED catalog
  BY <1>0, <1>2
<1> QED
  BY <1>1, <1>2 DEF Next, CreateThread, DeleteThread, Ask, Refuse, OpenThread,
     PutOnNew, PutOnFound, End

LEMMA ConfiguredStep == ConfigurationAssumption /\ ConfiguredInv /\ [Next]_vars => ConfiguredInv'
<1> SUFFICES ASSUME ConfigurationAssumption, ConfiguredInv, [Next]_vars PROVE ConfiguredInv'
  OBVIOUS
<1>1. CASE Next
  <2>1. ConfiguredTypes'
    BY <1>1, RowValuesKept, TableKept, AskedKept, RunsKept, CatalogKept
       DEF ConfiguredTypes, AskedType, RunType
  <2>2. TableMade' /\ RowValues'
    BY <1>1, TableKept, RowValuesKept
  <2>3. Held'
    BY <1>1, AskedKept, RunsKept DEF Held, HeldRow, RunOf
  <2>4. RunValues'
    BY <1>1, RunsKept DEF RunValues, RunOf
  <2> QED BY <2>1, <2>2, <2>3, <2>4 DEF ConfiguredInv
<1>2. CASE UNCHANGED vars
  <2> USE <1>2 DEF vars
  <2>1. ConfiguredTypes'
    BY DEF ConfiguredInv, ConfiguredTypes
  <2>2. TableMade' /\ Held'
    BY DEF ConfiguredInv, TableMade, Held
  <2>3. RowValues' /\ RunValues'
    BY DEF ConfiguredInv, RowValues, RunValues, NamedOn
  <2> QED BY <2>1, <2>2, <2>3 DEF ConfiguredInv
<1> QED BY <1>1, <1>2

\* A value of a run was named by a request on its thread or set for an assistant,
\* and what its own request names it has, for any number of requests, threads,
\* rows, deletions and patches that come between (Runs.put, create_valid_run).
THEOREM ValuesOfTheThread == Spec => []Provenance
<1>1. ConfiguredInv => Provenance
  <2> SUFFICES ASSUME ConfiguredInv, NEW r \in Requests, run[r].in, NEW k \in Keys
               PROVE  /\ k \in asked[r].names => run[r].config[k] = r
                      /\ run[r].config[k] \in Requests =>
                           LET q == run[r].config[k]
                           IN /\ asked[q].thread = run[r].thread
                              /\ k \in asked[q].names \/ k = UserId
    BY DEF Provenance
  <2> QED BY RunsOf DEF RunOf, NamedOn
<1>2. Init => ConfiguredInv
  BY ConfigurationAssumed, ConfiguredInit
<1>3. ConfiguredInv /\ [Next]_vars => ConfiguredInv'
  BY ConfigurationAssumed, ConfiguredStep
<1> QED BY <1>1, <1>2, <1>3, PTL DEF Spec

----------------------------------------------------------------------------
(* Who reaches a thread.                                                   *)

ThreadRow == [id : A!Ids, owner : Users \cup {Nobody}, made : 1..(MaxRows + 1)]

\* Rows stand in the order they were made in, and no two were made together.
InOrder ==
    /\ \A i, j \in 1..Len(rows) : i < j => rows[i].made < rows[j].made
    /\ \A i \in 1..Len(rows) : rows[i].made <= clock

\* The handler of an action, were nothing ever cached.
Rule(act) ==
    IF A!First(act) = {} THEN "none"
    ELSE handlers[A!Tried(act)[CHOOSE i \in A!First(act) : TRUE]]

\* What is cached for an action is its handler.
CacheTrue ==
    \A act \in A!Actions : cache[<<"threads", act>>] \in {"none", handlers[<<"threads", act>>]}

\* A call names a thread, and one that found a row holds its position.
Holds ==
    \A s \in Slots : /\ call[s].op # "none" => call[s].id \in A!Ids
                     /\ call[s].op \in {"patch", "delete"} => call[s].at > 0

\* Of the rows a reader could see when it began, those it has not been given are
\* on pages to come.
StillToCome ==
    \A m \in listing.mine :
        \E x \in A!Visible(listing.user) :
            x.made = m /\ (m \in listing.got \/ A!Rank(listing.user, x) >= listing.offset)

Reading ==
    /\ listing.user = Nobody => listing = A!NotListing
    /\ listing.user # Nobody /\ ~listing.done /\ ~listing.deleted => StillToCome
    /\ A!PagesComplete

ListingType ==
    listing \in [user : Users \cup {Nobody}, offset : Nat, got : SUBSET Nat, mine : SUBSET Nat,
                 deleted : BOOLEAN, done : BOOLEAN]

Base == A!TypeOK /\ ListingType /\ InOrder /\ CacheTrue /\ Holds

AccessInv == Base /\ Reading

----------------------------------------------------------------------------
(* Authorization.                                                          *)

\* The cache does not change which handler an action has.
LEMMA HandlerIsRule ==
    ASSUME A!TypeOK, CacheTrue, NEW act \in A!Actions
    PROVE  A!Handler(act) = Rule(act)
<1>1. A!Tried(act)[1] = <<"threads", act>>
  BY DEF A!Tried
<1>2. CASE cache[<<"threads", act>>] # "none"
  <2>1. cache[<<"threads", act>>] = handlers[<<"threads", act>>]
    BY <1>2 DEF CacheTrue
  <2>2. 1 \in A!First(act)
    BY <1>1, <1>2, <2>1 DEF A!First
  <2>3. \A i \in A!First(act) : i = 1
    BY <1>1, <1>2, <2>1 DEF A!First
  <2>4. (CHOOSE i \in A!First(act) : TRUE) = 1
    BY <2>2, <2>3
  <2> QED BY <1>1, <1>2, <2>1, <2>2, <2>4 DEF A!Handler, Rule
<1>3. CASE cache[<<"threads", act>>] = "none"
  BY <1>3 DEF A!Handler, Rule
<1> QED BY <1>2, <1>3

\* Nor does asking for a handler make the cache untrue.
LEMMA StaysTrue ==
    ASSUME A!TypeOK, CacheTrue, NEW act \in A!Actions, cache' = A!Cached(act),
           UNCHANGED handlers
    PROVE  cache' \in [A!Patterns -> A!Behaviours] /\ CacheTrue'
<1>1. CASE cache' = cache
  BY <1>1 DEF CacheTrue, A!TypeOK
<1>2. CASE cache' # cache
  <2> DEFINE k == CHOOSE i \in A!First(act) : TRUE
             p == A!Tried(act)[k]
  <2>1. /\ A!First(act) # {} /\ cache[<<"threads", act>>] = "none"
        /\ cache' = [cache EXCEPT ![p] = A!Handler(act)]
    BY <1>2 DEF A!Cached
  <2>2. k \in A!First(act)
    BY <2>1
  <2>3. k \in 1..4 /\ handlers[p] # "none"
    BY <2>2 DEF A!First
  <2> HIDE DEF k
  <2>4. p \in {<<"threads", act>>, <<"threads", "*">>, <<"*", act>>, <<"*", "*">>}
    BY <2>3 DEF A!Tried
  <2>5. /\ <<"threads", act>> \in A!Patterns /\ <<"threads", "*">> \in A!Patterns
        /\ <<"*", act>> \in A!Patterns /\ <<"*", "*">> \in A!Patterns
    BY DEF A!Patterns
  <2>6. A!Handler(act) = handlers[p]
    BY <2>1 DEF A!Handler, k
  <2> HIDE DEF p
  <2>7. p \in A!Patterns
    BY <2>4, <2>5
  <2>8. handlers[p] \in A!Behaviours /\ cache \in [A!Patterns -> A!Behaviours]
    BY <2>7 DEF A!TypeOK
  <2>9. ASSUME NEW a \in A!Actions
        PROVE  cache'[<<"threads", a>>] \in {"none", handlers'[<<"threads", a>>]}
    <3>1. <<"threads", a>> \in A!Patterns
      BY DEF A!Patterns
    <3> QED BY <2>1, <2>6, <2>8, <3>1 DEF CacheTrue
  <2> QED BY <2>1, <2>6, <2>8, <2>9 DEF CacheTrue
<1> QED BY <1>1, <1>2

----------------------------------------------------------------------------
(* Pages.                                                                  *)

\* Counting is the same operator in Access.
LEMMA SameCount == ASSUME NEW S PROVE A!Cardinality(S) = Cardinality(S)
  BY DEF A!Cardinality, Cardinality

\* How many of V are newer than x.
Newer(V, x) == Cardinality({y \in V : y.made > x.made})

\* What was made at moments that differ is counted from the newest: the ranks are
\* 0, 1, ... up to the oldest's, with none left out.
LEMMA EveryRankIsTaken ==
    ASSUME NEW V, IsFiniteSet(V), \A y \in V : y.made \in Nat,
           \A y, z \in V : y.made = z.made => y = z,
           NEW x \in V, NEW k \in Nat, k <= Newer(V, x)
    PROVE  \E y \in V : Newer(V, y) = k
<1> DEFINE N(y) == {z \in V : z.made > y.made}
           n == Cardinality(V)
           f == [y \in V |-> Newer(V, y)]
<1>1. n \in Nat /\ \A y \in V : /\ N(y) \in SUBSET V /\ IsFiniteSet(N(y))
                                /\ Newer(V, y) = Cardinality(N(y)) /\ Newer(V, y) \in Nat
  <2>1. n \in Nat
    BY FS_CardinalityType
  <2>2. ASSUME NEW y \in V
        PROVE  /\ N(y) \in SUBSET V /\ IsFiniteSet(N(y))
               /\ Newer(V, y) = Cardinality(N(y)) /\ Newer(V, y) \in Nat
    <3>1. N(y) \in SUBSET V
      OBVIOUS
    <3>2. IsFiniteSet(N(y))
      BY <3>1, FS_Subset
    <3> QED BY <3>1, <3>2, FS_CardinalityType DEF Newer
  <2> QED BY <2>1, <2>2
<1>2. ASSUME NEW y \in V PROVE Newer(V, y) < n
  <2>1. y \notin N(y)
    OBVIOUS
  <2>2. Cardinality(N(y)) <= n /\ (Cardinality(N(y)) = n => N(y) = V)
    BY <1>1, FS_Subset
  <2> HIDE DEF N, n
  <2>3. Cardinality(N(y)) \in Nat /\ Newer(V, y) = Cardinality(N(y))
    BY <1>1
  <2> QED BY <1>1, <2>1, <2>2, <2>3
<1>3. ASSUME NEW y \in V, NEW z \in V, y.made < z.made
      PROVE  Newer(V, z) < Newer(V, y)
  <2>1. N(z) \in SUBSET N(y) /\ z \in N(y) /\ z \notin N(z)
    BY <1>3
  <2>2. /\ Cardinality(N(z)) <= Cardinality(N(y))
        /\ Cardinality(N(z)) = Cardinality(N(y)) => N(y) = N(z)
    <3> HIDE DEF N
    <3> QED BY <1>1, <2>1, FS_Subset
  <2> HIDE DEF N
  <2>3. /\ Cardinality(N(y)) \in Nat /\ Newer(V, y) = Cardinality(N(y))
        /\ Cardinality(N(z)) \in Nat /\ Newer(V, z) = Cardinality(N(z))
    BY <1>1
  <2> QED BY <2>1, <2>2, <2>3
<1> HIDE DEF N, n
<1>4. f \in [V -> 0..(n - 1)]
  <2> SUFFICES ASSUME NEW y \in V PROVE Newer(V, y) \in 0..(n - 1)
    OBVIOUS
  <2>1. Newer(V, y) \in Nat /\ Newer(V, y) < n /\ n \in Nat
    BY <1>1, <1>2
  <2> QED BY <2>1
<1>5. ASSUME NEW y \in V, NEW z \in V, f[y] = f[z] PROVE y = z
  <2>1. Newer(V, y) = Newer(V, z)
    BY <1>5
  <2>2. Newer(V, y) \in Nat /\ Newer(V, z) \in Nat
    BY <1>1
  <2>3. ~ (y.made < z.made)
    BY <1>3, <2>1, <2>2
  <2>4. ~ (z.made < y.made)
    BY <1>3, <2>1, <2>2
  <2> QED BY <2>3, <2>4
<1>6. f \in Injection(V, 0..(n - 1))
  <2> HIDE DEF f
  <2> QED BY <1>4, <1>5 DEF Injection, IsInjective
<1>7. IsFiniteSet(0..(n - 1)) /\ Cardinality(0..(n - 1)) = n
  <2>1. 0 \in Int /\ n - 1 \in Int
    BY <1>1
  <2>2. IsFiniteSet(0..(n - 1)) /\ Cardinality(0..(n - 1)) = IF 0 > n - 1 THEN 0 ELSE n - 1 - 0 + 1
    BY <2>1, FS_Interval
  <2> QED BY <1>1, <2>2
<1>8. f \in Surjection(V, 0..(n - 1))
  <2>1. Cardinality(V) = Cardinality(0..(n - 1))
    BY <1>7 DEF n
  <2> HIDE DEF f
  <2> QED BY <1>6, <1>7, <2>1, FS_Injection
<1>9. k \in 0..(n - 1)
  <2>1. Newer(V, x) \in Nat /\ Newer(V, x) < n /\ n \in Nat
    BY <1>1, <1>2
  <2> QED BY <2>1
<1>10. PICK y \in V : f[y] = k
  <2> HIDE DEF f, n
  <2> QED BY <1>8, <1>9 DEF Surjection
<1> QED BY <1>10

LEMMA MadeFinite ==
    ASSUME NEW V, IsFiniteSet(V)
    PROVE  IsFiniteSet({y.made : y \in V})
<1> DEFINE P == {y.made : y \in V}
           g == [y \in V |-> y.made]
<1>1. g \in [V -> P] /\ \A m \in P : \E y \in V : g[y] = m
  OBVIOUS
<1>2. g \in Surjection(V, P)
  <2> HIDE DEF g, P
  <2> QED BY <1>1 DEF Surjection
<1> HIDE DEF g
<1> QED BY <1>2, FS_Surjection

\* A page before one that has a row on it is full.
LEMMA PageIsFull ==
    ASSUME NEW V, IsFiniteSet(V), \A y \in V : y.made \in Nat,
           \A y, z \in V : y.made = z.made => y = z,
           NEW k \in Nat, NEW l \in Nat \ {0},
           NEW x \in V, Newer(V, x) >= k + l
    PROVE  Cardinality({y.made : y \in {z \in V : Newer(V, z) >= k /\ Newer(V, z) < k + l}}) >= l
<1> DEFINE On == {z \in V : Newer(V, z) >= k /\ Newer(V, z) < k + l}
           P == {y.made : y \in On}
           Taken(m) == CHOOSE r \in k..(k + l - 1) : \E y \in On : y.made = m /\ Newer(V, y) = r
           f == [m \in P |-> Taken(m)]
<1>1. \A y \in V : Newer(V, y) \in Nat
  <2> TAKE y \in V
  <2>1. {z \in V : z.made > y.made} \in SUBSET V
    OBVIOUS
  <2> QED BY <2>1, FS_Subset, FS_CardinalityType DEF Newer
<1>2. ASSUME NEW m \in P, NEW y \in On, y.made = m
      PROVE  Taken(m) = Newer(V, y)
  <2>1. Newer(V, y) \in k..(k + l - 1)
    BY <1>1
  <2>2. \A z \in On : z.made = m => z = y
    BY <1>2
  <2>3. \A r \in k..(k + l - 1) : (\E z \in On : z.made = m /\ Newer(V, z) = r) => r = Newer(V, y)
    BY <2>2
  <2>4. \E z \in On : z.made = m /\ Newer(V, z) = Newer(V, y)
    BY <1>2
  <2> HIDE DEF On
  <2> QED BY <2>1, <2>3, <2>4
<1>3. f \in [P -> k..(k + l - 1)]
  <2> SUFFICES ASSUME NEW m \in P PROVE Taken(m) \in k..(k + l - 1)
    OBVIOUS
  <2>1. PICK y \in On : y.made = m
    OBVIOUS
  <2>2. Taken(m) = Newer(V, y)
    BY <1>2, <2>1
  <2> HIDE DEF Taken
  <2> QED BY <1>1, <2>2
<1>4. ASSUME NEW r \in k..(k + l - 1) PROVE \E m \in P : f[m] = r
  <2>1. r \in Nat /\ r <= Newer(V, x)
    BY <1>1
  <2>2. PICK y \in V : Newer(V, y) = r
    BY <2>1, EveryRankIsTaken
  <2>3. y \in On /\ y.made \in P
    BY <2>2
  <2>4. Taken(y.made) = r
    BY <1>2, <2>2, <2>3
  <2> HIDE DEF Taken, P
  <2> QED BY <2>3, <2>4
<1>5. f \in Surjection(P, k..(k + l - 1))
  <2> HIDE DEF f, P
  <2> QED BY <1>3, <1>4 DEF Surjection
<1>6. IsFiniteSet(P)
  <2>1. IsFiniteSet(On)
    BY FS_Subset
  <2> HIDE DEF On
  <2> QED BY <2>1, MadeFinite
<1>7. Cardinality(k..(k + l - 1)) = l
  <2>1. k \in Int /\ k + l - 1 \in Int
    OBVIOUS
  <2>2. Cardinality(k..(k + l - 1)) = IF k > k + l - 1 THEN 0 ELSE k + l - 1 - k + 1
    BY <2>1, FS_Interval
  <2> QED BY <2>2
<1>8. Cardinality(k..(k + l - 1)) <= Cardinality(P)
  <2> HIDE DEF f, P
  <2> QED BY <1>5, <1>6, FS_Surjection
<1>9. Cardinality(P) \in Nat
  BY <1>6, FS_CardinalityType
<1> QED BY <1>7, <1>8, <1>9

\* The rows a reader can see are finitely many, and no two of one moment.
LEMMA VisibleRows ==
    ASSUME Base, NEW u
    PROVE  /\ IsFiniteSet(A!Visible(u))
           /\ \A y \in A!Visible(u) : y \in ThreadRow /\ y.made \in Nat
           /\ \A y, z \in A!Visible(u) : y.made = z.made => y = z
           /\ \A x : A!Rank(u, x) = Newer(A!Visible(u), x)
           /\ \A x : A!Rank(u, x) \in Nat
<1> DEFINE In == {rows[i] : i \in 1..Len(rows)}
           f == [i \in 1..Len(rows) |-> rows[i]]
<1>1. rows \in Seq(ThreadRow) /\ Len(rows) \in Nat /\ MaxRows \in Nat
  BY AccessAssumed, ConfigurationAssumed
  DEF Base, A!TypeOK, ThreadRow, A!AccessAssumption, ConfigurationAssumption
<1>2. f \in Surjection(1..Len(rows), In)
  <2>1. f \in [1..Len(rows) -> In] /\ \A x \in In : \E i \in 1..Len(rows) : f[i] = x
    OBVIOUS
  <2> HIDE DEF f, In
  <2> QED BY <2>1 DEF Surjection
<1>3. IsFiniteSet(In)
  <2>1. IsFiniteSet(1..Len(rows))
    BY <1>1, FS_Interval
  <2> HIDE DEF f, In
  <2> QED BY <1>2, <2>1, FS_Surjection
<1>4. A!Visible(u) \in SUBSET In
  BY DEF A!Visible
<1>5. IsFiniteSet(A!Visible(u))
  <2> HIDE DEF In
  <2> QED BY <1>3, <1>4, FS_Subset
<1>6. \A y \in A!Visible(u) : \E i \in 1..Len(rows) : y = rows[i]
  BY <1>4
<1>7. ASSUME NEW y \in A!Visible(u) PROVE y \in ThreadRow /\ y.made \in Nat
  <2>1. y \in ThreadRow
    BY <1>1, <1>6
  <2> QED BY <1>1, <2>1 DEF ThreadRow
<1>8. ASSUME NEW y \in A!Visible(u), NEW z \in A!Visible(u), y.made = z.made PROVE y = z
  <2>1. PICK i \in 1..Len(rows) : y = rows[i]
    BY <1>6
  <2>2. PICK j \in 1..Len(rows) : z = rows[j]
    BY <1>6
  <2>3. ~ (i < j) /\ ~ (j < i)
    BY <1>7, <1>8, <2>1, <2>2 DEF Base, InOrder
  <2> QED BY <1>1, <2>1, <2>2, <2>3
<1>9. \A x : A!Rank(u, x) = Newer(A!Visible(u), x)
  BY SameCount DEF A!Rank, Newer
<1>10. ASSUME NEW x PROVE A!Rank(u, x) \in Nat
  <2>1. {y \in A!Visible(u) : y.made > x.made} \in SUBSET A!Visible(u)
    OBVIOUS
  <2>2. Cardinality({y \in A!Visible(u) : y.made > x.made}) \in Nat
    BY <1>5, <2>1, FS_Subset, FS_CardinalityType
  <2> QED BY <2>2, SameCount DEF A!Rank
<1> QED BY <1>5, <1>7, <1>8, <1>9, <1>10

LEMMA VisibleAreFinite == Base => \A u : IsFiniteSet(A!Visible(u))
  BY VisibleRows

LEMMA HandlersAreRules == Base => \A act \in A!Actions : A!Handler(act) = Rule(act)
  BY HandlerIsRule DEF Base

LEMMA VisibleStayFinite == Base' => (\A u : IsFiniteSet(A!Visible(u)))'
  BY VisibleAreFinite, PTL

LEMMA HandlersStayRules == Base' => (\A act \in A!Actions : A!Handler(act) = Rule(act))'
  BY HandlersAreRules, PTL

\* The handler of an action never changes.
LEMMA SameHandler ==
    ASSUME Base, Base', UNCHANGED handlers, NEW act \in A!Actions
    PROVE  A!Handler(act)' = A!Handler(act)
<1>1. A!Handler(act) = Rule(act)
  BY HandlersAreRules
<1>3. A!Handler(act)' = Rule(act)'
  BY HandlersStayRules
<1>4. Rule(act)' = Rule(act)
  BY DEF Rule, A!First, A!Tried
<1> QED BY <1>1, <1>3, <1>4

\* Rows that are added take nothing from what a reader can see.
LEMMA StillVisible ==
    ASSUME Base, Base', UNCHANGED handlers, NEW u,
           \A i \in 1..Len(rows) : i \in 1..Len(rows') /\ rows'[i] = rows[i]
    PROVE  A!Visible(u) \subseteq A!Visible(u)'
<1>1. A!Handler("search")' = A!Handler("search")
  BY SameHandler DEF A!Actions
<1> QED BY <1>1 DEF A!Visible, A!Lets

\* What was to come is still to come when rows are added.
LEMMA ReadingGoesOn ==
    ASSUME AccessInv, Base', UNCHANGED <<handlers, listing>>,
           \A i \in 1..Len(rows) : i \in 1..Len(rows') /\ rows'[i] = rows[i]
    PROVE  Reading'
<1>1. Base /\ Reading
  BY DEF AccessInv
<1>2. A!PagesComplete'
  BY <1>1 DEF Reading, A!PagesComplete
<1>3. ASSUME listing.user # Nobody, ~listing.done, ~listing.deleted PROVE StillToCome'
  <2> DEFINE u == listing.user
             V == A!Visible(u)
             W == A!Visible(u)'
             Past(X, x) == {y \in X : y.made > x.made}
  <2>0. \A x : /\ A!Rank(u, x) = Cardinality(Past(V, x))
               /\ A!Rank(u, x)' = Cardinality(Past(W, x))
    BY SameCount DEF A!Rank
  <2>1. V \subseteq W /\ listing' = listing
    BY <1>1, StillVisible
  <2>2. IsFiniteSet(W)
    <3>1. \A v : IsFiniteSet(A!Visible(v)')
      BY VisibleStayFinite
    <3> QED BY <3>1
  <2>3. ASSUME NEW m \in listing.mine
        PROVE  \E x \in W :
                  x.made = m /\ (m \in listing.got \/ Cardinality(Past(W, x)) >= listing.offset)
    <3>1. PICK x \in V : /\ x.made = m
                         /\ m \in listing.got \/ Cardinality(Past(V, x)) >= listing.offset
      BY <1>1, <1>3, <2>0 DEF Reading, StillToCome
    <3> HIDE DEF V, W
    <3>2. Past(V, x) \in SUBSET Past(W, x) /\ Past(W, x) \in SUBSET W
      BY <2>1
    <3>3. IsFiniteSet(Past(W, x))
      BY <2>2, <3>2, FS_Subset
    <3>4. /\ Cardinality(Past(V, x)) <= Cardinality(Past(W, x)) /\ IsFiniteSet(Past(V, x))
      BY <3>2, <3>3, FS_Subset
    <3>5. Cardinality(Past(V, x)) \in Nat /\ Cardinality(Past(W, x)) \in Nat
      BY <3>3, <3>4, FS_CardinalityType
    <3>6. listing.offset \in Nat
      BY <1>1 DEF Base, ListingType
    <3> HIDE DEF Past
    <3> QED BY <2>1, <3>1, <3>4, <3>5, <3>6
  <2> HIDE DEF Past
  <2> QED BY <2>0, <2>1, <2>3 DEF StillToCome
<1> QED BY <1>1, <1>2, <1>3 DEF Reading, A!NotListing

----------------------------------------------------------------------------
(* The steps.                                                              *)

CallType == [op : DOMAIN A!ActionOf \cup {"none"}, user : Users \cup {Nobody},
             id : A!Ids \cup {NoCall}, at : Nat, seen : Users \cup {Nobody}]

\* What a step leaves of the calls, the handlers and the cache.
CallsGoOn ==
    /\ UNCHANGED handlers
    /\ cache' \in [A!Patterns -> A!Behaviours] /\ CacheTrue'
    /\ calls' \in 0..MaxCalls
    /\ call' \in [Slots -> CallType] /\ Holds'

LEMMA RowsAre == Base => /\ rows \in Seq(ThreadRow) /\ Len(rows) \in Nat
                         /\ clock \in 0..(MaxRows + 1) /\ MaxRows \in Nat
                         /\ call \in [Slots -> CallType]
  BY AccessAssumed, ConfigurationAssumed
  DEF Base, A!TypeOK, ThreadRow, CallType, A!AccessAssumption, ConfigurationAssumption

\* No two rows were made at one moment.
LEMMA OneMoment ==
    ASSUME Base, NEW i \in 1..Len(rows), NEW j \in 1..Len(rows), rows[i].made = rows[j].made
    PROVE  i = j
<1>1. ~ (i < j) /\ ~ (j < i)
  <2>1. rows[i] \in ThreadRow /\ rows[j] \in ThreadRow /\ MaxRows \in Nat
    BY RowsAre
  <2>2. rows[i].made \in Nat /\ rows[j].made \in Nat
    BY <2>1 DEF ThreadRow
  <2> QED BY <2>2 DEF Base, InOrder
<1> QED BY <1>1, RowsAre

LEMMA NotReading == listing' = A!NotListing => Reading'
<1> SUFFICES ASSUME listing' = A!NotListing PROVE Reading'
  OBVIOUS
<1>1. listing'.user = Nobody
  BY DEF A!NotListing
<1>2. ~ listing'.done
  BY DEF A!NotListing
<1>3. A!PagesComplete'
  BY <1>2 DEF A!PagesComplete
<1>4. A!NotListing' = A!NotListing
  BY DEF A!NotListing
<1> QED BY <1>1, <1>3, <1>4 DEF Reading

LEMMA SameRows ==
    ASSUME AccessInv, CallsGoOn, UNCHANGED <<rows, clock, listing>>
    PROVE  AccessInv' /\ A!OwnerKept
<1>1. Base'
  BY DEF AccessInv, Base, CallsGoOn, CallType, A!TypeOK, ListingType, InOrder
<1>2. Reading'
  BY <1>1, ReadingGoesOn DEF CallsGoOn
<1>3. A!OwnerKept
  BY OneMoment DEF AccessInv, A!OwnerKept
<1> QED BY <1>1, <1>2, <1>3 DEF AccessInv

\* A row that is added is the newest.
LEMMA Adding ==
    ASSUME AccessInv, CallsGoOn, NEW id \in A!Ids, NEW owner \in Users \cup {Nobody},
           A!AddRow(id, owner)
    PROVE  AccessInv' /\ A!OwnerKept
<1> DEFINE x == [id |-> id, owner |-> owner, made |-> clock + 1]
<1>1. /\ rows \in Seq(ThreadRow) /\ Len(rows) \in Nat /\ clock \in 0..(MaxRows + 1)
      /\ MaxRows \in Nat /\ Base
  BY RowsAre DEF AccessInv
<1>2. rows' = Append(rows, x) /\ clock' = clock + 1 /\ clock < MaxRows + 1 /\ listing' = listing
  BY DEF A!AddRow
<1>3. x \in ThreadRow /\ clock' \in 0..(MaxRows + 1)
  BY <1>1, <1>2 DEF ThreadRow
<1>4. /\ rows' \in Seq(ThreadRow) /\ Len(rows') = Len(rows) + 1
      /\ \A i \in 1..Len(rows) : rows'[i] = rows[i]
      /\ rows'[Len(rows) + 1] = x
  <2> HIDE DEF x
  <2> QED BY <1>1, <1>2, <1>3
<1>5. \A i \in 1..Len(rows) : rows[i].made \in Nat /\ rows[i].made <= clock
  <2>1. \A i \in 1..Len(rows) : rows[i] \in ThreadRow
    BY <1>1
  <2> QED BY <1>1, <2>1 DEF Base, InOrder, ThreadRow
<1>6. InOrder'
  BY <1>1, <1>2, <1>4, <1>5 DEF Base, InOrder
<1>7. Base'
  BY <1>2, <1>3, <1>4, <1>6
  DEF AccessInv, Base, CallsGoOn, CallType, A!TypeOK, ListingType, ThreadRow
<1>8. Reading'
  BY <1>1, <1>2, <1>4, <1>7, ReadingGoesOn DEF CallsGoOn
<1>9. A!OwnerKept
  <2> SUFFICES ASSUME NEW i \in 1..Len(rows), NEW j \in 1..Len(rows'),
                      rows[i].made = rows'[j].made
               PROVE  rows[i].owner = rows'[j].owner
    BY DEF A!OwnerKept
  <2>1. j # Len(rows) + 1
    BY <1>1, <1>4, <1>5
  <2>2. j \in 1..Len(rows) /\ rows'[j] = rows[j]
    BY <1>1, <1>4, <2>1
  <2> QED BY <1>1, <2>2, OneMoment
<1> QED BY <1>7, <1>8, <1>9 DEF AccessInv

\* What is left of a sequence when one element is taken out.
LEMMA WithoutOne ==
    ASSUME NEW S, NEW s \in Seq(S), NEW k \in 1..Len(s)
    PROVE  LET t == SubSeq(s, 1, k - 1) \o SubSeq(s, k + 1, Len(s))
           IN /\ t \in Seq(S) /\ Len(t) = Len(s) - 1
              /\ \A i \in 1..(k - 1) : t[i] = s[i]
              /\ \A i \in k..(Len(s) - 1) : t[i] = s[i + 1]
<1> DEFINE a == SubSeq(s, 1, k - 1)
           b == SubSeq(s, k + 1, Len(s))
           t == a \o b
<1>1. a \in Seq(S) /\ Len(a) = k - 1 /\ \A i \in 1..(k - 1) : a[i] = s[i]
  OBVIOUS
<1>2. b \in Seq(S) /\ Len(b) = Len(s) - k /\ \A i \in 1..(Len(s) - k) : b[i] = s[k + i]
  OBVIOUS
<1> HIDE DEF a, b
<1>3. /\ t \in Seq(S) /\ Len(t) = Len(s) - 1
      /\ \A i \in 1..Len(t) : t[i] = IF i <= Len(a) THEN a[i] ELSE b[i - Len(a)]
  BY <1>1, <1>2
<1> HIDE DEF t
<1>4. \A i \in 1..(k - 1) : t[i] = s[i]
  BY <1>1, <1>3
<1>5. ASSUME NEW i \in k..(Len(s) - 1) PROVE t[i] = s[i + 1]
  <2>1. i \in 1..Len(t) /\ ~ (i <= Len(a)) /\ Len(a) = k - 1
    BY <1>1, <1>3
  <2>2. t[i] = b[i - (k - 1)]
    BY <1>3, <2>1
  <2>3. i - (k - 1) \in 1..(Len(s) - k) /\ k + (i - (k - 1)) = i + 1
    OBVIOUS
  <2> QED BY <1>2, <2>2, <2>3
<1> QED BY <1>3, <1>4, <1>5 DEF t, a, b

\* A row that is removed leaves the others as they were.
LEMMA Removing ==
    ASSUME AccessInv, CallsGoOn, NEW k \in 1..Len(rows),
           rows' = SubSeq(rows, 1, k - 1) \o SubSeq(rows, k + 1, Len(rows)),
           listing' = [listing EXCEPT !.deleted = listing.user # Nobody], UNCHANGED clock
    PROVE  AccessInv' /\ A!OwnerKept
<1>1. /\ rows \in Seq(ThreadRow) /\ Len(rows) \in Nat /\ Base /\ Reading
  BY RowsAre DEF AccessInv
<1>2. /\ rows' \in Seq(ThreadRow) /\ Len(rows') = Len(rows) - 1
      /\ \A i \in 1..(k - 1) : rows'[i] = rows[i]
      /\ \A i \in k..(Len(rows) - 1) : rows'[i] = rows[i + 1]
  BY <1>1, WithoutOne
<1> DEFINE Was(i) == IF i < k THEN i ELSE i + 1
<1>3. \A i \in 1..(Len(rows) - 1) : Was(i) \in 1..Len(rows) /\ rows'[i] = rows[Was(i)]
  <2> SUFFICES ASSUME NEW i \in 1..(Len(rows) - 1)
               PROVE  Was(i) \in 1..Len(rows) /\ rows'[i] = rows[Was(i)]
    OBVIOUS
  <2>1. CASE i < k
    <3>1. i \in 1..(k - 1) /\ Was(i) = i /\ i \in 1..Len(rows)
      BY <1>1, <2>1
    <3> QED BY <1>2, <3>1
  <2>2. CASE ~ (i < k)
    <3>1. i \in k..(Len(rows) - 1) /\ Was(i) = i + 1 /\ i + 1 \in 1..Len(rows)
      BY <1>1, <2>2
    <3> QED BY <1>2, <3>1
  <2> QED BY <2>1, <2>2
<1>4. \A i, j \in 1..(Len(rows) - 1) : i < j => Was(i) < Was(j)
  BY <1>1
<1> HIDE DEF Was
<1>5. InOrder'
  <2>1. \A i \in 1..(Len(rows) - 1) : rows'[i].made <= clock
    BY <1>1, <1>3 DEF Base, InOrder
  <2>2. \A i, j \in 1..(Len(rows) - 1) : i < j => rows'[i].made < rows'[j].made
    BY <1>1, <1>3, <1>4 DEF Base, InOrder
  <2> QED BY <1>2, <2>1, <2>2 DEF InOrder
<1>6. ListingType'
  BY <1>1 DEF Base, ListingType
<1>7. Base'
  BY <1>1, <1>2, <1>5, <1>6 DEF Base, CallsGoOn, CallType, A!TypeOK, ThreadRow
<1>8. Reading'
  <2>1. CASE listing.user = Nobody
    <3>1. listing = A!NotListing /\ listing' = [listing EXCEPT !.deleted = FALSE]
      BY <1>1, <2>1 DEF Reading
    <3>2. listing' = A!NotListing
      BY <3>1 DEF A!NotListing
    <3> QED BY <3>2, NotReading
  <2>2. CASE listing.user # Nobody
    <3>1. listing'.user = listing.user /\ listing'.deleted
      BY <1>1, <2>2 DEF Base, ListingType
    <3> QED BY <2>2, <3>1 DEF Reading, A!PagesComplete
  <2> QED BY <2>1, <2>2
<1>9. A!OwnerKept
  <2> SUFFICES ASSUME NEW i \in 1..Len(rows), NEW j \in 1..Len(rows'),
                      rows[i].made = rows'[j].made
               PROVE  rows[i].owner = rows'[j].owner
    BY DEF A!OwnerKept
  <2>1. Was(j) \in 1..Len(rows) /\ rows'[j] = rows[Was(j)]
    BY <1>2, <1>3
  <2> QED BY <1>1, <2>1, OneMoment
<1> QED BY <1>7, <1>8, <1>9 DEF AccessInv

\* A page of the search gives a reader those of what is to come that are on it, and
\* is full when some are on later ones.
LEMMA Searching ==
    ASSUME AccessInv, NEW u \in Users, A!Search(u)
    PROVE  AccessInv' /\ A!OwnerKept
<1> DEFINE V == A!Visible(u)
           page == A!Page(u, listing.offset)
<1>1. /\ Base /\ Reading /\ Limit \in Nat \ {0} /\ u # Nobody
      /\ listing.offset \in Nat /\ listing.got \in SUBSET Nat /\ listing.mine \in SUBSET Nat
      /\ listing.deleted \in BOOLEAN
  BY AccessAssumed DEF AccessInv, Base, ListingType, A!AccessAssumption
<1>2. /\ ~listing.done /\ listing.user \in {Nobody, u}
      /\ listing' = [user |-> u, offset |-> listing.offset + Limit,
                     got  |-> listing.got \cup page,
                     mine |-> IF listing.user = Nobody THEN {x.made : x \in V}
                              ELSE listing.mine,
                     deleted |-> listing.deleted, done |-> Cardinality(page) < Limit]
      /\ cache' = A!Cached("search")
      /\ UNCHANGED <<handlers, rows, clock, call, calls>>
  BY SameCount DEF A!Search
<1>3. /\ IsFiniteSet(V) /\ \A y \in V : y.made \in Nat
      /\ \A y, z \in V : y.made = z.made => y = z
      /\ \A x : A!Rank(u, x) = Newer(V, x) /\ A!Rank(u, x) \in Nat
  BY <1>1, VisibleRows
<1>4. page = {y.made : y \in {z \in V : /\ Newer(V, z) >= listing.offset
                                       /\ Newer(V, z) < listing.offset + Limit}}
  BY <1>3 DEF A!Page
<1>5. page \in SUBSET Nat /\ {x.made : x \in V} \in SUBSET Nat
  BY <1>3, <1>4
<1> HIDE DEF page, V
<1>6. IsFiniteSet(page) /\ Cardinality(page) \in Nat
  <2>1. IsFiniteSet({z \in V : /\ Newer(V, z) >= listing.offset
                               /\ Newer(V, z) < listing.offset + Limit})
    BY <1>3, FS_Subset
  <2> QED BY <1>4, <2>1, MadeFinite, FS_CardinalityType
<1>7. Base'
  <2>1. ListingType'
    <3> DEFINE last == Cardinality(page) < Limit
               all == IF listing.user = Nobody THEN {x.made : x \in V} ELSE listing.mine
               given == listing.got \cup page
    <3>1. /\ last \in BOOLEAN
          /\ all \in SUBSET Nat
          /\ given \in SUBSET Nat
          /\ listing.offset + Limit \in Nat
      <4>1. last \in BOOLEAN
        <5>1. Cardinality(page) \in Nat /\ Limit \in Nat
          BY <1>1, <1>6
        <5> QED BY <5>1
      <4>2. all \in SUBSET Nat
        BY <1>1, <1>5
      <4>3. given \in SUBSET Nat
        BY <1>1, <1>5
      <4> QED BY <1>1, <4>1, <4>2, <4>3
    <3>2. listing' = [user |-> u, offset |-> listing.offset + Limit, got |-> given,
                      mine |-> all, deleted |-> listing.deleted, done |-> last]
      BY <1>2
    <3> HIDE DEF last, all, given
    <3> QED BY <1>1, <3>1, <3>2 DEF ListingType
  <2>2. cache' \in [A!Patterns -> A!Behaviours] /\ CacheTrue'
    <3>1. "search" \in A!Actions
      BY DEF A!Actions
    <3> QED BY <1>1, <1>2, <3>1, StaysTrue DEF Base
  <2> QED BY <1>1, <1>2, <2>1, <2>2 DEF Base, A!TypeOK, InOrder, Holds
<1>8. A!Visible(u)' = V /\ \A x : A!Rank(u, x)' = A!Rank(u, x)
  <2>1. A!Handler("search")' = A!Handler("search")
    BY <1>1, <1>2, <1>7, SameHandler DEF A!Actions
  <2>2. A!Visible(u)' = A!Visible(u)
    BY <1>2, <2>1 DEF A!Visible, A!Lets
  <2> QED BY <2>2 DEF A!Rank, V
<1>9. ASSUME ~listing.deleted, NEW m \in listing'.mine
      PROVE  \E x \in V : /\ x.made = m
                          /\ m \in listing.got \/ A!Rank(u, x) >= listing.offset
  <2>1. CASE listing.user = Nobody
    <3>1. listing.offset = 0
      BY <1>1, <2>1 DEF Reading, A!NotListing
    <3>2. PICK x \in V : x.made = m
      BY <1>2, <1>9, <2>1
    <3>3. A!Rank(u, x) >= 0
      BY <1>3
    <3> QED BY <3>1, <3>2, <3>3
  <2>2. CASE listing.user # Nobody
    <3>1. StillToCome /\ m \in listing.mine /\ listing.user = u
      BY <1>1, <1>2, <1>9, <2>2 DEF Reading
    <3> QED BY <3>1 DEF StillToCome, V
  <2> QED BY <2>1, <2>2
<1>10. ASSUME NEW x \in V, A!Rank(u, x) >= listing.offset
      PROVE  \/ x.made \in page
             \/ A!Rank(u, x) >= listing.offset + Limit /\ Cardinality(page) >= Limit
  <2>1. Newer(V, x) \in Nat /\ Newer(V, x) >= listing.offset
    BY <1>3, <1>10
  <2>2. CASE Newer(V, x) < listing.offset + Limit
    BY <1>4, <2>1, <2>2
  <2>3. CASE Newer(V, x) >= listing.offset + Limit
    BY <1>1, <1>3, <1>4, <2>3, PageIsFull
  <2> QED BY <1>1, <2>1, <2>2, <2>3
<1>11. ASSUME ~listing.deleted PROVE StillToCome'
  <2>1. ASSUME NEW m \in listing'.mine
        PROVE  \E x \in V : x.made = m /\ (\/ m \in listing'.got
                                           \/ A!Rank(u, x) >= listing'.offset)
    <3>1. PICK x \in V : /\ x.made = m
                         /\ m \in listing.got \/ A!Rank(u, x) >= listing.offset
      BY <1>9, <1>11
    <3> QED BY <1>2, <1>10, <3>1
  <2>2. listing'.user = u
    BY <1>2
  <2> QED BY <1>8, <2>1, <2>2 DEF StillToCome
<1>12. ASSUME ~listing.deleted, Cardinality(page) < Limit, NEW m \in listing'.mine
       PROVE  m \in listing'.got
  <2>1. PICK x \in V : /\ x.made = m
                       /\ m \in listing.got \/ A!Rank(u, x) >= listing.offset
    BY <1>9, <1>12
  <2>2. ~ (Cardinality(page) >= Limit)
    BY <1>1, <1>6, <1>12
  <2> QED BY <1>2, <1>10, <2>1, <2>2
<1>13. A!PagesComplete'
  <2>1. listing'.deleted = listing.deleted /\ listing'.done = (Cardinality(page) < Limit)
    BY <1>2
  <2> QED BY <1>12, <2>1 DEF A!PagesComplete
<1>14. Reading'
  <2>1. listing'.deleted = listing.deleted /\ listing'.user = u
    BY <1>2
  <2> QED BY <1>1, <1>11, <1>13, <2>1 DEF Reading
<1>15. A!OwnerKept
  BY <1>1, <1>2, OneMoment DEF A!OwnerKept
<1> QED BY <1>7, <1>14, <1>15 DEF AccessInv

----------------------------------------------------------------------------
(* Calls.                                                                  *)

\* The first row of a thread is one of the table's.
LEMMA PlaceOf ==
    ASSUME Base, NEW id
    PROVE  A!Place(id) \in 0..Len(rows)
<1>1. Len(rows) \in Nat
  BY RowsAre
<1>2. CASE A!At(id) = {}
  BY <1>1, <1>2 DEF A!Place
<1>3. CASE A!At(id) # {}
  <2>1. A!At(id) \subseteq 1..Len(rows)
    BY DEF A!At
  <2>2. \E i \in A!At(id) : \A j \in A!At(id) : i <= j
    BY <1>1, <1>3, <2>1, HasLeast
  <2>3. A!Place(id) \in A!At(id)
    BY <1>3, <2>2 DEF A!Place
  <2> QED BY <1>1, <2>1, <2>3
<1> QED BY <1>2, <1>3

LEMMA Asking ==
    ASSUME AccessInv, NEW s \in Slots, NEW u \in Users, NEW o \in DOMAIN A!ActionOf,
           NEW id \in A!Ids, A!Ask(s, u, o, id)
    PROVE  AccessInv' /\ A!OwnerKept
<1>1. Base /\ A!Place(id) \in 0..Len(rows) /\ Len(rows) \in Nat /\ rows \in Seq(ThreadRow)
      /\ call \in [Slots -> CallType]
  BY PlaceOf, RowsAre DEF AccessInv
<1>2. o \in {"put", "patch", "delete", "put_run"}
  BY DEF A!ActionOf
<1> DEFINE seen == IF o \in {"put", "put_run"} THEN Nobody ELSE rows[A!Place(id)].owner
           c == [op |-> o, user |-> u, id |-> id, at |-> A!Place(id), seen |-> seen]
<1>3. /\ calls < MaxCalls /\ (A!Place(id) = 0 <=> o \in {"put", "put_run"})
      /\ call' = [call EXCEPT ![s] = c]
      /\ calls' = calls + 1 /\ cache' = A!Cached(A!ActionOf[o])
      /\ UNCHANGED <<handlers, rows, clock, listing>>
  BY DEF A!Ask
<1>4. seen \in Users \cup {Nobody}
  <2>1. CASE o \in {"put", "put_run"}
    BY <2>1
  <2>2. CASE o \notin {"put", "put_run"}
    <3>1. A!Place(id) \in 1..Len(rows)
      BY <1>1, <1>3, <2>2
    <3>2. rows[A!Place(id)] \in ThreadRow
      BY <1>1, <3>1
    <3> QED BY <2>2, <3>2 DEF ThreadRow
  <2> QED BY <2>1, <2>2
<1> HIDE DEF seen
<1>5. c \in CallType /\ c.op = o /\ c.id = id /\ c.at = A!Place(id)
  BY <1>1, <1>4 DEF CallType
<1> HIDE DEF c
<1>6. call' \in [Slots -> CallType] /\ call'[s] = c /\ \A q \in Slots : q # s => call'[q] = call[q]
  BY <1>1, <1>3, <1>5
<1>7. Holds'
  <2>1. o \in {"patch", "delete"} => A!Place(id) > 0
    BY <1>1, <1>2, <1>3
  <2>2. Holds
    BY <1>1 DEF Base
  <2> QED BY <1>5, <1>6, <2>1, <2>2 DEF Holds
<1>8. cache' \in [A!Patterns -> A!Behaviours] /\ CacheTrue'
  <2>1. A!ActionOf[o] \in A!Actions
    BY <1>2 DEF A!ActionOf, A!Actions
  <2> QED BY <1>1, <1>3, <2>1, StaysTrue DEF Base
<1>9. calls' \in 0..MaxCalls
  BY <1>1, <1>3, AccessAssumed DEF Base, A!TypeOK, A!AccessAssumption
<1>10. CallsGoOn
  BY <1>3, <1>6, <1>7, <1>8, <1>9 DEF CallsGoOn
<1> QED BY <1>3, <1>10, SameRows

\* A call that resumes is one that asked.
LEMMA Resuming ==
    ASSUME Base, NEW s \in Slots, NEW o \in DOMAIN A!ActionOf, A!Resume(s, o)
    PROVE  /\ CallsGoOn
           /\ call[s].op = o /\ call[s].id \in A!Ids /\ call[s].user \in Users \cup {Nobody}
           /\ call[s].at \in Nat /\ (o \in {"patch", "delete"} => call[s].at > 0)
<1>1. o \in {"put", "patch", "delete", "put_run"}
  BY DEF A!ActionOf
<1>2. call \in [Slots -> CallType] /\ call[s].op = o
  BY RowsAre DEF A!Resume
<1>3. A!Idle \in CallType /\ A!Idle.op = "none"
  BY DEF CallType, A!Idle
<1>4. call' = [call EXCEPT ![s] = A!Idle] /\ UNCHANGED <<handlers, cache, calls>>
  BY DEF A!Resume
<1>5. /\ call' \in [Slots -> CallType] /\ call'[s] = A!Idle
      /\ \A q \in Slots : q # s => call'[q] = call[q]
  BY <1>2, <1>3, <1>4
<1>6. Holds' /\ Holds
  BY <1>3, <1>5 DEF Base, Holds
<1>7. CallsGoOn
  BY <1>4, <1>5, <1>6 DEF CallsGoOn, Base, A!TypeOK, CacheTrue
<1>8. call[s] \in CallType
  BY <1>2
<1> QED BY <1>1, <1>2, <1>6, <1>7, <1>8 DEF Holds, CallType

LEMMA Marks == Base => \A u \in Users \cup {Nobody} : \A act : A!Mark(u, act) \in Users \cup {Nobody}
  BY DEF A!Mark

\* A patch marks a row with its user only where the handler let it through as that
\* user's: it changes no owner.
LEMMA Patching ==
    ASSUME AccessInv, NEW s \in Slots, A!Patch(s)
    PROVE  AccessInv' /\ A!OwnerKept
<1> DEFINE i == call[s].at
           owner == IF A!Mark(call[s].user, "update") = Nobody THEN rows[i].owner ELSE call[s].user
<1>1. Base /\ rows \in Seq(ThreadRow) /\ Len(rows) \in Nat
  BY RowsAre DEF AccessInv
<1>2. A!Resume(s, "patch")
  BY DEF A!Patch
<1>3. CallsGoOn /\ i \in Nat /\ i > 0
  BY <1>1, <1>2, Resuming DEF A!ActionOf
<1>4. UNCHANGED <<rows, clock, listing>>
  <2>1. CASE \/ A!Refused("update") \/ i > Len(rows)
             \/ ~A!Lets(call[s].user, "update", rows[i].owner)
    BY <2>1 DEF A!Patch, A!Nothing
  <2>2. CASE ~ \/ A!Refused("update") \/ i > Len(rows)
               \/ ~A!Lets(call[s].user, "update", rows[i].owner)
    <3>1. rows' = [rows EXCEPT ![i].owner = owner] /\ UNCHANGED <<clock, listing>>
      BY <2>2 DEF A!Patch
    <3>2. owner = rows[i].owner
      BY <2>2 DEF A!Lets, A!Mark
    <3>3. i \in 1..Len(rows) /\ rows[i] \in ThreadRow
      BY <1>1, <1>3, <2>2
    <3>4. [rows[i] EXCEPT !.owner = rows[i].owner] = rows[i]
      BY <3>3 DEF ThreadRow
    <3>5. rows' = [rows EXCEPT ![i] = rows[i]]
      BY <3>1, <3>2, <3>4
    <3>6. rows' = rows
      BY <1>1, <3>3, <3>5
    <3> QED BY <3>1, <3>6
  <2> QED BY <2>1, <2>2
<1> QED BY <1>3, <1>4, SameRows

LEMMA Answering ==
    ASSUME AccessInv, NEW s \in Slots, A!Put(s) \/ A!PutRun(s) \/ A!Delete(s)
    PROVE  AccessInv' /\ A!OwnerKept
<1>1. Base
  BY DEF AccessInv
<1>2. CASE A!Put(s)
  <2>1. CallsGoOn /\ call[s].id \in A!Ids /\ call[s].user \in Users \cup {Nobody}
    BY <1>1, <1>2, Resuming DEF A!ActionOf, A!Put
  <2>2. CASE A!Refused("create")
    BY <1>2, <2>1, <2>2, SameRows DEF A!Put, A!Nothing
  <2>3. CASE ~A!Refused("create")
    BY <1>1, <1>2, <2>1, <2>3, Marks, Adding DEF A!Put
  <2> QED BY <2>2, <2>3
<1>3. CASE A!PutRun(s)
  <2>1. CallsGoOn /\ call[s].id \in A!Ids /\ call[s].user \in Users \cup {Nobody}
    BY <1>1, <1>3, Resuming DEF A!ActionOf, A!PutRun
  <2>2. CASE A!Refused("create_run")
    BY <1>3, <2>1, <2>2, SameRows DEF A!PutRun, A!Nothing
  <2>3. CASE ~A!Refused("create_run")
    BY <1>1, <1>3, <2>1, <2>3, Marks, Adding DEF A!PutRun
  <2> QED BY <2>2, <2>3
<1>4. CASE A!Delete(s)
  <2> DEFINE i == call[s].at
  <2>1. CallsGoOn /\ i \in Nat /\ i > 0
    BY <1>1, <1>4, Resuming DEF A!ActionOf, A!Delete
  <2>2. CASE \/ A!Refused("delete") \/ i > Len(rows)
             \/ ~A!Lets(call[s].user, "delete", call[s].seen)
    BY <1>4, <2>1, <2>2, SameRows DEF A!Delete, A!Nothing
  <2>3. CASE ~ \/ A!Refused("delete") \/ i > Len(rows)
               \/ ~A!Lets(call[s].user, "delete", call[s].seen)
    <3>1. i \in 1..Len(rows)
      BY <1>1, <2>1, <2>3, RowsAre
    <3>2. /\ rows' = SubSeq(rows, 1, i - 1) \o SubSeq(rows, i + 1, Len(rows))
          /\ listing' = [listing EXCEPT !.deleted = listing.user # Nobody]
          /\ UNCHANGED clock
      BY <1>4, <2>3 DEF A!Delete
    <3> HIDE DEF i
    <3> QED BY <2>1, <3>1, <3>2, Removing
  <2> QED BY <2>2, <2>3
<1> QED BY <1>2, <1>3, <1>4

LEMMA Copying ==
    ASSUME AccessInv, NEW u \in Users, NEW id \in A!Ids, NEW new \in Copies, A!Copy(u, id, new)
    PROVE  AccessInv' /\ A!OwnerKept
<1>1. Base /\ A!Place(id) \in 0..Len(rows) /\ Len(rows) \in Nat /\ rows \in Seq(ThreadRow)
  BY PlaceOf, RowsAre DEF AccessInv
<1>2. /\ calls < MaxCalls /\ A!Place(id) # 0 /\ A!AddRow(new, rows[A!Place(id)].owner)
      /\ calls' = calls + 1 /\ cache' = A!Cached("read") /\ UNCHANGED <<handlers, call>>
  BY DEF A!Copy
<1>3. rows[A!Place(id)] \in ThreadRow
  BY <1>1, <1>2
<1>4. cache' \in [A!Patterns -> A!Behaviours] /\ CacheTrue'
  BY <1>1, <1>2, StaysTrue DEF Base, A!Actions
<1>5. CallsGoOn
  <2>1. calls' \in 0..MaxCalls
    BY <1>1, <1>2, AccessAssumed DEF Base, A!TypeOK, A!AccessAssumption
  <2>2. call' \in [Slots -> CallType] /\ Holds'
    BY <1>1, <1>2, RowsAre DEF Base, Holds
  <2> QED BY <1>2, <1>4, <2>1, <2>2 DEF CallsGoOn
<1>6. new \in A!Ids /\ rows[A!Place(id)].owner \in Users \cup {Nobody}
  BY <1>3 DEF A!Ids, ThreadRow
<1> QED BY <1>2, <1>5, <1>6, Adding

LEMMA AccessStart == A!Init => AccessInv
<1> SUFFICES ASSUME A!Init PROVE AccessInv
  OBVIOUS
<1>1. handlers \in [A!Patterns -> A!Behaviours] /\ MaxRows + 1 \in Nat /\ MaxCalls \in Nat
  BY AccessAssumed DEF A!Init, A!AccessAssumption
<1>2. A!TypeOK
  <2>1. rows \in Seq([id : A!Ids, owner : Users \cup {Nobody}, made : 1..(MaxRows + 1)])
    BY DEF A!Init
  <2>2. A!Idle \in CallType
    BY DEF A!Idle, CallType
  <2>3. cache \in [A!Patterns -> A!Behaviours]
    BY DEF A!Init, A!Behaviours
  <2> QED BY <1>1, <2>1, <2>2, <2>3 DEF A!Init, A!TypeOK, CallType
<1>3. ListingType
  BY DEF A!Init, A!NotListing, ListingType
<1>4. InOrder /\ Holds
  BY DEF A!Init, InOrder, Holds, A!Idle
<1>5. CacheTrue
  <2>1. \A act \in A!Actions : <<"threads", act>> \in A!Patterns
    BY DEF A!Patterns
  <2> QED BY <2>1 DEF A!Init, CacheTrue
<1>6. Reading
  BY DEF A!Init, Reading, A!NotListing, A!PagesComplete
<1> QED BY <1>2, <1>3, <1>4, <1>5, <1>6 DEF AccessInv, Base

LEMMA AccessStep == AccessInv /\ [A!Next]_(A!vars) => AccessInv' /\ A!OwnerKept
<1> SUFFICES ASSUME AccessInv, [A!Next]_(A!vars) PROVE AccessInv' /\ A!OwnerKept
  OBVIOUS
<1>1. CASE A!Next
  <2>1. ASSUME A!SearchAgain PROVE AccessInv' /\ A!OwnerKept
    <3>1. listing' = A!NotListing /\ UNCHANGED <<handlers, cache, rows, clock, call, calls>>
      BY <2>1 DEF A!SearchAgain
    <3>2. Base
      BY DEF AccessInv
    <3>3. ListingType'
      BY <3>1 DEF A!NotListing, ListingType
    <3>4. Base'
      BY <3>1, <3>2, <3>3 DEF Base, A!TypeOK, InOrder, CacheTrue, Holds
    <3>5. A!OwnerKept
      BY <3>1, <3>2, OneMoment DEF A!OwnerKept
    <3> QED BY <3>1, <3>4, <3>5, NotReading DEF AccessInv
  <2> QED BY <1>1, <2>1, Asking, Answering, Patching, Copying, Searching DEF A!Next
<1>2. CASE UNCHANGED A!vars
  <2>1. UNCHANGED <<handlers, cache, rows, clock, call, calls, listing>>
    BY <1>2 DEF A!vars
  <2>2. CallsGoOn
    BY <2>1 DEF AccessInv, Base, A!TypeOK, CallsGoOn, CallType, CacheTrue, Holds
  <2> QED BY <2>1, <2>2, SameRows
<1> QED BY <1>1, <1>2

LEMMA AccessHolds == A!Spec => []AccessInv
  BY AccessStart, AccessStep, PTL DEF A!Spec

LEMMA MCAccess == MCSpec => A!Spec
<1>1. MCInit => A!Init
  BY DEF MCInit
<1>2. [MCNext]_allVars => [A!Next]_(A!vars)
  BY DEF MCNext, allVars, access, A!vars
<1> QED BY <1>1, <1>2, PTL DEF MCSpec, A!Spec

\* A client that reads Threads.search page by page, to one that is not full, has
\* seen every row it could see when it began, unless rows were deleted meanwhile
\* (Threads in ops.py).
THEOREM PagesAreComplete == MCSpec => []PagesComplete
<1>1. AccessInv => PagesComplete
  BY DEF AccessInv, Reading, PagesComplete
<1> QED BY <1>1, MCAccess, AccessHolds, PTL

\* Where every action is marked or refused, no call changes whose row it is,
\* although Threads.patch writes to the position it found before it waited.
THEOREM OwnersStay == MCSpec => OwnerStays
<1>1. AccessInv /\ [A!Next]_(A!vars) => [A!OwnerKept \/ ~A!Guarded]_access
  BY AccessStep
<1> QED BY <1>1, MCAccess, AccessHolds, PTL DEF A!Spec, OwnerStays

----------------------------------------------------------------------------
(* A graph in JavaScript.                                                  *)

Kinds == {"none", "streamEvents", "getState", "updateState", "getStateHistory",
          "getSchema", "getGraph", "getSubgraphs", "python"}
Sent == [at : {"idle", "sent", "served", "refused", "rejected"}, tries : Nat, id : Nat]

\* What the proofs need of the types.
Types ==
    /\ invoked \in [R!Calls -> [kind : Kinds, at : {"idle", "waiting", "returned", "raised"}]]
    /\ node \in [R!Calls -> {"none", "running", "returned", "threw", "gone"}]
    /\ pipe \in [R!Calls -> {"nothing", "all", "error", "blanks", "cut"}]
    /\ op \in [R!Calls -> [R!CallBacks -> Sent]]
    /\ saved \subseteq [id : Nat, by : R!Calls, form : {"msgpack", "json"}]
    /\ puts \in Seq(R!Calls)

\* A call that has not begun has left no trace.
Traceless ==
    \A c \in R!Calls : invoked[c].at = "idle" =>
        pipe[c] = "nothing" /\ node[c] = "none" /\ ~R!Made(c)

\* All of an answer comes from a handler that has returned, and that has heard
\* of all its call-backs.
AsMarked ==
    \A c \in R!Calls :
        /\ pipe[c] = "all" => node[c] = "returned"
        /\ R!Returned(c) => node[c] = "returned"
        /\ node[c] = "returned" => R!AllHeard(c)

\* Who a checkpoint says it is from has made it, and so has who puts it.
Owned ==
    /\ \A x \in saved : x.id \in DOMAIN puts /\ puts[x.id] = x.by
    /\ \A c \in R!Calls : op[c]["put"].at # "idle" =>
          op[c]["put"].id \in DOMAIN puts /\ puts[op[c]["put"].id] = c

\* A call-back on its way or given up.
Pending(c, k) == op[c][k].at \in {"sent", "rejected"}

\* What was put and not rolled back is stored or on its way.
PutApplied ==
    \A c \in R!Calls : invoked[c].at # "raised" /\ invoked[c].kind # "python" =>
        \A id \in DOMAIN puts : puts[id] = c =>
            \/ \E x \in saved : x.id = id
            \/ Pending(c, "put") /\ op[c]["put"].id = id
WritesApplied ==
    \A c \in R!Calls : op[c]["put_writes"].id # 0 =>
        Pending(c, "put_writes") \/ op[c]["put_writes"].id \in writes
StoreApplied ==
    \A c \in R!Calls : op[c]["store"].id # 0 => Pending(c, "store") \/ c \in items

IInv == Types /\ Traceless /\ AsMarked /\ Owned /\ PutApplied /\ WritesApplied /\ StoreApplied

LEMMA InitInvariant == R!RemoteAssumption /\ R!Init => IInv
<1> SUFFICES ASSUME R!RemoteAssumption, R!Init PROVE IInv
  OBVIOUS
<1>1. R!Idle \in Sent /\ R!Idle.id = 0 /\ R!Idle.at = "idle"
  BY DEF R!Idle, Sent
<1>2. \A c \in R!Calls, k \in R!CallBacks : op[c][k] = R!Idle
  BY DEF R!Init
<1>3. Types
  BY <1>1 DEF R!Init, Types, Kinds
<1>4. puts = << >> /\ DOMAIN puts = {}
  BY DEF R!Init
<1>5. Traceless
  BY <1>4 DEF R!Init, Traceless, R!Made
<1>6. AsMarked
  BY DEF R!Init, AsMarked, R!Returned
<1>7. Owned
  BY <1>1, <1>2 DEF R!Init, Owned, R!CallBacks
<1>8. PutApplied
  BY <1>4 DEF PutApplied
<1>9. WritesApplied /\ StoreApplied
  BY <1>1, <1>2 DEF WritesApplied, StoreApplied, R!CallBacks
<1> QED BY <1>3, <1>5, <1>6, <1>7, <1>8, <1>9 DEF IInv

----------------------------------------------------------------------------
(* One call-back changes.                                                  *)

Changes(c, k, how, id) ==
    /\ op' \in [R!Calls -> [R!CallBacks -> Sent]]
    /\ op'[c][k].at = how /\ op'[c][k].id = id
    /\ \A d \in R!Calls, j \in R!CallBacks : d # c \/ j # k => op'[d][j] = op[d][j]

LEMMA OneOp ==
    ASSUME op \in [R!Calls -> [R!CallBacks -> Sent]],
           NEW c \in R!Calls, NEW k \in R!CallBacks, NEW v \in Sent,
           op' = [op EXCEPT ![c][k] = v]
    PROVE  Changes(c, k, v.at, v.id)
<1>1. op' \in [R!Calls -> [R!CallBacks -> Sent]] /\ op'[c][k] = v
  OBVIOUS
<1>2. \A d \in R!Calls, j \in R!CallBacks : d # c \/ j # k => op'[d][j] = op[d][j]
  OBVIOUS
<1> QED BY <1>1, <1>2 DEF Changes

LEMMA SendOp ==
    ASSUME Types, NEW c \in R!Calls, NEW k \in R!CallBacks, NEW id \in Nat, R!Send(c, k, id)
    PROVE  Changes(c, k, "sent", id)
<1> DEFINE v == [at |-> "sent", tries |-> 1, id |-> id]
<1>1. v \in Sent /\ v.at = "sent" /\ v.id = id
  BY DEF Sent
<1>2. op' = [op EXCEPT ![c][k] = v]
  BY DEF R!Send
<1> HIDE DEF v
<1>3. Changes(c, k, v.at, v.id)
  BY <1>1, <1>2, OneOp DEF Types
<1> QED BY <1>1, <1>3

\* Only where a call-back is has changed.
LEMMA ServedOp ==
    ASSUME Types, NEW c \in R!Calls, NEW k \in R!CallBacks,
           NEW how \in {"served", "refused", "rejected"},
           op' = [op EXCEPT ![c][k].at = how]
    PROVE  Changes(c, k, how, op[c][k].id)
<1> DEFINE v == [op[c][k] EXCEPT !.at = how]
<1>1. op[c][k] \in Sent
  BY DEF Types
<1>2. v \in Sent /\ v.at = how /\ v.id = op[c][k].id
  BY <1>1 DEF Sent
<1>3. op' = [op EXCEPT ![c][k] = v]
  OBVIOUS
<1> HIDE DEF v
<1>4. Changes(c, k, v.at, v.id)
  BY <1>2, <1>3, OneOp DEF Types
<1> QED BY <1>2, <1>4

LEMMA HearOp ==
    ASSUME Types, NEW c \in R!Calls, NEW k \in R!CallBacks,
           op' = [op EXCEPT ![c][k].at = "idle", ![c][k].tries = 0]
    PROVE  Changes(c, k, "idle", op[c][k].id)
<1> DEFINE v == [op[c][k] EXCEPT !.at = "idle", !.tries = 0]
<1>1. op[c][k] \in Sent
  BY DEF Types
<1>2. v \in Sent /\ v.at = "idle" /\ v.id = op[c][k].id
  BY <1>1 DEF Sent
<1>3. op' = [op EXCEPT ![c][k] = v]
  BY DEF Types
<1> HIDE DEF v
<1>4. Changes(c, k, v.at, v.id)
  BY <1>2, <1>3, OneOp DEF Types
<1> QED BY <1>2, <1>4

LEMMA TryOp ==
    ASSUME Types, NEW c \in R!Calls, NEW k \in R!CallBacks,
           op' = [op EXCEPT ![c][k].at = "sent", ![c][k].tries = @ + 1]
    PROVE  Changes(c, k, "sent", op[c][k].id)
<1> DEFINE v == [op[c][k] EXCEPT !.at = "sent", !.tries = @ + 1]
<1>1. op[c][k] \in Sent
  BY DEF Types
<1>2. op[c][k].tries + 1 \in Nat
  BY <1>1 DEF Sent
<1>3. v \in Sent /\ v.at = "sent" /\ v.id = op[c][k].id
  <2> DEFINE n == op[c][k].tries + 1
  <2> HIDE DEF n
  <2>1. v = [op[c][k] EXCEPT !.at = "sent", !.tries = n] /\ n \in Nat
    BY <1>2 DEF n
  <2> HIDE DEF v
  <2> QED BY <1>1, <2>1 DEF Sent
<1>4. op' = [op EXCEPT ![c][k] = v]
  BY DEF Types
<1> HIDE DEF v
<1>5. Changes(c, k, v.at, v.id)
  BY <1>3, <1>4, OneOp DEF Types
<1> QED BY <1>3, <1>5

----------------------------------------------------------------------------
(* Every action preserves the invariant.                                   *)

\* Steps that leave the call-backs and what is stored alone, and begin no call
\* but one of a Python graph.
LEMMA QuietStep ==
    ASSUME R!RemoteAssumption, IInv, UNCHANGED <<op, saved, writes, puts, items>>,
           Types', Traceless', AsMarked',
           \A c \in R!Calls : invoked'[c].at # "raised" /\ invoked'[c].kind # "python" =>
               invoked[c].at # "raised" /\ invoked[c].kind # "python"
    PROVE  IInv'
<1>1. Owned'
  BY DEF IInv, Owned
<1>2. PutApplied'
  BY DEF IInv, PutApplied, Pending
<1>3. WritesApplied' /\ StoreApplied'
  BY DEF IInv, WritesApplied, StoreApplied, Pending
<1> QED BY <1>1, <1>2, <1>3 DEF IInv

LEMMA ReturnStep ==
    ASSUME R!RemoteAssumption, IInv, NEW c \in R!Calls, R!Return(c)
    PROVE  IInv'
<1> USE DEF R!process, R!memory
<1>1. UNCHANGED <<op, saved, writes, puts, items>>
  BY DEF R!Return, R!Write, R!Waiting, R!Loaded
<1>2. Types'
  BY DEF IInv, Types, Kinds, R!Streams, R!Return, R!Write, R!Waiting, R!Loaded
<1>3. Traceless'
  BY <1>1 DEF IInv, Types, Traceless, R!Made, R!Return, R!Write, R!Waiting, R!Loaded
<1>4. AsMarked'
  BY <1>1, <1>2 DEF IInv, Types, Traceless, AsMarked, R!AllHeard, R!Returned, R!Streams,
     R!Return, R!Write, R!Waiting, R!Loaded
<1>5. \A d \in R!Calls : invoked'[d].at # "raised" /\ invoked'[d].kind # "python" =>
         invoked[d].at # "raised" /\ invoked[d].kind # "python"
  BY DEF IInv, Types, R!Return, R!Write, R!Waiting, R!Loaded
<1> QED BY <1>1, <1>2, <1>3, <1>4, <1>5, QuietStep

LEMMA ThrowStep ==
    ASSUME R!RemoteAssumption, IInv, NEW c \in R!Calls, R!Throw(c)
    PROVE  IInv'
<1> USE DEF R!process, R!memory
<1>1. UNCHANGED <<op, saved, writes, puts, items>>
  BY DEF R!Throw, R!Fail, R!Write, R!Waiting
<1>2. Types'
  BY DEF IInv, Types, Kinds, R!Streams, R!Throw, R!Fail, R!Write, R!Waiting
<1>3. Traceless'
  BY <1>1 DEF IInv, Types, Traceless, R!Made, R!Throw, R!Fail, R!Write, R!Waiting
<1>4. AsMarked'
  BY <1>1, <1>2 DEF IInv, Types, Traceless, AsMarked, R!AllHeard, R!Returned, R!Streams,
     R!Throw, R!Fail, R!Write, R!Waiting
<1>5. \A d \in R!Calls : invoked'[d].at # "raised" /\ invoked'[d].kind # "python" =>
         invoked[d].at # "raised" /\ invoked[d].kind # "python"
  BY DEF IInv, Types, R!Throw, R!Fail, R!Write, R!Waiting
<1> QED BY <1>1, <1>2, <1>3, <1>4, <1>5, QuietStep

LEMMA ReadStep ==
    ASSUME R!RemoteAssumption, IInv, NEW c \in R!Calls, R!Read(c)
    PROVE  IInv'
<1> USE DEF R!process, R!memory
<1>1. UNCHANGED <<op, saved, writes, puts, items>>
  BY DEF R!Read, R!End, R!Waiting
<1>2. Types'
  BY DEF IInv, Types, Kinds, R!Streams, R!Read, R!End, R!Waiting
<1>3. Traceless'
  BY <1>1 DEF IInv, Types, Traceless, R!Made, R!Read, R!End, R!Waiting
<1>4. AsMarked'
  BY <1>1, <1>2 DEF IInv, Types, Traceless, AsMarked, R!AllHeard, R!Returned, R!Streams,
     R!Read, R!End, R!Waiting
<1>5. \A d \in R!Calls : invoked'[d].at # "raised" /\ invoked'[d].kind # "python" =>
         invoked[d].at # "raised" /\ invoked[d].kind # "python"
  BY DEF IInv, Types, R!Read, R!End, R!Waiting
<1> QED BY <1>1, <1>2, <1>3, <1>4, <1>5, QuietStep

LEMMA TimeOutStep ==
    ASSUME R!RemoteAssumption, IInv, NEW c \in R!Calls, R!TimeOut(c)
    PROVE  IInv'
<1> USE DEF R!process, R!memory
<1>1. UNCHANGED <<op, saved, writes, puts, items>>
  BY DEF R!TimeOut, R!End, R!Waiting
<1>2. Types'
  BY DEF IInv, Types, Kinds, R!Streams, R!TimeOut, R!End, R!Waiting
<1>3. Traceless'
  BY <1>1 DEF IInv, Types, Traceless, R!Made, R!TimeOut, R!End, R!Waiting
<1>4. AsMarked'
  BY <1>1, <1>2 DEF IInv, Types, Traceless, AsMarked, R!AllHeard, R!Returned, R!Streams,
     R!TimeOut, R!End, R!Waiting
<1>5. \A d \in R!Calls : invoked'[d].at # "raised" /\ invoked'[d].kind # "python" =>
         invoked[d].at # "raised" /\ invoked[d].kind # "python"
  BY DEF IInv, Types, R!TimeOut, R!End, R!Waiting
<1> QED BY <1>1, <1>2, <1>3, <1>4, <1>5, QuietStep

LEMMA InterruptStep ==
    ASSUME R!RemoteAssumption, IInv, NEW c \in R!Calls, R!Interrupt(c)
    PROVE  IInv'
<1> USE DEF R!process, R!memory
<1>1. UNCHANGED <<op, saved, writes, puts, items>>
  BY DEF R!Interrupt, R!End, R!Waiting
<1>2. Types'
  BY DEF IInv, Types, Kinds, R!Streams, R!Interrupt, R!End, R!Waiting
<1>3. Traceless'
  BY <1>1 DEF IInv, Types, Traceless, R!Made, R!Interrupt, R!End, R!Waiting
<1>4. AsMarked'
  BY <1>1, <1>2 DEF IInv, Types, Traceless, AsMarked, R!AllHeard, R!Returned, R!Streams,
     R!Interrupt, R!End, R!Waiting
<1>5. \A d \in R!Calls : invoked'[d].at # "raised" /\ invoked'[d].kind # "python" =>
         invoked[d].at # "raised" /\ invoked[d].kind # "python"
  BY DEF IInv, Types, R!Interrupt, R!End, R!Waiting
<1> QED BY <1>1, <1>2, <1>3, <1>4, <1>5, QuietStep

LEMMA StartPythonStep ==
    ASSUME R!RemoteAssumption, IInv, NEW c \in R!Calls, R!StartPython(c)
    PROVE  IInv'
<1> USE DEF R!process, R!memory
<1>1. UNCHANGED <<op, saved, writes, puts, items>>
  BY DEF R!StartPython
<1>2. Types'
  BY DEF IInv, Types, Kinds, R!Streams, R!StartPython
<1>3. Traceless'
  BY <1>1 DEF IInv, Types, Traceless, R!Made, R!StartPython
<1>4. AsMarked'
  BY <1>1, <1>2 DEF IInv, Types, Traceless, AsMarked, R!AllHeard, R!Returned, R!Streams,
     R!StartPython
<1>5. \A d \in R!Calls : invoked'[d].at # "raised" /\ invoked'[d].kind # "python" =>
         invoked[d].at # "raised" /\ invoked[d].kind # "python"
  BY DEF IInv, Types, R!StartPython
<1> QED BY <1>1, <1>2, <1>3, <1>4, <1>5, QuietStep

LEMMA EndPythonStep ==
    ASSUME R!RemoteAssumption, IInv, NEW c \in R!Calls, R!EndPython(c)
    PROVE  IInv'
<1> USE DEF R!process, R!memory
<1>1. UNCHANGED <<op, saved, writes, puts, items>>
  BY DEF R!EndPython, R!End, R!Waiting
<1>2. Types'
  BY DEF IInv, Types, Kinds, R!Streams, R!EndPython, R!End, R!Waiting
<1>3. Traceless'
  BY <1>1 DEF IInv, Types, Traceless, R!Made, R!EndPython, R!End, R!Waiting
<1>4. AsMarked'
  BY <1>1, <1>2 DEF IInv, Types, Traceless, AsMarked, R!AllHeard, R!Returned, R!Streams,
     R!EndPython, R!End, R!Waiting
<1>5. \A d \in R!Calls : invoked'[d].at # "raised" /\ invoked'[d].kind # "python" =>
         invoked[d].at # "raised" /\ invoked[d].kind # "python"
  BY DEF IInv, Types, R!EndPython, R!End, R!Waiting
<1> QED BY <1>1, <1>2, <1>3, <1>4, <1>5, QuietStep

LEMMA DieStep ==
    ASSUME R!RemoteAssumption, IInv, R!Die
    PROVE  IInv'
<1> USE DEF R!process, R!memory
<1>1. UNCHANGED <<op, saved, writes, puts, items>>
  BY DEF R!Die, R!Waiting
<1>2. Types'
  BY DEF IInv, Types, Kinds, R!Streams, R!Die, R!Waiting
<1>3. Traceless'
  BY <1>1 DEF IInv, Types, Traceless, R!Made, R!Die, R!Waiting
<1>4. AsMarked'
  BY <1>1, <1>2 DEF IInv, Types, Traceless, AsMarked, R!AllHeard, R!Returned, R!Streams,
     R!Die, R!Waiting
<1>5. \A d \in R!Calls : invoked'[d].at # "raised" /\ invoked'[d].kind # "python" =>
         invoked[d].at # "raised" /\ invoked[d].kind # "python"
  BY DEF IInv, Types, R!Die, R!Waiting
<1> QED BY <1>1, <1>2, <1>3, <1>4, <1>5, QuietStep

LEMMA RestartStep ==
    ASSUME R!RemoteAssumption, IInv, R!Restart
    PROVE  IInv'
<1> USE DEF R!process, R!memory
<1>1. UNCHANGED <<op, saved, writes, puts, items>>
  BY DEF R!Restart
<1>2. Types'
  BY DEF IInv, Types, Kinds, R!Streams, R!Restart
<1>3. Traceless'
  BY <1>1 DEF IInv, Types, Traceless, R!Made, R!Restart
<1>4. AsMarked'
  BY <1>1, <1>2 DEF IInv, Types, Traceless, AsMarked, R!AllHeard, R!Returned, R!Streams,
     R!Restart
<1>5. \A d \in R!Calls : invoked'[d].at # "raised" /\ invoked'[d].kind # "python" =>
         invoked[d].at # "raised" /\ invoked[d].kind # "python"
  BY DEF IInv, Types, R!Restart
<1> QED BY <1>1, <1>2, <1>3, <1>4, <1>5, QuietStep

----------------------------------------------------------------------------
(* A call-back moves on.                                                   *)

\* What is stored stays, a checkpoint of this call may be added, and a call-back
\* that is no longer on its way has been carried out.
Advances(c, k, how) ==
    /\ op[c][k].at # "idle"
    /\ op[c][k].at = "rejected" => how \in {"sent", "rejected"}
    /\ saved \subseteq saved' /\ writes \subseteq writes' /\ items \subseteq items'
    /\ \A x \in saved' :
          x \notin saved => k = "put" /\ x.id = op[c]["put"].id /\ x.by = c
    /\ op[c][k].at = "sent" /\ how \notin {"sent", "rejected"} =>
          /\ k = "put" => \E x \in saved' : x.id = op[c]["put"].id
          /\ k = "put_writes" => op[c]["put_writes"].id \in writes'
          /\ k = "store" => c \in items'

LEMMA CallBackStep ==
    ASSUME R!RemoteAssumption, IInv, NEW c \in R!Calls, NEW k \in R!CallBacks, NEW how,
           Changes(c, k, how, op[c][k].id), UNCHANGED <<invoked, puts>>,
           Types', Traceless', AsMarked', Advances(c, k, how)
    PROVE  IInv'
<1> USE DEF R!CallBacks, Advances
<1>1. \A d \in R!Calls, j \in R!CallBacks : op'[d][j].id = op[d][j].id
  BY DEF Changes
<1>2. \A d \in R!Calls, j \in R!CallBacks : op'[d][j].at # op[d][j].at => d = c /\ j = k
  BY DEF Changes
<1>3. \A d \in R!Calls, j \in R!CallBacks : Pending(d, j) /\ ~Pending(d, j)' =>
          d = c /\ j = k /\ op[c][k].at = "sent" /\ how \notin {"sent", "rejected"}
  BY <1>2 DEF Pending, Changes
<1>4. Owned'
  <2>1. \A d \in R!Calls : op'[d]["put"].at # "idle" => op[d]["put"].at # "idle"
    BY <1>2
  <2> QED BY <1>1, <2>1 DEF IInv, Owned
<1>5. PutApplied'
  <2> SUFFICES ASSUME NEW d \in R!Calls, invoked[d].at # "raised", invoked[d].kind # "python",
                      NEW id \in DOMAIN puts, puts[id] = d
               PROVE  \/ \E x \in saved' : x.id = id
                      \/ Pending(d, "put")' /\ op'[d]["put"].id = id
    BY DEF PutApplied
  <2>1. \/ \E x \in saved : x.id = id
        \/ Pending(d, "put") /\ op[d]["put"].id = id
    BY DEF IInv, PutApplied
  <2> QED BY <1>1, <1>3, <2>1
<1>6. WritesApplied'
  BY <1>1, <1>3 DEF IInv, WritesApplied
<1>7. StoreApplied'
  BY <1>1, <1>3 DEF IInv, StoreApplied
<1> QED BY <1>4, <1>5, <1>6, <1>7 DEF IInv

\* While a call-back is not heard of, its handler has not returned.
LEMMA NotReturned ==
    ASSUME IInv, NEW c \in R!Calls, NEW k \in R!CallBacks, op[c][k].at # "idle"
    PROVE  node[c] # "returned"
BY DEF IInv, AsMarked, R!AllHeard

LEMMA MarkedKept ==
    ASSUME IInv, NEW c \in R!Calls, NEW k \in R!CallBacks, NEW how, NEW id,
           Changes(c, k, how, id), node[c] # "returned", UNCHANGED <<invoked, node, pipe>>
    PROVE  AsMarked'
<1>1. \A d \in R!Calls : d # c => \A j \in R!CallBacks : op'[d][j] = op[d][j]
  BY DEF Changes
<1> QED BY <1>1 DEF IInv, AsMarked, R!AllHeard, R!Returned

LEMMA ServeLoadStep ==
    ASSUME R!RemoteAssumption, IInv, NEW c \in R!Calls, R!ServeLoad(c)
    PROVE  IInv'
<1> USE DEF R!CallBacks, R!process
<1>1. PICK how \in {"served", "refused"} : R!Served(c, "load", how)
  BY DEF R!ServeLoad
<1>2. Changes(c, "load", how, op[c]["load"].id)
  BY <1>1, ServedOp DEF IInv, R!Served
<1>3. op[c]["load"].at = "sent" /\ UNCHANGED <<invoked, node, pipe, puts>>
  BY DEF R!ServeLoad
<1>4. Traceless'
  BY <1>3 DEF IInv, Traceless, R!Made
<1>5. AsMarked'
  BY <1>2, <1>3, NotReturned, MarkedKept
<1>6. Types'
  BY <1>2, <1>3 DEF IInv, Types, Changes, R!ServeLoad
<1>7. /\ saved' = saved /\ writes \subseteq writes' /\ items \subseteq items'
      /\ "load" = "put_writes" => op[c]["load"].id \in writes'
      /\ "load" = "store" => c \in items'
  BY DEF R!ServeLoad
<1>8. Advances(c, "load", how)
  BY <1>3, <1>7 DEF Advances
<1> QED BY <1>2, <1>3, <1>4, <1>5, <1>6, <1>8, CallBackStep

LEMMA ServePutStep ==
    ASSUME R!RemoteAssumption, IInv, NEW c \in R!Calls, R!ServePut(c)
    PROVE  IInv'
<1> USE DEF R!CallBacks, R!process
<1>1. R!Served(c, "put", "served")
  BY DEF R!ServePut
<1>2. Changes(c, "put", "served", op[c]["put"].id)
  BY <1>1, ServedOp DEF IInv, R!Served
<1>3. op[c]["put"].at = "sent" /\ UNCHANGED <<invoked, node, pipe, puts>>
  BY DEF R!ServePut
<1>4. Traceless'
  BY <1>3 DEF IInv, Traceless, R!Made
<1>5. AsMarked'
  BY <1>2, <1>3, NotReturned, MarkedKept
<1>6. op[c]["put"].id \in Nat
  BY DEF IInv, Types, Sent
<1>7. /\ saved' \subseteq [id : Nat, by : R!Calls, form : {"msgpack", "json"}]
      /\ saved \subseteq saved'
      /\ \A x \in saved' : x \notin saved => x.id = op[c]["put"].id /\ x.by = c
      /\ \E x \in saved' : x.id = op[c]["put"].id
  <2> DEFINE n == op[c]["put"].id
             x == [id |-> n, by |-> c, form |-> "json"]
  <2>1. x \in [id : Nat, by : R!Calls, form : {"msgpack", "json"}] /\ x.id = n /\ x.by = c
    BY <1>6
  <2>2. \/ (\E y \in saved : y.id = n) /\ saved' = saved
        \/ saved' = saved \cup {x}
    BY DEF R!ServePut, R!Stored
  <2> HIDE DEF n, x
  <2>3. /\ saved' \subseteq [id : Nat, by : R!Calls, form : {"msgpack", "json"}]
        /\ saved \subseteq saved'
        /\ \A y \in saved' : y \notin saved => y.id = n /\ y.by = c
        /\ \E y \in saved' : y.id = n
    BY <2>1, <2>2 DEF IInv, Types
  <2> QED BY <2>3 DEF n
<1>8. Types'
  BY <1>2, <1>3, <1>7 DEF IInv, Types, Changes
<1>9. writes' = writes /\ items' = items
  BY DEF R!ServePut
<1>10. Advances(c, "put", "served")
  BY <1>3, <1>7, <1>9 DEF Advances
<1> QED BY <1>2, <1>3, <1>4, <1>5, <1>8, <1>10, CallBackStep

LEMMA ServePutWritesStep ==
    ASSUME R!RemoteAssumption, IInv, NEW c \in R!Calls, R!ServePutWrites(c)
    PROVE  IInv'
<1> USE DEF R!CallBacks, R!process
<1>1. R!Served(c, "put_writes", "served")
  BY DEF R!ServePutWrites
<1>2. Changes(c, "put_writes", "served", op[c]["put_writes"].id)
  BY <1>1, ServedOp DEF IInv, R!Served
<1>3. op[c]["put_writes"].at = "sent" /\ UNCHANGED <<invoked, node, pipe, puts>>
  BY DEF R!ServePutWrites
<1>4. Traceless'
  BY <1>3 DEF IInv, Traceless, R!Made
<1>5. AsMarked'
  BY <1>2, <1>3, NotReturned, MarkedKept
<1>6. Types'
  BY <1>2, <1>3 DEF IInv, Types, Changes, R!ServePutWrites
<1>7. /\ saved' = saved /\ writes \subseteq writes' /\ items \subseteq items'
      /\ "put_writes" = "put_writes" => op[c]["put_writes"].id \in writes'
      /\ "put_writes" = "store" => c \in items'
  BY DEF R!ServePutWrites
<1>8. Advances(c, "put_writes", "served")
  BY <1>3, <1>7 DEF Advances
<1> QED BY <1>2, <1>3, <1>4, <1>5, <1>6, <1>8, CallBackStep

LEMMA ServeStoreStep ==
    ASSUME R!RemoteAssumption, IInv, NEW c \in R!Calls, R!ServeStore(c)
    PROVE  IInv'
<1> USE DEF R!CallBacks, R!process
<1>1. R!Served(c, "store", "served")
  BY DEF R!ServeStore
<1>2. Changes(c, "store", "served", op[c]["store"].id)
  BY <1>1, ServedOp DEF IInv, R!Served
<1>3. op[c]["store"].at = "sent" /\ UNCHANGED <<invoked, node, pipe, puts>>
  BY DEF R!ServeStore
<1>4. Traceless'
  BY <1>3 DEF IInv, Traceless, R!Made
<1>5. AsMarked'
  BY <1>2, <1>3, NotReturned, MarkedKept
<1>6. Types'
  BY <1>2, <1>3 DEF IInv, Types, Changes, R!ServeStore
<1>7. /\ saved' = saved /\ writes \subseteq writes' /\ items \subseteq items'
      /\ "store" = "put_writes" => op[c]["store"].id \in writes'
      /\ "store" = "store" => c \in items'
  BY DEF R!ServeStore
<1>8. Advances(c, "store", "served")
  BY <1>3, <1>7 DEF Advances
<1> QED BY <1>2, <1>3, <1>4, <1>5, <1>6, <1>8, CallBackStep

LEMMA HearStep ==
    ASSUME R!RemoteAssumption, IInv, NEW c \in R!Calls, NEW k \in R!CallBacks, R!Hear(c, k)
    PROVE  IInv'
<1> USE DEF R!process, R!memory
<1>1. op[c][k].at = "served" /\ UNCHANGED <<invoked, node, pipe, serde, saved, writes, puts, items>>
  BY DEF R!Hear, R!Alive
<1>2. Changes(c, k, "idle", op[c][k].id)
  BY HearOp DEF IInv, R!Hear
<1>3. Types'
  BY <1>1, <1>2 DEF IInv, Types, Changes
<1>4. Traceless'
  BY <1>1 DEF IInv, Traceless, R!Made
<1>5. AsMarked'
  BY <1>1, <1>2, NotReturned, MarkedKept
<1>6. Advances(c, k, "idle")
  BY <1>1 DEF Advances
<1> QED BY <1>1, <1>2, <1>3, <1>4, <1>5, <1>6, CallBackStep

LEMMA TryAgainStep ==
    ASSUME R!RemoteAssumption, IInv, NEW c \in R!Calls, NEW k \in R!CallBacks, R!TryAgain(c, k)
    PROVE  IInv'
<1> USE DEF R!process, R!memory
<1>1. /\ op[c][k].at \in {"sent", "served", "refused"}
      /\ UNCHANGED <<invoked, node, pipe, serde, saved, writes, puts, items>>
  BY DEF R!TryAgain, R!Unheard, R!Alive
<1>2. Changes(c, k, "sent", op[c][k].id)
  BY TryOp DEF IInv, R!TryAgain
<1>3. Types'
  BY <1>1, <1>2 DEF IInv, Types, Changes
<1>4. Traceless'
  BY <1>1 DEF IInv, Traceless, R!Made
<1>5. AsMarked'
  BY <1>1, <1>2, NotReturned, MarkedKept
<1>6. Advances(c, k, "sent")
  BY <1>1 DEF Advances
<1> QED BY <1>1, <1>2, <1>3, <1>4, <1>5, <1>6, CallBackStep

LEMMA GiveUpStep ==
    ASSUME R!RemoteAssumption, IInv, NEW c \in R!Calls, NEW k \in R!CallBacks, R!GiveUp(c, k)
    PROVE  IInv'
<1> USE DEF R!memory
<1>1. /\ op[c][k].at \in {"sent", "served", "refused"}
      /\ UNCHANGED <<invoked, serde, saved, writes, puts, items>>
  BY DEF R!GiveUp, R!Unheard
<1>2. Changes(c, k, "rejected", op[c][k].id)
  BY ServedOp DEF IInv, R!GiveUp
<1>3. node[c] # "returned" /\ node[c] # "none"
  BY <1>1, NotReturned DEF R!GiveUp, R!Unheard, R!Alive
<1>4. /\ node' \in [R!Calls -> {"none", "running", "returned", "threw", "gone"}]
      /\ pipe' \in [R!Calls -> {"nothing", "all", "error", "blanks", "cut"}]
      /\ node'[c] # "returned" /\ pipe'[c] # "all"
      /\ \A d \in R!Calls : d # c => node'[d] = node[d] /\ pipe'[d] = pipe[d]
  BY <1>3 DEF R!GiveUp, R!Fail, R!Write, IInv, Types, AsMarked
<1>5. Types'
  BY <1>1, <1>2, <1>4 DEF IInv, Types, Changes
<1>6. Traceless'
  BY <1>1, <1>3, <1>4 DEF IInv, Traceless, R!Made
<1>7. AsMarked'
  <2>1. \A d \in R!Calls : d # c => \A j \in R!CallBacks : op'[d][j] = op[d][j]
    BY <1>2 DEF Changes
  <2> QED BY <1>1, <1>3, <1>4, <2>1 DEF IInv, AsMarked, R!AllHeard, R!Returned
<1>8. Advances(c, k, "rejected")
  BY <1>1 DEF Advances
<1> QED BY <1>1, <1>2, <1>5, <1>6, <1>7, <1>8, CallBackStep

----------------------------------------------------------------------------
(* A graph sends a call-back, or is called.                                *)

LEMMA PutStep ==
    ASSUME R!RemoteAssumption, IInv, NEW c \in R!Calls, R!Put(c)
    PROVE  IInv'
<1> USE DEF R!CallBacks, R!process
<1> DEFINE n == Len(puts')
<1>1. /\ node[c] = "running" /\ op[c]["put"].at = "idle"
      /\ UNCHANGED <<invoked, node, pipe, saved, writes, items>>
  BY DEF R!Put, R!Checkpointing
<1>2. /\ puts' \in Seq(R!Calls) /\ n \in Nat
      /\ n \in DOMAIN puts' /\ puts'[n] = c
      /\ \A id \in DOMAIN puts : id \in DOMAIN puts' /\ puts'[id] = puts[id]
      /\ \A id \in DOMAIN puts' : id \notin DOMAIN puts => id = n
  <2>1. puts' = Append(puts, c) /\ puts \in Seq(R!Calls)
    BY DEF R!Put, IInv, Types
  <2> QED BY <2>1
<1> HIDE DEF n
<1>3. Changes(c, "put", "sent", n)
  BY <1>2, SendOp DEF n, IInv, R!Put
<1>4. Types'
  BY <1>1, <1>2, <1>3 DEF IInv, Types, Changes
<1>5. Traceless'
  BY <1>1, <1>2 DEF IInv, Traceless, R!Made
<1>6. AsMarked'
  BY <1>1, <1>3, MarkedKept
<1>7. Owned'
  <2>1. \A d \in R!Calls : d # c => op'[d]["put"] = op[d]["put"]
    BY <1>3 DEF Changes
  <2> QED BY <1>1, <1>2, <1>3, <2>1 DEF IInv, Owned, Changes
<1>8. PutApplied'
  <2>1. \A d \in R!Calls : d # c => op'[d]["put"] = op[d]["put"]
    BY <1>3 DEF Changes
  <2>2. Pending(c, "put")' /\ op'[c]["put"].id = n /\ ~Pending(c, "put")
    BY <1>1, <1>3 DEF Changes, Pending
  <2>3. \A d \in R!Calls : d # c => (Pending(d, "put")' <=> Pending(d, "put"))
    BY <2>1 DEF Pending
  <2> SUFFICES ASSUME NEW d \in R!Calls, invoked[d].at # "raised", invoked[d].kind # "python",
                      NEW id \in DOMAIN puts', puts'[id] = d
               PROVE  \/ \E x \in saved : x.id = id
                      \/ Pending(d, "put")' /\ op'[d]["put"].id = id
    BY <1>1 DEF PutApplied
  <2>4. CASE id \notin DOMAIN puts
    BY <1>2, <2>2, <2>4
  <2>5. CASE id \in DOMAIN puts
    <3>1. \/ \E x \in saved : x.id = id
          \/ Pending(d, "put") /\ op[d]["put"].id = id
      BY <1>2, <2>5 DEF IInv, PutApplied
    <3> QED BY <2>1, <2>2, <2>3, <3>1
  <2> QED BY <2>4, <2>5
<1>9. WritesApplied' /\ StoreApplied'
  <2>1. \A d \in R!Calls : /\ op'[d]["put_writes"] = op[d]["put_writes"]
                           /\ op'[d]["store"] = op[d]["store"]
    BY <1>3 DEF Changes
  <2> QED BY <1>1, <2>1 DEF IInv, WritesApplied, StoreApplied, Pending
<1> QED BY <1>4, <1>5, <1>6, <1>7, <1>8, <1>9 DEF IInv

LEMMA PutWritesStep ==
    ASSUME R!RemoteAssumption, IInv, NEW c \in R!Calls, R!PutWrites(c)
    PROVE  IInv'
<1> USE DEF R!CallBacks, R!process, R!memory
<1>1. node[c] = "running" /\ UNCHANGED <<invoked, node, pipe, serde, saved, writes, puts, items>>
  BY DEF R!PutWrites, R!Checkpointing
<1>2. PICK id \in Nat : Changes(c, "put_writes", "sent", id)
  <2>1. PICK id \in DOMAIN puts : R!Send(c, "put_writes", id)
    BY DEF R!PutWrites
  <2>2. id \in Nat
    BY DEF IInv, Types
  <2> QED BY <2>1, <2>2, SendOp DEF IInv
<1>3. Types'
  BY <1>1, <1>2 DEF IInv, Types, Changes
<1>4. Traceless'
  BY <1>1 DEF IInv, Traceless, R!Made
<1>5. AsMarked'
  BY <1>1, <1>2, MarkedKept
<1>6. \A d \in R!Calls : /\ op'[d]["put"] = op[d]["put"]
                         /\ op'[d]["store"] = op[d]["store"]
                         /\ d # c => op'[d]["put_writes"] = op[d]["put_writes"]
  BY <1>2 DEF Changes
<1>7. Owned'
  BY <1>1, <1>6 DEF IInv, Owned
<1>8. PutApplied'
  BY <1>1, <1>6 DEF IInv, PutApplied, Pending
<1>9. WritesApplied' /\ StoreApplied'
  BY <1>1, <1>2, <1>6 DEF IInv, WritesApplied, StoreApplied, Pending, Changes
<1> QED BY <1>3, <1>4, <1>5, <1>7, <1>8, <1>9 DEF IInv

LEMMA StoreStep ==
    ASSUME R!RemoteAssumption, IInv, NEW c \in R!Calls, R!Store(c)
    PROVE  IInv'
<1> USE DEF R!CallBacks, R!process, R!memory
<1>1. node[c] = "running" /\ UNCHANGED <<invoked, node, pipe, serde, saved, writes, puts, items>>
  BY DEF R!Store, R!Checkpointing
<1>2. PICK id \in Nat : Changes(c, "store", "sent", id)
  BY SendOp DEF IInv, R!Store
<1>3. Types'
  BY <1>1, <1>2 DEF IInv, Types, Changes
<1>4. Traceless'
  BY <1>1 DEF IInv, Traceless, R!Made
<1>5. AsMarked'
  BY <1>1, <1>2, MarkedKept
<1>6. \A d \in R!Calls : /\ op'[d]["put"] = op[d]["put"]
                         /\ op'[d]["put_writes"] = op[d]["put_writes"]
                         /\ d # c => op'[d]["store"] = op[d]["store"]
  BY <1>2 DEF Changes
<1>7. Owned'
  BY <1>1, <1>6 DEF IInv, Owned
<1>8. PutApplied'
  BY <1>1, <1>6 DEF IInv, PutApplied, Pending
<1>9. WritesApplied' /\ StoreApplied'
  BY <1>1, <1>2, <1>6 DEF IInv, WritesApplied, StoreApplied, Pending, Changes
<1> QED BY <1>3, <1>4, <1>5, <1>7, <1>8, <1>9 DEF IInv

LEMMA CallStep ==
    ASSUME R!RemoteAssumption, IInv, NEW c \in R!Calls, NEW kind \in Kinds \ {"none", "python"},
           R!Call(c, kind)
    PROVE  IInv'
<1> USE DEF R!memory
<1> DEFINE Fresh(k) == IF up /\ k = "load" /\ R!LoadsFirst(kind)
                       THEN [at |-> "sent", tries |-> 1, id |-> 0] ELSE R!Idle
<1>1. /\ invoked[c].at = "idle" /\ node[c] = "none" /\ pipe[c] = "nothing" /\ ~R!Made(c)
      /\ UNCHANGED <<pipe, serde, saved, writes, puts, items>>
  BY DEF R!Call, IInv, Traceless
<1>2. /\ invoked' \in [R!Calls -> [kind : Kinds, at : {"idle", "waiting", "returned", "raised"}]]
      /\ invoked'[c].at \in {"waiting", "raised"}
      /\ \A d \in R!Calls : d # c => invoked'[d] = invoked[d]
  BY DEF R!Call, IInv, Types
<1>3. /\ node' \in [R!Calls -> {"none", "running", "returned", "threw", "gone"}]
      /\ node'[c] # "returned"
      /\ \A d \in R!Calls : d # c => node'[d] = node[d]
  BY DEF R!Call, IInv, Types
<1>4. \A k \in R!CallBacks : Fresh(k) \in Sent /\ Fresh(k).id = 0
                           /\ (k # "load" => Fresh(k).at = "idle")
  BY DEF R!Idle, Sent
<1>5. op' = [op EXCEPT ![c] = [k \in R!CallBacks |-> Fresh(k)]]
  BY DEF R!Call
<1> HIDE DEF Fresh
<1>6. /\ op' \in [R!Calls -> [R!CallBacks -> Sent]]
      /\ \A k \in R!CallBacks : op'[c][k] = Fresh(k)
      /\ \A d \in R!Calls : d # c => op'[d] = op[d]
  BY <1>4, <1>5 DEF IInv, Types
<1>7. Types'
  BY <1>1, <1>2, <1>3, <1>6 DEF IInv, Types
<1>8. Traceless'
  BY <1>1, <1>2, <1>3 DEF IInv, Traceless, R!Made
<1>9. AsMarked'
  BY <1>1, <1>2, <1>3, <1>6 DEF IInv, AsMarked, R!AllHeard, R!Returned
<1>10. Owned'
  BY <1>1, <1>4, <1>6 DEF IInv, Owned, R!CallBacks
<1>11. PutApplied'
  <2>1. \A d \in R!Calls : d # c => (Pending(d, "put")' <=> Pending(d, "put"))
    BY <1>6 DEF Pending
  <2> QED BY <1>1, <1>2, <1>6, <2>1 DEF IInv, PutApplied, R!Made
<1>12. WritesApplied' /\ StoreApplied'
  BY <1>1, <1>4, <1>6 DEF IInv, WritesApplied, StoreApplied, Pending, R!CallBacks
<1> QED BY <1>7, <1>8, <1>9, <1>10, <1>11, <1>12 DEF IInv

----------------------------------------------------------------------------
(* Runs of the thread.                                                     *)

LEMMA RollBackStep ==
    ASSUME R!RemoteAssumption, IInv, NEW c \in R!Calls, R!RollBack(c)
    PROVE  IInv'
<1> USE DEF R!process
<1>1. /\ invoked[c].at = "waiting" /\ UNCHANGED <<node, op, puts, writes, items>>
      /\ saved' \subseteq saved /\ \A x \in saved : x.by # c => x \in saved'
  BY DEF R!RollBack, R!Waiting
<1>2. /\ invoked' \in [R!Calls -> [kind : Kinds, at : {"idle", "waiting", "returned", "raised"}]]
      /\ invoked'[c].at = "raised" /\ \A d \in R!Calls : d # c => invoked'[d] = invoked[d]
  BY DEF R!RollBack, R!End, IInv, Types
<1>3. /\ pipe' \in [R!Calls -> {"nothing", "all", "error", "blanks", "cut"}]
      /\ pipe'[c] = "nothing" /\ \A d \in R!Calls : d # c => pipe'[d] = pipe[d]
  BY DEF R!RollBack, IInv, Types
<1>4. Types'
  BY <1>1, <1>2, <1>3 DEF IInv, Types
<1>5. Traceless'
  BY <1>1, <1>2, <1>3 DEF IInv, Traceless, R!Made
<1>6. AsMarked'
  BY <1>1, <1>2, <1>3 DEF IInv, AsMarked, R!AllHeard, R!Returned
<1>7. Owned'
  BY <1>1 DEF IInv, Owned
<1>8. PutApplied'
  <2> SUFFICES ASSUME NEW d \in R!Calls, invoked'[d].at # "raised", invoked'[d].kind # "python",
                      NEW id \in DOMAIN puts, puts[id] = d
               PROVE  \/ \E x \in saved' : x.id = id
                      \/ Pending(d, "put") /\ op[d]["put"].id = id
    BY <1>1 DEF PutApplied, Pending
  <2>1. d # c /\ invoked'[d] = invoked[d]
    BY <1>2
  <2>2. CASE \E x \in saved : x.id = id
    BY <1>1, <2>1, <2>2 DEF IInv, Owned
  <2> QED BY <2>1, <2>2 DEF IInv, PutApplied
<1>9. WritesApplied' /\ StoreApplied'
  BY <1>1 DEF IInv, WritesApplied, StoreApplied, Pending
<1> QED BY <1>4, <1>5, <1>6, <1>7, <1>8, <1>9 DEF IInv

LEMMA PutPythonStep ==
    ASSUME R!RemoteAssumption, IInv, NEW c \in R!Calls, R!PutPython(c)
    PROVE  IInv'
<1> USE DEF R!process
<1> DEFINE n == Len(puts')
           x == [id |-> n, by |-> c, form |-> IF serde = "own" THEN "msgpack" ELSE "json"]
<1>1. /\ invoked[c].at = "waiting" /\ invoked[c].kind = "python"
      /\ UNCHANGED <<invoked, node, pipe, op, writes, items>>
  BY DEF R!PutPython, R!Waiting
<1>2. /\ puts' \in Seq(R!Calls) /\ n \in Nat
      /\ n \in DOMAIN puts' /\ puts'[n] = c
      /\ \A id \in DOMAIN puts : id \in DOMAIN puts' /\ puts'[id] = puts[id]
      /\ \A id \in DOMAIN puts' : id \notin DOMAIN puts => id = n
  <2>1. puts' = Append(puts, c) /\ puts \in Seq(R!Calls)
    BY DEF R!PutPython, IInv, Types
  <2> QED BY <2>1
<1>3. saved' = saved \/ saved' = saved \cup {x}
  BY DEF R!PutPython, R!Stored
<1>4. x \in [id : Nat, by : R!Calls, form : {"msgpack", "json"}] /\ x.id = n /\ x.by = c
  BY <1>2
<1> HIDE DEF n, x
<1>5. Types'
  BY <1>1, <1>2, <1>3, <1>4 DEF IInv, Types
<1>6. Traceless'
  BY <1>1, <1>2 DEF IInv, Traceless, R!Made
<1>7. AsMarked'
  BY <1>1 DEF IInv, AsMarked, R!AllHeard, R!Returned
<1>8. Owned'
  BY <1>1, <1>2, <1>3, <1>4 DEF IInv, Owned
<1>9. PutApplied'
  BY <1>1, <1>2, <1>3 DEF IInv, PutApplied, Pending
<1>10. WritesApplied' /\ StoreApplied'
  BY <1>1 DEF IInv, WritesApplied, StoreApplied, Pending
<1> QED BY <1>5, <1>6, <1>7, <1>8, <1>9, <1>10 DEF IInv

----------------------------------------------------------------------------

LEMMA StepInvariant ==
    ASSUME R!RemoteAssumption, IInv, [R!Next]_(R!vars)
    PROVE  IInv'
<1>1. ASSUME NEW c \in R!Calls,
             \/ R!StreamEvents(c) \/ R!GetState(c) \/ R!UpdateState(c)
             \/ R!GetStateHistory(c) \/ R!GetSchema(c) \/ R!GetGraph(c) \/ R!GetSubgraphs(c)
      PROVE  IInv'
  <2>1. PICK kind \in Kinds \ {"none", "python"} : R!Call(c, kind)
    BY <1>1 DEF R!StreamEvents, R!GetState, R!UpdateState, R!GetStateHistory, R!GetSchema,
       R!GetGraph, R!GetSubgraphs, Kinds
  <2> QED BY <2>1, CallStep
<1>2. ASSUME NEW c \in R!Calls,
             \/ R!Return(c) \/ R!Throw(c) \/ R!Read(c) \/ R!TimeOut(c) \/ R!Interrupt(c)
             \/ R!StartPython(c) \/ R!EndPython(c)
      PROVE  IInv'
  BY <1>2, ReturnStep, ThrowStep, ReadStep, TimeOutStep, InterruptStep,
     StartPythonStep,
     EndPythonStep
<1>3. ASSUME NEW c \in R!Calls,
             \/ R!Put(c) \/ R!PutWrites(c) \/ R!Store(c)
             \/ R!ServeLoad(c) \/ R!ServePut(c) \/ R!ServePutWrites(c) \/ R!ServeStore(c)
      PROVE  IInv'
  BY <1>3, PutStep, PutWritesStep, StoreStep, ServeLoadStep, ServePutStep,
     ServePutWritesStep, ServeStoreStep
<1>4. ASSUME NEW c \in R!Calls, NEW k \in R!CallBacks,
             R!Hear(c, k) \/ R!TryAgain(c, k) \/ R!GiveUp(c, k)
      PROVE  IInv'
  BY <1>4, HearStep, TryAgainStep, GiveUpStep
<1>5. ASSUME NEW c \in R!Calls, R!RollBack(c) \/ R!PutPython(c)
      PROVE  IInv'
  BY <1>5, RollBackStep, PutPythonStep
<1>6. CASE R!Die \/ R!Restart
  BY <1>6, DieStep, RestartStep
<1>7. CASE UNCHANGED R!vars
  BY <1>7 DEF R!vars, IInv, Types, Traceless, R!Made, AsMarked, R!Returned, R!AllHeard, Owned,
     PutApplied, WritesApplied, StoreApplied, Pending
<1> QED BY <1>1, <1>2, <1>3, <1>4, <1>5, <1>6, <1>7 DEF R!Next

LEMMA Invariant == MCSpec => []IInv
<1>1. MCInit => IInv
  BY RemoteAssumed, InitInvariant DEF MCInit
<1>2. [MCNext]_allVars => [R!Next]_(R!vars)
  BY DEF MCNext, allVars, js, R!vars
<1>3. IInv /\ [R!Next]_(R!vars) => IInv'
  BY RemoteAssumed, StepInvariant
<1> QED BY <1>1, <1>2, <1>3, PTL DEF MCSpec

\* A call whose handler threw in the JavaScript process, or whose process died,
\* never looks finished to Python (js/remote.py, js/client.mts).
THEOREM NeverFalselyFinished == MCSpec => []NoFalseSuccess
<1>1. IInv => NoFalseSuccess
  BY DEF IInv, AsMarked, NoFalseSuccess, R!NoFalseSuccess
<1> QED BY <1>1, Invariant, PTL

\* When a call of a JavaScript graph returns, its checkpoints, its writes and its
\* puts to the store have been carried out by the call-back server, however
\* often a connection was lost, and whatever other calls on the thread did.
THEOREM AppliedWhenDone == MCSpec => []AppliedBeforeDone
<1>1. IInv => AppliedBeforeDone
  <2> SUFFICES ASSUME IInv, NEW c \in R!Calls, R!Returned(c)
               PROVE  /\ \A id \in DOMAIN puts : puts[id] = c => \E x \in saved : x.id = id
                      /\ op[c]["put_writes"].id # 0 => op[c]["put_writes"].id \in writes
                      /\ op[c]["store"].id # 0 => c \in items
    BY DEF AppliedBeforeDone, R!AppliedBeforeDone
  <2>1. \A k \in R!CallBacks : ~Pending(c, k)
    BY DEF IInv, AsMarked, R!AllHeard, Pending
  <2>2. invoked[c].at # "raised" /\ invoked[c].kind # "python"
    BY DEF R!Returned
  <2> QED BY <2>1, <2>2 DEF IInv, PutApplied, WritesApplied, StoreApplied, R!CallBacks
<1> QED BY <1>1, Invariant, PTL

----------------------------------------------------------------------------
(* A batch.                                                                *)

BatchTypes ==
    /\ at \in [B!Creations -> {"called", "sending", "waiting", "returned", "raised"}]
    /\ inserted \subseteq B!Creations
    /\ open \in BOOLEAN
    /\ reply \in {"none", "error", "runs"}

\* The barrier is closed while one has not come to it, and open when all have.
Barrier ==
    /\ ~open => \E j \in B!Creations : at[j] # "waiting"
    /\ open => \A j \in B!Creations : at[j] \notin {"called", "sending"}
    /\ \A j \in B!Creations : at[j] = "returned" => open /\ j \in inserted

\* The caller is told of the first error, or when all have returned.
Told ==
    /\ (\E j \in B!Creations : at[j] = "raised") => reply # "none"
    /\ (\A j \in B!Creations : at[j] = "returned") => reply # "none"
    /\ reply = "runs" => \A j \in B!Creations : at[j] = "returned"

BatchInv == BatchTypes /\ Barrier /\ Told

\* One creation has gone on, and the caller was told what there is to tell.
LEMMA ToldStep ==
    ASSUME BatchInv, NEW i \in B!Creations, at[i] # "returned", B!Gathered,
           at' \in [B!Creations -> {"called", "sending", "waiting", "returned", "raised"}],
           \A j \in B!Creations : j # i => at'[j] = at[j]
    PROVE  Told' /\ reply' \in {"none", "error", "runs"}
<1>1. reply # "runs"
  BY DEF BatchInv, Told
<1>2. reply' \in {"none", "error", "runs"}
  BY DEF B!Gathered, BatchInv, BatchTypes
<1>3. (\E j \in B!Creations : at'[j] = "raised") => reply' # "none"
  BY DEF B!Gathered
<1>4. (\A j \in B!Creations : at'[j] = "returned") => reply' # "none"
  BY DEF B!Gathered
<1>5. reply' = "runs" => \A j \in B!Creations : at'[j] = "returned"
  BY <1>1 DEF B!Gathered
<1> QED BY <1>2, <1>3, <1>4, <1>5 DEF Told

\* One comes to the barrier.
LEMMA ArriveStep ==
    ASSUME BatchInv, NEW i \in B!Creations, at[i] \in {"called", "sending"},
           B!Arrive(i), inserted' \in {inserted, inserted \cup {i}}, B!Gathered
    PROVE  BatchInv'
<1> USE DEF BatchInv
<1>1. /\ open' \in BOOLEAN
      /\ open' <=> \A j \in B!Creations \ {i} : at[j] = "waiting"
  BY DEF B!Arrive
<1>2. /\ at' \in [B!Creations -> {"called", "sending", "waiting", "returned", "raised"}]
      /\ \A j \in B!Creations : j # i => at'[j] = at[j]
      /\ at'[i] = IF open' THEN B!Fetched(i) ELSE "waiting"
  BY DEF B!Arrive, B!Fetched, BatchTypes
<1>3. Told' /\ reply' \in {"none", "error", "runs"}
  BY <1>2, ToldStep
<1>4. ~open
  BY DEF Barrier
<1>5. Barrier'
  <2>1. ~open' => \E j \in B!Creations : at'[j] # "waiting"
    BY <1>1, <1>2
  <2>2. open' => \A j \in B!Creations : at'[j] \notin {"called", "sending"}
    BY <1>1, <1>2 DEF B!Fetched
  <2>3. \A j \in B!Creations : at'[j] = "returned" => open' /\ j \in inserted'
    BY <1>1, <1>2, <1>4 DEF Barrier, B!Fetched
  <2> QED BY <2>1, <2>2, <2>3 DEF Barrier
<1> QED BY <1>1, <1>2, <1>3, <1>5 DEF BatchTypes

LEMMA BatchStep ==
    ASSUME BatchInv, [B!Next]_(B!vars)
    PROVE  BatchInv'
<1> USE DEF BatchInv
<1>1. ASSUME NEW i \in B!Creations, B!Raise(i) PROVE BatchInv'
  <2>1. /\ at[i] \in {"called", "sending"} /\ at' = [at EXCEPT ![i] = "raised"]
        /\ B!Gathered /\ UNCHANGED <<inserted, open>>
    BY <1>1 DEF B!Raise, B!Begins
  <2>2. /\ at' \in [B!Creations -> {"called", "sending", "waiting", "returned", "raised"}]
        /\ at'[i] = "raised" /\ \A j \in B!Creations : j # i => at'[j] = at[j]
    BY <2>1 DEF BatchTypes
  <2>3. Told' /\ reply' \in {"none", "error", "runs"}
    BY <2>1, <2>2, ToldStep
  <2>4. Barrier'
    BY <2>1, <2>2 DEF Barrier
  <2> QED BY <2>1, <2>2, <2>3, <2>4 DEF BatchTypes
<1>2. ASSUME NEW i \in B!Creations, B!Send(i) PROVE BatchInv'
  <2>1. /\ at[i] = "called" /\ at' = [at EXCEPT ![i] = "sending"]
        /\ UNCHANGED <<inserted, open, reply>>
    BY <1>2 DEF B!Send, B!Begins
  <2>2. /\ at' \in [B!Creations -> {"called", "sending", "waiting", "returned", "raised"}]
        /\ at'[i] = "sending" /\ \A j \in B!Creations : j # i => at'[j] = at[j]
    BY <2>1 DEF BatchTypes
  <2>3. Barrier' /\ Told'
    BY <2>1, <2>2 DEF Barrier, Told
  <2> QED BY <2>1, <2>2, <2>3 DEF BatchTypes
<1>3. ASSUME NEW i \in B!Creations, B!SendInVain(i) \/ B!Insert(i) PROVE BatchInv'
  BY <1>3, ArriveStep DEF B!SendInVain, B!Insert, B!Begins
<1>4. ASSUME NEW i \in B!Creations, B!Pass(i) PROVE BatchInv'
  <2>1. /\ at[i] = "waiting" /\ open /\ at' = [at EXCEPT ![i] = B!Fetched(i)]
        /\ B!Gathered /\ UNCHANGED <<inserted, open>>
    BY <1>4 DEF B!Pass
  <2>2. /\ at' \in [B!Creations -> {"called", "sending", "waiting", "returned", "raised"}]
        /\ at'[i] = (IF i \in inserted THEN "returned" ELSE "raised")
        /\ \A j \in B!Creations : j # i => at'[j] = at[j]
    BY <2>1 DEF BatchTypes, B!Fetched
  <2>3. Told' /\ reply' \in {"none", "error", "runs"}
    BY <2>1, <2>2, ToldStep
  <2>4. Barrier'
    BY <2>1, <2>2 DEF Barrier
  <2> QED BY <2>1, <2>2, <2>3, <2>4 DEF BatchTypes
<1>5. CASE UNCHANGED B!vars
  BY <1>5 DEF B!vars, BatchTypes, Barrier, Told
<1> QED BY <1>1, <1>2, <1>3, <1>4, <1>5 DEF B!Next

\* A batch of any size has its answer when none of its creations can go on, and an
\* answer with runs has all of them in the table (create_stateless_run_batch).
THEOREM BatchesAnswered == MCSpec => []BatchAnswered
<1>1. MCInit => BatchInv
  <2>1. 1 \in B!Creations
    BY BatchAssumed DEF B!BatchAssumption, B!Creations
  <2> QED BY <2>1 DEF MCInit, B!Init, BatchInv, BatchTypes, Barrier, Told
<1>2. [MCNext]_allVars => [B!Next]_(B!vars)
  BY DEF MCNext, allVars, batch, B!vars
<1>3. BatchInv /\ [B!Next]_(B!vars) => BatchInv'
  BY BatchAssumed, BatchStep
<1>4. BatchInv => BatchAnswered
  BY DEF BatchInv, BatchTypes, Barrier, Told, BatchAnswered, B!BatchAnswered, B!CanGoOn
<1> QED BY <1>1, <1>2, <1>3, <1>4, PTL DEF MCSpec

----------------------------------------------------------------------------
(* Whose work a run is.                                                    *)

RequestTypes ==
    [at : {"new", "verifying", "admitted", "answered", "handling"},
     by : People \cup {"nothing", "wrong"}, scheme : {"none", "langsmith"},
     tries : Nat, user : I!Identities \cup {NoUser},
     answer : {"none", "200", "401", "403", "500"}]

IdentityTypes ==
    /\ request \in [Incoming -> RequestTypes]
    /\ context \in [I!Tasks -> I!Identities \cup {NoUser}]
    /\ held \in [I!Tasks -> Seq(I!Identities \cup {NoUser})]
    /\ job \in [Jobs -> [at : {"none", "pending", "executing", "settling", "over"},
                        user : I!Identities \cup {NoUser}, asker : I!Identities \cup {NoUser}]]

\* A request is handled as the user it was admitted as; nobody is in the context of
\* its task before.
AsAdmitted ==
    \A q \in Incoming :
        /\ request[q].at \in {"new", "verifying", "admitted"} => context[q] = NoUser
        /\ request[q].at \in {"admitted", "handling"} => request[q].user \in I!Identities
        /\ request[q].at = "handling" =>
              context[q] = request[q].user /\ Len(held[q]) >= 1

\* The worker of a run has found nobody in its context, and the calls of its graph the
\* user of the run, whom they leave there however they end.
Trail(r) ==
    /\ Len(held[r]) >= 1 /\ held[r][1] = NoUser
    /\ \A i \in 2..Len(held[r]) : held[r][i] = job[r].user

AsCreated ==
    \A r \in Jobs :
        /\ job[r].at # "none" => job[r].user = job[r].asker /\ job[r].user \in I!Identities
        /\ job[r].at \in {"none", "pending"} => context[r] = NoUser /\ held[r] = <<>>
        /\ job[r].at = "executing" => context[r] = job[r].user /\ Trail(r)
        /\ job[r].at = "settling" => context[r] = NoUser /\ Len(held[r]) = 1 /\ Trail(r)

IdentityInv == IdentityTypes /\ AsAdmitted /\ AsCreated

LEMMA IdentityStart ==
    ASSUME I!IdentityAssumption, I!Init
    PROVE  IdentityInv
<1>1. I!NewRequest \in RequestTypes /\ I!NewRequest.at = "new"
  BY DEF I!NewRequest, RequestTypes
<1>2. /\ I!NoJob.at = "none"
      /\ I!NoJob \in [at : {"none", "pending", "executing", "settling", "over"},
                      user : I!Identities \cup {NoUser}, asker : I!Identities \cup {NoUser}]
  BY DEF I!NoJob
<1>3. /\ request = [q \in Incoming |-> I!NewRequest]
      /\ context = [t \in I!Tasks |-> NoUser]
      /\ held = [t \in I!Tasks |-> <<>>]
      /\ job = [r \in Jobs |-> I!NoJob]
  BY DEF I!Init
<1>4. <<>> \in Seq(I!Identities \cup {NoUser})
  OBVIOUS
<1>5. IdentityTypes
  BY <1>1, <1>2, <1>3, <1>4 DEF IdentityTypes
<1>6. AsAdmitted
  BY <1>1, <1>3 DEF AsAdmitted, I!Tasks
<1>7. AsCreated
  BY <1>2, <1>3 DEF AsCreated, I!Tasks
<1> QED BY <1>5, <1>6, <1>7 DEF IdentityInv

\* Authentication changes one request, which has not been handled.
LEMMA RequestGoes ==
    ASSUME I!IdentityAssumption, IdentityInv, NEW q \in Incoming, NEW x \in RequestTypes,
           request[q].at \in {"new", "verifying"},
           request' = [request EXCEPT ![q] = x],
           x.at \in {"verifying", "admitted", "answered"},
           x.at = "admitted" => x.user \in I!Identities,
           UNCHANGED <<context, held, job>>
    PROVE  IdentityInv'
<1> USE DEF IdentityInv
<1>1. /\ request' \in [Incoming -> RequestTypes] /\ request'[q] = x
      /\ \A p \in Incoming : p # q => request'[p] = request[p]
  BY DEF IdentityTypes
<1>2. IdentityTypes'
  BY <1>1 DEF IdentityTypes
<1>3. context[q] = NoUser
  BY DEF AsAdmitted
<1>4. AsAdmitted'
  BY <1>1, <1>3 DEF AsAdmitted
<1>5. AsCreated'
  BY DEF AsCreated, Trail
<1> QED BY <1>2, <1>4, <1>5

LEMMA Authentication ==
    ASSUME I!IdentityAssumption, IdentityInv, NEW q \in Incoming,
           \/ \E by \in People \cup {"nothing", "wrong"}, s \in {"none", "langsmith"} :
                 I!Arrive(q, by, s)
           \/ I!VerifyNobody(q) \/ I!VerifyCustom(q)
           \/ I!VerifyMissing(q) \/ I!VerifyAnswered(q) \/ I!VerifyUnreachable(q)
    PROVE  IdentityInv'
<1> USE DEF IdentityInv
<1>1. request \in [Incoming -> RequestTypes] /\ request[q] \in RequestTypes
  BY DEF IdentityTypes
<1>2. ASSUME NEW by \in People \cup {"nothing", "wrong"}, NEW s \in {"none", "langsmith"},
             I!Arrive(q, by, s)
      PROVE  IdentityInv'
  <2> DEFINE x == [request[q] EXCEPT !.at = "verifying", !.by = by, !.scheme = s]
  <2>1. x \in RequestTypes /\ x.at = "verifying"
    BY <1>1 DEF RequestTypes
  <2>2. /\ request[q].at = "new" /\ request' = [request EXCEPT ![q] = x]
        /\ UNCHANGED <<context, held, job>>
    BY <1>2 DEF I!Arrive
  <2> QED BY <2>1, <2>2, RequestGoes
<1>3. ASSUME NEW u \in I!Identities, request[q].at = "verifying", I!Admit(q, u)
      PROVE  IdentityInv'
  <2> DEFINE x == [request[q] EXCEPT !.at = "admitted", !.user = u]
  <2>1. x \in RequestTypes /\ x.at = "admitted" /\ x.user = u
    BY <1>1 DEF RequestTypes
  <2>2. request' = [request EXCEPT ![q] = x] /\ UNCHANGED <<context, held, job>>
    BY <1>3 DEF I!Admit
  <2> QED BY <1>3, <2>1, <2>2, RequestGoes
<1>4. ASSUME NEW code \in {"401", "403", "500"}, request[q].at = "verifying",
             I!Turn(q, code)
      PROVE  IdentityInv'
  <2> DEFINE x == [request[q] EXCEPT !.at = "answered", !.answer = code]
  <2>1. x \in RequestTypes /\ x.at = "answered"
    BY <1>1 DEF RequestTypes
  <2>2. request' = [request EXCEPT ![q] = x] /\ UNCHANGED <<context, held, job>>
    BY <1>4 DEF I!Turn
  <2> QED BY <1>4, <2>1, <2>2, RequestGoes
<1>5. ASSUME I!VerifyNobody(q) PROVE IdentityInv'
  BY <1>3, <1>5 DEF I!VerifyNobody, I!Identities
<1>6. ASSUME I!VerifyCustom(q) PROVE IdentityInv'
  BY <1>3, <1>4, <1>6 DEF I!VerifyCustom, I!Identities
<1>7. ASSUME I!VerifyMissing(q) PROVE IdentityInv'
  BY <1>4, <1>7 DEF I!VerifyMissing
<1>8. ASSUME I!VerifyAnswered(q) PROVE IdentityInv'
  BY <1>3, <1>4, <1>8 DEF I!VerifyAnswered, I!Identities
<1>9. ASSUME I!VerifyUnreachable(q) PROVE IdentityInv'
  <2>1. CASE I!Turn(q, "500") /\ request[q].at = "verifying"
    BY <1>4, <2>1
  <2>2. CASE /\ request[q].at = "verifying"
             /\ request' = [request EXCEPT ![q].tries = @ + 1]
             /\ UNCHANGED <<context, held, job>>
    <3> DEFINE x == [request[q] EXCEPT !.tries = @ + 1]
    <3>1. x \in RequestTypes /\ x.at = "verifying"
      BY <1>1, <2>2 DEF RequestTypes
    <3>2. request' = [request EXCEPT ![q] = x]
      BY <1>1, <2>2
    <3> QED BY <2>2, <3>1, <3>2, RequestGoes
  <2> QED BY <1>9, <2>1, <2>2 DEF I!VerifyUnreachable
<1> QED BY <1>2, <1>5, <1>6, <1>7, <1>8, <1>9

\* What with_user finds and leaves in a task.
LEMMA Entered ==
    ASSUME IdentityInv, NEW t \in I!Tasks, NEW u \in I!Identities \cup {NoUser}, I!EnterAs(t, u)
    PROVE  /\ held' \in [I!Tasks -> Seq(I!Identities \cup {NoUser})]
           /\ context' \in [I!Tasks -> I!Identities \cup {NoUser}]
           /\ context'[t] = u /\ held'[t] = Append(held[t], context[t])
           /\ \A s \in I!Tasks : s # t => context'[s] = context[s] /\ held'[s] = held[s]
<1>1. Append(held[t], context[t]) \in Seq(I!Identities \cup {NoUser})
  BY DEF IdentityInv, IdentityTypes
<1> QED BY <1>1 DEF IdentityInv, IdentityTypes, I!EnterAs

LEMMA LeftBehind ==
    ASSUME IdentityInv, NEW t \in I!Tasks, Len(held[t]) >= 1,
           I!Leave(t) \/ I!LeaveByException(t)
    PROVE  /\ held' \in [I!Tasks -> Seq(I!Identities \cup {NoUser})]
           /\ context' \in [I!Tasks -> I!Identities \cup {NoUser}]
           /\ context'[t] \in {context[t], held[t][Len(held[t])]}
           /\ held[t][Len(held[t])] = NoUser => context'[t] = context[t]
           /\ Len(held'[t]) = Len(held[t]) - 1
           /\ \A i \in 1..(Len(held[t]) - 1) : held'[t][i] = held[t][i]
           /\ \A s \in I!Tasks : s # t => context'[s] = context[s] /\ held'[s] = held[s]
<1> DEFINE short == SubSeq(held[t], 1, Len(held[t]) - 1)
<1>1. held[t] \in Seq(I!Identities \cup {NoUser})
  BY DEF IdentityInv, IdentityTypes
<1>2. /\ short \in Seq(I!Identities \cup {NoUser}) /\ Len(short) = Len(held[t]) - 1
      /\ \A i \in 1..(Len(held[t]) - 1) : short[i] = held[t][i]
  BY <1>1
<1>3. held[t][Len(held[t])] \in I!Identities \cup {NoUser}
  BY <1>1
<1>4. /\ held' = [held EXCEPT ![t] = short]
      /\ context' = [context EXCEPT ![t] = context'[t]]
      /\ context'[t] \in {context[t], held[t][Len(held[t])]}
      /\ held[t][Len(held[t])] = NoUser => context'[t] = context[t]
  BY DEF I!Leave, I!LeaveByException, I!Found, IdentityInv, IdentityTypes
<1> HIDE DEF short
<1> QED BY <1>2, <1>3, <1>4 DEF IdentityInv, IdentityTypes

\* The handlers of requests.
LEMMA Handling ==
    ASSUME I!IdentityAssumption, IdentityInv, NEW q \in Incoming,
           \/ I!Handle(q) \/ I!Respond(q) \/ I!HandlerFails(q)
    PROVE  IdentityInv'
<1>1. /\ request \in [Incoming -> RequestTypes] /\ request[q] \in RequestTypes
      /\ q \in I!Tasks /\ job' = job
      /\ \A r \in Jobs : r \in I!Tasks /\ r # q
      /\ \A p \in Incoming : p \in I!Tasks
  BY DEF IdentityInv, IdentityTypes, I!Tasks, I!IdentityAssumption, I!Handle, I!Respond,
     I!HandlerFails
<1>2. ASSUME NEW x \in RequestTypes, x.user = request[q].user,
             x.at \in {"handling", "answered"},
             request' = [request EXCEPT ![q] = x],
             held' \in [I!Tasks -> Seq(I!Identities \cup {NoUser})],
             context' \in [I!Tasks -> I!Identities \cup {NoUser}],
             \A s \in I!Tasks : s # q => context'[s] = context[s] /\ held'[s] = held[s],
             x.at = "handling" => /\ x.user \in I!Identities /\ context'[q] = x.user
                                  /\ Len(held'[q]) >= 1
      PROVE  IdentityInv'
  <2>1. /\ request' \in [Incoming -> RequestTypes] /\ request'[q] = x
        /\ \A p \in Incoming : p # q => request'[p] = request[p]
    BY <1>1, <1>2
  <2>2. IdentityTypes'
    BY <1>1, <1>2, <2>1 DEF IdentityInv, IdentityTypes
  <2>3. AsAdmitted'
    BY <1>1, <1>2, <2>1 DEF IdentityInv, AsAdmitted
  <2>4. \A r \in Jobs : context'[r] = context[r] /\ held'[r] = held[r]
    BY <1>1, <1>2
  <2>5. \A r \in Jobs : Trail(r) => Trail(r)'
    BY <1>1, <2>4 DEF Trail
  <2>6. AsCreated'
    BY <1>1, <2>4, <2>5 DEF IdentityInv, AsCreated
  <2> QED BY <2>2, <2>3, <2>6 DEF IdentityInv
<1>3. ASSUME I!Handle(q) PROVE IdentityInv'
  <2> DEFINE x == [request[q] EXCEPT !.at = "handling"]
  <2>1. /\ request[q].at = "admitted" /\ request' = [request EXCEPT ![q] = x]
        /\ context[q] = NoUser /\ request[q].user \in I!Identities
    BY <1>3 DEF I!Handle, IdentityInv, AsAdmitted
  <2>2. x \in RequestTypes /\ x.user = request[q].user /\ x.at = "handling"
    BY <1>1 DEF RequestTypes
  <2>3. I!EnterAs(q, x.user)
    BY <1>3, <2>1, <2>2 DEF I!Handle, I!HandleAs
  <2>4. /\ held' \in [I!Tasks -> Seq(I!Identities \cup {NoUser})]
        /\ context' \in [I!Tasks -> I!Identities \cup {NoUser}]
        /\ context'[q] = x.user /\ held'[q] = Append(held[q], context[q])
        /\ \A s \in I!Tasks : s # q => context'[s] = context[s] /\ held'[s] = held[s]
    BY <1>1, <2>1, <2>2, <2>3, Entered
  <2>5. Len(held'[q]) >= 1
    <3>1. held[q] \in Seq(I!Identities \cup {NoUser})
      BY <1>1 DEF IdentityInv, IdentityTypes
    <3> QED BY <2>4, <3>1
  <2> HIDE DEF x
  <2> QED BY <1>2, <2>1, <2>2, <2>4, <2>5
<1>4. ASSUME I!Respond(q) \/ I!HandlerFails(q) PROVE IdentityInv'
  <2>1. PICK x \in RequestTypes : /\ x.user = request[q].user /\ x.at = "answered"
                                  /\ request' = [request EXCEPT ![q] = x]
    <3> DEFINE y(code) == [request[q] EXCEPT !.at = "answered", !.answer = code]
    <3>1. \A code \in {"200", "500"} : /\ y(code) \in RequestTypes
                                       /\ y(code).user = request[q].user
                                       /\ y(code).at = "answered"
      BY <1>1 DEF RequestTypes
    <3>2. \E code \in {"200", "500"} : request' = [request EXCEPT ![q] = y(code)]
      BY <1>1, <1>4 DEF I!Respond, I!HandlerFails
    <3> QED BY <3>1, <3>2
  <2>2. Len(held[q]) >= 1
    BY <1>4 DEF IdentityInv, AsAdmitted, I!Respond, I!HandlerFails
  <2>3. I!Leave(q) \/ I!LeaveByException(q)
    BY <1>4 DEF I!Respond, I!HandlerFails
  <2>4. /\ held' \in [I!Tasks -> Seq(I!Identities \cup {NoUser})]
        /\ context' \in [I!Tasks -> I!Identities \cup {NoUser}]
        /\ \A s \in I!Tasks : s # q => context'[s] = context[s] /\ held'[s] = held[s]
    BY <1>1, <2>2, <2>3, LeftBehind
  <2> QED BY <1>2, <2>1, <2>4
<1> QED BY <1>3, <1>4

\* A run is created, by a request or by another run, as who is in the context.
LEMMA Creation ==
    ASSUME I!IdentityAssumption, IdentityInv, NEW t \in I!Tasks, NEW r \in Jobs,
           NEW u \in I!Identities, context[t] = u, I!CreateIn(t, r, u)
    PROVE  IdentityInv'
<1> DEFINE x == [at |-> "pending", user |-> u, asker |-> u]
<1>1. /\ job[r].at = "none" /\ job' = [job EXCEPT ![r] = x]
      /\ UNCHANGED <<request, context, held>>
  BY DEF I!CreateIn
<1>2. /\ job' \in [Jobs -> [at : {"none", "pending", "executing", "settling", "over"},
                            user : I!Identities \cup {NoUser}, asker : I!Identities \cup {NoUser}]]
      /\ job'[r] = x /\ \A s \in Jobs : s # r => job'[s] = job[s]
  BY <1>1 DEF IdentityInv, IdentityTypes
<1>3. IdentityTypes'
  BY <1>1, <1>2 DEF IdentityInv, IdentityTypes
<1>4. AsAdmitted'
  BY <1>1 DEF IdentityInv, AsAdmitted
<1>5. AsCreated'
  BY <1>1, <1>2 DEF IdentityInv, AsCreated, Trail
<1> QED BY <1>3, <1>4, <1>5 DEF IdentityInv

\* The worker of a run and the calls of its graph: no other task is concerned.
RunGoes(r, x) ==
    /\ x \in [at : {"none", "pending", "executing", "settling", "over"},
              user : I!Identities \cup {NoUser}, asker : I!Identities \cup {NoUser}]
    /\ x.user = job[r].user /\ x.asker = job[r].asker
    /\ job' = [job EXCEPT ![r] = x]
    /\ request' = request
    /\ held' \in [I!Tasks -> Seq(I!Identities \cup {NoUser})]
    /\ context' \in [I!Tasks -> I!Identities \cup {NoUser}]
    /\ \A s \in I!Tasks : s # r => context'[s] = context[s] /\ held'[s] = held[s]
    /\ x.at \in {"executing", "settling", "over"}
    /\ x.at = "executing" => context'[r] = x.user /\ Trail(r)'
    /\ x.at = "settling" => context'[r] = NoUser /\ Len(held'[r]) = 1 /\ Trail(r)'

LEMMA RunMoves ==
    ASSUME I!IdentityAssumption, IdentityInv, NEW r \in Jobs, job[r].at # "none",
           NEW x, RunGoes(r, x)
    PROVE  IdentityInv'
<1>1. /\ \A p \in Incoming : p \in I!Tasks /\ p # r
      /\ \A s \in Jobs : s \in I!Tasks
  BY DEF I!Tasks, I!IdentityAssumption
<1>2. /\ job' \in [Jobs -> [at : {"none", "pending", "executing", "settling", "over"},
                            user : I!Identities \cup {NoUser}, asker : I!Identities \cup {NoUser}]]
      /\ job'[r] = x /\ \A s \in Jobs : s # r => job'[s] = job[s]
  BY DEF RunGoes, IdentityInv, IdentityTypes
<1>3. IdentityTypes'
  BY <1>2 DEF RunGoes, IdentityInv, IdentityTypes
<1>4. AsAdmitted'
  BY <1>1 DEF RunGoes, IdentityInv, AsAdmitted
<1>5. AsCreated'
  BY <1>1, <1>2 DEF RunGoes, IdentityInv, AsCreated, Trail
<1> QED BY <1>3, <1>4, <1>5 DEF IdentityInv

LEMMA Running ==
    ASSUME I!IdentityAssumption, IdentityInv, NEW r \in Jobs,
           \/ I!Begin(r) \/ I!CallServer(r) \/ I!Return(r) \/ I!CallFails(r)
           \/ I!End(r) \/ I!Settle(r)
    PROVE  IdentityInv'
<1> DEFINE J == [at : {"none", "pending", "executing", "settling", "over"},
                 user : I!Identities \cup {NoUser}, asker : I!Identities \cup {NoUser}]
<1>1. /\ job \in [Jobs -> J] /\ job[r] \in J /\ r \in I!Tasks
      /\ held[r] \in Seq(I!Identities \cup {NoUser})
      /\ held \in [I!Tasks -> Seq(I!Identities \cup {NoUser})]
      /\ context \in [I!Tasks -> I!Identities \cup {NoUser}]
  BY DEF IdentityInv, IdentityTypes, I!Tasks
<1>2. job[r].at \in {"pending", "executing", "settling"} /\ request' = request
  BY DEF I!Begin, I!CallServer, I!Return, I!CallFails, I!End, I!Settle
<1>3. job[r].user \in I!Identities /\ job[r].user # NoUser
  BY <1>2 DEF IdentityInv, AsCreated, I!IdentityAssumption
<1>4. CASE I!Begin(r)
  <2> DEFINE x == [job[r] EXCEPT !.at = "executing"]
  <2>1. /\ x \in J /\ x.user = job[r].user /\ x.asker = job[r].asker
        /\ x.at = "executing"
    BY <1>1
  <2>2. /\ job[r].at = "pending" /\ job' = [job EXCEPT ![r] = x]
        /\ I!EnterAs(r, job[r].user)
    BY <1>3, <1>4 DEF I!Begin
  <2>3. context[r] = NoUser /\ held[r] = <<>>
    BY <2>2 DEF IdentityInv, AsCreated
  <2>4. /\ held' \in [I!Tasks -> Seq(I!Identities \cup {NoUser})]
        /\ context' \in [I!Tasks -> I!Identities \cup {NoUser}]
        /\ context'[r] = job[r].user /\ held'[r] = Append(held[r], context[r])
        /\ \A s \in I!Tasks : s # r => context'[s] = context[s] /\ held'[s] = held[s]
    BY <1>1, <1>3, <2>2, Entered
  <2>5. held'[r] = <<NoUser>>
    BY <2>3, <2>4
  <2>6. Trail(r)'
    BY <2>5 DEF Trail
  <2> HIDE DEF x
  <2>7. RunGoes(r, x)
    BY <1>2, <2>1, <2>2, <2>4, <2>6 DEF RunGoes
  <2> QED BY <1>2, <2>7, RunMoves
<1>5. CASE I!CallServer(r)
  <2>1. job[r].at = "executing" /\ job' = job /\ context[r] = job[r].user /\ Trail(r)
    BY <1>5 DEF I!CallServer, IdentityInv, AsCreated
  <2>2. I!EnterAs(r, job[r].user)
    BY <1>3, <1>5, <2>1 DEF I!CallServer, I!HandleAs
  <2>3. /\ held' \in [I!Tasks -> Seq(I!Identities \cup {NoUser})]
        /\ context' \in [I!Tasks -> I!Identities \cup {NoUser}]
        /\ context'[r] = job[r].user /\ held'[r] = Append(held[r], job[r].user)
        /\ \A s \in I!Tasks : s # r => context'[s] = context[s] /\ held'[s] = held[s]
    BY <1>1, <1>3, <2>1, <2>2, Entered
  <2>4. /\ Len(held'[r]) = Len(held[r]) + 1
        /\ \A i \in 1..Len(held[r]) : held'[r][i] = held[r][i]
        /\ held'[r][Len(held[r]) + 1] = job[r].user
    BY <1>1, <1>3, <2>3
  <2>5. Trail(r)'
    BY <1>1, <2>1, <2>4, SMTT(30) DEF Trail
  <2>6. RunGoes(r, job[r])
    BY <1>1, <1>2, <2>1, <2>3, <2>5 DEF RunGoes
  <2> QED BY <1>2, <2>6, RunMoves
<1>6. CASE I!Return(r) \/ I!CallFails(r)
  <2>1. /\ job[r].at = "executing" /\ job' = job /\ context[r] = job[r].user /\ Trail(r)
        /\ I!Depth(r) > 0
        /\ (I!Leave(r) \/ I!LeaveByException(r))
    BY <1>6 DEF I!Return, I!CallFails, IdentityInv, AsCreated
  <2>2. Len(held[r]) \in Nat /\ Len(held[r]) >= 2
    <3>1. Len(held[r]) \in Nat
      BY <1>1
    <3>2. Len(held[r]) - 1 > 0
      BY <1>3, <2>1 DEF I!Depth
    <3> QED BY <3>1, <3>2
  <2>3. /\ held' \in [I!Tasks -> Seq(I!Identities \cup {NoUser})]
        /\ context' \in [I!Tasks -> I!Identities \cup {NoUser}]
        /\ context'[r] \in {context[r], held[r][Len(held[r])]}
        /\ held[r][Len(held[r])] = NoUser => context'[r] = context[r]
        /\ Len(held'[r]) = Len(held[r]) - 1
        /\ \A i \in 1..(Len(held[r]) - 1) : held'[r][i] = held[r][i]
        /\ \A s \in I!Tasks : s # r => context'[s] = context[s] /\ held'[s] = held[s]
    <3>1. Len(held[r]) >= 1 /\ r \in I!Tasks
      BY <1>1, <2>2
    <3> QED BY <2>1, <3>1, LeftBehind
  <2>4. held[r][Len(held[r])] = job[r].user
    BY <2>1, <2>2 DEF Trail
  <2>5. Trail(r)'
    <3>1. Len(held'[r]) >= 1 /\ held'[r][1] = NoUser
      <4>1. 1 \in 1..(Len(held[r]) - 1) /\ Len(held'[r]) >= 1
        BY <2>2, <2>3
      <4>2. held'[r][1] = held[r][1] /\ held[r][1] = NoUser
        BY <2>1, <2>3, <4>1 DEF Trail
      <4> QED BY <4>1, <4>2
    <3>2. ASSUME NEW i \in 2..Len(held'[r]) PROVE held'[r][i] = job'[r].user
      <4>1. i \in 2..Len(held[r]) /\ i \in 1..(Len(held[r]) - 1)
        BY <2>2, <2>3, <3>2
      <4>2. held'[r][i] = held[r][i]
        BY <2>3, <4>1
      <4>3. held[r][i] = job[r].user
        BY <2>1, <4>1 DEF Trail
      <4> QED BY <2>1, <4>2, <4>3
    <3> QED BY <3>1, <3>2 DEF Trail
  <2>6. RunGoes(r, job[r])
    BY <1>1, <1>2, <2>1, <2>3, <2>4, <2>5 DEF RunGoes
  <2> QED BY <1>2, <2>6, RunMoves
<1>7. CASE I!End(r)
  <2> DEFINE x == [job[r] EXCEPT !.at = "settling"]
  <2>1. /\ x \in J /\ x.user = job[r].user /\ x.asker = job[r].asker
        /\ x.at = "settling"
    BY <1>1
  <2>2. /\ job[r].at = "executing" /\ job' = [job EXCEPT ![r] = x] /\ held' = held
        /\ context' = [context EXCEPT ![r] = NoUser] /\ I!Depth(r) = 0 /\ Trail(r)
    BY <1>7 DEF I!End, IdentityInv, AsCreated
  <2>3. Len(held[r]) = 1
    BY <1>1, <1>3, <2>2 DEF I!Depth
  <2>4. Trail(r)'
    BY <2>2, <2>3 DEF Trail
  <2>5. /\ context' \in [I!Tasks -> I!Identities \cup {NoUser}] /\ context'[r] = NoUser
        /\ \A s \in I!Tasks : s # r => context'[s] = context[s]
    BY <1>1, <2>2
  <2> HIDE DEF x
  <2>6. RunGoes(r, x)
    BY <1>1, <1>2, <2>1, <2>2, <2>3, <2>4, <2>5 DEF RunGoes
  <2> QED BY <1>2, <2>6, RunMoves
<1>8. CASE I!Settle(r)
  <2> DEFINE x == [job[r] EXCEPT !.at = "over"]
  <2>1. x \in J /\ x.user = job[r].user /\ x.asker = job[r].asker /\ x.at = "over"
    BY <1>1
  <2>2. /\ job' = [job EXCEPT ![r] = x] /\ I!Leave(r) /\ Len(held[r]) >= 1
    BY <1>3, <1>8 DEF I!Settle, IdentityInv, AsCreated, Trail
  <2>3. /\ held' \in [I!Tasks -> Seq(I!Identities \cup {NoUser})]
        /\ context' \in [I!Tasks -> I!Identities \cup {NoUser}]
        /\ \A s \in I!Tasks : s # r => context'[s] = context[s] /\ held'[s] = held[s]
    BY <1>1, <2>2, LeftBehind
  <2> HIDE DEF x
  <2>4. RunGoes(r, x)
    BY <1>2, <2>1, <2>2, <2>3 DEF RunGoes
  <2> QED BY <1>2, <2>4, RunMoves
<1> QED BY <1>4, <1>5, <1>6, <1>7, <1>8

LEMMA IdentityStep ==
    ASSUME I!IdentityAssumption, IdentityInv, [I!Next]_(I!vars)
    PROVE  IdentityInv'
<1>1. CASE I!Next
  <2>1. ASSUME NEW q \in Incoming, NEW r \in Jobs, I!Create(q, r) PROVE IdentityInv'
    <3>1. /\ request[q].user \in I!Identities /\ context[q] = request[q].user
          /\ I!CreateIn(q, r, request[q].user) /\ q \in I!Tasks
      BY <2>1 DEF I!Create, IdentityInv, AsAdmitted, I!Tasks
    <3> QED BY <3>1, Creation
  <2>2. ASSUME NEW r \in Jobs, NEW s \in Jobs, I!CreateFrom(r, s) PROVE IdentityInv'
    <3>1. /\ job[r].asker \in I!Identities /\ context[r] = job[r].asker
          /\ I!CreateIn(r, s, job[r].asker) /\ r \in I!Tasks
      BY <2>2 DEF I!CreateFrom, IdentityInv, AsCreated, I!Tasks
    <3> QED BY <3>1, Creation
  <2> QED BY <1>1, <2>1, <2>2, Authentication, Handling, Running DEF I!Next
<1>2. CASE UNCHANGED I!vars
  BY <1>2 DEF I!vars, IdentityInv, IdentityTypes, AsAdmitted, AsCreated, Trail
<1> QED BY <1>1, <1>2

LEMMA IdentityHolds == I!Spec => []I!RunsAsCreator
<1>1. I!Init => IdentityInv
  BY IdentityAssumed, IdentityStart
<1>2. IdentityInv /\ [I!Next]_(I!vars) => IdentityInv'
  BY IdentityAssumed, IdentityStep
<1>3. IdentityInv => I!RunsAsCreator
  BY DEF IdentityInv, AsCreated, I!RunsAsCreator
<1> QED BY <1>1, <1>2, <1>3, PTL DEF I!Spec

\* Every run belongs to whom the request that led to it was authenticated as, and
\* executes as that user; what its worker writes afterwards is nobody's (utils.py,
\* route.py, worker.py).
THEOREM RunsAreTheirCreators == MCSpec => []RunsAsCreator
<1>1. MCInit => I!Init
  BY DEF MCInit
<1>2. [MCNext]_allVars => [I!Next]_(I!vars)
  BY DEF MCNext, allVars, users, I!vars, I!settings
<1>3. MCSpec => I!Spec
  BY <1>1, <1>2, PTL DEF MCSpec, I!Spec
<1>4. I!RunsAsCreator => RunsAsCreator
  BY DEF RunsAsCreator
<1> QED BY <1>3, <1>4, IdentityHolds, PTL

=============================================================================
