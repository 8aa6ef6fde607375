-------------------------- MODULE AssistantsProofs --------------------------
(***************************************************************************)
(* Proofs about Assistants: version numbers are unique, a row is one of    *)
(* the versions of its assistant, and the tables implement VersionHistory. *)
(*                                                                         *)
(* The inductive invariant adds that the numbers of an assistant that      *)
(* exists are 1..n: then max() + 1 is n + 1, a number never used.          *)
(*                                                                         *)
(* Then the run table: which runs a deletion leaves in a list is a scan of *)
(* it (Only), shown by induction over the list; the inductive invariant    *)
(* adds that a run of the table is none that is still to be inserted.      *)
(***************************************************************************)
EXTENDS Assistants, SequenceTheorems, FiniteSetTheorems, WellFoundedInduction, TLAPS

Dense == \A a \in Ids : Exists(a) => \E n \in Nat \ {0} : Numbers(a) = 1..n

IInv == CatalogTypeOK /\ VersionsUnique /\ RowIsItsVersion /\ Dense

LEMMA MaxOfInterval ==
    ASSUME NEW n \in Nat \ {0}
    PROVE  Max(1..n) = n
<1>1. \A x \in 1..n : (\A y \in 1..n : x >= y) => x = n
    OBVIOUS
<1>2. n \in 1..n /\ \A y \in 1..n : n >= y
    OBVIOUS
<1> QED
    BY <1>1, <1>2 DEF Max

\* The number a patch gives is the next one.
LEMMA NextNumber ==
    ASSUME IInv, NEW a \in Ids, Exists(a)
    PROVE  \E n \in Nat \ {0} : Numbers(a) = 1..n /\ NewNumber(a) = n + 1
<1>1. PICK n \in Nat \ {0} : Numbers(a) = 1..n
    BY DEF IInv, Dense
<1>2. versions # {}
    BY <1>1 DEF Numbers
<1>3. Max(Numbers(a)) = n
    BY <1>1, MaxOfInterval
<1> QED
    BY <1>1, <1>2, <1>3 DEF NewNumber

\* What Store does to the catalog, when the number is new.
LEMMA StoreKeeps ==
    ASSUME IInv, NEW a \in Ids, NEW g \in Graphs, NEW c \in Configs,
           NEW m \in SUBSET Keys, NEW n \in Nat \ {0},
           Store(a, g, c, m, n),
           Exists(a) => n \notin Numbers(a),
           IF Exists(a) THEN Numbers(a) = 1..(n - 1) ELSE n = 1
    PROVE  IInv'
<1> DEFINE new == [id |-> a, version |-> n, graph |-> g, config |-> c, meta |-> m]
           line == [graph |-> g, config |-> c, meta |-> m, version |-> n]
<1>1. /\ row' = [row EXCEPT ![a] = line]
      /\ versions' = versions \cup {new}
    BY DEF Store
<1>2. new \in Versions /\ line \in Rows /\ line # Nil
    BY NilAssumption DEF Versions, Rows
<1>2a. /\ new.id = a /\ new.version = n /\ new.config = c /\ new.meta = m
      /\ line.version = n /\ line.config = c /\ line.meta = m
    OBVIOUS
<1> HIDE DEF new, line
<1>3. CatalogTypeOK'
    BY <1>1, <1>2 DEF IInv, CatalogTypeOK
<1>4. \A v \in versions : v.id = a => v.version # n
    BY DEF IInv, RowIsItsVersion, Numbers
<1>5. VersionsUnique'
    BY <1>1, <1>2a, <1>4 DEF IInv, VersionsUnique
<1>6. row'[a] = line /\ \A b \in Ids : b # a => row'[b] = row[b]
    BY <1>1 DEF IInv, CatalogTypeOK
<1>7. RowIsItsVersion'
  <2>1. ASSUME NEW b \in Ids, row'[b] # Nil
        PROVE  \E v \in versions' : /\ v.id = b /\ v.version = row'[b].version
                                    /\ v.config = row'[b].config
                                    /\ v.meta = row'[b].meta
    <3>1. CASE b = a
        BY <3>1, <1>1, <1>2a, <1>6
    <3>2. CASE b # a
        BY <3>2, <2>1, <1>1, <1>6 DEF IInv, RowIsItsVersion, Exists
    <3> QED
        BY <3>1, <3>2
  <2>2. ASSUME NEW v \in versions'
        PROVE  row'[v.id] # Nil
    <3>1. CASE v = new
        BY <3>1, <1>2, <1>2a, <1>6
    <3>2. CASE v \in versions
        BY <3>2, <1>2, <1>6
           DEF IInv, RowIsItsVersion, Exists, CatalogTypeOK, Versions
    <3> QED
        BY <3>1, <3>2, <2>2, <1>1
  <2> QED
    BY <2>1, <2>2 DEF RowIsItsVersion, Exists
<1>8. Dense'
  <2> SUFFICES ASSUME NEW b \in Ids, row'[b] # Nil
               PROVE  \E k \in Nat \ {0} : Numbers(b)' = 1..k
      BY DEF Dense, Exists
  <2>1. CASE b # a
    <3>1. Numbers(b)' = Numbers(b)
        BY <2>1, <1>1, <1>2a DEF Numbers
    <3> QED
        BY <3>1, <2>1, <1>6 DEF IInv, Dense, Exists
  <2>2. CASE b = a
    <3>1. Numbers(a)' = Numbers(a) \cup {n}
        BY <1>1, <1>2a DEF Numbers
    <3>2. Numbers(a) = IF Exists(a) THEN 1..(n - 1) ELSE {}
        BY DEF IInv, RowIsItsVersion, Numbers
    <3>3. Numbers(a)' = 1..n
        BY <3>1, <3>2
    <3> QED
        BY <3>3, <2>2
  <2> QED
    BY <2>1, <2>2
<1> QED
    BY <1>3, <1>5, <1>7, <1>8 DEF IInv

LEMMA InitInvariant == Init => IInv
  BY DEF Init, IInv, CatalogTypeOK, VersionsUnique, RowIsItsVersion, Dense, Exists

LEMMA Invariance == IInv /\ [Next]_vars => IInv'
<1> SUFFICES ASSUME IInv, [Next]_vars PROVE IInv'
    OBVIOUS
<1>0. ASSUME UNCHANGED catalog PROVE IInv'
    BY <1>0 DEF catalog, IInv, CatalogTypeOK, VersionsUnique, RowIsItsVersion,
                Dense, Exists, Numbers
<1>1. ASSUME NEW a \in Ids, NEW g \in Graphs, NEW c \in Configs,
             NEW m \in SUBSET Keys, Put(a, g, c, m)
      PROVE  IInv'
    BY <1>1, StoreKeeps DEF Put
<1>2. ASSUME NEW a \in Ids, NEW g \in Graphs, NEW c \in Configs,
             NEW m \in SUBSET Keys, Patch(a, g, c, m)
      PROVE  IInv'
  <2>1. PICK n \in Nat \ {0} : Numbers(a) = 1..n /\ NewNumber(a) = n + 1
    BY <1>2, NextNumber DEF Patch
  <2> DEFINE merged == IF m = {} THEN {} ELSE row[a].meta \cup m
  <2>2. merged \in SUBSET Keys
    BY <1>2 DEF IInv, CatalogTypeOK, Rows, Patch, Exists
  <2>3. Store(a, g, c, merged, n + 1)
    BY <1>2, <2>1 DEF Patch
  <2>4. n + 1 \notin Numbers(a) /\ Numbers(a) = 1..((n + 1) - 1) /\ n + 1 \in Nat \ {0}
    BY <2>1
  <2>5. Exists(a)
    BY <1>2 DEF Patch
  <2> QED
    BY <2>2, <2>3, <2>4, <2>5, StoreKeeps
<1>3. ASSUME NEW a \in Ids, NEW v \in versions, SetLatest(a, v)
      PROVE  IInv'
  <2> DEFINE line == [row[a] EXCEPT !.config = v.config, !.meta = v.meta,
                                    !.version = v.version]
  <2>1. /\ Exists(a) /\ v.id = a /\ versions' = versions
        /\ row' = [row EXCEPT ![a] = line]
    BY <1>3 DEF SetLatest
  <2>2. v \in Versions /\ row[a] \in Rows
    BY <2>1 DEF IInv, CatalogTypeOK, Exists
  <2>3. /\ line \in Rows /\ line # Nil
        /\ line.config = v.config /\ line.meta = v.meta /\ line.version = v.version
    BY <2>2, NilAssumption DEF Rows, Versions
  <2>4. row'[a] = line /\ \A b \in Ids : b # a => row'[b] = row[b]
    BY <2>1 DEF IInv, CatalogTypeOK
  <2>5. \A b \in Ids : Exists(b)' <=> Exists(b)
    BY <2>1, <2>3, <2>4 DEF Exists
  <2>6. CatalogTypeOK'
    BY <2>1, <2>3 DEF IInv, CatalogTypeOK
  <2>7. VersionsUnique'
    BY <2>1 DEF IInv, VersionsUnique
  <2>8. Dense'
    BY <2>1, <2>5 DEF IInv, Dense, Numbers
  <2>9. RowIsItsVersion'
    <3>1. ASSUME NEW b \in Ids, Exists(b)'
          PROVE  \E w \in versions' : /\ w.id = b /\ w.version = row'[b].version
                                      /\ w.config = row'[b].config
                                      /\ w.meta = row'[b].meta
      <4>1. CASE b = a
          BY <4>1, <2>1, <2>3, <2>4
      <4>2. CASE b # a
          BY <4>2, <3>1, <2>1, <2>4, <2>5 DEF IInv, RowIsItsVersion
      <4> QED
          BY <4>1, <4>2
    <3>2. \A w \in versions' : Exists(w.id)'
      BY <2>1, <2>5 DEF IInv, RowIsItsVersion, CatalogTypeOK, Versions
    <3> QED
      BY <3>1, <3>2 DEF RowIsItsVersion, Exists
  <2> QED
    BY <2>6, <2>7, <2>8, <2>9 DEF IInv
<1>4. ASSUME NEW a \in Ids, NEW d \in Deletions, Delete(d, a)
      PROVE  IInv'
  <2>1. /\ row' = [row EXCEPT ![a] = Nil]
        /\ versions' = {v \in versions : v.id # a}
    BY <1>4 DEF Delete
  <2>2. row'[a] = Nil /\ \A b \in Ids : b # a => row'[b] = row[b]
    BY <2>1 DEF IInv, CatalogTypeOK
  <2>3. \A b \in Ids : b # a => Numbers(b)' = Numbers(b)
    BY <2>1 DEF Numbers
  <2>4. CatalogTypeOK'
    BY <2>1 DEF IInv, CatalogTypeOK
  <2>5. VersionsUnique'
    BY <2>1 DEF IInv, VersionsUnique
  <2>6. Dense'
    BY <2>2, <2>3 DEF IInv, Dense, Exists
  <2>7. RowIsItsVersion'
    BY <2>1, <2>2 DEF IInv, RowIsItsVersion, Exists, CatalogTypeOK, Versions
  <2> QED
    BY <2>4, <2>5, <2>6, <2>7 DEF IInv
<1>5. ASSUME NEW r \in Runs, RunRequest(r) PROVE IInv'
    BY <1>5, <1>0 DEF RunRequest, CreateRun, BeginRun, InsertRun, DeleteRun
<1>6. ASSUME NEW t \in Threads, CreateThread(t) \/ DeleteThread(t) PROVE IInv'
    BY <1>6, <1>0 DEF CreateThread, DeleteThread
<1>7. ASSUME NEW d \in Deletions, DeleteNext(d) PROVE IInv'
    BY <1>7, <1>0 DEF DeleteNext
<1>8. CASE UNCHANGED vars
    BY <1>8, <1>0 DEF vars, catalog
<1> QED
    BY <1>1, <1>2, <1>3, <1>4, <1>5, <1>6, <1>7, <1>8 DEF Next, AssistantRequest

THEOREM InvariantHolds == Spec => []IInv
  BY InitInvariant, Invariance, PTL DEF Spec

\* However patches, selections of older versions, deletions and new creations
\* under the same identifier follow each other, no version number is given to
\* two versions of an assistant.
THEOREM NumbersAreUnique == Spec => []VersionsUnique
<1>1. IInv => VersionsUnique
    BY DEF IInv
<1> QED
    BY InvariantHolds, <1>1, PTL

\* The row of an assistant is always one of its versions, as far as config and
\* metadata go, and versions outlive no assistant.
THEOREM RowsAreVersions == Spec => []RowIsItsVersion
<1>1. IInv => RowIsItsVersion
    BY DEF IInv
<1> QED
    BY InvariantHolds, <1>1, PTL

----------------------------------------------------------------------------
(* The refinement of VersionHistory.                                       *)

LEMMA Lookup ==
    ASSUME VersionsUnique, NEW v \in versions
    PROVE  Numbered(v.id, v.version) = v
  BY DEF VersionsUnique, Numbered

LEMMA LookupNext ==
    ASSUME VersionsUnique', NEW v \in versions'
    PROVE  Numbered(v.id, v.version)' = v
  BY DEF VersionsUnique, Numbered

\* An assistant whose versions a step leaves alone keeps its history.
LEMMA HistoryKept ==
    ASSUME IInv, IInv', NEW b \in Ids,
           {v \in versions' : v.id = b} = {v \in versions : v.id = b}
    PROVE  HistoryOf'[b] = HistoryOf[b]
<1>1. Numbers(b)' = Numbers(b)
    BY DEF Numbers
<1>2. ASSUME NEW n \in Numbers(b)
      PROVE  Numbered(b, n)' = Numbered(b, n)
  <2>1. PICK v \in versions : v.id = b /\ v.version = n
    BY DEF Numbers
  <2>2. v \in versions'
    BY <2>1
  <2> QED
    BY <2>1, <2>2, Lookup, LookupNext DEF IInv
<1> QED
    BY <1>1, <1>2 DEF HistoryOf, Content

\* What storing a version does to the history.
LEMMA HistoryGrows ==
    ASSUME IInv, IInv', NEW a \in Ids, NEW v \in Versions,
           v.id = a, v.version \notin Numbers(a), versions' = versions \cup {v}
    PROVE  HistoryOf' = [HistoryOf EXCEPT ![a] =
                            [m \in DOMAIN HistoryOf[a] \cup {v.version} |->
                                IF m = v.version THEN Content(v)
                                ELSE HistoryOf[a][m]]]
<1> DEFINE grown == [m \in DOMAIN HistoryOf[a] \cup {v.version} |->
                        IF m = v.version THEN Content(v) ELSE HistoryOf[a][m]]
<1>1. DOMAIN HistoryOf[a] = Numbers(a) /\ Numbers(a)' = Numbers(a) \cup {v.version}
    BY DEF HistoryOf, Numbers
<1>2. Numbered(a, v.version)' = v
    BY LookupNext DEF IInv
<1>3. ASSUME NEW n \in Numbers(a)
      PROVE  Numbered(a, n)' = Numbered(a, n)
  <2>1. PICK w \in versions : w.id = a /\ w.version = n
    BY DEF Numbers
  <2> QED
    BY <2>1, Lookup, LookupNext DEF IInv
<1>4. HistoryOf'[a] = grown
  <2>1. HistoryOf'[a] = [n \in Numbers(a)' |-> Content(Numbered(a, n)')]
    BY DEF HistoryOf, Content
  <2>2. ASSUME NEW n \in Numbers(a)'
        PROVE  Content(Numbered(a, n)') = grown[n]
    <3>1. CASE n = v.version
        BY <3>1, <1>1, <1>2
    <3>2. CASE n # v.version
        BY <3>2, <2>2, <1>1, <1>3 DEF HistoryOf
    <3> QED
        BY <3>1, <3>2
  <2> QED
    BY <2>1, <2>2, <1>1
<1>5. \A b \in Ids : b # a => HistoryOf'[b] = HistoryOf[b]
  <2> SUFFICES ASSUME NEW b \in Ids, b # a PROVE HistoryOf'[b] = HistoryOf[b]
    OBVIOUS
  <2>1. {w \in versions' : w.id = b} = {w \in versions : w.id = b}
    OBVIOUS
  <2> QED
    BY <2>1, HistoryKept
<1> HIDE DEF grown
<1>6. HistoryOf' = [HistoryOf EXCEPT ![a] = grown]
    BY <1>4, <1>5 DEF HistoryOf
<1> QED
    BY <1>6 DEF grown

LEMMA CurrentMoves ==
    ASSUME NEW a \in Ids, NEW x, CurrentOf'[a] = x,
           \A b \in Ids : b # a => row'[b] = row[b]
    PROVE  CurrentOf' = [CurrentOf EXCEPT ![a] = x]
<1>1. \A b \in Ids : b # a => CurrentOf'[b] = CurrentOf[b]
    BY DEF CurrentOf, Exists
<1>2. /\ CurrentOf = [b \in Ids |-> CurrentOf[b]]
      /\ CurrentOf' = [b \in Ids |-> CurrentOf'[b]]
    BY DEF CurrentOf
<1> QED
    BY <1>1, <1>2

LEMMA InitMaps == Init => History!Init
  BY DEF Init, History!Init, History!Empty, HistoryOf, CurrentOf, Exists, Numbers

LEMMA StepMaps ==
    ASSUME IInv, IInv', [Next]_vars
    PROVE  [History!Next]_History!hvars
<1>0. ASSUME UNCHANGED catalog PROVE UNCHANGED History!hvars
    BY <1>0 DEF catalog, History!hvars, HistoryOf, CurrentOf, Exists, Numbers, Numbered
<1>1. ASSUME NEW a \in Ids, NEW g \in Graphs, NEW c \in Configs,
             NEW m \in SUBSET Keys, Put(a, g, c, m)
      PROVE  History!Next
  <2> DEFINE v == [id |-> a, version |-> 1, graph |-> g, config |-> c, meta |-> m]
             line == [graph |-> g, config |-> c, meta |-> m, version |-> 1]
             k == [config |-> c, meta |-> m]
  <2>1. /\ ~Exists(a) /\ versions' = versions \cup {v}
        /\ row' = [row EXCEPT ![a] = line]
    BY <1>1 DEF Put, Store
  <2>2. v \in Versions /\ v.id = a /\ v.version = 1 /\ Content(v) = k
    BY DEF Versions, Content
  <2>3. Numbers(a) = {}
    BY <2>1 DEF Numbers, IInv, RowIsItsVersion
  <2>4. HistoryOf' = [HistoryOf EXCEPT ![a] =
                         [n \in DOMAIN HistoryOf[a] \cup {v.version} |->
                            IF n = v.version THEN Content(v) ELSE HistoryOf[a][n]]]
    BY <2>1, <2>2, <2>3, HistoryGrows
  <2>5. DOMAIN HistoryOf[a] = {}
    BY <2>3 DEF HistoryOf
  <2>6. HistoryOf' = [HistoryOf EXCEPT ![a] = [n \in {1} |-> k]]
    BY <2>2, <2>4, <2>5
  <2>7. CurrentOf[a] = 0 /\ CurrentOf' = [CurrentOf EXCEPT ![a] = 1]
    <3>1. line # Nil /\ line.version = 1
      BY NilAssumption DEF Rows
    <3>2. row'[a] = line /\ \A b \in Ids : b # a => row'[b] = row[b]
      BY <2>1 DEF IInv, CatalogTypeOK
    <3> QED
      BY <3>1, <3>2, <2>1, CurrentMoves DEF CurrentOf, Exists
  <2>8. k \in AllContents
    BY DEF AllContents
  <2> QED
    BY <2>6, <2>7, <2>8 DEF History!Next, History!Create
<1>2. ASSUME NEW a \in Ids, NEW g \in Graphs, NEW c \in Configs,
             NEW m \in SUBSET Keys, Patch(a, g, c, m)
      PROVE  History!Next
  <2> DEFINE merged == IF m = {} THEN {} ELSE row[a].meta \cup m
  <2>1. PICK n \in Nat \ {0} : Numbers(a) = 1..n /\ NewNumber(a) = n + 1
    BY <1>2, NextNumber DEF Patch
  <2>2. merged \in SUBSET Keys
    BY <1>2 DEF IInv, CatalogTypeOK, Rows, Patch, Exists
  <2> HIDE DEF merged
  <2> DEFINE v == [id |-> a, version |-> n + 1, graph |-> g, config |-> c,
                   meta |-> merged]
             line == [graph |-> g, config |-> c, meta |-> merged, version |-> n + 1]
             k == [config |-> c, meta |-> merged]
  <2>3. /\ Exists(a) /\ versions' = versions \cup {v}
        /\ row' = [row EXCEPT ![a] = line]
    BY <1>2, <2>1 DEF Patch, Store, merged
  <2>4. v \in Versions /\ v.id = a /\ v.version = n + 1 /\ Content(v) = k
    BY <2>2 DEF Versions, Content
  <2>5. HistoryOf' = [HistoryOf EXCEPT ![a] =
                         [i \in DOMAIN HistoryOf[a] \cup {v.version} |->
                            IF i = v.version THEN Content(v) ELSE HistoryOf[a][i]]]
    <3>1. v.version \notin Numbers(a)
      BY <2>1, <2>4
    <3> HIDE DEF v
    <3> QED
      BY <3>1, <2>3, <2>4, HistoryGrows
  <2>6. row[a].version \in Nat \ {0}
    BY <2>3 DEF IInv, CatalogTypeOK, Rows, Exists
  <2>7. CurrentOf[a] # 0 /\ CurrentOf' = [CurrentOf EXCEPT ![a] = n + 1]
    <3>1. line # Nil /\ line.version = n + 1
      BY <2>2, NilAssumption DEF Rows
    <3>2. row'[a] = line /\ \A b \in Ids : b # a => row'[b] = row[b]
      BY <2>3 DEF IInv, CatalogTypeOK
    <3> QED
      BY <3>1, <3>2, <2>3, <2>6, CurrentMoves DEF CurrentOf, Exists
  <2>8. CurrentOf'[a] = n + 1
    BY <2>7 DEF CurrentOf
  <2>9. DOMAIN HistoryOf[a] = 1..n
    BY <2>1 DEF HistoryOf
  <2>10. k \in AllContents
    BY <2>2 DEF AllContents
  <2> HIDE DEF v, k
  <2>11. History!Revise(a, k)
    <3>1. \A i \in DOMAIN HistoryOf[a] : i < CurrentOf'[a]
      BY <2>8, <2>9
    <3>2. HistoryOf' = [HistoryOf EXCEPT ![a] =
                          [i \in DOMAIN HistoryOf[a] \cup {CurrentOf'[a]} |->
                             IF i = CurrentOf'[a] THEN k ELSE HistoryOf[a][i]]]
      BY <2>4, <2>5, <2>8
    <3>3. CurrentOf'[a] \in Nat
      BY <2>8
    <3> QED
      BY <3>1, <3>2, <3>3, <2>7, <2>8 DEF History!Revise
  <2> QED
    BY <2>10, <2>11 DEF History!Next
<1>3. ASSUME NEW a \in Ids, NEW v \in versions, SetLatest(a, v)
      PROVE  History!Next
  <2> DEFINE line == [row[a] EXCEPT !.config = v.config, !.meta = v.meta,
                                    !.version = v.version]
  <2>1. /\ Exists(a) /\ v.id = a /\ versions' = versions
        /\ row' = [row EXCEPT ![a] = line]
    BY <1>3 DEF SetLatest
  <2>2. v \in Versions /\ row[a] \in Rows
    BY <2>1 DEF IInv, CatalogTypeOK, Exists
  <2>3. line # Nil /\ line.version = v.version
    BY <2>2, NilAssumption DEF Rows, Versions
  <2>4. row'[a] = line /\ \A b \in Ids : b # a => row'[b] = row[b]
    BY <2>1 DEF IInv, CatalogTypeOK
  <2>5. CurrentOf' = [CurrentOf EXCEPT ![a] = v.version]
    <3>1. CurrentOf'[a] = v.version
      BY <2>3, <2>4 DEF CurrentOf, Exists
    <3> HIDE DEF line
    <3> QED
      BY <3>1, <2>4, CurrentMoves
  <2>6. v.version \in DOMAIN HistoryOf[a]
    BY <2>1 DEF HistoryOf, Numbers
  <2>7. UNCHANGED HistoryOf
    BY <2>1 DEF HistoryOf, Numbers, Numbered
  <2> QED
    BY <2>5, <2>6, <2>7 DEF History!Next, History!Select
<1>4. ASSUME NEW a \in Ids, NEW d \in Deletions, Delete(d, a)
      PROVE  History!Next
  <2>1. /\ Exists(a) /\ row' = [row EXCEPT ![a] = Nil]
        /\ versions' = {v \in versions : v.id # a}
    BY <1>4 DEF Delete
  <2>2. row'[a] = Nil /\ \A b \in Ids : b # a => row'[b] = row[b]
    BY <2>1 DEF IInv, CatalogTypeOK
  <2>3. row[a].version # 0
    BY <2>1 DEF IInv, CatalogTypeOK, Rows, Exists
  <2>4. CurrentOf[a] # 0 /\ CurrentOf' = [CurrentOf EXCEPT ![a] = 0]
    BY <2>1, <2>2, <2>3, CurrentMoves DEF CurrentOf, Exists
  <2>5. HistoryOf'[a] = History!Empty
    <3>1. Numbers(a)' = {}
      BY <2>1 DEF Numbers
    <3> QED
      BY <3>1 DEF HistoryOf, History!Empty
  <2>6. \A b \in Ids : b # a => HistoryOf'[b] = HistoryOf[b]
    <3> SUFFICES ASSUME NEW b \in Ids, b # a PROVE HistoryOf'[b] = HistoryOf[b]
      OBVIOUS
    <3>1. {w \in versions' : w.id = b} = {w \in versions : w.id = b}
      BY <2>1
    <3> QED
      BY <3>1, HistoryKept
  <2>7. HistoryOf' = [HistoryOf EXCEPT ![a] = History!Empty]
    BY <2>5, <2>6 DEF HistoryOf
  <2> QED
    BY <2>4, <2>7 DEF History!Next, History!Drop
<1>5. ASSUME NEW r \in Runs, RunRequest(r) PROVE UNCHANGED catalog
    BY <1>5 DEF RunRequest, CreateRun, BeginRun, InsertRun, DeleteRun
<1>6. ASSUME NEW t \in Threads, CreateThread(t) \/ DeleteThread(t) PROVE UNCHANGED catalog
    BY <1>6 DEF CreateThread, DeleteThread
<1>7. ASSUME NEW d \in Deletions, DeleteNext(d) PROVE UNCHANGED catalog
    BY <1>7 DEF DeleteNext
<1>8. CASE UNCHANGED vars
    BY <1>8, <1>0 DEF vars, catalog
<1> QED
    BY <1>0, <1>1, <1>2, <1>3, <1>4, <1>5, <1>6, <1>7, <1>8
       DEF Next, AssistantRequest

\* The two tables implement the version history the API promises: numbers only
\* grow, stored versions never change, and the current one is among them.
THEOREM ImplementsHistory == Spec => HistoryHolds
<1>1. Init /\ [][Next]_vars => [][History!Next]_History!hvars
    BY InvariantHolds, StepMaps, PTL DEF Spec
<1> QED
    BY <1>1, InitMaps, PTL DEF Spec, HistoryHolds, History!Spec

----------------------------------------------------------------------------
(* The run table.                                                          *)

\* Induction over the naturals, from the fact that the finite sets are
\* well-founded: of the sets 1..n whose n is not in T, take a smallest.
LEMMA Induct ==
    ASSUME NEW T \in SUBSET Nat, 0 \in T, \A n \in T : n + 1 \in T
    PROVE  T = Nat
<1> SUFFICES ASSUME NEW m \in Nat, m \notin T PROVE FALSE
  OBVIOUS
<1> DEFINE S == {U \in FiniteSubsetsOf(Nat) : \E n \in Nat \ T : U = 1..n}
<1>1. S \subseteq FiniteSubsetsOf(Nat) /\ 1..m \in S
  <2>1. 1..m \in FiniteSubsetsOf(Nat)
    BY FS_Interval DEF FiniteSubsetsOf
  <2> QED BY <2>1
<1>2. PICK U \in S : \A V \in S : ~ (<<V, U>> \in StrictSubsetOrdering(Nat))
  <2>1. S # {} BY <1>1
  <2> HIDE DEF S
  <2> QED BY <1>1, <2>1, WFMin, FS_StrictSubsetOrderingWellFounded
<1>3. PICK n \in Nat \ T : U = 1..n
  OBVIOUS
<1>4. n - 1 \in Nat \ T
  <2>1. n # 0 OBVIOUS
  <2>2. n - 1 \in Nat /\ (n - 1) + 1 = n BY <2>1
  <2> QED BY <2>2
<1>5. 1..(n-1) \in FiniteSubsetsOf(Nat)
    BY <1>4, FS_Interval DEF FiniteSubsetsOf
<1>6. 1..(n-1) \in S
  BY <1>4, <1>5
<1>7. <<1..(n-1), U>> \in StrictSubsetOrdering(Nat)
  <2>1. 1..(n-1) \subseteq 1..n /\ n \in 1..n /\ n \notin 1..(n-1) /\ 1..n \subseteq Nat
    BY <1>4
  <2>2. 1..(n-1) \in SUBSET Nat /\ 1..n \in SUBSET Nat /\ 1..(n-1) # 1..n
    BY <2>1
  <2> QED BY <1>3, <2>1, <2>2, Zenon DEF StrictSubsetOrdering
<1> QED BY <1>2, <1>6, <1>7

\* What has been kept of the first n runs of a list.
Keeping(f, n, list, kept) ==
    f = [i \in 0..n |-> IF i = 0 THEN <<>>
                        ELSE IF list[i] \in kept THEN Append(f[i - 1], list[i]) ELSE f[i - 1]]

LEMMA KeepingExists == ASSUME NEW list, NEW kept, NEW n \in Nat PROVE \E f : Keeping(f, n, list, kept)
<1> DEFINE Step(e, i) == IF list[i] \in kept THEN Append(e, list[i]) ELSE e
           T == {k \in Nat : \E f : Keeping(f, k, list, kept)}
<1>0. \A f, k : Keeping(f, k, list, kept)
                   <=> f = [i \in 0..k |-> IF i = 0 THEN <<>> ELSE Step(f[i - 1], i)]
  BY DEF Keeping
<1> HIDE DEF Step
<1>1. 0 \in T
  <2> DEFINE z == [i \in 0..0 |-> <<>>]
  <2>1. z = [i \in 0..0 |-> IF i = 0 THEN <<>> ELSE Step(z[i - 1], i)]
    <3>1. \A i \in 0..0 : i = 0
      OBVIOUS
    <3> QED BY <3>1
  <2> HIDE DEF z
  <2>2. Keeping(z, 0, list, kept)
    BY <1>0, <2>1
  <2> QED BY <2>2
<1>2. ASSUME NEW k \in T PROVE k + 1 \in T
  <2>1. PICK f : Keeping(f, k, list, kept)
    OBVIOUS
  <2> DEFINE g == [i \in 0..(k + 1) |-> IF i <= k THEN f[i] ELSE Step(f[k], k + 1)]
  <2>2. f = [i \in 0..k |-> IF i = 0 THEN <<>> ELSE Step(f[i - 1], i)]
    BY <1>0, <2>1
  <2>3. ASSUME NEW i \in 0..(k + 1)
        PROVE  g[i] = IF i = 0 THEN <<>> ELSE Step(g[i - 1], i)
    <3>1. CASE i = 0
      BY <2>2, <3>1
    <3>2. CASE i \in 1..k
      <4>1. g[i] = f[i] /\ g[i - 1] = f[i - 1] /\ i \in 0..k
        BY <3>2
      <4>2. f[i] = Step(f[i - 1], i)
        BY <2>2, <3>2, <4>1
      <4> HIDE DEF g
      <4> QED BY <3>2, <4>1, <4>2
    <3>3. CASE i = k + 1
      <4>1. g[i] = Step(f[k], k + 1) /\ g[i - 1] = f[k] /\ i # 0
        BY <3>3
      <4> HIDE DEF g
      <4> QED BY <3>3, <4>1
    <3> QED BY <3>1, <3>2, <3>3
  <2>4. g = [i \in 0..(k + 1) |-> g[i]]
    OBVIOUS
  <2> HIDE DEF g
  <2>5. Keeping(g, k + 1, list, kept)
    <3>1. g = [i \in 0..(k + 1) |-> IF i = 0 THEN <<>> ELSE Step(g[i - 1], i)]
      BY <2>3, <2>4, Zenon
    <3> QED BY <1>0, <3>1, Zenon
  <2> QED BY <2>5
<1> HIDE DEF T
<1>3. T = Nat
  <2>1. T \in SUBSET Nat BY DEF T
  <2> QED BY <1>1, <1>2, <2>1, Induct
<1> QED BY <1>3 DEF T

LEMMA OnlyIs ==
    ASSUME NEW list, NEW kept, Len(list) \in Nat
    PROVE  \E f : Keeping(f, Len(list), list, kept) /\ Only(list, kept) = f[Len(list)]
<1> DEFINE g == CHOOSE f : Keeping(f, Len(list), list, kept)
<1>1. Keeping(g, Len(list), list, kept)
  BY KeepingExists
<1>2. Only(list, kept) = g[Len(list)]
  BY DEF Only, Keeping
<1> QED BY <1>1, <1>2

\* No run is in the list twice.
Once(list) == \A i, k \in 1..Len(list) : list[i] = list[k] => i = k

\* What is kept are runs of the list that were to be kept, and none of them
\* twice if none was in the list twice.
LEMMA OnlyKeeps ==
    ASSUME NEW list \in Seq(Runs), NEW kept
    PROVE  /\ Only(list, kept) \in Seq(Runs)
           /\ \A k \in 1..Len(Only(list, kept)) :
                 /\ Only(list, kept)[k] \in kept
                 /\ \E i \in 1..Len(list) : list[i] = Only(list, kept)[k]
           /\ Once(list) => Once(Only(list, kept))
<1>1. Len(list) \in Nat
  BY LenProperties
<1>2. PICK f : Keeping(f, Len(list), list, kept) /\ Only(list, kept) = f[Len(list)]
  BY <1>1, OnlyIs
<1>3. /\ f[0] = <<>>
      /\ \A i \in 1..Len(list) :
            f[i] = IF list[i] \in kept THEN Append(f[i - 1], list[i]) ELSE f[i - 1]
  <2> DEFINE Step(e, i) == IF list[i] \in kept THEN Append(e, list[i]) ELSE e
  <2>1. f = [i \in 0..Len(list) |-> IF i = 0 THEN <<>> ELSE Step(f[i - 1], i)]
    BY <1>2 DEF Keeping
  <2>2. \A i \in 0..Len(list) : f[i] = IF i = 0 THEN <<>> ELSE Step(f[i - 1], i)
    <3> HIDE DEF Step
    <3> QED BY <2>1
  <2>3. \A i \in 1..Len(list) : i \in 0..Len(list) /\ i # 0
    BY <1>1
  <2>4. 0 \in 0..Len(list)
    BY <1>1
  <2> QED BY <2>2, <2>3, <2>4
<1> DEFINE Good(n) == /\ f[n] \in Seq(Runs)
                      /\ \A k \in 1..Len(f[n]) : /\ f[n][k] \in kept
                                                 /\ \E i \in 1..n : list[i] = f[n][k]
                      /\ Once(list) => Once(f[n])
           T == {n \in Nat : n <= Len(list) => Good(n)}
<1>4. 0 \in T
  <2>1. f[0] \in Seq(Runs) /\ Len(f[0]) = 0
    BY <1>3
  <2> QED BY <2>1 DEF Once
<1>5. ASSUME NEW n \in T PROVE n + 1 \in T
  <2> SUFFICES ASSUME n + 1 <= Len(list) PROVE Good(n + 1)
    OBVIOUS
  <2>1. n \in Nat /\ Good(n) /\ n + 1 \in 1..Len(list)
    BY <1>1
  <2>2. CASE list[n + 1] \notin kept
    <3>1. f[n + 1] = f[n]
      BY <1>3, <2>1, <2>2
    <3>2. \A i \in 1..n : i \in 1..(n + 1)
      BY <2>1
    <3> QED BY <2>1, <3>1, <3>2
  <2>3. CASE list[n + 1] \in kept
    <3> DEFINE e == f[n]
               x == list[n + 1]
    <3>1. f[n + 1] = Append(e, x)
      <4>1. (n + 1) - 1 = n
        BY <2>1
      <4> QED BY <1>3, <2>1, <2>3, <4>1
    <3>2. e \in Seq(Runs) /\ x \in Runs
      BY <2>1, ElementOfSeq
    <3>3. /\ \A k \in 1..Len(e) : e[k] \in kept /\ \E i \in 1..n : list[i] = e[k]
          /\ Once(list) => Once(e)
      BY <2>1
    <3>4. Len(e) \in Nat
      BY <3>2, LenProperties
    <3> HIDE DEF e, Good
    <3>5. /\ Append(e, x) \in Seq(Runs) /\ Len(Append(e, x)) = Len(e) + 1
          /\ \A k \in 1..Len(e) : Append(e, x)[k] = e[k]
          /\ Append(e, x)[Len(e) + 1] = x
      BY <3>2, AppendProperties
    <3>6. ASSUME NEW k \in 1..Len(Append(e, x))
          PROVE  Append(e, x)[k] \in kept /\ \E i \in 1..(n + 1) : list[i] = Append(e, x)[k]
      <4>1. CASE k \in 1..Len(e)
        <5>1. PICK i \in 1..n : list[i] = e[k]
          BY <3>3, <4>1
        <5>2. i \in 1..(n + 1)
          BY <2>1
        <5> QED BY <3>3, <3>5, <4>1, <5>1, <5>2
      <4>2. CASE k = Len(e) + 1
        <5>1. n + 1 \in 1..(n + 1)
          BY <2>1
        <5> QED BY <2>3, <3>5, <4>2, <5>1
      <4> QED BY <3>4, <3>5, <4>1, <4>2
    <3>7. ASSUME Once(list) PROVE Once(Append(e, x))
      <4>1. ASSUME NEW k \in 1..Len(e) PROVE e[k] # x
        <5>1. PICK i \in 1..n : list[i] = e[k]
          BY <3>3
        <5>2. i \in 1..Len(list) /\ i # n + 1
          BY <1>1, <2>1
        <5> QED BY <2>1, <3>7, <5>1, <5>2 DEF Once
      <4>2. ASSUME NEW i \in 1..(Len(e) + 1), NEW k \in 1..(Len(e) + 1),
                   Append(e, x)[i] = Append(e, x)[k]
            PROVE  i = k
        <5>1. CASE i \in 1..Len(e) /\ k \in 1..Len(e)
          BY <3>3, <3>5, <3>7, <4>2, <5>1 DEF Once
        <5>2. CASE i = Len(e) + 1 /\ k \in 1..Len(e)
          BY <3>5, <4>1, <4>2, <5>2
        <5>3. CASE k = Len(e) + 1 /\ i \in 1..Len(e)
          BY <3>5, <4>1, <4>2, <5>3
        <5> QED BY <3>4, <5>1, <5>2, <5>3
      <4> QED BY <3>5, <4>2 DEF Once
    <3> QED BY <3>1, <3>5, <3>6, <3>7 DEF Good
  <2> QED BY <2>2, <2>3
<1> HIDE DEF Good
<1>6. T = Nat
  <2> HIDE DEF T
  <2>1. T \in SUBSET Nat BY DEF T
  <2> QED BY <1>4, <1>5, <2>1, Induct
<1>7. Good(Len(list))
  BY <1>1, <1>6
<1> QED BY <1>2, <1>7 DEF Good

\* A run in the table was made for an assistant, on a thread, and is not being
\* inserted any more: so that it is not inserted again.
Placed ==
    \A i \in 1..Len(runs) :
        /\ owner[runs[i]] # Nil /\ runs[i] \notin inserting
        /\ on[runs[i]] \in Threads /\ Known(on[runs[i]])

Pending == \A r \in inserting : owner[r] # Nil /\ on[r] \in Threads

TableInv == TypeOK /\ Once(runs) /\ Placed /\ Pending

LEMMA TableInit == Init => TableInv
<1> SUFFICES ASSUME Init PROVE TableInv
  OBVIOUS
<1>1. Nil \notin Ids /\ Nil \notin Threads
  BY NilAssumption
<1>2. FreeJob \in Jobs
  BY DEF FreeJob, Jobs
<1>3. TypeOK
  BY <1>2 DEF Init, TypeOK, CatalogTypeOK
<1>4. Len(runs) = 0 /\ inserting = {}
  BY DEF Init
<1> QED BY <1>3, <1>4 DEF TableInv, Once, Placed, Pending

\* Rows that leave the table disturb nothing, as long as the others keep their
\* thread.
LEMMA Filtered ==
    ASSUME TableInv, NEW kept, runs' = Only(runs, kept), UNCHANGED <<owner, on, inserting>>,
           \A r \in Runs : r \in kept /\ on[r] \in Threads /\ Known(on[r]) => threads'[on[r]] > 0
    PROVE  runs' \in Seq(Runs) /\ Once(runs') /\ Placed' /\ Pending'
<1>1. runs \in Seq(Runs) /\ Once(runs) /\ Placed /\ Pending
  BY DEF TableInv, TypeOK
<1>2. /\ runs' \in Seq(Runs) /\ Once(runs')
      /\ \A k \in 1..Len(runs') : /\ runs'[k] \in kept
                                  /\ \E i \in 1..Len(runs) : runs[i] = runs'[k]
  BY <1>1, OnlyKeeps
<1>3. ASSUME NEW k \in 1..Len(runs')
      PROVE  /\ owner'[runs'[k]] # Nil /\ runs'[k] \notin inserting'
             /\ on'[runs'[k]] \in Threads /\ threads'[on'[runs'[k]]] > 0
  <2>1. PICK i \in 1..Len(runs) : runs[i] = runs'[k]
    BY <1>2
  <2>2. runs[i] \in Runs
    BY <1>1, ElementOfSeq
  <2>3. /\ owner[runs[i]] # Nil /\ runs[i] \notin inserting
        /\ on[runs[i]] \in Threads /\ Known(on[runs[i]])
    BY <1>1 DEF Placed
  <2> QED BY <1>2, <2>1, <2>2, <2>3
<1>4. Placed'
  BY <1>3 DEF Placed, Known
<1> QED BY <1>1, <1>2, <1>4 DEF Pending

\* A row that enters the table was in it before as little as it is inserted again.
LEMMA Appended ==
    ASSUME TableInv, NEW r \in Runs, runs' = Append(runs, r),
           \A i \in 1..Len(runs) : runs[i] # r,
           owner'[r] # Nil, r \notin inserting', on'[r] \in Threads, Known(on[r])',
           inserting' \subseteq inserting,
           \A s \in Runs : s # r => owner'[s] = owner[s] /\ on'[s] = on[s],
           \A t \in Threads : Known(t) => Known(t)'
    PROVE  runs' \in Seq(Runs) /\ Once(runs') /\ Placed' /\ Pending'
<1>1. runs \in Seq(Runs) /\ Once(runs) /\ Placed /\ Pending /\ inserting \in SUBSET Runs
  BY DEF TableInv, TypeOK
<1>2. Len(runs) \in Nat
  BY <1>1, LenProperties
<1>3. /\ runs' \in Seq(Runs) /\ Len(runs') = Len(runs) + 1
      /\ \A k \in 1..Len(runs) : runs'[k] = runs[k]
      /\ runs'[Len(runs) + 1] = r
  BY <1>1, AppendProperties
<1>4. Once(runs')
  <2>1. ASSUME NEW i \in 1..Len(runs'), NEW k \in 1..Len(runs'), runs'[i] = runs'[k]
        PROVE  i = k
    <3>1. CASE i \in 1..Len(runs) /\ k \in 1..Len(runs)
      BY <1>1, <1>3, <2>1, <3>1 DEF Once
    <3>2. CASE i = Len(runs) + 1 /\ k \in 1..Len(runs)
      BY <1>3, <2>1, <3>2
    <3>3. CASE k = Len(runs) + 1 /\ i \in 1..Len(runs)
      BY <1>3, <2>1, <3>3
    <3> QED BY <1>2, <1>3, <3>1, <3>2, <3>3
  <2> QED BY <2>1 DEF Once
<1>5. ASSUME NEW k \in 1..Len(runs')
      PROVE  /\ owner'[runs'[k]] # Nil /\ runs'[k] \notin inserting'
             /\ on'[runs'[k]] \in Threads /\ threads'[on'[runs'[k]]] > 0
  <2>1. CASE k \in 1..Len(runs)
    <3>1. runs'[k] = runs[k] /\ runs[k] \in Runs /\ runs[k] # r
      BY <1>1, <1>3, <2>1, ElementOfSeq
    <3>2. /\ owner[runs[k]] # Nil /\ runs[k] \notin inserting
          /\ on[runs[k]] \in Threads /\ Known(on[runs[k]])
      BY <1>1, <2>1 DEF Placed
    <3>3. Known(on[runs[k]])'
      BY <3>1, <3>2 DEF Known
    <3> QED BY <3>1, <3>2, <3>3 DEF Known
  <2>2. CASE k = Len(runs) + 1
    BY <1>3, <2>2 DEF Known
  <2> QED BY <1>2, <1>3, <2>1, <2>2
<1>6. Pending'
  <2>1. ASSUME NEW s \in inserting' PROVE owner'[s] # Nil /\ on'[s] \in Threads
    <3>1. s \in inserting /\ s \in Runs /\ s # r
      BY <1>1, <2>1
    <3> QED BY <1>1, <3>1 DEF Pending
  <2> QED BY <2>1 DEF Pending
<1> QED BY <1>3, <1>4, <1>5, <1>6 DEF Placed, Known

\* A step of a deletion keeps runs of the table, and where it is in its list.
LEMMA CascadeKeeps ==
    ASSUME TableInv, NEW d \in Deletions, NEW j \in Jobs, Cascade(d, j)
    PROVE  /\ job' \in [Deletions -> Jobs]
           /\ runs' = runs \/ \E kept : runs' = Only(runs, kept)
<1>1. job \in [Deletions -> Jobs] /\ Hits(j) \subseteq Nat
  BY DEF TableInv, TypeOK, Hits, Jobs
<1>2. /\ [j EXCEPT !.phase = "done"] \in Jobs /\ [j EXCEPT !.phase = "failed"] \in Jobs
      /\ \A i \in Nat : [j EXCEPT !.next = i + 1] \in Jobs
  BY DEF Jobs
<1>3. \A k \in Jobs : [job EXCEPT ![d] = k] \in [Deletions -> Jobs]
  BY <1>1
<1>4. CASE /\ Hits(j) = {}
           /\ job' = [job EXCEPT ![d] = [j EXCEPT !.phase = "done"]]
           /\ UNCHANGED runs
  BY <1>2, <1>3, <1>4
<1>5. ASSUME NEW i \in Hits(j),
             /\ runs' = Only(runs, Runs \ {List(j)[i]})
             /\ job' = [job EXCEPT ![d] =
                        IF Contains(runs, List(j)[i])
                        THEN [j EXCEPT !.next = i + 1]
                        ELSE [j EXCEPT !.phase = "failed"]]
      PROVE  /\ job' \in [Deletions -> Jobs]
             /\ runs' = runs \/ \E kept : runs' = Only(runs, kept)
  <2>1. i \in Nat
    BY <1>1
  <2>2. (IF Contains(runs, List(j)[i]) THEN [j EXCEPT !.next = i + 1]
         ELSE [j EXCEPT !.phase = "failed"]) \in Jobs
    BY <1>2, <2>1
  <2> QED BY <1>3, <1>5, <2>2
<1> QED BY <1>4, <1>5 DEF Cascade

LEMMA TableStep == TableInv /\ IInv /\ IInv' /\ [Next]_vars => TableInv'
<1> SUFFICES ASSUME TableInv, IInv', [Next]_vars PROVE TableInv'
  OBVIOUS
<1>1. /\ runs \in Seq(Runs) /\ owner \in [Runs -> Ids \cup {Nil}] /\ on \in [Runs -> Threads \cup {Nil}]
      /\ inserting \in SUBSET Runs /\ threads \in [Threads -> Nat] /\ job \in [Deletions -> Jobs]
      /\ Once(runs) /\ Placed /\ Pending /\ CatalogTypeOK'
  BY DEF TableInv, TypeOK, IInv
<1>2. Nil \notin Ids /\ Nil \notin Threads
  BY NilAssumption
<1>3. ASSUME UNCHANGED <<runs, owner, on, inserting, threads, job>> PROVE TableInv'
  BY <1>1, <1>3 DEF TableInv, TypeOK, Once, Placed, Pending, Known
\* A deletion, at its first step and at the others.
<1>4. ASSUME NEW d \in Deletions, NEW j \in Jobs, Cascade(d, j),
             UNCHANGED <<owner, on, inserting, threads>>
      PROVE  TableInv'
  <2>1. job' \in [Deletions -> Jobs]
    BY <1>4, CascadeKeeps
  <2>2. runs' \in Seq(Runs) /\ Once(runs') /\ Placed' /\ Pending'
    <3>1. CASE runs' = runs
      BY <1>1, <1>4, <3>1 DEF Placed, Pending, Known
    <3>2. ASSUME NEW kept, runs' = Only(runs, kept) PROVE Once(runs') /\ runs' \in Seq(Runs) /\ Placed' /\ Pending'
      <4>1. \A r \in Runs : r \in kept /\ on[r] \in Threads /\ Known(on[r]) => threads'[on[r]] > 0
        BY <1>4 DEF Known
      <4> QED BY <1>4, <3>2, <4>1, Filtered
    <3> QED BY <1>4, <3>1, <3>2, CascadeKeeps
  <2> QED BY <1>1, <1>4, <2>1, <2>2 DEF TableInv, TypeOK
<1>5. ASSUME NEW a \in Ids, NEW d \in Deletions, Delete(d, a) PROVE TableInv'
  <2> DEFINE owed == {r \in Runs : owner[r] = a /\ Contains(runs, r)}
             j == [FreeJob EXCEPT !.phase = "deleting", !.id = a, !.owed = owed]
  <2>1. j \in Jobs
    <3>1. owed \in SUBSET Runs
      OBVIOUS
    <3> HIDE DEF owed
    <3>2. FreeJob \in Jobs
      BY DEF FreeJob, Jobs
    <3> QED BY <3>1, <3>2 DEF Jobs
  <2>2. Cascade(d, j) /\ UNCHANGED <<owner, on, inserting, threads>>
    BY <1>5 DEF Delete
  <2> HIDE DEF j
  <2> QED BY <1>4, <2>1, <2>2
<1>6. ASSUME NEW d \in Deletions, DeleteNext(d) PROVE TableInv'
  <2>1. job[d] \in Jobs
    BY <1>1
  <2> QED BY <1>4, <1>6, <2>1 DEF DeleteNext
<1>7. ASSUME NEW t \in Threads, CreateThread(t) PROVE TableInv'
  <2>1. /\ UNCHANGED <<runs, owner, on, inserting, job>>
        /\ threads' = [threads EXCEPT ![t] = 1]
    BY <1>7 DEF CreateThread
  <2>2. threads' \in [Threads -> Nat] /\ \A u \in Threads : threads[u] > 0 => threads'[u] > 0
    BY <1>1, <2>1
  <2>3. Placed'
    BY <1>1, <2>1, <2>2 DEF Placed, Known
  <2> QED BY <1>1, <2>1, <2>2, <2>3 DEF TableInv, TypeOK, Once, Pending
<1>8. ASSUME NEW t \in Threads, DeleteThread(t) PROVE TableInv'
  <2> DEFINE kept == {r \in Runs : on[r] # t}
             moved == [d \in Deletions |->
                          IF job[d].phase = "deleting" /\ job[d].shared
                          THEN [job[d] EXCEPT !.shared = FALSE, !.list = runs]
                          ELSE job[d]]
  <2>1. /\ runs' = Only(runs, kept) /\ UNCHANGED <<owner, on, inserting>>
        /\ threads' = [threads EXCEPT ![t] = @ - 1] /\ job' = moved /\ threads[t] > 0
    BY <1>8 DEF DeleteThread, Known
  <2>2. moved \in [Deletions -> Jobs]
    <3>1. ASSUME NEW d \in Deletions PROVE [job[d] EXCEPT !.shared = FALSE, !.list = runs] \in Jobs
      <4>1. job[d] \in Jobs
        BY <1>1
      <4> QED BY <1>1, <4>1 DEF Jobs
    <3> QED BY <1>1, <3>1
  <2>3. threads' \in [Threads -> Nat] /\ \A u \in Threads : u # t => threads'[u] = threads[u]
    <3>1. threads \in [Threads -> Nat] /\ threads' = [threads EXCEPT ![t] = @ - 1] /\ threads[t] > 0
      BY <1>1, <2>1
    <3>2. threads[t] - 1 \in Nat
      BY <3>1
    <3> QED BY <3>1, <3>2
  <2>4. \A r \in Runs : r \in kept /\ on[r] \in Threads /\ Known(on[r]) => threads'[on[r]] > 0
    BY <2>3 DEF Known
  <2> HIDE DEF kept, moved
  <2>5. runs' \in Seq(Runs) /\ Once(runs') /\ Placed' /\ Pending'
    BY <2>1, <2>4, Filtered
  <2> QED BY <1>1, <2>1, <2>2, <2>3, <2>5 DEF TableInv, TypeOK
<1>9. ASSUME NEW r \in Runs, DeleteRun(r) PROVE TableInv'
  <2>1. runs' = Only(runs, Runs \ {r}) /\ UNCHANGED <<owner, on, inserting, threads, job>>
    BY <1>9 DEF DeleteRun
  <2>2. \A s \in Runs : s \in Runs \ {r} /\ on[s] \in Threads /\ Known(on[s]) => threads'[on[s]] > 0
    BY <2>1 DEF Known
  <2>3. runs' \in Seq(Runs) /\ Once(runs') /\ Placed' /\ Pending'
    BY <2>1, <2>2, Filtered
  <2> QED BY <1>1, <2>1, <2>3 DEF TableInv, TypeOK
<1>10. ASSUME NEW r \in Runs, InsertRun(r) PROVE TableInv'
  <2>1. /\ r \in inserting /\ inserting' = inserting \ {r}
        /\ threads' = [threads EXCEPT ![on[r]] = @ + 1]
        /\ runs' = Append(runs, r) /\ UNCHANGED <<owner, on, job>>
    BY <1>10 DEF InsertRun
  <2>2. owner[r] # Nil /\ on[r] \in Threads
    BY <1>1, <2>1 DEF Pending
  <2>3. /\ threads' \in [Threads -> Nat] /\ threads'[on[r]] > 0
        /\ \A u \in Threads : threads[u] > 0 => threads'[u] > 0
    BY <1>1, <2>1, <2>2
  <2>4. \A i \in 1..Len(runs) : runs[i] # r
    BY <1>1, <2>1 DEF Placed
  <2>5. runs' \in Seq(Runs) /\ Once(runs') /\ Placed' /\ Pending'
    BY <2>1, <2>2, <2>3, <2>4, Appended DEF Known
  <2> QED BY <1>1, <2>1, <2>3, <2>5 DEF TableInv, TypeOK
<1>11. ASSUME NEW r \in Runs, NEW a \in Ids, NEW t \in Threads, Claimed(r, a, t)
       PROVE  /\ owner' \in [Runs -> Ids \cup {Nil}] /\ on' \in [Runs -> Threads \cup {Nil}]
              /\ owner[r] = Nil /\ owner'[r] = a /\ on'[r] = t
              /\ \A s \in Runs : s # r => owner'[s] = owner[s] /\ on'[s] = on[s]
              /\ r \notin inserting /\ \A i \in 1..Len(runs) : runs[i] # r
  <2>1. owner[r] = Nil /\ owner' = [owner EXCEPT ![r] = a] /\ on' = [on EXCEPT ![r] = t]
    BY <1>11 DEF Claimed, NextRun
  <2>2. r \notin inserting
    BY <1>1, <2>1 DEF Pending
  <2>3. \A i \in 1..Len(runs) : runs[i] # r
    BY <1>1, <2>1 DEF Placed
  <2> QED BY <1>1, <2>1, <2>2, <2>3
<1>12. ASSUME NEW r \in Runs, NEW a \in Ids, NEW t \in Threads, CreateRun(r, a, t) PROVE TableInv'
  <2>1. /\ Claimed(r, a, t) /\ runs' = Append(runs, r) /\ UNCHANGED <<inserting, threads, job>>
        /\ threads[t] > 0
    BY <1>12 DEF CreateRun, Known
  <2>2. runs' \in Seq(Runs) /\ Once(runs') /\ Placed' /\ Pending'
    BY <1>2, <1>11, <2>1, Appended DEF Known
  <2> QED BY <1>1, <1>11, <2>1, <2>2 DEF TableInv, TypeOK
<1>13. ASSUME NEW r \in Runs, NEW a \in Ids, NEW t \in Threads, BeginRun(r, a, t) PROVE TableInv'
  <2>1. /\ Claimed(r, a, t) /\ inserting' = inserting \cup {r} /\ UNCHANGED <<runs, threads, job>>
    BY <1>13 DEF BeginRun
  <2>2. Placed'
    <3>1. ASSUME NEW i \in 1..Len(runs)
          PROVE  /\ owner'[runs[i]] # Nil /\ runs[i] \notin inserting'
                 /\ on'[runs[i]] \in Threads /\ threads[on'[runs[i]]] > 0
      <4>1. runs[i] \in Runs /\ runs[i] # r
        BY <1>1, <1>11, <2>1, ElementOfSeq
      <4> QED BY <1>1, <1>11, <2>1, <4>1 DEF Placed, Known
    <3> QED BY <2>1, <3>1 DEF Placed, Known
  <2>3. Pending'
    BY <1>1, <1>2, <1>11, <2>1 DEF Pending
  <2> QED BY <1>1, <1>11, <2>1, <2>2, <2>3 DEF TableInv, TypeOK
<1>14. ASSUME UNCHANGED <<table, job>> PROVE TableInv'
  BY <1>3, <1>14 DEF table
<1>15. ASSUME NEW a \in Ids, AssistantRequest(a) PROVE TableInv'
  BY <1>5, <1>14, <1>15 DEF AssistantRequest, Put, Patch, SetLatest
<1>16. ASSUME NEW r \in Runs, RunRequest(r) PROVE TableInv'
  BY <1>9, <1>10, <1>12, <1>13, <1>16 DEF RunRequest
<1>17. CASE UNCHANGED vars
  BY <1>14, <1>17 DEF vars, table
<1> QED BY <1>6, <1>7, <1>8, <1>15, <1>16, <1>17 DEF Next

\* Every variable has its type, the jobs of the deletions and the list each of
\* them iterates over included: no step of a deletion, and no removal of a
\* thread under it, leaves the table something that is no list of runs.
THEOREM TypeCorrect == Spec => []TypeOK
<1>1. Spec => []TableInv
  BY InvariantHolds, TableInit, TableStep, PTL DEF Spec
<1>2. TableInv => TypeOK
  BY DEF TableInv
<1> QED BY <1>1, <1>2, PTL

\* Whatever is made and deleted while creations of runs and deletions of
\* assistants are suspended, a run is in the table at most once and its thread
\* exists: for any number of runs, threads and calls.
THEOREM TheRunsHaveThreads == Spec => []RunsHaveThreads
<1>1. Spec => []TableInv
  BY InvariantHolds, TableInit, TableStep, PTL DEF Spec
<1>2. TableInv => RunsHaveThreads
  BY DEF TableInv, Once, Placed, RunsHaveThreads
<1> QED BY <1>1, <1>2, PTL
=============================================================================
