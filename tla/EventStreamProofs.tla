------------------------- MODULE EventStreamProofs -------------------------
(***************************************************************************)
(* Theorems about the reader of a stream of events (EventStream), for every*)
(* number of events and comments and every way the text comes in pieces:   *)
(* its lines are those of the text, and its parts are the events sent.     *)
(* Both are scans of a sequence from its beginning, and what a scan        *)
(* computes is shown by induction: over the naturals first (Induct), then  *)
(* over a sequence (TextInduct).                                           *)
(***************************************************************************)
EXTENDS MCRunStream, SequenceTheorems, FiniteSetTheorems, WellFoundedInduction, TLAPS

(***************************************************************************)
(* Induction over the naturals, from the fact that the finite sets are     *)
(* well-founded: of the sets 1..n whose n is not in T, take a smallest.    *)
(***************************************************************************)
LEMMA Induct ==
    ASSUME NEW T \in SUBSET Nat, 0 \in T, \A n \in T : n + 1 \in T
    PROVE  T = Nat
<1> SUFFICES ASSUME NEW m \in Nat, m \notin T PROVE FALSE
  OBVIOUS
<1> DEFINE S == {U \in FiniteSubsetsOf(Nat) : \E n \in Nat \ T : U = 1..n}
<1>1. S \subseteq FiniteSubsetsOf(Nat) /\ 1..m \in S
  <2>1. 1..m \in FiniteSubsetsOf(Nat)
    BY FS_Interval DEF FiniteSubsetsOf
  <2> QED BY <2>1
<1>2. PICK U \in S : \A V \in S : ~ (<<V, U>> \in StrictSubsetOrdering(Nat))
  <2>1. S # {} BY <1>1
  <2> HIDE DEF S
  <2> QED BY <1>1, <2>1, WFMin, FS_StrictSubsetOrderingWellFounded
<1>3. PICK n \in Nat \ T : U = 1..n
  OBVIOUS
<1>4. n - 1 \in Nat \ T
  <2>1. n # 0 OBVIOUS
  <2>2. n - 1 \in Nat /\ (n - 1) + 1 = n BY <2>1
  <2> QED BY <2>2
<1>5. 1..(n-1) \in FiniteSubsetsOf(Nat)
    BY <1>4, FS_Interval DEF FiniteSubsetsOf
<1>6. 1..(n-1) \in S
  BY <1>4, <1>5
<1>7. <<1..(n-1), U>> \in StrictSubsetOrdering(Nat)
  <2>1. 1..(n-1) \subseteq 1..n /\ n \in 1..n /\ n \notin 1..(n-1) /\ 1..n \subseteq Nat
    BY <1>4
  <2>2. 1..(n-1) \in SUBSET Nat /\ 1..n \in SUBSET Nat /\ 1..(n-1) # 1..n
    BY <2>1
  <2> QED BY <1>3, <2>1, <2>2, Zenon DEF StrictSubsetOrdering
<1> QED BY <1>2, <1>6, <1>7

\* The values of a fold along a sequence.
Scanning(f, n, d, s) ==
    f = [i \in 0..n |-> IF i = 0 THEN d ELSE E!Scan(f[i - 1], s[i])]

\* A recursive function is what its equation says, on every length of its argument.
LEMMA ScanningExists == ASSUME NEW d, NEW s, NEW n \in Nat PROVE \E f : Scanning(f, n, d, s)
<1> DEFINE T == {k \in Nat : \E f : Scanning(f, k, d, s)}
<1>1. 0 \in T
  <2>1. Scanning([i \in 0..0 |-> d], 0, d, s)
    BY DEF Scanning
  <2> QED BY <2>1
<1>2. ASSUME NEW k \in T PROVE k + 1 \in T
  <2>1. PICK f : Scanning(f, k, d, s)
    OBVIOUS
  <2> DEFINE g == [i \in 0..(k + 1) |-> IF i <= k THEN f[i] ELSE E!Scan(f[k], s[k + 1])]
  <2>2. f = [i \in 0..k |-> IF i = 0 THEN d ELSE E!Scan(f[i - 1], s[i])]
    BY <2>1 DEF Scanning
  <2>3. ASSUME NEW i \in 0..(k + 1)
        PROVE  g[i] = IF i = 0 THEN d ELSE E!Scan(g[i - 1], s[i])
    <3>1. CASE i = 0
      BY <2>2, <3>1
    <3>2. CASE i \in 1..k
      <4>1. g[i] = f[i] /\ g[i - 1] = f[i - 1] /\ i \in 0..k
        BY <3>2
      <4>2. f[i] = E!Scan(f[i - 1], s[i])
        BY <2>2, <3>2, <4>1
      <4> HIDE DEF g
      <4> QED BY <3>2, <4>1, <4>2
    <3>3. CASE i = k + 1
      <4>1. g[i] = E!Scan(f[k], s[k + 1]) /\ g[i - 1] = f[k] /\ i # 0
        BY <3>3
      <4> HIDE DEF g
      <4> QED BY <3>3, <4>1
    <3> QED BY <3>1, <3>2, <3>3
  <2>4. g = [i \in 0..(k + 1) |-> g[i]]
    OBVIOUS
  <2> HIDE DEF g
  <2>5. Scanning(g, k + 1, d, s)
    BY <2>3, <2>4 DEF Scanning
  <2> QED BY <2>5
<1> HIDE DEF T
<1>3. T = Nat
  <2>1. T \in SUBSET Nat BY DEF T
  <2> QED BY <1>1, <1>2, <2>1, Induct
<1> QED BY <1>3 DEF T

LEMMA ScannedIs ==
    ASSUME NEW d, NEW s, Len(s) \in Nat
    PROVE  \E f : Scanning(f, Len(s), d, s) /\ E!Scanned(d, s) = f[Len(s)]
<1> DEFINE g == CHOOSE f : Scanning(f, Len(s), d, s)
<1>1. Scanning(g, Len(s), d, s)
  BY ScanningExists
<1>2. E!Scanned(d, s) = g[Len(s)]
  BY DEF E!Scanned, Scanning
<1> QED BY <1>1, <1>2

LEMMA ScannedEmpty == ASSUME NEW d PROVE E!Scanned(d, <<>>) = d
<1>1. PICK f : Scanning(f, 0, d, <<>>) /\ E!Scanned(d, <<>>) = f[0]
  BY ScannedIs
<1> QED BY <1>1 DEF Scanning

LEMMA ScannedOne == ASSUME NEW d, NEW c PROVE E!Scanned(d, <<c>>) = E!Scan(d, c)
<1> DEFINE s == <<c>>
<1>1. Len(s) = 1 /\ s[1] = c
  OBVIOUS
<1> HIDE DEF s
<1>2. PICK f : Scanning(f, 1, d, s) /\ E!Scanned(d, s) = f[1]
  BY <1>1, ScannedIs
<1>3. f = [i \in 0..1 |-> IF i = 0 THEN d ELSE E!Scan(f[i - 1], s[i])]
  BY <1>2 DEF Scanning
<1>4. f[1] = E!Scan(f[0], s[1]) /\ f[0] = d
  <2>1. 0 \in 0..1 /\ 1 \in 0..1 /\ 1 - 1 = 0
    OBVIOUS
  <2> QED BY <1>3, <2>1
<1> QED BY <1>1, <1>2, <1>4 DEF s

\* A text that is scanned on from what was before is scanned as a whole.
LEMMA ScannedJoined ==
    ASSUME NEW S, NEW s \in Seq(S), NEW t \in Seq(S), NEW d
    PROVE  E!Scanned(d, s \o t) = E!Scanned(E!Scanned(d, s), t)
<1> DEFINE u == s \o t
           m == Len(s)
           n == Len(t)
<1>1. /\ m \in Nat /\ n \in Nat /\ Len(u) = m + n
      /\ \A i \in 1..m : u[i] = s[i]
      /\ \A i \in 1..n : u[m + i] = t[i]
  OBVIOUS
<1> HIDE DEF u
<1>2. PICK f : Scanning(f, m + n, d, u) /\ E!Scanned(d, u) = f[m + n]
  <2>1. Len(u) \in Nat
    BY <1>1
  <2> QED BY <1>1, <2>1, ScannedIs
<1>3. PICK g : Scanning(g, m, d, s) /\ E!Scanned(d, s) = g[m]
  BY <1>1, ScannedIs
<1>4. PICK h : Scanning(h, n, g[m], t) /\ E!Scanned(g[m], t) = h[n]
  BY <1>1, ScannedIs
<1> HIDE DEF m, n
<1>5. /\ f[0] = d /\ g[0] = d /\ h[0] = g[m]
      /\ \A i \in 1..(m + n) : f[i] = E!Scan(f[i - 1], u[i])
      /\ \A i \in 1..m : g[i] = E!Scan(g[i - 1], s[i])
      /\ \A i \in 1..n : h[i] = E!Scan(h[i - 1], t[i])
  BY <1>1, <1>2, <1>3, <1>4 DEF Scanning
<1> DEFINE T == {i \in Nat : i <= m => f[i] = g[i]}
<1>6. \A i \in Nat : i <= m => f[i] = g[i]
  <2>1. 0 \in T
    BY <1>5
  <2>2. ASSUME NEW i \in T PROVE i + 1 \in T
    <3>1. CASE i + 1 <= m
      <4>1. f[i] = g[i] /\ i + 1 \in 1..m /\ i + 1 \in 1..(m + n) /\ (i + 1) - 1 = i
        BY <1>1, <3>1
      <4>2. f[i + 1] = E!Scan(f[i], u[i + 1]) /\ g[i + 1] = E!Scan(g[i], s[i + 1])
        BY <1>5, <4>1
      <4> QED BY <1>1, <4>1, <4>2
    <3> QED BY <3>1
  <2>3. T \in SUBSET Nat
    OBVIOUS
  <2>4. T = Nat
    <3> HIDE DEF T
    <3> QED BY <2>1, <2>2, <2>3, Induct
  <2> QED BY <2>4
<1> DEFINE V == {i \in Nat : i <= n => f[m + i] = h[i]}
<1>7. \A i \in Nat : i <= n => f[m + i] = h[i]
  <2>1. 0 \in V
    BY <1>1, <1>5, <1>6
  <2>2. ASSUME NEW i \in V PROVE i + 1 \in V
    <3>1. CASE i + 1 <= n
      <4>5. n \in Nat
        BY <1>1
      <4>1. f[m + i] = h[i] /\ i \in Nat
        BY <3>1, <4>5
      <4> HIDE DEF V, T
      <4>3. i + 1 \in 1..n /\ m + (i + 1) \in 1..(m + n) /\ (i + 1) - 1 = i /\ (m + (i + 1)) - 1 = m + i
        BY <1>1, <3>1, <4>1
      <4>2. f[m + (i + 1)] = E!Scan(f[m + i], u[m + (i + 1)]) /\ h[i + 1] = E!Scan(h[i], t[i + 1])
        BY <1>5, <4>3
      <4>4. f[m + (i + 1)] = h[i + 1]
        BY <1>1, <4>1, <4>2, <4>3
      <4> QED BY <4>1, <4>4 DEF V
    <3> QED BY <3>1
  <2>3. V \in SUBSET Nat
    OBVIOUS
  <2>4. V = Nat
    <3> HIDE DEF V
    <3> QED BY <2>1, <2>2, <2>3, Induct
  <2> QED BY <2>4
<1>8. f[m + n] = h[n]
  BY <1>1, <1>7
<1> QED BY <1>2, <1>3, <1>4, <1>8 DEF u

\* The same of the other fold.
Parting(f, n, d, s) ==
    f = [i \in 0..n |-> IF i = 0 THEN d ELSE E!PartOf(f[i - 1], s[i])]

LEMMA PartingExists == ASSUME NEW d, NEW s, NEW n \in Nat PROVE \E f : Parting(f, n, d, s)
<1> DEFINE T == {k \in Nat : \E f : Parting(f, k, d, s)}
<1>1. 0 \in T
  <2>1. Parting([i \in 0..0 |-> d], 0, d, s)
    BY DEF Parting
  <2> QED BY <2>1
<1>2. ASSUME NEW k \in T PROVE k + 1 \in T
  <2>1. PICK f : Parting(f, k, d, s)
    OBVIOUS
  <2> DEFINE g == [i \in 0..(k + 1) |-> IF i <= k THEN f[i] ELSE E!PartOf(f[k], s[k + 1])]
  <2>2. f = [i \in 0..k |-> IF i = 0 THEN d ELSE E!PartOf(f[i - 1], s[i])]
    BY <2>1 DEF Parting
  <2>3. ASSUME NEW i \in 0..(k + 1)
        PROVE  g[i] = IF i = 0 THEN d ELSE E!PartOf(g[i - 1], s[i])
    <3>1. CASE i = 0
      BY <2>2, <3>1
    <3>2. CASE i \in 1..k
      <4>1. g[i] = f[i] /\ g[i - 1] = f[i - 1] /\ i \in 0..k
        BY <3>2
      <4>2. f[i] = E!PartOf(f[i - 1], s[i])
        BY <2>2, <3>2, <4>1
      <4> HIDE DEF g
      <4> QED BY <3>2, <4>1, <4>2
    <3>3. CASE i = k + 1
      <4>1. g[i] = E!PartOf(f[k], s[k + 1]) /\ g[i - 1] = f[k] /\ i # 0
        BY <3>3
      <4> HIDE DEF g
      <4> QED BY <3>3, <4>1
    <3> QED BY <3>1, <3>2, <3>3
  <2>4. g = [i \in 0..(k + 1) |-> g[i]]
    OBVIOUS
  <2> HIDE DEF g
  <2>5. Parting(g, k + 1, d, s)
    BY <2>3, <2>4 DEF Parting
  <2> QED BY <2>5
<1> HIDE DEF T
<1>3. T = Nat
  <2>1. T \in SUBSET Nat BY DEF T
  <2> QED BY <1>1, <1>2, <2>1, Induct
<1> QED BY <1>3 DEF T

LEMMA PartsOfIs ==
    ASSUME NEW d, NEW s, Len(s) \in Nat
    PROVE  \E f : Parting(f, Len(s), d, s) /\ E!PartsOf(d, s) = f[Len(s)]
<1> DEFINE g == CHOOSE f : Parting(f, Len(s), d, s)
<1>1. Parting(g, Len(s), d, s)
  BY PartingExists
<1>2. E!PartsOf(d, s) = g[Len(s)]
  BY DEF E!PartsOf, Parting
<1> QED BY <1>1, <1>2

LEMMA PartsOfEmpty == ASSUME NEW d PROVE E!PartsOf(d, <<>>) = d
<1>1. PICK f : Parting(f, 0, d, <<>>) /\ E!PartsOf(d, <<>>) = f[0]
  BY PartsOfIs
<1> QED BY <1>1 DEF Parting

LEMMA PartsOfOne == ASSUME NEW d, NEW c PROVE E!PartsOf(d, <<c>>) = E!PartOf(d, c)
<1> DEFINE s == <<c>>
<1>1. Len(s) = 1 /\ s[1] = c
  OBVIOUS
<1> HIDE DEF s
<1>2. PICK f : Parting(f, 1, d, s) /\ E!PartsOf(d, s) = f[1]
  BY <1>1, PartsOfIs
<1>3. f = [i \in 0..1 |-> IF i = 0 THEN d ELSE E!PartOf(f[i - 1], s[i])]
  BY <1>2 DEF Parting
<1>4. f[1] = E!PartOf(f[0], s[1]) /\ f[0] = d
  <2>1. 0 \in 0..1 /\ 1 \in 0..1 /\ 1 - 1 = 0
    OBVIOUS
  <2> QED BY <1>3, <2>1
<1> QED BY <1>1, <1>2, <1>4 DEF s

\* The same of the lines: it does not matter how many come at a time.
LEMMA PartsOfJoined ==
    ASSUME NEW S, NEW s \in Seq(S), NEW t \in Seq(S), NEW d
    PROVE  E!PartsOf(d, s \o t) = E!PartsOf(E!PartsOf(d, s), t)
<1> DEFINE u == s \o t
           m == Len(s)
           n == Len(t)
<1>1. /\ m \in Nat /\ n \in Nat /\ Len(u) = m + n
      /\ \A i \in 1..m : u[i] = s[i]
      /\ \A i \in 1..n : u[m + i] = t[i]
  OBVIOUS
<1> HIDE DEF u
<1>2. PICK f : Parting(f, m + n, d, u) /\ E!PartsOf(d, u) = f[m + n]
  <2>1. Len(u) \in Nat
    BY <1>1
  <2> QED BY <1>1, <2>1, PartsOfIs
<1>3. PICK g : Parting(g, m, d, s) /\ E!PartsOf(d, s) = g[m]
  BY <1>1, PartsOfIs
<1>4. PICK h : Parting(h, n, g[m], t) /\ E!PartsOf(g[m], t) = h[n]
  BY <1>1, PartsOfIs
<1> HIDE DEF m, n
<1>5. /\ f[0] = d /\ g[0] = d /\ h[0] = g[m]
      /\ \A i \in 1..(m + n) : f[i] = E!PartOf(f[i - 1], u[i])
      /\ \A i \in 1..m : g[i] = E!PartOf(g[i - 1], s[i])
      /\ \A i \in 1..n : h[i] = E!PartOf(h[i - 1], t[i])
  BY <1>1, <1>2, <1>3, <1>4, SMTT(30) DEF Parting
<1> DEFINE T == {i \in Nat : i <= m => f[i] = g[i]}
<1>6. \A i \in Nat : i <= m => f[i] = g[i]
  <2>1. 0 \in T
    BY <1>5
  <2>2. ASSUME NEW i \in T PROVE i + 1 \in T
    <3>1. CASE i + 1 <= m
      <4>1. f[i] = g[i] /\ i + 1 \in 1..m /\ i + 1 \in 1..(m + n) /\ (i + 1) - 1 = i
        BY <1>1, <3>1
      <4>2. f[i + 1] = E!PartOf(f[i], u[i + 1]) /\ g[i + 1] = E!PartOf(g[i], s[i + 1])
        BY <1>5, <4>1
      <4> QED BY <1>1, <4>1, <4>2
    <3> QED BY <3>1
  <2>3. T \in SUBSET Nat
    OBVIOUS
  <2>4. T = Nat
    <3> HIDE DEF T
    <3> QED BY <2>1, <2>2, <2>3, Induct
  <2> QED BY <2>4
<1> DEFINE V == {i \in Nat : i <= n => f[m + i] = h[i]}
<1>7. \A i \in Nat : i <= n => f[m + i] = h[i]
  <2>1. 0 \in V
    BY <1>1, <1>5, <1>6
  <2>2. ASSUME NEW i \in V PROVE i + 1 \in V
    <3>1. CASE i + 1 <= n
      <4>5. n \in Nat
        BY <1>1
      <4>1. f[m + i] = h[i] /\ i \in Nat
        BY <3>1, <4>5
      <4> HIDE DEF V, T
      <4>3. i + 1 \in 1..n /\ m + (i + 1) \in 1..(m + n) /\ (i + 1) - 1 = i /\ (m + (i + 1)) - 1 = m + i
        BY <1>1, <3>1, <4>1
      <4>2. f[m + (i + 1)] = E!PartOf(f[m + i], u[m + (i + 1)]) /\ h[i + 1] = E!PartOf(h[i], t[i + 1])
        BY <1>5, <4>3
      <4>4. f[m + (i + 1)] = h[i + 1]
        BY <1>1, <4>1, <4>2, <4>3
      <4> QED BY <4>1, <4>4 DEF V
    <3> QED BY <3>1
  <2>3. V \in SUBSET Nat
    OBVIOUS
  <2>4. V = Nat
    <3> HIDE DEF V
    <3> QED BY <2>1, <2>2, <2>3, Induct
  <2> QED BY <2>4
<1>8. f[m + n] = h[n]
  BY <1>1, <1>7
<1> QED BY <1>2, <1>3, <1>4, <1>8 DEF u

\* Induction over a sequence, from its beginning.
LEMMA TextInduct ==
    ASSUME NEW S, NEW Q \in SUBSET Seq(S), <<>> \in Q, \A s \in Q, c \in S : Append(s, c) \in Q
    PROVE  Q = Seq(S)
<1> DEFINE T == {n \in Nat : \A s \in Seq(S) : Len(s) = n => s \in Q}
<1>1. 0 \in T
  <2>1. ASSUME NEW s \in Seq(S), Len(s) = 0 PROVE s = <<>>
    BY <2>1, EmptySeq
  <2> QED BY <2>1
<1>2. ASSUME NEW n \in T PROVE n + 1 \in T
  <2>1. n \in Nat /\ \A s \in Seq(S) : Len(s) = n => s \in Q
    OBVIOUS
  <2> HIDE DEF T
  <2>2. ASSUME NEW s \in Seq(S), Len(s) = n + 1 PROVE s \in Q
    <3>1. s # <<>>
      BY <2>1, <2>2, EmptySeq
    <3>2. PICK t \in Seq(S), c \in S : s = Append(t, c)
      BY <3>1, SequenceEmptyOrAppend
    <3>3. Len(t) = n
      <4>1. Len(Append(t, c)) = Len(t) + 1 /\ Len(t) \in Nat
        BY AppendProperties, LenProperties
      <4> QED BY <2>1, <2>2, <3>2, <4>1
    <3> QED BY <2>1, <3>2, <3>3
  <2> QED BY <2>1, <2>2 DEF T
<1> HIDE DEF T
<1>3. T = Nat
  <2>1. T \in SUBSET Nat BY DEF T
  <2> QED BY <1>1, <1>2, <2>1, Induct
<1>4. ASSUME NEW s \in Seq(S) PROVE s \in Q
  <2>1. Len(s) \in T
    BY <1>3, LenProperties
  <2> QED BY <2>1 DEF T
<1> QED BY <1>4

LEMMA ScannedAppend ==
    ASSUME NEW S, NEW s \in Seq(S), NEW c \in S, NEW d
    PROVE  E!Scanned(d, Append(s, c)) = E!Scan(E!Scanned(d, s), c)
<1>1. Append(s, c) = s \o <<c>> /\ <<c>> \in Seq(S)
  BY AppendIsConcat
<1>2. E!Scanned(d, s \o <<c>>) = E!Scanned(E!Scanned(d, s), <<c>>)
  BY <1>1, ScannedJoined
<1>3. E!Scanned(E!Scanned(d, s), <<c>>) = E!Scan(E!Scanned(d, s), c)
  BY ScannedOne
<1> QED BY <1>1, <1>2, <1>3

LEMMA PartsOfAppend ==
    ASSUME NEW S, NEW s \in Seq(S), NEW c \in S, NEW d
    PROVE  E!PartsOf(d, Append(s, c)) = E!PartOf(E!PartsOf(d, s), c)
<1>1. Append(s, c) = s \o <<c>> /\ <<c>> \in Seq(S)
  BY AppendIsConcat
<1>2. E!PartsOf(d, s \o <<c>>) = E!PartsOf(E!PartsOf(d, s), <<c>>)
  BY <1>1, PartsOfJoined
<1>3. E!PartsOf(E!PartsOf(d, s), <<c>>) = E!PartOf(E!PartsOf(d, s), c)
  BY PartsOfOne
<1> QED BY <1>1, <1>2, <1>3

\* What a text is made of: the two newline characters, and words.
Word  == [is : {"event", "data", "comment"}, n : Nat]
Token == {E!CR, E!LF} \cup Word
Scans == [whole : Seq(Seq(Word)), rest : Seq(Word), cr : BOOLEAN]

LEMMA Tokens ==
    /\ E!CR \notin Word /\ E!LF \notin Word /\ E!CR # E!LF
    /\ E!NewLines = {E!CR, E!LF}
    /\ \A c \in Token : c = E!CR \/ c = E!LF \/ (c \in Word /\ c # E!CR /\ c # E!LF)
  BY DEF E!CR, E!LF, E!NewLines, Word, Token

\* What a token does to a scan.
LEMMA ScanIs ==
    ASSUME NEW d \in Scans, NEW c \in Token
    PROVE  LET e == E!Scan(d, c)
           IN  /\ e \in Scans
               /\ e.whole = IF c = E!CR \/ (c = E!LF /\ ~d.cr) THEN Append(d.whole, d.rest) ELSE d.whole
               /\ e.rest  = IF c \in Word THEN Append(d.rest, c) ELSE <<>>
               /\ e.cr <=> (c = E!CR)
<1> DEFINE w == IF c = E!CR \/ (c = E!LF /\ ~d.cr) THEN Append(d.whole, d.rest) ELSE d.whole
           r == IF c \in Word THEN Append(d.rest, c) ELSE <<>>
           x == (c = E!CR)
<1>1. E!Scan(d, c) = [whole |-> w, rest |-> r, cr |-> x]
  BY Tokens DEF E!Scan
<1>2. w \in Seq(Seq(Word)) /\ r \in Seq(Word) /\ x \in BOOLEAN
  BY DEF Scans
<1> HIDE DEF w, r, x
<1>3. E!Scan(d, c) \in Scans
  BY <1>1, <1>2 DEF Scans
<1>4. E!Scan(d, c).whole = w /\ E!Scan(d, c).rest = r /\ E!Scan(d, c).cr = x
  BY <1>1
<1> QED BY <1>3, <1>4 DEF w, r, x

LEMMA ScannedTyped == ASSUME NEW d \in Scans, NEW s \in Seq(Token) PROVE E!Scanned(d, s) \in Scans
<1> DEFINE Q == {t \in Seq(Token) : E!Scanned(d, t) \in Scans}
<1>1. <<>> \in Q
  BY ScannedEmpty
<1>2. ASSUME NEW t \in Q, NEW c \in Token PROVE Append(t, c) \in Q
  <2>1. E!Scanned(d, Append(t, c)) = E!Scan(E!Scanned(d, t), c)
    BY ScannedAppend
  <2> QED BY <2>1, ScanIs, AppendProperties
<1> HIDE DEF Q
<1>3. Q = Seq(Token)
  <2>1. Q \in SUBSET Seq(Token) BY DEF Q
  <2> QED BY <1>1, <1>2, <2>1, TextInduct
<1> QED BY <1>3 DEF Q

LEMMA NoTextTyped ==
    /\ E!NoText \in Scans /\ E!NoText.whole = <<>> /\ E!NoText.rest = <<>> /\ E!NoText.cr = FALSE
  BY DEF E!NoText, Scans

LEMMA ConcatAppend ==
    ASSUME NEW S, NEW s \in Seq(S), NEW t \in Seq(S), NEW x \in S
    PROVE  s \o Append(t, x) = Append(s \o t, x)
<1>1. Append(t, x) = t \o <<x>> /\ <<x>> \in Seq(S) /\ s \o t \in Seq(S)
  BY AppendIsConcat, ConcatProperties
<1>2. Append(s \o t, x) = (s \o t) \o <<x>>
  BY <1>1, AppendIsConcat
<1>3. (s \o t) \o <<x>> = s \o (t \o <<x>>)
  BY <1>1, ConcatAssociative
<1> QED BY <1>1, <1>2, <1>3

\* Lines added to those before, of which the last one was begun.
Glue(w, r, l) == IF l = <<>> THEN w ELSE w \o (<<r \o l[1]>> \o Tail(l))

LEMMA GlueAppend ==
    ASSUME NEW w \in Seq(Seq(Word)), NEW r \in Seq(Word), NEW l \in Seq(Seq(Word)), NEW x \in Seq(Word)
    PROVE  /\ Glue(w, r, l) \in Seq(Seq(Word))
           /\ Glue(w, r, Append(l, x)) =
                 IF l = <<>> THEN Append(w, r \o x) ELSE Append(Glue(w, r, l), x)
<1> DEFINE L == Seq(Word)
           a == Append(l, x)
<1>1. a \in Seq(L) /\ a # <<>> /\ Tail(a) = IF l = <<>> THEN <<>> ELSE Append(Tail(l), x)
  BY AppendProperties, HeadTailAppend, ZenonT(30)
<1>2. a[1] = IF l = <<>> THEN x ELSE l[1]
  BY AppendProperties, EmptySeq
<1> HIDE DEF a
<1>3. Glue(w, r, a) = w \o (<<r \o a[1]>> \o Tail(a))
  BY <1>1 DEF Glue
<1>4. CASE l = <<>>
  <2>1. r \o x \in L
    BY ConcatProperties
  <2>2. <<r \o x>> \o <<>> = <<r \o x>>
    BY <2>1, ConcatEmptySeq
  <2>3. w \o <<r \o x>> = Append(w, r \o x)
    BY <2>1, AppendIsConcat
  <2>4. Glue(w, r, a) = w \o (<<r \o x>> \o <<>>)
    BY <1>1, <1>2, <1>3, <1>4
  <2>5. Glue(w, r, l) = w
    BY <1>4 DEF Glue
  <2> QED BY <1>4, <2>2, <2>3, <2>4, <2>5 DEF a
<1>5. CASE l # <<>>
  <2> DEFINE y == r \o l[1]
             t == Tail(l)
             z == <<y>> \o t
  <2>1. y \in L /\ t \in Seq(L)
    <3>1. l[1] \in L
      BY <1>5, EmptySeq, ElementOfSeq
    <3> QED BY <1>5, <3>1, ConcatProperties, HeadTailProperties
  <2> HIDE DEF y, t
  <2>2. <<y>> \in Seq(L) /\ z \in Seq(L)
    BY <2>1, ConcatProperties
  <2>3. <<y>> \o Append(t, x) = Append(z, x)
    BY <2>1, <2>2, ConcatAppend
  <2> HIDE DEF z
  <2>4. w \o Append(z, x) = Append(w \o z, x)
    BY <2>2, ConcatAppend
  <2>5. Glue(w, r, l) = w \o z
    BY <1>5 DEF Glue, y, t, z
  <2>6. Glue(w, r, a) = w \o (<<y>> \o Append(t, x))
    BY <1>1, <1>2, <1>3, <1>5 DEF y, t
  <2>7. Glue(w, r, l) \in Seq(Seq(Word))
    BY <2>2, <2>5, ConcatProperties
  <2> QED BY <1>5, <2>3, <2>4, <2>5, <2>6, <2>7 DEF a
<1> QED BY <1>4, <1>5

\* What the scan of a text by itself says of its last token.
LastOf(e, s) ==
    /\ e.cr => e.whole # <<>>
    /\ s = <<>> => e = E!NoText
    /\ s # <<>> => /\ e.whole # <<>> \/ e.rest # <<>>
                   /\ e.rest = <<>> <=> s[Len(s)] \in E!NewLines
                   /\ e.cr <=> s[Len(s)] = E!CR

LEMMA LastIs == ASSUME NEW s \in Seq(Token) PROVE LastOf(E!Scanned(E!NoText, s), s)
<1> DEFINE Q == {t \in Seq(Token) : LastOf(E!Scanned(E!NoText, t), t)}
<1>1. <<>> \in Q
  BY ScannedEmpty, NoTextTyped DEF LastOf
<1>2. ASSUME NEW t \in Q, NEW c \in Token PROVE Append(t, c) \in Q
  <2> DEFINE e == E!Scanned(E!NoText, t)
             f == E!Scan(e, c)
             a == Append(t, c)
  <2>1. E!Scanned(E!NoText, a) = f
    BY ScannedAppend
  <2>2. e \in Scans /\ t \in Seq(Token) /\ LastOf(e, t)
    BY ScannedTyped, NoTextTyped
  <2>3. a \in Seq(Token) /\ a # <<>> /\ a[Len(a)] = c
    BY AppendProperties, LenProperties
  <2> HIDE DEF e, a, Q
  <2>4. /\ f.whole = IF c = E!CR \/ (c = E!LF /\ ~e.cr) THEN Append(e.whole, e.rest) ELSE e.whole
        /\ f.rest  = IF c \in Word THEN Append(e.rest, c) ELSE <<>>
        /\ f.cr <=> (c = E!CR)
    BY <2>2, ScanIs
  <2>5. e.whole \in Seq(Seq(Word)) /\ e.rest \in Seq(Word)
    BY <2>2 DEF Scans
  <2>6. Append(e.whole, e.rest) # <<>> /\ (c \in Word => Append(e.rest, c) # <<>>)
    <3>1. Append(e.whole, e.rest) # <<>>
      BY <2>5, AppendProperties
    <3>2. c \in Word => Append(e.rest, c) # <<>>
      BY <2>5, AppendProperties, ZenonT(30)
    <3> QED BY <3>1, <3>2
  <2> HIDE DEF f
  <2>7. LastOf(f, a)
    BY <2>2, <2>3, <2>4, <2>6, Tokens DEF LastOf
  <2> QED BY <2>1, <2>3, <2>7 DEF Q, a
<1> HIDE DEF Q
<1>3. Q = Seq(Token)
  <2>1. Q \in SUBSET Seq(Token) BY DEF Q
  <2> QED BY <1>1, <1>2, <2>1, TextInduct
<1> QED BY <1>3 DEF Q

\* The scan of a text that goes on from d, from the scan of the same by itself.
Continues(d, e, f, s) ==
    /\ f.whole = Glue(d.whole, d.rest, e.whole)
    /\ f.rest = IF e.whole = <<>> THEN d.rest \o e.rest ELSE e.rest
    /\ s = <<>> => f = d
    /\ s # <<>> => f.cr = e.cr

LEMMA GoingOnFrom ==
    ASSUME NEW d \in Scans, NEW s \in Seq(Token), d.cr /\ s # <<>> => s[1] # E!LF
    PROVE  Continues(d, E!Scanned(E!NoText, s), E!Scanned(d, s), s)
<1> DEFINE Fit(t) == d.cr /\ t # <<>> => t[1] # E!LF
           Q == {t \in Seq(Token) : Fit(t) =>
                    Continues(d, E!Scanned(E!NoText, t), E!Scanned(d, t), t)}
<1>0. d.whole \in Seq(Seq(Word)) /\ d.rest \in Seq(Word) /\ d.cr \in BOOLEAN
  BY DEF Scans
<1>1. <<>> \in Q
  <2>1. d.rest \o <<>> = d.rest
    BY <1>0, ConcatEmptySeq
  <2>2. E!Scanned(E!NoText, <<>>) = E!NoText /\ E!Scanned(d, <<>>) = d
    BY ScannedEmpty
  <2>3. Continues(d, E!NoText, d, <<>>)
    BY <2>1, NoTextTyped DEF Continues, Glue
  <2> QED BY <2>2, <2>3
<1>2. ASSUME NEW t \in Q, NEW c \in Token PROVE Append(t, c) \in Q
  <2> DEFINE e == E!Scanned(E!NoText, t)
             f == E!Scanned(d, t)
             e2 == E!Scan(e, c)
             f2 == E!Scan(f, c)
             a == Append(t, c)
  <2>1. E!Scanned(E!NoText, a) = e2 /\ E!Scanned(d, a) = f2
    BY ScannedAppend
  <2>2. /\ e \in Scans /\ f \in Scans /\ t \in Seq(Token)
        /\ Fit(t) => Continues(d, e, f, t)
        /\ LastOf(e, t)
    BY ScannedTyped, NoTextTyped, LastIs
  <2>3. a \in Seq(Token) /\ a # <<>> /\ (t = <<>> => a[1] = c) /\ (t # <<>> => a[1] = t[1])
    BY AppendProperties, EmptySeq
  <2>4. SUFFICES ASSUME Fit(a) PROVE Continues(d, e2, f2, a)
    BY <2>1, <2>3
  <2>5. Fit(t) /\ (t = <<>> /\ d.cr => c # E!LF)
    BY <2>3, <2>4
  <2> HIDE DEF e, f, a, Q, Fit
  <2>6. Continues(d, e, f, t)
    BY <2>2, <2>5
  <2>7. /\ e2.whole = IF c = E!CR \/ (c = E!LF /\ ~e.cr) THEN Append(e.whole, e.rest) ELSE e.whole
        /\ e2.rest  = IF c \in Word THEN Append(e.rest, c) ELSE <<>>
        /\ e2.cr <=> (c = E!CR)
        /\ e2 \in Scans
    BY <2>2, ScanIs
  <2>8. /\ f2.whole = IF c = E!CR \/ (c = E!LF /\ ~f.cr) THEN Append(f.whole, f.rest) ELSE f.whole
        /\ f2.rest  = IF c \in Word THEN Append(f.rest, c) ELSE <<>>
        /\ f2.cr <=> (c = E!CR)
        /\ f2 \in Scans
    BY <2>2, ScanIs
  <2> HIDE DEF e2, f2
  <2>9. e.whole \in Seq(Seq(Word)) /\ e.rest \in Seq(Word) /\ e.cr \in BOOLEAN /\ f.cr \in BOOLEAN
        /\ e2.cr \in BOOLEAN /\ f2.cr \in BOOLEAN
    BY <2>2, <2>7, <2>8 DEF Scans
  <2>10. c = E!LF => e.cr = f.cr
    BY <2>2, <2>5, <2>6, <2>9, NoTextTyped DEF Continues, LastOf
  <2>11. /\ f.whole = Glue(d.whole, d.rest, e.whole)
         /\ f.rest = IF e.whole = <<>> THEN d.rest \o e.rest ELSE e.rest
    BY <2>6 DEF Continues
  <2>12. CASE c = E!CR \/ (c = E!LF /\ ~e.cr)
    <3>1. /\ e2.whole = Append(e.whole, e.rest) /\ e2.rest = <<>>
          /\ f2.whole = Append(f.whole, f.rest) /\ f2.rest = <<>>
      BY <2>7, <2>8, <2>10, <2>12, Tokens
    <3>2. Glue(d.whole, d.rest, Append(e.whole, e.rest)) =
             IF e.whole = <<>> THEN Append(d.whole, d.rest \o e.rest)
             ELSE Append(Glue(d.whole, d.rest, e.whole), e.rest)
      BY <1>0, <2>9, GlueAppend, ZenonT(30)
    <3>3. e2.whole # <<>>
      BY <2>9, <3>1, AppendProperties, SMTT(30)
    <3>4. Glue(d.whole, d.rest, e2.whole) = f2.whole
      <4>1. e.whole = <<>> => f.whole = d.whole
        BY <2>11 DEF Glue
      <4> QED BY <2>11, <3>1, <3>2, <4>1
    <3> QED BY <2>3, <2>7, <2>8, <2>9, <3>1, <3>3, <3>4 DEF Continues
  <2>13. CASE c = E!LF /\ e.cr
    <3>1. e2.whole = e.whole /\ f2.whole = f.whole /\ e2.rest = <<>> /\ f2.rest = <<>>
      BY <2>7, <2>8, <2>10, <2>13, Tokens
    <3>2. e.whole # <<>>
      BY <2>2, <2>13 DEF LastOf
    <3> QED BY <2>3, <2>7, <2>8, <2>9, <2>11, <3>1, <3>2 DEF Continues
  <2>14. CASE c \in Word
    <3>1. /\ e2.whole = e.whole /\ f2.whole = f.whole
          /\ e2.rest = Append(e.rest, c) /\ f2.rest = Append(f.rest, c)
      BY <2>7, <2>8, <2>14, Tokens
    <3>2. d.rest \o Append(e.rest, c) = Append(d.rest \o e.rest, c)
      <4>1. d.rest \in Seq(Word) /\ e.rest \in Seq(Word) /\ c \in Word
        BY <1>0, <2>9, <2>14
      <4>2. \A x, y \in Seq(Word) : \A k \in Word : x \o Append(y, k) = Append(x \o y, k)
        BY ConcatAppend
      <4> QED BY <4>1, <4>2, Zenon
    <3> QED BY <2>3, <2>7, <2>8, <2>9, <2>11, <3>1, <3>2 DEF Continues
  <2> QED BY <2>12, <2>13, <2>14, Tokens
<1> HIDE DEF Q
<1>3. Q = Seq(Token)
  <2>1. Q \in SUBSET Seq(Token) BY DEF Q
  <2> QED BY <1>1, <1>2, <2>1, TextInduct
<1> QED BY <1>3 DEF Q

\* All but the last, and the last.
LEMMA FrontAndLast ==
    ASSUME NEW S, NEW s \in Seq(S), s # <<>>
    PROVE  /\ E!Front(s) \in Seq(S) /\ E!Last(s) \in S /\ E!Last(s) = s[Len(s)]
           /\ s = E!Front(s) \o <<E!Last(s)>>
           /\ E!Front(s) # <<>> => E!Front(s)[1] = s[1]
<1>1. PICK t \in Seq(S), x \in S : s = Append(t, x)
  BY SequenceEmptyOrAppend
<1>2. Len(s) = Len(t) + 1 /\ Len(t) \in Nat /\ s[Len(s)] = x /\ \A i \in 1..Len(t) : s[i] = t[i]
  BY <1>1, AppendProperties, LenProperties
<1>3. SubSeq(s, 1, Len(s) - 1) = t
  <2>1. Len(s) - 1 = Len(t)
    BY <1>2
  <2> DEFINE u == SubSeq(s, 1, Len(t))
  <2>2. \A i \in 1..Len(t) : s[i] \in S
    BY <1>2, ElementOfSeq
  <2>3. u \in Seq(S) /\ Len(u) = Len(t) /\ \A i \in 1..Len(t) : u[i] = s[i]
    BY <1>2, <2>2, SubSeqProperties
  <2> HIDE DEF u
  <2>4. u = t
    BY <1>2, <2>3, SeqEqual
  <2> QED BY <2>1, <2>4 DEF u
<1>4. t # <<>> => t[1] = s[1]
  BY <1>2, EmptySeq
<1>5. s = t \o <<x>>
  BY <1>1, AppendIsConcat
<1> QED BY <1>2, <1>3, <1>4, <1>5 DEF E!Front, E!Last

LEMMA AppendedFrontAndLast ==
    ASSUME NEW S, NEW s \in Seq(S), NEW x \in S
    PROVE  E!Front(Append(s, x)) = s /\ E!Last(Append(s, x)) = x
<1> DEFINE a == Append(s, x)
<1>1. a \in Seq(S) /\ a # <<>>
  BY AppendProperties
<1> HIDE DEF a
<1>2. E!Front(a) \in Seq(S) /\ E!Last(a) \in S /\ a = E!Front(a) \o <<E!Last(a)>>
  BY <1>1, FrontAndLast
<1>3. a = Append(E!Front(a), E!Last(a))
  BY <1>2, AppendIsConcat
<1> QED BY <1>2, <1>3, AppendInjective DEF a

\* The lines of a piece, the first of which is put behind what was kept.
LEMMA AllIs ==
    ASSUME NEW b \in Seq(Word), NEW l \in Seq(Seq(Word)), l # <<>>
    PROVE  (IF b # <<>> THEN <<b \o l[1]>> \o Tail(l) ELSE l) = Glue(<<>>, b, l)
<1> DEFINE L == Seq(Word)
           z == <<b \o l[1]>> \o Tail(l)
<1>1. l[1] \in L /\ Head(l) = l[1] /\ Tail(l) \in Seq(L)
  BY EmptySeq, ElementOfSeq, HeadTailProperties
<1>2. b \o l[1] \in L
  BY <1>1, ConcatProperties
<1>3. z \in Seq(L)
  BY <1>1, <1>2, ConcatProperties
<1>4. <<>> \o z = z
  <2> HIDE DEF z
  <2> QED BY <1>3, ConcatEmptySeq
<1>5. Glue(<<>>, b, l) = z
  BY <1>4 DEF Glue
<1>6. CASE b = <<>>
  <2>1. b \o l[1] = l[1]
    BY <1>1, <1>6, ConcatEmptySeq
  <2>2. <<l[1]>> \o Tail(l) = l
    BY <1>1
  <2> QED BY <1>5, <1>6, <2>1, <2>2
<1> QED BY <1>5, <1>6

LEMMA GlueFrom ==
    ASSUME NEW w \in Seq(Seq(Word)), NEW b \in Seq(Word), NEW l \in Seq(Seq(Word))
    PROVE  /\ w \o Glue(<<>>, b, l) = Glue(w, b, l)
           /\ Glue(<<>>, b, l) \in Seq(Seq(Word))
<1> DEFINE L == Seq(Word)
           g == Glue(<<>>, b, l)
<1>1. g \in Seq(L)
  BY GlueAppend, EmptySeq
<1>2. CASE l = <<>>
  BY <1>1, <1>2, ConcatEmptySeq DEF Glue
<1>3. CASE l # <<>>
  <2> DEFINE z == <<b \o l[1]>> \o Tail(l)
  <2>1. b \o l[1] \in L /\ Tail(l) \in Seq(L)
    <3>1. l[1] \in L /\ Tail(l) \in Seq(L)
      BY <1>3, EmptySeq, ElementOfSeq, HeadTailProperties
    <3> QED BY <3>1, ConcatProperties
  <2>2. z \in Seq(L)
    BY <2>1, ConcatProperties
  <2>3. <<>> \o z = z
    <3> HIDE DEF z
    <3> QED BY <2>2, ConcatEmptySeq
  <2>4. g = z /\ Glue(w, b, l) = w \o z
    BY <1>3, <2>3 DEF Glue
  <2> QED BY <1>1, <2>4
<1> QED BY <1>2, <1>3

\* What BytesLineDecoder makes of a piece, from what a scan makes of the tokens that it has
\* not kept back: a CR at the end of the piece before, or of this one.
Held(b) == IF b THEN <<E!CR>> ELSE <<>>
Decodes(d, r, s, chunk) ==
    LET f == E!Scanned(d, s)
    IN  /\ Held(trailing) \o chunk = s \o Held(r.cr)
        /\ r.cr \in BOOLEAN /\ (r.cr \/ ~f.cr)
        /\ r.out \in Seq(Seq(Word)) /\ f.whole = d.whole \o r.out
        /\ f.rest = r.keep

\* The lines of a piece, as BytesLineDecoder.decode takes them apart, from the scan of it
\* alone.
LEMMA SplitIs ==
    ASSUME NEW s \in Seq(Token), s # <<>>, NEW b \in Seq(Word)
    PROVE  LET e == E!Scanned(E!NoText, s)
               l == E!Splitlines(s)
               complete == E!Last(s) \in E!NewLines
               all == IF b # <<>> THEN <<b \o l[1]>> \o Tail(l) ELSE l
           IN  /\ complete <=> e.rest = <<>>
               /\ Len(l) > 1 \/ complete \/ Len(l) = 1
               /\ Len(l) = 1 /\ ~complete => ~(Len(l) > 1 \/ complete)
               /\ Len(l) = 1 /\ ~complete <=> e.whole = <<>>
               /\ Len(l) = 1 /\ ~complete => l[1] = e.rest
               /\ complete => all = Glue(<<>>, b, e.whole)
               /\ ~complete /\ Len(l) > 1 =>
                     /\ E!Front(all) = Glue(<<>>, b, e.whole)
                     /\ E!Last(all) = e.rest
<1> DEFINE e == E!Scanned(E!NoText, s)
           l == E!Splitlines(s)
           complete == E!Last(s) \in E!NewLines
           all == IF b # <<>> THEN <<b \o l[1]>> \o Tail(l) ELSE l
<1>1. e \in Scans /\ LastOf(e, s)
  BY ScannedTyped, NoTextTyped, LastIs
<1>2. l = IF e.rest = <<>> THEN e.whole ELSE Append(e.whole, e.rest)
  BY DEF E!Splitlines
<1>3. complete <=> e.rest = <<>>
  BY <1>1 DEF LastOf, E!Last
<1> HIDE DEF e, l, complete, all
<1>4. e.whole \in Seq(Seq(Word)) /\ e.rest \in Seq(Word) /\ (e.whole # <<>> \/ e.rest # <<>>)
  BY <1>1 DEF Scans, LastOf
<1>5. /\ l \in Seq(Seq(Word)) /\ l # <<>> /\ Len(l) \in Nat \ {0}
      /\ complete => l = e.whole
      /\ ~complete => Len(l) = Len(e.whole) + 1 /\ (e.whole = <<>> => l[1] = e.rest)
                   /\ l = Append(e.whole, e.rest)
  <2>1. Append(e.whole, e.rest) \in Seq(Seq(Word)) /\ Append(e.whole, e.rest) # <<>>
        /\ Len(Append(e.whole, e.rest)) = Len(e.whole) + 1
        /\ Append(e.whole, e.rest)[Len(e.whole) + 1] = e.rest
    BY <1>4, AppendProperties, ZenonT(30)
  <2>2. l \in Seq(Seq(Word)) /\ l # <<>>
    BY <1>2, <1>4, <2>1
  <2>3. Len(l) \in Nat \ {0}
    BY <2>2, EmptySeq
  <2>4. e.whole = <<>> => Len(e.whole) = 0
    OBVIOUS
  <2> QED BY <1>2, <1>3, <2>1, <2>2, <2>3, <2>4
<1>6. e.whole = <<>> <=> Len(e.whole) = 0
  BY <1>4, EmptySeq
<1>7. Len(e.whole) \in Nat
  BY <1>4, LenProperties
<1>8. all = Glue(<<>>, b, l)
  BY <1>5, AllIs DEF all
<1>9. ASSUME ~complete, e.whole # <<>>
      PROVE  E!Front(all) = Glue(<<>>, b, e.whole) /\ E!Last(all) = e.rest
  <2> DEFINE g == Glue(<<>>, b, e.whole)
  <2>1. g \in Seq(Seq(Word)) /\ Glue(<<>>, b, Append(e.whole, e.rest)) = Append(g, e.rest)
    <3>1. <<>> \in Seq(Seq(Word))
      BY EmptySeq
    <3>2. g \in Seq(Seq(Word))
      BY <1>4, <3>1, GlueAppend
    <3>3. Glue(<<>>, b, Append(e.whole, e.rest)) = Append(g, e.rest)
      BY <1>4, <1>9, <3>1, GlueAppend
    <3> QED BY <3>2, <3>3
  <2>2. all = Append(g, e.rest)
    BY <1>5, <1>8, <1>9, <2>1
  <2> HIDE DEF g
  <2>3. E!Front(Append(g, e.rest)) = g /\ E!Last(Append(g, e.rest)) = e.rest
    BY <1>4, <2>1, AppendedFrontAndLast
  <2> QED BY <2>2, <2>3 DEF g
<1>10. /\ complete <=> e.rest = <<>>
       /\ Len(l) > 1 \/ complete \/ Len(l) = 1
       /\ Len(l) = 1 /\ ~complete => ~(Len(l) > 1 \/ complete)
       /\ Len(l) = 1 /\ ~complete <=> e.whole = <<>>
       /\ Len(l) = 1 /\ ~complete => l[1] = e.rest
       /\ complete => all = Glue(<<>>, b, e.whole)
       /\ ~complete /\ Len(l) > 1 =>
             /\ E!Front(all) = Glue(<<>>, b, e.whole)
             /\ E!Last(all) = e.rest
  <2>1. e.whole = <<>> => ~complete
    BY <1>3, <1>4
  <2>2. ASSUME ~complete PROVE Len(l) = 1 <=> e.whole = <<>>
    <3>1. Len(l) = Len(e.whole) + 1
      BY <1>5, <2>2
    <3> QED BY <1>6, <1>7, <3>1
  <2>3. Len(l) > 1 \/ Len(l) = 1
    <3>1. Len(l) \in Nat \ {0}
      BY <1>5
    <3>2. \A n \in Nat \ {0} : n > 1 \/ n = 1
      OBVIOUS
    <3> QED BY <3>1, <3>2, Zenon
  <2>4. Len(l) = 1 => ~(Len(l) > 1)
    OBVIOUS
  <2> QED BY <1>3, <1>5, <1>8, <1>9, <2>1, <2>2, <2>3, <2>4
<1> QED BY <1>10 DEF e, l, complete, all

\* What decode returns and keeps of a piece: a scan of it goes on from what it had kept, but
\* for a CR at the end, which it holds back.
LEMMA DecodeIs ==
    ASSUME NEW d \in Scans, d.rest = buffer, trailing \in BOOLEAN, trailing \/ ~d.cr,
           NEW chunk \in Seq(Token), chunk # <<>>
    PROVE  \E s \in Seq(Token) : Decodes(d, E!Decode(chunk), s, chunk)
<1> DEFINE given == IF trailing THEN <<E!CR>> \o chunk ELSE chunk
           held == E!Last(given) = E!CR
           s == IF held THEN E!Front(given) ELSE given
           complete == s # <<>> /\ E!Last(s) \in E!NewLines
           split == E!Splitlines(s)
           all == IF buffer # <<>> THEN <<buffer \o split[1]>> \o Tail(split) ELSE split
           e == E!Scanned(E!NoText, s)
           f == E!Scanned(d, s)
           r == E!Decode(chunk)
<1>1. r = CASE s = <<>> -> [out |-> <<>>, keep |-> buffer, cr |-> held]
            [] s # <<>> /\ Len(split) = 1 /\ ~complete ->
                   [out |-> <<>>, keep |-> buffer \o split[1], cr |-> held]
            [] s # <<>> /\ (Len(split) > 1 \/ complete) ->
                   [out  |-> IF complete THEN all ELSE E!Front(all),
                    keep |-> IF complete THEN <<>> ELSE E!Last(all),
                    cr   |-> held]
  BY Zenon DEF E!Decode
<1>2. E!CR \in Token /\ <<E!CR>> \in Seq(Token) /\ d.whole \in Seq(Seq(Word)) /\ buffer \in Seq(Word)
  BY DEF Token, Scans
<1>3. /\ given \in Seq(Token) /\ given # <<>> /\ given = Held(trailing) \o chunk
      /\ trailing => given[1] = E!CR
  <2>1. CASE trailing
    BY <1>2, <2>1 DEF Held
  <2>2. CASE ~trailing
    BY <2>2, ConcatEmptySeq DEF Held
  <2> QED BY <2>1, <2>2
<1> HIDE DEF given
<1>4. /\ s \in Seq(Token) /\ given = s \o Held(held)
      /\ s # <<>> => s[1] = given[1]
      /\ s # <<>> /\ ~held => s[Len(s)] # E!CR
  <2>1. /\ E!Front(given) \in Seq(Token) /\ given = E!Front(given) \o <<E!Last(given)>>
        /\ E!Last(given) = given[Len(given)]
        /\ E!Front(given) # <<>> => E!Front(given)[1] = given[1]
    BY <1>3, FrontAndLast
  <2>2. given = given \o <<>>
    BY <1>3, ConcatEmptySeq
  <2> QED BY <1>3, <2>1, <2>2 DEF Held
<1>5. held \in BOOLEAN
  OBVIOUS
<1> HIDE DEF s, held
<1>6. d.cr /\ s # <<>> => s[1] # E!LF
  <2>1. d.cr \in BOOLEAN
    BY DEF Scans
  <2> QED BY <1>3, <1>4, <2>1, Tokens
<1>7. e \in Scans /\ f \in Scans /\ Continues(d, e, f, s) /\ LastOf(e, s)
  BY <1>4, <1>6, ScannedTyped, NoTextTyped, GoingOnFrom, LastIs
<1> HIDE DEF e, f
<1>8. f.cr \in BOOLEAN /\ e.cr \in BOOLEAN /\ e.whole \in Seq(Seq(Word)) /\ e.rest \in Seq(Word)
  BY <1>7 DEF Scans
<1>9. held \/ ~f.cr
  <2>1. CASE s = <<>>
    BY <1>3, <1>4, <1>5, <2>1, ConcatEmptySeq DEF Held
  <2>2. CASE s # <<>>
    BY <1>4, <1>7, <1>8, <2>2 DEF Continues, LastOf
  <2> QED BY <2>1, <2>2
<1>10. r.cr = held /\ r.out \in Seq(Seq(Word)) /\ f.whole = d.whole \o r.out /\ f.rest = r.keep
  <2>1. CASE s = <<>>
    <3>1. r = [out |-> <<>>, keep |-> buffer, cr |-> held]
      BY <1>1, <2>1
    <3>2. f = d
      BY <1>7, <2>1 DEF Continues
    <3> QED BY <1>2, <3>1, <3>2, ConcatEmptySeq, EmptySeq
  <2>2. CASE s # <<>>
    <3>1. /\ complete <=> e.rest = <<>>
          /\ Len(split) > 1 \/ complete \/ Len(split) = 1
          /\ Len(split) = 1 /\ ~complete => ~(Len(split) > 1 \/ complete)
          /\ Len(split) = 1 /\ ~complete <=> e.whole = <<>>
          /\ Len(split) = 1 /\ ~complete => split[1] = e.rest
          /\ complete => all = Glue(<<>>, buffer, e.whole)
          /\ ~complete /\ Len(split) > 1 =>
                /\ E!Front(all) = Glue(<<>>, buffer, e.whole)
                /\ E!Last(all) = e.rest
      BY <1>2, <1>4, <2>2, SplitIs DEF e
    <3> DEFINE g == Glue(<<>>, buffer, e.whole)
    <3>2. g \in Seq(Seq(Word)) /\ d.whole \o g = f.whole
          /\ f.rest = IF e.whole = <<>> THEN buffer \o e.rest ELSE e.rest
      BY <1>2, <1>7, <1>8, GlueFrom DEF Continues
    <3> HIDE DEF complete, split, all, r
    <3>3. CASE Len(split) = 1 /\ ~complete
      <4>1. r = [out |-> <<>>, keep |-> buffer \o split[1], cr |-> held]
        BY <1>1, <2>2, <3>1, <3>3
      <4>2. g = <<>>
        BY <3>1, <3>3 DEF Glue
      <4> HIDE DEF g
      <4> QED BY <3>1, <3>2, <3>3, <4>1, <4>2, EmptySeq
    <3>4. CASE complete
      <4>1. r = [out |-> all, keep |-> <<>>, cr |-> held]
        BY <1>1, <2>2, <3>1, <3>4
      <4>2. all = g /\ e.whole # <<>> /\ e.rest = <<>>
        BY <3>1, <3>4
      <4> HIDE DEF g
      <4> QED BY <3>2, <4>1, <4>2
    <3>5. CASE ~complete /\ Len(split) > 1
      <4>1. r = [out |-> E!Front(all), keep |-> E!Last(all), cr |-> held]
        BY <1>1, <2>2, <3>1, <3>5
      <4>2. E!Front(all) = g /\ E!Last(all) = e.rest /\ e.whole # <<>>
        BY <3>1, <3>5
      <4> HIDE DEF g
      <4> QED BY <3>2, <4>1, <4>2
    <3> QED BY <3>1, <3>3, <3>4, <3>5
  <2> QED BY <2>1, <2>2
<1> HIDE DEF r
<1>11. Decodes(d, r, s, chunk)
  BY <1>3, <1>4, <1>5, <1>9, <1>10 DEF Decodes, f
<1> QED BY <1>4, <1>11 DEF r

(***************************************************************************)
(* Text that is cut: while the reader reads, its lines and what it keeps   *)
(* are those of a scan of what was read, but for a CR at the end.          *)
(***************************************************************************)
Reads(seen) ==
    LET d == E!Scanned(E!NoText, seen)
    IN  /\ text = seen \o Held(trailing)
        /\ d.whole = lines /\ d.rest = buffer
        /\ trailing \/ ~d.cr
CutInv ==
    /\ sent \in 0..MaxEvents
    /\ wire \in Seq(Token) /\ text \in Seq(Token) /\ trailing \in BOOLEAN
    /\ lines \in Seq(Seq(Word)) /\ buffer \in Seq(Word)
    /\ line \in {"open", "closed", "failed", "cut", "broken", "ended"}
    /\ line \notin {"broken", "ended"} => \E seen \in Seq(Token) : Reads(seen)
    /\ line \in {"broken", "ended"} =>
           wire = <<>> /\ ~trailing /\ buffer = <<>> /\ E!Splitlines(text) = lines

LEMMA CutStarts == E!Init => CutInv
<1> SUFFICES ASSUME E!Init PROVE CutInv
  OBVIOUS
<1>1. /\ wire = <<>> /\ text = <<>> /\ trailing = FALSE /\ lines = <<>> /\ buffer = <<>> /\ line = "open"
      /\ sent \in 0..MaxEvents
  BY EventStreamAssumed DEF E!Init, E!StreamAssumption
<1>2. Reads(<<>>)
  <2>1. <<>> \o Held(FALSE) = <<>>
    BY EmptySeq, ConcatEmptySeq DEF Held
  <2> QED BY <1>1, <2>1, ScannedEmpty, NoTextTyped DEF Reads
<1> QED BY <1>1, <1>2, EmptySeq DEF CutInv

\* The lines so far and the one that is kept are those of the whole text.
LEMMA ReadsTell ==
    ASSUME NEW seen \in Seq(Token), Reads(seen), trailing \in BOOLEAN
    PROVE  /\ E!AsSplitlines
           /\ lines \in Seq(Seq(Word)) /\ buffer \in Seq(Word) /\ text \in Seq(Token)
           /\ trailing => /\ E!Scanned(E!NoText, text).whole = Append(lines, buffer)
                          /\ E!Scanned(E!NoText, text).cr
<1> DEFINE d == E!Scanned(E!NoText, seen)
           e == E!Scanned(E!NoText, text)
<1>1. d \in Scans /\ d.whole = lines /\ d.rest = buffer /\ text = seen \o Held(trailing)
      /\ (trailing \/ ~d.cr)
  BY ScannedTyped, NoTextTyped DEF Reads
<1> HIDE DEF d
<1>2. lines \in Seq(Seq(Word)) /\ buffer \in Seq(Word)
  BY <1>1 DEF Scans
<1>3. E!Splitlines(text) = IF e.rest = <<>> THEN e.whole ELSE Append(e.whole, e.rest)
  BY DEF E!Splitlines
<1>4. CASE trailing
  <2>1. E!CR \in Token /\ E!CR \notin Word /\ text = Append(seen, E!CR)
    BY <1>1, <1>4, AppendIsConcat, Tokens DEF Held, Token
  <2>2. e = E!Scan(d, E!CR)
    BY <2>1, ScannedAppend DEF d
  <2> HIDE DEF e
  <2>3. e.whole = Append(lines, buffer) /\ e.rest = <<>> /\ e.cr
    BY <1>1, <2>1, <2>2, ScanIs
  <2> QED BY <1>2, <1>3, <1>4, <2>1, <2>3, AppendProperties DEF E!AsSplitlines, e
<1>5. CASE ~trailing
  <2>1. text = seen
    BY <1>1, <1>5, ConcatEmptySeq DEF Held
  <2>2. e = d
    BY <2>1 DEF d
  <2> QED BY <1>1, <1>2, <1>3, <1>5, <2>1, <2>2 DEF E!AsSplitlines
<1> QED BY <1>4, <1>5

LEMMA CutTells == CutInv => AsSplitlines
<1> SUFFICES ASSUME CutInv PROVE E!AsSplitlines
  BY DEF AsSplitlines
<1>1. CASE line \notin {"broken", "ended"}
  BY <1>1, ReadsTell DEF CutInv
<1>2. CASE line \in {"broken", "ended"}
  BY <1>2 DEF CutInv, E!AsSplitlines
<1> QED BY <1>1, <1>2

\* A text and the place it is cut at.
LEMMA PieceOf ==
    ASSUME NEW S, NEW s \in Seq(S), NEW n \in 0..Len(s)
    PROVE  /\ SubSeq(s, 1, n) \in Seq(S) /\ SubSeq(s, n + 1, Len(s)) \in Seq(S)
           /\ s = SubSeq(s, 1, n) \o SubSeq(s, n + 1, Len(s))
           /\ n > 0 => SubSeq(s, 1, n) # <<>>
<1>1. Len(s) \in Nat /\ \A i \in 1..Len(s) : s[i] \in S
  BY LenProperties, ElementOfSeq
<1>2. SubSeq(s, 1, n) \in Seq(S) /\ SubSeq(s, n + 1, Len(s)) \in Seq(S) /\ Len(SubSeq(s, 1, n)) = n
  BY <1>1, SubSeqProperties
<1>3. SubSeq(s, 1, n) \o SubSeq(s, n + 1, Len(s)) = SubSeq(s, 1, Len(s))
  <2>1. 1 \in 1..(Len(s) + 1) /\ n \in (1 - 1)..Len(s) /\ Len(s) \in n..Len(s)
    BY <1>1
  <2>2. \A m \in 1..(Len(s) + 1) : \A k \in (m - 1)..Len(s) : \A l \in k..Len(s) :
           SubSeq(s, m, k) \o SubSeq(s, k + 1, l) = SubSeq(s, m, l)
    BY ConcatAdjacentSubSeq
  <2> QED BY <2>1, <2>2, Zenon
<1>4. SubSeq(s, 1, Len(s)) = s
  BY SubSeqFull
<1>5. n > 0 => SubSeq(s, 1, n) # <<>>
  BY <1>2
<1> QED BY <1>2, <1>3, <1>4, <1>5

\* What a read does to the text that is cut.
LEMMA ReadCuts ==
    ASSUME CutInv, E!Read
    PROVE  \E chunk, more \in Seq(Token) :
              /\ chunk # <<>> /\ wire = chunk \o more /\ wire' = more
              /\ text' = text \o chunk
              /\ E!Decode(chunk).out \in Seq(Seq(Word)) /\ E!Take(E!Decode(chunk).out)
              /\ CutInv'
<1>1. PICK n \in 1..Len(wire) :
         LET chunk == SubSeq(wire, 1, n)
             d     == E!Decode(chunk)
         IN /\ wire' = SubSeq(wire, n + 1, Len(wire))
            /\ text' = text \o chunk
            /\ buffer' = d.keep /\ trailing' = d.cr
            /\ E!Take(d.out)
  BY DEF E!Read
<1> DEFINE chunk == SubSeq(wire, 1, n)
           more == SubSeq(wire, n + 1, Len(wire))
           r == E!Decode(chunk)
<1>2. wire \in Seq(Token) /\ Len(wire) \in Nat /\ Len(wire) # 0
  BY <1>1, LenProperties DEF CutInv
<1>3. n \in 0..Len(wire) /\ n > 0
  BY <1>1, <1>2
<1>4. chunk \in Seq(Token) /\ more \in Seq(Token) /\ wire = chunk \o more /\ chunk # <<>>
  BY <1>2, <1>3, PieceOf
<1>5. /\ wire' = more /\ text' = text \o chunk /\ buffer' = r.keep /\ trailing' = r.cr
      /\ E!Take(r.out) /\ lines' = lines \o r.out
  BY <1>1 DEF E!Take
<1>6. line' = line /\ sent' = sent /\ line \notin {"broken", "ended"}
  <2>1. line' = line /\ sent' = sent
    BY DEF E!Read, E!sender
  <2>2. wire # <<>>
    BY <1>2
  <2> QED BY <2>1, <2>2 DEF CutInv
<1> HIDE DEF chunk, more, r
<1>7. PICK seen \in Seq(Token) : Reads(seen)
  BY <1>6 DEF CutInv
<1> DEFINE d == E!Scanned(E!NoText, seen)
<1>8. d \in Scans /\ text = seen \o Held(trailing) /\ d.whole = lines /\ d.rest = buffer
      /\ (trailing \/ ~d.cr) /\ trailing \in BOOLEAN
  BY <1>7, ScannedTyped, NoTextTyped DEF Reads, CutInv
<1> HIDE DEF d
<1>9. PICK s \in Seq(Token) : Decodes(d, r, s, chunk)
  BY <1>4, <1>8, DecodeIs DEF r
<1>10. /\ Held(trailing) \o chunk = s \o Held(r.cr)
       /\ r.cr \in BOOLEAN /\ (r.cr \/ ~E!Scanned(d, s).cr)
       /\ r.out \in Seq(Seq(Word)) /\ E!Scanned(d, s).whole = d.whole \o r.out
       /\ E!Scanned(d, s).rest = r.keep
  BY <1>9 DEF Decodes
<1>11. seen \o s \in Seq(Token) /\ E!Scanned(E!NoText, seen \o s) = E!Scanned(d, s)
  BY ScannedJoined, ConcatProperties DEF d
<1>12. text' = (seen \o s) \o Held(trailing')
  <2> DEFINE h == Held(trailing)
             k == Held(r.cr)
  <2>1. h \in Seq(Token) /\ k \in Seq(Token)
    <3>1. <<E!CR>> \in Seq(Token) /\ <<>> \in Seq(Token)
      BY DEF Token
    <3> QED BY <3>1 DEF Held
  <2> HIDE DEF h, k
  <2>2. text' = (seen \o h) \o chunk
    BY <1>5, <1>8 DEF h
  <2>3. (seen \o h) \o chunk = seen \o (h \o chunk)
    BY <1>4, <2>1, ConcatAssociative, SMTT(30)
  <2>4. h \o chunk = s \o k
    BY <1>10 DEF h, k
  <2>5. seen \o (s \o k) = (seen \o s) \o k
    BY <2>1, ConcatAssociative, SMTT(30)
  <2> QED BY <1>5, <2>2, <2>3, <2>4, <2>5 DEF k
<1>13. Reads(seen \o s)'
  BY <1>5, <1>8, <1>10, <1>11, <1>12 DEF Reads
<1>14. text' \in Seq(Token) /\ lines' \in Seq(Seq(Word)) /\ buffer' \in Seq(Word)
  <2>1. E!Scanned(d, s) \in Scans
    BY <1>8, ScannedTyped
  <2>2. E!Scanned(d, s).rest \in Seq(Word)
    BY <2>1 DEF Scans
  <2> QED BY <1>4, <1>5, <1>10, <2>2, ConcatProperties DEF CutInv
<1>15. CutInv'
  BY <1>4, <1>5, <1>6, <1>10, <1>11, <1>13, <1>14 DEF CutInv
<1> QED BY <1>4, <1>5, <1>10, <1>15 DEF r

LEMMA BodiesAreText ==
    ASSUME NEW i \in Nat PROVE E!Body(i) \in Seq(Token) /\ E!Beat \in Seq(Token)
<1>1. {E!CR, E!LF, E!Event(i), E!Data(i), E!Comment} \subseteq Token
  BY DEF Token, Word, E!Event, E!Data, E!Comment
<1>2. E!JsonToSse(i) \in Seq(Token) /\ E!WriteSse(i) \in Seq(Token)
  BY <1>1 DEF E!JsonToSse, E!WriteSse
<1>3. E!SseHeartbeat \in Seq(Token) /\ E!WriteLn \in Seq(Token)
  BY <1>1 DEF E!SseHeartbeat, E!WriteLn
<1> QED BY <1>2, <1>3 DEF E!Body, E!Beat

\* Nothing that is sent, and no end of the response, touches what was read.
LEMMA OthersCut ==
    ASSUME CutInv, UNCHANGED E!reader, wire' \in Seq(Token), sent' \in 0..MaxEvents,
           line \notin {"broken", "ended"}, line' \in {"open", "closed", "failed", "cut"}
    PROVE  CutInv'
<1>1. UNCHANGED <<buffer, trailing, text, lines>>
  BY DEF E!reader
<1>2. PICK seen \in Seq(Token) : Reads(seen)
  BY DEF CutInv
<1>3. Reads(seen)'
  BY <1>1, <1>2 DEF Reads
<1> QED BY <1>1, <1>3 DEF CutInv

\* What remains when the response is over is the last line.
LEMMA FlushCuts ==
    ASSUME CutInv, E!Flush
    PROVE  /\ CutInv'
           /\ trailing => lines' = E!Scanned(E!NoText, text).whole
           /\ ~trailing /\ buffer = <<>> => lines' = lines
           /\ ~trailing /\ buffer # <<>> => lines' = Append(lines, buffer)
<1> DEFINE final == IF buffer = <<>> /\ ~trailing THEN <<>> ELSE <<buffer>>
<1>1. /\ line \notin {"broken", "ended"} /\ line' \in {"broken", "ended"}
      /\ wire = <<>> /\ wire' = wire /\ text' = text /\ sent' = sent
      /\ buffer' = <<>> /\ trailing' = FALSE /\ lines' = lines \o final
  BY DEF E!Flush, E!Take
<1>2. PICK seen \in Seq(Token) : Reads(seen)
  BY <1>1 DEF CutInv
<1>3. /\ E!AsSplitlines /\ lines \in Seq(Seq(Word)) /\ buffer \in Seq(Word) /\ text \in Seq(Token)
      /\ trailing => E!Scanned(E!NoText, text).whole = Append(lines, buffer)
  BY <1>2, ReadsTell DEF CutInv
<1>4. lines' = IF buffer = <<>> /\ ~trailing THEN lines ELSE Append(lines, buffer)
  <2>1. lines \o <<>> = lines /\ lines \o <<buffer>> = Append(lines, buffer)
    BY <1>3, ConcatEmptySeq, AppendIsConcat
  <2> QED BY <1>1, <2>1
<1>5. lines' \in Seq(Seq(Word))
  BY <1>3, <1>4
<1>6. E!Splitlines(text)' = lines'
  <2>1. E!Splitlines(text)' = E!Splitlines(text)
    BY <1>1
  <2> QED BY <1>3, <1>4, <2>1 DEF E!AsSplitlines
<1>7. CutInv'
  <2>1. <<>> \in Seq(Word) /\ FALSE \in BOOLEAN
    BY EmptySeq
  <2> QED BY <1>1, <1>3, <1>5, <1>6, <2>1 DEF CutInv
<1> QED BY <1>3, <1>4, <1>7

LEMMA CutStays == ASSUME CutInv, [E!Next]_(E!vars) PROVE CutInv'
<1>1. MaxEvents \in Nat /\ sent \in Nat /\ sent \in 0..MaxEvents /\ wire \in Seq(Token)
  BY EventStreamAssumed DEF CutInv, E!StreamAssumption
<1>2. CASE E!SendEvent
  <2>1. wire' = wire \o E!Body(sent + 1) /\ sent' = sent + 1 /\ sent < MaxEvents
        /\ line' = line /\ line = "open" /\ UNCHANGED E!reader
    BY <1>2 DEF E!SendEvent
  <2>2. E!Body(sent + 1) \in Seq(Token)
    BY <1>1, BodiesAreText
  <2>3. wire' \in Seq(Token) /\ sent' \in 0..MaxEvents
    BY <1>1, <2>1, <2>2, ConcatProperties
  <2> QED BY <2>1, <2>3, OthersCut
<1>3. CASE E!SendBeat
  <2>1. wire' = wire \o E!Beat /\ sent' = sent /\ line' = line /\ line = "open" /\ UNCHANGED E!reader
    BY <1>3 DEF E!SendBeat
  <2>2. wire' \in Seq(Token)
    BY <1>1, <2>1, BodiesAreText, ConcatProperties
  <2> QED BY <1>1, <2>1, <2>2, OthersCut
<1>4. CASE E!SendError
  <2>1. wire' = wire \o E!Body(E!ErrorEvent) /\ sent' = sent /\ line = "open" /\ line' = "failed"
        /\ UNCHANGED E!reader
    BY <1>4 DEF E!SendError
  <2>2. E!ErrorEvent \in Nat
    BY <1>1 DEF E!ErrorEvent
  <2>3. E!Body(E!ErrorEvent) \in Seq(Token)
    BY <2>2, BodiesAreText
  <2>4. wire' \in Seq(Token)
    BY <1>1, <2>1, <2>3, ConcatProperties
  <2> QED BY <1>1, <2>1, <2>4, OthersCut
<1>5. CASE E!SendRaw
  <2>1. PICK c \in {E!Event(1), E!CR, E!LF} : wire' = Append(wire, c)
    BY <1>5 DEF E!SendRaw
  <2>2. c \in Token
    BY DEF Token, Word, E!Event
  <2>3. wire' \in Seq(Token)
    BY <1>1, <2>1, <2>2
  <2>4. sent' = sent /\ line' = line /\ line = "open" /\ UNCHANGED E!reader
    BY <1>5 DEF E!SendRaw, E!sender
  <2> QED BY <1>1, <2>3, <2>4, OthersCut
<1>6. CASE E!Close
  <2>1. wire' = wire /\ sent' = sent /\ line = "open" /\ line' = "closed" /\ UNCHANGED E!reader
    BY <1>6 DEF E!Close
  <2> QED BY <1>1, <2>1, OthersCut
<1>7. CASE E!Cut
  <2>1. PICK n \in 0..Len(wire) : wire' = SubSeq(wire, 1, n)
    BY <1>7 DEF E!Cut
  <2>2. wire' \in Seq(Token)
    BY <1>1, <2>1, PieceOf
  <2>3. sent' = sent /\ line \notin {"broken", "ended"} /\ line' = "cut" /\ UNCHANGED E!reader
    BY <1>7 DEF E!Cut
  <2> QED BY <1>1, <2>2, <2>3, OthersCut
<1>8. CASE E!Read
  BY <1>8, ReadCuts
<1>9. CASE E!Flush
  BY <1>9, FlushCuts
<1>10. CASE UNCHANGED E!vars
  <2>1. UNCHANGED <<sent, wire, line, buffer, trailing, text, lines>>
    BY <1>10 DEF E!vars, E!sender, E!reader
  <2>2. ASSUME NEW seen \in Seq(Token), Reads(seen) PROVE Reads(seen)'
    BY <2>1, <2>2 DEF Reads
  <2>3. E!Splitlines(text)' = E!Splitlines(text)
    BY <2>1
  <2> QED BY <2>1, <2>2, <2>3 DEF CutInv
<1> QED BY <1>2, <1>3, <1>4, <1>5, <1>6, <1>7, <1>8, <1>9, <1>10 DEF E!Next

LEMMA EventStep == [MCNext]_allVars => [E!Next]_(E!vars)
  BY DEF MCNext, allVars, events, E!vars, E!sender, E!reader

\* BytesLineDecoder.decode and flush cut a text as bytes.splitlines does, whatever the
\* pieces it comes in.
THEOREM LinesAreThoseOfTheText == MCSpec => []AsSplitlines
<1>1. MCInit => CutInv
  BY CutStarts DEF MCInit
<1>2. CutInv /\ [MCNext]_allVars => CutInv'
  BY EventStep, CutStays
<1> QED BY <1>1, <1>2, CutTells, PTL DEF MCSpec

(***************************************************************************)
(* The parts a text comes to.                                              *)
(***************************************************************************)
Part   == [event : Nat, data : Seq(Nat)]
States == [event : Nat, data : Seq(Nat), parts : Seq(Part)]
Nothing == [event |-> 0, data |-> <<>>, parts |-> <<>>]
Ideal(t) == E!PartsOf(Nothing, E!Scanned(E!NoText, t).whole)
Begins(p, q) == Len(p) <= Len(q) /\ \A i \in 1..Len(p) : p[i] = q[i]

LEMMA PartOfTyped ==
    ASSUME NEW d \in States, NEW l \in Seq(Word)
    PROVE  E!PartOf(d, l) \in States /\ Begins(d.parts, E!PartOf(d, l).parts)
<1> DEFINE full == [event |-> d.event, data |-> d.data]
           ps == Append(d.parts, full)
<1>1. d.event \in Nat /\ d.data \in Seq(Nat) /\ d.parts \in Seq(Part)
  BY DEF States
<1>2. full \in Part
  BY <1>1 DEF Part
<1> HIDE DEF full
<1>3. ps \in Seq(Part) /\ Begins(d.parts, ps) /\ Begins(d.parts, d.parts)
  BY <1>1, <1>2, AppendProperties, LenProperties DEF Begins
<1> HIDE DEF ps
<1>4. CASE l = <<>> /\ d.event = 0 /\ d.data = <<>>
  BY <1>3, <1>4 DEF E!PartOf
<1>5. CASE l = <<>> /\ (d.event # 0 \/ d.data # <<>>)
  <2>1. E!PartOf(d, l) = [event |-> 0, data |-> <<>>, parts |-> ps]
    BY <1>5 DEF E!PartOf, ps, full
  <2> QED BY <1>3, <2>1 DEF States
<1>6. CASE l # <<>>
  <2>1. l[1] \in Word
    BY <1>6
  <2>2. CASE l[1].is = "event"
    <3>1. E!PartOf(d, l) = [d EXCEPT !.event = l[1].n] /\ l[1].n \in Nat
      BY <1>6, <2>1, <2>2 DEF E!PartOf, Word
    <3> QED BY <1>1, <1>3, <3>1 DEF States
  <2>3. CASE l[1].is = "data"
    <3>1. E!PartOf(d, l) = [d EXCEPT !.data = Append(d.data, l[1].n)] /\ l[1].n \in Nat
      BY <1>6, <2>1, <2>3 DEF E!PartOf, Word
    <3>2. Append(d.data, l[1].n) \in Seq(Nat)
      BY <1>1, <3>1
    <3> QED BY <1>1, <1>3, <3>1, <3>2 DEF States
  <2>4. CASE l[1].is = "comment"
    <3>1. E!PartOf(d, l) = d
      BY <1>6, <2>4 DEF E!PartOf
    <3> QED BY <1>3, <3>1
  <2> QED BY <2>1, <2>2, <2>3, <2>4 DEF Word
<1> QED BY <1>4, <1>5, <1>6

LEMMA BeginsTrans ==
    ASSUME NEW p \in Seq(Part), NEW q \in Seq(Part), NEW r \in Seq(Part), Begins(p, q), Begins(q, r)
    PROVE  Begins(p, r)
<1>1. Len(p) \in Nat /\ Len(q) \in Nat /\ Len(r) \in Nat
  BY LenProperties
<1> QED BY <1>1 DEF Begins

\* Some more lines only add to the parts.
LEMMA PartsGrow ==
    ASSUME NEW d \in States, NEW s \in Seq(Seq(Word))
    PROVE  E!PartsOf(d, s) \in States /\ Begins(d.parts, E!PartsOf(d, s).parts)
<1> DEFINE Q == {t \in Seq(Seq(Word)) : E!PartsOf(d, t) \in States
                                        /\ Begins(d.parts, E!PartsOf(d, t).parts)}
<1>1. <<>> \in Q
  <2>1. d.parts \in Seq(Part)
    BY DEF States
  <2>2. Begins(d.parts, d.parts)
    BY <2>1, LenProperties DEF Begins
  <2> QED BY <2>2, EmptySeq, PartsOfEmpty
<1>2. ASSUME NEW t \in Q, NEW c \in Seq(Word) PROVE Append(t, c) \in Q
  <2> DEFINE e == E!PartsOf(d, t)
             f == E!PartsOf(d, Append(t, c))
  <2>1. t \in Seq(Seq(Word)) /\ e \in States /\ Begins(d.parts, e.parts)
    OBVIOUS
  <2>2. f = E!PartOf(e, c)
    BY <2>1, PartsOfAppend
  <2> HIDE DEF e
  <2>3. f \in States /\ Begins(e.parts, f.parts)
    BY <2>1, <2>2, PartOfTyped
  <2> HIDE DEF f
  <2>4. d.parts \in Seq(Part) /\ e.parts \in Seq(Part) /\ f.parts \in Seq(Part)
    BY <2>1, <2>3 DEF States
  <2>5. Begins(d.parts, f.parts)
    BY <2>1, <2>3, <2>4, BeginsTrans
  <2>6. Append(t, c) \in Seq(Seq(Word))
    BY <2>1, AppendProperties
  <2> QED BY <2>3, <2>5, <2>6 DEF f
<1> HIDE DEF Q
<1>3. Q \in SUBSET Seq(Seq(Word))
  BY DEF Q
<1>4. Q = Seq(Seq(Word))
  BY <1>1, <1>2, <1>3, TextInduct
<1> QED BY <1>4 DEF Q

\* The whole lines of a text only grow.
LEMMA WholeGrows ==
    ASSUME NEW d \in Scans, NEW s \in Seq(Token)
    PROVE  \E w \in Seq(Seq(Word)) : E!Scanned(d, s).whole = d.whole \o w
<1> DEFINE Q == {t \in Seq(Token) : \E w \in Seq(Seq(Word)) : E!Scanned(d, t).whole = d.whole \o w}
<1>1. <<>> \in Q
  <2>1. d.whole \in Seq(Seq(Word))
    BY DEF Scans
  <2>2. d.whole \o <<>> = d.whole /\ <<>> \in Seq(Seq(Word))
    BY <2>1, ConcatEmptySeq, EmptySeq
  <2> QED BY <2>2, EmptySeq, ScannedEmpty
<1>2. ASSUME NEW t \in Q, NEW c \in Token PROVE Append(t, c) \in Q
  <2> DEFINE e == E!Scanned(d, t)
             f == E!Scanned(d, Append(t, c))
  <2>1. PICK w \in Seq(Seq(Word)) : e.whole = d.whole \o w
    OBVIOUS
  <2>2. t \in Seq(Token) /\ e \in Scans
    BY ScannedTyped
  <2>3. f = E!Scan(e, c)
    BY <2>2, ScannedAppend
  <2> HIDE DEF e
  <2>4. f.whole = e.whole \/ f.whole = Append(e.whole, e.rest)
    <3>1. E!Scan(e, c).whole = IF c = E!CR \/ (c = E!LF /\ ~e.cr)
                               THEN Append(e.whole, e.rest) ELSE e.whole
      BY <2>2, ScanIs
    <3> HIDE DEF f
    <3> QED BY <2>3, <3>1
  <2>5. d.whole \in Seq(Seq(Word)) /\ e.rest \in Seq(Word)
    BY <2>2 DEF Scans
  <2>6. Append(d.whole \o w, e.rest) = d.whole \o Append(w, e.rest)
    <3>1. \A u, v \in Seq(Seq(Word)), x \in Seq(Word) : u \o Append(v, x) = Append(u \o v, x)
      BY ConcatAppend
    <3> QED BY <2>5, <3>1, Zenon
  <2>8. Append(w, e.rest) \in Seq(Seq(Word))
    BY <2>5, AppendProperties
  <2>7. \E v \in Seq(Seq(Word)) : f.whole = d.whole \o v
    BY <2>1, <2>4, <2>6, <2>8
  <2> HIDE DEF f
  <2> QED BY <2>2, <2>7, AppendProperties DEF f
<1> HIDE DEF Q
<1>3. Q \in SUBSET Seq(Token)
  BY DEF Q
<1>4. Q = Seq(Token)
  BY <1>1, <1>2, <1>3, TextInduct
<1> QED BY <1>4 DEF Q

\* The parts of the beginning of a text are the first of its parts.
LEMMA IdealGrows ==
    ASSUME NEW s \in Seq(Token), NEW t \in Seq(Token)
    PROVE  /\ Ideal(s) \in States /\ Ideal(s \o t) \in States
           /\ Begins(Ideal(s).parts, Ideal(s \o t).parts)
<1> DEFINE d == E!Scanned(E!NoText, s)
<1>1. d \in Scans /\ d.whole \in Seq(Seq(Word))
  BY ScannedTyped, NoTextTyped DEF Scans
<1>2. E!Scanned(E!NoText, s \o t) = E!Scanned(d, t)
  BY ScannedJoined
<1> HIDE DEF d
<1>3. PICK w \in Seq(Seq(Word)) : E!Scanned(d, t).whole = d.whole \o w
  BY <1>1, WholeGrows
<1>4. Nothing \in States
  BY EmptySeq DEF Nothing, States
<1> DEFINE e == E!PartsOf(Nothing, d.whole)
<1>5. Ideal(s) = e /\ e \in States
  BY <1>1, <1>4, PartsGrow DEF Ideal, d
<1>6. Ideal(s \o t) = E!PartsOf(e, w)
  BY <1>1, <1>2, <1>3, PartsOfJoined DEF Ideal
<1> HIDE DEF e
<1> QED BY <1>5, <1>6, PartsGrow

(***************************************************************************)
(* What an event, and a comment, add to a text that ends with a line.      *)
(***************************************************************************)
Fresh(a)  == [whole |-> a, rest |-> <<>>, cr |-> FALSE]
At(ps)    == [event |-> 0, data |-> <<>>, parts |-> ps]
PartFor(i) == [event |-> i, data |-> <<i>>]
Ends      == {<<E!CR, E!LF>>, <<E!LF>>}
Boundary(t, ps) ==
    \E a \in Seq(Seq(Word)) : E!Scanned(E!NoText, t) = Fresh(a) /\ E!PartsOf(Nothing, a) = At(ps)

LEMMA Ending ==
    ASSUME NEW a, NEW r, NEW nl \in Ends
    PROVE  E!Scanned([whole |-> a, rest |-> r, cr |-> FALSE], nl) = Fresh(Append(a, r))
<1> DEFINE d == [whole |-> a, rest |-> r, cr |-> FALSE]
           b == Append(a, r)
           e == [whole |-> b, rest |-> <<>>, cr |-> TRUE]
<1>1. E!CR # E!LF /\ E!CR \in E!NewLines /\ E!LF \in E!NewLines
  BY Tokens
<1>2. E!Scan(d, E!LF) = Fresh(b)
  BY <1>1 DEF E!Scan, Fresh
<1>3. E!Scan(d, E!CR) = e
  BY <1>1 DEF E!Scan
<1>4. E!Scan(e, E!LF) = Fresh(b)
  BY <1>1 DEF E!Scan, Fresh
<1> HIDE DEF d, e, b
<1>5. CASE nl = <<E!LF>>
  BY <1>2, <1>5, ScannedOne DEF d, b
<1>6. CASE nl = <<E!CR, E!LF>>
  <2>1. nl = Append(<<E!CR>>, E!LF) /\ <<E!CR>> \in Seq(E!NewLines)
    BY <1>1, <1>6
  <2>2. E!Scanned(d, nl) = E!Scan(E!Scanned(d, <<E!CR>>), E!LF)
    BY <1>1, <2>1, ScannedAppend
  <2>3. E!Scanned(d, <<E!CR>>) = E!Scan(d, E!CR)
    BY ScannedOne
  <2> QED BY <1>3, <1>4, <2>2, <2>3 DEF d, b
<1> QED BY <1>5, <1>6 DEF Ends

LEMMA EndsAreText == ASSUME NEW nl \in Ends PROVE nl \in Seq(Token)
<1>1. E!CR \in Token /\ E!LF \in Token
  BY DEF Token
<1>2. <<E!CR, E!LF>> \in Seq(Token) /\ <<E!LF>> \in Seq(Token)
  BY <1>1
<1>3. nl = <<E!CR, E!LF>> \/ nl = <<E!LF>>
  BY DEF Ends
<1> QED BY <1>2, <1>3

LEMMA LineAdds ==
    ASSUME NEW a, NEW w \in Word, NEW nl \in Ends
    PROVE  E!Scanned(Fresh(a), <<w>> \o nl) = Fresh(Append(a, <<w>>))
<1> DEFINE d == [whole |-> a, rest |-> <<w>>, cr |-> FALSE]
<1>1. w # E!CR /\ w # E!LF /\ w \notin E!NewLines /\ w \in Token
  BY Tokens DEF Token
<1>2. E!Scan(Fresh(a), w) = d
  <2>1. Append(<<>>, w) = <<w>> /\ (w = E!CR) = FALSE
    BY <1>1, EmptySeq
  <2>2. /\ Fresh(a).whole = a /\ Fresh(a).rest = <<>> /\ Fresh(a).cr = FALSE
    BY DEF Fresh
  <2>3. E!Scan(Fresh(a), w) =
           [whole |-> a, rest |-> Append(<<>>, w), cr |-> (w = E!CR)]
    BY <1>1, <2>2 DEF E!Scan
  <2> QED BY <2>1, <2>3
<1>3. E!Scanned(Fresh(a), <<w>>) = d
  BY <1>2, ScannedOne
<1>4. <<w>> \in Seq(Token) /\ nl \in Seq(Token)
  BY <1>1, EndsAreText
<1>5. E!Scanned(Fresh(a), <<w>> \o nl) = E!Scanned(d, nl)
  <2> HIDE DEF d
  <2> QED BY <1>3, <1>4, ScannedJoined
<1> QED BY <1>5, Ending

LEMMA EmptyLineAdds ==
    ASSUME NEW a, NEW nl \in Ends
    PROVE  E!Scanned(Fresh(a), nl) = Fresh(Append(a, <<>>))
  BY Ending DEF Fresh

\* Both servers send lines of a word, ended in the same way, and an empty line.
LEMMA Bodies ==
    \E nl \in Ends :
       /\ \A i \in Nat : E!Body(i) = (<<E!Event(i)>> \o nl) \o ((<<E!Data(i)>> \o nl) \o nl)
       /\ E!Beat = (<<E!Comment>> \o nl) \o nl \/ E!Beat = <<E!Comment>> \o nl
<1>1. CASE style = "python"
  <2> DEFINE nl == <<E!CR, E!LF>>
  <2>1. ASSUME NEW i \in Nat
        PROVE  E!Body(i) = (<<E!Event(i)>> \o nl) \o ((<<E!Data(i)>> \o nl) \o nl)
    BY <1>1 DEF E!Body, E!JsonToSse
  <2>2. E!Beat = (<<E!Comment>> \o nl) \o nl
    BY <1>1 DEF E!Beat, E!SseHeartbeat
  <2> QED BY <2>1, <2>2 DEF Ends
<1>2. CASE style # "python"
  <2> DEFINE nl == <<E!LF>>
  <2>1. ASSUME NEW i \in Nat
        PROVE  E!Body(i) = (<<E!Event(i)>> \o nl) \o ((<<E!Data(i)>> \o nl) \o nl)
    BY <1>2 DEF E!Body, E!WriteSse
  <2>2. E!Beat = <<E!Comment>> \o nl
    BY <1>2 DEF E!Beat, E!WriteLn
  <2> QED BY <2>1, <2>2 DEF Ends
<1> QED BY <1>1, <1>2

LEMMA BodyScanned ==
    ASSUME NEW a \in Seq(Seq(Word)), NEW i \in Nat
    PROVE  E!Scanned(Fresh(a), E!Body(i)) =
               Fresh(Append(Append(Append(a, <<E!Event(i)>>), <<E!Data(i)>>), <<>>))
<1> DEFINE x == E!Event(i)
           y == E!Data(i)
           b == Append(a, <<x>>)
           c == Append(b, <<y>>)
<1>1. PICK nl \in Ends : E!Body(i) = (<<x>> \o nl) \o ((<<y>> \o nl) \o nl)
  BY Bodies
<1>2. x \in Word /\ y \in Word
  BY DEF E!Event, E!Data, Word
<1> HIDE DEF x, y
<1>3. nl \in Seq(Token) /\ <<x>> \o nl \in Seq(Token) /\ <<y>> \o nl \in Seq(Token)
      /\ (<<y>> \o nl) \o nl \in Seq(Token)
  <2>1. <<x>> \in Seq(Token) /\ <<y>> \in Seq(Token)
    BY <1>2 DEF Token
  <2> QED BY <2>1, EndsAreText, ConcatProperties
<1> DEFINE u == <<x>> \o nl
           v == <<y>> \o nl
           w == v \o nl
<1>9. u \in Seq(Token) /\ v \in Seq(Token) /\ w \in Seq(Token) /\ E!Body(i) = u \o w
  BY <1>1, <1>3
<1>4. E!Scanned(Fresh(a), E!Body(i)) = E!Scanned(E!Scanned(Fresh(a), u), w)
  <2> HIDE DEF u, w
  <2> QED BY <1>9, ScannedJoined
<1>5. E!Scanned(Fresh(a), u) = Fresh(b)
  BY <1>2, LineAdds
<1> HIDE DEF b
<1>6. E!Scanned(Fresh(b), w) = E!Scanned(E!Scanned(Fresh(b), v), nl)
  <2> HIDE DEF v
  <2> QED BY <1>3, <1>9, ScannedJoined
<1>7. E!Scanned(Fresh(b), v) = Fresh(c)
  BY <1>2, LineAdds
<1> HIDE DEF c
<1>8. E!Scanned(Fresh(c), nl) = Fresh(Append(c, <<>>))
  BY EmptyLineAdds
<1> QED BY <1>4, <1>5, <1>6, <1>7, <1>8 DEF b, c, x, y

\* An event is one part more.
LEMMA BodyAdds ==
    ASSUME NEW t \in Seq(Token), NEW ps \in Seq(Part), NEW i \in Nat, i # 0, Boundary(t, ps)
    PROVE  Boundary(t \o E!Body(i), Append(ps, PartFor(i)))
<1> DEFINE x == <<E!Event(i)>>
           y == <<E!Data(i)>>
<1>1. PICK a \in Seq(Seq(Word)) : E!Scanned(E!NoText, t) = Fresh(a) /\ E!PartsOf(Nothing, a) = At(ps)
  BY DEF Boundary
<1> DEFINE b == Append(a, x)
           c == Append(b, y)
           e == Append(c, <<>>)
<1>2. E!Body(i) \in Seq(Token)
  BY BodiesAreText
<1>3. E!Scanned(E!NoText, t \o E!Body(i)) = Fresh(e)
  BY <1>1, <1>2, ScannedJoined, BodyScanned
<1>4. x \in Seq(Word) /\ y \in Seq(Word) /\ <<>> \in Seq(Word)
  <2>1. E!Event(i) \in Word /\ E!Data(i) \in Word
    BY DEF E!Event, E!Data, Word
  <2> QED BY <2>1
<1>5. x # <<>> /\ x[1].is = "event" /\ x[1].n = i /\ y # <<>> /\ y[1].is = "data" /\ y[1].n = i
  BY DEF E!Event, E!Data
<1> HIDE DEF x, y
<1>6. b \in Seq(Seq(Word)) /\ c \in Seq(Seq(Word)) /\ e \in Seq(Seq(Word))
  BY <1>4, AppendProperties
<1>7. E!PartsOf(Nothing, b) = E!PartOf(At(ps), x)
  BY <1>1, <1>4, PartsOfAppend
<1>8. E!PartsOf(Nothing, c) = E!PartOf(E!PartsOf(Nothing, b), y)
  <2> HIDE DEF b
  <2> QED BY <1>4, <1>6, PartsOfAppend
<1>9. E!PartsOf(Nothing, e) = E!PartOf(E!PartsOf(Nothing, c), <<>>)
  <2> HIDE DEF c
  <2> QED BY <1>4, <1>6, PartsOfAppend
<1> DEFINE f == [event |-> i, data |-> <<>>, parts |-> ps]
           g == [event |-> i, data |-> <<i>>, parts |-> ps]
<1>10. E!PartOf(At(ps), x) = f
  BY <1>5 DEF E!PartOf, At
<1>11. E!PartOf(f, y) = g
  <2>1. Append(<<>>, i) = <<i>>
    BY EmptySeq
  <2>2. E!PartOf(f, y) = [f EXCEPT !.data = Append(f.data, y[1].n)]
    BY <1>5 DEF E!PartOf
  <2> QED BY <1>5, <2>1, <2>2
<1>12. E!PartOf(g, <<>>) = At(Append(ps, PartFor(i)))
  BY DEF E!PartOf, At, PartFor
<1>13. E!PartsOf(Nothing, e) = At(Append(ps, PartFor(i)))
  <2> HIDE DEF b, c, e, f, g
  <2> QED BY <1>7, <1>8, <1>9, <1>10, <1>11, <1>12
<1> HIDE DEF e
<1> QED BY <1>3, <1>6, <1>13 DEF Boundary

\* A comment is none.
LEMMA BeatAdds ==
    ASSUME NEW t \in Seq(Token), NEW ps \in Seq(Part), Boundary(t, ps)
    PROVE  Boundary(t \o E!Beat, ps)
<1> DEFINE x == <<E!Comment>>
<1>1. PICK a \in Seq(Seq(Word)) : E!Scanned(E!NoText, t) = Fresh(a) /\ E!PartsOf(Nothing, a) = At(ps)
  BY DEF Boundary
<1> DEFINE b == Append(a, x)
           c == Append(b, <<>>)
<1>2. PICK nl \in Ends : E!Beat = (x \o nl) \o nl \/ E!Beat = x \o nl
  BY Bodies
<1>3. E!Comment \in Word /\ x \in Seq(Word) /\ <<>> \in Seq(Word) /\ x \in Seq(Token)
  <2>1. E!Comment \in Word
    BY DEF E!Comment, Word
  <2> QED BY <2>1 DEF Token
<1>4. x # <<>> /\ x[1].is = "comment"
  BY DEF E!Comment
<1>5. E!Scanned(Fresh(a), x \o nl) = Fresh(b)
  BY <1>3, LineAdds
<1> HIDE DEF x
<1> DEFINE u == x \o nl
           v == u \o nl
<1>6. nl \in Seq(Token) /\ u \in Seq(Token) /\ v \in Seq(Token)
  BY <1>3, EndsAreText, ConcatProperties
<1>7. b \in Seq(Seq(Word)) /\ c \in Seq(Seq(Word))
  BY <1>3, AppendProperties
<1>8. E!PartOf(At(ps), x) = At(ps) /\ E!PartOf(At(ps), <<>>) = At(ps)
  BY <1>4 DEF E!PartOf, At
<1>9. E!PartsOf(Nothing, b) = At(ps)
  BY <1>1, <1>3, <1>8, PartsOfAppend
<1> HIDE DEF b
<1>10. E!PartsOf(Nothing, c) = At(ps)
  BY <1>3, <1>7, <1>8, <1>9, PartsOfAppend
<1> HIDE DEF u
<1>11. E!Scanned(E!NoText, t \o u) = Fresh(b)
  <2>1. E!Scanned(E!NoText, t \o u) = E!Scanned(Fresh(a), u)
    BY <1>1, <1>6, ScannedJoined
  <2> QED BY <1>5, <2>1 DEF u
<1>12. E!Scanned(E!NoText, t \o v) = Fresh(c)
  <2>1. E!Scanned(Fresh(a), v) = E!Scanned(E!Scanned(Fresh(a), u), nl)
    BY <1>6, ScannedJoined
  <2> HIDE DEF v
  <2>2. E!Scanned(E!NoText, t \o v) = E!Scanned(Fresh(a), v)
    BY <1>1, <1>6, ScannedJoined
  <2> QED BY <1>5, <2>1, <2>2, EmptyLineAdds DEF u
<1>13. E!Beat = v \/ E!Beat = u
  BY <1>2 DEF u
<1> HIDE DEF v
<1> HIDE DEF c
<1> QED BY <1>7, <1>9, <1>10, <1>11, <1>12, <1>13 DEF Boundary

LEMMA BoundaryIdeal == ASSUME NEW t, NEW ps, Boundary(t, ps) PROVE Ideal(t).parts = ps
<1>1. PICK a \in Seq(Seq(Word)) : E!Scanned(E!NoText, t) = Fresh(a) /\ E!PartsOf(Nothing, a) = At(ps)
  BY DEF Boundary
<1>2. Fresh(a).whole = a /\ At(ps).parts = ps
  BY DEF Fresh, At
<1> QED BY <1>1, <1>2 DEF Ideal

(***************************************************************************)
(* The parts are events: between two bodies, what was sent and not lost is *)
(* a text of whole events; what was read of it is its beginning.           *)
(***************************************************************************)
Now == [event |-> event, data |-> data, parts |-> parts]
Numbered(k) == [i \in 1..k |-> PartFor(i)]
Sending(e) == IF e THEN Append(Numbered(sent), PartFor(E!ErrorEvent)) ELSE Numbered(sent)
PartInv ==
    /\ CutInv
    /\ Now = E!PartsOf(Nothing, lines)
    /\ style # "raw" =>
          /\ line \in {"open", "closed", "failed"} => Boundary(text \o wire, Sending(line = "failed"))
          /\ line = "cut" => \E e \in BOOLEAN : Begins(Ideal(text \o wire).parts, Sending(e))
          /\ line = "broken" => \E e \in BOOLEAN : Begins(parts, Sending(e))
          /\ line = "ended" => \E e \in BOOLEAN : parts = Sending(e)

LEMMA NumberedIs ==
    ASSUME NEW k \in Nat
    PROVE  /\ Numbered(k) \in Seq(Part) /\ Len(Numbered(k)) = k
           /\ \A i \in 1..k : Numbered(k)[i] = PartFor(i)
           /\ Append(Numbered(k), PartFor(k + 1)) = Numbered(k + 1)
<1>1. ASSUME NEW i \in Nat PROVE PartFor(i) \in Part
  BY DEF PartFor, Part
<1>2. ASSUME NEW n \in Nat PROVE Numbered(n) \in Seq(Part) /\ Len(Numbered(n)) = n
  BY <1>1 DEF Numbered
<1>3. ASSUME NEW n \in Nat, NEW i \in 1..n PROVE Numbered(n)[i] = PartFor(i)
  BY DEF Numbered
<1> DEFINE u == Append(Numbered(k), PartFor(k + 1))
           v == Numbered(k + 1)
<1>4. u \in Seq(Part) /\ v \in Seq(Part) /\ Len(u) = k + 1 /\ Len(v) = k + 1
  BY <1>1, <1>2, AppendProperties
<1>5. ASSUME NEW i \in 1..(k + 1) PROVE u[i] = v[i]
  <2>1. v[i] = PartFor(i)
    BY <1>3
  <2>2. CASE i <= k
    BY <1>2, <1>3, <2>1, <2>2
  <2>3. CASE i = k + 1
    BY <1>2, <2>1, <2>3
  <2>4. i <= k \/ i = k + 1
    OBVIOUS
  <2> HIDE DEF u, v
  <2> QED BY <2>2, <2>3, <2>4
<1>6. u = v
  <2> HIDE DEF u, v
  <2> QED BY <1>4, <1>5, SeqEqual
<1> QED BY <1>2, <1>3, <1>6

LEMMA SendingIs ==
    ASSUME sent \in 0..MaxEvents, NEW e \in BOOLEAN
    PROVE  /\ Sending(e) \in Seq(Part) /\ Len(Sending(e)) = IF e THEN sent + 1 ELSE sent
           /\ \A i \in 1..sent : Sending(e)[i] = PartFor(i)
           /\ e => Sending(e)[sent + 1] = PartFor(E!ErrorEvent)
<1>1. sent \in Nat /\ E!ErrorEvent \in Nat
  BY EventStreamAssumed DEF E!StreamAssumption, E!ErrorEvent
<1> DEFINE s == Numbered(sent)
           x == PartFor(E!ErrorEvent)
<1>2. s \in Seq(Part) /\ Len(s) = sent /\ \A i \in 1..sent : s[i] = PartFor(i)
  BY <1>1, NumberedIs
<1>3. x \in Part
  BY <1>1 DEF PartFor, Part
<1>4. Sending(e) = IF e THEN Append(s, x) ELSE s
  BY DEF Sending
<1> HIDE DEF s, x
<1> QED BY <1>1, <1>2, <1>3, <1>4 DEF x

LEMMA FrontIs ==
    ASSUME NEW S, NEW s \in Seq(S), s # <<>>
    PROVE  /\ Len(E!Front(s)) = Len(s) - 1
           /\ \A i \in 1..(Len(s) - 1) : E!Front(s)[i] = s[i]
<1> DEFINE f == E!Front(s)
           x == E!Last(s)
<1>1. f \in Seq(S) /\ x \in S /\ s = f \o <<x>>
  BY FrontAndLast
<1> HIDE DEF f, x
<1>2. s = Append(f, x)
  BY <1>1, AppendIsConcat
<1>3. Len(f) \in Nat /\ Len(s) = Len(f) + 1 /\ \A i \in 1..Len(f) : s[i] = f[i]
  BY <1>1, <1>2, AppendProperties, LenProperties
<1> QED BY <1>3 DEF f

\* What begins what was sent is the first events, in order.
LEMMA FirstParts ==
    ASSUME sent \in 0..MaxEvents, NEW e \in BOOLEAN, parts \in Seq(Part),
           Begins(parts, Sending(e)), line = "ended" => parts = Sending(e)
    PROVE  E!PartsAreEvents
<1> DEFINE s == Sending(e)
<1>1. sent \in Nat /\ MaxEvents \in Nat /\ sent <= MaxEvents /\ Len(parts) \in Nat
  BY EventStreamAssumed, LenProperties DEF E!StreamAssumption
<1>2. /\ s \in Seq(Part) /\ Len(s) = IF e THEN sent + 1 ELSE sent
      /\ \A i \in 1..sent : s[i] = PartFor(i)
      /\ e => s[sent + 1] = PartFor(E!ErrorEvent)
  BY SendingIs
<1> HIDE DEF s
<1>3. Len(parts) <= Len(s) /\ \A i \in 1..Len(parts) : parts[i] = s[i]
  BY DEF Begins, s
<1>4. ASSUME NEW i \in 1..Len(parts), i <= sent
      PROVE  parts[i].event = i /\ parts[i].data = <<parts[i].event>>
  <2>1. i \in 1..sent
    BY <1>1, <1>4
  <2>2. parts[i] = PartFor(i)
    BY <1>2, <1>3, <2>1
  <2> QED BY <2>2 DEF PartFor
<1>5. ASSUME NEW i \in 1..Len(parts), i > sent
      PROVE  /\ e /\ i = sent + 1 /\ i = Len(parts)
             /\ parts[i].event = E!ErrorEvent /\ parts[i].data = <<parts[i].event>>
  <2>1. e /\ i = sent + 1 /\ i = Len(parts)
    BY <1>1, <1>2, <1>3, <1>5
  <2> QED BY <1>2, <1>3, <2>1 DEF PartFor
<1>6. E!Raised <=> Len(parts) = sent + 1
  <2>1. CASE parts = <<>>
    BY <1>1, <2>1 DEF E!Raised
  <2>2. CASE parts # <<>>
    <3>1. E!Last(parts) = parts[Len(parts)] /\ Len(parts) \in 1..Len(parts)
      <4>1. Len(parts) # 0
        BY <2>2, EmptySeq
      <4>2. E!Last(parts) = parts[Len(parts)]
        BY <2>2, FrontAndLast
      <4> QED BY <1>1, <4>1, <4>2
    <3>2. E!Raised <=> parts[Len(parts)].event = E!ErrorEvent
      BY <2>2, <3>1 DEF E!Raised
    <3>3. CASE Len(parts) <= sent
      BY <1>1, <1>4, <3>1, <3>2, <3>3 DEF E!ErrorEvent
    <3>4. CASE Len(parts) > sent
      BY <1>5, <3>1, <3>2, <3>4
    <3> QED BY <1>1, <3>3, <3>4
  <2> QED BY <2>1, <2>2
<1>7. Len(parts) <= sent + 1
  BY <1>1, <1>2, <1>3
<1>8. /\ Len(E!Told) <= sent /\ (E!Raised => Len(E!Told) = sent)
      /\ (~E!Raised => E!Told = parts)
      /\ \A i \in 1..Len(E!Told) : i \in 1..Len(parts) /\ i <= sent /\ E!Told[i] = parts[i]
  <2>1. CASE E!Raised
    <3>1. parts # <<>> /\ Len(parts) = sent + 1
      BY <1>6, <2>1 DEF E!Raised
    <3>2. E!Told = E!Front(parts)
      BY <2>1 DEF E!Told
    <3>3. Len(E!Told) = sent /\ \A i \in 1..sent : E!Told[i] = parts[i]
      <4>1. /\ Len(E!Front(parts)) = Len(parts) - 1
            /\ \A i \in 1..(Len(parts) - 1) : E!Front(parts)[i] = parts[i]
        BY <3>1, FrontIs
      <4>2. Len(parts) - 1 = sent
        BY <1>1, <3>1
      <4> QED BY <3>2, <4>1, <4>2
    <3> QED BY <1>1, <2>1, <3>1, <3>3
  <2>2. CASE ~E!Raised
    <3>1. E!Told = parts
      BY <2>2 DEF E!Told
    <3>2. Len(parts) <= sent
      BY <1>1, <1>6, <1>7, <2>2
    <3> QED BY <1>1, <2>2, <3>1, <3>2
  <2> QED BY <2>1, <2>2
<1>9. line = "ended" => Len(E!Told) = sent
  <2>1. CASE line = "ended" /\ e
    BY <1>2, <1>6, <1>8, <2>1 DEF s
  <2>2. CASE line = "ended" /\ ~e
    BY <1>1, <1>2, <1>6, <1>8, <2>2 DEF s
  <2> QED BY <2>1, <2>2
<1>10. \A i \in 1..Len(parts) : parts[i].data = <<parts[i].event>>
  <2>1. ASSUME NEW i \in 1..Len(parts) PROVE i <= sent \/ i > sent
    BY <1>1
  <2> QED BY <1>4, <1>5, <2>1
<1>11. \A i \in 1..Len(E!Told) : E!Told[i].event = i
  BY <1>4, <1>8
<1> QED BY <1>8, <1>9, <1>10, <1>11 DEF E!PartsAreEvents

\* However much of what is under way is lost, what is left of the text is the beginning
\* of the events that were sent.
LEMMA LeftOver ==
    ASSUME PartInv, style # "raw", line \notin {"broken", "ended"},
           NEW u \in Seq(Token), NEW rest \in Seq(Token), wire = u \o rest
    PROVE  /\ text \o u \in Seq(Token) /\ Ideal(text \o u) \in States
           /\ \E e \in BOOLEAN : Begins(Ideal(text \o u).parts, Sending(e))
<1>1. text \in Seq(Token) /\ sent \in 0..MaxEvents /\ text \o u \in Seq(Token)
  BY ConcatProperties DEF PartInv, CutInv
<1> DEFINE t == text \o u
<1>2. text \o wire = t \o rest
  BY <1>1, ConcatAssociative, SMTT(30)
<1>3. /\ Ideal(t) \in States /\ Ideal(text \o wire) \in States
      /\ Begins(Ideal(t).parts, Ideal(text \o wire).parts)
  <2> HIDE DEF t
  <2> QED BY <1>1, <1>2, IdealGrows DEF t
<1>4. PICK e \in BOOLEAN : Begins(Ideal(text \o wire).parts, Sending(e))
  <2>1. CASE line = "cut"
    BY <2>1 DEF PartInv
  <2>2. CASE line # "cut"
    <3> DEFINE e == (line = "failed")
    <3>1. Boundary(text \o wire, Sending(e)) /\ e \in BOOLEAN
      BY <2>2 DEF PartInv, CutInv
    <3> HIDE DEF e
    <3>2. Ideal(text \o wire).parts = Sending(e)
      BY <3>1, BoundaryIdeal
    <3>3. Sending(e) \in Seq(Part)
      BY <1>1, <3>1, SendingIs
    <3>4. Begins(Sending(e), Sending(e))
      BY <3>3, LenProperties DEF Begins
    <3> QED BY <3>1, <3>2, <3>4
  <2> QED BY <2>1, <2>2
<1>5. Sending(e) \in Seq(Part) /\ Ideal(t).parts \in Seq(Part) /\ Ideal(text \o wire).parts \in Seq(Part)
  BY <1>1, <1>3, SendingIs DEF States
<1>6. Begins(Ideal(t).parts, Sending(e))
  BY <1>3, <1>4, <1>5, BeginsTrans
<1> QED BY <1>1, <1>3, <1>6

LEMMA NowTyped ==
    ASSUME NEW s \in Seq(Seq(Word)), Now = E!PartsOf(Nothing, s)
    PROVE  Now \in States /\ parts \in Seq(Part)
<1>1. Nothing \in States
  BY EmptySeq DEF Nothing, States
<1>2. Now \in States
  BY <1>1, PartsGrow
<1>3. Now.parts = parts
  BY DEF Now
<1> QED BY <1>2, <1>3 DEF States

LEMMA PartsTell == PartInv => PartsAreEvents
<1> SUFFICES ASSUME PartInv, style # "raw" PROVE E!PartsAreEvents
  BY DEF PartsAreEvents, E!PartsAreEvents
<1>1. /\ sent \in 0..MaxEvents /\ lines \in Seq(Seq(Word)) /\ text \in Seq(Token)
      /\ wire \in Seq(Token) /\ trailing \in BOOLEAN
      /\ line \in {"open", "closed", "failed", "cut", "broken", "ended"}
  BY DEF PartInv, CutInv
<1>2. parts \in Seq(Part)
  BY <1>1, NowTyped DEF PartInv
<1>3. CASE line = "ended"
  <2>1. PICK e \in BOOLEAN : parts = Sending(e)
    BY <1>3 DEF PartInv
  <2>2. Begins(parts, Sending(e))
    BY <1>2, <2>1, LenProperties DEF Begins
  <2> QED BY <1>1, <1>2, <2>1, <2>2, FirstParts
<1>4. CASE line = "broken"
  <2>1. PICK e \in BOOLEAN : Begins(parts, Sending(e))
    BY <1>4 DEF PartInv
  <2> QED BY <1>1, <1>2, <1>4, <2>1, FirstParts
<1>5. CASE line \notin {"broken", "ended"}
  <2>1. PICK seen \in Seq(Token) : Reads(seen)
    BY <1>5 DEF PartInv, CutInv
  <2>2. Held(trailing) \in Seq(Token)
    <3>1. <<E!CR>> \in Seq(Token) /\ <<>> \in Seq(Token)
      BY DEF Token
    <3> QED BY <3>1 DEF Held
  <2> DEFINE rest == Held(trailing) \o wire
  <2>3. rest \in Seq(Token) /\ text \o wire = seen \o rest
    <3>1. text = seen \o Held(trailing)
      BY <2>1 DEF Reads
    <3> QED BY <1>1, <2>2, <3>1, ConcatProperties, ConcatAssociative
  <2> HIDE DEF rest
  <2>4. /\ Ideal(seen) \in States /\ Ideal(text \o wire) \in States
        /\ Begins(Ideal(seen).parts, Ideal(text \o wire).parts)
    BY <2>3, IdealGrows
  <2>5. parts = Ideal(seen).parts
    <3>1. Now = Ideal(seen)
      BY <2>1 DEF PartInv, Reads, Ideal
    <3> QED BY <3>1 DEF Now
  <2>6. PICK e \in BOOLEAN : Begins(Ideal(text \o wire).parts, Sending(e))
    <3>1. wire \o <<>> = wire /\ <<>> \in Seq(Token)
      BY <1>1, ConcatEmptySeq, EmptySeq
    <3> QED BY <1>1, <1>5, <3>1, LeftOver
  <2>7. Ideal(text \o wire).parts \in Seq(Part) /\ Sending(e) \in Seq(Part)
    BY <1>1, <2>4, SendingIs DEF States
  <2>8. Begins(parts, Sending(e))
    BY <1>2, <2>4, <2>5, <2>6, <2>7, BeginsTrans
  <2> QED BY <1>1, <1>2, <1>5, <2>8, FirstParts
<1> QED BY <1>1, <1>3, <1>4, <1>5

LEMMA PartsStart == E!Init => PartInv
<1> SUFFICES ASSUME E!Init PROVE PartInv
  OBVIOUS
<1>1. /\ line = "open" /\ wire = <<>> /\ text = <<>> /\ lines = <<>> /\ sent = 0
      /\ event = 0 /\ data = <<>> /\ parts = <<>>
  BY DEF E!Init
<1>2. Now = Nothing /\ E!PartsOf(Nothing, <<>>) = Nothing
  BY <1>1, PartsOfEmpty DEF Now, Nothing
<1>3. Boundary(<<>>, <<>>)
  <2>1. E!NoText = Fresh(<<>>) /\ Nothing = At(<<>>)
    BY DEF E!NoText, Fresh, Nothing, At
  <2> QED BY <1>2, <2>1, ScannedEmpty, EmptySeq DEF Boundary
<1>4. Sending(FALSE) = <<>> /\ text \o wire = <<>>
  <2>1. Numbered(0) = <<>>
    BY NumberedIs, EmptySeq
  <2>2. text \o wire = <<>>
    BY <1>1, EmptySeq, ConcatEmptySeq
  <2> QED BY <1>1, <2>1, <2>2 DEF Sending
<1>5. (line = "failed") = FALSE
  BY <1>1
<1> QED BY <1>1, <1>2, <1>3, <1>4, <1>5, CutStarts DEF PartInv

\* What the reader makes of some more lines.
LEMMA TakeIs ==
    ASSUME Now = E!PartsOf(Nothing, lines), lines \in Seq(Seq(Word)),
           NEW more \in Seq(Seq(Word)), E!Take(more)
    PROVE  /\ lines' = lines \o more
           /\ Now' = E!PartsOf(Nothing, lines') /\ Now' = E!PartsOf(Now, more)
           /\ parts' = Now'.parts
<1> DEFINE d == E!PartsOf(Now, more)
<1>1. d \in States
  BY NowTyped, PartsGrow
<1>2. event' = d.event /\ data' = d.data /\ parts' = d.parts /\ lines' = lines \o more
  BY DEF E!Take, Now
<1>3. d = E!PartsOf(Nothing, lines \o more)
  BY PartsOfJoined
<1> HIDE DEF d
<1>4. Now' = [event |-> d.event, data |-> d.data, parts |-> d.parts]
  BY <1>2 DEF Now
<1>5. d = [event |-> d.event, data |-> d.data, parts |-> d.parts]
  BY <1>1 DEF States
<1> QED BY <1>2, <1>3, <1>4, <1>5 DEF d

\* What is sent, and the end of it, leaves the reader alone.
LEMMA SentParts ==
    ASSUME PartInv, CutInv', UNCHANGED <<style, E!reader>>, line' \in {"open", "closed", "failed"},
           NEW e \in BOOLEAN, (line' = "failed") = e,
           style # "raw" => Boundary(text \o wire', Sending(e)')
    PROVE  PartInv'
<1>1. text' = text /\ style' = style
  BY DEF E!reader
<1>2. Now' = E!PartsOf(Nothing, lines)'
  BY DEF PartInv, Now, E!reader
<1>3. style # "raw" => Boundary(text' \o wire', Sending(line = "failed")')
  <2>1. Sending(line = "failed")' = Sending(e)'
    BY DEF Sending
  <2> QED BY <1>1, <2>1
<1> QED BY <1>1, <1>2, <1>3 DEF PartInv

\* The actions of the sender, one by one.
LEMMA EventParts == ASSUME PartInv, CutInv', E!SendEvent PROVE PartInv'
<1>1. /\ line = "open" /\ line' = line /\ sent' = sent + 1 /\ sent < MaxEvents /\ style # "raw"
      /\ wire' = wire \o E!Body(sent + 1) /\ UNCHANGED <<style, E!reader>>
  BY DEF E!SendEvent
<1>2. /\ text \in Seq(Token) /\ wire \in Seq(Token) /\ sent \in Nat
      /\ Boundary(text \o wire, Sending(FALSE))
  <2>1. (line = "failed") = FALSE
    BY <1>1
  <2>2. sent \in Nat
    BY EventStreamAssumed DEF PartInv, CutInv, E!StreamAssumption
  <2> QED BY <1>1, <2>1, <2>2 DEF PartInv, CutInv
<1>3. Sending(FALSE) = Numbered(sent) /\ Sending(FALSE)' = Numbered(sent + 1)
  BY <1>1 DEF Sending
<1>4. E!Body(sent + 1) \in Seq(Token)
  BY <1>2, BodiesAreText
<1>5. Boundary((text \o wire) \o E!Body(sent + 1), Append(Numbered(sent), PartFor(sent + 1)))
  <2>1. text \o wire \in Seq(Token) /\ Numbered(sent) \in Seq(Part)
    BY <1>2, NumberedIs, ConcatProperties
  <2>2. sent + 1 \in Nat /\ sent + 1 # 0
    BY <1>2
  <2> QED BY <1>2, <1>3, <2>1, <2>2, BodyAdds
<1>6. (text \o wire) \o E!Body(sent + 1) = text \o wire'
  BY <1>1, <1>2, <1>4, ConcatAssociative
<1>7. Append(Numbered(sent), PartFor(sent + 1)) = Numbered(sent + 1)
  BY <1>2, NumberedIs
<1>8. Boundary(text \o wire', Sending(FALSE)')
  BY <1>3, <1>5, <1>6, <1>7
<1>9. (line' = "failed") = FALSE
  BY <1>1
<1> QED BY <1>1, <1>8, <1>9, SentParts

LEMMA ErrorParts == ASSUME PartInv, CutInv', E!SendError PROVE PartInv'
<1> DEFINE x == E!ErrorEvent
<1>1. /\ line = "open" /\ line' = "failed" /\ sent' = sent /\ style # "raw"
      /\ wire' = wire \o E!Body(x) /\ UNCHANGED <<style, E!reader>>
  BY DEF E!SendError
<1>2. /\ text \in Seq(Token) /\ wire \in Seq(Token) /\ sent \in Nat
      /\ x \in Nat /\ x # 0
      /\ Boundary(text \o wire, Sending(FALSE))
  <2>1. (line = "failed") = FALSE
    BY <1>1
  <2>2. x \in Nat /\ x # 0
    BY EventStreamAssumed DEF E!StreamAssumption, E!ErrorEvent
  <2>3. sent \in Nat
    BY EventStreamAssumed DEF PartInv, CutInv, E!StreamAssumption
  <2> QED BY <1>1, <2>1, <2>2, <2>3 DEF PartInv, CutInv
<1>3. Sending(FALSE) = Numbered(sent) /\ Sending(TRUE)' = Append(Numbered(sent), PartFor(x))
  BY <1>1 DEF Sending
<1> HIDE DEF x
<1>4. E!Body(x) \in Seq(Token)
  BY <1>2, BodiesAreText
<1>5. Boundary((text \o wire) \o E!Body(x), Append(Numbered(sent), PartFor(x)))
  <2>1. text \o wire \in Seq(Token) /\ Numbered(sent) \in Seq(Part)
    BY <1>2, NumberedIs, ConcatProperties
  <2> QED BY <1>2, <1>3, <2>1, BodyAdds
<1>6. (text \o wire) \o E!Body(x) = text \o wire'
  BY <1>1, <1>2, <1>4, ConcatAssociative
<1>7. Boundary(text \o wire', Sending(TRUE)')
  BY <1>3, <1>5, <1>6
<1>8. (line' = "failed") = TRUE
  BY <1>1
<1> QED BY <1>1, <1>7, <1>8, SentParts

LEMMA BeatParts == ASSUME PartInv, CutInv', E!SendBeat PROVE PartInv'
<1>1. /\ line = "open" /\ line' = line /\ sent' = sent /\ style # "raw"
      /\ wire' = wire \o E!Beat /\ UNCHANGED <<style, E!reader>>
  BY DEF E!SendBeat
<1>2. /\ text \in Seq(Token) /\ wire \in Seq(Token) /\ sent \in 0..MaxEvents
      /\ Boundary(text \o wire, Sending(FALSE))
  <2>1. (line = "failed") = FALSE
    BY <1>1
  <2> QED BY <1>1, <2>1 DEF PartInv, CutInv
<1>3. Sending(FALSE)' = Sending(FALSE) /\ Sending(FALSE) \in Seq(Part)
  BY <1>1, <1>2, SendingIs DEF Sending
<1>4. E!Beat \in Seq(Token)
  BY BodiesAreText
<1>5. Boundary((text \o wire) \o E!Beat, Sending(FALSE))
  BY <1>2, <1>3, BeatAdds, ConcatProperties
<1>6. (text \o wire) \o E!Beat = text \o wire'
  BY <1>1, <1>2, <1>4, ConcatAssociative
<1>7. Boundary(text \o wire', Sending(FALSE)')
  BY <1>3, <1>5, <1>6
<1>8. (line' = "failed") = FALSE
  BY <1>1
<1> QED BY <1>1, <1>7, <1>8, SentParts

LEMMA CloseParts == ASSUME PartInv, CutInv', E!Close PROVE PartInv'
<1>1. /\ line = "open" /\ line' = "closed" /\ sent' = sent /\ wire' = wire
      /\ UNCHANGED <<style, E!reader>>
  BY DEF E!Close
<1>2. style # "raw" => Boundary(text \o wire, Sending(FALSE))
  <2>1. (line = "failed") = FALSE
    BY <1>1
  <2> QED BY <1>1, <2>1 DEF PartInv
<1>3. Sending(FALSE)' = Sending(FALSE)
  BY <1>1 DEF Sending
<1>4. (line' = "failed") = FALSE
  BY <1>1
<1>5. style # "raw" => Boundary(text \o wire', Sending(FALSE)')
  BY <1>1, <1>2, <1>3
<1> QED BY <1>1, <1>4, <1>5, SentParts

LEMMA RawParts == ASSUME PartInv, CutInv', E!SendRaw PROVE PartInv'
<1>1. style = "raw" /\ style' = style
  BY DEF E!SendRaw, E!sender
<1>2. Now' = E!PartsOf(Nothing, lines)'
  BY DEF PartInv, Now, E!reader, E!SendRaw
<1> QED BY <1>1, <1>2 DEF PartInv

\* What is lost is the end of the text.
LEMMA LostParts == ASSUME PartInv, CutInv', E!Cut PROVE PartInv'
<1>1. PICK n \in 0..Len(wire) : wire' = SubSeq(wire, 1, n)
  BY DEF E!Cut
<1>2. /\ line \notin {"broken", "ended"} /\ line' = "cut" /\ sent' = sent /\ style' = style
      /\ UNCHANGED E!reader
  BY DEF E!Cut
<1>3. wire \in Seq(Token)
  BY DEF PartInv, CutInv
<1> DEFINE u == SubSeq(wire, 1, n)
           rest == SubSeq(wire, n + 1, Len(wire))
<1>4. u \in Seq(Token) /\ rest \in Seq(Token) /\ wire = u \o rest /\ wire' = u
  BY <1>1, <1>3, PieceOf
<1> HIDE DEF u, rest
<1>5. text' = text /\ Now' = E!PartsOf(Nothing, lines)'
  BY <1>2 DEF PartInv, Now, E!reader
<1>6. style' # "raw" => \E e \in BOOLEAN : Begins(Ideal(text' \o wire').parts, Sending(e)')
  <2> SUFFICES ASSUME style # "raw"
               PROVE  \E e \in BOOLEAN : Begins(Ideal(text' \o wire').parts, Sending(e)')
    BY <1>2
  <2>1. PICK e \in BOOLEAN : Begins(Ideal(text \o u).parts, Sending(e))
    BY <1>2, <1>4, LeftOver
  <2>2. Sending(e)' = Sending(e)
    BY <1>2 DEF Sending
  <2> QED BY <1>4, <1>5, <2>1, <2>2
<1> QED BY <1>2, <1>5, <1>6 DEF PartInv

\* What is read is still part of the text.
LEMMA ReadParts == ASSUME PartInv, E!Read PROVE PartInv'
<1>1. PICK chunk \in Seq(Token), more \in Seq(Token) :
         /\ wire = chunk \o more /\ wire' = more /\ text' = text \o chunk
         /\ E!Decode(chunk).out \in Seq(Seq(Word)) /\ E!Take(E!Decode(chunk).out)
         /\ wire # <<>> /\ CutInv'
  <2>1. PICK chunk \in Seq(Token), more \in Seq(Token) :
           /\ chunk # <<>> /\ wire = chunk \o more /\ wire' = more /\ text' = text \o chunk
           /\ E!Decode(chunk).out \in Seq(Seq(Word)) /\ E!Take(E!Decode(chunk).out)
           /\ CutInv'
    BY ReadCuts DEF PartInv
  <2>2. wire # <<>>
    <3>1. Len(chunk \o more) = Len(chunk) + Len(more) /\ Len(chunk) \in Nat /\ Len(more) \in Nat
          /\ Len(chunk) # 0
      BY <2>1, ConcatProperties, LenProperties, EmptySeq
    <3>2. Len(chunk \o more) # 0
      BY <3>1
    <3> QED BY <2>1, <3>2, EmptySeq
  <2> QED BY <2>1, <2>2
<1>2. line' = line /\ sent' = sent /\ style' = style
  BY DEF E!Read, E!sender
<1>3. line \notin {"broken", "ended"}
  BY <1>1 DEF PartInv, CutInv
<1>4. lines \in Seq(Seq(Word)) /\ text \in Seq(Token)
  BY DEF PartInv, CutInv
<1>5. Now' = E!PartsOf(Nothing, lines)'
  <2>1. Now' = E!PartsOf(Nothing, lines')
    BY <1>1, <1>4, TakeIs DEF PartInv
  <2> QED BY <2>1
<1>6. text' \o wire' = text \o wire
  BY <1>1, <1>4, ConcatAssociative
<1>7. ASSUME NEW e \in BOOLEAN PROVE Sending(e)' = Sending(e)
  BY <1>2 DEF Sending
<1>8. Sending(line = "failed")' = Sending(line = "failed")
  BY <1>2 DEF Sending
<1> QED BY <1>1, <1>2, <1>3, <1>5, <1>6, <1>7, <1>8 DEF PartInv

\* When the response is over, the reader has the parts of all the text that came.
LEMMA FlushParts == ASSUME PartInv, E!Flush PROVE PartInv'
<1> DEFINE final == IF buffer = <<>> /\ ~trailing THEN <<>> ELSE <<buffer>>
<1>1. /\ line \in {"closed", "failed", "cut"} /\ wire = <<>> /\ wire' = wire /\ text' = text
      /\ sent' = sent /\ style' = style /\ line' = IF line = "cut" THEN "broken" ELSE "ended"
      /\ E!Take(final)
  BY DEF E!Flush
<1>2. /\ CutInv'
      /\ trailing => lines' = E!Scanned(E!NoText, text).whole
      /\ ~trailing /\ buffer = <<>> => lines' = lines
      /\ ~trailing /\ buffer # <<>> => lines' = Append(lines, buffer)
  BY FlushCuts DEF PartInv
<1>3. /\ lines \in Seq(Seq(Word)) /\ buffer \in Seq(Word) /\ text \in Seq(Token)
      /\ trailing \in BOOLEAN /\ Now = E!PartsOf(Nothing, lines) /\ sent \in 0..MaxEvents
  BY DEF PartInv, CutInv
<1>4. final \in Seq(Seq(Word))
  <2>1. <<>> \in Seq(Seq(Word)) /\ <<buffer>> \in Seq(Seq(Word))
    BY <1>3
  <2> QED BY <2>1
<1>5. /\ Now' = E!PartsOf(Nothing, lines') /\ Now' = E!PartsOf(Now, final) /\ parts' = Now'.parts
  <2> HIDE DEF final
  <2> QED BY <1>1, <1>3, <1>4, TakeIs
<1>6. PICK seen \in Seq(Token) : Reads(seen)
  BY <1>1 DEF PartInv, CutInv
<1>7. parts' = Ideal(text).parts
  <2>1. CASE trailing
    BY <1>2, <1>5, <2>1 DEF Ideal
  <2>2. CASE ~trailing
    <3>1. text = seen
      BY <1>6, <2>2, ConcatEmptySeq DEF Reads, Held
    <3>2. Now = Ideal(text)
      BY <1>3, <1>6, <3>1 DEF Reads, Ideal
    <3>3. CASE buffer = <<>>
      BY <1>2, <1>3, <1>5, <2>2, <3>2, <3>3
    <3>4. CASE buffer # <<>>
      <4>1. final = <<buffer>>
        BY <3>4
      <4>2. Now' = E!PartOf(Now, buffer)
        BY <1>5, <4>1, PartsOfOne
      <4>3. buffer[1] \in Word
        BY <1>3, <3>4
      <4>4. buffer[1].is \in {"event", "data", "comment"}
        BY <4>3 DEF Word
      <4>5. E!PartOf(Now, buffer).parts = Now.parts
        BY <3>4, <4>4 DEF E!PartOf, Now
      <4> QED BY <1>5, <3>2, <4>2, <4>5
    <3> QED BY <3>3, <3>4
  <2> QED BY <1>3, <2>1, <2>2
<1>8. text \o wire = text
  BY <1>1, <1>3, ConcatEmptySeq
<1>9. ASSUME NEW e \in BOOLEAN PROVE Sending(e)' = Sending(e)
  BY <1>1 DEF Sending
<1>10. style # "raw" => (line = "cut" => \E e \in BOOLEAN : Begins(parts', Sending(e)'))
  BY <1>7, <1>8, <1>9 DEF PartInv
<1>11. style # "raw" => (line # "cut" => \E e \in BOOLEAN : parts' = Sending(e)')
  <2> SUFFICES ASSUME style # "raw", line # "cut" PROVE \E e \in BOOLEAN : parts' = Sending(e)'
    OBVIOUS
  <2> DEFINE e == (line = "failed")
  <2>1. Boundary(text, Sending(e)) /\ e \in BOOLEAN
    BY <1>1, <1>8 DEF PartInv
  <2> HIDE DEF e
  <2>2. parts' = Sending(e)
    BY <1>7, <2>1, BoundaryIdeal
  <2> QED BY <1>9, <2>1, <2>2
<1>12. line' \in {"broken", "ended"} /\ (line' = "broken" <=> line = "cut")
  BY <1>1
<1> HIDE DEF final
<1>13. Now' = E!PartsOf(Nothing, lines)'
  BY <1>5
<1> QED BY <1>1, <1>2, <1>10, <1>11, <1>12, <1>13 DEF PartInv

LEMMA PartsStay == ASSUME PartInv, [E!Next]_(E!vars) PROVE PartInv'
<1>1. CutInv'
  BY CutStays DEF PartInv
<1>2. CASE E!Next
  BY <1>1, <1>2, EventParts, BeatParts, ErrorParts, RawParts, CloseParts, LostParts, ReadParts,
     FlushParts DEF E!Next
<1>3. CASE UNCHANGED E!vars
  <2>1. UNCHANGED <<style, sent, wire, line, event, data, parts, text, lines>>
    BY <1>3 DEF E!vars, E!sender, E!reader
  <2>2. ASSUME NEW e \in BOOLEAN PROVE Sending(e)' = Sending(e)
    BY <2>1 DEF Sending
  <2>3. Sending(line = "failed")' = Sending(line = "failed")
    BY <2>1 DEF Sending
  <2>4. Now' = E!PartsOf(Nothing, lines)'
    BY <2>1 DEF PartInv, Now
  <2> QED BY <1>1, <2>1, <2>2, <2>3, <2>4 DEF PartInv
<1> QED BY <1>2, <1>3

\* Comments, pieces and a connection that ends in the middle of an event never change,
\* repeat or reorder what SSEDecoder makes of a response: its parts are the first events
\* that were sent, and all of them when the response ended by itself.
THEOREM PartsAreThoseSent == MCSpec => []PartsAreEvents
<1>1. MCInit => PartInv
  BY PartsStart DEF MCInit
<1>2. PartInv /\ [MCNext]_allVars => PartInv'
  BY EventStep, PartsStay
<1> QED BY <1>1, <1>2, PartsTell, PTL DEF MCSpec
=============================================================================
