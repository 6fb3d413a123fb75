----------------------------- MODULE TextProofs -----------------------------
(***************************************************************************)
(* What the functions of Text compute, for every text: which occurrences a *)
(* scan counts, what a replacement leaves, and which lines a window holds. *)
(***************************************************************************)
EXTENDS Text, RecursionLemmas
LOCAL INSTANCE SequencesExt

\* The parts of a text joined one after the other.
LEMMA FlattenSteps ==
  ASSUME NEW S, NEW n, NEW ss, Parts(ss, n, S)
  PROVE  \E f : Joinings(f, ss, n, S) /\ FlattenSeq(ss) = f[n]
<1>0. n \in Nat /\ ss \in [1..n -> Seq(S)] /\ Len(ss) = n
  BY DEF Parts
<1> DEFINE Solves(g) == g = [i \in 1..n |-> IF i = 1 THEN ss[i] ELSE g[i - 1] \o ss[i]]
           g == CHOOSE g : Solves(g)
<1>1. Solves(g)
  BY <1>0, FlattenExists
<1>2. n # 0 => FlattenSeq(ss) = g[n]
  BY <1>0 DEF FlattenSeq
<1>3. n = 0 => FlattenSeq(ss) = << >>
  <2>1. n = 0 => ss = << >>
    BY <1>0
  <2>2. n = 0 => FlattenSeq(ss) = ss
    BY <1>0 DEF FlattenSeq
  <2> QED
    BY <2>1, <2>2
<1> HIDE DEF g
<1>4. Joins(g, ss, n)
  BY <1>1 DEF Joins
<1>5. PICK f : Joinings(f, ss, n, S) /\ (n # 0 => g[n] = f[n])
  BY <1>4, JoinSteps
<1> QED
  BY <1>0, <1>2, <1>3, <1>5 DEF Joinings

\* A text joined of texts is a text.
LEMMA FlattenType ==
  ASSUME NEW S, NEW n, NEW ss, Parts(ss, n, S)
  PROVE  FlattenSeq(ss) \in Seq(S)
<1>1. PICK f : Joinings(f, ss, n, S) /\ FlattenSeq(ss) = f[n]
  BY FlattenSteps
<1> QED
  BY <1>1 DEF Joinings, Parts

-----------------------------------------------------------------------------
(* The scan.                                                               *)

\* One step of the scan from position i, with what it finds further on.
FoundFrom(s, t, f, i) ==
  IF i > Len(s) THEN {} ELSE IF At(s, t, i) THEN {i} \union f[i + Len(t)] ELSE f[i + 1]

\* The recursion of the scan has a solution: it is filled in from the end.
LEMMA ScanExists ==
  ASSUME NEW s, NEW t, Len(s) \in Nat, Len(t) \in Nat \ {0}
  PROVE  \E f : f = [i \in 1..(Len(s) + Len(t)) |-> FoundFrom(s, t, f, i)]
<1> DEFINE N == Len(s) + Len(t)
           Filled(k) == {i \in 1..N : i > N - k}
           Solves(f, k) == /\ f = [i \in 1..N |-> f[i]]
                           /\ \A i \in Filled(k) : f[i] = FoundFrom(s, t, f, i)
           T == {k \in Nat : \E f : Solves(f, k)}
<1>0. N \in Nat
  OBVIOUS
<1>1. 0 \in T
  <2>1. Solves([i \in 1..N |-> {}], 0)
    OBVIOUS
  <2> QED
    BY <2>1
<1>2. ASSUME NEW k \in 0..(N - 1), k \in T PROVE k + 1 \in T
  <2>1. PICK f : Solves(f, k)
    BY <1>2
  <2> DEFINE p == N - k
             g == [i \in 1..N |-> IF i = p THEN FoundFrom(s, t, f, p) ELSE f[i]]
  <2>2. p \in 1..N /\ p \in Int
    OBVIOUS
  <2> HIDE DEF N, p
  <2>3. g = [i \in 1..N |-> g[i]] /\ g[p] = FoundFrom(s, t, f, p)
    BY <2>2
  <2>4. \A j \in 1..N : j # p => g[j] = f[j]
    OBVIOUS
  <2> HIDE DEF g
  <2>5. ASSUME NEW i \in 1..N, i >= p PROVE FoundFrom(s, t, g, i) = FoundFrom(s, t, f, i)
    <3>1. CASE i > Len(s)
      BY <3>1 DEF FoundFrom
    <3>2. CASE ~(i > Len(s))
      <4>1. i + Len(t) \in 1..N /\ i + 1 \in 1..N /\ i + Len(t) # p /\ i + 1 # p
        BY <2>2, <2>5, <3>2 DEF N
      <4> QED
        BY <2>4, <4>1 DEF FoundFrom
    <3> QED
      BY <3>1, <3>2
  <2>6. ASSUME NEW i \in Filled(k + 1) PROVE g[i] = FoundFrom(s, t, g, i)
    <3>1. i \in 1..N /\ i >= p /\ (i = p \/ i \in Filled(k))
      BY <1>0 DEF p
    <3>2. i # p => f[i] = FoundFrom(s, t, f, i)
      BY <2>1, <3>1
    <3> QED
      BY <2>3, <2>4, <2>5, <3>1, <3>2
  <2>7. Solves(g, k + 1)
    BY <2>3, <2>6
  <2> HIDE DEF Solves
  <2>8. k + 1 \in Nat
    OBVIOUS
  <2> QED
    BY <2>7, <2>8
<1> HIDE DEF T, N
<1>3. 0..N \subseteq T
  BY <1>0, <1>1, <1>2, Upwards
<1>4. PICK f : Solves(f, N)
  BY <1>0, <1>3 DEF T
<1>5. \A i \in 1..N : i \in Filled(N)
  BY <1>0
<1>6. f = [i \in 1..N |-> FoundFrom(s, t, f, i)]
  BY <1>4, <1>5
<1> QED
  BY <1>6 DEF N

\* What a scan of s for t finds: places of t only, every place of t is covered
\* by one it counts, and no two it counts overlap.
LEMMA HitsAre ==
  ASSUME NEW S, NEW s \in Seq(S), NEW t \in Seq(S), t # << >>
  PROVE  /\ Hits(s, t) \subseteq Places(s, t)
         /\ \A j \in Places(s, t) : \E h \in Hits(s, t) : h <= j /\ j < h + Len(t)
         /\ \A g, h \in Hits(s, t) : g < h => g + Len(t) <= h
<1> DEFINE n == Len(s)
           m == Len(t)
           N == n + m
<1>1. n \in Nat /\ m \in Nat \ {0} /\ N \in Nat
  BY EmptySeq
<1>2. CASE s = << >>
  <2>1. Places(s, t) = {} /\ Hits(s, t) = {}
    BY <1>2 DEF Places, Hits
  <2> QED
    BY <2>1
<1>3. CASE s # << >>
  <2> DEFINE Solves(f) == f = [i \in 1..(Len(s) + Len(t)) |-> FoundFrom(s, t, f, i)]
             f == CHOOSE f : Solves(f)
  <2>1. Solves(f)
    BY <1>1, ScanExists
  <2>2. Hits(s, t) = f[1]
    BY <1>3 DEF Hits, FoundFrom
  <2> HIDE DEF f
  <2>3. \A i \in 1..N : f[i] = FoundFrom(s, t, f, i)
    BY <2>1
  <2> HIDE DEF n, m, N, Solves
  <2> DEFINE P == Places(s, t)
             Good(i) == /\ f[i] \subseteq P /\ \A h \in f[i] : i <= h
                        /\ \A j \in P : i <= j => \E h \in f[i] : h <= j /\ j < h + m
                        /\ \A g, h \in f[i] : g < h => g + m <= h
             T == {i \in 1..N : Good(i)}
  <2>4. \A j : j \in P <=> j \in 1..n /\ At(s, t, j)
    BY DEF Places, n
  <2> HIDE DEF P
  <2>5. ASSUME NEW i \in 1..N, (i + 1)..N \subseteq T PROVE i \in T
    <3>1. f[i] = IF i > n THEN {} ELSE IF i \in P THEN {i} \union f[i + m] ELSE f[i + 1]
      <4>1. i \in Int
        OBVIOUS
      <4>2. ~(i > n) => (i \in P <=> At(s, t, i))
        BY <1>1, <2>4
      <4> QED
        BY <2>3, <4>2 DEF FoundFrom, n, m
    <3>2. CASE i > n
      <4>1. \A j \in P : ~(i <= j)
        BY <1>1, <2>4, <3>2
      <4> QED
        BY <3>1, <3>2, <4>1
    <3>3. CASE ~(i > n) /\ i \in P
      <4>1. i + m \in T
        BY <1>1, <2>5, <3>3 DEF N
      <4> DEFINE R == f[i + m]
      <4>2. f[i] = {i} \union R
        BY <3>1, <3>3
      <4>3. /\ R \subseteq P /\ \A h \in R : i + m <= h
            /\ \A j \in P : i + m <= j => \E h \in R : h <= j /\ j < h + m
            /\ \A g, h \in R : g < h => g + m <= h
        BY <4>1
      <4> HIDE DEF R
      <4>4. P \subseteq 1..n
        BY <2>4
      <4>8. \A h \in f[i] : h = i \/ h \in R
        BY <4>2
      <4>5. f[i] \subseteq P /\ \A h \in f[i] : i <= h
        <5>1. \A h \in R : h \in Int /\ i <= h
          BY <1>1, <4>3, <4>4
        <5>2. R \subseteq P /\ i \in P /\ i <= i
          BY <3>3, <4>3
        <5> HIDE DEF R
        <5> QED
          BY <4>8, <5>1, <5>2
      <4>6. ASSUME NEW j \in P, i <= j PROVE \E h \in f[i] : h <= j /\ j < h + m
        <5>1. j \in Int /\ i \in f[i] /\ R \subseteq f[i]
          BY <4>2, <4>4
        <5>2. CASE j < i + m
          BY <4>6, <5>1, <5>2
        <5>3. CASE i + m <= j
          BY <4>3, <5>1, <5>3
        <5> QED
          BY <1>1, <5>1, <5>2, <5>3
      <4>7. ASSUME NEW g \in f[i], NEW h \in f[i], g < h PROVE g + m <= h
        <5>1. \A x \in R : x \in Int /\ i + m <= x
          <6> TAKE x \in R
          <6>1. x \in P /\ i + m <= x
            BY <4>3
          <6> QED
            BY <1>1, <4>4, <6>1
        <5>2. CASE g = i
          <6>1. h \in R
            BY <4>7, <4>8, <5>2
          <6> QED
            BY <5>1, <5>2, <6>1
        <5>3. CASE g \in R
          <6>1. h # i
            BY <1>1, <4>7, <5>1, <5>3
          <6>2. h \in R
            BY <4>8, <6>1
          <6> QED
            BY <4>3, <4>7, <5>3, <6>2
        <5> QED
          BY <4>8, <5>2, <5>3
      <4> QED
        BY <4>5, <4>6, <4>7
    <3>4. CASE ~(i > n) /\ i \notin P
      <4>1. i + 1 \in T
        BY <1>1, <2>5, <3>4 DEF N
      <4>2. f[i] = f[i + 1]
        BY <3>1, <3>4
      <4>3. \A j \in P : i <= j => i + 1 <= j
        BY <1>1, <2>4, <3>4
      <4>4. \A h \in f[i] : i <= h
        <5> TAKE h \in f[i]
        <5>1. h \in P /\ i + 1 <= h
          BY <4>1, <4>2
        <5> QED
          BY <2>4, <5>1
      <4> QED
        BY <4>1, <4>2, <4>3, <4>4
    <3> QED
      BY <3>2, <3>3, <3>4
  <2> HIDE DEF T
  <2>6. 1..N \subseteq T
    BY <1>1, <2>5, Downwards
  <2>7. 1 \in T
    BY <1>1, <2>6 DEF N
  <2>8. \A j \in P : 1 <= j
    BY <2>4
  <2> QED
    BY <2>2, <2>7, <2>8 DEF T, P, m
<1> QED
  BY <1>2, <1>3

\* The places of a text are positions at which all of it fits.
LEMMA PlacesFit ==
  ASSUME NEW S, NEW s \in Seq(S), NEW t \in Seq(S), NEW i \in Places(s, t)
  PROVE  i \in 1..Len(s) /\ i + Len(t) - 1 <= Len(s)
  BY DEF Places, At

\* The scan finds something exactly when the text occurs at all, and a text
\* that it counts once has no second occurrence clear of the first.
LEMMA HitsCount ==
  ASSUME NEW S, NEW s \in Seq(S), NEW t \in Seq(S), t # << >>
  PROVE  /\ count_matches(s, t) \in Nat /\ IsFiniteSet(Hits(s, t))
         /\ count_matches(s, t) = 0 <=> Places(s, t) = {}
         /\ count_matches(s, t) = 1 =>
              \A i, j \in Places(s, t) : j < i + Len(t)
<1> DEFINE H == Hits(s, t)
           n == Len(s)
           m == Len(t)
           P == Places(s, t)
<1>1. /\ H \subseteq P
      /\ \A j \in P : \E h \in H : h <= j /\ j < h + m
  BY HitsAre
<1>2. n \in Nat /\ m \in Nat /\ P \subseteq 1..n
  BY DEF Places
<1> HIDE DEF H, n, m, P
<1>3. H \subseteq 0..n
  BY <1>1, <1>2
<1>4. /\ IsFiniteSet(H) /\ Cardinality(H) \in Nat
      /\ Cardinality(H) = 0 <=> H = {}
      /\ Cardinality(H) = 1 <=> \E x : H = {x}
  BY <1>2, <1>3, Positions
<1>5. Cardinality(H) = 0 <=> P = {}
  BY <1>1, <1>4
<1>6. ASSUME Cardinality(H) = 1, NEW i \in P, NEW j \in P PROVE j < i + m
  <2>1. PICK x : H = {x}
    BY <1>4, <1>6
  <2>2. x <= i /\ j < x + m /\ x \in Int /\ i \in Int /\ j \in Int
    BY <1>1, <1>2, <1>3, <2>1
  <2> QED
    BY <1>2, <2>2
<1> QED
  BY <1>4, <1>5, <1>6 DEF count_matches, H, P, m

-----------------------------------------------------------------------------
(* Replacements.                                                           *)

\* A text that goes on by one character.
LEMMA SubSeqGrows ==
  ASSUME NEW S, NEW s \in Seq(S), NEW a \in 1..(Len(s) + 1), NEW i \in 0..(Len(s) - 1),
         a <= i + 1
  PROVE  SubSeq(s, a, i) \o <<s[i + 1]>> = SubSeq(s, a, i + 1)
<1>1. a \in 1..Len(s) /\ i + 1 \in a..Len(s) /\ (i + 1) - 1 = i
  OBVIOUS
<1> QED
  BY <1>1, SubSeqRecursiveSecond

\* What replace joins: the new text, nothing, or the character that stands.
Cells(s, hits, eaten, r) ==
  [i \in 1..Len(s) |-> IF i \in hits THEN r ELSE IF i \in eaten THEN <<>> ELSE <<s[i]>>]

\* What replace joins are texts over the same characters.
LEMMA CellsAreParts ==
  ASSUME NEW S, NEW s \in Seq(S), NEW r \in Seq(S), NEW hits, NEW eaten
  PROVE  Parts(Cells(s, hits, eaten, r), Len(s), S)
<1>1. \A i \in 1..Len(s) : <<s[i]>> \in Seq(S)
  OBVIOUS
<1>2. << >> \in Seq(S)
  OBVIOUS
<1>3. Len(s) \in Nat
  OBVIOUS
<1> QED
  BY <1>1, <1>2, <1>3 DEF Parts, Cells

\* Replacing makes a text of texts.
LEMMA ReplaceType ==
  ASSUME NEW S, NEW s \in Seq(S), NEW t, NEW r \in Seq(S), NEW all
  PROVE  replace(s, t, r, all) \in Seq(S)
<1> DEFINE hits == IF all THEN Hits(s, t)
                   ELSE {CHOOSE x \in Hits(s, t) : \A y \in Hits(s, t) : x <= y}
           eaten == UNION {h..(h + Len(t) - 1) : h \in hits}
<1>1. replace(s, t, r, all) = FlattenSeq(Cells(s, hits, eaten, r))
  BY DEF replace, Cells
<1> HIDE DEF hits, eaten
<1> QED
  BY <1>1, CellsAreParts, FlattenType

\* Without replace_all the text is cut at one hit and joined around the new.
LEMMA ReplaceOne ==
  ASSUME NEW S, NEW s \in Seq(S), NEW t \in Seq(S), NEW r \in Seq(S),
         t # << >>, Places(s, t) # {}
  PROVE  \E h \in Places(s, t) :
           replace(s, t, r, FALSE)
             = SubSeq(s, 1, h - 1) \o r \o SubSeq(s, h + Len(t), Len(s))
<1> DEFINE n == Len(s)
           m == Len(t)
           h == CHOOSE x \in Hits(s, t) : \A y \in Hits(s, t) : x <= y
           eaten == UNION {x..(x + m - 1) : x \in {h}}
<1>1. n \in Nat /\ m \in Nat \ {0}
  BY EmptySeq
<1>2. h \in Hits(s, t)
  <2>1. Hits(s, t) # {} /\ Hits(s, t) \subseteq Nat
    BY HitsAre DEF Places
  <2>2. \E x \in Hits(s, t) : \A y \in Hits(s, t) : x <= y
    BY <2>1, LeastExists
  <2> QED
    BY <2>2
<1>3. h \in Places(s, t)
  BY <1>2, HitsAre
<1>4. h \in 1..n /\ h + m - 1 <= n
  BY <1>3, PlacesFit
<1>5. replace(s, t, r, FALSE) = FlattenSeq(Cells(s, {h}, eaten, r))
  BY DEF replace, Cells
<1> HIDE DEF h
<1>6. eaten = h..(h + m - 1)
  OBVIOUS
<1> HIDE DEF eaten, m
<1>7. PICK f : Joinings(f, Cells(s, {h}, eaten, r), n, S)
                /\ FlattenSeq(Cells(s, {h}, eaten, r)) = f[n]
  BY CellsAreParts, FlattenSteps
<1>8. /\ f[0] = << >>
      /\ \A i \in 1..n : f[i] = f[i - 1] \o (IF i = h THEN r ELSE IF i \in eaten THEN <<>>
                                             ELSE <<s[i]>>)
  BY <1>7 DEF Joinings, Cells
<1> DEFINE front == SubSeq(s, 1, h - 1) \o r
           T == {i \in 0..n : f[i] = IF i < h THEN SubSeq(s, 1, i)
                                     ELSE front \o SubSeq(s, h + m, i)}
<1> HIDE DEF n
<1>9. SubSeq(s, 1, h - 1) \in Seq(S) /\ front \in Seq(S)
  BY <1>1, <1>4, SubSeqProperties, ConcatProperties DEF n
<1>10. \A i \in 0..n : i < h + m => SubSeq(s, h + m, i) = << >>
  BY <1>1, <1>4, SubSeqEmpty
<1>11. 0 \in T
  <2>1. SubSeq(s, 1, 0) = << >>
    BY SubSeqEmpty
  <2>2. 0 \in 0..n /\ 0 < h
    BY <1>1, <1>4
  <2> HIDE DEF front
  <2> QED
    BY <1>8, <2>1, <2>2, Zenon
<1>12. ASSUME NEW i \in 0..(n - 1), i \in T PROVE i + 1 \in T
  <2>1. i + 1 \in 1..n /\ (i + 1) - 1 = i /\ i + 1 \in 0..n /\ i \in 0..(Len(s) - 1)
    BY <1>1 DEF n
  <2>2. f[i + 1] = f[i] \o (IF i + 1 = h THEN r ELSE IF i + 1 \in eaten THEN <<>>
                            ELSE <<s[i + 1]>>)
    BY <1>8, <2>1
  <2>3. f[i] = IF i < h THEN SubSeq(s, 1, i) ELSE front \o SubSeq(s, h + m, i)
    BY <1>12
  <2> HIDE DEF front
  <2>4. CASE i + 1 < h
    <3>1. i + 1 \notin eaten /\ i + 1 # h /\ i < h
      BY <1>1, <1>4, <1>6, <2>4
    <3>2. SubSeq(s, 1, i) \o <<s[i + 1]>> = SubSeq(s, 1, i + 1)
      BY <1>1, <2>1, SubSeqGrows DEF n
    <3> QED
      BY <2>1, <2>2, <2>3, <2>4, <3>1, <3>2
  <2>5. CASE i + 1 = h
    <3>1. f[i + 1] = SubSeq(s, 1, h - 1) \o r
      BY <1>4, <2>1, <2>2, <2>3, <2>5, SMTT(30)
    <3>2. SubSeq(s, h + m, i + 1) = << >>
      BY <1>1, <1>4, <1>10, <2>1, <2>5
    <3>3. f[i + 1] = front \o << >>
      BY <1>9, <3>1, ConcatEmptySeq DEF front
    <3>4. ~(i + 1 < h)
      BY <1>4, <2>5
    <3> QED
      BY <2>1, <3>2, <3>3, <3>4
  <2>6. CASE h < i + 1 /\ i + 1 < h + m
    <3>1. i + 1 \in eaten /\ i + 1 # h /\ ~(i < h) /\ ~(i + 1 < h)
      BY <1>1, <1>4, <1>6, <2>1, <2>6
    <3>2. SubSeq(s, h + m, i + 1) = << >> /\ SubSeq(s, h + m, i) = << >>
      BY <1>1, <1>4, <1>10, <2>1, <2>6
    <3>3. front \o << >> = front
      BY <1>9, ConcatEmptySeq
    <3> QED
      BY <2>1, <2>2, <2>3, <3>1, <3>2, <3>3
  <2>7. CASE h + m <= i + 1
    <3>1. i + 1 \notin eaten /\ i + 1 # h /\ ~(i < h) /\ ~(i + 1 < h)
      BY <1>1, <1>4, <1>6, <2>1, <2>7
    <3>2. SubSeq(s, h + m, i) \o <<s[i + 1]>> = SubSeq(s, h + m, i + 1)
      BY <1>1, <1>4, <2>1, <2>7, SubSeqGrows DEF n
    <3>3. SubSeq(s, h + m, i) \in Seq(S) /\ <<s[i + 1]>> \in Seq(S)
      BY <1>1, <1>4, <2>1, SubSeqProperties DEF n
    <3>4. (front \o SubSeq(s, h + m, i)) \o <<s[i + 1]>>
            = front \o (SubSeq(s, h + m, i) \o <<s[i + 1]>>)
      <4> DEFINE back == SubSeq(s, h + m, i)
                 c == <<s[i + 1]>>
      <4>1. front \in Seq(S) /\ back \in Seq(S) /\ c \in Seq(S)
        BY <1>9, <3>3
      <4> HIDE DEF back, c
      <4>2. (front \o back) \o c = front \o (back \o c)
        BY <4>1, SMTT(30)
      <4> QED
        BY <4>2 DEF back, c
    <3> QED
      BY <2>1, <2>2, <2>3, <3>1, <3>2, <3>4
  <2> QED
    BY <1>1, <1>4, <2>1, <2>4, <2>5, <2>6, <2>7
<1> HIDE DEF T
<1>13. n \in T
  <2>1. 0..n \subseteq T
    BY <1>1, <1>11, <1>12, Upwards
  <2> QED
    BY <1>1, <2>1
<1>14. f[n] = front \o SubSeq(s, h + m, n)
  <2>1. ~(n < h)
    BY <1>1, <1>4
  <2> HIDE DEF front
  <2> QED
    BY <1>13, <2>1, Zenon DEF T
<1> QED
  BY <1>3, <1>5, <1>7, <1>14 DEF n, m

\* One time more adds the factor once.
LEMMA OneTimeMore ==
  ASSUME NEW c \in Int, NEW d \in Int
  PROVE  (c + 1) * d = c * d + d /\ c * d \in Int
  OBVIOUS

\* With replace_all every hit adds what one replacement adds.
LEMMA ReplaceAllLength ==
  ASSUME NEW S, NEW s \in Seq(S), NEW t \in Seq(S), NEW r \in Seq(S), t # << >>
  PROVE  Len(replace(s, t, r, TRUE))
           = Len(s) + count_matches(s, t) * (Len(r) - Len(t))
<1> DEFINE n == Len(s)
           m == Len(t)
           k == Len(r)
           H == Hits(s, t)
           eaten == UNION {h..(h + m - 1) : h \in H}
<1>1. n \in Nat /\ m \in Nat \ {0} /\ k \in Nat
  BY EmptySeq
<1>2. replace(s, t, r, TRUE) = FlattenSeq(Cells(s, H, eaten, r))
  BY DEF replace, Cells
<1>3. \A g, h \in H : g < h => g + m <= h
  BY HitsAre
<1>4. \A h \in H : h \in 1..n /\ h + m - 1 <= n
  BY HitsAre, PlacesFit
<1>5. \A i \in Int : i \in eaten <=> \E h \in H : h <= i /\ i < h + m
  <2> HIDE DEF H, m
  <2>1. \A h \in H, i \in Int : i \in h..(h + m - 1) <=> h <= i /\ i < h + m
    BY <1>1, <1>4
  <2> QED
    BY <2>1
<1> HIDE DEF eaten, H
<1>6. PICK f : Joinings(f, Cells(s, H, eaten, r), n, S)
                /\ FlattenSeq(Cells(s, H, eaten, r)) = f[n]
  BY CellsAreParts, FlattenSteps
<1> DEFINE L == [i \in 0..n |-> Len(f[i])]
<1>7. L[0] = 0 /\ L[n] = Len(f[n])
  BY <1>1, <1>6 DEF Joinings
<1>8. ASSUME NEW i \in 0..(n - 1)
      PROVE  /\ L[i] \in Nat
             /\ L[i + 1] = L[i] + (IF i + 1 \in H THEN k ELSE IF i + 1 \in eaten THEN 0 ELSE 1)
  <2>1. i \in 0..n /\ i + 1 \in 1..n /\ i + 1 \in 0..n /\ (i + 1) - 1 = i
    BY <1>1
  <2>2. f[i] \in Seq(S) /\ <<s[i + 1]>> \in Seq(S) /\ << >> \in Seq(S)
    BY <1>6, <2>1 DEF Joinings
  <2>3. f[i + 1] = f[i] \o (IF i + 1 \in H THEN r ELSE IF i + 1 \in eaten THEN <<>>
                            ELSE <<s[i + 1]>>)
    BY <1>6, <2>1 DEF Joinings, Cells
  <2>4. Len(f[i + 1]) = Len(f[i]) + (IF i + 1 \in H THEN k ELSE IF i + 1 \in eaten THEN 0 ELSE 1)
    <3>1. CASE i + 1 \in H
      <4>1. f[i + 1] = f[i] \o r
        BY <2>3, <3>1
      <4> QED
        BY <2>2, <3>1, <4>1, ConcatProperties
    <3>2. CASE i + 1 \notin H /\ i + 1 \in eaten
      <4>1. f[i + 1] = f[i] \o << >>
        BY <2>3, <3>2
      <4> QED
        BY <2>2, <3>2, <4>1, ConcatProperties
    <3>3. CASE i + 1 \notin H /\ i + 1 \notin eaten
      <4>1. f[i + 1] = f[i] \o <<s[i + 1]>>
        BY <2>3, <3>3
      <4> QED
        BY <2>2, <3>3, <4>1, ConcatProperties
    <3> QED
      BY <3>1, <3>2, <3>3
  <2>5. L[i] = Len(f[i]) /\ L[i + 1] = Len(f[i + 1])
    BY <2>1
  <2>6. Len(f[i]) \in Nat
    BY <2>2
  <2> HIDE DEF L
  <2> QED
    BY <2>4, <2>5, <2>6
<1> HIDE DEF L, n, m, k
<1> DEFINE d == k - m
           Till(i) == {h \in H : h <= i}
           Sum(i) == Cardinality(Till(i)) * d
           Within(i) == {h \in H : h <= i /\ i < h + m}
           Good(i) == /\ \A h \in Within(i) : L[i] = (h + m - 1) + Sum(i)
                      /\ Within(i) = {} => L[i] = i + Sum(i)
           T == {i \in 0..n : Good(i)}
<1>9. \A i \in 0..n : Till(i) \subseteq 0..n /\ Cardinality(Till(i)) \in Nat
  <2> TAKE i \in 0..n
  <2>1. Till(i) \subseteq 0..n
    BY <1>1, <1>4
  <2> QED
    BY <1>1, <2>1, Positions
<1>10. 0 \in T
  <2>1. Till(0) = {} /\ Within(0) = {} /\ 0 \in 0..n
    BY <1>1, <1>4
  <2>2. Cardinality(Till(0)) = 0
    BY <1>1, <1>9, <2>1, Positions
  <2>3. Sum(0) = 0
    BY <1>1, <2>2
  <2> HIDE DEF Till, Within, Sum
  <2> QED
    BY <1>7, <2>1, <2>3
<1>11. ASSUME NEW i \in 0..(n - 1), i \in T PROVE i + 1 \in T
  <2>1. i \in 0..n /\ i + 1 \in 0..n /\ i \in Int /\ d \in Int
    BY <1>1
  <2>2. Good(i)
    BY <1>11
  <2>3. /\ L[i] \in Nat
        /\ L[i + 1] = L[i] + (IF i + 1 \in H THEN k ELSE IF i + 1 \in eaten THEN 0 ELSE 1)
    BY <1>8
  <2>4. Sum(i) \in Int
    BY <1>9, <2>1, OneTimeMore
  <2>5. \A h \in Within(i) : h \in H /\ h \in Int /\ h <= i /\ i < h + m
    BY <1>4
  <2>6. \A h \in Within(i + 1) : h \in H /\ h \in Int /\ h <= i + 1 /\ i + 1 < h + m
    BY <1>4
  <2>7. \A h \in H : h <= i + 1 /\ i + 1 < h + m => h \in Within(i + 1)
    OBVIOUS
  <2>8. \A h \in H : h <= i /\ i < h + m => h \in Within(i)
    OBVIOUS
  <2>9. i + 1 \in eaten <=> Within(i + 1) # {}
    BY <1>5, <2>1, <2>6, <2>7
  <2>10. CASE i + 1 \in H
    <3>1. Till(i + 1) = Till(i) \union {i + 1} /\ i + 1 \notin Till(i)
      BY <1>4, <2>1, <2>10
    <3>2. Cardinality(Till(i + 1)) = Cardinality(Till(i)) + 1
      BY <1>1, <1>9, <2>1, <3>1, OneMore
    <3>3. Sum(i + 1) = Sum(i) + d
      BY <1>9, <2>1, <3>2, OneTimeMore
    <3> HIDE DEF Till, Within, Sum
    <3>4. \A h \in Within(i) : h + m = i + 1
      BY <1>1, <1>3, <2>1, <2>5, <2>10, SMTT(30)
    <3>5. L[i] = i + Sum(i)
      BY <1>1, <2>1, <2>2, <2>4, <2>5, <3>4
    <3>6. \A h \in Within(i + 1) : h = i + 1
      BY <1>1, <1>3, <2>1, <2>6, <2>10
    <3>7. i + 1 \in Within(i + 1)
      BY <1>1, <2>1, <2>7, <2>10
    <3>8. L[i + 1] = ((i + 1) + m - 1) + Sum(i + 1)
      BY <1>1, <2>1, <2>3, <2>4, <2>10, <3>3, <3>5
    <3> QED
      BY <2>1, <3>6, <3>7, <3>8
  <2>11. CASE i + 1 \notin H
    <3>1. Till(i + 1) = Till(i)
      BY <1>4, <2>1, <2>11
    <3>2. Sum(i + 1) = Sum(i)
      BY <3>1
    <3> HIDE DEF Till, Within, Sum
    <3>3. CASE i + 1 \in eaten
      <4>1. L[i + 1] = L[i] /\ Within(i + 1) # {}
        BY <2>3, <2>9, <2>11, <3>3
      <4>2. \A h \in Within(i + 1) : h \in Within(i)
        <5> TAKE h \in Within(i + 1)
        <5>1. h # i + 1 /\ h \in H /\ h \in Int /\ h <= i + 1 /\ i + 1 < h + m
          BY <2>6, <2>11
        <5> QED
          BY <1>1, <2>1, <2>8, <5>1
      <4>3. \A h \in Within(i + 1) : L[i + 1] = (h + m - 1) + Sum(i + 1)
        BY <2>2, <3>2, <4>1, <4>2
      <4> QED
        BY <2>1, <4>1, <4>3
    <3>4. CASE i + 1 \notin eaten
      <4>1. L[i + 1] = L[i] + 1 /\ Within(i + 1) = {}
        BY <2>3, <2>9, <2>11, <3>4
      <4>2. \A h \in Within(i) : h + m = i + 1
        BY <1>1, <2>1, <2>5, <2>7, <4>1, SMTT(30)
      <4>3. L[i] = i + Sum(i)
        BY <1>1, <2>1, <2>2, <2>4, <2>5, <4>2
      <4>4. L[i + 1] = (i + 1) + Sum(i + 1)
        BY <2>1, <2>4, <3>2, <4>1, <4>3
      <4> QED
        BY <2>1, <4>1, <4>4
    <3> QED
      BY <3>3, <3>4
  <2> QED
    BY <2>10, <2>11
<1>12. n \in T
  <2> HIDE DEF T
  <2>1. 0..n \subseteq T
    BY <1>1, <1>10, <1>11, Upwards
  <2> QED
    BY <1>1, <2>1
<1>13. Till(n) = H /\ \A h \in Within(n) : h + m - 1 = n
  <2>1. \A h \in H : h \in Int /\ h <= n /\ h + m - 1 <= n
    BY <1>1, <1>4
  <2> QED
    BY <1>1, <2>1, SMTT(30)
<1>14. L[n] = n + Cardinality(H) * d
  <2>1. Good(n) /\ Sum(n) = Cardinality(H) * d
    BY <1>12, <1>13
  <2>2. Within(n) # {} => L[n] = n + Sum(n)
    BY <1>13, <2>1
  <2> QED
    BY <2>1, <2>2
<1> QED
  BY <1>2, <1>6, <1>7, <1>14 DEF n, m, k, H, count_matches

-----------------------------------------------------------------------------
(* Lines and windows.                                                      *)

\* Where lines are cut: before the text, behind it and at its newlines.
CutsOf(s) == {0, Len(s) + 1} \union Ends(s)

\* The newlines before a position.
EndsBefore(s, p) == {i \in Ends(s) : i < p}

\* A line stands between two cuts and holds none.
LEMMA LinesAre ==
  ASSUME NEW S, NEW s \in Seq(S), NEW l \in Lines(s)
  PROVE  /\ l[1] \in 1..(Len(s) + 1) /\ l[2] \in 0..Len(s) /\ l[1] <= l[2] + 1
         /\ l[1] - 1 \in CutsOf(s)
         /\ \A c \in CutsOf(s) : ~(l[1] <= c /\ c <= l[2])
<1> DEFINE cuts == {0, Len(s) + 1} \union Ends(s)
           n == Len(s)
<1>1. n \in Nat /\ cuts \subseteq 0..(n + 1) /\ cuts = CutsOf(s)
  BY DEF Ends, CutsOf
<1>2. PICK c \in cuts \X cuts :
        /\ c[1] < c[2] /\ (c[1] + 1)..(c[2] - 1) \cap cuts = {}
        /\ l = <<c[1] + 1, c[2] - 1>>
  BY DEF Lines
<1> HIDE DEF cuts, n
<1>3. c[1] \in cuts /\ c[1] \in 0..(n + 1) /\ c[2] \in 0..(n + 1)
  BY <1>1, <1>2
<1>4. l[1] = c[1] + 1 /\ l[2] = c[2] - 1
  BY <1>2
<1>5. l[1] - 1 = c[1]
  BY <1>1, <1>3, <1>4
<1>6. ASSUME NEW x \in cuts PROVE ~(l[1] <= x /\ x <= l[2])
  <2>1. x \in 0..(n + 1) /\ x \notin (c[1] + 1)..(c[2] - 1)
    BY <1>1, <1>2
  <2> QED
    BY <1>1, <1>3, <1>4, <2>1
<1> QED
  BY <1>1, <1>2, <1>3, <1>4, <1>5, <1>6 DEF n

\* Two cuts with none between them make a line.
LEMMA LineBetween ==
  ASSUME NEW S, NEW s \in Seq(S), NEW a \in CutsOf(s), NEW b \in CutsOf(s), a < b,
         \A c \in CutsOf(s) : ~(a < c /\ c < b)
  PROVE  <<a + 1, b - 1>> \in Lines(s)
<1> DEFINE cuts == {0, Len(s) + 1} \union Ends(s)
           c == <<a, b>>
<1>1. cuts = CutsOf(s) /\ cuts \subseteq Int /\ a \in Int /\ b \in Int
  BY DEF Ends, CutsOf
<1>2. (a + 1)..(b - 1) \cap cuts = {}
  BY <1>1
<1>3. c \in cuts \X cuts /\ c[1] = a /\ c[2] = b
  BY <1>1
<1>4. c[1] < c[2] /\ (c[1] + 1)..(c[2] - 1) \cap cuts = {}
  BY <1>2, <1>3
<1>5. <<c[1] + 1, c[2] - 1>> \in Lines(s)
  <2> HIDE DEF c
  <2> QED
    BY <1>3, <1>4 DEF Lines
<1> QED
  BY <1>3, <1>5

\* The n-th line exists as long as the text has that many.
LEMMA NthLineIs ==
  ASSUME NEW S, NEW s \in Seq(S), NEW k \in 1..LineCount(s)
  PROVE  /\ NthLine(s, k) \in Lines(s)
         /\ Cardinality(EndsBefore(s, NthLine(s, k)[1])) = k - 1
<1> DEFINE n == Len(s)
           E == Ends(s)
           C == CutsOf(s)
           Upto(c) == {i \in E : i <= c}
           starts == {0} \union E
           T == {j \in Nat : \E c \in starts : Cardinality(Upto(c)) = j}
<1>1. n \in Nat /\ E \subseteq 1..n /\ E \subseteq 0..n /\ C = {0, n + 1} \union E
  BY DEF Ends, CutsOf
<1> HIDE DEF n, E, C
<1>0. \A i \in E : i \in Int /\ 1 <= i /\ i <= n
  BY <1>1
<1>2. Cardinality(E) \in Nat /\ LineCount(s) = Cardinality(E) + 1
  BY <1>1, Positions DEF LineCount, E
<1>3. 0 \in T
  <2>1. Upto(0) = {}
    BY <1>0
  <2>2. Cardinality(Upto(0)) = 0
    BY <1>1, <2>1, Positions
  <2> QED
    BY <2>2
<1>4. ASSUME NEW j \in 0..(Cardinality(E) - 1), j \in T PROVE j + 1 \in T
  <2>1. PICK c \in starts : Cardinality(Upto(c)) = j
    BY <1>4
  <2>2. c \in Nat /\ Upto(c) \subseteq 0..n
    <3>1. c = 0 \/ c \in E
      OBVIOUS
    <3>2. c \in Nat
      BY <1>0, <3>1
    <3> QED
      BY <1>1, <3>2
  <2> DEFINE U == {i \in E : i > c}
  <2>3. U # {} /\ U \subseteq Nat
    <3>1. Upto(c) # E
      <4> HIDE DEF Upto
      <4> QED
        BY <1>2, <2>1
    <3>2. PICK i \in E : ~(i <= c)
      BY <3>1
    <3>3. i \in U
      BY <1>0, <2>2, <3>2
    <3>4. U \subseteq Nat
      BY <1>0
    <3> QED
      BY <3>3, <3>4
  <2>4. PICK e \in U : \A x \in U : e <= x
    <3> HIDE DEF U
    <3> QED
      BY <2>3, LeastExists
  <2>5. e \in E /\ e \in Int /\ c < e
    BY <1>1, <2>4
  <2>6. Upto(e) = Upto(c) \union {e}
    <3>1. ASSUME NEW i \in E PROVE i <= e <=> i <= c \/ i = e
      <4>1. i \in Int /\ (i > c => e <= i)
        BY <1>1, <2>4
      <4> QED
        BY <2>2, <2>5, <4>1
    <3> QED
      BY <2>5, <3>1
  <2>7. Cardinality(Upto(e)) = j + 1
    <3>1. e \notin Upto(c)
      BY <2>2, <2>5
    <3> HIDE DEF Upto
    <3> QED
      BY <1>1, <2>1, <2>2, <2>6, <3>1, OneMore
  <2>8. e \in starts /\ j + 1 \in Nat
    BY <2>5
  <2> HIDE DEF starts, Upto
  <2> QED
    BY <2>7, <2>8
<1>5. k - 1 \in T
  <2> HIDE DEF T
  <2>1. 0..Cardinality(E) \subseteq T
    BY <1>2, <1>3, <1>4, Upwards
  <2> QED
    BY <1>2, <2>1
<1>6. PICK a \in starts : Cardinality(Upto(a)) = k - 1
  BY <1>5
<1>7. a \in C /\ a \in 0..n
  BY <1>1
<1> DEFINE V == {c \in C : a < c}
<1>8. n + 1 \in V /\ V \subseteq Nat
  <2>1. n + 1 \in C /\ a < n + 1
    BY <1>1, <1>7
  <2>2. C \subseteq Nat
    BY <1>0, <1>1
  <2> QED
    BY <2>1, <2>2
<1>9. PICK b \in V : \A c \in V : b <= c
  <2> HIDE DEF V
  <2> QED
    BY <1>8, LeastExists
<1>10. \A c \in C : ~(a < c /\ c < b)
  BY <1>8, <1>9
<1> DEFINE l == <<a + 1, b - 1>>
<1>11. l \in Lines(s)
  BY <1>7, <1>9, <1>10, LineBetween DEF C
<1>12. EndsBefore(s, l[1]) = Upto(a)
  BY <1>1, <1>7 DEF EndsBefore, E
<1>13. Cardinality({i \in Ends(s) : i < l[1]}) = k - 1
  BY <1>6, <1>12 DEF EndsBefore
<1> HIDE DEF l
<1>14. \E x \in Lines(s) : Cardinality({i \in Ends(s) : i < x[1]}) = k - 1
  BY <1>11, <1>13
<1> QED
  BY <1>14 DEF NthLine, EndsBefore

\* A line with fewer newlines before it stands before.
LEMMA LinesInOrder ==
  ASSUME NEW S, NEW s \in Seq(S), NEW l \in Lines(s), NEW k \in Lines(s),
         Cardinality(EndsBefore(s, l[1])) < Cardinality(EndsBefore(s, k[1]))
  PROVE  l[1] < k[1] /\ l[2] < k[2]
<1>1. l[1] \in Int /\ l[2] \in Int /\ k[1] \in Int /\ k[2] \in Int /\ k[1] <= k[2] + 1
  BY LinesAre
<1>2. \A c \in CutsOf(s) : ~(l[1] <= c /\ c <= l[2])
  BY LinesAre
<1>3. k[1] - 1 \in CutsOf(s)
  BY LinesAre
<1>4. l[1] < k[1]
  <2> SUFFICES ASSUME k[1] <= l[1] PROVE FALSE
    BY <1>1
  <2>1. EndsBefore(s, k[1]) \subseteq EndsBefore(s, l[1])
    BY <1>1 DEF EndsBefore, Ends
  <2>2. EndsBefore(s, l[1]) \subseteq 0..Len(s) /\ Len(s) \in Nat
    BY DEF EndsBefore, Ends
  <2>3. Cardinality(EndsBefore(s, k[1])) <= Cardinality(EndsBefore(s, l[1]))
    BY <2>1, <2>2, Fewer
  <2>4. /\ Cardinality(EndsBefore(s, k[1])) \in Nat
        /\ Cardinality(EndsBefore(s, l[1])) \in Nat
    BY <2>1, <2>2, Positions
  <2> QED
    BY <2>3, <2>4
<1> QED
  BY <1>1, <1>2, <1>3, <1>4

\* A window is a piece of the text, and holds the line it was opened around.
LEMMA WindowHolds ==
  ASSUME NEW S, NEW s \in Seq(S), NEW line \in 1..LineCount(s), NEW radius \in Nat
  PROVE  LET w == Window(s, line, radius)
             l == NthLine(s, line)
         IN  /\ w[1] \in 1..(Len(s) + 1) /\ w[2] \in 0..Len(s) /\ w[1] <= w[2] + 1
             /\ w[1] <= l[1] /\ l[2] <= w[2]
<1> DEFINE lo == IF line - radius > 1 THEN line - radius ELSE 1
           hi == IF line + radius < LineCount(s) THEN line + radius ELSE LineCount(s)
           a == NthLine(s, lo)
           b == NthLine(s, hi)
           l == NthLine(s, line)
<1>1. LineCount(s) \in Nat
  <2>1. Ends(s) \subseteq 0..Len(s) /\ Len(s) \in Nat
    BY DEF Ends
  <2> QED
    BY <2>1, Positions DEF LineCount
<1>2. lo \in 1..LineCount(s) /\ hi \in 1..LineCount(s) /\ lo <= line /\ line <= hi
  BY <1>1
<1>3. Window(s, line, radius) = <<a[1], b[2]>>
  BY DEF Window
<1> HIDE DEF lo, hi
<1>4. /\ a \in Lines(s) /\ Cardinality(EndsBefore(s, a[1])) = lo - 1
      /\ b \in Lines(s) /\ Cardinality(EndsBefore(s, b[1])) = hi - 1
      /\ l \in Lines(s) /\ Cardinality(EndsBefore(s, l[1])) = line - 1
  BY <1>2, NthLineIs
<1>5. lo = line \/ a[1] < l[1]
  <2> HIDE DEF a, l
  <2> QED
    BY <1>1, <1>2, <1>4, LinesInOrder
<1>6. line = hi \/ l[2] < b[2]
  <2> HIDE DEF b, l
  <2> QED
    BY <1>1, <1>2, <1>4, LinesInOrder
<1>7. (lo = line => a = l) /\ (line = hi => b = l)
  OBVIOUS
<1> HIDE DEF a, b, l
<1>8. /\ a[1] \in 1..(Len(s) + 1) /\ b[2] \in 0..Len(s)
      /\ l[1] \in 1..(Len(s) + 1) /\ l[2] \in 0..Len(s) /\ l[1] <= l[2] + 1
  BY <1>4, LinesAre
<1>9. a[1] <= l[1] /\ l[2] <= b[2]
  BY <1>5, <1>6, <1>7, <1>8, SMTT(30)
<1>10. a[1] <= b[2] + 1
  BY <1>8, <1>9, SMTT(30)
<1> QED
  BY <1>3, <1>8, <1>9, <1>10 DEF l

\* The window the agent settles on holds the picked line, and its bytes are
\* text of the file that the edit tool counts once.
LEMMA UniqueWindowIs ==
  ASSUME NEW S, NEW s \in Seq(S), s # << >>, NEW line \in 1..LineCount(s),
         UniqueRadii(s, line) # {}
  PROVE  LET w == unique_window(s, line)
             t == window_text(s, w)
             l == NthLine(s, line)
         IN  /\ t \in Seq(S) /\ t # << >> /\ count_matches(s, t) = 1
             /\ w[1] \in Places(s, t)
             /\ w[1] <= l[1] /\ l[2] < w[1] + Len(t)
<1> DEFINE radius == CHOOSE x \in UniqueRadii(s, line) : \A y \in UniqueRadii(s, line) : x <= y
           w == Window(s, line, radius)
           t == window_text(s, w)
           l == NthLine(s, line)
<1>1. unique_window(s, line) = w
  BY DEF unique_window
<1>2. radius \in Nat /\ occurs(s, t) = 1
  <2>1. UniqueRadii(s, line) \subseteq Nat
    BY DEF UniqueRadii
  <2>2. radius \in UniqueRadii(s, line)
    BY <2>1, LeastExists
  <2> HIDE DEF radius
  <2> QED
    BY <2>2 DEF UniqueRadii
<1> HIDE DEF radius
<1>3. /\ w[1] \in 1..(Len(s) + 1) /\ w[2] \in 0..Len(s) /\ w[1] <= w[2] + 1
      /\ w[1] <= l[1] /\ l[2] <= w[2]
  BY <1>2, WindowHolds
<1>4. l[2] \in Int
  BY NthLineIs, LinesAre
<1> HIDE DEF w, l
<1>5. Len(s) \in Nat \ {0}
  BY EmptySeq
<1>6. t \in Seq(S) /\ Len(t) = w[2] - w[1] + 1
  <2>1. \A i \in w[1]..w[2] : s[i] \in S
    BY <1>3, <1>5
  <2> QED
    BY <1>3, <1>5, <2>1, SubSeqProperties DEF window_text
<1>7. t # << >> /\ count_matches(s, t) = 1
  <2>1. t = << >> => occurs(s, t) = Len(s) + 1
    BY DEF occurs
  <2>2. t # << >>
    BY <1>2, <1>5, <2>1
  <2> QED
    BY <1>2, <2>2 DEF occurs, count_matches
<1>8. w[1] + Len(t) - 1 = w[2] /\ Len(t) # 0
  BY <1>3, <1>6, <1>7, EmptySeq
<1>9. w[1] \in Places(s, t)
  <2>1. SubSeq(s, w[1], w[1] + Len(t) - 1) = t
    BY <1>8 DEF window_text
  <2>2. w[1] \in 1..Len(s) /\ w[1] + Len(t) - 1 <= Len(s)
    BY <1>3, <1>5, <1>6, <1>8, SMTT(30)
  <2> HIDE DEF t
  <2> QED
    BY <2>1, <2>2 DEF Places, At
<1>10. l[2] < w[1] + Len(t)
  BY <1>3, <1>4, <1>6, <1>8, SMTT(30)
<1> QED
  BY <1>1, <1>3, <1>6, <1>7, <1>9, <1>10 DEF l

\* Dropping characters leaves a text.
LEMMA TrimmedType ==
  ASSUME NEW S, NEW s \in Seq(S), NEW width
  PROVE  Trimmed(s, width) \in Seq(S)
<1> DEFINE gone == UNION {l[1]..(l[1] + width[l] - 1) : l \in Lines(s)}
           ss == [i \in 1..Len(s) |-> IF i \in gone THEN << >> ELSE <<s[i]>>]
<1>1. Trimmed(s, width) = FlattenSeq(ss)
  BY DEF Trimmed
<1> HIDE DEF gone
<1>2. \A i \in 1..Len(s) : <<s[i]>> \in Seq(S)
  OBVIOUS
<1>3. << >> \in Seq(S) /\ Len(s) \in Nat
  OBVIOUS
<1>4. Parts(ss, Len(s), S)
  BY <1>2, <1>3 DEF Parts
<1> HIDE DEF ss
<1> QED
  BY <1>1, <1>4, FlattenType

-----------------------------------------------------------------------------
(* Lines given by where they are cut, and what trimming leaves of them.    *)

\* c gives the cuts of s into n lines.
CutInto(c, s, n) ==
  /\ n \in Nat \ {0} /\ c \in [0..n -> Nat]
  /\ c[0] = 0 /\ c[n] = Len(s) + 1
  /\ \A k \in 1..n : c[k - 1] < c[k]
  /\ \A k \in 1..(n - 1) : s[c[k]] = Newline
  /\ \A k \in 1..n : \A i \in (c[k - 1] + 1)..(c[k] - 1) : s[i] # Newline

LineFrom(c, k) == <<c[k - 1] + 1, c[k] - 1>>

\* A later cut stands behind an earlier one.
LEMMA CutsGrow ==
  ASSUME NEW n \in Nat, NEW c \in [0..n -> Nat], \A k \in 1..n : c[k - 1] < c[k],
         NEW j \in 0..n, NEW k \in j..n
  PROVE  c[j] <= c[k] /\ (j < k => c[j] < c[k])
<1> DEFINE T == {i \in 0..(n - j) : c[j] <= c[j + i] /\ (i # 0 => c[j] < c[j + i])}
<1>1. 0 \in T
  BY DEF T
<1>2. ASSUME NEW i \in 0..(n - j - 1), i \in T PROVE i + 1 \in T
  <2>1. /\ j + (i + 1) \in 1..n /\ j + (i + 1) - 1 = j + i /\ i + 1 \in 0..(n - j)
        /\ j + i \in 0..n
    OBVIOUS
  <2>2. c[j + i] < c[j + (i + 1)]
    BY <2>1
  <2>3. c[j + i] \in Nat /\ c[j + (i + 1)] \in Nat /\ c[j] \in Nat
    BY <2>1
  <2> QED
    BY <1>2, <2>1, <2>2, <2>3
<1> DEFINE d == n - j
<1>3. d \in Nat /\ \A i \in 0..(d - 1) : i \in T => i + 1 \in T
  BY <1>2
<1> HIDE DEF T
<1>4. 0..d \subseteq T
  <2> HIDE DEF d
  <2> QED
    BY <1>1, <1>3, Upwards
<1>5. k - j \in 0..d /\ j + (k - j) = k /\ (j < k => k - j # 0)
  OBVIOUS
<1> QED
  BY <1>4, <1>5 DEF T

\* The cuts of a text are those it is given by.
LEMMA CutsAre ==
  ASSUME NEW S, NEW s \in Seq(S), NEW n, NEW c, CutInto(c, s, n)
  PROVE  CutsOf(s) = {c[k] : k \in 0..n}
<1>1. /\ n \in Nat \ {0} /\ c \in [0..n -> Nat] /\ c[0] = 0 /\ c[n] = Len(s) + 1
      /\ \A k \in 1..n : c[k - 1] < c[k]
      /\ \A k \in 1..(n - 1) : s[c[k]] = Newline
      /\ \A k \in 1..n : \A i \in (c[k - 1] + 1)..(c[k] - 1) : s[i] # Newline
  BY DEF CutInto
<1>2. Len(s) \in Nat
  OBVIOUS
<1>3. ASSUME NEW k \in 0..n PROVE c[k] \in CutsOf(s)
  <2>1. CASE k = 0 \/ k = n
    BY <1>1, <2>1 DEF CutsOf
  <2>2. CASE k \in 1..(n - 1)
    <3> DEFINE z == 0
    <3>4. z \in 0..n /\ k \in z..n /\ z < k /\ k \in 0..n /\ n \in k..n /\ k < n
      BY <1>1, <2>2
    <3> HIDE DEF z
    <3>5. c[z] < c[k]
      BY <1>1, <3>4, CutsGrow
    <3>6. c[k] < c[n]
      BY <1>1, <3>4, CutsGrow
    <3>1. c[0] < c[k] /\ c[k] < c[n]
      BY <3>5, <3>6 DEF z
    <3>2. c[k] \in Nat
      BY <1>1
    <3>3. c[k] \in 1..Len(s)
      BY <1>1, <1>2, <3>1, <3>2
    <3> QED
      BY <1>1, <2>2, <3>3 DEF CutsOf, Ends
  <2> QED
    BY <1>1, <2>1, <2>2
<1>4. ASSUME NEW x \in CutsOf(s) PROVE \E k \in 0..n : x = c[k]
  <2>1. CASE x = 0 \/ x = Len(s) + 1
    BY <1>1, <2>1
  <2>2. CASE x \in Ends(s)
    <3> DEFINE T == {k \in 0..n : c[k] <= x}
    <3>1. x \in 1..Len(s) /\ s[x] = Newline
      BY <2>2 DEF Ends
    <3>2. 0 \in T
      BY <1>1, <3>1
    <3>3. T \subseteq 0..n
      OBVIOUS
    <3>4. PICK k \in T : \A y \in T : y <= k
      <4> HIDE DEF T
      <4> QED
        BY <1>1, <3>2, <3>3, GreatestExists
    <3>5. k \in 0..n /\ c[k] <= x /\ k # n /\ c[k] \in Nat
      <4>1. k \in 0..n /\ c[k] <= x
        BY <3>4
      <4>2. ~(c[n] <= x)
        BY <1>1, <1>2, <3>1
      <4> QED
        BY <1>1, <4>1, <4>2
    <3>6. k + 1 \in 1..n /\ k + 1 - 1 = k /\ k + 1 \in 0..n
      BY <1>1, <3>5
    <3>7. ~(c[k + 1] <= x) /\ c[k + 1] \in Nat
      <4>1. k + 1 \notin T
        BY <3>4, <3>5
      <4> QED
        BY <1>1, <3>6, <4>1
    <3>8. x \notin (c[k] + 1)..(c[k + 1] - 1)
      <4> DEFINE p == k + 1
      <4>1. \A i \in (c[p - 1] + 1)..(c[p] - 1) : s[i] # Newline
        <5> HIDE DEF p
        <5> QED
          BY <1>1, <3>6 DEF p
      <4>2. p - 1 = k
        BY <3>6
      <4> QED
        BY <3>1, <4>1, <4>2
    <3> QED
      BY <3>1, <3>5, <3>7, <3>8
  <2> QED
    BY <2>1, <2>2 DEF CutsOf
<1> QED
  BY <1>3, <1>4

\* The lines of a text are what stands between two cuts next to each other.
LEMMA LinesFrom ==
  ASSUME NEW S, NEW s \in Seq(S), NEW n, NEW c, CutInto(c, s, n)
  PROVE  Lines(s) = {LineFrom(c, k) : k \in 1..n}
<1>1. /\ n \in Nat \ {0} /\ c \in [0..n -> Nat] /\ \A k \in 1..n : c[k - 1] < c[k]
  BY DEF CutInto
<1>2. CutsOf(s) = {c[k] : k \in 0..n}
  BY CutsAre
<1>3. ASSUME NEW k \in 1..n, NEW j \in 0..n PROVE ~(c[k - 1] < c[j] /\ c[j] < c[k])
  <2>1. k - 1 \in 0..n /\ k \in 0..n /\ (j \in 0..(k - 1) \/ j \in k..n)
    BY <1>1
  <2>2. c[k - 1] \in Nat /\ c[j] \in Nat /\ c[k] \in Nat
    BY <1>1, <2>1
  <2>3. CASE j \in 0..(k - 1)
    <3>1. k - 1 \in j..n
      BY <1>1, <2>3
    <3>2. c[j] <= c[k - 1]
      BY <1>1, <2>1, <3>1, CutsGrow
    <3> QED
      BY <2>2, <3>2
  <2>4. CASE j \in k..n
    <3>1. c[k] <= c[j]
      BY <1>1, <2>1, <2>4, CutsGrow
    <3> QED
      BY <2>2, <3>1
  <2> QED
    BY <2>1, <2>3, <2>4
<1>4. ASSUME NEW k \in 1..n PROVE LineFrom(c, k) \in Lines(s)
  <2> DEFINE a == c[k - 1]   b == c[k]
  <2>1. k - 1 \in 0..n /\ k \in 0..n
    BY <1>1
  <2>2. a \in CutsOf(s) /\ b \in CutsOf(s) /\ a < b
    BY <1>1, <1>2, <2>1
  <2>3. \A x \in CutsOf(s) : ~(a < x /\ x < b)
    BY <1>2, <1>3
  <2> HIDE DEF a, b
  <2>4. <<a + 1, b - 1>> \in Lines(s)
    BY <2>2, <2>3, LineBetween
  <2> QED
    BY <2>4 DEF a, b, LineFrom
<1>5. ASSUME NEW l \in Lines(s) PROVE \E k \in 1..n : l = LineFrom(c, k)
  <2> DEFINE cuts == {0, Len(s) + 1} \union Ends(s)
  <2>1. PICK p \in cuts \X cuts :
          /\ p[1] < p[2] /\ (p[1] + 1)..(p[2] - 1) \cap cuts = {}
          /\ l = <<p[1] + 1, p[2] - 1>>
    BY DEF Lines
  <2>2. cuts = {c[k] : k \in 0..n}
    BY <1>2 DEF CutsOf
  <2> HIDE DEF cuts
  <2>3. PICK j \in 0..n, k \in 0..n : p[1] = c[j] /\ p[2] = c[k]
    BY <2>1, <2>2
  <2>4. c[j] \in Nat /\ c[k] \in Nat /\ c[j] < c[k]
    BY <1>1, <2>1, <2>3
  <2>5. j < k
    <3> SUFFICES ASSUME j \in k..n PROVE FALSE
      OBVIOUS
    <3>1. c[k] <= c[j]
      BY <1>1, CutsGrow
    <3> QED
      BY <2>4, <3>1
  <2>6. j + 1 \in 0..n /\ c[j + 1] \in cuts /\ c[j + 1] \in Nat
    BY <1>1, <2>2, <2>5
  <2>7. c[j] < c[j + 1]
    BY <1>1, <2>5
  <2>8. ~(c[j + 1] < c[k])
    <3> SUFFICES ASSUME c[j + 1] < c[k] PROVE FALSE
      OBVIOUS
    <3>1. c[j + 1] \in (p[1] + 1)..(p[2] - 1)
      BY <2>3, <2>4, <2>6, <2>7
    <3> QED
      BY <2>1, <2>6, <3>1
  <2>9. k = j + 1
    <3> SUFFICES ASSUME j + 1 < k PROVE FALSE
      BY <2>5
    <3> DEFINE i == j + 1
    <3>2. i \in 0..n /\ k \in i..n /\ i < k
      BY <1>1, <2>6
    <3> HIDE DEF i
    <3>3. c[i] < c[k]
      BY <1>1, <3>2, CutsGrow
    <3>1. c[j + 1] < c[k]
      BY <3>3 DEF i
    <3> QED
      BY <2>8, <3>1
  <2>10. k \in 1..n /\ k - 1 = j
    BY <2>9
  <2> QED
    BY <2>1, <2>3, <2>10 DEF LineFrom
<1> QED
  BY <1>4, <1>5

\* The characters of C at the start of a line up to one that is not of C.
LEMMA RunIs ==
  ASSUME NEW s, NEW l, NEW C, NEW i \in Nat, NEW d \in Nat, l[2] \in Nat,
         i + d <= l[2], \A j \in i..(i + d - 1) : s[j] \in C, s[i + d] \notin C
  PROVE  Run(s, l, C, i) = d
<1> DEFINE ks == {k \in 0..(l[2] - i + 1) : \A j \in i..(i + k - 1) : s[j] \in C}
<1>1. Run(s, l, C, i) = CHOOSE x \in ks : \A y \in ks : y <= x
  BY DEF Run
<1>2. d \in ks
  OBVIOUS
<1>3. ASSUME NEW k \in ks PROVE k \in Nat /\ k <= d
  <2>1. d < k => i + d \in i..(i + k - 1)
    OBVIOUS
  <2> QED
    BY <2>1
<1> HIDE DEF ks
<1>4. \A x \in ks : (\A y \in ks : y <= x) => x = d
  BY <1>2, <1>3
<1>5. \A y \in ks : y <= d
  BY <1>3
<1> QED
  BY <1>1, <1>2, <1>4, <1>5

\* The cells trimming joins: nothing, or the character that stands.
Standing(s, gone) == [i \in 1..Len(s) |-> IF i \in gone THEN <<>> ELSE <<s[i]>>]

\* The cells are parts of a joined text.
LEMMA StandingAreParts ==
  ASSUME NEW S, NEW s \in Seq(S), NEW gone
  PROVE  Parts(Standing(s, gone), Len(s), S)
<1>1. \A i \in 1..Len(s) : <<s[i]>> \in Seq(S)
  OBVIOUS
<1>2. << >> \in Seq(S) /\ Len(s) \in Nat
  OBVIOUS
<1> QED
  BY <1>1, <1>2 DEF Parts, Standing

\* A stretch that is gone adds nothing.
LEMMA GoneAddsNothing ==
  ASSUME NEW S, NEW s \in Seq(S), NEW gone, NEW f,
         Joinings(f, Standing(s, gone), Len(s), S),
         NEW a \in 0..Len(s), NEW b \in a..Len(s), (a + 1)..b \subseteq gone
  PROVE  f[b] = f[a]
<1> DEFINE C == {<< >>}
<1>1. Parts(Standing(s, gone), Len(s), S)
  BY StandingAreParts
<1>2. IsClosed(C, S)
  <2>1. << >> \in Seq(S) /\ << >> \o << >> = << >>
    OBVIOUS
  <2> QED
    BY <2>1 DEF IsClosed
<1>3. Len(s) \in Nat
  OBVIOUS
<1>4. AreIn(Standing(s, gone), a, b, C)
  <2>1. ASSUME NEW i \in (a + 1)..b PROVE Standing(s, gone)[i] = << >>
    <3>1. i \in gone /\ i \in 1..Len(s)
      BY <1>3
    <3> QED
      BY <3>1 DEF Standing
  <2> QED
    BY <2>1 DEF AreIn
<1> HIDE DEF C
<1>5. Adds(f, a, b, C)
  BY <1>1, <1>2, <1>4, JoinsRest
<1>6. f[a] \in Seq(S)
  BY <1>3 DEF Joinings
<1>7. f[a] \o << >> = f[a]
  BY <1>6, ConcatEmptySeq
<1> QED
  BY <1>5, <1>7 DEF Adds, C

\* What f joins from a up to b is what stands there in s.
AddsText(f, s, a, b) == f[b] = f[a] \o SubSeq(s, a + 1, b)

\* A stretch that is kept adds its characters.
LEMMA StandingAdds ==
  ASSUME NEW S, NEW s \in Seq(S), NEW gone, NEW f,
         Joinings(f, Standing(s, gone), Len(s), S),
         NEW a \in 0..Len(s), NEW b \in a..Len(s), (a + 1)..b \cap gone = {}
  PROVE  AddsText(f, s, a, b)
<1>0. f \in [0..Len(s) -> Seq(S)] /\ \A i \in 1..Len(s) : f[i] = f[i - 1] \o Standing(s, gone)[i]
  BY Zenon DEF Joinings
<1>1. Len(s) \in Nat /\ f \in [0..Len(s) -> Seq(S)]
  BY <1>0
<1> DEFINE T == {j \in 0..(b - a) : f[a + j] = f[a] \o SubSeq(s, a + 1, a + j)}
<1>2. 0 \in T
  <2>1. SubSeq(s, a + 1, a) = << >>
    BY <1>1, SubSeqEmpty
  <2>2. f[a] \in Seq(S)
    BY <1>1
  <2>3. f[a] \o << >> = f[a]
    BY <2>2, ConcatEmptySeq
  <2>4. a + 0 = a /\ 0 \in 0..(b - a)
    BY <1>1
  <2> QED
    BY <2>1, <2>3, <2>4
<1>3. ASSUME NEW j \in 0..(b - a - 1), j \in T PROVE j + 1 \in T
  <2> DEFINE i == a + j
  <2>1. /\ i + 1 \in 1..Len(s) /\ i + 1 - 1 = i /\ i + 1 \in (a + 1)..b /\ j + 1 \in 0..(b - a)
        /\ i \in 0..(Len(s) - 1) /\ a + 1 \in 1..(Len(s) + 1) /\ a + 1 <= i + 1
        /\ a + (j + 1) = i + 1
    BY <1>1
  <2>2. f[i] = f[a] \o SubSeq(s, a + 1, i)
    BY <1>3
  <2> HIDE DEF i
  <2>3. Standing(s, gone)[i + 1] = <<s[i + 1]>>
    BY <2>1 DEF Standing
  <2>4. f[i + 1] = f[i] \o <<s[i + 1]>>
    <3> DEFINE p == i + 1
    <3>1. p \in 1..Len(s) /\ p - 1 = i /\ Standing(s, gone)[p] = <<s[p]>>
      BY <2>1, <2>3
    <3> HIDE DEF p
    <3>2. f[p] = f[p - 1] \o Standing(s, gone)[p]
      BY <1>0, <3>1, Zenon
    <3>3. f[p] = f[i] \o <<s[p]>>
      BY <3>1, <3>2, Zenon
    <3> QED
      BY <3>3 DEF p
  <2>5. SubSeq(s, a + 1, i) \o <<s[i + 1]>> = SubSeq(s, a + 1, i + 1)
    BY <2>1, SubSeqGrows
  <2>6. f[a] \in Seq(S) /\ <<s[i + 1]>> \in Seq(S) /\ SubSeq(s, a + 1, i) \in Seq(S)
    <3>1. \A x \in (a + 1)..i : s[x] \in S
      BY <1>1, <2>1
    <3>2. SubSeq(s, a + 1, i) \in Seq(S)
      BY <2>1, <3>1, SubSeqProperties
    <3> QED
      BY <1>1, <2>1, <3>2
  <2> DEFINE x == SubSeq(s, a + 1, i)   y == <<s[i + 1]>>   u == f[a]
  <2>7. (u \o x) \o y = u \o (x \o y)
    <3> HIDE DEF x, y, u
    <3>1. x \in Seq(S) /\ y \in Seq(S) /\ u \in Seq(S)
      BY <2>6 DEF x, y, u
    <3> QED
      BY <3>1, ConcatAssociative, SMTT(30)
  <2>8. f[i + 1] = f[a] \o SubSeq(s, a + 1, i + 1)
    BY <2>2, <2>4, <2>5, <2>7
  <2> QED
    BY <2>1, <2>8
<1> DEFINE d == b - a
<1> HIDE DEF T
<1>4. d \in Nat /\ \A j \in 0..(d - 1) : j \in T => j + 1 \in T
  BY <1>1, <1>3
<1>5. 0..d \subseteq T
  <2> HIDE DEF d
  <2> QED
    BY <1>2, <1>4, Upwards
<1>6. d \in 0..d /\ a + d = b
  BY <1>1
<1> QED
  BY <1>5, <1>6 DEF T, AddsText
=============================================================================
