-------------------------- MODULE RecursionLemmas --------------------------
(***************************************************************************)
(* Induction over sets of numbers, and what the recursive functions of the *)
(* library compute.  A property to be proved by induction is given as the  *)
(* set of numbers that have it, so every lemma here is first-order: the    *)
(* least number outside the set would contradict its own hypothesis.       *)
(***************************************************************************)
EXTENDS Integers, Sequences, FiniteSets, SequenceTheorems, FiniteSetTheorems,
        WellFoundedInduction, TLAPS

\* Every set of natural numbers that has an element has a least one.
LEMMA LeastExists ==
  ASSUME NEW T, T \subseteq Nat, T # {}
  PROVE  \E x \in T : \A y \in T : x <= y
<1> DEFINE R == OpToRel(<, Nat)
<1>1. IsWellFoundedOn(R, Nat)
  BY NatLessThanWellFounded
<1>2. \A x, y \in Nat : x < y => <<x, y>> \in R
  BY DEF OpToRel
<1> HIDE DEF R
<1>3. PICK x \in T : \A y \in T : ~(<<y, x>> \in R)
  BY <1>1, WFMin
<1>4. \A y \in T : ~(y < x)
  BY <1>2, <1>3
<1> QED
  BY <1>4

\* A set of numbers up to n that has an element has a greatest one.
LEMMA GreatestExists ==
  ASSUME NEW n \in Nat, NEW T, T \subseteq 0..n, T # {}
  PROVE  \E x \in T : \A y \in T : y <= x
<1> DEFINE U == {n - y : y \in T}
<1>1. U \subseteq Nat /\ U # {}
  <2>1. \A y \in T : n - y \in Nat
    OBVIOUS
  <2> QED
    BY <2>1
<1>2. PICK u \in U : \A v \in U : u <= v
  <2> HIDE DEF U
  <2> QED
    BY <1>1, LeastExists
<1>3. PICK x \in T : u = n - x
  BY <1>2
<1>4. ASSUME NEW y \in T PROVE y <= x
  <2>1. n - x <= n - y
    BY <1>2, <1>3
  <2> QED
    BY <2>1
<1> QED
  BY <1>4

\* A set with 0 that holds the next number of each of its own has them all.
LEMMA Upwards ==
  ASSUME NEW n \in Nat, NEW T, 0 \in T,
         \A i \in 0..(n - 1) : i \in T => i + 1 \in T
  PROVE  0..n \subseteq T
<1> SUFFICES ASSUME 0..n \ T # {} PROVE FALSE
  OBVIOUS
<1> DEFINE U == 0..n \ T
<1>0. U \subseteq Nat /\ U # {}
  OBVIOUS
<1>1. PICK x \in U : \A y \in U : x <= y
  <2> HIDE DEF U
  <2> QED
    BY <1>0, LeastExists
<1>2. x # 0 /\ x - 1 \in 0..(n - 1) /\ ~(x <= x - 1) /\ x - 1 + 1 = x
  OBVIOUS
<1>3. x - 1 \in T
  BY <1>1, <1>2
<1> QED
  BY <1>1, <1>2, <1>3

\* The same downwards: i is in T when every later number up to n is.
LEMMA Downwards ==
  ASSUME NEW n \in Nat, NEW T,
         \A i \in 1..n : (i + 1)..n \subseteq T => i \in T
  PROVE  1..n \subseteq T
<1> SUFFICES ASSUME NEW z \in 1..n \ T PROVE FALSE
  OBVIOUS
<1> DEFINE U == {k \in 0..(n - 1) : n - k \notin T}
<1>1. n - z \in U
  OBVIOUS
<1>0. U \subseteq Nat
  OBVIOUS
<1>2. PICK k \in U : \A j \in U : k <= j
  <2> HIDE DEF U
  <2> QED
    BY <1>0, <1>1, LeastExists
<1>3. \A i \in (n - k + 1)..n : i \in T
  <2> TAKE i \in (n - k + 1)..n
  <2>1. n - i \in 0..(n - 1) /\ n - (n - i) = i /\ ~(k <= n - i)
    OBVIOUS
  <2> QED
    BY <1>2, <2>1
<1>4. n - k \in 1..n
  OBVIOUS
<1> QED
  BY <1>2, <1>3, <1>4

-----------------------------------------------------------------------------
(* Finite sets of numbers.                                                 *)

\* A set of positions is finite, and its size tells whether it has none.
LEMMA Positions ==
  ASSUME NEW n \in Nat, NEW T, T \subseteq 0..n
  PROVE  /\ IsFiniteSet(T) /\ Cardinality(T) \in Nat
         /\ Cardinality(T) = 0 <=> T = {}
         /\ Cardinality(T) = 1 <=> \E x : T = {x}
<1>1. IsFiniteSet(0..n)
  BY FS_Interval
<1>2. IsFiniteSet(T)
  BY <1>1, FS_Subset
<1> QED
  BY <1>2, FS_CardinalityType, FS_EmptySet, FS_Singleton

\* One position more or less.
LEMMA OneMore ==
  ASSUME NEW n \in Nat, NEW T, T \subseteq 0..n, NEW x, x \notin T
  PROVE  Cardinality(T \union {x}) = Cardinality(T) + 1
  BY Positions, FS_AddElement

\* Fewer positions.
LEMMA Fewer ==
  ASSUME NEW n \in Nat, NEW T, T \subseteq 0..n, NEW U, U \subseteq T
  PROVE  /\ Cardinality(U) <= Cardinality(T)
         /\ Cardinality(U) = Cardinality(T) => U = T
  BY Positions, FS_Subset

\* What has no element, one, and two of them.
LEMMA FewElements ==
  ASSUME NEW x, NEW y
  PROVE  /\ IsFiniteSet({}) /\ Cardinality({}) = 0
         /\ IsFiniteSet({x}) /\ Cardinality({x}) = 1
         /\ x # y => Cardinality({x, y}) = 2
<1>1. IsFiniteSet({}) /\ Cardinality({}) = 0
  BY FS_EmptySet
<1>2. IsFiniteSet({x}) /\ Cardinality({x}) = 1
  BY FS_Singleton
<1>3. ASSUME x # y PROVE Cardinality({x, y}) = 2
  <2>1. {x, y} = {x} \union {y} /\ y \notin {x}
    BY <1>3
  <2>2. Cardinality({x} \union {y}) = Cardinality({x}) + 1
    BY <1>2, <2>1, FS_AddElement
  <2> QED
    BY <1>2, <2>1, <2>2
<1> QED
  BY <1>1, <1>2, <1>3

\* A finite set without elements is the one of size 0.
LEMMA NoElement ==
  ASSUME NEW T, IsFiniteSet(T)
  PROVE  Cardinality(T) \in Nat /\ (Cardinality(T) = 0 <=> T = {})
  BY FS_CardinalityType, FS_EmptySet

-----------------------------------------------------------------------------
(* Joining the parts of a sequence, as FlattenSeq does.                    *)

\* The recursion behind FlattenSeq has a solution.
LEMMA FlattenExists ==
  ASSUME NEW ss, NEW n \in Nat
  PROVE  \E f : f = [i \in 1..n |-> IF i = 1 THEN ss[i] ELSE f[i - 1] \o ss[i]]
<1> DEFINE Step(v, i) == v \o ss[i]
           Solves(f, k) == /\ f = [i \in 1..k |-> f[i]]
                           /\ 1 <= k => f[1] = ss[1]
                           /\ \A i \in 2..k : f[i] = Step(f[i - 1], i)
           T == {k \in Nat : \E f : Solves(f, k)}
<1> HIDE DEF Step
<1>1. 0 \in T
  <2>1. Solves([i \in 1..0 |-> 0], 0)
    OBVIOUS
  <2> QED
    BY <2>1
<1>2. ASSUME NEW k \in Nat, k \in T PROVE k + 1 \in T
  <2>1. PICK f : Solves(f, k)
    BY <1>2
  <2> DEFINE g == [i \in 1..(k + 1) |-> IF i = 1 THEN ss[1]
                                        ELSE IF i <= k THEN f[i] ELSE Step(f[k], k + 1)]
  <2>2. \A i \in 1..k : g[i] = f[i]
    BY <2>1
  <2>3. k # 0 => g[k + 1] = Step(f[k], k + 1)
    OBVIOUS
  <2>4. g[1] = ss[1] /\ g = [i \in 1..(k + 1) |-> g[i]]
    OBVIOUS
  <2> HIDE DEF g
  <2>5. ASSUME NEW i \in 2..(k + 1) PROVE g[i] = Step(g[i - 1], i)
    <3>1. CASE i = k + 1
      <4>1. k \in 1..k /\ k # 0 /\ i - 1 = k
        BY <3>1
      <4> QED
        BY <2>2, <2>3, <3>1, <4>1
    <3>2. CASE i \in 2..k
      <4>1. i \in 1..k /\ i - 1 \in 1..k
        BY <3>2
      <4>2. f[i] = Step(f[i - 1], i)
        BY <2>1, <3>2
      <4> QED
        BY <2>2, <4>1, <4>2
    <3> QED
      BY <3>1, <3>2
  <2>6. Solves(g, k + 1)
    BY <2>4, <2>5
  <2> HIDE DEF Solves
  <2>7. k + 1 \in Nat
    OBVIOUS
  <2> QED
    BY <2>6, <2>7
<1> HIDE DEF T
<1>3. 0..n \subseteq T
  BY <1>1, <1>2, Upwards
<1>4. PICK f : Solves(f, n)
  BY <1>3 DEF T
<1>5. ASSUME NEW i \in 1..n PROVE f[i] = IF i = 1 THEN ss[i] ELSE Step(f[i - 1], i)
  <2>1. i = 1 \/ i \in 2..n
    OBVIOUS
  <2>2. i = 1 => 1 <= n
    OBVIOUS
  <2> QED
    BY <1>4, <2>1, <2>2
<1>6. f = [i \in 1..n |-> IF i = 1 THEN ss[i] ELSE Step(f[i - 1], i)]
  BY <1>4, <1>5
<1> QED
  BY <1>6 DEF Step

\* ss is n sequences over S; g is a solution of FlattenSeq's recursion.
Parts(ss, n, S) == n \in Nat /\ ss \in [1..n -> Seq(S)]
Joins(g, ss, n) == \A i \in 1..n : g[i] = IF i = 1 THEN ss[i] ELSE g[i - 1] \o ss[i]

\* f gives the first parts of ss joined, however many they are.
Joinings(f, ss, n, S) ==
  /\ f \in [0..n -> Seq(S)]
  /\ f[0] = << >>
  /\ \A i \in 1..n : f[i] = f[i - 1] \o ss[i]

\* A solution joins the parts one after the other.
LEMMA JoinSteps ==
  ASSUME NEW S, NEW n, NEW ss, NEW g, Parts(ss, n, S), Joins(g, ss, n)
  PROVE  \E f : Joinings(f, ss, n, S) /\ (n # 0 => g[n] = f[n])
<1>1. n \in Nat /\ \A i \in 1..n : ss[i] \in Seq(S)
  BY DEF Parts
<1>5. \A i \in 1..n : g[i] = IF i = 1 THEN ss[i] ELSE g[i - 1] \o ss[i]
  BY DEF Joins
<1> DEFINE f == [i \in 0..n |-> IF i = 0 THEN << >> ELSE g[i]]
<1>6. f[0] = << >> /\ \A i \in 1..n : f[i] = g[i]
  <2> DEFINE h(i) == g[i]
  <2> HIDE DEF h
  <2>1. f = [i \in 0..n |-> IF i = 0 THEN << >> ELSE h(i)]
    BY DEF h
  <2> HIDE DEF f
  <2>2. f[0] = << >> /\ \A i \in 1..n : f[i] = h(i)
    BY <1>1, <2>1
  <2> QED
    BY <2>2 DEF h
<1>7. f = [i \in 0..n |-> f[i]] /\ (n # 0 => n \in 1..n)
  BY <1>1
<1> HIDE DEF f
<1>8. ASSUME NEW i \in 1..n, f[i - 1] \in Seq(S)
      PROVE  f[i] \in Seq(S) /\ f[i] = f[i - 1] \o ss[i]
  <2>1. CASE i = 1
    <3>1. << >> \o ss[1] = ss[1]
      BY <1>1, <2>1, ConcatEmptySeq
    <3>2. f[1] = ss[1] /\ f[1 - 1] = << >>
      BY <1>5, <1>6, <2>1
    <3> QED
      BY <1>1, <2>1, <3>1, <3>2
  <2>2. CASE i # 1
    <3>1. i - 1 \in 1..n
      BY <1>1, <2>2
    <3>2. f[i] = f[i - 1] \o ss[i]
      BY <1>5, <1>6, <2>2, <3>1
    <3> QED
      BY <1>1, <1>8, <3>2, ConcatProperties
  <2> QED
    BY <2>1, <2>2
<1> DEFINE T == {i \in 0..n : f[i] \in Seq(S)}
<1>9. 0 \in T
  <2>1. << >> \in Seq(S)
    OBVIOUS
  <2>2. 0 \in 0..n
    BY <1>1
  <2>3. f[0] \in Seq(S)
    BY <1>6, <2>1
  <2> QED
    BY <2>2, <2>3, Zenon
<1>10. ASSUME NEW i \in 0..(n - 1), i \in T PROVE i + 1 \in T
  <2>1. i + 1 \in 1..n /\ (i + 1) - 1 = i /\ i + 1 \in 0..n
    BY <1>1
  <2>2. f[i + 1] \in Seq(S)
    BY <1>8, <1>10, <2>1
  <2> QED
    BY <2>1, <2>2
<1>11. 0..n \subseteq T
  <2> HIDE DEF T
  <2> QED
    BY <1>1, <1>9, <1>10, Upwards
<1>12. \A i \in 1..n : i - 1 \in 0..n
  BY <1>1
<1>13. f \in [0..n -> Seq(S)] /\ \A i \in 1..n : f[i] = f[i - 1] \o ss[i]
  BY <1>1, <1>7, <1>8, <1>11, <1>12
<1> QED
  BY <1>6, <1>7, <1>13 DEF Joinings

\* C is closed under joining; the parts after k up to m are of it.
IsClosed(C, S)     == C \subseteq Seq(S) /\ << >> \in C /\ \A a, b \in C : a \o b \in C
AreIn(ss, k, m, C) == \A i \in (k + 1)..m : ss[i] \in C
\* What f joins from k up to m is of C.
Adds(f, k, m, C)   == \E r \in C : f[m] = f[k] \o r

\* What is joined of parts in a set that is closed under joining is in it.
LEMMA JoinsRest ==
  ASSUME NEW S, NEW n, NEW ss, NEW f, Parts(ss, n, S), Joinings(f, ss, n, S),
         NEW C, IsClosed(C, S), NEW k \in 0..n, NEW m \in k..n, AreIn(ss, k, m, C)
  PROVE  Adds(f, k, m, C)
<1>1. /\ n \in Nat /\ f \in [0..n -> Seq(S)] /\ \A i \in 1..n : f[i] = f[i - 1] \o ss[i]
      /\ C \subseteq Seq(S) /\ << >> \in C /\ \A a, b \in C : a \o b \in C
      /\ \A i \in (k + 1)..m : ss[i] \in C
  BY DEF Parts, Joinings, IsClosed, AreIn
<1> DEFINE T == {j \in 0..(m - k) : \E e \in C : f[k + j] = f[k] \o e}
<1>2. 0 \in T
  <2>1. << >> \in C /\ f[k] \in Seq(S) /\ k + 0 = k /\ 0 \in 0..(m - k)
    BY <1>1
  <2>2. f[k] = f[k] \o << >>
    BY <2>1, ConcatEmptySeq
  <2> QED
    BY <2>1, <2>2
<1>3. ASSUME NEW j \in 0..(m - k - 1), j \in T PROVE j + 1 \in T
  <2>1. PICK e \in C : f[k + j] = f[k] \o e
    BY <1>3
  <2>2. k + j + 1 \in 1..n /\ k + j + 1 \in (k + 1)..m /\ (k + j + 1) - 1 = k + j
        /\ j + 1 \in 0..(m - k) /\ k + (j + 1) = k + j + 1
    BY <1>1
  <2> DEFINE a == f[k]   b == ss[k + j + 1]
  <2>3. a \in Seq(S) /\ b \in C /\ e \in Seq(S) /\ b \in Seq(S) /\ e \o b \in C
    BY <1>1, <2>2
  <2>4. f[k + j + 1] = (a \o e) \o b
    BY <1>1, <2>1, <2>2
  <2> HIDE DEF a, b
  <2>5. (a \o e) \o b = a \o (e \o b)
    BY <2>3
  <2>6. f[k + (j + 1)] = a \o (e \o b)
    BY <2>2, <2>4, <2>5
  <2> QED
    BY <2>2, <2>3, <2>6 DEF a
<1> DEFINE d == m - k
<1>4. 0..d \subseteq T
  <2> HIDE DEF T
  <2>1. d \in Nat /\ \A j \in 0..(d - 1) : j \in T => j + 1 \in T
    BY <1>1, <1>3
  <2> HIDE DEF d
  <2> QED
    BY <1>2, <2>1, Upwards
<1>5. d \in 0..d /\ k + d = m
  BY <1>1
<1>6. d \in T
  BY <1>4, <1>5
<1> QED
  BY <1>5, <1>6 DEF Adds

\* What is joined of the first parts is in such a set.
LEMMA JoinsIn ==
  ASSUME NEW S, NEW n, NEW ss, NEW f, Parts(ss, n, S), Joinings(f, ss, n, S),
         NEW C, IsClosed(C, S), NEW k \in 0..n, AreIn(ss, 0, k, C)
  PROVE  f[k] \in C
<1>1. n \in Nat /\ f[0] = << >> /\ f[k] \in Seq(S) /\ C \subseteq Seq(S)
  BY DEF Parts, Joinings, IsClosed
<1> DEFINE z == 0
<1>2. z \in 0..n /\ k \in z..n /\ AreIn(ss, z, k, C)
  BY <1>1
<1> HIDE DEF z
<1>5. Adds(f, z, k, C)
  BY <1>2, JoinsRest
<1>3. PICK r \in C : f[k] = f[z] \o r
  BY <1>5 DEF Adds
<1>4. << >> \o r = r
  BY <1>1
<1> QED
  BY <1>1, <1>3, <1>4 DEF z

\* t starts with a.
StartsWith(t, a, S) == \E r \in Seq(S) : t = a \o r

\* What is joined of more parts starts with what is joined of fewer.
LEMMA JoinsStart ==
  ASSUME NEW S, NEW n, NEW ss, NEW f, Parts(ss, n, S), Joinings(f, ss, n, S),
         NEW k, k \in 0..n
  PROVE  StartsWith(f[n], f[k], S)
<1> DEFINE C == Seq(S)
<1>1. IsClosed(C, S)
  BY DEF IsClosed
<1>2. n \in Nat /\ \A i \in 1..n : ss[i] \in C
  BY DEF Parts
<1>3. AreIn(ss, k, n, C) /\ n \in k..n
  BY <1>2 DEF AreIn
<1> HIDE DEF C
<1>4. Adds(f, k, n, C)
  BY <1>1, <1>3, JoinsRest
<1> QED
  BY <1>4 DEF Adds, C, StartsWith
=============================================================================
