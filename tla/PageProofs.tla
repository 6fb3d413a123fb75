----------------------------- MODULE PageProofs -----------------------------
(***************************************************************************)
(* A page of a file, quoted back.  Its rows are the file's as long as it   *)
(* is shown, and the text it is shown as, trimmed of its numbers, is those *)
(* rows again, which is why the edit tool finds it.                        *)
(***************************************************************************)
EXTENDS LookupProofs
LOCAL INSTANCE SequencesExt

\* What a page is written with.
Glyphs == STRING \union {Newline, Tab} \union Digits

\* What Joined joins: each row behind the newline that ends the one before.
RowParts(rows) == [k \in 1..Len(rows) |-> IF k = 1 THEN rows[k] ELSE <<Newline>> \o rows[k]]

\* The characters the proofs speak of are among them.
LEMMA GlyphsAre == Newline \in Glyphs /\ Tab \in Glyphs /\ Digits \subseteq Glyphs /\ STRING \subseteq Glyphs
BY DEF Glyphs

\* A tab is neither a digit nor a newline, and neither is a digit a newline.
LEMMA MarksDiffer == Tab \notin Digits /\ Tab # Newline /\ Newline \notin Digits
<1>1. Tab \notin Digits
  BY Zenon DEF Tab, Digits
<1>2. Tab # Newline
  BY Zenon DEF Tab, Newline
<1>3. Newline \notin Digits
  BY Zenon DEF Newline, Digits
<1> QED
  BY <1>1, <1>2, <1>3

\* Joined joins its parts one by one, from the first to the last.
LEMMA JoinedIs ==
  ASSUME NEW S, Newline \in S, NEW rows \in Seq(Seq(S))
  PROVE  /\ Parts(RowParts(rows), Len(rows), S)
         /\ \E f : Joinings(f, RowParts(rows), Len(rows), S) /\ Joined(rows) = f[Len(rows)]
<1>1. Len(rows) \in Nat /\ \A k \in 1..Len(rows) : rows[k] \in Seq(S)
  OBVIOUS
<1>2. \A k \in 1..Len(rows) : (IF k = 1 THEN rows[k] ELSE <<Newline>> \o rows[k]) \in Seq(S)
  <2>1. <<Newline>> \in Seq(S)
    OBVIOUS
  <2> QED
    BY <1>1, <2>1, ConcatProperties
<1>3. Parts(RowParts(rows), Len(rows), S)
  BY <1>1, <1>2 DEF Parts, RowParts
<1>4. Joined(rows) = FlattenSeq(RowParts(rows))
  BY DEF Joined, RowParts
<1> QED
  BY <1>3, <1>4, FlattenSteps

\* c gives where the rows that are joined to s begin and end in it.
RowsAt(c, s, rows) ==
  /\ c \in [0..Len(rows) -> Nat] /\ c[0] = 0 /\ c[Len(rows)] = Len(s) + 1
  /\ \A k \in 1..Len(rows) : /\ c[k] = c[k - 1] + Len(rows[k]) + 1
                             /\ \A i \in 1..Len(rows[k]) : s[c[k - 1] + i] = rows[k][i]
                             /\ k < Len(rows) => s[c[k]] = Newline

\* The digits of a number.
LEMMA ShowIs ==
  ASSUME NEW n \in Nat
  PROVE  show(n) \in Seq(Digits) /\ Len(show(n)) \in Nat \ {0}
<1> DEFINE Of(g, k) == IF k < 10 THEN <<Figures[k + 1]>>
                       ELSE Append(g[k \div 10], Figures[(k % 10) + 1])
           Solves(g, m) == /\ g = [k \in 0..m |-> g[k]]
                           /\ \A k \in 0..m : g[k] = Of(g, k)
           T == {m \in Nat : \E g : Solves(g, m)}
<1>1. \A k \in Nat : k >= 10 => k \div 10 \in 0..(k - 1)
  OBVIOUS
<1>2. 0 \in T
  <2> DEFINE g == [k \in 0..0 |-> <<Figures[k + 1]>>]
  <2>1. g = [k \in 0..0 |-> g[k]]
    OBVIOUS
  <2>2. \A k \in 0..0 : g[k] = Of(g, k)
    OBVIOUS
  <2> QED
    BY <2>1, <2>2
<1>3. ASSUME NEW m \in 0..(n - 1), m \in T PROVE m + 1 \in T
  <2>1. PICK f : Solves(f, m)
    BY <1>3
  <2> DEFINE p == m + 1
             g == [k \in 0..p |-> IF k = p THEN Of(f, p) ELSE f[k]]
  <2>2. p \in Nat /\ p \in 0..p /\ 0..m = 0..p \ {p}
    OBVIOUS
  <2>3. \A k \in 0..p : k >= 10 => k \div 10 \in 0..m
    BY <1>1
  <2> HIDE DEF p, Of
  <2>4. g = [k \in 0..p |-> g[k]] /\ g[p] = Of(f, p) /\ \A k \in 0..m : g[k] = f[k]
    BY <2>2
  <2> HIDE DEF g
  <2>5. ASSUME NEW k \in 0..p PROVE Of(g, k) = Of(f, k)
    <3>1. CASE k < 10
      BY <3>1 DEF Of
    <3>2. CASE ~(k < 10)
      <4> DEFINE j == k \div 10
      <4>1. j \in 0..m
        BY <2>2, <2>3, <3>2
      <4>2. g[j] = f[j]
        BY <2>4, <4>1
      <4> HIDE DEF j
      <4>3. Of(g, k) = Append(g[j], Figures[(k % 10) + 1]) /\ Of(f, k) = Append(f[j], Figures[(k % 10) + 1])
        BY <3>2 DEF Of, j
      <4> QED
        BY <4>2, <4>3
    <3> QED
      BY <3>1, <3>2
  <2>6. \A k \in 0..p : g[k] = Of(g, k)
    BY <2>1, <2>2, <2>4, <2>5
  <2> QED
    BY <2>2, <2>4, <2>6 DEF p
<1> HIDE DEF T
<1>4. 0..n \subseteq T
  BY <1>2, <1>3, Upwards
<1> DEFINE Digit(g) == g = [k \in 0..n |-> Of(g, k)]
           d == CHOOSE g : Digit(g)
<1>5. \E g : Digit(g)
  <2>1. PICK g : Solves(g, n)
    BY <1>4 DEF T
  <2> HIDE DEF Of
  <2>2. Digit(g)
    BY <2>1, SMTT(30)
  <2> QED
    BY <2>2
<1>6. Digit(d) /\ show(n) = d[n]
  BY <1>5 DEF show
<1> HIDE DEF d
<1> DEFINE U == {k \in 0..n : d[k] \in Seq(Digits) /\ d[k] # << >>}
           V == {m \in Nat : 0..m \cap 0..n \subseteq U}
<1>7. \A i \in 1..10 : Figures[i] \in Digits
  BY DEF Figures, Digits
<1>8. ASSUME NEW k \in 0..n, \A j \in 0..(k - 1) : j \in U PROVE k \in U
  <2>1. d[k] = Of(d, k)
    BY <1>6
  <2>2. CASE k < 10
    <3>1. k + 1 \in 1..10
      BY <2>2
    <3>2. Figures[k + 1] \in Digits
      BY <1>7, <3>1
    <3> DEFINE y == Figures[k + 1]
    <3>3. d[k] = <<y>> /\ y \in Digits
      BY <2>1, <2>2, <3>2
    <3> HIDE DEF y
    <3>4. <<y>> \in Seq(Digits) /\ <<y>> # << >>
      BY <3>3
    <3> QED
      BY <3>3, <3>4
  <2>3. CASE ~(k < 10)
    <3>1. k \div 10 \in 0..(k - 1) /\ (k % 10) + 1 \in 1..10
      BY <1>1, <2>3
    <3> DEFINE x == d[k \div 10]   y == Figures[(k % 10) + 1]
    <3>2. x \in Seq(Digits) /\ y \in Digits
      BY <1>7, <1>8, <3>1
    <3>3. d[k] = Append(x, y)
      BY <2>1, <2>3
    <3> HIDE DEF x, y
    <3>4. Append(x, y) \in Seq(Digits) /\ Len(Append(x, y)) = Len(x) + 1 /\ Len(x) \in Nat
      BY <3>2
    <3>5. Append(x, y) # << >>
      BY <3>4, EmptySeq
    <3> QED
      BY <3>3, <3>4, <3>5
  <2> QED
    BY <2>2, <2>3
<1> HIDE DEF U
<1>9. 0 \in V
  <2>1. 0 \in U
    <3> DEFINE z == 0
    <3>1. z \in 0..n /\ \A j \in 0..(z - 1) : j \in U
      OBVIOUS
    <3> HIDE DEF z
    <3>2. z \in U
      BY <1>8, <3>1
    <3> QED
      BY <3>2 DEF z
  <2> QED
    BY <2>1
<1>10. ASSUME NEW m \in 0..(n - 1), m \in V PROVE m + 1 \in V
  <2> DEFINE p == m + 1
  <2>1. p \in 0..n /\ p \in Nat /\ \A j \in 0..(p - 1) : j \in 0..m /\ j \in 0..n
    OBVIOUS
  <2>2. \A j \in 0..p : j = p \/ j \in 0..(p - 1)
    OBVIOUS
  <2> HIDE DEF p
  <2>3. \A j \in 0..(p - 1) : j \in U
    BY <1>10, <2>1
  <2>4. p \in U
    BY <1>8, <2>1, <2>3
  <2>5. p \in V
    BY <2>1, <2>2, <2>3, <2>4
  <2> QED
    BY <2>5 DEF p
<1> HIDE DEF V
<1>11. 0..n \subseteq V
  BY <1>9, <1>10, Upwards
<1>12. n \in U
  BY <1>11 DEF V
<1>13. d[n] \in Seq(Digits) /\ d[n] # << >>
  BY <1>12 DEF U
<1> QED
  BY <1>6, <1>13, EmptySeq

\* Where the characters of a joined text come from.
IsConcat(t, a, b, S) ==
  /\ t \in Seq(S) /\ Len(t) = Len(a) + Len(b) /\ Len(a) \in Nat /\ Len(b) \in Nat
  /\ \A i \in 1..Len(a) : t[i] = a[i]
  /\ \A i \in 1..Len(b) : t[Len(a) + i] = b[i]

\* Two texts put behind each other.
LEMMA ConcatAt ==
  ASSUME NEW S, NEW a \in Seq(S), NEW b \in Seq(S)
  PROVE  IsConcat(a \o b, a, b, S)
<1>1. /\ a \o b \in Seq(S) /\ Len(a \o b) = Len(a) + Len(b)
      /\ \A i \in 1..(Len(a) + Len(b)) : (a \o b)[i] = IF i <= Len(a) THEN a[i] ELSE b[i - Len(a)]
  BY ConcatProperties
<1>2. Len(a) \in Nat /\ Len(b) \in Nat
  OBVIOUS
<1> DEFINE m == Len(a)   n == Len(b)   t == a \o b
<1>3. m \in Nat /\ n \in Nat /\ \A i \in 1..(m + n) : t[i] = IF i <= m THEN a[i] ELSE b[i - m]
  BY <1>1, <1>2
<1> HIDE DEF m, n, t
<1>4. ASSUME NEW i \in 1..m PROVE t[i] = a[i]
  BY <1>3
<1>5. ASSUME NEW i \in 1..n PROVE t[m + i] = b[i]
  <2> DEFINE j == m + i
  <2>1. j \in 1..(m + n) /\ ~(j <= m) /\ j - m = i
    BY <1>3
  <2> HIDE DEF j
  <2>2. t[j] = b[i]
    BY <1>3, <2>1
  <2> QED
    BY <2>2 DEF j
<1> QED
  BY <1>1, <1>2, <1>4, <1>5 DEF m, n, t, IsConcat

\* Rows without a newline.
NoEnds(rows) == \A k \in 1..Len(rows) : \A i \in 1..Len(rows[k]) : rows[k][i] # Newline

\* Rows behind a number and a tab.
Tabbed(nos, rows) == [k \in 1..Len(rows) |-> nos[k] \o <<Tab>> \o rows[k]]
Tabs(nos, rows) ==
  /\ rows \in Seq(Seq(Glyphs)) /\ Len(rows) \in Nat \ {0}
  /\ \A k \in 1..Len(rows) : nos[k] \in Seq(Digits) /\ Len(nos[k]) \in Nat \ {0}

TabbedRow(t, no, row) ==
  /\ t \in Seq(Glyphs) /\ Len(t) = Len(no) + 1 + Len(row)
  /\ \A i \in 1..Len(no) : t[i] \in Digits
  /\ t[Len(no) + 1] = Tab
  /\ \A i \in 1..Len(row) : t[Len(no) + 1 + i] = row[i]

\* Rows written behind their numbers are such rows, and hold no newline either.
LEMMA TabbedIs ==
  ASSUME NEW nos, NEW rows, Tabs(nos, rows)
  PROVE  /\ Tabbed(nos, rows) \in Seq(Seq(Glyphs)) /\ Len(Tabbed(nos, rows)) = Len(rows)
         /\ \A k \in 1..Len(rows) : TabbedRow(Tabbed(nos, rows)[k], nos[k], rows[k])
         /\ NoEnds(rows) => NoEnds(Tabbed(nos, rows))
<1> DEFINE ts == Tabbed(nos, rows)
           n == Len(rows)
<1>1. n \in Nat \ {0} /\ ts = [k \in 1..n |-> ts[k]] /\ \A k \in 1..n : ts[k] = nos[k] \o <<Tab>> \o rows[k]
  BY DEF Tabs, Tabbed
<1>2. ASSUME NEW k \in 1..n PROVE TabbedRow(ts[k], nos[k], rows[k])
  <2> DEFINE a == nos[k]   b == <<Tab>>   r == rows[k]   m == a \o b   t == m \o r
  <2>1. a \in Seq(Digits) /\ r \in Seq(Glyphs)
    BY <1>2 DEF Tabs
  <2>2. a \in Seq(Glyphs)
    BY <2>1, GlyphsAre
  <2>3. b \in Seq(Glyphs) /\ Len(b) = 1 /\ b[1] = Tab
    BY GlyphsAre
  <2>4. ts[k] = t
    BY <1>1, <1>2
  <2> HIDE DEF a, b, r
  <2>5. /\ m \in Seq(Glyphs) /\ Len(m) = Len(a) + Len(b) /\ Len(a) \in Nat
        /\ \A i \in 1..Len(a) : m[i] = a[i]
        /\ \A i \in 1..Len(b) : m[Len(a) + i] = b[i]
    <3>1. IsConcat(m, a, b, Glyphs)
      BY <2>2, <2>3, ConcatAt
    <3> QED
      BY <3>1 DEF IsConcat
  <2> HIDE DEF m
  <2>6. /\ t \in Seq(Glyphs) /\ Len(t) = Len(m) + Len(r) /\ Len(r) \in Nat
        /\ \A i \in 1..Len(m) : t[i] = m[i]
        /\ \A i \in 1..Len(r) : t[Len(m) + i] = r[i]
    <3>1. IsConcat(t, m, r, Glyphs)
      BY <2>1, <2>5, ConcatAt
    <3> QED
      BY <3>1 DEF IsConcat
  <2> HIDE DEF t
  <2>7. \A i \in 1..Len(a) : a[i] \in Digits
    BY <2>1
  <2>8. Len(m) = Len(a) + 1 /\ m[Len(a) + 1] = Tab
    BY <2>3, <2>5
  <2>9. \A i \in 1..Len(a) : i \in 1..Len(m)
    BY <2>5, <2>8
  <2>10. Len(a) + 1 \in 1..Len(m)
    BY <2>5, <2>8
  <2>11. TabbedRow(t, a, r)
    BY <2>5, <2>6, <2>7, <2>8, <2>9, <2>10 DEF TabbedRow
  <2> QED
    BY <2>4, <2>11 DEF a, r
<1> HIDE DEF ts, n
<1>3. ts \in Seq(Seq(Glyphs)) /\ Len(ts) = n
  <2>1. \A k \in 1..n : ts[k] \in Seq(Glyphs)
    BY <1>2 DEF TabbedRow
  <2> QED
    BY <1>1, <2>1
<1>4. ASSUME NoEnds(rows), NEW k \in 1..n, NEW i \in 1..Len(ts[k]) PROVE ts[k][i] # Newline
  <2> DEFINE t == ts[k]   a == nos[k]   r == rows[k]
  <2>1. TabbedRow(t, a, r) /\ Len(a) \in Nat /\ Len(r) \in Nat /\ i \in 1..Len(t)
    BY <1>2, <1>4 DEF Tabs, n
  <2>2. \A j \in 1..Len(r) : r[j] # Newline
    BY <1>4 DEF NoEnds, n
  <2> HIDE DEF t, a, r
  <2>3. \/ i \in 1..Len(a) \/ i = Len(a) + 1
        \/ i - Len(a) - 1 \in 1..Len(r) /\ Len(a) + 1 + (i - Len(a) - 1) = i
    BY <2>1 DEF TabbedRow
  <2>4. i \in 1..Len(a) => t[i] # Newline
    BY <2>1, MarksDiffer DEF TabbedRow
  <2>5. i = Len(a) + 1 => t[i] # Newline
    BY <2>1, MarksDiffer DEF TabbedRow
  <2>6. CASE i - Len(a) - 1 \in 1..Len(r) /\ Len(a) + 1 + (i - Len(a) - 1) = i
    <3> DEFINE j == i - Len(a) - 1
    <3>1. j \in 1..Len(r) /\ Len(a) + 1 + j = i
      BY <2>6
    <3> HIDE DEF j
    <3>2. t[Len(a) + 1 + j] = r[j]
      BY <2>1, <3>1 DEF TabbedRow
    <3> QED
      BY <2>2, <3>1, <3>2 DEF t
  <2> QED
    BY <2>3, <2>4, <2>5, <2>6 DEF t
<1>5. NoEnds(rows) => NoEnds(ts)
  BY <1>3, <1>4 DEF NoEnds
<1> QED
  BY <1>2, <1>3, <1>5 DEF ts, n

\* Rows that are joined stand one behind the other, a newline between them.
LEMMA RowsStand ==
  ASSUME NEW S, Newline \in S, NEW rows \in Seq(Seq(S)), Len(rows) \in Nat \ {0},
         NEW f, Joinings(f, RowParts(rows), Len(rows), S)
  PROVE  \E c : RowsAt(c, f[Len(rows)], rows)
<1> DEFINE n == Len(rows)
           s == f[n]
           ps == RowParts(rows)
           c == [k \in 0..n |-> IF k = 0 THEN 0 ELSE Len(f[k]) + 1]
<1>0. n \in Nat \ {0} /\ Parts(ps, n, S)
  BY JoinedIs
<1>1. /\ f \in [0..n -> Seq(S)] /\ f[0] = << >>
      /\ \A k \in 1..n : f[k] = f[k - 1] \o ps[k]
  BY DEF Joinings
<1>2. \A k \in 1..n : ps[k] = IF k = 1 THEN rows[k] ELSE <<Newline>> \o rows[k]
  BY DEF RowParts
<1>3. \A k \in 1..n : rows[k] \in Seq(S)
  OBVIOUS
<1>4. ASSUME NEW k \in 1..n PROVE
        /\ k - 1 \in 0..n /\ f[k] = f[k - 1] \o ps[k] /\ f[k - 1] \in Seq(S) /\ ps[k] \in Seq(S)
        /\ f[k] \in Seq(S)
  <2>1. \A i \in 1..n : ps[i] \in Seq(S)
    BY <1>0 DEF Parts
  <2>2. k - 1 \in 0..n /\ k \in 0..n
    BY <1>0
  <2> QED
    BY <1>1, <2>1, <2>2
<1> HIDE DEF n, ps
<1>5. ASSUME NEW k \in 1..n PROVE
        c[k] = Len(f[k]) + 1 /\ c[k - 1] = IF k = 1 THEN 0 ELSE Len(f[k - 1]) + 1
  BY <1>0
<1>6. c \in [0..n -> Nat] /\ c[0] = 0 /\ c[n] = Len(s) + 1
  <2> DEFINE h(k) == Len(f[k]) + 1
  <2>1. \A k \in 0..n : h(k) \in Nat
    BY <1>1
  <2>2. h(n) = Len(s) + 1 /\ c = [k \in 0..n |-> IF k = 0 THEN 0 ELSE h(k)]
    OBVIOUS
  <2> HIDE DEF h, c, s
  <2> QED
    BY <1>0, <2>1, <2>2
<1> HIDE DEF c
<1>7. ASSUME NEW k \in 1..n PROVE \A x \in 1..Len(f[k]) : s[x] = f[k][x]
  <2>1. k \in 0..n
    BY <1>0
  <2>2. StartsWith(f[n], f[k], S)
    BY <1>0, <2>1, JoinsStart DEF n, ps
  <2>3. PICK r \in Seq(S) : s = f[k] \o r
    BY <2>2 DEF StartsWith
  <2> DEFINE u == f[k]
  <2>4. u \in Seq(S)
    BY <1>4
  <2> HIDE DEF u, s
  <2>5. \A x \in 1..Len(u) : (u \o r)[x] = u[x]
    BY <2>4
  <2> QED
    BY <2>3, <2>5 DEF u
<1>8. ASSUME NEW k \in 1..n PROVE
        /\ c[k] = c[k - 1] + Len(rows[k]) + 1
        /\ \A i \in 1..Len(rows[k]) : s[c[k - 1] + i] = rows[k][i]
        /\ k # 1 => s[c[k - 1]] = Newline
  <2> DEFINE u == f[k - 1]   p == ps[k]   r == rows[k]   b == <<Newline>>
  <2>1. u \in Seq(S) /\ p \in Seq(S) /\ r \in Seq(S) /\ b \in Seq(S) /\ Len(b) = 1 /\ b[1] = Newline
    <3>1. u \in Seq(S) /\ p \in Seq(S) /\ r \in Seq(S)
      BY <1>3, <1>4
    <3>2. b \in Seq(S) /\ Len(b) = 1 /\ b[1] = Newline
      OBVIOUS
    <3> QED
      BY <3>1, <3>2
  <2>2. f[k] = u \o p /\ \A x \in 1..Len(u \o p) : s[x] = (u \o p)[x]
    BY <1>4, <1>7
  <2>3. CASE k = 1
    <3>0. k - 1 = 0
      BY <2>3
    <3>4. c[k - 1] = 0 /\ c[k] = Len(f[k]) + 1
      BY <1>5, <2>3
    <3>5. p = r
      BY <1>2, <2>3
    <3>6. u = << >>
      BY <1>1, <3>0
    <3>1. c[k] = Len(u \o p) + 1
      BY <2>2, <3>4
    <3> HIDE DEF u, p, r, s
    <3>2. u \o p = r
      BY <2>1, <3>5, <3>6, ConcatEmptySeq
    <3>3. Len(r) \in Nat /\ c[k] = Len(r) + 1 /\ \A x \in 1..Len(r) : s[x] = r[x]
      BY <2>1, <2>2, <3>1, <3>2
    <3>7. \A i \in 1..Len(r) : c[k - 1] + i = i
      BY <3>4
    <3>8. c[k] = c[k - 1] + Len(r) + 1
      BY <3>3, <3>4
    <3> QED
      BY <2>3, <3>3, <3>7, <3>8 DEF r
  <2>4. CASE k # 1
    <3>1. p = b \o r /\ c[k - 1] = Len(u) + 1 /\ c[k] = Len(u \o p) + 1
      BY <1>2, <1>5, <2>2, <2>4
    <3> HIDE DEF u, p, r, b, s
    <3>11. IsConcat(p, b, r, S) /\ IsConcat(u \o p, u, p, S)
      BY <2>1, <3>1, ConcatAt
    <3>7. /\ Len(p) = Len(b) + Len(r) /\ Len(r) \in Nat
          /\ \A i \in 1..Len(b) : p[i] = b[i]
          /\ \A i \in 1..Len(r) : p[Len(b) + i] = r[i]
      BY <3>11 DEF IsConcat
    <3>8. /\ Len(u \o p) = Len(u) + Len(p) /\ Len(u) \in Nat
          /\ \A j \in 1..Len(p) : (u \o p)[Len(u) + j] = p[j]
      BY <3>11 DEF IsConcat
    <3>2. Len(p) = Len(r) + 1 /\ Len(u \o p) = Len(u) + Len(r) + 1 /\ Len(r) \in Nat /\ Len(u) \in Nat
      BY <2>1, <3>1, <3>7, <3>8
    <3>3. p[1] = Newline /\ \A i \in 1..Len(r) : p[1 + i] = r[i]
      BY <2>1, <3>1, <3>7, SMTT(30)
    <3>4. \A j \in 1..Len(p) : (u \o p)[Len(u) + j] = p[j]
      BY <3>8
    <3>5. s[Len(u) + 1] = Newline
      BY <2>2, <3>2, <3>3, <3>4
    <3>6. ASSUME NEW i \in 1..Len(r) PROVE s[c[k - 1] + i] = r[i]
      <4> DEFINE j == 1 + i
      <4>1. j \in 1..Len(p) /\ Len(u) + j \in 1..Len(u \o p) /\ c[k - 1] + i = Len(u) + j
        BY <3>1, <3>2, SMTT(30)
      <4>2. p[j] = r[i]
        BY <3>3
      <4> HIDE DEF j
      <4> QED
        BY <2>2, <3>4, <4>1, <4>2
    <3>9. c[k] = c[k - 1] + Len(r) + 1
      BY <3>1, <3>2
    <3>10. s[c[k - 1]] = Newline
      BY <3>1, <3>5
    <3> QED
      BY <3>6, <3>9, <3>10 DEF r
  <2> QED
    BY <2>3, <2>4
<1>9. ASSUME NEW k \in 1..n, k < n PROVE s[c[k]] = Newline
  <2> DEFINE j == k + 1
  <2>1. j \in 1..n /\ j # 1 /\ j - 1 = k
    BY <1>0, <1>9
  <2> HIDE DEF j
  <2>2. s[c[j - 1]] = Newline
    BY <1>8, <2>1
  <2> QED
    BY <2>1, <2>2
<1> HIDE DEF s
<1>10. RowsAt(c, s, rows)
  BY <1>6, <1>8, <1>9 DEF RowsAt, n
<1> QED
  BY <1>10 DEF s, n

\* Rows without a newline are lines of what they are joined to.
LEMMA RowsAreLines ==
  ASSUME NEW S, NEW rows \in Seq(Seq(S)), Len(rows) \in Nat \ {0}, NEW s, NEW c,
         RowsAt(c, s, rows), NoEnds(rows)
  PROVE  CutInto(c, s, Len(rows))
<1> DEFINE n == Len(rows)
<1>1. \A k \in 1..n : Len(rows[k]) \in Nat
  OBVIOUS
<1>2. /\ c \in [0..n -> Nat] /\ c[0] = 0 /\ c[n] = Len(s) + 1
      /\ \A k \in 1..n : /\ c[k] = c[k - 1] + Len(rows[k]) + 1
                         /\ \A i \in 1..Len(rows[k]) : s[c[k - 1] + i] = rows[k][i]
                         /\ k < n => s[c[k]] = Newline
  BY DEF RowsAt
<1>3. n \in Nat \ {0} /\ \A k \in 1..n : \A i \in 1..Len(rows[k]) : rows[k][i] # Newline
  BY DEF NoEnds
<1> HIDE DEF n
<1>4. ASSUME NEW k \in 1..n PROVE
        /\ c[k - 1] < c[k]
        /\ \A i \in (c[k - 1] + 1)..(c[k] - 1) : s[i] # Newline
  <2> DEFINE r == rows[k]   a == c[k - 1]
  <2>5. k - 1 \in 0..n
    BY <1>3
  <2>6. a \in Nat /\ Len(r) \in Nat
    BY <1>1, <1>2, <2>5
  <2>1. Len(r) \in Nat /\ a \in Nat /\ c[k] = a + Len(r) + 1
        /\ \A i \in 1..Len(r) : s[a + i] = r[i]
    BY <1>2, <2>6
  <2>2. \A i \in 1..Len(r) : r[i] # Newline
    BY <1>3
  <2> HIDE DEF r, a
  <2>3. ASSUME NEW i \in (a + 1)..(a + Len(r)) PROVE s[i] # Newline
    <3> DEFINE x == i - a
    <3>1. x \in 1..Len(r) /\ a + x = i
      BY <2>1
    <3> HIDE DEF x
    <3> QED
      BY <2>1, <2>2, <3>1
  <2>4. a < c[k] /\ c[k] - 1 = a + Len(r)
    BY <2>1
  <2> QED
    BY <2>3, <2>4 DEF a
<1>5. \A k \in 1..(n - 1) : k \in 1..n /\ k < n
  BY <1>3
<1> QED
  BY <1>2, <1>3, <1>4, <1>5 DEF CutInto, n

\* Two texts of one length with the same characters are the same.
LEMMA SameText ==
  ASSUME NEW S, NEW s \in Seq(S), NEW t \in Seq(S), Len(s) = Len(t),
         \A i \in 1..Len(s) : s[i] = t[i]
  PROVE  s = t
BY SeqEqual

\* How the rows of a text written behind numbers stand in it.
StripFacts(c, s, nos, rows) ==
  /\ s \in Seq(Glyphs) /\ CutInto(c, s, Len(rows))
  /\ \A k \in 1..Len(rows) :
       /\ c[k] = c[k - 1] + Len(nos[k]) + 1 + Len(rows[k]) + 1
       /\ \A i \in 1..Len(nos[k]) : s[c[k - 1] + i] \in Digits
       /\ s[c[k - 1] + Len(nos[k]) + 1] = Tab
       /\ \A i \in 1..Len(rows[k]) : s[c[k - 1] + Len(nos[k]) + 1 + i] = rows[k][i]

\* Rows written behind numbers and joined are cut where each of them ends.
LEMMA StripFactsHold ==
  ASSUME NEW nos, NEW rows, Tabs(nos, rows), NoEnds(rows)
  PROVE  \E c : StripFacts(c, Joined(Tabbed(nos, rows)), nos, rows)
<1> DEFINE ts == Tabbed(nos, rows)
           n == Len(rows)
           s == Joined(ts)
<1>1. /\ ts \in Seq(Seq(Glyphs)) /\ Len(ts) = n /\ NoEnds(ts)
      /\ \A k \in 1..n : TabbedRow(ts[k], nos[k], rows[k])
  BY TabbedIs
<1>2. n \in Nat \ {0} /\ Newline \in Glyphs
  BY GlyphsAre DEF Tabs
<1>9. \A k \in 1..n : Len(nos[k]) \in Nat /\ Len(rows[k]) \in Nat
  <2>1. \A k \in 1..n : rows[k] \in Seq(Glyphs) /\ Len(nos[k]) \in Nat
    BY DEF Tabs
  <2> QED
    BY <2>1
<1> HIDE DEF ts, n
<1>3. PICK f : Joinings(f, RowParts(ts), Len(ts), Glyphs) /\ s = f[Len(ts)]
  BY <1>1, <1>2, JoinedIs
<1>4. PICK c : RowsAt(c, f[Len(ts)], ts)
  BY <1>1, <1>2, <1>3, RowsStand
<1>5. RowsAt(c, s, ts)
  BY <1>3, <1>4
<1>6. s \in Seq(Glyphs)
  BY <1>1, <1>2, <1>3 DEF Joinings
<1> HIDE DEF s
<1>7. CutInto(c, s, n)
  BY <1>1, <1>2, <1>5, RowsAreLines
<1>8. ASSUME NEW k \in 1..n PROVE
        /\ c[k] = c[k - 1] + Len(nos[k]) + 1 + Len(rows[k]) + 1
        /\ \A i \in 1..Len(nos[k]) : s[c[k - 1] + i] \in Digits
        /\ s[c[k - 1] + Len(nos[k]) + 1] = Tab
        /\ \A i \in 1..Len(rows[k]) : s[c[k - 1] + Len(nos[k]) + 1 + i] = rows[k][i]
  <2> DEFINE t == ts[k]   a == nos[k]   r == rows[k]   z == c[k - 1]
  <2>1. TabbedRow(t, a, r) /\ Len(a) \in Nat /\ Len(r) \in Nat
    BY <1>1, <1>9
  <2>2. c[k] = z + Len(t) + 1 /\ \A i \in 1..Len(t) : s[z + i] = t[i]
    BY <1>1, <1>5 DEF RowsAt
  <2>3. z \in Nat
    <3>1. k - 1 \in 0..n
      BY <1>2
    <3> QED
      BY <1>7, <3>1 DEF CutInto
  <2> HIDE DEF t, a, r, z
  <2>4. /\ Len(t) = Len(a) + 1 + Len(r) /\ t[Len(a) + 1] = Tab
        /\ \A i \in 1..Len(a) : t[i] \in Digits
        /\ \A i \in 1..Len(r) : t[Len(a) + 1 + i] = r[i]
    BY <2>1 DEF TabbedRow
  <2>5. c[k] = z + Len(a) + 1 + Len(r) + 1
    BY <2>1, <2>2, <2>3, <2>4
  <2>6. ASSUME NEW i \in 1..Len(a) PROVE s[z + i] \in Digits
    <3>1. i \in 1..Len(t)
      BY <2>1, <2>4
    <3> QED
      BY <2>2, <2>4, <3>1
  <2>7. s[z + Len(a) + 1] = Tab
    <3> DEFINE j == Len(a) + 1
    <3>1. j \in 1..Len(t) /\ z + Len(a) + 1 = z + j
      BY <2>1, <2>3, <2>4
    <3>2. t[j] = Tab
      BY <2>4
    <3> HIDE DEF j
    <3> QED
      BY <2>2, <3>1, <3>2
  <2>8. ASSUME NEW i \in 1..Len(r) PROVE s[z + Len(a) + 1 + i] = r[i]
    <3> DEFINE j == Len(a) + 1 + i
    <3>1. j \in 1..Len(t) /\ z + Len(a) + 1 + i = z + j
      BY <2>1, <2>3, <2>4
    <3>2. t[j] = r[i]
      BY <2>4
    <3> HIDE DEF j
    <3> QED
      BY <2>2, <3>1, <3>2
  <2> QED
    BY <2>5, <2>6, <2>7, <2>8 DEF z, a, r
<1>10. StripFacts(c, s, nos, rows)
  BY <1>6, <1>7, <1>8 DEF StripFacts, n
<1> QED
  BY <1>10 DEF s, ts

\* What the tool drops of each line is its number and the tab behind it.
LEMMA WidthsAre ==
  ASSUME NEW nos, NEW rows, Tabs(nos, rows), NEW c, NEW s, StripFacts(c, s, nos, rows),
         NEW k \in 1..Len(rows)
  PROVE  PrefixWidth(s, LineFrom(c, k)) = Len(nos[k]) + 1
<1> DEFINE n == Len(rows)   a == Len(nos[k])   r == Len(rows[k])   z == c[k - 1]
           l == LineFrom(c, k)
           i == z + 1
<1>1. n \in Nat \ {0} /\ a \in Nat \ {0} /\ r \in Nat
  <2>1. rows[k] \in Seq(Glyphs)
    BY DEF Tabs
  <2> QED
    BY <2>1 DEF Tabs
<1>2. z \in Nat
  <2>1. k - 1 \in 0..n /\ CutInto(c, s, n)
    BY <1>1 DEF StripFacts
  <2> QED
    BY <2>1 DEF CutInto
<1>3. /\ c[k] = z + a + 1 + r + 1
      /\ \A j \in 1..a : s[z + j] \in Digits
      /\ s[z + a + 1] = Tab
  BY DEF StripFacts
<1>4. l[1] = i /\ l[2] = c[k] - 1
  BY DEF LineFrom
<1> HIDE DEF n, a, r, z, l
<1>5. i \in Nat /\ l[2] \in Nat /\ i + a <= l[2] /\ i + a = z + a + 1
  BY <1>1, <1>2, <1>3, <1>4
<1>6. ASSUME NEW j \in i..(i + a - 1) PROVE s[j] \in Digits
  <2> DEFINE x == j - z
  <2>1. x \in 1..a /\ z + x = j
    BY <1>1, <1>2
  <2> HIDE DEF x
  <2> QED
    BY <1>3, <2>1
<1>7. s[i + a] = Tab /\ Tab \notin Digits
  BY <1>3, <1>5, MarksDiffer
<1> HIDE DEF i
<1>8. Run(s, l, Digits, i) = a
  BY <1>1, <1>5, <1>6, <1>7, RunIs
<1>9. PrefixWidth(s, l) = a + 1
  BY <1>1, <1>4, <1>5, <1>7, <1>8 DEF PrefixWidth
<1> QED
  BY <1>9 DEF a, l

\* What is dropped.
GoneOf(s) == UNION {l[1]..(l[1] + PrefixWidth(s, l) - 1) : l \in Lines(s)}

\* Trimming numbers drops the prefix of each line and leaves the rest in order.
LEMMA StripIs ==
  ASSUME NEW s PROVE strip_line_prefixes(s) = FlattenSeq(Standing(s, GoneOf(s)))
<1> DEFINE width == [l \in Lines(s) |-> PrefixWidth(s, l)]
<1>1. \A l \in Lines(s) : width[l] = PrefixWidth(s, l)
  OBVIOUS
<1>2. strip_line_prefixes(s) = Trimmed(s, width)
  BY DEF strip_line_prefixes
<1> HIDE DEF width
<1>3. UNION {l[1]..(l[1] + width[l] - 1) : l \in Lines(s)} = GoneOf(s)
  BY <1>1 DEF GoneOf
<1> QED
  BY <1>2, <1>3 DEF Trimmed, Standing

\* The numbers and tabs are dropped, and nothing else is.
LEMMA GoneIs ==
  ASSUME NEW nos, NEW rows, Tabs(nos, rows), NEW c, NEW s, StripFacts(c, s, nos, rows),
         NEW k \in 1..Len(rows)
  PROVE  /\ (c[k - 1] + 1)..(c[k - 1] + Len(nos[k]) + 1) \subseteq GoneOf(s)
         /\ (c[k - 1] + Len(nos[k]) + 2)..c[k] \cap GoneOf(s) = {}
<1> DEFINE n == Len(rows)
           w(j) == Len(nos[j]) + 1
<1>1. n \in Nat \ {0} /\ c \in [0..n -> Nat] /\ \A j \in 1..n : c[j - 1] < c[j]
  <2>1. CutInto(c, s, n)
    BY DEF StripFacts
  <2> QED
    BY <2>1 DEF CutInto
<1>2. Lines(s) = {LineFrom(c, j) : j \in 1..n}
  <2>1. s \in Seq(Glyphs) /\ CutInto(c, s, n)
    BY DEF StripFacts
  <2> HIDE DEF n
  <2> QED
    BY <2>1, LinesFrom
<1>3. ASSUME NEW j \in 1..n PROVE
        /\ LineFrom(c, j)[1] = c[j - 1] + 1 /\ PrefixWidth(s, LineFrom(c, j)) = w(j)
        /\ w(j) \in Nat /\ c[j - 1] \in Nat /\ c[j] \in Nat /\ c[j - 1] + w(j) < c[j]
        /\ j - 1 \in 0..n /\ j \in 0..n
  <2>1. PrefixWidth(s, LineFrom(c, j)) = w(j)
    BY WidthsAre
  <2>2. Len(nos[j]) \in Nat /\ rows[j] \in Seq(Glyphs)
    BY DEF Tabs
  <2>3. j - 1 \in 0..n /\ j \in 0..n
    BY <1>1
  <2>4. c[j - 1] \in Nat /\ c[j] \in Nat
    BY <1>1, <2>3
  <2>5. c[j] = c[j - 1] + Len(nos[j]) + 1 + Len(rows[j]) + 1
    BY DEF StripFacts
  <2>6. Len(rows[j]) \in Nat
    BY <2>2
  <2>7. LineFrom(c, j)[1] = c[j - 1] + 1
    BY DEF LineFrom
  <2> QED
    <3> DEFINE a == Len(nos[j])   z == c[j - 1]   r == Len(rows[j])   e == c[j]
    <3>2. a \in Nat /\ z \in Nat /\ r \in Nat /\ e \in Nat /\ e = z + a + 1 + r + 1
      BY <2>2, <2>4, <2>5, <2>6
    <3> HIDE DEF a, z, r, e
    <3>3. a + 1 \in Nat /\ z + (a + 1) < e
      BY <3>2
    <3>1. w(j) \in Nat /\ c[j - 1] + w(j) < c[j]
      BY <3>3 DEF a, z, e
    <3> QED
      BY <2>1, <2>3, <2>4, <2>7, <3>1
<1> HIDE DEF w
<1>4. \A x : x \in GoneOf(s) <=> \E j \in 1..n : x \in (c[j - 1] + 1)..(c[j - 1] + 1 + w(j) - 1)
  BY <1>2, <1>3 DEF GoneOf
<1>5. \A j \in 1..n : c[j - 1] + 1 + w(j) - 1 = c[j - 1] + w(j)
  BY <1>3, SMTT(30)
<1>6. \A x : x \in GoneOf(s) <=> \E j \in 1..n : x \in (c[j - 1] + 1)..(c[j - 1] + w(j))
  BY <1>4, <1>5
<1>7. (c[k - 1] + 1)..(c[k - 1] + w(k)) \subseteq GoneOf(s)
  BY <1>6
<1>8. ASSUME NEW x \in (c[k - 1] + w(k) + 1)..c[k], x \in GoneOf(s) PROVE FALSE
  <2>1. PICK j \in 1..n : x \in (c[j - 1] + 1)..(c[j - 1] + w(j))
    BY <1>6, <1>8
  <2>2. /\ c[j - 1] < x /\ x < c[j] /\ c[k - 1] < x /\ x <= c[k] /\ x \in Int
        /\ j # k
    <3>1. w(j) \in Nat /\ c[j - 1] \in Nat /\ c[j] \in Nat /\ c[j - 1] + w(j) < c[j]
      BY <1>3
    <3>2. w(k) \in Nat /\ c[k - 1] \in Nat /\ c[k] \in Nat
      BY <1>3
    <3> DEFINE p == c[j - 1]   q == w(j)   e == c[j]   z == c[k - 1]   v == w(k)   h == c[k]
    <3>4. /\ p \in Nat /\ q \in Nat /\ e \in Nat /\ p + q < e /\ z \in Nat /\ v \in Nat /\ h \in Nat
          /\ x \in (p + 1)..(p + q) /\ x \in (z + v + 1)..h
      BY <1>8, <2>1, <3>1, <3>2
    <3>5. j = k => p = z /\ q = v
      OBVIOUS
    <3> HIDE DEF p, q, e, z, v, h
    <3>6. p < x /\ x < e /\ z < x /\ x <= h /\ x \in Int /\ ~(p = z /\ q = v)
      BY <3>4
    <3> QED
      BY <3>5, <3>6 DEF p, e, z, h
  <2>3. CASE j < k
    <3> DEFINE y == k - 1
    <3>1. j \in 0..n /\ y \in j..n
      BY <1>1, <2>3
    <3> HIDE DEF y
    <3>2. c[j] <= c[y]
      BY <1>1, <3>1, CutsGrow
    <3> QED
      BY <1>3, <2>2, <3>2, SMTT(30) DEF y
  <2>4. CASE k < j
    <3> DEFINE y == j - 1
    <3>1. k \in 0..n /\ y \in k..n
      BY <1>1, <2>4
    <3> HIDE DEF y
    <3>2. c[k] <= c[y]
      BY <1>1, <3>1, CutsGrow
    <3> QED
      BY <1>3, <2>2, <3>2, SMTT(30) DEF y
  <2> QED
    BY <1>1, <2>2, <2>3, <2>4
<1>9. Len(nos[k]) \in Nat
  BY DEF Tabs
<1>10. c[k - 1] + w(k) = c[k - 1] + Len(nos[k]) + 1
       /\ c[k - 1] + w(k) + 1 = c[k - 1] + Len(nos[k]) + 2
  BY <1>3, <1>9, SMTT(30) DEF w
<1>11. (c[k - 1] + w(k) + 1)..c[k] \cap GoneOf(s) = {}
  BY <1>8
<1> QED
  BY <1>7, <1>10, <1>11

\* f has the k-th row, and the newline behind it unless it is the last one.
RowAdded(f, c, rows, k) ==
  /\ f[c[k] - 1] = f[c[k - 1]] \o rows[k]
  /\ k < Len(rows) => f[c[k]] = f[c[k] - 1] \o <<Newline>>

\* One row more is stripped: its number and tab add nothing, its text all of it.
LEMMA RowStripped ==
  ASSUME NEW nos, NEW rows, Tabs(nos, rows), NEW c, NEW s, StripFacts(c, s, nos, rows),
         NEW F, Joinings(F, Standing(s, GoneOf(s)), Len(s), Glyphs), NEW k \in 1..Len(rows)
  PROVE  RowAdded(F, c, rows, k)
<1> DEFINE n == Len(rows)   a == Len(nos[k])   r == rows[k]   z == c[k - 1]   e == c[k]
           G == GoneOf(s)
           b == z + a + 1
<1>1. n \in Nat \ {0} /\ k \in 0..n /\ k - 1 \in 0..n /\ a \in Nat \ {0} /\ r \in Seq(Glyphs)
  BY DEF Tabs
<1>2. /\ s \in Seq(Glyphs) /\ c \in [0..n -> Nat] /\ c[n] = Len(s) + 1
      /\ \A j \in 1..n : c[j - 1] < c[j]
      /\ k \in 1..(n - 1) => s[c[k]] = Newline
  BY DEF StripFacts, CutInto
<1>3. e = z + a + 1 + Len(r) + 1 /\ \A i \in 1..Len(r) : s[z + a + 1 + i] = r[i]
  BY DEF StripFacts
<1>4. (z + 1)..(z + a + 1) \subseteq G /\ (z + a + 2)..e \cap G = {}
  BY GoneIs
<1>5. z \in Nat /\ e \in Nat /\ Len(r) \in Nat /\ Len(s) \in Nat /\ e <= c[n] /\ (k < n => e < c[n])
  <2>1. n \in k..n /\ n \in 0..n
    BY <1>1
  <2>2. c[k] <= c[n] /\ (k < n => c[k] < c[n])
    BY <1>1, <1>2, <2>1, CutsGrow
  <2>3. z \in Nat /\ e \in Nat
    BY <1>1, <1>2
  <2>4. Len(r) \in Nat /\ Len(s) \in Nat
    BY <1>1, <1>2
  <2> QED
    BY <2>2, <2>3, <2>4
<1> HIDE DEF n, a, r, z, e, G
<1>6. /\ z \in 0..Len(s) /\ b \in z..Len(s) /\ (z + 1)..b \subseteq G
      /\ b \in 0..Len(s) /\ e - 1 \in b..Len(s) /\ (b + 1)..(e - 1) \cap G = {}
  <2> DEFINE h == Len(s)   m == Len(r)   q == c[n]
  <2>1. /\ a \in Nat /\ z \in Nat /\ e \in Nat /\ m \in Nat /\ h \in Nat
        /\ e = z + a + 1 + m + 1 /\ q = h + 1 /\ e <= q
    BY <1>1, <1>2, <1>3, <1>5
  <2> HIDE DEF h, m, q
  <2>2. z \in 0..h /\ b \in z..h /\ b \in 0..h /\ e - 1 \in b..h
    BY <2>1
  <2>3. (z + 1)..b \subseteq G
    BY <1>4
  <2>4. (b + 1)..(e - 1) \cap G = {}
    <3>1. (b + 1)..(e - 1) \subseteq (z + a + 2)..e
      BY <2>1
    <3> QED
      BY <1>4, <3>1, Zenon
  <2> QED
    BY <2>2, <2>3, <2>4 DEF h
<1>7. \A i \in 1..Len(r) : b + i = z + a + 1 + i
  BY <1>1, <1>5
<1> HIDE DEF b
<1>8. F[b] = F[z]
  BY <1>2, <1>6, GoneAddsNothing DEF G
<1>9. F[e - 1] = F[b] \o SubSeq(s, b + 1, e - 1)
  <2> DEFINE y == e - 1
  <2>1. y \in b..Len(s) /\ (b + 1)..y \cap G = {}
    BY <1>6
  <2> HIDE DEF y
  <2>2. AddsText(F, s, b, y)
    BY <1>2, <1>6, <2>1, StandingAdds DEF G
  <2> QED
    BY <2>2 DEF y, AddsText
<1>10. SubSeq(s, b + 1, e - 1) = r
  <2> DEFINE t == SubSeq(s, b + 1, e - 1)
  <2>1. e - 1 = b + Len(r) /\ b + 1 \in 1..(Len(s) + 1) /\ e - 1 \in b..Len(s) /\ b \in Nat
    BY <1>1, <1>3, <1>5, <1>6 DEF b
  <2>2. \A i \in (b + 1)..(e - 1) : s[i] \in Glyphs
    BY <1>2, <1>5, <2>1
  <2>3. t \in Seq(Glyphs) /\ Len(t) = Len(r) /\ \A i \in 1..Len(r) : t[i] = s[b + i]
    <3>1. t \in Seq(Glyphs) /\ Len(t) = Len(r)
      BY <1>5, <2>1, <2>2, SubSeqProperties
    <3>2. \A i \in 1..Len(r) : t[i] = s[(b + 1) + i - 1]
      BY <1>5, <2>1, <2>2, SubSeqProperties
    <3>3. \A i \in 1..Len(r) : (b + 1) + i - 1 = b + i
      BY <2>1
    <3> QED
      BY <3>1, <3>2, <3>3
  <2> HIDE DEF t
  <2>4. \A i \in 1..Len(t) : t[i] = r[i]
    BY <1>3, <1>7, <2>3
  <2>5. t = r
    BY <1>1, <2>3, <2>4, SameText
  <2> QED
    BY <2>5 DEF t
<1>11. F[e - 1] = F[z] \o r
  BY <1>8, <1>9, <1>10
<1>12. ASSUME k < n PROVE F[e] = F[e - 1] \o <<Newline>>
  <2>1. e \in 1..Len(s) /\ e \notin G /\ k \in 1..(n - 1)
    <3>1. e \in (z + a + 2)..e
      BY <1>1, <1>3, <1>5
    <3>2. e \notin G
      BY <1>4, <3>1
    <3>3. k \in 1..(n - 1)
      BY <1>1, <1>12
    <3>4. e \in 1..Len(s)
      BY <1>1, <1>2, <1>3, <1>5, <1>12, SMTT(30)
    <3> QED
      BY <3>2, <3>3, <3>4
  <2>2. s[e] = Newline
    BY <1>2, <2>1 DEF e
  <2>3. F[e] = F[e - 1] \o Standing(s, G)[e]
    BY <2>1, Zenon DEF Joinings, G
  <2>4. Standing(s, G)[e] = <<Newline>>
    BY <2>1, <2>2 DEF Standing
  <2> QED
    BY <2>3, <2>4
<1> QED
  BY <1>11, <1>12 DEF n, r, z, e, RowAdded

\* Taking the numbers off rows that have them gives the rows.
LEMMA NumbersOff ==
  ASSUME NEW nos, NEW rows, Tabs(nos, rows), NoEnds(rows)
  PROVE  strip_line_prefixes(Joined(Tabbed(nos, rows))) = Joined(rows)
<1> DEFINE s == Joined(Tabbed(nos, rows))
           n == Len(rows)
           P == RowParts(rows)
<1>1. PICK c : StripFacts(c, s, nos, rows)
  BY StripFactsHold
<1>2. rows \in Seq(Seq(Glyphs)) /\ n \in Nat \ {0} /\ \A k \in 1..n : rows[k] \in Seq(Glyphs)
  BY DEF Tabs
<1>3. s \in Seq(Glyphs) /\ c \in [0..n -> Nat] /\ c[n] = Len(s) + 1 /\ c[0] = 0
  BY <1>1 DEF StripFacts, CutInto
<1> HIDE DEF s
<1>4. PICK F : Joinings(F, Standing(s, GoneOf(s)), Len(s), Glyphs)
               /\ FlattenSeq(Standing(s, GoneOf(s))) = F[Len(s)]
  BY <1>3, StandingAreParts, FlattenSteps
<1>5. PICK g : Joinings(g, P, n, Glyphs) /\ Joined(rows) = g[n]
  BY <1>2, GlyphsAre, JoinedIs
<1>6. /\ g[0] = << >> /\ g \in [0..n -> Seq(Glyphs)]
      /\ \A k \in 1..n : g[k] = g[k - 1] \o P[k]
  BY <1>5 DEF Joinings
<1>7. \A k \in 1..n : P[k] = IF k = 1 THEN rows[k] ELSE <<Newline>> \o rows[k]
  BY DEF RowParts
<1>8. F[0] = << >>
  BY <1>4 DEF Joinings
<1>9. ASSUME NEW k \in 1..n PROVE
        /\ F[c[k] - 1] = F[c[k - 1]] \o rows[k]
        /\ k < n => F[c[k]] = F[c[k] - 1] \o <<Newline>>
  <2>1. RowAdded(F, c, rows, k)
    BY <1>1, <1>4, RowStripped
  <2> QED
    BY <2>1 DEF RowAdded
<1> HIDE DEF n, P
<1> DEFINE T == {j \in 0..(n - 1) : F[c[j + 1] - 1] = g[j + 1]}
<1>10. 0 \in T
  <2> DEFINE k == 1
  <2>1. k \in 1..n /\ k - 1 = 0 /\ 0 \in 0..(n - 1) /\ 0 + 1 = k
    BY <1>2
  <2>2. P[k] = rows[k]
    BY <1>7, <2>1
  <2> HIDE DEF k
  <2>3. F[c[k] - 1] = F[c[k - 1]] \o rows[k]
    BY <1>9, <2>1
  <2>4. F[c[k] - 1] = << >> \o rows[k]
    BY <1>3, <1>8, <2>1, <2>3
  <2>5. g[k] = << >> \o rows[k]
    <3>1. g[k] = g[k - 1] \o P[k]
      BY <1>6, <2>1
    <3> QED
      BY <1>6, <2>1, <2>2, <3>1
  <2> QED
    BY <2>1, <2>4, <2>5
<1>11. ASSUME NEW j \in 0..(n - 2), j \in T PROVE j + 1 \in T
  <2> DEFINE k == j + 1   m == k + 1
  <2>1. k \in 1..n /\ k < n /\ m \in 1..n /\ m - 1 = k /\ m # 1 /\ k \in 0..(n - 1) /\ k \in 0..n
    BY <1>2
  <2>2. F[c[k] - 1] = g[k]
    BY <1>11
  <2> HIDE DEF k, m
  <2>3. F[c[k]] = g[k] \o <<Newline>>
    BY <1>9, <2>1, <2>2
  <2>4. F[c[m] - 1] = F[c[k]] \o rows[m]
    <3>1. F[c[m] - 1] = F[c[m - 1]] \o rows[m]
      BY <1>9, <2>1
    <3> QED
      BY <2>1, <3>1
  <2>5. g[m] = g[k] \o (<<Newline>> \o rows[m])
    <3>1. g[m] = g[m - 1] \o P[m]
      BY <1>6, <2>1
    <3>2. P[m] = <<Newline>> \o rows[m]
      BY <1>7, <2>1
    <3> QED
      BY <2>1, <3>1, <3>2
  <2>6. (g[k] \o <<Newline>>) \o rows[m] = g[k] \o (<<Newline>> \o rows[m])
    <3>1. g[k] \in Seq(Glyphs) /\ rows[m] \in Seq(Glyphs)
      BY <1>2, <1>6, <2>1
    <3>2. <<Newline>> \in Seq(Glyphs)
      BY GlyphsAre
    <3> DEFINE x == g[k]   y == <<Newline>>   z == rows[m]
    <3> HIDE DEF x, y, z
    <3>3. x \in Seq(Glyphs) /\ y \in Seq(Glyphs) /\ z \in Seq(Glyphs)
      BY <3>1, <3>2 DEF x, y, z
    <3>4. (x \o y) \o z = x \o (y \o z)
      BY <3>3, ConcatAssociative, SMTT(30)
    <3> QED
      BY <3>4 DEF x, y, z
  <2>7. F[c[m] - 1] = g[m]
    BY <2>3, <2>4, <2>5, <2>6
  <2>8. m = k + 1
    BY DEF m
  <2>9. k \in T
    BY <2>1, <2>7, <2>8
  <2> QED
    BY <2>9 DEF k
<1> DEFINE d == n - 1
<1> HIDE DEF T
<1>12. d \in Nat /\ \A j \in 0..(d - 1) : j \in T => j + 1 \in T
  BY <1>2, <1>11
<1>13. 0..d \subseteq T
  <2> HIDE DEF d
  <2> QED
    BY <1>10, <1>12, Upwards
<1>14. d \in 0..d /\ d + 1 = n
  BY <1>2
<1>15. F[c[n] - 1] = g[n]
  <2>1. d \in T
    BY <1>13, <1>14
  <2> HIDE DEF d
  <2>2. F[c[d + 1] - 1] = g[d + 1]
    BY <2>1 DEF T
  <2> QED
    BY <1>14, <2>2
<1>16. c[n] - 1 = Len(s)
  BY <1>3
<1>17. strip_line_prefixes(s) = g[n]
  BY <1>4, <1>15, <1>16, StripIs
<1> QED
  BY <1>5, <1>17 DEF s

\* Three texts are joined in either order.
InAnyOrder(x, y, z) == (x \o y) \o z = x \o (y \o z)

\* Joining is associative.
LEMMA AnyOrder ==
  ASSUME NEW S, NEW x \in Seq(S), NEW y \in Seq(S), NEW z \in Seq(S)
  PROVE  InAnyOrder(x, y, z)
BY ConcatAssociative DEF InAnyOrder

\* A part of a text that is not empty stands in it.
LEMMA StandsIn ==
  ASSUME NEW S, NEW s \in Seq(S), NEW u \in Seq(S), NEW t \in Seq(S), NEW v \in Seq(S),
         s = (u \o t) \o v, s # << >>
  PROVE  Places(s, t) # {}
<1> DEFINE w == u \o t   x == Len(u)   y == Len(t)   z == Len(s)
<1>1. IsConcat(w, u, t, S)
  BY ConcatAt
<1>2. w \in Seq(S)
  BY <1>1 DEF IsConcat
<1>3. IsConcat(s, w, v, S)
  BY <1>2, ConcatAt
<1>4. /\ x \in Nat /\ y \in Nat /\ Len(w) = x + y
      /\ \A i \in 1..y : w[x + i] = t[i]
  BY <1>1 DEF IsConcat
<1>5. z = Len(w) + Len(v) /\ Len(v) \in Nat /\ \A i \in 1..Len(w) : s[i] = w[i]
  BY <1>3 DEF IsConcat
<1>6. z \in Nat \ {0} /\ x + y <= z
  BY <1>4, <1>5, EmptySeq
<1> HIDE DEF w
<1>7. CASE y = 0
  <2>1. t = << >> /\ SubSeq(s, 1, 0) = << >>
    BY <1>7, EmptySeq, SubSeqEmpty
  <2>2. 1 \in 1..z /\ 1 + y - 1 = 0 /\ 0 <= z
    BY <1>6, <1>7
  <2>3. At(s, t, 1)
    BY <2>1, <2>2 DEF At
  <2>4. 1 \in Places(s, t)
    BY <2>2, <2>3 DEF Places
  <2> QED
    BY <2>4
<1>8. CASE y # 0
  <2> DEFINE p == x + 1   e == p + y - 1   r == SubSeq(s, p, e)
  <2>1. p \in 1..z /\ e \in p..z /\ e = x + y /\ e - p + 1 = y
    BY <1>4, <1>6, <1>8
  <2>2. \A i \in p..e : s[i] \in S
    BY <2>1, SMTT(30)
  <2> HIDE DEF x, y, z, p, e
  <2>3. r \in Seq(S) /\ Len(r) = y
    BY <1>4, <2>1, <2>2, SubSeqProperties DEF z
  <2>4. ASSUME NEW i \in 1..y PROVE r[i] = t[i]
    <3>1. r[i] = s[p + i - 1]
      BY <1>4, <2>1, <2>2, <2>4, SubSeqProperties DEF z
    <3>2. p + i - 1 = x + i /\ x + i \in 1..Len(w)
      BY <1>4, <2>4 DEF p
    <3> QED
      BY <1>4, <1>5, <3>1, <3>2
  <2> HIDE DEF r
  <2>5. r = t
    BY <2>3, <2>4, SameText DEF y
  <2>6. At(s, t, p)
    BY <2>1, <2>5, SMTT(30) DEF At, r, y, z, e
  <2>7. p \in Places(s, t)
    BY <2>1, <2>6 DEF Places, z
  <2> QED
    BY <2>7
<1> QED
  BY <1>7, <1>8

\* Some rows of a text that are joined again stand in it.
LEMMA RowsStandIn ==
  ASSUME NEW S, Newline \in S, NEW rows \in Seq(Seq(S)),
         NEW a \in 1..Len(rows), NEW b \in a..Len(rows), Joined(rows) # << >>
  PROVE  Places(Joined(rows), Joined(SubSeq(rows, a, b))) # {}
<1> DEFINE n == Len(rows)   sub == SubSeq(rows, a, b)   m == b - a + 1
           P == RowParts(rows)   Q == RowParts(sub)
           s == Joined(rows)   t == Joined(sub)
<1>1. n \in Nat /\ m \in Nat \ {0} /\ \A k \in 1..n : rows[k] \in Seq(S)
  OBVIOUS
<1>2. sub \in Seq(Seq(S)) /\ Len(sub) = m /\ \A k \in 1..m : sub[k] = rows[a + k - 1]
  <2>1. \A i \in a..b : rows[i] \in Seq(S)
    BY <1>1
  <2>2. a \in 1..(n + 1) /\ b \in (a - 1)..n
    BY <1>1
  <2>3. sub \in Seq(Seq(S)) /\ Len(sub) = m
    BY <2>1, <2>2, SubSeqProperties
  <2>4. \A k \in 1..m : sub[k] = rows[a + k - 1]
    BY <2>1, <2>2, SubSeqProperties
  <2> QED
    BY <2>3, <2>4
<1>3. PICK f : Joinings(f, P, n, S) /\ s = f[n]
  BY JoinedIs
<1>4. PICK g : Joinings(g, Q, m, S) /\ t = g[m]
  <2> HIDE DEF sub, m
  <2> QED
    BY <1>2, JoinedIs
<1>5. Parts(P, n, S)
  BY JoinedIs
<1>6. \A k \in 1..n : P[k] = IF k = 1 THEN rows[k] ELSE <<Newline>> \o rows[k]
  BY DEF RowParts
<1>7. \A k \in 1..m : Q[k] = IF k = 1 THEN sub[k] ELSE <<Newline>> \o sub[k]
  BY <1>2 DEF RowParts
<1>8. a \in Nat \ {0} /\ b \in Nat /\ b <= n /\ a <= b /\ m = b - a + 1
  BY <1>1
<1> HIDE DEF n, sub, m, P, Q, s, t
<1>9. /\ f[0] = << >> /\ f \in [0..n -> Seq(S)] /\ \A k \in 1..n : f[k] = f[k - 1] \o P[k]
      /\ g[0] = << >> /\ g \in [0..m -> Seq(S)] /\ \A k \in 1..m : g[k] = g[k - 1] \o Q[k]
  BY <1>3, <1>4 DEF Joinings
<1> DEFINE mark == IF a = 1 THEN << >> ELSE <<Newline>>
           u == f[a - 1] \o mark
<1>10. mark \in Seq(S) /\ f[a - 1] \in Seq(S) /\ u \in Seq(S)
  <2>1. mark \in Seq(S)
    OBVIOUS
  <2>2. f[a - 1] \in Seq(S)
    <3>1. a - 1 \in 0..n
      BY <1>1, <1>8
    <3> QED
      BY <1>9, <3>1
  <2> DEFINE w == f[a - 1]
  <2>3. w \in Seq(S)
    BY <2>2
  <2> HIDE DEF mark, w
  <2>4. w \o mark \in Seq(S)
    BY <2>1, <2>3, ConcatProperties
  <2> QED
    BY <2>1, <2>2, <2>4 DEF w
<1> DEFINE T == {j \in 0..(m - 1) : f[a + j] = u \o g[1 + j]}
<1>11. 0 \in T
  <2> DEFINE w == f[a - 1]   r == rows[a]
  <2>1. a \in 1..n /\ a + 0 = a /\ 1 + 0 = 1 /\ 0 \in 0..(m - 1) /\ 1 \in 1..m /\ a + 1 - 1 = a /\ 1 - 1 = 0
    BY <1>1, <1>8
  <2>2. f[a] = w \o P[a]
    BY <1>9, <2>1
  <2>3. Q[1] = r
    <3>1. Q[1] = sub[1]
      BY <1>7, <2>1
    <3>2. sub[1] = rows[a + 1 - 1]
      BY <1>2, <2>1
    <3> QED
      BY <2>1, <3>1, <3>2
  <2>4. w \in Seq(S) /\ r \in Seq(S)
    BY <1>1, <1>10, <2>1
  <2>5. g[1] = r
    <3>1. g[1] = g[1 - 1] \o Q[1]
      BY <1>9, <2>1
    <3>2. << >> \o r = r
      BY <2>4, ConcatEmptySeq
    <3> QED
      BY <1>9, <2>1, <2>3, <3>1, <3>2
  <2>6. P[a] = mark \o r
    <3>1. CASE a = 1
      <4>1. P[a] = r
        BY <1>6, <2>1, <3>1
      <4>2. << >> \o r = r
        BY <2>4, ConcatEmptySeq
      <4> QED
        BY <3>1, <4>1, <4>2
    <3>2. CASE a # 1
      BY <1>6, <2>1, <3>2
    <3> QED
      BY <3>1, <3>2
  <2>12. mark \in Seq(S)
    BY <1>10
  <2> HIDE DEF w, r, mark
  <2>7. (w \o mark) \o r = w \o (mark \o r)
    <3>1. InAnyOrder(w, mark, r)
      BY <2>4, <2>12, AnyOrder
    <3> QED
      BY <3>1 DEF InAnyOrder
  <2>8. f[a] = u \o g[1]
    BY <2>2, <2>5, <2>6, <2>7 DEF w
  <2> DEFINE z == 0
  <2>9. z \in 0..(m - 1) /\ a + z = a /\ 1 + z = 1
    BY <1>8, <2>1
  <2> HIDE DEF z, u
  <2>10. f[a + z] = u \o g[1 + z]
    BY <2>8, <2>9, Zenon
  <2>11. z \in T
    BY <2>9, <2>10
  <2> QED
    BY <2>11 DEF z
<1>12. ASSUME NEW j \in 0..(m - 2), j \in T PROVE j + 1 \in T
  <2> DEFINE k == 1 + j   h == k + 1   p == a + j   q == p + 1
  <2>1. /\ k \in 1..m /\ h \in 1..m /\ h - 1 = k /\ h # 1 /\ p \in 1..n /\ q \in 1..n /\ q - 1 = p
        /\ q # 1 /\ a + h - 1 = q /\ j + 1 \in 0..(m - 1) /\ a + (j + 1) = q /\ 1 + (j + 1) = h
        /\ k \in 0..m /\ p \in 0..n
    BY <1>1, <1>8
  <2>2. f[p] = u \o g[k]
    BY <1>12
  <2> HIDE DEF k, h, p, q, u
  <2> DEFINE x == g[k]   y == <<Newline>> \o rows[q]
  <2>3. f[q] = f[p] \o y
    <3>1. f[q] = f[q - 1] \o P[q]
      BY <1>9, <2>1
    <3>2. P[q] = y
      BY <1>6, <2>1
    <3> QED
      BY <2>1, <3>1, <3>2
  <2>4. g[h] = x \o y
    <3>1. g[h] = g[h - 1] \o Q[h]
      BY <1>9, <2>1
    <3>2. Q[h] = <<Newline>> \o sub[h]
      BY <1>7, <2>1
    <3>3. sub[h] = rows[q]
      BY <1>2, <2>1
    <3> QED
      BY <2>1, <3>1, <3>2, <3>3
  <2>5. x \in Seq(S) /\ y \in Seq(S)
    <3>1. x \in Seq(S) /\ rows[q] \in Seq(S)
      BY <1>1, <1>9, <2>1
    <3>2. <<Newline>> \in Seq(S)
      OBVIOUS
    <3> QED
      BY <3>1, <3>2, ConcatProperties
  <2>11. u \in Seq(S)
    BY <1>10
  <2> HIDE DEF x, y
  <2>6. (u \o x) \o y = u \o (x \o y)
    <3>1. InAnyOrder(u, x, y)
      BY <2>5, <2>11, AnyOrder
    <3> QED
      BY <3>1 DEF InAnyOrder
  <2>7. f[q] = u \o g[h]
    BY <2>2, <2>3, <2>4, <2>6 DEF x
  <2> DEFINE i == j + 1
  <2>8. i \in 0..(m - 1) /\ a + i = q /\ 1 + i = h
    BY <2>1
  <2> HIDE DEF i
  <2>9. f[a + i] = u \o g[1 + i]
    BY <2>7, <2>8, Zenon
  <2>10. i \in T
    BY <2>8, <2>9
  <2> QED
    BY <2>10 DEF i
<1> HIDE DEF T, u, mark
<1> DEFINE d == m - 1
<1>13. d \in Nat /\ \A j \in 0..(d - 1) : j \in T => j + 1 \in T
  BY <1>8, <1>12
<1>14. d \in 0..d /\ a + d = b /\ 1 + d = m
  BY <1>8
<1>15. 0..d \subseteq T
  <2> HIDE DEF d
  <2> QED
    BY <1>11, <1>13, Upwards
<1>16. f[b] = u \o t
  <2>1. d \in T
    BY <1>14, <1>15
  <2> HIDE DEF d
  <2>2. f[a + d] = u \o g[1 + d]
    BY <2>1 DEF T
  <2> QED
    BY <1>4, <1>14, <2>2
<1>17. PICK v \in Seq(S) : s = (u \o t) \o v
  <2>1. b \in 0..n
    BY <1>1, <1>8
  <2>2. StartsWith(f[n], f[b], S)
    BY <1>3, <1>5, <2>1, JoinsStart
  <2> QED
    BY <1>3, <1>16, <2>2 DEF StartsWith
<1>18. t \in Seq(S) /\ s \in Seq(S)
  <2>1. m \in 0..m /\ n \in 0..n
    BY <1>1, <1>8
  <2> QED
    BY <1>3, <1>4, <1>9, <2>1
<1>19. s # << >>
  BY DEF s
<1>20. Places(s, t) # {}
  BY <1>10, <1>17, <1>18, <1>19, StandsIn
<1> QED
  BY <1>20 DEF s, t, sub

\* A text over some symbols is one over more symbols.
LEMMA Wider ==
  ASSUME NEW S, NEW T, S \subseteq T, NEW s \in Seq(S)
  PROVE  s \in Seq(T)
<1>1. s \in [1..Len(s) -> S] /\ Len(s) \in Nat
  BY LenProperties
<1>2. \A i \in 1..Len(s) : s[i] \in T
  BY <1>1
<1> QED
  BY <1>1, <1>2

\* The rows of a file hold no newline, and its last row ends what stands in it.
LEMMA EntryRows ==
  ASSUME NEW e \in Entries
  PROVE  /\ Rows(e) \in Seq(Seq(Glyphs)) /\ Len(Rows(e)) \in Nat /\ NoEnds(Rows(e))
         /\ Len(Rows(e)) = 1 => Rows(e)[1] # << >>
<1> DEFINE ls == e.lines   n == Len(ls)   ends == e.nl   none == << >>
<1>1. /\ ls \in Seq(Texts) /\ ends \in BOOLEAN
      /\ \A k \in DOMAIN ls : \A i \in DOMAIN ls[k] : ls[k][i] # Newline
      /\ IF ls = none THEN ~ends ELSE ends \/ ls[n] # none
  BY DEF Entries, Split
<1>2. n \in Nat /\ DOMAIN ls = 1..n /\ (ls = none <=> n = 0)
  BY <1>1, LenProperties, EmptySeq
<1>3. Rows(e) = IF ends THEN Append(ls, none) ELSE ls
  BY DEF Rows
<1>4. none \in Seq(Glyphs) /\ Len(none) = 0
  OBVIOUS
<1>5. \A k \in 1..n : ls[k] \in Texts /\ ls[k] \in Seq(Glyphs) /\ DOMAIN ls[k] = 1..Len(ls[k])
  <2> TAKE k \in 1..n
  <2>1. ls[k] \in Texts
    BY <1>1, <1>2
  <2>2. ls[k] \in Seq(Glyphs)
    BY <2>1, GlyphsAre, Wider DEF Texts
  <2>3. DOMAIN ls[k] = 1..Len(ls[k])
    BY <2>2, LenProperties
  <2> QED
    BY <2>1, <2>2, <2>3
<1> HIDE DEF ls, n, ends, none
<1>6. ls \in Seq(Seq(Glyphs)) /\ Len(ls) = n
  <2>1. \A k \in 1..Len(ls) : ls[k] \in Seq(Glyphs)
    BY <1>5 DEF n
  <2>2. ls \in Seq(Seq(Glyphs))
    BY <1>1, <2>1
  <2> QED
    BY <2>2 DEF n
<1>7. NoEnds(ls)
  BY <1>1, <1>2, <1>5, <1>6 DEF NoEnds
<1>8. CASE ~ends
  <2>1. Rows(e) = ls
    BY <1>3, <1>8
  <2>2. n = 1 => ls[1] # none
    BY <1>1, <1>2, <1>8
  <2> QED
    BY <1>2, <1>6, <1>7, <2>1, <2>2 DEF none
<1>9. CASE ends
  <2> DEFINE r == Append(ls, none)
  <2>1. Rows(e) = r
    BY <1>3, <1>9
  <2>2. /\ r \in Seq(Seq(Glyphs)) /\ Len(r) = n + 1 /\ r[n + 1] = none
        /\ \A k \in 1..n : r[k] = ls[k]
    <3>1. r \in Seq(Seq(Glyphs)) /\ Len(r) = n + 1
      BY <1>4, <1>6, AppendProperties
    <3>2. r[n + 1] = none /\ \A k \in 1..n : r[k] = ls[k]
      BY <1>4, <1>6, AppendProperties
    <3> QED
      BY <3>1, <3>2
  <2> HIDE DEF r
  <2>3. NoEnds(r)
    <3>1. ASSUME NEW k \in 1..(n + 1), NEW i \in 1..Len(r[k]) PROVE r[k][i] # Newline
      <4>1. CASE k = n + 1
        BY <1>4, <2>2, <3>1, <4>1
      <4>2. CASE k \in 1..n
        BY <1>6, <1>7, <2>2, <3>1, <4>2 DEF NoEnds
      <4> QED
        BY <1>2, <4>1, <4>2
    <3> QED
      BY <2>2, <3>1 DEF NoEnds
  <2>4. n # 0
    BY <1>1, <1>2, <1>9
  <2>5. Len(r) \in Nat /\ Len(r) # 1
    BY <1>2, <2>2, <2>4
  <2> QED
    BY <2>1, <2>2, <2>3, <2>5
<1> QED
  BY <1>8, <1>9

\* A file with rows is not empty.
LEMMA ContentStands ==
  ASSUME NEW e \in Entries, Len(Rows(e)) # 0
  PROVE  Content(e) # << >>
<1> DEFINE rows == Rows(e)   n == Len(rows)   s == Joined(rows)
<1>1. rows \in Seq(Seq(Glyphs)) /\ n \in Nat \ {0}
  BY EntryRows
<1>9. n = 1 => rows[1] # << >>
  BY EntryRows
<1>2. \A k \in 1..n : rows[k] \in Seq(Glyphs) /\ Len(rows[k]) \in Nat
  BY <1>1
<1>10. Newline \in Glyphs
  BY GlyphsAre
<1> HIDE DEF rows, s
<1>3. PICK f : Joinings(f, RowParts(rows), n, Glyphs) /\ s = f[n]
  BY <1>1, <1>10, JoinedIs DEF s
<1>4. PICK c : RowsAt(c, f[n], rows)
  BY <1>1, <1>3, <1>10, RowsStand
<1>5. /\ c \in [0..n -> Nat] /\ c[0] = 0 /\ c[n] = Len(s) + 1
      /\ \A k \in 1..n : c[k] = c[k - 1] + Len(rows[k]) + 1
  BY <1>3, <1>4 DEF RowsAt
<1> HIDE DEF n
<1>6. c[n] = c[n - 1] + Len(rows[n]) + 1 /\ n - 1 \in 0..n /\ c[n - 1] \in Nat /\ Len(rows[n]) \in Nat
  <2>1. n \in 1..n /\ n - 1 \in 0..n
    BY <1>1
  <2> QED
    BY <1>2, <1>5, <2>1
<1>7. Len(s) # 0
  <2>1. CASE n = 1
    <3>1. rows[1] # << >> /\ rows[1] \in Seq(Glyphs)
      BY <1>1, <1>2, <1>9, <2>1
    <3>2. Len(rows[1]) # 0
      BY <3>1, EmptySeq
    <3>3. c[n - 1] = 0 /\ Len(rows[n]) # 0
      BY <1>5, <2>1, <3>2
    <3>4. Len(s) + 1 = Len(rows[n]) + 1
      BY <1>5, <1>6, <3>3
    <3>5. Len(s) = Len(s) + 1 - 1
      <4>1. s \in Seq(Glyphs)
        BY <1>1, <1>3 DEF Joinings
      <4> QED
        BY <4>1
    <3> QED
      BY <1>6, <3>3, <3>4, <3>5
  <2>2. CASE n # 1
    <3> DEFINE m == n - 1
    <3>1. m \in 1..n /\ m - 1 \in 0..n
      BY <1>1, <2>2
    <3> HIDE DEF m
    <3>2. c[m] = c[m - 1] + Len(rows[m]) + 1 /\ c[m - 1] \in Nat /\ Len(rows[m]) \in Nat
      BY <1>2, <1>5, <3>1
    <3>3. c[n - 1] # 0 /\ c[n - 1] \in Nat
      BY <3>2 DEF m
    <3> QED
      BY <1>5, <1>6, <3>3
  <2> QED
    BY <2>1, <2>2
<1>8. s # << >>
  BY <1>7, EmptySeq
<1> QED
  BY <1>8 DEF s, rows, Content

-----------------------------------------------------------------------------
\* A page shows rows of the file as it is: a change of any file ends it.
PageIsOfFile ==
  page.tag = "page" =>
    /\ page.path \in Paths /\ page.off \in Nat \ {0}
    /\ \E last \in page.off..Len(Rows(disk[page.path])) :
         page.rows = SubSeq(Rows(disk[page.path]), page.off, last)

\* A read that is answered by a page returns rows of the file.
LEMMA ReadOfIsRows ==
  ASSUME NEW e \in Entries, NEW off \in Nat \ {0}, ReadOf(e, off).tag = "page"
  PROVE  \E last \in off..Len(Rows(e)) : ReadOf(e, off).rows = SubSeq(Rows(e), off, last)
<1> DEFINE rows == Rows(e)
           last == IF off + PAGE - 1 < Len(rows) THEN off + PAGE - 1 ELSE Len(rows)
<1>1. Len(rows) \in Nat /\ PAGE \in Nat \ {0}
  BY RowsAreTexts, LookupAssumption
<1>2. /\ Readable(e) /\ rows # <<>> /\ ~(off > Len(rows))
      /\ ReadOf(e, off) = [tag |-> "page", rows |-> SubSeq(rows, off, last)]
  BY DEF ReadOf
<1>3. last \in off..Len(rows)
  BY <1>1, <1>2
<1> DEFINE r == SubSeq(rows, off, last)   read == ReadOf(e, off)
<1> HIDE DEF last, rows
<1>4. read.rows = r
  <2>1. read = [tag |-> "page", rows |-> r]
    BY <1>2
  <2> HIDE DEF r, read
  <2> QED
    BY <2>1
<1> QED
  BY <1>3, <1>4 DEF rows

\* A step leaves a page of the file, or none.
LEMMA NextPageIsOfFile ==
  ASSUME ReadInv, PageIsOfFile, [Next]_vars PROVE PageIsOfFile'
<1>1. ASSUME UNCHANGED <<disk, page>> PROVE PageIsOfFile'
  BY <1>1 DEF PageIsOfFile
<1>2. CASE tool_grep \/ Visit \/ PassEnds \/ UNCHANGED vars
  <2>1. UNCHANGED <<disk, page>>
    BY <1>2 DEF tool_grep, Visit, PassEnds, reading, vars
  <2> QED
    BY <1>1, <2>1, SMTT(30)
<1>3. CASE Change
  <2>1. page'.tag = "none"
    BY <1>3 DEF Change, NoPage
  <2> QED
    BY <2>1 DEF PageIsOfFile
<1>4. CASE serve_read_page
  <2>1. PICK f \in asks.reads \ done :
          page' = [path |-> f, off |-> next[f], tag |-> ReadOf(disk[f], next[f]).tag,
                   rows |-> ReadOf(disk[f], next[f]).rows]
    BY <1>4 DEF serve_read_page
  <2>2. disk' = disk
    BY <1>4 DEF serve_read_page
  <2> DEFINE read == ReadOf(disk[f], next[f])   off == next[f]
  <2>3. f \in Paths /\ disk[f] \in Entries /\ off \in Nat \ {0}
    BY DEF ReadInv, ReadTypeOK
  <2>4. ASSUME read.tag = "page"
        PROVE  \E last \in off..Len(Rows(disk[f])) : read.rows = SubSeq(Rows(disk[f]), off, last)
    BY <2>3, <2>4, ReadOfIsRows
  <2> HIDE DEF read
  <2>5. page'.path = f /\ page'.off = off /\ page'.tag = read.tag /\ page'.rows = read.rows
    BY <2>1 DEF read
  <2> HIDE DEF off
  <2> QED
    BY <2>2, <2>3, <2>4, <2>5 DEF PageIsOfFile
<1> QED
  BY <1>2, <1>3, <1>4 DEF Next

\* A page is rows of the file that stands there now, from its offset on.
THEOREM PagesAreOfFiles == Spec => []PageIsOfFile
<1>1. Init => PageIsOfFile
  <2> SUFFICES ASSUME Init PROVE PageIsOfFile
    OBVIOUS
  <2>1. page = NoPage
    BY DEF Init
  <2>2. page.tag = "none"
    BY <2>1 DEF NoPage
  <2> QED
    BY <2>2 DEF PageIsOfFile
<1>2. ReadInv /\ PageIsOfFile /\ [Next]_vars => PageIsOfFile'
  BY NextPageIsOfFile
<1> QED
  BY <1>1, <1>2, CursorCounts, PTL DEF Spec

\* A page quoted back as the text to replace, numbers and all, is found in the
\* file once the edit tool has taken the numbers off.
THEOREM QuotedPagesAreFound == Spec => []QuotedPageIsFound
<1>1. ReadInv /\ PageIsOfFile => QuotedPageIsFound
  <2> SUFFICES ASSUME ReadInv, PageIsOfFile, page.tag = "page",
                      \A k \in DOMAIN page.rows : chomp_cr(page.rows[k]) = page.rows[k]
               PROVE  Places(Content(disk[page.path]), strip_line_prefixes(Rendered(page))) # {}
    BY DEF QuotedPageIsFound
  <2> DEFINE e == disk[page.path]   all == Rows(e)   off == page.off   rows == page.rows
             n == Len(rows)
             nos == [k \in 1..n |-> show(off + k - 1)]
  <2>1. e \in Entries /\ off \in Nat \ {0}
    BY DEF ReadInv, ReadTypeOK, PageIsOfFile
  <2>2. PICK last \in off..Len(all) : rows = SubSeq(all, off, last)
    BY DEF PageIsOfFile
  <2>3. all \in Seq(Seq(Glyphs)) /\ Len(all) \in Nat /\ NoEnds(all)
    BY <2>1, EntryRows
  <2>4. \A k \in DOMAIN rows : chomp_cr(rows[k]) = rows[k]
    OBVIOUS
  <2>5. Rendered(page) = Joined([k \in 1..n |-> render_line(off + k - 1, rows[k])])
    BY DEF Rendered
  <2>6. Content(e) = Joined(all)
    BY DEF Content
  <2>7. Joined(all) # << >>
    <3>1. Len(all) # 0
      BY <2>1, <2>2, <2>3
    <3> QED
      BY <2>1, <2>6, <3>1, ContentStands
  <2> HIDE DEF e, all, off, rows
  <2>8. /\ rows \in Seq(Seq(Glyphs)) /\ n \in Nat \ {0} /\ DOMAIN rows = 1..n
        /\ \A k \in 1..n : off + k - 1 \in 1..Len(all) /\ rows[k] = all[off + k - 1]
    <3>1. off \in 1..(Len(all) + 1) /\ last \in (off - 1)..Len(all) /\ last - off + 1 \in Nat \ {0}
      BY <2>1, <2>2, <2>3
    <3>2. \A i \in off..last : all[i] \in Seq(Glyphs)
      BY <2>1, <2>2, <2>3
    <3>3. rows \in Seq(Seq(Glyphs)) /\ n = last - off + 1
      BY <2>2, <2>3, <3>1, <3>2, SubSeqProperties
    <3>4. \A k \in 1..(last - off + 1) : rows[k] = all[off + k - 1]
      BY <2>2, <2>3, <3>1, <3>2, SubSeqProperties
    <3>5. \A k \in 1..(last - off + 1) : off + k - 1 \in 1..Len(all)
      BY <2>1, <2>2, <2>3
    <3>6. DOMAIN rows = 1..n
      BY <3>3, LenProperties
    <3>7. n \in Nat \ {0}
      BY <3>1, <3>3
    <3>8. \A k \in 1..n : off + k - 1 \in 1..Len(all) /\ rows[k] = all[off + k - 1]
      BY <3>3, <3>4, <3>5
    <3> QED
      BY <3>3, <3>6, <3>7, <3>8
  <2>9. NoEnds(rows)
    BY <2>3, <2>8, SMTT(30) DEF NoEnds
  <2>10. \A k \in 1..n : nos[k] = show(off + k - 1)
    OBVIOUS
  <2>11. Tabs(nos, rows)
    <3>1. \A k \in 1..n : off + k - 1 \in Nat
      BY <2>8
    <3>2. \A k \in 1..n : nos[k] \in Seq(Digits) /\ Len(nos[k]) \in Nat \ {0}
      BY <2>10, <3>1, ShowIs
    <3> QED
      BY <2>8, <3>2 DEF Tabs
  <2>12. Rendered(page) = Joined(Tabbed(nos, rows))
    <3>1. \A k \in 1..n : render_line(off + k - 1, rows[k]) = nos[k] \o <<Tab>> \o rows[k]
      BY <2>4, <2>8, <2>10 DEF render_line
    <3> HIDE DEF nos
    <3>2. [k \in 1..n |-> render_line(off + k - 1, rows[k])] = Tabbed(nos, rows)
      BY <3>1 DEF Tabbed
    <3> QED
      BY <2>5, <3>2
  <2> HIDE DEF nos
  <2>13. strip_line_prefixes(Rendered(page)) = Joined(rows)
    BY <2>9, <2>11, <2>12, NumbersOff
  <2>14. Places(Joined(all), Joined(SubSeq(all, off, last))) # {}
    <3>1. off \in 1..Len(all)
      BY <2>1, <2>2, <2>3
    <3> QED
      BY <2>2, <2>3, <2>7, <3>1, GlyphsAre, RowsStandIn
  <2> QED
    BY <2>2, <2>6, <2>13, <2>14 DEF e
<1> QED
  BY <1>1, CursorCounts, PagesAreOfFiles, PTL
=============================================================================
