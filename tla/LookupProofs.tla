---------------------------- MODULE LookupProofs ----------------------------
(***************************************************************************)
(* What the reader and the search say of the files.  A cursor: the lines   *)
(* served are those before it, so a file reported as read in full was.  A  *)
(* search: at every step of a walk the listing has the hits of the files   *)
(* visited, and the pieces of a missed pattern are the longest that stand  *)
(* in one of them; so an answer is true of all files the search covers.    *)
(* And what the listing shows of a file is each hit with its context.      *)
(***************************************************************************)
EXTENDS Lookup, TextProofs
LOCAL INSTANCE SequencesExt

\* What a run may ask, and the shapes of the reader's state.
ReadTypeOK ==
  /\ disk \in [Paths -> Entries]
  /\ asks.reads \subseteq Paths
  /\ \A c \in asks.changes : c.path \in Paths /\ c.entry \in Entries
  /\ next \in [Paths -> Nat \ {0}]
  /\ done \subseteq Paths
  /\ seen \in [Paths -> SUBSET Nat]

\* The rows of an entry before a line.
Before(e, n) == IF Readable(e) THEN {k \in 1..Len(Rows(e)) : k < n} ELSE {}

\* A path without a page served is as good as new.
Unread == \A f \in Paths : next[f] = 1 => f \notin done /\ seen[f] = {}

\* The cursor of a path that did not change stands behind what was served.
Kept == \A f \in Paths \ stale : seen[f] = Before(disk[f], next[f])

\* A path reported as read in full has its cursor behind the last line.
Ended == \A f \in done \ stale : Readable(disk[f]) /\ Len(Rows(disk[f])) < next[f]

ReadInv == ReadTypeOK /\ Unread /\ Kept /\ Ended

-----------------------------------------------------------------------------
\* The rows of a file are a sequence of texts.
LEMMA RowsAreTexts ==
  ASSUME NEW e \in Entries
  PROVE  Rows(e) \in Seq(Texts) /\ Len(Rows(e)) \in Nat
<1>1. e.lines \in Seq(Texts) BY DEF Entries
<1>2. <<>> \in Texts BY EmptySeq DEF Texts
<1>3. Append(e.lines, <<>>) \in Seq(Texts)
  BY <1>1, <1>2, AppendProperties
<1>4. Rows(e) \in Seq(Texts) BY <1>1, <1>3 DEF Rows
<1> QED BY <1>4, LenProperties

\* What a read returns: the rows from the offset on, PAGE of them at most; a
\* page past the end is one whose offset lies behind the last row.
LEMMA ReadOfIsPage ==
  ASSUME NEW e \in Entries, NEW off \in Nat \ {0}
  PROVE  LET read == ReadOf(e, off)
         IN  /\ off..(off + Len(read.rows) - 1)
                  = Before(e, off + PAGE) \ Before(e, off)
             /\ read.tag = "past end" =>
                  /\ Readable(e) /\ Len(Rows(e)) < off /\ off # 1
                  /\ Before(e, off + PAGE) = Before(e, off)
<1> DEFINE rows == Rows(e)
           last == IF off + PAGE - 1 < Len(rows) THEN off + PAGE - 1 ELSE Len(rows)
<1>1. rows \in Seq(Texts) /\ Len(rows) \in Nat BY RowsAreTexts
<1>2. PAGE \in Nat \ {0} BY LookupAssumption
<1>3. CASE ~Readable(e)
  <2>1. ReadOf(e, off) = [tag |-> "error", rows |-> <<>>] BY <1>3 DEF ReadOf
  <2>2. off..(off + Len(<<>>) - 1) = {} OBVIOUS
  <2> QED BY <1>3, <2>1, <2>2 DEF Before
<1>4. CASE Readable(e) /\ rows = <<>>
  <2>1. ReadOf(e, off) = [tag |-> "empty", rows |-> <<>>] BY <1>4 DEF ReadOf
  <2>2. off..(off + Len(<<>>) - 1) = {} OBVIOUS
  <2>3. Len(rows) = 0 BY <1>4
  <2>4. \A n : Before(e, n) = {} BY <2>3 DEF Before
  <2> QED BY <2>1, <2>2, <2>4
<1>5. CASE Readable(e) /\ rows # <<>> /\ off > Len(rows)
  <2>1. ReadOf(e, off) = [tag |-> "past end", rows |-> <<>>] BY <1>5 DEF ReadOf
  <2>2. off..(off + Len(<<>>) - 1) = {} OBVIOUS
  <2>3. Len(rows) \in Nat \ {0} BY <1>1, <1>5, EmptySeq
  <2>4. Before(e, off + PAGE) = Before(e, off)
    <3>1. \A k \in 1..Len(rows) : k < off + PAGE /\ k < off BY <1>2, <1>5, <2>3
    <3> QED BY <3>1 DEF Before
  <2>5. Before(e, off + PAGE) \ Before(e, off) = {} BY <2>4
  <2>6. off # 1 /\ Len(rows) < off BY <1>5, <2>3
  <2> DEFINE read == ReadOf(e, off)
             none == <<>>
  <2> HIDE DEF none
  <2>7. read = [tag |-> "past end", rows |-> none] BY <2>1 DEF none
  <2> HIDE DEF read
  <2>8. off..(off + Len(read.rows) - 1) = {}
    <3>1. read.rows = none BY <2>7
    <3> QED BY <2>2, <3>1 DEF none
  <2> QED BY <1>5, <2>4, <2>5, <2>6, <2>8 DEF read
<1>6. CASE Readable(e) /\ rows # <<>> /\ ~(off > Len(rows))
  <2>1. ReadOf(e, off) = [tag |-> "page", rows |-> SubSeq(rows, off, last)]
    BY <1>6 DEF ReadOf
  <2>2. last \in Nat /\ off <= last /\ last <= Len(rows) BY <1>1, <1>2, <1>6
  <2>3. Len(SubSeq(rows, off, last)) = last - off + 1
    BY <1>1, <2>2, SubSeqProperties
  <2>4. off..last = Before(e, off + PAGE) \ Before(e, off)
    <3>1. \A k \in Nat : k \in off..last <=>
            k \in 1..Len(rows) /\ k < off + PAGE /\ ~(k < off)
      BY <1>1, <1>2, <1>6, <2>2
    <3> HIDE DEF last
    <3> QED BY <1>1, <1>6, <2>2, <3>1 DEF Before
  <2>5. off + (last - off + 1) - 1 = last BY <2>2
  <2> DEFINE rest == SubSeq(rows, off, last)
             read == ReadOf(e, off)
  <2> HIDE DEF last, rows, rest
  <2>6. read = [tag |-> "page", rows |-> rest] BY <2>1 DEF rest
  <2> HIDE DEF read
  <2>7. read.rows = rest /\ read.tag = "page" BY <2>6
  <2>8. Len(rest) = last - off + 1 BY <2>3 DEF rest
  <2> QED BY <2>4, <2>5, <2>7, <2>8 DEF read
<1> QED BY <1>3, <1>4, <1>5, <1>6

-----------------------------------------------------------------------------
\* No path has been read when a run begins.
LEMMA InitRead == Init => ReadInv
<1> SUFFICES ASSUME Init PROVE ReadInv OBVIOUS
<1>1. PICK start \in Starts : /\ disk = start.disk /\ asks = start.asks
                              /\ next = [f \in Paths |-> 1] /\ done = {}
                              /\ seen = [f \in Paths |-> {}] /\ stale = {}
  BY DEF Init
<1>2. ReadTypeOK BY <1>1, LookupAssumption DEF ReadTypeOK
<1>3. Unread BY <1>1 DEF Unread
<1>4. ASSUME NEW f \in Paths PROVE Before(disk[f], 1) = {}
  <2>1. Len(Rows(disk[f])) \in Nat BY <1>2, RowsAreTexts DEF ReadTypeOK
  <2> QED BY <2>1 DEF Before
<1>5. Kept BY <1>1, <1>4 DEF Kept
<1>6. Ended BY <1>1 DEF Ended
<1> QED BY <1>2, <1>3, <1>5, <1>6 DEF ReadInv

\* A step that leaves the files and the cursors alone keeps what they say.
LEMMA SearchKeepsRead ==
  ASSUME ReadInv, UNCHANGED <<disk, asks, reading>> PROVE ReadInv'
BY DEF ReadInv, ReadTypeOK, Unread, Kept, Ended, reading

\* A page moves one cursor, and serves what lies between.
LEMMA ServeKeepsRead == ASSUME ReadInv, serve_read_page PROVE ReadInv'
<1> USE DEF ReadInv
<1>1. PICK f \in asks.reads \ done :
        LET read == ReadOf(disk[f], next[f])
        IN  /\ IF read.tag = "past end"
               THEN done' = done \union {f} /\ UNCHANGED next
               ELSE next' = [next EXCEPT ![f] = AfterPage(next[f])] /\ UNCHANGED done
            /\ seen' = [seen EXCEPT ![f] = @ \union next[f]..(next[f] + Len(read.rows) - 1)]
  BY DEF serve_read_page
<1> DEFINE read == ReadOf(disk[f], next[f])
           served == next[f]..(next[f] + Len(read.rows) - 1)
<1>2. UNCHANGED <<disk, asks, stale>> BY DEF serve_read_page
<1>3. /\ f \in Paths /\ disk[f] \in Entries /\ next[f] \in Nat \ {0}
      /\ Len(Rows(disk[f])) \in Nat
  BY <1>1, RowsAreTexts DEF ReadTypeOK
<1>4. PAGE \in Nat \ {0} BY LookupAssumption
<1>5. served = Before(disk[f], next[f] + PAGE) \ Before(disk[f], next[f])
  BY <1>3, ReadOfIsPage
<1>6. Before(disk[f], next[f]) \subseteq Before(disk[f], next[f] + PAGE)
  BY <1>3, <1>4 DEF Before
<1>7. served \subseteq Nat BY <1>3, <1>5 DEF Before
<1>8. seen' = [seen EXCEPT ![f] = @ \union served] BY <1>1
<1>9. f \notin stale => seen'[f] = Before(disk[f], next[f] + PAGE)
  BY <1>3, <1>5, <1>6, <1>8 DEF Kept, ReadTypeOK
<1>10. CASE read.tag = "past end"
  <2>1. done' = done \union {f} /\ next' = next BY <1>1, <1>10
  <2>2. /\ Readable(disk[f]) /\ Len(Rows(disk[f])) < next[f] /\ next[f] # 1
        /\ Before(disk[f], next[f] + PAGE) = Before(disk[f], next[f])
    BY <1>3, <1>10, ReadOfIsPage
  <2> HIDE DEF served, read
  <2>3. ReadTypeOK' BY <1>2, <1>3, <1>7, <1>8, <2>1 DEF ReadTypeOK
  <2>4. Unread' BY <1>3, <1>8, <2>1, <2>2 DEF Unread, ReadTypeOK
  <2>5. Kept' BY <1>2, <1>3, <1>8, <1>9, <2>1, <2>2 DEF Kept, ReadTypeOK
  <2>6. Ended' BY <1>2, <2>1, <2>2 DEF Ended
  <2> QED BY <2>3, <2>4, <2>5, <2>6
<1>11. CASE read.tag # "past end"
  <2>1. done' = done /\ next' = [next EXCEPT ![f] = next[f] + PAGE]
    BY <1>1, <1>11 DEF AfterPage
  <2> HIDE DEF served, read
  <2>2. ReadTypeOK'
    <3>1. next' \in [Paths -> Nat \ {0}] BY <1>3, <1>4, <2>1 DEF ReadTypeOK
    <3>2. seen' \in [Paths -> SUBSET Nat] BY <1>3, <1>7, <1>8 DEF ReadTypeOK
    <3> QED BY <1>2, <2>1, <3>1, <3>2 DEF ReadTypeOK
  <2>3. next[f] + PAGE # 1 BY <1>3, <1>4
  <2>4. Unread' BY <1>3, <1>8, <2>1, <2>3 DEF Unread, ReadTypeOK
  <2>5. Kept' BY <1>2, <1>3, <1>8, <1>9, <2>1 DEF Kept, ReadTypeOK
  <2>6. Ended' BY <1>1, <1>2, <2>1 DEF Ended, ReadTypeOK
  <2> QED BY <2>2, <2>4, <2>5, <2>6
<1> QED BY <1>10, <1>11

\* A file that changes before its first page is read as it then is; one that
\* changes later is stale.
LEMMA ChangeKeepsRead == ASSUME ReadInv, Change PROVE ReadInv'
<1> USE DEF ReadInv
<1>1. PICK c \in asks.changes :
        /\ disk' = [disk EXCEPT ![c.path] = c.entry]
        /\ stale' = IF next[c.path] > 1 THEN stale \union {c.path} ELSE stale
  BY DEF Change
<1>2. UNCHANGED <<asks, next, done, seen>> BY DEF Change
<1>3. c.path \in Paths /\ c.entry \in Entries /\ next[c.path] \in Nat \ {0}
  BY DEF ReadTypeOK
<1>4. ReadTypeOK' BY <1>1, <1>2, <1>3 DEF ReadTypeOK
<1>5. Unread' BY <1>2 DEF Unread
<1>6. ASSUME NEW f \in Paths, f \notin stale' PROVE
        /\ f \notin stale
        /\ f # c.path => disk'[f] = disk[f]
        /\ f = c.path => next[f] = 1
  BY <1>1, <1>3, <1>6 DEF ReadTypeOK
<1>7. Before(c.entry, 1) = {} BY <1>3, RowsAreTexts DEF Before
<1>8. disk'[c.path] = c.entry BY <1>1, <1>3 DEF ReadTypeOK
<1>9. Kept' BY <1>2, <1>6, <1>7, <1>8 DEF Kept, Unread
<1>10. Ended' BY <1>2, <1>6, <1>4 DEF Ended, Unread, ReadTypeOK
<1> QED BY <1>4, <1>5, <1>9, <1>10

\* Every step of a search or of the reader keeps the invariant.
LEMMA NextRead == ASSUME ReadInv, [Next]_vars PROVE ReadInv'
<1>1. CASE tool_grep BY <1>1, SearchKeepsRead DEF tool_grep
<1>2. CASE Visit BY <1>2, SearchKeepsRead DEF Visit
<1>3. CASE PassEnds BY <1>3, SearchKeepsRead DEF PassEnds
<1>4. CASE serve_read_page BY <1>4, ServeKeepsRead
<1>5. CASE Change BY <1>5, ChangeKeepsRead
<1>6. CASE UNCHANGED vars BY <1>6, SearchKeepsRead DEF vars, reading
<1> QED BY <1>1, <1>2, <1>3, <1>4, <1>5, <1>6 DEF Next

\* The lines of a path that were served are those before its cursor, as long
\* as the path does not change (serve_read_page, read_page).
THEOREM CursorCounts == Spec => []ReadInv
<1>1. Init => ReadInv BY InitRead
<1>2. ReadInv /\ [Next]_vars => ReadInv' BY NextRead
<1> QED BY <1>1, <1>2, PTL DEF Spec

\* A path reported as read in full was served to its last line.
THEOREM FullIsSeen == Spec => []FullMeansSeen
<1>1. ReadInv => FullMeansSeen
  <2> SUFFICES ASSUME ReadInv, NEW f \in done \ stale
               PROVE  seen[f] = 1..Len(Rows(disk[f]))
    BY DEF FullMeansSeen
  <2>1. f \in Paths \ stale /\ disk[f] \in Entries /\ next[f] \in Nat
    BY DEF ReadInv, ReadTypeOK
  <2>2. Readable(disk[f]) /\ Len(Rows(disk[f])) < next[f] BY DEF ReadInv, Ended
  <2>3. seen[f] = {k \in 1..Len(Rows(disk[f])) : k < next[f]}
    BY <2>1, <2>2 DEF ReadInv, Kept, Before
  <2>4. Len(Rows(disk[f])) \in Nat BY <2>1, RowsAreTexts
  <2> QED BY <2>1, <2>2, <2>3, <2>4
<1> QED BY <1>1, CursorCounts, PTL

-----------------------------------------------------------------------------
(* What stands in a file, and how long a piece of a pattern is in it.      *)

\* What stands in a file: characters and the ends of its lines.
Chars == STRING \union {Newline}

\* The content of a file is a text.
LEMMA ContentIsText == ASSUME NEW e \in Entries PROVE Content(e) \in Seq(Chars)
<1> DEFINE rows == Rows(e)
           part(n) == IF n = 1 THEN rows[n] ELSE <<Newline>> \o rows[n]
           ss == [n \in 1..Len(rows) |-> part(n)]
<1>1. rows \in Seq(Texts) /\ Len(rows) \in Nat BY RowsAreTexts
<1>2. ASSUME NEW n \in 1..Len(rows) PROVE part(n) \in Seq(Chars)
  <2>1. rows[n] \in Texts BY <1>1
  <2>2. rows[n] \in Seq(Chars) /\ <<Newline>> \in Seq(Chars) BY <2>1 DEF Texts, Chars
  <2> QED BY <2>2, ConcatProperties
<1>3. Content(e) = FlattenSeq(ss) BY DEF Content, Joined
<1> HIDE DEF part, rows
<1>4. Parts(ss, Len(rows), Chars) BY <1>1, <1>2 DEF Parts
<1> HIDE DEF ss
<1> QED BY <1>3, <1>4, FlattenType

\* Folding the case keeps the places of a text.
Low(c) == IF c \in DOMAIN Fold THEN Fold[c] ELSE c
\* Lower folds a text place by place and keeps its length (grep_lower).
LEMMA LowerIs ==
  ASSUME NEW S, NEW s \in Seq(S)
  PROVE  /\ Lower(s) \in Seq({Low(c) : c \in S}) /\ Len(Lower(s)) = Len(s)
         /\ \A i \in 1..Len(s) : Lower(s)[i] = Low(s[i])
<1>1. Len(s) \in Nat /\ \A i \in 1..Len(s) : s[i] \in S OBVIOUS
<1>2. Lower(s) = [i \in 1..Len(s) |-> Low(s[i])] BY DEF Lower, Low
<1> HIDE DEF Low
<1>3. \A i \in 1..Len(s) : Low(s[i]) \in {Low(c) : c \in S} BY <1>1
<1> QED BY <1>1, <1>2, <1>3

\* A piece has as many characters as are asked for.
LEMMA PieceIs ==
  ASSUME NEW S, NEW pattern \in Seq(S), NEW k \in 0..Len(pattern), NEW edge
  PROVE  LET p == Piece(pattern, k, edge)
             from == IF edge = "prefix" THEN 0 ELSE Len(pattern) - k
         IN  p \in Seq(S) /\ Len(p) = k /\ \A i \in 1..k : p[i] = pattern[from + i]
<1>1. Len(pattern) \in Nat OBVIOUS
<1>2. CASE edge = "prefix"
  <2> DEFINE p == SubSeq(pattern, 1, k)
  <2>1. p \in Seq(S) /\ Len(p) = k /\ \A i \in 1..k : p[i] = pattern[i]
    BY <1>1
  <2>2. Piece(pattern, k, edge) = p BY <1>2 DEF Piece
  <2>3. \A i \in 1..k : 0 + i = i OBVIOUS
  <2> HIDE DEF p
  <2> QED BY <1>2, <2>1, <2>2, <2>3
<1>3. CASE edge # "prefix"
  <2> DEFINE a == Len(pattern) - k + 1
             p == SubSeq(pattern, a, Len(pattern))
  <2>1. a \in 1..(Len(pattern) + 1) /\ Len(pattern) - a + 1 = k
        /\ \A i \in 1..k : a + i - 1 = (Len(pattern) - k) + i
    BY <1>1
  <2>2. p \in Seq(S) /\ Len(p) = k /\ \A i \in 1..k : p[i] = pattern[a + i - 1]
    <3> HIDE DEF a
    <3>1. Len(pattern) \in (a - 1)..Len(pattern) /\ \A i \in a..Len(pattern) : pattern[i] \in S
      BY <1>1, <2>1
    <3>2. p \in Seq(S) /\ Len(p) = IF a <= Len(pattern) THEN Len(pattern) - a + 1 ELSE 0
      BY <1>1, <2>1
    <3>3. \A i \in 1..k : p[i] = pattern[a + i - 1] BY <1>1, <2>1
    <3> QED BY <2>1, <3>2, <3>3
  <2>3. Piece(pattern, k, edge) = p BY <1>3 DEF Piece
  <2> HIDE DEF p, a
  <2>4. \A i \in 1..k : p[i] = pattern[(Len(pattern) - k) + i] BY <2>1, <2>2
  <2> QED BY <1>3, <2>2, <2>3, <2>4
<1> QED BY <1>2, <1>3

\* A shorter piece stands wherever a longer one does.
LEMMA OccursShorter ==
  ASSUME NEW text \in Seq(Chars), NEW pattern \in Texts, NEW edge,
         NEW k \in 0..Len(pattern), NEW j \in 0..k, Occurs(text, Piece(pattern, k, edge))
  PROVE  Occurs(text, Piece(pattern, j, edge))
<1>0. pattern \in Seq(STRING) /\ Len(pattern) \in Nat BY DEF Texts
<1> DEFINE P == Piece(pattern, k, edge)
           Q == Piece(pattern, j, edge)
           off == IF edge = "prefix" THEN 0 ELSE k - j
           from == IF edge = "prefix" THEN 0 ELSE Len(pattern) - k
           upto == IF edge = "prefix" THEN 0 ELSE Len(pattern) - j
           LT == Lower(text)
           LP == Lower(P)
           LQ == Lower(Q)
<1>1. j \in 0..Len(pattern) /\ upto = from + off /\ off \in Nat /\ off + j <= k
      /\ from \in Nat
  BY <1>0
<1>2. P \in Seq(STRING) /\ Len(P) = k /\ \A i \in 1..k : P[i] = pattern[from + i]
  BY <1>0, PieceIs
<1>3. Q \in Seq(STRING) /\ Len(Q) = j /\ \A i \in 1..j : Q[i] = pattern[upto + i]
  BY <1>0, <1>1, PieceIs
<1>4. CASE j = 0
  <2> HIDE DEF Q
  <2>1. Q = <<>> BY <1>3, <1>4
  <2> QED BY <2>1 DEF Occurs, Q
<1>5. CASE j # 0
  <2> DEFINE A == {Low(c) : c \in Chars}
             B == {Low(c) : c \in STRING}
  <2>1. P # <<>> BY <1>2, <1>5
  <2>2. PICK i \in Places(LT, LP) : TRUE BY <2>1 DEF Occurs
  <2> HIDE DEF P, Q, LT, LP, LQ, off, from, upto
  <2>3. /\ LT \in Seq(A) /\ LP \in Seq(B) /\ LQ \in Seq(B)
        /\ Len(LP) = k /\ Len(LQ) = j
        /\ \A m \in 1..k : LP[m] = Low(P[m])
        /\ \A m \in 1..j : LQ[m] = Low(Q[m])
    BY <1>2, <1>3, LowerIs DEF LT, LP, LQ
  <2>4. /\ i \in 1..Len(LT) /\ i + k - 1 <= Len(LT)
        /\ SubSeq(LT, i, i + k - 1) = LP /\ Len(LT) \in Nat
    BY <2>2, <2>3 DEF Places, At
  <2> HIDE DEF A, B
  <2>5. ASSUME NEW m \in 1..k PROVE LT[i + m - 1] = LP[m]
    <3>1. i \in 1..(Len(LT) + 1) /\ i + k - 1 \in (i - 1)..Len(LT) /\ m \in 1..((i + k - 1) - i + 1)
      BY <2>4
    <3>2. SubSeq(LT, i, i + k - 1)[m] = LT[i + m - 1]
      BY <2>3, <2>4, <3>1, SubSeqProperties
    <3> QED BY <2>4, <3>2
  <2> DEFINE h == i + off
             R == SubSeq(LT, h, h + j - 1)
  <2>6. h \in 1..Len(LT) /\ h + j - 1 <= Len(LT) /\ h + j - 1 \in Nat /\ h + j - 1 - h + 1 = j
        /\ h <= h + j - 1
    BY <1>1, <1>5, <2>4
  <2>7. R \in Seq(A) /\ Len(R) = j /\ \A m \in 1..j : R[m] = LT[h + m - 1]
    <3> HIDE DEF h
    <3>1. h + j - 1 \in Int /\ h \in Int BY <2>6
    <3> QED BY <2>3, <2>6, <3>1, SubSeqProperties
  <2>8. ASSUME NEW m \in 1..j PROVE R[m] = LQ[m]
    <3>1. off + m \in 1..k /\ i + (off + m) - 1 = h + m - 1 /\ from + (off + m) = upto + m
      BY <1>1, <2>4
    <3>2. LT[h + m - 1] = LP[off + m] BY <2>5, <3>1
    <3>3. LP[off + m] = Low(P[off + m]) BY <2>3, <3>1
    <3>4. P[off + m] = pattern[upto + m] BY <1>2, <3>1
    <3>5. LQ[m] = Low(pattern[upto + m]) BY <1>3, <2>3
    <3> QED BY <2>7, <3>2, <3>3, <3>4, <3>5
  <2>9. R = LQ
    <3> HIDE DEF R
    <3> QED BY <2>3, <2>7, <2>8
  <2>10. h \in Places(LT, LQ) BY <2>3, <2>6, <2>9 DEF Places, At
  <2> QED BY <2>10 DEF Occurs, Q, LT, LQ
<1> QED BY <1>4, <1>5

-----------------------------------------------------------------------------
(* The binary search.                                                      *)

\* r is the longest piece between lo and hi, or lo where no longer one stands.
LongestAt(text, pattern, edge, lo, hi, r) ==
  /\ r \in lo..hi
  /\ r = lo \/ Occurs(text, Piece(pattern, r, edge))
  /\ \A m \in lo..hi : Occurs(text, Piece(pattern, m, edge)) => m <= r

\* Between lo and hi there is one longest piece, and only one.
LEMMA LongestOne ==
  ASSUME NEW text, NEW pattern, NEW edge, NEW lo \in Nat, NEW hi \in Nat, lo <= hi
  PROVE  /\ \E r : LongestAt(text, pattern, edge, lo, hi, r)
         /\ \A r, q : LongestAt(text, pattern, edge, lo, hi, r)
                     /\ LongestAt(text, pattern, edge, lo, hi, q) => r = q
<1> DEFINE Occ(m) == Occurs(text, Piece(pattern, m, edge))
           U == {m \in lo..hi : m = lo \/ Occ(m)}
<1> HIDE DEF Occ
<1>1. U \subseteq 0..hi /\ lo \in U OBVIOUS
<1>2. PICK r \in U : \A y \in U : y <= r
  <2> HIDE DEF U
  <2> QED BY <1>1, GreatestExists
<1>3. LongestAt(text, pattern, edge, lo, hi, r)
  BY <1>2 DEF LongestAt, Occ
<1>4. ASSUME NEW a, NEW b, LongestAt(text, pattern, edge, lo, hi, a),
             LongestAt(text, pattern, edge, lo, hi, b) PROVE a = b
  <2>1. /\ a \in lo..hi /\ b \in lo..hi
        /\ a = lo \/ Occ(a)
        /\ b = lo \/ Occ(b)
        /\ Occ(a) => a <= b
        /\ Occ(b) => b <= a
    BY <1>4 DEF LongestAt, Occ
  <2> QED BY <2>1
<1> QED BY <1>3, <1>4

\* Halving keeps the longest piece.
LEMMA Halves ==
  ASSUME NEW text \in Seq(Chars), NEW pattern \in Texts, NEW edge,
         NEW lo \in Nat, NEW hi \in 0..Len(pattern), lo < hi, NEW mid, mid \in (lo + 1)..hi, NEW r
  PROVE  IF Occurs(text, Piece(pattern, mid, edge))
         THEN LongestAt(text, pattern, edge, mid, hi, r) => LongestAt(text, pattern, edge, lo, hi, r)
         ELSE LongestAt(text, pattern, edge, lo, mid - 1, r) => LongestAt(text, pattern, edge, lo, hi, r)
<1> DEFINE Occ(m) == Occurs(text, Piece(pattern, m, edge))
<1>0. Len(pattern) \in Nat /\ hi \in Nat BY DEF Texts
<1>1. ASSUME NEW m \in mid..hi, Occ(m) PROVE Occ(mid)
  <2>1. m \in 0..Len(pattern) /\ mid \in 0..m BY <1>0
  <2> QED BY <1>1, <2>1, OccursShorter
<1> HIDE DEF Occ
<1>2. ASSUME Occ(mid), LongestAt(text, pattern, edge, mid, hi, r)
      PROVE  LongestAt(text, pattern, edge, lo, hi, r)
  <2>1. r \in mid..hi /\ (r = mid \/ Occ(r)) /\ \A m \in mid..hi : Occ(m) => m <= r
    BY <1>2 DEF LongestAt, Occ
  <2>2. r \in lo..hi /\ Occ(r) BY <1>0, <1>2, <2>1
  <2>3. \A m \in lo..hi : Occ(m) => m <= r BY <1>0, <2>1
  <2> QED BY <2>2, <2>3 DEF LongestAt, Occ
<1>3. ASSUME ~Occ(mid), LongestAt(text, pattern, edge, lo, mid - 1, r)
      PROVE  LongestAt(text, pattern, edge, lo, hi, r)
  <2>1. r \in lo..(mid - 1) /\ (r = lo \/ Occ(r)) /\ \A m \in lo..(mid - 1) : Occ(m) => m <= r
    BY <1>3 DEF LongestAt, Occ
  <2>2. r \in lo..hi BY <1>0, <2>1
  <2>3. \A m \in lo..hi : Occ(m) => m <= r
    <3> TAKE m \in lo..hi
    <3> HAVE Occ(m)
    <3>1. m \notin mid..hi BY <1>1, <1>3
    <3>2. m \in lo..(mid - 1) BY <1>0, <3>1
    <3> QED BY <2>1, <3>2
  <2> QED BY <2>1, <2>2, <2>3 DEF LongestAt, Occ
<1> QED BY <1>2, <1>3 DEF Occ

\* The binary search finds the longest piece of a pattern that stands in a
\* text: no longer one does (frag_longest).
LEMMA LongestIs ==
  ASSUME NEW text \in Seq(Chars), NEW pattern \in Texts, pattern # <<>>, NEW edge
  PROVE  LongestAt(text, pattern, edge, 0, Len(pattern) - 1, frag_longest(text, pattern, edge))
<1> DEFINE n == Len(pattern)
           D == (0..n) \X (0..n)
           Mid(lo, hi) == lo + (hi - lo + 1) \div 2
           Occ(m) == Occurs(text, Piece(pattern, m, edge))
           Is(lo, hi, r) == LongestAt(text, pattern, edge, lo, hi, r)
           Body(g, lo, hi) == IF lo >= hi THEN lo
                              ELSE IF Occ(Mid(lo, hi)) THEN g[<<Mid(lo, hi), hi>>]
                              ELSE g[<<lo, Mid(lo, hi) - 1>>]
           Solves(g) == g = [range \in D |-> Body(g, range[1], range[2])]
<1>0. n \in Nat \ {0}
  <2>1. pattern \in Seq(STRING) BY DEF Texts
  <2> QED BY <2>1, EmptySeq
<1>1. ASSUME NEW lo \in 0..n, NEW hi \in 0..n, lo < hi
      PROVE  /\ Mid(lo, hi) \in (lo + 1)..hi /\ Mid(lo, hi) \in 0..n /\ Mid(lo, hi) - 1 \in 0..n
             /\ hi - Mid(lo, hi) \in 0..(hi - lo - 1)
             /\ (Mid(lo, hi) - 1) - lo \in 0..(hi - lo - 1)
  BY <1>0, <1>1
<1> HIDE DEF Mid
<1>2. ASSUME NEW lo \in 0..n, NEW hi \in 0..n, lo < hi, NEW r
      PROVE  /\ Occ(Mid(lo, hi)) /\ Is(Mid(lo, hi), hi, r) => Is(lo, hi, r)
             /\ ~Occ(Mid(lo, hi)) /\ Is(lo, Mid(lo, hi) - 1, r) => Is(lo, hi, r)
  <2>1. lo \in Nat /\ Mid(lo, hi) \in (lo + 1)..hi BY <1>0, <1>1, <1>2
  <2> QED BY <1>0, <1>2, <2>1, Halves
<1>3. ASSUME NEW lo \in 0..n, NEW hi \in 0..n, lo <= hi
      PROVE  /\ \E r : Is(lo, hi, r)
             /\ \A r, q : Is(lo, hi, r) /\ Is(lo, hi, q) => r = q
  <2>1. lo \in Nat /\ hi \in Nat BY <1>0
  <2> QED BY <1>3, <2>1, LongestOne
<1>4. ASSUME NEW lo \in 0..n PROVE Is(lo, lo, lo) /\ \A r : Is(lo, lo, r) => r = lo
  <2>1. lo \in Nat BY <1>0
  <2> QED BY <2>1 DEF LongestAt
<1> HIDE DEF Is, Occ
\* A solution exists, since the answer is unique.
<1> DEFINE G(lo, hi) == IF lo >= hi THEN lo ELSE CHOOSE r : Is(lo, hi, r)
           w == [range \in D |-> G(range[1], range[2])]
<1>5. ASSUME NEW lo \in 0..n, NEW hi \in 0..n, lo <= hi PROVE Is(lo, hi, G(lo, hi))
  <2>1. CASE lo >= hi
    <3>1. lo = hi BY <1>0, <1>5, <2>1
    <3> QED BY <1>4, <2>1, <3>1
  <2>2. CASE ~(lo >= hi)
    <3>1. \E r : Is(lo, hi, r) BY <1>3, <1>5
    <3> DEFINE c == CHOOSE r : Is(lo, hi, r)
    <3>2. Is(lo, hi, c) BY <3>1, Zenon
    <3>3. G(lo, hi) = c BY <2>2
    <3> HIDE DEF G, c
    <3> QED BY <3>2, <3>3
  <2> QED BY <2>1, <2>2
<1>6. \A lo, hi \in 0..n : w[<<lo, hi>>] = G(lo, hi)
  <2> HIDE DEF G
  <2> QED OBVIOUS
<1>7. ASSUME NEW lo \in 0..n, NEW hi \in 0..n PROVE G(lo, hi) = Body(w, lo, hi)
  <2>1. CASE lo >= hi BY <2>1
  <2>2. CASE ~(lo >= hi)
    <3>1. lo < hi /\ lo <= hi BY <1>0, <2>2
    <3> DEFINE mid == Mid(lo, hi)
    <3>2. mid \in 0..n /\ mid - 1 \in 0..n /\ mid <= hi /\ lo <= mid - 1
      BY <1>0, <1>1, <3>1
    <3>3. Is(lo, hi, G(lo, hi)) BY <1>5, <3>1
    <3>4. Is(mid, hi, w[<<mid, hi>>]) /\ Is(lo, mid - 1, w[<<lo, mid - 1>>])
      BY <1>5, <1>6, <3>2, ZenonT(60)
    <3> HIDE DEF w, G, mid
    <3>5. Is(lo, hi, Body(w, lo, hi))
      <4>1. CASE Occ(mid)
        <5>1. Body(w, lo, hi) = w[<<mid, hi>>] BY <2>2, <4>1 DEF mid
        <5> QED BY <1>2, <3>1, <3>4, <4>1, <5>1 DEF mid
      <4>2. CASE ~Occ(mid)
        <5>1. Body(w, lo, hi) = w[<<lo, mid - 1>>] BY <2>2, <4>2 DEF mid
        <5> QED BY <1>2, <3>1, <3>4, <4>2, <5>1 DEF mid
      <4> QED BY <4>1, <4>2
    <3> HIDE DEF Body
    <3> QED BY <1>3, <3>1, <3>3, <3>5
  <2> QED BY <2>1, <2>2
<1>8. Solves(w)
  <2>1. \A range \in D : range[1] \in 0..n /\ range[2] \in 0..n OBVIOUS
  <2> DEFINE B(lo, hi) == Body(w, lo, hi)
  <2> HIDE DEF B, G
  <2>2. \A lo, hi \in 0..n : G(lo, hi) = B(lo, hi) BY <1>7 DEF B
  <2>3. w = [range \in D |-> B(range[1], range[2])]
    <3> HIDE DEF D
    <3>1. \A range \in D : G(range[1], range[2]) = B(range[1], range[2]) BY <2>1, <2>2, Zenon
    <3> QED BY <3>1
  <2> QED BY <2>3 DEF B
<1> DEFINE g == CHOOSE g : Solves(g)
<1> HIDE DEF w, G
<1>9. Solves(g) BY <1>8
<1>10. frag_longest(text, pattern, edge) = g[<<0, n - 1>>] BY DEF frag_longest, Mid, Occ
<1> HIDE DEF g
<1>11. \A lo, hi \in 0..n : g[<<lo, hi>>] = Body(g, lo, hi)
  <2> DEFINE B(lo, hi) == Body(g, lo, hi)
  <2> HIDE DEF B
  <2>1. g = [range \in D |-> B(range[1], range[2])] BY <1>9 DEF B
  <2>2. \A lo, hi \in 0..n : g[<<lo, hi>>] = B(lo, hi) BY <2>1
  <2> QED BY <2>2 DEF B
<1> DEFINE Good(k) == \A lo, hi \in 0..n : lo <= hi /\ hi - lo <= k => Is(lo, hi, g[<<lo, hi>>])
           T == {k \in 0..n : Good(k)}
<1>12. 0 \in T
  <2>1. ASSUME NEW lo \in 0..n, NEW hi \in 0..n, lo <= hi, hi - lo <= 0
        PROVE  Is(lo, hi, g[<<lo, hi>>])
    <3>1. lo = hi /\ lo >= hi BY <1>0, <2>1
    <3>2. g[<<lo, hi>>] = lo BY <1>11, <3>1
    <3> QED BY <1>4, <3>1, <3>2
  <2> QED BY <1>0, <2>1
<1>13. ASSUME NEW k \in 0..(n - 1), k \in T PROVE k + 1 \in T
  <2>1. ASSUME NEW lo \in 0..n, NEW hi \in 0..n, lo <= hi, hi - lo <= k + 1
        PROVE  Is(lo, hi, g[<<lo, hi>>])
    <3>1. CASE lo >= hi
      <4>1. lo = hi BY <1>0, <2>1, <3>1
      <4>2. g[<<lo, hi>>] = lo BY <1>11, <3>1
      <4> QED BY <1>4, <4>1, <4>2
    <3>2. CASE ~(lo >= hi)
      <4>1. lo < hi BY <1>0, <3>2
      <4> DEFINE mid == Mid(lo, hi)
      <4>a. /\ mid \in (lo + 1)..hi /\ mid \in 0..n /\ mid - 1 \in 0..n
            /\ hi - mid \in 0..(hi - lo - 1) /\ (mid - 1) - lo \in 0..(hi - lo - 1)
        BY <1>1, <4>1
      <4>b. hi - lo - 1 <= k BY <1>0, <2>1
      <4>2. /\ mid \in 0..n /\ mid - 1 \in 0..n /\ mid <= hi /\ lo <= mid - 1
            /\ hi - mid <= k /\ (mid - 1) - lo <= k
        <5> HIDE DEF mid
        <5> QED BY <1>0, <4>a, <4>b
      <4> HIDE DEF mid
      <4>3. Is(mid, hi, g[<<mid, hi>>]) /\ Is(lo, mid - 1, g[<<lo, mid - 1>>])
        BY <1>13, <4>2
      <4>4. CASE Occ(mid)
        <5>1. g[<<lo, hi>>] = g[<<mid, hi>>] BY <1>11, <3>2, <4>4 DEF mid
        <5> QED BY <1>2, <4>1, <4>3, <4>4, <5>1 DEF mid
      <4>5. CASE ~Occ(mid)
        <5>1. g[<<lo, hi>>] = g[<<lo, mid - 1>>] BY <1>11, <3>2, <4>5 DEF mid
        <5> QED BY <1>2, <4>1, <4>3, <4>5, <5>1 DEF mid
      <4> QED BY <4>4, <4>5
    <3> QED BY <3>1, <3>2
  <2>2. k + 1 \in 0..n BY <1>0
  <2> QED BY <2>1, <2>2
<1>14. 0..n \subseteq T
  <2> HIDE DEF T, n
  <2>1. n \in Nat BY <1>0
  <2> QED BY <1>12, <1>13, <2>1, Upwards
<1>15. Is(0, n - 1, g[<<0, n - 1>>])
  <2>1. n \in T /\ 0 \in 0..n /\ n - 1 \in 0..n /\ 0 <= n - 1 /\ (n - 1) - 0 <= n
    BY <1>0, <1>14
  <2> QED BY <2>1
<1> QED BY <1>10, <1>15 DEF Is

-----------------------------------------------------------------------------
(* The lines a search shows of a file.                                     *)

ShownLines == [file : Paths, no : Int, sep : {":", "-", "--"}]
Sinks == [out : Seq(ShownLines), matches : 0..MAX_MATCHES, truncated : BOOLEAN]

\* The hits among the lines shown.
HitsOf(out) == {<<e.file, e.no>> : e \in {x \in ToSet(out) : x.sep = ":"}}

\* The hits of two lists of lines joined are the hits of both.
LEMMA HitsTwo ==
  ASSUME NEW a \in Seq(ShownLines), NEW b \in Seq(ShownLines)
  PROVE  a \o b \in Seq(ShownLines) /\ HitsOf(a \o b) = HitsOf(a) \union HitsOf(b)
<1>1. a \o b \in Seq(ShownLines)
  BY ConcatProperties
<1>2. ToSet(a \o b) = ToSet(a) \union ToSet(b)
  <2>1. DOMAIN a = 1..Len(a) /\ DOMAIN b = 1..Len(b) /\ DOMAIN (a \o b) = 1..(Len(a) + Len(b))
        /\ Len(a) \in Nat /\ Len(b) \in Nat
    OBVIOUS
  <2>2. \A i \in 1..(Len(a) + Len(b)) : (a \o b)[i] = IF i <= Len(a) THEN a[i] ELSE b[i - Len(a)]
    OBVIOUS
  <2> DEFINE c == a \o b
  <2> HIDE DEF c
  <2>3. \A i \in DOMAIN a : i \in DOMAIN c /\ c[i] = a[i]
    BY <2>1, <2>2 DEF c
  <2>4. \A i \in DOMAIN b : i + Len(a) \in DOMAIN c /\ c[i + Len(a)] = b[i]
    BY <2>1, <2>2 DEF c
  <2>5. \A i \in DOMAIN c : c[i] \in ToSet(a) \union ToSet(b)
    <3> TAKE i \in DOMAIN c
    <3>1. CASE i <= Len(a) BY <2>1, <2>2, <3>1 DEF c, ToSet
    <3>2. CASE ~(i <= Len(a))
      <4>1. i - Len(a) \in DOMAIN b BY <2>1, <3>2 DEF c
      <4> QED BY <2>1, <2>2, <3>2, <4>1 DEF c, ToSet
    <3> QED BY <3>1, <3>2
  <2>6. ToSet(a) \subseteq ToSet(c) /\ ToSet(b) \subseteq ToSet(c)
    BY <2>3, <2>4 DEF ToSet
  <2>7. ToSet(c) \subseteq ToSet(a) \union ToSet(b)
    BY <2>5 DEF ToSet
  <2> QED
    BY <2>6, <2>7 DEF c
<1> HIDE DEF HitsOf
<1>3. HitsOf(a \o b) = HitsOf(a) \union HitsOf(b)
  BY <1>2 DEF HitsOf
<1> QED BY <1>1, <1>3

\* Context lines and separators are no hits.
LEMMA HitsNone ==
  ASSUME NEW a \in Seq(ShownLines), \A i \in 1..Len(a) : a[i].sep # ":"
  PROVE  HitsOf(a) = {}
BY DEF HitsOf, ToSet

\* The line of a hit shows that hit.
LEMMA HitsOne ==
  ASSUME NEW f \in Paths, NEW n \in Int
  PROVE  <<Shown(f, n, ":")>> \in Seq(ShownLines) /\ HitsOf(<<Shown(f, n, ":")>>) = {<<f, n>>}
<1>1. Shown(f, n, ":") \in ShownLines BY DEF Shown, ShownLines
<1> DEFINE e == Shown(f, n, ":")
           s == <<e>>
<1>2. ToSet(s) = {e}
  <2> HIDE DEF e
  <2> QED BY DEF ToSet
<1>3. e.file = f /\ e.no = n /\ e.sep = ":" BY DEF Shown
<1> HIDE DEF s
<1>4. HitsOf(s) = {<<f, n>>}
  <2> HIDE DEF e
  <2> QED BY <1>2, <1>3 DEF HitsOf
<1> QED BY <1>1, <1>4 DEF s

-----------------------------------------------------------------------------
\* What a scan of a file has after each of its lines.
Scans(scan, sink, pattern, f, lines, ci) ==
  scan = [n \in 0..Len(lines) |->
            IF n = 0 THEN Scan(sink)
            ELSE Line(scan[n - 1], f, n, line_has(lines[n], pattern, ci))]

\* The recursive function grep_scan is defined by exists.
LEMMA GrepExists ==
  ASSUME NEW sink, NEW pattern, NEW f, NEW lines, Len(lines) \in Nat, NEW ci
  PROVE  \E scan : Scans(scan, sink, pattern, f, lines, ci)
<1> DEFINE first == Scan(sink)
           Step(v, i) == Line(v, f, i, line_has(lines[i], pattern, ci))
           n == Len(lines)
           Solves(g, k) == /\ g = [i \in 0..k |-> g[i]]
                           /\ g[0] = first
                           /\ \A i \in 1..k : g[i] = Step(g[i - 1], i)
           T == {k \in Nat : \E g : Solves(g, k)}
<1> HIDE DEF Step, first
<1>1. 0 \in T
  <2>1. Solves([i \in 0..0 |-> first], 0)
    OBVIOUS
  <2> QED
    BY <2>1
<1>2. ASSUME NEW k \in Nat, k \in T PROVE k + 1 \in T
  <2>1. PICK g : Solves(g, k)
    BY <1>2
  <2> DEFINE h == [i \in 0..(k + 1) |-> IF i <= k THEN g[i] ELSE Step(g[k], k + 1)]
  <2>2. \A i \in 0..k : h[i] = g[i]
    BY <2>1
  <2>3. h[k + 1] = Step(g[k], k + 1)
    OBVIOUS
  <2>4. h[0] = first /\ h = [i \in 0..(k + 1) |-> h[i]]
    BY <2>1
  <2> HIDE DEF h
  <2>5. ASSUME NEW i \in 1..(k + 1) PROVE h[i] = Step(h[i - 1], i)
    <3>1. CASE i = k + 1
      <4>1. k \in 0..k /\ i - 1 = k
        BY <3>1
      <4> QED
        BY <2>2, <2>3, <3>1, <4>1
    <3>2. CASE i \in 1..k
      <4>1. i \in 0..k /\ i - 1 \in 0..k
        BY <3>2
      <4>2. g[i] = Step(g[i - 1], i)
        BY <2>1, <3>2
      <4> QED
        BY <2>2, <4>1, <4>2
    <3> QED
      BY <3>1, <3>2
  <2>6. Solves(h, k + 1)
    BY <2>4, <2>5
  <2> HIDE DEF Solves
  <2>7. k + 1 \in Nat
    OBVIOUS
  <2> QED
    BY <2>6, <2>7
<1>0. n \in Nat OBVIOUS
<1> HIDE DEF T, n
<1>3. 0..n \subseteq T
  BY <1>0, <1>1, <1>2, Upwards
<1>4. PICK g : Solves(g, n)
  BY <1>0, <1>3 DEF T
<1>5. ASSUME NEW i \in 0..n PROVE g[i] = IF i = 0 THEN first ELSE Step(g[i - 1], i)
  <2>1. i = 0 \/ i \in 1..n
    BY <1>0
  <2> QED
    BY <1>4, <2>1
<1>6. g = [i \in 0..n |-> IF i = 0 THEN first ELSE Step(g[i - 1], i)]
  BY <1>4, <1>5
<1> QED
  BY <1>6 DEF Step, first, Scans, n

-----------------------------------------------------------------------------
\* How far a scan of file f is after n lines, when H are the hits of f and the
\* sink it began with is sink0.
ScanTypes == [sink : Sinks, ring : Nat, emitted : Nat, after : Nat]
Counted(sink) == /\ IsFiniteSet(HitsOf(sink.out))
                 /\ Cardinality(HitsOf(sink.out)) = sink.matches
Upto(H, n) == {k \in H : k <= n}
ScanAt(scan, sink0, f, n, H) ==
  /\ scan \in ScanTypes
  /\ scan.emitted <= n
  /\ Counted(scan.sink)
  /\ IF scan.sink.truncated
     THEN /\ scan.sink.matches = MAX_MATCHES
          /\ \E K \in SUBSET H : K # H /\ HitsOf(scan.sink.out) = HitsOf(sink0.out) \union ({f} \X K)
     ELSE HitsOf(scan.sink.out) = HitsOf(sink0.out) \union ({f} \X Upto(H, n))

\* A sink that the search of a file may begin with.
Free(sink, f) == /\ sink \in Sinks /\ Counted(sink) /\ ~sink.truncated
                 /\ \A p \in HitsOf(sink.out) : p[1] # f

\* Adding shown lines to a scan.
LEMMA PutAdds ==
  ASSUME NEW scan \in ScanTypes, NEW entries \in Seq(ShownLines)
  PROVE  /\ Put(scan, entries) \in ScanTypes
         /\ Put(scan, entries) = [sink |-> [out |-> scan.sink.out \o entries,
                                           matches |-> scan.sink.matches,
                                           truncated |-> scan.sink.truncated],
                                 ring |-> scan.ring, emitted |-> scan.emitted, after |-> scan.after]
         /\ HitsOf(scan.sink.out \o entries) = HitsOf(scan.sink.out) \union HitsOf(entries)
<1>1. scan.sink.out \in Seq(ShownLines) BY DEF ScanTypes, Sinks
<1>2. scan.sink.out \o entries \in Seq(ShownLines)
      /\ HitsOf(scan.sink.out \o entries) = HitsOf(scan.sink.out) \union HitsOf(entries)
  BY <1>1, HitsTwo
<1> DEFINE o == scan.sink.out \o entries
<1>3. Put(scan, entries) = [scan EXCEPT !.sink.out = o] BY DEF Put
<1> HIDE DEF o
<1>4. Put(scan, entries) = [sink |-> [out |-> o,
                                           matches |-> scan.sink.matches,
                                           truncated |-> scan.sink.truncated],
                                 ring |-> scan.ring, emitted |-> scan.emitted, after |-> scan.after]
  BY <1>3 DEF ScanTypes, Sinks
<1>5. Put(scan, entries) \in ScanTypes BY <1>2, <1>4 DEF ScanTypes, Sinks, o
<1> QED BY <1>2, <1>4, <1>5 DEF o

\* A hit shows the lines held back and itself.
LEMMA HitAdds ==
  ASSUME NEW scan \in ScanTypes, NEW f \in Paths, NEW n \in Nat, scan.emitted <= n - 1,
         scan.sink.matches < MAX_MATCHES
  PROVE  LET s == Hit(scan, f, n)
         IN  /\ s \in ScanTypes /\ s.emitted = n
             /\ s.sink.truncated = scan.sink.truncated
             /\ s.sink.matches = scan.sink.matches + 1
             /\ HitsOf(s.sink.out) = HitsOf(scan.sink.out) \union {<<f, n>>}
<1> DEFINE from == IF n - scan.ring < scan.emitted + 1 THEN scan.emitted + 1 ELSE n - scan.ring
           gap  == IF scan.emitted > 0 /\ from > scan.emitted + 1 THEN <<Gap(f)>> ELSE <<>>
           lead == [k \in 1..(n - from) |-> Shown(f, from + k - 1, "-")]
           hit  == <<Shown(f, n, ":")>>
           put  == Put(scan, gap \o lead \o hit)
<1>1. scan.ring \in Nat /\ scan.emitted \in Nat /\ from \in Nat /\ n - from \in Nat
  BY DEF ScanTypes
<1>2. gap \in Seq(ShownLines) /\ HitsOf(gap) = {}
  <2>1. Gap(f) \in ShownLines /\ Gap(f).sep # ":" BY DEF Gap, Shown, ShownLines
  <2>2. <<Gap(f)>> \in Seq(ShownLines) /\ \A i \in 1..Len(<<Gap(f)>>) : <<Gap(f)>>[i].sep # ":"
    BY <2>1
  <2>3. <<>> \in Seq(ShownLines) /\ \A i \in 1..Len(<<>>) : <<>>[i].sep # ":"
    OBVIOUS
  <2>4. HitsOf(<<Gap(f)>>) = {} /\ HitsOf(<<>>) = {} BY <2>2, <2>3, HitsNone
  <2> QED BY <2>2, <2>3, <2>4
<1>3. lead \in Seq(ShownLines) /\ HitsOf(lead) = {}
  <2>1. \A k \in 1..(n - from) : Shown(f, from + k - 1, "-") \in ShownLines
                                /\ Shown(f, from + k - 1, "-").sep # ":"
    BY <1>1 DEF Shown, ShownLines
  <2>2. lead \in Seq(ShownLines) /\ Len(lead) = n - from BY <1>1, <2>1, SMTT(40)
  <2>3. \A k \in 1..Len(lead) : lead[k].sep # ":" BY <2>1, <2>2
  <2> HIDE DEF lead
  <2> QED BY <2>2, <2>3, HitsNone
<1>4. hit \in Seq(ShownLines) /\ HitsOf(hit) = {<<f, n>>} BY HitsOne
<1> DEFINE e == gap \o lead \o hit
<1> HIDE DEF gap, lead, hit
<1>5. e \in Seq(ShownLines) /\ HitsOf(e) = {<<f, n>>}
  <2>1. gap \o lead \in Seq(ShownLines) /\ HitsOf(gap \o lead) = {} BY <1>2, <1>3, HitsTwo
  <2> DEFINE b == gap \o lead
  <2> HIDE DEF b
  <2>2. b \o hit \in Seq(ShownLines) /\ HitsOf(b \o hit) = HitsOf(b) \union HitsOf(hit)
    BY <1>4, <2>1, HitsTwo DEF b
  <2> QED BY <1>4, <2>1, <2>2 DEF b
<1> HIDE DEF e
<1>6. put = Put(scan, e) BY DEF e
<1> DEFINE o == scan.sink.out \o e
<1>7. /\ o \in Seq(ShownLines)
      /\ put = [sink |-> [out |-> o, matches |-> scan.sink.matches, truncated |-> scan.sink.truncated],
                ring |-> scan.ring, emitted |-> scan.emitted, after |-> scan.after]
      /\ HitsOf(o) = HitsOf(scan.sink.out) \union {<<f, n>>}
  <2>1. scan.sink.out \in Seq(ShownLines) BY DEF ScanTypes, Sinks
  <2> HIDE DEF put
  <2> QED BY <1>5, <1>6, <2>1, PutAdds, HitsTwo, ZenonT(60)
<1> HIDE DEF put, o
<1>8. Hit(scan, f, n) = [put EXCEPT !.sink.matches = @ + 1, !.ring = 0, !.emitted = n, !.after = CONTEXT]
  BY DEF Hit, put, gap, lead, hit
<1>9. Hit(scan, f, n) = [sink |-> [out |-> o, matches |-> scan.sink.matches + 1, truncated |-> scan.sink.truncated],
                ring |-> 0, emitted |-> n, after |-> CONTEXT]
  BY <1>7, <1>8
<1>10. /\ scan.sink.matches \in Nat /\ scan.sink.truncated \in BOOLEAN
       /\ CONTEXT \in Nat /\ MAX_MATCHES \in Nat
  BY GrepAssumption DEF ScanTypes, Sinks
<1> DEFINE s == Hit(scan, f, n)
<1> HIDE DEF s
<1>11. s = [sink |-> [out |-> o, matches |-> scan.sink.matches + 1, truncated |-> scan.sink.truncated],
                ring |-> 0, emitted |-> n, after |-> CONTEXT]
  BY <1>9 DEF s
<1>12. s \in ScanTypes BY <1>7, <1>10, <1>11 DEF ScanTypes, Sinks
<1>13. /\ s.emitted = n /\ s.sink.truncated = scan.sink.truncated
       /\ s.sink.matches = scan.sink.matches + 1 /\ s.sink.out = o
  BY <1>11
<1> QED BY <1>7, <1>12, <1>13 DEF s

\* A line keeps what a scan has: a hit is shown or ends the search, and
\* nothing else is shown as one.
LEMMA LineKeeps ==
  ASSUME NEW f \in Paths, NEW n \in Nat \ {0}, NEW H \in SUBSET Nat, NEW sink0, Free(sink0, f),
         NEW scan, ScanAt(scan, sink0, f, n - 1, H), NEW hit \in BOOLEAN, hit <=> n \in H
  PROVE  ScanAt(Line(scan, f, n, hit), sink0, f, n, H)
<1> DEFINE s == Line(scan, f, n, hit)
           base == HitsOf(sink0.out)
<1>0. /\ \A k \in H : k <= n <=> k <= n - 1 \/ k = n
      /\ ~(n <= n - 1)
  OBVIOUS
<1>1. /\ scan \in ScanTypes /\ scan.emitted <= n - 1 /\ Counted(scan.sink)
      /\ scan.emitted \in Nat /\ scan.after \in Nat /\ scan.ring \in Nat
      /\ scan.sink \in Sinks /\ scan.sink.matches \in Nat /\ scan.sink.matches <= MAX_MATCHES
      /\ MAX_MATCHES \in Nat \ {0} /\ CONTEXT \in Nat
  BY GrepAssumption DEF ScanAt, ScanTypes, Sinks
<1>2. CASE scan.sink.truncated
  <2>1. s = scan BY <1>2 DEF Line
  <2>2. scan.emitted <= n BY <1>1
  <2> QED BY <1>1, <1>2, <2>1, <2>2 DEF ScanAt
<1>3. CASE ~scan.sink.truncated
  <2>1. HitsOf(scan.sink.out) = base \union ({f} \X Upto(H, n - 1)) BY <1>3 DEF ScanAt
  <2>2. CASE hit /\ Full(scan.sink.matches)
    <3>1. s = [scan EXCEPT !.sink.truncated = TRUE] BY <1>3, <2>2 DEF Line
    <3>2. scan.sink.matches = MAX_MATCHES BY <1>1, <2>2 DEF Full
    <3> HIDE DEF s
    <3>3. /\ s \in ScanTypes /\ s.emitted = scan.emitted /\ s.sink.out = scan.sink.out
          /\ s.sink.truncated /\ s.sink.matches = scan.sink.matches
      BY <1>1, <3>1 DEF ScanTypes, Sinks
    <3>4. Upto(H, n - 1) \in SUBSET H /\ n \in H /\ n \notin Upto(H, n - 1)
      BY <2>2 DEF Upto
    <3>5. Counted(s.sink) BY <1>1, <3>3 DEF Counted
    <3>6. s.emitted <= n BY <1>1, <3>3
    <3>7. \E K \in SUBSET H : K # H /\ HitsOf(s.sink.out) = base \union ({f} \X K)
      BY <2>1, <3>3, <3>4
    <3> QED BY <3>2, <3>3, <3>5, <3>6, <3>7 DEF ScanAt, s
  <2>3. CASE hit /\ ~Full(scan.sink.matches)
    <3>1. s = Hit(scan, f, n) BY <1>3, <2>3 DEF Line
    <3>2. scan.sink.matches < MAX_MATCHES BY <1>1, <2>3 DEF Full
    <3> HIDE DEF s
    <3>3. /\ s \in ScanTypes /\ s.emitted = n
          /\ s.sink.truncated = scan.sink.truncated
          /\ s.sink.matches = scan.sink.matches + 1
          /\ HitsOf(s.sink.out) = HitsOf(scan.sink.out) \union {<<f, n>>}
      BY <1>1, <3>1, <3>2, HitAdds
    <3>4. Upto(H, n) = Upto(H, n - 1) \union {n} /\ n \notin Upto(H, n - 1)
      BY <1>0, <2>3 DEF Upto
    <3>5. HitsOf(s.sink.out) = base \union ({f} \X Upto(H, n))
      BY <2>1, <3>3, <3>4
    <3>6. <<f, n>> \notin HitsOf(scan.sink.out)
      <4>1. <<f, n>> \notin base
        <5>1. <<f, n>>[1] = f OBVIOUS
        <5> QED BY <5>1 DEF Free
      <4>2. <<f, n>> \notin {f} \X Upto(H, n - 1) BY <3>4
      <4> QED BY <2>1, <4>1, <4>2
    <3>7. Counted(s.sink)
      <4> DEFINE A == HitsOf(scan.sink.out)
      <4> HIDE DEF A
      <4>1. IsFiniteSet(A) /\ Cardinality(A) = scan.sink.matches BY <1>1 DEF Counted, A
      <4>2. IsFiniteSet(A \union {<<f, n>>})
            /\ Cardinality(A \union {<<f, n>>}) = Cardinality(A) + 1
        BY <3>6, <4>1, FS_AddElement DEF A
      <4> QED BY <3>3, <4>1, <4>2 DEF Counted, A
    <3>8. s.emitted <= n /\ ~s.sink.truncated BY <1>3, <3>3
    <3> QED BY <3>3, <3>5, <3>7, <3>8 DEF ScanAt, s
  <2>4. CASE ~hit
    <3>1. Upto(H, n) = Upto(H, n - 1) BY <1>0, <2>4 DEF Upto
    <3>2. CASE scan.after > 0
      <4> DEFINE put == Put(scan, <<Shown(f, n, "-")>>)
                 e == <<Shown(f, n, "-")>>
                 o == scan.sink.out \o e
      <4>1. s = [put EXCEPT !.emitted = n, !.after = @ - 1] BY <1>3, <2>4, <3>2 DEF Line
      <4>2. e \in Seq(ShownLines) /\ HitsOf(e) = {}
        <5>1. Shown(f, n, "-") \in ShownLines /\ Shown(f, n, "-").sep # ":"
          BY DEF Shown, ShownLines
        <5>2. e \in Seq(ShownLines) /\ \A i \in 1..Len(e) : e[i].sep # ":" BY <5>1
        <5> HIDE DEF e
        <5> QED BY <5>2, HitsNone
      <4> HIDE DEF e
      <4>3. put = Put(scan, e) BY DEF e
      <4> HIDE DEF put, o, s
      <4>4. /\ put = [sink |-> [out |-> o, matches |-> scan.sink.matches,
                                truncated |-> scan.sink.truncated],
                      ring |-> scan.ring, emitted |-> scan.emitted, after |-> scan.after]
            /\ put \in ScanTypes /\ HitsOf(o) = HitsOf(scan.sink.out)
        BY <1>1, <4>2, <4>3, PutAdds DEF o
      <4>5. s = [sink |-> put.sink, ring |-> scan.ring, emitted |-> n, after |-> scan.after - 1]
        BY <4>1, <4>4
      <4>6. put.sink \in Sinks BY <4>4 DEF ScanTypes
      <4>7. scan.after - 1 \in Nat BY <1>1, <3>2
      <4>8. s \in ScanTypes /\ s.emitted = n /\ s.sink = put.sink
        BY <1>1, <4>5, <4>6, <4>7 DEF ScanTypes
      <4>9. /\ put.sink.out = o /\ put.sink.matches = scan.sink.matches
            /\ put.sink.truncated = scan.sink.truncated
        BY <4>4
      <4>10. Counted(s.sink) BY <1>1, <4>4, <4>8, <4>9 DEF Counted
      <4>11. HitsOf(s.sink.out) = base \union ({f} \X Upto(H, n))
        BY <2>1, <3>1, <4>4, <4>8, <4>9
      <4>12. ~s.sink.truncated /\ s.emitted <= n BY <1>3, <4>8, <4>9
      <4> QED BY <4>8, <4>10, <4>11, <4>12 DEF ScanAt, s
    <3>3. CASE ~(scan.after > 0)
      <4>1. s = [scan EXCEPT !.ring = RingNext(@)] BY <1>3, <2>4, <3>3 DEF Line
      <4> HIDE DEF s
      <4>2. RingNext(scan.ring) \in Nat BY <1>1 DEF RingNext
      <4>3. s \in ScanTypes /\ s.emitted = scan.emitted /\ s.sink = scan.sink
        BY <1>1, <4>1, <4>2 DEF ScanTypes
      <4>4. s.emitted <= n BY <1>1, <4>3
      <4>5. HitsOf(s.sink.out) = base \union ({f} \X Upto(H, n)) BY <2>1, <3>1, <4>3
      <4> QED BY <1>1, <1>3, <4>3, <4>4, <4>5 DEF ScanAt, s
    <3> QED BY <3>2, <3>3
  <2> QED BY <2>2, <2>3, <2>4
<1> QED BY <1>2, <1>3

\* The lines of a file that a pattern stands on.
HitLinesOf(lines, pattern, ci) == {n \in 1..Len(lines) : line_has(lines[n], pattern, ci)}

\* The scans of a file line by line: each is the one before it with a line more.
ScanLines(scan, sink0, f, N, H, last) ==
  /\ last = scan[N].sink /\ scan[0] = Scan(sink0)
  /\ \A n \in 0..N : ScanAt(scan[n], sink0, f, n, H)
  /\ \A n \in 1..N : \E hit \in BOOLEAN : (hit <=> n \in H) /\ scan[n] = Line(scan[n - 1], f, n, hit)
\* The recursive function of grep_scan has such steps.
LEMMA ScanSteps ==
  ASSUME NEW f \in Paths, NEW sink0, Free(sink0, f), NEW lines, Len(lines) \in Nat,
         NEW pattern, NEW ci \in BOOLEAN
  PROVE  \E scan : ScanLines(scan, sink0, f, Len(lines), HitLinesOf(lines, pattern, ci),
                            grep_scan(sink0, pattern, f, lines, ci))
<1> DEFINE N == Len(lines)
           H == HitLinesOf(lines, pattern, ci)
           scan == CHOOSE scan : Scans(scan, sink0, pattern, f, lines, ci)
<1>1. Scans(scan, sink0, pattern, f, lines, ci) BY GrepExists
<1>2. grep_scan(sink0, pattern, f, lines, ci) = scan[N].sink BY DEF grep_scan, Scans
<1> HIDE DEF scan
<1>3. H \in SUBSET Nat /\ \A n \in 1..N : line_has(lines[n], pattern, ci) <=> n \in H
  BY DEF HitLinesOf
<1>4. scan[0] = Scan(sink0) /\ \A n \in 1..N : scan[n] = Line(scan[n - 1], f, n, line_has(lines[n], pattern, ci))
  <2> DEFINE h(n) == line_has(lines[n], pattern, ci)
             L(v, n) == Line(v, f, n, h(n))
             first == Scan(sink0)
  <2>1. scan = [n \in 0..N |-> IF n = 0 THEN first ELSE L(scan[n - 1], n)] BY <1>1 DEF Scans
  <2> HIDE DEF L, first
  <2>2. scan[0] = first /\ \A n \in 1..N : scan[n] = L(scan[n - 1], n) BY <2>1
  <2> QED BY <2>2 DEF L, first
<1> HIDE DEF H
<1>5. ScanAt(scan[0], sink0, f, 0, H)
  <2>1. Scan(sink0) \in ScanTypes BY DEF Free, Scan, ScanTypes
  <2>2. Scan(sink0).sink = sink0 /\ Scan(sink0).emitted = 0 BY DEF Scan
  <2>3. Upto(H, 0) = {} BY DEF Upto, H, HitLinesOf
  <2>4. HitsOf(sink0.out) = HitsOf(sink0.out) \union ({f} \X Upto(H, 0)) BY <2>3
  <2> QED BY <1>4, <2>1, <2>2, <2>4 DEF Free, ScanAt
<1>6. ASSUME NEW n \in 1..N, ScanAt(scan[n - 1], sink0, f, n - 1, H)
      PROVE  ScanAt(scan[n], sink0, f, n, H)
  <2> DEFINE hit == line_has(lines[n], pattern, ci)
  <2>1. hit \in BOOLEAN BY DEF line_has
  <2>2. hit <=> n \in H BY <1>3
  <2>3. scan[n] = Line(scan[n - 1], f, n, hit) BY <1>4
  <2> HIDE DEF hit
  <2>4. n \in Nat \ {0} OBVIOUS
  <2> QED BY <1>3, <1>6, <2>1, <2>2, <2>3, <2>4, LineKeeps
<1> DEFINE T == {n \in 0..N : ScanAt(scan[n], sink0, f, n, H)}
<1>7. 0 \in T BY <1>5
<1>8. ASSUME NEW i \in 0..(N - 1), i \in T PROVE i + 1 \in T
  <2>1. i + 1 \in 1..N /\ (i + 1) - 1 = i /\ i + 1 \in 0..N OBVIOUS
  <2>2. ScanAt(scan[(i + 1) - 1], sink0, f, (i + 1) - 1, H) BY <1>8, <2>1
  <2>3. ScanAt(scan[i + 1], sink0, f, i + 1, H) BY <1>6, <2>1, <2>2
  <2> QED BY <2>1, <2>3
<1>9. 0..N \subseteq T
  <2> HIDE DEF T
  <2> QED BY <1>7, <1>8, Upwards
<1>10. \A n \in 0..N : ScanAt(scan[n], sink0, f, n, H) BY <1>9
<1>11. \A n \in 1..N : \E hit \in BOOLEAN : (hit <=> n \in H) /\ scan[n] = Line(scan[n - 1], f, n, hit)
  <2> TAKE n \in 1..N
  <2> DEFINE hit == line_has(lines[n], pattern, ci)
  <2>1. hit \in BOOLEAN BY DEF line_has
  <2>2. hit <=> n \in H BY <1>3
  <2>3. scan[n] = Line(scan[n - 1], f, n, hit) BY <1>4
  <2> HIDE DEF hit
  <2> QED BY <2>1, <2>2, <2>3
<1>12. ScanLines(scan, sink0, f, N, H, grep_scan(sink0, pattern, f, lines, ci))
  BY <1>2, <1>4, <1>10, <1>11 DEF ScanLines
<1> QED BY <1>12 DEF H

\* What a search of one more file leaves in the sink.
SinkAfter(sink, sink0, f, H) ==
  /\ sink \in Sinks /\ Counted(sink)
  /\ IF sink.truncated
     THEN /\ sink.matches = MAX_MATCHES
          /\ \E K \in SUBSET H : K # H /\ HitsOf(sink.out) = HitsOf(sink0.out) \union ({f} \X K)
     ELSE HitsOf(sink.out) = HitsOf(sink0.out) \union ({f} \X H)

\* A scan of a file adds each hit of it to the listing, or stops at the cap
\* with a hit left out (grep_scan).
LEMMA ScanIsHits ==
  ASSUME NEW f \in Paths, NEW sink0, Free(sink0, f), NEW lines, Len(lines) \in Nat,
         NEW pattern, NEW ci \in BOOLEAN
  PROVE  SinkAfter(grep_scan(sink0, pattern, f, lines, ci), sink0, f,
                   HitLinesOf(lines, pattern, ci))
<1> DEFINE N == Len(lines)
           H == HitLinesOf(lines, pattern, ci)
           last == grep_scan(sink0, pattern, f, lines, ci)
<1>1. PICK scan : ScanLines(scan, sink0, f, N, H, last) BY ScanSteps
<1> HIDE DEF last
<1>2. N \in 0..N /\ Upto(H, N) = H BY DEF Upto, HitLinesOf
<1> HIDE DEF H, N
<1>3. last = scan[N].sink /\ ScanAt(scan[N], sink0, f, N, H) BY <1>1, <1>2 DEF ScanLines
<1>4. SinkAfter(last, sink0, f, H) BY <1>2, <1>3 DEF ScanAt, SinkAfter, ScanTypes
<1> QED BY <1>4 DEF last, H, N

-----------------------------------------------------------------------------
(* What a search has found so far.                                         *)

Roots == Paths \union DOMAIN Below
Lists == [state : {"unloaded", "loaded", "broken"}, names : SUBSET Paths]
PieceTypes == [best : Nat, files : Nat, names : Seq(Paths)]
SearchTypes == [pass : {"idle", "exact", "ci", "pieces"}, pattern : Texts, root : Roots \union {"."},
                todo : SUBSET Paths, sink : Sinks, pre : PieceTypes, suf : PieceTypes]

\* What a walk meets, and what of it is searched, over a disk d and a list of
\* the tracked files.
Reached(d, root) ==
  IF root \in DOMAIN Below THEN {f \in Below[root] \ Hidden : d[f].kind \notin {"none", "dir"}}
  ELSE {root}
Covered(d, list, root) ==
  {f \in Reached(d, root) : /\ d[f].kind = "file"
                            /\ Filtered(root) => TRUE \in is_tracked(list, f)}
HitsIn(d, F, pattern, ci) == UNION {{f} \X HitLinesOf(d[f].lines, pattern, ci) : f \in F}

\* p is the longest piece of an edge in the files of F.
LongestIn(d, f, pattern, edge) == frag_longest(Content(d[f]), pattern, edge)
HeldBy(p, d, F, pattern, edge) ==
  IF p.best = 0 THEN {} ELSE {f \in F : LongestIn(d, f, pattern, edge) = p.best}
PieceOver(p, d, F, pattern, edge) ==
  LET held == HeldBy(p, d, F, pattern, edge)
  IN  /\ p \in PieceTypes /\ Len(p.names) <= FRAG_MAX_NAMES
      /\ \A f \in F : LongestIn(d, f, pattern, edge) <= p.best
      /\ p.best # 0 => held # {}
      /\ IsFiniteSet(held) /\ p.files = Cardinality(held)
      /\ ToSet(p.names) \subseteq held
      /\ Len(p.names) = IF p.files < FRAG_MAX_NAMES THEN p.files ELSE FRAG_MAX_NAMES

\* A listing of the hits of F: all of them, or some where the cap ended it.
Listing(sink, all, now) ==
  /\ sink \in Sinks /\ Counted(sink)
  /\ IF sink.truncated
     THEN sink.matches = MAX_MATCHES /\ HitsOf(sink.out) \subseteq all /\ HitsOf(sink.out) # all
     ELSE HitsOf(sink.out) = now

PassOK(d, list, s) ==
  LET covered == Covered(d, list, s.root)
      visited == covered \ s.todo
  IN  IF s.pass = "pieces"
      THEN /\ HitsIn(d, covered, s.pattern, TRUE) = {}
           /\ PieceOver(s.pre, d, visited, s.pattern, "prefix")
           /\ PieceOver(s.suf, d, visited, s.pattern, "suffix")
      ELSE Listing(s.sink, HitsIn(d, covered, s.pattern, s.pass = "ci"),
                           HitsIn(d, visited, s.pattern, s.pass = "ci"))

\* A search under way.
Progress(d, list, s) ==
  /\ s.root \in Roots /\ s.todo \subseteq Reached(d, s.root)
  /\ Counted(s.sink) /\ \A p \in HitsOf(s.sink.out) : p[1] \notin s.todo
  /\ s.sink.truncated => s.todo = {} /\ s.sink.matches > 0
  /\ s.pass # "pieces" => s.pre = NoPiece /\ s.suf = NoPiece
  /\ s.pass = "pieces" => s.sink = EmptySink /\ Len(s.pattern) > FRAG_MIN
  /\ list.state = "unloaded" /\ Filtered(s.root) =>
       s.todo = Reached(d, s.root) /\ (s.pass # "exact" => s.todo = {})
  /\ list.state # "broken" => PassOK(d, list, s)

\* An answer.
AnswerOK(d, list, fd) ==
  /\ fd.pattern \in Texts /\ fd.root \in Roots
  /\ LET covered == Covered(d, list, fd.root)
     IN  IF fd.tag = "miss"
         THEN /\ HitsIn(d, covered, fd.pattern, TRUE) = {}
              /\ Len(fd.pattern) > FRAG_MIN =>
                    /\ PieceOver(fd.pre, d, covered, fd.pattern, "prefix")
                    /\ PieceOver(fd.suf, d, covered, fd.pattern, "suffix")
                    /\ fd.hint = grep_fragment_hint(fd.pattern, fd.pre, fd.suf)
         ELSE LET all == HitsIn(d, covered, fd.pattern, fd.tag = "ci")
              IN  Listing(fd.sink, all, all)
Answered(d, list, fd) ==
  fd.tag \in {"exact", "ci", "miss"} /\ list.state # "broken" => AnswerOK(d, list, fd)

PieceWithin(p) == p \in PieceTypes /\ Len(p.names) <= FRAG_MAX_NAMES
SearchTypeOK ==
  /\ index \subseteq Paths /\ asks.patterns \subseteq Texts /\ asks.roots \subseteq Roots
  /\ tracked \in Lists
  /\ search \in SearchTypes /\ PieceWithin(search.pre) /\ PieceWithin(search.suf)
  /\ PieceWithin(found.pre) /\ PieceWithin(found.suf)

\* No answer stands while a search is under way, so the list of tracked files
\* is the one the answer was made with.
SearchInv ==
  /\ SearchTypeOK
  /\ search.pass = "idle" => search = NoSearch
  /\ search.pass # "idle" => Progress(disk, tracked, search) /\ found.tag = "none"
  /\ Answered(disk, tracked, found)

-----------------------------------------------------------------------------
(* One file more under the hint.                                           *)

\* No file has been looked at.
LEMMA PieceStarts ==
  ASSUME NEW d, NEW pattern, NEW edge
  PROVE  PieceOver(NoPiece, d, {}, pattern, edge) /\ PieceWithin(NoPiece)
<1>1. NoPiece \in PieceTypes /\ NoPiece.best = 0 /\ NoPiece.files = 0 /\ NoPiece.names = <<>>
  BY DEF NoPiece, PieceTypes
<1>2. HeldBy(NoPiece, d, {}, pattern, edge) = {} BY <1>1 DEF HeldBy
<1>3. IsFiniteSet({}) /\ Cardinality({}) = 0 BY FewElements
<1>4. Len(<<>>) = 0 /\ FRAG_MAX_NAMES \in Nat \ {0} BY GrepAssumption
<1>5. ToSet(<<>>) = {} BY DEF ToSet
<1> DEFINE p == NoPiece
<1>6. p \in PieceTypes /\ p.best = 0 /\ p.files = 0 /\ p.names = <<>> BY <1>1
<1>7. HeldBy(p, d, {}, pattern, edge) = {} BY <1>2
<1> HIDE DEF p
<1>8. Len(p.names) = 0 BY <1>4, <1>6
<1>9. Len(p.names) <= FRAG_MAX_NAMES BY <1>4, <1>8
<1>10. Len(p.names) = IF p.files < FRAG_MAX_NAMES THEN p.files ELSE FRAG_MAX_NAMES
  BY <1>4, <1>6, <1>8
<1>11. ToSet(p.names) = {} BY <1>5, <1>6
<1>12. PieceOver(p, d, {}, pattern, edge)
  BY <1>3, <1>6, <1>7, <1>9, <1>10, <1>11, Zenon DEF PieceOver
<1> QED BY <1>6, <1>9, <1>12 DEF PieceWithin, p

\* One more name, where there is room for it.
LEMMA NamesAre ==
  ASSUME NEW names \in Seq(Paths), Len(names) <= FRAG_MAX_NAMES, NEW f \in Paths
  PROVE  /\ NamesKept(names, f) \in Seq(Paths)
         /\ Len(NamesKept(names, f)) =
              IF Len(names) < FRAG_MAX_NAMES THEN Len(names) + 1 ELSE FRAG_MAX_NAMES
         /\ ToSet(NamesKept(names, f)) \subseteq ToSet(names) \union {f}
<1>1. Len(names) \in Nat /\ FRAG_MAX_NAMES \in Nat BY GrepAssumption
<1>2. CASE Len(names) < FRAG_MAX_NAMES
  <2> DEFINE a == Append(names, f)
  <2>1. /\ a \in Seq(Paths) /\ Len(a) = Len(names) + 1
        /\ \A i \in 1..Len(a) : a[i] = IF i <= Len(names) THEN names[i] ELSE f
    BY <1>1
  <2>2. NamesKept(names, f) = a BY <1>2 DEF NamesKept
  <2> HIDE DEF a
  <2>3. ASSUME NEW i \in 1..Len(a) PROVE a[i] \in ToSet(names) \union {f}
    <3>1. CASE i <= Len(names)
      <4>1. i \in DOMAIN names /\ a[i] = names[i] BY <1>1, <2>1, <3>1
      <4> QED BY <4>1 DEF ToSet
    <3>2. CASE ~(i <= Len(names)) BY <2>1, <3>2
    <3> QED BY <3>1, <3>2
  <2>4. DOMAIN a = 1..Len(a) BY <2>1
  <2>5. ToSet(a) \subseteq ToSet(names) \union {f} BY <2>3, <2>4 DEF ToSet
  <2> QED BY <1>2, <2>1, <2>2, <2>5
<1>3. CASE ~(Len(names) < FRAG_MAX_NAMES)
  <2>1. NamesKept(names, f) = names BY <1>3 DEF NamesKept
  <2> QED BY <1>1, <1>3, <2>1
<1> QED BY <1>2, <1>3

\* A file more: a shorter piece changes nothing, a longer one starts afresh,
\* and one as long adds the file (frag_count).
LEMMA CountKeeps ==
  ASSUME NEW d, NEW F, NEW f \in Paths, f \notin F, NEW pattern, NEW edge,
         \A g \in F : LongestIn(d, g, pattern, edge) \in Nat,
         LongestIn(d, f, pattern, edge) \in Nat,
         NEW p, PieceOver(p, d, F, pattern, edge)
  PROVE  PieceOver(frag_count(p, LongestIn(d, f, pattern, edge), f), d, F \union {f}, pattern, edge)
<1> DEFINE L(g) == LongestIn(d, g, pattern, edge)
           k == L(f)
           q == frag_count(p, k, f)
           G == F \union {f}
           held == HeldBy(p, d, F, pattern, edge)
           now == HeldBy(q, d, G, pattern, edge)
<1>1. /\ p \in PieceTypes /\ Len(p.names) <= FRAG_MAX_NAMES
      /\ p.best \in Nat /\ p.files \in Nat /\ p.names \in Seq(Paths)
      /\ \A g \in F : L(g) <= p.best
      /\ p.best # 0 => held # {}
      /\ IsFiniteSet(held) /\ p.files = Cardinality(held)
      /\ ToSet(p.names) \subseteq held
      /\ Len(p.names) = IF p.files < FRAG_MAX_NAMES THEN p.files ELSE FRAG_MAX_NAMES
  BY DEF PieceOver, PieceTypes
<1>2. held = IF p.best = 0 THEN {} ELSE {g \in F : L(g) = p.best} BY DEF HeldBy
<1>3. now = IF q.best = 0 THEN {} ELSE {g \in G : L(g) = q.best} BY DEF HeldBy
<1>4. FRAG_MAX_NAMES \in Nat \ {0} BY GrepAssumption
<1>5. k \in Nat /\ \A g \in F : L(g) \in Nat OBVIOUS
<1> HIDE DEF L, held, now
<1>6. CASE k = 0 \/ k < p.best
  <2>1. q = p BY <1>6 DEF frag_count
  <2> HIDE DEF q
  <2>2. now = held
    <3>1. CASE p.best = 0 BY <1>2, <1>3, <2>1, <3>1
    <3>2. CASE p.best # 0
      <4>1. L(f) # p.best BY <1>1, <1>5, <1>6, <3>2 DEF k
      <4> QED BY <1>2, <1>3, <2>1, <3>2, <4>1 DEF G
    <3> QED BY <3>1, <3>2
  <2>3. \A g \in G : L(g) <= q.best BY <1>1, <1>5, <1>6, <2>1 DEF G, k
  <2> QED BY <1>1, <2>1, <2>2, <2>3 DEF PieceOver, L, now, q, G
<1>7. CASE k > p.best
  <2> DEFINE names == NamesKept(<<>>, f)
  <2>1. q = [best |-> k, files |-> 1, names |-> names]
    <3>1. ~(k = 0 \/ k < p.best) BY <1>1, <1>5, <1>7
    <3>2. [NoPiece EXCEPT !.best = k] = [best |-> k, files |-> 0, names |-> <<>>] BY DEF NoPiece
    <3>3. q = [[NoPiece EXCEPT !.best = k] EXCEPT !.files = @ + 1, !.names = NamesKept(@, f)]
      BY <1>7, <3>1 DEF frag_count
    <3> DEFINE e == <<>>
    <3> HIDE DEF e
    <3>4. q = [[best |-> k, files |-> 0, names |-> e] EXCEPT !.files = @ + 1, !.names = NamesKept(@, f)]
      BY <3>2, <3>3 DEF e
    <3> HIDE DEF q
    <3>5. q = [best |-> k, files |-> 0 + 1, names |-> NamesKept(e, f)] BY <3>4
    <3>6. 0 + 1 = 1 OBVIOUS
    <3> QED BY <3>5, <3>6 DEF e
  <2>2. /\ <<>> \in Seq(Paths) /\ Len(<<>>) = 0 /\ ToSet(<<>>) = {}
    BY DEF ToSet
  <2>3. /\ names \in Seq(Paths) /\ Len(names) = 1 /\ ToSet(names) \subseteq {f}
    <3> DEFINE e == <<>>
    <3> HIDE DEF e
    <3>1. e \in Seq(Paths) /\ Len(e) = 0 /\ ToSet(e) = {} BY <2>2 DEF e
    <3>2. Len(e) <= FRAG_MAX_NAMES /\ Len(e) < FRAG_MAX_NAMES BY <1>4, <3>1
    <3>3. /\ NamesKept(e, f) \in Seq(Paths) /\ Len(NamesKept(e, f)) = 0 + 1
          /\ ToSet(NamesKept(e, f)) \subseteq {} \union {f}
      BY <3>1, <3>2, NamesAre
    <3> QED BY <3>3 DEF e
  <2> HIDE DEF names, q
  <2>4. q \in PieceTypes /\ q.best = k /\ q.files = 1 /\ q.names = names
    BY <1>5, <2>1, <2>3 DEF PieceTypes
  <2>5. now = {f}
    <3>1. \A g \in F : L(g) # k BY <1>1, <1>5, <1>7
    <3>2. k # 0 BY <1>1, <1>5, <1>7
    <3> QED BY <1>3, <2>4, <3>1, <3>2 DEF G, k
  <2>6. \A g \in G : L(g) <= q.best BY <1>1, <1>5, <1>7, <2>4 DEF G, k
  <2>7. IsFiniteSet(now) /\ Cardinality(now) = 1 BY <2>5, FewElements
  <2>8. Len(q.names) <= FRAG_MAX_NAMES
        /\ Len(q.names) = IF q.files < FRAG_MAX_NAMES THEN q.files ELSE FRAG_MAX_NAMES
    <3>1. Len(q.names) = 1 /\ q.files = 1 BY <2>3, <2>4
    <3>2. \A m \in Nat \ {0} : 1 <= m /\ 1 = IF 1 < m THEN 1 ELSE m OBVIOUS
    <3> QED BY <1>4, <3>1, <3>2
  <2> QED BY <2>3, <2>4, <2>5, <2>6, <2>7, <2>8 DEF PieceOver, L, now, q, G
<1>8. CASE k = p.best /\ k # 0
  <2> DEFINE names == NamesKept(p.names, f)
  <2>1. q = [best |-> p.best, files |-> p.files + 1, names |-> names]
    <3>1. ~(k = 0 \/ k < p.best) /\ ~(k > p.best) BY <1>1, <1>5, <1>8
    <3>2. q = [p EXCEPT !.files = @ + 1, !.names = NamesKept(@, f)] BY <3>1 DEF frag_count
    <3> HIDE DEF q
    <3> QED BY <1>1, <3>2 DEF PieceTypes
  <2>3. /\ names \in Seq(Paths) /\ ToSet(names) \subseteq ToSet(p.names) \union {f}
        /\ Len(names) = IF Len(p.names) < FRAG_MAX_NAMES THEN Len(p.names) + 1 ELSE FRAG_MAX_NAMES
    BY <1>1, NamesAre
  <2> HIDE DEF names, q
  <2>4. q \in PieceTypes /\ q.best = k /\ q.files = p.files + 1 /\ q.names = names
    BY <1>1, <1>8, <2>1, <2>3 DEF PieceTypes
  <2>5. now = held \union {f} /\ f \notin held
    BY <1>2, <1>3, <1>8, <2>4 DEF G, k
  <2>6. \A g \in G : L(g) <= q.best BY <1>1, <1>5, <1>8, <2>4 DEF G, k
  <2>7. IsFiniteSet(now) /\ Cardinality(now) = p.files + 1
    BY <1>1, <2>5, FS_AddElement
  <2>8. Len(q.names) <= FRAG_MAX_NAMES
        /\ Len(q.names) = IF q.files < FRAG_MAX_NAMES THEN q.files ELSE FRAG_MAX_NAMES
    <3>1. Len(p.names) \in Nat BY <1>1
    <3> QED BY <1>1, <1>4, <2>3, <2>4, <3>1
  <2>9. ToSet(q.names) \subseteq now /\ now # {} BY <1>1, <2>3, <2>4, <2>5
  <2> QED BY <2>4, <2>6, <2>7, <2>8, <2>9 DEF PieceOver, L, now, q, G
<1> QED BY <1>1, <1>5, <1>6, <1>7, <1>8

\* The same without what it says of the files.
LEMMA CountTypes ==
  ASSUME NEW p, PieceWithin(p), NEW k \in Nat, NEW f \in Paths
  PROVE  PieceWithin(frag_count(p, k, f))
<1> DEFINE q == frag_count(p, k, f)
<1>1. /\ p.best \in Nat /\ p.files \in Nat /\ p.names \in Seq(Paths)
      /\ Len(p.names) <= FRAG_MAX_NAMES /\ FRAG_MAX_NAMES \in Nat \ {0}
      /\ p \in PieceTypes
  BY GrepAssumption DEF PieceWithin, PieceTypes
<1>2. CASE k = 0 \/ k < p.best BY <1>2 DEF frag_count
<1>3. CASE ~(k = 0 \/ k < p.best)
  <2> DEFINE base == IF k > p.best THEN [NoPiece EXCEPT !.best = k] ELSE p
  <2>1. base \in PieceTypes /\ Len(base.names) <= FRAG_MAX_NAMES
    <3>1. CASE k > p.best
      <4>1. base = [best |-> k, files |-> 0, names |-> <<>>] BY <3>1 DEF NoPiece
      <4> DEFINE e == <<>>
      <4>2. e \in Seq(Paths) /\ Len(e) = 0 OBVIOUS
      <4> HIDE DEF base, e
      <4>3. base = [best |-> k, files |-> 0, names |-> e] BY <4>1 DEF e
      <4>4. base \in PieceTypes /\ base.names = e BY <4>2, <4>3 DEF PieceTypes
      <4>5. Len(e) <= FRAG_MAX_NAMES BY <1>1, <4>2
      <4> QED BY <4>4, <4>5
    <3>2. CASE ~(k > p.best) BY <1>1, <3>2
    <3> QED BY <3>1, <3>2
  <2>2. q = [base EXCEPT !.files = @ + 1, !.names = NamesKept(@, f)]
    BY <1>3 DEF frag_count
  <2> HIDE DEF base, q
  <2> DEFINE names == NamesKept(base.names, f)
  <2>3. /\ base.best \in Nat /\ base.files \in Nat /\ base.names \in Seq(Paths)
    BY <2>1 DEF PieceTypes
  <2>4. q = [best |-> base.best, files |-> base.files + 1, names |-> names]
    BY <2>1, <2>2 DEF PieceTypes
  <2>5. /\ names \in Seq(Paths)
        /\ Len(names) = IF Len(base.names) < FRAG_MAX_NAMES THEN Len(base.names) + 1 ELSE FRAG_MAX_NAMES
    BY <2>1, <2>3, NamesAre
  <2> HIDE DEF names
  <2>6. Len(base.names) \in Nat BY <2>3
  <2>7. Len(names) <= FRAG_MAX_NAMES BY <1>1, <2>5, <2>6
  <2>8. q \in PieceTypes /\ q.names = names BY <2>3, <2>4, <2>5 DEF PieceTypes
  <2> QED BY <2>7, <2>8 DEF PieceWithin, q
<1> QED BY <1>2, <1>3

\* The hits of one file more.
LEMMA HitsMore ==
  ASSUME NEW d, NEW F, NEW pattern, NEW ci
  PROVE  /\ HitsIn(d, {}, pattern, ci) = {}
         /\ \A p \in HitsIn(d, F, pattern, ci) : p[1] \in F
         /\ \A f : HitsIn(d, F \union {f}, pattern, ci)
                     = HitsIn(d, F, pattern, ci) \union ({f} \X HitLinesOf(d[f].lines, pattern, ci))
         /\ \A G \in SUBSET F : HitsIn(d, G, pattern, ci) \subseteq HitsIn(d, F, pattern, ci)
<1> DEFINE H(f) == HitLinesOf(d[f].lines, pattern, ci)
<1> HIDE DEF H
<1>1. \A G : HitsIn(d, G, pattern, ci) = UNION {{f} \X H(f) : f \in G} BY DEF HitsIn, H
<1>2. \A f : H(f) = HitLinesOf(d[f].lines, pattern, ci) BY DEF H
<1> QED BY <1>1, <1>2

\* What a walk meets is among the paths, and what is searched among that.
LEMMA ReachedPaths ==
  ASSUME NEW d, NEW root \in Roots
  PROVE  Reached(d, root) \subseteq Paths
         /\ \A list : Covered(d, list, root) \subseteq Reached(d, root)
BY LookupAssumption DEF Reached, Covered, Roots

\* Nothing has been shown.
LEMMA SinkStarts == EmptySink \in Sinks /\ Counted(EmptySink) /\ HitsOf(EmptySink.out) = {}
                    /\ ~EmptySink.truncated /\ EmptySink.matches = 0
<1>1. <<>> \in Seq(ShownLines) /\ \A i \in 1..Len(<<>>) : <<>>[i].sep # ":" OBVIOUS
<1>2. HitsOf(<<>>) = {} BY <1>1, HitsNone
<1> DEFINE e == <<>>
<1> HIDE DEF e
<1>3. EmptySink = [out |-> e, matches |-> 0, truncated |-> FALSE] BY DEF EmptySink, e
<1>4. e \in Seq(ShownLines) /\ HitsOf(e) = {} BY <1>1, <1>2 DEF e
<1>5. EmptySink.out = e /\ EmptySink.matches = 0 /\ EmptySink.truncated = FALSE BY <1>3
<1>6. 0 \in 0..MAX_MATCHES BY GrepAssumption
<1>7. EmptySink \in Sinks BY <1>3, <1>4, <1>6 DEF Sinks
<1>8. Counted(EmptySink) BY <1>4, <1>5, FewElements DEF Counted
<1> QED BY <1>4, <1>5, <1>7, <1>8

\* A pass begins.
Begun(t, s, d, pass) == t = [s EXCEPT !.pass = pass, !.todo = Reached(d, s.root), !.sink = EmptySink]

\* A pass may begin.
MayBegin(s, d, list, pass) ==
  /\ list \in Lists /\ s \in SearchTypes /\ s.root \in Roots
  /\ s.pre = NoPiece /\ s.suf = NoPiece
  /\ pass \in {"exact", "ci", "pieces"}
  /\ pass # "exact" /\ list.state = "unloaded" /\ Filtered(s.root) => Reached(d, s.root) = {}
  /\ pass = "pieces" => /\ Len(s.pattern) > FRAG_MIN
                        /\ list.state # "broken" =>
                             HitsIn(d, Covered(d, list, s.root), s.pattern, TRUE) = {}

\* A pass that begins keeps the search well formed and has found nothing yet.
LEMMA BeginKeeps ==
  ASSUME NEW d, NEW list, NEW s, NEW pass, MayBegin(s, d, list, pass),
         NEW t, Begun(t, s, d, pass)
  PROVE  /\ t \in SearchTypes /\ t.pass = pass /\ t.pre = NoPiece /\ t.suf = NoPiece
         /\ Progress(d, list, t)
<1>0. /\ list \in Lists /\ s \in SearchTypes /\ s.root \in Roots
      /\ s.pre = NoPiece /\ s.suf = NoPiece
      /\ pass \in {"exact", "ci", "pieces"}
      /\ pass # "exact" /\ list.state = "unloaded" /\ Filtered(s.root) => Reached(d, s.root) = {}
      /\ pass = "pieces" => /\ Len(s.pattern) > FRAG_MIN
                            /\ list.state # "broken" =>
                                 HitsIn(d, Covered(d, list, s.root), s.pattern, TRUE) = {}
  BY DEF MayBegin
<1> DEFINE covered == Covered(d, list, s.root)
<1>1. t = [pass |-> pass, pattern |-> s.pattern, root |-> s.root, todo |-> Reached(d, s.root),
           sink |-> EmptySink, pre |-> s.pre, suf |-> s.suf]
  <2> DEFINE r == Reached(d, s.root)
  <2> HIDE DEF r
  <2>1. s = [pass |-> s.pass, pattern |-> s.pattern, root |-> s.root, todo |-> s.todo,
             sink |-> s.sink, pre |-> s.pre, suf |-> s.suf]
    BY <1>0 DEF SearchTypes
  <2>2. t = [s EXCEPT !.pass = pass, !.todo = r, !.sink = EmptySink] BY DEF r, Begun
  <2> QED BY <2>1, <2>2 DEF r
<1>2. Reached(d, s.root) \in SUBSET Paths BY <1>0, ReachedPaths
<1>3. s.pattern \in Texts /\ s.root \in Roots \union {"."} /\ s.pre \in PieceTypes /\ s.suf \in PieceTypes
  BY <1>0 DEF SearchTypes
<1>4. t \in SearchTypes BY <1>0, <1>1, <1>2, <1>3, SinkStarts DEF SearchTypes
<1>5. /\ t.pass = pass /\ t.pre = NoPiece /\ t.suf = NoPiece /\ t.pattern = s.pattern
      /\ t.root = s.root /\ t.todo = Reached(d, s.root) /\ t.sink = EmptySink
  BY <1>0, <1>1
<1>6. covered \ t.todo = {} BY <1>0, <1>5, ReachedPaths
<1>7. PassOK(d, list, t) \/ list.state = "broken"
  <2>1. CASE pass = "pieces"
    <3>1. /\ PieceOver(NoPiece, d, {}, s.pattern, "prefix")
          /\ PieceOver(NoPiece, d, {}, s.pattern, "suffix")
      BY PieceStarts
    <3> QED BY <1>0, <1>5, <1>6, <2>1, <3>1 DEF PassOK
  <2>2. CASE pass # "pieces"
    <3>1. HitsIn(d, {}, t.pattern, t.pass = "ci") = {} BY HitsMore
    <3>2. Listing(EmptySink, HitsIn(d, covered, t.pattern, t.pass = "ci"),
                            HitsIn(d, {}, t.pattern, t.pass = "ci"))
      BY <3>1, SinkStarts DEF Listing
    <3> QED BY <1>5, <1>6, <2>2, <3>2 DEF PassOK
  <2> QED BY <2>1, <2>2
<1>8. Progress(d, list, t)
  <2>1. Counted(t.sink) /\ \A p \in HitsOf(t.sink.out) : p[1] \notin t.todo
    BY <1>5, SinkStarts
  <2>2. ~t.sink.truncated BY <1>5, SinkStarts
  <2> QED BY <1>0, <1>5, <1>7, <2>1, <2>2 DEF Progress
<1> QED BY <1>4, <1>5, <1>8

-----------------------------------------------------------------------------
(* A visit.                                                                *)

Disks == [Paths -> Entries]

\* The list is asked for before the first file is looked at, when nothing has
\* been found yet; so what has been found is the same with it.
LEMMA LoadKeeps ==
  ASSUME NEW d, NEW old \in Lists, NEW list \in Lists, NEW s \in SearchTypes,
         s.pass # "idle", s.todo # {}, Progress(d, old, s),
         old.state # "unloaded" \/ ~Filtered(s.root) => list = old,
         Filtered(s.root) => list.state # "unloaded"
  PROVE  Progress(d, list, s)
<1>1. CASE list = old BY <1>1
<1>2. CASE list # old
  <2>1. /\ old.state = "unloaded" /\ Filtered(s.root) /\ list.state # "unloaded"
        /\ s.todo = Reached(d, s.root) /\ s.pass = "exact" /\ ~s.sink.truncated
    BY <1>2 DEF Progress, SearchTypes
  <2>2. Covered(d, old, s.root) \ s.todo = {} /\ Covered(d, list, s.root) \ s.todo = {}
    BY <2>1 DEF Covered
  <2>3. Listing(s.sink, HitsIn(d, Covered(d, old, s.root), s.pattern, FALSE), HitsIn(d, {}, s.pattern, FALSE))
    <3>1. PassOK(d, old, s) BY <2>1 DEF Progress
    <3>2. s.pass # "pieces" /\ (s.pass = "ci") = FALSE BY <2>1
    <3> QED BY <2>2, <3>1, <3>2 DEF PassOK
  <2>4. Listing(s.sink, HitsIn(d, Covered(d, list, s.root), s.pattern, FALSE), HitsIn(d, {}, s.pattern, FALSE))
    BY <2>1, <2>3 DEF Listing
  <2>5. PassOK(d, list, s)
    <3>1. s.pass # "pieces" /\ (s.pass = "ci") = FALSE BY <2>1
    <3> QED BY <2>2, <2>4, <3>1 DEF PassOK
  <2> QED BY <2>1, <2>5 DEF Progress
<1> QED BY <1>1, <1>2

\* What is looked at when a file is visited is covered by the search.
LEMMA VisitCovers ==
  ASSUME NEW d, NEW list \in Lists, list.state # "broken", NEW root, NEW f \in Reached(d, root),
         NEW listed, listed \in (IF Filtered(root) THEN is_tracked(list, f) ELSE {TRUE})
  PROVE  listed /\ d[f].kind = "file" <=> f \in Covered(d, list, root)
<1>1. CASE ~Filtered(root) BY <1>1 DEF Covered
<1>2. CASE Filtered(root)
  <2>1. is_tracked(list, f) = {list.names = {} \/ f \in list.names} BY DEF is_tracked
  <2>2. listed <=> (list.names = {} \/ f \in list.names) BY <1>2, <2>1
  <2>3. TRUE \in is_tracked(list, f) <=> (list.names = {} \/ f \in list.names)
    BY <2>1
  <2> QED BY <1>2, <2>2, <2>3 DEF Covered
<1> QED BY <1>1, <1>2

\* One file less to visit.
Rest(s) == IF s.sink.truncated THEN {} ELSE s.todo

\* A file that is left out changes nothing but what is still to be visited.
LEMMA PassesKeep ==
  ASSUME NEW d \in Disks, NEW list \in Lists, NEW s \in SearchTypes, s.pass # "idle",
         NEW f \in s.todo, Progress(d, list, s),
         list.state # "unloaded" \/ ~Filtered(s.root),
         list.state # "broken" => f \notin Covered(d, list, s.root)
  PROVE  LET t == [s EXCEPT !.todo = s.todo \ {f}]
         IN  Progress(d, list, t)
<1> DEFINE t == [s EXCEPT !.todo = s.todo \ {f}]
           covered == Covered(d, list, s.root)
<1>1. /\ t.pass = s.pass /\ t.pattern = s.pattern /\ t.root = s.root /\ t.todo = s.todo \ {f}
      /\ t.sink = s.sink /\ t.pre = s.pre /\ t.suf = s.suf
  BY DEF SearchTypes
<1> HIDE DEF t
<1>2. list.state # "broken" => covered \ t.todo = covered \ s.todo BY <1>1
<1>3. list.state # "broken" => PassOK(d, list, t)
  <2> SUFFICES ASSUME list.state # "broken" PROVE PassOK(d, list, t) OBVIOUS
  <2>1. PassOK(d, list, s) BY DEF Progress
  <2> HIDE DEF covered
  <2> QED BY <1>1, <1>2, <2>1 DEF PassOK, covered
<1>4. t.todo \subseteq Reached(d, t.root) /\ t.root \in Roots BY <1>1 DEF Progress
<1>5. ~t.sink.truncated BY <1>1 DEF Progress
<1>6. Counted(t.sink) /\ \A p \in HitsOf(t.sink.out) : p[1] \notin t.todo BY <1>1 DEF Progress
<1> QED BY <1>1, <1>3, <1>4, <1>5, <1>6 DEF Progress, t

\* A file searched for the pattern adds its hits to the listing.
LEMMA HitsKeep ==
  ASSUME NEW d \in Disks, NEW list \in Lists, NEW s \in SearchTypes, s.pass \in {"exact", "ci"},
         NEW f \in s.todo, Progress(d, list, s),
         list.state # "unloaded" \/ ~Filtered(s.root),
         list.state # "broken" => f \in Covered(d, list, s.root)
  PROVE  LET sink == grep_scan(s.sink, s.pattern, f, d[f].lines, s.pass = "ci")
             t == [s EXCEPT !.sink = sink, !.todo = IF sink.truncated THEN {} ELSE s.todo \ {f}]
         IN  t \in SearchTypes /\ Progress(d, list, t)
<1> DEFINE ci == s.pass = "ci"
           sink == grep_scan(s.sink, s.pattern, f, d[f].lines, s.pass = "ci")
           t == [s EXCEPT !.sink = sink, !.todo = IF sink.truncated THEN {} ELSE s.todo \ {f}]
           covered == Covered(d, list, s.root)
           H == HitLinesOf(d[f].lines, s.pattern, ci)
<1>0. ci \in BOOLEAN /\ ci = (s.pass = "ci") OBVIOUS
<1> HIDE DEF ci
<1>1. /\ f \in Paths /\ s.todo \subseteq Paths /\ s.sink \in Sinks /\ s.pattern \in Texts
      /\ s.pre \in PieceTypes /\ s.suf \in PieceTypes
  BY DEF SearchTypes
<1>2. Len(d[f].lines) \in Nat
  <2>1. d[f].lines \in Seq(Texts) BY <1>1 DEF Disks, Entries
  <2> QED BY <2>1
<1>3. Free(s.sink, f) BY <1>1 DEF Free, Progress
<1>4. SinkAfter(sink, s.sink, f, H)
  BY <1>0, <1>1, <1>2, <1>3, ScanIsHits
<1> HIDE DEF sink, H
<1>5. sink \in Sinks /\ Counted(sink) /\ sink.truncated \in BOOLEAN
  BY <1>4 DEF SinkAfter, Sinks
<1>6. t = [pass |-> s.pass, pattern |-> s.pattern, root |-> s.root,
           todo |-> IF sink.truncated THEN {} ELSE s.todo \ {f},
           sink |-> sink, pre |-> s.pre, suf |-> s.suf]
  <2> DEFINE r == IF sink.truncated THEN {} ELSE s.todo \ {f}
  <2> HIDE DEF r
  <2>1. s = [pass |-> s.pass, pattern |-> s.pattern, root |-> s.root, todo |-> s.todo,
             sink |-> s.sink, pre |-> s.pre, suf |-> s.suf]
    BY DEF SearchTypes
  <2>2. t = [s EXCEPT !.sink = sink, !.todo = r] BY DEF r, sink
  <2> HIDE DEF t
  <2> QED BY <2>1, <2>2 DEF r
<1> HIDE DEF t
<1>7. /\ t.pass = s.pass /\ t.pattern = s.pattern /\ t.root = s.root
      /\ t.todo = (IF sink.truncated THEN {} ELSE s.todo \ {f})
      /\ t.sink = sink /\ t.pre = s.pre /\ t.suf = s.suf
  BY <1>6
<1>8. t \in SearchTypes
  <2>1. t.todo \in SUBSET Paths BY <1>1, <1>7
  <2>2. s.pass \in {"idle", "exact", "ci", "pieces"} /\ s.root \in Roots \union {"."}
    BY DEF SearchTypes
  <2> QED BY <1>1, <1>5, <1>6, <1>7, <2>1, <2>2 DEF SearchTypes
<1>9. HitsOf(sink.out) \subseteq HitsOf(s.sink.out) \union ({f} \X H)
      /\ (sink.truncated => sink.matches = MAX_MATCHES)
  BY <1>4 DEF SinkAfter
<1>10. \A p \in HitsOf(t.sink.out) : p[1] \notin t.todo
  <2>1. \A p \in {f} \X H : p[1] = f OBVIOUS
  <2>2. \A p \in HitsOf(s.sink.out) : p[1] \notin s.todo BY DEF Progress
  <2>3. t.todo \subseteq s.todo \ {f} /\ t.sink = sink BY <1>7
  <2> QED BY <1>9, <2>1, <2>2, <2>3
<1>11. list.state # "broken" => PassOK(d, list, t)
  <2> SUFFICES ASSUME list.state # "broken" PROVE PassOK(d, list, t) OBVIOUS
  <2> DEFINE all == HitsIn(d, covered, s.pattern, ci)
             F == covered \ s.todo
             old == HitsIn(d, F, s.pattern, ci)
             now == HitsIn(d, covered \ t.todo, s.pattern, ci)
  <2>1. Listing(s.sink, all, old)
    <3>1. PassOK(d, list, s) /\ s.pass # "pieces" BY DEF Progress
    <3> QED BY <1>0, <3>1 DEF PassOK
  <2>2. f \in covered /\ f \in s.todo /\ ~s.sink.truncated BY DEF Progress
  <2>3. HitsOf(s.sink.out) = old BY <2>1, <2>2 DEF Listing
  <2>4. HitsIn(d, F \union {f}, s.pattern, ci) = old \union ({f} \X H)
    <3> HIDE DEF F
    <3> QED BY HitsMore DEF H
  <2>5. old \union ({f} \X H) \subseteq all
    <3>1. F \union {f} \in SUBSET covered BY <2>2
    <3> QED BY <2>4, <3>1, HitsMore
  <2>6. \A p \in old : p[1] # f BY <2>2, HitsMore
  <2> HIDE DEF covered, all, old, now
  <2>7. Listing(sink, all, now)
    <3>1. CASE sink.truncated
      <4>1. PICK K \in SUBSET H : K # H /\ HitsOf(sink.out) = old \union ({f} \X K)
        BY <1>4, <2>3, <3>1 DEF SinkAfter
      <4>2. PICK h \in H : h \notin K BY <4>1
      <4>3. <<f, h>> \in {f} \X H /\ <<f, h>> \notin {f} \X K /\ <<f, h>>[1] = f BY <4>2
      <4>4. <<f, h>> \in all /\ <<f, h>> \notin HitsOf(sink.out) BY <2>5, <2>6, <4>1, <4>3
      <4>5. HitsOf(sink.out) \subseteq all
        <5>1. {f} \X K \subseteq {f} \X H BY <4>1
        <5> QED BY <2>5, <4>1, <5>1
      <4> QED BY <1>5, <1>9, <3>1, <4>4, <4>5 DEF Listing
    <3>2. CASE ~sink.truncated
      <4>1. HitsOf(sink.out) = old \union ({f} \X H) BY <1>4, <2>3, <3>2 DEF SinkAfter
      <4>2. covered \ t.todo = F \union {f} BY <1>7, <2>2, <3>2
      <4>3. now = old \union ({f} \X H) BY <2>4, <4>2 DEF now
      <4> QED BY <1>5, <3>2, <4>1, <4>3 DEF Listing
    <3> QED BY <3>1, <3>2
  <2>8. t.pass # "pieces" /\ (t.pass = "ci") = ci BY <1>0, <1>7
  <2>9. Listing(t.sink, HitsIn(d, covered, t.pattern, t.pass = "ci"),
                        HitsIn(d, covered \ t.todo, t.pattern, t.pass = "ci"))
    BY <1>7, <2>7, <2>8 DEF all, now
  <2> QED BY <1>7, <2>8, <2>9 DEF PassOK, covered
<1>12. Progress(d, list, t)
  <2>1. t.todo \subseteq Reached(d, t.root) /\ t.root \in Roots BY <1>7 DEF Progress
  <2>2. Counted(t.sink) BY <1>5, <1>7
  <2>3. t.sink.truncated => t.todo = {} /\ t.sink.matches > 0
    BY <1>7, <1>9, GrepAssumption
  <2>4. t.pass # "pieces" /\ t.pre = NoPiece /\ t.suf = NoPiece BY <1>7 DEF Progress
  <2>5. ~(list.state = "unloaded" /\ Filtered(t.root)) BY <1>7
  <2> QED BY <1>10, <1>11, <2>1, <2>2, <2>3, <2>4, <2>5 DEF Progress
<1> QED BY <1>8, <1>12 DEF t, sink

\* The longest piece in a file is a number of characters.
LEMMA LongestType ==
  ASSUME NEW d \in Disks, NEW g \in Paths, NEW pattern \in Texts, Len(pattern) > FRAG_MIN, NEW edge
  PROVE  LongestAt(Content(d[g]), pattern, edge, 0, Len(pattern) - 1, LongestIn(d, g, pattern, edge))
         /\ LongestIn(d, g, pattern, edge) \in Nat
<1>1. pattern \in Seq(STRING) /\ Len(pattern) \in Nat BY DEF Texts
<1>2. pattern # <<>>
  <2>1. Len(<<>>) = 0 /\ FRAG_MIN \in Nat BY GrepAssumption
  <2> QED BY <1>1, <2>1
<1>3. Content(d[g]) \in Seq(Chars) BY ContentIsText DEF Disks
<1>4. LongestAt(Content(d[g]), pattern, edge, 0, Len(pattern) - 1, LongestIn(d, g, pattern, edge))
  BY <1>2, <1>3, LongestIs DEF LongestIn
<1>5. LongestIn(d, g, pattern, edge) \in 0..(Len(pattern) - 1) BY <1>4 DEF LongestAt
<1> QED BY <1>1, <1>4, <1>5

\* A file searched for the pieces is counted for each edge.
LEMMA PiecesKeep ==
  ASSUME NEW d \in Disks, NEW list \in Lists, NEW s \in SearchTypes, s.pass = "pieces",
         PieceWithin(s.pre), PieceWithin(s.suf),
         NEW f \in s.todo, Progress(d, list, s),
         list.state # "unloaded" \/ ~Filtered(s.root),
         list.state # "broken" => f \in Covered(d, list, s.root)
  PROVE  LET t == [s EXCEPT !.pre = frag_count(s.pre, LongestIn(d, f, s.pattern, "prefix"), f),
                            !.suf = frag_count(s.suf, LongestIn(d, f, s.pattern, "suffix"), f),
                            !.todo = s.todo \ {f}]
         IN  /\ t \in SearchTypes /\ PieceWithin(t.pre) /\ PieceWithin(t.suf)
             /\ Progress(d, list, t)
<1> DEFINE pre == frag_count(s.pre, LongestIn(d, f, s.pattern, "prefix"), f)
           suf == frag_count(s.suf, LongestIn(d, f, s.pattern, "suffix"), f)
           rest == s.todo \ {f}
           t == [s EXCEPT !.pre = pre, !.suf = suf, !.todo = rest]
           covered == Covered(d, list, s.root)
           F == covered \ s.todo
<1>1. /\ f \in Paths /\ s.todo \subseteq Paths /\ s.sink \in Sinks /\ s.pattern \in Texts
      /\ Len(s.pattern) > FRAG_MIN /\ s.root \in Roots
  BY DEF SearchTypes, Progress
<1>2. \A edge : LongestIn(d, f, s.pattern, edge) \in Nat BY <1>1, LongestType
<1>3. PieceWithin(pre) /\ PieceWithin(suf) BY <1>1, <1>2, CountTypes
<1>4. list.state # "broken" =>
        /\ PieceOver(pre, d, F \union {f}, s.pattern, "prefix")
        /\ PieceOver(suf, d, F \union {f}, s.pattern, "suffix")
  <2> SUFFICES ASSUME list.state # "broken"
               PROVE  /\ PieceOver(pre, d, F \union {f}, s.pattern, "prefix")
                      /\ PieceOver(suf, d, F \union {f}, s.pattern, "suffix")
    OBVIOUS
  <2>1. PassOK(d, list, s) BY DEF Progress
  <2>2. PieceOver(s.pre, d, F, s.pattern, "prefix") /\ PieceOver(s.suf, d, F, s.pattern, "suffix")
    BY <2>1 DEF PassOK
  <2>3. F \subseteq Paths /\ f \notin F BY <1>1, ReachedPaths
  <2> HIDE DEF F
  <2>4. \A edge : \A g \in F : LongestIn(d, g, s.pattern, edge) \in Nat
    BY <1>1, <2>3, LongestType
  <2> QED BY <1>1, <1>2, <2>2, <2>3, <2>4, CountKeeps
<1> HIDE DEF pre, suf, rest
<1>5. t = [pass |-> s.pass, pattern |-> s.pattern, root |-> s.root, todo |-> rest,
           sink |-> s.sink, pre |-> pre, suf |-> suf]
  <2>1. s = [pass |-> s.pass, pattern |-> s.pattern, root |-> s.root, todo |-> s.todo,
             sink |-> s.sink, pre |-> s.pre, suf |-> s.suf]
    BY DEF SearchTypes
  <2>2. t = [s EXCEPT !.pre = pre, !.suf = suf, !.todo = rest] OBVIOUS
  <2> HIDE DEF t
  <2> QED BY <2>1, <2>2
<1> HIDE DEF t
<1>6. /\ t.pass = s.pass /\ t.pattern = s.pattern /\ t.root = s.root /\ t.todo = rest
      /\ t.sink = s.sink /\ t.pre = pre /\ t.suf = suf
  BY <1>5
<1>7. t \in SearchTypes
  <2>1. rest \in SUBSET Paths BY <1>1 DEF rest
  <2>2. s.pass \in {"idle", "exact", "ci", "pieces"} /\ s.root \in Roots \union {"."}
    BY DEF SearchTypes
  <2> QED BY <1>1, <1>3, <1>5, <2>1, <2>2 DEF SearchTypes, PieceWithin
<1>8. list.state # "broken" => PassOK(d, list, t)
  <2> SUFFICES ASSUME list.state # "broken" PROVE PassOK(d, list, t) OBVIOUS
  <2>1. PassOK(d, list, s) BY DEF Progress
  <2>2. HitsIn(d, covered, s.pattern, TRUE) = {} BY <2>1 DEF PassOK
  <2>3. covered \ rest = F \union {f} BY DEF rest
  <2> HIDE DEF covered, F
  <2> QED BY <1>4, <1>6, <2>2, <2>3 DEF PassOK, covered
<1>9. Progress(d, list, t)
  <2>1. t.todo \subseteq Reached(d, t.root) /\ t.root \in Roots BY <1>6 DEF Progress, rest
  <2>2. Counted(t.sink) /\ t.sink = EmptySink /\ Len(t.pattern) > FRAG_MIN BY <1>6 DEF Progress
  <2>3. ~t.sink.truncated /\ HitsOf(t.sink.out) = {} BY <2>2, SinkStarts
  <2>4. t.pass = "pieces" BY <1>6
  <2>5. ~(list.state = "unloaded" /\ Filtered(t.root)) BY <1>6
  <2> QED BY <1>8, <2>1, <2>2, <2>3, <2>4, <2>5 DEF Progress
<1> QED BY <1>3, <1>6, <1>7, <1>9 DEF t, pre, suf, rest

-----------------------------------------------------------------------------
(* The steps.                                                              *)

\* An answer has what the search had.
LEMMA FoundIs ==
  ASSUME NEW tag, NEW s
  PROVE  LET fd == Found(tag, s)
         IN  /\ fd.tag = tag /\ fd.pattern = s.pattern /\ fd.root = s.root /\ fd.sink = s.sink
             /\ fd.pre = s.pre /\ fd.suf = s.suf
             /\ s.pass = "pieces" => fd.hint = grep_fragment_hint(s.pattern, s.pre, s.suf)
<1> DEFINE h == IF s.pass = "pieces" THEN grep_fragment_hint(s.pattern, s.pre, s.suf) ELSE {}
<1> HIDE DEF h
<1>1. Found(tag, s) = [tag |-> tag, pattern |-> s.pattern, root |-> s.root,
                       sink |-> s.sink, pre |-> s.pre, suf |-> s.suf, hint |-> h]
  BY DEF Found, h
<1>2. s.pass = "pieces" => h = grep_fragment_hint(s.pattern, s.pre, s.suf) BY DEF h
<1> QED BY <1>1, <1>2

\* No search is under way.
LEMMA NoSearchIs ==
  /\ NoSearch \in SearchTypes /\ NoSearch.pass = "idle"
  /\ NoSearch.pre = NoPiece /\ NoSearch.suf = NoPiece
  /\ PieceWithin(NoPiece)
<1> DEFINE e == <<>>
<1>1. e \in Texts /\ {} \in SUBSET Paths BY DEF Texts
<1>2. PieceWithin(NoPiece) /\ NoPiece \in PieceTypes BY PieceStarts DEF PieceWithin
<1> HIDE DEF e
<1>3. NoSearch = [pass |-> "idle", pattern |-> e, root |-> ".", todo |-> {},
                  sink |-> EmptySink, pre |-> NoPiece, suf |-> NoPiece]
  BY DEF NoSearch, e
<1>4. NoSearch \in SearchTypes BY <1>1, <1>2, <1>3, SinkStarts DEF SearchTypes
<1> QED BY <1>2, <1>3, <1>4

\* Nothing is searched for when a run begins.
LEMMA InitSearch == Init => SearchInv
<1> SUFFICES ASSUME Init PROVE SearchInv OBVIOUS
<1>1. PICK start \in Starts : index = start.index /\ asks = start.asks BY DEF Init
<1>2. tracked = Unloaded /\ search = NoSearch /\ found = Found("none", NoSearch) BY DEF Init
<1>3. /\ index \subseteq Paths /\ asks.patterns \subseteq Texts /\ asks.roots \subseteq Roots
  BY <1>1, LookupAssumption DEF Roots
<1>4. Unloaded \in Lists BY DEF Unloaded, Lists
<1>5. found.tag = "none" /\ found.pre = NoPiece /\ found.suf = NoPiece
  BY <1>2, FoundIs, NoSearchIs
<1>6. SearchTypeOK BY <1>2, <1>3, <1>4, <1>5, NoSearchIs DEF SearchTypeOK
<1>7. Answered(disk, tracked, found) BY <1>5 DEF Answered
<1> QED BY <1>2, <1>6, <1>7, NoSearchIs DEF SearchInv

\* A call answers at once, or begins to search.
LEMMA GrepKeepsSearch ==
  ASSUME ReadInv, SearchInv, tool_grep PROVE SearchInv'
<1>1. Idle /\ search = NoSearch /\ SearchTypeOK BY DEF SearchInv, tool_grep, Idle
<1>2. PICK pattern \in asks.patterns, root \in asks.roots :
        LET s == [NoSearch EXCEPT !.pattern = pattern, !.root = root]
        IN  \/ \E tag \in {"error: empty", "error: missing"} : Answer(s, tag)
            \/ Begin(s, "exact") /\ found' = Found("none", NoSearch)
  BY DEF tool_grep
<1> DEFINE s == [NoSearch EXCEPT !.pattern = pattern, !.root = root]
<1>3. UNCHANGED <<disk, index, asks, tracked>> BY DEF tool_grep
<1>4. pattern \in Texts /\ root \in Roots BY <1>1 DEF SearchTypeOK
<1>5. /\ s \in SearchTypes /\ s.root = root /\ s.pattern = pattern /\ s.pre = NoPiece
      /\ s.suf = NoPiece /\ s.pass = "idle"
  BY <1>4, NoSearchIs DEF SearchTypes
<1> HIDE DEF s
<1>6. CASE \E tag \in {"error: empty", "error: missing"} : Answer(s, tag)
  <2>1. PICK tag \in {"error: empty", "error: missing"} : found' = Found(tag, s) /\ search' = NoSearch
    BY <1>6 DEF Answer
  <2>2. found'.tag = tag /\ found'.pre = NoPiece /\ found'.suf = NoPiece
    BY <1>5, <2>1, FoundIs
  <2>3. SearchTypeOK' BY <1>1, <1>3, <2>1, <2>2, NoSearchIs DEF SearchTypeOK
  <2>4. tag \notin {"exact", "ci", "miss"} BY <2>1
  <2>5. Answered(disk, tracked, found)' BY <2>2, <2>4 DEF Answered
  <2> QED BY <2>1, <2>3, <2>5, NoSearchIs DEF SearchInv
<1>7. CASE Begin(s, "exact") /\ found' = Found("none", NoSearch)
  <2>1. search' = [s EXCEPT !.pass = "exact", !.todo = Reached(disk, s.root), !.sink = EmptySink]
    BY <1>7 DEF Begin, Walk, Reached
  <2>2. tracked \in Lists BY <1>1 DEF SearchTypeOK
  <2>3. /\ search' \in SearchTypes /\ search'.pass = "exact" /\ search'.pre = NoPiece
        /\ search'.suf = NoPiece /\ Progress(disk, tracked, search')
    <3> DEFINE t == [s EXCEPT !.pass = "exact", !.todo = Reached(disk, s.root), !.sink = EmptySink]
    <3>1. /\ t \in SearchTypes /\ t.pass = "exact" /\ t.pre = NoPiece /\ t.suf = NoPiece
          /\ Progress(disk, tracked, t)
      <4> DEFINE pass == "exact"
      <4>1. pass \in {"exact", "ci", "pieces"} /\ pass = "exact" /\ pass # "pieces" OBVIOUS
      <4>2. s.root \in Roots BY <1>4, <1>5
      <4>3. t = [s EXCEPT !.pass = pass, !.todo = Reached(disk, s.root), !.sink = EmptySink] OBVIOUS
      <4> HIDE DEF pass, t
      <4>4. Begun(t, s, disk, pass) BY <4>3 DEF Begun
      <4>5. MayBegin(s, disk, tracked, pass) BY <1>5, <2>2, <4>1, <4>2 DEF MayBegin
      <4> QED BY <4>1, <4>4, <4>5, BeginKeeps
    <3> HIDE DEF t
    <3>2. search' = t BY <2>1 DEF t
    <3> QED BY <3>1, <3>2
  <2>4. found'.tag = "none" /\ found'.pre = NoPiece /\ found'.suf = NoPiece
    BY <1>7, FoundIs, NoSearchIs
  <2>5. SearchTypeOK' BY <1>1, <1>3, <2>3, <2>4, NoSearchIs DEF SearchTypeOK
  <2>6. Answered(disk, tracked, found)' BY <2>4 DEF Answered
  <2>7. Progress(disk, tracked, search)' BY <1>3, <2>3
  <2> QED BY <2>3, <2>4, <2>5, <2>6, <2>7 DEF SearchInv
<1> QED BY <1>2, <1>6, <1>7 DEF s

\* A pass that found nothing and has nothing left to visit found that nothing
\* of it stands anywhere.
LEMMA NoneLeft ==
  ASSUME NEW d, NEW list \in Lists, list.state # "broken", NEW s \in SearchTypes,
         s.pass \in {"exact", "ci"}, s.todo = {}, ~(s.sink.matches > 0), Progress(d, list, s)
  PROVE  HitsIn(d, Covered(d, list, s.root), s.pattern, s.pass = "ci") = {}
<1> DEFINE all == HitsIn(d, Covered(d, list, s.root), s.pattern, s.pass = "ci")
<1>1. PassOK(d, list, s) /\ s.pass # "pieces" /\ ~s.sink.truncated BY DEF Progress
<1>2. Covered(d, list, s.root) \ s.todo = Covered(d, list, s.root) OBVIOUS
<1>3. Listing(s.sink, all, all) BY <1>1, <1>2 DEF PassOK
<1> HIDE DEF all
<1>4. HitsOf(s.sink.out) = all /\ Counted(s.sink) /\ s.sink \in Sinks BY <1>1, <1>3 DEF Listing
<1>5. s.sink.matches = 0 BY <1>4, GrepAssumption DEF Sinks
<1>6. HitsOf(s.sink.out) = {} BY <1>4, <1>5, NoElement DEF Counted
<1> QED BY <1>4, <1>6 DEF all

\* A pass ends with an answer, or the next one begins.
LEMMA EndKeepsSearch ==
  ASSUME ReadInv, SearchInv, PassEnds PROVE SearchInv'
<1>0. UNCHANGED <<disk, index, asks, tracked>> BY DEF PassEnds
<1>1. /\ search.pass # "idle" /\ search.todo = {} /\ SearchTypeOK
      /\ Progress(disk, tracked, search) /\ found.tag = "none"
      /\ search \in SearchTypes /\ tracked \in Lists
      /\ search.pass \in {"exact", "ci", "pieces"} /\ search.pattern \in Texts
      /\ search.root \in Roots
  BY DEF SearchInv, PassEnds, SearchTypeOK, SearchTypes, Progress
<1>2. /\ search.pass # "exact" /\ tracked.state = "unloaded" /\ Filtered(search.root)
           => Reached(disk, search.root) = {}
      /\ tracked.state = "unloaded" /\ Filtered(search.root) => Reached(disk, search.root) = {}
  BY <1>1 DEF Progress
<1>3. \/ search.sink.matches > 0 /\ Answer(search, search.pass)
      \/ ~(search.sink.matches > 0) /\ search.pass = "exact" /\ Begin(search, "ci") /\ UNCHANGED found
      \/ /\ ~(search.sink.matches > 0) /\ search.pass = "ci" /\ Len(search.pattern) > FRAG_MIN
         /\ Begin(search, "pieces") /\ UNCHANGED found
      \/ /\ ~(search.sink.matches > 0) /\ search.pass # "exact"
         /\ search.pass = "ci" => ~(Len(search.pattern) > FRAG_MIN)
         /\ Answer(search, "miss")
  <2>1. ~(0 > 0) /\ FRAG_MIN \in Nat /\ Len(search.pattern) \in Nat
    BY <1>1, GrepAssumption DEF Texts
  <2>2. Len(search.pattern) <= FRAG_MIN => ~(Len(search.pattern) > FRAG_MIN) BY <2>1
  <2> QED BY <2>1, <2>2 DEF PassEnds
<1> DEFINE covered == Covered(disk, tracked, search.root)
<1>4. covered \ search.todo = covered BY <1>1
\* The next state, from an answer.
<1>5. ASSUME NEW tag, Answer(search, tag), Answered(disk, tracked, Found(tag, search)) PROVE SearchInv'
  <2>1. found' = Found(tag, search) /\ search' = NoSearch BY <1>5 DEF Answer
  <2>2. found'.pre = search.pre /\ found'.suf = search.suf BY <2>1, FoundIs
  <2>3. SearchTypeOK' BY <1>0, <1>1, <2>1, <2>2, NoSearchIs DEF SearchTypeOK
  <2>4. Answered(disk, tracked, found)' BY <1>0, <1>5, <2>1
  <2> QED BY <2>1, <2>3, <2>4, NoSearchIs DEF SearchInv
\* The next state, from another pass.
<1>6. ASSUME NEW pass \in {"ci", "pieces"}, Begin(search, pass), UNCHANGED found,
             search.pre = NoPiece, search.suf = NoPiece,
             pass = "pieces" => /\ Len(search.pattern) > FRAG_MIN
                                /\ tracked.state # "broken" =>
                                     HitsIn(disk, covered, search.pattern, TRUE) = {}
      PROVE  SearchInv'
  <2> DEFINE t == [search EXCEPT !.pass = pass, !.todo = Reached(disk, search.root), !.sink = EmptySink]
  <2>1. search' = t BY <1>6 DEF Begin, Walk, Reached
  <2>2. pass \in {"exact", "ci", "pieces"} OBVIOUS
  <2>3. /\ t \in SearchTypes /\ t.pass = pass /\ t.pre = NoPiece /\ t.suf = NoPiece
        /\ Progress(disk, tracked, t)
    <3>1. pass # "exact" /\ tracked.state = "unloaded" /\ Filtered(search.root)
            => Reached(disk, search.root) = {}
      BY <1>2
    <3>2. pass = "pieces" => /\ Len(search.pattern) > FRAG_MIN
                             /\ tracked.state # "broken" =>
                                  HitsIn(disk, Covered(disk, tracked, search.root), search.pattern, TRUE) = {}
      BY <1>6
    <3>3. t = [search EXCEPT !.pass = pass, !.todo = Reached(disk, search.root), !.sink = EmptySink]
      OBVIOUS
    <3> HIDE DEF t
    <3>4. Begun(t, search, disk, pass) BY <3>3 DEF Begun
    <3>5. /\ search.root \in Roots /\ tracked \in Lists /\ search \in SearchTypes
          /\ search.pre = NoPiece /\ search.suf = NoPiece
      BY <1>1, <1>6
    <3> HIDE DEF covered
    <3>6. MayBegin(search, disk, tracked, pass) BY <2>2, <3>1, <3>2, <3>5 DEF MayBegin
    <3> QED BY <3>4, <3>6, BeginKeeps
  <2> HIDE DEF t
  <2>4. SearchTypeOK' BY <1>0, <1>1, <1>6, <2>1, <2>3, NoSearchIs DEF SearchTypeOK
  <2>5. Progress(disk, tracked, search)' BY <1>0, <2>1, <2>3
  <2>6. Answered(disk, tracked, found)' BY <1>1, <1>6 DEF Answered
  <2> QED BY <1>1, <1>6, <2>1, <2>3, <2>4, <2>5, <2>6 DEF SearchInv
<1>7. CASE search.sink.matches > 0 /\ Answer(search, search.pass)
  <2>1. search.pass # "pieces" BY <1>1, <1>7, SinkStarts DEF Progress
  <2>2. ASSUME tracked.state # "broken" PROVE AnswerOK(disk, tracked, Found(search.pass, search))
    <3> DEFINE fd == Found(search.pass, search)
               all == HitsIn(disk, covered, search.pattern, search.pass = "ci")
    <3>1. /\ fd.tag = search.pass /\ fd.pattern = search.pattern /\ fd.root = search.root
          /\ fd.sink = search.sink
      BY FoundIs
    <3> HIDE DEF fd
    <3>2. PassOK(disk, tracked, search) BY <1>1, <2>2 DEF Progress
    <3>3. Listing(search.sink, all, all) BY <1>4, <2>1, <3>2 DEF PassOK
    <3>4. fd.tag # "miss" BY <1>1, <3>1
    <3> QED BY <1>1, <3>1, <3>3, <3>4 DEF AnswerOK, fd
  <2>3. Answered(disk, tracked, Found(search.pass, search)) BY <2>2 DEF Answered
  <2> QED BY <1>5, <1>7, <2>3
<1>8. CASE ~(search.sink.matches > 0) /\ search.pass = "exact" /\ Begin(search, "ci") /\ UNCHANGED found
  <2>1. search.pre = NoPiece /\ search.suf = NoPiece BY <1>1, <1>8 DEF Progress
  <2> DEFINE pass == "ci"
  <2>2. pass \in {"ci", "pieces"} /\ pass # "pieces" /\ Begin(search, pass) BY <1>8
  <2> HIDE DEF pass
  <2> QED BY <1>6, <1>8, <2>1, <2>2
<1>9. CASE /\ ~(search.sink.matches > 0) /\ search.pass = "ci" /\ Len(search.pattern) > FRAG_MIN
           /\ Begin(search, "pieces") /\ UNCHANGED found
  <2>1. search.pre = NoPiece /\ search.suf = NoPiece BY <1>1, <1>9 DEF Progress
  <2>2. ASSUME tracked.state # "broken" PROVE HitsIn(disk, covered, search.pattern, TRUE) = {}
    <3>1. (search.pass = "ci") = TRUE /\ search.pass \in {"exact", "ci"} BY <1>9
    <3> QED BY <1>1, <1>9, <2>2, <3>1, NoneLeft
  <2> DEFINE pass == "pieces"
  <2>3. pass \in {"ci", "pieces"} /\ Begin(search, pass) BY <1>9
  <2> HIDE DEF pass, covered
  <2> QED BY <1>6, <1>9, <2>1, <2>2, <2>3
<1>10. CASE /\ ~(search.sink.matches > 0) /\ search.pass # "exact"
            /\ search.pass = "ci" => ~(Len(search.pattern) > FRAG_MIN)
            /\ Answer(search, "miss")
  <2> DEFINE fd == Found("miss", search)
  <2>0. /\ fd.tag = "miss" /\ fd.pattern = search.pattern /\ fd.root = search.root
        /\ fd.pre = search.pre /\ fd.suf = search.suf
        /\ search.pass = "pieces" => fd.hint = grep_fragment_hint(search.pattern, search.pre, search.suf)
    BY FoundIs
  <2> HIDE DEF fd
  <2>1. ASSUME tracked.state # "broken" PROVE AnswerOK(disk, tracked, fd)
    <3>1. CASE search.pass = "ci"
      <4>1. (search.pass = "ci") = TRUE /\ search.pass \in {"exact", "ci"} BY <3>1
      <4>2. HitsIn(disk, covered, search.pattern, TRUE) = {} BY <1>1, <1>10, <2>1, <4>1, NoneLeft
      <4>3. ~(Len(search.pattern) > FRAG_MIN) BY <1>10, <3>1
      <4> QED BY <1>1, <2>0, <4>2, <4>3 DEF AnswerOK
    <3>2. CASE search.pass = "pieces"
      <4>1. PassOK(disk, tracked, search) BY <1>1, <2>1 DEF Progress
      <4>2. /\ HitsIn(disk, covered, search.pattern, TRUE) = {}
            /\ PieceOver(search.pre, disk, covered, search.pattern, "prefix")
            /\ PieceOver(search.suf, disk, covered, search.pattern, "suffix")
        BY <1>4, <3>2, <4>1 DEF PassOK
      <4> QED BY <1>1, <2>0, <3>2, <4>2 DEF AnswerOK
    <3> QED BY <1>1, <1>10, <3>1, <3>2
  <2>2. Answered(disk, tracked, fd) BY <2>1 DEF Answered
  <2> QED BY <1>5, <1>10, <2>2 DEF fd
<1> QED BY <1>3, <1>7, <1>8, <1>9, <1>10

\* A file is visited: its hits or pieces are added, unless it is left out.
LEMMA VisitKeepsSearch ==
  ASSUME ReadInv, SearchInv, Visit PROVE SearchInv'
<1>0. UNCHANGED <<disk, index, asks, found>> BY DEF Visit
<1>1. /\ search.pass # "idle" /\ SearchTypeOK
      /\ Progress(disk, tracked, search) /\ found.tag = "none"
      /\ search \in SearchTypes /\ tracked \in Lists
      /\ search.pass \in {"exact", "ci", "pieces"}
      /\ disk \in Disks /\ PieceWithin(search.pre) /\ PieceWithin(search.suf)
  BY DEF SearchInv, Visit, SearchTypeOK, SearchTypes, ReadInv, ReadTypeOK, Disks
<1>2. PICK f \in search.todo :
        /\ IF Filtered(search.root) THEN tracked_files_load ELSE tracked' = tracked
        /\ \E listed \in IF Filtered(search.root) THEN is_tracked(tracked', f) ELSE {TRUE} :
             LET s == IF listed /\ Searchable(f) THEN Scanned(search, f) ELSE search
             IN  search' = [s EXCEPT !.todo = IF s.sink.truncated THEN {} ELSE @ \ {f}]
  BY DEF Visit
<1>3. PICK listed \in IF Filtered(search.root) THEN is_tracked(tracked', f) ELSE {TRUE} :
             LET s == IF listed /\ Searchable(f) THEN Scanned(search, f) ELSE search
             IN  search' = [s EXCEPT !.todo = IF s.sink.truncated THEN {} ELSE @ \ {f}]
  BY <1>2
<1> DEFINE list == tracked'
<1>4. /\ list \in Lists
      /\ tracked.state # "unloaded" \/ ~Filtered(search.root) => list = tracked
      /\ Filtered(search.root) => list.state # "unloaded"
  <2>1. CASE ~Filtered(search.root) BY <1>1, <1>2, <2>1
  <2>2. CASE Filtered(search.root) /\ tracked.state # "unloaded"
    BY <1>1, <1>2, <2>2 DEF tracked_files_load
  <2>3. CASE Filtered(search.root) /\ tracked.state = "unloaded"
    <3>1. PICK state \in {"loaded", "broken"} :
            list = [state |-> state, names |-> IF state = "loaded" THEN index ELSE {}]
      BY <1>2, <2>3 DEF tracked_files_load
    <3>2. index \subseteq Paths BY <1>1 DEF SearchTypeOK
    <3> HIDE DEF list
    <3>3. list \in Lists /\ list.state # "unloaded" BY <3>1, <3>2 DEF Lists
    <3> QED BY <2>3, <3>3
  <2> QED BY <2>1, <2>2, <2>3
<1> HIDE DEF list
<1>5. Progress(disk, list, search)
  BY <1>1, <1>2, <1>4, LoadKeeps
<1>6. list.state # "unloaded" \/ ~Filtered(search.root) BY <1>4
<1>7. f \in Reached(disk, search.root) /\ f \in Paths BY <1>1 DEF Progress, SearchTypes
<1>8. list.state # "broken" =>
        (listed /\ disk[f].kind = "file" <=> f \in Covered(disk, list, search.root))
  <2>1. listed \in (IF Filtered(search.root) THEN is_tracked(list, f) ELSE {TRUE})
    BY <1>3 DEF list
  <2> QED BY <1>4, <1>7, <2>1, VisitCovers
<1>9. ~search.sink.truncated BY <1>1, <1>2 DEF Progress
\* It is enough that the search as it goes on is one.
<1>10. ASSUME search' \in SearchTypes, PieceWithin(search'.pre), PieceWithin(search'.suf),
              search'.pass # "idle", Progress(disk, list, search')
       PROVE  SearchInv'
  <2>1. SearchTypeOK' BY <1>0, <1>1, <1>4, <1>10 DEF SearchTypeOK, list
  <2>2. Progress(disk, tracked, search)' BY <1>0, <1>10 DEF list
  <2>3. Answered(disk, tracked, found)' BY <1>0, <1>1 DEF Answered
  <2> QED BY <1>0, <1>1, <1>10, <2>1, <2>2, <2>3 DEF SearchInv
<1>11. CASE ~(listed /\ Searchable(f))
  <2> DEFINE t == [search EXCEPT !.todo = search.todo \ {f}]
  <2>1. search' = t BY <1>3, <1>9, <1>11
  <2>2. list.state # "broken" => f \notin Covered(disk, list, search.root)
    BY <1>8, <1>11 DEF Searchable
  <2>3. Progress(disk, list, t) BY <1>1, <1>2, <1>4, <1>5, <1>6, <2>2, PassesKeep
  <2>4. t \in SearchTypes /\ t.pass = search.pass /\ t.pre = search.pre /\ t.suf = search.suf
    BY <1>1 DEF SearchTypes
  <2> HIDE DEF t
  <2> QED BY <1>1, <1>10, <2>1, <2>3, <2>4
<1>12. CASE listed /\ Searchable(f)
  <2>0. list.state # "broken" => f \in Covered(disk, list, search.root)
    BY <1>8, <1>12 DEF Searchable
  <2>1. CASE search.pass = "pieces"
    <3> DEFINE pre == frag_count(search.pre, LongestIn(disk, f, search.pattern, "prefix"), f)
               suf == frag_count(search.suf, LongestIn(disk, f, search.pattern, "suffix"), f)
               t == [search EXCEPT !.pre = pre, !.suf = suf, !.todo = search.todo \ {f}]
    <3>1. /\ t \in SearchTypes /\ PieceWithin(t.pre) /\ PieceWithin(t.suf)
          /\ Progress(disk, list, t)
      BY <1>1, <1>2, <1>4, <1>5, <1>6, <2>0, <2>1, PiecesKeep
    <3>2. Scanned(search, f) = [search EXCEPT !.pre = pre, !.suf = suf]
      BY <2>1 DEF Scanned, LongestIn
    <3> HIDE DEF pre, suf
    <3> DEFINE s == [search EXCEPT !.pre = pre, !.suf = suf]
    <3>3. s.sink = search.sink /\ s.todo = search.todo BY <1>1 DEF SearchTypes
    <3>4. search' = [s EXCEPT !.todo = search.todo \ {f}] BY <1>3, <1>9, <1>12, <3>2, <3>3
    <3>5. search' = t /\ t.pass = search.pass
      <4>1. search = [pass |-> search.pass, pattern |-> search.pattern, root |-> search.root,
                      todo |-> search.todo, sink |-> search.sink, pre |-> search.pre, suf |-> search.suf]
        BY <1>1 DEF SearchTypes
      <4> QED BY <3>4, <4>1
    <3> HIDE DEF t
    <3> QED BY <1>1, <1>10, <3>1, <3>5
  <2>2. CASE search.pass # "pieces"
    <3> DEFINE sink == grep_scan(search.sink, search.pattern, f, disk[f].lines, search.pass = "ci")
               rest == IF sink.truncated THEN {} ELSE search.todo \ {f}
               t == [search EXCEPT !.sink = sink, !.todo = rest]
    <3>0. search.pass \in {"exact", "ci"} BY <1>1, <2>2
    <3>1. t \in SearchTypes /\ Progress(disk, list, t)
      BY <1>1, <1>2, <1>4, <1>5, <1>6, <2>0, <3>0, HitsKeep
    <3>2. Scanned(search, f) = [search EXCEPT !.sink = sink] BY <2>2 DEF Scanned
    <3> HIDE DEF sink
    <3> DEFINE s == [search EXCEPT !.sink = sink]
    <3>3. s.sink = sink /\ s.todo = search.todo BY <1>1 DEF SearchTypes
    <3>4. search' = [s EXCEPT !.todo = rest] BY <1>3, <1>12, <3>2, <3>3
    <3> HIDE DEF rest
    <3>5. search' = t /\ t.pass = search.pass /\ t.pre = search.pre /\ t.suf = search.suf
      <4>1. search = [pass |-> search.pass, pattern |-> search.pattern, root |-> search.root,
                      todo |-> search.todo, sink |-> search.sink, pre |-> search.pre, suf |-> search.suf]
        BY <1>1 DEF SearchTypes
      <4> QED BY <3>4, <4>1
    <3> HIDE DEF t
    <3> QED BY <1>1, <1>10, <3>1, <3>5
  <2> QED BY <2>1, <2>2
<1> QED BY <1>11, <1>12

\* What a search knows is left alone by the reader, and forgotten when a file
\* changes.
LEMMA OthersKeepSearch ==
  /\ SearchInv /\ UNCHANGED <<disk, index, asks, tracked, search, found>> => SearchInv'
  /\ SearchInv /\ Change => SearchInv'
<1>1. ASSUME SearchInv, UNCHANGED <<disk, index, asks, tracked, search, found>> PROVE SearchInv'
  BY <1>1 DEF SearchInv, SearchTypeOK
<1>2. ASSUME SearchInv, Change PROVE SearchInv'
  <2>1. /\ UNCHANGED <<index, asks, tracked, search>> /\ found' = Found("none", NoSearch)
        /\ search = NoSearch
    BY <1>2 DEF Change, Idle, SearchInv
  <2>2. found'.tag = "none" /\ found'.pre = NoPiece /\ found'.suf = NoPiece
    BY <2>1, FoundIs, NoSearchIs
  <2>3. SearchTypeOK' BY <1>2, <2>1, <2>2, NoSearchIs DEF SearchInv, SearchTypeOK
  <2>4. Answered(disk, tracked, found)' BY <2>2 DEF Answered
  <2> QED BY <2>1, <2>3, <2>4, NoSearchIs DEF SearchInv
<1> QED BY <1>1, <1>2

\* Every step keeps what a search knows.
LEMMA NextSearch == ASSUME ReadInv, SearchInv, [Next]_vars PROVE SearchInv'
<1>1. CASE tool_grep BY <1>1, GrepKeepsSearch
<1>2. CASE Visit BY <1>2, VisitKeepsSearch
<1>3. CASE PassEnds BY <1>3, EndKeepsSearch
<1>4. CASE serve_read_page BY <1>4, OthersKeepSearch DEF serve_read_page
<1>5. CASE Change BY <1>5, OthersKeepSearch
<1>6. CASE UNCHANGED vars BY <1>6, OthersKeepSearch DEF vars
<1> QED BY <1>1, <1>2, <1>3, <1>4, <1>5, <1>6 DEF Next

\* What a search has found is what its files hold, as far as it has come
\* (grep_file, frag_scan_file and the walk of tool_grep).
THEOREM SearchesCover == Spec => []SearchInv
<1>1. Init => SearchInv BY InitSearch
<1>2. ReadInv /\ SearchInv /\ [Next]_vars => SearchInv' BY NextSearch
<1> QED BY <1>1, <1>2, CursorCounts, PTL DEF Spec

-----------------------------------------------------------------------------
\* What is left of the state has its shape.
PageTypeOK == /\ stale \subseteq Paths
              /\ page.tag \in {"none", "page", "empty", "past end", "error"}

\* Every step keeps the kinds of page and the set of stale files.
LEMMA NextPage == ASSUME ReadInv, PageTypeOK, [Next]_vars PROVE PageTypeOK'
<1>1. CASE UNCHANGED <<stale, page>> BY <1>1 DEF PageTypeOK
<1>2. CASE serve_read_page
  <2>1. PICK f \in asks.reads \ done :
          LET read == ReadOf(disk[f], next[f])
          IN  page' = [path |-> f, off |-> next[f], tag |-> read.tag, rows |-> read.rows]
    BY <1>2 DEF serve_read_page
  <2>2. ReadOf(disk[f], next[f]).tag \in {"error", "empty", "past end", "page"}
    BY DEF ReadOf
  <2>3. page'.tag = ReadOf(disk[f], next[f]).tag BY <2>1
  <2>4. UNCHANGED stale BY <1>2 DEF serve_read_page
  <2> QED BY <2>2, <2>3, <2>4 DEF PageTypeOK
<1>3. CASE Change
  <2>1. PICK c \in asks.changes : stale' = IF next[c.path] > 1 THEN stale \union {c.path} ELSE stale
    BY <1>3 DEF Change
  <2>2. c.path \in Paths BY DEF ReadInv, ReadTypeOK
  <2>3. page' = NoPage BY <1>3 DEF Change
  <2>4. NoPage.tag = "none" BY DEF NoPage
  <2> QED BY <2>1, <2>2, <2>3, <2>4 DEF PageTypeOK
<1> QED BY <1>1, <1>2, <1>3 DEF Next, vars, tool_grep, Visit, PassEnds, reading

\* The shape of the state, with a sink within its cap and a piece within the
\* names it has room for.
THEOREM LookupTypes == Spec => []TypeOK
<1>1. Init => PageTypeOK
  <2>1. NoPage.tag = "none" BY DEF NoPage
  <2>2. Init => page = NoPage /\ stale = {} BY DEF Init
  <2> QED BY <2>1, <2>2 DEF PageTypeOK
<1>2. ReadInv /\ PageTypeOK /\ [Next]_vars => PageTypeOK' BY NextPage
<1>3. ReadInv /\ SearchInv /\ PageTypeOK => TypeOK
  <2> SUFFICES ASSUME ReadInv, SearchInv, PageTypeOK PROVE TypeOK OBVIOUS
  <2>1. \A f \in Paths : disk[f].kind \in Kinds BY DEF ReadInv, ReadTypeOK, Entries
  <2>2. tracked.state \in {"unloaded", "loaded", "broken"} /\ tracked.names \subseteq Paths
    BY DEF SearchInv, SearchTypeOK, Lists
  <2>3. search.pass \in {"idle", "exact", "ci", "pieces"} /\ search.todo \subseteq Paths
    BY DEF SearchInv, SearchTypeOK, SearchTypes
  <2>4. search.sink.matches <= MAX_MATCHES
    BY GrepAssumption DEF SearchInv, SearchTypeOK, SearchTypes, Sinks
  <2>5. \A p : PieceWithin(p) => PieceOK(p) BY DEF PieceWithin, PieceTypes, PieceOK
  <2>6. PieceOK(search.pre) /\ PieceOK(search.suf) /\ PieceOK(found.pre) /\ PieceOK(found.suf)
    BY <2>5 DEF SearchInv, SearchTypeOK
  <2>7. next \in [Paths -> Nat] /\ done \subseteq Paths /\ seen \in [Paths -> SUBSET Nat]
    BY DEF ReadInv, ReadTypeOK
  <2> QED BY <2>1, <2>2, <2>3, <2>4, <2>6, <2>7 DEF TypeOK, PageTypeOK
<1> QED BY <1>1, <1>2, <1>3, CursorCounts, SearchesCover, PTL DEF Spec

\* What the properties name is what the invariant does.
LEMMA ScopeIs ==
  ASSUME ReadInv
  PROVE  /\ Scope = Covered(disk, tracked, found.root)
         /\ AllHits = HitsIn(disk, Scope, found.pattern, found.tag # "exact")
         /\ Listed = HitsOf(found.sink.out)
<1>1. Walk(found.root) = Reached(disk, found.root) BY DEF Walk, Reached
<1>2. Scope = Covered(disk, tracked, found.root) BY <1>1 DEF Scope, Covered, Searchable
<1>3. \A f : HitLines(f) = HitLinesOf(disk[f].lines, found.pattern, found.tag # "exact")
  <2> TAKE f
  <2>1. CASE found.tag = "exact" BY <2>1 DEF HitLines, HitLinesOf, line_has
  <2>2. CASE found.tag # "exact" BY <2>2 DEF HitLines, HitLinesOf, line_has
  <2> QED BY <2>1, <2>2
<1>4. AllHits = HitsIn(disk, Scope, found.pattern, found.tag # "exact")
  BY <1>3 DEF AllHits, HitsIn
<1>5. Listed = HitsOf(found.sink.out) BY DEF Listed, HitsOf
<1> QED BY <1>2, <1>4, <1>5

\* "No matches" is said only of a pattern that stands in no covered file, in
\* any case (tool_grep).
THEOREM MissesAreAbsent == Spec => []MissMeansAbsent
<1>1. ReadInv /\ SearchInv => MissMeansAbsent
  <2> SUFFICES ASSUME ReadInv, SearchInv, Told, found.tag = "miss" PROVE AllHits = {}
    BY DEF MissMeansAbsent
  <2>1. AnswerOK(disk, tracked, found) BY DEF SearchInv, Answered, Told
  <2>2. HitsIn(disk, Covered(disk, tracked, found.root), found.pattern, TRUE) = {}
    BY <2>1 DEF AnswerOK
  <2>3. (found.tag # "exact") = TRUE OBVIOUS
  <2> QED BY <2>2, <2>3, ScopeIs
<1> QED BY <1>1, CursorCounts, SearchesCover, PTL

\* A listing has every hit of every covered file unless it says that it was
\* stopped; then it has MAX_MATCHES of them and there are more (grep_scan).
THEOREM CapsAreTold == Spec => []CapIsTold
<1>1. ReadInv /\ SearchInv => CapIsTold
  <2> SUFFICES ASSUME ReadInv, SearchInv, Told, found.tag # "miss"
               PROVE  IF found.sink.truncated
                      THEN /\ Cardinality(Listed) = MAX_MATCHES
                           /\ Listed \subseteq AllHits /\ Listed # AllHits
                      ELSE Listed = AllHits
    BY DEF CapIsTold
  <2>1. AnswerOK(disk, tracked, found) /\ found.tag \in {"exact", "ci"}
    BY DEF SearchInv, Answered, Told
  <2> DEFINE all == HitsIn(disk, Covered(disk, tracked, found.root), found.pattern, found.tag = "ci")
  <2>2. Listing(found.sink, all, all) BY <2>1 DEF AnswerOK
  <2>3. (found.tag # "exact") = (found.tag = "ci") BY <2>1
  <2>4. AllHits = all /\ Listed = HitsOf(found.sink.out) BY <2>3, ScopeIs
  <2> HIDE DEF all
  <2> QED BY <2>2, <2>4 DEF Listing, Counted
<1> QED BY <1>1, CursorCounts, SearchesCover, PTL

-----------------------------------------------------------------------------
\* The greatest number of a set.
LEMMA LongestOf ==
  ASSUME NEW Ks, Ks \subseteq Nat, NEW k \in Ks, \A j \in Ks : j <= k
  PROVE  Longest(Ks) = k
<1> DEFINE c == CHOOSE m \in Ks : \A j \in Ks : j <= m
<1>1. c \in Ks /\ \A j \in Ks : j <= c BY Zenon
<1>2. Longest(Ks) = c BY DEF Longest
<1> HIDE DEF c
<1>3. c <= k /\ k <= c /\ c \in Nat /\ k \in Nat BY <1>1
<1> QED BY <1>2, <1>3

\* The longest piece over the covered files is the longest that stands in one,
\* and the files counted for it are those that hold it.
LEMMA OverIsLongest ==
  ASSUME ReadInv, found.pattern \in Texts, Len(found.pattern) > FRAG_MIN, found.root \in Roots,
         NEW edge, NEW p, PieceOver(p, disk, Scope, found.pattern, edge)
  PROVE  PieceIsLongest(edge, p) /\ p.best \in 0..Len(found.pattern)
<1> DEFINE pattern == found.pattern
           n == Len(pattern)
           L(f) == LongestIn(disk, f, pattern, edge)
           Occ(f, k) == Occurs(Content(disk[f]), Piece(pattern, k, edge))
           Ks == {0} \union {k \in 1..(n - 1) : Holding(edge, k) # {}}
           over == HeldBy(p, disk, Scope, pattern, edge)
<1>0. n \in Nat /\ n - 1 \in Nat
  <2>1. pattern \in Seq(STRING) BY DEF Texts
  <2>2. n \in Nat BY <2>1
  <2> QED BY <2>2, GrepAssumption
<1>1. Scope \subseteq Paths BY ReachedPaths, ScopeIs
<1>2. ASSUME NEW f \in Scope
      PROVE  /\ L(f) \in 0..(n - 1)
             /\ L(f) = 0 \/ Occ(f, L(f))
             /\ \A m \in 0..(n - 1) : Occ(f, m) => m <= L(f)
  <2>1. f \in Paths /\ disk \in Disks BY <1>1 DEF ReadInv, ReadTypeOK, Disks
  <2>2. LongestAt(Content(disk[f]), pattern, edge, 0, n - 1, L(f)) BY <2>1, LongestType
  <2> QED BY <2>2 DEF LongestAt
<1>3. /\ p \in PieceTypes /\ p.best \in Nat
      /\ \A f \in Scope : L(f) <= p.best
      /\ p.best # 0 => over # {}
      /\ p.files = Cardinality(over) /\ ToSet(p.names) \subseteq over
      /\ Len(p.names) = IF p.files < FRAG_MAX_NAMES THEN p.files ELSE FRAG_MAX_NAMES
  BY DEF PieceOver, PieceTypes
<1>4. over = IF p.best = 0 THEN {} ELSE {f \in Scope : L(f) = p.best} BY DEF HeldBy
<1>5. \A k : Holding(edge, k) = {f \in Scope : Occ(f, k)} BY DEF Holding
<1> HIDE DEF L, Occ, over, n
<1>6. p.best \in Ks
  <2>1. CASE p.best = 0 BY <2>1
  <2>2. CASE p.best # 0
    <3>1. PICK f \in Scope : L(f) = p.best BY <1>3, <1>4, <2>2
    <3>2. p.best \in 1..(n - 1) /\ Occ(f, p.best) BY <1>0, <1>2, <1>3, <2>2, <3>1
    <3> QED BY <1>5, <3>1, <3>2
  <2> QED BY <2>1, <2>2
<1>7. ASSUME NEW j \in Ks PROVE j <= p.best
  <2>1. CASE j = 0 BY <1>3, <2>1
  <2>2. CASE j # 0
    <3>1. j \in 1..(n - 1) /\ Holding(edge, j) # {} BY <2>2
    <3>2. PICK f \in Scope : Occ(f, j) BY <1>5, <3>1
    <3>3. j \in 0..(n - 1) BY <1>0, <3>1
    <3>4. j <= L(f) /\ L(f) \in Nat /\ L(f) <= p.best BY <1>0, <1>2, <1>3, <3>2, <3>3
    <3> QED BY <1>3, <3>1, <3>4
  <2> QED BY <2>1, <2>2
<1>8. Ks \subseteq Nat BY <1>0
<1>9. Longest(Ks) = p.best
  <2> HIDE DEF Ks
  <2> QED BY <1>6, <1>7, <1>8, LongestOf
<1>10. (IF p.best = 0 THEN {} ELSE Holding(edge, p.best)) = over
  <2>1. CASE p.best = 0 BY <1>4, <2>1
  <2>2. CASE p.best # 0
    <3>1. p.best \in 0..(n - 1) BY <1>0, <1>6, <2>2
    <3>2. ASSUME NEW f \in Scope PROVE L(f) = p.best <=> Occ(f, p.best)
      <4>1. L(f) = p.best => Occ(f, p.best) BY <1>2, <2>2
      <4>2. ASSUME Occ(f, p.best) PROVE L(f) = p.best
        <5>1. p.best <= L(f) /\ L(f) <= p.best /\ L(f) \in 0..(n - 1) BY <1>2, <1>3, <3>1, <4>2
        <5> QED BY <1>0, <1>3, <5>1
      <4> QED BY <4>1, <4>2
    <3> QED BY <1>4, <1>5, <2>2, <3>2
  <2> QED BY <2>1, <2>2
<1>11. PieceIsLongest(edge, p)
  <2> DEFINE best == Longest({0} \union {k \in 1..(Len(found.pattern) - 1) : Holding(edge, k) # {}})
  <2>1. best = p.best BY <1>9 DEF n
  <2> HIDE DEF best
  <2>2. PieceIsLongest(edge, p) <=>
          LET held == IF best = 0 THEN {} ELSE Holding(edge, best)
          IN  /\ p.best = best
              /\ p.files = Cardinality(held)
              /\ ToSet(p.names) \subseteq held
              /\ Len(p.names) = IF p.files < FRAG_MAX_NAMES THEN p.files ELSE FRAG_MAX_NAMES
    BY DEF PieceIsLongest, best
  <2> QED BY <1>3, <1>10, <2>1, <2>2
<1>12. p.best \in 0..n BY <1>0, <1>3, <1>6
<1> QED BY <1>11, <1>12 DEF n

\* A piece as it is told: its length and what is shown of it.
ShownAs(pattern, edge, p) == [length |-> p.best, text |-> Clip(Piece(pattern, p.best, edge))]

\* Each piece that is long enough is told, and told once.
ToldOnce(pattern, pre, suf, hint) ==
  LET told == {ShownAs(pattern, h[1], h[2]) : h \in hint}
  IN  /\ told = {t \in {ShownAs(pattern, "prefix", pre), ShownAs(pattern, "suffix", suf)} :
                   t.length >= FRAG_MIN}
      /\ Cardinality(told) = Cardinality(hint)

\* grep_fragment_hint tells every piece that is long enough, each telling once.
LEMMA HintOnce ==
  ASSUME NEW pattern \in Texts, Len(pattern) > FRAG_MIN,
         NEW pre, pre.best \in 0..Len(pattern), NEW suf, suf.best \in 0..Len(pattern)
  PROVE  ToldOnce(pattern, pre, suf, grep_fragment_hint(pattern, pre, suf))
<1> DEFINE hint == grep_fragment_hint(pattern, pre, suf)
           told == {ShownAs(pattern, h[1], h[2]) : h \in hint}
           pc == Clip(Piece(pattern, pre.best, "prefix"))
           sc == Clip(Piece(pattern, suf.best, "suffix"))
           P == ShownAs(pattern, "prefix", pre)
           S == ShownAs(pattern, "suffix", suf)
           a == <<"prefix", pre>>
           b == <<"suffix", suf>>
           same == pre.best = suf.best /\ pc = sc
           big(x) == x >= FRAG_MIN
<1>1. /\ P = [length |-> pre.best, text |-> pc] /\ S = [length |-> suf.best, text |-> sc]
      /\ P.length = pre.best /\ S.length = suf.best
  BY DEF ShownAs
<1>2. hint = {p \in {a, b} : big(p[2].best) /\ (p[1] = "suffix" => ~(same /\ big(pre.best)))}
  BY DEF grep_fragment_hint
<1>3. /\ a[1] = "prefix" /\ a[2].best = pre.best /\ b[1] = "suffix" /\ b[2].best = suf.best
      /\ a # b /\ a[1] # "suffix"
  OBVIOUS
<1>4. \A h \in {a, b} : ShownAs(pattern, h[1], h[2]) = IF h = a THEN P ELSE S
  BY <1>3
<1>5. same <=> P = S
  <2> HIDE DEF pc, sc, P, S
  <2> QED BY <1>1
<1> DEFINE X == {t \in {P, S} : big(t.length)}
<1>6. told = X /\ Cardinality(told) = Cardinality(hint)
  <2> HIDE DEF hint, pc, sc, P, S, a, b, same, big
  <2>1. hint \subseteq {a, b} /\ (a \in hint <=> big(pre.best))
        /\ (b \in hint <=> big(suf.best) /\ ~(P = S /\ big(pre.best)))
    BY <1>2, <1>3, <1>5
  <2>2. told = {IF h = a THEN P ELSE S : h \in hint} BY <1>4, <2>1
  <2>3. X = {t \in {P, S} : (t = P /\ big(pre.best)) \/ (t = S /\ big(suf.best))}
    BY <1>1
  <2> HIDE DEF told, X
  <2>4. Cardinality({}) = 0 /\ (\A x : Cardinality({x}) = 1)
        /\ \A x, y : x # y => Cardinality({x, y}) = 2
    BY FewElements
  <2>5. CASE big(pre.best) /\ big(suf.best) /\ P # S
    <3>1. hint = {a, b} BY <2>1, <2>5
    <3>2. told = {P, S} /\ X = {P, S} BY <1>3, <2>2, <2>3, <2>5, <3>1
    <3> QED BY <1>3, <2>4, <2>5, <3>1, <3>2, ZenonT(60)
  <2>6. CASE big(pre.best) /\ ~(big(suf.best) /\ P # S)
    <3>1. hint = {a} BY <2>1, <2>6
    <3>2. told = {P} BY <2>2, <3>1
    <3>3. X = {P}
      <4>1. P # S => S \notin X BY <1>1, <2>3, <2>6
      <4> QED BY <2>3, <2>6, <4>1
    <3> QED BY <2>4, <3>1, <3>2, <3>3
  <2>7. CASE ~big(pre.best) /\ big(suf.best)
    <3>1. hint = {b} BY <2>1, <2>7
    <3>2. told = {S} BY <1>3, <2>2, <3>1
    <3>3. P # S BY <1>1, <2>7
    <3>4. X = {S} BY <2>3, <2>7, <3>3
    <3> QED BY <2>4, <3>1, <3>2, <3>4
  <2>8. CASE ~big(pre.best) /\ ~big(suf.best)
    <3>1. hint = {} BY <2>1, <2>8
    <3>2. told = {} /\ X = {} BY <2>2, <2>3, <2>8, <3>1
    <3> QED BY <3>1, <3>2
  <2> QED BY <2>5, <2>6, <2>7, <2>8
<1> QED BY <1>6 DEF ToldOnce

\* After a miss, the pieces reported are the longest that stand in a covered
\* file, with the files that hold them, each length and shown text once
\* (frag_longest, frag_count, grep_fragment_hint's clipped comparison).
THEOREM PiecesReportedAreLongest == Spec => []PiecesAreLongest
<1>1. ReadInv /\ SearchInv => PiecesAreLongest
  <2> SUFFICES ASSUME ReadInv, SearchInv, Told, found.tag = "miss", Len(found.pattern) > FRAG_MIN
               PROVE  /\ PieceIsLongest("prefix", found.pre)
                      /\ PieceIsLongest("suffix", found.suf)
                      /\ ToldOnce(found.pattern, found.pre, found.suf, found.hint)
    BY DEF PiecesAreLongest, ToldOnce, ToldAs, ShownAs
  <2>1. AnswerOK(disk, tracked, found) BY DEF SearchInv, Answered, Told
  <2>2. /\ found.pattern \in Texts /\ found.root \in Roots
        /\ PieceOver(found.pre, disk, Scope, found.pattern, "prefix")
        /\ PieceOver(found.suf, disk, Scope, found.pattern, "suffix")
        /\ found.hint = grep_fragment_hint(found.pattern, found.pre, found.suf)
    BY <2>1, ScopeIs DEF AnswerOK
  <2>3. /\ PieceIsLongest("prefix", found.pre) /\ found.pre.best \in 0..Len(found.pattern)
        /\ PieceIsLongest("suffix", found.suf) /\ found.suf.best \in 0..Len(found.pattern)
    BY <2>2, OverIsLongest
  <2>4. ToldOnce(found.pattern, found.pre, found.suf,
                 grep_fragment_hint(found.pattern, found.pre, found.suf))
    BY <2>2, <2>3, HintOnce
  <2> QED BY <2>2, <2>3, <2>4
<1> QED BY <1>1, CursorCounts, SearchesCover, PTL

-----------------------------------------------------------------------------
(* What a listing shows of a file.                                         *)

\* One element more behind a sequence.
OneBehind(b, a, x, k) == /\ Len(b) = k + 1
                         /\ \A i \in 1..k : b[i] = a[i]
                         /\ b[k + 1] = x
\* Such a sequence is the first one joined with the element.
LEMMA OneBehindIs ==
  ASSUME NEW S, NEW a \in Seq(S), NEW x \in S, NEW b \in Seq(S), NEW k \in Nat, Len(a) = k,
         OneBehind(b, a, x, k)
  PROVE  b = a \o <<x>>
<1> DEFINE c == <<x>>
           d == a \o c
<1>1. c \in Seq(S) /\ Len(c) = 1 /\ c[1] = x OBVIOUS
<1> HIDE DEF c
<1>2. /\ d \in Seq(S) /\ Len(d) = k + 1
      /\ \A i \in 1..(k + 1) : d[i] = IF i <= k THEN a[i] ELSE c[i - k]
  <2>1. /\ d \in Seq(S) /\ Len(d) = Len(a) + Len(c)
        /\ \A i \in 1 .. Len(a) + Len(c) : d[i] = IF i <= Len(a) THEN a[i] ELSE c[i - Len(a)]
    BY <1>1, ConcatProperties, Zenon
  <2> HIDE DEF d
  <2> QED BY <1>1, <2>1
<1> HIDE DEF d
<1>3. Len(b) = k + 1 /\ (\A i \in 1..k : b[i] = a[i]) /\ b[k + 1] = x BY DEF OneBehind
<1>4. \A i \in 1..(k + 1) : b[i] = d[i]
  <2> TAKE i \in 1..(k + 1)
  <2>1. CASE i \in 1..k
    <3>1. i <= k BY <2>1
    <3> QED BY <1>2, <1>3, <2>1, <3>1
  <2>2. CASE i = k + 1
    <3>1. i - k = 1 /\ ~(i <= k) /\ i \in 1..(k + 1) BY <2>2
    <3>2. d[i] = c[i - k] BY <1>2, <3>1
    <3> QED BY <1>1, <1>3, <2>2, <3>1, <3>2
  <2>3. i \in 1..k \/ i = k + 1 OBVIOUS
  <2> QED BY <2>1, <2>2, <2>3
<1>5. b = d BY <1>2, <1>3, <1>4, SeqEqual
<1> QED BY <1>5 DEF d, c

\* The brackets of three sequences joined.
Three(S, a, b, c) == a \in Seq(S) /\ b \in Seq(S) /\ c \in Seq(S)
Bracketed(a, b, c) == (a \o b) \o c = a \o (b \o c)
\* Joining does not depend on the brackets.
LEMMA BracketsMove ==
  ASSUME NEW S, NEW a, NEW b, NEW c, Three(S, a, b, c)
  PROVE  Bracketed(a, b, c)
  BY DEF Three, Bracketed

\* L[k] joins the first k of the parts sg, and J goes on from old with them.
Chained(J, L, sg, old, gap, d, S) ==
  /\ d \in Nat /\ old \in Seq(S) /\ gap \in Seq(S)
  /\ \A k \in 0..d : L[k] \in Seq(S) /\ sg[k] \in Seq(S)
  /\ L[0] = <<>> /\ J[0] = old \o (gap \o sg[0])
  /\ \A k \in 0..(d - 1) : L[k + 1] = L[k] \o sg[k] /\ J[k + 1] = J[k] \o sg[k + 1]
ChainEnds(J, L, sg, old, gap, d) == J[d] = old \o ((gap \o L[d]) \o sg[d])

\* The last of a chain is what it began with and all of its parts.
LEMMA ChainIs ==
  ASSUME NEW S, NEW J, NEW L, NEW sg, NEW old, NEW gap, NEW d, Chained(J, L, sg, old, gap, d, S)
  PROVE  ChainEnds(J, L, sg, old, gap, d)
<1>1. /\ d \in Nat /\ old \in Seq(S) /\ gap \in Seq(S)
      /\ \A k \in 0..d : L[k] \in Seq(S) /\ sg[k] \in Seq(S)
      /\ L[0] = <<>> /\ J[0] = old \o (gap \o sg[0])
      /\ \A k \in 0..(d - 1) : L[k + 1] = L[k] \o sg[k] /\ J[k + 1] = J[k] \o sg[k + 1]
  BY DEF Chained
<1> DEFINE T == {k \in 0..d : J[k] = old \o ((gap \o L[k]) \o sg[k])}
<1>2. 0 \in T
  <2>1. gap \o <<>> = gap BY <1>1, ConcatEmptySeq, Zenon
  <2>2. J[0] = old \o ((gap \o L[0]) \o sg[0])
    <3>1. J[0] = old \o (gap \o sg[0]) /\ L[0] = <<>> BY <1>1
    <3> QED BY <2>1, <3>1, Zenon
  <2>3. 0 \in 0..d BY <1>1
  <2> QED BY <2>2, <2>3
<1>3. ASSUME NEW k \in 0..(d - 1), k \in T PROVE k + 1 \in T
  <2>1. k \in 0..d /\ k + 1 \in 0..d BY <1>1
  <2> DEFINE a == L[k]   b == sg[k]   c == sg[k + 1]   h == gap \o a
  <2>2. J[k] = old \o (h \o b) BY <1>3
  <2>3. L[k + 1] = a \o b /\ J[k + 1] = J[k] \o c BY <1>1
  <2>4. a \in Seq(S) /\ b \in Seq(S) /\ c \in Seq(S) BY <1>1, <2>1
  <2> HIDE DEF a, b, c
  <2>5. h \in Seq(S) BY <1>1, <2>4, ConcatProperties, Zenon
  <2>6. h \o b = gap \o (a \o b)
    <3>1. Three(S, gap, a, b) BY <1>1, <2>4 DEF Three
    <3> QED BY <3>1, BracketsMove DEF Bracketed
  <2> HIDE DEF h
  <2>7. h \o b \in Seq(S) BY <2>4, <2>5, ConcatProperties, Zenon
  <2>8. (old \o (h \o b)) \o c = old \o ((h \o b) \o c)
    <3> DEFINE m == h \o b
    <3> HIDE DEF m
    <3>1. Three(S, old, m, c) BY <1>1, <2>4, <2>7 DEF Three, m
    <3>2. (old \o m) \o c = old \o (m \o c) BY <3>1, BracketsMove DEF Bracketed
    <3> QED BY <3>2 DEF m
  <2>9. J[k + 1] = old \o ((gap \o L[k + 1]) \o c) BY <2>2, <2>3, <2>6, <2>8, Zenon
  <2> QED BY <2>1, <2>9 DEF c
<1> HIDE DEF T
<1>4. 0..d \subseteq T BY <1>1, <1>2, <1>3, Upwards
<1>5. d \in T BY <1>1, <1>4
<1> QED BY <1>5 DEF T, ChainEnds


\* The lines of a file within CONTEXT of a hit, and what is shown at each line.
NearTo(H, N) == {n \in 1..N : \E h \in H : h - n \in -CONTEXT..CONTEXT}
GapAt(f, X, n) == IF n - 1 \notin X /\ \E m \in X : m < n THEN <<Gap(f)>> ELSE <<>>
LineAt(f, H, n) == <<Shown(f, n, IF n \in H THEN ":" ELSE "-")>>
PartOf(f, H, X, n) == IF n \notin X THEN <<>> ELSE GapAt(f, X, n) \o LineAt(f, H, n)
BlocksOf(f, H, N) == FlattenSeq([n \in 1..N |-> PartOf(f, H, NearTo(H, N), n)])

\* J[n] is what is to be shown of the first n lines.
Listings(J, f, H, N) ==
  /\ J \in [0..N -> Seq(ShownLines)] /\ J[0] = <<>>
  /\ \A n \in 1..N : J[n] = J[n - 1] \o PartOf(f, H, NearTo(H, N), n)

\* Gaps, lines and parts are lines shown of the file.
LEMMA PartType ==
  ASSUME NEW f \in Paths, NEW H, NEW X, NEW n \in Int
  PROVE  /\ GapAt(f, X, n) \in Seq(ShownLines) /\ LineAt(f, H, n) \in Seq(ShownLines)
         /\ PartOf(f, H, X, n) \in Seq(ShownLines)
<1>1. Gap(f) \in ShownLines /\ Shown(f, n, ":") \in ShownLines /\ Shown(f, n, "-") \in ShownLines
  BY DEF Gap, Shown, ShownLines
<1>2. <<>> \in Seq(ShownLines) OBVIOUS
<1>3. GapAt(f, X, n) \in Seq(ShownLines) BY <1>1, <1>2 DEF GapAt
<1>4. LineAt(f, H, n) \in Seq(ShownLines) BY <1>1 DEF LineAt
<1>5. GapAt(f, X, n) \o LineAt(f, H, n) \in Seq(ShownLines) BY <1>3, <1>4, ConcatProperties
<1> QED BY <1>2, <1>3, <1>4, <1>5 DEF PartOf

\* The listing of a file is the last of its listings line by line, and starts
\* with each of them.
LEMMA ListingsExist ==
  ASSUME NEW f \in Paths, NEW N \in Nat, NEW H
  PROVE  \E J : /\ Listings(J, f, H, N) /\ BlocksOf(f, H, N) = J[N]
                /\ \A e \in 0..N : StartsWith(J[N], J[e], ShownLines)
<1> DEFINE part(n) == PartOf(f, H, NearTo(H, N), n)
           ss == [n \in 1..N |-> part(n)]
<1>1. \A n \in 1..N : part(n) \in Seq(ShownLines) BY PartType
<1> HIDE DEF part
<1>2. Parts(ss, N, ShownLines) BY <1>1 DEF Parts
<1>3. \A n \in 1..N : ss[n] = part(n) OBVIOUS
<1> HIDE DEF ss
<1>4. PICK J : Joinings(J, ss, N, ShownLines) /\ FlattenSeq(ss) = J[N] BY <1>2, FlattenSteps
<1>5. \A e \in 0..N : StartsWith(J[N], J[e], ShownLines) BY <1>2, <1>4, JoinsStart
<1>6. Listings(J, f, H, N)
  <2>1. /\ J \in [0..N -> Seq(ShownLines)] /\ J[0] = <<>>
        /\ \A n \in 1..N : J[n] = J[n - 1] \o ss[n]
    BY <1>4 DEF Joinings
  <2>2. \A n \in 1..N : J[n] = J[n - 1] \o part(n) BY <1>3, <2>1
  <2> QED BY <2>1, <2>2 DEF Listings, part
<1>7. BlocksOf(f, H, N) = J[N] BY <1>4 DEF BlocksOf, ss, part
<1> QED BY <1>5, <1>6, <1>7

\* None of the lines behind e is within CONTEXT of a hit.
Silent(N, H, e, q) ==
  N \in Nat /\ e \in 0..N /\ q \in e..N /\ \A k \in (e + 1)..q : k \notin NearTo(H, N)

\* Lines that are not within CONTEXT of a hit add nothing to the listing.
LEMMA SilentLines ==
  ASSUME NEW f, NEW N, NEW H, NEW J, Listings(J, f, H, N), NEW e, NEW q, Silent(N, H, e, q)
  PROVE  J[q] = J[e]
<1>0. /\ N \in Nat /\ e \in 0..N /\ q \in e..N
      /\ \A k \in (e + 1)..q : k \notin NearTo(H, N)
  BY DEF Silent
<1> DEFINE T == {k \in 0..(q - e) : J[e + k] = J[e]}
<1>1. 0 \in T /\ q - e \in Nat BY <1>0
<1>2. ASSUME NEW k \in 0..((q - e) - 1), k \in T PROVE k + 1 \in T
  <2>1. /\ e + k + 1 \in (e + 1)..q /\ e + k + 1 \in 1..N /\ (e + k + 1) - 1 = e + k
        /\ e + (k + 1) = e + k + 1 /\ k + 1 \in 0..(q - e) /\ e + k \in 0..N
    BY <1>0
  <2> DEFINE m == e + k + 1
  <2>2. PartOf(f, H, NearTo(H, N), m) = <<>> BY <1>0, <2>1 DEF PartOf
  <2>3. J[m] = J[m - 1] \o PartOf(f, H, NearTo(H, N), m) BY <2>1 DEF Listings
  <2>4. J[m - 1] \in Seq(ShownLines) BY <2>1 DEF Listings
  <2>5. J[m - 1] \o <<>> = J[m - 1] BY <2>4, ConcatEmptySeq
  <2>6. J[m - 1] = J[e] BY <1>2, <2>1
  <2>7. J[m] = J[e] BY <2>2, <2>3, <2>5, <2>6
  <2> QED BY <2>1, <2>7
<1> HIDE DEF T
<1>3. 0..(q - e) \subseteq T BY <1>1, <1>2, Upwards
<1>4. q - e \in T BY <1>1, <1>3
<1>5. J[e + (q - e)] = J[e] BY <1>4 DEF T
<1>6. e + (q - e) = q BY <1>0
<1> QED BY <1>5, <1>6

\* The lines held back before a hit, one more at a time.
Lead(f, from, k) == [i \in 1..k |-> Shown(f, from + i - 1, "-")]
\* One line more held back is one line more behind the others.
LEMMA LeadGrows ==
  ASSUME NEW f \in Paths, NEW from \in Nat, NEW k \in Nat
  PROVE  /\ Lead(f, from, k) \in Seq(ShownLines) /\ Lead(f, from, 0) = <<>>
         /\ Lead(f, from, k + 1) = Lead(f, from, k) \o <<Shown(f, from + k, "-")>>
<1> DEFINE sh(i) == Shown(f, from + i - 1, "-")
           a == [i \in 1..k |-> sh(i)]
           b == [i \in 1..(k + 1) |-> sh(i)]
           x == Shown(f, from + k, "-")
<1>1. x \in ShownLines /\ \A i \in 1..(k + 1) : sh(i) \in ShownLines BY DEF Shown, ShownLines
<1>2. sh(k + 1) = x
  <2>1. from + (k + 1) - 1 = from + k OBVIOUS
  <2> QED BY <2>1
<1> HIDE DEF sh, x
<1>3. a \in Seq(ShownLines) /\ Len(a) = k /\ \A i \in 1..k : a[i] = sh(i)
  <2>1. \A i \in 1..k : sh(i) \in ShownLines BY <1>1
  <2> QED BY <2>1
<1>4. b \in Seq(ShownLines) /\ Len(b) = k + 1 /\ \A i \in 1..(k + 1) : b[i] = sh(i) BY <1>1
<1> HIDE DEF a, b
<1>5. OneBehind(b, a, x, k)
  <2>1. b[k + 1] = x
    <3>1. k + 1 \in 1..(k + 1) OBVIOUS
    <3> QED BY <1>2, <1>4, <3>1
  <2>2. \A i \in 1..k : b[i] = a[i] BY <1>3, <1>4
  <2>3. Len(b) = k + 1 BY <1>4
  <2> QED BY <2>1, <2>2, <2>3 DEF OneBehind
<1>6. a \in Seq(ShownLines) /\ Len(a) = k /\ b \in Seq(ShownLines) BY <1>3, <1>4
<1>7. b = a \o <<x>> BY <1>1, <1>5, <1>6, OneBehindIs, Zenon
<1>8. Lead(f, from, 0) = <<>> BY DEF Lead
<1>9. Lead(f, from, k) = a /\ Lead(f, from, k + 1) = b BY DEF Lead, a, b, sh
<1> QED BY <1>6, <1>7, <1>8, <1>9, Zenon DEF x

\* What a hit shows: a gap mark where lines were left out, the lines held back,
\* and itself.
Caught(n, f, emitted, from) ==
  ((IF emitted > 0 /\ from > emitted + 1 THEN <<Gap(f)>> ELSE <<>>)
     \o [k \in 1..(n - from) |-> Shown(f, from + k - 1, "-")])
  \o <<Shown(f, n, ":")>>

\* Line n is a hit, e the last line shown, and r the first that is still to be.
Behind(f, N, H, n, e, r) ==
  /\ f \in Paths /\ N \in Nat /\ H \in SUBSET (1..N)
  /\ n \in H /\ e \in 0..(n - 1) /\ r \in (e + 1)..n /\ n - r <= CONTEXT
  /\ \A k \in (e + 1)..(r - 1) : k \notin NearTo(H, N)
  /\ \A k \in (e + 1)..(n - 1) : k \notin H
  /\ e > 0 => e \in NearTo(H, N)

\* The listing up to a hit is what was shown before it and what it shows.
LEMMA HitCatchesUp ==
  ASSUME NEW f, NEW N, NEW H, NEW J, Listings(J, f, H, N),
         NEW n, NEW e, NEW r, Behind(f, N, H, n, e, r)
  PROVE  J[n] = J[e] \o Caught(n, f, e, r) /\ Caught(n, f, e, r) \in Seq(ShownLines)
<1> DEFINE X == NearTo(H, N)
           gap == IF e > 0 /\ r > e + 1 THEN <<Gap(f)>> ELSE <<>>
           sg(k) == LineAt(f, H, k)
           old == J[e]
           L(k) == Lead(f, r, k)
<1>a. f \in Paths /\ H \in SUBSET (1..N) /\ n \in H
  BY DEF Behind
<1>b. \A k \in (e + 1)..(r - 1) : k \notin X BY DEF Behind
<1>c. \A k \in (e + 1)..(n - 1) : k \notin H BY DEF Behind
<1>d. e > 0 => e \in X BY DEF Behind
<1>0. /\ N \in Nat /\ n \in Nat /\ e \in Nat /\ r \in Nat /\ CONTEXT \in Nat
      /\ 1 <= n /\ n <= N /\ e + 1 <= r /\ r <= n /\ n - r <= CONTEXT
  <2>1. /\ N \in Nat /\ n \in 1..N /\ e \in 0..(n - 1) /\ r \in (e + 1)..n /\ n - r <= CONTEXT
        /\ CONTEXT \in Nat
    BY GrepAssumption DEF Behind
  <2> QED BY <2>1
<1>1. J[r - 1] = J[e]
  <2>1. r - 1 \in e..N /\ e \in 0..N BY <1>0
  <2>2. Silent(N, H, e, r - 1) BY <1>0, <1>b, <2>1 DEF Silent
  <2> QED BY <2>2, SilentLines
<1>2. \A k \in r..n : k \in X
  <2> TAKE k \in r..n
  <2>1. n - k \in -CONTEXT..CONTEXT BY <1>0
  <2>2. k \in 1..N BY <1>0
  <2> QED BY <1>a, <2>1, <2>2 DEF NearTo
<1>3. GapAt(f, X, r) = gap
  <2>1. CASE r > e + 1
    <3>1. r - 1 \notin X
      <4>1. r - 1 \in (e + 1)..(r - 1) BY <1>0, <2>1
      <4> QED BY <1>b, <4>1
    <3>2. (\E m \in X : m < r) <=> e > 0
      <4>1. CASE e > 0
        <5>1. e \in X /\ e < r BY <1>0, <1>d, <4>1
        <5> QED BY <4>1, <5>1
      <4>2. CASE ~(e > 0)
        <5>1. \A m \in X : ~(m < r)
          <6> SUFFICES ASSUME NEW m \in X, m < r PROVE FALSE OBVIOUS
          <6>1. m \in 1..N BY DEF NearTo
          <6>2. m \in (e + 1)..(r - 1) BY <1>0, <4>2, <6>1
          <6> QED BY <1>b, <6>2
        <5> QED BY <4>2, <5>1
      <4> QED BY <4>1, <4>2
    <3> QED BY <2>1, <3>1, <3>2 DEF GapAt
  <2>2. CASE ~(r > e + 1)
    <3>1. r = e + 1 /\ r - 1 = e BY <1>0, <2>2
    <3>2. ~(r - 1 \notin X /\ \E m \in X : m < r)
      <4>1. CASE e > 0 BY <1>d, <3>1, <4>1
      <4>2. CASE ~(e > 0)
        <5>1. r = 1 BY <1>0, <3>1, <4>2
        <5>2. \A m \in X : m \in 1..N BY DEF NearTo
        <5>3. \A m \in X : ~(m < r) BY <5>1, <5>2
        <5> QED BY <5>3
      <4> QED BY <4>1, <4>2
    <3> QED BY <2>2, <3>2 DEF GapAt
  <2> QED BY <2>1, <2>2
<1>4. /\ gap \in Seq(ShownLines) /\ old \in Seq(ShownLines)
      /\ \A k \in Nat : L(k) \in Seq(ShownLines) /\ sg(k) \in Seq(ShownLines)
  <2>0. r \in Int /\ \A k \in Nat : k \in Int BY <1>0
  <2>1. GapAt(f, X, r) \in Seq(ShownLines) BY <1>a, <2>0, PartType, Zenon
  <2>2. \A k \in Nat : L(k) \in Seq(ShownLines)
    <3>1. r \in Nat BY <1>0
    <3> QED BY <1>a, <3>1, LeadGrows
  <2>3. \A k \in Nat : sg(k) \in Seq(ShownLines) BY <1>a, <2>0, PartType, Zenon
  <2>4. old \in Seq(ShownLines)
    <3>1. J \in [0..N -> Seq(ShownLines)] BY DEF Listings
    <3>2. e \in 0..N BY <1>0
    <3> QED BY <3>1, <3>2, Zenon
  <2>5. gap \in Seq(ShownLines) BY <1>3, <2>1
  <2> HIDE DEF gap, L, sg
  <2> QED BY <2>2, <2>3, <2>4, <2>5
<1>5. \A k \in 0..(n - r - 1) : L(k + 1) = L(k) \o sg(r + k)
  <2> TAKE k \in 0..(n - r - 1)
  <2>1. k \in Nat /\ r \in Nat /\ r + k \in (e + 1)..(n - 1) BY <1>0
  <2>2. sg(r + k) = <<Shown(f, r + k, "-")>> BY <1>c, <2>1 DEF LineAt
  <2> HIDE DEF sg
  <2> QED BY <1>a, <2>1, <2>2, LeadGrows
<1>6. L(0) = <<>> BY DEF Lead
<1>7. sg(n) = <<Shown(f, n, ":")>> BY <1>a DEF LineAt
<1>8. J[r] = old \o (gap \o sg(r))
  <2>1. PartOf(f, H, X, r) = gap \o sg(r)
    <3>1. r \in X BY <1>0, <1>2
    <3> HIDE DEF gap, X
    <3>2. PartOf(f, H, X, r) = GapAt(f, X, r) \o LineAt(f, H, r) BY <3>1, Zenon DEF PartOf
    <3> QED BY <1>3, <3>2, Zenon
  <2>2. J[r] = J[r - 1] \o PartOf(f, H, X, r)
    <3>1. r \in 1..N BY <1>0
    <3> QED BY <3>1 DEF Listings
  <2> HIDE DEF gap, sg, X
  <2> QED BY <1>1, <2>1, <2>2
<1>9. \A k \in 0..(n - r - 1) : J[r + k + 1] = J[r + k] \o sg(r + k + 1)
  <2> TAKE k \in 0..(n - r - 1)
  <2>1. r + k \in r..n /\ r + k + 1 \in r..n /\ r + k + 1 \in 1..N /\ (r + k + 1) - 1 = r + k BY <1>0
  <2> DEFINE m == r + k + 1
  <2>2. m - 1 \in X /\ m \in X BY <1>2, <2>1
  <2>3. GapAt(f, X, m) = <<>> BY <2>2 DEF GapAt
  <2>4. PartOf(f, H, X, m) = <<>> \o sg(m) BY <2>2, <2>3 DEF PartOf
  <2>5. sg(m) \in Seq(ShownLines) BY <1>0, <1>4, <2>1
  <2>6. <<>> \o sg(m) = sg(m)
    <3> HIDE DEF sg
    <3> QED BY <2>5, ConcatEmptySeq
  <2>7. J[m] = J[m - 1] \o PartOf(f, H, X, m) BY <2>1 DEF Listings
  <2> HIDE DEF sg, X
  <2> QED BY <2>1, <2>4, <2>6, <2>7
<1> HIDE DEF gap, sg, L, X, old
<1> DEFINE d == n - r
           Jf == [k \in 0..d |-> J[r + k]]
           Lf == [k \in 0..d |-> L(k)]
           sf == [k \in 0..d |-> sg(r + k)]
<1>10. Chained(Jf, Lf, sf, old, gap, d, ShownLines)
  <2>1. d \in Nat BY <1>0
  <2>2. \A k \in 0..d : r + k \in Nat /\ k \in Nat BY <1>0, <2>1
  <2>3. \A k \in 0..d : Lf[k] \in Seq(ShownLines) /\ sf[k] \in Seq(ShownLines)
    <3> TAKE k \in 0..d
    <3>1. Lf[k] = L(k) /\ sf[k] = sg(r + k) OBVIOUS
    <3> QED BY <1>4, <2>2, <3>1
  <2>4. 0 \in 0..d /\ r + 0 = r BY <1>0, <2>1
  <2>5. Lf[0] = <<>> /\ Jf[0] = old \o (gap \o sf[0])
    <3>1. Lf[0] = L(0) /\ Jf[0] = J[r] /\ sf[0] = sg(r) BY <2>4
    <3> QED BY <1>6, <1>8, <3>1
  <2>6. ASSUME NEW k \in 0..(d - 1)
        PROVE  Lf[k + 1] = Lf[k] \o sf[k] /\ Jf[k + 1] = Jf[k] \o sf[k + 1]
    <3>1. k \in 0..(n - r - 1) /\ k \in 0..d /\ k + 1 \in 0..d /\ r + (k + 1) = r + k + 1
      BY <1>0, <2>1
    <3>2. L(k + 1) = L(k) \o sg(r + k) /\ J[r + k + 1] = J[r + k] \o sg(r + k + 1)
      BY <1>5, <1>9, <3>1
    <3>3. /\ Lf[k] = L(k) /\ Lf[k + 1] = L(k + 1) /\ sf[k] = sg(r + k)
          /\ Jf[k] = J[r + k] /\ Jf[k + 1] = J[r + (k + 1)] /\ sf[k + 1] = sg(r + (k + 1))
      BY <3>1
    <3> QED BY <3>1, <3>2, <3>3
  <2> HIDE DEF d, Jf, Lf, sf
  <2> QED BY <1>4, <2>1, <2>3, <2>5, <2>6 DEF Chained
<1>11. Jf[d] = old \o ((gap \o Lf[d]) \o sf[d])
  <2> HIDE DEF d, Jf, Lf, sf
  <2>1. ChainEnds(Jf, Lf, sf, old, gap, d) BY <1>10, ChainIs
  <2> QED BY <2>1, Zenon DEF ChainEnds
<1>12. Jf[d] = J[n] /\ Lf[d] = L(n - r) /\ sf[d] = sg(n)
  <2>1. d \in 0..d /\ r + d = n BY <1>0
  <2> QED BY <2>1
<1> HIDE DEF d, Jf, Lf, sf
<1>13. J[n] = old \o ((gap \o L(n - r)) \o sg(n)) BY <1>11, <1>12
<1>14. L(n - r) = [k \in 1..(n - r) |-> Shown(f, r + k - 1, "-")] BY DEF L, Lead
<1>15. Caught(n, f, e, r) = (gap \o L(n - r)) \o sg(n) BY <1>7, <1>14, Zenon DEF Caught, gap
<1>16. (gap \o L(n - r)) \o sg(n) \in Seq(ShownLines)
  <2>1. n - r \in Nat BY <1>0
  <2>2. gap \in Seq(ShownLines) /\ L(n - r) \in Seq(ShownLines) /\ sg(n) \in Seq(ShownLines)
    BY <1>0, <1>4, <2>1
  <2>3. gap \o L(n - r) \in Seq(ShownLines) BY <2>2, ConcatProperties, Zenon
  <2> QED BY <2>2, <2>3, ConcatProperties, Zenon
<1> QED BY <1>13, <1>15, <1>16, Zenon DEF old

-----------------------------------------------------------------------------
\* The fields of a scan that shows more.
PutLeaves(s, scan, x) ==
  /\ s = [sink |-> s.sink, ring |-> s.ring, emitted |-> s.emitted, after |-> s.after]
  /\ s.sink = [out |-> s.sink.out, matches |-> s.sink.matches, truncated |-> s.sink.truncated]
  /\ s.sink.out = scan.sink.out \o x /\ s.sink.truncated = scan.sink.truncated
  /\ s.ring = scan.ring /\ s.emitted = scan.emitted /\ s.after = scan.after
\* Put changes the listing only.
LEMMA PutFields == ASSUME NEW scan \in ScanTypes, NEW x PROVE PutLeaves(Put(scan, x), scan, x)
<1> DEFINE s == Put(scan, x)
           o == scan.sink.out \o x
<1>1. s = [scan EXCEPT !.sink.out = o] BY DEF Put
<1> HIDE DEF o, s
<1>2. s = [sink |-> [out |-> o, matches |-> scan.sink.matches, truncated |-> scan.sink.truncated],
           ring |-> scan.ring, emitted |-> scan.emitted, after |-> scan.after]
  BY <1>1 DEF ScanTypes, Sinks
<1> DEFINE k == [out |-> o, matches |-> scan.sink.matches, truncated |-> scan.sink.truncated]
<1>3. k.out = o /\ k.matches = scan.sink.matches /\ k.truncated = scan.sink.truncated OBVIOUS
<1>4. k = [out |-> k.out, matches |-> k.matches, truncated |-> k.truncated] OBVIOUS
<1> HIDE DEF k
<1>5. s = [sink |-> k, ring |-> scan.ring, emitted |-> scan.emitted, after |-> scan.after]
  BY <1>2 DEF k
<1>6. s.sink = k /\ s.ring = scan.ring /\ s.emitted = scan.emitted /\ s.after = scan.after BY <1>5
<1>7. s = [sink |-> s.sink, ring |-> s.ring, emitted |-> s.emitted, after |-> s.after]
  BY <1>5, <1>6, Zenon
<1>8. s.sink = [out |-> s.sink.out, matches |-> s.sink.matches, truncated |-> s.sink.truncated]
  BY <1>4, <1>6, Zenon
<1> QED BY <1>3, <1>6, <1>7, <1>8 DEF o, s, PutLeaves

\* The fields of a scan behind a hit.
From(scan, n) == IF n - scan.ring < scan.emitted + 1 THEN scan.emitted + 1 ELSE n - scan.ring
HitLeaves(s, scan, f, n) ==
  /\ s.sink.out = scan.sink.out \o Caught(n, f, scan.emitted, From(scan, n))
  /\ s.sink.truncated = scan.sink.truncated
  /\ s.ring = 0 /\ s.emitted = n /\ s.after = CONTEXT
\* A hit catches up, empties the ring, and owes CONTEXT lines.
LEMMA HitFields ==
  ASSUME NEW scan \in ScanTypes, NEW f, NEW n
  PROVE  HitLeaves(Hit(scan, f, n), scan, f, n)
<1> DEFINE s == Hit(scan, f, n)
           x == Caught(n, f, scan.emitted, From(scan, n))
           put == Put(scan, x)
<1>1. s = [put EXCEPT !.sink.matches = @ + 1, !.ring = 0, !.emitted = n, !.after = CONTEXT]
  BY Zenon DEF Hit, Caught, From
<1> HIDE DEF x, s
<1>2. put = Put(scan, x) OBVIOUS
<1> HIDE DEF put
<1>3. /\ put = [sink |-> put.sink, ring |-> put.ring, emitted |-> put.emitted, after |-> put.after]
      /\ put.sink = [out |-> put.sink.out, matches |-> put.sink.matches, truncated |-> put.sink.truncated]
      /\ put.sink.out = scan.sink.out \o x /\ put.sink.truncated = scan.sink.truncated
  <2>1. PutLeaves(put, scan, x) BY <1>2, PutFields
  <2> QED BY <2>1 DEF PutLeaves
<1>4. s = [sink |-> [out |-> put.sink.out, matches |-> put.sink.matches + 1, truncated |-> put.sink.truncated],
           ring |-> 0, emitted |-> n, after |-> CONTEXT]
  BY <1>1, <1>3
<1> DEFINE k == [out |-> put.sink.out, matches |-> put.sink.matches + 1, truncated |-> put.sink.truncated]
<1>5. k.out = put.sink.out /\ k.truncated = put.sink.truncated OBVIOUS
<1> HIDE DEF k
<1>6. s = [sink |-> k, ring |-> 0, emitted |-> n, after |-> CONTEXT] BY <1>4 DEF k
<1>7. s.sink = k /\ s.ring = 0 /\ s.emitted = n /\ s.after = CONTEXT BY <1>6
<1> QED BY <1>3, <1>5, <1>7 DEF x, s, HitLeaves

\* How a line of context changes a scan.
Owed(scan, x, n) == [Put(scan, x) EXCEPT !.emitted = n, !.after = @ - 1]
\* A line owed is shown, and one line less is owed.
LEMMA AfterFields ==
  ASSUME NEW scan \in ScanTypes, NEW x \in Seq(ShownLines), NEW n, NEW s, s = Owed(scan, x, n)
  PROVE  /\ s.sink.out = scan.sink.out \o x /\ s.sink.truncated = scan.sink.truncated
         /\ s.ring = scan.ring /\ s.emitted = n /\ s.after = scan.after - 1
<1> DEFINE put == Put(scan, x)
           o == scan.sink.out \o x
           k == [out |-> o, matches |-> scan.sink.matches, truncated |-> scan.sink.truncated]
<1>1. s = [put EXCEPT !.emitted = n, !.after = @ - 1] BY DEF Owed
<1> HIDE DEF o
<1>0. k.out = o /\ k.truncated = scan.sink.truncated OBVIOUS
<1> HIDE DEF k
<1>2. put = [sink |-> k, ring |-> scan.ring, emitted |-> scan.emitted, after |-> scan.after]
  BY PutAdds DEF k, o
<1> HIDE DEF put
<1>3. s = [sink |-> k, ring |-> scan.ring, emitted |-> n, after |-> scan.after - 1]
  BY <1>1, <1>2
<1>4. s.sink = k /\ s.ring = scan.ring /\ s.emitted = n /\ s.after = scan.after - 1 BY <1>3
<1> QED BY <1>0, <1>4 DEF o

-----------------------------------------------------------------------------
\* What is owed behind line n: e is the last line shown, the ring has the r
\* lines behind it, at most CONTEXT, and a lines are still to be shown.  A line
\* behind e is no hit, and the hits so far are too far from it.
Owes(e, r, a, N, H, n) ==
  /\ r = IF n - e < CONTEXT THEN n - e ELSE CONTEXT
  /\ e > 0 => e \in NearTo(H, N)
  /\ a <= CONTEXT /\ \A h \in H : h <= n => n - h >= CONTEXT - a
  /\ a > 0 => e = n /\ \E h \in H : h <= n /\ n - h = CONTEXT - a
  /\ \A k \in (e + 1)..n : k \notin H /\ \A h \in H : h <= n => k - h > CONTEXT

\* A scan behind line n has added to the listing what is to be shown up to the
\* last line it showed, and knows what it owes.
ScanShows(scan, out0, J, N, H, n) ==
  /\ scan \in ScanTypes /\ scan.emitted \in 0..n
  /\ scan.sink.out = out0 \o J[scan.emitted]
  /\ ~scan.sink.truncated => Owes(scan.emitted, scan.ring, scan.after, N, H, n)

\* Line m + 1 of a file of N lines with the hits H.
LineOf(f, N, H, m, e, r, a) ==
  /\ f \in Paths /\ N \in Nat /\ H \in SUBSET (1..N) /\ m \in 0..(N - 1)
  /\ e \in 0..m /\ r \in Nat /\ a \in Nat /\ Owes(e, r, a, N, H, m)

\* What a hit owes.
LEMMA OwesAtHit ==
  ASSUME NEW f, NEW N, NEW H, NEW m, NEW e, NEW r, NEW a, LineOf(f, N, H, m, e, r, a), m + 1 \in H
  PROVE  Owes(m + 1, 0, CONTEXT, N, H, m + 1)
<1>1. /\ CONTEXT \in Nat \ {0} /\ m \in Nat /\ N \in Nat /\ m + 1 \in 1..N /\ H \subseteq Nat
      /\ (m + 1) - (m + 1) = 0
  BY GrepAssumption DEF LineOf
<1>2. m + 1 \in NearTo(H, N)
  <2>1. (m + 1) - (m + 1) \in -CONTEXT..CONTEXT BY <1>1
  <2> QED BY <1>1, <2>1 DEF NearTo
<1>3. \A h \in H : h <= m + 1 => (m + 1) - h >= CONTEXT - CONTEXT BY <1>1
<1>4. (m + 1) - (m + 1) = CONTEXT - CONTEXT /\ m + 1 <= m + 1 BY <1>1
<1>5. \A k \in ((m + 1) + 1)..(m + 1) : FALSE BY <1>1
<1>6. 0 = IF (m + 1) - (m + 1) < CONTEXT THEN (m + 1) - (m + 1) ELSE CONTEXT BY <1>1
<1>7. CONTEXT <= CONTEXT BY <1>1
<1> QED BY <1>2, <1>3, <1>4, <1>5, <1>6, <1>7 DEF Owes

\* What a line of context owes.
LEMMA OwesAtContext ==
  ASSUME NEW f, NEW N, NEW H, NEW m, NEW e, NEW r, NEW a, LineOf(f, N, H, m, e, r, a),
         m + 1 \notin H, a > 0
  PROVE  /\ Owes(m + 1, r, a - 1, N, H, m + 1) /\ m + 1 \in NearTo(H, N)
         /\ e = m /\ e \in NearTo(H, N)
<1>1. /\ CONTEXT \in Nat \ {0} /\ m \in Nat /\ N \in Nat /\ m + 1 \in 1..N /\ H \subseteq Nat
      /\ a \in Nat /\ a <= CONTEXT /\ e \in 0..m /\ Owes(e, r, a, N, H, m) /\ H \subseteq 1..N
      /\ r = IF m - e < CONTEXT THEN m - e ELSE CONTEXT
  BY GrepAssumption DEF LineOf, Owes
<1>2. PICK h \in H : h <= m /\ m - h = CONTEXT - a BY <1>1 DEF Owes
<1>3. e = m BY <1>1 DEF Owes
<1>4. e > 0 BY <1>1, <1>2, <1>3
<1>5. e \in NearTo(H, N) BY <1>1, <1>4 DEF Owes
<1>6. m + 1 \in NearTo(H, N)
  <2>1. h - (m + 1) \in -CONTEXT..CONTEXT BY <1>1, <1>2
  <2> QED BY <1>1, <2>1 DEF NearTo
<1>7. \A g \in H : g <= m + 1 => g <= m
  <2> TAKE g \in H
  <2>1. g # m + 1 /\ g \in Nat BY <1>1
  <2> QED BY <1>1, <2>1
<1>8. \A g \in H : g <= m + 1 => (m + 1) - g >= CONTEXT - (a - 1)
  <2> TAKE g \in H
  <2> HAVE g <= m + 1
  <2>1. m - g >= CONTEXT - a /\ g \in Nat BY <1>1, <1>7 DEF Owes
  <2> QED BY <1>1, <2>1
<1>9. h <= m + 1 /\ (m + 1) - h = CONTEXT - (a - 1) /\ h \in H BY <1>1, <1>2
<1>10. a - 1 <= CONTEXT BY <1>1
<1>11. \A k \in ((m + 1) + 1)..(m + 1) : FALSE BY <1>1
<1>12. r = IF (m + 1) - (m + 1) < CONTEXT THEN (m + 1) - (m + 1) ELSE CONTEXT BY <1>1, <1>3
<1>13. Owes(m + 1, r, a - 1, N, H, m + 1)
  BY <1>6, <1>8, <1>9, <1>10, <1>11, <1>12 DEF Owes
<1> QED BY <1>3, <1>5, <1>6, <1>13

\* What a line that is held back owes.
LEMMA OwesBehind ==
  ASSUME NEW f, NEW N, NEW H, NEW m, NEW e, NEW r, NEW a, LineOf(f, N, H, m, e, r, a),
         m + 1 \notin H, ~(a > 0)
  PROVE  Owes(e, RingNext(r), a, N, H, m + 1)
<1>1. /\ CONTEXT \in Nat \ {0} /\ m \in Nat /\ N \in Nat /\ m + 1 \in 1..N /\ H \subseteq Nat
      /\ a = 0 /\ e \in Nat /\ e <= m /\ r \in Nat /\ Owes(e, r, a, N, H, m)
      /\ r = IF m - e < CONTEXT THEN m - e ELSE CONTEXT
  BY GrepAssumption DEF LineOf, Owes
<1>2. RingNext(r) = IF (m + 1) - e < CONTEXT THEN (m + 1) - e ELSE CONTEXT
  <2>1. CASE m - e < CONTEXT
    <3>1. r = m - e BY <1>1, <2>1
    <3> QED BY <1>1, <2>1, <3>1 DEF RingNext
  <2>2. CASE ~(m - e < CONTEXT)
    <3>1. r = CONTEXT BY <1>1, <2>2
    <3> QED BY <1>1, <2>2, <3>1 DEF RingNext
  <2> QED BY <2>1, <2>2
<1>3. \A g \in H : g <= m + 1 => g <= m /\ g \in Nat /\ m - g >= CONTEXT
  <2> TAKE g \in H
  <2> HAVE g <= m + 1
  <2>1. g # m + 1 /\ g \in Nat BY <1>1
  <2>2. g <= m BY <1>1, <2>1
  <2>3. m - g >= CONTEXT - a BY <1>1, <2>2 DEF Owes
  <2> QED BY <1>1, <2>1, <2>2, <2>3
<1>4. a <= CONTEXT /\ \A g \in H : g <= m + 1 => (m + 1) - g >= CONTEXT - a BY <1>1, <1>3
<1>5. ASSUME NEW k \in (e + 1)..(m + 1)
      PROVE  k \notin H /\ \A h \in H : h <= m + 1 => k - h > CONTEXT
  <2>1. CASE k = m + 1 BY <1>1, <1>3, <2>1
  <2>2. CASE k # m + 1
    <3>1. k \in (e + 1)..m BY <1>1, <2>2
    <3> QED BY <1>1, <1>3, <3>1 DEF Owes
  <2> QED BY <2>1, <2>2
<1>6. e > 0 => e \in NearTo(H, N) BY <1>1 DEF Owes
<1> QED BY <1>1, <1>2, <1>4, <1>5, <1>6 DEF Owes

\* What a hit has to show begins where the ring does, or behind what was shown.
LEMMA HitIsBehind ==
  ASSUME NEW f, NEW N, NEW H, NEW m, NEW e, NEW r, NEW a, LineOf(f, N, H, m, e, r, a),
         m + 1 \in H, NEW from, from = IF (m + 1) - r < e + 1 THEN e + 1 ELSE (m + 1) - r
  PROVE  Behind(f, N, H, m + 1, e, from)
<1>1. /\ CONTEXT \in Nat \ {0} /\ m \in Nat /\ N \in Nat /\ m + 1 \in 1..N /\ H \subseteq Nat
      /\ e \in Nat /\ e <= m /\ r \in Nat /\ Owes(e, r, a, N, H, m)
      /\ r = (IF m - e < CONTEXT THEN m - e ELSE CONTEXT)
      /\ H \in SUBSET (1..N) /\ f \in Paths
  BY GrepAssumption DEF LineOf, Owes
<1>2. from \in (e + 1)..(m + 1) /\ (m + 1) - from <= CONTEXT /\ from \in Nat BY <1>1
<1>3. \A k \in (e + 1)..m : k \notin H /\ \A h \in H : h <= m => k - h > CONTEXT
  BY <1>1 DEF Owes
<1>4. ASSUME NEW k \in (e + 1)..(from - 1) PROVE k \notin NearTo(H, N)
  <2>1. k \in Nat /\ e + 1 <= k /\ k <= from - 1 BY <1>1, <1>2
  <2>2. k + CONTEXT <= m BY <1>1, <2>1
  <2>3. k \in (e + 1)..m BY <1>1, <2>1, <2>2
  <2>4. ASSUME NEW h \in H PROVE h - k \notin -CONTEXT..CONTEXT
    <3>1. h \in Nat BY <1>1
    <3>2. CASE h <= m
      <4>1. k - h > CONTEXT BY <1>3, <2>3, <3>2
      <4> QED BY <1>1, <2>1, <3>1, <4>1
    <3>3. CASE ~(h <= m) BY <1>1, <2>1, <2>2, <3>1, <3>3
    <3> QED BY <3>2, <3>3
  <2> QED BY <2>4 DEF NearTo
<1>5. \A k \in (e + 1)..((m + 1) - 1) : k \notin H
  <2>1. (m + 1) - 1 = m BY <1>1
  <2> QED BY <1>3, <2>1
<1>6. e > 0 => e \in NearTo(H, N) BY <1>1 DEF Owes
<1>7. e \in 0..((m + 1) - 1) BY <1>1
<1> QED BY <1>1, <1>2, <1>4, <1>5, <1>6, <1>7 DEF Behind

\* What was shown, and more of it.
MoreOf(out, out0, j, x, k) ==
  Three(ShownLines, out0, j, x) /\ k = j \o x /\ out = out0 \o j
InStep(out, out0, x, k) == out \o x = out0 \o k
\* A listing in step with what is to be shown stays so when both grow by the same.
LEMMA MoreShown ==
  ASSUME NEW out, NEW out0, NEW j, NEW x, NEW k, MoreOf(out, out0, j, x, k)
  PROVE  InStep(out, out0, x, k)
<1>1. Three(ShownLines, out0, j, x) BY DEF MoreOf
<1>2. (out0 \o j) \o x = out0 \o (j \o x) BY <1>1, BracketsMove DEF Bracketed
<1>3. k = j \o x /\ out = out0 \o j BY DEF MoreOf
<1> QED BY <1>2, <1>3, Zenon DEF InStep

\* A line keeps the listing in step with what is to be shown.
LEMMA LineShows ==
  ASSUME NEW f \in Paths, NEW N \in Nat, NEW H \in SUBSET (1..N), NEW J, Listings(J, f, H, N),
         NEW out0 \in Seq(ShownLines), NEW m \in 0..(N - 1),
         NEW scan, ScanShows(scan, out0, J, N, H, m),
         NEW hit \in BOOLEAN, hit <=> m + 1 \in H,
         NEW s, s = Line(scan, f, m + 1, hit), s \in ScanTypes
  PROVE  ScanShows(s, out0, J, N, H, m + 1)
<1> DEFINE n == m + 1
<1>1. /\ scan \in ScanTypes /\ scan.emitted \in 0..m /\ scan.sink.out = out0 \o J[scan.emitted]
      /\ scan.emitted \in Nat /\ scan.ring \in Nat /\ scan.after \in Nat
      /\ n \in 1..N /\ n - 1 = m /\ scan.emitted \in 0..n /\ n \in 0..n
  BY DEF ScanShows, ScanTypes
<1>2. \A k \in 0..m : J[k] \in Seq(ShownLines) BY SMTT(40) DEF Listings
<1>3. CASE scan.sink.truncated
  <2>1. s = scan BY <1>3 DEF Line
  <2> QED BY <1>1, <1>3, <2>1 DEF ScanShows
<1>4. CASE ~scan.sink.truncated
  <2>1. LineOf(f, N, H, m, scan.emitted, scan.ring, scan.after)
    BY <1>1, <1>4 DEF ScanShows, LineOf
  <2>2. CASE hit /\ Full(scan.sink.matches)
    <3>1. s = [scan EXCEPT !.sink.truncated = TRUE] BY <1>4, <2>2 DEF Line
    <3>2. s.emitted = scan.emitted /\ s.sink.out = scan.sink.out /\ s.sink.truncated
      BY <1>1, <3>1 DEF ScanTypes, Sinks
    <3> QED BY <1>1, <3>2 DEF ScanShows
  <2>3. CASE hit /\ ~Full(scan.sink.matches)
    <3>1. s = Hit(scan, f, n) BY <1>4, <2>3 DEF Line
    <3> DEFINE c == Caught(n, f, scan.emitted, From(scan, n))
    <3>2. /\ s.sink.out = scan.sink.out \o c /\ s.sink.truncated = scan.sink.truncated
          /\ s.ring = 0 /\ s.emitted = n /\ s.after = CONTEXT
      <4> HIDE DEF n
      <4>1. scan \in ScanTypes BY <1>1
      <4>2. HitLeaves(s, scan, f, n) BY <3>1, <4>1, HitFields
      <4> QED BY <4>2 DEF HitLeaves
    <3>3. Behind(f, N, H, m + 1, scan.emitted, From(scan, n))
      BY <2>1, <2>3, HitIsBehind DEF From
    <3>4. J[n] = J[scan.emitted] \o c /\ c \in Seq(ShownLines)
      BY <3>3, HitCatchesUp
    <3>5. scan.sink.out \o c = out0 \o J[n]
      <4> DEFINE j == J[scan.emitted]
                 o == scan.sink.out
      <4>1. j \in Seq(ShownLines) /\ o = out0 \o j BY <1>1, <1>2
      <4> HIDE DEF c, n
      <4>2. J[n] = j \o c /\ c \in Seq(ShownLines) BY <3>4
      <4> HIDE DEF j, o
      <4>3. MoreOf(o, out0, j, c, J[n]) BY <4>1, <4>2 DEF MoreOf, Three
      <4>4. InStep(o, out0, c, J[n]) BY <4>3, MoreShown
      <4> QED BY <4>4 DEF o, InStep
    <3>6. Owes(n, 0, CONTEXT, N, H, n) BY <2>1, <2>3, OwesAtHit
    <3> HIDE DEF c, n
    <3>7. s.sink.out = out0 \o J[s.emitted] /\ s.emitted \in 0..n BY <1>1, <3>2, <3>5
    <3>8. Owes(s.emitted, s.ring, s.after, N, H, n) BY <3>2, <3>6
    <3> QED BY <3>7, <3>8 DEF ScanShows, n
  <2>4. CASE ~hit /\ scan.after > 0
    <3> DEFINE x == <<Shown(f, n, "-")>>
    <3>1. s = Owed(scan, x, n) BY <1>4, <2>4 DEF Line, Owed
    <3>2. x \in Seq(ShownLines) BY DEF Shown, ShownLines
    <3>3. /\ Owes(n, scan.ring, scan.after - 1, N, H, n) /\ n \in NearTo(H, N)
          /\ scan.emitted = m /\ m \in NearTo(H, N)
      BY <2>1, <2>4, OwesAtContext
    <3>4. x = LineAt(f, H, n) BY <2>4 DEF LineAt
    <3> HIDE DEF x
    <3>5. /\ s.sink.out = scan.sink.out \o x /\ s.sink.truncated = scan.sink.truncated
          /\ s.ring = scan.ring /\ s.emitted = n /\ s.after = scan.after - 1
      <4> HIDE DEF n
      <4>1. scan \in ScanTypes BY <1>1
      <4> QED BY <3>1, <3>2, <4>1, AfterFields, SMTT(40)
    <3>6. GapAt(f, NearTo(H, N), n) = <<>> BY <1>1, <3>3 DEF GapAt
    <3>7. <<>> \o x = x BY <3>2, ConcatEmptySeq
    <3>8. PartOf(f, H, NearTo(H, N), n) = x BY <3>3, <3>4, <3>6, <3>7 DEF PartOf
    <3>9. J[n] = J[m] \o x BY <1>1, <3>8 DEF Listings
    <3> HIDE DEF n
    <3>10. scan.sink.out \o x = out0 \o J[n]
      <4> DEFINE j == J[m]
                 o == scan.sink.out
      <4>1. j \in Seq(ShownLines) /\ o = out0 \o j
        <5>1. m \in 0..m OBVIOUS
        <5> QED BY <1>1, <1>2, <3>3, <5>1
      <4>2. J[n] = j \o x BY <3>9
      <4> HIDE DEF j, o
      <4>3. MoreOf(o, out0, j, x, J[n]) BY <3>2, <4>1, <4>2 DEF MoreOf, Three
      <4>4. InStep(o, out0, x, J[n]) BY <4>3, MoreShown
      <4> QED BY <4>4 DEF o, InStep
    <3>11. s.sink.out = out0 \o J[s.emitted] /\ s.emitted \in 0..n BY <1>1, <3>5, <3>10
    <3>12. Owes(s.emitted, s.ring, s.after, N, H, n) BY <3>3, <3>5
    <3> QED BY <3>11, <3>12 DEF ScanShows, n
  <2>5. CASE ~hit /\ ~(scan.after > 0)
    <3>1. s = [scan EXCEPT !.ring = RingNext(@)] BY <1>4, <2>5 DEF Line
    <3>2. /\ s.emitted = scan.emitted /\ s.sink = scan.sink
          /\ s.after = scan.after /\ s.ring = RingNext(scan.ring)
      BY <1>1, <3>1 DEF ScanTypes
    <3>3. Owes(scan.emitted, RingNext(scan.ring), scan.after, N, H, n) BY <2>1, <2>5, OwesBehind
    <3> QED BY <1>1, <3>2, <3>3 DEF ScanShows
  <2> QED BY <2>2, <2>3, <2>4, <2>5
<1> QED BY <1>3, <1>4

\* Nothing is owed before the first line.
LEMMA ScanBegins ==
  ASSUME NEW f \in Paths, NEW N \in Nat, NEW H \in SUBSET (1..N), NEW J, Listings(J, f, H, N),
         NEW sink0 \in Sinks, ~sink0.truncated
  PROVE  ScanShows(Scan(sink0), sink0.out, J, N, H, 0)
<1> DEFINE s == Scan(sink0)
<1>1. /\ s \in ScanTypes /\ s.sink = sink0 /\ s.emitted = 0 /\ s.ring = 0 /\ s.after = 0
  BY DEF Scan, ScanTypes
<1> HIDE DEF s
<1>2. sink0.out \in Seq(ShownLines) BY DEF Sinks
<1>3. sink0.out = sink0.out \o J[0]
  <2>1. J[0] = <<>> BY DEF Listings
  <2> QED BY <1>2, <2>1, ConcatEmptySeq
<1>4. Owes(0, 0, 0, N, H, 0)
  <2>1. CONTEXT \in Nat \ {0} /\ \A h \in H : h \in Nat /\ ~(h <= 0) BY GrepAssumption
  <2>2. 0 - 0 = 0 /\ 0 < CONTEXT /\ 0 <= CONTEXT /\ ~(0 > 0) BY <2>1
  <2>3. \A k \in (0 + 1)..0 : FALSE OBVIOUS
  <2> QED BY <2>1, <2>2, <2>3 DEF Owes
<1>5. 0 \in 0..0 OBVIOUS
<1> QED BY <1>1, <1>3, <1>4, <1>5 DEF ScanShows, s

\* Nothing is left to show behind the last line.
AllShown(sink, out0, J, N) ==
  \E e \in 0..N : sink.out = out0 \o J[e] /\ (~sink.truncated => J[e] = J[N])
\* So the listing has all there is to show, or its first part where it was cut.
LEMMA ScanEnds ==
  ASSUME NEW f \in Paths, NEW N \in Nat, NEW H \in SUBSET (1..N), NEW J, Listings(J, f, H, N),
         NEW out0, NEW scan, ScanShows(scan, out0, J, N, H, N)
  PROVE  AllShown(scan.sink, out0, J, N)
<1> DEFINE e == scan.emitted
<1>1. /\ e \in 0..N /\ scan.sink.out = out0 \o J[e]
      /\ ~scan.sink.truncated => Owes(e, scan.ring, scan.after, N, H, N)
  BY DEF ScanShows
<1>2. ASSUME ~scan.sink.truncated PROVE J[e] = J[N]
  <2> HIDE DEF e
  <2>1. /\ CONTEXT \in Nat /\ e \in Nat /\ e <= N /\ H \subseteq Nat
        /\ \A h \in H : h <= N
    BY <1>1, GrepAssumption
  <2>2. \A k \in (e + 1)..N : k \notin H /\ \A h \in H : h <= N => k - h > CONTEXT
    BY <1>1, <1>2 DEF Owes
  <2>3. ASSUME NEW k \in (e + 1)..N PROVE k \notin NearTo(H, N)
    <3>1. k \in Nat BY <2>1
    <3>2. \A h \in H : h \in Nat /\ k - h > CONTEXT BY <2>1, <2>2
    <3>3. \A h \in H : h - k \notin -CONTEXT..CONTEXT BY <2>1, <3>1, <3>2
    <3> QED BY <3>3 DEF NearTo
  <2>4. Silent(N, H, e, N) BY <2>1, <2>3 DEF Silent
  <2> QED BY <2>4, SilentLines
<1> QED BY <1>1, <1>2 DEF AllShown

\* Lines that show file f.
OfFile(c, f) == c \in Seq(ShownLines) /\ \A i \in 1..Len(c) : c[i].file = f

\* Joining them.
LEMMA OfFileJoins ==
  ASSUME NEW f, NEW a, NEW b, OfFile(a, f), OfFile(b, f)
  PROVE  OfFile(a \o b, f)
<1>1. a \in Seq(ShownLines) /\ b \in Seq(ShownLines) BY DEF OfFile
<1> DEFINE c == a \o b
<1>2. /\ c \in Seq(ShownLines) /\ Len(c) = Len(a) + Len(b)
      /\ \A i \in 1 .. Len(a) + Len(b) : c[i] = IF i <= Len(a) THEN a[i] ELSE b[i - Len(a)]
  BY <1>1, ConcatProperties, Zenon
<1> HIDE DEF c
<1>3. Len(a) \in Nat /\ Len(b) \in Nat BY <1>1
<1>4. ASSUME NEW i \in 1..Len(c) PROVE c[i].file = f
  <2>1. CASE i <= Len(a)
    <3>1. i \in 1..Len(a) /\ c[i] = a[i] BY <1>2, <1>3, <2>1
    <3> QED BY <3>1 DEF OfFile
  <2>2. CASE ~(i <= Len(a))
    <3>1. i - Len(a) \in 1..Len(b) /\ c[i] = b[i - Len(a)] BY <1>2, <1>3, <2>2
    <3> QED BY <3>1 DEF OfFile
  <2> QED BY <2>1, <2>2
<1> QED BY <1>2, <1>4 DEF OfFile, c

\* What is to be shown of a file shows only that file.
LEMMA ListingsOfFile ==
  ASSUME NEW f \in Paths, NEW N \in Nat, NEW H, NEW J, Listings(J, f, H, N), NEW e \in 0..N
  PROVE  OfFile(J[e], f)
<1> DEFINE T == {k \in 0..N : OfFile(J[k], f)}
           part(n) == PartOf(f, H, NearTo(H, N), n)
<1>1. J[0] = <<>> /\ \A n \in 1..N : J[n] = J[n - 1] \o part(n) BY DEF Listings
<1>2. ASSUME NEW n \in Int PROVE OfFile(part(n), f)
  <2> DEFINE X == NearTo(H, N)
  <2> HIDE DEF X
  <2>1. OfFile(<<>>, f) BY DEF OfFile
  <2>2. \A k \in Int, sep \in {":", "-", "--"} : OfFile(<<Shown(f, k, sep)>>, f)
    <3> TAKE k \in Int, sep \in {":", "-", "--"}
    <3> DEFINE x == Shown(f, k, sep)
    <3>1. x \in ShownLines /\ x.file = f BY DEF Shown, ShownLines
    <3> HIDE DEF x
    <3>2. <<x>> \in Seq(ShownLines) /\ \A i \in 1..Len(<<x>>) : <<x>>[i] = x BY <3>1
    <3>3. OfFile(<<x>>, f) BY <3>1, <3>2 DEF OfFile
    <3> QED BY <3>3 DEF x
  <2>3. OfFile(GapAt(f, X, n), f)
    <3>0. 0 \in Int /\ "--" \in {":", "-", "--"} OBVIOUS
    <3>1. OfFile(<<Gap(f)>>, f) BY <2>2, <3>0, Zenon DEF Gap
    <3> QED BY <2>1, <3>1 DEF GapAt
  <2>4. OfFile(LineAt(f, H, n), f) BY <2>2 DEF LineAt
  <2>5. OfFile(GapAt(f, X, n) \o LineAt(f, H, n), f) BY <2>3, <2>4, OfFileJoins
  <2>6. OfFile(PartOf(f, H, X, n), f) BY <2>1, <2>5 DEF PartOf
  <2> QED BY <2>6 DEF X
<1> HIDE DEF part
<1>3. 0 \in T
  <2>1. OfFile(<<>>, f) BY DEF OfFile
  <2> QED BY <1>1, <2>1
<1>4. ASSUME NEW k \in 0..(N - 1), k \in T PROVE k + 1 \in T
  <2>1. k + 1 \in 1..N /\ (k + 1) - 1 = k /\ k + 1 \in 0..N /\ k + 1 \in Int OBVIOUS
  <2>2. J[k + 1] = J[k] \o part(k + 1) BY <1>1, <2>1
  <2>3. OfFile(J[k], f) /\ OfFile(part(k + 1), f) BY <1>2, <1>4, <2>1
  <2>4. OfFile(J[k + 1], f) BY <2>2, <2>3, OfFileJoins
  <2> QED BY <2>1, <2>4
<1>5. 0..N \subseteq T
  <2> HIDE DEF T
  <2> QED BY <1>3, <1>4, Upwards
<1> QED BY <1>5

\* What the search of one more file shows.
AddsBlocks(sink, sink0, f, B) ==
  \E c : /\ sink.out = sink0.out \o c /\ OfFile(c, f) /\ StartsWith(B, c, ShownLines)
         /\ ~sink.truncated => c = B

\* A scan of a file adds to the listing what is to be shown of the file, or a
\* first part of it where the cap ends the search (grep_scan).
LEMMA ScanIsBlocks ==
  ASSUME NEW f \in Paths, NEW sink0, Free(sink0, f), NEW lines, Len(lines) \in Nat,
         NEW pattern, NEW ci \in BOOLEAN
  PROVE  AddsBlocks(grep_scan(sink0, pattern, f, lines, ci), sink0, f,
                    BlocksOf(f, HitLinesOf(lines, pattern, ci), Len(lines)))
<1> DEFINE N == Len(lines)
           H == HitLinesOf(lines, pattern, ci)
           last == grep_scan(sink0, pattern, f, lines, ci)
<1>1. PICK scan : ScanLines(scan, sink0, f, N, H, last) BY ScanSteps
<1>2. H \in SUBSET (1..N) BY DEF HitLinesOf
<1> HIDE DEF H, N, last
<1>3. N \in Nat BY DEF N
<1>4. PICK J : /\ Listings(J, f, H, N) /\ BlocksOf(f, H, N) = J[N]
               /\ \A e \in 0..N : StartsWith(J[N], J[e], ShownLines)
  BY <1>3, ListingsExist
<1>5. sink0 \in Sinks /\ ~sink0.truncated /\ sink0.out \in Seq(ShownLines) BY DEF Free, Sinks
<1> DEFINE T == {n \in 0..N : ScanShows(scan[n], sink0.out, J, N, H, n)}
<1>6. 0 \in T
  <2>1. ScanShows(Scan(sink0), sink0.out, J, N, H, 0) BY <1>2, <1>3, <1>4, <1>5, ScanBegins
  <2> QED BY <1>1, <1>3, <2>1 DEF ScanLines
<1>7. ASSUME NEW m \in 0..(N - 1), m \in T PROVE m + 1 \in T
  <2>1. m + 1 \in 1..N /\ m + 1 \in 0..N /\ (m + 1) - 1 = m BY <1>3
  <2>2. PICK hit \in BOOLEAN : (hit <=> m + 1 \in H) /\ scan[m + 1] = Line(scan[(m + 1) - 1], f, m + 1, hit)
    BY <1>1, <2>1 DEF ScanLines
  <2>3. scan[m + 1] = Line(scan[m], f, m + 1, hit) BY <2>1, <2>2
  <2>4. scan[m + 1] \in ScanTypes BY <1>1, <2>1 DEF ScanLines, ScanAt
  <2>5. ScanShows(scan[m], sink0.out, J, N, H, m) BY <1>7
  <2>6. ScanShows(scan[m + 1], sink0.out, J, N, H, m + 1)
    BY <1>2, <1>3, <1>4, <1>5, <2>2, <2>3, <2>4, <2>5, LineShows
  <2> QED BY <2>1, <2>6
<1>8. 0..N \subseteq T
  <2> HIDE DEF T
  <2> QED BY <1>3, <1>6, <1>7, Upwards
<1>9. ScanShows(scan[N], sink0.out, J, N, H, N) BY <1>3, <1>8
<1>11. last = scan[N].sink BY <1>1 DEF ScanLines
<1>15. AllShown(last, sink0.out, J, N)
  <2> DEFINE g == scan[N]
  <2>1. ScanShows(g, sink0.out, J, N, H, N) BY <1>9
  <2> HIDE DEF g
  <2>2. AllShown(g.sink, sink0.out, J, N) BY <1>2, <1>3, <1>4, <2>1, ScanEnds
  <2> QED BY <1>11, <2>2 DEF g
<1>10. PICK e \in 0..N : last.out = sink0.out \o J[e] /\ (~last.truncated => J[e] = J[N])
  BY <1>15 DEF AllShown
<1>12. OfFile(J[e], f) BY <1>3, <1>4, ListingsOfFile
<1>13. StartsWith(J[N], J[e], ShownLines) BY <1>4
<1>14. AddsBlocks(last, sink0, f, BlocksOf(f, H, N))
  <2>1. BlocksOf(f, H, N) = J[N] BY <1>4
  <2> QED BY <1>10, <1>11, <1>12, <1>13, <2>1 DEF AddsBlocks
<1> QED BY <1>14 DEF last, H, N

-----------------------------------------------------------------------------
\* The listing of a walk.

\* The places of a listing that show a file, and the part between two places.
Where(out, f) == {k \in 1..Len(out) : out[k].file = f}
Cut(p, out, i, j) == /\ p \in Seq(ShownLines) /\ Len(p) = j - i + 1
                     /\ \A k \in 1..(j - i + 1) : p[k] = out[i + k - 1]
\* A file is shown in one place, as B says or up to where the listing was cut.
Stretch(out, f, B, whole) ==
  \E i, j \in 1..Len(out), p \in Seq(ShownLines) :
    /\ Where(out, f) = i..j /\ Cut(p, out, i, j)
    /\ StartsWith(B, p, ShownLines) /\ (whole => p = B)
\* What is shown behind a listing.
Behinds(out2, out, c) ==
  /\ out \in Seq(ShownLines) /\ c \in Seq(ShownLines) /\ out2 \in Seq(ShownLines)
  /\ Len(out2) = Len(out) + Len(c)
  /\ \A k \in 1..Len(out) : out2[k] = out[k]
  /\ \A k \in 1..Len(c) : out2[Len(out) + k] = c[k]
\* Joining puts the one behind the other.
LEMMA BehindsIs ==
  ASSUME NEW out \in Seq(ShownLines), NEW c \in Seq(ShownLines)
  PROVE  Behinds(out \o c, out, c)
<1> DEFINE d == out \o c
<1>1. /\ d \in Seq(ShownLines) /\ Len(d) = Len(out) + Len(c)
      /\ \A i \in 1 .. Len(out) + Len(c) : d[i] = IF i <= Len(out) THEN out[i] ELSE c[i - Len(out)]
  BY ConcatProperties, Zenon
<1> HIDE DEF d
<1>2. Len(out) \in Nat /\ Len(c) \in Nat OBVIOUS
<1>3. \A k \in 1..Len(out) : d[k] = out[k]
  <2> TAKE k \in 1..Len(out)
  <2>1. k \in 1 .. Len(out) + Len(c) /\ k <= Len(out) BY <1>2
  <2> QED BY <1>1, <2>1
<1>4. \A k \in 1..Len(c) : d[Len(out) + k] = c[k]
  <2> TAKE k \in 1..Len(c)
  <2>1. /\ Len(out) + k \in 1 .. Len(out) + Len(c) /\ ~(Len(out) + k <= Len(out))
        /\ (Len(out) + k) - Len(out) = k
    BY <1>2
  <2>2. d[Len(out) + k] = c[(Len(out) + k) - Len(out)] BY <1>1, <2>1
  <2> QED BY <2>1, <2>2
<1>5. Behinds(d, out, c) BY <1>1, <1>3, <1>4 DEF Behinds
<1> QED BY <1>5 DEF d

\* Where a file is shown does not change when another is shown behind it.
LEMMA WhereStays ==
  ASSUME NEW out, NEW c, NEW out2, Behinds(out2, out, c), NEW f, OfFile(c, f), NEW g, g # f
  PROVE  Where(out2, g) = Where(out, g)
<1>1. /\ Len(out) \in Nat /\ Len(c) \in Nat /\ Len(out2) = Len(out) + Len(c)
      /\ \A k \in 1..Len(out) : out2[k] = out[k]
      /\ \A k \in 1..Len(c) : out2[Len(out) + k] = c[k]
  BY DEF Behinds
<1>2. \A i \in 1..Len(c) : c[i].file = f BY DEF OfFile
<1>3. ASSUME NEW k \in 1..Len(out2), out2[k].file = g PROVE k \in 1..Len(out)
  <2>1. CASE k > Len(out)
    <3>1. k - Len(out) \in 1..Len(c) /\ Len(out) + (k - Len(out)) = k BY <1>1, <2>1
    <3>2. out2[Len(out) + (k - Len(out))] = c[k - Len(out)] BY <1>1, <3>1
    <3>3. out2[k].file = f BY <1>2, <3>1, <3>2
    <3> QED BY <1>3, <3>3
  <2>2. CASE ~(k > Len(out)) BY <1>1, <2>2
  <2> QED BY <2>1, <2>2
<1>4. \A k \in 1..Len(out) : k \in 1..Len(out2) BY <1>1
<1> QED BY <1>1, <1>3, <1>4 DEF Where

\* A file shown in one place still is when another is shown behind it.
LEMMA StretchStays ==
  ASSUME NEW out, NEW c, NEW out2, Behinds(out2, out, c), NEW f, OfFile(c, f), NEW g, g # f,
         NEW B, NEW whole, NEW whole2 \in BOOLEAN, whole2 => whole, Stretch(out, g, B, whole)
  PROVE  Stretch(out2, g, B, whole2)
<1>1. PICK i \in 1..Len(out), j \in 1..Len(out), p \in Seq(ShownLines) :
        /\ Where(out, g) = i..j /\ Cut(p, out, i, j)
        /\ StartsWith(B, p, ShownLines) /\ (whole => p = B)
  BY DEF Stretch
<1>2. /\ Len(out) \in Nat /\ Len(c) \in Nat /\ Len(out2) = Len(out) + Len(c)
      /\ \A k \in 1..Len(out) : out2[k] = out[k]
  BY DEF Behinds
<1>3. Where(out2, g) = i..j BY <1>1, WhereStays
<1>4. i \in 1..Len(out2) /\ j \in 1..Len(out2) BY <1>2
<1>5. Cut(p, out2, i, j)
  <2>1. /\ p \in Seq(ShownLines) /\ Len(p) = j - i + 1
        /\ \A k \in 1..(j - i + 1) : p[k] = out[i + k - 1]
    BY <1>1 DEF Cut
  <2>2. ASSUME NEW k \in 1..(j - i + 1) PROVE p[k] = out2[i + k - 1]
    <3>1. i + k - 1 \in 1..Len(out) BY <1>2
    <3> QED BY <1>2, <2>1, <3>1
  <2> QED BY <2>1, <2>2 DEF Cut
<1>6. StartsWith(B, p, ShownLines) /\ (whole2 => p = B) BY <1>1
<1> QED BY <1>3, <1>4, <1>5, <1>6 DEF Stretch

\* A file that was not shown is shown in one place behind the rest.
LEMMA StretchBegins ==
  ASSUME NEW out, NEW c, NEW out2, Behinds(out2, out, c), NEW f, OfFile(c, f),
         Where(out, f) = {}, Where(out2, f) # {},
         NEW B, NEW whole, StartsWith(B, c, ShownLines), whole => c = B
  PROVE  Stretch(out2, f, B, whole)
<1>1. /\ Len(out) \in Nat /\ Len(c) \in Nat /\ Len(out2) = Len(out) + Len(c)
      /\ \A k \in 1..Len(out) : out2[k] = out[k]
      /\ \A k \in 1..Len(c) : out2[Len(out) + k] = c[k]
      /\ c \in Seq(ShownLines)
  BY DEF Behinds
<1>2. \A i \in 1..Len(c) : c[i].file = f BY DEF OfFile
<1> DEFINE i == Len(out) + 1
           j == Len(out) + Len(c)
<1>3. Where(out2, f) = i..j
  <2>1. ASSUME NEW k \in Where(out2, f) PROVE k \in i..j
    <3>1. k \in 1..Len(out2) /\ out2[k].file = f BY DEF Where
    <3>2. k \notin 1..Len(out) BY <1>1, <3>1 DEF Where
    <3> QED BY <1>1, <3>1, <3>2
  <2>2. ASSUME NEW k \in i..j PROVE k \in Where(out2, f)
    <3>1. k - Len(out) \in 1..Len(c) /\ Len(out) + (k - Len(out)) = k /\ k \in 1..Len(out2) BY <1>1
    <3>2. out2[Len(out) + (k - Len(out))] = c[k - Len(out)] BY <1>1, <3>1
    <3>3. out2[k].file = f BY <1>2, <3>1, <3>2
    <3> QED BY <3>1, <3>3 DEF Where
  <2> HIDE DEF i, j
  <2> QED BY <2>1, <2>2
<1>4. PICK m \in i..j : TRUE BY <1>3
<1>5. i \in 1..Len(out2) /\ j \in 1..Len(out2) BY <1>1, <1>4
<1>6. Cut(c, out2, i, j)
  <2>1. j - i + 1 = Len(c) BY <1>1
  <2>2. ASSUME NEW k \in 1..(j - i + 1) PROVE c[k] = out2[i + k - 1]
    <3>1. k \in 1..Len(c) /\ i + k - 1 = Len(out) + k BY <1>1
    <3> QED BY <1>1, <3>1
  <2> HIDE DEF i, j
  <2> QED BY <1>1, <2>1, <2>2 DEF Cut
<1> HIDE DEF i, j
<1> QED BY <1>1, <1>3, <1>5, <1>6 DEF Stretch

\* What a listing shows of the files searched so far.
BlocksIn(d, f, pattern, ci) == BlocksOf(f, HitLinesOf(d[f].lines, pattern, ci), Len(d[f].lines))
SinkShows(sink, todo, d, pattern, ci) ==
  \A f : Where(sink.out, f) # {} =>
    f \in Paths /\ f \notin todo /\ Stretch(sink.out, f, BlocksIn(d, f, pattern, ci), ~sink.truncated)

\* An empty listing shows nothing, and a file less to visit changes nothing.
LEMMA SinkShowsLess ==
  /\ \A todo, d, pattern, ci : SinkShows(EmptySink, todo, d, pattern, ci)
  /\ \A sink, todo, todo2, d, pattern, ci :
       SinkShows(sink, todo, d, pattern, ci) /\ todo2 \subseteq todo
         => SinkShows(sink, todo2, d, pattern, ci)
<1>1. EmptySink.out = <<>> BY DEF EmptySink
<1>2. \A f : Where(EmptySink.out, f) = {} BY <1>1 DEF Where
<1>3. \A todo, d, pattern, ci : SinkShows(EmptySink, todo, d, pattern, ci) BY <1>2 DEF SinkShows
<1>4. \A sink, todo, todo2, d, pattern, ci :
       SinkShows(sink, todo, d, pattern, ci) /\ todo2 \subseteq todo
         => SinkShows(sink, todo2, d, pattern, ci)
  BY DEF SinkShows
<1> QED BY <1>3, <1>4

\* One file more keeps what the listing shows.
LEMMA SinkShowsMore ==
  ASSUME NEW sink0 \in Sinks, ~sink0.truncated, NEW sink \in Sinks,
         NEW todo, NEW todo2, NEW f \in Paths, f \in todo, todo2 \subseteq todo \ {f},
         NEW d, NEW pattern, NEW ci, SinkShows(sink0, todo, d, pattern, ci),
         AddsBlocks(sink, sink0, f, BlocksIn(d, f, pattern, ci))
  PROVE  SinkShows(sink, todo2, d, pattern, ci)
<1> DEFINE B(g) == BlocksIn(d, g, pattern, ci)
           b == BlocksIn(d, f, pattern, ci)
<1>0. AddsBlocks(sink, sink0, f, b) OBVIOUS
<1> HIDE DEF b
<1>1. PICK c : /\ sink.out = sink0.out \o c /\ OfFile(c, f) /\ StartsWith(b, c, ShownLines)
               /\ ~sink.truncated => c = b
  BY <1>0 DEF AddsBlocks
<1>2. /\ \A g : Where(sink0.out, g) # {} =>
               g \in Paths /\ g \notin todo /\ Stretch(sink0.out, g, B(g), ~sink0.truncated)
  BY DEF SinkShows
<1> HIDE DEF B
<1> DEFINE out == sink0.out
           out2 == sink.out
<1>3. Behinds(out2, out, c)
  <2>1. out \in Seq(ShownLines) BY DEF Sinks
  <2>2. c \in Seq(ShownLines) BY <1>1 DEF OfFile
  <2>3. out2 = out \o c BY <1>1
  <2> HIDE DEF out, out2
  <2>4. Behinds(out \o c, out, c) BY <2>1, <2>2, BehindsIs
  <2> QED BY <2>3, <2>4
<1>4. ~sink0.truncated /\ (~sink.truncated) \in BOOLEAN OBVIOUS
<1> HIDE DEF out, out2
<1>5. ASSUME NEW g, Where(out2, g) # {}
      PROVE  g \in Paths /\ g \notin todo2 /\ Stretch(out2, g, B(g), ~sink.truncated)
  <2>1. CASE g = f
    <3>1. Where(out, f) = {} BY <1>2 DEF out
    <3>2. (~sink.truncated) => c = b BY <1>1
    <3>3. Where(out2, f) # {} BY <1>5, <2>1
    <3> DEFINE whole == ~sink.truncated
    <3> HIDE DEF whole
    <3>4. whole => c = b BY <3>2 DEF whole
    <3>5. Stretch(out2, f, b, whole) BY <1>1, <1>3, <3>1, <3>3, <3>4, StretchBegins
    <3>6. f \notin todo2 OBVIOUS
    <3> QED BY <2>1, <3>5, <3>6 DEF whole, b, B
  <2>2. CASE g # f
    <3>1. Where(out, g) # {} BY <1>1, <1>3, <1>5, <2>2, WhereStays
    <3>2. g \in Paths /\ g \notin todo /\ Stretch(out, g, B(g), ~sink0.truncated)
      BY <1>2, <3>1 DEF out
    <3> DEFINE whole == ~sink.truncated
               was == ~sink0.truncated
    <3>3. whole \in BOOLEAN /\ (whole => was) /\ Stretch(out, g, B(g), was) BY <3>2
    <3> HIDE DEF whole, was
    <3>4. Stretch(out2, g, B(g), whole) BY <1>1, <1>3, <2>2, <3>3, StretchStays
    <3> QED BY <3>2, <3>4 DEF whole
  <2> QED BY <2>1, <2>2
<1> QED BY <1>5 DEF SinkShows, out2, B

\* What a listing shows of the files it names, while a search is under way and
\* when it has answered.
WindowInv ==
  /\ search.pass \in {"exact", "ci"} =>
       SinkShows(search.sink, search.todo, disk, search.pattern, search.pass = "ci")
  /\ found.tag \in {"exact", "ci"} =>
       found.sink \in Sinks /\ SinkShows(found.sink, {}, disk, found.pattern, found.tag = "ci")

\* How a visit changes the search: its file is left out, looked at for pieces,
\* or searched.
VisitLeaves(s, t, f, d) ==
  /\ t.pass = s.pass /\ t.pattern = s.pattern
  /\ t.todo \subseteq s.todo \ {f}
  /\ \/ t.sink = s.sink
     \/ s.pass = "pieces"
     \/ t.sink = grep_scan(s.sink, s.pattern, f, d[f].lines, s.pass = "ci")
\* Visit changes the search so.
LEMMA VisitIs ==
  ASSUME SearchInv, Visit
  PROVE  \E f \in search.todo : VisitLeaves(search, search', f, disk)
<1>2. PICK f \in search.todo, listed \in BOOLEAN :
        LET s == IF listed /\ Searchable(f) THEN Scanned(search, f) ELSE search
        IN  search' = [s EXCEPT !.todo = IF s.sink.truncated THEN {} ELSE @ \ {f}]
  BY DEF Visit
<1>3. search \in SearchTypes BY DEF SearchInv, SearchTypeOK
<1>4. search = [pass |-> search.pass, pattern |-> search.pattern, root |-> search.root,
                todo |-> search.todo, sink |-> search.sink, pre |-> search.pre, suf |-> search.suf]
  BY <1>3 DEF SearchTypes
<1> DEFINE s == IF listed /\ Searchable(f) THEN Scanned(search, f) ELSE search
           r == IF s.sink.truncated THEN {} ELSE s.todo \ {f}
           sink == grep_scan(search.sink, search.pattern, f, disk[f].lines, search.pass = "ci")
           pre == frag_count(search.pre, frag_longest(Content(disk[f]), search.pattern, "prefix"), f)
           suf == frag_count(search.suf, frag_longest(Content(disk[f]), search.pattern, "suffix"), f)
<1>5. \/ s = search
      \/ search.pass = "pieces" /\ s = [search EXCEPT !.pre = pre, !.suf = suf]
      \/ search.pass # "pieces" /\ s = [search EXCEPT !.sink = sink]
  BY DEF Scanned
<1>6. search' = [s EXCEPT !.todo = r] BY <1>2
<1>7. r \subseteq s.todo \ {f} OBVIOUS
<1> HIDE DEF r, s, sink, pre, suf
<1>8. /\ s = [pass |-> s.pass, pattern |-> s.pattern, root |-> s.root,
               todo |-> s.todo, sink |-> s.sink, pre |-> s.pre, suf |-> s.suf]
      /\ s.pass = search.pass /\ s.pattern = search.pattern /\ s.todo = search.todo
      /\ s.sink = search.sink \/ search.pass = "pieces" \/ s.sink = sink
  <2>1. CASE s = search BY <1>4, <2>1
  <2>2. CASE search.pass = "pieces" /\ s = [search EXCEPT !.pre = pre, !.suf = suf] BY <1>4, <2>2
  <2>3. CASE search.pass # "pieces" /\ s = [search EXCEPT !.sink = sink] BY <1>4, <2>3
  <2> QED BY <1>5, <2>1, <2>2, <2>3
<1>9. search' = [pass |-> s.pass, pattern |-> s.pattern, root |-> s.root,
                 todo |-> r, sink |-> s.sink, pre |-> s.pre, suf |-> s.suf]
  BY <1>6, <1>8
<1>10. search'.pass = s.pass /\ search'.pattern = s.pattern /\ search'.todo = r /\ search'.sink = s.sink
  BY <1>9
<1>11. VisitLeaves(search, search', f, disk) BY <1>7, <1>8, <1>10 DEF VisitLeaves, sink
<1> QED BY <1>11

\* A file visited adds what is to be shown of it.
LEMMA VisitKeepsWindow ==
  ASSUME ReadInv, SearchInv, SearchInv', WindowInv, Visit PROVE WindowInv'
<1>0. UNCHANGED <<disk, found>> BY DEF Visit
<1>1. PICK f \in search.todo : VisitLeaves(search, search', f, disk) BY VisitIs
<1>2. /\ search \in SearchTypes /\ search' \in SearchTypes /\ disk \in Disks
      /\ Progress(disk, tracked, search) /\ f \in Paths
  BY DEF SearchInv, Visit, SearchTypeOK, SearchTypes, ReadInv, ReadTypeOK, Disks
<1>3. /\ search'.pass = search.pass /\ search'.pattern = search.pattern
      /\ search'.todo \subseteq search.todo \ {f}
      /\ \/ search'.sink = search.sink
         \/ search.pass = "pieces"
         \/ search'.sink = grep_scan(search.sink, search.pattern, f, disk[f].lines, search.pass = "ci")
  BY <1>1 DEF VisitLeaves
<1>4. search.sink \in Sinks /\ search'.sink \in Sinks /\ search.todo \subseteq Paths
  BY <1>2 DEF SearchTypes
<1>5. ASSUME search.pass \in {"exact", "ci"}
      PROVE  SinkShows(search'.sink, search'.todo, disk, search.pattern, search.pass = "ci")
  <2> DEFINE ci == search.pass = "ci"
  <2>1. ci \in BOOLEAN OBVIOUS
  <2>2. SinkShows(search.sink, search.todo, disk, search.pattern, ci) BY <1>5 DEF WindowInv
  <2> HIDE DEF ci
  <2>3. CASE search'.sink = search.sink
    <3>1. search'.todo \subseteq search.todo BY <1>3
    <3>2. SinkShows(search.sink, search'.todo, disk, search.pattern, ci)
      BY <2>2, <3>1, SinkShowsLess
    <3> QED BY <2>3, <3>2 DEF ci
  <2>4. CASE search'.sink = grep_scan(search.sink, search.pattern, f, disk[f].lines, ci)
    <3> DEFINE lines == disk[f].lines
    <3>1. Len(lines) \in Nat
      <4>1. lines \in Seq(Texts) BY <1>2 DEF Disks, Entries
      <4> QED BY <4>1
    <3>2. Free(search.sink, f) /\ ~search.sink.truncated BY <1>2, <1>4 DEF Free, Progress
    <3> HIDE DEF lines
    <3>3. AddsBlocks(grep_scan(search.sink, search.pattern, f, lines, ci), search.sink, f,
                     BlocksOf(f, HitLinesOf(lines, search.pattern, ci), Len(lines)))
      BY <1>2, <2>1, <3>1, <3>2, ScanIsBlocks
    <3>4. AddsBlocks(search'.sink, search.sink, f, BlocksIn(disk, f, search.pattern, ci))
      BY <2>4, <3>3 DEF BlocksIn, lines
    <3> DEFINE todo2 == search'.todo
    <3>5. todo2 \subseteq search.todo \ {f} BY <1>3
    <3> HIDE DEF todo2
    <3>6. SinkShows(search'.sink, todo2, disk, search.pattern, ci)
      BY <1>2, <1>4, <2>2, <3>2, <3>4, <3>5, SinkShowsMore
    <3> QED BY <3>6 DEF todo2, ci
  <2> QED BY <1>3, <1>5, <2>3, <2>4 DEF ci
<1>6. found.tag = "none" BY DEF SearchInv, Visit
<1> QED BY <1>0, <1>3, <1>5, <1>6 DEF WindowInv

\* A call begins with an empty listing, and answers with none.
LEMMA GrepKeepsWindow ==
  ASSUME SearchInv, tool_grep PROVE WindowInv'
<1>1. PICK pattern \in asks.patterns, root \in asks.roots :
        LET s == [NoSearch EXCEPT !.pattern = pattern, !.root = root]
        IN  \/ \E tag \in {"error: empty", "error: missing"} : Answer(s, tag)
            \/ Begin(s, "exact") /\ found' = Found("none", NoSearch)
  BY DEF tool_grep
<1> DEFINE s == [NoSearch EXCEPT !.pattern = pattern, !.root = root]
<1> HIDE DEF s
<1>2. CASE \E tag \in {"error: empty", "error: missing"} : Answer(s, tag)
  <2>1. PICK tag \in {"error: empty", "error: missing"} : found' = Found(tag, s) /\ search' = NoSearch
    BY <1>2 DEF Answer
  <2>2. found'.tag = tag /\ tag \notin {"exact", "ci"} BY <2>1, FoundIs
  <2> QED BY <2>1, <2>2, NoSearchIs DEF WindowInv
<1>3. CASE Begin(s, "exact") /\ found' = Found("none", NoSearch)
  <2>1. search'.sink = EmptySink
    <3>1. search' = [s EXCEPT !.pass = "exact", !.todo = Walk(s.root), !.sink = EmptySink]
      BY <1>3 DEF Begin
    <3> DEFINE o == NoSearch
    <3>4. o = [pass |-> o.pass, pattern |-> o.pattern, root |-> o.root, todo |-> o.todo,
               sink |-> o.sink, pre |-> o.pre, suf |-> o.suf]
      BY NoSearchIs DEF SearchTypes
    <3>5. s = [o EXCEPT !.pattern = pattern, !.root = root] BY DEF s
    <3> HIDE DEF o
    <3>2. s = [pass |-> o.pass, pattern |-> pattern, root |-> root, todo |-> o.todo,
               sink |-> o.sink, pre |-> o.pre, suf |-> o.suf]
      BY <3>4, <3>5
    <3> DEFINE w == Walk(s.root)
    <3> HIDE DEF w
    <3>3. search' = [s EXCEPT !.pass = "exact", !.todo = w, !.sink = EmptySink] BY <3>1 DEF w
    <3> QED BY <3>2, <3>3
  <2>2. found'.tag = "none" BY <1>3, FoundIs
  <2> QED BY <2>1, <2>2, SinkShowsLess DEF WindowInv
<1> QED BY <1>1, <1>2, <1>3 DEF s

\* The answer shows what the pass did, and another pass begins anew.
LEMMA EndKeepsWindow ==
  ASSUME SearchInv, WindowInv, PassEnds PROVE WindowInv'
<1>0. UNCHANGED disk /\ search.todo = {} /\ found.tag = "none" BY DEF PassEnds, SearchInv
<1>1. \/ \E tag \in {search.pass, "miss"} : Answer(search, tag)
      \/ \E pass \in {"ci", "pieces"} : Begin(search, pass) /\ UNCHANGED found
  BY DEF PassEnds
<1>2. ASSUME NEW tag \in {search.pass, "miss"}, Answer(search, tag) PROVE WindowInv'
  <2>1. found' = Found(tag, search) /\ search' = NoSearch BY <1>2 DEF Answer
  <2>2. found'.tag = tag /\ found'.sink = search.sink /\ found'.pattern = search.pattern
    BY <2>1, FoundIs
  <2>3. ASSUME tag \in {"exact", "ci"}
        PROVE  search.sink \in Sinks /\ SinkShows(search.sink, {}, disk, search.pattern, tag = "ci")
    <3>1. tag = search.pass BY <1>2, <2>3
    <3>2. SinkShows(search.sink, search.todo, disk, search.pattern, search.pass = "ci")
      BY <2>3, <3>1 DEF WindowInv
    <3>3. search.sink \in Sinks BY DEF SearchInv, SearchTypeOK, SearchTypes
    <3> QED BY <1>0, <3>1, <3>2, <3>3
  <2> QED BY <1>0, <2>1, <2>2, <2>3, NoSearchIs DEF WindowInv
<1>3. ASSUME NEW pass \in {"ci", "pieces"}, Begin(search, pass), UNCHANGED found PROVE WindowInv'
  <2>1. search'.sink = EmptySink
    <3> DEFINE w == Walk(search.root)
    <3>1. search' = [search EXCEPT !.pass = pass, !.todo = w, !.sink = EmptySink]
      BY <1>3 DEF Begin
    <3> HIDE DEF w
    <3>2. search \in SearchTypes BY DEF SearchInv, SearchTypeOK
    <3>3. search = [pass |-> search.pass, pattern |-> search.pattern, root |-> search.root,
                    todo |-> search.todo, sink |-> search.sink, pre |-> search.pre, suf |-> search.suf]
      BY <3>2 DEF SearchTypes
    <3> QED BY <3>1, <3>3
  <2> QED BY <1>0, <1>3, <2>1, SinkShowsLess DEF WindowInv
<1> QED BY <1>1, <1>2, <1>3

\* Every step keeps what a listing shows.
LEMMA NextWindow ==
  ASSUME ReadInv, SearchInv, SearchInv', WindowInv, [Next]_vars PROVE WindowInv'
<1>1. CASE tool_grep BY <1>1, GrepKeepsWindow
<1>2. CASE Visit BY <1>2, VisitKeepsWindow
<1>3. CASE PassEnds BY <1>3, EndKeepsWindow
<1>4. CASE UNCHANGED <<disk, search, found>> BY <1>4 DEF WindowInv
<1>5. CASE Change
  <2>1. search' = search /\ search.pass = "idle" /\ found' = Found("none", NoSearch)
    BY <1>5 DEF Change, Idle
  <2>2. found'.tag = "none" BY <2>1, FoundIs
  <2> QED BY <2>1, <2>2 DEF WindowInv
<1>6. serve_read_page => UNCHANGED <<disk, search, found>> BY DEF serve_read_page
<1>7. UNCHANGED vars => UNCHANGED <<disk, search, found>> BY DEF vars
<1> QED BY <1>1, <1>2, <1>3, <1>4, <1>5, <1>6, <1>7 DEF Next

\* A part of a sequence that another starts with is a prefix of it.
LEMMA StartIsPrefix ==
  ASSUME NEW S, NEW t, NEW a \in Seq(S), StartsWith(t, a, S)
  PROVE  IsPrefix(a, t)
<1>1. PICK r \in Seq(S) : t = a \o r BY DEF StartsWith
<1>2. /\ t \in Seq(S) /\ Len(t) = Len(a) + Len(r)
      /\ \A i \in 1 .. Len(a) + Len(r) : t[i] = IF i <= Len(a) THEN a[i] ELSE r[i - Len(a)]
  <2> DEFINE c == a \o r
  <2>1. /\ c \in Seq(S) /\ Len(c) = Len(a) + Len(r)
        /\ \A i \in 1 .. Len(a) + Len(r) : c[i] = IF i <= Len(a) THEN a[i] ELSE r[i - Len(a)]
    BY ConcatProperties, Zenon
  <2> HIDE DEF c
  <2>2. t = c BY <1>1 DEF c
  <2> QED BY <2>1, <2>2
<1>3. Len(a) \in Nat /\ Len(r) \in Nat OBVIOUS
<1>4. \A i \in 1..Len(a) : t[i] = a[i] /\ a[i] \in S
  <2> TAKE i \in 1..Len(a)
  <2>1. i \in 1 .. Len(a) + Len(r) /\ i <= Len(a) BY <1>3
  <2> QED BY <1>2, <2>1
<1> DEFINE n == Len(a)
           x == SubSeq(a, 1, n)
           y == SubSeq(t, 1, n)
<1>5. x \in Seq(S) /\ Len(x) = n /\ \A i \in 1..n : x[i] = a[i]
  <2>1. \A i \in 1..n : a[i] \in S BY <1>4
  <2> QED BY <1>3, <2>1, SubSeqProperties
<1>6. y \in Seq(S) /\ Len(y) = n /\ \A i \in 1..n : y[i] = t[i]
  <2>1. \A i \in 1..n : t[i] \in S BY <1>4
  <2> QED BY <1>3, <2>1, SubSeqProperties
<1>7. x = y
  <2> HIDE DEF x, y, n
  <2>1. n \in Nat /\ \A i \in 1..n : x[i] = y[i] BY <1>3, <1>4, <1>5, <1>6 DEF n
  <2> QED BY <1>5, <1>6, <2>1, SeqEqual
<1>8. Len(a) <= Len(t) BY <1>2, <1>3
<1> QED BY <1>7, <1>8 DEF IsPrefix

\* The part between two places is what the definition of SubSeq takes.
LEMMA CutIs ==
  ASSUME NEW p, NEW out \in Seq(ShownLines), NEW i \in 1..Len(out), NEW j \in 1..Len(out),
         i <= j, Cut(p, out, i, j)
  PROVE  SubSeq(out, i, j) = p
<1>1. /\ p \in Seq(ShownLines) /\ Len(p) = j - i + 1
      /\ \A k \in 1..(j - i + 1) : p[k] = out[i + k - 1]
  BY DEF Cut
<1>2. \A k \in i..j : out[k] \in ShownLines OBVIOUS
<1> DEFINE x == SubSeq(out, i, j)
           n == j - i + 1
<1>3. x \in Seq(ShownLines) /\ Len(x) = n /\ \A k \in 1..n : x[k] = out[i + k - 1]
  BY <1>2, SubSeqProperties
<1> HIDE DEF x
<1>4. n \in Nat /\ \A k \in 1..n : x[k] = p[k] BY <1>1, <1>3
<1> HIDE DEF n
<1>5. x = p BY <1>1, <1>3, <1>4, SeqEqual DEF n
<1> QED BY <1>5 DEF x

\* Of every file a search shows in one place each hit and the lines within
\* CONTEXT of one, or a first part of that where the cap cut the listing
\* (grep_scan).
THEOREM ContextsAreWindows == Spec => []ContextIsWindow
<1>1. Init => WindowInv
  <2> SUFFICES ASSUME Init PROVE WindowInv OBVIOUS
  <2>1. search = NoSearch /\ found = Found("none", NoSearch) BY DEF Init
  <2>2. found.tag = "none" BY <2>1, FoundIs
  <2> QED BY <2>1, <2>2, NoSearchIs DEF WindowInv
<1>2. ReadInv /\ SearchInv /\ SearchInv' /\ WindowInv /\ [Next]_vars => WindowInv' BY NextWindow
<1>3. WindowInv => ContextIsWindow
  <2> SUFFICES ASSUME WindowInv, found.tag \in {"exact", "ci"}, NEW e \in ToSet(found.sink.out)
               PROVE  \E i, j \in PlacesOf(e.file) :
                        /\ PlacesOf(e.file) = i..j
                        /\ IsPrefix(SubSeq(found.sink.out, i, j), Blocks(e.file))
                        /\ ~found.sink.truncated => SubSeq(found.sink.out, i, j) = Blocks(e.file)
    BY DEF ContextIsWindow
  <2> DEFINE f == e.file
             out == found.sink.out
             B == BlocksIn(disk, f, found.pattern, found.tag = "ci")
  <2>0. out \in Seq(ShownLines) BY DEF WindowInv, Sinks
  <2>1. PICK k \in 1..Len(out) : out[k] = e
    <3> HIDE DEF out
    <3>1. e \in ToSet(out) BY DEF out
    <3>2. DOMAIN out = 1..Len(out) BY <2>0
    <3> QED BY <3>1, <3>2 DEF ToSet
  <2>2. Where(out, f) # {} /\ PlacesOf(f) = Where(out, f)
    <3>1. PlacesOf(f) = Where(out, f) BY DEF Where, PlacesOf
    <3>2. k \in Where(out, f) BY <2>1 DEF Where
    <3> QED BY <3>1, <3>2
  <2>3. Stretch(out, f, B, ~found.sink.truncated) BY <2>2 DEF WindowInv, SinkShows
  <2>4. Blocks(f) = B
    <3> DEFINE H == HitLinesOf(disk[f].lines, found.pattern, found.tag = "ci")
               N == Len(disk[f].lines)
               X == NearTo(H, N)
               blocks == [n \in 1..N |-> PartOf(f, H, X, n)]
    <3>1. HitLines(f) = H
      <4>1. CASE found.tag = "exact" BY <4>1 DEF HitLines, HitLinesOf, line_has
      <4>2. CASE found.tag = "ci" BY <4>2 DEF HitLines, HitLinesOf, line_has
      <4> QED BY <4>1, <4>2
    <3>2. B = FlattenSeq(blocks) BY DEF BlocksIn, BlocksOf
    <3> HIDE DEF H
    <3>3. Near(f) = X BY <3>1 DEF Near, NearTo
    <3> HIDE DEF X, N
    <3>4. Blocks(f) = FlattenSeq([n \in 1..N |->
            IF n \notin X THEN <<>>
            ELSE (IF n - 1 \notin X /\ \E m \in X : m < n THEN <<Gap(f)>> ELSE <<>>)
                 \o <<Shown(f, n, IF n \in H THEN ":" ELSE "-")>>])
      BY <3>1, <3>3, Zenon DEF Blocks, N
    <3>5. Blocks(f) = FlattenSeq(blocks) BY <3>4, Zenon DEF PartOf, GapAt, LineAt
    <3> QED BY <3>2, <3>5
  <2> DEFINE whole == ~found.sink.truncated
  <2>5. Stretch(out, f, B, whole) BY <2>3
  <2> HIDE DEF f, out, B, whole
  <2>6. PICK i \in 1..Len(out), j \in 1..Len(out), p \in Seq(ShownLines) :
          /\ Where(out, f) = i..j /\ Cut(p, out, i, j)
          /\ StartsWith(B, p, ShownLines) /\ (whole => p = B)
    BY <2>5 DEF Stretch
  <2>7. i <= j /\ i \in Where(out, f) /\ j \in Where(out, f) BY <2>2, <2>6
  <2>8. SubSeq(out, i, j) = p BY <2>0, <2>6, <2>7, CutIs
  <2>9. IsPrefix(p, B) BY <2>6, StartIsPrefix
  <2>10. /\ i \in PlacesOf(f) /\ j \in PlacesOf(f) /\ PlacesOf(f) = i..j
         /\ IsPrefix(SubSeq(out, i, j), Blocks(f))
         /\ whole => SubSeq(out, i, j) = Blocks(f)
    BY <2>2, <2>4, <2>6, <2>7, <2>8, <2>9
  <2> QED BY <2>10 DEF f, out, whole
<1> QED BY <1>1, <1>2, <1>3, CursorCounts, SearchesCover, PTL DEF Spec
=============================================================================
