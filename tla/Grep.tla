-------------------------------- MODULE Grep --------------------------------
(***************************************************************************)
(* One file under the search tool (tools_c.h): the lines a search shows of *)
(* it, and the pieces of a missed pattern that stand in it.  A file is a   *)
(* sequence of lines, a line a sequence of characters.  What is shown of a *)
(* line is its number and whether it is a hit (":") or context ("-").      *)
(***************************************************************************)
EXTENDS Text
LOCAL INSTANCE SequencesExt

CONSTANTS CONTEXT,        \* lines shown on either side of a hit
          MAX_MATCHES,    \* hits shown in one search
          FRAG_MIN,       \* the shortest piece worth reporting
          FRAG_MAX_NAMES, \* files named for a piece
          FRAG_CLIP       \* characters of a piece that are shown

ASSUME GrepAssumption ==
  /\ CONTEXT \in Nat \ {0} /\ MAX_MATCHES \in Nat \ {0}
  /\ FRAG_MIN \in Nat \ {0} /\ FRAG_MAX_NAMES \in Nat \ {0}
  /\ FRAG_CLIP \in Nat \ {0}

Fold == [c \in {"A", "B", "C", "D"} |->
           CASE c = "A" -> "a" [] c = "B" -> "b" [] c = "C" -> "c" [] OTHER -> "d"]
Lower(s) == [i \in 1..Len(s) |-> IF s[i] \in DOMAIN Fold THEN Fold[s[i]] ELSE s[i]]

\* strstr, or strncasecmp at every byte.
line_hasExact(line, pattern, ci) == Places(line, pattern) # {}
line_has(line, pattern, ci) ==
  IF ci THEN Places(Lower(line), Lower(pattern)) # {} ELSE Places(line, pattern) # {}

-----------------------------------------------------------------------------
(* grep_scan.                                                              *)

Shown(f, n, sep) == [file |-> f, no |-> n, sep |-> sep]
Gap(f) == Shown(f, 0, "--")

EmptySink == [out |-> <<>>, matches |-> 0, truncated |-> FALSE]

\* The ring of lines not shown yet holds the last CONTEXT of them.
RingNextLate(n) == n + 1
RingNext(n) == IF n = CONTEXT THEN n ELSE n + 1

FullLate(matches) == matches > MAX_MATCHES
Full(matches) == matches >= MAX_MATCHES

\* A scan in progress: the sink, how many lines the ring holds, the last line
\* shown and how many lines of context are still owed to the last hit.
Scan(sink) == [sink |-> sink, ring |-> 0, emitted |-> 0, after |-> 0]

Put(scan, entries) == [scan EXCEPT !.sink.out = @ \o entries]

Hit(scan, f, n) ==
  LET from == IF n - scan.ring < scan.emitted + 1 THEN scan.emitted + 1 ELSE n - scan.ring
      gap  == IF scan.emitted > 0 /\ from > scan.emitted + 1 THEN <<Gap(f)>> ELSE <<>>
      lead == [k \in 1..(n - from) |-> Shown(f, from + k - 1, "-")]
      put  == Put(scan, gap \o lead \o <<Shown(f, n, ":")>>)
  IN  [put EXCEPT !.sink.matches = @ + 1, !.ring = 0, !.emitted = n, !.after = CONTEXT]

Line(scan, f, n, hit) ==
  IF scan.sink.truncated THEN scan
  ELSE IF hit /\ Full(scan.sink.matches) THEN [scan EXCEPT !.sink.truncated = TRUE]
  ELSE IF hit THEN Hit(scan, f, n)
  ELSE IF scan.after > 0
       THEN [Put(scan, <<Shown(f, n, "-")>>) EXCEPT !.emitted = n, !.after = @ - 1]
  ELSE [scan EXCEPT !.ring = RingNext(@)]

grep_scan(sink, pattern, f, lines, ci) ==
  LET scan[n \in 0..Len(lines)] ==
        IF n = 0 THEN Scan(sink)
        ELSE Line(scan[n - 1], f, n, line_has(lines[n], pattern, ci))
  IN  scan[Len(lines)].sink

-----------------------------------------------------------------------------
(* The pieces of a pattern that missed.                                    *)

\* Rows with newlines between them.
Joined(rows) ==
  FlattenSeq([n \in 1..Len(rows) |-> IF n = 1 THEN rows[n] ELSE <<Newline>> \o rows[n]])

Piece(pattern, k, edge) ==
  IF edge = "prefix" THEN SubSeq(pattern, 1, k)
  ELSE SubSeq(pattern, Len(pattern) - k + 1, Len(pattern))

\* bendcoder_memmem: an empty needle is always there.
Occurs(text, piece) == piece = <<>> \/ Places(Lower(text), Lower(piece)) # {}

\* The binary search for the longest piece in a file: it lies in lo..hi.
frag_longest(text, pattern, edge) ==
  LET search[range \in (0..Len(pattern)) \X (0..Len(pattern))] ==
        LET lo  == range[1]
            hi  == range[2]
            mid == lo + (hi - lo + 1) \div 2
        IN  IF lo >= hi THEN lo
            ELSE IF Occurs(text, Piece(pattern, mid, edge)) THEN search[<<mid, hi>>]
            ELSE search[<<lo, mid - 1>>]
  IN  search[<<0, Len(pattern) - 1>>]

\* The longest piece so far, how many files hold it, and the first of their
\* names.
NoPiece == [best |-> 0, files |-> 0, names |-> <<>>]

NamesAll(names, f) == Append(names, f)
NamesKept(names, f) == IF Len(names) < FRAG_MAX_NAMES THEN Append(names, f) ELSE names

frag_countCarried(scan, k, f) ==
  IF k = 0 \/ k < scan.best THEN scan
  ELSE [best |-> k, files |-> scan.files + 1, names |-> NamesKept(scan.names, f)]

\* A file counts for the longest piece only, so a longer one starts afresh.
frag_count(scan, k, f) ==
  LET base == IF k > scan.best THEN [NoPiece EXCEPT !.best = k] ELSE scan
  IN  IF k = 0 \/ k < scan.best THEN scan
      ELSE [base EXCEPT !.files = @ + 1, !.names = NamesKept(@, f)]

\* What is shown of a piece, pre_txt and suf_txt.
Clip(piece) == SubSeq(piece, 1, IF Len(piece) < FRAG_CLIP THEN Len(piece) ELSE FRAG_CLIP)

\* What the hint reports: the pieces that are long enough, and one only when
\* both edges' pieces have the same length and show the same.
grep_fragment_hint(pattern, pre, suf) ==
  LET same == /\ pre.best = suf.best
              /\ Clip(Piece(pattern, pre.best, "prefix")) = Clip(Piece(pattern, suf.best, "suffix"))
  IN  {p \in {<<"prefix", pre>>, <<"suffix", suf>>} :
         /\ Len(pattern) > FRAG_MIN
         /\ p[2].best >= FRAG_MIN
         /\ p[1] = "suffix" => ~(same /\ pre.best >= FRAG_MIN)}
=============================================================================
