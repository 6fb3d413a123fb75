-------------------------------- MODULE Text --------------------------------
(***************************************************************************)
(* Text as the edit tool sees it: a file or an argument is a sequence of   *)
(* one-character strings.  The C functions of tools_c.h walk a             *)
(* NUL-terminated buffer; here an occurrence is its position, a line is    *)
(* the pair of its first and last positions (last = first - 1 when it is   *)
(* empty), and a function that rewrites text drops or replaces positions.  *)
(*                                                                         *)
(* occurs, Window and unique_window are the agent's side of an edit        *)
(* (bendcoder_agent.bend), written over the same occurrences.              *)
(***************************************************************************)
EXTENDS Integers, Sequences, FiniteSets
LOCAL INSTANCE SequencesExt

Newline == "\n"
Tab     == "\t"
Blanks  == {" ", Tab}
Digits  == {"0", "1", "2", "3", "4", "5", "6", "7", "8", "9"}

LOCAL Least(S)    == CHOOSE x \in S : \A y \in S : x <= y
LOCAL Greatest(S) == CHOOSE x \in S : \A y \in S : y <= x

-----------------------------------------------------------------------------
(* Occurrences.                                                            *)

\* t stands in s at position i.
At(s, t, i) == /\ i + Len(t) - 1 <= Len(s)
               /\ SubSeq(s, i, i + Len(t) - 1) = t

\* Every position at which t stands in s, overlapping ones included.
Places(s, t) == {i \in 1..Len(s) : At(s, t, i)}

\* The occurrences a left-to-right scan counts: after one, it goes on
\* behind it, so two counted occurrences never overlap.
Hits(s, t) ==
  LET scan[i \in 1..(Len(s) + Len(t))] ==
        IF i > Len(s) THEN {}
        ELSE IF At(s, t, i) THEN {i} \union scan[i + Len(t)]
        ELSE scan[i + 1]
  IN  IF s = <<>> \/ t = <<>> THEN {} ELSE scan[1]

count_matches(s, t) == Cardinality(Hits(s, t))

replaceFirst(s, t, r, all) ==
  LET h == Least(Hits(s, t))
  IN  SubSeq(s, 1, h - 1) \o r \o SubSeq(s, h + Len(t), Len(s))

\* s with the text r in the place of the first hit of t, or of every hit.
replace(s, t, r, all) ==
  LET hits  == IF all THEN Hits(s, t) ELSE {Least(Hits(s, t))}
      eaten == UNION {h..(h + Len(t) - 1) : h \in hits}
  IN  FlattenSeq([i \in 1..Len(s) |-> IF i \in hits THEN r
                                      ELSE IF i \in eaten THEN <<>>
                                      ELSE <<s[i]>>])

-----------------------------------------------------------------------------
(* Lines.                                                                  *)

Ends(s) == {i \in 1..Len(s) : s[i] = Newline}

Lines(s) ==
  LET cuts == {0, Len(s) + 1} \union Ends(s)
  IN  {<<c[1] + 1, c[2] - 1>> : c \in
         {c \in cuts \X cuts : c[1] < c[2] /\ (c[1] + 1)..(c[2] - 1) \cap cuts = {}}}

\* How many characters of C stand in a row from position i of line l.
Run(s, l, C, i) == Greatest({k \in 0..(l[2] - i + 1) :
                               \A j \in i..(i + k - 1) : s[j] \in C})

\* s without the first width[l] characters of each line l.
Trimmed(s, width) ==
  LET gone == UNION {l[1]..(l[1] + width[l] - 1) : l \in Lines(s)}
  IN  FlattenSeq([i \in 1..Len(s) |-> IF i \in gone THEN <<>> ELSE <<s[i]>>])

PrefixWidthKeepingTab(s, l) == Run(s, l, Digits, l[1])

\* The number Read puts before a line with its tab or colon, or the tab left
\* behind when only the number was dropped.
PrefixWidth(s, l) ==
  LET d == Run(s, l, Digits, l[1])
      i == l[1] + d
  IN  IF d > 0 /\ i <= l[2] /\ s[i] \in {Tab, ":"} THEN d + 1
      ELSE IF l[1] <= l[2] /\ s[l[1]] = Tab THEN 1
      ELSE 0

strip_line_prefixes(s) ==
  Trimmed(s, [l \in Lines(s) |-> PrefixWidth(s, l)])

\* The blanks every line that is not blank begins with.
common_indent(s) ==
  LET Indent(l) == Run(s, l, Blanks, l[1])
      bounds    == {Indent(l) : l \in {l \in Lines(s) : l[1] + Indent(l) <= l[2]}}
  IN  IF bounds = {} THEN 0 ELSE Least(bounds)

dedent(s, width) ==
  Trimmed(s, [l \in Lines(s) |-> Least({width, Run(s, l, Blanks, l[1])})])

\* A line that opens with "N<tab>" or "N.N<tab>": a numbered paste.
Numbered(s) ==
  \E l \in Lines(s) :
    LET d == Run(s, l, Digits, l[1])
        i == l[1] + d
        e == IF i < l[2] /\ s[i] = "." THEN Run(s, l, Digits, i + 1) ELSE 0
        j == i + 1 + e
    IN  /\ d > 0
        /\ i <= l[2]
        /\ s[i] = Tab \/ (e > 0 /\ j <= l[2] /\ s[j] = Tab)

-----------------------------------------------------------------------------
(* The agent's window.                                                     *)

\* The walk over `after`: an empty pattern is found again at every step the
\* fuel allows, one more than the text has characters.
occurs(s, t) == IF t = <<>> THEN Len(s) + 1 ELSE Cardinality(Hits(s, t))

LineCount(s) == Cardinality(Ends(s)) + 1

\* The n-th line of s, counted from 1.
NthLine(s, n) ==
  CHOOSE l \in Lines(s) : Cardinality({i \in Ends(s) : i < l[1]}) = n - 1

WindowFromZero(s, line, radius) ==
  LET lo == IF line - radius > 1 THEN line - radius ELSE 1
      hi == IF line + radius < LineCount(s) THEN line + radius ELSE LineCount(s)
      first == IF lo + 1 < hi THEN lo + 1 ELSE hi
  IN  <<NthLine(s, first)[1], NthLine(s, hi)[2]>>

\* The positions of the lines within radius of the given one.
Window(s, line, radius) ==
  LET lo == IF line - radius > 1 THEN line - radius ELSE 1
      hi == IF line + radius < LineCount(s) THEN line + radius ELSE LineCount(s)
  IN  <<NthLine(s, lo)[1], NthLine(s, hi)[2]>>

window_text(s, w) == SubSeq(s, w[1], w[2])

UniqueRadiiAny(s, line) == 0..LineCount(s)

\* The radii at which the window's text occurs once, within the fuel.
UniqueRadii(s, line) ==
  {r \in 0..LineCount(s) : occurs(s, window_text(s, Window(s, line, r))) = 1}

\* The smallest such window.
unique_window(s, line) == Window(s, line, Least(UniqueRadii(s, line)))

\* One trailing newline of a reply is framing.
extract_new_str(reply) ==
  IF reply # <<>> /\ reply[Len(reply)] = Newline
  THEN SubSeq(reply, 1, Len(reply) - 1) ELSE reply
=============================================================================
