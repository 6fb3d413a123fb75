------------------------------- MODULE Lookup -------------------------------
(***************************************************************************)
(* How the agent looks at its files: the search tool (tools_c.h: tool_grep *)
(* and what it calls) and a file read page by page (tool_read.bend, and    *)
(* serve_read_page of bendcoder_agent.bend).  A search walks the files     *)
(* below its root up to three times: for the pattern, for the pattern in   *)
(* any case, and for the pieces of the pattern.  Each file visited is a    *)
(* step, in the order the directory happens to have.  The loop waits for   *)
(* the tool, so files change between calls only.                           *)
(***************************************************************************)
EXTENDS Grep
LOCAL INSTANCE SequencesExt

CONSTANTS Paths,   \* what can stand below the working directory
          Hidden,  \* those of them below a name that starts with a dot
          Below,   \* directories a search may start from, and what is below
          Outside, \* those of them given by an absolute path
          Starts,  \* what a run begins with, and what the loop asks in it
          PAGE,    \* lines a read serves
          MaxNext  \* a file is read while its cursor is at most this

\* A regular file has lines, and nl says whether a newline ends the last one.
Kinds == {"none", "file", "big", "binary", "locked", "dir"}
Texts == Seq(STRING)

\* No line holds a newline, and the last one holds something or is ended by one.
Split(e) ==
  /\ \A n \in DOMAIN e.lines : \A i \in DOMAIN e.lines[n] : e.lines[n][i] # Newline
  /\ IF e.lines = <<>> THEN ~e.nl ELSE e.nl \/ e.lines[Len(e.lines)] # <<>>
Entries == {e \in [kind : Kinds, lines : Seq(Texts), nl : BOOLEAN] : Split(e)}

ASSUME LookupAssumption ==
  /\ Hidden \subseteq Paths
  /\ DOMAIN Below \cap Paths = {} /\ \A d \in DOMAIN Below : Below[d] \subseteq Paths
  /\ Outside \subseteq DOMAIN Below
  /\ PAGE \in Nat \ {0} /\ MaxNext \in Nat
  /\ \A start \in Starts : /\ start.disk \in [Paths -> Entries] /\ start.index \subseteq Paths
                           /\ start.asks.patterns \subseteq Texts
                           /\ start.asks.roots \subseteq Paths \union DOMAIN Below
                           /\ start.asks.reads \subseteq Paths
                           /\ \A c \in start.asks.changes : c.path \in Paths /\ c.entry \in Entries

VARIABLES disk,    \* what stands at each path
          index,   \* the paths git tracks; none outside a repository
          asks,    \* the calls the loop makes in this run
          tracked, \* the process's copy of the index
          search,  \* the search under way
          found,   \* the answer to the last search
          next,    \* the read cursor of each path, in lines
          done,    \* paths reported as read in full
          page,    \* the last page served
          seen,    \* the lines of each path served so far
          stale    \* paths that changed after a page of them was served
vars == <<disk, index, asks, tracked, search, found, next, done, page, seen, stale>>
reading == <<next, done, page, seen, stale>>

Entry(kind, lines, nl) == [kind |-> kind, lines |-> lines, nl |-> nl]
Nothing == Entry("none", <<>>, FALSE)

\* Splitting at newlines yields an empty row behind a final one.
Rows(e) == IF e.nl THEN Append(e.lines, <<>>) ELSE e.lines
Content(e) == Joined(Rows(e))

Unloaded == [state |-> "unloaded", names |-> {}]
NoSearch == [pass |-> "idle", pattern |-> <<>>, root |-> ".", todo |-> {},
             sink |-> EmptySink, pre |-> NoPiece, suf |-> NoPiece]
Found(tag, s) == [tag |-> tag, pattern |-> s.pattern, root |-> s.root,
                  sink |-> s.sink, pre |-> s.pre, suf |-> s.suf,
                  hint |-> IF s.pass = "pieces"
                           THEN grep_fragment_hint(s.pattern, s.pre, s.suf) ELSE {}]
NoPage == [path |-> "", off |-> 0, tag |-> "none", rows |-> <<>>]

Init == \E start \in Starts :
          /\ disk = start.disk /\ index = start.index /\ asks = start.asks
          /\ tracked = Unloaded
          /\ search = NoSearch
          /\ found = Found("none", NoSearch)
          /\ next = [f \in Paths |-> 1]
          /\ done = {} /\ page = NoPage
          /\ seen = [f \in Paths |-> {}] /\ stale = {}

Idle == search.pass = "idle"

-----------------------------------------------------------------------------
(* A search.                                                               *)

\* The files a walk from a root meets: a file is searched on its own.
Walk(root) == IF root \in DOMAIN Below THEN {f \in Below[root] \ Hidden : disk[f].kind \notin {"none", "dir"}}
              ELSE {root}

\* A relative directory is inside the repository.
Filtered(root) == root \in DOMAIN Below \ Outside

Answer(s, tag) == /\ found' = Found(tag, s)
                  /\ search' = NoSearch

\* One pass: every file below the root is still to be visited.
Begin(s, pass) == search' = [s EXCEPT !.pass = pass, !.todo = Walk(s.root), !.sink = EmptySink]

tool_grep ==
  /\ Idle
  /\ \E pattern \in asks.patterns, root \in asks.roots :
       LET s == [NoSearch EXCEPT !.pattern = pattern, !.root = root]
       IN  IF pattern = <<>> THEN Answer(s, "error: empty")
           ELSE IF root \in Paths /\ disk[root].kind = "none" THEN Answer(s, "error: missing")
           ELSE Begin(s, "exact") /\ found' = Found("none", NoSearch)
  /\ UNCHANGED <<disk, index, asks, tracked, reading>>

\* git ls-files is asked once; when the command cannot be started, the list is
\* an empty string, and what is read behind its end decides each lookup.
tracked_files_load ==
  IF tracked.state # "unloaded" THEN tracked' = tracked
  ELSE \E state \in {"loaded", "broken"} :
         tracked' = [state |-> state, names |-> IF state = "loaded" THEN index ELSE {}]

is_tracked(list, f) ==
  IF list.state = "broken" THEN BOOLEAN
  ELSE {list.names = {} \/ f \in list.names}

\* grep_file and frag_scan_file leave the same files out.
Searchable(f) == disk[f].kind = "file"

Scanned(s, f) ==
  IF s.pass = "pieces"
  THEN [s EXCEPT !.pre = frag_count(@, frag_longest(Content(disk[f]), s.pattern, "prefix"), f),
                 !.suf = frag_count(@, frag_longest(Content(disk[f]), s.pattern, "suffix"), f)]
  ELSE [s EXCEPT !.sink = grep_scan(@, s.pattern, f, disk[f].lines, s.pass = "ci")]

\* The next entry of grep_tree or frag_tree.  A full sink ends the walk.
Visit ==
  /\ search.pass # "idle"
  /\ \E f \in search.todo :
       /\ IF Filtered(search.root) THEN tracked_files_load ELSE tracked' = tracked
       /\ \E listed \in IF Filtered(search.root) THEN is_tracked(tracked', f) ELSE {TRUE} :
            LET s == IF listed /\ Searchable(f) THEN Scanned(search, f) ELSE search
            IN  search' = [s EXCEPT !.todo = IF s.sink.truncated THEN {} ELSE @ \ {f}]
  /\ UNCHANGED <<disk, index, asks, found, reading>>

\* The end of a pass: the hits, or the next pass.
PassEnds ==
  /\ search.pass # "idle" /\ search.todo = {}
  /\ \/ search.sink.matches > 0 /\ Answer(search, search.pass)
     \/ /\ search.sink.matches = 0
        /\ \/ search.pass = "exact" /\ Begin(search, "ci") /\ UNCHANGED found
           \/ /\ search.pass = "ci" /\ Len(search.pattern) > FRAG_MIN
              /\ Begin(search, "pieces") /\ UNCHANGED found
           \/ /\ search.pass = "ci" => Len(search.pattern) <= FRAG_MIN
              /\ search.pass # "exact"
              /\ Answer(search, "miss")
  /\ UNCHANGED <<disk, index, asks, tracked, reading>>

-----------------------------------------------------------------------------
(* A page of a file.                                                       *)

Readable(e) == e.kind \in {"file", "big", "binary"}

\* tool_read_io and render: a page, a warning, or an error.
ReadOf(e, off) ==
  LET rows == Rows(e)
      last == IF off + PAGE - 1 < Len(rows) THEN off + PAGE - 1 ELSE Len(rows)
  IN  IF ~Readable(e) THEN [tag |-> "error", rows |-> <<>>]
      ELSE IF rows = <<>> THEN [tag |-> "empty", rows |-> <<>>]
      ELSE IF off > Len(rows) THEN [tag |-> "past end", rows |-> <<>>]
      ELSE [tag |-> "page", rows |-> SubSeq(rows, off, last)]

\* The digits of a number, the last one behind those of its tenth.
Figures == <<"0", "1", "2", "3", "4", "5", "6", "7", "8", "9">>
show(n) ==
  LET digits[k \in 0..n] ==
        IF k < 10 THEN <<Figures[k + 1]>> ELSE Append(digits[k \div 10], Figures[(k % 10) + 1])
  IN  digits[n]

\* A carriage return before a newline belongs to the line ending.
Return == "\r"
chomp_cr(row) ==
  IF row # <<>> /\ row[Len(row)] = Return THEN SubSeq(row, 1, Len(row) - 1) ELSE row

\* The text of a page: each row behind its number and a tab.
render_line(no, row) == show(no) \o <<Tab>> \o chomp_cr(row)
Rendered(p) == Joined([k \in 1..Len(p.rows) |-> render_line(p.off + k - 1, p.rows[k])])

AfterPageLate(off) == off + PAGE + 1
AfterPage(off) == off + PAGE

\* The next page of a file that was picked or that a refused edit named.  Only
\* a page past the end marks the file as read; any other answer, an error
\* too, moves the cursor.
serve_read_page ==
  /\ Idle
  /\ \E f \in asks.reads \ done :
       LET off  == next[f]
           read == ReadOf(disk[f], off)
       IN  /\ off <= MaxNext
           /\ page' = [path |-> f, off |-> off, tag |-> read.tag, rows |-> read.rows]
           /\ IF read.tag = "past end"
              THEN done' = done \union {f} /\ UNCHANGED next
              ELSE next' = [next EXCEPT ![f] = AfterPage(off)] /\ UNCHANGED done
           /\ seen' = [seen EXCEPT ![f] = @ \union off..(off + Len(read.rows) - 1)]
  /\ UNCHANGED <<disk, index, asks, tracked, search, found, stale>>

-----------------------------------------------------------------------------
\* An edit lands, or someone else changes or makes a file; git is told of none.
Change ==
  /\ Idle
  /\ \E c \in asks.changes :
       /\ disk[c.path] # c.entry
       /\ disk' = [disk EXCEPT ![c.path] = c.entry]
       /\ stale' = IF next[c.path] > 1 THEN stale \union {c.path} ELSE stale
  /\ found' = Found("none", NoSearch)
  /\ page' = NoPage
  /\ UNCHANGED <<index, asks, tracked, search, next, done, seen>>

Next == tool_grep \/ Visit \/ PassEnds \/ serve_read_page \/ Change

Spec == Init /\ [][Next]_vars

-----------------------------------------------------------------------------
(* Properties.                                                             *)

PieceOK(p) == /\ p.best \in Nat /\ p.files \in Nat
              /\ p.names \in Seq(Paths) /\ Len(p.names) <= FRAG_MAX_NAMES

\* The shape of the state: a sink stays within its cap and a piece within the
\* names it has room for, in a search under way as in an answer.
TypeOK ==
  /\ \A f \in Paths : disk[f].kind \in Kinds
  /\ tracked.state \in {"unloaded", "loaded", "broken"} /\ tracked.names \subseteq Paths
  /\ search.pass \in {"idle", "exact", "ci", "pieces"} /\ search.todo \subseteq Paths
  /\ search.sink.matches <= MAX_MATCHES
  /\ PieceOK(search.pre) /\ PieceOK(search.suf) /\ PieceOK(found.pre) /\ PieceOK(found.suf)
  /\ next \in [Paths -> Nat] /\ done \subseteq Paths /\ stale \subseteq Paths
  /\ page.tag \in {"none", "page", "empty", "past end", "error"}
  /\ seen \in [Paths -> SUBSET Nat]

\* What the last search was to look at.
Scope == {f \in Walk(found.root) :
            /\ Searchable(f)
            /\ Filtered(found.root) => TRUE \in is_tracked(tracked, f)}
Told == found.tag \in {"exact", "ci", "miss"} /\ tracked.state # "broken"

HitLines(f) ==
  LET Cased(s) == IF found.tag = "exact" THEN s ELSE Lower(s)
  IN  {n \in 1..Len(disk[f].lines) :
         Places(Cased(disk[f].lines[n]), Cased(found.pattern)) # {}}
Near(f) == {n \in 1..Len(disk[f].lines) : \E h \in HitLines(f) : h - n \in -CONTEXT..CONTEXT}

\* What a search with context shows of a file, from the definition of context.
Blocks(f) ==
  FlattenSeq([n \in 1..Len(disk[f].lines) |->
    IF n \notin Near(f) THEN <<>>
    ELSE (IF n - 1 \notin Near(f) /\ \E m \in Near(f) : m < n THEN <<Gap(f)>> ELSE <<>>)
         \o <<Shown(f, n, IF n \in HitLines(f) THEN ":" ELSE "-")>>])
PlacesOf(f) == {k \in 1..Len(found.sink.out) : found.sink.out[k].file = f}
Listed == {<<e.file, e.no>> : e \in {x \in ToSet(found.sink.out) : x.sep = ":"}}
AllHits == UNION {{f} \X HitLines(f) : f \in Scope}

\* Of every file a search shows in one place each hit and the lines within
\* CONTEXT of one, once and in order, and a gap mark exactly between blocks that
\* do not touch; where the cap cut the listing, a first part of that (grep_scan's
\* ring and its count of owed lines).
ContextIsWindow ==
  found.tag \in {"exact", "ci"} =>
    \A f \in {e.file : e \in ToSet(found.sink.out)} :
      \E i, j \in PlacesOf(f) :
        LET shown == SubSeq(found.sink.out, i, j)
        IN  /\ PlacesOf(f) = i..j
            /\ IsPrefix(shown, Blocks(f))
            /\ ~found.sink.truncated => shown = Blocks(f)

\* A listing that does not say it was stopped has every hit of every file the
\* search covers; one that says so has MAX_MATCHES of them, and there are more
\* (grep_scan's cap, across the files of a walk).
CapIsTold ==
  Told /\ found.tag # "miss" =>
    IF found.sink.truncated
    THEN /\ Cardinality(Listed) = MAX_MATCHES
         /\ Listed \subseteq AllHits /\ Listed # AllHits
    ELSE Listed = AllHits

\* "No matches" is said only of a pattern that no covered file has on a line, in
\* any case (tool_grep's second pass; files it leaves out are not covered).
MissMeansAbsent == Told /\ found.tag = "miss" => AllHits = {}

Longest(ks) == CHOOSE k \in ks : \A j \in ks : j <= k
Holding(edge, k) ==
  {f \in Scope : Occurs(Content(disk[f]), Piece(found.pattern, k, edge))}
PieceIsLongest(edge, p) ==
  LET best == Longest({0} \union {k \in 1..(Len(found.pattern) - 1) : Holding(edge, k) # {}})
      held == IF best = 0 THEN {} ELSE Holding(edge, best)
  IN  /\ p.best = best
      /\ p.files = Cardinality(held)
      /\ ToSet(p.names) \subseteq held
      /\ Len(p.names) = IF p.files < FRAG_MAX_NAMES THEN p.files ELSE FRAG_MAX_NAMES

ToldAs(edge, p) == [length |-> p.best, text |-> Clip(Piece(found.pattern, p.best, edge))]

\* After a miss, the prefix and the suffix reported are the longest that stand
\* in any covered file, the files counted are those that hold that piece, and
\* each piece long enough to help is reported once, as its length and what is
\* shown of it: two pieces of one length that show the same are one
\* (frag_longest's binary search, frag_count's restart on a longer piece,
\* grep_fragment_hint).
PiecesAreLongest ==
  Told /\ found.tag = "miss" /\ Len(found.pattern) > FRAG_MIN =>
    /\ PieceIsLongest("prefix", found.pre)
    /\ PieceIsLongest("suffix", found.suf)
    /\ LET told == {ToldAs(h[1], h[2]) : h \in found.hint}
       IN  /\ told = {t \in {ToldAs("prefix", found.pre), ToldAs("suffix", found.suf)} :
                        t.length >= FRAG_MIN}
           /\ Cardinality(told) = Cardinality(found.hint)

\* A path reported as read in full was served to its last line, unless it
\* changed on the way (serve_read_page's cursor against render's pages).
FullMeansSeen ==
  \A f \in done \ stale : seen[f] = 1..Len(Rows(disk[f]))

\* A page quoted back as the text to replace, numbers and all, is found in the
\* file once the edit tool has taken the numbers off, whatever the lines hold
\* and however long the numbers are (render against strip_line_prefixes; rows
\* that end in a carriage return are left out, because render drops it and the
\* tool does not put it back).
QuotedPageIsFound ==
  page.tag = "page" /\ (\A k \in DOMAIN page.rows : chomp_cr(page.rows[k]) = page.rows[k]) =>
    Places(Content(disk[page.path]), strip_line_prefixes(Rendered(page))) # {}

=============================================================================
