------------------------------ MODULE MCLookup ------------------------------
(***************************************************************************)
(* What the runs begin with: files of seven lines with the hits at every   *)
(* place beside a second file, three files that hold different pieces of   *)
(* the patterns, files the search leaves out, and files to read.           *)
(***************************************************************************)
EXTENDS Lookup

MCPaths  == {"a", "b", "d/c", ".h"}
MCHidden == {".h"}
MCBelow  == [r \in {".", "d", "/w"} |-> IF r = "d" THEN {"d/c"} ELSE MCPaths]

S == [abcd |-> <<"a", "b", "c", "d">>, ABCD |-> <<"A", "B", "C", "D">>,
      abab |-> <<"a", "b", "a", "b">>, ab |-> <<"a", "b">>,
      abx |-> <<"x", "A", "b">>, bcd |-> <<"b", "c", "d", "x">>,
      d |-> <<"d">>, abc |-> <<"a", "b", "c">>, x |-> <<"x">>, none |-> <<>>,
      tabbed |-> <<Tab, "x">>, dos |-> <<"1", Return>>, one |-> <<"1", ":">>,
      abcNd |-> <<"a", "b", "c", Newline, "d">>, abd |-> <<"a", "b", "d">>,
      abcabd |-> <<"a", "b", "c", "a", "b", "d">>]

File(lines) == Entry("file", lines, TRUE)
Marked(n, hits) == File([k \in 1..n |-> IF k \in hits THEN S.abcd ELSE S.x])
Tree(a, b, c) == [f \in MCPaths |-> CASE f = "a" -> a [] f = "b" -> b [] f = "d/c" -> c
                                      [] OTHER -> Marked(1, {1})]

Asks(patterns, roots, reads, changes) ==
  [patterns |-> patterns, roots |-> roots, reads |-> reads, changes |-> changes]
Into(f, e) == [path |-> f, entry |-> e]
Start(tree, idx, ask) == [disk |-> tree, index |-> idx, asks |-> ask]

\* Where hits stand.
Spread == {Start(Tree(Marked(7, H), Marked(3, J), Nothing), {"a", "b"},
                 Asks({S.abcd}, {".", "a"}, {}, {})) :
             H \in SUBSET (1..7), J \in {{}, {2}}}

\* Which pieces stand where.
Bits == {File(<<S.abx>>), File(<<S.bcd, S.ab>>), File(<<S.abc, S.d>>), File(<<S.ABCD>>), Nothing}
Pieces == {Start(Tree(a, b, c), MCPaths,
                 Asks({S.abcd, S.abab, S.ab, S.abcNd, S.none}, {".", "d", "a"}, {}, {})) :
             a \in Bits, b \in Bits, c \in Bits}

\* Two pieces of one length that show the same two characters.
Alike == {Start(Tree(a, b, Nothing), MCPaths, Asks({S.abcabd}, {"."}, {}, {})) :
            a \in {File(<<S.abc, S.d>>), File(<<S.abc, S.abd>>)},
            b \in {File(<<S.abd>>), File(<<S.bcd>>)}}

\* What is left out, and what git does not know.
Left == {Start(Tree(a, b, Marked(1, {1})), idx,
               Asks({S.abcd}, {".", "d", "/w", "a"}, {},
                    {Into("b", Marked(2, {2})), Into("b", Marked(1, {}))})) :
           a \in {Entry(k, <<S.abcd>>, FALSE) : k \in {"big", "binary", "locked", "dir"}},
           b \in {Nothing, Marked(1, {1})}, idx \in {{}, {"a"}, {"a", "b"}}}

\* What is read.
ToRead == {Entry("file", <<>>, FALSE), File(<<S.none>>), Entry("file", <<S.one>>, FALSE),
          File(<<S.one, S.tabbed>>), Entry("file", <<S.d, S.one, S.none, S.tabbed>>, FALSE),
          Entry("big", <<S.tabbed, S.none, S.d>>, TRUE), File(<<S.d, S.dos, S.one>>)}
Long == File([n \in 1..10 |-> IF n = 10 THEN S.one ELSE S.d])
Read == {Start(Tree(a, b, Nothing), {"a"},
               Asks({S.abcd}, {"."}, {"a", "b"}, {Into("a", File(<<S.d>>)), Into("b", File(<<S.d, S.one>>))})) :
           a \in ToRead \union {Long},
           b \in ToRead \union {Nothing, Entry("dir", <<>>, FALSE), Entry("locked", <<S.d>>, TRUE)}}

MCStarts == Spread \union Pieces \union Alike \union Left \union Read
=============================================================================
