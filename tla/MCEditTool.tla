----------------------------- MODULE MCEditTool -----------------------------
(***************************************************************************)
(* Small texts for EditTool: files of up to four characters over a         *)
(* letter, a blank and the newline, with the shapes the fallbacks are for; *)
(* arguments with line numbers, a leftover tab and a quoting indent.       *)
(***************************************************************************)
EXTENDS EditTool

SeqsUpTo(S, n) == UNION {[1..k -> S] : k \in 0..n}

N == "\n"
T == "\t"

SmallContents ==
  SeqsUpTo({"a", N}, 4) \union SeqsUpTo({"a", " ", N}, 3)
    \union {<<"1", T, "a">>}

SmallOlds ==
  SeqsUpTo({"a", N}, 3) \union
    {<<"1", T, "a">>, <<"1", ":", "a">>, <<T, "a">>, <<T, T, "a">>, <<" ", "a">>,
     <<" ", "a", N, " ", "a">>, <<" ", "a", N, "a">>, <<"1">>, <<" ">>}

SmallNews ==
  {<<>>, <<"a">>, <<"b">>, <<"b", N>>, <<" ", "b">>, <<"1", T, "b">>,
   <<" ", "1", ".", "1", T, "b">>}

=============================================================================
