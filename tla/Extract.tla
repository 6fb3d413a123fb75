------------------------------ MODULE Extract ------------------------------
(***************************************************************************)
(* What the agent takes from a reply: json_parse_c.c and parse.bend.  A    *)
(* JSON text is a sequence of tokens; the C functions look for quoted      *)
(* names in its bytes, so a string token is found wherever it stands, as a *)
(* key or as a value.  A string that the end of the text cut off is an     *)
(* "open" token.  Numbers are hundredths.                                  *)
(***************************************************************************)
EXTENDS Integers, Sequences

LOCAL Least(S) == CHOOSE x \in S : \A y \in S : x <= y

Tok(k, s, n) == [k |-> k, s |-> s, n |-> n]
Str(s)       == Tok("str", s, 0)
Open(s)      == Tok("open", s, 0)
Num(n)       == Tok("num", "", n)
Mark(c)      == Tok(c, "", 0)

-----------------------------------------------------------------------------
(* One question's answer.                                                  *)

Answer(tag, label, value, conf) ==
  [tag |-> tag, label |-> label, value |-> value, conf |-> conf]
Chosen(label, conf) == Answer("chosen", label, 0, conf)
Scored(value, conf) == Answer("scored", "", value, conf)
Nouled(value)       == Answer("nouled", "", value, 0)
Missing(why)        == Answer("missing", why, 0, 0)

\* Where a quoted name stands.
Named(json, name) == {i \in 1..Len(json) : json[i] = Str(name)}

\* From the first place of the id to the `},"` in which the next object opens.
answer_spanUnscoped(json, qid) == <<Least(Named(json, qid)), Len(json) + 1>>
answer_span(json, qid) ==
  LET p    == Least(Named(json, qid))
      next == {i \in (p + 1)..(Len(json) - 2) :
                 /\ json[i].k = "}" /\ json[i + 1].k = ","
                 /\ json[i + 2].k \in {"str", "open"}}
  IN  <<p, IF next = {} THEN Len(json) + 1 ELSE Least(next)>>

\* The values of a key inside a span that are of one of the kinds; a value of
\* another kind is passed over.
Values(json, span, key, kinds) ==
  {i + 2 : i \in {i \in span[1]..(span[2] - 1) :
                    /\ json[i] = Str(key)
                    /\ i + 2 <= Len(json)
                    /\ json[i + 1].k = ":" /\ json[i + 2].k \in kinds}}

answer_num(json, span, key) == Values(json, span, key, {"num"})
answer_str(json, span, key) == Values(json, span, key, {"str", "open"})

NumOr1(json, span, key) ==
  LET found == answer_num(json, span, key)
  IN  IF found = {} THEN 100 ELSE json[Least(found)].n
NumOr0(json, span, key) ==
  LET found == answer_num(json, span, key)
  IN  IF found = {} THEN 0 ELSE json[Least(found)].n

answer_missing(json) ==
  IF answer_str(json, <<1, Len(json) + 1>>, "error")
       \union answer_str(json, <<1, Len(json) + 1>>, "message") # {}
  THEN Missing("failed") ELSE Missing("no answer")

answer_build(json, qid) ==
  IF json = <<>> THEN Missing("empty")
  ELSE IF Named(json, qid) = {} THEN answer_missing(json)
  ELSE LET span   == answer_span(json, qid)
           choice == answer_str(json, span, "choice")
           score  == answer_num(json, span, "score")
           noul   == answer_num(json, span, "noul")
           conf   == NumOr0(json, span, "confidence")
       IN  IF choice # {} THEN Chosen(json[Least(choice)].s, conf)
           ELSE IF score # {} THEN Scored(json[Least(score)].n, conf)
           ELSE IF noul # {} THEN Nouled(json[Least(noul)].n)
           ELSE Missing("unrecognised")

-----------------------------------------------------------------------------
(* A generation.                                                           *)

\* The token the assistant's text is taken from: the value of the first
\* "content"; without one the whole reply, and nothing for a value that is no
\* string.
Whole   == Mark("whole")
Nothing == Mark("nothing")
parse_chat_content(json) ==
  LET keys == {i \in Named(json, "content") : i < Len(json) /\ json[i + 1].k = ":"}
      v    == Least(keys) + 2
  IN  IF keys = {} THEN Whole
      ELSE IF v <= Len(json) /\ json[v].k \in {"str", "open"} THEN json[v]
      ELSE Nothing

-----------------------------------------------------------------------------
(* A drafted edit.  A draft is a sequence of pieces: the four sentinels and *)
(* the texts between them.                                                 *)

Sentinels == {"<<<PATH>>>", "<<<OLD>>>", "<<<NEW>>>", "<<<END>>>"}

Spots(s, m) == {i \in 1..Len(s) : s[i] = m}

after(s, m)  == IF Spots(s, m) = {} THEN <<>>
                ELSE SubSeq(s, Least(Spots(s, m)) + 1, Len(s))
before(s, m) == IF Spots(s, m) = {} THEN s
                ELSE SubSeq(s, 1, Least(Spots(s, m)) - 1)

section(s, open, close) == before(after(s, open), close)

edit_path(s)    == section(s, "<<<PATH>>>", "<<<OLD>>>")
edit_old_str(s) == section(s, "<<<OLD>>>", "<<<NEW>>>")
edit_new_str(s) == before(before(after(s, "<<<NEW>>>"), "<<<PATH>>>"), "<<<END>>>")

\* All four sentinels, and no second path before the end.
edit_well_formedLoose(s) == {"<<<PATH>>>", "<<<OLD>>>", "<<<NEW>>>"} \subseteq {s[i] : i \in 1..Len(s)}
edit_well_formed(s) ==
  /\ \A m \in Sentinels : Spots(s, m) # {}
  /\ Spots(section(s, "<<<NEW>>>", "<<<END>>>"), "<<<PATH>>>") = {}

\* guard.bend's rule, over the texts that stand for a path outside.
Outside == {"/abs", "~home", "../up"}
in_repo(path) == path # <<>> /\ \A i \in 1..Len(path) : path[i] \notin Outside

parse_edit(s) ==
  IF ~edit_well_formed(s) THEN [tag |-> "malformed", path |-> <<>>, old |-> <<>>, new |-> <<>>]
  ELSE [tag  |-> IF in_repo(edit_path(s)) THEN "block" ELSE "refused",
        path |-> edit_path(s), old |-> edit_old_str(s), new |-> edit_new_str(s)]
=============================================================================
