------------------------------ MODULE EditTool ------------------------------
(***************************************************************************)
(* The tools that change a file (tools_c.h: tool_edit, tool_write) and the *)
(* agent's side of the call (bendcoder_agent.bend: apply_block, the        *)
(* anchored edit).  One path is followed through a series of calls.  A     *)
(* call is a step of the agent (Ask...), then a step of the tool: the tool *)
(* runs on a worker while the loop waits, so no two calls overlap.         *)
(*                                                                         *)
(* An error text is its tag, "ok" is a file updated or created, and "all"  *)
(* is the reply that gives the number of occurrences replaced.             *)
(***************************************************************************)
EXTENDS Text

CONSTANTS Contents,  \* the texts the file may start with
          Olds,      \* the old_string arguments tried
          News,      \* the replies a replacement is drafted as
          MaxLen     \* calls are made while the file is at most this long

ASSUME EditToolAssumption ==
  /\ Contents \subseteq Seq(STRING) /\ Olds \subseteq Seq(STRING) /\ News \subseteq Seq(STRING)
  /\ MaxLen \in Nat

VARIABLES path,   \* what stands at the path
          call,   \* the call being handled, or NoCall
          reply,  \* the tool's last answer
          disk    \* what the disk did with the tool's last write
vars == <<path, call, reply, disk>>

NoFile  == [kind |-> "none", text |-> <<>>]
Dir     == [kind |-> "dir", text |-> <<>>]
File(s) == [kind |-> "file", text |-> s]

Edit(old, new, all) ==
  [tool |-> "edit", old |-> old, new |-> new, all |-> all, line |-> 0]
Write(new) ==
  [tool |-> "write", old |-> <<>>, new |-> new, all |-> FALSE, line |-> 0]
NoCall == [Write(<<>>) EXCEPT !.tool = "none"]

Reply(tag, n) == [tag |-> tag, count |-> n]

Init == /\ path \in {NoFile, Dir} \union {File(s) : s \in Contents}
        /\ call = NoCall
        /\ reply = Reply("none", 0)
        /\ disk = "none"

-----------------------------------------------------------------------------
(* The agent's calls.                                                      *)

Free == call = NoCall /\ Len(path.text) <= MaxLen

Pose(c) == /\ call' = c
           /\ reply' = Reply("none", 0)
           /\ disk' = "none"
           /\ UNCHANGED path

\* EditFile and EditFileAll, as the primitives offer them.
AskEdit == Free /\ \E old \in Olds, new \in News, all \in BOOLEAN :
                     Pose(Edit(old, new, all))

\* A drafted block: an edit of what exists, a write of what does not.
apply_block == Free /\ \E old \in Olds, new \in News :
                 Pose(IF path.kind = "none" THEN Write(new) ELSE Edit(old, new, FALSE))

\* The anchored edit: old_string is the smallest window around the picked
\* line whose bytes occur once in the file just read; an empty file never
\* gets here.
anchor_line ==
  /\ Free
  /\ path.text # <<>>
  /\ \E line \in 1..LineCount(path.text), reply_text \in News :
       /\ UniqueRadii(path.text, line) # {}
       /\ LET w == unique_window(path.text, line)
          IN  Pose([Edit(window_text(path.text, w), extract_new_str(reply_text), FALSE)
                      EXCEPT !.line = line])

-----------------------------------------------------------------------------
(* tool_edit.                                                              *)

SpellingStrippedFirst(s, c) ==
  LET bare == strip_line_prefixes(c.old)
  IN  IF count_matches(s, bare) > 0 THEN [c EXCEPT !.old = bare] ELSE c

\* The spelling of the arguments that is used: the exact one if it occurs,
\* else without Read's prefixes, else dedented, each only if it occurs.
Spelling(s, c) ==
  LET bare  == strip_line_prefixes(c.old)
      width == common_indent(c.old)
      flat  == dedent(c.old, width)
  IN  IF count_matches(s, c.old) > 0 THEN c
      ELSE IF bare # c.old /\ count_matches(s, bare) > 0 THEN [c EXCEPT !.old = bare]
      ELSE IF width > 0 /\ count_matches(s, flat) > 0
           THEN [c EXCEPT !.old = flat, !.new = dedent(c.new, width)]
      ELSE c

HunkRefusedOnce(s, c) == Numbered(c.new)

\* Dedenting can uncover a numbered paste: it is looked for again.
HunkRefused(s, c) == Numbered(c.new) \/ Numbered(Spelling(s, c).new)

\* What is searched: with the newline behind it when a line is deleted.
SearchText(s, c) ==
  LET line == c.old \o <<Newline>>
  IN  IF c.new = <<>> /\ c.old[Len(c.old)] # Newline /\ Places(s, line) # {}
      THEN line ELSE c.old

\* The error a call gets before anything is written; "none" for a call that
\* goes through.  The order is the order of the returns.
Refusal(p, c) ==
  IF c.old = c.new THEN "identical"
  ELSE IF Numbered(c.new) THEN "numbered"
  ELSE IF c.old = <<>> THEN (IF p.kind = "none" THEN "none" ELSE "exists")
  ELSE IF p.kind = "none" THEN "missing"
  ELSE IF p.kind = "dir" THEN "directory"
  ELSE LET n == count_matches(p.text, Spelling(p.text, c).old)
       IN  IF HunkRefused(p.text, c) THEN "numbered"
           ELSE IF n = 0 THEN "not found"
           ELSE IF n > 1 /\ ~c.all THEN "ambiguous"
           ELSE "none"

\* What a call that goes through writes.
Updated(p, c) ==
  IF c.old = <<>> THEN c.new
  ELSE LET used == Spelling(p.text, c)
       IN  replace(p.text, SearchText(p.text, used), used.new, c.all)

SuccessCounted(p, c) ==
  IF c.all THEN Reply("all", count_matches(p.text, Spelling(p.text, c).old))
  ELSE Reply("ok", 0)

Success(p, c) ==
  IF c.all /\ c.old # <<>>
  THEN Reply("all", count_matches(p.text, Spelling(p.text, c).old))
  ELSE Reply("ok", 0)

\* bendcoder_write_bytes: the file is emptied as it is opened, and fclose is
\* not asked whether the last buffer reached the disk.
write_bytes(s, success) ==
  \/ disk' = "written" /\ path' = File(s) /\ reply' = success
  \/ disk' = "unopened" /\ reply' = Reply("cannot open", 0) /\ UNCHANGED path
  \/ \E k \in 0..(Len(s) - 1) :
       /\ path' = File(SubSeq(s, 1, k))
       /\ \/ disk' = "short" /\ reply' = Reply("short write", 0)
          \/ disk' = "lost"  /\ reply' = success

Refuse(tag) == reply' = Reply(tag, 0) /\ disk' = "none" /\ UNCHANGED path

tool_edit ==
  /\ call.tool = "edit"
  /\ call' = NoCall
  /\ \/ Refusal(path, call) # "none" /\ Refuse(Refusal(path, call))
     \/ /\ path.kind = "file"
        /\ call.old \notin {<<>>, call.new}
        /\ ~Numbered(call.new)
        /\ Refuse("unreadable")
     \/ Refusal(path, call) = "none"
        /\ write_bytes(Updated(path, call), Success(path, call))

tool_write ==
  /\ call.tool = "write"
  /\ call' = NoCall
  /\ IF path.kind = "dir" THEN Refuse("directory")
     ELSE write_bytes(call.new, Reply("ok", 0))

Next == AskEdit \/ apply_block \/ anchor_line \/ tool_edit \/ tool_write

Spec == Init /\ [][Next]_vars

-----------------------------------------------------------------------------
(* Properties.                                                             *)

Tags == {"none", "identical", "numbered", "exists", "missing", "directory",
         "unreadable", "not found", "ambiguous", "cannot open", "short write",
         "ok", "all"}

\* The path holds nothing, a directory or a text; the reply is one of the
\* tool's answers, and it counts occurrences only when every one was replaced.
TypeOK ==
  /\ path.kind \in {"none", "dir", "file"}
  /\ path.kind # "file" => path.text = <<>>
  /\ call.tool \in {"none", "edit", "write"}
  /\ reply.tag \in Tags
  /\ reply.count > 0 <=> reply.tag = "all"
  /\ disk \in {"none", "written", "unopened", "short", "lost"}

\* A call was handled by the edit tool and the disk kept what was written.
Edited == call.tool = "edit" /\ call' = NoCall /\ disk' = "written"

\* The three readings of the arguments.
Readings(c) ==
  {c, [c EXCEPT !.old = strip_line_prefixes(c.old)],
      [c EXCEPT !.old = dedent(c.old, common_indent(c.old)),
                !.new = dedent(c.new, common_indent(c.old))]}

\* t is s with one occurrence of old, and a newline behind it or not,
\* replaced by new.
Spliced(s, t, old, new) ==
  \E x \in {old, old \o <<Newline>>} : \E i \in Places(s, x) :
    t = SubSeq(s, 1, i - 1) \o new \o SubSeq(s, i + Len(x), Len(s))

\* The edit that landed is the exact one whenever the exact text occurs.
Literal(s, c) == IF Places(s, c.old) # {} THEN {c} ELSE Readings(c)

\* An edit without replace_all changes one place: what it wrote is the file
\* with one occurrence of one reading of old_string replaced, a reading with
\* no second occurrence clear of the first, and the exact text when the file
\* holds it (tool_edit: "The exact string is authoritative").
OneEditOnePlace ==
  [][Edited /\ ~call.all /\ call.old # <<>> =>
       \E r \in Literal(path.text, call) :
         /\ Spliced(path.text, path'.text, r.old, r.new)
         /\ \A i, j \in Places(path.text, r.old) : j < i + Len(r.old)]_vars

\* No edit puts a numbered paste into the file, whichever reading it used:
\* the replacement that landed opens no line with a hunk number, even when
\* the number only showed after dedenting and at however many places it landed.
PasteNeverLands ==
  [][Edited =>
       IF call.old = <<>> THEN ~Numbered(path'.text)
       ELSE \E r \in Literal(path.text, call) :
              /\ ~Numbered(r.new)
              /\ IF call.all
                 THEN path'.text = replace(path.text, SearchText(path.text, r), r.new, TRUE)
                 ELSE Spliced(path.text, path'.text, r.old, r.new)]_vars

\* With replace_all the count in the reply is the number of replacements:
\* the file grew by that many times what one replacement adds.  Deletions are
\* left out: there SearchText takes a newline along where one follows any
\* occurrence, and the occurrences without one stay, though they are counted.
CountIsReplacements ==
  [][Edited /\ reply'.tag = "all" /\ call.new # <<>> =>
       \E r \in Literal(path.text, call) :
         \/ r.new = <<>>
         \/ Len(path'.text) - Len(path.text)
              = reply'.count * (Len(r.new) - Len(r.old))]_vars

\* The window the agent sliced from the file never comes back as ambiguous or
\* as not found: occurs counts as count_matches does, and the window is text
\* of the file.
WindowIsAccepted ==
  [][call.line > 0 /\ call' = NoCall
       => reply'.tag \notin {"ambiguous", "not found", "exists", "missing"}]_vars

\* An anchored edit changes the line the agent picked: when the window's
\* bytes stand in one place, that place covers the line, and the edit leaves
\* everything outside it alone, but for the newline a deletion takes along.
AnchorCoversLine ==
  [][Edited /\ call.line > 0 /\ Cardinality(Places(path.text, call.old)) = 1 =>
       LET l == NthLine(path.text, call.line)
       IN  \A i \in Places(path.text, call.old) :
             /\ i <= l[1] /\ l[2] < i + Len(call.old)
             /\ Spliced(path.text, path'.text, call.old, call.new)]_vars

\* bendcoder_agent.bend:748-749: the window grows "until its bytes occur
\* exactly once in the file".
WindowOccursOnce ==
  call.line > 0 => Cardinality(Places(path.text, call.old)) = 1
=============================================================================
