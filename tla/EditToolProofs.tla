--------------------------- MODULE EditToolProofs ---------------------------
(***************************************************************************)
(* Theorems about the tools that change a file, for every text, every      *)
(* argument and every size of either.  What a call is known to be while it *)
(* waits for its worker is the invariant: an anchored call holds the       *)
(* window of the file as it still stands.  What the scan counts and what a *)
(* replacement writes is TextProofs'.                                      *)
(***************************************************************************)
EXTENDS EditTool, TextProofs

\* A text is a sequence of characters, each a string; that the newline is one
\* is said here because no prover looks into a literal.
Chars == STRING \union {Newline}
Words == Seq(Chars)

\* The path and the call are what their records say.
RecordsKnow ==
  /\ path \in [kind : {"none", "dir", "file"}, text : Words]
  /\ call \in [tool : {"none", "edit", "write"}, old : Words, new : Words,
               all : BOOLEAN, line : Nat]

\* An anchored call is an edit of the file as it stands, and its old_string is
\* the window around the picked line.
AnchorKnows ==
  call.line > 0 =>
    /\ call.tool = "edit" /\ ~call.all
    /\ path.kind = "file" /\ path.text # <<>>
    /\ call.line \in 1..LineCount(path.text)
    /\ UniqueRadii(path.text, call.line) # {}
    /\ call.old = window_text(path.text, unique_window(path.text, call.line))

EditInv == TypeOK /\ RecordsKnow /\ AnchorKnows

-----------------------------------------------------------------------------
(* The operators.                                                          *)

\* No count is zero and more than zero.
LEMMA ZeroIsNotMore == ASSUME NEW n, n = 0 PROVE ~(n > 0)
  OBVIOUS

\* What an anchored call looks for stands in the file, and counts once there.
LEMMA AnchorIs ==
  ASSUME EditInv, call.line > 0
  PROVE  LET l == NthLine(path.text, call.line)
             w == unique_window(path.text, call.line)
         IN  /\ call.old # <<>> /\ count_matches(path.text, call.old) = 1
             /\ w[1] \in Places(path.text, call.old)
             /\ w[1] <= l[1] /\ l[2] < w[1] + Len(call.old)
<1>1. /\ path.text \in Seq(Chars) /\ path.text # << >>
      /\ call.line \in 1..LineCount(path.text) /\ UniqueRadii(path.text, call.line) # {}
      /\ call.old = window_text(path.text, unique_window(path.text, call.line))
  BY DEF EditInv, AnchorKnows, RecordsKnow, Words
<1> QED
  BY <1>1, UniqueWindowIs

\* A text that is counted is no empty one.
LEMMA CountIs ==
  ASSUME NEW s \in Words, NEW t \in Words
  PROVE  count_matches(s, t) \in Nat /\ (count_matches(s, t) # 0 => t # <<>>)
<1>1. CASE t = << >>
  <2>1. Hits(s, t) = {}
    BY <1>1 DEF Hits
  <2>2. Cardinality({}) = 0
    BY Positions
  <2> QED
    BY <2>1, <2>2 DEF count_matches
<1>2. CASE t # << >>
  BY <1>2, HitsCount DEF Words
<1> QED
  BY <1>1, <1>2

\* A spelling that is used is one of the three, and the exact one when the
\* file holds that.
LEMMA SpellingIs ==
  ASSUME NEW s \in Words,
         NEW c \in [tool : {"none", "edit", "write"}, old : Words, new : Words,
                    all : BOOLEAN, line : Nat],
         c.old # <<>>
  PROVE  LET used == Spelling(s, c)
         IN  /\ used.old \in Words /\ used.new \in Words
             /\ used \in Literal(s, c)
             /\ count_matches(s, c.old) > 0 => used = c
<1> DEFINE bare  == strip_line_prefixes(c.old)
           width == common_indent(c.old)
           flat  == dedent(c.old, width)
           used  == Spelling(s, c)
<1>1. bare \in Words /\ flat \in Words /\ dedent(c.new, width) \in Words
  BY TrimmedType DEF strip_line_prefixes, dedent, Words
<1>2. \/ used = c
      \/ used = [c EXCEPT !.old = bare]
      \/ used = [c EXCEPT !.old = flat, !.new = dedent(c.new, width)]
  BY DEF Spelling
<1>3. count_matches(s, c.old) > 0 => used = c
  BY DEF Spelling
<1>4. Places(s, c.old) # {} => count_matches(s, c.old) > 0
  BY HitsCount DEF Words
<1>5. used \in Readings(c)
  BY <1>2 DEF Readings
<1>6. used \in Literal(s, c)
  BY <1>3, <1>4, <1>5 DEF Literal
<1> HIDE DEF bare, width, flat
<1>7. used.old \in Words /\ used.new \in Words
  BY <1>1, <1>2
<1> QED
  BY <1>3, <1>6, <1>7

\* A call that goes through has a reading that occurs, once unless all are to
\* be replaced, and whose new text is no numbered paste.
LEMMA GoesThrough ==
  ASSUME RecordsKnow, Refusal(path, call) = "none", call.old # <<>>
  PROVE  LET used == Spelling(path.text, call)
             n == count_matches(path.text, used.old)
         IN  /\ used.old \in Words /\ used.new \in Words /\ used.old # <<>>
             /\ used \in Literal(path.text, call)
             /\ n \in Nat \ {0} /\ (~call.all => n = 1)
             /\ Places(path.text, used.old) # {}
             /\ ~Numbered(used.new)
<1> DEFINE used == Spelling(path.text, call)
           n == count_matches(path.text, used.old)
<1>1. used.old \in Words /\ used.new \in Words /\ used \in Literal(path.text, call)
  BY SpellingIs DEF RecordsKnow
<1>2. ~HunkRefused(path.text, call) /\ n # 0 /\ ~(n > 1 /\ ~call.all)
  BY DEF Refusal
<1>3. n \in Nat /\ used.old # << >>
  BY <1>1, <1>2, CountIs DEF RecordsKnow
<1>4. Places(path.text, used.old) # {}
  BY <1>1, <1>2, <1>3, HitsCount DEF RecordsKnow, Words
<1>5. ~Numbered(used.new)
  BY <1>2 DEF HunkRefused
<1> HIDE DEF n, used
<1> QED
  BY <1>1, <1>2, <1>3, <1>4, <1>5 DEF n, used

\* The text searched is the reading's, or that with the newline behind it.
LEMMA SearchIs ==
  ASSUME NEW s \in Words, NEW c, c.old \in Words, c.old # <<>>, Places(s, c.old) # {}
  PROVE  /\ SearchText(s, c) \in {c.old, c.old \o <<Newline>>}
         /\ SearchText(s, c) \in Words /\ SearchText(s, c) # <<>>
         /\ Places(s, SearchText(s, c)) # {}
         /\ c.new # <<>> => SearchText(s, c) = c.old
<1> DEFINE line == c.old \o <<Newline>>
<1>1. line \in Words /\ line # << >>
  <2>1. <<Newline>> \in Seq(Chars) /\ Len(<<Newline>>) = 1
    BY DEF Chars
  <2>2. /\ line \in Seq(Chars) /\ Len(line) = Len(c.old) + 1
        /\ Len(c.old) \in Nat
    BY <2>1, ConcatProperties DEF Words
  <2> HIDE DEF line
  <2> QED
    BY <2>2, EmptySeq DEF Words
<1>2. \/ SearchText(s, c) = c.old
      \/ SearchText(s, c) = line /\ Places(s, line) # {}
  BY Zenon DEF SearchText
<1>3. c.new # <<>> => SearchText(s, c) = c.old
  BY ZenonT(40) DEF SearchText
<1> HIDE DEF line
<1> QED
  BY <1>1, <1>2, <1>3 DEF line

\* One replacement splices the new text into one place of the old.
LEMMA UpdateSplices ==
  ASSUME RecordsKnow, Refusal(path, call) = "none", call.old # <<>>, ~call.all
  PROVE  LET used == Spelling(path.text, call)
         IN  Spliced(path.text, Updated(path, call), used.old, used.new)
<1> DEFINE used == Spelling(path.text, call)
           x == SearchText(path.text, used)
<1>1. /\ used.old \in Words /\ used.new \in Words /\ used.old # <<>>
      /\ Places(path.text, used.old) # {}
  BY GoesThrough
<1>2. path.text \in Words /\ call.all = FALSE
  BY DEF RecordsKnow
<1> HIDE DEF used
<1>3. /\ x \in {used.old, used.old \o <<Newline>>}
      /\ x \in Words /\ x # <<>> /\ Places(path.text, x) # {}
  BY <1>1, <1>2, SearchIs
<1>4. Updated(path, call) = replace(path.text, x, used.new, FALSE)
  BY <1>2 DEF Updated, used
<1> HIDE DEF x
<1>5. \E h \in Places(path.text, x) :
        replace(path.text, x, used.new, FALSE)
          = SubSeq(path.text, 1, h - 1) \o used.new
              \o SubSeq(path.text, h + Len(x), Len(path.text))
  <2> DEFINE s == path.text
             r == used.new
  <2>1. s \in Seq(Chars) /\ r \in Seq(Chars) /\ x \in Seq(Chars)
    BY <1>1, <1>2, <1>3 DEF Words
  <2> HIDE DEF s, r
  <2>2. Places(s, x) # {}
    BY <1>3 DEF s
  <2>3. \E h \in Places(s, x) :
          replace(s, x, r, FALSE) = SubSeq(s, 1, h - 1) \o r \o SubSeq(s, h + Len(x), Len(s))
    BY <1>3, <2>1, <2>2, ReplaceOne
  <2> QED
    BY <2>3 DEF s, r
<1> QED
  BY <1>3, <1>4, <1>5 DEF Spliced, used

\* What a write leaves at the path, and what is said of it.
LEMMA WriteBytesIs ==
  ASSUME RecordsKnow, NEW s \in Words, NEW success, write_bytes(s, success)
  PROVE  /\ path' = path \/ \E t \in Words : path' = File(t)
         /\ disk' \in {"written", "unopened", "short", "lost"}
         /\ disk' = "written" => path' = File(s)
         /\ reply' \in {success, Reply("cannot open", 0), Reply("short write", 0)}
<1>1. CASE disk' = "written" /\ path' = File(s) /\ reply' = success
  BY <1>1
<1>2. CASE disk' = "unopened" /\ reply' = Reply("cannot open", 0) /\ UNCHANGED path
  BY <1>2
<1>3. ASSUME NEW k \in 0..(Len(s) - 1), path' = File(SubSeq(s, 1, k)),
             \/ disk' = "short" /\ reply' = Reply("short write", 0)
             \/ disk' = "lost"  /\ reply' = success
      PROVE  /\ \E t \in Words : path' = File(t)
             /\ disk' \in {"short", "lost"}
             /\ reply' \in {success, Reply("short write", 0)}
  <2>1. SubSeq(s, 1, k) \in Words
    <3>1. \A i \in 1..k : s[i] \in Chars
      BY DEF Words
    <3> QED
      BY <3>1, SubSeqProperties DEF Words
  <2> QED
    BY <1>3, <2>1
<1> QED
  BY <1>1, <1>2, <1>3 DEF write_bytes

\* What goes through is written as a text.
LEMMA UpdatedType ==
  ASSUME RecordsKnow, Refusal(path, call) = "none"
  PROVE  Updated(path, call) \in Words
<1>1. CASE call.old = <<>>
  BY <1>1 DEF Updated, RecordsKnow
<1>2. CASE call.old # <<>>
  <2> DEFINE used == Spelling(path.text, call)
  <2>1. used.new \in Words
    BY <1>2, GoesThrough
  <2>2. path.text \in Words
    BY DEF RecordsKnow
  <2>3. Updated(path, call) = replace(path.text, SearchText(path.text, used), used.new, call.all)
    BY <1>2 DEF Updated
  <2> HIDE DEF used
  <2> QED
    BY <2>1, <2>2, <2>3, ReplaceType DEF Words
<1> QED
  BY <1>1, <1>2

\* A count is told exactly when every occurrence was replaced.
LEMMA SuccessIs ==
  ASSUME RecordsKnow, Refusal(path, call) = "none"
  PROVE  /\ Success(path, call).tag \in {"ok", "all"}
         /\ Success(path, call).count > 0 <=> Success(path, call).tag = "all"
<1>1. CASE call.all /\ call.old # <<>>
  <2> DEFINE n == count_matches(path.text, Spelling(path.text, call).old)
  <2>1. n \in Nat \ {0}
    BY <1>1, GoesThrough
  <2> HIDE DEF n
  <2>2. Success(path, call) = Reply("all", n)
    BY <1>1 DEF Success, n
  <2> QED
    BY <2>1, <2>2 DEF Reply
<1>2. CASE ~(call.all /\ call.old # <<>>)
  <2>1. Success(path, call) = Reply("ok", 0)
    BY <1>2 DEF Success
  <2> QED
    BY <2>1 DEF Reply
<1> QED
  BY <1>1, <1>2

-----------------------------------------------------------------------------
(* The steps.                                                              *)

\* The first state: nothing, a directory or one of the files.
LEMMA InitIs == Init => EditInv
<1> SUFFICES ASSUME Init PROVE EditInv
  OBVIOUS
<1>1. /\ path \in {NoFile, Dir} \union {File(s) : s \in Contents}
      /\ call = NoCall /\ reply = Reply("none", 0) /\ disk = "none"
  BY DEF Init
<1>2. \A s \in Contents : s \in Words
  BY EditToolAssumption, SeqMonotonic DEF Words, Chars
<1>3. << >> \in Words
  BY DEF Words
<1>4. path \in [kind : {"none", "dir", "file"}, text : Words]
       /\ (path.kind # "file" => path.text = << >>)
  <2>1. CASE path \in {NoFile, Dir}
    BY <1>3, <2>1 DEF NoFile, Dir
  <2>2. ASSUME NEW s \in Contents, path = File(s)
        PROVE  path \in [kind : {"none", "dir", "file"}, text : Words] /\ path.kind = "file"
    BY <1>2, <2>2 DEF File
  <2> QED
    BY <1>1, <2>1, <2>2
<1>5. reply.tag = "none" /\ reply.count = 0
  BY <1>1 DEF Reply
<1>6. call \in [tool : {"none", "edit", "write"}, old : Words, new : Words,
                all : BOOLEAN, line : Nat]
      /\ call.line = 0 /\ call.tool = "none"
  BY <1>1, <1>3 DEF NoCall, Write
<1>7. RecordsKnow /\ AnchorKnows
  BY <1>4, <1>6 DEF RecordsKnow, AnchorKnows
<1>8. path.kind \in {"none", "dir", "file"}
  BY <1>4
<1>9. reply.tag \in Tags /\ (reply.count > 0 <=> reply.tag = "all")
  BY <1>5 DEF Tags
<1>10. TypeOK
  BY <1>1, <1>4, <1>6, <1>8, <1>9 DEF TypeOK
<1> QED
  BY <1>7, <1>10 DEF EditInv

\* A call that is posed, an anchored one with what makes it one.
LEMMA PoseKeeps ==
  ASSUME EditInv,
         NEW c \in [tool : {"none", "edit", "write"}, old : Words, new : Words,
                    all : BOOLEAN, line : Nat],
         Pose(c),
         c.line > 0 =>
           /\ c.tool = "edit" /\ ~c.all
           /\ path.kind = "file" /\ path.text # <<>>
           /\ c.line \in 1..LineCount(path.text)
           /\ UniqueRadii(path.text, c.line) # {}
           /\ c.old = window_text(path.text, unique_window(path.text, c.line))
  PROVE  EditInv'
<1>1. call' = c /\ reply' = Reply("none", 0) /\ disk' = "none" /\ path' = path
  BY DEF Pose
<1>2. RecordsKnow'
  BY <1>1 DEF EditInv, RecordsKnow
<1>3. TypeOK'
  <2>1. reply'.tag = "none" /\ reply'.count = 0
    BY <1>1 DEF Reply
  <2>2. reply'.tag \in Tags /\ (reply'.count > 0 <=> reply'.tag = "all")
    BY <2>1 DEF Tags
  <2>3. call'.tool \in {"none", "edit", "write"}
    BY <1>1
  <2> QED
    BY <1>1, <2>2, <2>3 DEF EditInv, TypeOK
<1>4. AnchorKnows'
  BY <1>1 DEF AnchorKnows
<1> QED
  BY <1>2, <1>3, <1>4 DEF EditInv

\* Arguments are texts.
LEMMA ArgumentsAreWords ==
  /\ \A old \in Olds : old \in Words
  /\ \A new \in News : new \in Words /\ extract_new_str(new) \in Words
<1>0. \A old \in Olds : old \in Words
  BY EditToolAssumption, SeqMonotonic DEF Words, Chars
<1> SUFFICES ASSUME NEW new \in News PROVE new \in Words /\ extract_new_str(new) \in Words
  BY <1>0
<1>1. new \in Words
  BY EditToolAssumption, SeqMonotonic DEF Words, Chars
<1>2. CASE new = << >>
  BY <1>1, <1>2 DEF extract_new_str
<1>3. CASE new # << >>
  <2>1. Len(new) \in Nat \ {0}
    BY <1>1, <1>3, EmptySeq DEF Words
  <2>2. \A i \in 1..(Len(new) - 1) : new[i] \in Chars
    BY <1>1, <2>1 DEF Words
  <2>3. SubSeq(new, 1, Len(new) - 1) \in Words
    BY <2>1, <2>2, SubSeqProperties DEF Words
  <2> QED
    BY <1>1, <2>3 DEF extract_new_str
<1> QED
  BY <1>1, <1>2, <1>3

\* The agent poses a call.
LEMMA AskKeeps == ASSUME EditInv, AskEdit \/ apply_block \/ anchor_line PROVE EditInv'
<1> DEFINE Calls == [tool : {"none", "edit", "write"}, old : Words, new : Words,
                     all : BOOLEAN, line : Nat]
<1>1. CASE AskEdit
  <2>1. PICK old \in Olds, new \in News, all \in BOOLEAN : Pose(Edit(old, new, all))
    BY <1>1 DEF AskEdit
  <2> DEFINE c == Edit(old, new, all)
  <2>2. c \in Calls /\ c.line = 0
    BY ArgumentsAreWords DEF Edit
  <2> HIDE DEF c
  <2>3. Pose(c)
    BY <2>1 DEF c
  <2> QED
    BY <2>2, <2>3, PoseKeeps
<1>2. CASE apply_block
  <2>1. PICK old \in Olds, new \in News :
          Pose(IF path.kind = "none" THEN Write(new) ELSE Edit(old, new, FALSE))
    BY <1>2 DEF apply_block
  <2> DEFINE c == IF path.kind = "none" THEN Write(new) ELSE Edit(old, new, FALSE)
  <2>2. << >> \in Words
    BY DEF Words
  <2>3. c \in Calls /\ c.line = 0
    BY <2>2, ArgumentsAreWords DEF Edit, Write
  <2> HIDE DEF c
  <2>4. Pose(c)
    BY <2>1 DEF c
  <2> QED
    BY <2>3, <2>4, PoseKeeps
<1>3. CASE anchor_line
  <2>1. path.text # <<>> /\ path.text \in Words /\ path.kind = "file"
    BY <1>3 DEF anchor_line, EditInv, RecordsKnow, TypeOK
  <2>2. PICK line \in 1..LineCount(path.text), reply_text \in News :
          /\ UniqueRadii(path.text, line) # {}
          /\ LET w == unique_window(path.text, line)
             IN  Pose([Edit(window_text(path.text, w), extract_new_str(reply_text), FALSE)
                         EXCEPT !.line = line])
    BY <1>3 DEF anchor_line
  <2> DEFINE t == window_text(path.text, unique_window(path.text, line))
             c == [Edit(t, extract_new_str(reply_text), FALSE) EXCEPT !.line = line]
  <2>3. t \in Words
    BY <2>1, <2>2, UniqueWindowIs DEF Words
  <2> HIDE DEF t
  <2>4. extract_new_str(reply_text) \in Words
    BY ArgumentsAreWords
  <2>5. /\ c \in Calls /\ c.line = line /\ c.tool = "edit" /\ ~c.all /\ c.old = t
    <3>1. line \in Nat
      OBVIOUS
    <3> QED
      BY <2>3, <2>4, <3>1 DEF Edit
  <2> HIDE DEF c
  <2>6. Pose(c)
    BY <2>2 DEF c, t
  <2> QED
    BY <2>1, <2>2, <2>5, <2>6, PoseKeeps DEF t
<1> QED
  BY <1>1, <1>2, <1>3

\* The tools answer.
LEMMA ToolKeeps == ASSUME EditInv, tool_edit \/ tool_write PROVE EditInv'
<1>1. call' = NoCall
  BY DEF tool_edit, tool_write
<1>2. /\ path' = path \/ \E t \in Words : path' = File(t)
      /\ disk' \in {"none", "written", "unopened", "short", "lost"}
      /\ reply'.tag \in Tags
      /\ reply'.count > 0 <=> reply'.tag = "all"
  <2>1. ASSUME NEW tag \in Tags \ {"all"}, Refuse(tag)
        PROVE  /\ path' = path /\ disk' = "none" /\ reply'.tag \in Tags
               /\ reply'.count > 0 <=> reply'.tag = "all"
    <3>1. path' = path /\ disk' = "none" /\ reply'.tag = tag /\ reply'.count = 0
      BY <2>1 DEF Refuse, Reply
    <3> QED
      BY <3>1
  <2>2. CASE Refusal(path, call) # "none" /\ Refuse(Refusal(path, call))
    <3>1. Refusal(path, call) \in Tags \ {"all"}
      BY DEF Refusal, Tags
    <3> QED
      BY <2>1, <2>2, <3>1
  <2>3. "unreadable" \in Tags \ {"all"} /\ "directory" \in Tags \ {"all"}
    BY DEF Tags
  <2>4. ASSUME NEW s \in Words, NEW success, write_bytes(s, success),
               success.tag \in {"ok", "all"}, success.count > 0 <=> success.tag = "all"
        PROVE  /\ path' = path \/ \E t \in Words : path' = File(t)
               /\ disk' \in {"none", "written", "unopened", "short", "lost"}
               /\ reply'.tag \in Tags
               /\ reply'.count > 0 <=> reply'.tag = "all"
    <3>1. /\ path' = path \/ \E t \in Words : path' = File(t)
          /\ disk' \in {"written", "unopened", "short", "lost"}
          /\ reply' \in {success, Reply("cannot open", 0), Reply("short write", 0)}
      BY <2>4, WriteBytesIs DEF EditInv
    <3>2. reply'.tag \in Tags /\ (reply'.count > 0 <=> reply'.tag = "all")
      <4>1. CASE reply' = success
        BY <2>4, <4>1 DEF Tags
      <4>2. ASSUME NEW tag \in {"cannot open", "short write"}, reply' = Reply(tag, 0)
            PROVE  reply'.tag \in Tags /\ (reply'.count > 0 <=> reply'.tag = "all")
        <5>1. reply'.tag = tag /\ reply'.count = 0
          BY <4>2 DEF Reply
        <5>2. tag \in Tags /\ tag # "all"
          BY DEF Tags
        <5>3. reply'.count > 0 <=> tag = "all"
          BY <5>1, <5>2, ZeroIsNotMore, Zenon
        <5> QED
          BY <5>1, <5>2, <5>3, Zenon
      <4> QED
        BY <3>1, <4>1, <4>2
    <3> QED
      BY <3>1, <3>2
  <2>5. CASE Refusal(path, call) = "none"
             /\ write_bytes(Updated(path, call), Success(path, call))
    BY <2>4, <2>5, UpdatedType, SuccessIs DEF EditInv
  <2>6. CASE write_bytes(call.new, Reply("ok", 0))
    <3>1. call.new \in Words /\ Reply("ok", 0).tag = "ok" /\ Reply("ok", 0).count = 0
      BY DEF EditInv, RecordsKnow, Reply
    <3> QED
      BY <2>4, <2>6, <3>1
  <2>7. CASE tool_edit
    <3>1. \/ Refusal(path, call) # "none" /\ Refuse(Refusal(path, call))
          \/ Refuse("unreadable")
          \/ Refusal(path, call) = "none"
             /\ write_bytes(Updated(path, call), Success(path, call))
      BY <2>7 DEF tool_edit
    <3> QED
      BY <2>1, <2>2, <2>3, <2>5, <3>1
  <2>8. CASE tool_write
    <3>1. Refuse("directory") \/ write_bytes(call.new, Reply("ok", 0))
      BY <2>8 DEF tool_write
    <3> QED
      BY <2>1, <2>3, <2>6, <3>1
  <2> QED
    BY <2>7, <2>8
<1>3. << >> \in Words
  BY DEF Words
<1>4. /\ path' \in [kind : {"none", "dir", "file"}, text : Words]
      /\ path'.kind # "file" => path'.text = << >>
  BY <1>2 DEF EditInv, RecordsKnow, TypeOK, File
<1>5. call' \in [tool : {"none", "edit", "write"}, old : Words, new : Words,
                  all : BOOLEAN, line : Nat]
      /\ call'.line = 0 /\ call'.tool = "none"
  BY <1>1, <1>3 DEF NoCall, Write
<1>6. path'.kind \in {"none", "dir", "file"}
  BY <1>4
<1> QED
  BY <1>2, <1>4, <1>5, <1>6 DEF EditInv, RecordsKnow, TypeOK, AnchorKnows

\* Every step keeps the invariant.
LEMMA NextKeeps == EditInv /\ [Next]_vars => EditInv'
<1> SUFFICES ASSUME EditInv, [Next]_vars PROVE EditInv'
  OBVIOUS
<1>1. CASE UNCHANGED vars
  BY <1>1 DEF vars, EditInv, TypeOK, RecordsKnow, AnchorKnows
<1> QED
  BY <1>1, AskKeeps, ToolKeeps DEF Next

\* The invariant holds of every series of calls.
THEOREM EditToolInvariant == Spec => []EditInv
  BY InitIs, NextKeeps, PTL DEF Spec

\* The path, the call and the answer are what they can be, and an answer
\* counts occurrences exactly when it says that all were replaced.
THEOREM EditToolTypes == Spec => []TypeOK
<1>1. EditInv => TypeOK
  BY DEF EditInv
<1> QED
  BY <1>1, EditToolInvariant, PTL

-----------------------------------------------------------------------------
(* The properties.                                                         *)

\* An edit that was kept was not refused, and wrote what it was to write.
LEMMA EditedIs ==
  ASSUME EditInv, Next, Edited
  PROVE  /\ Refusal(path, call) = "none"
         /\ path'.text = Updated(path, call)
         /\ reply' = Success(path, call)
<1>1. call.tool = "edit" /\ disk' = "written"
  BY DEF Edited
<1>2. tool_edit
  <2>1. NoCall.tool = "none"
    BY DEF NoCall, Write
  <2>2. call # NoCall
    BY <1>1, <2>1
  <2>3. ~AskEdit /\ ~apply_block /\ ~anchor_line
    BY <2>2 DEF AskEdit, apply_block, anchor_line, Free
  <2>4. ~tool_write
    BY <1>1 DEF tool_write
  <2> QED
    BY <2>3, <2>4 DEF Next
<1>3. /\ Refusal(path, call) = "none"
      /\ write_bytes(Updated(path, call), Success(path, call))
  BY <1>1, <1>2 DEF tool_edit, Refuse
<1>4. path' = File(Updated(path, call)) /\ reply' = Success(path, call)
  BY <1>1, <1>3 DEF write_bytes
<1> QED
  BY <1>3, <1>4 DEF File

\* An edit without replace_all changes one place of the file, by one reading
\* of its arguments, and that reading occurs nowhere else clear of the place;
\* the exact text is taken whenever the file holds it.
THEOREM EditsChangeOnePlace == Spec => OneEditOnePlace
<1>1. ASSUME EditInv, Next, Edited, ~call.all, call.old # <<>>
      PROVE  \E r \in Literal(path.text, call) :
               /\ Spliced(path.text, path'.text, r.old, r.new)
               /\ \A i, j \in Places(path.text, r.old) : j < i + Len(r.old)
  <2> DEFINE used == Spelling(path.text, call)
  <2>1. /\ Refusal(path, call) = "none" /\ path'.text = Updated(path, call)
        /\ RecordsKnow
    BY <1>1, EditedIs DEF EditInv
  <2>2. /\ used \in Literal(path.text, call) /\ used.old \in Words /\ used.old # <<>>
        /\ count_matches(path.text, used.old) = 1
    BY <1>1, <2>1, GoesThrough
  <2>3. Spliced(path.text, path'.text, used.old, used.new)
    BY <1>1, <2>1, UpdateSplices
  <2>4. path.text \in Words
    BY <2>1 DEF RecordsKnow
  <2> HIDE DEF used
  <2>5. \A i, j \in Places(path.text, used.old) : j < i + Len(used.old)
    BY <2>2, <2>4, HitsCount DEF Words
  <2> QED
    BY <2>2, <2>3, <2>5
<1>2. EditInv /\ [Next]_vars =>
        [Edited /\ ~call.all /\ call.old # <<>> =>
           \E r \in Literal(path.text, call) :
             /\ Spliced(path.text, path'.text, r.old, r.new)
             /\ \A i, j \in Places(path.text, r.old) : j < i + Len(r.old)]_vars
  BY <1>1
<1> QED
  BY <1>2, EditToolInvariant, PTL DEF Spec, OneEditOnePlace

\* No edit, of one place or of all, and no file made by an edit puts a numbered
\* paste into the file, whichever reading of the arguments was used.
THEOREM PastesNeverLand == Spec => PasteNeverLands
<1>1. ASSUME EditInv, Next, Edited
      PROVE  IF call.old = <<>> THEN ~Numbered(path'.text)
             ELSE \E r \in Literal(path.text, call) :
                    /\ ~Numbered(r.new)
                    /\ IF call.all
                       THEN path'.text = replace(path.text, SearchText(path.text, r), r.new, TRUE)
                       ELSE Spliced(path.text, path'.text, r.old, r.new)
  <2>1. /\ Refusal(path, call) = "none" /\ path'.text = Updated(path, call)
        /\ RecordsKnow
    BY <1>1, EditedIs DEF EditInv
  <2>2. CASE call.old = <<>>
    <3>1. ~Numbered(call.new)
      BY <2>1 DEF Refusal
    <3>2. path'.text = call.new
      BY <2>1, <2>2 DEF Updated
    <3> QED
      BY <2>2, <3>1, <3>2
  <2>3. CASE call.old # <<>>
    <3> DEFINE used == Spelling(path.text, call)
    <3>1. used \in Literal(path.text, call) /\ ~Numbered(used.new)
      BY <2>1, <2>3, GoesThrough
    <3>2. CASE ~call.all
      <4>1. Spliced(path.text, path'.text, used.old, used.new)
        BY <1>1, <2>1, <2>3, <3>2, UpdateSplices
      <4> HIDE DEF used
      <4> QED
        BY <2>3, <3>1, <3>2, <4>1
    <3>3. CASE call.all
      <4>1. path'.text = replace(path.text, SearchText(path.text, used), used.new, TRUE)
        BY <2>1, <2>3, <3>3 DEF Updated
      <4> HIDE DEF used
      <4> QED
        BY <2>3, <3>1, <3>3, <4>1
    <3> QED
      BY <3>2, <3>3
  <2> QED
    BY <2>2, <2>3
<1>2. EditInv /\ [Next]_vars =>
        [Edited =>
           IF call.old = <<>> THEN ~Numbered(path'.text)
           ELSE \E r \in Literal(path.text, call) :
                  /\ ~Numbered(r.new)
                  /\ IF call.all
                     THEN path'.text = replace(path.text, SearchText(path.text, r), r.new, TRUE)
                     ELSE Spliced(path.text, path'.text, r.old, r.new)]_vars
  BY <1>1
<1> QED
  BY <1>2, EditToolInvariant, PTL DEF Spec, PasteNeverLands

\* The count an edit reports is the number of replacements it made: the file
\* grew by that many times what one adds.
THEOREM CountsAreReplacements == Spec => CountIsReplacements
<1>1. ASSUME EditInv, Next, Edited, reply'.tag = "all", call.new # <<>>
      PROVE  \E r \in Literal(path.text, call) :
               \/ r.new = <<>>
               \/ Len(path'.text) - Len(path.text)
                    = reply'.count * (Len(r.new) - Len(r.old))
  <2> DEFINE used == Spelling(path.text, call)
             n == count_matches(path.text, used.old)
  <2>1. /\ Refusal(path, call) = "none" /\ path'.text = Updated(path, call)
        /\ reply' = Success(path, call) /\ RecordsKnow
    BY <1>1, EditedIs DEF EditInv
  <2>2. call.all /\ call.old # <<>> /\ reply' = Reply("all", n)
    BY <1>1, <2>1 DEF Success, Reply
  <2>3. /\ used \in Literal(path.text, call) /\ used.old \in Words /\ used.new \in Words
        /\ used.old # <<>> /\ Places(path.text, used.old) # {} /\ n \in Nat
    BY <2>1, <2>2, GoesThrough
  <2>4. path.text \in Words /\ call.all = TRUE
    BY <2>1, <2>2 DEF RecordsKnow
  <2>5. Updated(path, call)
          = replace(path.text, SearchText(path.text, used), used.new, TRUE)
    BY <2>2, <2>4 DEF Updated
  <2>6. reply'.count = n
    BY <2>2 DEF Reply
  <2> HIDE DEF used
  <2>7. CASE used.new # <<>>
    <3>1. SearchText(path.text, used) = used.old
      BY <2>3, <2>4, <2>7, SearchIs
    <3>2. Len(path'.text) = Len(path.text) + n * (Len(used.new) - Len(used.old))
      <4> DEFINE s == path.text
                 t == used.old
                 r == used.new
      <4>1. s \in Seq(Chars) /\ t \in Seq(Chars) /\ r \in Seq(Chars) /\ t # << >>
        BY <2>3, <2>4 DEF Words
      <4>2. path'.text = replace(s, t, r, TRUE) /\ n = count_matches(s, t)
        BY <2>1, <2>5, <3>1
      <4> HIDE DEF s, t, r, n
      <4>3. Len(path'.text) = Len(s) + n * (Len(r) - Len(t))
        BY <4>1, <4>2, ReplaceAllLength
      <4> QED
        BY <4>3 DEF s, t, r
    <3> DEFINE grown == n * (Len(used.new) - Len(used.old))
    <3>3. Len(path.text) \in Int /\ grown \in Int
      <4>1. Len(used.new) - Len(used.old) \in Int /\ n \in Int
        BY <2>3 DEF Words
      <4>2. Len(path.text) \in Int
        BY <2>4 DEF Words
      <4> QED
        BY <4>1, <4>2, OneTimeMore
    <3>4. Len(path'.text) - Len(path.text) = grown
      <4> HIDE DEF grown
      <4>1. Len(path'.text) = Len(path.text) + grown
        BY <3>2 DEF grown
      <4> QED
        BY <3>3, <4>1
    <3> QED
      BY <2>3, <2>6, <3>4
  <2> QED
    BY <2>3, <2>7
<1>2. EditInv /\ [Next]_vars =>
        [Edited /\ reply'.tag = "all" /\ call.new # <<>> =>
           \E r \in Literal(path.text, call) :
             \/ r.new = <<>>
             \/ Len(path'.text) - Len(path.text)
                  = reply'.count * (Len(r.new) - Len(r.old))]_vars
  BY <1>1
<1> QED
  BY <1>2, EditToolInvariant, PTL DEF Spec, CountIsReplacements

\* The window that the agent sliced from the file is never refused as
\* ambiguous or as not found.
THEOREM WindowsAreAccepted == Spec => WindowIsAccepted
<1>1. ASSUME EditInv, Next, call.line > 0, call' = NoCall
      PROVE  reply'.tag \notin {"ambiguous", "not found", "exists", "missing"}
  <2>1. /\ call.tool = "edit" /\ ~call.all /\ path.kind = "file" /\ call.old # <<>>
        /\ count_matches(path.text, call.old) = 1 /\ RecordsKnow
    BY <1>1, AnchorIs DEF EditInv, AnchorKnows
  <2>2. Spelling(path.text, call) = call
    BY <2>1, SpellingIs DEF RecordsKnow
  <2>3. Refusal(path, call) \in {"identical", "numbered", "none"}
    BY <2>1, <2>2 DEF Refusal
  <2>4. tool_edit
    <3>1. NoCall.tool = "none"
      BY DEF NoCall, Write
    <3>2. call # NoCall
      BY <2>1, <3>1
    <3>3. ~AskEdit /\ ~apply_block /\ ~anchor_line
      BY <3>2 DEF AskEdit, apply_block, anchor_line, Free
    <3>4. ~tool_write
      BY <2>1 DEF tool_write
    <3> QED
      BY <1>1, <3>3, <3>4 DEF Next
  <2>5. CASE Refusal(path, call) # "none" /\ Refuse(Refusal(path, call))
    <3>1. Refusal(path, call) \in {"identical", "numbered"}
      BY <2>3, <2>5
    <3>2. reply'.tag = Refusal(path, call)
      BY <2>5 DEF Refuse, Reply
    <3> QED
      BY <3>1, <3>2
  <2>6. CASE Refuse("unreadable")
    BY <2>6 DEF Refuse, Reply
  <2>7. CASE write_bytes(Updated(path, call), Success(path, call))
    <3>1. \/ reply' = Success(path, call)
          \/ reply' = Reply("cannot open", 0)
          \/ reply' = Reply("short write", 0)
      BY <2>7 DEF write_bytes
    <3>2. Success(path, call).tag \in {"ok", "all"}
      BY DEF Success, Reply
    <3>3. /\ Reply("cannot open", 0).tag = "cannot open"
          /\ Reply("short write", 0).tag = "short write"
      BY DEF Reply
    <3> QED
      BY <3>1, <3>2, <3>3
  <2> QED
    BY <2>4, <2>5, <2>6, <2>7 DEF tool_edit
<1>2. EditInv /\ [Next]_vars =>
        [call.line > 0 /\ call' = NoCall
           => reply'.tag \notin {"ambiguous", "not found", "exists", "missing"}]_vars
  BY <1>1
<1> QED
  BY <1>2, EditToolInvariant, PTL DEF Spec, WindowIsAccepted

\* An anchored edit whose bytes stand in one place covers the picked line
\* there, and leaves everything outside the place alone.
THEOREM AnchorsCoverTheirLine == Spec => AnchorCoversLine
<1>1. ASSUME EditInv, Next, Edited, call.line > 0,
             Cardinality(Places(path.text, call.old)) = 1,
             NEW i \in Places(path.text, call.old)
      PROVE  LET l == NthLine(path.text, call.line)
             IN  /\ i <= l[1] /\ l[2] < i + Len(call.old)
                 /\ Spliced(path.text, path'.text, call.old, call.new)
  <2> DEFINE l == NthLine(path.text, call.line)
             w == unique_window(path.text, call.line)
             P == Places(path.text, call.old)
  <2>1. /\ Refusal(path, call) = "none" /\ path'.text = Updated(path, call)
        /\ RecordsKnow /\ ~call.all
    BY <1>1, EditedIs DEF EditInv, AnchorKnows
  <2>2. /\ call.old # <<>> /\ count_matches(path.text, call.old) = 1
        /\ w[1] \in P /\ w[1] <= l[1] /\ l[2] < w[1] + Len(call.old)
    BY <1>1, AnchorIs
  <2>3. Spelling(path.text, call) = call
    BY <2>1, <2>2, SpellingIs DEF RecordsKnow
  <2>4. Spliced(path.text, path'.text, call.old, call.new)
    BY <2>1, <2>2, <2>3, UpdateSplices
  <2> HIDE DEF w, l
  <2>5. i = w[1]
    <3>1. path.text \in Seq(Chars) /\ Len(path.text) \in Nat
      BY <2>1 DEF RecordsKnow, Words
    <3>2. P \subseteq 0..Len(path.text)
      BY <3>1 DEF Places
    <3> HIDE DEF P
    <3> DEFINE n == Len(path.text)
    <3>4. n \in Nat /\ P \subseteq 0..n /\ Cardinality(P) = 1
      BY <1>1, <3>1, <3>2 DEF P
    <3> HIDE DEF n
    <3>3. PICK x : P = {x}
      BY <3>4, Positions
    <3> QED
      BY <1>1, <2>2, <3>3 DEF P
  <2> QED
    BY <2>2, <2>4, <2>5 DEF l
<1>2. EditInv /\ [Next]_vars =>
        [Edited /\ call.line > 0 /\ Cardinality(Places(path.text, call.old)) = 1 =>
           LET l == NthLine(path.text, call.line)
           IN  \A i \in Places(path.text, call.old) :
                 /\ i <= l[1] /\ l[2] < i + Len(call.old)
                 /\ Spliced(path.text, path'.text, call.old, call.new)]_vars
  BY <1>1
<1> QED
  BY <1>2, EditToolInvariant, PTL DEF Spec, AnchorCoversLine
=============================================================================
