--------------------------- MODULE EditStepProofs ---------------------------
(***************************************************************************)
(* Theorems about a decision and its edit, for every set of statuses,      *)
(* headers, questions, answers, drafts and exit codes.  What the body file *)
(* holds is known from the retry loop: a body of an earlier attempt came   *)
(* with a status that is retried, and an answer with status 200 ends the   *)
(* loop.  The invariant of the call itself is TypesafeRetryProofs'.  What  *)
(* a question is answered is taken from its own object: a response is      *)
(* followed token by token from its fields to the values the extractor     *)
(* finds, whole or cut anywhere.                                           *)
(***************************************************************************)
EXTENDS EditStep, TypesafeRetryProofs, RecursionLemmas
LOCAL INSTANCE SequencesExt

\* A body is of an attempt that was made; one of an earlier attempt, or of
\* this one when it is to be repeated, came with a retried status.
BodyKnows ==
  /\ stage \in {"key", "payload", "temp"} => body = 0
  /\ stage = "post" => body < attempt
  /\ body # 0 /\ (body < attempt \/ stage = "wait") => wrote \in Retryable
  /\ body # 0 /\ body = attempt => wrote = status
  /\ reply.why = "body" => body # 0

\* Only a body with status 200 holds answers.
AnswerKnows ==
  /\ phase # "classify" => stage = "done"
  /\ phase = "route" =>
       \/ reply.why = "body" /\ wrote = 200
       \/ json \in {ErrorObject, Detail, EmptyObject, ErrorBody}
  /\ phase \in {"generate", "draft", "apply", "check", "verify"} => status = 200 /\ body = attempt

\* The static variable is the call's own between the worker and the pack, and
\* the result is made of it.
CommandKnows ==
  /\ running = "pack" => command_run_status = StatusOf(child)
  /\ result.tag = "done" => StatusOf(child) = 0
  /\ result.tag = "fail" => StatusOf(child) # 0
  /\ running # "no" => result.tag = "none"
  /\ outcome \in {"kept", "broken"} => phase = "end"

RequestKnows == gstage \in {"key", "temp", "done"} => request = "none"

StepKnows == /\ CallInv
             /\ BodyKnows
             /\ AnswerKnows
             /\ CommandKnows
             /\ VerdictIsOwn
             /\ RequestKnows

-----------------------------------------------------------------------------
(* What is extracted.                                                      *)

\* No question's name stands in an error of either service, nor in the bodies
\* the workers make up themselves (json_parse_c.c: answer_build).
LEMMA ErrorAnswersNothing ==
  ASSUME NEW q \in STRING, q \notin ErrorWords,
         NEW b \in {ErrorObject, Detail, EmptyObject, ErrorBody}
  PROVE  answer_build(b, q).tag = "missing"
<1>1. \A i \in 1..Len(b) : b[i].s \in ErrorWords
  <2> DEFINE open == Mark("{")   close == Mark("}")   colon == Mark(":")
             err == Str("error") msg == Str("message") det == Str("detail") why == Str("why")
             W == {open, close, colon, err, msg, det, why}
  <2>1. \A t \in W : t.s \in ErrorWords
    <3>1. \A w : Str(w).s = w /\ Mark(w).s = ""
      BY DEF Str, Mark, Tok
    <3> QED
      BY <3>1 DEF ErrorWords
  <2>2. ErrorObject = <<open, err, colon, open, msg, colon, why, close, close>>
    BY Zenon DEF ErrorObject
  <2>3. Detail = <<open, det, colon, why, close>> /\ ErrorBody = <<open, err, colon, why, close>>
    BY Zenon DEF Detail, ErrorBody
  <2>4. EmptyObject = <<open, close>>
    BY Zenon DEF EmptyObject
  <2> HIDE DEF open, close, colon, err, msg, det, why
  <2>5. /\ ErrorObject \in Seq(W) /\ Detail \in Seq(W)
        /\ EmptyObject \in Seq(W) /\ ErrorBody \in Seq(W)
    BY <2>2, <2>3, <2>4
  <2> HIDE DEF W
  <2>6. \A i \in 1..Len(b) : b[i] \in W
    BY <2>5
  <2> QED
    BY <2>1, <2>6
<1>2. Str(q).s = q
  BY DEF Str, Tok
<1>3. Named(b, q) = {}
  BY <1>1, <1>2, Zenon DEF Named
<1>4. answer_missing(b).tag = "missing"
  BY DEF answer_missing, Missing, Answer
<1>5. Missing("empty").tag = "missing"
  BY DEF Missing, Answer
<1> QED
  BY <1>3, <1>4, <1>5 DEF answer_build

-----------------------------------------------------------------------------
(* What a response is made of.                                             *)

Words == STRING \union ErrorWords \union ResponseWords \union {"choice", "confidence"}
\* The marks.
Opens == Mark("{")
Closes == Mark("}")
Colon == Mark(":")
Comma == Mark(",")
\* The tokens of a response.
Token == {Opens, Closes, Colon, Comma} \union {Str(w) : w \in Words}
           \union {Num(n) : n \in Nat}

\* The parts of a token.
LEMMA TokenParts ==
  \A x : /\ Mark(x).k = x /\ Mark(x).s = ""
         /\ Str(x).k = "str" /\ Str(x).s = x
         /\ Open(x).k = "open" /\ Open(x).s = x
         /\ Num(x).k = "num" /\ Num(x).n = x
  BY DEF Mark, Str, Open, Num, Tok

\* Marks, numbers and the words of a response are tokens.
LEMMA TokenIn ==
  /\ Opens \in Token /\ Closes \in Token /\ Colon \in Token /\ Comma \in Token
  /\ \A w \in ResponseWords \union STRING : Str(w) \in Token
  /\ \A n \in Nat : Num(n) \in Token
<1>1. \A w \in ResponseWords \union STRING : w \in Words
  BY DEF Words
<1> QED
  BY <1>1, Zenon DEF Token

\* Two texts joined.
IsJoin(t, a, b) ==
  /\ Len(t) = Len(a) + Len(b)
  /\ \A i \in 1..Len(a) : t[i] = a[i]
  /\ \A i \in (Len(a) + 1)..Len(t) : t[i] = b[i - Len(a)]
LEMMA JoinParts ==
  ASSUME NEW S, NEW a \in Seq(S), NEW b \in Seq(S)
  PROVE  a \o b \in Seq(S) /\ IsJoin(a \o b, a, b)
  BY DEF IsJoin

\* A key and its value.
IsField(t, key, v) ==
  /\ Len(t) = Len(v) + 2
  /\ t[1] = Str(key) /\ t[2] = Colon
  /\ \A i \in 3..Len(t) : t[i] = v[i - 2]
LEMMA FieldParts ==
  ASSUME NEW key \in ResponseWords \union STRING, NEW v \in Seq(Token)
  PROVE  Field(key, v) \in Seq(Token) /\ IsField(Field(key, v), key, v)
<1> DEFINE a == Str(key)   b == Colon
<1>1. a \in Token /\ b \in Token
  BY TokenIn
<1>2. Field(key, v) = <<a, b>> \o v
  BY Zenon DEF Field, Colon
<1> HIDE DEF a, b
<1>3. <<a, b>> \o v \in Seq(Token) /\ IsField(<<a, b>> \o v, key, v) <=>
        a = Str(key) /\ b = Colon
  <2> DEFINE t == <<a, b>> \o v
  <2>1. t \in Seq(Token) /\ Len(t) = Len(v) + 2 /\ t[1] = a /\ t[2] = b
        /\ \A i \in 3..Len(t) : t[i] = v[i - 2]
    BY <1>1
  <2> HIDE DEF t
  <2> QED
    BY <2>1, Zenon DEF IsField, t
<1> QED
  BY <1>2, <1>3, Zenon DEF a, b

\* The same behind a comma.
IsMore(t, key, v) ==
  /\ Len(t) = Len(v) + 3
  /\ t[1] = Comma /\ t[2] = Str(key) /\ t[3] = Colon
  /\ \A i \in 4..Len(t) : t[i] = v[i - 3]
LEMMA MoreParts ==
  ASSUME NEW key \in ResponseWords \union STRING, NEW v \in Seq(Token)
  PROVE  More(key, v) \in Seq(Token) /\ IsMore(More(key, v), key, v)
<1> DEFINE c == Comma   u == Field(key, v)   t == <<c>> \o u
<1>1. c \in Token
  BY TokenIn
<1>2. u \in Seq(Token) /\ IsField(u, key, v)
  BY FieldParts
<1>3. More(key, v) = t
  BY Zenon DEF More, Comma
<1> HIDE DEF c, u
<1>4. t \in Seq(Token) /\ Len(t) = Len(u) + 1 /\ t[1] = c /\ \A i \in 2..Len(t) : t[i] = u[i - 1]
  BY <1>1, <1>2
<1> HIDE DEF t
<1>5. /\ Len(t) = Len(v) + 3 /\ t[2] = u[1] /\ t[3] = u[2]
      /\ \A i \in 4..Len(t) : t[i] = v[i - 3]
  <2>1. Len(v) \in Nat /\ Len(u) = Len(v) + 2 /\ \A i \in 3..Len(u) : u[i] = v[i - 2]
    BY <1>2 DEF IsField
  <2>2. Len(t) = Len(v) + 3 /\ t[2] = u[1] /\ t[3] = u[2]
    BY <1>4, <2>1
  <2>3. ASSUME NEW i \in 4..Len(t) PROVE t[i] = v[i - 3]
    <3>1. i - 1 \in 3..Len(u) /\ (i - 1) - 2 = i - 3 /\ i \in 2..Len(t)
      BY <1>4, <2>1
    <3> QED
      BY <1>4, <2>1, <3>1
  <2> QED
    BY <2>2, <2>3
<1>6. IsMore(t, key, v)
  BY <1>2, <1>4, <1>5, Zenon DEF IsField, IsMore, c
<1> QED
  BY <1>3, <1>4, <1>6

\* Braces around fields.
IsObject(t, v) ==
  /\ Len(t) = Len(v) + 2
  /\ t[1] = Opens /\ t[Len(v) + 2] = Closes
  /\ \A i \in 2..(Len(v) + 1) : t[i] = v[i - 1]
LEMMA ObjectParts ==
  ASSUME NEW v \in Seq(Token)
  PROVE  Object(v) \in Seq(Token) /\ IsObject(Object(v), v)
<1> DEFINE a == Opens   b == Closes   t == <<a>> \o v \o <<b>>
<1>1. a \in Token /\ b \in Token
  BY TokenIn
<1>2. Object(v) = t
  BY Zenon DEF Object, Opens, Closes
<1> HIDE DEF a, b
<1>3. t \in Seq(Token) /\ Len(t) = Len(v) + 2 /\ t[1] = a /\ t[Len(v) + 2] = b
      /\ \A i \in 2..(Len(v) + 1) : t[i] = v[i - 1]
  <2> DEFINE u == <<a>> \o v
  <2>1. u \in Seq(Token) /\ Len(u) = Len(v) + 1 /\ u[1] = a
        /\ \A i \in 2..(Len(v) + 1) : u[i] = v[i - 1]
    BY <1>1
  <2> DEFINE w == <<b>>
  <2>2. t = u \o w
    OBVIOUS
  <2>3. w \in Seq(Token) /\ Len(w) = 1 /\ w[1] = b
    BY <1>1
  <2>4. t \in Seq(Token) /\ IsJoin(t, u, w)
    <3> HIDE DEF t, u, w
    <3> QED
      BY <2>1, <2>2, <2>3, JoinParts
  <2> HIDE DEF t, u, w
  <2> QED
    BY <2>1, <2>3, <2>4 DEF IsJoin
<1> HIDE DEF t
<1>4. IsObject(t, v)
  BY <1>3, Zenon DEF IsObject, a, b
<1> QED
  BY <1>2, <1>3, <1>4

-----------------------------------------------------------------------------
(* The fields of an answer, place by place.                                *)

\* The fields of a choice; c is the room of its confidence.
Room(a) == IF a.conf = 0 THEN 0 ELSE 4
IsChoice(t, a, c) ==
  /\ Len(t) = c + 15
  /\ t[1] = Str("type") /\ t[2] = Colon /\ t[3] = Str("choice") /\ t[4] = Comma
  /\ t[5] = Str("choice") /\ t[6] = Colon /\ t[7] = Str(a.label) /\ t[8] = Comma
  /\ c = 4 => /\ t[9] = Str("confidence") /\ t[10] = Colon /\ t[11] = Num(a.conf)
              /\ t[12] = Comma
  /\ t[c + 9] = Str("probabilities") /\ t[c + 10] = Colon /\ t[c + 11] = Opens
  /\ t[c + 12] = Str(a.label) /\ t[c + 13] = Colon /\ t[c + 14] = Num(78)
  /\ t[c + 15] = Closes

\* The confidence is four tokens or none.
LEMMA ConfidenceParts ==
  ASSUME NEW a, a.conf \in Nat
  PROVE  /\ Confidence(a) \in Seq(Token) /\ Len(Confidence(a)) = Room(a)
         /\ a.conf # 0 => /\ Confidence(a)[1] = Comma /\ Confidence(a)[2] = Str("confidence")
                          /\ Confidence(a)[3] = Colon /\ Confidence(a)[4] = Num(a.conf)
<1>1. CASE a.conf = 0
  <2>1. Confidence(a) = <<>> /\ Room(a) = 0
    BY <1>1 DEF Confidence, Room
  <2> QED
    BY <1>1, <2>1
<1>2. CASE a.conf # 0
  <2> DEFINE x == Num(a.conf)   v == <<x>>   t == More("confidence", v)
  <2>1. x \in Token /\ "confidence" \in ResponseWords
    BY TokenIn DEF ResponseWords
  <2> HIDE DEF x
  <2>2. v \in Seq(Token) /\ Len(v) = 1 /\ v[1] = x
    BY <2>1
  <2> HIDE DEF v
  <2>3. t \in Seq(Token) /\ IsMore(t, "confidence", v)
    BY <2>1, <2>2, MoreParts
  <2>4. Confidence(a) = t /\ Room(a) = 4
    BY <1>2 DEF Confidence, Room, v, x
  <2> HIDE DEF t
  <2>5. Len(t) = 4 /\ t[1] = Comma /\ t[2] = Str("confidence") /\ t[3] = Colon /\ t[4] = x
    BY <2>2, <2>3 DEF IsMore
  <2> QED
    BY <2>3, <2>4, <2>5 DEF x
<1> QED
  BY <1>1, <1>2

\* A key with a single value.
LEMMA OneField ==
  ASSUME NEW key \in ResponseWords \union STRING, NEW x \in Token
  PROVE  /\ Field(key, <<x>>) \in Seq(Token) /\ Len(Field(key, <<x>>)) = 3
         /\ Field(key, <<x>>)[1] = Str(key) /\ Field(key, <<x>>)[2] = Colon
         /\ Field(key, <<x>>)[3] = x
         /\ More(key, <<x>>) \in Seq(Token) /\ Len(More(key, <<x>>)) = 4
         /\ More(key, <<x>>)[1] = Comma /\ More(key, <<x>>)[2] = Str(key)
         /\ More(key, <<x>>)[3] = Colon /\ More(key, <<x>>)[4] = x
<1> DEFINE v == <<x>>
<1>1. v \in Seq(Token) /\ Len(v) = 1 /\ v[1] = x
  OBVIOUS
<1> HIDE DEF v
<1> DEFINE t == Field(key, v)   u == More(key, v)
<1>2. t \in Seq(Token) /\ IsField(t, key, v) /\ u \in Seq(Token) /\ IsMore(u, key, v)
  BY <1>1, FieldParts, MoreParts
<1> HIDE DEF t, u
<1>3. /\ t \in Seq(Token) /\ Len(t) = 3 /\ t[1] = Str(key) /\ t[2] = Colon /\ t[3] = x
      /\ u \in Seq(Token) /\ Len(u) = 4 /\ u[1] = Comma /\ u[2] = Str(key)
      /\ u[3] = Colon /\ u[4] = x
  BY <1>1, <1>2 DEF IsField, IsMore
<1> QED
  BY <1>3, Zenon DEF t, u, v

\* The fields of a choice are these.
LEMMA ChoiceFields ==
  ASSUME NEW a, a.tag = "chosen", a.label \in STRING, a.conf \in Nat
  PROVE  Fields(a) \in Seq(Token) /\ IsChoice(Fields(a), a, Room(a))
<1> DEFINE x1 == Str("choice")   x2 == Str(a.label)   x3 == Num(78)
           t1 == Field("type", <<x1>>)   t2 == More("choice", <<x2>>)   t3 == Confidence(a)
           u == Field(a.label, <<x3>>)   v == Object(u)   t4 == More("probabilities", v)
           c == Room(a)
<1>1. /\ x1 \in Token /\ x2 \in Token /\ x3 \in Token
      /\ {"type", "choice", "probabilities"} \subseteq ResponseWords
  BY TokenIn DEF ResponseWords
<1>2. Fields(a) = ((t1 \o t2) \o t3) \o t4
  BY Zenon DEF Fields
<1>3. c \in {0, 4} /\ (c = 4 => a.conf # 0)
  BY DEF Room
<1> HIDE DEF x1, x2, x3, c
<1>4. /\ t1 \in Seq(Token) /\ Len(t1) = 3 /\ t1[1] = Str("type") /\ t1[2] = Colon /\ t1[3] = x1
      /\ t2 \in Seq(Token) /\ Len(t2) = 4 /\ t2[1] = Comma /\ t2[2] = Str("choice")
      /\ t2[3] = Colon /\ t2[4] = x2
      /\ u \in Seq(Token) /\ Len(u) = 3 /\ u[1] = Str(a.label) /\ u[2] = Colon /\ u[3] = x3
  BY <1>1, OneField, Zenon
<1>5. /\ t3 \in Seq(Token) /\ Len(t3) = c
      /\ c = 4 => /\ t3[1] = Comma /\ t3[2] = Str("confidence")
                  /\ t3[3] = Colon /\ t3[4] = Num(a.conf)
  BY <1>3, ConfidenceParts DEF c
<1> HIDE DEF t1, t2, t3, u
<1>6. v \in Seq(Token) /\ IsObject(v, u)
  BY <1>4, ObjectParts
<1> HIDE DEF v
<1>7. v \in Seq(Token) /\ Len(v) = 5 /\ v[1] = Opens /\ v[2] = Str(a.label) /\ v[3] = Colon
      /\ v[4] = x3 /\ v[5] = Closes
  <2>2. v[2] = u[1] /\ v[3] = u[2] /\ v[4] = u[3]
    BY <1>4, <1>6 DEF IsObject
  <2>3. Len(v) = 5 /\ v[1] = Opens /\ v[5] = Closes
    BY <1>4, <1>6 DEF IsObject
  <2> QED
    BY <1>4, <1>6, <2>2, <2>3
<1>8. t4 \in Seq(Token) /\ IsMore(t4, "probabilities", v)
  BY <1>1, <1>7, MoreParts
<1> HIDE DEF t4
<1>9. /\ t4 \in Seq(Token) /\ Len(t4) = 8 /\ t4[1] = Comma /\ t4[2] = Str("probabilities")
      /\ t4[3] = Colon /\ t4[4] = Opens /\ t4[5] = Str(a.label) /\ t4[6] = Colon
      /\ t4[7] = x3 /\ t4[8] = Closes
  <2>2. t4[4] = v[1] /\ t4[5] = v[2] /\ t4[6] = v[3] /\ t4[7] = v[4] /\ t4[8] = v[5]
    BY <1>7, <1>8 DEF IsMore
  <2> QED
    BY <1>7, <1>8, <2>2 DEF IsMore
<1> DEFINE p == t1 \o t2   r == p \o t3   t == r \o t4
<1>10. p \in Seq(Token) /\ IsJoin(p, t1, t2)
  BY <1>4, JoinParts
<1> HIDE DEF p
<1>11. Len(p) = 7 /\ r \in Seq(Token) /\ IsJoin(r, p, t3)
  <2>1. Len(p) = 7
    BY <1>4, <1>10 DEF IsJoin
  <2> QED
    BY <1>5, <1>10, <2>1, JoinParts
<1> HIDE DEF r
<1>12. Len(r) = c + 7 /\ t \in Seq(Token) /\ IsJoin(t, r, t4)
  <2>1. Len(r) = c + 7
    BY <1>3, <1>5, <1>11 DEF IsJoin
  <2> QED
    BY <1>9, <1>11, <2>1, JoinParts
<1> HIDE DEF t
<1>18. Len(t) = c + 15
  BY <1>3, <1>9, <1>12 DEF IsJoin
<1>13. /\ t[1] = t1[1] /\ t[2] = t1[2] /\ t[3] = t1[3] /\ t[4] = t2[1] /\ t[5] = t2[2]
       /\ t[6] = t2[3] /\ t[7] = t2[4]
  <2>1. p[1] = t1[1] /\ p[2] = t1[2] /\ p[3] = t1[3] /\ p[4] = t2[1] /\ p[5] = t2[2]
        /\ p[6] = t2[3] /\ p[7] = t2[4]
    BY <1>4, <1>10 DEF IsJoin
  <2>2. \A i \in 1..7 : t[i] = p[i]
    BY <1>3, <1>11, <1>12 DEF IsJoin
  <2> QED
    BY <2>1, <2>2
<1>14. /\ t[c + 8] = t4[1] /\ t[c + 9] = t4[2] /\ t[c + 10] = t4[3] /\ t[c + 11] = t4[4]
       /\ t[c + 12] = t4[5] /\ t[c + 13] = t4[6] /\ t[c + 14] = t4[7] /\ t[c + 15] = t4[8]
  <2>1. \A i \in (c + 8)..(c + 15) : t[i] = t4[i - (c + 7)]
    BY <1>3, <1>12, <1>18 DEF IsJoin
  <2> QED
    BY <1>3, <2>1
<1>15. c = 4 => t[8] = t3[1] /\ t[9] = t3[2] /\ t[10] = t3[3] /\ t[11] = t3[4] /\ t[12] = t4[1]
  <2>1. c = 4 => r[8] = t3[1] /\ r[9] = t3[2] /\ r[10] = t3[3] /\ r[11] = t3[4]
    BY <1>5, <1>11, <1>12 DEF IsJoin
  <2>2. \A i \in 1..(c + 7) : t[i] = r[i]
    BY <1>12 DEF IsJoin
  <2> QED
    BY <1>14, <2>1, <2>2
<1>16. c = 0 => t[8] = t4[1]
  BY <1>14
<1>17. IsChoice(t, a, c)
  <2>1. Len(t) = c + 15 /\ t[1] = Str("type") /\ t[2] = Colon /\ t[3] = Str("choice")
        /\ t[4] = Comma /\ t[5] = Str("choice") /\ t[6] = Colon /\ t[7] = Str(a.label)
    BY <1>4, <1>18, <1>13, Zenon DEF x1, x2
  <2>2. t[8] = Comma
    BY <1>3, <1>5, <1>9, <1>15, <1>16
  <2>3. c = 4 => /\ t[9] = Str("confidence") /\ t[10] = Colon /\ t[11] = Num(a.conf)
                /\ t[12] = Comma
    BY <1>5, <1>9, <1>15, Zenon
  <2>4. /\ t[c + 9] = Str("probabilities") /\ t[c + 10] = Colon /\ t[c + 11] = Opens
        /\ t[c + 12] = Str(a.label) /\ t[c + 13] = Colon /\ t[c + 14] = Num(78)
        /\ t[c + 15] = Closes
    BY <1>9, <1>14, Zenon DEF x3
  <2> QED
    BY <2>1, <2>2, <2>3, <2>4, Zenon DEF IsChoice
<1> QED
  BY <1>2, <1>12, <1>17, Zenon DEF t, r, p, c

\* The fields of a score, of a yes-or-no, and of neither.
IsScore(t, a, c) ==
  /\ Len(t) = c + 7
  /\ t[1] = Str("type") /\ t[2] = Colon /\ t[3] = Str("score") /\ t[4] = Comma
  /\ t[5] = Str("score") /\ t[6] = Colon /\ t[7] = Num(a.value)
  /\ c = 4 => /\ t[8] = Comma /\ t[9] = Str("confidence") /\ t[10] = Colon
              /\ t[11] = Num(a.conf)
IsNoul(t, a) ==
  /\ Len(t) = 7
  /\ t[1] = Str("type") /\ t[2] = Colon /\ t[3] = Str("noul") /\ t[4] = Comma
  /\ t[5] = Str("noul") /\ t[6] = Colon /\ t[7] = Num(a.value)
IsNull(t) == Len(t) = 3 /\ t[1] = Str("type") /\ t[2] = Colon /\ t[3] = Str("null")

\* The fields of a score are these.
LEMMA ScoreFields ==
  ASSUME NEW a, a.tag = "scored", a.value \in Nat, a.conf \in Nat
  PROVE  Fields(a) \in Seq(Token) /\ IsScore(Fields(a), a, Room(a))
<1> DEFINE x1 == Str("score")   x2 == Num(a.value)
           t1 == Field("type", <<x1>>)   t2 == More("score", <<x2>>)   t3 == Confidence(a)
           c == Room(a)   p == t1 \o t2   t == p \o t3
<1>1. x1 \in Token /\ x2 \in Token /\ {"type", "score"} \subseteq ResponseWords
  BY TokenIn DEF ResponseWords
<1>2. Fields(a) = t
  BY Zenon DEF Fields
<1>3. c \in {0, 4} /\ (c = 4 => a.conf # 0)
  BY DEF Room
<1> HIDE DEF x1, x2, c
<1>4. /\ t1 \in Seq(Token) /\ Len(t1) = 3 /\ t1[1] = Str("type") /\ t1[2] = Colon /\ t1[3] = x1
      /\ t2 \in Seq(Token) /\ Len(t2) = 4 /\ t2[1] = Comma /\ t2[2] = Str("score")
      /\ t2[3] = Colon /\ t2[4] = x2
  BY <1>1, OneField, Zenon
<1>5. /\ t3 \in Seq(Token) /\ Len(t3) = c
      /\ c = 4 => /\ t3[1] = Comma /\ t3[2] = Str("confidence")
                  /\ t3[3] = Colon /\ t3[4] = Num(a.conf)
  BY <1>3, ConfidenceParts DEF c
<1> HIDE DEF t1, t2, t3
<1>6. p \in Seq(Token) /\ IsJoin(p, t1, t2)
  BY <1>4, JoinParts
<1> HIDE DEF p
<1>7. t \in Seq(Token) /\ IsJoin(t, p, t3)
  BY <1>5, <1>6, JoinParts
<1> HIDE DEF t
<1>8. /\ Len(p) = 7 /\ p[1] = t1[1] /\ p[2] = t1[2] /\ p[3] = t1[3] /\ p[4] = t2[1]
      /\ p[5] = t2[2] /\ p[6] = t2[3] /\ p[7] = t2[4]
  BY <1>4, <1>6 DEF IsJoin
<1>9. /\ Len(t) = c + 7 /\ \A i \in 1..7 : t[i] = p[i]
      /\ c = 4 => t[8] = t3[1] /\ t[9] = t3[2] /\ t[10] = t3[3] /\ t[11] = t3[4]
  BY <1>3, <1>5, <1>7, <1>8 DEF IsJoin
<1>10. /\ t[1] = p[1] /\ t[2] = p[2] /\ t[3] = p[3] /\ t[4] = p[4] /\ t[5] = p[5]
       /\ t[6] = p[6] /\ t[7] = p[7]
  BY <1>9
<1>11. IsScore(t, a, c)
  BY <1>4, <1>5, <1>8, <1>9, <1>10, Zenon DEF IsScore, x1, x2
<1> QED
  BY <1>2, <1>7, <1>11, Zenon DEF c

\* Those of a noul.
LEMMA NoulFields ==
  ASSUME NEW a, a.tag = "nouled", a.value \in Nat
  PROVE  Fields(a) \in Seq(Token) /\ IsNoul(Fields(a), a)
<1> DEFINE x1 == Str("noul")   x2 == Num(a.value)
           t1 == Field("type", <<x1>>)   t2 == More("noul", <<x2>>)   t == t1 \o t2
<1>1. x1 \in Token /\ x2 \in Token /\ {"type", "noul"} \subseteq ResponseWords
  BY TokenIn DEF ResponseWords
<1>2. Fields(a) = t
  BY Zenon DEF Fields
<1> HIDE DEF x1, x2
<1>4. /\ t1 \in Seq(Token) /\ Len(t1) = 3 /\ t1[1] = Str("type") /\ t1[2] = Colon /\ t1[3] = x1
      /\ t2 \in Seq(Token) /\ Len(t2) = 4 /\ t2[1] = Comma /\ t2[2] = Str("noul")
      /\ t2[3] = Colon /\ t2[4] = x2
  BY <1>1, OneField, Zenon
<1> HIDE DEF t1, t2
<1>6. t \in Seq(Token) /\ IsJoin(t, t1, t2)
  BY <1>4, JoinParts
<1> HIDE DEF t
<1>8. /\ Len(t) = 7 /\ t[1] = t1[1] /\ t[2] = t1[2] /\ t[3] = t1[3] /\ t[4] = t2[1]
      /\ t[5] = t2[2] /\ t[6] = t2[3] /\ t[7] = t2[4]
  BY <1>4, <1>6 DEF IsJoin
<1>11. IsNoul(t, a)
  BY <1>4, <1>8, Zenon DEF IsNoul, x1, x2
<1> QED
  BY <1>2, <1>6, <1>11, Zenon

\* Those of an answer that cannot be read.
LEMMA NullFields ==
  ASSUME NEW a, a.tag \notin {"chosen", "scored", "nouled"}
  PROVE  Fields(a) \in Seq(Token) /\ IsNull(Fields(a))
<1> DEFINE x1 == Str("null")   t == Field("type", <<x1>>)
<1>1. x1 \in Token /\ "type" \in ResponseWords
  BY TokenIn DEF ResponseWords
<1>2. Fields(a) = t
  BY Zenon DEF Fields
<1> HIDE DEF x1
<1>4. t \in Seq(Token) /\ Len(t) = 3 /\ t[1] = Str("type") /\ t[2] = Colon /\ t[3] = x1
  BY <1>1, OneField, Zenon
<1>5. IsNull(t)
  BY <1>4, Zenon DEF IsNull, x1
<1> QED
  BY <1>2, <1>4, <1>5, Zenon

-----------------------------------------------------------------------------
(* The keys of an answer.                                                  *)

\* The kinds of the marks.
KOpens  == "{"
KCloses == "}"
KColon  == ":"
KComma  == ","

\* The marks are of different kinds, and no strings or numbers.
LEMMA KindsDiffer ==
  /\ KOpens # KCloses /\ KOpens # KColon /\ KOpens # KComma /\ KOpens # "str" /\ KOpens # "num" /\ KOpens # "open"
  /\ KCloses # KColon /\ KCloses # KComma /\ KCloses # "str" /\ KCloses # "num" /\ KCloses # "open"
  /\ KColon # KComma /\ KColon # "str" /\ KColon # "num" /\ KColon # "open"
  /\ KComma # "str" /\ KComma # "num" /\ KComma # "open"
  BY Zenon DEF KOpens, KCloses, KColon, KComma

\* The kinds of the tokens.
LEMMA KindParts ==
  /\ Opens.k = KOpens /\ Closes.k = KCloses /\ Colon.k = KColon /\ Comma.k = KComma
  /\ \A x : Str(x).k = "str" /\ Str(x).s = x /\ Num(x).k = "num" /\ Num(x).n = x
            /\ Open(x).k = "open" /\ Open(x).s = x
  BY TokenParts, Zenon DEF KOpens, KCloses, KColon, KComma, Opens, Closes, Colon, Comma

\* Where a key stands.
Keys(t, key) == {i \in 1..Len(t) : i < Len(t) /\ t[i] = Str(key) /\ t[i + 1].k = KColon}

\* The strings are words of the response or the label, and a key that is no
\* such word has a number for its value.
Spelled(t, l) == \A i \in 1..Len(t) : t[i].k = "str" => t[i].s \in ResponseWords \union {l}
Valued(t) ==
  \A i \in 1..Len(t) : i < Len(t) /\ t[i].k = "str" /\ t[i + 1].k = KColon =>
    t[i].s \in ResponseWords \/ (i + 2 <= Len(t) /\ t[i + 2].k = "num")

\* Braces and colons stand inside, but for the last closing one.
IsInner(t) ==
  /\ t \in Seq(Token) /\ Len(t) >= 3
  /\ \A i \in 1..Len(t) : /\ t[i].k = KCloses => i = Len(t)
                          /\ t[i].k = KColon => i < Len(t)

\* What is found under the keys of a choice.
ChoiceKeys(t, a) ==
  /\ 5 \in Keys(t, "choice") /\ Len(t) >= 15 /\ t[7] = Str(a.label)
  /\ \A i \in Keys(t, "choice") : i = 5 \/ (i > 7 /\ i + 2 <= Len(t) /\ t[i + 2].k = "num")
  /\ \A i \in Keys(t, "score") \union Keys(t, "noul") : i > 7
  /\ a.conf # 0 => /\ 9 \in Keys(t, "confidence") /\ t[11] = Num(a.conf)
                   /\ \A i \in Keys(t, "confidence") : i >= 9
  /\ a.conf = 0 => Keys(t, "confidence") = {}
LEMMA ChoiceIsKeyed ==
  ASSUME NEW a, a.label \in STRING, a.conf = 0 => a.label # "confidence",
         NEW t \in Seq(Token), IsChoice(t, a, Room(a))
  PROVE  IsInner(t) /\ ChoiceKeys(t, a) /\ Spelled(t, a.label) /\ Valued(t)
<1> DEFINE c == Room(a)   n == Len(t)   K(i) == t[i].k   S(i) == t[i].s   l == a.label
<1>1. c \in {0, 4} /\ (c = 4 <=> a.conf # 0) /\ n = c + 15 /\ n \in Nat
  BY DEF Room, IsChoice
<1>2. /\ K(1) = "str" /\ K(2) = KColon /\ K(3) = "str" /\ K(4) = KComma
      /\ K(5) = "str" /\ K(6) = KColon /\ K(7) = "str" /\ K(8) = KComma
      /\ S(1) = "type" /\ S(3) = "choice" /\ S(5) = "choice" /\ S(7) = l
  BY KindParts, SMT DEF IsChoice
<1>3. c = 4 => /\ K(9) = "str" /\ K(10) = KColon /\ K(11) = "num" /\ K(12) = KComma
               /\ S(9) = "confidence"
  BY KindParts, SMTT(40) DEF IsChoice
<1>4. /\ K(c + 9) = "str" /\ K(c + 10) = KColon /\ K(c + 11) = KOpens
      /\ K(c + 12) = "str" /\ K(c + 13) = KColon /\ K(c + 14) = "num" /\ K(c + 15) = KCloses
      /\ S(c + 9) = "probabilities" /\ S(c + 12) = l
  BY KindParts, SMT DEF IsChoice
<1>5. \A key, i : i \in Keys(t, key) => i \in 1..n /\ i < n /\ S(i) = key /\ K(i + 1) = KColon
  BY KindParts, Zenon DEF Keys
<1>6. t[5] = Str("choice") /\ t[7] = Str(l) /\ (c = 4 => t[9] = Str("confidence") /\ t[11] = Num(a.conf))
  BY Zenon DEF IsChoice
<1> HIDE DEF c, n, K, S, l
<1>7. \A i \in 1..n : (K(i) = KCloses => i = n) /\ (K(i) = KColon => i < n)
  <2>1. CASE c = 0
    BY <1>1, <1>2, <1>4, <2>1, KindsDiffer
  <2>2. CASE c = 4
    BY <1>1, <1>2, <1>3, <1>4, <2>2, KindsDiffer, SMTT(40)
  <2> QED
    BY <1>1, <2>1, <2>2
<1>8. ASSUME NEW i \in 1..n, i < n, K(i + 1) = KColon
      PROVE  \/ i = 1 /\ S(i) = "type"
             \/ i = 5 /\ S(i) = "choice"
             \/ i = 9 /\ c = 4 /\ S(i) = "confidence"
             \/ i = c + 9 /\ S(i) = "probabilities"
             \/ i = c + 12 /\ S(i) = l
  <2>1. i \in {1, 5, c + 9, c + 12} \/ (c = 4 /\ i = 9)
    <3>1. CASE c = 0
      BY <1>1, <1>2, <1>4, <1>8, <3>1, KindsDiffer, SMTT(40)
    <3>2. CASE c = 4
      BY <1>1, <1>2, <1>3, <1>4, <1>8, <3>2, KindsDiffer, SMTT(40)
    <3> QED
      BY <1>1, <3>1, <3>2
  <2> QED
    BY <1>1, <1>2, <1>3, <1>4, <2>1
<1>9. /\ \A i \in Keys(t, "choice") : i = 5 \/ i = c + 12
      /\ \A i \in Keys(t, "score") \union Keys(t, "noul") : i = c + 12
      /\ \A i \in Keys(t, "confidence") : (c = 4 /\ i = 9) \/ (i = c + 12 /\ l = "confidence")
  <2>1. \A i \in Keys(t, "choice") : i = 5 \/ i = c + 12
    BY <1>5, <1>8
  <2>2. \A i \in Keys(t, "score") : i = c + 12
    BY <1>5, <1>8
  <2>3. \A i \in Keys(t, "noul") : i = c + 12
    BY <1>5, <1>8
  <2>4. \A i \in Keys(t, "confidence") : (c = 4 /\ i = 9) \/ (i = c + 12 /\ l = "confidence")
    BY <1>5, <1>8
  <2> QED
    BY <2>1, <2>2, <2>3, <2>4
<1>10. 5 \in Keys(t, "choice") /\ (c = 4 => 9 \in Keys(t, "confidence"))
  <2>1. /\ 5 \in 1..n /\ 5 < n /\ K(5 + 1) = KColon
        /\ c = 4 => 9 \in 1..n /\ 9 < n /\ K(9 + 1) = KColon
    BY <1>1, <1>2, <1>3
  <2> QED
    BY <1>6, <2>1, Zenon DEF Keys, K, n
<1>11. IsInner(t)
  BY <1>1, <1>7 DEF IsInner, n, K
<1>12. ChoiceKeys(t, a)
  <2>1. \A i \in Keys(t, "choice") : i = 5 \/ (i > 7 /\ i + 2 <= n /\ K(i + 2) = "num")
    BY <1>1, <1>4, <1>9
  <2>2. \A i \in Keys(t, "score") \union Keys(t, "noul") : i > 7
    BY <1>1, <1>9
  <2>3. /\ n >= 15 /\ c = 4 => \A i \in Keys(t, "confidence") : i >= 9
    BY <1>1, <1>9
  <2>4. a.conf = 0 => Keys(t, "confidence") = {}
    BY <1>1, <1>9 DEF l
  <2> QED
    <3>1. t[7] = Str(a.label) /\ (a.conf # 0 => t[11] = Num(a.conf) /\ 9 \in Keys(t, "confidence"))
      BY <1>1, <1>6, <1>10 DEF l
    <3>2. Len(t) >= 15 /\ (a.conf # 0 => \A i \in Keys(t, "confidence") : i >= 9)
      BY <1>1, <2>3 DEF n
    <3>3. \A i \in Keys(t, "choice") : i = 5 \/ (i > 7 /\ i + 2 <= Len(t) /\ t[i + 2].k = "num")
      BY <2>1, Zenon DEF n, K
    <3> QED
      BY <1>10, <2>2, <2>4, <3>1, <3>2, <3>3, Zenon DEF ChoiceKeys
<1>20. {"type", "choice", "confidence", "probabilities", "score", "noul", "null"} \subseteq ResponseWords
  BY DEF ResponseWords
<1>21. \A i \in 1..n : K(i) = "str" => S(i) \in {"type", "choice", "confidence", "probabilities", l}
  <2>1. CASE c = 0
    BY <1>1, <1>2, <1>4, <2>1, KindsDiffer, SMTT(60)
  <2>2. CASE c = 4
    BY <1>1, <1>2, <1>3, <1>4, <2>2, KindsDiffer, SMTT(60)
  <2> QED
    BY <1>1, <2>1, <2>2
<1>22. Spelled(t, a.label)
  BY <1>20, <1>21 DEF Spelled, n, K, S, l
<1>23. Valued(t)
  <2>1. \A i \in 1..n : i < n /\ K(i + 1) = KColon =>
          S(i) \in ResponseWords \/ (i + 2 <= n /\ K(i + 2) = "num")
    BY <1>1, <1>4, <1>8, <1>20
  <2> QED
    BY <2>1 DEF Valued, n, K, S
<1> QED
  BY <1>11, <1>12, <1>22, <1>23

\* What is found under the keys of the others.
ScoreKeys(t, a) ==
  /\ Len(t) >= 7 /\ t[7] = Num(a.value)
  /\ Keys(t, "choice") = {} /\ Keys(t, "noul") = {} /\ Keys(t, "score") = {5}
  /\ a.conf # 0 => Len(t) >= 11 /\ Keys(t, "confidence") = {9} /\ t[11] = Num(a.conf)
  /\ a.conf = 0 => Keys(t, "confidence") = {}
NoulKeys(t, a) ==
  /\ Len(t) >= 7 /\ t[7] = Num(a.value)
  /\ Keys(t, "choice") = {} /\ Keys(t, "score") = {} /\ Keys(t, "noul") = {5}
NullKeys(t) == Keys(t, "choice") = {} /\ Keys(t, "score") = {} /\ Keys(t, "noul") = {}

\* What is found under the keys of a score.
LEMMA ScoreIsKeyed ==
  ASSUME NEW a, NEW t \in Seq(Token), IsScore(t, a, Room(a))
  PROVE  IsInner(t) /\ ScoreKeys(t, a) /\ \A l : Spelled(t, l) /\ Valued(t)
<1> DEFINE c == Room(a)   n == Len(t)   K(i) == t[i].k   S(i) == t[i].s
<1>1. c \in {0, 4} /\ (c = 4 <=> a.conf # 0) /\ n = c + 7 /\ n \in Nat
  BY DEF Room, IsScore
<1>2. /\ K(1) = "str" /\ K(2) = KColon /\ K(3) = "str" /\ K(4) = KComma
      /\ K(5) = "str" /\ K(6) = KColon /\ K(7) = "num"
      /\ S(1) = "type" /\ S(3) = "score" /\ S(5) = "score"
  BY KindParts, SMTT(40) DEF IsScore
<1>3. c = 4 => /\ K(8) = KComma /\ K(9) = "str" /\ K(10) = KColon /\ K(11) = "num"
               /\ S(9) = "confidence"
  BY KindParts, SMTT(40) DEF IsScore
<1>5. \A key, i : i \in Keys(t, key) => i \in 1..n /\ i < n /\ S(i) = key /\ K(i + 1) = KColon
  BY KindParts, Zenon DEF Keys
<1>6. t[5] = Str("score") /\ t[7] = Num(a.value) /\ (c = 4 => t[9] = Str("confidence") /\ t[11] = Num(a.conf))
  BY Zenon DEF IsScore
<1> HIDE DEF c, n, K, S
<1>7. \A i \in 1..n : (K(i) = KCloses => i = n) /\ (K(i) = KColon => i < n)
  BY <1>1, <1>2, <1>3, KindsDiffer, SMTT(40)
<1>8. ASSUME NEW i \in 1..n, i < n, K(i + 1) = KColon
      PROVE  \/ i = 1 /\ S(i) = "type"
             \/ i = 5 /\ S(i) = "score"
             \/ i = 9 /\ c = 4 /\ S(i) = "confidence"
  BY <1>1, <1>2, <1>3, <1>8, KindsDiffer, SMTT(40)
<1>9. /\ Keys(t, "choice") = {} /\ Keys(t, "noul") = {} /\ Keys(t, "score") \subseteq {5}
      /\ Keys(t, "confidence") \subseteq {9} /\ (c = 0 => Keys(t, "confidence") = {})
  <2>1. Keys(t, "choice") = {} /\ Keys(t, "noul") = {}
    BY <1>5, <1>8
  <2>2. Keys(t, "score") \subseteq {5}
    BY <1>5, <1>8
  <2>3. Keys(t, "confidence") \subseteq {9} /\ (c = 0 => Keys(t, "confidence") = {})
    BY <1>5, <1>8
  <2> QED
    BY <2>1, <2>2, <2>3
<1>10. 5 \in Keys(t, "score") /\ (c = 4 => 9 \in Keys(t, "confidence"))
  <2>1. /\ 5 \in 1..n /\ 5 < n /\ K(5 + 1) = KColon
        /\ c = 4 => 9 \in 1..n /\ 9 < n /\ K(9 + 1) = KColon
    BY <1>1, <1>2, <1>3
  <2> QED
    BY <1>6, <2>1, Zenon DEF Keys, K, n
<1>11. IsInner(t)
  BY <1>1, <1>7 DEF IsInner, n, K
<1>12. ScoreKeys(t, a)
  <2>1. n >= 7 /\ (c = 4 => n >= 11)
    BY <1>1
  <2>2. Keys(t, "score") = {5} /\ (c = 4 => Keys(t, "confidence") = {9})
    BY <1>9, <1>10
  <2>3. a.conf = 0 => c = 0
    BY <1>1
  <2> QED
    BY <1>1, <1>6, <1>9, <2>1, <2>2, <2>3, Zenon DEF ScoreKeys, n
<1>20. {"type", "choice", "confidence", "probabilities", "score", "noul", "null"} \subseteq ResponseWords
  BY DEF ResponseWords
<1>21. \A i \in 1..n : K(i) = "str" => S(i) \in {"type", "score", "confidence"}
  <2>1. CASE c = 0
    BY <1>1, <1>2, <2>1, KindsDiffer, SMTT(60)
  <2>2. CASE c = 4
    BY <1>1, <1>2, <1>3, <2>2, KindsDiffer, SMTT(60)
  <2> QED
    BY <1>1, <2>1, <2>2
<1>22. \A x : Spelled(t, x)
  BY <1>20, <1>21 DEF Spelled, n, K, S
<1>23. Valued(t)
  <2>1. \A i \in 1..n : i < n /\ K(i + 1) = KColon => S(i) \in ResponseWords
    BY <1>8, <1>20
  <2> QED
    BY <2>1 DEF Valued, n, K, S
<1> QED
  BY <1>11, <1>12, <1>22, <1>23

\* Under those of a noul.
LEMMA NoulIsKeyed ==
  ASSUME NEW a, NEW t \in Seq(Token), IsNoul(t, a)
  PROVE  IsInner(t) /\ NoulKeys(t, a) /\ \A l : Spelled(t, l) /\ Valued(t)
<1> DEFINE n == Len(t)   K(i) == t[i].k   S(i) == t[i].s
<1>1. n = 7
  BY DEF IsNoul
<1>2. /\ K(1) = "str" /\ K(2) = KColon /\ K(3) = "str" /\ K(4) = KComma
      /\ K(5) = "str" /\ K(6) = KColon /\ K(7) = "num"
      /\ S(1) = "type" /\ S(3) = "noul" /\ S(5) = "noul"
  <2>1. /\ K(1) = "str" /\ K(2) = KColon /\ K(3) = "str" /\ K(4) = KComma
        /\ S(1) = "type" /\ S(3) = "noul"
    BY KindParts, ZenonT(60) DEF IsNoul
  <2>2. K(5) = "str" /\ K(6) = KColon /\ K(7) = "num" /\ S(5) = "noul"
    BY KindParts, ZenonT(60) DEF IsNoul
  <2> QED
    BY <2>1, <2>2
<1>5. \A key, i : i \in Keys(t, key) => i \in 1..n /\ i < n /\ S(i) = key /\ K(i + 1) = KColon
  BY KindParts, Zenon DEF Keys
<1>6. t[5] = Str("noul") /\ t[7] = Num(a.value)
  BY Zenon DEF IsNoul
<1> HIDE DEF n, K, S
<1>7. \A i \in 1..n : (K(i) = KCloses => i = n) /\ (K(i) = KColon => i < n)
  BY <1>1, <1>2, KindsDiffer, SMTT(40)
<1>8. ASSUME NEW i \in 1..n, i < n, K(i + 1) = KColon
      PROVE  \/ i = 1 /\ S(i) = "type"
             \/ i = 5 /\ S(i) = "noul"
  BY <1>1, <1>2, <1>8, KindsDiffer, SMTT(40)
<1>9. Keys(t, "choice") = {} /\ Keys(t, "score") = {} /\ Keys(t, "noul") \subseteq {5}
  <2>1. Keys(t, "choice") = {}
    BY <1>5, <1>8
  <2>2. Keys(t, "score") = {}
    BY <1>5, <1>8
  <2>3. Keys(t, "noul") \subseteq {5}
    BY <1>5, <1>8
  <2> QED
    BY <2>1, <2>2, <2>3
<1>10. 5 \in Keys(t, "noul")
  <2>1. 5 \in 1..n /\ 5 < n /\ K(5 + 1) = KColon
    BY <1>1, <1>2
  <2> QED
    BY <1>6, <2>1, Zenon DEF Keys, K, n
<1>11. IsInner(t)
  BY <1>1, <1>7 DEF IsInner, n, K
<1>12. NoulKeys(t, a)
  BY <1>1, <1>6, <1>9, <1>10 DEF NoulKeys, n
<1>20. {"type", "choice", "confidence", "probabilities", "score", "noul", "null"} \subseteq ResponseWords
  BY DEF ResponseWords
<1>21. \A i \in 1..n : K(i) = "str" => S(i) \in {"type", "noul"}
  BY <1>1, <1>2, KindsDiffer, SMTT(60)
<1>22. \A x : Spelled(t, x)
  BY <1>20, <1>21 DEF Spelled, n, K, S
<1>23. Valued(t)
  <2>1. \A i \in 1..n : i < n /\ K(i + 1) = KColon => S(i) \in ResponseWords
    BY <1>8, <1>20
  <2> QED
    BY <2>1 DEF Valued, n, K, S
<1> QED
  BY <1>11, <1>12, <1>22, <1>23

\* Nothing is found where there is no answer.
LEMMA NullIsKeyed ==
  ASSUME NEW t \in Seq(Token), IsNull(t)
  PROVE  IsInner(t) /\ NullKeys(t) /\ \A l : Spelled(t, l) /\ Valued(t)
<1> DEFINE n == Len(t)   K(i) == t[i].k   S(i) == t[i].s
<1>1. n = 3
  BY DEF IsNull
<1>2. K(1) = "str" /\ K(2) = KColon /\ K(3) = "str" /\ S(1) = "type" /\ S(3) = "null"
  BY KindParts, Zenon DEF IsNull
<1>5. \A key, i : i \in Keys(t, key) => i \in 1..n /\ i < n /\ S(i) = key /\ K(i + 1) = KColon
  BY KindParts, Zenon DEF Keys
<1> HIDE DEF n, K, S
<1>7. \A i \in 1..n : (K(i) = KCloses => i = n) /\ (K(i) = KColon => i < n)
  BY <1>1, <1>2, KindsDiffer
<1>8. ASSUME NEW i \in 1..n, i < n, K(i + 1) = KColon PROVE S(i) = "type"
  BY <1>1, <1>2, <1>8, KindsDiffer
<1>9. NullKeys(t)
  <2>1. Keys(t, "choice") = {}
    BY <1>5, <1>8
  <2>2. Keys(t, "score") = {}
    BY <1>5, <1>8
  <2>3. Keys(t, "noul") = {}
    BY <1>5, <1>8
  <2> QED
    BY <2>1, <2>2, <2>3 DEF NullKeys
<1>11. IsInner(t)
  BY <1>1, <1>7 DEF IsInner, n, K
<1>20. {"type", "choice", "confidence", "probabilities", "score", "noul", "null"} \subseteq ResponseWords
  BY DEF ResponseWords
<1>21. \A i \in 1..n : K(i) = "str" => S(i) \in {"type", "null"}
  BY <1>1, <1>2, KindsDiffer
<1>22. \A x : Spelled(t, x)
  BY <1>20, <1>21 DEF Spelled, n, K, S
<1>23. Valued(t)
  <2>1. \A i \in 1..n : i < n /\ K(i + 1) = KColon => S(i) \in ResponseWords
    BY <1>8, <1>20
  <2> QED
    BY <2>1 DEF Valued, n, K, S
<1> QED
  BY <1>9, <1>11, <1>22, <1>23

-----------------------------------------------------------------------------
(* What is taken from a response, whole or cut.                            *)

\* A question's object in a response: its id stands at p and not before, its
\* fields behind it, and the next object or the end follows.
Placed(r, q, t, p) ==
  /\ r \in Seq(Token) /\ p \in Nat /\ p >= 1 /\ p + Len(t) + 5 <= Len(r)
  /\ r[p] = Str(q) /\ \A i \in 1..(p - 1) : r[i] # Str(q)
  /\ r[p + 1].k = KColon /\ r[p + 2].k = KOpens
  /\ \A i \in (p + 3)..(p + 2 + Len(t)) : r[i] = t[i - (p + 2)]
  /\ r[p + 3 + Len(t)].k = KCloses
  /\ \/ r[p + 4 + Len(t)].k = KComma /\ r[p + 5 + Len(t)].k = "str"
     \/ /\ Len(r) = p + 5 + Len(t)
        /\ r[p + 4 + Len(t)].k = KCloses /\ r[p + 5 + Len(t)].k = KCloses

\* The first m tokens of a response, the last one maybe not whole; the response
\* itself, which ends in a brace, is one of them.
IsPiece(x, t) ==
  /\ t.k = "str" => x.k = "open"
  /\ t.k # "str" => x.k = t.k
  /\ t.k = "num" => x.n \in Nat /\ x.n <= t.n
IsCut(j, r, m) ==
  /\ m \in 1..Len(r) /\ Len(j) = m /\ m = Len(j)
  /\ \A i \in 1..(m - 1) : j[i] = r[i]
  /\ IsPiece(j[m], r[m])

\* The least of a set of places.
First(S) == CHOOSE x \in S : \A y \in S : x <= y
LEMMA FirstIs ==
  ASSUME NEW S, NEW x \in S, \A y \in S : y \in Int /\ x <= y
  PROVE  First(S) = x
<1> DEFINE L == First(S)
<1>1. L \in S /\ L <= x
  BY DEF First
<1> HIDE DEF L
<1>2. L = x
  BY <1>1
<1> QED
  BY <1>2 DEF L

\* The definitions of the extraction, with the kinds by name.
LEMMA SpanIs ==
  ASSUME NEW j, NEW q
  PROVE  LET p    == First(Named(j, q))
             next == {i \in (p + 1)..(Len(j) - 2) :
                        /\ j[i].k = KCloses /\ j[i + 1].k = KComma
                        /\ j[i + 2].k \in {"str", "open"}}
         IN  answer_span(j, q) = <<p, IF next = {} THEN Len(j) + 1 ELSE First(next)>>
  BY Zenon DEF answer_span, First, KCloses, KComma

\* Where a value is found.
LEMMA ValuesIn ==
  ASSUME NEW j, NEW a, NEW b, NEW key, NEW kinds, NEW v
  PROVE  v \in Values(j, <<a, b>>, key, kinds) <=>
           \E i \in a..(b - 1) : /\ j[i] = Str(key) /\ i + 2 <= Len(j) /\ j[i + 1].k = KColon
                                 /\ j[i + 2].k \in kinds /\ v = i + 2
  BY DEF Values, KColon

SpanFits(j, q, p, n, m, b) ==
  /\ answer_span(j, q) = <<p, b>> /\ b <= m + 1
  /\ \A i \in p..(p + 2 + n) : i <= m => i < b
  /\ \A i \in (p + 3 + n)..(b - 1) : j[i].k # "str"

\* The span of an answer holds its fields as far as they have arrived, and
\* behind them no string.
LEMMA SpanHolds ==
  ASSUME NEW r, NEW q, NEW t, IsInner(t), NEW p, Placed(r, q, t, p),
         NEW j, NEW m, IsCut(j, r, m), m > p
  PROVE  Named(j, q) # {} /\ \E b \in Int : SpanFits(j, q, p, Len(t), m, b)
<1> DEFINE n == Len(t)   e == p + 3 + n   K(i) == j[i].k
           next == {i \in (p + 1)..(Len(j) - 2) :
                      K(i) = KCloses /\ K(i + 1) = KComma /\ K(i + 2) \in {"str", "open"}}
           b == IF next = {} THEN Len(j) + 1 ELSE First(next)
<1>1. /\ n \in Nat /\ n >= 3 /\ p \in Nat /\ p >= 1 /\ m \in Nat /\ m <= Len(r) /\ Len(j) = m
      /\ e + 2 <= Len(r) /\ Len(r) \in Nat
  BY DEF IsInner, Placed, IsCut
<1>2. \A i \in 1..(m - 1) : j[i] = r[i]
  BY DEF IsCut
<1>3. \A i \in 1..m : (r[i].k # "str" => K(i) = r[i].k) /\ (r[i].k = "str" => K(i) \in {"str", "open"})
  <2>1. \A i \in 1..m : i = m \/ i \in 1..(m - 1)
    BY <1>1
  <2>2. IsPiece(j[m], r[m])
    BY DEF IsCut
  <2> QED
    BY <1>2, <2>1, <2>2, Zenon DEF IsPiece
<1>4. First(Named(j, q)) = p /\ Named(j, q) # {}
  <2>1. p \in 1..Len(j) /\ j[p] = Str(q)
    BY <1>1, <1>2 DEF Placed
  <2>2. p \in Named(j, q)
    BY <2>1 DEF Named
  <2>3. ASSUME NEW y \in Named(j, q) PROVE y \in Int /\ p <= y
    <3>1. y \in 1..m /\ j[y] = Str(q)
      BY <1>1 DEF Named
    <3>2. y < p => y \in 1..(m - 1) /\ y \in 1..(p - 1)
      BY <1>1, <3>1
    <3> QED
      BY <1>1, <1>2, <3>1, <3>2, SMTT(40) DEF Placed
  <2> QED
    BY <2>2, <2>3, FirstIs
<1>5. answer_span(j, q) = <<p, b>>
  BY <1>4, SpanIs
<1>6. ASSUME NEW i \in next PROVE i \in Int /\ i >= e /\ i <= m - 2
  <2>1. i \in Int /\ i >= p + 1 /\ i <= m - 2 /\ K(i) = KCloses /\ K(i + 1) = KComma
    BY <1>1
  <2>2. r[i].k = KCloses /\ r[i + 1].k = KComma
    BY <1>1, <1>2, <2>1, SMTT(40)
  <2>3. i # p + 1 /\ i # p + 2
    BY <2>2, KindsDiffer DEF Placed
  <2>4. CASE i < e
    <3>1. i \in (p + 3)..(p + 2 + n) /\ i - (p + 2) \in 1..n
      BY <1>1, <2>1, <2>3, <2>4
    <3>2. t[i - (p + 2)].k = KCloses
      BY <2>2, <3>1 DEF Placed
    <3>3. i - (p + 2) = n
      BY <3>1, <3>2 DEF IsInner
    <3>4. i + 1 = e
      BY <1>1, <2>1, <3>3
    <3>5. r[e].k = KCloses
      BY DEF Placed
    <3> QED
      BY <2>2, <3>4, <3>5, KindsDiffer
  <2> QED
    BY <1>1, <2>1, <2>4
<1>7. r[e].k = KCloses /\ (r[e + 1].k = KComma \/ r[e + 1].k = KCloses)
  <2>1. e + 1 = p + 4 + n
    BY <1>1
  <2> QED
    BY <2>1 DEF Placed
<1>8. r[e + 1].k = KComma => r[e + 2].k = "str"
  <2>1. e + 1 = p + 4 + n /\ e + 2 = p + 5 + n
    BY <1>1
  <2> QED
    BY <2>1, KindsDiffer DEF Placed
<1>9. r[e + 1].k = KCloses => Len(r) = e + 2 /\ r[e + 2].k = KCloses
  <2>1. e + 1 = p + 4 + n /\ e + 2 = p + 5 + n
    BY <1>1
  <2> QED
    BY <2>1, KindsDiffer DEF Placed
<1>10. ASSUME e + 2 <= m, r[e + 1].k = KComma PROVE e \in next
  <2>1. e \in (p + 1)..(Len(j) - 2) /\ e \in 1..m /\ e + 1 \in 1..m /\ e + 2 \in 1..m
    BY <1>1, <1>10
  <2>2. K(e) = KCloses /\ K(e + 1) = KComma /\ K(e + 2) \in {"str", "open"}
    BY <1>3, <1>7, <1>8, <1>10, <2>1, KindsDiffer
  <2> HIDE DEF e, K
  <2> QED
    BY <2>1, <2>2
<1> HIDE DEF e, K, next
<1>11. e \in Int /\ e = p + 3 + n
  BY <1>1 DEF e
<1>12. CASE next = {}
  <2>1. b = m + 1
    BY <1>1, <1>12
  <2>2. ASSUME NEW i \in e..m PROVE K(i) # "str"
    <3>1. CASE i = e
      <4>1. K(i) = KCloses
        BY <1>1, <1>3, <1>7, <1>11, <3>1, KindsDiffer
      <4> QED
        BY <4>1, KindsDiffer
    <3>2. CASE i = e + 1
      <4>1. K(i) = KComma \/ K(i) = KCloses
        BY <1>1, <1>3, <1>7, <1>11, <3>2, KindsDiffer
      <4> QED
        BY <4>1, KindsDiffer
    <3>3. CASE i >= e + 2
      <4>1. r[e + 1].k = KCloses
        BY <1>1, <1>7, <1>10, <1>11, <1>12, <3>3
      <4>2. i = e + 2
        BY <1>1, <1>9, <1>11, <3>3, <4>1
      <4>3. K(i) = KCloses
        BY <1>1, <1>3, <1>9, <1>11, <4>1, <4>2, KindsDiffer
      <4> QED
        BY <4>3, KindsDiffer
    <3> QED
      BY <1>1, <1>11, <3>1, <3>2, <3>3
  <2> HIDE DEF b
  <2>3. /\ b \in Int /\ b <= m + 1 /\ \A i \in p..(p + 2 + n) : i <= m => i < b
        /\ \A i \in (p + 3 + n)..(b - 1) : K(i) # "str"
    BY <1>1, <1>11, <2>1, <2>2
  <2> QED
    BY <1>4, <1>5, <2>3, Zenon DEF n, K, SpanFits
<1>13. CASE next # {}
  <2>1. PICK z \in next : TRUE
    BY <1>13
  <2>2. e + 2 <= m
    BY <1>1, <1>6, <1>11, <2>1
  <2>3. r[e + 1].k = KComma
    <3>1. CASE r[e + 1].k = KCloses
      <4>1. z = e
        BY <1>1, <1>6, <1>9, <1>11, <2>1, <3>1
      <4>2. K(e + 1) = KComma
        BY <2>1, <4>1 DEF next
      <4>3. K(e + 1) = KCloses
        BY <1>1, <1>3, <1>11, <2>2, <3>1, KindsDiffer
      <4> QED
        BY <4>2, <4>3, KindsDiffer
    <3> QED
      BY <1>7, <3>1
  <2>4. First(next) = e
    BY <1>6, <1>10, <2>2, <2>3, FirstIs
  <2>5. b = e
    BY <1>13, <2>4
  <2> HIDE DEF b
  <2>6. /\ b \in Int /\ b <= m + 1 /\ \A i \in p..(p + 2 + n) : i <= m => i < b
        /\ \A i \in (p + 3 + n)..(b - 1) : K(i) # "str"
    BY <1>1, <1>11, <2>2, <2>5
  <2> QED
    BY <1>4, <1>5, <2>6, Zenon DEF n, K, SpanFits
<1> QED
  BY <1>12, <1>13

\* The values found in the span of an answer are those of its own fields that
\* have arrived.
LEMMA ValuesAre ==
  ASSUME NEW r, NEW q, NEW t, IsInner(t), NEW p, Placed(r, q, t, p),
         NEW j, NEW m, IsCut(j, r, m), m > p, NEW key, Str(key) # Str(q), NEW kinds,
         NEW v
  PROVE  v \in Values(j, answer_span(j, q), key, kinds) <=>
           \E i \in Keys(t, key) : v = p + 4 + i /\ v <= m /\ j[v].k \in kinds
<1> DEFINE n == Len(t)   K(i) == j[i].k
<1>0. PICK b \in Int : SpanFits(j, q, p, n, m, b)
  BY SpanHolds, Zenon
<1>1. /\ answer_span(j, q) = <<p, b>> /\ b <= m + 1
      /\ \A i \in p..(p + 2 + n) : i <= m => i < b
      /\ \A i \in (p + 3 + n)..(b - 1) : K(i) # "str"
  BY <1>0, Zenon DEF SpanFits
<1>2. /\ n \in Nat /\ n >= 3 /\ p \in Nat /\ p >= 1 /\ m \in Nat /\ Len(j) = m
      /\ \A i \in 1..(m - 1) : j[i] = r[i]
  BY DEF IsInner, Placed, IsCut
<1>3. v \in Values(j, answer_span(j, q), key, kinds) <=>
        \E i \in p..(b - 1) : /\ j[i] = Str(key) /\ i + 2 <= m /\ K(i + 1) = KColon
                              /\ K(i + 2) \in kinds /\ v = i + 2
  <2>1. v \in Values(j, <<p, b>>, key, kinds) <=>
          \E i \in p..(b - 1) : /\ j[i] = Str(key) /\ i + 2 <= Len(j) /\ K(i + 1) = KColon
                                /\ K(i + 2) \in kinds /\ v = i + 2
    BY ValuesIn
  <2>2. answer_span(j, q) = <<p, b>> /\ Len(j) = m
    BY <1>1, <1>2
  <2> QED
    BY <2>1, <2>2, Zenon
<1>4. Str(key).k = "str"
  BY KindParts
<1>5. ASSUME NEW i \in p..(b - 1), j[i] = Str(key), i + 2 <= m, K(i + 1) = KColon,
             K(i + 2) \in kinds, v = i + 2
      PROVE  \E h \in Keys(t, key) : v = p + 4 + h /\ v <= m /\ j[v].k \in kinds
  <2>1. j[i] = r[i] /\ j[i + 1] = r[i + 1]
    BY <1>2, <1>5
  <2>2. r[i].k = "str" /\ r[i + 1].k = KColon /\ K(i) = "str"
    BY <1>4, <1>5, <2>1
  <2>3. i # p /\ i # p + 1 /\ i # p + 2
    BY <1>5, <2>1, <2>2, KindsDiffer DEF Placed
  <2>4. i <= p + 2 + n
    BY <1>1, <1>2, <2>2
  <2> DEFINE h == i - (p + 2)
  <2>5. h \in 1..n /\ i \in (p + 3)..(p + 2 + n) /\ v = p + 4 + h
    BY <1>2, <1>5, <2>3, <2>4
  <2>6. t[h] = Str(key)
    BY <1>5, <2>1, <2>5 DEF Placed
  <2>7. h # n
    <3>1. h = n => i + 1 = p + 3 + n
      BY <1>2, <2>5
    <3> QED
      BY <2>2, <3>1, KindsDiffer DEF Placed
  <2>8. t[h + 1].k = KColon
    <3>1. i + 1 \in (p + 3)..(p + 2 + n) /\ (i + 1) - (p + 2) = h + 1
      BY <1>2, <2>5, <2>7
    <3> QED
      BY <2>2, <3>1 DEF Placed
  <2>9. h \in Keys(t, key)
    <3>1. h < Len(t) /\ h \in 1..Len(t)
      BY <1>2, <2>5, <2>7
    <3> HIDE DEF h
    <3> QED
      BY <2>6, <2>8, <3>1 DEF Keys
  <2> QED
    BY <1>5, <2>5, <2>9
<1>6. ASSUME NEW h \in Keys(t, key), v = p + 4 + h, v <= m, j[v].k \in kinds
      PROVE  \E i \in p..(b - 1) : /\ j[i] = Str(key) /\ i + 2 <= m /\ K(i + 1) = KColon
                                   /\ K(i + 2) \in kinds /\ v = i + 2
  <2> DEFINE i == p + 2 + h
  <2>1. h \in 1..n /\ h < n /\ t[h] = Str(key) /\ t[h + 1].k = KColon
    BY DEF Keys
  <2>2. /\ i \in (p + 3)..(p + 2 + n) /\ i + 1 \in (p + 3)..(p + 2 + n)
        /\ i - (p + 2) = h /\ (i + 1) - (p + 2) = h + 1 /\ v = i + 2 /\ i + 2 <= m
    BY <1>2, <1>6, <2>1
  <2>3. r[i] = Str(key) /\ r[i + 1].k = KColon
    BY <2>1, <2>2 DEF Placed
  <2>4. j[i] = Str(key) /\ K(i + 1) = KColon
    BY <1>2, <2>2, <2>3, SMTT(40)
  <2>5. i \in p..(b - 1)
    BY <1>1, <1>2, <2>2, SMTT(40)
  <2>6. K(i + 2) \in kinds
    BY <1>6, <2>2
  <2> HIDE DEF i, K
  <2> QED
    BY <2>2, <2>4, <2>5, <2>6
<1> HIDE DEF n, K
<1> QED
  BY <1>3, <1>5, <1>6

\* answer_build with the sets of values named.
Built(j, ch, sc, no, co) ==
  LET conf == IF co = {} THEN 0 ELSE j[First(co)].n
  IN  IF ch # {} THEN Chosen(j[First(ch)].s, conf)
      ELSE IF sc # {} THEN Scored(j[First(sc)].n, conf)
      ELSE IF no # {} THEN Nouled(j[First(no)].n)
      ELSE Missing("unrecognised")
LEMMA BuildIs ==
  ASSUME NEW j, j # <<>>, NEW q, Named(j, q) # {}
  PROVE  LET V(key, kinds) == Values(j, answer_span(j, q), key, kinds)
         IN  answer_build(j, q) =
               Built(j, V("choice", {"str", "open"}), V("score", {"num"}), V("noul", {"num"}),
                     V("confidence", {"num"}))
  BY Zenon DEF answer_build, Built, answer_str, answer_num, NumOr0, First

\* What is found of a field of an answer.
Found(j, t, p, m, key, kinds) ==
  {v \in {p + 4 + i : i \in Keys(t, key)} : v <= m /\ j[v].k \in kinds}
LEMMA FoundIs ==
  ASSUME NEW r, NEW q, NEW t, IsInner(t), NEW p, Placed(r, q, t, p),
         NEW j, NEW m, IsCut(j, r, m), m > p, NEW key, Str(key) # Str(q), NEW kinds
  PROVE  Values(j, answer_span(j, q), key, kinds) = Found(j, t, p, m, key, kinds)
<1> DEFINE A == Values(j, answer_span(j, q), key, kinds)
           B == Found(j, t, p, m, key, kinds)
<1>1. ASSUME NEW v PROVE v \in A <=> v \in B
  <2>1. v \in A <=> \E i \in Keys(t, key) : v = p + 4 + i /\ v <= m /\ j[v].k \in kinds
    BY ValuesAre
  <2> QED
    BY <2>1, Zenon DEF Found
<1> HIDE DEF A, B
<1>2. A = B
  BY <1>1
<1> QED
  BY <1>2 DEF A, B

\* The answer to a question that was asked.
LEMMA FieldsAre ==
  ASSUME NEW r, NEW q \in Questions, NEW t, IsInner(t), NEW p, Placed(r, q, t, p),
         NEW j, NEW m, IsCut(j, r, m), m > p
  PROVE  LET F(key, kinds) == Found(j, t, p, m, key, kinds)
         IN  answer_build(j, q) = Built(j, F("choice", {"str", "open"}), F("score", {"num"}),
                                        F("noul", {"num"}), F("confidence", {"num"}))
<1>1. \A key \in ResponseWords : Str(key) # Str(q)
  <2>1. \A key \in ResponseWords : key # q
    BY EditStepAssumption
  <2>2. Str(q).s = q /\ \A key : Str(key).s = key
    BY KindParts
  <2> QED
    BY <2>1, <2>2
<1>2. /\ Str("choice") # Str(q) /\ Str("score") # Str(q) /\ Str("noul") # Str(q)
      /\ Str("confidence") # Str(q)
  BY <1>1 DEF ResponseWords
<1>3. Named(j, q) # {} /\ j # <<>>
  <2>1. Named(j, q) # {}
    BY SpanHolds, Zenon
  <2>2. Len(j) # 0
    BY DEF IsCut
  <2> QED
    BY <2>1, <2>2
<1> DEFINE V(key, kinds) == Values(j, answer_span(j, q), key, kinds)
           F(key, kinds) == Found(j, t, p, m, key, kinds)
<1>4. answer_build(j, q) = Built(j, V("choice", {"str", "open"}), V("score", {"num"}),
                                 V("noul", {"num"}), V("confidence", {"num"}))
  BY <1>3, BuildIs, Zenon
<1>5. /\ V("choice", {"str", "open"}) = F("choice", {"str", "open"})
      /\ V("score", {"num"}) = F("score", {"num"}) /\ V("noul", {"num"}) = F("noul", {"num"})
      /\ V("confidence", {"num"}) = F("confidence", {"num"})
  <2>1. ASSUME NEW key, NEW kinds, Str(key) # Str(q) PROVE V(key, kinds) = F(key, kinds)
    BY <2>1, FoundIs
  <2> HIDE DEF V, F
  <2> QED
    BY <1>2, <2>1, Zenon
<1> HIDE DEF V, F
<1> QED
  BY <1>4, <1>5, Zenon DEF F

\* What has arrived of a token.
Arrives(j, t, p, m, i) ==
  /\ p + 2 + i < m => j[p + 2 + i] = t[i]
  /\ t[i].k = "num" => j[p + 2 + i].k = "num"
  /\ t[i].k = "str" => j[p + 2 + i].k \in {"str", "open"}
  /\ \A c \in Nat : t[i] = Num(c) => j[p + 2 + i].n \in Nat /\ j[p + 2 + i].n <= c
LEMMA TokenArrives ==
  ASSUME NEW r, NEW q, NEW t, IsInner(t), NEW p, Placed(r, q, t, p),
         NEW j, NEW m, IsCut(j, r, m), NEW i \in 1..Len(t), p + 2 + i <= m
  PROVE  Arrives(j, t, p, m, i)
<1> DEFINE v == p + 2 + i
<1>1. /\ Len(t) \in Nat /\ p \in Nat /\ p >= 1 /\ m \in Nat
      /\ \A h \in 1..(m - 1) : j[h] = r[h]
      /\ IsPiece(j[m], r[m])
  BY DEF IsInner, Placed, IsCut
<1>2. r[v] = t[i]
  <2>1. v \in (p + 3)..(p + 2 + Len(t)) /\ v - (p + 2) = i
    BY <1>1
  <2> HIDE DEF v
  <2> QED
    BY <2>1 DEF Placed
<1>3. v < m => j[v] = t[i]
  BY <1>1, <1>2
<1>4. v = m => IsPiece(j[v], t[i])
  BY <1>1, <1>2
<1>5. v < m \/ v = m
  BY <1>1
<1> HIDE DEF v
<1>6. \A c : Num(c).k = "num" /\ Num(c).n = c
  BY KindParts
<1>7. "num" # "str"
  OBVIOUS
<1>8. t[i].k = "num" => j[v].k = "num"
  BY <1>3, <1>4, <1>5, <1>7 DEF IsPiece
<1>9. t[i].k = "str" => j[v].k \in {"str", "open"}
  BY <1>3, <1>4, <1>5 DEF IsPiece
<1>10. ASSUME NEW c \in Nat, t[i] = Num(c) PROVE j[v].n \in Nat /\ j[v].n <= c
  <2>1. t[i].k = "num" /\ t[i].n = c
    BY <1>6, <1>10
  <2>2. CASE v < m
    <3>1. j[v].n = c
      BY <1>3, <2>1, <2>2
    <3> QED
      BY <3>1
  <2>3. CASE v = m
    BY <1>4, <2>1, <2>3 DEF IsPiece
  <2> QED
    BY <1>5, <2>2, <2>3
<1> QED
  BY <1>3, <1>8, <1>9, <1>10, Zenon DEF v, Arrives

\* A value that is taken as a number, or nothing.
Number(j, S) == IF S = {} THEN 0 ELSE j[First(S)].n

NumberFits(S, j, v, m, c) ==
  /\ S = {} <=> m < v
  /\ Number(j, S) \in Nat /\ Number(j, S) <= c
  /\ m > v => Number(j, S) = c

\* A number taken from a field is never more than what was said, and the same
\* when everything has arrived.
LEMMA NumberTaken ==
  ASSUME NEW r, NEW q, NEW t, IsInner(t), NEW p, Placed(r, q, t, p),
         NEW j, NEW m, IsCut(j, r, m), NEW key, NEW k \in Nat, NEW c \in Nat,
         k \in Keys(t, key), \A i \in Keys(t, key) : i >= k,
         k + 2 <= Len(t), t[k + 2] = Num(c)
  PROVE  NumberFits(Found(j, t, p, m, key, {"num"}), j, p + 4 + k, m, c)
<1> DEFINE S == Found(j, t, p, m, key, {"num"})   v == p + 4 + k
<1>1. Len(t) \in Nat /\ p \in Nat /\ m \in Nat /\ k >= 1 /\ v \in Nat
  BY DEF IsInner, Placed, IsCut, Keys
<1>2. Num(c).k = "num" /\ Num(c).n = c
  BY KindParts
<1>3. ASSUME NEW y \in S PROVE y \in Int /\ v <= y /\ y <= m
  <2>1. PICK i \in Keys(t, key) : y = p + 4 + i /\ y <= m
    BY DEF Found
  <2>2. i \in Int /\ i >= k
    BY DEF Keys
  <2> QED
    BY <1>1, <2>1, <2>2
<1>4. CASE m < v
  <2>1. S = {}
    <3> HIDE DEF S, v
    <3>1. \A y \in S : FALSE
      BY <1>1, <1>3, <1>4
    <3> QED
      BY <3>1
  <2> HIDE DEF S, v
  <2>2. Number(j, S) = 0
    BY <2>1 DEF Number
  <2>3. NumberFits(S, j, v, m, c)
    BY <1>1, <1>4, <2>1, <2>2 DEF NumberFits
  <2> QED
    BY <2>3, Zenon DEF S, v
<1>5. CASE m >= v
  <2>1. k + 2 \in 1..Len(t) /\ p + 2 + (k + 2) = v
    BY <1>1
  <2>2. /\ j[v].k = "num" /\ j[v].n \in Nat /\ j[v].n <= c
        /\ v < m => j[v] = Num(c)
    <3>1. Arrives(j, t, p, m, k + 2)
      BY <1>5, <2>1, TokenArrives
    <3>2. t[k + 2].k = "num"
      BY <1>2
    <3> HIDE DEF v
    <3> QED
      BY <2>1, <3>1, <3>2 DEF Arrives
  <2>3. v \in S
    BY <1>5, <2>2 DEF Found
  <2> HIDE DEF S, v
  <2>4. First(S) = v
    BY <1>3, <2>3, FirstIs
  <2>5. Number(j, S) = j[v].n
    BY <2>3, <2>4 DEF Number
  <2>6. v < m => Number(j, S) = c
    BY <1>2, <2>2, <2>5
  <2>7. NumberFits(S, j, v, m, c)
    <3>1. S # {}
      BY <2>3
    <3> QED
      BY <1>1, <1>5, <2>2, <2>5, <2>6, <3>1 DEF NumberFits
  <2> QED
    BY <2>7, Zenon DEF S, v
<1> QED
  BY <1>1, <1>4, <1>5

\* A weaker answer: of the same kind, no more confident, and its label the
\* same if it comes with a confidence.
Weaker(b, a) ==
  Usable(b) => /\ b.tag = a.tag
               /\ b.conf <= a.conf /\ b.value <= a.value
               /\ b.conf > 0 => b.label = a.label

\* An answer that is missing is none.
LEMMA MissingIsNone == \A x : ~Usable(Missing(x))
  BY DEF Missing, Answer, Usable

\* A choice.
LEMMA ChoiceTaken ==
  ASSUME NEW r, NEW q \in Questions, NEW t, IsInner(t), NEW p, Placed(r, q, t, p),
         NEW j, NEW m, IsCut(j, r, m), m > p,
         NEW a, a = Chosen(a.label, a.conf), a.conf \in Nat, ChoiceKeys(t, a)
  PROVE  /\ Weaker(answer_build(j, q), a)
         /\ m > p + 2 + Len(t) => answer_build(j, q) = a
<1> DEFINE F(key, kinds) == Found(j, t, p, m, key, kinds)
           CH == F("choice", {"str", "open"})   SC == F("score", {"num"})
           NO == F("noul", {"num"})   CO == F("confidence", {"num"})
           b == answer_build(j, q)
<1>1. b = Built(j, CH, SC, NO, CO)
  BY FieldsAre
<1>2. Len(t) \in Nat /\ Len(t) >= 15 /\ p \in Nat /\ m \in Nat
  BY DEF IsInner, Placed, IsCut, ChoiceKeys
<1>3. a.tag = "chosen" /\ a.value = 0
  <2> DEFINE x == a.label   y == a.conf
  <2>1. a = Chosen(x, y)
    OBVIOUS
  <2> HIDE DEF x, y
  <2>2. Chosen(x, y).tag = "chosen" /\ Chosen(x, y).value = 0
    BY DEF Chosen, Answer
  <2> QED
    BY <2>1, <2>2
<1>4. CASE m < p + 9
  <2>1. CH = {}
    <3>1. \A i \in Keys(t, "choice") : i \in Int /\ i >= 5
      BY DEF ChoiceKeys, Keys
    <3> QED
      BY <1>2, <1>4, <3>1 DEF Found
  <2>2. SC = {} /\ NO = {}
    <3>1. \A i \in Keys(t, "score") \union Keys(t, "noul") : i \in Int /\ i >= 5
      BY DEF ChoiceKeys, Keys
    <3> QED
      BY <1>2, <1>4, <3>1 DEF Found
  <2> HIDE DEF CH, SC, NO, CO
  <2>3. b = Missing("unrecognised")
    BY <1>1, <2>1, <2>2 DEF Built
  <2> HIDE DEF b
  <2>4. ~Usable(b)
    BY <2>3, MissingIsNone
  <2> QED
    BY <1>2, <1>4, <2>4 DEF Weaker, b
<1>5. CASE m >= p + 9
  <2>1. 7 \in 1..Len(t) /\ p + 2 + 7 = p + 9 /\ t[7] = Str(a.label)
    BY <1>2 DEF ChoiceKeys
  <2>2. Str(a.label).k = "str" /\ Str(a.label).s = a.label
    BY KindParts
  <2>3. j[p + 9].k \in {"str", "open"} /\ (m > p + 9 => j[p + 9].s = a.label)
    <3>1. Arrives(j, t, p, m, 7)
      BY <1>5, <2>1, TokenArrives
    <3>2. t[7].k = "str"
      BY <2>1, <2>2
    <3>3. j[p + 9].k \in {"str", "open"} /\ (p + 9 < m => j[p + 9] = t[7])
      BY <2>1, <3>1, <3>2, Zenon DEF Arrives
    <3> QED
      BY <1>2, <2>1, <2>2, <3>3
  <2>4. p + 9 \in CH
    <3>1. 5 \in Keys(t, "choice") /\ p + 4 + 5 = p + 9
      BY <1>2 DEF ChoiceKeys
    <3> QED
      BY <1>5, <2>3, <3>1 DEF Found
  <2>5. ASSUME NEW y \in CH PROVE y \in Int /\ p + 9 <= y
    <3>1. PICK i \in Keys(t, "choice") : y = p + 4 + i
      BY DEF Found
    <3>2. i \in Int /\ i >= 5
      BY DEF ChoiceKeys, Keys
    <3> QED
      BY <1>2, <3>1, <3>2
  <2> HIDE DEF CH
  <2>6. First(CH) = p + 9
    BY <2>4, <2>5, FirstIs
  <2> DEFINE c == Number(j, CO)
  <2>7. b = Chosen(j[p + 9].s, c)
    <3> HIDE DEF SC, NO, CO
    <3> QED
      BY <1>1, <2>4, <2>6 DEF Built, Number
  <2>8. /\ c \in Nat /\ c <= a.conf /\ (c > 0 => m > p + 9)
        /\ m > p + 2 + Len(t) => c = a.conf
    <3>1. CASE a.conf = 0
      <4>1. CO = {}
        BY <3>1 DEF ChoiceKeys, Found
      <4>2. c = 0
        <5> HIDE DEF CO
        <5> QED
          BY <4>1 DEF Number
      <4> HIDE DEF c
      <4> QED
        BY <3>1, <4>2
    <3>2. CASE a.conf # 0
      <4>1. /\ 9 \in Keys(t, "confidence") /\ \A i \in Keys(t, "confidence") : i >= 9
            /\ t[9 + 2] = Num(a.conf) /\ 9 + 2 <= Len(t)
        BY <1>2, <3>2 DEF ChoiceKeys
      <4>4. NumberFits(CO, j, p + 4 + 9, m, a.conf)
        BY <4>1, NumberTaken
      <4>2. /\ CO = {} <=> m < p + 4 + 9
            /\ c \in Nat /\ c <= a.conf
            /\ m > p + 4 + 9 => c = a.conf
        BY <4>4, Zenon DEF NumberFits
      <4>3. CO = {} => c = 0
        BY DEF Number
      <4> HIDE DEF c, CO
      <4> QED
        BY <1>2, <4>2, <4>3
    <3> QED
      BY <3>1, <3>2
  <2> HIDE DEF c, b
  <2>9. b.tag = "chosen" /\ b.label = j[p + 9].s /\ b.value = 0 /\ b.conf = c
    <3> DEFINE x == j[p + 9].s
    <3>1. b = Chosen(x, c)
      BY <2>7
    <3> HIDE DEF x
    <3>2. /\ Chosen(x, c).tag = "chosen" /\ Chosen(x, c).label = x
          /\ Chosen(x, c).value = 0 /\ Chosen(x, c).conf = c
      BY DEF Chosen, Answer
    <3> QED
      BY <3>1, <3>2 DEF x
  <2>10. Weaker(b, a)
    BY <1>3, <2>3, <2>8, <2>9 DEF Weaker
  <2>11. m > p + 2 + Len(t) => b = a
    <3>1. m > p + 2 + Len(t) => m > p + 9
      BY <1>2
    <3> QED
      BY <2>3, <2>7, <2>8, <3>1
  <2> QED
    BY <2>10, <2>11 DEF b
<1> QED
  BY <1>2, <1>4, <1>5

\* A score.
LEMMA ScoreTaken ==
  ASSUME NEW r, NEW q \in Questions, NEW t, IsInner(t), NEW p, Placed(r, q, t, p),
         NEW j, NEW m, IsCut(j, r, m), m > p,
         NEW a, a = Scored(a.value, a.conf), a.conf \in Nat, a.value \in Nat, ScoreKeys(t, a)
  PROVE  /\ Weaker(answer_build(j, q), a)
         /\ m > p + 2 + Len(t) => answer_build(j, q) = a
<1> DEFINE F(key, kinds) == Found(j, t, p, m, key, kinds)
           CH == F("choice", {"str", "open"})   SC == F("score", {"num"})
           NO == F("noul", {"num"})   CO == F("confidence", {"num"})
           b == answer_build(j, q)   x == Number(j, SC)   c == Number(j, CO)
<1>1. b = Built(j, CH, SC, NO, CO)
  BY FieldsAre
<1>2. Len(t) \in Nat /\ Len(t) >= 7 /\ p \in Nat /\ m \in Nat
  BY DEF IsInner, Placed, IsCut, ScoreKeys
<1>3. CH = {} /\ NO = {}
  BY DEF ScoreKeys, Found
<1>4. /\ SC = {} <=> m < p + 9
      /\ x \in Nat /\ x <= a.value /\ (m > p + 9 => x = a.value)
  <2>1. /\ 5 \in Keys(t, "score") /\ \A i \in Keys(t, "score") : i >= 5
        /\ t[5 + 2] = Num(a.value) /\ 5 + 2 <= Len(t)
    BY <1>2 DEF ScoreKeys
  <2>2. NumberFits(SC, j, p + 4 + 5, m, a.value)
    BY <2>1, NumberTaken
  <2>3. p + 4 + 5 = p + 9
    BY <1>2
  <2> QED
    BY <2>2, <2>3, Zenon DEF NumberFits
<1>5. c \in Nat /\ c <= a.conf /\ (m > p + 2 + Len(t) => c = a.conf)
  <2>1. CASE a.conf = 0
    <3>1. CO = {}
      BY <2>1 DEF ScoreKeys, Found
    <3>2. c = 0
      <4> HIDE DEF CO
      <4> QED
        BY <3>1 DEF Number
    <3> HIDE DEF c
    <3> QED
      BY <2>1, <3>2
  <2>2. CASE a.conf # 0
    <3>1. /\ 9 \in Keys(t, "confidence") /\ \A i \in Keys(t, "confidence") : i >= 9
          /\ t[9 + 2] = Num(a.conf) /\ 9 + 2 <= Len(t)
      BY <1>2, <2>2 DEF ScoreKeys
    <3>2. NumberFits(CO, j, p + 4 + 9, m, a.conf)
      BY <3>1, NumberTaken
    <3>3. c \in Nat /\ c <= a.conf /\ (m > p + 4 + 9 => c = a.conf)
      BY <3>2, Zenon DEF NumberFits
    <3> HIDE DEF c
    <3> QED
      BY <1>2, <3>1, <3>3
  <2> QED
    BY <2>1, <2>2
<1>6. a.tag = "scored" /\ a.label = ""
  <2> DEFINE y == a.value   z == a.conf
  <2>1. a = Scored(y, z)
    OBVIOUS
  <2> HIDE DEF y, z
  <2>2. Scored(y, z).tag = "scored" /\ Scored(y, z).label = ""
    BY DEF Scored, Answer
  <2> QED
    BY <2>1, <2>2
<1> HIDE DEF CH, SC, NO, CO
<1>7. CASE SC = {}
  <2>1. b = Missing("unrecognised")
    BY <1>1, <1>3, <1>7 DEF Built
  <2> HIDE DEF b
  <2>2. ~Usable(b)
    BY <2>1, MissingIsNone
  <2> QED
    BY <1>2, <1>4, <1>7, <2>2 DEF Weaker, b
<1>8. CASE SC # {}
  <2>1. b = Scored(x, c)
    BY <1>1, <1>3, <1>8 DEF Built, Number
  <2> HIDE DEF x, c, b
  <2>2. b.tag = "scored" /\ b.label = "" /\ b.value = x /\ b.conf = c
    BY <2>1 DEF Scored, Answer
  <2>3. Weaker(b, a)
    BY <1>4, <1>5, <1>6, <2>2 DEF Weaker
  <2>4. m > p + 2 + Len(t) => b = a
    BY <1>2, <1>4, <1>5, <2>1
  <2> QED
    BY <2>3, <2>4 DEF b
<1> QED
  BY <1>7, <1>8

\* A yes-or-no.
LEMMA NoulTaken ==
  ASSUME NEW r, NEW q \in Questions, NEW t, IsInner(t), NEW p, Placed(r, q, t, p),
         NEW j, NEW m, IsCut(j, r, m), m > p,
         NEW a, a = Nouled(a.value), a.value \in Nat, NoulKeys(t, a)
  PROVE  /\ Weaker(answer_build(j, q), a)
         /\ m > p + 2 + Len(t) => answer_build(j, q) = a
<1> DEFINE F(key, kinds) == Found(j, t, p, m, key, kinds)
           CH == F("choice", {"str", "open"})   SC == F("score", {"num"})
           NO == F("noul", {"num"})   CO == F("confidence", {"num"})
           b == answer_build(j, q)   x == Number(j, NO)
<1>1. b = Built(j, CH, SC, NO, CO)
  BY FieldsAre
<1>2. Len(t) \in Nat /\ Len(t) >= 7 /\ p \in Nat /\ m \in Nat
  BY DEF IsInner, Placed, IsCut, NoulKeys
<1>3. CH = {} /\ SC = {}
  BY DEF NoulKeys, Found
<1>4. /\ NO = {} <=> m < p + 9
      /\ x \in Nat /\ x <= a.value /\ (m > p + 9 => x = a.value)
  <2>1. /\ 5 \in Keys(t, "noul") /\ \A i \in Keys(t, "noul") : i >= 5
        /\ t[5 + 2] = Num(a.value) /\ 5 + 2 <= Len(t)
    BY <1>2 DEF NoulKeys
  <2>2. NumberFits(NO, j, p + 4 + 5, m, a.value)
    BY <2>1, NumberTaken
  <2>3. p + 4 + 5 = p + 9
    BY <1>2
  <2> QED
    BY <2>2, <2>3, Zenon DEF NumberFits
<1>6. a.tag = "nouled" /\ a.conf = 0
  <2> DEFINE y == a.value
  <2>1. a = Nouled(y)
    OBVIOUS
  <2> HIDE DEF y
  <2>2. Nouled(y).tag = "nouled" /\ Nouled(y).conf = 0
    BY DEF Nouled, Answer
  <2> QED
    BY <2>1, <2>2
<1> HIDE DEF CH, SC, NO, CO
<1>7. CASE NO = {}
  <2>1. b = Missing("unrecognised")
    BY <1>1, <1>3, <1>7 DEF Built
  <2> HIDE DEF b
  <2>2. ~Usable(b)
    BY <2>1, MissingIsNone
  <2> QED
    BY <1>2, <1>4, <1>7, <2>2 DEF Weaker, b
<1>8. CASE NO # {}
  <2>1. b = Nouled(x)
    BY <1>1, <1>3, <1>8 DEF Built, Number
  <2> HIDE DEF x, b
  <2>2. b.tag = "nouled" /\ b.value = x /\ b.conf = 0
    BY <2>1 DEF Nouled, Answer
  <2>3. Weaker(b, a)
    BY <1>4, <1>6, <2>2 DEF Weaker
  <2>4. m > p + 2 + Len(t) => b = a
    BY <1>2, <1>4, <2>1
  <2> QED
    BY <2>3, <2>4 DEF b
<1> QED
  BY <1>7, <1>8

\* Neither of them.
LEMMA NullTaken ==
  ASSUME NEW r, NEW q \in Questions, NEW t, IsInner(t), NEW p, Placed(r, q, t, p),
         NEW j, NEW m, IsCut(j, r, m), m > p, NullKeys(t)
  PROVE  answer_build(j, q) = Missing("unrecognised")
<1> DEFINE F(key, kinds) == Found(j, t, p, m, key, kinds)
           CH == F("choice", {"str", "open"})   SC == F("score", {"num"})
           NO == F("noul", {"num"})   CO == F("confidence", {"num"})
<1>1. answer_build(j, q) = Built(j, CH, SC, NO, CO)
  BY FieldsAre
<1>2. CH = {} /\ SC = {} /\ NO = {}
  BY DEF NullKeys, Found
<1> HIDE DEF CH, SC, NO, CO
<1> QED
  BY <1>1, <1>2 DEF Built

\* No answer is taken where the question does not stand.
LEMMA NotNamed ==
  ASSUME NEW j, NEW q, Named(j, q) = {}
  PROVE  ~Usable(answer_build(j, q))
<1>1. answer_build(j, q) \in {Missing("empty"), Missing("failed"), Missing("no answer")}
  BY Zenon DEF answer_build, answer_missing
<1> QED
  BY <1>1, MissingIsNone

NoAnswer   == Missing("no answer")
Unreadable == Missing("unrecognised")
\* A word is not the id of another question.
NotOthers(q, l) == l \notin Questions \ {q}
LEMMA SaidIs ==
  ASSUME NEW q, NEW a, IsSaid(q, a), a # NoAnswer
  PROVE  /\ a.label \in STRING /\ a.value \in Nat /\ a.conf \in Nat
         /\ \/ a = Unreadable
            \/ /\ a = Chosen(a.label, a.conf) /\ (a.conf = 0 => a.label # "confidence")
               /\ NotOthers(q, a.label)
            \/ a = Scored(a.value, a.conf)
            \/ a = Nouled(a.value)
  BY Zenon DEF IsSaid, NoAnswer, Unreadable, NotOthers

\* The fields of an answer can be read.
Reads(t, a) ==
  \/ a = Chosen(a.label, a.conf) /\ ChoiceKeys(t, a)
  \/ a = Scored(a.value, a.conf) /\ ScoreKeys(t, a)
  \/ a = Nouled(a.value) /\ NoulKeys(t, a)
  \/ a = Unreadable /\ NullKeys(t)
LEMMA FieldsRead ==
  ASSUME NEW q \in Questions, NEW a, IsSaid(q, a), a # NoAnswer
  PROVE  /\ IsInner(Fields(a)) /\ Reads(Fields(a), a) /\ Fields(a) \in Seq(Token)
         /\ (\E l : NotOthers(q, l) /\ Spelled(Fields(a), l)) /\ Valued(Fields(a))
<1>1. a.label \in STRING /\ a.value \in Nat /\ a.conf \in Nat
  BY SaidIs
<1>6. NotOthers(q, "type")
  BY EditStepAssumption DEF NotOthers, ResponseWords
<1>2. CASE a = Chosen(a.label, a.conf) /\ (a.conf = 0 => a.label # "confidence") /\ NotOthers(q, a.label)
  <2>1. a.tag = "chosen"
    BY <1>2 DEF Chosen, Answer
  <2>2. Fields(a) \in Seq(Token) /\ IsChoice(Fields(a), a, Room(a))
    BY <1>1, <2>1, ChoiceFields
  <2>3. /\ IsInner(Fields(a)) /\ ChoiceKeys(Fields(a), a)
        /\ Spelled(Fields(a), a.label) /\ Valued(Fields(a))
    BY <1>1, <1>2, <2>2, ChoiceIsKeyed
  <2> QED
    BY <1>2, <2>2, <2>3, Zenon DEF Reads
<1>3. CASE a = Scored(a.value, a.conf)
  <2>1. a.tag = "scored"
    <3> DEFINE y == a.value   z == a.conf
    <3>1. a = Scored(y, z)
      BY <1>3
    <3> HIDE DEF y, z
    <3>2. Scored(y, z).tag = "scored"
      BY DEF Scored, Answer
    <3> QED
      BY <3>1, <3>2
  <2>2. Fields(a) \in Seq(Token) /\ IsScore(Fields(a), a, Room(a))
    BY <1>1, <2>1, ScoreFields
  <2>3. /\ IsInner(Fields(a)) /\ ScoreKeys(Fields(a), a)
        /\ Spelled(Fields(a), "type") /\ Valued(Fields(a))
    BY <2>2, ScoreIsKeyed
  <2> QED
    BY <1>3, <1>6, <2>2, <2>3, Zenon DEF Reads
<1>4. CASE a = Nouled(a.value)
  <2>1. a.tag = "nouled"
    <3> DEFINE y == a.value
    <3>1. a = Nouled(y)
      BY <1>4
    <3> HIDE DEF y
    <3>2. Nouled(y).tag = "nouled"
      BY DEF Nouled, Answer
    <3> QED
      BY <3>1, <3>2
  <2>2. Fields(a) \in Seq(Token) /\ IsNoul(Fields(a), a)
    BY <1>1, <2>1, NoulFields
  <2>3. /\ IsInner(Fields(a)) /\ NoulKeys(Fields(a), a)
        /\ Spelled(Fields(a), "type") /\ Valued(Fields(a))
    BY <2>2, NoulIsKeyed
  <2> QED
    BY <1>4, <1>6, <2>2, <2>3, Zenon DEF Reads
<1>5. CASE a = Unreadable
  <2>1. a.tag = "missing"
    BY <1>5 DEF Unreadable, Missing, Answer
  <2>2. Fields(a) \in Seq(Token) /\ IsNull(Fields(a))
    BY <2>1, NullFields
  <2>3. /\ IsInner(Fields(a)) /\ NullKeys(Fields(a))
        /\ Spelled(Fields(a), "type") /\ Valued(Fields(a))
    BY <2>2, NullIsKeyed
  <2> QED
    BY <1>5, <1>6, <2>2, <2>3, Zenon DEF Reads
<1> QED
  BY <1>2, <1>3, <1>4, <1>5, SaidIs, Zenon

\* The answer to a question that has its object in a response: taken from what
\* has arrived it is no more than was said, and from the whole it is just that.
LEMMA AnswerTaken ==
  ASSUME NEW r, NEW q \in Questions, NEW a, IsSaid(q, a), a # NoAnswer,
         NEW p, Placed(r, q, Fields(a), p), NEW j, NEW m, IsCut(j, r, m)
  PROVE  /\ Weaker(answer_build(j, q), a)
         /\ m = Len(r) => answer_build(j, q) = a
<1> DEFINE t == Fields(a)   b == answer_build(j, q)
<1>1. /\ a.label \in STRING /\ a.value \in Nat /\ a.conf \in Nat
      /\ IsInner(t) /\ Reads(t, a)
  BY FieldsRead, SaidIs
<1>6. Placed(r, q, t, p) /\ Len(t) \in Nat
  BY <1>1 DEF IsInner
<1> HIDE DEF t
<1>2. p \in Nat /\ Len(r) \in Nat /\ m \in 1..Len(r) /\ p + Len(t) + 5 <= Len(r)
  BY <1>6 DEF Placed, IsCut
<1>3. CASE m <= p
  <2>1. Named(j, q) = {}
    <3>1. ASSUME NEW i \in 1..m, j[i] = Str(q) PROVE FALSE
      <4>1. CASE i < m
        <5>1. j[i] = r[i] /\ i \in 1..(p - 1)
          BY <1>2, <1>3, <4>1 DEF IsCut
        <5> QED
          BY <1>6, <3>1, <5>1 DEF Placed
      <4>2. CASE i = m
        <5>1. j[i].k = "str" /\ IsPiece(j[i], r[i])
          BY <3>1, <4>2, KindParts DEF IsCut
        <5> QED
          BY <5>1 DEF IsPiece
      <4> QED
        BY <1>2, <4>1, <4>2
    <3> QED
      BY <3>1 DEF Named, IsCut
  <2>2. ~Usable(b)
    BY <2>1, NotNamed
  <2>3. m # Len(r)
    BY <1>2, <1>3, <1>6
  <2> QED
    BY <2>2, <2>3 DEF Weaker
<1>4. CASE m > p
  <2>1. m = Len(r) => m > p + 2 + Len(t)
    BY <1>2, <1>6
  <2>3. CASE a = Chosen(a.label, a.conf) /\ ChoiceKeys(t, a)
    BY <1>1, <1>4, <1>6, <2>1, <2>3, ChoiceTaken
  <2>4. CASE a = Scored(a.value, a.conf) /\ ScoreKeys(t, a)
    BY <1>1, <1>4, <1>6, <2>1, <2>4, ScoreTaken
  <2>5. CASE a = Nouled(a.value) /\ NoulKeys(t, a)
    BY <1>1, <1>4, <1>6, <2>1, <2>5, NoulTaken
  <2>6. CASE a = Unreadable /\ NullKeys(t)
    <3>1. b = a
      BY <1>1, <1>4, <1>6, <2>6, NullTaken, Zenon DEF Unreadable
    <3> HIDE DEF b
    <3>2. ~Usable(b)
      BY <2>6, <3>1, MissingIsNone DEF Unreadable
    <3>3. Weaker(b, a)
      BY <3>2 DEF Weaker
    <3> QED
      BY <3>1, <3>3 DEF b
  <2> QED
    BY <1>1, <2>3, <2>4, <2>5, <2>6 DEF Reads
<1> QED
  BY <1>2, <1>3, <1>4

-----------------------------------------------------------------------------
(* The parts of a response.                                                *)

\* A question's part: its id and the object of its fields, behind a comma
\* when d is 1.
IsPart(a, w, t, d) ==
  /\ a \in Seq(Token) /\ d \in {0, 1} /\ Len(a) = d + 4 + Len(t)
  /\ d = 1 => a[1].k = KComma
  /\ a[d + 1] = Str(w) /\ a[d + 2].k = KColon /\ a[d + 3].k = KOpens
  /\ \A i \in (d + 4)..(d + 3 + Len(t)) : a[i] = t[i - (d + 3)]
  /\ a[d + 4 + Len(t)].k = KCloses

\* A field whose value is an object, with a comma before it and without.
LEMMA FieldIsPart ==
  ASSUME NEW w \in STRING, NEW t \in Seq(Token)
  PROVE  /\ IsPart(Field(w, Object(t)), w, t, 0)
         /\ IsPart(More(w, Object(t)), w, t, 1)
<1> DEFINE o == Object(t)   u == Field(w, o)   v == More(w, o)
<1>1. o \in Seq(Token) /\ IsObject(o, t)
  BY ObjectParts
<1> HIDE DEF o
<1>2. u \in Seq(Token) /\ IsField(u, w, o) /\ v \in Seq(Token) /\ IsMore(v, w, o)
  BY <1>1, FieldParts, MoreParts
<1> HIDE DEF u, v
<1>3. /\ Len(t) \in Nat /\ Len(o) = Len(t) + 2 /\ Len(u) = Len(t) + 4 /\ Len(v) = Len(t) + 5
  BY <1>1, <1>2 DEF IsObject, IsField, IsMore
<1>4. o[1].k = KOpens /\ o[Len(t) + 2].k = KCloses
  BY <1>1, KindParts, Zenon DEF IsObject
<1>5. u[1] = Str(w) /\ u[2].k = KColon /\ v[1].k = KComma /\ v[2] = Str(w) /\ v[3].k = KColon
  BY <1>2, KindParts, Zenon DEF IsField, IsMore
<1>6. /\ \A i \in 2..(Len(t) + 1) : o[i] = t[i - 1]
      /\ \A i \in 3..Len(u) : u[i] = o[i - 2]
      /\ \A i \in 4..Len(v) : v[i] = o[i - 3]
  BY <1>1, <1>2, Zenon DEF IsObject, IsField, IsMore
<1>7. IsPart(u, w, t, 0)
  <2>1. u[3].k = KOpens /\ u[Len(t) + 4].k = KCloses
    BY <1>3, <1>4, <1>6
  <2>2. ASSUME NEW i \in 4..(3 + Len(t)) PROVE u[i] = t[i - 3]
    <3>1. i \in 3..Len(u) /\ i - 2 \in 2..(Len(t) + 1) /\ (i - 2) - 1 = i - 3
      BY <1>3
    <3> QED
      BY <1>6, <3>1
  <2> QED
    BY <1>2, <1>3, <1>5, <2>1, <2>2 DEF IsPart
<1>8. IsPart(v, w, t, 1)
  <2>1. v[4].k = KOpens /\ v[Len(t) + 5].k = KCloses
    BY <1>3, <1>4, <1>6
  <2>2. ASSUME NEW i \in 5..(4 + Len(t)) PROVE v[i] = t[i - 4]
    <3>1. i \in 4..Len(v) /\ i - 3 \in 2..(Len(t) + 1) /\ (i - 3) - 1 = i - 4
      BY <1>3
    <3> QED
      BY <1>6, <3>1
  <2> QED
    BY <1>2, <1>3, <1>5, <2>1, <2>2 DEF IsPart
<1> QED
  BY <1>7, <1>8 DEF o, u, v

\* What a question left out has no part, and the part of another is its
\* object, behind a comma where one stands before it.
FirstSaid(s, i) == \A j \in 1..(i - 1) : LeftOut(s, j)
LEMMA PartIs ==
  ASSUME NEW s, NEW i \in 1..Len(Asked), s[Asked[i]] # NoAnswer => IsSaid(Asked[i], s[Asked[i]])
  PROVE  /\ LeftOut(s, i) <=> s[Asked[i]] = NoAnswer
         /\ LeftOut(s, i) => Answered(s, i) = << >>
         /\ ~LeftOut(s, i) => IsPart(Answered(s, i), Asked[i], Fields(s[Asked[i]]),
                                     IF FirstSaid(s, i) THEN 0 ELSE 1)
<1> DEFINE q == Asked[i]   t == Fields(s[q])   d == IF FirstSaid(s, i) THEN 0 ELSE 1
<1>1. LeftOut(s, i) <=> s[q] = NoAnswer
  BY Zenon DEF LeftOut, NoAnswer
<1>2. q \in STRING /\ q \in Questions
  BY EditStepAssumption DEF Questions
<1>3. ASSUME ~LeftOut(s, i) PROVE IsPart(Answered(s, i), q, t, d)
  <2>1. t \in Seq(Token)
    BY <1>1, <1>2, <1>3, FieldsRead
  <2> DEFINE u == Field(q, Object(t))   v == More(q, Object(t))
  <2>2. IsPart(u, q, t, 0) /\ IsPart(v, q, t, 1)
    BY <1>2, <2>1, FieldIsPart
  <2>3. Answered(s, i) = (IF FirstSaid(s, i) THEN << >> ELSE <<Comma>>) \o u
    BY <1>3, Zenon DEF Answered, Behind, FirstSaid, Comma
  <2>4. v = <<Comma>> \o u
    BY Zenon DEF More, Comma
  <2>5. << >> \o u = u
    <3>1. u \in Seq(Token)
      BY <2>2 DEF IsPart
    <3> HIDE DEF u
    <3> QED
      BY <3>1, ConcatEmptySeq
  <2> HIDE DEF u, v, t, q
  <2> QED
    BY <2>2, <2>3, <2>4, <2>5
<1>4. LeftOut(s, i) => Answered(s, i) = << >>
  BY DEF Answered
<1> QED
  BY <1>1, <1>3, <1>4

\* A name does not stand in a text.
Lacks(t, q) == \A i \in 1..Len(t) : t[i] # Str(q)
\* A text without an error's message: it ends in a brace, and a key of an
\* error in it is a label with its probability.
ErrorKeys == {"error", "message"}
Clean(t) ==
  /\ t # << >> => t[Len(t)].k = KCloses
  /\ \A i \in 1..Len(t) : i < Len(t) /\ t[i].k = "str" /\ t[i + 1].k = KColon =>
       t[i].s \notin ErrorKeys \/ (i + 2 <= Len(t) /\ t[i + 2].k = "num")
\* What can follow a question's part: nothing, or a comma and a name.
Follows(t) == t # << >> => Len(t) >= 2 /\ t[1].k = KComma /\ t[2].k = "str"

\* The three are kept by joining: the first.
LEMMA LacksJoined ==
  ASSUME NEW q PROVE IsClosed({t \in Seq(Token) : Lacks(t, q)}, Token)
<1> DEFINE C == {t \in Seq(Token) : Lacks(t, q)}
<1>1. << >> \in C /\ C \subseteq Seq(Token)
  BY DEF Lacks
<1>2. ASSUME NEW a \in C, NEW b \in C PROVE a \o b \in C
  <2>1. a \o b \in Seq(Token) /\ IsJoin(a \o b, a, b)
    BY JoinParts
  <2> DEFINE t == a \o b
  <2> HIDE DEF t
  <2>2. ASSUME IsJoin(t, a, b), t \in Seq(Token) PROVE Lacks(t, q)
    <3>1. /\ Len(t) = Len(a) + Len(b) /\ Len(a) \in Nat /\ Len(b) \in Nat
          /\ \A i \in 1..Len(a) : t[i] = a[i]
          /\ \A i \in (Len(a) + 1)..Len(t) : t[i] = b[i - Len(a)]
      BY <2>2 DEF IsJoin
    <3>2. ASSUME NEW i \in 1..Len(t) PROVE t[i] # Str(q)
      <4>1. CASE i <= Len(a)
        BY <3>1, <4>1 DEF Lacks
      <4>2. CASE i > Len(a)
        <5>1. i - Len(a) \in 1..Len(b) /\ t[i] = b[i - Len(a)]
          BY <3>1, <4>2
        <5> QED
          BY <5>1 DEF Lacks
      <4> QED
        BY <3>1, <4>1, <4>2
    <3> QED
      BY <3>2 DEF Lacks
  <2> QED
    BY <2>1, <2>2 DEF t
<1> HIDE DEF C
<1>3. IsClosed(C, Token)
  BY <1>1, <1>2 DEF IsClosed
<1> QED
  BY <1>3 DEF C

\* The second is kept.
LEMMA CleanJoined == IsClosed({t \in Seq(Token) : Clean(t)}, Token)
<1> DEFINE C == {t \in Seq(Token) : Clean(t)}
<1>1. << >> \in C /\ C \subseteq Seq(Token)
  BY DEF Clean
<1>2. ASSUME NEW a \in C, NEW b \in C PROVE a \o b \in C
  <2>1. a \o b \in Seq(Token) /\ IsJoin(a \o b, a, b)
    BY JoinParts
  <2> DEFINE t == a \o b
  <2> HIDE DEF t
  <2>2. ASSUME IsJoin(t, a, b), t \in Seq(Token) PROVE Clean(t)
    <3>1. /\ Len(t) = Len(a) + Len(b) /\ Len(a) \in Nat /\ Len(b) \in Nat
          /\ \A i \in 1..Len(a) : t[i] = a[i]
          /\ \A i \in (Len(a) + 1)..Len(t) : t[i] = b[i - Len(a)]
      BY <2>2 DEF IsJoin
    <3>2. Clean(a) /\ Clean(b) /\ (Len(a) = 0 <=> a = << >>) /\ (Len(b) = 0 <=> b = << >>)
          /\ (Len(t) = 0 <=> t = << >>)
      BY <2>2
    <3>3. ASSUME t # << >> PROVE t[Len(t)].k = KCloses
      <4>1. CASE Len(b) = 0
        BY <3>1, <3>2, <3>3, <4>1 DEF Clean
      <4>2. CASE Len(b) # 0
        <5>1. Len(t) \in (Len(a) + 1)..Len(t) /\ Len(t) - Len(a) = Len(b)
          BY <3>1, <4>2
        <5>2. t[Len(t)] = b[Len(b)]
          BY <3>1, <5>1
        <5> QED
          BY <3>2, <4>2, <5>2 DEF Clean
      <4> QED
        BY <4>1, <4>2
    <3>4. ASSUME NEW i \in 1..Len(t), i < Len(t), t[i].k = "str", t[i + 1].k = KColon
          PROVE  t[i].s \notin ErrorKeys \/ (i + 2 <= Len(t) /\ t[i + 2].k = "num")
      <4>1. CASE i < Len(a)
        <5>1. i \in 1..Len(a) /\ i + 1 \in 1..Len(a) /\ t[i] = a[i] /\ t[i + 1] = a[i + 1]
          BY <3>1, <4>1
        <5>2. a[i].s \notin ErrorKeys \/ (i + 2 <= Len(a) /\ a[i + 2].k = "num")
          BY <3>2, <3>4, <4>1, <5>1 DEF Clean
        <5>3. i + 2 <= Len(a) => i + 2 <= Len(t) /\ t[i + 2] = a[i + 2]
          BY <3>1
        <5> QED
          BY <5>1, <5>2, <5>3
      <4>2. CASE i = Len(a)
        <5>1. t[i] = a[i] /\ a # << >>
          BY <3>1, <3>2, <4>2
        <5>2. a[i].k = KCloses
          BY <3>2, <4>2, <5>1 DEF Clean
        <5> QED
          BY <3>4, <5>1, <5>2, KindsDiffer
      <4>3. CASE i > Len(a)
        <5> DEFINE x == i - Len(a)
        <5>4. /\ x \in 1..Len(b) /\ x < Len(b) /\ (i + 1) - Len(a) = x + 1
              /\ i \in (Len(a) + 1)..Len(t) /\ i + 1 \in (Len(a) + 1)..Len(t)
          BY <3>1, <3>4, <4>3
        <5>1. x \in 1..Len(b) /\ x < Len(b) /\ t[i] = b[x] /\ t[i + 1] = b[x + 1]
          BY <3>1, <5>4
        <5>2. x + 2 <= Len(b) => i + 2 <= Len(t) /\ t[i + 2] = b[(i + 2) - Len(a)] /\ (i + 2) - Len(a) = x + 2
          BY <3>1, <4>3
        <5> HIDE DEF x
        <5>3. b[x].s \notin ErrorKeys \/ (x + 2 <= Len(b) /\ b[x + 2].k = "num")
          BY <3>2, <3>4, <5>1 DEF Clean
        <5> QED
          BY <5>1, <5>2, <5>3
      <4> QED
        BY <3>1, <4>1, <4>2, <4>3
    <3> QED
      BY <3>3, <3>4 DEF Clean
  <2> QED
    BY <2>1, <2>2 DEF t
<1> HIDE DEF C
<1>3. IsClosed(C, Token)
  BY <1>1, <1>2 DEF IsClosed
<1> QED
  BY <1>3 DEF C

\* So is the third.
LEMMA FollowsJoined == IsClosed({t \in Seq(Token) : Follows(t)}, Token)
<1> DEFINE C == {t \in Seq(Token) : Follows(t)}
<1>1. << >> \in C /\ C \subseteq Seq(Token)
  BY DEF Follows
<1>2. ASSUME NEW a \in C, NEW b \in C PROVE a \o b \in C
  <2>1. CASE a = << >>
    <3>1. << >> \o b = b
      BY <1>1
    <3> QED
      BY <2>1, <3>1
  <2>2. CASE a # << >>
    <3>1. a \o b \in Seq(Token) /\ IsJoin(a \o b, a, b)
      BY JoinParts
    <3> DEFINE t == a \o b
    <3> HIDE DEF t
    <3>2. ASSUME IsJoin(t, a, b), t \in Seq(Token) PROVE Follows(t)
      <4>1. Len(t) = Len(a) + Len(b) /\ Len(a) \in Nat /\ Len(b) \in Nat
        BY <3>2 DEF IsJoin
      <4>2. Len(a) >= 2 /\ a[1].k = KComma /\ a[2].k = "str"
        BY <2>2 DEF Follows
      <4>3. t[1] = a[1] /\ t[2] = a[2]
        BY <3>2, <4>1, <4>2 DEF IsJoin
      <4> QED
        BY <4>1, <4>2, <4>3 DEF Follows
    <3> QED
      BY <3>1, <3>2 DEF t
  <2> QED
    BY <2>1, <2>2
<1> HIDE DEF C
<1>3. IsClosed(C, Token)
  BY <1>1, <1>2 DEF IsClosed
<1> QED
  BY <1>3 DEF C

\* A part has the names of its own question and answer only.
LEMMA PartLacks ==
  ASSUME NEW w, NEW t \in Seq(Token), NEW l, Spelled(t, l), NEW a, NEW d, IsPart(a, w, t, d),
         NEW q \in Questions, q # w, q # l
  PROVE  Lacks(a, q)
<1>1. q \notin ResponseWords
  BY EditStepAssumption
<1> DEFINE n == Len(t)
<1>2. /\ n \in Nat /\ d \in {0, 1} /\ Len(a) = d + 4 + n
      /\ \A i \in (d + 4)..(d + 3 + n) : a[i] = t[i - (d + 3)]
  BY DEF IsPart
<1>3. /\ d = 1 => a[1].k = KComma
      /\ a[d + 1] = Str(w) /\ a[d + 2].k = KColon /\ a[d + 3].k = KOpens /\ a[d + 4 + n].k = KCloses
  BY DEF IsPart
<1>4. Str(q).k = "str" /\ Str(q).s = q /\ Str(w) # Str(q)
  BY KindParts
<1> HIDE DEF n
<1>5. ASSUME NEW i \in 1..Len(a), a[i] = Str(q) PROVE FALSE
  <2>1. CASE i <= d + 3
    <3>1. (i = 1 /\ d = 1) \/ i = d + 1 \/ i = d + 2 \/ i = d + 3
      BY <1>2, <2>1
    <3> QED
      BY <1>3, <1>4, <1>5, <3>1, KindsDiffer
  <2>2. CASE i \in (d + 4)..(d + 3 + n)
    <3>1. i - (d + 3) \in 1..n /\ a[i] = t[i - (d + 3)]
      BY <1>2, <2>2
    <3>2. q \in ResponseWords \union {l}
      BY <1>4, <1>5, <3>1 DEF Spelled, n
    <3> QED
      BY <1>1, <3>2
  <2>3. CASE i = d + 4 + n
    BY <1>3, <1>4, <1>5, <2>3, KindsDiffer
  <2> QED
    BY <1>2, <2>1, <2>2, <2>3
<1> QED
  BY <1>5 DEF Lacks

\* No question and no field of a response has the name of an error.
LEMMA ErrorKeysApart ==
  ErrorKeys \cap ResponseWords = {} /\ ErrorKeys \cap Questions = {}
<1>1. ErrorKeys \cap ResponseWords = {}
  BY DEF ErrorKeys, ResponseWords
<1>2. ErrorKeys \subseteq ErrorWords
  BY Zenon DEF ErrorKeys, ErrorWords
<1> QED
  BY <1>1, <1>2, EditStepAssumption

\* A part has no error in it: a key of that name is a label with a number.
LEMMA PartIsClean ==
  ASSUME NEW w \in Questions, NEW t \in Seq(Token), Valued(t), NEW a, NEW d, IsPart(a, w, t, d)
  PROVE  Clean(a)
<1> DEFINE n == Len(t)
<1>2. /\ n \in Nat /\ d \in {0, 1} /\ Len(a) = d + 4 + n /\ a \in Seq(Token)
      /\ \A i \in (d + 4)..(d + 3 + n) : a[i] = t[i - (d + 3)]
  BY DEF IsPart
<1>3. /\ d = 1 => a[1].k = KComma
      /\ a[d + 1] = Str(w) /\ a[d + 2].k = KColon /\ a[d + 3].k = KOpens /\ a[d + 4 + n].k = KCloses
  BY DEF IsPart
<1>4. a[d + 1].s = w /\ w \notin ErrorKeys
  BY <1>3, KindParts, ErrorKeysApart
<1>7. \A i \in 1..n : i < n /\ t[i].k = "str" /\ t[i + 1].k = KColon =>
        t[i].s \notin ErrorKeys \/ (i + 2 <= n /\ t[i + 2].k = "num")
  BY ErrorKeysApart, Zenon DEF Valued, n
<1> HIDE DEF n
<1>5. ASSUME NEW i \in 1..Len(a), i < Len(a), a[i].k = "str", a[i + 1].k = KColon
      PROVE  a[i].s \notin ErrorKeys \/ (i + 2 <= Len(a) /\ a[i + 2].k = "num")
  <2>1. CASE i <= d + 3
    <3>1. (i = 1 /\ d = 1) \/ i = d + 1 \/ i = d + 2 \/ i = d + 3
      BY <1>2, <2>1
    <3> QED
      BY <1>3, <1>4, <1>5, <3>1, KindsDiffer
  <2>2. CASE i \in (d + 4)..(d + 2 + n)
    <3> DEFINE x == i - (d + 3)
    <3>4. /\ x \in 1..n /\ x < n /\ (i + 1) - (d + 3) = x + 1
          /\ i \in (d + 4)..(d + 3 + n) /\ i + 1 \in (d + 4)..(d + 3 + n)
      BY <1>2, <2>2
    <3>1. x \in 1..n /\ x < n /\ a[i] = t[x] /\ a[i + 1] = t[x + 1]
      BY <1>2, <3>4
    <3>5. x + 2 <= n => i + 2 <= Len(a) /\ (i + 2) - (d + 3) = x + 2 /\ i + 2 \in (d + 4)..(d + 3 + n)
      BY <1>2, <2>2
    <3>2. x + 2 <= n => i + 2 <= Len(a) /\ a[i + 2] = t[x + 2]
      <4>1. HAVE x + 2 <= n
      <4>2. a[i + 2] = t[(i + 2) - (d + 3)]
        BY <1>2, <3>5, <4>1, Zenon
      <4> QED
        BY <3>5, <4>1, <4>2, Zenon
    <3> HIDE DEF x
    <3>3. t[x].s \notin ErrorKeys \/ (x + 2 <= n /\ t[x + 2].k = "num")
      BY <1>5, <1>7, <3>1
    <3> QED
      BY <3>1, <3>2, <3>3
  <2>3. CASE i = d + 3 + n
    <3>1. i + 1 = d + 4 + n
      BY <1>2, <2>3
    <3> QED
      BY <1>3, <1>5, <3>1, KindsDiffer
  <2>4. i <= d + 3 \/ i \in (d + 4)..(d + 2 + n) \/ i = d + 3 + n
    BY <1>2, <1>5, SMTT(40)
  <2> QED
    BY <2>1, <2>2, <2>3, <2>4
<1>6. a[Len(a)].k = KCloses
  BY <1>2, <1>3
<1> QED
  BY <1>5, <1>6 DEF Clean

\* A part behind a comma can follow another.
LEMMA PartFollows ==
  ASSUME NEW w, NEW t \in Seq(Token), NEW a, IsPart(a, w, t, 1)
  PROVE  Follows(a)
<1>1. Len(a) >= 2 /\ a[1].k = KComma
  BY DEF IsPart
<1>2. a[2].k = "str"
  BY KindParts DEF IsPart
<1> QED
  BY <1>1, <1>2 DEF Follows

\* Where a question's part stands among those of a response, z tokens before
\* it without its id.
PlacedIn(x, q, t, z) ==
  /\ x \in Seq(Token) /\ z \in Nat /\ z + 4 + Len(t) <= Len(x)
  /\ x[z + 1] = Str(q) /\ \A i \in 1..z : x[i] # Str(q)
  /\ x[z + 2].k = KColon /\ x[z + 3].k = KOpens
  /\ \A i \in (z + 4)..(z + 3 + Len(t)) : x[i] = t[i - (z + 3)]
  /\ x[z + 4 + Len(t)].k = KCloses
  /\ \/ z + 6 + Len(t) <= Len(x) /\ x[z + 5 + Len(t)].k = KComma /\ x[z + 6 + Len(t)].k = "str"
     \/ Len(x) = z + 4 + Len(t)

\* A part behind what lacks its id, and before what can follow it.
LEMMA PartIsPlaced ==
  ASSUME NEW q, NEW t \in Seq(Token), NEW b \in Seq(Token), Lacks(b, q),
         NEW a, NEW d, IsPart(a, q, t, d), NEW r \in Seq(Token), Follows(r)
  PROVE  PlacedIn((b \o a) \o r, q, t, Len(b) + d)
<1> DEFINE c == b \o a   x == c \o r   z == Len(b) + d   n == Len(t)
<1>1. /\ n \in Nat /\ d \in {0, 1} /\ Len(a) = d + 4 + n /\ a \in Seq(Token)
      /\ \A i \in (d + 4)..(d + 3 + n) : a[i] = t[i - (d + 3)]
  BY DEF IsPart
<1>2. /\ d = 1 => a[1].k = KComma
      /\ a[d + 1] = Str(q) /\ a[d + 2].k = KColon /\ a[d + 3].k = KOpens /\ a[d + 4 + n].k = KCloses
  BY DEF IsPart
<1>3. c \in Seq(Token) /\ IsJoin(c, b, a)
  BY <1>1, JoinParts
<1>4. x \in Seq(Token) /\ IsJoin(x, c, r)
  BY <1>3, JoinParts
<1> HIDE DEF c, x
<1>5. Len(b) \in Nat /\ Len(r) \in Nat /\ Len(c) = Len(b) + Len(a) /\ Len(x) = Len(c) + Len(r)
  BY <1>3, <1>4 DEF IsJoin
<1>6. z \in Nat /\ Len(c) = z + 4 + n
  BY <1>1, <1>5
<1>7. \A i \in 1..Len(b) : x[i] = b[i]
  <2>1. \A i \in 1..Len(b) : i \in 1..Len(c)
    BY <1>1, <1>5
  <2> QED
    BY <1>3, <1>4, <2>1 DEF IsJoin
<1>8. \A i \in 1..Len(a) : x[Len(b) + i] = a[i]
  <2> TAKE i \in 1..Len(a)
  <2>1. Len(b) + i \in 1..Len(c) /\ Len(b) + i \in (Len(b) + 1)..Len(c) /\ (Len(b) + i) - Len(b) = i
    BY <1>1, <1>5
  <2> QED
    BY <1>3, <1>4, <2>1 DEF IsJoin
<1>9. \A i \in 1..Len(r) : x[Len(c) + i] = r[i]
  <2> TAKE i \in 1..Len(r)
  <2>1. Len(c) + i \in (Len(c) + 1)..Len(x) /\ (Len(c) + i) - Len(c) = i
    BY <1>1, <1>5
  <2> QED
    BY <1>4, <2>1 DEF IsJoin
<1>10. Str(q).k = "str"
  BY KindParts
<1>11. ASSUME NEW i \in 1..z PROVE x[i] # Str(q)
  <2>1. i \in 1..Len(b) \/ (d = 1 /\ i = Len(b) + 1)
    BY <1>1, <1>5
  <2>2. CASE i \in 1..Len(b)
    BY <1>7, <2>2 DEF Lacks
  <2>3. CASE d = 1 /\ i = Len(b) + 1
    <3>1. 1 \in 1..Len(a)
      BY <1>1
    <3>2. x[i] = a[1] /\ a[1].k = KComma
      BY <1>2, <1>8, <2>3, <3>1
    <3> QED
      BY <1>10, <3>2, KindsDiffer
  <2> QED
    BY <2>1, <2>2, <2>3, Zenon
<1>12. /\ x[z + 1] = Str(q) /\ x[z + 2].k = KColon /\ x[z + 3].k = KOpens
       /\ x[z + 4 + n].k = KCloses
  <2>1. \A y \in {1, 2, 3, 4 + n} : d + y \in 1..Len(a) /\ Len(b) + (d + y) = z + y
    BY <1>1, <1>5, SMTT(40)
  <2>2. \A y \in {1, 2, 3, 4 + n} : x[z + y] = a[d + y]
    BY <1>8, <2>1
  <2>3. z + (4 + n) = z + 4 + n /\ d + (4 + n) = d + 4 + n
    BY <1>1, <1>6
  <2> HIDE DEF z
  <2> QED
    BY <1>2, <2>2, <2>3
<1>13. ASSUME NEW i \in (z + 4)..(z + 3 + n) PROVE x[i] = t[i - (z + 3)]
  <2> DEFINE y == i - Len(b)
  <2>1. /\ y \in 1..Len(a) /\ y \in (d + 4)..(d + 3 + n) /\ Len(b) + y = i
        /\ y - (d + 3) = i - (z + 3)
    BY <1>1, <1>5
  <2> HIDE DEF y, z
  <2>2. x[Len(b) + y] = a[y]
    BY <1>8, <2>1, Zenon
  <2>3. a[y] = t[y - (d + 3)]
    BY <1>1, <2>1, Zenon
  <2>4. Len(b) + y = i /\ y - (d + 3) = i - (z + 3)
    BY <2>1, Zenon
  <2> QED
    BY <2>2, <2>3, <2>4, Zenon
<1>14. \/ z + 6 + n <= Len(x) /\ x[z + 5 + n].k = KComma /\ x[z + 6 + n].k = "str"
       \/ Len(x) = z + 4 + n
  <2>1. CASE r = << >>
    <3>1. Len(r) = 0
      BY <2>1
    <3> HIDE DEF z, n
    <3>3. Len(x) = Len(c)
      BY <1>5, <3>1
    <3>2. Len(x) = z + 4 + n
      BY <1>6, <3>3
    <3> QED
      BY <3>2
  <2>2. CASE r # << >>
    <3>1. Len(r) >= 2 /\ r[1].k = KComma /\ r[2].k = "str"
      BY <2>2 DEF Follows
    <3>2. 1 \in 1..Len(r) /\ 2 \in 1..Len(r) /\ Len(c) + 1 = z + 5 + n /\ Len(c) + 2 = z + 6 + n
      BY <1>1, <1>5, <1>6, <3>1
    <3> HIDE DEF z
    <3>3. x[z + 5 + n] = r[1] /\ x[z + 6 + n] = r[2]
      BY <1>9, <3>2
    <3>4. z + 6 + n <= Len(x)
      BY <1>1, <1>5, <1>6, <3>1
    <3> QED
      BY <3>1, <3>3, <3>4
  <2> QED
    BY <2>1, <2>2
<1>15. z + 4 + n <= Len(x)
  BY <1>1, <1>5, <1>6
<1> HIDE DEF z
<1>16. PlacedIn(x, q, t, z)
  BY <1>4, <1>6, <1>11, <1>12, <1>13, <1>14, <1>15 DEF PlacedIn, n
<1> QED
  BY <1>16 DEF x, c, z

\* The parts of sequences joined by the library's operator.
LEMMA FlattenJoins ==
  ASSUME NEW S, NEW n, NEW ss, Parts(ss, n, S)
  PROVE  \E f : Joinings(f, ss, n, S) /\ (n # 0 => FlattenSeq(ss) = f[n])
<1>0. n \in Nat /\ ss \in [1..n -> Seq(S)] /\ Len(ss) = n
  BY SMTT(40) DEF Parts
<1> DEFINE Solves(g) == g = [i \in 1..n |-> IF i = 1 THEN ss[i] ELSE g[i - 1] \o ss[i]]
           g == CHOOSE g : Solves(g)
<1>1. Solves(g)
  BY <1>0, FlattenExists
<1>2. n # 0 => FlattenSeq(ss) = g[n]
  BY <1>0 DEF FlattenSeq
<1> HIDE DEF g
<1>3. Joins(g, ss, n)
  BY <1>1 DEF Joins
<1>4. PICK f : Joinings(f, ss, n, S) /\ (n # 0 => g[n] = f[n])
  BY <1>3, JoinSteps
<1> QED
  BY <1>2, <1>4

\* Everything a service can say.
IsSaying(s) == \A q \in Questions : s[q] # NoAnswer => IsSaid(q, s[q])
AnswerParts(s) == [i \in 1..Len(Asked) |-> Answered(s, i)]

\* What is known of the part of the i-th question.
LEMMA PartKnown ==
  ASSUME NEW s, IsSaying(s), NEW i \in 1..Len(Asked)
  PROVE  LET q == Asked[i]
             t == Fields(s[q])
         IN  /\ q \in Questions
             /\ s[q] = NoAnswer => AnswerParts(s)[i] = << >>
             /\ s[q] # NoAnswer =>
                  /\ IsSaid(q, s[q]) /\ t \in Seq(Token)
                  /\ IsPart(AnswerParts(s)[i], q, t, IF FirstSaid(s, i) THEN 0 ELSE 1)
                  /\ (\E l : NotOthers(q, l) /\ Spelled(t, l)) /\ Valued(t)
<1>1. Asked[i] \in Questions
  BY DEF Questions
<1>2. s[Asked[i]] # NoAnswer => IsSaid(Asked[i], s[Asked[i]])
  BY <1>1 DEF IsSaying
<1>3. AnswerParts(s)[i] = Answered(s, i)
  BY DEF AnswerParts
<1>4. /\ s[Asked[i]] = NoAnswer => AnswerParts(s)[i] = << >>
      /\ s[Asked[i]] # NoAnswer =>
           IsPart(AnswerParts(s)[i], Asked[i], Fields(s[Asked[i]]), IF FirstSaid(s, i) THEN 0 ELSE 1)
  BY <1>2, <1>3, PartIs, Zenon
<1>5. s[Asked[i]] # NoAnswer =>
        /\ Fields(s[Asked[i]]) \in Seq(Token)
        /\ (\E l : NotOthers(Asked[i], l) /\ Spelled(Fields(s[Asked[i]]), l))
        /\ Valued(Fields(s[Asked[i]]))
  BY <1>1, <1>2, FieldsRead, Zenon
<1> QED
  BY <1>1, <1>2, <1>4, <1>5, Zenon

\* The parts are texts.
LEMMA PartsAre ==
  ASSUME NEW s, IsSaying(s)
  PROVE  Parts(AnswerParts(s), Len(Asked), Token) /\ Len(Asked) \in Nat /\ Len(Asked) # 0
<1>1. Len(Asked) \in Nat /\ Len(Asked) # 0
  BY EditStepAssumption
<1>2. ASSUME NEW i \in 1..Len(Asked) PROVE Answered(s, i) \in Seq(Token)
  <2>1. AnswerParts(s)[i] = Answered(s, i)
    BY DEF AnswerParts
  <2>2. AnswerParts(s)[i] = << >> \/ \E t, d : IsPart(AnswerParts(s)[i], Asked[i], t, d)
    BY PartKnown, Zenon
  <2>3. << >> \in Seq(Token)
    OBVIOUS
  <2> QED
    BY <2>1, <2>2, <2>3, Zenon DEF IsPart
<1> QED
  BY <1>1, <1>2 DEF Parts, AnswerParts

\* The parts joined.
LEMMA AnswersJoin ==
  ASSUME NEW s, IsSaying(s)
  PROVE  \E f : Joinings(f, AnswerParts(s), Len(Asked), Token)
                /\ FlattenSeq(AnswerParts(s)) = f[Len(Asked)]
  BY PartsAre, FlattenJoins

\* Among them no error's message, and no name of a question left out.
LEMMA AnswersAreClean ==
  ASSUME NEW s, IsSaying(s)
  PROVE  /\ FlattenSeq(AnswerParts(s)) \in Seq(Token) /\ Clean(FlattenSeq(AnswerParts(s)))
         /\ \A q \in Questions : s[q] = NoAnswer => Lacks(FlattenSeq(AnswerParts(s)), q)
<1> DEFINE n == Len(Asked)   ss == AnswerParts(s)   C == {t \in Seq(Token) : Clean(t)}
<1>1. PICK f : Joinings(f, ss, n, Token) /\ FlattenSeq(ss) = f[n]
  BY AnswersJoin
<1>2. Parts(ss, n, Token) /\ n \in Nat /\ n \in 0..n
  <2>1. Parts(ss, n, Token) /\ n \in Nat
    BY PartsAre
  <2> QED
    BY <2>1
<1>3. AreIn(ss, 0, n, C)
  <2>1. ASSUME NEW i \in 1..n PROVE ss[i] \in C
    <3>1. << >> \in C
      BY CleanJoined DEF IsClosed
    <3>2. s[Asked[i]] # NoAnswer => ss[i] \in Seq(Token) /\ Clean(ss[i])
      <4>1. HAVE s[Asked[i]] # NoAnswer
      <4>2. PICK d : IsPart(ss[i], Asked[i], Fields(s[Asked[i]]), d)
        BY <4>1, PartKnown, Zenon
      <4>3. ss[i] \in Seq(Token)
        BY <4>2 DEF IsPart
      <4>4. Asked[i] \in Questions /\ Fields(s[Asked[i]]) \in Seq(Token) /\ Valued(Fields(s[Asked[i]]))
        BY <4>1, PartKnown, Zenon
      <4> QED
        BY <4>2, <4>3, <4>4, PartIsClean, Zenon
    <3>3. s[Asked[i]] = NoAnswer => ss[i] = << >>
      BY PartKnown, Zenon
    <3> HIDE DEF ss
    <3> QED
      BY <3>1, <3>2, <3>3
  <2> HIDE DEF C, ss, n
  <2> QED
    BY <2>1 DEF AreIn
<1>4. f[n] \in C
  <2> HIDE DEF C, ss, n
  <2>1. IsClosed(C, Token)
    BY CleanJoined DEF C
  <2> QED
    BY <1>1, <1>2, <1>3, <2>1, JoinsIn
<1>5. ASSUME NEW q \in Questions, s[q] = NoAnswer PROVE Lacks(f[n], q)
  <2> DEFINE L == {t \in Seq(Token) : Lacks(t, q)}
  <2>1. IsClosed(L, Token)
    BY LacksJoined
  <2>2. AreIn(ss, 0, n, L)
    <3>1. ASSUME NEW i \in 1..n PROVE ss[i] \in L
      <4>1. << >> \in L
        BY <2>1 DEF IsClosed
      <4>2. s[Asked[i]] # NoAnswer => ss[i] \in Seq(Token) /\ Lacks(ss[i], q)
        <5>1. HAVE s[Asked[i]] # NoAnswer
        <5>2. PICK d : IsPart(ss[i], Asked[i], Fields(s[Asked[i]]), d)
          BY <5>1, PartKnown, Zenon
        <5>3. ss[i] \in Seq(Token)
          BY <5>2 DEF IsPart
        <5>4. Fields(s[Asked[i]]) \in Seq(Token)
          BY <5>1, PartKnown, Zenon
        <5>5. PICK l : NotOthers(Asked[i], l) /\ Spelled(Fields(s[Asked[i]]), l)
          BY <5>1, PartKnown, Zenon
        <5>6. q # Asked[i]
          BY <1>5, <5>1, Zenon
        <5>7. q # l
          BY <5>5, <5>6, Zenon DEF NotOthers
        <5> HIDE DEF ss
        <5> QED
          BY <5>2, <5>3, <5>4, <5>5, <5>6, <5>7, PartLacks
      <4>3. s[Asked[i]] = NoAnswer => ss[i] = << >>
        BY PartKnown, Zenon
      <4> HIDE DEF ss
      <4> QED
        BY <4>1, <4>2, <4>3
    <3> HIDE DEF L, ss, n
    <3> QED
      BY <3>1 DEF AreIn
  <2>3. f[n] \in L
    <3> HIDE DEF L, ss, n
    <3> QED
      BY <1>1, <1>2, <2>1, <2>2, JoinsIn
  <2> QED
    BY <2>3
<1> HIDE DEF ss, n
<1> QED
  BY <1>1, <1>4, <1>5 DEF ss

\* The object of an answered question stands among the others: its id not
\* before it, the next object or the end behind it.
LEMMA AnswerIsPlaced ==
  ASSUME NEW s, IsSaying(s), NEW q \in Questions, s[q] # NoAnswer
  PROVE  \E z : PlacedIn(FlattenSeq(AnswerParts(s)), q, Fields(s[q]), z)
<1> DEFINE n == Len(Asked)   ss == AnswerParts(s)   At == {i \in 1..n : Asked[i] = q}
<1>1. PICK f : Joinings(f, ss, n, Token) /\ FlattenSeq(ss) = f[n]
  BY AnswersJoin
<1>2. Parts(ss, n, Token) /\ n \in Nat
  BY PartsAre
<1>3. At \subseteq Nat /\ At # {}
  BY DEF Questions
<1>4. PICK k \in At : \A i \in At : k <= i
  <2> HIDE DEF At
  <2> QED
    BY <1>3, LeastExists
<1>5. k \in 1..n /\ Asked[k] = q /\ \A i \in 1..n : i < k => Asked[i] # q
  BY <1>4
<1>6. /\ f \in [0..n -> Seq(Token)] /\ f[k] = f[k - 1] \o ss[k]
      /\ k - 1 \in 0..n /\ k \in 0..n /\ n \in k..n
  <2>1. f \in [0..n -> Seq(Token)] /\ \A i \in 1..n : f[i] = f[i - 1] \o ss[i]
    BY <1>1 DEF Joinings
  <2>2. k - 1 \in 0..n /\ k \in 0..n /\ n \in k..n
    BY <1>2, <1>5
  <2> QED
    BY <1>5, <2>1, <2>2, Zenon
<1>7. PICK d : IsPart(ss[k], q, Fields(s[q]), d)
  BY <1>5, PartKnown, Zenon
<1>8. Fields(s[q]) \in Seq(Token)
  BY <1>5, PartKnown, Zenon
<1>9. f[k - 1] \in Seq(Token) /\ Lacks(f[k - 1], q)
  <2> DEFINE L == {t \in Seq(Token) : Lacks(t, q)}
  <2>1. IsClosed(L, Token)
    BY LacksJoined
  <2>2. AreIn(ss, 0, k - 1, L)
    <3>1. ASSUME NEW i \in 1..(k - 1) PROVE ss[i] \in L
      <4>0. i \in 1..n /\ Asked[i] # q
        BY <1>2, <1>5
      <4>1. << >> \in L
        BY <2>1 DEF IsClosed
      <4>2. s[Asked[i]] # NoAnswer => ss[i] \in Seq(Token) /\ Lacks(ss[i], q)
        <5>1. HAVE s[Asked[i]] # NoAnswer
        <5>2. PICK e : IsPart(ss[i], Asked[i], Fields(s[Asked[i]]), e)
          BY <4>0, <5>1, PartKnown, Zenon
        <5>3. ss[i] \in Seq(Token)
          BY <5>2 DEF IsPart
        <5>4. Fields(s[Asked[i]]) \in Seq(Token)
          BY <4>0, <5>1, PartKnown, Zenon
        <5>5. PICK l : NotOthers(Asked[i], l) /\ Spelled(Fields(s[Asked[i]]), l)
          BY <4>0, <5>1, PartKnown, Zenon
        <5>7. q # l /\ q # Asked[i]
          BY <4>0, <5>5, Zenon DEF NotOthers
        <5> HIDE DEF ss
        <5> QED
          BY <5>2, <5>3, <5>4, <5>5, <5>7, PartLacks
      <4>3. s[Asked[i]] = NoAnswer => ss[i] = << >>
        BY <4>0, PartKnown, Zenon
      <4> HIDE DEF ss
      <4> QED
        BY <4>1, <4>2, <4>3
    <3> HIDE DEF L, ss, n
    <3> QED
      BY <3>1 DEF AreIn
  <2>3. f[k - 1] \in L
    <3> DEFINE y == k - 1
    <3>1. y \in 0..n /\ AreIn(ss, 0, y, L)
      BY <1>6, <2>2
    <3> HIDE DEF L, ss, n, y
    <3>2. f[y] \in L
      BY <1>1, <1>2, <2>1, <3>1, JoinsIn
    <3> QED
      BY <3>2 DEF y
  <2> QED
    BY <2>3
<1>10. \E r \in Seq(Token) : Follows(r) /\ f[n] = f[k] \o r
  <2> DEFINE F == {t \in Seq(Token) : Follows(t)}
  <2>1. IsClosed(F, Token)
    BY FollowsJoined
  <2>2. AreIn(ss, k, n, F)
    <3>1. ASSUME NEW i \in (k + 1)..n PROVE ss[i] \in F
      <4>0. i \in 1..n /\ k \in 1..(i - 1)
        BY <1>2, <1>5
      <4>1. << >> \in F
        BY <2>1 DEF IsClosed
      <4>2. s[Asked[i]] # NoAnswer => ss[i] \in Seq(Token) /\ Follows(ss[i])
        <5>1. HAVE s[Asked[i]] # NoAnswer
        <5>2. ~LeftOut(s, k)
          BY <1>5, Zenon DEF LeftOut, NoAnswer
        <5>3. ~FirstSaid(s, i)
          BY <4>0, <5>2 DEF FirstSaid
        <5>4. IsPart(ss[i], Asked[i], Fields(s[Asked[i]]), 1) /\ Fields(s[Asked[i]]) \in Seq(Token)
          BY <4>0, <5>1, <5>3, PartKnown, Zenon
        <5>5. ss[i] \in Seq(Token)
          BY <5>4 DEF IsPart
        <5> HIDE DEF ss
        <5> QED
          BY <5>4, <5>5, PartFollows
      <4>3. s[Asked[i]] = NoAnswer => ss[i] = << >>
        BY <4>0, PartKnown, Zenon
      <4> HIDE DEF ss
      <4> QED
        BY <4>1, <4>2, <4>3
    <3> HIDE DEF F, ss, n
    <3> QED
      BY <3>1 DEF AreIn
  <2>3. Adds(f, k, n, F)
    <3>1. k \in 0..n /\ n \in k..n /\ Joinings(f, ss, n, Token)
      BY <1>1, <1>6
    <3> HIDE DEF F, ss, n
    <3> QED
      BY <1>2, <2>1, <2>2, <3>1, JoinsRest
  <2> QED
    BY <2>3 DEF Adds
<1>11. PICK r \in Seq(Token) : Follows(r) /\ f[n] = f[k] \o r
  BY <1>10
<1> DEFINE t == Fields(s[q])   b == f[k - 1]   z == Len(b) + d
<1>12. f[n] = (b \o ss[k]) \o r
  BY <1>6, <1>11, Zenon
<1>13. PlacedIn((b \o ss[k]) \o r, q, t, z)
  <2> HIDE DEF ss, t
  <2>1. b \in Seq(Token) /\ Lacks(b, q) /\ IsPart(ss[k], q, t, d) /\ t \in Seq(Token)
    BY <1>7, <1>8, <1>9 DEF t
  <2> HIDE DEF b
  <2> QED
    BY <1>11, <2>1, PartIsPlaced
<1>14. PlacedIn(FlattenSeq(ss), q, t, z)
  <2> HIDE DEF ss, t, b, z
  <2> QED
    BY <1>1, <1>12, <1>13
<1> QED
  BY <1>14

\* A response around its answers.
IsResponse(r, x) ==
  /\ r \in Seq(Token) /\ Len(r) = Len(x) + 10
  /\ r[1] = Opens /\ r[2] = Str("model") /\ r[3] = Colon /\ r[4] = Str("jev") /\ r[5] = Comma
  /\ r[6] = Str("answers") /\ r[7] = Colon /\ r[8] = Opens
  /\ \A i \in 1..Len(x) : r[8 + i] = x[i]
  /\ r[Len(x) + 9] = Closes /\ r[Len(x) + 10] = Closes
LEMMA ResponseParts ==
  ASSUME NEW s, FlattenSeq(AnswerParts(s)) \in Seq(Token)
  PROVE  IsResponse(Response(s), FlattenSeq(AnswerParts(s)))
<1> DEFINE x == FlattenSeq(AnswerParts(s))   o == Object(x)   j == <<Str("jev")>>
           m == Field("model", j)   v == More("answers", o)   u == m \o v   r == Object(u)
<1>1. Response(s) = r
  BY DEF Response, AnswerParts
<1>2. {"model", "jev", "answers"} \subseteq ResponseWords
  BY DEF ResponseWords
<1>3. j \in Seq(Token) /\ Len(j) = 1 /\ j[1] = Str("jev")
  <2> DEFINE y == Str("jev")
  <2>1. y \in Token
    BY <1>2, TokenIn, Zenon
  <2> HIDE DEF y
  <2>2. <<y>> \in Seq(Token) /\ Len(<<y>>) = 1 /\ <<y>>[1] = y
    BY <2>1
  <2> QED
    BY <2>2 DEF y
<1>4. x \in Seq(Token)
  OBVIOUS
<1> HIDE DEF x, j
<1>5. o \in Seq(Token) /\ IsObject(o, x)
  BY <1>4, ObjectParts
<1> HIDE DEF o
<1>6. m \in Seq(Token) /\ IsField(m, "model", j) /\ v \in Seq(Token) /\ IsMore(v, "answers", o)
  BY <1>2, <1>3, <1>5, FieldParts, MoreParts
<1> HIDE DEF m, v
<1>7. u \in Seq(Token) /\ IsJoin(u, m, v)
  BY <1>6, JoinParts
<1> HIDE DEF u
<1>8. r \in Seq(Token) /\ IsObject(r, u)
  BY <1>7, ObjectParts
<1> HIDE DEF r
<1>9. /\ Len(x) \in Nat /\ Len(o) = Len(x) + 2 /\ Len(m) = 3 /\ Len(v) = Len(x) + 5
      /\ Len(u) = Len(x) + 8 /\ Len(r) = Len(x) + 10
  BY <1>3, <1>4, <1>5, <1>6, <1>7, <1>8 DEF IsObject, IsField, IsMore, IsJoin
<1>10. /\ o[1] = Opens /\ o[Len(x) + 2] = Closes /\ \A i \in 2..(Len(x) + 1) : o[i] = x[i - 1]
  BY <1>5, Zenon DEF IsObject
<1>11. m[1] = Str("model") /\ m[2] = Colon /\ \A i \in 3..Len(m) : m[i] = j[i - 2]
  BY <1>6, Zenon DEF IsField
<1>12. v[1] = Comma /\ v[2] = Str("answers") /\ v[3] = Colon /\ \A i \in 4..Len(v) : v[i] = o[i - 3]
  BY <1>6, Zenon DEF IsMore
<1>13. /\ \A i \in 1..Len(m) : u[i] = m[i]
       /\ \A i \in (Len(m) + 1)..Len(u) : u[i] = v[i - Len(m)]
  BY <1>7, Zenon DEF IsJoin
<1>14. r[1] = Opens /\ r[Len(u) + 2] = Closes /\ \A i \in 2..(Len(u) + 1) : r[i] = u[i - 1]
  BY <1>8, Zenon DEF IsObject
<1>15. /\ r[2] = m[1] /\ r[3] = m[2] /\ r[4] = m[3] /\ m[3] = j[1]
       /\ r[5] = v[1] /\ r[6] = v[2] /\ r[7] = v[3] /\ r[8] = v[4] /\ v[4] = o[1]
  <2>1. m[3] = j[1] /\ v[4] = o[1]
    BY <1>9, <1>11, <1>12
  <2>2. ASSUME NEW i \in 1..3 PROVE r[i + 1] = m[i]
    <3>1. i \in 1..Len(m) /\ i + 1 \in 2..(Len(u) + 1) /\ (i + 1) - 1 = i
      BY <1>9
    <3> QED
      BY <1>13, <1>14, <3>1
  <2>3. ASSUME NEW i \in 1..4 PROVE r[i + 4] = v[i]
    <3>1. /\ i + 3 \in (Len(m) + 1)..Len(u) /\ (i + 3) - Len(m) = i
          /\ i + 4 \in 2..(Len(u) + 1) /\ (i + 4) - 1 = i + 3
      BY <1>9
    <3> QED
      BY <1>13, <1>14, <3>1
  <2> QED
    BY <2>1, <2>2, <2>3
<1>16. ASSUME NEW i \in 1..(Len(x) + 2) PROVE r[7 + i] = o[i]
  <2>1. /\ 7 + i \in 2..(Len(u) + 1) /\ (7 + i) - 1 = 6 + i /\ 6 + i \in (Len(m) + 1)..Len(u)
        /\ (6 + i) - Len(m) = 3 + i /\ 3 + i \in 4..Len(v) /\ (3 + i) - 3 = i
    BY <1>9
  <2>2. r[7 + i] = u[6 + i] /\ u[6 + i] = v[3 + i] /\ v[3 + i] = o[i]
    BY <1>12, <1>13, <1>14, <2>1
  <2> QED
    BY <2>2
<1>17. \A i \in 1..Len(x) : r[8 + i] = x[i]
  <2> TAKE i \in 1..Len(x)
  <2>1. i + 1 \in 1..(Len(x) + 2) /\ i + 1 \in 2..(Len(x) + 1) /\ 7 + (i + 1) = 8 + i /\ (i + 1) - 1 = i
    BY <1>9
  <2>2. r[7 + (i + 1)] = o[i + 1] /\ o[i + 1] = x[(i + 1) - 1]
    BY <1>10, <1>16, <2>1
  <2> QED
    BY <2>1, <2>2
<1>18. r[Len(x) + 9] = Closes /\ r[Len(x) + 10] = Closes
  <2>1. Len(x) + 2 \in 1..(Len(x) + 2) /\ 7 + (Len(x) + 2) = Len(x) + 9 /\ Len(u) + 2 = Len(x) + 10
    BY <1>9
  <2>2. r[7 + (Len(x) + 2)] = o[Len(x) + 2]
    BY <1>16, <2>1
  <2> QED
    BY <1>10, <1>14, <2>1, <2>2
<1>19. IsResponse(r, x)
  BY <1>3, <1>8, <1>9, <1>10, <1>11, <1>12, <1>14, <1>15, <1>17, <1>18, Zenon DEF IsResponse
<1> QED
  BY <1>1, <1>19 DEF x

\* What stands before the answers in a response has no name of a question and
\* no key of an error.
LEMMA ResponseStarts ==
  ASSUME NEW x, NEW r, IsResponse(r, x), NEW i \in 1..8
  PROVE  /\ \A q \in Questions : r[i] # Str(q)
         /\ \A key \in ErrorKeys : r[i] # Str(key)
<1> DEFINE N == Questions \union ErrorKeys
<1>1. {"model", "jev", "answers"} \cap N = {}
  <2>1. {"model", "jev", "answers"} \subseteq ResponseWords
    BY DEF ResponseWords
  <2> QED
    BY <2>1, ErrorKeysApart, EditStepAssumption
<1>2. /\ r[1].k = KOpens /\ r[2].s = "model" /\ r[3].k = KColon /\ r[4].s = "jev" /\ r[5].k = KComma
      /\ r[6].s = "answers" /\ r[7].k = KColon /\ r[8].k = KOpens
  BY KindParts, Zenon DEF IsResponse
<1>3. ASSUME NEW w \in N, r[i] = Str(w) PROVE FALSE
  <2>1. r[i].k = "str" /\ r[i].s = w
    BY <1>3, KindParts
  <2> HIDE DEF N
  <2>2. i \in {1, 3, 5, 7, 8} \/ i \in {2, 4, 6}
    OBVIOUS
  <2>3. CASE i \in {1, 3, 5, 7, 8}
    BY <1>2, <2>1, <2>3, KindsDiffer
  <2>4. CASE i \in {2, 4, 6}
    BY <1>1, <1>2, <2>1, <2>4
  <2> QED
    BY <2>2, <2>3, <2>4
<1> QED
  BY <1>3

\* Where an object stands among the answers, it stands in the response.
LEMMA ResponsePlaces ==
  ASSUME NEW x \in Seq(Token), NEW r, IsResponse(r, x), NEW q \in Questions, NEW t \in Seq(Token),
         NEW z, PlacedIn(x, q, t, z)
  PROVE  Placed(r, q, t, z + 9)
<1> DEFINE n == Len(t)   p == z + 9
<1>1. r \in Seq(Token) /\ Len(x) \in Nat /\ Len(r) = Len(x) + 10 /\ n \in Nat
  BY DEF IsResponse
<1>2. /\ \A i \in 1..Len(x) : r[8 + i] = x[i]
      /\ r[Len(x) + 9].k = KCloses /\ r[Len(x) + 10].k = KCloses
  BY KindParts, Zenon DEF IsResponse
<1>3. /\ z \in Nat /\ z + 4 + n <= Len(x) /\ x[z + 1] = Str(q)
      /\ \A i \in 1..z : x[i] # Str(q)
      /\ x[z + 2].k = KColon /\ x[z + 3].k = KOpens
      /\ \A i \in (z + 4)..(z + 3 + n) : x[i] = t[i - (z + 3)]
      /\ x[z + 4 + n].k = KCloses
  BY DEF PlacedIn
<1>4. \/ z + 6 + n <= Len(x) /\ x[z + 5 + n].k = KComma /\ x[z + 6 + n].k = "str"
      \/ Len(x) = z + 4 + n
  BY DEF PlacedIn
<1> HIDE DEF n
<1>11. z \in Nat /\ n \in Nat /\ Len(x) \in Nat /\ z + 4 + n <= Len(x) /\ Len(r) = Len(x) + 10
  BY <1>1, <1>3, Zenon
<1>5. p \in Nat /\ p >= 1 /\ p + n + 5 <= Len(r)
  BY <1>11
<1>6. ASSUME NEW i \in 1..(p - 1) PROVE r[i] # Str(q)
  <2>1. CASE i \in 1..8
    BY <2>1, ResponseStarts
  <2>2. CASE i > 8
    <3> DEFINE y == i - 8
    <3>1. y \in 1..z /\ y \in 1..Len(x) /\ 8 + y = i
      BY <1>11, <2>2
    <3> HIDE DEF y
    <3>2. r[8 + y] = x[y] /\ x[y] # Str(q)
      BY <1>2, <1>3, <3>1, Zenon
    <3> QED
      BY <3>1, <3>2, Zenon
  <2> QED
    BY <1>3, <2>1, <2>2
<1>7. r[p] = Str(q) /\ r[p + 1].k = KColon /\ r[p + 2].k = KOpens /\ r[p + 3 + n].k = KCloses
  <2>1. /\ z + 1 \in 1..Len(x) /\ z + 2 \in 1..Len(x) /\ z + 3 \in 1..Len(x) /\ z + 4 + n \in 1..Len(x)
        /\ 8 + (z + 1) = p /\ 8 + (z + 2) = p + 1 /\ 8 + (z + 3) = p + 2
        /\ 8 + (z + 4 + n) = p + 3 + n
    BY <1>11
  <2> HIDE DEF p
  <2>2. /\ r[8 + (z + 1)] = x[z + 1] /\ r[8 + (z + 2)] = x[z + 2] /\ r[8 + (z + 3)] = x[z + 3]
        /\ r[8 + (z + 4 + n)] = x[z + 4 + n]
    BY <1>2, <2>1
  <2>4. r[p] = x[z + 1] /\ r[p + 1] = x[z + 2] /\ r[p + 2] = x[z + 3] /\ r[p + 3 + n] = x[z + 4 + n]
    BY <2>1, <2>2, Zenon
  <2> QED
    BY <1>3, <2>4, Zenon
<1>8. ASSUME NEW i \in (p + 3)..(p + 2 + n) PROVE r[i] = t[i - (p + 2)]
  <2> DEFINE y == i - 8
  <2>1. y \in 1..Len(x) /\ y \in (z + 4)..(z + 3 + n) /\ 8 + y = i /\ y - (z + 3) = i - (p + 2)
    BY <1>11
  <2> HIDE DEF y, p
  <2>2. r[8 + y] = x[y] /\ x[y] = t[y - (z + 3)]
    BY <1>2, <1>3, <2>1, Zenon
  <2> QED
    BY <2>1, <2>2, Zenon
<1>9. \/ r[p + 4 + n].k = KComma /\ r[p + 5 + n].k = "str"
      \/ /\ Len(r) = p + 5 + n
         /\ r[p + 4 + n].k = KCloses /\ r[p + 5 + n].k = KCloses
  <2>1. CASE z + 6 + n <= Len(x) /\ x[z + 5 + n].k = KComma /\ x[z + 6 + n].k = "str"
    <3>4. z + 6 + n <= Len(x)
      BY <2>1, Zenon
    <3>1. /\ z + 5 + n \in 1..Len(x) /\ z + 6 + n \in 1..Len(x)
          /\ 8 + (z + 5 + n) = p + 4 + n /\ 8 + (z + 6 + n) = p + 5 + n
      BY <1>11, <3>4
    <3> HIDE DEF p
    <3>3. /\ r[8 + (z + 5 + n)] = x[z + 5 + n] /\ r[8 + (z + 6 + n)] = x[z + 6 + n]
      BY <1>2, <3>1, Zenon
    <3>2. r[p + 4 + n] = x[z + 5 + n] /\ r[p + 5 + n] = x[z + 6 + n]
      BY <3>1, <3>3, Zenon
    <3> QED
      BY <2>1, <3>2, Zenon
  <2>2. CASE Len(x) = z + 4 + n
    <3>1. Len(x) + 9 = p + 4 + n /\ Len(x) + 10 = p + 5 + n /\ Len(r) = p + 5 + n
      BY <1>11, <2>2
    <3> HIDE DEF p
    <3> QED
      BY <1>2, <3>1
  <2> QED
    BY <1>4, <2>1, <2>2
<1> HIDE DEF p
<1>10. Placed(r, q, t, p)
  BY <1>1, <1>5, <1>6, <1>7, <1>8, <1>9 DEF Placed, n
<1> QED
  BY <1>10 DEF p

\* A name that the answers lack is nowhere in the response.
LEMMA ResponseLacks ==
  ASSUME NEW x \in Seq(Token), NEW r, IsResponse(r, x), NEW q \in Questions, Lacks(x, q)
  PROVE  Lacks(r, q)
<1>1. Len(x) \in Nat /\ Len(r) = Len(x) + 10 /\ \A i \in 1..Len(x) : r[8 + i] = x[i]
  BY SMTT(40) DEF IsResponse
<1>2. r[Len(x) + 9].k = KCloses /\ r[Len(x) + 10].k = KCloses /\ Str(q).k = "str"
  BY KindParts, Zenon DEF IsResponse
<1>3. ASSUME NEW i \in 1..Len(r) PROVE r[i] # Str(q)
  <2>1. CASE i \in 1..8
    BY <2>1, ResponseStarts
  <2>2. CASE i \in 9..(Len(x) + 8)
    <3> DEFINE y == i - 8
    <3>1. y \in 1..Len(x) /\ 8 + y = i
      BY <1>1, <2>2
    <3> HIDE DEF y
    <3>2. r[8 + y] = x[y] /\ x[y] # Str(q)
      BY <1>1, <3>1, Zenon DEF Lacks
    <3> QED
      BY <3>1, <3>2, Zenon
  <2>3. CASE i = Len(x) + 9 \/ i = Len(x) + 10
    BY <1>2, <2>3, KindsDiffer
  <2> QED
    BY <1>1, <2>1, <2>2, <2>3
<1> QED
  BY <1>3 DEF Lacks

\* A response reports no failure of its own.
LEMMA ResponseIsNoError ==
  ASSUME NEW x \in Seq(Token), NEW r, IsResponse(r, x), Clean(x)
  PROVE  answer_missing(r) = NoAnswer
<1>1. Len(x) \in Nat /\ Len(r) = Len(x) + 10 /\ \A i \in 1..Len(x) : r[8 + i] = x[i]
  BY SMTT(40) DEF IsResponse
<1>2. r[Len(x) + 9].k = KCloses /\ r[Len(x) + 10].k = KCloses
  BY KindParts, Zenon DEF IsResponse
<1>3. ASSUME NEW key \in ErrorKeys, NEW i \in 1..Len(r), r[i] = Str(key), i + 2 <= Len(r),
             r[i + 1].k = KColon, r[i + 2].k \in {"str", "open"}
      PROVE  FALSE
  <2>0. r[i].k = "str" /\ r[i].s = key
    BY <1>3, KindParts
  <2>1. CASE i \in 1..8
    BY <1>3, <2>1, ResponseStarts
  <2>2. CASE i \in 9..(Len(x) + 8)
    <3> DEFINE y == i - 8
    <3>1. y \in 1..Len(x) /\ 8 + y = i /\ (y < Len(x) => y + 1 \in 1..Len(x) /\ 8 + (y + 1) = i + 1)
          /\ (y + 2 <= Len(x) => y + 2 \in 1..Len(x) /\ 8 + (y + 2) = i + 2)
      BY <1>1, <2>2
    <3> HIDE DEF y
    <3>2. r[i] = x[y] /\ (y < Len(x) => r[i + 1] = x[y + 1])
          /\ (y + 2 <= Len(x) => r[i + 2] = x[y + 2])
      BY <1>1, <3>1
    <3>3. y < Len(x)
      <4>1. SUFFICES ASSUME y = Len(x) PROVE FALSE
        BY <1>1, <3>1
      <4>2. x # << >>
        BY <3>1
      <4>3. x[y].k = KCloses
        BY <4>1, <4>2 DEF Clean
      <4> QED
        BY <2>0, <3>2, <4>3, KindsDiffer
    <3>4. x[y].s \notin ErrorKeys \/ (y + 2 <= Len(x) /\ x[y + 2].k = "num")
      BY <1>3, <2>0, <3>1, <3>2, <3>3 DEF Clean
    <3> QED
      BY <1>3, <2>0, <3>2, <3>4
  <2>3. CASE i = Len(x) + 9 \/ i = Len(x) + 10
    BY <1>2, <2>0, <2>3, KindsDiffer
  <2> QED
    BY <1>1, <2>1, <2>2, <2>3
<1>4. \A key \in ErrorKeys : answer_str(r, <<1, Len(r) + 1>>, key) = {}
  <2> TAKE key \in ErrorKeys
  <2> DEFINE V == Values(r, <<1, Len(r) + 1>>, key, {"str", "open"})
  <2>1. ASSUME NEW v \in V PROVE FALSE
    <3> DEFINE e == Len(r) + 1
    <3>1. PICK i \in 1..(e - 1) : /\ r[i] = Str(key) /\ i + 2 <= Len(r) /\ r[i + 1].k = KColon
                                  /\ r[i + 2].k \in {"str", "open"}
      BY <2>1, ValuesIn, SMTT(40)
    <3>2. i \in 1..Len(r)
      BY <1>1
    <3> HIDE DEF e, V
    <3> QED
      BY <1>3, <3>1, <3>2
  <2> HIDE DEF V
  <2>2. V = {}
    BY <2>1
  <2> QED
    BY <2>2 DEF V, answer_str
<1>5. "error" \in ErrorKeys /\ "message" \in ErrorKeys
  BY DEF ErrorKeys
<1> DEFINE E(key) == answer_str(r, <<1, Len(r) + 1>>, key)
<1>6. E("error") \union E("message") = {}
  <2>1. E("error") = {} /\ E("message") = {}
    BY <1>4, <1>5
  <2> HIDE DEF E
  <2> QED
    BY <2>1
<1> QED
  BY <1>6, Zenon DEF answer_missing, NoAnswer

\* What is left of a token.
LEMMA PieceIs ==
  ASSUME NEW t \in Token, NEW x \in Pieces(t)
  PROVE  IsPiece(x, t)
<1>1. CASE t.k = "str"
  <2>1. x = Open(t.s) \/ x = Open("part")
    BY <1>1 DEF Pieces
  <2>2. x.k = "open"
    BY <2>1, KindParts
  <2> QED
    BY <1>1, <2>2 DEF IsPiece
<1>2. CASE t.k = "num"
  <2>1. t.n \in Nat
    <3>1. \A w : Str(w).k # "num"
      BY KindParts
    <3>2. Opens.k # "num" /\ Closes.k # "num" /\ Colon.k # "num" /\ Comma.k # "num"
      BY KindParts, KindsDiffer
    <3>3. PICK n \in Nat : t = Num(n)
      BY <1>2, <3>1, <3>2 DEF Token
    <3> QED
      BY <3>3, KindParts
  <2>2. x = Num(t.n) \/ x = Num(10 * (t.n \div 10)) \/ x = Num(0)
    BY <1>2 DEF Pieces
  <2> DEFINE n == t.n   m == 10 * (n \div 10)
  <2>3. n \in Nat /\ m \in Nat /\ m <= n
    BY <2>1
  <2> HIDE DEF n, m
  <2>4. x = Num(n) \/ x = Num(m) \/ x = Num(0)
    BY <2>2, Zenon DEF n, m
  <2>5. x.k = "num" /\ x.n \in {n, m, 0}
    BY <2>4, KindParts
  <2>6. x.n \in Nat /\ x.n <= n
    BY <2>3, <2>5
  <2> QED
    BY <1>2, <2>5, <2>6 DEF IsPiece, n
<1>3. CASE t.k # "str" /\ t.k # "num"
  <2>1. x = t
    BY <1>3 DEF Pieces
  <2> QED
    BY <1>3, <2>1 DEF IsPiece
<1> QED
  BY <1>1, <1>2, <1>3

\* A response itself, and each of its cuts that is not empty.
LEMMA WholeIsCut ==
  ASSUME NEW r \in Seq(Token), Len(r) > 0, r[Len(r)].k = KCloses
  PROVE  IsCut(r, r, Len(r))
<1>1. IsPiece(r[Len(r)], r[Len(r)])
  BY KindsDiffer DEF IsPiece
<1> QED
  BY <1>1 DEF IsCut

\* What is left of a response when the connection breaks.
LEMMA CutIs ==
  ASSUME NEW r \in Seq(Token), NEW j \in Cuts(r), j # << >>
  PROVE  \E m : IsCut(j, r, m)
<1>1. PICK m \in 1..Len(r) : j \in {Append(SubSeq(r, 1, m - 1), t) : t \in Pieces(r[m])}
  BY Zenon DEF Cuts
<1>2. PICK x \in Pieces(r[m]) : j = Append(SubSeq(r, 1, m - 1), x)
  BY <1>1
<1>3. r[m] \in Token
  OBVIOUS
<1>4. IsPiece(x, r[m])
  BY <1>3, PieceIs
<1> DEFINE S == Token \union {x}   b == SubSeq(r, 1, m - 1)
<1>5. r \in Seq(S) /\ x \in S
  OBVIOUS
<1> HIDE DEF S
<1>6. b \in Seq(S) /\ Len(b) = m - 1 /\ \A i \in 1..(m - 1) : b[i] = r[i]
  BY <1>5
<1> HIDE DEF b
<1>7. Len(Append(b, x)) = m /\ Append(b, x)[m] = x /\ \A i \in 1..(m - 1) : Append(b, x)[i] = r[i]
  BY <1>5, <1>6
<1>8. j = Append(b, x)
  BY <1>2 DEF b
<1>9. IsCut(j, r, m)
  BY <1>4, <1>7, <1>8 DEF IsCut
<1> QED
  BY <1>9

\* A name that a response lacks is in none of its cuts.
LEMMA CutLacks ==
  ASSUME NEW r, NEW q, Lacks(r, q), NEW j, NEW m, IsCut(j, r, m)
  PROVE  Named(j, q) = {}
<1>1. ASSUME NEW i \in 1..m, j[i] = Str(q) PROVE FALSE
  <2>1. m \in 1..Len(r) /\ m \in Int
    BY DEF IsCut
  <2>2. CASE i \in 1..(m - 1)
    <3>1. j[i] = r[i] /\ i \in 1..Len(r)
      BY <2>1, <2>2 DEF IsCut
    <3> QED
      BY <1>1, <3>1 DEF Lacks
  <2>3. CASE i = m
    <3>1. j[i].k = "str" /\ IsPiece(j[i], r[i])
      BY <1>1, <2>3, KindParts DEF IsCut
    <3>2. r[i].k = "str" => FALSE
      BY <3>1 DEF IsPiece
    <3> QED
      BY <3>1, <3>2 DEF IsPiece
  <2> QED
    BY <2>1, <2>2, <2>3
<1> QED
  BY <1>1 DEF Named, IsCut

-----------------------------------------------------------------------------
(* Each question's own answer.                                             *)

\* The response of a service.
LEMMA ResponseIs ==
  ASSUME NEW s, IsSaying(s)
  PROVE  \E x \in Seq(Token) : x = FlattenSeq(AnswerParts(s)) /\ IsResponse(Response(s), x)
  BY AnswersAreClean, ResponseParts

\* From what has arrived of it each question is answered no more than was said.
LEMMA CutIsLess ==
  ASSUME NEW s, IsSaying(s), NEW q \in Questions, NEW j, NEW m, IsCut(j, Response(s), m)
  PROVE  Weaker(answer_build(j, q), s[q])
<1> DEFINE r == Response(s)
<1>1. PICK x \in Seq(Token) : x = FlattenSeq(AnswerParts(s)) /\ IsResponse(r, x)
  BY ResponseIs
<1> HIDE DEF r
<1>2. CASE s[q] = NoAnswer
  <2>1. Lacks(x, q)
    BY <1>1, <1>2, AnswersAreClean
  <2>2. Lacks(r, q)
    BY <1>1, <2>1, ResponseLacks
  <2>3. Named(j, q) = {}
    BY <2>2, CutLacks DEF r
  <2> QED
    BY <2>3, NotNamed DEF Weaker
<1>3. CASE s[q] # NoAnswer
  <2>1. IsSaid(q, s[q])
    BY <1>3 DEF IsSaying
  <2>2. PICK z : PlacedIn(x, q, Fields(s[q]), z)
    BY <1>1, <1>3, AnswerIsPlaced
  <2>3. Fields(s[q]) \in Seq(Token)
    BY <1>3, <2>1, FieldsRead
  <2>4. Placed(r, q, Fields(s[q]), z + 9)
    BY <1>1, <2>2, <2>3, ResponsePlaces
  <2> DEFINE p == z + 9
  <2> HIDE DEF p
  <2>5. Placed(r, q, Fields(s[q]), p) /\ IsCut(j, r, m)
    BY <2>4 DEF p, r
  <2> QED
    BY <1>3, <2>1, <2>5, AnswerTaken
<1> QED
  BY <1>2, <1>3

\* From the whole of it each question is given what was said to it.
LEMMA WholeIsOwn ==
  ASSUME NEW s, IsSaying(s), NEW q \in Questions
  PROVE  answer_build(Response(s), q) = s[q]
<1> DEFINE r == Response(s)
<1>1. PICK x \in Seq(Token) : x = FlattenSeq(AnswerParts(s)) /\ IsResponse(r, x)
  BY ResponseIs
<1> HIDE DEF r
<1>4. r \in Seq(Token) /\ Len(r) > 0 /\ r[Len(r)].k = KCloses
  <2>1. r \in Seq(Token) /\ Len(r) = Len(x) + 10 /\ Len(x) \in Nat /\ r[Len(x) + 10] = Closes
    BY <1>1 DEF IsResponse
  <2> QED
    BY <2>1, KindParts
<1>5. IsCut(r, r, Len(r))
  BY <1>4, WholeIsCut
<1>2. CASE s[q] = NoAnswer
  <2>1. Lacks(x, q) /\ Clean(x)
    BY <1>1, <1>2, AnswersAreClean
  <2>2. Lacks(r, q)
    BY <1>1, <2>1, ResponseLacks
  <2>3. Named(r, q) = {}
    BY <2>2 DEF Lacks, Named
  <2>4. answer_missing(r) = NoAnswer
    BY <1>1, <2>1, ResponseIsNoError
  <2>5. r # << >>
    BY <1>4
  <2>6. answer_build(r, q) = answer_missing(r)
    BY <2>3, <2>5, Zenon DEF answer_build
  <2> QED
    BY <1>2, <2>4, <2>6 DEF r
<1>3. CASE s[q] # NoAnswer
  <2>1. IsSaid(q, s[q])
    BY <1>3 DEF IsSaying
  <2>2. PICK z : PlacedIn(x, q, Fields(s[q]), z)
    BY <1>1, <1>3, AnswerIsPlaced
  <2>3. Fields(s[q]) \in Seq(Token)
    BY <1>3, <2>1, FieldsRead
  <2>4. Placed(r, q, Fields(s[q]), z + 9)
    BY <1>1, <2>2, <2>3, ResponsePlaces
  <2> DEFINE p == z + 9
  <2> HIDE DEF p
  <2>5. Placed(r, q, Fields(s[q]), p)
    BY <2>4 DEF p
  <2>6. answer_build(r, q) = s[q]
    <3> DEFINE a == s[q]   m == Len(r)
    <3>1. a # NoAnswer /\ IsSaid(q, a) /\ Placed(r, q, Fields(a), p) /\ IsCut(r, r, m) /\ m = Len(r)
      BY <1>3, <1>5, <2>1, <2>5
    <3> HIDE DEF a, m
    <3>2. answer_build(r, q) = a
      BY <3>1, AnswerTaken
    <3> QED
      BY <3>2 DEF a
  <2> QED
    BY <2>6 DEF r
<1> QED
  BY <1>2, <1>3

\* The same of all that can arrive.
LEMMA ArrivesLess ==
  ASSUME NEW s \in Saids, NEW j \in Responses[s], NEW q \in Questions
  PROVE  Weaker(answer_build(j, q), s[q])
<1>1. IsSaying(s)
  BY SaidsAssumption DEF IsSaying
<1> DEFINE r == Response(s)
<1>2. j = r \/ (j \in Cuts(r) /\ j # << >>)
  BY DEF Responses
<1>3. PICK x \in Seq(Token) : IsResponse(r, x)
  BY <1>1, ResponseIs
<1> HIDE DEF r
<1>4. r \in Seq(Token) /\ Len(r) > 0 /\ r[Len(r)].k = KCloses
  <2>1. r \in Seq(Token) /\ Len(r) = Len(x) + 10 /\ Len(x) \in Nat /\ r[Len(x) + 10] = Closes
    BY <1>3 DEF IsResponse
  <2> QED
    BY <2>1, KindParts
<1>5. \E m : IsCut(j, r, m)
  BY <1>2, <1>4, WholeIsCut, CutIs
<1> QED
  BY <1>1, <1>5, CutIsLess DEF r

-----------------------------------------------------------------------------
(* What is parsed.                                                         *)

\* Neither of two texts joined has a sentinel that both lack.
LEMMA JoinLacks ==
  ASSUME NEW S, NEW a \in Seq(S), NEW b \in Seq(S), NEW m,
         Spots(a, m) = {}, Spots(b, m) = {}
  PROVE  a \o b \in Seq(S) /\ Spots(a \o b, m) = {}
<1>1. a \o b \in Seq(S) /\ Len(a \o b) = Len(a) + Len(b)
  OBVIOUS
<1>2. \A i \in 1..Len(a \o b) : (a \o b)[i] # m
  <2> TAKE i \in 1..Len(a \o b)
  <2>1. CASE i <= Len(a)
    BY <2>1 DEF Spots
  <2>2. CASE ~(i <= Len(a))
    <3>1. i - Len(a) \in 1..Len(b) /\ (a \o b)[i] = b[i - Len(a)]
      BY <1>1, <2>2
    <3> QED
      BY <3>1 DEF Spots
  <2> QED
    BY <2>1, <2>2
<1> QED
  BY <1>1, <1>2 DEF Spots

\* One piece lacks every other piece.
LEMMA OneLacks ==
  ASSUME NEW S, NEW x \in S, NEW m, x # m
  PROVE  <<x>> \in Seq(S) /\ Spots(<<x>>, m) = {}
  BY DEF Spots

\* What stands before and after the first place of a sentinel.
LEMMA AroundFirst ==
  ASSUME NEW S, NEW a \in Seq(S), NEW c \in S, NEW e \in Seq(S), Spots(a, c) = {}
  PROVE  /\ after((a \o <<c>>) \o e, c) = e
         /\ before((a \o <<c>>) \o e, c) = a
<1> DEFINE s == (a \o <<c>>) \o e
           n == Len(a)
<1>1. /\ s \in Seq(S) /\ n \in Nat /\ Len(s) = n + 1 + Len(e) /\ Len(e) \in Nat
      /\ s[n + 1] = c
      /\ \A i \in 1..n : s[i] = a[i]
      /\ \A i \in 1..Len(e) : s[n + 1 + i] = e[i]
  OBVIOUS
<1>2. \A i \in 1..n : s[i] # c
  BY <1>1 DEF Spots
<1> HIDE DEF s, n
<1> DEFINE L == CHOOSE x \in Spots(s, c) : \A y \in Spots(s, c) : x <= y
<1>3. n + 1 \in Spots(s, c) /\ \A y \in Spots(s, c) : n + 1 <= y /\ y \in Int
  BY <1>1, <1>2 DEF Spots
<1>4. L = n + 1
  <2>1. L \in Spots(s, c) /\ L <= n + 1
    BY <1>3
  <2> QED
    BY <1>1, <1>3, <2>1
<1>5. after(s, c) = SubSeq(s, n + 2, Len(s)) /\ before(s, c) = SubSeq(s, 1, n)
  <2>1. after(s, c) = SubSeq(s, L + 1, Len(s)) /\ before(s, c) = SubSeq(s, 1, L - 1)
    BY <1>3 DEF after, before
  <2> HIDE DEF L
  <2>2. L + 1 = n + 2 /\ L - 1 = n
    BY <1>1, <1>4
  <2> QED
    BY <2>1, <2>2
<1>6. SubSeq(s, n + 2, Len(s)) = e /\ SubSeq(s, 1, n) = a
  <2>1. Len(SubSeq(s, n + 2, Len(s))) = Len(e) /\ Len(SubSeq(s, 1, n)) = Len(a)
    BY <1>1 DEF n
  <2>2. \A i \in 1..Len(e) : SubSeq(s, n + 2, Len(s))[i] = e[i]
    BY <1>1
  <2>3. \A i \in 1..Len(a) : SubSeq(s, 1, n)[i] = a[i]
    BY <1>1 DEF n
  <2>4. SubSeq(s, n + 2, Len(s)) \in Seq(S) /\ SubSeq(s, 1, n) \in Seq(S)
    BY <1>1
  <2> DEFINE t == SubSeq(s, n + 2, Len(s))
             u == SubSeq(s, 1, n)
  <2>5. t = e /\ u = a
    <3> HIDE DEF t, u
    <3> QED
      BY <2>1, <2>2, <2>3, <2>4, SeqEqual DEF t, u
  <2> QED
    BY <2>5
<1> QED
  BY <1>5, <1>6 DEF s

\* What stands before a sentinel starts with all that lacks it.
LEMMA BeforeKeeps ==
  ASSUME NEW S, NEW a \in Seq(S), NEW e \in Seq(S), NEW m, Spots(a, m) = {}
  PROVE  StartsWith(before(a \o e, m), a, S)
<1> SUFFICES \E r \in Seq(S) : before(a \o e, m) = a \o r
  BY DEF StartsWith
<1> DEFINE s == a \o e
           n == Len(a)
<1>1. s \in Seq(S) /\ n \in Nat /\ Len(s) \in Nat /\ \A i \in 1..n : s[i] = a[i]
  OBVIOUS
<1>2. \A i \in 1..n : s[i] # m
  BY <1>1 DEF Spots
<1>3. CASE Spots(s, m) = {}
  BY <1>3 DEF before
<1>4. CASE Spots(s, m) # {}
  <2> DEFINE L == CHOOSE x \in Spots(s, m) : \A y \in Spots(s, m) : x <= y
  <2> HIDE DEF s, n
  <2>0. Spots(s, m) \subseteq Nat
    BY DEF Spots
  <2>1. PICK x \in Spots(s, m) : \A y \in Spots(s, m) : x <= y
    BY <1>4, <2>0, LeastExists
  <2>2. L \in Spots(s, m)
    BY <2>1
  <2>3. L \in 1..Len(s) /\ s[L] = m
    BY <2>2 DEF Spots
  <2>4. L > n
    BY <1>1, <1>2, <2>3
  <2>5. before(s, m) = SubSeq(s, 1, L - 1)
    BY <1>4 DEF before
  <2> HIDE DEF L
  <2>6. SubSeq(s, 1, L - 1) = a \o SubSeq(s, n + 1, L - 1) /\ SubSeq(s, n + 1, L - 1) \in Seq(S)
    BY <1>1, <2>3, <2>4 DEF n
  <2> QED
    BY <2>5, <2>6 DEF s
<1> QED
  BY <1>3, <1>4

\* A draft is a sequence of these.
Piece == STRING \union Sentinels \union {"prose", "part", "json"}

\* A group whose texts are no sentinels.
IsGroup(g) == /\ g \in [path : STRING, old : STRING, new : STRING]
              /\ {g.path, g.old, g.new} \cap Sentinels = {}

\* The four sentinels differ.
LEMMA SentinelsDiffer ==
  /\ "<<<PATH>>>" # "<<<OLD>>>" /\ "<<<PATH>>>" # "<<<NEW>>>" /\ "<<<PATH>>>" # "<<<END>>>"
  /\ "<<<OLD>>>" # "<<<NEW>>>" /\ "<<<OLD>>>" # "<<<END>>>" /\ "<<<NEW>>>" # "<<<END>>>"
  OBVIOUS

\* A text that is no sentinel lacks every sentinel.
LEMMA TextsLack ==
  ASSUME NEW t \in STRING, t \notin Sentinels, NEW m \in Sentinels
  PROVE  Texts(t) \in Seq(Piece) /\ Spots(Texts(t), m) = {}
<1>1. t \in Piece /\ t # m
  BY DEF Piece
<1>2. CASE t = ""
  <2>1. Texts(t) = <<>>
    BY <1>2 DEF Texts
  <2>2. <<>> \in Seq(Piece) /\ Spots(<<>>, m) = {}
    BY DEF Spots
  <2> QED
    BY <2>1, <2>2, Zenon
<1>3. CASE t # ""
  <2>1. Texts(t) = <<t>>
    BY <1>3 DEF Texts
  <2>2. <<t>> \in Seq(Piece) /\ Spots(<<t>>, m) = {}
    BY <1>1, OneLacks, Zenon
  <2> QED
    BY <2>1, <2>2, Zenon
<1> QED
  BY <1>2, <1>3

\* A sentinel with the text before it and more behind.
LEMMA GroupParts ==
  ASSUME NEW g, IsGroup(g)
  PROVE  \E p, o, n \in Seq(Piece) :
           /\ p = Texts(g.path) /\ o = Texts(g.old) /\ n = Texts(g.new)
           /\ \A m \in Sentinels : Spots(p, m) = {} /\ Spots(o, m) = {} /\ Spots(n, m) = {}
           /\ Group(g) = ((((<<"<<<PATH>>>">> \o p) \o <<"<<<OLD>>>">>) \o o) \o <<"<<<NEW>>>">>) \o n
<1>1. /\ g.path \in STRING /\ g.old \in STRING /\ g.new \in STRING
      /\ g.path \notin Sentinels /\ g.old \notin Sentinels /\ g.new \notin Sentinels
  BY DEF IsGroup
<1> DEFINE p == Texts(g.path)   o == Texts(g.old)   n == Texts(g.new)
<1>2. /\ p \in Seq(Piece) /\ o \in Seq(Piece) /\ n \in Seq(Piece)
      /\ \A m \in Sentinels : Spots(p, m) = {} /\ Spots(o, m) = {} /\ Spots(n, m) = {}
  <2>1. p \in Seq(Piece) /\ o \in Seq(Piece) /\ n \in Seq(Piece)
    <3>1. "<<<END>>>" \in Sentinels
      BY DEF Sentinels
    <3> QED
      BY <1>1, <3>1, TextsLack, Zenon
  <2>2. ASSUME NEW m \in Sentinels PROVE Spots(p, m) = {} /\ Spots(o, m) = {} /\ Spots(n, m) = {}
    BY <1>1, TextsLack, Zenon
  <2> QED
    BY <2>1, <2>2, Zenon
<1>3. Group(g) = ((((<<"<<<PATH>>>">> \o p) \o <<"<<<OLD>>>">>) \o o) \o <<"<<<NEW>>>">>) \o n
  BY Zenon DEF Group
<1> QED
  BY <1>2, <1>3, Zenon

\* The brackets of four texts joined.
Four(S, a, b, c, d) == a \in Seq(S) /\ b \in Seq(S) /\ c \in Seq(S) /\ d \in Seq(S)
Regrouped(a, b, c, d) == ((a \o b) \o c) \o d = a \o ((b \o c) \o d)
\* The join of four texts can be read from the second on.
LEMMA Regroup ==
  ASSUME NEW S, NEW a, NEW b, NEW c, NEW d, Four(S, a, b, c, d)
  PROVE  Regrouped(a, b, c, d)
  BY SMTT(30) DEF Four, Regrouped

\* What is cut out of a draft that starts with a group, whatever follows it.
CutOut(s, g, c, e) ==
  /\ edit_path(s) = Texts(g.path)
  /\ edit_old_str(s) = Texts(g.old)
  /\ after(s, "<<<NEW>>>") = (Texts(g.new) \o <<c>>) \o e

\* What a draft that starts with a group is cut into: its path, its old text, and the
\* rest behind <<<NEW>>> (edit_path, edit_old_str and after).
LEMMA GroupIsCut ==
  ASSUME NEW g, IsGroup(g), NEW c \in Piece, NEW e \in Seq(Piece), NEW s,
         s = (Group(g) \o <<c>>) \o e
  PROVE  CutOut(s, g, c, e)
<1> DEFINE P == "<<<PATH>>>"   O == "<<<OLD>>>"   N == "<<<NEW>>>"
<1>1. P \in Sentinels /\ O \in Sentinels /\ N \in Sentinels
  BY DEF Sentinels
<1>2. P # O /\ P # N /\ O # N
  BY SentinelsDiffer
<1>3. /\ edit_path(s) = before(after(s, P), O)
      /\ edit_old_str(s) = before(after(s, O), N)
  BY Zenon DEF edit_path, edit_old_str, section
<1>4. PICK p, o, n \in Seq(Piece) :
        /\ p = Texts(g.path) /\ o = Texts(g.old) /\ n = Texts(g.new)
        /\ \A m \in Sentinels : Spots(p, m) = {} /\ Spots(o, m) = {} /\ Spots(n, m) = {}
        /\ Group(g) = ((((<<P>> \o p) \o <<O>>) \o o) \o <<N>>) \o n
  BY GroupParts
<1>5. s = ((((((<<P>> \o p) \o <<O>>) \o o) \o <<N>>) \o n) \o <<c>>) \o e
  BY <1>4
<1>6. P \in Piece /\ O \in Piece /\ N \in Piece
  BY <1>1 DEF Piece
<1> HIDE DEF P, O, N
<1> DEFINE r3 == (n \o <<c>>) \o e
           r2 == (o \o <<N>>) \o r3
           r1 == (p \o <<O>>) \o r2
           a1 == <<P>> \o p
           a2 == (a1 \o <<O>>) \o o
<1>7. /\ r1 \in Seq(Piece) /\ r2 \in Seq(Piece) /\ r3 \in Seq(Piece)
      /\ a1 \in Seq(Piece) /\ a2 \in Seq(Piece)
      /\ <<P>> \in Seq(Piece) /\ <<O>> \in Seq(Piece) /\ <<N>> \in Seq(Piece) /\ <<c>> \in Seq(Piece)
      /\ a1 \o <<O>> \in Seq(Piece) /\ a2 \o <<N>> \in Seq(Piece)
  BY <1>6
<1> HIDE DEF a1, a2, r1, r2, r3
<1>8. /\ s = <<P>> \o r1
      /\ s = (a1 \o <<O>>) \o r2
      /\ s = (a2 \o <<N>>) \o r3
  <2> DEFINE cP == <<P>>  cO == <<O>>  cN == <<N>>  cE == <<c>>
  <2>1. cP \in Seq(Piece) /\ cO \in Seq(Piece) /\ cN \in Seq(Piece) /\ cE \in Seq(Piece)
    BY <1>7
  <2>2. s = ((((((cP \o p) \o cO) \o o) \o cN) \o n) \o cE) \o e
    BY <1>5
  <2> HIDE DEF cP, cO, cN, cE
  <2> DEFINE q3 == (n \o cE) \o e
             q2 == (o \o cN) \o q3
             x2 == (cP \o p) \o cO
             x3 == (x2 \o o) \o cN
  <2>3. q3 \in Seq(Piece) /\ q2 \in Seq(Piece) /\ x2 \in Seq(Piece) /\ x3 \in Seq(Piece)
    BY <2>1
  <2>4. s = x3 \o q3
    <3>1. s = ((x3 \o n) \o cE) \o e
      BY <2>2
    <3> HIDE DEF x3
    <3>2. Four(Piece, x3, n, cE, e)
      BY <2>1, <2>3 DEF Four
    <3>3. Regrouped(x3, n, cE, e)
      BY <3>2, Regroup
    <3> QED
      BY <3>1, <3>3, Zenon DEF Regrouped
  <2>5. s = x2 \o q2
    <3>1. s = ((x2 \o o) \o cN) \o q3
      BY <2>4
    <3> HIDE DEF x2, q3
    <3>2. Four(Piece, x2, o, cN, q3)
      BY <2>1, <2>3 DEF Four
    <3>3. Regrouped(x2, o, cN, q3)
      BY <3>2, Regroup
    <3> QED
      BY <3>1, <3>3, Zenon DEF Regrouped
  <2>6. s = cP \o ((p \o cO) \o q2)
    <3>1. s = ((cP \o p) \o cO) \o q2
      BY <2>5
    <3> HIDE DEF q2
    <3>2. Four(Piece, cP, p, cO, q2)
      BY <2>1, <2>3 DEF Four
    <3>3. Regrouped(cP, p, cO, q2)
      BY <3>2, Regroup
    <3> QED
      BY <3>1, <3>3, Zenon DEF Regrouped
  <2> QED
    BY <2>4, <2>5, <2>6, Zenon DEF cP, cO, cN, cE, a1, a2, r1, r2, r3
<1>9. s = (<< >> \o <<P>>) \o r1
  <2>1. << >> \o <<P>> = <<P>>
    OBVIOUS
  <2> QED
    BY <1>8, <2>1
<1>11. /\ << >> \in Seq(Piece) /\ Spots(<< >>, P) = {}
       /\ Spots(a1, O) = {} /\ Spots(a2, N) = {}
  <2>1. << >> \in Seq(Piece) /\ Spots(<< >>, P) = {}
    BY DEF Spots
  <2>2. \A x, m : x \in Piece /\ x # m => <<x>> \in Seq(Piece) /\ Spots(<<x>>, m) = {}
    BY OneLacks, Zenon
  <2>3. Spots(a1, O) = {} /\ Spots(a1, N) = {}
    BY <1>1, <1>2, <1>4, <1>6, <2>2, JoinLacks, Zenon DEF a1
  <2>4. Spots(a1 \o <<O>>, N) = {} /\ a1 \o <<O>> \in Seq(Piece)
    <3> HIDE DEF a1
    <3> QED
      BY <1>2, <1>6, <1>7, <2>2, <2>3, JoinLacks, Zenon
  <2>5. Spots(a2, N) = {}
    <3> DEFINE b == a1 \o <<O>>
    <3>1. b \in Seq(Piece) /\ Spots(b, N) = {} /\ a2 = b \o o
      BY <2>4 DEF a2
    <3> HIDE DEF b
    <3> QED
      BY <1>1, <1>4, <3>1, JoinLacks, Zenon
  <2> QED
    BY <2>1, <2>3, <2>5
<1>12. edit_path(s) = p
  <2>1. after(s, P) = r1
    BY <1>6, <1>7, <1>9, <1>11, AroundFirst, Zenon
  <2>2. before(r1, O) = p
    BY <1>1, <1>4, <1>6, <1>7, AroundFirst, Zenon DEF r1
  <2> QED
    BY <1>3, <2>1, <2>2
<1>13. edit_old_str(s) = o
  <2>1. after(s, O) = r2
    <3>1. O \in Piece /\ a1 \in Seq(Piece) /\ r2 \in Seq(Piece) /\ Spots(a1, O) = {}
      BY <1>6, <1>7, <1>11
    <3> QED
      BY <1>8, <3>1, AroundFirst, Zenon
  <2>2. before(r2, N) = o
    BY <1>1, <1>4, <1>6, <1>7, AroundFirst, Zenon DEF r2
  <2> QED
    BY <1>3, <2>1, <2>2
<1>14. after(s, N) = r3
  <2>1. N \in Piece /\ a2 \in Seq(Piece) /\ r3 \in Seq(Piece) /\ Spots(a2, N) = {}
    BY <1>6, <1>7, <1>11
  <2> QED
    BY <1>8, <2>1, AroundFirst, Zenon
<1> QED
  BY <1>4, <1>12, <1>13, <1>14, Zenon DEF N, r3, CutOut

\* A group that is closed is parsed whole.
LEMMA ClosedIsParsed ==
  ASSUME NEW g, IsGroup(g), NEW e \in Seq(Piece), NEW s,
         s = (Group(g) \o <<"<<<END>>>">>) \o e
  PROVE  /\ edit_path(s) = Texts(g.path)
         /\ edit_old_str(s) = Texts(g.old)
         /\ edit_new_str(s) = Texts(g.new)
<1> DEFINE P == "<<<PATH>>>"   N == "<<<NEW>>>"   E == "<<<END>>>"   n == Texts(g.new)
<1>1. P \in Sentinels /\ E \in Sentinels /\ P \in Piece /\ E \in Piece
  BY DEF Sentinels, Piece
<1>2. E # P
  BY SentinelsDiffer
<1>3. edit_new_str(s) = before(before(after(s, N), P), E)
  BY Zenon DEF edit_new_str
<1>4. /\ edit_path(s) = Texts(g.path) /\ edit_old_str(s) = Texts(g.old)
      /\ after(s, N) = (n \o <<E>>) \o e
  <2>1. CutOut(s, g, E, e)
    BY <1>1, GroupIsCut
  <2> QED
    BY <2>1, Zenon DEF CutOut
<1>5. n \in Seq(Piece) /\ Spots(n, P) = {} /\ Spots(n, E) = {}
  BY <1>1, GroupParts
<1> HIDE DEF P, N, E, n
<1> DEFINE b == n \o <<E>>
<1>6. b \in Seq(Piece) /\ Spots(b, P) = {}
  <2>1. <<E>> \in Seq(Piece) /\ Spots(<<E>>, P) = {}
    BY <1>1, <1>2, OneLacks, Zenon
  <2> QED
    BY <1>5, <2>1, JoinLacks, Zenon
<1>7. PICK r \in Seq(Piece) : before(b \o e, P) = b \o r
  <2> HIDE DEF b
  <2>1. StartsWith(before(b \o e, P), b, Piece)
    BY <1>6, BeforeKeeps
  <2> QED
    BY <2>1, Zenon DEF StartsWith
<1>8. before(b \o r, E) = n
  BY <1>1, <1>5, AroundFirst, Zenon
<1> QED
  BY <1>3, <1>4, <1>7, <1>8, Zenon DEF n

\* A draft that goes on with another group is not parsed at all.
LEMMA OpenIsMalformed ==
  ASSUME NEW g, IsGroup(g), NEW e \in Seq(Piece), NEW s,
         s = (Group(g) \o <<"<<<PATH>>>">>) \o e
  PROVE  ~edit_well_formed(s)
<1> DEFINE P == "<<<PATH>>>"   N == "<<<NEW>>>"   E == "<<<END>>>"   n == Texts(g.new)
<1>1. P \in Sentinels /\ E \in Sentinels /\ P \in Piece /\ E \in Piece
  BY DEF Sentinels, Piece
<1>2. P # E
  BY SentinelsDiffer
<1>3. edit_well_formed(s) => Spots(before(after(s, N), E), P) = {}
  BY Zenon DEF edit_well_formed, section
<1>4. after(s, N) = (n \o <<P>>) \o e
  <2>1. CutOut(s, g, P, e)
    BY <1>1, GroupIsCut
  <2> QED
    BY <2>1, Zenon DEF CutOut
<1>5. n \in Seq(Piece) /\ Spots(n, E) = {}
  BY <1>1, GroupParts
<1> HIDE DEF P, N, E, n
<1> DEFINE b == n \o <<P>>
<1>6. b \in Seq(Piece) /\ Spots(b, E) = {}
  <2>1. <<P>> \in Seq(Piece) /\ Spots(<<P>>, E) = {}
    BY <1>1, <1>2, OneLacks, Zenon
  <2> QED
    BY <1>5, <2>1, JoinLacks, Zenon
<1>7. PICK r \in Seq(Piece) : before(b \o e, E) = b \o r
  <2> HIDE DEF b
  <2>1. StartsWith(before(b \o e, E), b, Piece)
    BY <1>6, BeforeKeeps
  <2> QED
    BY <2>1, Zenon DEF StartsWith
<1>8. Len(n) + 1 \in Spots(b \o r, P)
  BY <1>1, <1>5 DEF Spots
<1> QED
  BY <1>3, <1>4, <1>7, <1>8, Zenon

\* A group is a draft that starts with its first sentinel.
LEMMA GroupOpens ==
  ASSUME NEW g, IsGroup(g)
  PROVE  Group(g) \in Seq(Piece) /\ \E r \in Seq(Piece) : Group(g) = <<"<<<PATH>>>">> \o r
<1> DEFINE P == "<<<PATH>>>"   O == "<<<OLD>>>"   N == "<<<NEW>>>"
<1>1. P \in Piece /\ O \in Piece /\ N \in Piece
  BY DEF Sentinels, Piece
<1>2. PICK p, o, n \in Seq(Piece) :
        /\ p = Texts(g.path) /\ o = Texts(g.old) /\ n = Texts(g.new)
        /\ \A m \in Sentinels : Spots(p, m) = {} /\ Spots(o, m) = {} /\ Spots(n, m) = {}
        /\ Group(g) = ((((<<P>> \o p) \o <<O>>) \o o) \o <<N>>) \o n
  BY GroupParts
<1> HIDE DEF P, O, N
<1> DEFINE h == ((((<<P>> \o p) \o <<O>>) \o o) \o <<N>>) \o n
<1>3. h \in Seq(Piece) /\ h = <<P>> \o ((((p \o <<O>>) \o o) \o <<N>>) \o n)
  BY <1>1, SMTT(30)
<1>4. (((p \o <<O>>) \o o) \o <<N>>) \o n \in Seq(Piece)
  BY <1>1
<1> QED
  BY <1>2, <1>3, <1>4, Zenon DEF P

\* No end stands in a group.
LEMMA GroupLacksEnd ==
  ASSUME NEW g, IsGroup(g)
  PROVE  Spots(Group(g), "<<<END>>>") = {}
<1> DEFINE P == "<<<PATH>>>"   O == "<<<OLD>>>"   N == "<<<NEW>>>"   E == "<<<END>>>"
<1>1. /\ P \in Piece /\ O \in Piece /\ N \in Piece /\ E \in Sentinels
      /\ P # E /\ O # E /\ N # E
  BY SentinelsDiffer DEF Sentinels, Piece
<1>2. PICK p, o, n \in Seq(Piece) :
        /\ p = Texts(g.path) /\ o = Texts(g.old) /\ n = Texts(g.new)
        /\ \A m \in Sentinels : Spots(p, m) = {} /\ Spots(o, m) = {} /\ Spots(n, m) = {}
        /\ Group(g) = ((((<<P>> \o p) \o <<O>>) \o o) \o <<N>>) \o n
  BY GroupParts
<1> HIDE DEF P, O, N, E
<1> DEFINE Fits(a) == a \in Seq(Piece) /\ Spots(a, E) = {}
<1>3. Fits(<<P>>) /\ Fits(<<O>>) /\ Fits(<<N>>)
  BY <1>1, OneLacks, Zenon
<1>4. \A a, b : Fits(a) /\ Fits(b) => Fits(a \o b)
  BY JoinLacks, Zenon
<1>5. Fits(p) /\ Fits(o) /\ Fits(n)
  BY <1>1, <1>2, Zenon
<1> HIDE DEF Fits
<1> QED
  <2>1. Fits(((((<<P>> \o p) \o <<O>>) \o o) \o <<N>>) \o n)
    BY <1>3, <1>4, <1>5, Zenon
  <2> QED
    BY <1>2, <2>1, Zenon DEF Fits, E

\* A draft starts with its first group and the end of it, or with the first
\* group and another one.
LEMMA DraftStarts ==
  ASSUME NEW i \in Intents, i.groups # <<>>
  PROVE  /\ IsGroup(i.groups[1])
         /\ \E c \in {"<<<END>>>", "<<<PATH>>>"} : \E e \in Seq(Piece) :
              Draft(i) = (Group(i.groups[1]) \o <<c>>) \o e
<1> DEFINE n == Len(i.groups)
           h(k) == IF i.closed \/ k = Len(i.groups) THEN <<"<<<END>>>">> ELSE <<>>
           ss == [k \in 1..n |-> Group(i.groups[k]) \o h(k)]
           g == i.groups[1]
<1>1. /\ i.groups \in Seq([path : STRING, old : STRING, new : STRING])
      /\ \A k \in 1..n : {i.groups[k].path, i.groups[k].old, i.groups[k].new} \cap Sentinels = {}
  BY IntentsAssumption
<1>2. n \in Nat /\ n # 0 /\ 1 \in 1..n
  BY <1>1
<1>3. ASSUME NEW k \in 1..n PROVE IsGroup(i.groups[k])
  <2>1. i.groups[k] \in [path : STRING, old : STRING, new : STRING]
    <3> DEFINE gs == i.groups   R == [path : STRING, old : STRING, new : STRING]
    <3>1. gs \in Seq(R) /\ k \in 1..Len(gs)
      BY <1>1
    <3> HIDE DEF gs, R
    <3>2. gs[k] \in R
      BY <3>1, ElementOfSeq
    <3> QED
      BY <3>2 DEF gs, R
  <2> QED
    BY <1>1, <2>1, Zenon DEF IsGroup
<1>4. Draft(i) = FlattenSeq(ss)
  BY Zenon DEF Draft
<1>5. ASSUME NEW k \in 1..n PROVE h(k) \in Seq(Piece) /\ ss[k] = Group(i.groups[k]) \o h(k)
  <2>1. "<<<END>>>" \in Piece
    BY DEF Piece, Sentinels
  <2>2. <<"<<<END>>>">> \in Seq(Piece) /\ << >> \in Seq(Piece)
    BY <2>1
  <2>3. h(k) \in {<<"<<<END>>>">>, << >>}
    BY Zenon
  <2> HIDE DEF h
  <2>4. h(k) \in Seq(Piece)
    BY <2>2, <2>3
  <2> QED
    BY <2>4
<1> HIDE DEF h
<1>6. ASSUME NEW k \in 1..n PROVE Group(i.groups[k]) \in Seq(Piece) /\ ss[k] \in Seq(Piece)
  <2> HIDE DEF n
  <2>1. Group(i.groups[k]) \in Seq(Piece)
    BY <1>3, GroupOpens
  <2> HIDE DEF ss
  <2> QED
    BY <1>5, <2>1, ConcatProperties
<1>7. Parts(ss, n, Piece)
  BY <1>2, <1>6 DEF Parts
<1> HIDE DEF ss, n
<1>8. PICK f : Joinings(f, ss, n, Piece) /\ (n # 0 => FlattenSeq(ss) = f[n])
  BY <1>7, FlattenJoins
<1>9. f[0] = << >> /\ \A k \in 1..n : f[k] = f[k - 1] \o ss[k]
  BY <1>8 DEF Joinings
<1>10. f[1] = Group(g) \o h(1)
  <2>1. ss[1] = Group(g) \o h(1) /\ ss[1] \in Seq(Piece)
    BY <1>2, <1>5, <1>6
  <2>2. f[1] = << >> \o ss[1]
    <3>1. 1 - 1 = 0
      OBVIOUS
    <3> QED
      BY <1>2, <1>9, <3>1
  <2> QED
    BY <2>1, <2>2
<1>11. CASE h(1) = <<"<<<END>>>">>
  <2>0. 1 \in 0..n
    BY <1>2
  <2>1. StartsWith(f[n], f[1], Piece)
    BY <1>7, <1>8, <2>0, JoinsStart
  <2>2. \E e \in Seq(Piece) : f[n] = f[1] \o e
    BY <2>1 DEF StartsWith
  <2> QED
    BY <1>2, <1>3, <1>4, <1>8, <1>10, <1>11, <2>2
<1>12. CASE h(1) # <<"<<<END>>>">>
  <2>1. h(1) = << >> /\ n # 1
    BY <1>12 DEF h, n
  <2>2. 2 \in 1..n
    BY <1>2, <2>1
  <2>3. f[1] = Group(g) /\ Group(g) \in Seq(Piece)
    BY <1>2, <1>6, <1>10, <2>1
  <2>4. PICK r \in Seq(Piece) : Group(i.groups[2]) = <<"<<<PATH>>>">> \o r
    BY <1>3, <2>2, GroupOpens
  <2>5. f[2] = Group(g) \o ((<<"<<<PATH>>>">> \o r) \o h(2))
    <3>1. 2 - 1 = 1
      OBVIOUS
    <3>2. ss[2] = (<<"<<<PATH>>>">> \o r) \o h(2)
      BY <1>5, <2>2, <2>4
    <3>3. f[2] = f[1] \o ss[2]
      BY <1>9, <2>2, <3>1
    <3> QED
      BY <2>3, <3>2, <3>3
  <2>6. PICK e \in Seq(Piece) : f[n] = f[2] \o e
    <3>1. 2 \in 0..n
      BY <2>2
    <3>2. StartsWith(f[n], f[2], Piece)
      BY <1>7, <1>8, <3>1, JoinsStart
    <3> QED
      BY <3>2 DEF StartsWith
  <2> DEFINE G == Group(g)   P == <<"<<<PATH>>>">>   H == h(2)
  <2>7. G \in Seq(Piece) /\ P \in Seq(Piece) /\ H \in Seq(Piece)
    BY <1>5, <2>2, <2>3 DEF Piece, Sentinels
  <2>8. f[n] = (G \o ((P \o r) \o H)) \o e
    BY <2>5, <2>6
  <2> HIDE DEF G, P, H
  <2>9. (G \o ((P \o r) \o H)) \o e = (G \o P) \o ((r \o H) \o e)
    <3>1. Regrouped(G, P, r, H)
      BY <2>7, Regroup DEF Four
    <3> DEFINE x == G \o P
    <3>2. ((G \o P) \o r) \o H = G \o ((P \o r) \o H)
      BY <3>1, Zenon DEF Regrouped
    <3>3. x \in Seq(Piece)
      BY <2>7
    <3> HIDE DEF x
    <3>4. Regrouped(x, r, H, e)
      BY <2>7, <3>3, Regroup DEF Four
    <3> QED
      BY <3>2, <3>4, Zenon DEF Regrouped, x
  <2>10. (r \o H) \o e \in Seq(Piece)
    BY <2>7
  <2>11. f[n] = (Group(g) \o <<"<<<PATH>>>">>) \o ((r \o H) \o e)
    BY <2>8, <2>9, Zenon DEF G, P
  <2> QED
    BY <1>2, <1>3, <1>4, <1>8, <2>10, <2>11
<1> QED
  BY <1>11, <1>12

\* Elements that are the same as those of a longer draft, up to a place.
Agrees(s, d, m) == m \in Nat /\ m <= Len(s) /\ m <= Len(d) /\ \A j \in 1..m : s[j] = d[j]

\* What arrives of a draft is a part of it and at most a piece cut short.
LEMMA CutIsPart ==
  ASSUME NEW d \in Seq(Piece), NEW s, s \in {d} \union CutDrafts(d)
  PROVE  /\ s \in Seq(Piece)
         /\ \E m \in Nat : Agrees(s, d, m) /\ \A j \in (m + 1)..Len(s) : s[j] = "part"
<1>0. "part" \in Piece
  BY DEF Piece
<1>1. CASE s = d
  <2>1. Agrees(s, d, Len(d)) /\ Len(d) \in Nat
    BY <1>1 DEF Agrees
  <2> QED
    BY <1>1, <2>1
<1>2. CASE s \in CutDrafts(d)
  <2>1. PICK k \in 1..Len(d) : s \in {SubSeq(d, 1, k - 1), Append(SubSeq(d, 1, k - 1), "part")}
    BY <1>2 DEF CutDrafts
  <2> DEFINE u == SubSeq(d, 1, k - 1)
             x == "part"
  <2>2. u \in Seq(Piece) /\ Len(u) = k - 1 /\ k - 1 \in Nat /\ k - 1 <= Len(d)
        /\ \A j \in 1..(k - 1) : u[j] = d[j]
    OBVIOUS
  <2>3. s = u \/ s = Append(u, x)
    BY <2>1
  <2>4. x \in Piece
    BY <1>0
  <2> HIDE DEF u, x
  <2>5. CASE s = u
    <3>1. s \in Seq(Piece) /\ Agrees(s, d, k - 1) /\ (k - 1 + 1)..Len(s) = {}
      BY <2>2, <2>5 DEF Agrees
    <3> QED
      BY <2>2, <3>1
  <2>6. CASE s = Append(u, x)
    <3>1. s \in Seq(Piece) /\ Agrees(s, d, k - 1) /\ \A j \in (k - 1 + 1)..Len(s) : s[j] = x
      BY <2>2, <2>4, <2>6 DEF Agrees
    <3> QED
      BY <2>2, <3>1 DEF x
  <2> QED
    BY <2>3, <2>5, <2>6
<1> QED
  BY <1>1, <1>2

\* s starts with the group and the piece c.
Opened(s, g, c) == \E e \in Seq(Piece) : s = (Group(g) \o <<c>>) \o e

\* A draft with its end in it has its whole first group.
LEMMA EndIsBehind ==
  ASSUME NEW g, IsGroup(g), NEW c, c \in Piece, NEW d, Opened(d, g, c),
         NEW s, s \in {d} \union CutDrafts(d), Spots(s, "<<<END>>>") # {}
  PROVE  Opened(s, g, c)
<1>0. PICK e \in Seq(Piece) : d = (Group(g) \o <<c>>) \o e
  BY DEF Opened
<1> DEFINE G == Group(g)   E == "<<<END>>>"   n == Len(G)
<1>1. G \in Seq(Piece) /\ Spots(G, E) = {} /\ n \in Nat
  BY GroupOpens, GroupLacksEnd
<1>2. "part" # E
  OBVIOUS
<1> HIDE DEF G
<1>3. d \in Seq(Piece) /\ d[n + 1] = c /\ \A j \in 1..n : d[j] = G[j]
  BY <1>0, <1>1 DEF G
<1>4. s \in Seq(Piece) /\ \E m \in Nat : Agrees(s, d, m) /\ \A j \in (m + 1)..Len(s) : s[j] = "part"
  BY <1>3, CutIsPart
<1>5. PICK m \in Nat : Agrees(s, d, m) /\ \A j \in (m + 1)..Len(s) : s[j] = "part"
  BY <1>4
<1>6. PICK k \in 1..Len(s) : s[k] = E
  BY DEF Spots
<1> HIDE DEF E, n
<1>14. Len(s) \in Nat /\ k \in Nat /\ k >= 1
  BY <1>4, <1>6
<1>7. k <= m
  BY <1>2, <1>4, <1>5, <1>6
<1>8. k > n
  <2>1. \A j \in 1..n : G[j] # E
    BY <1>1 DEF Spots, n
  <2>2. s[k] = d[k]
    BY <1>4, <1>5, <1>6, <1>7 DEF Agrees
  <2> QED
    <3>1. k <= n => k \in 1..n
      BY <1>1, <1>14
    <3>2. k <= n => d[k] = G[k] /\ G[k] # E
      BY <1>3, <2>1, <3>1
    <3>3. ~(k <= n)
      BY <1>6, <2>2, <3>2
    <3> QED
      BY <1>1, <1>14, <3>3
<1>9. /\ n + 1 <= Len(s) /\ s[n + 1] = c
      /\ \A j \in 1..n : s[j] = G[j]
  <2>1. m \in Nat /\ n + 1 <= m /\ m <= Len(s) /\ \A j \in 1..m : s[j] = d[j]
    BY <1>1, <1>5, <1>7, <1>8, <1>14 DEF Agrees
  <2>2. n + 1 \in 1..m /\ \A j \in 1..n : j \in 1..m
    BY <1>1, <2>1
  <2>3. n + 1 <= Len(s)
    BY <1>1, <1>14, <2>1
  <2>4. s[n + 1] = c
    BY <1>3, <2>1, <2>2
  <2>5. \A j \in 1..n : s[j] = G[j]
    BY <1>3, <2>1, <2>2
  <2> QED
    BY <2>3, <2>4, <2>5
<1> DEFINE r == SubSeq(s, n + 2, Len(s))
           t == (G \o <<c>>) \o r
<1>10. r \in Seq(Piece) /\ Len(r) = Len(s) - (n + 1)
       /\ \A j \in 1..Len(r) : r[j] = s[n + 1 + j]
  BY <1>1, <1>4, <1>9
<1> HIDE DEF r
<1>11. t \in Seq(Piece) /\ Len(t) = Len(s)
  BY <1>1, <1>4, <1>9, <1>10 DEF n
<1>12. ASSUME NEW j \in 1..Len(s) PROVE s[j] = t[j]
  <2>1. CASE j \in 1..n
    BY <1>1, <1>9, <1>10, <2>1 DEF n
  <2>2. CASE j = n + 1
    BY <1>1, <1>9, <1>10, <2>2 DEF n
  <2>3. CASE j > n + 1
    <3>1. j - (n + 1) \in 1..Len(r) /\ n + 1 + (j - (n + 1)) = j
      BY <1>1, <1>4, <1>9, <1>10, <2>3
    <3>2. t[j] = r[j - (n + 1)]
      BY <1>1, <1>10, <2>3, <3>1 DEF n
    <3> QED
      BY <1>10, <3>1, <3>2
  <2>4. j \in 1..n \/ j = n + 1 \/ j > n + 1
    BY <1>1, <1>14
  <2> QED
    BY <2>1, <2>2, <2>3, <2>4
<1>13. s = t
  <2> HIDE DEF t
  <2> QED
    BY <1>4, <1>11, <1>12, SeqEqual
<1> QED
  BY <1>10, <1>13 DEF G, Opened

\* A draft that is parsed is the first group its model set out to write.
LEMMA BlockIsGroup ==
  ASSUME NEW i \in Intents, NEW s \in Drafts[i], edit_well_formed(s)
  PROVE  /\ i.groups # <<>>
         /\ edit_path(s) = Texts(i.groups[1].path)
         /\ edit_old_str(s) = Texts(i.groups[1].old)
         /\ edit_new_str(s) = Texts(i.groups[1].new)
<1> DEFINE g == i.groups[1]   E == "<<<END>>>"
<1>1. s \in {Draft(i)} \union CutDrafts(Draft(i))
  BY DEF Drafts
<1>2. Spots(s, E) # {}
  BY Zenon DEF edit_well_formed, Sentinels
<1>3. i.groups # <<>>
  <2> SUFFICES ASSUME i.groups = <<>> PROVE FALSE
    OBVIOUS
  <2> DEFINE x == "prose"   d == <<x>>
  <2>1. Draft(i) = d
    BY Zenon DEF Draft
  <2>2. x \in Piece /\ x # E /\ "part" # E
    BY DEF Piece
  <2> HIDE DEF x, E
  <2>3. d \in Seq(Piece) /\ Len(d) = 1 /\ d[1] = x
    BY <2>2
  <2> HIDE DEF d
  <2>4. /\ s \in Seq(Piece)
        /\ \E m \in Nat : Agrees(s, d, m) /\ \A j \in (m + 1)..Len(s) : s[j] = "part"
    BY <1>1, <2>1, <2>3, CutIsPart
  <2>5. PICK m \in Nat : Agrees(s, d, m) /\ \A j \in (m + 1)..Len(s) : s[j] = "part"
    BY <2>4
  <2>6. \A j \in 1..Len(s) : s[j] # E
    <3> TAKE j \in 1..Len(s)
    <3>1. CASE j <= m
      BY <2>2, <2>3, <2>5, <3>1 DEF Agrees
    <3>2. CASE ~(j <= m)
      BY <2>2, <2>4, <2>5, <3>2
    <3> QED
      BY <3>1, <3>2
  <2> QED
    BY <1>2, <2>6 DEF Spots
<1>4. /\ IsGroup(g)
      /\ \E c \in {E, "<<<PATH>>>"} : \E e \in Seq(Piece) : Draft(i) = (Group(g) \o <<c>>) \o e
  BY <1>3, DraftStarts
<1>5. PICK c \in {E, "<<<PATH>>>"} : Opened(Draft(i), g, c)
  BY <1>4 DEF Opened
<1>6. c \in Piece
  BY DEF Piece, Sentinels
<1>7. Opened(s, g, c)
  <2> DEFINE d == Draft(i)
  <2>1. Opened(d, g, c) /\ s \in {d} \union CutDrafts(d)
    BY <1>1, <1>5
  <2>2. IsGroup(g) /\ Spots(s, "<<<END>>>") # {}
    BY <1>2, <1>4
  <2> HIDE DEF d, g
  <2> QED
    BY <1>6, <2>1, <2>2, EndIsBehind
<1>8. PICK r \in Seq(Piece) : s = (Group(g) \o <<c>>) \o r
  BY <1>7 DEF Opened
<1>9. c = E
  <2>1. c = "<<<PATH>>>" => ~edit_well_formed(s)
    <3> HIDE DEF g
    <3> QED
      BY <1>4, <1>8, OpenIsMalformed, Zenon
  <2> QED
    BY <2>1
<1>10. /\ edit_path(s) = Texts(g.path)
       /\ edit_old_str(s) = Texts(g.old)
       /\ edit_new_str(s) = Texts(g.new)
  <2> HIDE DEF g
  <2> QED
    BY <1>4, <1>8, <1>9, ClosedIsParsed, Zenon
<1> QED
  BY <1>3, <1>10

\* What is extracted of a draft, and parsed as a block, is that group, with a
\* path in the repository.
LEMMA BlockIsIntended ==
  ASSUME NEW i \in Intents, NEW text \in Drafts[i],
         parse_edit(generation(text)).tag = "block"
  PROVE  LET b == parse_edit(generation(text))
             g == i.groups[1]
         IN  /\ i.groups # <<>>
             /\ b.path = Texts(g.path) /\ b.old = Texts(g.old) /\ b.new = Texts(g.new)
             /\ g.path \notin Outside
<1> DEFINE s == generation(text)
           b == parse_edit(s)
           g == i.groups[1]
<1>1. edit_well_formed(s) /\ in_repo(edit_path(s))
  BY Zenon DEF parse_edit
<1>2. b.path = edit_path(s) /\ b.old = edit_old_str(s) /\ b.new = edit_new_str(s)
  BY <1>1, Zenon DEF parse_edit
<1>3. s \in {<<"json">>, text, << >>}
  BY Zenon DEF generation
<1>4. s = text
  <2> DEFINE E == "<<<END>>>"
  <2>1. Spots(s, E) # {}
    BY <1>1, Zenon DEF edit_well_formed, Sentinels
  <2>2. Spots(<<"json">>, E) = {}
    BY DEF Spots
  <2>3. Spots(<< >>, E) = {}
    BY DEF Spots
  <2> QED
    BY <1>3, <2>1, <2>2, <2>3, Zenon
<1> HIDE DEF s
<1>5. /\ i.groups # <<>>
      /\ edit_path(s) = Texts(g.path) /\ edit_old_str(s) = Texts(g.old)
      /\ edit_new_str(s) = Texts(g.new)
  BY <1>1, <1>4, BlockIsGroup, Zenon
<1>6. g.path \notin Outside
  <2>1. Texts(g.path) # << >> /\ \A k \in 1..Len(Texts(g.path)) : Texts(g.path)[k] \notin Outside
    BY <1>1, <1>5, Zenon DEF in_repo
  <2>2. Texts(g.path) = <<g.path>>
    BY <2>1, Zenon DEF Texts
  <2>3. 1 \in 1..Len(<<g.path>>) /\ <<g.path>>[1] = g.path
    OBVIOUS
  <2> QED
    BY <2>1, <2>2, <2>3, Zenon
<1> QED
  BY <1>2, <1>5, <1>6, Zenon DEF s

-----------------------------------------------------------------------------
(* The steps.                                                              *)

\* A status that is tried again is not the one of success (is_retryable_http).
LEMMA RetryableIsNot200 == 200 \notin Retryable
  BY DEF Retryable

\* The first state: nothing posted, nothing answered, no command run.
LEMMA StepInitKnows == StepInit => StepKnows
<1> SUFFICES ASSUME StepInit PROVE StepKnows
  OBVIOUS
<1>1. CallInv
  BY InitInv DEF StepInit
<1>2. reply.why # "body" /\ body = 0 /\ stage = "key"
  BY DEF StepInit, Init, Pending, Failed
<1>3. BodyKnows
  BY <1>2 DEF BodyKnows
<1>4. AnswerKnows /\ RequestKnows
  BY DEF StepInit, AnswerKnows, OpenRouterInit, RequestKnows
<1>5. running = "no" /\ result.tag = "none"
  BY DEF StepInit, CommandInit, NoResult
<1>6. CommandKnows /\ VerdictIsOwn
  BY <1>5 DEF StepInit, CommandKnows, VerdictIsOwn
<1> QED
  BY <1>1, <1>3, <1>4, <1>6 DEF StepKnows

\* A step of the call: what an attempt leaves behind in the body file.
LEMMA ClassifyBody ==
  ASSUME CallInv, BodyKnows, Next, wrote' = Wrote
  PROVE  BodyKnows'
<1>1. attempt \in 1..MAX_ATTEMPTS /\ body \in 0..attempt
  BY DEF CallInv, TypeOK
<1>2. CASE FindKey \/ WritePayload \/ MakeTemps
  <2>1. /\ UNCHANGED <<attempt, status, hint, body, slept>>
        /\ stage \in {"key", "payload", "temp"}
        /\ stage' \in {"payload", "temp", "post", "done"}
    BY <1>2 DEF FindKey, WritePayload, MakeTemps, Calm, Return
  <2>2. body = 0 /\ reply.why # "body"
    BY <2>1 DEF BodyKnows, CallInv, ReplyKnows
  <2>3. reply' = reply \/ \E why \in {"missing key", "no temp file", "empty"} : reply' = Failed(why)
    BY <1>2 DEF FindKey, WritePayload, MakeTemps, Return
  <2>4. reply'.why # "body"
    BY <2>2, <2>3, FailedFields
  <2> QED
    BY <1>1, <2>1, <2>2, <2>4 DEF BodyKnows
<1>3. CASE Post
  <2>1. /\ stage = "post" /\ UNCHANGED <<attempt, reply>>
        /\ body' \in {0, attempt, body}
        /\ stage' = IF status' \in Retryable /\ attempt # MAX_ATTEMPTS THEN "wait" ELSE "collect"
    BY <1>3 DEF Post, AfterPost
  <2>2. body < attempt /\ reply.why # "body"
    BY <2>1 DEF BodyKnows, CallInv, ReplyKnows
  <2>3. CASE body' = attempt
    BY <1>1, <2>1, <2>2, <2>3 DEF BodyKnows, Wrote
  <2>4. CASE body' = 0
    BY <1>1, <2>1, <2>2, <2>4 DEF BodyKnows, Wrote
  <2>5. CASE body' = body /\ body # 0
    BY <1>1, <2>1, <2>2, <2>5 DEF BodyKnows, Wrote
  <2> QED
    BY <2>1, <2>3, <2>4, <2>5
<1>4. CASE Wait
  <2>1. /\ stage = "wait" /\ stage' = "post" /\ UNCHANGED <<status, body, reply>>
        /\ attempt' = attempt + 1
    BY <1>4 DEF Wait, NextAttempt
  <2>2. reply.why # "body"
    BY <2>1 DEF CallInv, ReplyKnows
  <2> QED
    BY <1>1, <2>1, <2>2 DEF BodyKnows, Wrote, MAX_ATTEMPTS
<1>5. CASE Collect
  <2>1. /\ stage = "collect" /\ stage' = "done"
        /\ UNCHANGED <<attempt, status, body>>
        /\ reply' = IF body = 0 THEN Failed("empty") ELSE Body(body)
    BY <1>5 DEF Collect, Calm, Return
  <2>2. body = 0 => reply'.why # "body"
    BY <2>1, FailedFields
  <2> QED
    BY <1>1, <2>1, <2>2 DEF BodyKnows, Wrote
<1> QED
  BY <1>2, <1>3, <1>4, <1>5 DEF Next

\* What a response with status 200 says is said by the last attempt.
LEMMA SaidIsFresh ==
  ASSUME CallInv, BodyKnows, stage = "done", reply.why = "body", wrote = 200
  PROVE  status = 200 /\ body = attempt
<1>1. body # 0 /\ body \in 0..attempt /\ attempt \in 1..MAX_ATTEMPTS
  BY DEF BodyKnows, CallInv, TypeOK
<1>2. ~(body < attempt)
  BY <1>1, RetryableIsNot200 DEF BodyKnows
<1> QED
  BY <1>1, <1>2 DEF BodyKnows, MAX_ATTEMPTS

\* A usable answer is a fresh one.
LEMMA UsableIsFresh ==
  ASSUME StepKnows, phase = "route", NEW q \in Questions, Usable(ParseAnswer(q))
  PROVE  status = 200 /\ body = attempt
<1>1. q \in STRING /\ q \notin ErrorWords
  BY EditStepAssumption DEF Questions
<1>2. json \notin {ErrorObject, Detail, EmptyObject, ErrorBody}
  BY <1>1, ErrorAnswersNothing DEF Usable, ParseAnswer
<1>3. stage = "done" /\ reply.why = "body" /\ wrote = 200
  BY <1>2 DEF StepKnows, AnswerKnows
<1> QED
  BY <1>3, SaidIsFresh DEF StepKnows

\* A stage of the classifier's call.
LEMMA ClassifyKnows == ASSUME StepKnows, Classify PROVE StepKnows'
<1>1. CallInv' /\ BodyKnows'
  BY StepInv, ClassifyBody DEF StepKnows, Classify
<1>2. phase = "classify" /\ UNCHANGED <<phase, json, outcome, generateVars, commandVars>>
  BY DEF Classify
<1>3. AnswerKnows'
  BY <1>2 DEF AnswerKnows
<1>4. (CommandKnows /\ VerdictIsOwn /\ RequestKnows)'
  BY <1>2 DEF StepKnows, CommandKnows, VerdictIsOwn, RequestKnows, generateVars, commandVars,
              StatusOf
<1> QED
  BY <1>1, <1>3, <1>4 DEF StepKnows

\* The reply is handed over and the worker's clock forgotten.
LEMMA HandOverKnows == ASSUME StepKnows, HandOver PROVE StepKnows'
<1>1. /\ phase = "classify" /\ stage = "done" /\ phase' = "respond"
      /\ UNCHANGED <<stage, attempt, status, body, files, reply, wrote, json, outcome,
                     generateVars, commandVars>>
      /\ hint' = [ms |-> NoHint, s |-> NoHint] /\ slept' = 0
  BY DEF HandOver, Onwards
<1>2. TypeOK'
  BY <1>1 DEF StepKnows, CallInv, TypeOK
<1>3. attempt \in 1..MAX_ATTEMPTS
  BY DEF StepKnows, CallInv, TypeOK
<1>4. WaitIsBounded'
  BY <1>1, <1>3 DEF WaitIsBounded, MAX_WAIT_MS, MAX_ATTEMPTS
<1>5. (BusyIsRetried /\ FilesKnown /\ StageKnows /\ ReplyKnows)'
  BY <1>1 DEF StepKnows, CallInv, BusyIsRetried, FilesKnown, StageKnows, ReplyKnows
<1>6. CallInv'
  BY <1>2, <1>4, <1>5 DEF CallInv
<1>7. (BodyKnows /\ AnswerKnows)'
  BY <1>1 DEF StepKnows, BodyKnows, AnswerKnows
<1>8. (CommandKnows /\ VerdictIsOwn /\ RequestKnows)'
  BY <1>1 DEF StepKnows, CommandKnows, VerdictIsOwn, RequestKnows, generateVars, commandVars,
              StatusOf
<1> QED
  BY <1>6, <1>7, <1>8 DEF StepKnows

\* Nothing the call knows changes once it is over.
LEMMA CallStays ==
  ASSUME CallInv, BodyKnows, UNCHANGED <<vars, wrote>>
  PROVE  CallInv' /\ BodyKnows'
<1>1. CallInv'
  BY StepInv
<1> QED
  BY <1>1 DEF BodyKnows, vars

\* The service speaks, and some of it arrives.
LEMMA AnswerStepKnows == ASSUME StepKnows, Speak \/ Arrive PROVE StepKnows'
<1>1. UNCHANGED <<vars, wrote, generateVars, commandVars, outcome>>
  BY DEF Speak, Arrive, Onwards
<1>2. CallInv' /\ BodyKnows'
  BY <1>1, CallStays DEF StepKnows
<1>3. stage = "done" /\ phase \in {"respond", "arrive"}
  BY DEF StepKnows, AnswerKnows, Speak, Arrive
<1>4. AnswerKnows'
  <2>1. CASE Speak
    BY <1>1, <1>3, <2>1 DEF Speak, Onwards, AnswerKnows, vars
  <2>2. CASE Arrive
    BY <1>1, <1>3, <2>2 DEF Arrive, Onwards, Heard, AnswerKnows, vars
  <2> QED
    BY <2>1, <2>2
<1>5. (CommandKnows /\ VerdictIsOwn /\ RequestKnows)'
  BY <1>1, <1>3 DEF StepKnows, CommandKnows, VerdictIsOwn, RequestKnows, generateVars,
                    commandVars, StatusOf
<1> QED
  BY <1>2, <1>4, <1>5 DEF StepKnows

\* An edit is drafted only on a fresh answer.
LEMMA RouteKnows == ASSUME StepKnows, Route PROVE StepKnows'
<1>1. phase = "route" /\ UNCHANGED <<vars, wrote, generateVars, commandVars>>
  BY DEF Route
<1>2. CallInv' /\ BodyKnows'
  BY <1>1, CallStays DEF StepKnows
<1>3. \/ /\ phase' = "generate" /\ outcome' = outcome
         /\ ParseAnswer(Asked[1]).tag = "chosen"
      \/ phase' = "end" /\ outcome' = "elsewhere"
  BY DEF Route, Onwards, Finished
<1>4. phase' = "generate" => status = 200 /\ body = attempt
  <2>1. Asked[1] \in Questions
    BY EditStepAssumption DEF Questions
  <2> QED
    BY <1>1, <1>3, <2>1, UsableIsFresh DEF Usable
<1>5. AnswerKnows'
  BY <1>1, <1>3, <1>4 DEF StepKnows, AnswerKnows, vars
<1>6. (CommandKnows /\ VerdictIsOwn /\ RequestKnows)'
  BY <1>1, <1>3 DEF StepKnows, CommandKnows, VerdictIsOwn, RequestKnows, generateVars,
                    commandVars, StatusOf
<1> QED
  BY <1>2, <1>5, <1>6 DEF StepKnows

\* The generation call removes its request before it returns.
LEMMA GenerateKnows == ASSUME StepKnows, Generate PROVE StepKnows'
<1>1. /\ phase = "generate" /\ phase' \in {"generate", "draft"}
      /\ UNCHANGED <<vars, wrote, json, commandVars, outcome>>
  BY DEF Generate, Onwards
<1>2. CallInv' /\ BodyKnows'
  BY <1>1, CallStays DEF StepKnows
<1>3. AnswerKnows'
  BY <1>1 DEF StepKnows, AnswerKnows, vars
<1>4. RequestKnows'
  BY DEF StepKnows, RequestKnows, Generate, FindModelKey, WriteRequest, PostRequest, GReturn,
         Unlinked
<1>5. (CommandKnows /\ VerdictIsOwn)'
  BY <1>1 DEF StepKnows, CommandKnows, VerdictIsOwn, commandVars, StatusOf
<1> QED
  BY <1>2, <1>3, <1>4, <1>5 DEF StepKnows

\* The draft is parsed and handed to the tools.
LEMMA DraftKnows == ASSUME StepKnows, ParseDraft PROVE StepKnows'
<1>1. /\ phase = "draft" /\ phase' \in {"apply", "end"}
      /\ UNCHANGED <<vars, gstage, request, wrote, json, commandVars>>
  BY DEF ParseDraft, AfterDraft
<1>2. CallInv' /\ BodyKnows'
  BY <1>1, CallStays DEF StepKnows
<1>3. (AnswerKnows /\ RequestKnows)'
  BY <1>1 DEF StepKnows, AnswerKnows, RequestKnows, vars
<1>4. outcome' = outcome \/ outcome' \in {"malformed", "refused"}
  BY DEF ParseDraft, AfterDraft, parse_edit
<1>5. (CommandKnows /\ VerdictIsOwn)'
  BY <1>1, <1>4 DEF StepKnows, CommandKnows, VerdictIsOwn, commandVars, StatusOf
<1> QED
  BY <1>2, <1>3, <1>5 DEF StepKnows

\* A command is started: nothing is known of it yet.
LEMMA StartKnows == ASSUME StepKnows, Apply \/ Suite PROVE StepKnows'
<1>1. /\ phase \in {"apply", "check"} /\ phase' \in {"end", "check", "verify"}
      /\ UNCHANGED <<vars, generateVars, wrote, json>>
  BY DEF Apply, Suite, Onwards, Finished
<1>2. CallInv' /\ BodyKnows'
  BY <1>1, CallStays DEF StepKnows
<1>3. (AnswerKnows /\ RequestKnows)'
  BY <1>1 DEF StepKnows, AnswerKnows, RequestKnows, vars, generateVars
<1>4. \/ outcome' = "refused by the tool" /\ UNCHANGED commandVars
      \/ /\ outcome' = outcome
         /\ running' = "work" /\ result'.tag = "none"
  <2>1. CASE Apply
    <3>1. CASE Finished("refused by the tool") /\ UNCHANGED commandVars
      BY <3>1 DEF Finished
    <3>2. CASE \E tier \in {"check", "verify"} : Onwards(tier) /\ command_run
      BY <3>2 DEF Onwards, command_run, NoResult
    <3> QED
      BY <2>1, <3>1, <3>2 DEF Apply
  <2>2. CASE Suite
    BY <2>2 DEF Suite, Onwards, command_run, NoResult
  <2> QED
    BY <2>1, <2>2
<1>5. outcome \notin {"kept", "broken"}
  BY <1>1 DEF StepKnows, CommandKnows
<1>6. (CommandKnows /\ VerdictIsOwn)'
  BY <1>1, <1>4, <1>5 DEF StepKnows, CommandKnows, VerdictIsOwn, commandVars, StatusOf
<1> QED
  BY <1>2, <1>3, <1>6 DEF StepKnows

\* The worker and the pack: the status the result is made of is this call's.
LEMMA RunKnows == ASSUME StepKnows, Run PROVE StepKnows'
<1>1. /\ phase \in {"check", "verify"} /\ phase' \in {phase, "end"}
      /\ UNCHANGED <<vars, generateVars, wrote, json>>
  BY DEF Run, Finished
<1>2. CallInv' /\ BodyKnows'
  BY <1>1, CallStays DEF StepKnows
<1>3. (AnswerKnows /\ RequestKnows)'
  BY <1>1 DEF StepKnows, AnswerKnows, RequestKnows, vars, generateVars
<1>4. CASE command_run_worker
  <2>1. running' = "pack" /\ UNCHANGED <<result, phase, outcome>>
    BY <1>4 DEF Run, command_run_worker
  <2>2. command_run_status' = StatusOf(child')
    <3>1. StatusOf(NoChild) = 0
      BY DEF StatusOf, NoChild
    <3> QED
      BY <1>4, <3>1, Zenon DEF command_run_worker, EmptyStatus
  <2>3. result.tag = "none"
    BY <1>4 DEF StepKnows, CommandKnows, command_run_worker
  <2>4. CommandKnows'
    BY <1>1, <2>1, <2>2, <2>3 DEF StepKnows, CommandKnows
  <2>5. VerdictIsOwn'
    BY <1>1, <2>1 DEF StepKnows, CommandKnows, VerdictIsOwn
  <2> QED
    BY <1>2, <1>3, <2>4, <2>5 DEF StepKnows
<1>5. CASE command_run_pack
  <2>1. /\ running = "pack" /\ running' = "no" /\ UNCHANGED <<command_run_status, child>>
        /\ command_run_status = StatusOf(child)
        /\ result'.tag = IF StatusOf(child) = 0 THEN "done" ELSE "fail"
    BY <1>5 DEF StepKnows, CommandKnows, command_run_pack, Done, Fail
  <2>2. StatusOf(child') = StatusOf(child)
    BY <2>1
  <2>3. \/ UNCHANGED outcome
        \/ outcome' = "kept" /\ phase' = "end" /\ StatusOf(child) = 0
        \/ outcome' = "broken" /\ phase' = "end" /\ StatusOf(child) # 0
    BY <2>1 DEF Run, Finished
  <2>4. outcome \notin {"kept", "broken"}
    BY <1>1 DEF StepKnows, CommandKnows
  <2>5. CommandKnows'
    BY <2>1, <2>2, <2>3, <2>4 DEF CommandKnows
  <2>6. VerdictIsOwn'
    BY <1>1, <2>2, <2>3, <2>4 DEF VerdictIsOwn
  <2> QED
    BY <1>2, <1>3, <2>5, <2>6 DEF StepKnows
<1> QED
  BY <1>4, <1>5 DEF Run, RunCommand

\* Every step keeps the invariant, a stuttering one too.
LEMMA StepKeepsKnows == StepKnows /\ [StepNext]_stepVars => StepKnows'
<1> SUFFICES ASSUME StepKnows, [StepNext]_stepVars PROVE StepKnows'
  OBVIOUS
<1>1. CASE UNCHANGED stepVars
  <2>1. UNCHANGED <<vars, wrote>>
    BY <1>1 DEF stepVars, ownVars
  <2>2. CallInv' /\ BodyKnows'
    BY <2>1, CallStays DEF StepKnows
  <2> QED
    BY <1>1, <2>2 DEF StepKnows, AnswerKnows, CommandKnows, VerdictIsOwn, RequestKnows, StatusOf,
                      stepVars, ownVars, vars, generateVars, commandVars
<1> QED
  BY <1>1, ClassifyKnows, HandOverKnows, AnswerStepKnows, RouteKnows, GenerateKnows, DraftKnows,
     StartKnows, RunKnows DEF StepNext

\* The invariant holds of every step of the agent.
THEOREM StepInvariant == StepSpec => []StepKnows
  BY StepInitKnows, StepKeepsKnows, PTL DEF StepSpec

-----------------------------------------------------------------------------
(* The types, and the edit.                                                *)

Undrafted == {"classify", "respond", "arrive", "route", "generate", "draft"}

\* An edit is parsed once, of what the model set out to write.
EditKnows ==
  /\ phase = "draft" => intent \in Intents /\ gstage = "done"
  /\ phase \in Undrafted => edit = NoEdit
  /\ BlockIsWhole

StepHolds == StepTypeOK /\ EditKnows

\* A command's status is an exit code, or 127 when no shell was spawned.
LEMMA StatusIsCode ==
  ASSUME NEW c, c \in {Unspawned, Killed} \union {Exited(k) : k \in Codes}
  PROVE  StatusOf(c) \in Codes \union {0, 127}
<1>1. CASE c = Unspawned
  BY <1>1 DEF StatusOf, Unspawned
<1>2. CASE c = Killed
  BY <1>2 DEF StatusOf, Killed
<1>3. CASE \E k \in Codes : c = Exited(k)
  BY <1>3 DEF StatusOf, Exited
<1> QED
  BY <1>1, <1>2, <1>3

\* The first state is of these types.
LEMMA StepInitHolds == StepInit => StepHolds
<1> SUFFICES ASSUME StepInit PROVE StepHolds
  OBVIOUS
<1>1. edit = NoEdit /\ edit.tag = "none"
  BY DEF StepInit, NoEdit
<1>2. StepTypeOK
  BY <1>1 DEF StepInit, Init, OpenRouterInit, CommandInit, StepTypeOK
<1>3. EditKnows
  BY <1>1 DEF StepInit, EditKnows, BlockIsWhole, Undrafted
<1> QED
  BY <1>2, <1>3 DEF StepHolds

\* Before the draft there is no edit to be changed.
LEMMA EditStays ==
  ASSUME StepHolds, UNCHANGED <<edit, intent>>, phase' # "draft",
         phase' \in Undrafted => phase \in Undrafted
  PROVE  EditKnows'
<1>1. BlockIsWhole'
  BY DEF StepHolds, EditKnows, BlockIsWhole
<1> QED
  BY <1>1 DEF StepHolds, EditKnows

\* The steps up to the draft.
LEMMA EarlyHolds ==
  ASSUME StepKnows, StepKnows', StepHolds, Classify \/ HandOver \/ Speak \/ Arrive \/ Route
  PROVE  StepHolds'
<1>1. /\ UNCHANGED <<edit, intent, generateVars, commandVars>>
      /\ phase \in {"classify", "respond", "arrive", "route"}
      /\ phase' \in {"classify", "respond", "arrive", "route", "generate", "end"}
  BY DEF Classify, HandOver, Speak, Arrive, Route, Onwards, Finished
<1>2. EditKnows'
  BY <1>1, EditStays DEF Undrafted
<1>3. phase' # "classify" => stage' = "done"
  BY DEF StepKnows, AnswerKnows
<1>4. wrote' \in Statuses \union {0}
  <2>1. CASE Classify
    <3>1. status' \in Statuses \union {0} /\ wrote \in Statuses \union {0}
      BY DEF StepKnows, CallInv, TypeOK, StepHolds, StepTypeOK
    <3> QED
      BY <2>1, <3>1 DEF Classify, Wrote
  <2>2. CASE ~Classify
    BY <2>2 DEF HandOver, Speak, Arrive, Route, StepHolds, StepTypeOK
  <2> QED
    BY <2>1, <2>2
<1>5. StepTypeOK'
  BY <1>1, <1>3, <1>4 DEF StepHolds, StepTypeOK, generateVars, commandVars
<1> QED
  BY <1>2, <1>5 DEF StepHolds

\* The generation call.
LEMMA GenerateHolds ==
  ASSUME StepKnows, StepKnows', StepHolds, Generate
  PROVE  StepHolds'
<1>1. /\ phase = "generate" /\ UNCHANGED <<vars, wrote, edit, commandVars>>
      /\ phase' = IF gstage' = "done" THEN "draft" ELSE "generate"
      /\ intent' \in IF gstage' = "done" THEN Intents ELSE {NoIntent}
  BY DEF Generate, Onwards
<1>2. edit = NoEdit /\ edit.tag = "none"
  BY <1>1 DEF StepHolds, EditKnows, Undrafted, NoEdit
<1>3. EditKnows'
  BY <1>1, <1>2 DEF EditKnows, Undrafted, BlockIsWhole
<1>4. gstage' \in {"key", "temp", "post", "done"} /\ request' \in {"none", "whole", "empty"}
  BY DEF Generate, FindModelKey, WriteRequest, PostRequest, GReturn, Unlinked, StepHolds,
         StepTypeOK
<1>5. StepTypeOK'
  BY <1>1, <1>2, <1>4 DEF StepHolds, StepTypeOK, vars, commandVars
<1> QED
  BY <1>3, <1>5 DEF StepHolds

\* The draft is parsed.
LEMMA DraftHolds ==
  ASSUME StepKnows, StepKnows', StepHolds, ParseDraft
  PROVE  StepHolds'
<1>1. PICK text \in Drafts[intent] : edit' = parse_edit(generation(text))
  BY DEF ParseDraft
<1>2. /\ phase = "draft" /\ UNCHANGED <<vars, gstage, request, wrote, intent, commandVars>>
      /\ phase' = IF edit'.tag = "block" THEN "apply" ELSE "end"
      /\ intent \in Intents /\ gstage = "done"
  BY DEF ParseDraft, AfterDraft, StepHolds, EditKnows
<1>3. edit'.tag \in {"malformed", "refused", "block"}
  BY <1>1, Zenon DEF parse_edit
<1>4. BlockIsWhole'
  <2> SUFFICES ASSUME edit'.tag = "block" PROVE BlockIsWhole'
    BY DEF BlockIsWhole
  <2>1. LET b == parse_edit(generation(text))
            g == intent.groups[1]
        IN  /\ intent.groups # <<>>
            /\ b.path = Texts(g.path) /\ b.old = Texts(g.old) /\ b.new = Texts(g.new)
            /\ g.path \notin Outside
    BY <1>1, <1>2, BlockIsIntended, Zenon
  <2>2. intent' = intent
    BY <1>2
  <2> QED
    BY <1>1, <2>1, <2>2, Zenon DEF BlockIsWhole
<1>5. EditKnows'
  BY <1>2, <1>4 DEF EditKnows, Undrafted
<1>6. StepTypeOK'
  BY <1>2, <1>3 DEF StepHolds, StepTypeOK, vars, commandVars
<1> QED
  BY <1>5, <1>6 DEF StepHolds

\* The commands, and what they leave in the static.
LEMMA CommandHolds ==
  ASSUME StepKnows, StepKnows', StepHolds, Apply \/ Run \/ Suite
  PROVE  StepHolds'
<1>1. /\ UNCHANGED <<vars, generateVars, wrote, edit, intent>>
      /\ phase \in {"apply", "check", "verify"}
      /\ phase' \in {"check", "verify", "end"}
  BY DEF Apply, Run, Suite, Onwards, Finished
<1>2. EditKnows'
  BY <1>1, EditStays DEF Undrafted
<1>3. running' \in {"no", "work", "pack"} /\ command_run_status' \in Codes \union {0, 127}
  <2>1. CASE UNCHANGED commandVars
    BY <2>1 DEF commandVars, StepHolds, StepTypeOK
  <2>2. CASE command_run
    BY <2>2 DEF command_run, StepHolds, StepTypeOK
  <2>3. CASE command_run_worker
    BY <2>3, StatusIsCode DEF command_run_worker, EmptyStatus
  <2>4. CASE command_run_pack
    BY <2>4 DEF command_run_pack, StepHolds, StepTypeOK
  <2> QED
    BY <2>1, <2>2, <2>3, <2>4 DEF Apply, Run, RunCommand, Suite
<1>4. StepTypeOK'
  BY <1>1, <1>3 DEF StepHolds, StepTypeOK, vars, generateVars
<1> QED
  BY <1>2, <1>4 DEF StepHolds

\* Every step keeps the types and the edit.
LEMMA StepKeepsHolds ==
  StepKnows /\ StepKnows' /\ StepHolds /\ [StepNext]_stepVars => StepHolds'
<1> SUFFICES ASSUME StepKnows, StepKnows', StepHolds, [StepNext]_stepVars PROVE StepHolds'
  OBVIOUS
<1>1. CASE UNCHANGED stepVars
  BY <1>1 DEF StepHolds, StepTypeOK, EditKnows, BlockIsWhole, stepVars, ownVars, vars,
              generateVars, commandVars
<1> QED
  BY <1>1, EarlyHolds, GenerateHolds, DraftHolds, CommandHolds DEF StepNext

\* What is known of the types and of the edit holds of every step of the agent.
THEOREM StepsHold == StepSpec => []StepHolds
  BY StepInvariant, StepInitHolds, StepKeepsHolds, PTL DEF StepSpec

-----------------------------------------------------------------------------
(* What is said, and what arrives of it.                                   *)

\* What arrives is of what was said, or an error.
SaidKnows ==
  /\ phase = "arrive" =>
       IF reply.why = "body" /\ wrote = 200 THEN said \in Saids ELSE said = Unsaid
  /\ phase = "route" =>
       \/ said \in Saids /\ json \in Responses[said]
       \/ said = Unsaid /\ json \in {ErrorObject, Detail, EmptyObject, ErrorBody}

\* The first state, and every step.
LEMMA StepInitSaid == StepInit => SaidKnows
  BY DEF StepInit, SaidKnows

\* No step but the two of the service says anything.
LEMMA StepKeepsSaid == SaidKnows /\ [StepNext]_stepVars => SaidKnows'
<1> SUFFICES ASSUME SaidKnows, [StepNext]_stepVars PROVE SaidKnows'
  OBVIOUS
<1>1. CASE UNCHANGED stepVars
  BY <1>1 DEF SaidKnows, stepVars, ownVars, vars
<1>2. CASE Speak
  <2>1. phase' = "arrive" /\ UNCHANGED <<reply, wrote>>
    BY <1>2 DEF Speak, Onwards, vars
  <2>2. said' \in IF reply.why = "body" /\ wrote = 200 THEN Saids ELSE {Unsaid}
    BY <1>2 DEF Speak
  <2> QED
    BY <2>1, <2>2 DEF SaidKnows
<1>3. CASE Arrive
  <2>1. phase = "arrive" /\ phase' = "route" /\ said' = said /\ json' \in Heard
    BY <1>3 DEF Arrive, Onwards
  <2>2. CASE reply.why = "body" /\ wrote = 200
    BY <2>1, <2>2 DEF SaidKnows, Heard
  <2>3. CASE ~(reply.why = "body" /\ wrote = 200)
    <3>1. Heard \subseteq {ErrorObject, Detail, EmptyObject, ErrorBody}
      BY <2>3 DEF Heard
    <3> QED
      BY <2>1, <2>3, <3>1 DEF SaidKnows
  <2> QED
    BY <2>2, <2>3
<1>4. CASE Classify \/ HandOver \/ Route \/ Generate \/ ParseDraft \/ Apply \/ Run \/ Suite
  <2>1. phase' \notin {"arrive", "route"}
    <3>1. CASE Classify \/ HandOver \/ Route \/ Generate
      BY <3>1 DEF Classify, HandOver, Route, Generate, Onwards, Finished
    <3>2. CASE ParseDraft
      BY <3>2 DEF ParseDraft, AfterDraft
    <3>3. CASE Apply \/ Run \/ Suite
      BY <3>3 DEF Apply, Run, Suite, Onwards, Finished
    <3> QED
      BY <1>4, <3>1, <3>2, <3>3
  <2> QED
    BY <2>1 DEF SaidKnows
<1> QED
  BY <1>1, <1>2, <1>3, <1>4 DEF StepNext

\* What is said and what arrived of it, at every step.
LEMMA SaidStays == StepSpec => []SaidKnows
  BY StepInitSaid, StepKeepsSaid, PTL DEF StepSpec

\* Nothing usable is in an error.
LEMMA ErrorIsUnusable ==
  ASSUME NEW q \in Questions, NEW b \in {ErrorObject, Detail, EmptyObject, ErrorBody}
  PROVE  ~Usable(answer_build(b, q))
<1>1. q \in STRING /\ q \notin ErrorWords
  BY EditStepAssumption DEF Questions
<1> QED
  BY <1>1, ErrorAnswersNothing DEF Usable

-----------------------------------------------------------------------------
(* The properties.                                                         *)

\* A body that an earlier attempt left behind never decides anything, whatever
\* the service answers and in whatever order.
THEOREM AnswersAreFresh == StepSpec => []AnswerIsFresh
<1>1. StepKnows => AnswerIsFresh
  BY UsableIsFresh DEF AnswerIsFresh, StepKnows, AnswerKnows
<1> QED
  BY <1>1, StepInvariant, PTL

\* No edit is kept or broken by the status of a command it did not run.
THEOREM VerdictsAreOwn == StepSpec => []VerdictIsOwn
  BY StepInvariant, PTL DEF StepKnows

\* The prompt does not outlive the call that posts it.
THEOREM RequestsAreRemoved == StepSpec => []NoRequestLeft
<1>1. StepKnows => NoRequestLeft
  BY DEF StepKnows, RequestKnows, NoRequestLeft
<1> QED
  BY <1>1, StepInvariant, PTL

\* The variables of a step hold what their phase can hold.
THEOREM StepTypes == StepSpec => []StepTypeOK
  BY StepsHold, PTL DEF StepHolds

\* What is applied is the first group the model set out to write, whole and in
\* the repository, wherever its draft or its connection broke off.
THEOREM BlocksAreWhole == StepSpec => []BlockIsWhole
  BY StepsHold, PTL DEF StepHolds, EditKnows

\* Each question is given what the service said to it, whichever others it
\* left out or could not answer, and never a field of a neighbour's answer.
THEOREM AnswersAreOwn == StepSpec => []AnswerIsOwn
<1>1. SaidKnows => AnswerIsOwn
  <2> SUFFICES ASSUME SaidKnows, phase = "route", json = Response(said), NEW q \in Questions
               PROVE  ParseAnswer(q) = said[q]
    BY DEF AnswerIsOwn
  <2>1. IsSaying(said)
    <3>1. CASE said \in Saids
      BY <3>1, SaidsAssumption DEF IsSaying
    <3>2. CASE said = Unsaid
      <4>1. \A p \in Questions : said[p] = NoAnswer
        BY <3>2, Zenon DEF Unsaid, NoAnswer
      <4> QED
        BY <4>1 DEF IsSaying
    <3> QED
      BY <3>1, <3>2 DEF SaidKnows
  <2> QED
    BY <2>1, WholeIsOwn DEF ParseAnswer
<1> QED
  BY <1>1, SaidStays, PTL

\* However a response is cut off, no question is answered with more than was
\* said to it.
THEOREM CutsAreWeaker == StepSpec => []CutIsWeaker
<1>1. SaidKnows => CutIsWeaker
  <2> SUFFICES ASSUME SaidKnows, phase = "route", NEW q \in Questions
               PROVE  Weaker(ParseAnswer(q), said[q])
    BY DEF CutIsWeaker, Weaker
  <2>1. CASE said \in Saids /\ json \in Responses[said]
    BY <2>1, ArrivesLess DEF ParseAnswer
  <2>2. CASE json \in {ErrorObject, Detail, EmptyObject, ErrorBody}
    BY <2>2, ErrorIsUnusable DEF ParseAnswer, Weaker
  <2> QED
    BY <2>1, <2>2 DEF SaidKnows
<1> QED
  BY <1>1, SaidStays, PTL

-----------------------------------------------------------------------------
(* Every step of the agent is bounded.                                     *)

\* What is left behind the call: the generation, the draft, and two commands of
\* two steps each.
CommandLeft == IF running = "work" THEN 2 ELSE IF running = "pack" THEN 1 ELSE 0
GenerationLeft == IF gstage = "key" THEN 10 ELSE IF gstage = "temp" THEN 9 ELSE 8
PhaseLeft ==
  IF phase = "classify" THEN 14
  ELSE IF phase = "respond" THEN 13
  ELSE IF phase = "arrive" THEN 12
  ELSE IF phase = "route" THEN 11
  ELSE IF phase = "generate" THEN GenerationLeft
  ELSE IF phase = "draft" THEN 7
  ELSE IF phase = "apply" THEN 6
  ELSE IF phase = "check" THEN 3 + CommandLeft
  ELSE IF phase = "verify" THEN CommandLeft
  ELSE 0
StepLeft == PhaseLeft + (IF phase = "classify" THEN CallLeft ELSE 0)

\* What is left in each phase.
PhasesLeft ==
  /\ CommandLeft \in 0..2 /\ GenerationLeft \in 8..10
  /\ phase = "classify" => PhaseLeft = 14
  /\ phase = "respond" => PhaseLeft = 13
  /\ phase = "arrive" => PhaseLeft = 12
  /\ phase = "route" => PhaseLeft = 11
  /\ phase = "generate" => PhaseLeft = GenerationLeft
  /\ phase = "draft" => PhaseLeft = 7
  /\ phase = "apply" => PhaseLeft = 6
  /\ phase = "check" => PhaseLeft = 3 + CommandLeft
  /\ phase = "verify" => PhaseLeft = CommandLeft
  /\ phase = "end" => PhaseLeft = 0

\* They hold in every state.
LEMMA PhasesLeftHold == PhasesLeft /\ PhasesLeft'
<1>1. /\ CommandLeft \in 0..2 /\ GenerationLeft \in 8..10
      /\ CommandLeft' \in 0..2 /\ GenerationLeft' \in 8..10
  BY DEF CommandLeft, GenerationLeft
<1>2. PhasesLeft
  BY <1>1 DEF PhasesLeft, PhaseLeft
<1>3. PhasesLeft'
  BY <1>1 DEF PhasesLeft, PhaseLeft
<1> QED
  BY <1>2, <1>3

\* Whatever the services and the commands do, a step has less left.
LEMMA StepDescends == StepKnows /\ StepHolds /\ StepNext => StepLeft' < StepLeft
<1> SUFFICES ASSUME StepKnows, StepHolds, StepNext PROVE StepLeft' < StepLeft
  OBVIOUS
<1>1. PhasesLeft /\ PhasesLeft'
  BY PhasesLeftHold
<1>2. CASE Classify
  <2>1. phase = "classify" /\ phase' = "classify" /\ Next /\ CallInv
    BY <1>2 DEF Classify, StepKnows
  <2>2. CallLeft' < CallLeft
    BY <2>1, CallDescends
  <2>3. CallLeft \in Int /\ CallLeft' \in Int
    BY <2>1, CallLeftStays
  <2>4. StepLeft = 14 + CallLeft /\ StepLeft' = 14 + CallLeft'
    BY <1>1, <2>1 DEF StepLeft, PhasesLeft
  <2> DEFINE a == CallLeft   b == CallLeft'
  <2>5. a \in Int /\ b \in Int /\ b < a /\ StepLeft = 14 + a /\ StepLeft' = 14 + b
    BY <2>2, <2>3, <2>4
  <2> HIDE DEF a, b
  <2> QED
    BY <2>5
<1>3. CASE HandOver
  <2>1. phase = "classify" /\ phase' = "respond" /\ CallLeft \in 0..11
    BY <1>3, CallLeftIs DEF HandOver, Onwards, StepKnows
  <2>2. StepLeft = 14 + CallLeft /\ StepLeft' = 13
    BY <1>1, <2>1 DEF StepLeft, PhasesLeft
  <2> DEFINE a == CallLeft
  <2>3. a \in 0..11 /\ StepLeft = 14 + a
    BY <2>1, <2>2
  <2> HIDE DEF a
  <2> QED
    BY <2>2, <2>3
<1>4. ASSUME NEW a \in 0..14, NEW b \in 0..14, b < a, phase # "classify", phase' # "classify",
             PhaseLeft = a, PhaseLeft' = b
      PROVE  StepLeft' < StepLeft
  <2>1. StepLeft = a + 0 /\ StepLeft' = b + 0
    BY <1>4 DEF StepLeft
  <2> QED
    BY <1>4, <2>1
<1>5. CASE Speak \/ Arrive
  <2>1. \/ phase = "respond" /\ phase' = "arrive"
        \/ phase = "arrive" /\ phase' = "route"
    BY <1>5 DEF Speak, Arrive, Onwards
  <2> QED
    BY <1>1, <1>4, <2>1 DEF PhasesLeft
<1>6. CASE Route
  <2>1. phase = "route" /\ phase' \in {"generate", "end"}
    BY <1>6 DEF Route, Onwards, Finished
  <2>2. PhaseLeft = 11 /\ PhaseLeft' \in 0..10
    BY <1>1, <2>1 DEF PhasesLeft
  <2> QED
    BY <1>4, <2>1, <2>2
<1>7. CASE Generate
  <2>1. phase = "generate" /\ phase' = IF gstage' = "done" THEN "draft" ELSE "generate"
    BY <1>7 DEF Generate, Onwards
  <2>2. \/ gstage = "key" /\ gstage' \in {"temp", "done"}
        \/ gstage = "temp" /\ gstage' \in {"post", "done"}
        \/ gstage = "post" /\ gstage' = "done"
    BY <1>7 DEF Generate, FindModelKey, WriteRequest, PostRequest, GReturn
  <2>3. GenerationLeft \in 8..10 /\ GenerationLeft' \in 8..10
    BY <1>1 DEF PhasesLeft
  <2>4. gstage' # "done" => GenerationLeft' < GenerationLeft
    BY <2>2 DEF GenerationLeft
  <2>5. PhaseLeft = GenerationLeft
    BY <1>1, <2>1 DEF PhasesLeft
  <2>6. CASE gstage' = "done"
    <3>1. phase' = "draft" /\ PhaseLeft' = 7
      BY <1>1, <2>1, <2>6 DEF PhasesLeft
    <3> QED
      BY <1>4, <2>1, <2>3, <2>5, <3>1
  <2>7. CASE gstage' # "done"
    <3>1. phase' = "generate" /\ PhaseLeft' = GenerationLeft'
      BY <1>1, <2>1, <2>7 DEF PhasesLeft
    <3> QED
      BY <1>4, <2>1, <2>3, <2>4, <2>5, <2>7, <3>1
  <2> QED
    BY <2>6, <2>7
<1>8. CASE ParseDraft
  <2>1. phase = "draft" /\ phase' \in {"apply", "end"}
    BY <1>8 DEF ParseDraft, AfterDraft
  <2>2. PhaseLeft = 7 /\ PhaseLeft' \in 0..6
    BY <1>1, <2>1 DEF PhasesLeft
  <2> QED
    BY <1>4, <2>1, <2>2
<1>9. CASE Apply
  <2>1. phase = "apply" /\ phase' \in {"check", "verify", "end"}
    BY <1>9 DEF Apply, Onwards, Finished
  <2>2. PhaseLeft = 6 /\ PhaseLeft' \in 0..5
    BY <1>1, <2>1 DEF PhasesLeft
  <2> QED
    BY <1>4, <2>1, <2>2
<1>10. CASE Run
  <2>1. phase \in {"check", "verify"} /\ CommandLeft' < CommandLeft
    <3>1. \/ running = "work" /\ running' = "pack"
          \/ running = "pack" /\ running' = "no"
      BY <1>10 DEF Run, RunCommand, command_run_worker, command_run_pack
    <3>2. phase \in {"check", "verify"}
      BY <1>10 DEF Run
    <3> QED
      BY <3>1, <3>2 DEF CommandLeft
  <2>2. phase' = phase \/ phase' = "end"
    BY <1>10 DEF Run, Finished
  <2> DEFINE a == CommandLeft   b == CommandLeft'   p == PhaseLeft   q == PhaseLeft'
  <2>3. /\ a \in 0..2 /\ b \in 0..2 /\ b < a
        /\ \/ p = 3 + a /\ q = 3 + b
           \/ p = a /\ q = b
           \/ p \in {a, 3 + a} /\ q = 0
    BY <1>1, <2>1, <2>2 DEF PhasesLeft
  <2>4. p = PhaseLeft /\ q = PhaseLeft'
    OBVIOUS
  <2>5. phase # "classify" /\ phase' # "classify"
    BY <2>1, <2>2
  <2> HIDE DEF a, b, p, q
  <2>6. p \in 0..14 /\ q \in 0..14 /\ q < p
    BY <2>3
  <2> QED
    BY <1>4, <2>4, <2>5, <2>6
<1>11. CASE Suite
  <2>1. phase = "check" /\ running = "no" /\ phase' = "verify" /\ running' = "work"
    BY <1>11 DEF Suite, Onwards, command_run
  <2>2. CommandLeft = 0 /\ CommandLeft' = 2
    BY <2>1 DEF CommandLeft
  <2>3. PhaseLeft = 3 /\ PhaseLeft' = 2
    BY <1>1, <2>1, <2>2 DEF PhasesLeft
  <2> QED
    BY <1>4, <2>1, <2>3
<1> QED
  BY <1>2, <1>3, <1>5, <1>6, <1>7, <1>8, <1>9, <1>10, <1>11 DEF StepNext

\* What is left is a number, at most what the call and all that may follow it take.
LEMMA StepLeftIs == StepKnows => StepLeft \in 0..25
<1> SUFFICES ASSUME StepKnows PROVE StepLeft \in 0..25
  OBVIOUS
<1>1. CallLeft \in 0..11
  BY CallLeftIs DEF StepKnows
<1>2. CommandLeft \in 0..2 /\ GenerationLeft \in 8..10
  BY DEF CommandLeft, GenerationLeft
<1>3. PhaseLeft \in 0..14
  BY <1>2 DEF PhaseLeft
<1>4. StepLeft = PhaseLeft + CallLeft \/ StepLeft = PhaseLeft + 0
  BY DEF StepLeft
<1> QED
  BY <1>1, <1>3, <1>4

\* A step from the classifier call to the verdict is at most 25 steps of its
\* processes, retries and both commands included.
THEOREM StepsAreBounded ==
  StepSpec => /\ [](StepLeft \in 0..25)
              /\ [][StepLeft' < StepLeft]_stepVars
<1>1. StepKnows /\ StepHolds /\ [StepNext]_stepVars => [StepLeft' < StepLeft]_stepVars
  BY StepDescends
<1> QED
  BY <1>1, StepLeftIs, StepInvariant, StepsHold, PTL DEF StepSpec
=============================================================================
