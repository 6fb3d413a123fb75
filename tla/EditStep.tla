------------------------------ MODULE EditStep ------------------------------
(***************************************************************************)
(* One decision of the agent and the edit it leads to, from the network to *)
(* the verdict: the classifier is called (TypesafeRetry), each question's  *)
(* answer is cut out of its response (Extract), an edit is drafted by the  *)
(* generation model (OpenRouterCall), the draft is parsed (Extract), and   *)
(* what it wrote is judged by two commands (CommandRun).  BendcoderAgent   *)
(* takes the answer, the draft and the verdict as given; here is where     *)
(* they come from.                                                         *)
(***************************************************************************)
EXTENDS TypesafeRetry, OpenRouterCall, CommandRun
LOCAL INSTANCE SequencesExt

CONSTANTS Asked,    \* the ids of the questions, in the order asked
          Saids,    \* what the service may say to them
          Intents   \* what the generation model may set out to write

VARIABLES phase,    \* what the step is at
          wrote,    \* the status that came with the body in the body file
          said,     \* what the service said, or Unsaid
          json,     \* the text of it that arrived
          intent,   \* the groups the model set out to write
          edit,     \* the parsed draft
          outcome   \* how the step ended
ownVars  == <<phase, wrote, said, json, intent, edit, outcome>>
stepVars == <<vars, generateVars, commandVars, ownVars>>

Questions == {Asked[i] : i \in 1..Len(Asked)}

\* No question has the name of a field that an error or a response is made of.
ErrorWords    == {"", "error", "message", "detail", "why"}
ResponseWords == {"model", "jev", "answers", "type", "choice", "score", "noul", "null",
                  "confidence", "probabilities"}
ASSUME EditStepAssumption ==
  /\ Asked \in Seq(STRING) /\ Asked # <<>>
  /\ Questions \cap (ErrorWords \union ResponseWords) = {}

\* What can be said to a question.  A label is an action, a number or a tracked
\* path, never the id of another question; where the confidence is left out it
\* is not `confidence` either, the key of the probability that would be taken.
IsSaid(q, a) ==
  /\ a.label \in STRING /\ a.value \in Nat /\ a.conf \in Nat
  /\ \/ a \in {Missing("no answer"), Missing("unrecognised")}
     \/ a = Chosen(a.label, a.conf) /\ a.label \notin Questions \ {q}
          /\ (a.conf = 0 => a.label # "confidence")
     \/ a = Scored(a.value, a.conf)
     \/ a = Nouled(a.value)
ASSUME SaidsAssumption == \A s \in Saids : \A q \in Questions : IsSaid(q, s[q])

\* The texts of a draft are the pieces between its sentinels: a sentinel that
\* the model writes inside one is a sentinel to the parser, as the format has
\* no escape for it.
ASSUME IntentsAssumption == \A i \in Intents :
  /\ i.groups \in Seq([path : STRING, old : STRING, new : STRING])
  /\ \A k \in 1..Len(i.groups) :
       {i.groups[k].path, i.groups[k].old, i.groups[k].new} \cap Sentinels = {}

Unsaid   == [q \in Questions |-> Missing("no answer")]
NoIntent == [groups |-> <<>>, closed |-> TRUE]
NoEdit   == [tag |-> "none", path |-> <<>>, old |-> <<>>, new |-> <<>>]

-----------------------------------------------------------------------------
(* What the two services send.  The shapes are those of the responses the  *)
(* tests and the extractors are written for.                               *)

Field(key, value) == <<Str(key), Mark(":")>> \o value
More(key, value)  == <<Mark(",")>> \o Field(key, value)
Object(fields)    == <<Mark("{")>> \o fields \o <<Mark("}")>>

\* An answer's own fields, the confidence left out when there is none.
Confidence(a) == IF a.conf = 0 THEN <<>> ELSE More("confidence", <<Num(a.conf)>>)
Fields(a) ==
  CASE a.tag = "chosen" ->
         Field("type", <<Str("choice")>>) \o More("choice", <<Str(a.label)>>)
           \o Confidence(a)
           \o More("probabilities", Object(Field(a.label, <<Num(78)>>)))
    [] a.tag = "scored" ->
         Field("type", <<Str("score")>>) \o More("score", <<Num(a.value)>>) \o Confidence(a)
    [] a.tag = "nouled" ->
         Field("type", <<Str("noul")>>) \o More("noul", <<Num(a.value)>>)
    [] OTHER -> Field("type", <<Str("null")>>)

\* A question the service left out has no object at all; a comma stands
\* between two that have.
LeftOut(s, i)  == s[Asked[i]] = Missing("no answer")
Behind(s, i)   == IF \A j \in 1..(i - 1) : LeftOut(s, j) THEN <<>> ELSE <<Mark(",")>>
Answered(s, i) ==
  IF LeftOut(s, i) THEN <<>>
  ELSE Behind(s, i) \o Field(Asked[i], Object(Fields(s[Asked[i]])))
Response(s) ==
  Object(Field("model", <<Str("jev")>>)
    \o More("answers", Object(FlattenSeq([i \in 1..Len(Asked) |-> Answered(s, i)]))))

\* Errors of either service: {"error":{"message":".."}} and {"detail":".."}.
ErrorObject == <<Mark("{"), Str("error"), Mark(":"), Mark("{"), Str("message"), Mark(":"),
                 Str("why"), Mark("}"), Mark("}")>>
Detail      == <<Mark("{"), Str("detail"), Mark(":"), Str("why"), Mark("}")>>

\* A completion: its text, or no text at all.
Completion(content) ==
  Object(Field("role", <<Str("assistant")>>) \o More("content", content)
    \o More("total_tokens", <<Num(900)>>))

\* What is left of a token when the connection breaks inside it: a string
\* whose closing quote is missing, a number that lost digits.
Pieces(t) ==
  CASE t.k = "str" -> {Open(t.s), Open("part")}
    [] t.k = "num" -> {Num(t.n), Num(10 * (t.n \div 10)), Num(0)}
    [] OTHER -> {t}

Cuts(tokens) ==
  {<<>>} \union UNION {{Append(SubSeq(tokens, 1, i - 1), t) : t \in Pieces(tokens[i])}
                         : i \in 1..Len(tokens)}

\* A draft as its model writes it: a group is a path, the old and the new
\* text; a text that is empty has no piece.  Only what sets out to be several
\* groups may leave out the ends between them.
Texts(t) == IF t = "" THEN <<>> ELSE <<t>>
Group(g) == <<"<<<PATH>>>">> \o Texts(g.path) \o <<"<<<OLD>>>">> \o Texts(g.old)
              \o <<"<<<NEW>>>">> \o Texts(g.new)
Draft(i) ==
  IF i.groups = <<>> THEN <<"prose">>
  ELSE FlattenSeq([k \in 1..Len(i.groups) |->
         Group(i.groups[k]) \o
           (IF i.closed \/ k = Len(i.groups) THEN <<"<<<END>>>">> ELSE <<>>)])

\* The draft stops anywhere: the model's token limit, or the connection.
CutDrafts(d) == UNION {{SubSeq(d, 1, k - 1), Append(SubSeq(d, 1, k - 1), "part")} : k \in 1..Len(d)}

\* What can arrive of each response, completion and draft.
Responses == [s \in Saids |-> {Response(s)} \union (Cuts(Response(s)) \ {<<>>})]
Drafts    == [i \in Intents |-> {Draft(i)} \union CutDrafts(Draft(i))]

\* The model's service answers a request with a completion that has a text or
\* none, or with an error; an empty request with an error.
Completions ==
  {Completion(<<Str("text")>>), Completion(<<Mark("null")>>), ErrorObject}
Bodies ==
  [r \in {"whole", "empty"} |->
     LET sent == IF r = "whole" THEN Completions ELSE {ErrorObject}
     IN  sent \union UNION {Cuts(b) : b \in sent}]

-----------------------------------------------------------------------------
(* The step.                                                               *)

StepInit == /\ Init /\ OpenRouterInit /\ CommandInit
            /\ phase = "classify"
            /\ wrote = 0
            /\ said = Unsaid /\ json = <<>>
            /\ intent = NoIntent /\ edit = NoEdit
            /\ outcome = "none"

Finished(how) == phase' = "end" /\ outcome' = how
Onwards(to)   == phase' = to /\ UNCHANGED outcome

\* The status of the attempt whose body is kept.
Wrote == IF stage = "post" /\ body' = attempt THEN status'
         ELSE IF body' = 0 THEN 0 ELSE wrote

Classify ==
  /\ phase = "classify"
  /\ Next
  /\ wrote' = Wrote
  /\ UNCHANGED <<phase, said, json, intent, edit, outcome, generateVars, commandVars>>

\* typesafe_post_pack: the loop has the reply, the worker's locals are gone.
HandOver ==
  /\ phase = "classify" /\ stage = "done"
  /\ hint' = [ms |-> NoHint, s |-> NoHint] /\ slept' = 0
  /\ Onwards("respond")
  /\ UNCHANGED <<stage, attempt, status, body, files, reply, wrote, said, json, intent, edit,
                 generateVars, commandVars>>

\* Only a response with status 200 says anything.
Speak ==
  /\ phase = "respond"
  /\ said' \in IF reply.why = "body" /\ wrote = 200 THEN Saids ELSE {Unsaid}
  /\ Onwards("arrive")
  /\ UNCHANGED <<vars, wrote, json, intent, edit, generateVars, commandVars>>

\* The text the call hands back: a response whole or cut, or an error.
Heard ==
  IF reply.why = "body" THEN
    IF wrote = 200 THEN Responses[said] ELSE {ErrorObject, Detail}
  ELSE IF reply.why = "empty" THEN {EmptyObject}
  ELSE {ErrorBody}

Arrive ==
  /\ phase = "arrive"
  /\ json' \in Heard
  /\ Onwards("route")
  /\ UNCHANGED <<vars, wrote, said, intent, edit, generateVars, commandVars>>

\* ParseAnswer, one question at a time.
ParseAnswer(q) == answer_build(json, q)

\* The edit is drafted when it was chosen and its floors let it through; the
\* floors are the selector's.
Route ==
  /\ phase = "route"
  /\ \/ ParseAnswer(Asked[1]).tag = "chosen"
          /\ ParseAnswer(Asked[1]).label = "apply_edit"
          /\ Onwards("generate")
     \/ Finished("elsewhere")
  /\ said' = Unsaid /\ json' = <<>>
  /\ UNCHANGED <<vars, wrote, intent, edit, generateVars, commandVars>>

\* The model sets out to write something; what comes back may be all of it.
Generate ==
  /\ phase = "generate"
  /\ FindModelKey \/ WriteRequest \/ (request # "none" /\ PostRequest(Bodies[request]))
  /\ intent' \in IF gstage' = "done" THEN Intents ELSE {NoIntent}
  /\ Onwards(IF gstage' = "done" THEN "draft" ELSE "generate")
  /\ UNCHANGED <<vars, wrote, said, json, edit, commandVars>>

\* extract.generation over what came back, the pieces of its text given.
generation(text) ==
  LET t == parse_chat_content(raw)
  IN  IF t = Whole THEN <<"json">>
      ELSE IF t \in {Str("text"), Open("text"), Open("part")} THEN text
      ELSE <<>>

AfterDraftUnguarded(tag) == IF tag # "malformed" THEN "apply" ELSE "end"
AfterDraftAgain(tag) == IF tag = "block" THEN "apply" ELSE "generate"
AfterDraft(tag) == IF tag = "block" THEN "apply" ELSE "end"

\* act_apply_edit: only a block goes on, to the tools.
ParseDraft ==
  /\ phase = "draft"
  /\ \E text \in Drafts[intent] : edit' = parse_edit(generation(text))
  /\ raw' = <<>>
  /\ phase' = AfterDraft(edit'.tag)
  /\ outcome' = IF phase' = "end" THEN edit'.tag ELSE outcome
  /\ UNCHANGED <<vars, gstage, request, wrote, said, json, intent, commandVars>>

\* The tools' answer decides; a check is run when one is configured.
Apply ==
  /\ phase = "apply"
  /\ \/ Finished("refused by the tool") /\ UNCHANGED commandVars
     \/ \E tier \in {"check", "verify"} : Onwards(tier) /\ command_run
  /\ UNCHANGED <<vars, generateVars, wrote, said, json, intent, edit>>

\* The check's pass is only permission to run the suite.
Run ==
  /\ phase \in {"check", "verify"}
  /\ running # "no"
  /\ RunCommand
  /\ IF running' # "no" \/ (phase = "check" /\ result'.tag = "done")
     THEN UNCHANGED <<phase, outcome>>
     ELSE Finished(IF result'.tag = "done" THEN "kept" ELSE "broken")
  /\ UNCHANGED <<vars, generateVars, wrote, said, json, intent, edit>>

\* verify_suite behind a check that passed.
Suite ==
  /\ phase = "check" /\ running = "no"
  /\ command_run
  /\ Onwards("verify")
  /\ UNCHANGED <<vars, generateVars, wrote, said, json, intent, edit>>

StepNext == Classify \/ HandOver \/ Speak \/ Arrive \/ Route \/ Generate \/ ParseDraft \/ Apply \/ Run \/ Suite

StepSpec     == StepInit /\ [][StepNext]_stepVars
\* One process: while something can be done it is done, and both curl and a
\* command end by themselves.
StepFairSpec == StepSpec /\ WF_stepVars(StepNext)

-----------------------------------------------------------------------------
(* Properties.                                                             *)

\* The step's own variables hold what their phase can hold, and the processes
\* run only in the phases that wait for them.
StepTypeOK ==
  /\ phase \in {"classify", "respond", "arrive", "route", "generate", "draft", "apply",
                "check", "verify", "end"}
  /\ wrote \in Statuses \union {0}
  /\ gstage \in {"key", "temp", "post", "done"}
  /\ request \in {"none", "whole", "empty"}
  /\ running \in {"no", "work", "pack"}
  /\ command_run_status \in Codes \union {0, 127}
  /\ edit.tag \in {"none", "malformed", "refused", "block"}
  /\ phase # "classify" => stage = "done"
  /\ phase \in {"apply", "check", "verify"} => edit.tag = "block" /\ gstage = "done"

Usable(a) == a.tag # "missing"

\* An answer is of the attempt that succeeded: a body that an earlier attempt
\* left in the file never decides anything, and nothing is drafted after a
\* call whose last attempt failed.
AnswerIsFresh ==
  \/ phase = "route" /\ \E q \in Questions : Usable(ParseAnswer(q))
  \/ phase \in {"generate", "draft", "apply", "check", "verify"}
  => status = 200 /\ body = attempt

\* Each question is given what the service said to it, and nothing of a
\* neighbour's, whatever the others lack ("A missing field cannot read a
\* neighbour's answer").
AnswerIsOwn ==
  phase = "route" /\ json = Response(said) =>
    \A q \in Questions : ParseAnswer(q) = said[q]

\* A response that was cut never claims more than the whole one: no answer is
\* of another kind or more confident, and a label that comes with any
\* confidence is the label that was said.
CutIsWeaker ==
  phase = "route" =>
    \A q \in Questions :
      LET a == ParseAnswer(q)
      IN  Usable(a) =>
            /\ a.tag = said[q].tag
            /\ a.conf <= said[q].conf /\ a.value <= said[q].value
            /\ a.conf > 0 => a.label = said[q].label

\* What is applied is a whole group, the first one the model set out to write:
\* a draft cut by the token limit or the connection, an error body or an empty
\* reply is never a part of an edit.  What becomes of the groups behind it is
\* OneGroupOnly's matter.
BlockIsWhole ==
  edit.tag = "block" =>
    /\ intent.groups # <<>>
    /\ LET g == intent.groups[1]
       IN  /\ edit.path = Texts(g.path) /\ edit.old = Texts(g.old) /\ edit.new = Texts(g.new)
           /\ g.path \notin Outside

\* An edit stands or falls by a process of its own: it is kept when the last
\* process left no failing status, and it is broken only when a process that
\* this edit started did.
VerdictIsOwn ==
  /\ outcome = "kept" => StatusOf(child) = 0
  /\ outcome = "broken" => StatusOf(child) # 0

\* The request file, which holds the whole prompt, is gone when the call is
\* over, whatever came back.
NoRequestLeft == gstage = "done" => request = "none"

\* Every step ends: with an edit kept, broken or refused, or elsewhere.
StepEnds == <>(phase = "end")

\* sys_c.c:84-88: "Done{output} when the command exits 0, Fail{(code, output)}
\* otherwise [...] a verification step that cannot tell a pass from a failure
\* cannot decide whether to keep an edit".
KeptMeansExited == outcome = "kept" => child \in {NoChild, Exited(0)}

\* bendcoder_agent.bend: "this port takes one <<<PATH>>>/<<<OLD>>>/<<<NEW>>>
\* group per edit and refuses a reply carrying more rather than silently
\* applying a part of it".
OneGroupOnly == edit.tag = "block" => Len(intent.groups) = 1
=============================================================================
