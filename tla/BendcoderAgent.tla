--------------------------- MODULE BendcoderAgent ---------------------------
(***************************************************************************)
(* bendcoder_agent.bend: the loop.  One process alternates between asking  *)
(* Classify what to do (Decide) and running the handler the route chose.   *)
(* A handler leaves a report; the report is folded into the state only     *)
(* when the next decision starts.                                          *)
(*                                                                         *)
(* pc names the stage: "decide", one stage per handler, the stages of an   *)
(* edit (draft, apply, check, verify) and the three ways a run ends:       *)
(* "finished" (Finished{}), "stalled" (Stalled{}) and "halted" (out of     *)
(* fuel).  The models, the tools and the commands answer by \E.            *)
(***************************************************************************)
EXTENDS Selector, Book, Worklist, FiniteSets

CONSTANTS
  Tracked,      \* the listing injected as index.paths
  Pages,        \* Pages[f]: pages of text in f when it holds text
  Gates,        \* what a content can fail: "check", "verify" and "build"
  Drafts,       \* contents an edit can leave behind
  Torn,         \* contents a write that stops short can leave behind
  InitDisk,     \* the contents a run can start from
  CheckCmd,     \* is BENDCODER_CHECK_CMD set?
  Patterns,     \* search strings
  NoPattern,
  Sniffed,      \* patterns searched before the first step
  Replies,      \* what `plan` generates: sequences of sets of named paths
  Stray,        \* labels Classify may answer beside the offered ones
  MaxSteps      \* the fuel

ASSUME TrackedAreFiles  == Tracked \subseteq Files /\ Tracked # {}
ASSUME PagesAreCounts   == Pages \in [Files -> Nat \ {0}]
ASSUME NoPatternIsNone  == NoPattern \notin Patterns
ASSUME SniffedPatterns  == Sniffed \subseteq Patterns
ASSUME RepliesAreLists  == Replies \subseteq Seq(SUBSET Files)
ASSUME StrayAreLabels   == Stray \subseteq Labels
ASSUME FuelIsPositive   == MaxSteps \in Nat \ {0}
ASSUME CheckCmdIsSetOrNot == CheckCmd \in BOOLEAN

\* A path holds text (with the gates that text fails), holds nothing Read can
\* page to an end ("blank": an empty file or a directory), or does not exist.
Absent   == [kind |-> "absent", faults |-> {}]
Contents == [kind : {"text", "blank"}, faults : SUBSET Gates] \union {Absent}

ASSUME DraftsAreContents == Drafts \subseteq Contents \ {Absent}
ASSUME TornAreContents   == Torn \subseteq Contents \ {Absent}
ASSUME DisksAreContents  == InitDisk \subseteq [Files -> Contents]

VARIABLES
  pc,       \* the stage of the run
  fuel,     \* decisions left
  st,       \* the state Classify reads
  book,     \* the loop's side-state
  rep,      \* the report of the last handler, not yet folded
  target,   \* the path of the edit in flight
  disk      \* the working tree

vars == <<pc, fuel, st, book, rep, target, disk>>

Handlers   == {"read", "search", "build", "edit", "answer", "plan"}
EditStages == {"edit", "draft", "apply", "check", "verify"}
Ends       == {"finished", "stalled", "halted"}
PcType     == {"decide"} \union Handlers \union EditStages \union Ends

-----------------------------------------------------------------------------
(***************************************************************************)
(* State and reports.  st keeps the fields some rule reads: the last       *)
(* verdict, the changed paths and the last of them, the plan, whether      *)
(* generate_answer ran (state_did), and the patterns whose label stands in *)
(* the observations.                                                       *)
(***************************************************************************)
Verdicts == {"unknown", "pass", "fail"}

StateType == [verif : Verdicts, changed : SUBSET Files, last : Files \union {NoFile},
              plan : Seq(Items(Files)), answered : BOOLEAN, searched : SUBSET Patterns]

StateNew == [verif |-> "unknown", changed |-> {}, last |-> NoFile, plan |-> << >>,
             answered |-> FALSE, searched |-> Sniffed]

ReportType == [verify : Verdicts, path : Files \union {NoFile},
               planned : BOOLEAN, plan : Seq(Items(Files)),
               answered : BOOLEAN, pattern : Patterns \union {NoPattern}]

RepEmpty == [verify |-> "unknown", path |-> NoFile, planned |-> FALSE, plan |-> << >>,
             answered |-> FALSE, pattern |-> NoPattern]

RepVerify(v)    == [RepEmpty EXCEPT !.verify = v]
RepEdited(v, f) == [RepEmpty EXCEPT !.verify = v, !.path = f]
RepPlanned(p)   == [RepEmpty EXCEPT !.planned = TRUE, !.plan = p]

Maybe(x, none) == {x} \ {none}

\* apply_report: what the handler learned, folded in; nothing else moves.
ApplyReport(s, r) ==
  [verif    |-> IF r.verify = "unknown" THEN s.verif ELSE r.verify,
   changed  |-> s.changed \union Maybe(r.path, NoFile),
   last     |-> IF r.path = NoFile THEN s.last ELSE r.path,
   plan     |-> IF r.planned THEN r.plan ELSE Mark(s.plan, Maybe(r.path, NoFile)),
   answered |-> s.answered \/ r.answered,
   searched |-> s.searched \union Maybe(r.pattern, NoPattern)]

VerifyFailed(s) == s.verif = "fail"

\* state_broken: the last changed path while the last verdict is a failure.
Broken(s) == IF VerifyFailed(s) THEN s.last ELSE NoFile

-----------------------------------------------------------------------------
(***************************************************************************)
(* Decide: fold the report, ask Classify, tally, route, land.              *)
(***************************************************************************)
Facts(s, b) == [unread |-> BookUnread(b), stuck |-> BookStuck(b), spent |-> BookSpent(b),
                readsOut |-> BookReadOut(b), failed |-> VerifyFailed(s),
                met |-> BookMet(b), owed |-> PlanOpen(s.plan, Tracked)]

\* The options are built from the state before the fold: agent_step passes
\* `state`, not `state2`, to has_plan.
Offered == ActionOptions(BookReadOut(book), st.plan # << >>)

Answers == LoopAnswers(Offered \union Stray)

RerouteStage(b) == IF BookReadOut(b) THEN "search" ELSE "read"

\* finish_guarded: a done over a broken draft is a stall.
FinishUnguarded(s) == "finished"

Finish(s) == IF Broken(s) # NoFile THEN "stalled" ELSE "finished"

ForcedStage(action, s) == IF action = "task_complete" THEN Finish(s) ELSE "answer"

Handler(action, s) ==
  CASE action = "read_code"       -> "read"
    [] action = "search_code"     -> "search"
    [] action = "run_build"       -> "build"
    [] action = "apply_edit"      -> "edit"
    [] action = "plan"            -> "plan"
    [] action = "generate_answer" -> "answer"
    [] action = "task_complete"   -> Finish(s)

\* run_route: where a route takes the step; in the forced window whatever is
\* not an end answers instead.
LandIgnoringForce(route, forced, s, b) ==
  CASE route.kind = "stop" -> "stalled"
    [] route.kind = "act"  -> Handler(route.action, s)
    [] OTHER               -> RerouteStage(b)

Land(route, forced, s, b) ==
  CASE route.kind = "stop" -> "stalled"
    [] route.kind \in {"act", "confirm"} /\ forced -> ForcedStage(route.action, s)
    [] route.kind \in {"reread", "skip"} /\ forced -> "answer"
    [] route.kind = "act" /\ ~forced -> Handler(route.action, s)
    [] route.kind # "act" /\ route.kind # "stop" /\ ~forced -> RerouteStage(b)

\* The last two steps belong to an answer until one was generated.
ForcedWindow(s, rest) == rest <= 1 /\ ~s.answered

\* step_decide: where answer x takes the step, and the tallied book.
Decision(x, f, s, b, rest) ==
  LET rerouted == Rerouted(x, f.spent, f.failed, f.met)
  IN  [book  |-> BookTally(b, rerouted),
       stage |-> IF BookFlailing(b, rerouted) THEN "stalled"
                 ELSE Land(Route(x, f), ForcedWindow(s, rest), s, b)]

FuelLeftAlways == TRUE
FuelLeft       == fuel > 0

Decide ==
  /\ pc = "decide"
  /\ FuelLeft
  /\ fuel' = fuel - 1
  /\ rep' = RepEmpty
  /\ st' = ApplyReport(st, rep)
  /\ LET s == ApplyReport(st, rep)
         f == Facts(s, book)
     IN  \E d \in {Decision(x, f, s, book, fuel - 1) : x \in Answers} :
           /\ book' = d.book
           /\ pc' = d.stage
  /\ UNCHANGED <<target, disk>>

OutOfFuelNever == FALSE /\ UNCHANGED vars

\* The last handler's report is never folded.
OutOfFuel ==
  /\ pc = "decide"
  /\ fuel = 0
  /\ pc' = "halted"
  /\ UNCHANGED <<fuel, st, book, rep, target, disk>>

-----------------------------------------------------------------------------
(***************************************************************************)
(* The handlers that change nothing on disk.                               *)
(***************************************************************************)
Report(r, b) ==
  /\ pc' = "decide"
  /\ rep' = r
  /\ book' = b
  /\ UNCHANGED <<fuel, st, target, disk>>

\* serve_read_page: one page; a page past the end marks the file done.
Serve(f) ==
  LET page == RdNext(book, f)
  IN  IF disk[f].kind = "text" /\ page > Pages[f]
      THEN BookServed(book, f, page, TRUE)
      ELSE BookServed(book, f, page + 1, FALSE)

\* The first read: the listing and the README, no cursor.
ReadFirst ==
  /\ pc = "read"
  /\ ~book.read_once
  /\ Report(RepEmpty, BookPhase0(book))

\* The file a refused edit named, without asking.
ReadWanted ==
  /\ pc = "read"
  /\ book.read_once
  /\ book.want # NoFile
  /\ Report(RepEmpty, Serve(book.want))

\* The file Choice over the listing less the files read to the end.  It may
\* decline, and the file it names may be gone from the tree.
ReadPicked ==
  /\ pc = "read"
  /\ book.read_once
  /\ book.want = NoFile
  /\ \/ Report(RepEmpty, BookDeclined(book))
     \/ \E f \in Tracked \ book.done :
          Report(RepEmpty, IF disk[f].kind = "absent" THEN BookActed(book) ELSE Serve(f))

\* A pattern whose label already stands in the observations is not run
\* again, and counts as a miss all the same.
SearchCode ==
  /\ pc = "search"
  /\ \E p \in Patterns :
       \/ /\ p \in st.searched
          /\ Report(RepEmpty, BookMissed(book))
       \/ /\ p \notin st.searched
          /\ \E b \in {BookActed(book), BookMissed(book)} :
               Report([RepEmpty EXCEPT !.pattern = p], b)

GateFails(gate) == \E f \in Files : gate \in disk[f].faults

\* run_build always runs ./run_tests.sh, whatever BENDCODER_VERIFY_CMD says.
RunBuild ==
  /\ pc = "build"
  /\ Report(RepVerify(IF GateFails("build") THEN "fail" ELSE "pass"), BookActed(book))

GenerateAnswer ==
  /\ pc = "answer"
  /\ Report([RepEmpty EXCEPT !.answered = TRUE], BookActed(book))

DraftPlan ==
  /\ pc = "plan"
  /\ \E reply \in Replies : Report(RepPlanned(Parse(reply)), BookActed(book))

-----------------------------------------------------------------------------
(***************************************************************************)
(* apply_edit: aim (repair or anchor), draft, apply, check, verify.        *)
(***************************************************************************)
Stage(next, b, f) ==
  /\ pc' = next
  /\ book' = b
  /\ target' = f
  /\ UNCHANGED <<fuel, st, rep, disk>>

\* A standing failure skips the anchor: its file is read in full and shown to
\* a draft, which may still name any path.  A file left empty is drafted for
\* without being shown, over the same book.
RepairEdit ==
  /\ pc = "edit"
  /\ Broken(st) # NoFile
  /\ Stage("draft", BookExhaust(book, Broken(st), Pages[Broken(st)] + 1), NoFile)

\* Otherwise Jev picks a file and a line of it; the replaced text is sliced
\* from the file.  Any pick that fails falls back to the sentinel draft: no
\* file named, or one with no text to read, leaves the book alone; every
\* later pick has the file read in full.
AnchorEdit ==
  /\ pc = "edit"
  /\ Broken(st) = NoFile
  /\ \/ Stage("draft", book, NoFile)
     \/ \E f \in Tracked, n \in AnchorAnswers, windowed, unique \in BOOLEAN :
          /\ disk[f].kind = "text"
          /\ LET read == BookExhaust(book, f, Pages[f] + 1)
                 paged == Pages[f] > 1
             IN  IF (paged => windowed) /\ AnchorHolds(n) /\ n.line = "inside" /\ unique
                 THEN Stage("apply", read, f)
                 ELSE Stage("draft", read, NoFile)

BlindNever(b, d, f) == FALSE

\* apply_guarded: an existing file is only edited once it has a mark.
Blind(b, d, f) == d[f].kind # "absent" /\ ~Marked(b, f)

\* The sentinel draft: malformed or outside the repository, blind, or applied.
DraftEdit ==
  /\ pc = "draft"
  /\ \/ Report(RepEmpty, BookActed(book))
     \/ \E f \in Files :
          \/ /\ Blind(book, disk, f)
             /\ Report(RepEmpty, BookWant(book, f))
          \/ /\ ~Blind(book, disk, f)
             /\ Stage("apply", book, f)

\* A judged draft stays on disk whatever the verdict; a failed one is reported
\* as the broken path.
Judged(r, b) ==
  /\ pc' = "decide"
  /\ rep' = r
  /\ book' = b
  /\ target' = NoFile
  /\ UNCHANGED <<fuel, st, disk>>

Overwrite(f, contents) == \E c \in contents : disk' = [disk EXCEPT ![f] = c]

\* The tool refuses, or the path now holds the draft.  A write that stops
\* short ends with the tool's error too, over a file already truncated: it is
\* reported as a refusal, without the path and without a verdict.
ApplyBlock ==
  /\ pc = "apply"
  /\ \/ Judged(RepEmpty, BookActed(book))
     \/ /\ Overwrite(target, Torn)
        /\ pc' = "decide"
        /\ rep' = RepEmpty
        /\ book' = BookActed(book)
        /\ target' = NoFile
        /\ UNCHANGED <<fuel, st>>
     \/ /\ Overwrite(target, Drafts)
        /\ pc' = IF CheckCmd THEN "check" ELSE "verify"
        /\ UNCHANGED <<fuel, st, book, rep, target>>

\* The cheap tier: a failure never reaches the suite.
CheckEdit ==
  /\ pc = "check"
  /\ \/ /\ "check" \in disk[target].faults
        /\ Judged(RepEdited("fail", target), BookActed(book))
     \/ /\ "check" \notin disk[target].faults
        /\ Stage("verify", book, target)

\* The suite.  A kept edit reports the book as it is.
VerifyEdit ==
  /\ pc = "verify"
  /\ \/ /\ GateFails("verify")
        /\ Judged(RepEdited("fail", target), BookActed(book))
     \/ /\ ~GateFails("verify")
        /\ Judged(RepEdited("pass", target), book)

-----------------------------------------------------------------------------
Init ==
  /\ pc = "decide"
  /\ fuel = MaxSteps
  /\ st = StateNew
  /\ book = BookNew
  /\ rep = RepEmpty
  /\ target = NoFile
  /\ disk \in InitDisk

Edit == RepairEdit \/ AnchorEdit \/ DraftEdit \/ ApplyBlock \/ CheckEdit \/ VerifyEdit

Next ==
  \/ Decide \/ OutOfFuel
  \/ ReadFirst \/ ReadWanted \/ ReadPicked
  \/ SearchCode \/ RunBuild \/ GenerateAnswer \/ DraftPlan
  \/ Edit

Spec == Init /\ [][Next]_vars

\* The loop is one sequential process: it keeps taking steps while it can.
FairSpec == Spec /\ WF_vars(Next)

-----------------------------------------------------------------------------
(***************************************************************************)
(* Properties.                                                             *)
(***************************************************************************)
\* Every variable keeps its type: in particular no decision is taken without
\* fuel, and no report or book field leaves the values its readers expect.
TypeOK ==
  /\ pc \in PcType
  /\ fuel \in 0..MaxSteps
  /\ st \in StateType
  /\ book \in BookType
  /\ rep \in ReportType
  /\ target \in Files \union {NoFile}
  /\ disk \in [Files -> Contents]

-----------------------------------------------------------------------------
\* What an answer the table was asked for leads to, in a state about to decide.
Ready      == pc = "decide" /\ fuel > 0
NextState  == ApplyReport(st, rep)
Asked      == {x \in Answers : x.action \in Offered \union {Unusable}}
Tallied(x, f) == Rerouted(x, f.spent, f.failed, f.met)

\* No stage of an edit is reached before something was read: not by a weak
\* edit that a spent floor, a standing failure or a landed read lets through,
\* and not by the repair, which skips the blind-edit row's own question.
\* (selector.bend: "edits draft against code already read".)
EditAfterRead == pc \in EditStages => book.read_once

\* The under-floor run counts rerouted decisions that really bought reads: at
\* a decision it is at most floor_reads, and once it is spent a read has run.
FloorBuysReads ==
  pc = "decide" => /\ book.low <= FloorReads
                   /\ BookSpent(book) => book.read_once

\* agent_step decides what to tally before the table has routed, from its own
\* copy of the rules.  The copy agrees with the table: the tally counts an
\* answer exactly when the table takes a floor row for it, and the row for a
\* read into a picker that keeps declining is never needed, because the
\* option has left the list by then.
TallyMatchesTable ==
  Ready => LET f == Facts(NextState, book)
           IN  \A x \in Asked :
                 LET row == Route(x, f).row
                 IN  /\ Tallied(x, f) <=> row \in {"floor", "weak_done"}
                     /\ row # "read_dead"

\* The flail halt is only ever a weak "done" said once too often: every other
\* third weak decision acts, so the table's own row for a weak "done" under a
\* spent floor is never reached.
FlailIsWeakDone ==
  Ready => LET f == Facts(NextState, book)
           IN  \A x \in Asked :
                 LET flails == BookFlailing(book, Tallied(x, f))
                 IN  /\ flails => x.action = "task_complete"
                     /\ Route(x, f).row = "weak_done" => flails

\* A refused edit's file stays owed until a read of it lands and is then on
\* record as met; the two records never stand together, a wanted file has no
\* cursor and a met one has.
WantThenMet ==
  /\ book.want # NoFile => /\ book.met = NoFile
                           /\ ~Marked(book, book.want)
                           /\ book.read_once
  /\ book.met # NoFile  => Marked(book, book.met)

\* The read after a refused edit is the read it asked for, whatever routed
\* there: the phase-0 listing, a reroute or the picker never comes first.
ReadServesWant ==
  [][pc = "read" /\ book.want # NoFile =>
       Marked(book', book.want) /\ book'.met = book.want]_vars

\* No file that exists is changed unless its text was read in this run.
NoBlindWrite ==
  [][\A f \in Files : disk'[f] # disk[f] => disk[f].kind = "absent" \/ Marked(book, f)]_vars

\* A checked-off item stays in the plan and stays checked off, although the
\* options still offer `plan` one decision after a plan was drafted.
PlanKeepsProgress ==
  [][\A i \in DOMAIN st.plan :
       st.plan[i].done => i \in DOMAIN st'.plan /\ st'.plan[i] = st.plan[i]]_vars

\* A completion accepted with more than the forced window left owes nothing.
FinishOwesNothing == pc = "finished" /\ fuel > 1 => ~PlanOpen(st.plan, Tracked)

\* A run that burns all of its fuel has generated an answer.
AnswerBeforeHalt == pc = "halted" => st.answered \/ rep.answered

\* Every run ends: finished, stalled with a reason, or out of fuel.
Terminates == <>(pc \in Ends)

-----------------------------------------------------------------------------
(***************************************************************************)
(* What a run promises whoever started it: GuardedRun, with the verdict    *)
(* and the changed paths read through the report that is not folded yet.   *)
(***************************************************************************)
Mode == CASE pc = "decide" -> "deciding"
          [] pc \in {"check", "verify"} -> "judging"
          [] pc \in Handlers \union {"draft", "apply"} -> "working"
          [] pc = "finished" -> "accepted"
          [] pc \in {"stalled", "halted"} -> "given_up"

InFlight == IF pc \in {"check", "verify"} THEN {target} ELSE {}

Known   == {f \in Files : Marked(book, f)}
Touched == st.changed \union Maybe(rep.path, NoFile) \union InFlight

Guarded == INSTANCE GuardedRun WITH
             mode    <- Mode,
             budget  <- fuel,
             tree    <- disk,
             known   <- Known,
             touched <- Touched,
             verdict <- NextState.verif

\* The loop implements the guarded run: it writes only what it has read or
\* what is new, owes every write the tool finished a verdict before the next
\* decision, keeps the path of every such write on record, and never accepts
\* while the last verdict over one of them is a failure.  A write that stops
\* short is the guarded run's Tear: of it neither is promised, and
\* CertifiesNoBrokenTree shows what that costs.
GuardedSpec == Guarded!FairSpec

-----------------------------------------------------------------------------
(***************************************************************************)
(* Statements of the source that the loop does not keep.                   *)
(***************************************************************************)

\* bendcoder_agent.bend: "The broken file poisons every later verify until it
\* is fixed or reverted [...] the state cannot go green while it is
\* unresolved" - for a file the configured check refuses.
NoGreenOverBroken ==
  pc = "decide" /\ NextState.verif = "pass" =>
    \A f \in NextState.changed : CheckCmd => "check" \notin disk[f].faults

\* bendcoder_agent.bend: "Anything that is not a search breaks the miss run".
OnlySearchesMiss ==
  [][pc # "search" /\ pc # "decide" /\ pc' = "decide" => book'.misses = 0]_vars

\* bendcoder_agent.bend: "route.gate reroutes a premature task_complete while
\* any item is still open".
FinishOwesNothingEver == pc = "finished" => ~PlanOpen(st.plan, Tracked)

\* bendcoder_agent.bend: "the run stalls with the near-miss left on disk for
\* review rather than certifying a broken tree" - for a run that ends on a
\* passing verdict, over a tree both the suite and the build refuse.
CertifiesNoBrokenTree ==
  pc = "finished" /\ st.verif = "pass" => ~(GateFails("verify") /\ GateFails("build"))

=============================================================================
