------------------------ MODULE BendcoderAgentProofs ------------------------
(***************************************************************************)
(* Theorems about BendcoderAgent: type correctness, and the safety         *)
(* properties of the loop, for every listing, tree, worklist, model answer *)
(* and fuel; and that the loop implements GuardedRun.                      *)
(***************************************************************************)
EXTENDS BendcoderAgent, TLAPS

(***************************************************************************)
(* The inductive invariant.  What a stage may assume of the book, the      *)
(* target and the fuel when it starts.                                     *)
(***************************************************************************)

\* The book's own consistency, whatever the stage: wants and cursors agree,
\* and a pick is only declined after the first read.
BookInv(bk) ==
  /\ bk \in BookType
  /\ bk.want # NoFile => /\ bk.met = NoFile
                         /\ ~Marked(bk, bk.want)
                         /\ bk.read_once
  /\ bk.met # NoFile => Marked(bk, bk.met)
  /\ bk.skips > 0 => bk.read_once

\* An under-floor run without a read is one decision long and belongs to a
\* forced answer, or is about to be followed by the first read.
LowRun ==
  /\ book.low <= FloorReads \/ pc = "stalled"
  /\ \/ book.low = 0
     \/ book.read_once
     \/ pc \in {"read", "finished", "stalled", "halted"}
     \/ /\ book.low = 1
        /\ fuel <= 1
        /\ pc = "answer" \/ (pc = "decide" /\ (st.answered \/ rep.answered))

\* The edit in flight has a target that is new or was read.
TargetInv ==
  /\ pc \in {"apply", "check", "verify"} => target \in Files
  /\ pc = "apply" => disk[target].kind = "absent" \/ Marked(book, target)

\* Once the fuel is spent, only an answer is still owed.
LastWord ==
  fuel = 0 =>
    \/ st.answered
    \/ pc \in {"answer", "finished", "stalled"}
    \/ pc \in {"decide", "halted"} /\ rep.answered

IInv == TypeOK /\ BookInv(book) /\ EditAfterRead /\ LowRun /\ TargetInv /\ LastWord

-----------------------------------------------------------------------------
(***************************************************************************)
(* The book's operations keep its invariant.                               *)
(***************************************************************************)

\* The empty book a run starts with.
LEMMA NewBook == BookInv(BookNew) /\ BookNew.low = 0
BY NoFileIsNoFile DEF BookInv, BookNew, BookType, Marked

\* Breaking the miss run, and adding to it.
LEMMA ActedKeeps ==
  ASSUME NEW bk, BookInv(bk)
  PROVE  /\ BookInv(BookActed(bk))
         /\ BookActed(bk).low = bk.low
         /\ BookActed(bk).read_once = bk.read_once
         /\ BookActed(bk).next = bk.next
BY DEF BookInv, BookType, BookActed, Marked

\* Adding to the miss run.
LEMMA MissedKeeps ==
  ASSUME NEW bk, BookInv(bk)
  PROVE  /\ BookInv(BookMissed(bk))
         /\ BookMissed(bk).low = bk.low
         /\ BookMissed(bk).read_once = bk.read_once
BY DEF BookInv, BookType, BookMissed, Marked

\* A declined pick, which only a book that has read can record.
LEMMA DeclinedKeeps ==
  ASSUME NEW bk, BookInv(bk), bk.read_once
  PROVE  /\ BookInv(BookDeclined(bk))
         /\ BookDeclined(bk).low = bk.low
         /\ BookDeclined(bk).read_once
<1> DEFINE new == BookDeclined(bk)
<1>0. bk.skips \in Nat /\ bk.skips + 1 \in Nat
  BY DEF BookInv, BookType
<1>1. new \in BookType
  BY <1>0 DEF BookInv, BookType, BookDeclined
<1>2. /\ new.want = bk.want /\ new.met = bk.met /\ new.next = bk.next
      /\ new.read_once = bk.read_once /\ new.low = bk.low
  BY DEF BookInv, BookType, BookDeclined
<1> QED
  BY <1>1, <1>2 DEF BookInv, Marked

\* The first read.
LEMMA Phase0Keeps ==
  ASSUME NEW bk, BookInv(bk)
  PROVE  /\ BookInv(BookPhase0(bk))
         /\ BookPhase0(bk).low = bk.low
         /\ BookPhase0(bk).read_once
BY DEF BookInv, BookType, BookPhase0, Marked

\* A refused edit: its file has no cursor yet.
LEMMA WantKeeps ==
  ASSUME NEW bk, NEW f \in Files, BookInv(bk), bk.read_once, ~Marked(bk, f)
  PROVE  /\ BookInv(BookWant(bk, f))
         /\ BookWant(bk, f).low = bk.low
         /\ BookWant(bk, f).read_once
BY NoFileIsNoFile DEF BookInv, BookType, BookWant, Marked

\* The tally moves nothing but the run it counts.
LEMMA TallyKeeps ==
  ASSUME NEW bk, NEW r \in BOOLEAN, BookInv(bk)
  PROVE  /\ BookInv(BookTally(bk, r))
         /\ BookTally(bk, r).low = IF r THEN bk.low + 1 ELSE 0
         /\ BookTally(bk, r).read_once = bk.read_once
BY DEF BookInv, BookType, BookTally, Marked

\* A cursor put for f marks f, keeps every other cursor, and turns a want
\* that names f into the met record.
LEMMA PutKeeps ==
  ASSUME NEW bk, NEW f \in Files, NEW page \in Nat \ {0}, NEW done \in BOOLEAN,
         BookInv(bk)
  PROVE  LET put == RdPut(bk, f, page, done)
         IN  /\ BookInv(put)
             /\ put.low = bk.low /\ put.read_once = bk.read_once
             /\ put.skips = bk.skips
             /\ Marked(put, f)
             /\ \A g \in Files \ {f} : Marked(put, g) <=> Marked(bk, g)
             /\ bk.want = f => put.met = f
<1> DEFINE put == RdPut(bk, f, page, done)
<1>1. put \in BookType
  BY DEF BookInv, BookType, RdPut
<1>2. /\ put.low = bk.low /\ put.read_once = bk.read_once /\ put.skips = bk.skips
      /\ put.next = [bk.next EXCEPT ![f] = page]
      /\ put.want = IF bk.want = f THEN NoFile ELSE bk.want
      /\ put.met = IF bk.want = f THEN f ELSE bk.met
  BY DEF BookInv, BookType, RdPut
<1>3. put.next[f] = page /\ \A g \in Files \ {f} : put.next[g] = bk.next[g]
  BY <1>2 DEF BookInv, BookType
<1>4. put.want # NoFile => put.met = NoFile /\ ~Marked(put, put.want) /\ put.read_once
  BY <1>2, <1>3 DEF BookInv, BookType, Marked
<1>5. put.met # NoFile => Marked(put, put.met)
  BY <1>2, <1>3 DEF BookInv, BookType, Marked
<1> QED
  BY <1>1, <1>2, <1>3, <1>4, <1>5, NoFileIsNoFile DEF BookInv, Marked

\* What a read adds to a cursor put: both runs end, and something was read.
LEMMA ReadResets ==
  ASSUME NEW put, BookInv(put)
  PROVE  LET served == [put EXCEPT !.misses = 0, !.skips = 0, !.read_once = TRUE]
         IN  /\ BookInv(served)
             /\ served.low = put.low /\ served.read_once
             /\ served.met = put.met
             /\ \A g : Marked(served, g) <=> Marked(put, g)
<1> DEFINE served == [put EXCEPT !.misses = 0, !.skips = 0, !.read_once = TRUE]
<1>1. put \in BookType
  BY DEF BookInv
<1>2. served \in BookType
  BY <1>1 DEF BookType
<1>3. /\ served.want = put.want /\ served.met = put.met /\ served.next = put.next
      /\ served.low = put.low /\ served.skips = 0 /\ served.read_once = TRUE
  BY <1>1 DEF BookType
<1> QED
  BY <1>2, <1>3 DEF BookInv, Marked

\* A served page is a cursor put by a read.
LEMMA ServedKeeps ==
  ASSUME NEW bk, NEW f \in Files, NEW page \in Nat \ {0}, NEW done \in BOOLEAN,
         BookInv(bk)
  PROVE  LET served == BookServed(bk, f, page, done)
         IN  /\ BookInv(served)
             /\ served.low = bk.low /\ served.read_once
             /\ Marked(served, f)
             /\ \A g \in Files \ {f} : Marked(served, g) <=> Marked(bk, g)
             /\ bk.want = f => served.met = f
<1> DEFINE put == RdPut(bk, f, page, done)
<1>1. /\ BookInv(put) /\ put.low = bk.low /\ Marked(put, f)
      /\ \A g \in Files \ {f} : Marked(put, g) <=> Marked(bk, g)
      /\ bk.want = f => put.met = f
  BY PutKeeps
<1>2. BookServed(bk, f, page, done)
        = [put EXCEPT !.misses = 0, !.skips = 0, !.read_once = TRUE]
  BY DEF BookServed
<1> HIDE DEF put
<1> DEFINE served == [put EXCEPT !.misses = 0, !.skips = 0, !.read_once = TRUE]
<1>3. /\ BookInv(served)
      /\ served.low = put.low /\ served.read_once
      /\ served.met = put.met
      /\ \A g : Marked(served, g) <=> Marked(put, g)
  <2>1. BookInv(put)
    BY <1>1
  <2> QED
    BY <2>1, ReadResets
<1>4. BookServed(bk, f, page, done) = served
  BY <1>2
<1> HIDE DEF served
<1> QED
  BY <1>1, <1>3, <1>4

\* One page of a file, whichever page it is.
LEMMA ServeKeeps ==
  ASSUME NEW f \in Files, BookInv(book)
  PROVE  /\ BookInv(Serve(f))
         /\ Serve(f).low = book.low /\ Serve(f).read_once
         /\ Marked(Serve(f), f)
         /\ \A g \in Files \ {f} : Marked(Serve(f), g) <=> Marked(book, g)
         /\ book.want = f => Serve(f).met = f
<1> DEFINE page == RdNext(book, f)
<1>1. page \in Nat \ {0} /\ page + 1 \in Nat \ {0}
  BY DEF BookInv, BookType, RdNext, Marked
<1>2. PICK p \in Nat \ {0}, done \in BOOLEAN : Serve(f) = BookServed(book, f, p, done)
  BY <1>1, Zenon DEF Serve
<1>3. /\ BookInv(BookServed(book, f, p, done))
      /\ BookServed(book, f, p, done).low = book.low
      /\ BookServed(book, f, p, done).read_once
      /\ Marked(BookServed(book, f, p, done), f)
      /\ \A g \in Files \ {f} : Marked(BookServed(book, f, p, done), g) <=> Marked(book, g)
      /\ book.want = f => BookServed(book, f, p, done).met = f
  BY ServedKeeps
<1> QED
  BY <1>2, <1>3, Zenon

\* A file the edit read in full.
LEMMA ExhaustKeeps ==
  ASSUME NEW f \in Files, BookInv(book)
  PROVE  LET read == BookExhaust(book, f, Pages[f] + 1)
         IN  /\ BookInv(read)
             /\ read.low = book.low /\ read.read_once = book.read_once
             /\ Marked(read, f)
             /\ \A g \in Files \ {f} : Marked(read, g) <=> Marked(book, g)
<1> DEFINE page == Pages[f] + 1
<1>1. page \in Nat \ {0}
  BY PagesAreCounts
<1>2. PICK done \in BOOLEAN : BookExhaust(book, f, page) = BookActed(RdPut(book, f, page, done))
  BY Zenon DEF BookExhaust, BookActed
<1> DEFINE put == RdPut(book, f, page, done)
<1> HIDE DEF page
<1>3. /\ BookInv(put)
      /\ put.low = book.low /\ put.read_once = book.read_once
      /\ Marked(put, f)
      /\ \A g \in Files \ {f} : Marked(put, g) <=> Marked(book, g)
  BY <1>1, PutKeeps
<1> HIDE DEF put
<1>4. BookExhaust(book, f, Pages[f] + 1) = BookActed(put)
  BY <1>2 DEF put, page
<1>5. /\ BookInv(BookActed(put))
      /\ BookActed(put).low = put.low /\ BookActed(put).read_once = put.read_once
      /\ \A g : Marked(BookActed(put), g) <=> Marked(put, g)
  BY <1>3 DEF BookInv, BookType, BookActed, Marked
<1> QED
  BY <1>3, <1>4, <1>5

-----------------------------------------------------------------------------
(***************************************************************************)
(* The table.  Answers are taken one row at a time; what the loop relies   *)
(* on is which kinds of route an answer can get.                           *)
(***************************************************************************)

\* A route that acts or confirms carries the answer's own action.
LEMMA RouteCarriesAction ==
  ASSUME NEW x, NEW f
  PROVE  /\ Route(x, f).kind \in {"act", "reread", "skip", "confirm", "stop"}
         /\ Route(x, f).kind \in {"act", "confirm"} =>
              Route(x, f).action = x.action /\ x.action \in Actions
BY DEF Route, RouteGate, FloorOut, PlanGate, Act, Reread, Skip, Confirm, Stop, FloorActs

\* An edit is only acted on over a read, or over a spent floor.
LEMMA EditRoute ==
  ASSUME NEW x, NEW f, Route(x, f).kind = "act", x.action = "apply_edit"
  PROVE  f.spent \/ ~f.unread
BY DEF Route, RouteGate, FloorOut, PlanGate, Act, Reread, Skip, Confirm, Stop, BlindEdit,
       FloorActs

\* A done is only acted on when nothing is owed.
LEMMA DoneRoute ==
  ASSUME NEW x, NEW f, Route(x, f).kind = "act", x.action = "task_complete"
  PROVE  ~f.owed
BY DEF Route, RouteGate, FloorOut, PlanGate, Act, Reread, Skip, Confirm, Stop, Unfinished,
       FloorActs

\* What the tally counts, the table sends to a read.
LEMMA RerouteRoute ==
  ASSUME NEW x, NEW f, Rerouted(x, f.spent, f.failed, f.met)
  PROVE  Route(x, f).kind \in {"reread", "skip"}
BY DEF Route, RouteGate, FloorOut, PlanGate, Act, Reread, Skip, Confirm, Stop, Rerouted,
       AnswerUnder, Under, ReadDead, FloorActs, Actions

\* Where a route takes the step.
LEMMA LandStage ==
  ASSUME NEW route, NEW forced \in BOOLEAN, NEW s, NEW bk,
         route.kind \in {"act", "reread", "skip", "confirm", "stop"},
         route.kind \in {"act", "confirm"} => route.action \in Actions
  PROVE  LET stage == Land(route, forced, s, bk)
         IN  /\ stage \in Handlers \union {"finished", "stalled"}
             /\ forced => stage \in {"answer", "finished", "stalled"}
             /\ route.kind \in {"reread", "skip"} =>
                  stage = IF forced THEN "answer" ELSE RerouteStage(bk)
             /\ stage = "edit" => route.kind = "act" /\ route.action = "apply_edit"
             /\ stage = "plan" => route.kind = "act" /\ route.action = "plan"
             /\ stage = "finished" /\ ~forced =>
                  route.kind = "act" /\ route.action = "task_complete"
             /\ stage = "finished" => Broken(s) = NoFile
<1> DEFINE stage == Land(route, forced, s, bk)
<1>1. Finish(s) \in {"finished", "stalled"} /\ (Finish(s) = "finished" => Broken(s) = NoFile)
  BY DEF Finish
<1>2. CASE route.kind = "stop"
  <2>1. stage = "stalled"
    BY <1>2 DEF Land
  <2> QED
    BY <1>2, <2>1 DEF Handlers
<1>3. CASE route.kind \in {"act", "confirm"} /\ forced
  <2>1. stage = ForcedStage(route.action, s)
    BY <1>3 DEF Land
  <2>2. stage \in {"answer", "finished", "stalled"} /\ (stage = "finished" => Broken(s) = NoFile)
    BY <1>1, <2>1 DEF ForcedStage
  <2> QED
    BY <1>3, <2>2 DEF Handlers
<1>4. CASE route.kind \in {"reread", "skip"} /\ forced
  <2>1. stage = "answer"
    BY <1>4 DEF Land
  <2> QED
    BY <1>4, <2>1 DEF Handlers
<1>5. CASE route.kind = "act" /\ ~forced
  <2>1. stage = Handler(route.action, s)
    BY <1>5 DEF Land
  <2>2. /\ stage \in Handlers \union {"finished", "stalled"}
        /\ stage = "edit" => route.action = "apply_edit"
        /\ stage = "plan" => route.action = "plan"
        /\ stage = "finished" => route.action = "task_complete" /\ Broken(s) = NoFile
    BY <1>1, <1>5, <2>1 DEF Handler, Handlers, Actions
  <2> QED
    BY <1>5, <2>2
<1>6. CASE route.kind \in {"reread", "skip", "confirm"} /\ ~forced
  <2>1. stage = RerouteStage(bk)
    BY <1>6 DEF Land
  <2>2. stage \in {"read", "search"}
    BY <2>1 DEF RerouteStage
  <2> QED
    BY <1>6, <2>1, <2>2 DEF Handlers
<1> QED
  BY <1>2, <1>3, <1>4, <1>5, <1>6

\* Where an answer takes the step.
LEMMA DecisionStage ==
  ASSUME NEW x, NEW f, NEW s, NEW bk, NEW rest
  PROVE  LET d == Decision(x, f, s, bk, rest)
             r == Rerouted(x, f.spent, f.failed, f.met)
         IN  /\ d.book = BookTally(bk, r)
             /\ d.stage \in Handlers \union {"finished", "stalled"}
             /\ ForcedWindow(s, rest) => d.stage \in {"answer", "finished", "stalled"}
             /\ BookFlailing(bk, r) => d.stage = "stalled"
             /\ r /\ ~BookFlailing(bk, r) =>
                  d.stage = IF ForcedWindow(s, rest) THEN "answer" ELSE RerouteStage(bk)
             /\ d.stage = "edit" => f.spent \/ ~f.unread
             /\ d.stage = "plan" => x.action = "plan"
             /\ d.stage = "finished" => Broken(s) = NoFile
             /\ d.stage = "finished" /\ ~ForcedWindow(s, rest) => ~f.owed
<1> DEFINE r == Rerouted(x, f.spent, f.failed, f.met)
           route == Route(x, f)
           forced == ForcedWindow(s, rest)
           d == Decision(x, f, s, bk, rest)
<1>1. d.book = BookTally(bk, r)
      /\ d.stage = IF BookFlailing(bk, r) THEN "stalled" ELSE Land(route, forced, s, bk)
  BY DEF Decision
<1>2. forced \in BOOLEAN
  BY DEF ForcedWindow
<1>3. /\ route.kind \in {"act", "reread", "skip", "confirm", "stop"}
      /\ route.kind \in {"act", "confirm"} => route.action = x.action /\ x.action \in Actions
  BY RouteCarriesAction
<1>4. /\ route.kind = "act" /\ x.action = "apply_edit" => f.spent \/ ~f.unread
      /\ route.kind = "act" /\ x.action = "task_complete" => ~f.owed
      /\ r => route.kind \in {"reread", "skip"}
  BY EditRoute, DoneRoute, RerouteRoute
<1>5. CASE BookFlailing(bk, r)
  <2>1. d.stage = "stalled"
    BY <1>1, <1>5
  <2> QED
    BY <1>1, <1>5, <2>1
<1>6. CASE ~BookFlailing(bk, r)
  <2> DEFINE stage == Land(route, forced, s, bk)
  <2>1. d.stage = stage
    BY <1>1, <1>6
  <2>2. /\ stage \in Handlers \union {"finished", "stalled"}
        /\ forced => stage \in {"answer", "finished", "stalled"}
        /\ route.kind \in {"reread", "skip"} =>
             stage = IF forced THEN "answer" ELSE RerouteStage(bk)
        /\ stage = "edit" => route.kind = "act" /\ route.action = "apply_edit"
        /\ stage = "plan" => route.kind = "act" /\ route.action = "plan"
        /\ stage = "finished" /\ ~forced =>
             route.kind = "act" /\ route.action = "task_complete"
        /\ stage = "finished" => Broken(s) = NoFile
    BY <1>2, <1>3, LandStage
  <2> HIDE DEF stage, route, forced, r
  <2>3. /\ stage = "edit" => f.spent \/ ~f.unread
        /\ stage = "plan" => x.action = "plan"
        /\ stage = "finished" /\ ~forced => ~f.owed
    BY <1>3, <1>4, <2>2
  <2>4. r => stage = IF forced THEN "answer" ELSE RerouteStage(bk)
    BY <1>4, <2>2
  <2> QED
    BY <1>1, <1>6, <2>1, <2>2, <2>3, <2>4 DEF stage, route, forced, r
<1> QED
  BY <1>5, <1>6

-----------------------------------------------------------------------------
(***************************************************************************)
(* The state and the reports.                                              *)
(***************************************************************************)

\* A reply of the planner is a worklist.
LEMMA ParseType ==
  ASSUME NEW reply \in Seq(SUBSET Files)
  PROVE  Parse(reply) \in Seq(Items(Files))
<1>1. /\ DOMAIN reply = 1..Len(reply) /\ Len(reply) \in Nat
      /\ \A i \in 1..Len(reply) : reply[i] \in SUBSET Files
  OBVIOUS
<1>2. \A i \in 1..Len(reply) : [names |-> reply[i], done |-> FALSE] \in Items(Files)
  BY <1>1 DEF Items
<1> QED
  BY <1>1, <1>2 DEF Parse

\* Checking items off leaves a worklist.
LEMMA MarkType ==
  ASSUME NEW plan \in Seq(Items(Files)), NEW changed
  PROVE  Mark(plan, changed) \in Seq(Items(Files))
<1>1. /\ DOMAIN plan = 1..Len(plan) /\ Len(plan) \in Nat
      /\ \A i \in 1..Len(plan) : plan[i] \in Items(Files)
  OBVIOUS
<1>2. \A i \in 1..Len(plan) :
        [plan[i] EXCEPT !.done = @ \/ plan[i].names \intersect changed # {}] \in Items(Files)
  BY <1>1 DEF Items
<1> QED
  BY <1>1, <1>2 DEF Mark

\* Folding a report leaves a state.
LEMMA ApplyReportType ==
  ASSUME NEW s \in StateType, NEW r \in ReportType
  PROVE  /\ ApplyReport(s, r) \in StateType
         /\ ApplyReport(s, r).answered = (s.answered \/ r.answered)
         /\ ApplyReport(s, r).plan
              = IF r.planned THEN r.plan ELSE Mark(s.plan, Maybe(r.path, NoFile))
<1>1. /\ (IF r.verify = "unknown" THEN s.verif ELSE r.verify) \in Verdicts
      /\ s.changed \union Maybe(r.path, NoFile) \in SUBSET Files
      /\ (IF r.path = NoFile THEN s.last ELSE r.path) \in Files \union {NoFile}
      /\ s.searched \union Maybe(r.pattern, NoPattern) \in SUBSET Patterns
  BY DEF StateType, ReportType, Maybe
<1>2. (IF r.planned THEN r.plan ELSE Mark(s.plan, Maybe(r.path, NoFile))) \in Seq(Items(Files))
  BY MarkType DEF StateType, ReportType
<1>3. (s.answered \/ r.answered) \in BOOLEAN
  OBVIOUS
<1> QED
  BY <1>1, <1>2, <1>3 DEF ApplyReport, StateType

\* The reports the handlers make.
LEMMA ReportTypes ==
  /\ RepEmpty \in ReportType /\ ~RepEmpty.answered
  /\ \A v \in Verdicts : RepVerify(v) \in ReportType
  /\ \A v \in Verdicts, f \in Files : RepEdited(v, f) \in ReportType
  /\ \A plan \in Seq(Items(Files)) : RepPlanned(plan) \in ReportType
  /\ [RepEmpty EXCEPT !.answered = TRUE] \in ReportType
  /\ [RepEmpty EXCEPT !.answered = TRUE].answered
  /\ \A p \in Patterns : [RepEmpty EXCEPT !.pattern = p] \in ReportType
<1>1. << >> \in Seq(Items(Files))
  OBVIOUS
<1> QED
  BY <1>1 DEF RepEmpty, RepVerify, RepEdited, RepPlanned, ReportType, Verdicts

\* The broken path, when there is one, is a file.
LEMMA BrokenType ==
  ASSUME NEW s \in StateType
  PROVE  Broken(s) \in Files \union {NoFile}
BY DEF StateType, Broken

-----------------------------------------------------------------------------
(***************************************************************************)
(* The invariant holds at the start and every step keeps it.               *)
(***************************************************************************)
\* The invariant holds at the start: nothing was read, wanted or counted.
LEMMA InitInv == Init => IInv
<1> SUFFICES ASSUME Init
             PROVE  IInv
  OBVIOUS
<1>1. /\ pc = "decide" /\ fuel = MaxSteps /\ st = StateNew /\ book = BookNew
      /\ rep = RepEmpty /\ target = NoFile /\ disk \in InitDisk
  BY DEF Init
<1>2. BookInv(book) /\ book.low = 0
  BY <1>1, NewBook
<1>3. st \in StateType
  <2>1. << >> \in Seq(Items(Files))
    OBVIOUS
  <2> QED
    BY <1>1, <2>1, SniffedPatterns DEF StateNew, StateType, Verdicts
<1>4. TypeOK
  BY <1>1, <1>2, <1>3, ReportTypes, FuelIsPositive, DisksAreContents DEF TypeOK, PcType, BookInv
<1>5. EditAfterRead /\ LowRun /\ TargetInv /\ LastWord
  BY <1>1, <1>2, FuelIsPositive
  DEF EditAfterRead, EditStages, LowRun, FloorReads, TargetInv, LastWord
<1> QED
  BY <1>2, <1>4, <1>5 DEF IInv

\* A handler that ends its step with a report.
LEMMA ReportKeeps ==
  ASSUME IInv, NEW r \in ReportType, NEW bk, BookInv(bk), bk.low = book.low,
         pc # "stalled",
         \/ bk.low = 0
         \/ bk.read_once
         \/ bk.low = 1 /\ fuel <= 1 /\ (st.answered \/ r.answered),
         fuel = 0 => st.answered \/ r.answered,
         pc' = "decide", rep' = r, book' = bk, target' \in Files \union {NoFile},
         UNCHANGED <<fuel, st>>, UNCHANGED disk \/ disk' \in [Files -> Contents]
  PROVE  IInv'
<1>1. TypeOK'
  BY DEF IInv, TypeOK, PcType, BookInv
<1>2. BookInv(book)'
  BY DEF BookInv, Marked
<1>3. EditAfterRead' /\ TargetInv'
  BY DEF EditAfterRead, EditStages, TargetInv
<1>4. LowRun'
  BY DEF IInv, LowRun, FloorReads
<1>5. LastWord'
  BY DEF LastWord
<1> QED
  BY <1>1, <1>2, <1>3, <1>4, <1>5 DEF IInv

\* An edit that goes on to its next stage.
LEMMA StageKeeps ==
  ASSUME IInv, pc \in EditStages, NEW next \in EditStages, NEW bk, NEW f \in Files \union {NoFile},
         Stage(next, bk, f), BookInv(bk), bk.low = book.low, bk.read_once,
         next \in {"apply", "check", "verify"} => f \in Files,
         next = "apply" => disk[f].kind = "absent" \/ Marked(bk, f)
  PROVE  IInv'
<1>0. pc' = next /\ book' = bk /\ target' = f /\ UNCHANGED <<fuel, st, rep, disk>>
  BY DEF Stage
<1>1. TypeOK'
  BY <1>0 DEF IInv, TypeOK, PcType, BookInv
<1>2. BookInv(book)'
  BY <1>0 DEF BookInv, Marked
<1>3. EditAfterRead'
  BY <1>0 DEF EditAfterRead
<1>4. TargetInv'
  BY <1>0 DEF TargetInv, Marked
<1>5. LowRun'
  BY <1>0 DEF IInv, LowRun, FloorReads, EditStages
<1>6. LastWord'
  BY <1>0 DEF IInv, LastWord, EditStages
<1> QED
  BY <1>1, <1>2, <1>3, <1>4, <1>5, <1>6 DEF IInv

\* What a stage that handles a request may assume of the low run and the fuel.
LEMMA HandlerFacts ==
  ASSUME IInv, pc \in {"search", "build", "plan"} \union EditStages
  PROVE  /\ book.low = 0 \/ book.read_once
         /\ fuel = 0 => st.answered
         /\ BookInv(book)
BY DEF IInv, LowRun, LastWord, EditStages

\* The first read: it marks no file, and something has been read.
LEMMA ReadFirstKeeps == IInv /\ ReadFirst => IInv'
<1> SUFFICES ASSUME IInv, ReadFirst
             PROVE  IInv'
  OBVIOUS
<1>1. BookInv(BookPhase0(book)) /\ BookPhase0(book).low = book.low /\ BookPhase0(book).read_once
  BY Phase0Keeps DEF IInv
<1>2. fuel = 0 => st.answered
  BY DEF IInv, LastWord, ReadFirst
<1> QED
  BY <1>1, <1>2, ReportTypes, ReportKeeps DEF ReadFirst, Report, IInv, TypeOK

\* The read a refused edit asked for: the want becomes met.
LEMMA ReadWantedKeeps == IInv /\ ReadWanted => IInv'
<1> SUFFICES ASSUME IInv, ReadWanted
             PROVE  IInv'
  OBVIOUS
<1>1. book.want \in Files
  BY DEF IInv, BookInv, BookType, ReadWanted
<1>2. BookInv(Serve(book.want)) /\ Serve(book.want).low = book.low /\ Serve(book.want).read_once
  BY <1>1, ServeKeeps DEF IInv
<1>3. fuel = 0 => st.answered
  BY DEF IInv, LastWord, ReadWanted
<1> QED
  BY <1>2, <1>3, ReportTypes, ReportKeeps DEF ReadWanted, Report, IInv, TypeOK

\* The picked read: declined, gone from the tree, or one page served.
LEMMA ReadPickedKeeps == IInv /\ ReadPicked => IInv'
<1> SUFFICES ASSUME IInv, ReadPicked
             PROVE  IInv'
  OBVIOUS
<1>1. BookInv(book) /\ book.read_once /\ (fuel = 0 => st.answered)
  BY DEF IInv, LastWord, ReadPicked
<1>2. PICK bk : /\ Report(RepEmpty, bk)
                /\ BookInv(bk) /\ bk.low = book.low /\ bk.read_once
  <2>1. CASE Report(RepEmpty, BookDeclined(book))
    BY <1>1, <2>1, DeclinedKeeps
  <2>2. CASE \E f \in Tracked \ book.done :
               Report(RepEmpty, IF disk[f].kind = "absent" THEN BookActed(book) ELSE Serve(f))
    <3>1. PICK f \in Tracked \ book.done :
                 Report(RepEmpty, IF disk[f].kind = "absent" THEN BookActed(book) ELSE Serve(f))
      BY <2>2
    <3>2. f \in Files
      BY TrackedAreFiles
    <3>3. CASE disk[f].kind = "absent"
      BY <1>1, <3>1, <3>3, ActedKeeps
    <3>4. CASE disk[f].kind # "absent"
      BY <1>1, <3>1, <3>2, <3>4, ServeKeeps
    <3> QED
      BY <3>3, <3>4
  <2> QED
    BY <2>1, <2>2 DEF ReadPicked
<1> QED
  BY <1>1, <1>2, ReportTypes, ReportKeeps DEF ReadPicked, Report, IInv, TypeOK

\* A search, run or skipped as a duplicate.
LEMMA SearchKeeps == IInv /\ SearchCode => IInv'
<1> SUFFICES ASSUME IInv, SearchCode
             PROVE  IInv'
  OBVIOUS
<1>0. pc = "search"
  BY DEF SearchCode
<1>1. /\ book.low = 0 \/ book.read_once
      /\ fuel = 0 => st.answered
      /\ BookInv(book)
  BY <1>0, HandlerFacts
<1>2. PICK r \in ReportType, bk \in {BookActed(book), BookMissed(book)} : Report(r, bk)
  BY ReportTypes DEF SearchCode
<1>3. BookInv(bk) /\ bk.low = book.low /\ bk.read_once = book.read_once
  BY <1>1, <1>2, ActedKeeps, MissedKeeps
<1> QED
  BY <1>0, <1>1, <1>2, <1>3, ReportKeeps DEF Report, IInv, TypeOK

\* The build: a verdict and a broken miss run.
LEMMA RunBuildKeeps == IInv /\ RunBuild => IInv'
<1> SUFFICES ASSUME IInv, RunBuild
             PROVE  IInv'
  OBVIOUS
<1>0. pc = "build"
  BY DEF RunBuild
<1>1. /\ book.low = 0 \/ book.read_once
      /\ fuel = 0 => st.answered
      /\ BookInv(book)
  BY <1>0, HandlerFacts
<1>2. PICK r \in ReportType : Report(r, BookActed(book))
  BY ReportTypes DEF RunBuild, Verdicts
<1>3. /\ BookInv(BookActed(book)) /\ BookActed(book).low = book.low
      /\ BookActed(book).read_once = book.read_once
  BY <1>1, ActedKeeps
<1> QED
  BY <1>0, <1>1, <1>2, <1>3, ReportKeeps DEF Report, IInv, TypeOK

\* The answer: it is what the forced window waits for.
LEMMA AnswerKeeps == IInv /\ GenerateAnswer => IInv'
<1> SUFFICES ASSUME IInv, GenerateAnswer
             PROVE  IInv'
  OBVIOUS
<1>0. pc = "answer" /\ Report([RepEmpty EXCEPT !.answered = TRUE], BookActed(book))
  BY DEF GenerateAnswer
<1>1. \/ book.low = 0
      \/ book.read_once
      \/ book.low = 1 /\ fuel <= 1
  BY <1>0 DEF IInv, LowRun
<1>2. /\ BookInv(BookActed(book)) /\ BookActed(book).low = book.low
      /\ BookActed(book).read_once = book.read_once
  BY ActedKeeps DEF IInv
<1> QED
  BY <1>0, <1>1, <1>2, ReportTypes, ReportKeeps DEF Report, IInv, TypeOK

\* The plan: its report carries a well-typed worklist.
LEMMA PlanKeeps == IInv /\ DraftPlan => IInv'
<1> SUFFICES ASSUME IInv, DraftPlan
             PROVE  IInv'
  OBVIOUS
<1>0. pc = "plan"
  BY DEF DraftPlan
<1>1. /\ book.low = 0 \/ book.read_once
      /\ fuel = 0 => st.answered
      /\ BookInv(book)
  BY <1>0, HandlerFacts
<1>2. PICK reply \in Replies : Report(RepPlanned(Parse(reply)), BookActed(book))
  BY DEF DraftPlan
<1>3. RepPlanned(Parse(reply)) \in ReportType
  BY RepliesAreLists, ParseType, ReportTypes
<1>4. /\ BookInv(BookActed(book)) /\ BookActed(book).low = book.low
      /\ BookActed(book).read_once = book.read_once
  BY <1>1, ActedKeeps
<1> QED
  BY <1>0, <1>1, <1>2, <1>3, <1>4, ReportKeeps DEF Report, IInv, TypeOK

\* Every stage of an edit runs after a read.
LEMMA EditFacts ==
  ASSUME IInv, pc \in EditStages
  PROVE  book.read_once /\ BookInv(book) /\ (fuel = 0 => st.answered)
BY HandlerFacts DEF IInv, EditAfterRead

\* The repair: the broken file gets its mark before the draft.
LEMMA RepairKeeps == IInv /\ RepairEdit => IInv'
<1> SUFFICES ASSUME IInv, RepairEdit
             PROVE  IInv'
  OBVIOUS
<1> DEFINE read == BookExhaust(book, Broken(st), Pages[Broken(st)] + 1)
<1>0. pc \in EditStages /\ "draft" \in EditStages /\ Broken(st) # NoFile
  BY DEF RepairEdit, EditStages
<1>1. book.read_once /\ BookInv(book)
  BY <1>0, EditFacts
<1>2. Broken(st) \in Files
  BY <1>0, BrokenType DEF IInv, TypeOK
<1>3. BookInv(read) /\ read.low = book.low /\ read.read_once
  BY <1>1, <1>2, ExhaustKeeps
<1>4. Stage("draft", read, NoFile)
  BY DEF RepairEdit
<1> QED
  BY <1>0, <1>3, <1>4, StageKeeps

\* The anchor: it aims at a file it has marked, or falls back to the draft.
LEMMA AnchorKeeps == IInv /\ AnchorEdit => IInv'
<1> SUFFICES ASSUME IInv, AnchorEdit
             PROVE  IInv'
  OBVIOUS
<1>0. pc \in EditStages /\ "draft" \in EditStages /\ "apply" \in EditStages
  BY DEF AnchorEdit, EditStages
<1>1. book.read_once /\ BookInv(book)
  BY <1>0, EditFacts
<1>2. CASE Stage("draft", book, NoFile)
  BY <1>0, <1>1, <1>2, StageKeeps
<1>3. ASSUME NEW f \in Tracked,
             \/ Stage("apply", BookExhaust(book, f, Pages[f] + 1), f)
             \/ Stage("draft", BookExhaust(book, f, Pages[f] + 1), NoFile)
      PROVE  IInv'
  <2> DEFINE read == BookExhaust(book, f, Pages[f] + 1)
  <2>1. f \in Files
    BY TrackedAreFiles
  <2>2. BookInv(read) /\ read.low = book.low /\ read.read_once /\ Marked(read, f)
    BY <1>1, <2>1, ExhaustKeeps
  <2>3. CASE Stage("apply", read, f)
    BY <1>0, <2>1, <2>2, <2>3, StageKeeps
  <2>4. CASE Stage("draft", read, NoFile)
    BY <1>0, <2>2, <2>4, StageKeeps
  <2> QED
    BY <1>3, <2>3, <2>4
<1> QED
  BY <1>2, <1>3 DEF AnchorEdit

\* The sentinel draft: malformed, blind, or aimed at a marked or new file.
LEMMA DraftKeeps == IInv /\ DraftEdit => IInv'
<1> SUFFICES ASSUME IInv, DraftEdit
             PROVE  IInv'
  OBVIOUS
<1>0. pc \in EditStages /\ pc = "draft" /\ "apply" \in EditStages
  BY DEF DraftEdit, EditStages
<1>1. book.read_once /\ BookInv(book) /\ (fuel = 0 => st.answered)
  BY <1>0, EditFacts
<1>2. CASE Report(RepEmpty, BookActed(book))
  <2>1. BookInv(BookActed(book)) /\ BookActed(book).low = book.low /\ BookActed(book).read_once
    BY <1>1, ActedKeeps
  <2> QED
    BY <1>0, <1>1, <1>2, <2>1, ReportTypes, ReportKeeps DEF Report, IInv, TypeOK
<1>3. ASSUME NEW f \in Files, Blind(book, disk, f), Report(RepEmpty, BookWant(book, f))
      PROVE  IInv'
  <2>1. BookInv(BookWant(book, f)) /\ BookWant(book, f).low = book.low /\ BookWant(book, f).read_once
    BY <1>1, <1>3, WantKeeps DEF Blind
  <2> QED
    BY <1>0, <1>1, <1>3, <2>1, ReportTypes, ReportKeeps DEF Report, IInv, TypeOK
<1>4. ASSUME NEW f \in Files, ~Blind(book, disk, f), Stage("apply", book, f)
      PROVE  IInv'
  BY <1>0, <1>1, <1>4, StageKeeps DEF Blind
<1> QED
  BY <1>2, <1>3, <1>4 DEF DraftEdit

\* An edit that ends its step with a verdict.
LEMMA JudgedKeeps ==
  ASSUME IInv, pc \in EditStages, NEW r \in ReportType, NEW bk \in {book, BookActed(book)},
         Judged(r, bk)
  PROVE  IInv'
<1>1. book.read_once /\ BookInv(book) /\ (fuel = 0 => st.answered)
  BY EditFacts
<1>2. BookInv(bk) /\ bk.low = book.low /\ bk.read_once
  BY <1>1, ActedKeeps
<1>3. pc # "stalled" /\ NoFile \in Files \union {NoFile}
  BY DEF EditStages
<1> QED
  BY <1>1, <1>2, <1>3, ReportKeeps DEF Judged

\* The apply: refused, or the target holds what a short write left of a draft,
\* or one of the drafts.
LEMMA ApplyKeeps == IInv /\ ApplyBlock => IInv'
<1> SUFFICES ASSUME IInv, ApplyBlock
             PROVE  IInv'
  OBVIOUS
<1>0. pc \in EditStages /\ pc = "apply"
  BY DEF ApplyBlock, EditStages
<1>1. CASE Judged(RepEmpty, BookActed(book))
  BY <1>0, <1>1, ReportTypes, JudgedKeeps
<1>2. ASSUME NEW c \in Drafts, disk' = [disk EXCEPT ![target] = c],
             pc' = IF CheckCmd THEN "check" ELSE "verify",
             UNCHANGED <<fuel, st, book, rep, target>>
      PROVE  IInv'
  <2>1. pc' \in {"check", "verify"}
    BY <1>2
  <2>2. disk' \in [Files -> Contents]
    BY <1>2, DraftsAreContents DEF IInv, TypeOK
  <2>3. TypeOK'
    BY <1>2, <2>1, <2>2 DEF IInv, TypeOK, PcType, EditStages
  <2>4. BookInv(book)' /\ EditAfterRead'
    BY <1>0, <1>2 DEF IInv, BookInv, Marked, EditAfterRead
  <2>5. LowRun' /\ LastWord' /\ TargetInv'
    BY <1>0, <1>2, <2>1 DEF IInv, LowRun, LastWord, TargetInv
  <2> QED
    BY <2>3, <2>4, <2>5 DEF IInv
<1>3. ASSUME Overwrite(target, Torn), pc' = "decide", rep' = RepEmpty,
             book' = BookActed(book), target' = NoFile, UNCHANGED <<fuel, st>>
      PROVE  IInv'
  <2>1. disk' \in [Files -> Contents]
    BY <1>3, TornAreContents DEF Overwrite, IInv, TypeOK
  <2>2. book.read_once /\ BookInv(book) /\ (fuel = 0 => st.answered)
    BY <1>0, EditFacts
  <2>3. /\ BookInv(BookActed(book)) /\ BookActed(book).low = book.low
        /\ BookActed(book).read_once
    BY <2>2, ActedKeeps
  <2> QED
    BY <1>0, <1>3, <2>1, <2>2, <2>3, ReportTypes, ReportKeeps
<1> QED
  BY <1>1, <1>2, <1>3 DEF ApplyBlock, Overwrite

\* The cheap tier: refused with a verdict, or on to the suite.
LEMMA CheckKeeps == IInv /\ CheckEdit => IInv'
<1> SUFFICES ASSUME IInv, CheckEdit
             PROVE  IInv'
  OBVIOUS
<1>0. /\ pc \in EditStages /\ "verify" \in EditStages
      /\ target \in Files /\ RepEdited("fail", target) \in ReportType
  BY ReportTypes DEF CheckEdit, EditStages, IInv, TargetInv, Verdicts
<1>1. CASE Judged(RepEdited("fail", target), BookActed(book))
  BY <1>0, <1>1, JudgedKeeps
<1>2. CASE Stage("verify", book, target)
  BY <1>0, <1>2, EditFacts, StageKeeps
<1> QED
  BY <1>1, <1>2 DEF CheckEdit

\* The suite: a verdict either way.
LEMMA VerifyKeeps == IInv /\ VerifyEdit => IInv'
<1> SUFFICES ASSUME IInv, VerifyEdit
             PROVE  IInv'
  OBVIOUS
<1>0. /\ pc \in EditStages /\ target \in Files
      /\ RepEdited("fail", target) \in ReportType
      /\ RepEdited("pass", target) \in ReportType
  BY ReportTypes DEF VerifyEdit, EditStages, IInv, TargetInv, Verdicts
<1>1. CASE Judged(RepEdited("fail", target), BookActed(book))
  BY <1>0, <1>1, JudgedKeeps
<1>2. CASE Judged(RepEdited("pass", target), book)
  BY <1>0, <1>2, JudgedKeeps
<1> QED
  BY <1>1, <1>2 DEF VerifyEdit

\* What a decision leads to, in the loop's own terms.
LEMMA DecideStep ==
  ASSUME IInv, Decide
  PROVE  \E x \in Answers, r \in BOOLEAN :
           /\ r = Rerouted(x, BookSpent(book), VerifyFailed(NextState), BookMet(book))
           /\ book' = BookTally(book, r)
           /\ pc' \in Handlers \union {"finished", "stalled"}
           /\ ForcedWindow(NextState, fuel - 1) => pc' \in {"answer", "finished", "stalled"}
           /\ BookFlailing(book, r) => pc' = "stalled"
           /\ r /\ ~BookFlailing(book, r) =>
                pc' = IF ForcedWindow(NextState, fuel - 1) THEN "answer" ELSE RerouteStage(book)
           /\ pc' = "edit" => BookSpent(book) \/ ~BookUnread(book)
           /\ pc' = "plan" => x.action = "plan"
           /\ pc' = "finished" => Broken(NextState) = NoFile
           /\ pc' = "finished" /\ ~ForcedWindow(NextState, fuel - 1)
                => ~PlanOpen(NextState.plan, Tracked)
<1> DEFINE s == NextState
           f == Facts(s, book)
<1>1. PICK x \in Answers : /\ book' = Decision(x, f, s, book, fuel - 1).book
                           /\ pc' = Decision(x, f, s, book, fuel - 1).stage
  BY DEF Decide, NextState
<1>2. /\ f.spent = BookSpent(book) /\ f.unread = BookUnread(book)
      /\ f.failed = VerifyFailed(s) /\ f.met = BookMet(book)
      /\ f.owed = PlanOpen(s.plan, Tracked)
  BY DEF Facts
<1> HIDE DEF f, s
<1> DEFINE r == Rerouted(x, f.spent, f.failed, f.met)
<1>3. r \in BOOLEAN
  BY DEF Rerouted
<1>4. /\ book' = BookTally(book, r)
      /\ pc' \in Handlers \union {"finished", "stalled"}
      /\ ForcedWindow(s, fuel - 1) => pc' \in {"answer", "finished", "stalled"}
      /\ BookFlailing(book, r) => pc' = "stalled"
      /\ r /\ ~BookFlailing(book, r) =>
           pc' = IF ForcedWindow(s, fuel - 1) THEN "answer" ELSE RerouteStage(book)
      /\ pc' = "edit" => f.spent \/ ~f.unread
      /\ pc' = "plan" => x.action = "plan"
      /\ pc' = "finished" => Broken(s) = NoFile
      /\ pc' = "finished" /\ ~ForcedWindow(s, fuel - 1) => ~f.owed
  BY <1>1, DecisionStage
<1>5. r = Rerouted(x, BookSpent(book), VerifyFailed(s), BookMet(book))
  BY <1>2
<1> HIDE DEF r
<1> QED
  BY <1>2, <1>3, <1>4, <1>5 DEF s

\* A decision: the low run grows by at most one, and a stage of an edit is
\* only entered over a read.
LEMMA DecideKeeps == IInv /\ Decide => IInv'
<1> SUFFICES ASSUME IInv, Decide
             PROVE  IInv'
  OBVIOUS
<1> DEFINE s == NextState
           forced == ForcedWindow(s, fuel - 1)
<1>0. /\ pc = "decide" /\ fuel > 0 /\ fuel' = fuel - 1 /\ fuel \in Nat /\ fuel' \in 0..MaxSteps
      /\ rep' = RepEmpty /\ st' = s /\ UNCHANGED <<target, disk>>
  BY FuelIsPositive DEF Decide, FuelLeft, NextState, IInv, TypeOK
<1>1. s \in StateType /\ s.answered = (st.answered \/ rep.answered)
  BY ApplyReportType DEF IInv, TypeOK, NextState
<1> HIDE DEF s
<1>2. PICK r \in BOOLEAN :
        /\ book' = BookTally(book, r)
        /\ pc' \in Handlers \union {"finished", "stalled"}
        /\ forced => pc' \in {"answer", "finished", "stalled"}
        /\ BookFlailing(book, r) => pc' = "stalled"
        /\ r /\ ~BookFlailing(book, r) =>
             pc' = IF forced THEN "answer" ELSE RerouteStage(book)
        /\ pc' = "edit" => BookSpent(book) \/ ~BookUnread(book)
  BY DecideStep DEF s
<1>3. /\ BookInv(book') /\ book'.low = (IF r THEN book.low + 1 ELSE 0)
      /\ book'.read_once = book.read_once
  BY <1>2, TallyKeeps DEF IInv
<1>4. book.low \in Nat /\ book.read_once \in BOOLEAN /\ book.low <= 2
      /\ (book.low = 0 \/ book.read_once \/ (book.low = 1 /\ fuel <= 1 /\ s.answered))
  BY <1>0, <1>1 DEF IInv, BookInv, BookType, LowRun, FloorReads
<1>5. ~book.read_once => RerouteStage(book) = "read"
  BY DEF IInv, BookInv, BookType, RerouteStage, BookReadOut, DeclinedLimit
<1>6. forced <=> fuel - 1 <= 1 /\ ~s.answered
  BY DEF ForcedWindow
<1> HIDE DEF forced
<1>7. TypeOK'
  BY <1>0, <1>1, <1>2, <1>3, ReportTypes DEF IInv, TypeOK, PcType, Ends, BookInv
<1>8. BookInv(book)'
  BY <1>3 DEF BookInv, Marked
<1>9. EditAfterRead'
  <2>1. pc' \in EditStages => pc' = "edit"
    BY <1>2 DEF EditStages, Handlers
  <2>2. BookSpent(book) => book.read_once
    BY <1>4 DEF BookSpent, FloorReads
  <2> QED
    BY <1>2, <1>3, <2>1, <2>2 DEF EditAfterRead, BookUnread
<1>10. LowRun'
  <2>1. CASE ~r
    BY <1>3, <2>1 DEF LowRun, FloorReads
  <2>2. CASE r /\ BookFlailing(book, r)
    BY <1>2, <2>2 DEF LowRun
  <2>3. CASE r /\ ~BookFlailing(book, r)
    <3>1. book'.low = book.low + 1 /\ book.low < 2
      BY <1>3, <1>4, <2>3 DEF BookFlailing, LowLimit
    <3>2. CASE book.read_once
      BY <1>3, <1>4, <3>1, <3>2 DEF LowRun, FloorReads
    <3>3. CASE ~book.read_once /\ forced
      <4>1. pc' = "answer"
        BY <1>2, <2>3, <3>3
      <4>2. fuel' <= 1 /\ ~s.answered
        BY <1>0, <1>6, <3>3
      <4>3. book.low = 0
        BY <1>4, <3>3, <4>2
      <4> QED
        BY <3>1, <4>1, <4>2, <4>3 DEF LowRun, FloorReads
    <3>4. CASE ~book.read_once /\ ~forced
      <4>1. pc' = "read"
        BY <1>2, <1>5, <2>3, <3>4
      <4> QED
        BY <1>4, <3>1, <4>1 DEF LowRun, FloorReads
    <3> QED
      BY <3>2, <3>3, <3>4
  <2> QED
    BY <2>1, <2>2, <2>3
<1>11. TargetInv'
  BY <1>2 DEF TargetInv, Handlers
<1>12. LastWord'
  BY <1>0, <1>2, <1>6 DEF LastWord
<1> QED
  BY <1>7, <1>8, <1>9, <1>10, <1>11, <1>12 DEF IInv

\* Every step of the loop, and every stutter, keeps the invariant.
LEMMA NextKeeps == IInv /\ [Next]_vars => IInv'
<1> SUFFICES ASSUME IInv, [Next]_vars
             PROVE  IInv'
  OBVIOUS
<1>1. CASE Decide
  BY <1>1, DecideKeeps
<1>2. CASE OutOfFuel
  <2>0. pc = "decide" /\ pc' = "halted" /\ UNCHANGED <<fuel, st, book, rep, target, disk>>
    BY <1>2 DEF OutOfFuel
  <2>1. TypeOK'
    BY <2>0 DEF IInv, TypeOK, PcType, Ends
  <2>2. BookInv(book)' /\ EditAfterRead' /\ TargetInv'
    BY <2>0 DEF IInv, BookInv, Marked, EditAfterRead, EditStages, TargetInv
  <2>3. LowRun' /\ LastWord'
    BY <2>0 DEF IInv, LowRun, LastWord
  <2> QED
    BY <2>1, <2>2, <2>3 DEF IInv
<1>3. CASE ReadFirst \/ ReadWanted \/ ReadPicked
  BY <1>3, ReadFirstKeeps, ReadWantedKeeps, ReadPickedKeeps
<1>4. CASE SearchCode \/ RunBuild \/ GenerateAnswer \/ DraftPlan
  BY <1>4, SearchKeeps, RunBuildKeeps, AnswerKeeps, PlanKeeps
<1>5. CASE Edit
  BY <1>5, RepairKeeps, AnchorKeeps, DraftKeeps, ApplyKeeps, CheckKeeps, VerifyKeeps DEF Edit
<1>6. CASE UNCHANGED vars
  BY <1>6 DEF vars, IInv, TypeOK, BookInv, Marked, EditAfterRead, LowRun, TargetInv, LastWord
<1> QED
  BY <1>1, <1>2, <1>3, <1>4, <1>5, <1>6 DEF Next

\* The inductive invariant holds in every reachable state.
THEOREM Invariance == Spec => []IInv
<1> QED
  BY InitInv, NextKeeps, PTL DEF Spec

-----------------------------------------------------------------------------
(***************************************************************************)
(* What follows from the invariant.                                        *)
(***************************************************************************)

\* Every variable keeps its type: pc is always a stage of the loop, the fuel
\* never leaves 0..MaxSteps, and reports and states keep their fields' types.
THEOREM TypeCorrect == Spec => []TypeOK
<1>1. IInv => TypeOK
  BY DEF IInv
<1> QED
  BY <1>1, Invariance, PTL

\* No stage of an edit is reached before something was read, although a weak
\* edit passes the blind-edit row by a spent floor.
THEOREM EditsFollowReads == Spec => []EditAfterRead
<1>1. IInv => EditAfterRead
  BY DEF IInv
<1> QED
  BY <1>1, Invariance, PTL

\* The under-floor run is at most floor_reads at a decision, and a spent one
\* has paid for a read: the forced window never spends it without one.
THEOREM FloorsBuyReads == Spec => []FloorBuysReads
<1>1. IInv => FloorBuysReads
  <2>1. IInv => book.low \in Nat
    BY DEF IInv, BookInv, BookType
  <2> QED
    BY <2>1 DEF IInv, LowRun, FloorBuysReads, BookSpent, FloorReads
<1> QED
  BY <1>1, Invariance, PTL

\* want and met never stand together, a wanted file has no cursor, a met one
\* has one, and nothing is wanted before the first read.
THEOREM WantsAreMet == Spec => []WantThenMet
<1>1. IInv => WantThenMet
  BY DEF IInv, BookInv, WantThenMet
<1> QED
  BY <1>1, Invariance, PTL

\* A run that burns all of its fuel has generated an answer, whatever Classify
\* and the handlers did on the way.
THEOREM AnswersBeforeHalt == Spec => []AnswerBeforeHalt
<1> DEFINE J == IInv /\ AnswerBeforeHalt
<1>1. Init => J
  BY InitInv DEF Init, AnswerBeforeHalt
<1>2. J /\ [Next]_vars => J'
  <2> SUFFICES ASSUME J, [Next]_vars
               PROVE  AnswerBeforeHalt'
    BY NextKeeps
  <2>1. CASE OutOfFuel
    BY <2>1 DEF OutOfFuel, IInv, LastWord, AnswerBeforeHalt
  <2>2. CASE Decide
    BY <2>2, DecideStep DEF AnswerBeforeHalt, Handlers
  <2>3. CASE ReadFirst \/ ReadWanted \/ ReadPicked \/ SearchCode \/ RunBuild \/ DraftPlan
             \/ GenerateAnswer
    BY <2>3 DEF ReadFirst, ReadWanted, ReadPicked, SearchCode, RunBuild, DraftPlan,
                GenerateAnswer, Report, AnswerBeforeHalt
  <2>4. CASE Edit
    <3>1. pc' # "halted"
      BY <2>4 DEF Edit, RepairEdit, AnchorEdit, DraftEdit, ApplyBlock, CheckEdit, VerifyEdit,
                  Stage, Judged, Report
    <3> QED
      BY <3>1 DEF AnswerBeforeHalt
  <2>5. CASE UNCHANGED vars
    BY <2>5 DEF vars, AnswerBeforeHalt
  <2> QED
    BY <2>1, <2>2, <2>3, <2>4, <2>5 DEF Next
<1> QED
  BY <1>1, <1>2, PTL DEF Spec

\* A completion accepted with more than the forced window left owes no item.
THEOREM FinishesOweNothing == Spec => []FinishOwesNothing
<1>1. Init => FinishOwesNothing
  BY DEF Init, FinishOwesNothing
<1>2. IInv /\ FinishOwesNothing /\ [Next]_vars => FinishOwesNothing'
  <2> SUFFICES ASSUME IInv, FinishOwesNothing, [Next]_vars, pc' = "finished", fuel' > 1
               PROVE  ~PlanOpen(st.plan, Tracked)'
    BY DEF FinishOwesNothing
  <2>1. CASE Decide
    <3>1. fuel \in Nat /\ fuel' = fuel - 1 /\ st' = NextState
      BY <2>1 DEF Decide, NextState, IInv, TypeOK
    <3>2. ~ForcedWindow(NextState, fuel - 1)
      BY <3>1 DEF ForcedWindow
    <3>3. ~PlanOpen(NextState.plan, Tracked)
      BY <2>1, <3>2, DecideStep
    <3> QED
      BY <3>1, <3>3 DEF PlanOpen, ItemOpen
  <2>2. CASE UNCHANGED vars
    BY <2>2 DEF vars, FinishOwesNothing, PlanOpen, ItemOpen
  <2>3. CASE ~Decide /\ ~UNCHANGED vars
    BY <2>3 DEF Next, OutOfFuel, ReadFirst, ReadWanted, ReadPicked, SearchCode, RunBuild,
                GenerateAnswer, DraftPlan, Edit, RepairEdit, AnchorEdit, DraftEdit, ApplyBlock,
                CheckEdit, VerifyEdit, Stage, Judged, Report
  <2> QED
    BY <2>1, <2>2, <2>3
<1> QED
  BY <1>1, <1>2, Invariance, PTL DEF Spec

\* Only ApplyBlock writes, and it writes a new file or one with a mark.
LEMMA WriteStep ==
  ASSUME IInv, [Next]_vars
  PROVE  \/ UNCHANGED disk
         \/ /\ pc = "apply" /\ target \in Files
            /\ disk[target].kind = "absent" \/ Marked(book, target)
            /\ Overwrite(target, Drafts \union Torn)
<1>1. CASE ApplyBlock
  BY <1>1 DEF ApplyBlock, Overwrite, Judged, IInv, TargetInv
<1>2. CASE ~ApplyBlock
  BY <1>2 DEF vars, Next, Decide, OutOfFuel, ReadFirst, ReadWanted, ReadPicked, SearchCode,
              RunBuild, GenerateAnswer, DraftPlan, Edit, RepairEdit, AnchorEdit, DraftEdit,
              CheckEdit, VerifyEdit, Stage, Judged, Report
<1> QED
  BY <1>1, <1>2

\* No file that exists is changed unless its text was read in this run: the
\* repair and the anchor, which skip apply_guarded's refusal, read it first.
THEOREM NoBlindWrites == Spec => NoBlindWrite
<1>1. IInv /\ [Next]_vars =>
        [\A f \in Files : disk'[f] # disk[f] => disk[f].kind = "absent" \/ Marked(book, f)]_vars
  <2> SUFFICES ASSUME IInv, [Next]_vars, NEW f \in Files, disk'[f] # disk[f]
               PROVE  disk[f].kind = "absent" \/ Marked(book, f)
    OBVIOUS
  <2>1. PICK c \in Drafts \union Torn :
          /\ disk[target].kind = "absent" \/ Marked(book, target)
          /\ disk' = [disk EXCEPT ![target] = c]
    BY WriteStep DEF Overwrite
  <2>2. f = target
    BY <2>1 DEF IInv, TypeOK
  <2> QED
    BY <2>1, <2>2
<1> QED
  BY <1>1, Invariance, PTL DEF Spec, NoBlindWrite

\* The read after a refused edit is the read it asked for.
THEOREM ReadsServeWants == Spec => ReadServesWant
<1>1. IInv /\ [Next]_vars =>
        [pc = "read" /\ book.want # NoFile =>
           Marked(book', book.want) /\ book'.met = book.want]_vars
  <2> SUFFICES ASSUME IInv, [Next]_vars, vars' # vars, pc = "read", book.want # NoFile
               PROVE  Marked(book', book.want) /\ book'.met = book.want
    OBVIOUS
  <2>1. book.read_once /\ book.want \in Files
    BY DEF IInv, BookInv, BookType
  <2>2. ReadWanted
    BY <2>1 DEF vars, Next, Decide, OutOfFuel, ReadFirst, ReadPicked, SearchCode, RunBuild,
                GenerateAnswer, DraftPlan, Edit, RepairEdit, AnchorEdit, DraftEdit, ApplyBlock,
                CheckEdit, VerifyEdit
  <2>3. book' = Serve(book.want)
    BY <2>2 DEF ReadWanted, Report
  <2> QED
    BY <2>1, <2>3, ServeKeeps DEF IInv
<1> QED
  BY <1>1, Invariance, PTL DEF Spec, ReadServesWant

-----------------------------------------------------------------------------
(***************************************************************************)
(* The tally and the table.                                                *)
(***************************************************************************)

\* The answers the table was asked for never read a dead picker.
LEMMA AskedReadsLive ==
  ASSUME NEW x \in Asked
  PROVE  ~ReadDead(x.action, Facts(NextState, book))
<1>1. x.action \in Offered \union {Unusable}
  BY DEF Asked
<1>2. CASE BookReadOut(book)
  <2>1. "read_code" \notin Offered
    BY <1>2 DEF Offered, ActionOptions
  <2> QED
    BY <1>1, <2>1 DEF ReadDead, Unusable
<1>3. CASE ~BookReadOut(book)
  BY <1>3 DEF ReadDead, Facts
<1> QED
  BY <1>2, <1>3

\* The floor rows of the table, condition by condition.
LEMMA FloorRows ==
  ASSUME NEW x, NEW f, ~ReadDead(x.action, f)
  PROVE  /\ Route(x, f).row = "floor"
              <=> x.action \in Actions /\ Under(x, f) /\ ~f.spent
         /\ Route(x, f).row = "weak_done"
              <=> x.action = "task_complete" /\ Under(x, f) /\ f.spent
         /\ Route(x, f).row # "read_dead"
BY DEF Route, RouteGate, FloorOut, PlanGate, Act, Reread, Skip, Confirm, Stop, FloorActs, Actions

\* agent_step's copy of the rules counts an answer exactly when the table takes
\* a floor row for it, in every state and for every answer it can be asked for.
THEOREM TallyMatches == Spec => []TallyMatchesTable
<1>1. TallyMatchesTable
  <2> DEFINE f == Facts(NextState, book)
  <2> SUFFICES ASSUME NEW x \in Asked
               PROVE  /\ Tallied(x, f) <=> Route(x, f).row \in {"floor", "weak_done"}
                      /\ Route(x, f).row # "read_dead"
    BY DEF TallyMatchesTable
  <2>1. ~ReadDead(x.action, f)
    BY AskedReadsLive
  <2> HIDE DEF f
  <2>2. Tallied(x, f) <=> /\ x.action \in Actions /\ Under(x, f)
                          /\ ~f.spent \/ x.action = "task_complete"
    BY DEF Tallied, Rerouted, AnswerUnder, Under, FloorActs, Actions
  <2> QED
    BY <2>1, <2>2, FloorRows DEF Actions
<1> QED
  BY <1>1, PTL

\* The flail halt is only ever a weak done said once too often, and the table's
\* row for a weak done under a spent floor is never reached without it.
THEOREM FlailsAreWeakDones == Spec => []FlailIsWeakDone
<1>1. IInv => FlailIsWeakDone
  <2> DEFINE f == Facts(NextState, book)
  <2> SUFFICES ASSUME IInv, NEW x \in Asked
               PROVE  /\ BookFlailing(book, Tallied(x, f)) => x.action = "task_complete"
                      /\ Route(x, f).row = "weak_done" => BookFlailing(book, Tallied(x, f))
    BY DEF FlailIsWeakDone
  <2>1. ~ReadDead(x.action, f)
    BY AskedReadsLive
  <2>2. book.low \in Nat /\ f.spent = (book.low >= 2)
    BY DEF IInv, BookInv, BookType, Facts, BookSpent, FloorReads
  <2> HIDE DEF f
  <2>3. BookFlailing(book, Tallied(x, f)) <=> Tallied(x, f) /\ book.low >= 2
    BY <2>2 DEF BookFlailing, LowLimit
  <2>4. Tallied(x, f) <=> /\ x.action \in Actions /\ Under(x, f)
                          /\ ~f.spent \/ x.action = "task_complete"
    BY DEF Tallied, Rerouted, AnswerUnder, Under, FloorActs, Actions
  <2> QED
    BY <2>1, <2>2, <2>3, <2>4, FloorRows DEF Actions
<1> QED
  BY <1>1, Invariance, PTL

-----------------------------------------------------------------------------
(***************************************************************************)
(* The worklist.  A plan is drafted over none, or over one of which        *)
(* nothing is checked off yet: `plan` is offered while the state before    *)
(* the fold has no plan, so the one such a draft may replace is the plan   *)
(* that same fold brought in.                                              *)
(***************************************************************************)
Fresh(plan) == \A i \in DOMAIN plan : ~plan[i].done

PlanInv ==
  /\ pc = "plan" => Fresh(st.plan)
  /\ rep.planned => Fresh(st.plan) /\ Fresh(rep.plan)

\* A decision goes on to `plan` only over a fresh plan, when Classify answers
\* no `plan` that it was not offered.
LEMMA DecideKeepsPlan ==
  ASSUME "plan" \notin Stray, IInv, PlanInv, Decide
  PROVE  PlanInv'
<1>1. st' = NextState /\ rep' = RepEmpty
  BY DEF Decide, NextState
<1>2. NextState.plan = IF rep.planned THEN rep.plan
                                      ELSE Mark(st.plan, Maybe(rep.path, NoFile))
  BY ApplyReportType DEF IInv, TypeOK, NextState
<1>3. ASSUME pc' = "plan" PROVE Fresh(NextState.plan)
  <2>1. PICK x \in Answers : x.action = "plan"
    BY <1>3, DecideStep
  <2>2. "plan" \in Offered
    BY <2>1 DEF Answers, LoopAnswers
  <2>3. st.plan = << >>
    BY <2>2 DEF Offered, ActionOptions
  <2>4. CASE rep.planned
    BY <1>2, <2>4 DEF PlanInv
  <2>5. CASE ~rep.planned
    BY <1>2, <2>3, <2>5 DEF Mark, Fresh
  <2> QED
    BY <2>4, <2>5
<1> QED
  BY <1>1, <1>3 DEF PlanInv, RepEmpty

\* The planner's report is fresh; no other handler reports a plan.
LEMMA PlanInvKeeps ==
  ASSUME "plan" \notin Stray, IInv, PlanInv, [Next]_vars
  PROVE  PlanInv'
<1>1. CASE Decide
  BY <1>1, DecideKeepsPlan
<1>2. CASE DraftPlan
  <2>1. PICK reply \in Replies : rep' = RepPlanned(Parse(reply))
    BY <1>2 DEF DraftPlan, Report
  <2>2. Fresh(Parse(reply))
    BY DEF Parse, Fresh
  <2>3. pc = "plan" /\ pc' = "decide" /\ st' = st /\ rep'.plan = Parse(reply)
    BY <1>2, <2>1 DEF DraftPlan, Report, RepPlanned, RepEmpty
  <2> QED
    BY <2>2, <2>3 DEF PlanInv
<1>3. CASE UNCHANGED vars
  BY <1>3 DEF vars, PlanInv
<1>4. CASE ~Decide /\ ~DraftPlan /\ ~UNCHANGED vars
  <2>1. CASE RunBuild
    BY <2>1 DEF RunBuild, Report, PlanInv, RepEmpty, RepVerify
  <2>2. CASE CheckEdit \/ VerifyEdit
    BY <2>2 DEF CheckEdit, VerifyEdit, Stage, Judged, PlanInv, RepEmpty, RepEdited
  <2>3. CASE ApplyBlock
    <3>1. UNCHANGED st /\ pc' # "plan" /\ (UNCHANGED rep \/ rep' = RepEmpty)
      BY <2>3 DEF ApplyBlock, Judged
    <3> QED
      BY <3>1 DEF PlanInv, RepEmpty
  <2>4. CASE SearchCode \/ GenerateAnswer
    BY <2>4 DEF SearchCode, GenerateAnswer, Report, PlanInv, RepEmpty
  <2>5. CASE OutOfFuel \/ ReadFirst \/ ReadWanted \/ ReadPicked
    BY <2>5 DEF OutOfFuel, ReadFirst, ReadWanted, ReadPicked, Report, PlanInv, RepEmpty
  <2>6. CASE RepairEdit \/ AnchorEdit \/ DraftEdit
    BY <2>6 DEF RepairEdit, AnchorEdit, DraftEdit, Report, Stage, PlanInv, RepEmpty
  <2> QED
    BY <1>4, <2>1, <2>2, <2>3, <2>4, <2>5, <2>6 DEF Next, Edit
<1> QED
  BY <1>1, <1>2, <1>3, <1>4

\* A checked-off item stays in the plan and stays checked off, although `plan`
\* is still offered one decision after a plan was drafted.
THEOREM PlansKeepProgress == "plan" \notin Stray /\ Spec => PlanKeepsProgress
<1> SUFFICES ASSUME "plan" \notin Stray
             PROVE  Spec => PlanKeepsProgress
  OBVIOUS
<1>1. Init => PlanInv
  BY DEF Init, PlanInv, StateNew, RepEmpty
<1>2. IInv /\ PlanInv /\ [Next]_vars => PlanInv'
  BY PlanInvKeeps
<1>3. IInv /\ PlanInv /\ [Next]_vars =>
        [\A i \in DOMAIN st.plan :
           st.plan[i].done => i \in DOMAIN st'.plan /\ st'.plan[i] = st.plan[i]]_vars
  <2> SUFFICES ASSUME IInv, PlanInv, [Next]_vars, NEW i \in DOMAIN st.plan, st.plan[i].done
               PROVE  i \in DOMAIN st'.plan /\ st'.plan[i] = st.plan[i]
    OBVIOUS
  <2>1. ~rep.planned
    BY DEF PlanInv, Fresh
  <2>2. CASE Decide
    <3>1. st'.plan = Mark(st.plan, Maybe(rep.path, NoFile))
      BY <2>1, <2>2, ApplyReportType DEF Decide, IInv, TypeOK
    <3>2. st.plan[i] \in Items(Files)
      BY DEF IInv, TypeOK, StateType
    <3> QED
      BY <3>1, <3>2 DEF Mark, Items
  <2>3. CASE ~Decide
    BY <2>3 DEF vars, Next, OutOfFuel, ReadFirst, ReadWanted, ReadPicked, SearchCode, RunBuild,
                GenerateAnswer, DraftPlan, Edit, RepairEdit, AnchorEdit, DraftEdit, ApplyBlock,
                CheckEdit, VerifyEdit, Stage, Judged, Report
  <2> QED
    BY <2>2, <2>3
<1> QED
  BY <1>1, <1>2, <1>3, Invariance, PTL DEF Spec, PlanKeepsProgress

-----------------------------------------------------------------------------
(***************************************************************************)
(* The loop implements GuardedRun: its initial states are initial states   *)
(* of the guarded run, and every step is one of its steps or a stutter.    *)
(***************************************************************************)

\* Reports wait only at a decision, or for good once the fuel is spent.
ReportWaits == pc \notin {"decide", "halted"} => rep = RepEmpty

\* A state with changed paths has a last one, so a failing verdict over
\* anything the run wrote names a broken file.
LastOfChanged == st.changed # {} => st.last # NoFile

RInv == IInv /\ ReportWaits /\ LastOfChanged

-----------------------------------------------------------------------------
\* What the reports carry, field by field.
LEMMA EmptyReport ==
  /\ RepEmpty.verify = "unknown" /\ RepEmpty.path = NoFile
  /\ [RepEmpty EXCEPT !.answered = TRUE].verify = "unknown"
  /\ [RepEmpty EXCEPT !.answered = TRUE].path = NoFile
  /\ \A p : [RepEmpty EXCEPT !.pattern = p].verify = "unknown"
  /\ \A p : [RepEmpty EXCEPT !.pattern = p].path = NoFile
  /\ \A plan : RepPlanned(plan).verify = "unknown" /\ RepPlanned(plan).path = NoFile
  /\ \A v : RepVerify(v).verify = v /\ RepVerify(v).path = NoFile
  /\ \A v, f : RepEdited(v, f).verify = v /\ RepEdited(v, f).path = f
BY DEF RepEmpty, RepPlanned, RepVerify, RepEdited

\* What a fold does to the verdict and to the changed paths.
LEMMA FoldedFields ==
  /\ NextState.verif = IF rep.verify = "unknown" THEN st.verif ELSE rep.verify
  /\ NextState.changed = st.changed \union Maybe(rep.path, NoFile)
  /\ NextState.last = IF rep.path = NoFile THEN st.last ELSE rep.path
BY DEF NextState, ApplyReport

\* The refinement's invariant holds at the start.
LEMMA InitRInv == Init => RInv
BY InitInv DEF Init, RInv, ReportWaits, LastOfChanged, StateNew

\* Every step keeps the refinement's invariant: a report waits at a decision
\* only, and the last changed path is on record with the changed ones.
LEMMA NextRInv == RInv /\ [Next]_vars => RInv'
<1> SUFFICES ASSUME RInv, [Next]_vars
             PROVE  ReportWaits' /\ LastOfChanged'
  BY NextKeeps DEF RInv
<1>1. CASE Decide
  <2>1. rep' = RepEmpty /\ st' = NextState
    BY <1>1 DEF Decide, NextState
  <2> QED
    BY <2>1, FoldedFields DEF RInv, ReportWaits, LastOfChanged, Maybe
<1>2. CASE OutOfFuel
  BY <1>2 DEF OutOfFuel, RInv, ReportWaits, LastOfChanged
<1>3. CASE ReadFirst \/ ReadWanted \/ ReadPicked \/ SearchCode \/ RunBuild \/ GenerateAnswer
             \/ DraftPlan
  BY <1>3 DEF ReadFirst, ReadWanted, ReadPicked, SearchCode, RunBuild, GenerateAnswer,
              DraftPlan, Report, RInv, ReportWaits, LastOfChanged
<1>4. CASE Edit
  <2>1. pc \notin {"decide", "halted"} /\ UNCHANGED st
        /\ (pc' = "decide" \/ UNCHANGED rep)
    BY <1>4 DEF Edit, RepairEdit, AnchorEdit, DraftEdit, ApplyBlock, CheckEdit, VerifyEdit,
                Stage, Judged, Report
  <2> QED
    BY <2>1 DEF RInv, ReportWaits, LastOfChanged
<1>5. CASE UNCHANGED vars
  BY <1>5 DEF vars, RInv, ReportWaits, LastOfChanged
<1> QED
  BY <1>1, <1>2, <1>3, <1>4, <1>5 DEF Next

-----------------------------------------------------------------------------
\* A handler that reports no verdict and no path learns at most one file.
LEMMA LearnStep ==
  ASSUME RInv, pc \in Handlers \union {"draft", "apply"}, NEW r, NEW seen \in {{}} \union {{f} : f \in Files},
         r.verify = "unknown", r.path = NoFile,
         pc' = "decide", rep' = r, Known' = Known \union seen, UNCHANGED <<fuel, st, disk>>
  PROVE  Guarded!Learn
<1>1. Mode = "working" /\ Mode' = "deciding"
  BY DEF Mode, Handlers
<1>2. rep = RepEmpty
  BY DEF RInv, ReportWaits, Handlers
<1>3. InFlight = {} /\ InFlight' = {}
  BY DEF InFlight, Handlers
<1>4. Touched' = Touched
  BY <1>2, <1>3, EmptyReport DEF Touched, Maybe
<1>5. NextState.verif = st.verif
  BY <1>2, EmptyReport, FoldedFields
<1>6. NextState.verif' = st.verif
  BY DEF NextState, ApplyReport
<1> QED
  BY <1>1, <1>4, <1>5, <1>6 DEF Guarded!Learn

\* So does a stage that aims the edit.
LEMMA AimStep ==
  ASSUME RInv, pc \in {"edit", "draft"}, NEW next \in {"draft", "apply"}, NEW bk, NEW f,
         NEW seen \in {{}} \union {{g} : g \in Files},
         Stage(next, bk, f), Known' = Known \union seen
  PROVE  Guarded!Learn
<1>0. pc' = next /\ UNCHANGED <<fuel, st, rep, disk>>
  BY DEF Stage
<1>1. Mode = "working" /\ Mode' = "working"
  BY <1>0 DEF Mode, Handlers
<1>2. InFlight = {} /\ InFlight' = {}
  BY <1>0 DEF InFlight
<1>3. Touched' = Touched /\ NextState.verif' = NextState.verif
  BY <1>0, <1>2 DEF Touched, NextState, ApplyReport
<1> QED
  BY <1>0, <1>1, <1>3 DEF Guarded!Learn

\* A verdict on what the run wrote, or on the tree as it is.
LEMMA JudgeStep ==
  ASSUME RInv, pc \in {"build", "check", "verify"}, NEW r, r.verify \in {"pass", "fail"},
         r.path = IF pc = "build" THEN NoFile ELSE target,
         pc' = "decide", rep' = r, Known' = Known, UNCHANGED <<fuel, st, disk>>
  PROVE  Guarded!Judge
<1>1. Mode \in {"judging", "working"} /\ Mode' = "deciding"
  BY DEF Mode, Handlers
<1>2. rep = RepEmpty
  BY DEF RInv, ReportWaits
<1>3. InFlight' = {} /\ (pc # "build" => target \in Files)
  BY DEF InFlight, RInv, IInv, TargetInv
<1>4. Touched' = Touched
  <2>1. CASE pc = "build"
    BY <1>2, <1>3, <2>1, EmptyReport DEF Touched, Maybe, InFlight
  <2>2. CASE pc # "build"
    BY <1>2, <1>3, <2>2, EmptyReport, NoFileIsNoFile DEF Touched, Maybe, InFlight
  <2> QED
    BY <2>1, <2>2
<1>5. NextState.verif' \in {"pass", "fail"}
  BY DEF NextState, ApplyReport
<1> QED
  BY <1>1, <1>4, <1>5 DEF Guarded!Judge

-----------------------------------------------------------------------------
\* The operations of the book that move no cursor.
LEMMA CursorsStay ==
  ASSUME BookInv(book), NEW f, NEW r
  PROVE  \A bk \in {BookActed(book), BookMissed(book), BookDeclined(book), BookPhase0(book),
                    BookWant(book, f), BookTally(book, r)} : bk.next = book.next
BY DEF BookInv, BookType, BookActed, BookMissed, BookDeclined, BookPhase0, BookWant, BookTally

\* One more cursor is one more known file; none is none.
LEMMA KnownGrows ==
  ASSUME NEW f \in Files, Marked(book', f),
         \A g \in Files \ {f} : Marked(book', g) <=> Marked(book, g)
  PROVE  Known' = Known \union {f}
BY DEF Known

\* A book with the same cursors knows the same files.
LEMMA KnownStays ==
  ASSUME book'.next = book.next
  PROVE  Known' = Known
BY DEF Known, Marked

\* Every read learns one file, or none, and goes back to deciding.
LEMMA ReadSteps ==
  ASSUME RInv, ReadFirst \/ ReadWanted \/ ReadPicked
  PROVE  Guarded!Learn
<1>0. /\ pc \in Handlers \union {"draft", "apply"} /\ BookInv(book)
      /\ RepEmpty.verify = "unknown" /\ RepEmpty.path = NoFile
  BY EmptyReport DEF RInv, IInv, ReadFirst, ReadWanted, ReadPicked, Handlers
<1>1. /\ pc' = "decide" /\ rep' = RepEmpty /\ UNCHANGED <<fuel, st, disk>>
      /\ \/ book' \in {BookPhase0(book), BookDeclined(book), BookActed(book)}
         \/ \E f \in Files : book' = Serve(f)
  <2>1. CASE ReadFirst
    BY <2>1 DEF ReadFirst, Report
  <2>2. CASE ReadWanted
    BY <2>2 DEF ReadWanted, Report, RInv, IInv, BookInv, BookType
  <2>3. CASE ReadPicked
    BY <2>3, TrackedAreFiles DEF ReadPicked, Report
  <2> QED
    BY <2>1, <2>2, <2>3
<1>2. PICK seen \in {{}} \union {{f} : f \in Files} : Known' = Known \union seen
  <2>1. CASE book' \in {BookPhase0(book), BookDeclined(book), BookActed(book)}
    <3>1. Known' = Known
      BY <1>0, <2>1, CursorsStay, KnownStays
    <3> QED
      BY <3>1
  <2>2. ASSUME NEW f \in Files, book' = Serve(f)
        PROVE  Known' = Known \union {f}
    BY <1>0, <2>2, ServeKeeps, KnownGrows
  <2> QED
    BY <1>1, <2>1, <2>2, ZenonT(40)
<1> QED
  BY <1>0, <1>1, <1>2, LearnStep

\* Searches, answers and plans learn nothing the run is judged by.
LEMMA HandlerSteps ==
  ASSUME RInv, SearchCode \/ GenerateAnswer \/ DraftPlan
  PROVE  Guarded!Learn
<1>1. PICK r : /\ r.verify = "unknown" /\ r.path = NoFile
               /\ pc \in Handlers /\ pc' = "decide" /\ rep' = r
               /\ book' \in {BookActed(book), BookMissed(book)}
               /\ UNCHANGED <<fuel, st, disk>>
  <2>1. CASE SearchCode
    <3>1. PICK p, r :
            /\ r \in {RepEmpty, [RepEmpty EXCEPT !.pattern = p]}
            /\ \E bk \in {BookActed(book), BookMissed(book)} : Report(r, bk)
      BY <2>1 DEF SearchCode
    <3>2. r.verify = "unknown" /\ r.path = NoFile
      BY <3>1, EmptyReport
    <3> QED
      BY <2>1, <3>1, <3>2 DEF SearchCode, Report, Handlers
  <2>2. CASE GenerateAnswer
    BY <2>2, EmptyReport DEF GenerateAnswer, Report, Handlers
  <2>3. CASE DraftPlan
    <3>1. PICK plan : Report(RepPlanned(plan), BookActed(book))
      BY <2>3 DEF DraftPlan
    <3>2. RepPlanned(plan).verify = "unknown" /\ RepPlanned(plan).path = NoFile
      BY EmptyReport
    <3> QED
      BY <2>3, <3>1, <3>2 DEF DraftPlan, Report, Handlers
  <2> QED
    BY <2>1, <2>2, <2>3
<1>2. Known' = Known \union {}
  BY <1>1, CursorsStay, KnownStays DEF RInv, IInv
<1> QED
  BY <1>1, <1>2, LearnStep

\* A build is a verdict on the tree as it is.
LEMMA BuildStep ==
  ASSUME RInv, RunBuild
  PROVE  Guarded!Judge
<1>1. PICK v \in {"pass", "fail"} :
         /\ pc = "build" /\ pc' = "decide" /\ rep' = RepVerify(v) /\ book' = BookActed(book)
         /\ UNCHANGED <<fuel, st, disk>>
  BY DEF RunBuild, Report
<1>2. Known' = Known
  BY <1>1, CursorsStay, KnownStays DEF RInv, IInv
<1> DEFINE r == RepVerify(v)
<1>3. r.verify \in {"pass", "fail"} /\ r.path = IF pc = "build" THEN NoFile ELSE target
  BY <1>1, EmptyReport
<1>4. pc = "build" /\ pc' = "decide" /\ rep' = r /\ UNCHANGED <<fuel, st, disk>>
  BY <1>1
<1> HIDE DEF r
<1> QED
  BY <1>2, <1>3, <1>4, JudgeStep

\* The repair and the anchor learn the file they read in full.
LEMMA AimSteps ==
  ASSUME RInv, RepairEdit \/ AnchorEdit
  PROVE  Guarded!Learn
<1>0. BookInv(book)
  BY DEF RInv, IInv
<1>1. CASE Stage("draft", book, NoFile) /\ pc = "edit"
  <2>1. Known' = Known \union {}
    BY <1>1, KnownStays DEF Stage
  <2> QED
    BY <1>1, <2>1, AimStep
<1>2. ASSUME NEW f \in Files, NEW next \in {"draft", "apply"}, NEW t, pc = "edit",
             Stage(next, BookExhaust(book, f, Pages[f] + 1), t)
      PROVE  Guarded!Learn
  <2>1. book' = BookExhaust(book, f, Pages[f] + 1)
    BY <1>2 DEF Stage
  <2>2. Known' = Known \union {f}
    BY <1>0, <2>1, ExhaustKeeps, KnownGrows
  <2> QED
    BY <1>2, <2>2, AimStep
<1>3. CASE RepairEdit
  <2>1. Broken(st) \in Files
    BY <1>3, BrokenType DEF RepairEdit, RInv, IInv, TypeOK
  <2> QED
    BY <1>2, <1>3, <2>1 DEF RepairEdit
<1>4. CASE AnchorEdit
  <2>1. \/ Stage("draft", book, NoFile)
        \/ \E f \in Tracked :
             \/ Stage("apply", BookExhaust(book, f, Pages[f] + 1), f)
             \/ Stage("draft", BookExhaust(book, f, Pages[f] + 1), NoFile)
    BY <1>4 DEF AnchorEdit
  <2>2. pc = "edit"
    BY <1>4 DEF AnchorEdit
  <2> QED
    BY <1>1, <1>2, <2>1, <2>2, TrackedAreFiles
<1> QED
  BY <1>3, <1>4

\* A draft is refused, or goes on with nothing learned.
LEMMA DraftSteps ==
  ASSUME RInv, DraftEdit
  PROVE  Guarded!Learn
<1>0. pc = "draft" /\ BookInv(book) /\ {} \in {{}} \union {{f} : f \in Files}
  BY DEF DraftEdit, RInv, IInv
<1>1. CASE \E f \in Files : Stage("apply", book, f)
  <2>1. Known' = Known \union {}
    BY <1>1, KnownStays DEF Stage
  <2> QED
    BY <1>0, <1>1, <2>1, AimStep
<1>2. ASSUME NEW bk, Report(RepEmpty, bk), bk.next = book.next
      PROVE  Guarded!Learn
  <2>1. Known' = Known \union {}
    BY <1>2, KnownStays DEF Report
  <2> QED
    BY <1>0, <1>2, <2>1, EmptyReport, LearnStep DEF Report
<1>3. CASE Report(RepEmpty, BookActed(book))
  BY <1>0, <1>2, <1>3, CursorsStay
<1>4. CASE \E f \in Files : Report(RepEmpty, BookWant(book, f))
  BY <1>0, <1>2, <1>4, CursorsStay
<1> QED
  BY <1>1, <1>3, <1>4 DEF DraftEdit

\* The tool refuses, or writes a file the run may write, to the end or not.
LEMMA ApplyStep ==
  ASSUME RInv, ApplyBlock
  PROVE  Guarded!Learn \/ \E f \in Files : Guarded!Write(f) \/ Guarded!Tear(f)
<1>0. pc = "apply" /\ BookInv(book) /\ target \in Files /\ rep = RepEmpty
      /\ {} \in {{}} \union {{f} : f \in Files}
  BY DEF ApplyBlock, RInv, IInv, TargetInv, ReportWaits
<1>1. CASE Judged(RepEmpty, BookActed(book))
  <2>1. BookActed(book).next = book.next
    BY <1>0, CursorsStay
  <2>2. Known' = Known \union {}
    BY <1>1, <2>1, KnownStays DEF Judged
  <2> QED
    BY <1>0, <1>1, <2>2, EmptyReport, LearnStep DEF Judged
<1>2. target \in Known \/ disk[target] = Absent
  <2>1. disk[target] \in Contents /\ (disk[target].kind = "absent" \/ Marked(book, target))
    BY <1>0 DEF RInv, IInv, TypeOK, TargetInv
  <2> QED
    BY <1>0, <2>1 DEF Contents, Known
<1>3. CASE Overwrite(target, Drafts) /\ pc' = (IF CheckCmd THEN "check" ELSE "verify")
           /\ UNCHANGED <<fuel, st, book, rep, target>>
  <2>1. Mode = "working" /\ Mode' = "judging" /\ pc' \in {"check", "verify"}
    BY <1>0, <1>3 DEF Mode, Handlers
  <2>2. \E c \in Contents \ {Absent} : disk' = [disk EXCEPT ![target] = c]
    BY <1>3, DraftsAreContents DEF Overwrite
  <2>3. Touched' = Touched \union {target}
    BY <1>0, <1>3, <2>1 DEF Touched, InFlight
  <2>4. Known' = Known /\ NextState.verif' = NextState.verif
    BY <1>3 DEF Known, Marked, NextState, ApplyReport
  <2> QED
    BY <1>0, <1>2, <1>3, <2>1, <2>2, <2>3, <2>4
    DEF Guarded!Write, Guarded!Writable, Guarded!Overwrite
<1>4. CASE /\ Overwrite(target, Torn) /\ pc' = "decide" /\ rep' = RepEmpty
           /\ book' = BookActed(book) /\ target' = NoFile /\ UNCHANGED <<fuel, st>>
  <2>1. Mode = "working" /\ Mode' = "deciding"
    BY <1>0, <1>4 DEF Mode, Handlers
  <2>2. \E c \in Contents \ {Absent} : disk' = [disk EXCEPT ![target] = c]
    BY <1>4, TornAreContents DEF Overwrite
  <2>3. Touched' = Touched
    BY <1>0, <1>4 DEF Touched, InFlight
  <2>4. Known' = Known
    BY <1>0, <1>4, CursorsStay, KnownStays
  <2>5. NextState.verif' = NextState.verif
    BY <1>0, <1>4 DEF NextState, ApplyReport
  <2> QED
    BY <1>0, <1>2, <1>4, <2>1, <2>2, <2>3, <2>4, <2>5
    DEF Guarded!Tear, Guarded!Writable, Guarded!Overwrite
<1> QED
  BY <1>0, <1>1, <1>3, <1>4 DEF ApplyBlock

\* A verdict ends the edit; passing the cheap tier is a stutter.
LEMMA VerdictSteps ==
  ASSUME RInv, CheckEdit \/ VerifyEdit
  PROVE  Guarded!Judge \/ UNCHANGED Guarded!vars
<1>0. BookInv(book) /\ pc \in {"check", "verify"}
  BY DEF RInv, IInv, CheckEdit, VerifyEdit
<1>1. ASSUME NEW v \in {"pass", "fail"}, NEW bk \in {book, BookActed(book)},
             Judged(RepEdited(v, target), bk)
      PROVE  Guarded!Judge
  <2> DEFINE r == RepEdited(v, target)
  <2>1. r.verify \in {"pass", "fail"} /\ r.path = IF pc = "build" THEN NoFile ELSE target
    BY <1>0, EmptyReport
  <2>2. bk.next = book.next
    BY <1>0, <1>1, CursorsStay
  <2>3. Known' = Known
    BY <1>1, <2>2, KnownStays DEF Judged
  <2>4. pc' = "decide" /\ rep' = r /\ UNCHANGED <<fuel, st, disk>>
    BY <1>1 DEF Judged
  <2> HIDE DEF r
  <2> QED
    BY <1>0, <2>1, <2>3, <2>4, JudgeStep
<1>2. CASE pc = "check" /\ Stage("verify", book, target)
  <2>1. pc' = "verify" /\ UNCHANGED <<fuel, st, rep, book, target, disk>>
    BY <1>2 DEF Stage
  <2>2. UNCHANGED <<Mode, Known, Touched, NextState.verif>>
    BY <1>2, <2>1
    DEF Mode, Handlers, Known, Marked, Touched, InFlight, NextState, ApplyReport
  <2> QED
    BY <2>1, <2>2 DEF Guarded!vars
<1> QED
  BY <1>1, <1>2 DEF CheckEdit, VerifyEdit

\* A decision hands out work, ends the run, or accepts what does not fail.
LEMMA ChooseStep ==
  ASSUME RInv, Decide
  PROVE  Guarded!Choose
<1>0. /\ pc = "decide" /\ BookInv(book) /\ fuel > 0 /\ fuel' = fuel - 1
      /\ rep' = RepEmpty /\ st' = NextState /\ UNCHANGED disk
  BY DEF Decide, FuelLeft, NextState, RInv, IInv
<1>1. PICK r \in BOOLEAN :
        /\ book' = BookTally(book, r)
        /\ pc' \in Handlers \union {"finished", "stalled"}
        /\ pc' = "finished" => Broken(NextState) = NoFile
  BY DecideStep DEF RInv
<1>2. Known' = Known
  BY <1>0, <1>1, CursorsStay, KnownStays
<1>3. Touched = NextState.changed
  BY <1>0, FoldedFields DEF Touched, InFlight
<1>4. Touched' = Touched
  <2>1. InFlight' = {}
    BY <1>1 DEF InFlight, Handlers
  <2> QED
    BY <1>0, <1>3, <2>1, EmptyReport DEF Touched, Maybe
<1>5. NextState.verif' = NextState.verif
  <2>1. NextState.verif' = IF rep'.verify = "unknown" THEN st'.verif ELSE rep'.verify
    BY DEF NextState, ApplyReport
  <2> QED
    BY <1>0, <2>1, EmptyReport
<1>6. Mode = "deciding" /\ Mode' \in {"working", "given_up", "accepted"}
      /\ (Mode' = "accepted" => pc' = "finished")
  BY <1>0, <1>1 DEF Mode, Handlers
<1>7. pc' = "finished" => Guarded!Acceptable
  <2> SUFFICES ASSUME pc' = "finished", NextState.verif = "fail", Touched # {}
               PROVE  FALSE
    BY DEF Guarded!Acceptable
  <2>1. NextState.last = NoFile
    BY <1>1 DEF Broken, VerifyFailed
  <2>2. rep.path = NoFile /\ st.last = NoFile
    BY <2>1, FoldedFields
  <2>3. st.changed = {}
    BY <2>2 DEF RInv, LastOfChanged
  <2> QED
    BY <1>3, <2>2, <2>3, FoldedFields DEF Maybe
<1> QED
  BY <1>0, <1>2, <1>4, <1>5, <1>6, <1>7 DEF Guarded!Choose

\* Out of fuel is giving up.
LEMMA GiveUpStep ==
  ASSUME RInv, OutOfFuel
  PROVE  Guarded!GiveUp
<1>1. pc = "decide" /\ pc' = "halted" /\ fuel = 0 /\ UNCHANGED <<fuel, st, book, rep, target, disk>>
  BY DEF OutOfFuel
<1>2. Mode = "deciding" /\ Mode' = "given_up"
  BY <1>1 DEF Mode, Handlers
<1>3. Known' = Known /\ Touched' = Touched /\ NextState.verif' = NextState.verif
  BY <1>1 DEF Known, Marked, Touched, InFlight, NextState, ApplyReport
<1> QED
  BY <1>1, <1>2, <1>3 DEF Guarded!GiveUp

\* Initial states map to initial states.
LEMMA InitMaps == Init => Guarded!Init
<1> SUFFICES ASSUME Init
             PROVE  Guarded!Init
  OBVIOUS
<1>1. pc = "decide" /\ st = StateNew /\ book = BookNew /\ rep = RepEmpty
  BY DEF Init
<1>2. Mode = "deciding" /\ Touched = {}
  <2>1. rep.path = NoFile /\ st.changed = {}
    BY <1>1, EmptyReport DEF StateNew
  <2>2. Mode = "deciding"
    BY <1>1 DEF Mode, Handlers
  <2>3. InFlight = {} /\ Maybe(rep.path, NoFile) = {}
    BY <1>1, <2>1 DEF InFlight, Maybe
  <2> QED
    BY <2>1, <2>2, <2>3 DEF Touched
<1>3. Known = {} /\ NextState.verif = "unknown"
  BY <1>1, EmptyReport, FoldedFields DEF Known, Marked, BookNew, StateNew
<1> QED
  BY <1>2, <1>3 DEF Init, Guarded!Init

\* Every step of the loop is a step of the guarded run, or a stutter of it.
LEMMA NextMaps == RInv /\ [Next]_vars => [Guarded!Next]_(Guarded!vars)
<1> SUFFICES ASSUME RInv, [Next]_vars
             PROVE  Guarded!Next \/ UNCHANGED Guarded!vars
  OBVIOUS
<1>1. CASE Decide \/ OutOfFuel
  BY <1>1, ChooseStep, GiveUpStep DEF Guarded!Next
<1>2. CASE ReadFirst \/ ReadWanted \/ ReadPicked
  BY <1>2, ReadSteps DEF Guarded!Next
<1>3. CASE SearchCode \/ RunBuild \/ GenerateAnswer \/ DraftPlan
  BY <1>3, HandlerSteps, BuildStep DEF Guarded!Next
<1>4. CASE Edit
  BY <1>4, AimSteps, DraftSteps, ApplyStep, VerdictSteps DEF Edit, Guarded!Next
<1>5. CASE UNCHANGED vars
  <2>1. Mode' = Mode /\ Known' = Known /\ Touched' = Touched
        /\ NextState.verif' = NextState.verif /\ UNCHANGED <<fuel, disk>>
    BY <1>5 DEF vars, Mode, Known, Marked, Touched, InFlight, NextState, ApplyReport
  <2> QED
    BY <2>1 DEF Guarded!vars
<1> QED
  BY <1>1, <1>2, <1>3, <1>4, <1>5 DEF Next

\* Whatever the models answer and whichever write stops short, a run of the
\* loop is a guarded run: it writes only what it read or what is new, keeps
\* every write the tool finished on record, owes each of those a verdict before
\* it decides again, and is not accepted while the last verdict over one fails.
THEOREM Refinement == Spec => Guarded!Spec
<1> QED
  BY InitMaps, InitRInv, NextRInv, NextMaps, PTL DEF Spec, Guarded!Spec

-----------------------------------------------------------------------------
(***************************************************************************)
(* Every run is bounded: what remains of the proof that it ends is that a  *)
(* stage is never stuck, which is ENABLED.                                 *)
(***************************************************************************)
\* How many steps a stage is from an end or from behind the next decision.
StageLeft ==
  IF pc \in Ends THEN 0
  ELSE IF pc = "decide" THEN 1
  ELSE IF pc = "check" THEN 3
  ELSE IF pc = "apply" THEN 4
  ELSE IF pc = "draft" THEN 5
  ELSE IF pc = "edit" THEN 6
  ELSE 2
\* An edit that is drafted, checked and verified is the longest way between two
\* decisions.
StepsLeft == 6 * fuel + StageLeft

\* A stage is at most six steps away.
LEMMA StagesLeft == StageLeft \in 0..6 /\ StageLeft' \in 0..6
  BY DEF StageLeft

\* Each step of the loop, whatever was answered, has fewer steps left.
LEMMA StepsDescend == IInv /\ Next => StepsLeft' < StepsLeft
<1> SUFFICES ASSUME IInv, Next PROVE StepsLeft' < StepsLeft
  OBVIOUS
<1>1. fuel \in Nat
  BY FuelIsPositive DEF IInv, TypeOK
<1>2. CASE Decide
  <2>1. pc = "decide" /\ fuel > 0 /\ fuel' = fuel - 1
    BY <1>2 DEF Decide, FuelLeft
  <2>2. StageLeft = 1
    BY <2>1 DEF StageLeft, Ends
  <2> DEFINE a == StageLeft   b == StageLeft'   f == fuel
  <2>3. f \in Nat /\ a = 1 /\ b \in 0..6
    BY <1>1, <2>2, StagesLeft
  <2>4. StepsLeft = 6 * f + a /\ StepsLeft' = 6 * (f - 1) + b
    BY <2>1 DEF StepsLeft
  <2> HIDE DEF a, b, f
  <2> QED
    BY <2>3, <2>4
<1>3. ASSUME fuel' = fuel, StageLeft' < StageLeft PROVE StepsLeft' < StepsLeft
  <2> DEFINE a == StageLeft   b == StageLeft'   f == fuel
  <2>1. f \in Nat /\ a \in 0..6 /\ b \in 0..6 /\ b < a
    BY <1>1, <1>3, StagesLeft
  <2>2. StepsLeft = 6 * f + a /\ StepsLeft' = 6 * f + b
    BY <1>3 DEF StepsLeft
  <2> HIDE DEF a, b, f
  <2> QED
    BY <2>1, <2>2
<1>4. CASE OutOfFuel
  <2>1. fuel' = fuel /\ pc = "decide" /\ pc' = "halted"
    BY <1>4 DEF OutOfFuel
  <2> QED
    BY <1>3, <2>1 DEF StageLeft, Ends
<1>5. CASE \/ ReadFirst \/ ReadWanted \/ ReadPicked \/ SearchCode \/ RunBuild
           \/ GenerateAnswer \/ DraftPlan
  <2>1. /\ pc \in {"read", "search", "build", "answer", "plan"}
        /\ \E r, b : Report(r, b)
    BY <1>5 DEF ReadFirst, ReadWanted, ReadPicked, SearchCode, RunBuild, GenerateAnswer, DraftPlan
  <2>2. fuel' = fuel /\ pc' = "decide"
    BY <2>1 DEF Report
  <2> QED
    BY <1>3, <2>1, <2>2 DEF StageLeft, Ends
<1>6. CASE RepairEdit \/ AnchorEdit
  <2>1. pc = "edit" /\ \E next \in {"draft", "apply"} : \E b, f : Stage(next, b, f)
    BY <1>6 DEF RepairEdit, AnchorEdit
  <2>2. fuel' = fuel /\ pc' \in {"draft", "apply"}
    BY <2>1 DEF Stage
  <2> QED
    BY <1>3, <2>1, <2>2 DEF StageLeft, Ends
<1>7. CASE DraftEdit
  <2>1. pc = "draft" /\ fuel' = fuel /\ pc' \in {"decide", "apply"}
    BY <1>7 DEF DraftEdit, Report, Stage
  <2> QED
    BY <1>3, <2>1 DEF StageLeft, Ends
<1>8. CASE ApplyBlock
  <2>1. pc = "apply" /\ fuel' = fuel /\ pc' \in {"decide", "check", "verify"}
    BY <1>8 DEF ApplyBlock, Judged
  <2> QED
    BY <1>3, <2>1 DEF StageLeft, Ends
<1>9. CASE CheckEdit
  <2>1. pc = "check" /\ fuel' = fuel /\ pc' \in {"decide", "verify"}
    BY <1>9 DEF CheckEdit, Judged, Stage
  <2> QED
    BY <1>3, <2>1 DEF StageLeft, Ends
<1>10. CASE VerifyEdit
  <2>1. pc = "verify" /\ fuel' = fuel /\ pc' = "decide"
    BY <1>10 DEF VerifyEdit, Judged
  <2> QED
    BY <1>3, <2>1 DEF StageLeft, Ends
<1> QED
  BY <1>2, <1>4, <1>5, <1>6, <1>7, <1>8, <1>9, <1>10 DEF Next, Edit

\* A run of any fuel, over any tree and whatever the models answer, has at most
\* 6 * MaxSteps + 1 steps (agent_step's recursion on the fuel, with the stages
\* of an edit).
THEOREM RunsAreBounded ==
  Spec => /\ StepsLeft = 6 * MaxSteps + 1
          /\ [](StepsLeft \in Nat)
          /\ [][StepsLeft' < StepsLeft]_vars
<1>1. Init => StepsLeft = 6 * MaxSteps + 1
  <2> SUFFICES ASSUME Init PROVE StepsLeft = 6 * MaxSteps + 1
    OBVIOUS
  <2>1. pc = "decide" /\ fuel = MaxSteps
    BY DEF Init
  <2>2. StageLeft = 1
    BY <2>1 DEF StageLeft, Ends
  <2> QED
    BY <2>1, <2>2 DEF StepsLeft
<1>2. IInv => StepsLeft \in Nat
  <2> SUFFICES ASSUME IInv PROVE StepsLeft \in Nat
    OBVIOUS
  <2>1. fuel \in Nat
    BY FuelIsPositive DEF IInv, TypeOK
  <2> QED
    BY <2>1, StagesLeft DEF StepsLeft
<1>3. IInv /\ [Next]_vars => [StepsLeft' < StepsLeft]_vars
  BY StepsDescend
<1> QED
  BY <1>1, <1>2, <1>3, Invariance, PTL DEF Spec
=============================================================================
