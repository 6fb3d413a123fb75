------------------------------ MODULE Selector ------------------------------
(***************************************************************************)
(* selector.bend: the action space, the thresholds and the table that maps *)
(* one step's typed answers to a route.                                    *)
(*                                                                         *)
(* Probabilities and scores are kept only as far as a threshold tells them *)
(* apart.  A confidence is one of three bands cut by confidence_floor 0.45 *)
(* and edit_confidence_floor 0.65; a noul or a score is the Boolean of the *)
(* one comparison that reads it.  A route's reason is the name of the row  *)
(* that produced it.                                                       *)
(***************************************************************************)

Actions == {"read_code", "search_code", "run_build", "apply_edit", "plan",
            "generate_answer", "task_complete"}

\* Everything ParseAnswer can report for `action` that names no action: a
\* missing answer, a score, a noul, or a label no action owns.
Unusable == "unusable"

Labels == Actions \union {"none", Unusable}

Bands == {"low", "mid", "high"}   \* [0, 0.45), [0.45, 0.65), [0.65, 1]

\* repeats: the noul is above repeats_floor; risky: the risk score is in the
\* top band and needs_code_change does not show that the goal asked for it;
\* informed: the progress score is at or above answer_info_floor.  is_blocked
\* is asked and printed but no row reads it.
LoopAnswers(labels) == [action : labels, conf : Bands, repeats : BOOLEAN,
                        risky : BOOLEAN, informed : BOOLEAN]

ActionOptionsWithPlan(readsOut, hasPlan) ==
  (Actions \union {"none"}) \ (IF readsOut THEN {"read_code"} ELSE {})

\* The Choice's options: read_code leaves once reads are out, plan once a
\* worklist exists.
ActionOptions(readsOut, hasPlan) ==
  ((Actions \union {"none"})
     \ (IF readsOut THEN {"read_code"} ELSE {}))
     \ (IF hasPlan THEN {"plan"} ELSE {})

-----------------------------------------------------------------------------
\* The floors

UnderFloor(action, conf) ==
  conf = "low" \/ (action = "apply_edit" /\ conf = "mid")

AnswerUnder(a) == a.action \in Actions /\ UnderFloor(a.action, a.conf)

FloorActs(action) == action # "task_complete"

\* An apply_edit after a failed verification, or after the read a refused
\* edit named has landed, is exempt from its floor.
ExemptEdit(action, failed, met) == action = "apply_edit" /\ (failed \/ met)

\* agent_step's own reading of the same rules, for the under-floor tally.
ReroutedIgnoringRetry(a, spent, failed, met) ==
  /\ AnswerUnder(a)
  /\ ~(spent /\ FloorActs(a.action))

Rerouted(a, spent, failed, met) ==
  /\ AnswerUnder(a)
  /\ ~(spent /\ FloorActs(a.action))
  /\ ~ExemptEdit(a.action, failed, met)

-----------------------------------------------------------------------------
\* Routes

Act(action, row)     == [kind |-> "act",     action |-> action, row |-> row]
Reread(action, row)  == [kind |-> "reread",  action |-> action, row |-> row]
Skip(action, row)    == [kind |-> "skip",    action |-> action, row |-> row]
Confirm(action, row) == [kind |-> "confirm", action |-> action, row |-> row]
Stop(row)            == [kind |-> "stop",    action |-> "none", row |-> row]

FloorOut(action) ==
  IF FloorActs(action) THEN Act(action, "spent")
                       ELSE Reread(action, "weak_done")

PlanGate(action) ==
  IF action = "task_complete" THEN Reread(action, "plan_open")
                              ELSE Act(action, "clear")

\* The rows' conditions.  `f` holds what the loop knows and Classify does not:
\* unread, stuck, spent, readsOut, failed, met and owed.
Under(a, f) == UnderFloor(a.action, a.conf) /\ ~ExemptEdit(a.action, f.failed, f.met)

ReadDead(action, f) == action = "read_code" /\ f.readsOut

BlindEditNever(action, f) == FALSE
BlindEdit(action, f)      == action = "apply_edit" /\ f.unread

BlindAnswer(a, f) == a.action = "generate_answer" /\ f.unread /\ ~a.informed

UnfinishedNever(action, f) == FALSE
Unfinished(action, f)      == action = "task_complete" /\ f.owed

\* route.gate: the first row whose condition holds decides.
RouteGate(a, f) ==
  LET action == a.action
  IN  IF ReadDead(action, f) THEN Skip(action, "read_dead")
      ELSE IF Under(a, f) /\ ~f.spent THEN Reread(action, "floor")
      ELSE IF Under(a, f) THEN FloorOut(action)
      ELSE IF a.repeats THEN Skip(action, "repeats")
      ELSE IF a.risky THEN Confirm(action, "risk")
      ELSE IF action = "search_code" /\ f.stuck THEN Reread(action, "stuck")
      ELSE IF BlindEdit(action, f) THEN Reread(action, "blind_edit")
      ELSE IF BlindAnswer(a, f) THEN Reread(action, "blind_answer")
      ELSE IF Unfinished(action, f) THEN PlanGate(action)
      ELSE Act(action, "clear")

Route(a, f) ==
  IF a.action = "none" THEN Stop("none")
  ELSE IF a.action \notin Actions THEN Stop("no_action")
  ELSE RouteGate(a, f)

-----------------------------------------------------------------------------
\* The edit anchor's gate: absence first, then confidence.  `line` says what
\* the label names: a line of the file, a line outside it, or no line.

AnchorAnswers == [line : {"inside", "outside", "unread"}, sure : BOOLEAN,
                  present : BOOLEAN]

AnchorHolds(n) == n.line # "unread" /\ n.present /\ n.sure
=============================================================================
