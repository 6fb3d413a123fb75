----------------------------- MODULE MCEditStep -----------------------------
(***************************************************************************)
(* Three questions, one of each kind; drafts of no group, one and two.     *)
(***************************************************************************)
EXTENDS EditStep

MCStatuses == {200, 422, 429, 503}
MCHintMs   == {NoHint, 0}
MCHintS    == {NoHint, 31}

MCAsked == <<"action", "has_enough_info", "confidence_score">>

MCSaids ==
  {[q \in {"action", "has_enough_info", "confidence_score"} |->
      IF q = "action" THEN a ELSE IF q = "has_enough_info" THEN e ELSE c] :
     a \in {Chosen("apply_edit", 67), Chosen("read_code", 0), Missing("unrecognised"), Missing("no answer")},
     e \in {Nouled(12), Missing("unrecognised")},
     c \in {Scored(45, 33), Scored(0, 0), Missing("no answer")}}

G(path, old, new) == [path |-> path, old |-> old, new |-> new]
Wants(groups, closed) == [groups |-> groups, closed |-> closed]

MCIntents ==
  {NoIntent,
   Wants(<<G("f", "x", "y")>>, TRUE),
   Wants(<<G("f", "", "y")>>, TRUE),
   Wants(<<G("f", "x", "")>>, TRUE),
   Wants(<<G("", "x", "y")>>, TRUE),
   Wants(<<G("../up", "x", "y")>>, TRUE),
   Wants(<<G("f", "x", "y"), G("g", "z", "w")>>, TRUE),
   Wants(<<G("f", "x", "y"), G("g", "z", "w")>>, FALSE)}
=============================================================================
