------------------------------ MODULE Worklist ------------------------------
(***************************************************************************)
(* plan.bend: the worklist a `plan` action seeds.  An item is the set of   *)
(* paths its text names, which in the code is every path that occurs in    *)
(* the text as a substring, and whether a change has checked it off.       *)
(***************************************************************************)
EXTENDS Sequences

Items(paths) == [names : SUBSET paths, done : BOOLEAN]

\* parse: every line of the reply is an unchecked item, whatever checkbox
\* the model drew in front of it.
Parse(reply) == [i \in DOMAIN reply |-> [names |-> reply[i], done |-> FALSE]]

\* An item that names no tracked file is advice: it never gates completion.
ItemOpen(item, tracked) == ~item.done /\ item.names \intersect tracked # {}

PlanOpen(plan, tracked) == \E i \in DOMAIN plan : ItemOpen(plan[i], tracked)

\* Done is data: a later change to other files never reopens an item.
Mark(plan, changed) ==
  [i \in DOMAIN plan |->
     [plan[i] EXCEPT !.done = @ \/ plan[i].names \intersect changed # {}]]
=============================================================================
