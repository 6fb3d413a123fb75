-------------------------- MODULE MCBendcoderAgent --------------------------
(***************************************************************************)
(* Instances of BendcoderAgent for TLC: two tracked files, one path no     *)
(* listing names, a one-page and a two-page file.                          *)
(***************************************************************************)
EXTENDS BendcoderAgent, TLC

CONSTANTS a, b, n, p1, p2

Text(faults) == [kind |-> "text", faults |-> faults]
Blank        == [kind |-> "blank", faults |-> {}]

MCPages   == (a :> 1) @@ (b :> 2) @@ (n :> 1)
MCDrafts  == {Text({}), Text({"check"}), Text({"verify", "build"})}
MCTorn    == {[kind |-> "blank", faults |-> {"verify", "build"}]}
MCReplies == {<< >>, <<{a}, {b}>>}

Clean   == (a :> Text({})) @@ (b :> Text({})) @@ (n :> Absent)
Failing == (a :> Text({"verify", "build"})) @@ (b :> Absent) @@ (n :> Blank)
MCDisks == {Clean, Failing}
=============================================================================
