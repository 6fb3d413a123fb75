----------------------------- MODULE GuardedRun -----------------------------
(***************************************************************************)
(* What a run of the agent promises, without the selector, the book, the   *)
(* plan or the models: a budgeted worker over a working tree that only     *)
(* writes files it knows or that do not exist, has every write it finishes *)
(* put on record and judged before it decides again, and is never accepted *)
(* while the last verdict over something it touched is a failure.  A write *)
(* that stops short spoils the file and leaves no record.                  *)
(***************************************************************************)
EXTENDS Naturals

CONSTANTS Files, Contents, Absent, InitDisk, MaxSteps

VARIABLES
  mode,     \* "deciding", "working", "judging", "accepted", "given_up"
  budget,   \* decisions left
  tree,     \* the content of every path
  known,    \* the files whose text was read
  touched,  \* the paths of the writes that finished
  verdict   \* "unknown", "pass" or "fail"

vars == <<mode, budget, tree, known, touched, verdict>>

Init ==
  /\ mode = "deciding"
  /\ budget = MaxSteps
  /\ tree \in InitDisk
  /\ known = {}
  /\ touched = {}
  /\ verdict = "unknown"

Acceptable == ~(verdict = "fail" /\ touched # {})

Choose ==
  /\ mode = "deciding"
  /\ budget > 0
  /\ budget' = budget - 1
  /\ mode' \in {"working", "given_up"} \union (IF Acceptable THEN {"accepted"} ELSE {})
  /\ UNCHANGED <<tree, known, touched, verdict>>

GiveUp ==
  /\ mode = "deciding"
  /\ budget = 0
  /\ mode' = "given_up"
  /\ UNCHANGED <<budget, tree, known, touched, verdict>>

\* Read one file, or none, and go on or go back to deciding.
Learn ==
  /\ mode = "working"
  /\ mode' \in {"working", "deciding"}
  /\ \E seen \in {{}} \union {{f} : f \in Files} : known' = known \union seen
  /\ UNCHANGED <<budget, tree, touched, verdict>>

Writable(f) == f \in known \/ tree[f] = Absent

Overwrite(f) == \E c \in Contents \ {Absent} : tree' = [tree EXCEPT ![f] = c]

Write(f) ==
  /\ mode = "working"
  /\ Writable(f)
  /\ Overwrite(f)
  /\ touched' = touched \union {f}
  /\ mode' = "judging"
  /\ UNCHANGED <<budget, known, verdict>>

Tear(f) ==
  /\ mode = "working"
  /\ Writable(f)
  /\ Overwrite(f)
  /\ mode' = "deciding"
  /\ UNCHANGED <<budget, known, touched, verdict>>

\* After a write, or asked for on its own.
Judge ==
  /\ mode \in {"judging", "working"}
  /\ verdict' \in {"pass", "fail"}
  /\ mode' = "deciding"
  /\ UNCHANGED <<budget, tree, known, touched>>

Next == Choose \/ GiveUp \/ Learn \/ Judge \/ \E f \in Files : Write(f) \/ Tear(f)

Spec == Init /\ [][Next]_vars

FairSpec == Spec /\ WF_vars(Next)
=============================================================================
