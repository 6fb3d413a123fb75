----------------------------- MODULE CommandRun -----------------------------
(***************************************************************************)
(* One shell command of the agent (sys_c.c: command_run).  The worker      *)
(* leaves the exit status in a static variable that outlives the call; the *)
(* pack, which runs later on the main thread, makes the Result from it.    *)
(***************************************************************************)
EXTENDS Integers

CONSTANT Codes  \* the exit codes a command ends with

ASSUME CommandRunAssumption == Codes \subseteq 0..255

VARIABLES running,             \* "no", "work" or "pack"
          command_run_status,  \* the static
          child,               \* what became of the process
          result               \* the last Result
commandVars == <<running, command_run_status, child, result>>

NoChild    == [end |-> "none", code |-> 0]
Exited(c)  == [end |-> "exit", code |-> c]
Killed     == [end |-> "killed", code |-> 0]
Unspawned  == [end |-> "unspawned", code |-> 0]

NoResult == [tag |-> "none", code |-> 0]
Done     == [tag |-> "done", code |-> 0]
Fail(c)  == [tag |-> "fail", code |-> c]

\* An earlier command of the run left its status behind.
CommandInit == /\ running = "no"
               /\ command_run_status \in Codes
               /\ child = NoChild
               /\ result = NoResult

command_run == /\ running = "no"
               /\ running' = "work"
               /\ result' = NoResult
               /\ child' = NoChild
               /\ UNCHANGED command_run_status

\* What the worker reads from the wait status: a killed child has no exit
\* status, and WEXITSTATUS of it is 0.
StatusOf(c) == IF c.end = "unspawned" THEN 127 ELSE c.code

EmptyStatusKept(old) == old
EmptyStatus(old) == 0

\* An empty command runs nothing and is a success.  A shell that was not
\* spawned, and one whose status pclose could not fetch, count as 127.
command_run_worker ==
  /\ running = "work"
  /\ running' = "pack"
  /\ UNCHANGED result
  /\ \/ /\ child' = NoChild
        /\ command_run_status' = EmptyStatus(command_run_status)
     \/ /\ child' \in {Unspawned, Killed} \union {Exited(c) : c \in Codes}
        /\ command_run_status' = StatusOf(child')

command_run_pack ==
  /\ running = "pack"
  /\ running' = "no"
  /\ result' = IF command_run_status = 0 THEN Done ELSE Fail(command_run_status)
  /\ UNCHANGED <<command_run_status, child>>

RunCommand == command_run_worker \/ command_run_pack
=============================================================================
