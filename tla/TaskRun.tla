------------------------------ MODULE TaskRun ------------------------------
(***************************************************************************)
(* What running a task in a child process promises the daemon: glpi-       *)
(* scheduler fork.rs, seen from forked_scan.  A task produces results,     *)
(* then succeeds, fails, or is cut short; the daemon learns of it once.    *)
(* Success is reported only for a task that succeeded, together with       *)
(* everything it produced; a failure may come with the first results only, *)
(* and may be reported of a task that is still running (the daemon gives   *)
(* up on the channel).                                                     *)
(***************************************************************************)
EXTENDS Naturals, Sequences

CONSTANT Result

VARIABLES
    task,      \* running, succeeded, failed or lost
    produced,  \* the results the task has produced
    outcome,   \* what the daemon was told: pending, success, failure
    printed    \* the results the daemon prints

vars == <<task, produced, outcome, printed>>

Init ==
    /\ task = "running"
    /\ produced = <<>>
    /\ outcome = "pending"
    /\ printed = <<>>

\* The task makes progress, until it is over.
Run ==
    /\ task = "running"
    /\ \/ task' \in {"succeeded", "failed"} /\ UNCHANGED produced
       \/ \E r \in Result : produced' = Append(produced, r) /\ UNCHANGED task
    /\ UNCHANGED <<outcome, printed>>

\* The process disappears before the task is over.
Lose ==
    /\ task = "running"
    /\ task' = "lost"
    /\ UNCHANGED <<produced, outcome, printed>>

Succeed ==
    /\ outcome = "pending"
    /\ task = "succeeded"
    /\ outcome' = "success"
    /\ printed' = produced
    /\ UNCHANGED <<task, produced>>

\* The daemon gives up on the run; what it abandons may be cut short by that.
Fail ==
    /\ outcome = "pending"
    /\ outcome' = "failure"
    /\ task' \in IF task = "running" THEN {"running", "lost"} ELSE {task}
    /\ \E n \in 0..Len(produced) : printed' = SubSeq(produced, 1, n)
    /\ UNCHANGED produced

Next == Run \/ Lose \/ Succeed \/ Fail

Spec == Init /\ [][Next]_vars
=============================================================================
