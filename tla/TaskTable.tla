----------------------------- MODULE TaskTable ------------------------------
(***************************************************************************)
(* The transition table of a Task (server/domain/task.py): which Event is  *)
(* allowed in which status and the status it leads to.                     *)
(***************************************************************************)
Verdicts == {"VERIFICATION_PASSED", "VERIFICATION_FAILED",
             "VERIFICATION_BLOCKED"}
Assignments == {"TASK_DELEGATED", "TASK_REASSIGNED"}

From(S, t, to) == {<<s, t, to>> : s \in S}
Transitions ==
  UNION {
    From({"OPEN"}, "TASK_DELEGATED", "DELEGATED"),
    From({"DELEGATED", "ACCEPTED", "RUNNING", "WAITING"},
         "TASK_REASSIGNED", "DELEGATED"),
    From({"DELEGATED"}, "TASK_ACCEPTED", "ACCEPTED"),
    From({"ACCEPTED", "WAITING"}, "TASK_STARTED", "RUNNING"),
    From({"RUNNING", "DELEGATED", "ACCEPTED", "IMPLEMENTED"},
         "TASK_WAITING", "WAITING"),
    From({"RUNNING"}, "TASK_PROGRESS_REPORTED", "RUNNING"),
    From({"RUNNING"}, "IMPLEMENTATION_SUBMITTED", "IMPLEMENTED"),
    From({"IMPLEMENTED"}, "TASK_VERIFICATION_STARTED", "VERIFYING"),
    From({"VERIFYING"}, "VERIFICATION_PASSED", "VERIFIED"),
    From({"VERIFYING"}, "VERIFICATION_FAILED", "RUNNING"),
    From({"VERIFYING"}, "VERIFICATION_BLOCKED", "WAITING"),
    From({"VERIFIED"}, "TASK_COMPLETED", "COMPLETED"),
    From({"OPEN", "DELEGATED", "ACCEPTED", "CANCEL_REQUESTED"},
         "TASK_CANCELLED", "CANCELLED"),
    From({"RUNNING", "WAITING", "IMPLEMENTED", "VERIFYING"},
         "TASK_CANCEL_REQUESTED", "CANCEL_REQUESTED") }

Statuses == {x[1] : x \in Transitions} \cup {x[3] : x \in Transitions}
Types == {x[2] : x \in Transitions}
\* Event types that go to the task stream; a command appends each of them.
TaskTypes == Types \ Verdicts

Allowed(s, t) == \E x \in Transitions : x[1] = s /\ x[2] = t
NextStatus(s, t) == (CHOOSE x \in Transitions : x[1] = s /\ x[2] = t)[3]
=============================================================================
