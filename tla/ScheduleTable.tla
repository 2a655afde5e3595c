---------------------------- MODULE ScheduleTable ----------------------------
(***************************************************************************)
(* The pure part of schedules: the status tables and decisions of          *)
(* server/schedules/contract.py, and the missed-run plan.                  *)
(***************************************************************************)
EXTENDS Integers, FiniteSets

RUN_TERMINAL == {"SUCCEEDED", "FAILED", "SKIPPED", "TIMED_OUT", "CANCELLED"}
RUN_PENDING == {"PENDING", "DUE"}
RUN_RUNNING == {"CLAIMED", "TASK_CREATED", "RUNNING", "VERIFYING"}
RunStatus == RUN_TERMINAL \cup RUN_PENDING \cup RUN_RUNNING
               \cup {"CANCEL_REQUESTED"}

\* active_runs: the statuses that count as a previous Run still at work.
Active == RUN_RUNNING \cup {"CANCEL_REQUESTED"}

ScheduleStatus == {"DRAFT", "ENABLED", "PAUSED", "DISABLED"}

SCHEDULE_TRANSITIONS ==
  [s \in ScheduleStatus |->
     CASE s = "DRAFT" -> {"ENABLED", "DISABLED"}
       [] s = "ENABLED" -> {"PAUSED", "DISABLED"}
       [] s = "PAUSED" -> {"ENABLED", "DISABLED"}
       [] s = "DISABLED" -> {}]

\* cancel_run: where a cancel request takes a Run ("none": it is refused).
CancelTarget(s) ==
  CASE s \in RUN_PENDING -> "CANCELLED"
    [] s \in RUN_RUNNING -> "CANCEL_REQUESTED"
    [] OTHER -> "none"

\* decide_concurrency; confirmed is "none" until the previous Run's cancel
\* was attempted and waited for.
Concurrency(policy, busy, confirmed) ==
  IF ~busy \/ policy = "ALLOW" THEN "START"
  ELSE CASE policy = "REPLACE" /\ confirmed = "none" -> "WAIT"
         [] policy = "REPLACE" /\ confirmed = "yes" -> "START"
         [] OTHER -> "SKIP"

\* decide_retry for a transient error of attempt n.
RetryAllowed(n, maxAttempts) == n < maxAttempts

\* plan_missed_runs: which of the missed occurrences become Runs.
MissedToCreate(policy, missed, now, window, limit) ==
  LET inWindow == {o \in missed : o >= now - window}
  IN  CASE policy = "SKIP" -> {}
        [] policy = "RUN_ONCE" -> {o \in missed : \A p \in missed : p <= o}
        [] OTHER -> {o \in inWindow :
                       Cardinality({p \in inWindow : p < o}) < limit}
==============================================================================
