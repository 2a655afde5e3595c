---------------------------- MODULE ScheduleRuns -----------------------------
(***************************************************************************)
(* The Runs of one Schedule: claiming due Runs with leases, executing a    *)
(* claimed Run, retries, timeouts and cancel windows (server/schedules:    *)
(* runner, worker, execution, recovery), the daily budget reservation      *)
(* (server/schedules/budget.py, server/usage/budget.py) and the commands   *)
(* that cancel Runs or stop the Schedule, with several workers.            *)
(* SchedulePlanner models where the Runs come from.                        *)
(*                                                                         *)
(* A worker's claim phase is one transaction and one step.  Executing a    *)
(* Run is two steps of one transaction: the first locks the Run's row and  *)
(* reads, the second decides and commits.  Recovery (timeouts and cancel   *)
(* windows) and the Task's terminal hook read Runs without a lock and      *)
(* write from what they read, which may be stale by then.                  *)
(***************************************************************************)
EXTENDS ScheduleTable

LOCAL FE == INSTANCE FiniteSetsExt

CONSTANTS
  Workers,       \* scheduler worker processes
  RunIds,        \* the Runs, named by their scheduled_for
  RunPolicies,   \* the concurrency and budget settings explored
  MaxAttempts,   \* retry_policy.max_attempts
  DailyLimit,    \* daily_cost_units, in estimates of one Run
  ClaimLimit,    \* Runs claimed per tick
  MaxFaults,     \* bound: crashes, aborted transactions and lapsed leases
  MaxCommands,   \* bound: commands of users and operators
  Nobody

ASSUME ScheduleAssumption ==
  /\ RunIds \subseteq Nat /\ Nobody \notin RunIds
  /\ MaxAttempts \in Nat \ {0}
  /\ {DailyLimit, ClaimLimit, MaxFaults, MaxCommands} \subseteq Nat
  /\ RunPolicies \subseteq [concurrency : {"FORBID", "ALLOW", "REPLACE"},
                            daily : BOOLEAN]

VARIABLES
  policy,   \* the Schedule's settings
  enabled,  \* the Schedule is ENABLED
  runs,     \* the schedule_runs rows
  task,     \* the Task created under the Run's idempotency key
  retry,    \* Runs with a row in schedule_run_retries
  held,     \* per Run, the open reservations of the daily scope
  link,     \* status of the Run's schedule_run_budgets row
  queue,    \* per worker, the Runs it claimed and has not executed yet
  txn,      \* per worker, its open transaction
  hook,     \* the open transaction in which a Task ends
  maint,    \* maintenance mode
  faults, commands

budgetVars == <<held, link>>
runVars == <<runs, task, retry, held, link>>
procVars == <<queue, txn, hook, faults>>
runsVars == <<policy, enabled, runVars, procVars, maint, commands>>

\* The columns of RunRow that the handlers decide on.  lapsed: the lease has
\* expired; asked and confirmed: cancel_requested_at and cancelled_at are set.
RunRow == [status : RunStatus \cup {"ABSENT"}, attempts : Nat,
           task : BOOLEAN, lapsed : BOOLEAN, asked : BOOLEAN,
           confirmed : BOOLEAN, code : {"", "POLICY", "BUDGET", "CONCURRENCY",
                                        "REPLACE_TIMEOUT"}]
NoRun == [status |-> "ABSENT", attempts |-> 0, task |-> FALSE,
          lapsed |-> FALSE, asked |-> FALSE, confirmed |-> FALSE, code |-> ""]
Idle == [op |-> "idle"]

RunsInit ==
  /\ policy \in RunPolicies /\ enabled \in BOOLEAN
  /\ runs = [r \in RunIds |-> NoRun]
  /\ task = [r \in RunIds |-> "NONE"]
  /\ retry = {}
  /\ held = [r \in RunIds |-> 0]
  /\ link = [r \in RunIds |-> "none"]
  /\ queue = [w \in Workers |-> {}]
  /\ txn = [w \in Workers |-> Idle]
  /\ hook = Idle
  /\ maint = FALSE /\ faults = 0 /\ commands = 0

Existing == {r \in RunIds : runs[r].status # "ABSENT"}
Executing == {w \in Workers : txn[w].op = "execute"}

\* The row is locked by the transaction that executes the Run.
Locked(r) == \E w \in Executing : txn[w].run = r

-----------------------------------------------------------------------------
(***************************************************************************)
(* Commands.                                                               *)
(***************************************************************************)
\* A Run is materialized (insert_run) and its instant has come.
RunDue(r) ==
  /\ runs[r].status = "ABSENT" /\ \A q \in RunIds : q < r => q \in Existing
  /\ runs' = [runs EXCEPT ![r].status = "DUE"]
  /\ UNCHANGED <<policy, enabled, task, retry, budgetVars, procVars, maint>>

\* _transition to PAUSED, with _cancel_pending_runs: no budget is released.
PauseSchedule ==
  /\ enabled /\ enabled' = FALSE
  /\ runs' = [r \in RunIds |-> IF runs[r].status \in RUN_PENDING
                 THEN [runs[r] EXCEPT !.status = "CANCELLED", !.confirmed = TRUE]
                 ELSE runs[r]]
  /\ UNCHANGED <<policy, task, retry, budgetVars, procVars, maint>>

ResumeSchedule ==
  /\ ~enabled /\ enabled' = TRUE
  /\ UNCHANGED <<policy, runVars, procVars, maint>>

\* CancelScheduleRun: neither the Run's Task nor its budget is touched.
CancelScheduleRun(r) ==
  /\ r \in Existing /\ ~Locked(r) /\ CancelTarget(runs[r].status) # "none"
  /\ LET target == CancelTarget(runs[r].status)
     IN  /\ runs' = [runs EXCEPT ![r].status = target,
                                 ![r].asked = @ \/ target = "CANCEL_REQUESTED",
                                 ![r].confirmed = @ \/ target = "CANCELLED"]
  /\ UNCHANGED <<policy, enabled, task, retry, budgetVars, procVars, maint>>

-----------------------------------------------------------------------------
(***************************************************************************)
(* The claim phase of a worker: expire_leases and claim_due in one         *)
(* transaction (the planning in between is SchedulePlanner's).             *)
(***************************************************************************)
\* expire_leases: rows locked by another transaction are skipped.
ExpireLeases(rs) ==
  [r \in RunIds |-> IF rs[r].status = "CLAIMED" /\ rs[r].lapsed /\ ~Locked(r)
                    THEN [rs[r] EXCEPT !.status = "DUE", !.lapsed = FALSE]
                    ELSE rs[r]]

\* claim_due: the oldest due Runs, at most ClaimLimit.
Claimable(rs) == {r \in RunIds : rs[r].status = "DUE"}
Chosen(rs) ==
  {r \in Claimable(rs) : Cardinality({q \in Claimable(rs) : q < r}) < ClaimLimit}

ClaimPhase(w) ==
  /\ ~maint /\ txn[w] = Idle /\ queue[w] = {}
  /\ LET due == ExpireLeases(runs)
     IN  /\ Chosen(due) # {}
         /\ runs' = [r \in RunIds |-> IF r \in Chosen(due)
                       THEN [due[r] EXCEPT !.status = "CLAIMED"] ELSE due[r]]
         /\ queue' = [queue EXCEPT ![w] = Chosen(due)]
  /\ UNCHANGED <<policy, enabled, task, retry, budgetVars, txn, hook, faults,
                 maint>>

-----------------------------------------------------------------------------
(***************************************************************************)
(* Budget reservations of the schedule_daily scope.                        *)
(***************************************************************************)
\* assert_not_overrun and would_exceed.
BudgetFull ==
  policy.daily /\ \/ \E r \in RunIds : link[r] = "exceeded"
                  \/ FE!MapThenSumSet(LAMBDA r : held[r], RunIds) + 1 > DailyLimit

\* reserve_for_run: every execution makes a new reservation; the Run's row in
\* schedule_run_budgets keeps the first.
ReservedHeld(r) == IF policy.daily THEN [held EXCEPT ![r] = @ + 1] ELSE held
ReservedLink(r) == IF policy.daily /\ link[r] = "none"
                   THEN [link EXCEPT ![r] = "reserved"] ELSE link

\* Mutant of Close: the open reservations are not filtered by Run.
CloseAll(r, h, l, how) ==
  /\ held' = [q \in RunIds |-> IF l[q] = "reserved" THEN h[q] - 1 ELSE h[q]]
  /\ link' = [q \in RunIds |-> IF l[q] = "reserved" THEN how ELSE l[q]]

\* release_for_run and settle_for_run close the reservation the row names.
Close(r, h, l, how) ==
  /\ held' = IF l[r] = "reserved" THEN [h EXCEPT ![r] = @ - 1] ELSE h
  /\ link' = IF l[r] = "reserved" THEN [l EXCEPT ![r] = how] ELSE l

-----------------------------------------------------------------------------
(***************************************************************************)
(* request_cancel of a Run p seen in row `seen`, once nobody locks it.     *)
(***************************************************************************)
\* CancelTask waits for the transaction in which the Task ends.
AskFree(p, seen) == ~Locked(p) /\ ~("task" \in seen /\ hook.op = "end" /\ hook.run = p)
AskedRuns(p) == [runs EXCEPT ![p].status = "CANCEL_REQUESTED", ![p].asked = TRUE]

\* CancelTask of the Run's Task may be refused; the refusal is swallowed.
AskedTasks(p, seen) ==
  IF "task" \in seen /\ task[p] = "OPEN" THEN {task, [task EXCEPT ![p] = "CANCELLED"]}
  ELSE {task}

(***************************************************************************)
(* Execution of a claimed Run.                                             *)
(***************************************************************************)
\* Mutant of Others: a Run that is only claimed does not count.
OthersStarted(r) ==
  {p \in RunIds \ {r} : runs[p].status \in {"TASK_CREATED", "RUNNING", "VERIFYING"}}

Others(r) == {p \in RunIds \ {r} : runs[p].status \in Active}
Oldest(S) == CHOOSE p \in S : \A q \in S : p <= q

\* The reservation holds the daily scope's advisory lock until the commit.
Serialized == policy.daily => Executing = {}

\* What a handler keeps of the row of another Run.
Seen(p) == IF p = Nobody THEN {} ELSE
  {f \in {"task", "asked", "confirmed"} : runs[p][f]}

\* execute, up to the reading of the active Runs: the Run's row is locked,
\* the Schedule's status and the oldest active Run are read.
ReadRun(w, r, again) ==
  /\ Serialized
  /\ LET p == IF Others(r) = {} THEN Nobody ELSE Oldest(Others(r))
     IN  txn' = [txn EXCEPT ![w] =
                   [op |-> "execute", run |-> r, again |-> again,
                    enabled |-> enabled, prev |-> p, seen |-> Seen(p)]]

\* execute_run: a Run that is no longer CLAIMED is dropped.
ExecuteRun(w, r) ==
  /\ txn[w] = Idle /\ r \in queue[w] /\ ~Locked(r)
  /\ queue' = [queue EXCEPT ![w] = @ \ {r}]
  /\ IF runs[r].status = "CLAIMED" THEN ReadRun(w, r, FALSE) ELSE UNCHANGED txn
  /\ UNCHANGED <<policy, enabled, runVars, hook, faults, maint>>

\* run_due_retries for one Run.
RunDueRetry(w, r) ==
  /\ txn[w] = Idle /\ queue[w] = {} /\ r \in retry /\ ~Locked(r)
  /\ IF runs[r].status = "CLAIMED"
     THEN ReadRun(w, r, TRUE) /\ UNCHANGED retry
     ELSE retry' = retry \ {r} /\ UNCHANGED txn
  /\ UNCHANGED <<policy, enabled, runs, task, budgetVars, queue,
                 hook, faults, maint>>

RetryLeft(t) == IF t.again THEN retry \ {t.run} ELSE retry
EndRunTxn(w) == txn' = [txn EXCEPT ![w] = Idle]
SkipRun(rs, r, code) == [rs EXCEPT ![r].status = "SKIPPED", ![r].code = code]

\* The policy check fails, or the budget is exhausted; neither path releases
\* the reservation of an earlier attempt.
ExecuteRefused(w, code) ==
  /\ txn[w].op = "execute"
  /\ code = "BUDGET" => txn[w].enabled /\ BudgetFull
  /\ LET r == txn[w].run
     IN  /\ runs' = SkipRun(runs, r, code)
  /\ retry' = RetryLeft(txn[w])
  /\ EndRunTxn(w)
  /\ UNCHANGED <<policy, enabled, task, budgetVars, queue, hook, faults,
                 maint>>

\* What _concurrency learns about the cancel of the previous Run: confirmed,
\* not within the REPLACE window, or neither yet.
PreviousVerdicts(t) ==
  IF policy.concurrency # "REPLACE" \/ t.prev = Nobody THEN {"none"}
  ELSE IF "asked" \notin t.seen THEN IF runs[t.prev].confirmed THEN {"yes"} ELSE {"none"}
  ELSE IF "confirmed" \in t.seen THEN {"yes", "no"} ELSE {"no", "none"}
Asks(t) == policy.concurrency = "REPLACE" /\ t.prev # Nobody /\ "asked" \notin t.seen

Decision(t, verdict) == Concurrency(policy.concurrency, t.prev # Nobody, verdict)

\* The Runs and Tasks after the cancel request, if one was made.
RunsAsked(t) == IF Asks(t) THEN AskedRuns(t.prev) ELSE runs
TasksAsked(t) == IF Asks(t) THEN AskedTasks(t.prev, t.seen) ELSE {task}
Reserve(r) == held' = ReservedHeld(r) /\ link' = ReservedLink(r)

\* execute after the policy check and the reservation: what the five ways in
\* which it can end have in common.
Continues(w, verdict) ==
  /\ txn[w].op = "execute" /\ txn[w].enabled /\ ~BudgetFull
  /\ verdict \in PreviousVerdicts(txn[w])
  /\ Asks(txn[w]) => AskFree(txn[w].prev, txn[w].seen)
  /\ EndRunTxn(w)
  /\ UNCHANGED <<policy, enabled, queue, hook, faults, maint>>

\* REPLACE waits for the cancel of the previous Run; the lease is renewed.
DeferRun(w, verdict) ==
  /\ Continues(w, verdict) /\ Decision(txn[w], verdict) = "WAIT"
  /\ task' \in TasksAsked(txn[w])
  /\ runs' = [RunsAsked(txn[w]) EXCEPT ![txn[w].run].lapsed = FALSE]
  /\ retry' = RetryLeft(txn[w]) /\ Reserve(txn[w].run)

SkipConcurrent(w, verdict) ==
  LET r == txn[w].run IN
  /\ Continues(w, verdict) /\ Decision(txn[w], verdict) = "SKIP"
  /\ task' \in TasksAsked(txn[w])
  /\ runs' = SkipRun(RunsAsked(txn[w]), r,
                     IF policy.concurrency = "FORBID" THEN "CONCURRENCY"
                                                      ELSE "REPLACE_TIMEOUT")
  /\ retry' = RetryLeft(txn[w])
  /\ Close(r, ReservedHeld(r), ReservedLink(r), "released")

\* add_attempt: the next attempt_no of the Run.
AddAttempt(rs, r) == [rs EXCEPT ![r].attempts = @ + 1]

\* _create_task succeeds: the Task, the Approval and the Secrets are there.
StartTask(w, verdict) ==
  LET r == txn[w].run IN
  /\ Continues(w, verdict) /\ Decision(txn[w], verdict) = "START"
  /\ \E tasks \in TasksAsked(txn[w]) : task' = [tasks EXCEPT ![r] = "OPEN"]
  /\ runs' = [AddAttempt(RunsAsked(txn[w]), r) EXCEPT ![r].status = "TASK_CREATED", ![r].task = TRUE]
  /\ retry' = RetryLeft(txn[w]) /\ Reserve(r)

\* _fail: a permanent error, or a transient one of the last attempt.
FailRun(w, verdict) ==
  LET r == txn[w].run IN
  /\ Continues(w, verdict) /\ Decision(txn[w], verdict) = "START"
  /\ task' \in TasksAsked(txn[w])
  /\ runs' = [AddAttempt(RunsAsked(txn[w]), r) EXCEPT ![r].status = "FAILED"]
  /\ retry' = retry \ {r}
  /\ Close(r, ReservedHeld(r), ReservedLink(r), "released")

\* _transient: another attempt follows; claim and reservation are kept.
RetryLater(w, verdict) ==
  LET r == txn[w].run IN
  /\ Continues(w, verdict) /\ Decision(txn[w], verdict) = "START"
  /\ RetryAllowed(runs[r].attempts + 1, MaxAttempts)
  /\ task' \in TasksAsked(txn[w])
  /\ runs' = [AddAttempt(RunsAsked(txn[w]), r) EXCEPT ![r].lapsed = FALSE]
  /\ retry' = retry \cup {r} /\ Reserve(r)

-----------------------------------------------------------------------------
(***************************************************************************)
(* Recovery, the Task's terminal hook and the operator's cancel.           *)
(***************************************************************************)
ReadFor(w, op, r) ==
  /\ txn[w] = Idle /\ queue[w] = {}
  /\ txn' = [txn EXCEPT ![w] = [op |-> op, run |-> r, seen |-> Seen(r),
                                open |-> task[r] = "OPEN"]]
  /\ UNCHANGED <<policy, enabled, runVars, queue, hook, faults, maint>>

\* handle_timeouts reads a Run past its max_duration_seconds ...
ReadTimeout(w, r) ==
  runs[r].status \in {"TASK_CREATED", "RUNNING", "VERIFYING"} /\ ReadFor(w, "timeout", r)

\* ... and asks it to cancel.
RequestTimeout(w) ==
  /\ txn[w].op = "timeout" /\ AskFree(txn[w].run, txn[w].seen)
  /\ runs' = AskedRuns(txn[w].run)
  /\ task' \in AskedTasks(txn[w].run, txn[w].seen)
  /\ EndRunTxn(w)
  /\ UNCHANGED <<policy, enabled, retry, budgetVars, queue, hook,
                 faults, maint>>

\* handle_cancel_windows reads a Run whose cancel was requested ...
ReadWindow(w, r) ==
  runs[r].status = "CANCEL_REQUESTED" /\ ReadFor(w, "window", r)

\* ... and finish_cancel ends it: CANCELLED if its Task was closed, TIMED_OUT
\* if the cleanup window has passed.
FinishCancel(w, settled) ==
  /\ txn[w].op = "window" /\ ~Locked(txn[w].run)
  /\ LET r == txn[w].run
         end == IF txn[w].open THEN "TIMED_OUT" ELSE "CANCELLED"
     IN  /\ runs' = [runs EXCEPT ![r].status = end,
                                 ![r].confirmed = @ \/ end = "CANCELLED"]
         /\ retry' = retry \ {r}
         /\ Close(r, held, link, settled)
  /\ EndRunTxn(w)
  /\ UNCHANGED <<policy, enabled, task, queue, hook, faults, maint>>

\* The cleanup window is still open: nothing is written.
KeepWaiting(w) ==
  /\ txn[w].op = "window" /\ txn[w].open
  /\ EndRunTxn(w)
  /\ UNCHANGED <<policy, enabled, runVars, queue, hook, faults, maint>>

\* A Task ends; _terminal_hook reads its Run in the same transaction ...
TaskEnds(r, result) ==
  /\ hook = Idle /\ task[r] = "OPEN"
  /\ hook' = [op |-> "end", run |-> r, result |-> result,
              running |-> runs[r].status \in RUN_RUNNING]
  /\ UNCHANGED <<policy, enabled, runVars, queue, txn, faults, maint>>

\* ... and on_task_terminal closes it, if it was seen running.
OnTaskTerminal(settled) ==
  /\ hook.op = "end" /\ ~Locked(hook.run)
  /\ LET r == hook.run
         end == IF hook.result = "DONE" THEN "SUCCEEDED" ELSE "FAILED"
     IN  /\ task' = [task EXCEPT ![r] = hook.result]
         /\ IF hook.running
            THEN /\ runs' = [runs EXCEPT ![r].status = end]
                 /\ retry' = retry \ {r}
                 /\ Close(r, held, link, settled)
            ELSE UNCHANGED <<runs, retry, budgetVars>>
  /\ hook' = Idle
  /\ UNCHANGED <<policy, enabled, queue, txn, faults, maint>>

\* schedule_runs.cancel_run: request_cancel under the row's lock.
CancelRun(r) ==
  /\ r \in Existing /\ AskFree(r, Seen(r))
  /\ CancelTarget(runs[r].status) # "none"
  /\ IF CancelTarget(runs[r].status) = "CANCELLED"
     THEN /\ runs' = [runs EXCEPT ![r].status = "CANCELLED", ![r].confirmed = TRUE]
          /\ retry' = retry \ {r}
          /\ Close(r, held, link, "released")
          /\ UNCHANGED task
     ELSE /\ runs' = AskedRuns(r)
          /\ task' \in AskedTasks(r, Seen(r))
          /\ UNCHANGED <<retry, budgetVars>>
  /\ UNCHANGED <<policy, enabled, procVars, maint>>

-----------------------------------------------------------------------------
(***************************************************************************)
(* Faults, maintenance mode.                                               *)
(***************************************************************************)
\* The lease runs out before its worker is done: the worker is slow or dead.
LeaseLapses(r) ==
  /\ runs[r].status = "CLAIMED" /\ ~runs[r].lapsed
  /\ faults < MaxFaults /\ faults' = faults + 1
  /\ runs' = [runs EXCEPT ![r].lapsed = TRUE]
  /\ UNCHANGED <<policy, enabled, task, retry, budgetVars, queue, txn, hook, maint>>

\* The worker dies, or its transaction is rolled back (a deadlock victim).
Crash(w) ==
  /\ faults < MaxFaults /\ (queue[w] # {} \/ txn[w] # Idle)
  /\ queue' \in {queue, [queue EXCEPT ![w] = {}]}
  /\ EndRunTxn(w) /\ faults' = faults + 1
  /\ UNCHANGED <<policy, enabled, runVars, hook, maint>>

SwitchMaintenance ==
  /\ maint' = ~maint
  /\ UNCHANGED <<policy, enabled, runVars, procVars>>

Worker(w) ==
  \/ ClaimPhase(w)
  \/ \E r \in RunIds : ExecuteRun(w, r) \/ RunDueRetry(w, r)
  \/ \E code \in {"POLICY", "BUDGET"} : ExecuteRefused(w, code)
  \/ \E v \in {"none", "yes", "no"} :
       \/ DeferRun(w, v) \/ SkipConcurrent(w, v) \/ StartTask(w, v)
       \/ FailRun(w, v) \/ RetryLater(w, v)
  \/ \E r \in RunIds : ReadTimeout(w, r) \/ ReadWindow(w, r)
  \/ RequestTimeout(w) \/ KeepWaiting(w)
  \/ \E s \in {"settled", "exceeded"} : FinishCancel(w, s)

Command ==
  \/ PauseSchedule \/ ResumeSchedule \/ SwitchMaintenance
  \/ \E r \in RunIds : CancelScheduleRun(r) \/ CancelRun(r)

System ==
  \/ \E r \in RunIds : RunDue(r) \/ LeaseLapses(r)
  \/ \E r \in RunIds, res \in {"DONE", "FAILED"} : TaskEnds(r, res)
  \/ \E s \in {"settled", "exceeded"} : OnTaskTerminal(s)
  \/ \E w \in Workers : Worker(w) \/ Crash(w)

RunsNext ==
  \/ commands < MaxCommands /\ Command /\ commands' = commands + 1
  \/ System /\ UNCHANGED commands

RunsSpec == RunsInit /\ [][RunsNext]_runsVars

-----------------------------------------------------------------------------
\* Every variable keeps its shape: rows, reservations and open transactions
\* of the scheduler (RunRow, schedule_run_budgets, the worker's session).
RunsTypeOK ==
  /\ policy \in RunPolicies /\ enabled \in BOOLEAN
  /\ runs \in [RunIds -> RunRow]
  /\ task \in [RunIds -> {"NONE", "OPEN", "DONE", "FAILED", "CANCELLED"}]
  /\ retry \subseteq RunIds /\ held \in [RunIds -> Nat]
  /\ link \in [RunIds -> {"none", "reserved", "released", "settled", "exceeded"}]
  /\ queue \in [Workers -> SUBSET RunIds]
  /\ \A w \in Workers : txn[w].op \in {"idle", "execute", "timeout", "window"}
  /\ hook.op \in {"idle", "end"} /\ maint \in BOOLEAN /\ faults \in 0..MaxFaults /\ commands \in 0..MaxCommands

\* Under FORBID at most one Run of the Schedule is at work: a claim is
\* committed before the claimer reads who else is active, so of two overlapping
\* executions at least one sees the other.  With a daily budget they are not
\* both skipped either: the reservation lock serializes the executions, so a
\* Run that was skipped for concurrency was skipped for one that is not
\* (_concurrency, reserve).
OneRunAtWork ==
  LET working == {r \in RunIds : runs[r].status \in {"TASK_CREATED", "RUNNING", "VERIFYING"}}
      skipped == {r \in RunIds : runs[r].code = "CONCURRENCY"}
  IN  /\ policy.concurrency = "FORBID" => Cardinality(working) <= 1
      /\ policy.daily /\ skipped # {} => Existing \ skipped # {}

\* A Task of a Run that still counts as at work is covered by an open
\* reservation of the daily budget (reserve before the side effect).
WorkIsReserved ==
  policy.daily =>
    \A r \in RunIds :
      runs[r].status \in {"TASK_CREATED", "RUNNING", "VERIFYING"} =>
        link[r] = "reserved" /\ held[r] >= 1

\* docs/protocol/schedule-contract.md: "any write to a terminal Run is
\* RUN_TERMINAL_CONFLICT".  A Run's budget is settled in the transaction that
\* ends it, so a settled Run stays terminal.
EndedStaysEnded ==
  \A r \in RunIds :
    link[r] \in {"settled", "exceeded"} => runs[r].status \in RUN_TERMINAL
==============================================================================
