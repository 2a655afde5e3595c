--------------------------- MODULE SchedulePlanner ---------------------------
(***************************************************************************)
(* Where the Runs of one Schedule come from: the Schedule's lifecycle and  *)
(* versions (server/application/schedules.py), the occurrence planner with *)
(* its horizon and missed-run policy (server/schedules/planner.py), manual *)
(* Runs and retries.  A plan tick and a command each hold the Schedule's   *)
(* row lock for one transaction, so each is one step; the server may be    *)
(* down for any time between two ticks.  What a worker makes of a due Run  *)
(* is ScheduleRuns'.                                                       *)
(***************************************************************************)
EXTENDS ScheduleTable

CONSTANTS
  Versions,        \* 1..n, the contents a Schedule may be given
  OccurrencesOf,   \* instants of each version's cron expression
  Gaps,            \* instants that do not exist in local time (DST)
  MissedPolicies,  \* the missed_run_policy values explored
  BackfillWindow, BackfillLimit,
  Horizon,         \* DEFAULT_HORIZON_S
  RequestKeys,     \* idempotency keys of manual Runs and retries
  MaxNow,          \* bound of the clock
  MaxPlanCommands  \* bound of the commands

ASSUME PlannerAssumption ==
  /\ {BackfillWindow, BackfillLimit, Horizon, MaxNow, MaxPlanCommands} \subseteq Nat
  /\ OccurrencesOf \in [Versions -> SUBSET Nat] /\ Gaps \subseteq Nat
  /\ 1 \in Versions /\ Versions \subseteq Nat /\ RequestKeys \cap Nat = {}

VARIABLES
  now,       \* the clock
  sched,     \* the schedules row: status, version, last_planned_until
  rows,      \* schedule_runs by occurrence or request key: status
  noted,     \* occurrences with a planner note
  since,     \* history: planning has been continuous since this instant
  missedPolicy, planCommands

plannerVars == <<now, sched, rows, noted, since, missedPolicy, planCommands>>

Instants == UNION {OccurrencesOf[v] : v \in Versions}
RowIds == Instants \cup RequestKeys
Executable(v) == OccurrencesOf[v] \ Gaps

PlannerInit ==
  /\ now = 0 /\ since = 0 /\ noted = {} /\ planCommands = 0
  /\ missedPolicy \in MissedPolicies
  /\ sched = [status |-> "NONE", version |-> 1, planned |-> 0]
  /\ rows = [x \in RowIds |-> "ABSENT"]

-----------------------------------------------------------------------------
CreateSchedule ==
  /\ sched.status = "NONE" /\ sched' = [sched EXCEPT !.status = "DRAFT"]
  /\ UNCHANGED <<now, rows, noted, since, missedPolicy>>

\* insert_version: a version is written once and becomes the current one.
InsertVersion(row, v) == [row EXCEPT !.version = v]

\* commit_version: what is already planned of the old version stays, and
\* last_planned_until is not reset.
CommitVersion(v) ==
  /\ sched.status \in {"DRAFT", "ENABLED", "PAUSED"} /\ v = sched.version + 1
  /\ sched' = InsertVersion(sched, v)
  /\ since' = IF sched.planned > since THEN sched.planned ELSE since
  /\ UNCHANGED <<now, rows, noted, missedPolicy>>

\* _transition to ENABLED (enable and resume): planning starts now.
EnableSchedule ==
  /\ sched.status \in ScheduleStatus
  /\ "ENABLED" \in SCHEDULE_TRANSITIONS[sched.status]
  /\ sched' = [sched EXCEPT !.status = "ENABLED", !.planned = now]
  /\ since' = now
  /\ UNCHANGED <<now, rows, noted, missedPolicy>>

\* _cancel_pending_runs
CancelPending(rs) ==
  [x \in RowIds |-> IF rs[x] \in RUN_PENDING THEN "CANCELLED" ELSE rs[x]]

\* _transition to PAUSED or DISABLED.
StopSchedule(target) ==
  /\ sched.status \in ScheduleStatus
  /\ target \in SCHEDULE_TRANSITIONS[sched.status] \ {"ENABLED"}
  /\ sched' = [sched EXCEPT !.status = target]
  /\ rows' = CancelPending(rows)
  /\ UNCHANGED <<now, noted, since, missedPolicy>>

\* insert_run: an occurrence or request key that has a Run keeps it (ON
\* CONFLICT DO NOTHING).
InsertRun(new, status) ==
  [x \in RowIds |-> IF x \in new /\ rows[x] = "ABSENT" THEN status ELSE rows[x]]

\* run_now: one Run per request key, due at once.
RunScheduleNow(k) ==
  /\ sched.status \in {"ENABLED", "PAUSED"} /\ rows[k] = "ABSENT"
  /\ rows' = InsertRun({k}, "DUE")
  /\ UNCHANGED <<now, sched, noted, since, missedPolicy>>

\* retry_run: a new Run for an ended one, whatever the Schedule's status.
RetryScheduleRun(k, x) ==
  /\ rows[x] \in RUN_TERMINAL \ {"SUCCEEDED"} /\ rows[k] = "ABSENT"
  /\ rows' = InsertRun({k}, "DUE")
  /\ UNCHANGED <<now, sched, noted, since, missedPolicy>>

-----------------------------------------------------------------------------
\* Mutant of PlanFrom: planning always starts from the present.
PlanFromNow == now

\* plan_schedule's window starts where the last one ended.
PlanFrom == sched.planned

\* _occurrences: the executable instants of the window, and the gaps up to
\* the first executable instant behind it.
InWindow(v, from, until) == {o \in Executable(v) : from < o /\ o <= until}
GapsIn(v, from, until) ==
  {g \in OccurrencesOf[v] \cap Gaps :
     from < g /\ \A o \in Executable(v) : ~(until < o /\ o < g)}

\* plan_schedule: upcoming occurrences become PENDING Runs, missed ones are
\* left to the policy, and every one that gets no Run gets a note.
PlanSchedule ==
  LET until == now + Horizon
      found == InWindow(sched.version, PlanFrom, until)
      missed == {o \in found : o <= now}
      create == (found \ missed) \cup
                MissedToCreate(missedPolicy, missed, now, BackfillWindow, BackfillLimit)
  IN
  /\ sched.status = "ENABLED"
  /\ rows' = InsertRun(create, "PENDING")
  /\ noted' = noted \cup (found \ create)
                    \cup GapsIn(sched.version, PlanFrom, until)
  /\ sched' = [sched EXCEPT !.planned = until]
  /\ UNCHANGED <<now, since, missedPolicy>>

\* mark_due
MarkDue ==
  /\ \E o \in Instants : rows[o] = "PENDING" /\ o <= now
  /\ rows' = [x \in RowIds |-> IF x \in Instants /\ rows[x] = "PENDING" /\ x <= now
                               THEN "DUE" ELSE rows[x]]
  /\ UNCHANGED <<now, sched, noted, since, missedPolicy>>

\* A worker executes a due Run to its end (execute, on_task_terminal).
RunEnds(x, end) ==
  /\ rows[x] = "DUE" /\ rows' = [rows EXCEPT ![x] = end]
  /\ UNCHANGED <<now, sched, noted, since, missedPolicy>>

ClockTick ==
  /\ now < MaxNow /\ now' = now + 1
  /\ UNCHANGED <<sched, rows, noted, since, missedPolicy>>

PlanCommand ==
  \/ CreateSchedule \/ EnableSchedule
  \/ \E v \in Versions : CommitVersion(v)
  \/ \E target \in {"PAUSED", "DISABLED"} : StopSchedule(target)
  \/ \E k \in RequestKeys : RunScheduleNow(k)
                            \/ \E x \in RowIds : RetryScheduleRun(k, x)

PlannerNext ==
  \/ planCommands < MaxPlanCommands /\ PlanCommand /\ planCommands' = planCommands + 1
  \/ /\ \/ PlanSchedule \/ MarkDue \/ ClockTick
        \/ \E x \in RowIds, end \in {"SUCCEEDED", "FAILED"} : RunEnds(x, end)
     /\ UNCHANGED planCommands

PlannerSpec == PlannerInit /\ [][PlannerNext]_plannerVars

-----------------------------------------------------------------------------
PlannerTypeOK ==
  /\ now \in 0..MaxNow /\ since \in Nat /\ noted \subseteq Instants
  /\ sched \in [status : ScheduleStatus \cup {"NONE"}, version : Versions, planned : Nat]
  /\ rows \in [RowIds -> RunStatus \cup {"ABSENT"}]
  /\ missedPolicy \in MissedPolicies /\ planCommands \in 0..MaxPlanCommands

\* However late the ticks are and whenever the Schedule was paused, resumed or
\* given a new version: every occurrence of an enabled Schedule between the
\* start of planning and the end of the planned window has a Run or a note
\* that says why it has none.  And a Schedule that is not enabled has no planned
\* occurrence left to run: what a pause or a disable cancels, only a user's
\* retry brings back (plan_schedule, plan_missed_runs,
\* _cancel_pending_runs).
NoOccurrenceLost ==
  IF sched.status = "ENABLED"
  THEN \A o \in OccurrencesOf[sched.version] :
         since < o /\ o <= sched.planned => rows[o] # "ABSENT" \/ o \in noted
  ELSE \A o \in Instants : rows[o] \notin RUN_PENDING
==============================================================================
