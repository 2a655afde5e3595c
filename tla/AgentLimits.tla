----------------------------- MODULE AgentLimits -----------------------------
(***************************************************************************)
(* What an Agent's calls may cost: the Limits enforced before a work poll, *)
(* a work result and a Task acceptance, and the usage an Agent reports     *)
(* (server/agents/limits.py, server/application/work.py, server/usage/,    *)
(* server/application/usage.py).                                           *)
(*                                                                         *)
(* One Agent, called for by several requests at once.  enforce_limits      *)
(* reads the counters without a lock, then counts the request by an upsert *)
(* that holds the window's row until the commit.  A work result locks its  *)
(* item; a Task acceptance is a compare-and-swap on the Task's stream.     *)
(* All within one day, which is what the daily cost is summed over.        *)
(***************************************************************************)
EXTENDS Naturals, Sequences, FiniteSets
LOCAL SE == INSTANCE SequencesExt

CONSTANTS AgentRequests, \* requests of the Agent that run at the same time
          LimitSets,    \* limits an Agent may have: functions of limit names
          AgentTasks,   \* Tasks delegated to the Agent
          AgentItems,   \* its work items
          MaxAgentCalls, MaxMinutes, MaxReports  \* bounds

LimitNames == {"requests_per_minute", "concurrent_tasks", "daily_cost_units", "per_task_cost_units"}

ASSUME AgentLimitsAssumption ==
  /\ \A l \in LimitSets : DOMAIN l \subseteq LimitNames /\ \A n \in DOMAIN l : l[n] \in Nat
  /\ {MaxAgentCalls, MaxReports} \subseteq Nat /\ MaxMinutes \in Nat \ {0}
  /\ IsFiniteSet(AgentRequests) /\ AgentRequests # {} /\ IsFiniteSet(AgentTasks)

VARIABLES
  agentLimits, \* agents.limits: an absent name is unlimited
  rateMinute,  \* the present window
  rateWindows, \* agent_rate_windows: requests by minute
  agentTask,   \* its Tasks: DELEGATED, ACTIVE (accepted, not ended), ENDED
  workItems,   \* its work items: OPEN or RESULTED
  usageRows,   \* usage_records: item ("none" without), via, cost
  unmetered,   \* items whose result came before any pricing version
  priced,      \* a pricing version is activated
  denied,      \* limits with an agent.limit_exceeded audit row
  budgetMoves, \* Tasks handed to on_budget_exceeded
  served,      \* the transaction of each request
  agentCalls   \* calls begun

agentLimitsVars == <<agentLimits, rateMinute, rateWindows, agentTask, workItems, usageRows, unmetered, priced, denied,
                     budgetMoves, served, agentCalls>>

usageVars == <<usageRows, unmetered>>
refusalVars == <<denied, budgetMoves>>
clockVars == <<agentLimits, rateMinute>>

NoServe == [step |-> "idle", kind |-> "none", on |-> "none", minute |-> 1, cost |-> 0, open |-> FALSE]
UsageReports == {"metered", "unavailable"}
CallKinds == {"poll", "result", "accept"}

AgentLimitsInit ==
  /\ agentLimits \in LimitSets
  /\ rateMinute = 1
  /\ rateWindows = [m \in 1..MaxMinutes |-> 0]
  /\ agentTask = [t \in AgentTasks |-> "DELEGATED"]
  /\ workItems = [i \in AgentItems |-> "OPEN"]
  /\ usageRows = <<>>
  /\ unmetered = {}
  /\ priced \in BOOLEAN
  /\ denied = {}
  /\ budgetMoves = {}
  /\ served = [r \in AgentRequests |-> NoServe]
  /\ agentCalls = 0

Serve(r, s) == served' = [served EXCEPT ![r] = s]
EndServe(r) == Serve(r, NoServe)

-----------------------------------------------------------------------------
(***************************************************************************)
(* enforce_limits.                                                         *)
(***************************************************************************)
ConcurrentTasks == Cardinality({t \in AgentTasks : agentTask[t] = "ACTIVE"})
AddCost(row, sum) == row.cost + sum
DailyCost == SE!FoldRight(AddCost, usageRows, 0)

\* evaluate: the limits relevant to the kind of call, with their counters.  A
\* Task being accepted is not ACTIVE yet and so is not counted itself.
RelevantLimits(kind) ==
  DOMAIN agentLimits \cap ({"requests_per_minute", "daily_cost_units"}
                       \cup (IF kind = "accept" THEN {"concurrent_tasks"} ELSE {}))
CurrentOf(r, name) ==
  CASE name = "requests_per_minute" -> rateWindows[served[r].minute]
    [] name = "concurrent_tasks" -> ConcurrentTasks
    [] name = "daily_cost_units" -> DailyCost

\* LimitCheck.exceeded.
ExceededLimits(r) == {n \in RelevantLimits(served[r].kind) : CurrentOf(r, n) >= agentLimits[n]}

\* The one that is reported: the checks are made in this order.
FirstExceeded(r) ==
  IF "requests_per_minute" \in ExceededLimits(r) THEN "requests_per_minute"
  ELSE IF "concurrent_tasks" \in ExceededLimits(r) THEN "concurrent_tasks"
  ELSE "daily_cost_units"

BeginAgentCall(r, kind, on) ==
  /\ served[r] = NoServe
  /\ agentCalls < MaxAgentCalls
  /\ agentCalls' = agentCalls + 1
  /\ Serve(r, [NoServe EXCEPT !.step = "enforce", !.kind = kind, !.on = on, !.minute = rateMinute])
  /\ UNCHANGED <<clockVars, rateWindows, agentTask, workItems, usageVars, priced, refusalVars>>

\* usage_for refuses the scope agent_task without a day, which evaluate does
\* not pass: with a per-Task cost limit no acceptance gets any further.
ScopeRefused(r) == served[r].kind = "accept" /\ "per_task_cost_units" \in DOMAIN agentLimits

\* _audit_independent: the refusal is on record whatever becomes of the request.
AuditIndependent(n) == denied \cup {n}

\* Enough to go on, or AGENT_LIMIT_EXCEEDED: the audit row and, for a cost
\* limit of a Task, the re-route are transactions of their own.
EnforceLimits(r) ==
  /\ served[r].step = "enforce"
  /\ IF ScopeRefused(r) THEN EndServe(r) /\ UNCHANGED <<denied, budgetMoves>>
     ELSE IF ExceededLimits(r) = {}
     THEN /\ Serve(r, [served[r] EXCEPT
                         !.step = IF "requests_per_minute" \in DOMAIN agentLimits THEN "count" ELSE "effect"])
          /\ UNCHANGED <<denied, budgetMoves>>
     ELSE LET n == FirstExceeded(r)
          IN /\ denied' = AuditIndependent(n)
             /\ budgetMoves' = IF n = "daily_cost_units" /\ served[r].kind = "accept"
                               THEN budgetMoves \cup {served[r].on} ELSE budgetMoves
             /\ EndServe(r)
  /\ UNCHANGED <<clockVars, rateWindows, agentTask, workItems, usageVars, priced, agentCalls>>

\* _count_request: the upsert waits for the transaction that holds the row.
CountedRequest(r) == served[r].step \in {"effect", "loaded"} /\ "requests_per_minute" \in DOMAIN agentLimits
CountRequest(r) ==
  /\ served[r].step = "count"
  /\ \A q \in AgentRequests \ {r} : ~(CountedRequest(q) /\ served[q].minute = served[r].minute)
  /\ Serve(r, [served[r] EXCEPT !.step = "effect"])
  /\ UNCHANGED <<clockVars, rateWindows, agentTask, workItems, usageVars, priced, refusalVars, agentCalls>>

CommitCount(r) ==
  rateWindows' = IF CountedRequest(r) THEN [rateWindows EXCEPT ![served[r].minute] = @ + 1] ELSE rateWindows

-----------------------------------------------------------------------------
(***************************************************************************)
(* The calls themselves.                                                   *)
(***************************************************************************)
\* work_poll; the deliveries are in WorkInbox.
PollWork(r) ==
  /\ served[r].step = "effect" /\ served[r].kind = "poll"
  /\ CommitCount(r)
  /\ EndServe(r)
  /\ UNCHANGED <<clockVars, agentTask, workItems, usageVars, priced, refusalVars, agentCalls>>

\* accept_task: TASK_ACCEPTED, or a refusal that also takes back the count.
AgentAccepts(r) ==
  /\ served[r].step = "effect" /\ served[r].kind = "accept"
  /\ IF agentTask[served[r].on] = "DELEGATED"
     THEN agentTask' = [agentTask EXCEPT ![served[r].on] = "ACTIVE"] /\ CommitCount(r)
     ELSE UNCHANGED <<agentTask, rateWindows>>
  /\ EndServe(r)
  /\ UNCHANGED <<clockVars, workItems, usageVars, priced, refusalVars, agentCalls>>

\* Mutant of ItemFree: the item is read without FOR UPDATE.
ItemShared(r) == served[r].on \in AgentItems

\* No other result holds the item's row.
ItemFree(r) == \A q \in AgentRequests \ {r} : ~(served[q].step = "loaded" /\ served[q].on = served[r].on)

\* work_result reads its item FOR UPDATE; the report says what it cost, or
\* that its cost is not known (normalize_usage).
LoadResultItem(r, report) ==
  /\ served[r].step = "effect" /\ served[r].kind = "result"
  /\ ItemFree(r)
  /\ Serve(r, [served[r] EXCEPT !.step = "loaded", !.open = (workItems[served[r].on] = "OPEN"),
                                !.cost = IF report = "metered" THEN 1 ELSE 0])
  /\ UNCHANGED <<clockVars, rateWindows, agentTask, workItems, usageVars, priced, refusalVars, agentCalls>>

UsageRow(item, via, cost) == [item |-> item, via |-> via, cost |-> cost]

\* current_pricing: PRICING_NOT_ACTIVATED before the first version.
CurrentPricing == priced

\* record_usage: a row per report, with no look at the rows there are.
RecordUsage(row) == IF CurrentPricing THEN Append(usageRows, row) ELSE usageRows

\* RESULT_ACCEPTED with record_result_usage, which leaves nothing but a log
\* line before the first pricing version; or DUPLICATE_RESULT_IGNORED.
RecordResult(r) ==
  LET i == served[r].on
  IN /\ served[r].step = "loaded"
     /\ IF served[r].open
        THEN /\ workItems' = [workItems EXCEPT ![i] = "RESULTED"]
             /\ usageRows' = RecordUsage(UsageRow(i, "result", served[r].cost))
             /\ unmetered' = IF CurrentPricing THEN unmetered ELSE unmetered \cup {i}
        ELSE UNCHANGED <<workItems, usageRows, unmetered>>
     /\ CommitCount(r)
     /\ EndServe(r)
     /\ UNCHANGED <<clockVars, agentTask, priced, refusalVars, agentCalls>>

\* A lost process, or a command that is refused: the count goes with it.
LoseCall(r) ==
  /\ served[r] # NoServe
  /\ EndServe(r)
  /\ UNCHANGED <<clockVars, rateWindows, agentTask, workItems, usageVars, priced, refusalVars, agentCalls>>

-----------------------------------------------------------------------------
(***************************************************************************)
(* Usage reported elsewhere, pricing, and the rest of the system.          *)
(***************************************************************************)
\* ReportUsage and the usage of a heartbeat: no limit, no key to repeat
\* under, and an error before the first pricing version.
ReportUsage(item, via) ==
  /\ CurrentPricing
  /\ Cardinality({n \in DOMAIN usageRows : usageRows[n].via # "result"}) < MaxReports
  /\ usageRows' = RecordUsage(UsageRow(item, via, 1))
  /\ UNCHANGED <<clockVars, rateWindows, agentTask, workItems, unmetered, priced, refusalVars, served, agentCalls>>

ActivatePricing ==
  /\ ~priced
  /\ priced' = TRUE
  /\ UNCHANGED <<clockVars, rateWindows, agentTask, workItems, usageVars, refusalVars, served, agentCalls>>

AgentTaskEnds(t) ==
  /\ agentTask[t] = "ACTIVE"
  /\ agentTask' = [agentTask EXCEPT ![t] = "ENDED"]
  /\ UNCHANGED <<clockVars, rateWindows, workItems, usageVars, priced, refusalVars, served, agentCalls>>

MinuteTurns ==
  /\ rateMinute < MaxMinutes
  /\ rateMinute' = rateMinute + 1
  /\ UNCHANGED <<agentLimits, rateWindows, agentTask, workItems, usageVars, priced, refusalVars, served, agentCalls>>

AgentLimitsNext ==
  \/ \E r \in AgentRequests :
       \/ BeginAgentCall(r, "poll", "none")
       \/ \E i \in AgentItems : BeginAgentCall(r, "result", i)
       \/ \E t \in AgentTasks : BeginAgentCall(r, "accept", t)
       \/ EnforceLimits(r) \/ CountRequest(r)
       \/ PollWork(r) \/ AgentAccepts(r) \/ RecordResult(r)
       \/ \E report \in UsageReports : LoadResultItem(r, report)
       \/ LoseCall(r)
  \/ ReportUsage("none", "heartbeat") \/ \E i \in AgentItems : ReportUsage(i, "report")
  \/ ActivatePricing \/ MinuteTurns
  \/ \E t \in AgentTasks : AgentTaskEnds(t)

AgentLimitsSpec == AgentLimitsInit /\ [][AgentLimitsNext]_agentLimitsVars

-----------------------------------------------------------------------------
AgentLimitsTypeOK ==
  /\ agentLimits \in LimitSets
  /\ rateMinute \in 1..MaxMinutes /\ rateWindows \in [1..MaxMinutes -> 0..MaxAgentCalls]
  /\ agentTask \in [AgentTasks -> {"DELEGATED", "ACTIVE", "ENDED"}]
  /\ workItems \in [AgentItems -> {"OPEN", "RESULTED"}]
  /\ unmetered \subseteq AgentItems /\ priced \in BOOLEAN
  /\ denied \subseteq LimitNames /\ budgetMoves \subseteq AgentTasks
  /\ \A r \in AgentRequests : served[r].kind \in CallKinds \cup {"none"}

\* Two requests of one Agent at once neither lose nor double what it uses, and
\* its limits hold but for them.  Every accepted result is metered exactly once,
\* however often it is sent and however many requests carry it: one usage record
\* per item that has its result, or none and a warning when nothing was priced
\* yet (work_result, record_result_usage "exactly once per result").  The counters
\* are read before they are raised, so requests that run together may pass a
\* limit, never by more than the requests there are beside the one the limit
\* admits (enforce_limits, concurrent_tasks and requests_per_minute).
MeteredWithinLimits ==
  LET slack == Cardinality(AgentRequests) - 1
      results(i) == {n \in 1..Len(usageRows) : usageRows[n].item = i /\ usageRows[n].via = "result"}
  IN /\ \A i \in AgentItems :
          Cardinality(results(i)) = IF workItems[i] = "RESULTED" /\ i \notin unmetered THEN 1 ELSE 0
     /\ "concurrent_tasks" \in DOMAIN agentLimits => ConcurrentTasks <= agentLimits["concurrent_tasks"] + slack
     /\ "requests_per_minute" \in DOMAIN agentLimits =>
          \A m \in 1..MaxMinutes : rateWindows[m] <= agentLimits["requests_per_minute"] + slack
==============================================================================
