---------------------------- MODULE TaskRouting -----------------------------
(***************************************************************************)
(* Who works on a Task: delegation, reassignment by hand and automatic     *)
(* re-routing, with the assignment work items they enqueue and cancel      *)
(* (server/agents/rerouting.py, server/application/orchestration.py,       *)
(* server/application/tasks.py, server/application/agents.py).             *)
(*                                                                         *)
(* A re-route is part of the transaction of its trigger: a rejected item,  *)
(* the sweep of overdue items, an Agent that becomes unavailable, a budget *)
(* overrun.  reroute_task loads the Task and counts its re-routes without  *)
(* a lock, and then issues ReassignTask or MarkWaiting, which load the     *)
(* Task again.  Those append to the task stream and from there on hold its *)
(* lock (EventStore), so what a transaction does after its first append is *)
(* applied at once while `lock` stops the others: what they could do       *)
(* meanwhile they could as well have done just before.  A command by hand  *)
(* whose compare-and-swap succeeds is one step for the same reason.        *)
(* One Task; WorkInbox has the timers and deliveries of the items.         *)
(***************************************************************************)
EXTENDS TaskTable, Naturals, Sequences, FiniteSets

CONSTANTS Agents, Humans,   \* accounts; Humans have no work inbox
          Callers, Sweeper, \* transactions: of commands, of the maintenance loop
          None,
          Limit,            \* TASK_ASSIGNMENT_REROUTES
          Events,           \* bound: Event types others append to the Task
          MaxByHand         \* bound: reassignments by hand

ASSUME RoutingAssumption ==
  /\ Limit \in Nat
  /\ MaxByHand \in Nat
  /\ Agents \cap Humans = {}
  /\ Sweeper \notin Callers
  /\ None \notin Callers \cup {Sweeper} \cup Agents
  /\ Events \subseteq Types \ Assignments

VARIABLES
  status,    \* status of the Task
  assigned,  \* task_assignments by revision: the account, and the revision
             \* a re-route started from (0: assigned by hand)
  item,      \* by revision, the status of its assignment work item
  waits,     \* revisions whose idempotency key of MarkWaiting is used
  lock,      \* transaction that has appended to the task stream
  pc, todo,  \* where each transaction is, re-routes it has left to do
  base,      \* the revision of the Task it loaded first
  waited,    \* and whether the Task was WAITING then
  seen,      \* revisions it had read when it selected a candidate
  pick,      \* the candidate it selected
  ended      \* items it has ended and not yet committed

txnVars == <<pc, todo, base, waited, seen, pick, ended>>
vars == <<status, assigned, item, waits, lock, txnVars>>

Txns == Callers \cup {Sweeper}
Accounts == Agents \cup Humans
Reroutable == {"DELEGATED", "ACCEPTED", "RUNNING", "WAITING"}
\* UNACKED: queued or delivered (an Agent polls when it likes; see WorkInbox).
OpenStates == {"UNACKED", "ACKED", "IN_PROGRESS"}

Revision == Len(assigned)
Assignee == assigned[Revision].who
OpenItems == {r \in 1..Len(item) : item[r] \in OpenStates}

\* Mutant of FreeFor: rows are read without FOR UPDATE.
FreeForAll(c, rows) == rows \subseteq 1..Len(item)

\* Rows that no other transaction has locked by ending them.
FreeFor(c, rows) == \A d \in Txns \ {c} : rows \cap ended[d] = {}

\* No other transaction has appended to the task stream.
Quiet(c) == lock \in {None, c}
\* Committed rows with those of `rows` ended.
Ending(rows) ==
  [r \in 1..Len(item) |-> IF r \in rows THEN "ENDED" ELSE item[r]]

-----------------------------------------------------------------------------
(***************************************************************************)
(* Assignment: DelegateTask and ReassignTask with after_assignment.        *)
(***************************************************************************)
\* Mutant of Superseded: only the item of the last revision.
SupersededLast(who, rows) ==
  {r \in rows : who \in Agents /\ assigned[r].who # who /\ r = Revision}

\* cancel_open_assignments on the open items `rows`: those of other Agents,
\* and only when the new assignee is an Agent (after_assignment returns early
\* for others).
Superseded(who, rows) ==
  {r \in rows : who \in Agents /\ assigned[r].who # who}

\* The row enqueued for the new revision; "NONE" for a Human.
NewItem(who) == IF who \in Agents THEN "UNACKED" ELSE "NONE"

Assign(who, from, type) ==
  /\ Allowed(status, type)
  /\ status' = NextStatus(status, type)
  /\ assigned' = Append(assigned, [who |-> who, base |-> from])

\* By a user.  Reassignment admits the present assignee, who keeps its items.
AssignByHand(who, type) ==
  LET gone == Superseded(who, OpenItems)
  IN /\ lock = None
     /\ FreeFor(None, gone)
     /\ Assign(who, 0, type)
     /\ item' = Append(Ending(gone), NewItem(who))
     /\ UNCHANGED <<waits, lock, txnVars>>

DelegateTask(who) == AssignByHand(who, "TASK_DELEGATED")

ByHand(n) == Cardinality({r \in 2..n : assigned[r].base = 0})

ReassignTask(who) ==
  /\ ByHand(Revision) < MaxByHand
  /\ AssignByHand(who, "TASK_REASSIGNED")

\* Every other command on the Task, as far as its status is concerned.
Move(type) ==
  /\ lock = None
  /\ Allowed(status, type)
  /\ status' = NextStatus(status, type)
  /\ UNCHANGED <<assigned, item, waits, lock, txnVars>>

-----------------------------------------------------------------------------
(***************************************************************************)
(* The Agents' side of an item; a row another transaction has ended is     *)
(* locked (FOR UPDATE).                                                    *)
(***************************************************************************)
ItemStep(r, from, to) ==
  /\ lock = None
  /\ item[r] \in from
  /\ FreeFor(None, {r})
  /\ item' = [item EXCEPT ![r] = to]
  /\ UNCHANGED <<status, assigned, waits, lock, txnVars>>

Ack(r) == ItemStep(r, {"UNACKED"}, "ACKED")
Start(r) == ItemStep(r, {"ACKED"}, "IN_PROGRESS")
Result(r) == ItemStep(r, {"ACKED", "IN_PROGRESS"}, "ENDED")

-----------------------------------------------------------------------------
(***************************************************************************)
(* Triggers: transactions that call reroute_task n times, having ended the *)
(* items `rows`.                                                           *)
(***************************************************************************)
Trigger(c, n, rows) ==
  /\ pc[c] = "IDLE"
  /\ lock = None
  /\ FreeFor(c, rows)
  /\ pc' = [pc EXCEPT ![c] = IF n = 0 THEN "END" ELSE "LOAD"]
  /\ todo' = [todo EXCEPT ![c] = n]
  /\ ended' = [ended EXCEPT ![c] = rows]
  /\ UNCHANGED <<status, assigned, item, waits, lock, base, waited, seen, pick>>

\* The hook of work_reject: in its transaction, as the system Account.
WorkReject(c, r) == r \in OpenItems /\ Trigger(c, 1, {r})

\* The assignee goes offline, is suspended or revoked.
AgentUnavailable(c) ==
  /\ Revision > 0 /\ Assignee \in Agents
  /\ status \in Reroutable
  /\ Trigger(c, 1, {})

\* Cost limit exceeded: re-routes in a transaction of its own.
BudgetExceeded(c) == Trigger(c, 1, {})

\* The sweep expires some items, and re-routes once per item that was
\* acknowledged and not accepted in time; it does not read those again.
SweepWorkItems ==
  \E expired \in SUBSET OpenItems :
    \E overdue \in SUBSET {r \in OpenItems \ expired : item[r] = "ACKED"} :
      /\ expired \cup overdue # {}
      /\ Trigger(Sweeper, Cardinality(overdue), expired)

-----------------------------------------------------------------------------
(***************************************************************************)
(* reroute_task, step by step.                                             *)
(***************************************************************************)
\* What the transaction has read is of no use any more.
Forget(c) ==
  /\ base' = [base EXCEPT ![c] = 0]
  /\ waited' = [waited EXCEPT ![c] = FALSE]
  /\ seen' = [seen EXCEPT ![c] = 0]
  /\ pick' = [pick EXCEPT ![c] = None]

\* One re-route of the transaction is done.
Done(c) ==
  /\ todo' = [todo EXCEPT ![c] = @ - 1]
  /\ pc' = [pc EXCEPT ![c] = IF todo[c] > 1 THEN "LOAD" ELSE "END"]
  /\ Forget(c)

Goto(c, l) == pc' = [pc EXCEPT ![c] = l] /\ UNCHANGED todo

\* The first load_task; NOOP unless the status can be re-routed.
LoadTask(c) ==
  /\ pc[c] = "LOAD" /\ Quiet(c)
  /\ IF status \in Reroutable
     THEN /\ base' = [base EXCEPT ![c] = Revision]
          /\ waited' = [waited EXCEPT ![c] = (status = "WAITING")]
          /\ Goto(c, "SELECT")
          /\ UNCHANGED <<seen, pick>>
     ELSE Done(c)
  /\ UNCHANGED <<status, assigned, item, waits, lock, ended>>

Autos(n) == Cardinality({r \in 1..n : assigned[r].base # 0})

\* Mutant of Excluded: only the assignee when the Task was loaded.
ExcludedCurrent(c, n) == {assigned[base[c]].who}

\* previous_assignees, read when there were n revisions.
Excluded(c, n) == {assigned[r].who : r \in 1..n}

\* previous_assignees, reroute_count and select_assignee are reads of their
\* own: the first saw the revisions up to n, the second those up to m.
\* Eligibility (online, member, capable, capacity, policy) is any choice.
SelectAssignee(c) ==
  /\ pc[c] = "SELECT" /\ Quiet(c)
  /\ \E n \in base[c]..Revision : \E m \in n..Revision :
       /\ seen' = [seen EXCEPT ![c] = m]
       /\ \/ /\ Autos(m) < Limit
             /\ \E a \in Agents \ Excluded(c, n) : pick' = [pick EXCEPT ![c] = a]
             /\ Goto(c, "REASSIGN")
          \/ /\ pick' = [pick EXCEPT ![c] = None]
             /\ Goto(c, "CANCEL")
  /\ UNCHANGED <<status, assigned, item, waits, lock, base, waited, ended>>

\* Mutant of Replayed: the key is made from the revision that is replaced.
ReplayedFresh(c) == \E r \in 1..Revision : assigned[r].base = Revision

\* The idempotency key names the revision that was loaded first, and every
\* trigger acts as the same system Account: the Event exists already.
Replayed(c) == \E r \in 1..Revision : assigned[r].base = base[c]

\* ReassignTask by the system Account, on a fresh load of the Task.
Reroute(c) ==
  LET gone == Superseded(pick[c], OpenItems \ ended[c])
  IN /\ pc[c] = "REASSIGN" /\ Quiet(c)
     /\ \/ /\ Replayed(c)
           /\ UNCHANGED <<status, assigned, item, lock, ended>>
        \/ /\ ~Replayed(c)
           /\ FreeFor(c, gone)
           /\ Assign(pick[c], base[c], "TASK_REASSIGNED")
           /\ item' = Append(item, NewItem(pick[c]))
           /\ ended' = [ended EXCEPT ![c] = @ \cup gone]
           /\ lock' = c
     /\ Done(c)
     /\ UNCHANGED waits

\* _cancel_assignments: the open items of every Agent, as read when there
\* were n revisions; then nothing more if the Task was WAITING at first.
CancelAssignments(c) ==
  /\ pc[c] = "CANCEL" /\ Quiet(c)
  /\ \E n \in seen[c]..Revision :
       LET rows == {r \in OpenItems : r <= n} \ ended[c]
       IN /\ FreeFor(c, rows)
          /\ ended' = [ended EXCEPT ![c] = @ \cup rows]
  /\ IF waited[c] THEN Done(c)
     ELSE Goto(c, "MARK") /\ UNCHANGED <<base, waited, seen, pick>>
  /\ UNCHANGED <<status, assigned, item, waits, lock>>

\* MarkWaiting by the system Account, on a fresh load of the Task.
MarkWaiting(c) ==
  /\ pc[c] = "MARK" /\ Quiet(c)
  /\ \/ /\ base[c] \in waits
        /\ UNCHANGED <<status, waits, lock>>
     \/ /\ base[c] \notin waits
        /\ Allowed(status, "TASK_WAITING")
        /\ status' = NextStatus(status, "TASK_WAITING")
        /\ waits' = waits \cup {base[c]}
        /\ lock' = c
  /\ Done(c)
  /\ UNCHANGED <<assigned, item, ended>>

-----------------------------------------------------------------------------
EndTxn(c) ==
  /\ pc' = [pc EXCEPT ![c] = "IDLE"]
  /\ todo' = [todo EXCEPT ![c] = 0]
  /\ Forget(c)
  /\ ended' = [ended EXCEPT ![c] = {}]

Commit(c) ==
  /\ pc[c] = "END"
  /\ item' = Ending(ended[c])
  /\ lock' = IF lock = c THEN None ELSE lock
  /\ EndTxn(c)
  /\ UNCHANGED <<status, assigned, waits>>

\* SEQUENCE_CONFLICT, an Event not allowed any more, a deadlock victim, a
\* lost process: the trigger's own work is rolled back too.
Rollback(c) ==
  /\ pc[c] # "IDLE"
  /\ lock # c
  /\ EndTxn(c)
  /\ UNCHANGED <<status, assigned, item, waits, lock>>

Init ==
  /\ status = "OPEN"
  /\ assigned = <<>>
  /\ item = <<>>
  /\ waits = {}
  /\ lock = None
  /\ pc = [c \in Txns |-> "IDLE"]
  /\ todo = [c \in Txns |-> 0]
  /\ base = [c \in Txns |-> 0]
  /\ waited = [c \in Txns |-> FALSE]
  /\ seen = [c \in Txns |-> 0]
  /\ pick = [c \in Txns |-> None]
  /\ ended = [c \in Txns |-> {}]

RerouteStep(c) ==
  \/ LoadTask(c)
  \/ SelectAssignee(c)
  \/ Reroute(c)
  \/ CancelAssignments(c)
  \/ MarkWaiting(c)
  \/ Commit(c)
  \/ Rollback(c)

Next ==
  \/ \E who \in Accounts : DelegateTask(who) \/ ReassignTask(who)
  \/ \E type \in Events : Move(type)
  \/ \E r \in 1..Len(item) : Ack(r) \/ Start(r) \/ Result(r)
  \/ \E c \in Callers :
       \/ \E r \in 1..Len(item) : WorkReject(c, r)
       \/ AgentUnavailable(c)
       \/ BudgetExceeded(c)
  \/ SweepWorkItems
  \/ \E c \in Txns : RerouteStep(c)

Spec == Init /\ [][Next]_vars

-----------------------------------------------------------------------------
(***************************************************************************)
(* Properties                                                              *)
(***************************************************************************)
TaskTypeOK ==
  /\ status \in Statuses
  /\ assigned \in Seq([who : Accounts, base : Nat])
  /\ item \in Seq(OpenStates \cup {"NONE", "ENDED"})
  /\ Len(item) = Revision
  /\ waits \subseteq 1..Revision

TxnTypeOK ==
  /\ lock \in Txns \cup {None}
  /\ pc \in [Txns -> {"IDLE", "LOAD", "SELECT", "REASSIGN", "CANCEL", "MARK",
                      "END"}]
  /\ todo \in [Txns -> Nat]
  /\ base \in [Txns -> Nat]
  /\ waited \in [Txns -> BOOLEAN]
  /\ seen \in [Txns -> Nat]
  /\ pick \in [Txns -> Agents \cup {None}]
  /\ ended \in [Txns -> SUBSET Nat]
  /\ \A c \in Txns : /\ base[c] <= Revision
                     /\ seen[c] <= Revision
                     /\ ended[c] \subseteq OpenItems

\* Types, one item entry per revision, revisions read that exist, and locked
\* items that are still open (a row is ended by one transaction).
TypeOK == TaskTypeOK /\ TxnTypeOK

\* What is open once the transaction that holds the lock has committed.
OpenSoon == OpenItems \ (IF lock = None THEN {} ELSE ended[lock])

\* At any time the open assignment items of a Task belong to one Agent, and
\* to its assignee if that is an Agent: a superseded Agent has been told to
\* stop when its successor can start (cancel_open_assignments), whatever
\* rejections, sweeps and reassignments by hand overlap.
OneAgentAtWork ==
  \A r \in OpenSoon :
    /\ \A q \in OpenSoon : assigned[q].who = assigned[r].who
    /\ Assignee \in Agents => assigned[r].who = Assignee

\* reroute_task counts re-routes before it adds one, without a lock.  Its
\* idempotency key makes up for it, except that each reassignment by hand
\* opens the door for one more automatic one than TASK_ASSIGNMENT_REROUTES.
ReroutesBounded ==
  Revision > 0 => Autos(Revision) <= Limit + ByHand(Revision)

\* A re-route never gives the Task to an account that had had it when the
\* trigger loaded it (exclude), although ReassignTask runs on a later state.
NeverBack ==
  \A r \in 1..Revision : assigned[r].base # 0 =>
    \A q \in 1..assigned[r].base : assigned[q].who # assigned[r].who

\* A re-route that finds no candidate and reports WAITING leaves the Task
\* WAITING (reroute_task ends with MarkWaiting).
NoCandidateWaits ==
  [][\A c \in Txns : pc[c] = "MARK" /\ pc'[c] \in {"LOAD", "END"}
                       => status' = "WAITING"]_vars
=============================================================================
