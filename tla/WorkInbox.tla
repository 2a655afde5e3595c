----------------------------- MODULE WorkInbox ------------------------------
(***************************************************************************)
(* The durable work item inbox (server/work/inbox.py, work/state.py,       *)
(* work/receipts.py, application/work.py) and its timeout sweep            *)
(* (work/timeouts.py, agents/maintenance.py).                              *)
(*                                                                         *)
(* Every Agent operation loads the row FOR UPDATE and is one step here.    *)
(* The sweep is not: it reads all open rows without a lock, decides for    *)
(* each from what it read, then locks and changes row after row in one     *)
(* transaction, checking again only that the transition table allows the   *)
(* change from the status the row has by then.  An invalid transition      *)
(* aborts the whole sweep.                                                 *)
(***************************************************************************)
EXTENDS Naturals, FiniteSets

CONSTANTS Items,            \* work item ids
          Assignments,      \* the items of an assignment kind
          MaxRedeliveries,  \* WORK_ITEM_MAX_REDELIVERIES
          MaxCrashes        \* bound: crashes of the sweeping process

ASSUME InboxAssumption ==
  /\ Assignments \subseteq Items
  /\ MaxRedeliveries \in Nat
  /\ MaxCrashes \in Nat

VARIABLES
  status,    \* work_items.status; "ABSENT" before the item is queued
  count,     \* delivery_count
  events,    \* the WORK_ITEM_* Events of the item other than its deliveries
  results,   \* number of result receipts
  ignored,   \* items with a duplicate_result receipt
  due,       \* items whose timer (ack or accept, by status) has run out
  past,      \* items whose deadline has passed
  sweeper,   \* "busy" while a sweep transaction is open
  decision,  \* what the open sweep decided and has not carried out yet
  write,     \* the open sweep's uncommitted change of a row it has locked
  crashes

vars == <<status, count, events, results, ignored, due, past, sweeper,
          decision, write, crashes>>
sweepVars == <<sweeper, decision, write, crashes>>

Open == {"QUEUED", "DELIVERED", "ACKED", "IN_PROGRESS"}
Terminal == {"RESULT_RECEIVED", "REJECTED", "EXPIRED", "CANCELLED"}

\* TRANSITIONS: the states an action is allowed from.
Sources(action) ==
  CASE action = "deliver" -> {"QUEUED"}
    [] action \in {"redeliver", "ack"} -> {"DELIVERED"}
    [] action = "start" -> {"ACKED"}
    [] action = "result" -> {"ACKED", "IN_PROGRESS"}
    [] action = "reject" -> {"DELIVERED", "ACKED", "IN_PROGRESS"}
    [] action \in {"expire", "cancel"} -> Open

NoDecision == [i \in Items |-> "NONE"]
NoWrite == [i \in Items |-> "none"]

Init ==
  /\ status = [i \in Items |-> "ABSENT"]
  /\ count = [i \in Items |-> 0]
  /\ events = [i \in Items |-> {}]
  /\ results = [i \in Items |-> 0]
  /\ ignored = {}
  /\ due = {}
  /\ past = {}
  /\ sweeper = "idle"
  /\ decision = NoDecision
  /\ write = NoWrite
  /\ crashes = 0

\* Mutant of Unlocked: rows are loaded without FOR UPDATE.
UnlockedAlways(i) == TRUE

\* No transaction that is still open has locked the row.
Unlocked(i) == write[i] = "none"

Record(i, new) == events' = [events EXCEPT ![i] = @ \cup new]

-----------------------------------------------------------------------------
(***************************************************************************)
(* Operations of the callers and of the Agent that owns the item.          *)
(***************************************************************************)
\* enqueue; a repeated call finds the row by its key and changes nothing.
Enqueue(i) ==
  /\ status[i] = "ABSENT"
  /\ status' = [status EXCEPT ![i] = "QUEUED"]
  /\ Record(i, {"QUEUED"})
  /\ UNCHANGED <<count, results, ignored, due, past, sweepVars>>

\* poll: every QUEUED row among those it could lock is delivered; DELIVERED
\* rows are returned again and do not change.
Poll(S) ==
  /\ S # {}
  /\ \A i \in S : status[i] = "QUEUED" /\ Unlocked(i)
  /\ status' = [i \in Items |-> IF i \in S THEN "DELIVERED" ELSE status[i]]
  /\ count' = [i \in Items |-> IF i \in S THEN count[i] + 1 ELSE count[i]]
  /\ due' = due \ S
  /\ UNCHANGED <<events, results, ignored, past, sweepVars>>

\* ack; on an ACKED or IN_PROGRESS item it changes nothing.
Ack(i) ==
  /\ status[i] \in Sources("ack") /\ Unlocked(i)
  /\ status' = [status EXCEPT ![i] = "ACKED"]
  /\ due' = due \ {i}
  /\ Record(i, {"ACKED"})
  /\ UNCHANGED <<count, results, ignored, past, sweepVars>>

Start(i) ==
  /\ status[i] \in Sources("start") /\ Unlocked(i)
  /\ status' = [status EXCEPT ![i] = "IN_PROGRESS"]
  /\ Record(i, {"STARTED"})
  /\ UNCHANGED <<count, results, ignored, due, past, sweepVars>>

Reject(i) ==
  /\ status[i] \in Sources("reject") /\ Unlocked(i)
  /\ status' = [status EXCEPT ![i] = "REJECTED"]
  /\ Record(i, {"REJECTED"})
  /\ UNCHANGED <<count, results, ignored, due, past, sweepVars>>

\* cancel, by a reassignment, an adapter or a released verifier.
Cancel(i) ==
  /\ status[i] \in Sources("cancel") /\ Unlocked(i)
  /\ status' = [status EXCEPT ![i] = "CANCELLED"]
  /\ Record(i, {"CANCELLED"})
  /\ UNCHANGED <<count, results, ignored, due, past, sweepVars>>

\* result, first half: the result comes too late or again.
IsDuplicate(i) == results[i] > 0 \/ status[i] \in Terminal
DuplicateResult(i) ==
  /\ IsDuplicate(i) /\ Unlocked(i)
  /\ ignored' = ignored \cup {i}
  /\ UNCHANGED <<status, count, events, results, due, past, sweepVars>>

\* result, second half: a result on a DELIVERED item implies the ack.
AcceptResult(i) ==
  /\ ~IsDuplicate(i) /\ Unlocked(i)
  /\ status[i] \in {"DELIVERED"} \cup Sources("result")
  /\ status' = [status EXCEPT ![i] = "RESULT_RECEIVED"]
  /\ results' = [results EXCEPT ![i] = @ + 1]
  /\ Record(i, (IF status[i] = "DELIVERED" THEN {"ACKED"} ELSE {})
               \cup {"RESULT_RECEIVED"})
  /\ UNCHANGED <<count, ignored, due, past, sweepVars>>

-----------------------------------------------------------------------------
(***************************************************************************)
(* Time.                                                                   *)
(***************************************************************************)
\* 60 s since delivered_at, or 120 s since acked_at for an assignment.
TimerRunsOut(i) ==
  /\ \/ status[i] = "DELIVERED"
     \/ status[i] = "ACKED" /\ i \in Assignments
  /\ i \notin due
  /\ due' = due \cup {i}
  /\ UNCHANGED <<status, count, events, results, ignored, past, sweepVars>>

DeadlinePasses(i) ==
  /\ status[i] \in Open /\ i \notin past
  /\ past' = past \cup {i}
  /\ UNCHANGED <<status, count, events, results, ignored, due, sweepVars>>

-----------------------------------------------------------------------------
(***************************************************************************)
(* The sweep.                                                              *)
(***************************************************************************)
\* Mutant of NextAction: one redelivery too many.
NextActionOnceMore(i) ==
  CASE status[i] \notin Open -> "NONE"
    [] status[i] \in Open /\ i \in past -> "DEADLINE"
    [] status[i] = "DELIVERED" /\ i \in due \ past ->
         IF count[i] <= MaxRedeliveries + 1 THEN "REDELIVER" ELSE "ACK_TIMEOUT"
    [] OTHER -> "NONE"

\* Mutant of NextAction: no deadline for an item that waits for a poll.
NextActionDelivered(i) ==
  CASE status[i] \notin Open \ {"QUEUED"} -> "NONE"
    [] status[i] \in Open \ {"QUEUED"} /\ i \in past -> "DEADLINE"
    [] status[i] = "DELIVERED" /\ i \in due \ past ->
         IF count[i] <= MaxRedeliveries THEN "REDELIVER" ELSE "ACK_TIMEOUT"
    [] OTHER -> "NONE"

\* next_action; EXPIRE is named by its reason.  The maintenance job passes no
\* reroute counts, so an overdue acceptance is always REROUTE.
NextAction(i) ==
  CASE status[i] \notin Open -> "NONE"
    [] status[i] \in Open /\ i \in past -> "DEADLINE"
    [] status[i] = "DELIVERED" /\ i \in due \ past ->
         IF count[i] <= MaxRedeliveries THEN "REDELIVER" ELSE "ACK_TIMEOUT"
    [] status[i] = "ACKED" /\ i \in Assignments /\ i \in due \ past ->
         "REROUTE"
    [] OTHER -> "NONE"

\* open_items and next_action for each; a sweep that finds nothing is a stutter.
SweepBegin ==
  /\ sweeper = "idle"
  /\ decision' = [i \in Items |-> NextAction(i)]
  /\ decision' # NoDecision
  /\ sweeper' = "busy"
  /\ UNCHANGED <<status, count, events, results, ignored, due, past, write,
                 crashes>>

\* What the sweep does to a row ...
Change(d) == CASE d = "REDELIVER" -> "requeue"
               [] d = "ACK_TIMEOUT" -> "expire_ack"
               [] d = "DEADLINE" -> "expire_deadline"
               [] OTHER -> "none"

\* Mutant of StillAllowed: requeue and expire trust the unlocked read.
StillAllowedUnchecked(i) == TRUE

\* ... and the state it must still be in, checked under the row lock.
StillAllowed(i) ==
  IF decision[i] = "REDELIVER" THEN status[i] \in Sources("redeliver")
  ELSE status[i] \in Sources("expire")

Decided(i) == decision' = [decision EXCEPT ![i] = "NONE"]

\* requeue_for_redelivery / expire under the row lock.
SweepItem(i) ==
  /\ decision[i] \in {"REDELIVER", "ACK_TIMEOUT", "DEADLINE"}
  /\ StillAllowed(i)
  /\ write' = [write EXCEPT ![i] = Change(decision[i])]
  /\ Decided(i)
  /\ UNCHANGED <<status, count, events, results, ignored, due, past, sweeper,
                 crashes>>

\* process_sweep, after all the rows: the re-routing of the Task cancels the
\* item if it is still open, or leaves it when there is nothing to re-route.
SweepReroute(i) ==
  /\ decision[i] = "REROUTE"
  /\ \A j \in Items : decision[j] \in {"NONE", "REROUTE"}
  /\ \/ status[i] \in Sources("cancel")
          /\ write' = [write EXCEPT ![i] = "cancel"]
     \/ UNCHANGED write
  /\ Decided(i)
  /\ UNCHANGED <<status, count, events, results, ignored, due, past, sweeper,
                 crashes>>

EndSweep ==
  /\ sweeper' = "idle"
  /\ decision' = NoDecision
  /\ write' = NoWrite

\* WORK_ITEM_TRANSITION_INVALID: the row has moved on, the sweep rolls back.
SweepAbort ==
  /\ \E i \in Items : /\ decision[i] \in {"REDELIVER", "ACK_TIMEOUT",
                                          "DEADLINE"}
                      /\ ~StillAllowed(i)
  /\ EndSweep
  /\ UNCHANGED <<status, count, events, results, ignored, due, past, crashes>>

\* The process dies, or the re-routing fails: the sweep rolls back.
SweepCrash ==
  /\ sweeper = "busy" /\ crashes < MaxCrashes
  /\ crashes' = crashes + 1
  /\ EndSweep
  /\ UNCHANGED <<status, count, events, results, ignored, due, past>>

\* Mutant of StatusAfter: the transition's name is written for its state.
StatusAfterRaw(w, s) ==
  CASE w \in {"expire_ack", "expire_deadline"} -> "EXPIRED"
    [] w = "cancel" -> "CANCELLED"
    [] w = "none" -> s
    [] OTHER -> w

StatusAfter(w, s) ==
  CASE w = "requeue" -> "QUEUED"
    [] w \in {"expire_ack", "expire_deadline"} -> "EXPIRED"
    [] w = "cancel" -> "CANCELLED"
    [] OTHER -> s
EventsOf(w) ==
  CASE w = "expire_ack" -> {"EXPIRED_ACK_TIMEOUT"}
    [] w = "expire_deadline" -> {"EXPIRED_DEADLINE"}
    [] w = "cancel" -> {"CANCELLED"}
    [] OTHER -> {}

SweepCommit ==
  /\ sweeper = "busy" /\ decision = NoDecision
  /\ status' = [i \in Items |-> StatusAfter(write[i], status[i])]
  /\ events' = [i \in Items |-> events[i] \cup EventsOf(write[i])]
  /\ EndSweep
  /\ UNCHANGED <<count, results, ignored, due, past, crashes>>

Operation(i) ==
  \/ Enqueue(i)
  \/ Ack(i)
  \/ Start(i)
  \/ Reject(i)
  \/ Cancel(i)
  \/ DuplicateResult(i)
  \/ AcceptResult(i)

Next ==
  \/ \E i \in Items : Operation(i) \/ TimerRunsOut(i) \/ DeadlinePasses(i)
  \/ \E S \in SUBSET Items : Poll(S)
  \/ SweepBegin
  \/ \E i \in Items : SweepItem(i) \/ SweepReroute(i)
  \/ SweepAbort
  \/ SweepCrash
  \/ SweepCommit

Spec == Init /\ [][Next]_vars

\* The maintenance loop of the gateway runs every 30 s, and time passes.  No
\* Agent is assumed to do anything.
Fairness ==
  /\ \A i \in Items : WF_vars(DeadlinePasses(i))
  /\ WF_vars(SweepBegin)
  /\ WF_vars(\E i \in Items : SweepItem(i) \/ SweepReroute(i))
  /\ WF_vars(SweepAbort)
  /\ WF_vars(SweepCommit)

FairSpec == Spec /\ Fairness

-----------------------------------------------------------------------------
(***************************************************************************)
(* Properties.                                                             *)
(***************************************************************************)
Endings == {"RESULT_RECEIVED", "REJECTED", "CANCELLED", "EXPIRED_ACK_TIMEOUT",
            "EXPIRED_DEADLINE"}
EventTypes == Endings \cup {"QUEUED", "ACKED", "STARTED"}

\* The type of every variable.
TypeOK ==
  /\ status \in [Items -> Open \cup Terminal \cup {"ABSENT"}]
  /\ count \in [Items -> Nat]
  /\ events \in [Items -> SUBSET EventTypes]
  /\ results \in [Items -> Nat]
  /\ ignored \subseteq Items
  /\ due \subseteq Items
  /\ past \subseteq Items
  /\ sweeper \in {"idle", "busy"}
  /\ decision \in [Items -> {"NONE", "REDELIVER", "ACK_TIMEOUT", "DEADLINE",
                             "REROUTE"}]
  /\ write \in [Items -> {"none", "requeue", "expire_ack", "expire_deadline",
                          "cancel"}]
  /\ crashes \in Nat

\* The status whose Event ends an item.
EndedAs(e) == CASE e \in {"EXPIRED_ACK_TIMEOUT", "EXPIRED_DEADLINE"} -> "EXPIRED"
                [] OTHER -> e

\* An item ends once: it has an ending Event exactly when its row is in a
\* terminal state, that Event names the state, there is no second one, and a
\* result receipt exists exactly when the ending is RESULT_RECEIVED, although
\* the sweep decides on rows it has not locked.
EndsOnce ==
  \A i \in Items :
    /\ status[i] \in Terminal <=> events[i] \cap Endings # {}
    /\ \A e, f \in events[i] \cap Endings : e = f
    /\ \A e \in events[i] \cap Endings : EndedAs(e) = status[i]
    /\ results[i] = IF status[i] = "RESULT_RECEIVED" THEN 1 ELSE 0

\* "Exactly 1 delivery + 3 redeliveries, then EXPIRED": a row is delivered at
\* most MaxRedeliveries + 1 times and only gives up after as many deliveries.
DeliveriesBounded ==
  \A i \in Items :
    /\ count[i] <= MaxRedeliveries + 1
    /\ "EXPIRED_ACK_TIMEOUT" \in events[i] => count[i] = MaxRedeliveries + 1

\* Work an Agent has acknowledged is never handed out again, even when the
\* acknowledgement races with the sweep that has decided to redeliver.
AckNeverLost ==
  \A i \in Items :
    "ACKED" \in events[i] => status[i] \notin {"ABSENT", "QUEUED", "DELIVERED"}

\* "A DELIVERED item without ack ... makes the item EXPIRED (ACK_TIMEOUT)":
\* an acknowledged item does not expire for want of an acknowledgement.
AckTimeoutUnacked ==
  \A i \in Items :
    "EXPIRED_ACK_TIMEOUT" \in events[i] => "ACKED" \notin events[i]

\* Every queued item ends, whatever the Agents do, however often they make a
\* sweep abort, and after a crash of the sweeping process.
EventuallyEnds ==
  \A i \in Items : status[i] = "QUEUED" ~> status[i] \in Terminal
=============================================================================
