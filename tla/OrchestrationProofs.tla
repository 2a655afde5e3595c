------------------------ MODULE OrchestrationProofs -------------------------
(***************************************************************************)
(* Proofs about who works when: TaskRouting, for any accounts, any number  *)
(* of concurrent transactions, any limit on re-routes and any number of    *)
(* reassignments; SchedulePlanner, for any occurrences, versions, horizon  *)
(* and missed-run policies; and ScheduleRuns, for any number of workers,   *)
(* Runs, attempts, faults and commands.                                    *)
(***************************************************************************)
EXTENDS TaskRouting, SchedulePlanner, ScheduleRuns, FiniteSetTheorems,
        WellFoundedInduction, TLAPS

(***************************************************************************)
(* Re-routing.                                                             *)
(***************************************************************************)
\* A transaction between its trigger and the end of its last re-route.
Working == {"LOAD", "SELECT", "REASSIGN", "CANCEL", "MARK"}

\* A row is locked by one transaction at most.
RowsDisjoint ==
  \A c, d \in Txns : c # d => ended[c] \cap ended[d] = {}

\* What the later steps of reroute_task rely on.
StepInv ==
  \A c \in Txns :
    /\ pc[c] \in Working => todo[c] > 0
    /\ pc[c] \in Working \ {"LOAD"} => base[c] > 0
    /\ pc[c] = "REASSIGN" => pick[c] \in Agents

\* A Task that was never assigned cannot be re-routed.
UnassignedInv == Revision = 0 => status \in {"OPEN", "CANCELLED"}

TypeInv == TypeOK /\ RowsDisjoint /\ StepInv /\ UnassignedInv

-----------------------------------------------------------------------------
\* The table leads to statuses (next_status).
LEMMA NextStatusType ==
  ASSUME NEW s, NEW t, Allowed(s, t)
  PROVE  NextStatus(s, t) \in Statuses
<1> DEFINE x == CHOOSE x \in Transitions : x[1] = s /\ x[2] = t
<1>1. x \in Transitions
  BY DEF Allowed
<1> QED
  BY <1>1 DEF NextStatus, Statuses

\* Rows of the table, one by one.
LEMMA TransitionRows ==
  ASSUME NEW x \in Transitions
  PROVE  /\ x[1] = "OPEN" => x[2] = "TASK_DELEGATED" \/ x[3] = "CANCELLED"
         /\ x[1] # "CANCELLED"
  BY DEF Transitions, From

\* Until it is assigned, a Task can only be cancelled, and that is final.
LEMMA UnassignedMoves ==
  ASSUME NEW s \in {"OPEN", "CANCELLED"}, NEW t \in Types \ Assignments,
         Allowed(s, t)
  PROVE  NextStatus(s, t) = "CANCELLED"
<1> DEFINE x == CHOOSE x \in Transitions : x[1] = s /\ x[2] = t
<1>1. x \in Transitions /\ x[1] = s /\ x[2] = t
  BY DEF Allowed
<1>2. s = "OPEN" /\ x[3] = "CANCELLED"
  BY <1>1, TransitionRows DEF Assignments
<1> QED
  BY <1>2 DEF NextStatus

-----------------------------------------------------------------------------
\* Ending rows keeps a type correct sequence of the same length.
LEMMA EndingType ==
  ASSUME TaskTypeOK, NEW mine
  PROVE  /\ Ending(mine) \in Seq(OpenStates \cup {"NONE", "ENDED"})
         /\ Len(Ending(mine)) = Revision
         /\ \A r \in 1..Revision :
              Ending(mine)[r] = IF r \in mine THEN "ENDED" ELSE item[r]
  BY DEF TaskTypeOK, Ending

\* Numbers the steps below compute with.
LEMMA RevisionType ==
  ASSUME TaskTypeOK
  PROVE  /\ Revision \in Nat
         /\ OpenItems = {r \in 1..Revision : item[r] \in OpenStates}
  BY DEF TaskTypeOK, Revision, OpenItems

\* A new row of task_assignments.
LEMMA AssignedType ==
  ASSUME TaskTypeOK, NEW who \in Accounts, NEW from \in Nat,
         assigned' = Append(assigned, [who |-> who, base |-> from])
  PROVE  /\ assigned' \in Seq([who : Accounts, base : Nat])
         /\ Revision' = Revision + 1
         /\ \A r \in 1..Revision : assigned'[r] = assigned[r]
         /\ assigned'[Revision + 1] = [who |-> who, base |-> from]
  BY DEF TaskTypeOK, Revision

\* The item of a new revision.
LEMMA NewItemType ==
  ASSUME NEW who, NEW mine \in Seq(OpenStates \cup {"NONE", "ENDED"}),
         item' = Append(mine, NewItem(who))
  PROVE  /\ item' \in Seq(OpenStates \cup {"NONE", "ENDED"})
         /\ Len(item') = Len(mine) + 1
         /\ \A r \in 1..Len(mine) : item'[r] = mine[r]
         /\ item'[Len(mine) + 1] = NewItem(who)
  BY DEF NewItem, OpenStates

LEMMA InitType == Init => TypeInv
<1> SUFFICES ASSUME Init
             PROVE  TypeInv
  OBVIOUS
<1> DEFINE row == <<"OPEN", "TASK_DELEGATED", "DELEGATED">>
<1>1. row \in Transitions
  BY DEF Transitions, From
<1>2. "OPEN" \in Statuses
  BY <1>1 DEF Statuses
<1> QED
  BY <1>2 DEF Init, TypeInv, TypeOK, TaskTypeOK, TxnTypeOK, RowsDisjoint,
              StepInv, UnassignedInv, Revision, OpenItems, OpenStates, Working

LEMMA AssignByHandType ==
  ASSUME TypeInv, NEW who \in Accounts, NEW t, AssignByHand(who, t)
  PROVE  TypeInv'
<1> DEFINE gone == Superseded(who, OpenItems)
<1>1. status' \in Statuses
  BY NextStatusType DEF AssignByHand, Assign
<1>2. /\ assigned' = Append(assigned, [who |-> who, base |-> 0])
      /\ item' = Append(Ending(gone), NewItem(who))
  BY DEF AssignByHand, Assign
<1>3. UNCHANGED <<waits, lock, pc, todo, base, waited, seen, pick, ended>>
  BY DEF AssignByHand, txnVars
<1>4. \A d \in Txns : gone \cap ended[d] = {}
  BY RoutingAssumption DEF AssignByHand, FreeFor, Txns
<1>5. /\ assigned' \in Seq([who : Accounts, base : Nat])
      /\ Revision' = Revision + 1
  BY <1>2, AssignedType DEF TypeInv, TypeOK
<1>6. /\ item' \in Seq(OpenStates \cup {"NONE", "ENDED"})
      /\ Len(item') = Revision + 1
      /\ \A r \in 1..Revision : r \notin gone => item'[r] = item[r]
  <2> HIDE DEF gone
  <2>1. /\ Ending(gone) \in Seq(OpenStates \cup {"NONE", "ENDED"})
        /\ Len(Ending(gone)) = Revision
        /\ \A r \in 1..Revision : r \notin gone => Ending(gone)[r] = item[r]
    BY EndingType DEF TypeInv, TypeOK
  <2> QED
    BY <1>2, <2>1, NewItemType
<1>7. TaskTypeOK'
  <2>1. waits' \subseteq 1..Revision'
    BY <1>3, <1>5, RevisionType DEF TypeInv, TypeOK, TaskTypeOK
  <2> QED
    BY <1>1, <1>5, <1>6, <2>1 DEF TaskTypeOK
<1>8. ASSUME NEW c \in Txns, NEW r \in ended'[c]
      PROVE  r \in OpenItems'
  <2>1. r \in OpenItems /\ r \notin gone
    BY <1>3, <1>4, <1>8 DEF TypeInv, TypeOK, TxnTypeOK
  <2>2. r \in 1..Revision /\ item[r] \in OpenStates /\ Revision \in Nat
    BY <2>1, RevisionType DEF TypeInv, TypeOK
  <2>3. r \in 1..Len(item') /\ item'[r] \in OpenStates
    BY <1>6, <2>1, <2>2
  <2> QED
    BY <2>3 DEF OpenItems
<1>9. TxnTypeOK'
  BY <1>3, <1>5, <1>8, RevisionType DEF TypeInv, TypeOK, TxnTypeOK
<1> QED
  BY <1>3, <1>5, <1>7, <1>9, RevisionType
  DEF TypeInv, TypeOK, RowsDisjoint, StepInv, UnassignedInv

LEMMA MoveType ==
  ASSUME TypeInv, NEW t \in Events, Move(t)
  PROVE  TypeInv'
<1>1. status' \in Statuses
  BY NextStatusType DEF Move
<1>2. Revision = 0 => status' \in {"OPEN", "CANCELLED"}
  BY UnassignedMoves, RoutingAssumption DEF Move, TypeInv, UnassignedInv
<1> QED
  BY <1>1, <1>2
  DEF Move, TypeInv, TypeOK, TaskTypeOK, TxnTypeOK, RowsDisjoint, StepInv,
      UnassignedInv, txnVars, Revision, OpenItems

LEMMA ItemStepType ==
  ASSUME TypeInv, NEW r \in 1..Len(item), NEW from,
         NEW to \in OpenStates \cup {"ENDED"}, ItemStep(r, from, to)
  PROVE  TypeInv'
<1>1. /\ item' \in Seq(OpenStates \cup {"NONE", "ENDED"})
      /\ Len(item') = Len(item)
      /\ \A q \in 1..Len(item) : q # r => item'[q] = item[q]
  BY DEF ItemStep, TypeInv, TypeOK, TaskTypeOK
<1>2. \A c \in Txns : r \notin ended[c]
  BY RoutingAssumption DEF ItemStep, FreeFor, Txns
<1>3. \A c \in Txns : ended[c] \subseteq OpenItems'
  BY <1>1, <1>2 DEF TypeInv, TypeOK, TxnTypeOK, OpenItems
<1>4. TaskTypeOK'
  BY <1>1 DEF ItemStep, TypeInv, TypeOK, TaskTypeOK, Revision
<1> QED
  BY <1>3, <1>4
  DEF ItemStep, TypeInv, TypeOK, TxnTypeOK, RowsDisjoint, StepInv,
      UnassignedInv, txnVars, Revision

\* A step that leaves the committed rows alone.
LEMMA SameRows ==
  ASSUME UNCHANGED <<status, assigned, item, waits>>
  PROVE  /\ Revision' = Revision
         /\ OpenItems' = OpenItems
         /\ TaskTypeOK => TaskTypeOK'
         /\ UnassignedInv => UnassignedInv'
  BY DEF Revision, OpenItems, TaskTypeOK, UnassignedInv

LEMMA TriggerType ==
  ASSUME TypeInv, NEW c \in Txns, NEW n \in Nat, NEW mine \in SUBSET OpenItems,
         Trigger(c, n, mine)
  PROVE  TypeInv'
<1>1. mine \subseteq Nat /\ \A d \in Txns \ {c} : mine \cap ended[d] = {}
  BY DEF Trigger, FreeFor, OpenItems
<1>2. UNCHANGED <<status, assigned, item, waits>>
  BY DEF Trigger
<1>3. TxnTypeOK'
  BY <1>1, <1>2, SameRows DEF Trigger, TypeInv, TypeOK, TxnTypeOK
<1>4. RowsDisjoint'
  BY <1>1 DEF Trigger, TypeInv, TypeOK, TxnTypeOK, RowsDisjoint
<1>5. StepInv'
  BY DEF Trigger, TypeInv, TypeOK, TxnTypeOK, StepInv, Working
<1> QED
  BY <1>2, <1>3, <1>4, <1>5, SameRows DEF TypeInv, TypeOK

LEMMA SweepType ==
  ASSUME TypeInv, SweepWorkItems
  PROVE  TypeInv'
<1>1. PICK expired \in SUBSET OpenItems, overdue \in SUBSET OpenItems :
        Trigger(Sweeper, Cardinality(overdue), expired)
  BY DEF SweepWorkItems
<1>2. overdue \in SUBSET (1..Revision) /\ Revision \in Nat
  BY RevisionType DEF TypeInv, TypeOK
<1>3. IsFiniteSet(1..Revision)
  BY <1>2, FS_Interval
<1>4. IsFiniteSet(overdue)
  BY <1>2, <1>3, FS_Subset
<1>5. Cardinality(overdue) \in Nat
  BY <1>4, FS_CardinalityType
<1> QED
  BY <1>1, <1>5, TriggerType DEF Txns

\* The end of one re-route forgets what it read.
LEMMA DoneType ==
  ASSUME TxnTypeOK, StepInv, NEW c \in Txns, pc[c] \in Working, Done(c),
         Revision \in Nat
  PROVE  /\ pc' \in [Txns -> {"IDLE", "LOAD", "SELECT", "REASSIGN", "CANCEL",
                              "MARK", "END"}]
         /\ todo' \in [Txns -> Nat]
         /\ base' \in [Txns -> Nat]
         /\ waited' \in [Txns -> BOOLEAN]
         /\ seen' \in [Txns -> Nat]
         /\ pick' \in [Txns -> Agents \cup {None}]
         /\ \A d \in Txns : base'[d] <= Revision /\ seen'[d] <= Revision
         /\ StepInv'
<1>1. todo[c] \in Nat /\ todo[c] > 0
  BY DEF TxnTypeOK, StepInv
<1>2. todo' \in [Txns -> Nat]
  BY <1>1 DEF TxnTypeOK, Done
<1>3. waited' \in [Txns -> BOOLEAN]
  BY DEF TxnTypeOK, Done, Forget
<1>4. StepInv'
  BY <1>1 DEF TxnTypeOK, StepInv, Done, Forget, Working
<1> QED
  BY <1>2, <1>3, <1>4 DEF TxnTypeOK, Done, Forget

LEMMA LoadTaskType ==
  ASSUME TypeInv, NEW c \in Txns, LoadTask(c)
  PROVE  TypeInv'
<1>1. /\ UNCHANGED <<status, assigned, item, waits, lock, ended>>
      /\ pc[c] = "LOAD" /\ pc[c] \in Working
  BY DEF LoadTask, Working
<1>2. Revision \in Nat
  BY RevisionType DEF TypeInv, TypeOK
<1>3. TxnTypeOK' /\ StepInv'
  <2>1. CASE status \in Reroutable
    <3>1. Revision > 0
      BY <1>2, <2>1 DEF TypeInv, UnassignedInv, Reroutable
    <3>2. waited' \in [Txns -> BOOLEAN]
      BY <2>1 DEF LoadTask, TypeInv, TypeOK, TxnTypeOK
    <3>3. TxnTypeOK'
      BY <1>1, <1>2, <2>1, <3>2, SameRows
      DEF LoadTask, Goto, TypeInv, TypeOK, TxnTypeOK
    <3>4. StepInv'
      BY <1>1, <2>1, <3>1
      DEF LoadTask, Goto, TypeInv, TypeOK, TxnTypeOK, StepInv, Working
    <3> QED
      BY <3>3, <3>4
  <2>2. CASE status \notin Reroutable
    <3>1. Done(c)
      BY <2>2 DEF LoadTask
    <3> QED
      BY <1>1, <1>2, <3>1, DoneType, SameRows DEF TypeInv, TypeOK, TxnTypeOK
  <2> QED
    BY <2>1, <2>2
<1>4. RowsDisjoint'
  BY <1>1 DEF TypeInv, RowsDisjoint
<1> QED
  BY <1>1, <1>3, <1>4, SameRows DEF TypeInv, TypeOK

LEMMA SelectType ==
  ASSUME TypeInv, NEW c \in Txns, SelectAssignee(c)
  PROVE  TypeInv'
<1>1. Revision \in Nat /\ base[c] \in Nat
  BY RevisionType DEF TypeInv, TypeOK, TxnTypeOK
<1>2. PICK n \in base[c]..Revision : \E m \in n..Revision :
        /\ seen' = [seen EXCEPT ![c] = m]
        /\ \/ /\ \E a \in Agents \ Excluded(c, n) : pick' = [pick EXCEPT ![c] = a]
              /\ Goto(c, "REASSIGN")
           \/ pick' = [pick EXCEPT ![c] = None] /\ Goto(c, "CANCEL")
  BY <1>1 DEF SelectAssignee
<1>3. PICK m \in n..Revision :
        /\ seen' = [seen EXCEPT ![c] = m]
        /\ \/ /\ \E a \in Agents \ Excluded(c, n) : pick' = [pick EXCEPT ![c] = a]
              /\ Goto(c, "REASSIGN")
           \/ pick' = [pick EXCEPT ![c] = None] /\ Goto(c, "CANCEL")
  BY <1>2
<1> m \in Nat /\ m <= Revision
  BY <1>1
<1>4. /\ UNCHANGED <<status, assigned, item, waits, lock, base, waited, ended>>
      /\ pc[c] = "SELECT"
  BY DEF SelectAssignee
<1>5. TxnTypeOK'
  <2>1. pick' \in [Txns -> Agents \cup {None}]
    BY <1>3 DEF TypeInv, TypeOK, TxnTypeOK
  <2>2. /\ seen' \in [Txns -> Nat]
        /\ \A d \in Txns : seen'[d] <= Revision
    BY <1>3 DEF TypeInv, TypeOK, TxnTypeOK
  <2>3. /\ pc' \in [Txns -> {"IDLE", "LOAD", "SELECT", "REASSIGN", "CANCEL",
                             "MARK", "END"}]
        /\ todo' = todo
    BY <1>3 DEF Goto, TypeInv, TypeOK, TxnTypeOK
  <2> QED
    BY <1>4, <2>1, <2>2, <2>3, SameRows DEF TypeInv, TypeOK, TxnTypeOK
<1>6. StepInv'
  BY <1>3, <1>4 DEF Goto, TypeInv, TypeOK, TxnTypeOK, StepInv, Working
<1>7. RowsDisjoint'
  BY <1>4 DEF TypeInv, RowsDisjoint
<1> QED
  BY <1>4, <1>5, <1>6, <1>7, SameRows DEF TypeInv, TypeOK

LEMMA RerouteType ==
  ASSUME TypeInv, NEW c \in Txns, Reroute(c)
  PROVE  TypeInv'
<1> DEFINE gone == Superseded(pick[c], OpenItems \ ended[c])
<1>1. /\ Revision \in Nat
      /\ pc[c] \in Working
      /\ pick[c] \in Agents
      /\ Done(c)
      /\ waits' = waits
  BY RevisionType DEF TypeInv, TypeOK, StepInv, Reroute, Working
<1>2. CASE UNCHANGED <<status, assigned, item, lock, ended>>
  <2>1. TxnTypeOK' /\ StepInv'
    BY <1>1, <1>2, DoneType, SameRows DEF TypeInv, TypeOK, TxnTypeOK
  <2> QED
    BY <1>1, <1>2, <2>1, SameRows DEF TypeInv, TypeOK, RowsDisjoint
<1>3. CASE /\ FreeFor(c, gone)
           /\ Assign(pick[c], base[c], "TASK_REASSIGNED")
           /\ item' = Append(item, NewItem(pick[c]))
           /\ ended' = [ended EXCEPT ![c] = @ \cup gone]
           /\ lock' = c
  <2>1. status' \in Statuses
    BY <1>3, NextStatusType DEF Assign
  <2>2. /\ assigned' \in Seq([who : Accounts, base : Nat])
        /\ Revision' = Revision + 1
    BY <1>1, <1>3, AssignedType DEF Assign, TypeInv, TypeOK, TxnTypeOK, Accounts
  <2>3. /\ item' \in Seq(OpenStates \cup {"NONE", "ENDED"})
        /\ Len(item') = Revision + 1
        /\ \A r \in 1..Revision : item'[r] = item[r]
    BY <1>3, NewItemType DEF TypeInv, TypeOK, TaskTypeOK
  <2>4. TaskTypeOK'
    <3>1. waits' \subseteq 1..Revision'
      BY <1>1, <2>2 DEF TypeInv, TypeOK, TaskTypeOK
    <3> QED
      BY <2>1, <2>2, <2>3, <3>1 DEF TaskTypeOK
  <2>5. OpenItems \subseteq OpenItems' /\ gone \subseteq OpenItems
    <3>1. gone \subseteq OpenItems
      BY DEF Superseded
    <3>2. OpenItems = {r \in 1..Revision : item[r] \in OpenStates}
      BY RevisionType DEF TypeInv, TypeOK
    <3> QED
      BY <1>1, <2>3, <3>1, <3>2 DEF OpenItems
  <2>6. gone \subseteq Nat
    BY <2>5 DEF OpenItems
  <2> HIDE DEF gone
  <2>7. TxnTypeOK' /\ StepInv'
    <3>1. /\ pc' \in [Txns -> {"IDLE", "LOAD", "SELECT", "REASSIGN", "CANCEL",
                               "MARK", "END"}]
          /\ todo' \in [Txns -> Nat]
          /\ base' \in [Txns -> Nat]
          /\ waited' \in [Txns -> BOOLEAN]
          /\ seen' \in [Txns -> Nat]
          /\ pick' \in [Txns -> Agents \cup {None}]
          /\ \A d \in Txns : base'[d] <= Revision /\ seen'[d] <= Revision
          /\ StepInv'
      BY <1>1, DoneType DEF TypeInv, TypeOK
    <3>2. \A d \in Txns : base'[d] <= Revision' /\ seen'[d] <= Revision'
      BY <1>1, <2>2, <3>1
    <3>3. /\ ended' \in [Txns -> SUBSET Nat]
          /\ \A d \in Txns : ended'[d] \subseteq OpenItems'
      BY <1>3, <2>5, <2>6 DEF TypeInv, TypeOK, TxnTypeOK
    <3>4. lock' \in Txns \cup {None}
      BY <1>3
    <3> QED
      BY <3>1, <3>2, <3>3, <3>4 DEF TxnTypeOK
  <2>8. RowsDisjoint'
    BY <1>3 DEF FreeFor, TypeInv, TypeOK, TxnTypeOK, RowsDisjoint
  <2>9. UnassignedInv'
    BY <1>1, <2>2 DEF UnassignedInv
  <2> QED
    BY <2>4, <2>7, <2>8, <2>9 DEF TypeInv, TypeOK
<1> QED
  BY <1>2, <1>3 DEF Reroute

LEMMA CancelType ==
  ASSUME TypeInv, NEW c \in Txns, CancelAssignments(c)
  PROVE  TypeInv'
<1>1. /\ UNCHANGED <<status, assigned, item, waits, lock>>
      /\ pc[c] = "CANCEL" /\ pc[c] \in Working
      /\ Revision \in Nat
  BY RevisionType DEF CancelAssignments, Working, TypeInv, TypeOK
<1>2. PICK mine \in SUBSET OpenItems :
        FreeFor(c, mine) /\ ended' = [ended EXCEPT ![c] = @ \cup mine]
  BY DEF CancelAssignments
<1>3. /\ ended' \in [Txns -> SUBSET Nat]
      /\ \A d \in Txns : ended'[d] \subseteq OpenItems
  <2>1. mine \subseteq Nat
    BY DEF OpenItems
  <2> QED
    BY <1>2, <2>1 DEF TypeInv, TypeOK, TxnTypeOK
<1>4. RowsDisjoint'
  BY <1>2 DEF FreeFor, TypeInv, TypeOK, TxnTypeOK, RowsDisjoint
<1>5. TxnTypeOK' /\ StepInv'
  <2>1. CASE Done(c)
    BY <1>1, <1>3, <2>1, DoneType, SameRows DEF TypeInv, TypeOK, TxnTypeOK
  <2>2. CASE Goto(c, "MARK") /\ UNCHANGED <<base, waited, seen, pick>>
    <3>1. /\ pc' \in [Txns -> {"IDLE", "LOAD", "SELECT", "REASSIGN", "CANCEL",
                               "MARK", "END"}]
          /\ todo' = todo
      BY <2>2 DEF Goto, TypeInv, TypeOK, TxnTypeOK
    <3>2. TxnTypeOK'
      BY <1>1, <1>3, <2>2, <3>1, SameRows DEF TypeInv, TypeOK, TxnTypeOK
    <3>3. StepInv'
      BY <1>1, <2>2 DEF Goto, TypeInv, TypeOK, TxnTypeOK, StepInv, Working
    <3> QED
      BY <3>2, <3>3
  <2> QED
    BY <2>1, <2>2 DEF CancelAssignments
<1> QED
  BY <1>1, <1>4, <1>5, SameRows DEF TypeInv, TypeOK

LEMMA MarkWaitingType ==
  ASSUME TypeInv, NEW c \in Txns, MarkWaiting(c)
  PROVE  TypeInv'
<1>1. /\ UNCHANGED <<assigned, item, ended>>
      /\ pc[c] \in Working /\ pc[c] # "LOAD"
      /\ Revision \in Nat
      /\ Revision' = Revision /\ OpenItems' = OpenItems
      /\ Done(c)
  BY RevisionType
  DEF MarkWaiting, Working, TypeInv, TypeOK, Revision, OpenItems
<1>2. base[c] \in 1..Revision
  <2>1. pc[c] \in Working \ {"LOAD"}
    BY <1>1
  <2>2. base[c] \in Nat /\ base[c] <= Revision /\ base[c] > 0
    BY <2>1 DEF TypeInv, TypeOK, TxnTypeOK, StepInv
  <2> QED
    BY <1>1, <2>2
<1>3. /\ status' \in Statuses
      /\ waits' \subseteq 1..Revision
      /\ lock' \in Txns \cup {None}
  <2>1. CASE UNCHANGED <<status, waits, lock>>
    BY <2>1 DEF TypeInv, TypeOK, TaskTypeOK, TxnTypeOK
  <2>2. CASE /\ Allowed(status, "TASK_WAITING")
             /\ status' = NextStatus(status, "TASK_WAITING")
             /\ waits' = waits \cup {base[c]}
             /\ lock' = c
    <3>1. status' \in Statuses
      BY <2>2, NextStatusType
    <3> QED
      BY <1>2, <2>2, <3>1 DEF TypeInv, TypeOK, TaskTypeOK
  <2> QED
    BY <2>1, <2>2 DEF MarkWaiting
<1>4. TaskTypeOK'
  BY <1>1, <1>3 DEF TypeInv, TypeOK, TaskTypeOK
<1>5. TxnTypeOK' /\ StepInv'
  BY <1>1, <1>3, DoneType DEF TypeInv, TypeOK, TxnTypeOK
<1>6. RowsDisjoint' /\ UnassignedInv'
  BY <1>1, <1>2 DEF TypeInv, RowsDisjoint, UnassignedInv
<1> QED
  BY <1>4, <1>5, <1>6 DEF TypeInv, TypeOK

\* The end of a transaction: nothing is read, picked or locked any more.
LEMMA EndTxnType ==
  ASSUME TypeInv, NEW c \in Txns, EndTxn(c), Revision' = Revision,
         lock' \in Txns \cup {None},
         \A d \in Txns \ {c} : ended[d] \subseteq OpenItems'
  PROVE  TxnTypeOK' /\ StepInv' /\ RowsDisjoint'
<1>1. Revision \in Nat
  BY RevisionType DEF TypeInv, TypeOK
<1>2. waited' \in [Txns -> BOOLEAN]
  BY DEF EndTxn, Forget, TypeInv, TypeOK, TxnTypeOK
<1>3. TxnTypeOK'
  BY <1>1, <1>2 DEF EndTxn, Forget, TypeInv, TypeOK, TxnTypeOK
<1>4. StepInv'
  BY DEF EndTxn, Forget, TypeInv, TypeOK, TxnTypeOK, StepInv, Working
<1>5. RowsDisjoint'
  BY DEF EndTxn, TypeInv, TypeOK, TxnTypeOK, RowsDisjoint
<1> QED
  BY <1>3, <1>4, <1>5

LEMMA CommitType ==
  ASSUME TypeInv, NEW c \in Txns, Commit(c)
  PROVE  TypeInv'
<1>1. /\ item' = Ending(ended[c])
      /\ UNCHANGED <<status, assigned, waits>>
      /\ EndTxn(c)
  BY DEF Commit
<1>2. lock' \in Txns \cup {None}
  BY DEF Commit, TypeInv, TypeOK, TxnTypeOK
<1>3. /\ item' \in Seq(OpenStates \cup {"NONE", "ENDED"})
      /\ Len(item') = Revision
      /\ \A r \in 1..Revision : r \notin ended[c] => item'[r] = item[r]
  BY <1>1, EndingType DEF TypeInv, TypeOK
<1>4. Revision' = Revision /\ UnassignedInv'
  BY <1>1 DEF Revision, TypeInv, UnassignedInv
<1>5. TaskTypeOK'
  BY <1>1, <1>3, <1>4 DEF TypeInv, TypeOK, TaskTypeOK
<1>6. ASSUME NEW d \in Txns \ {c}, NEW r \in ended[d]
      PROVE  r \in OpenItems'
  <2>1. r \in OpenItems /\ r \notin ended[c]
    BY <1>6 DEF TypeInv, TypeOK, TxnTypeOK, RowsDisjoint
  <2>2. r \in 1..Revision /\ item[r] \in OpenStates
    BY <2>1, RevisionType DEF TypeInv, TypeOK
  <2>3. r \in 1..Len(item') /\ item'[r] \in OpenStates
    BY <1>3, <2>1, <2>2
  <2> QED
    BY <2>3 DEF OpenItems
<1> QED
  BY <1>1, <1>2, <1>4, <1>5, <1>6, EndTxnType DEF TypeInv, TypeOK

LEMMA RollbackType ==
  ASSUME TypeInv, NEW c \in Txns, Rollback(c)
  PROVE  TypeInv'
<1>1. UNCHANGED <<status, assigned, item, waits, lock>> /\ EndTxn(c)
  BY DEF Rollback
<1>2. /\ lock' \in Txns \cup {None}
      /\ \A d \in Txns : ended[d] \subseteq OpenItems'
  BY <1>1, SameRows DEF TypeInv, TypeOK, TxnTypeOK
<1> QED
  BY <1>1, <1>2, EndTxnType, SameRows DEF TypeInv, TypeOK

-----------------------------------------------------------------------------
\* The type invariant and what it needs is preserved by every step.
LEMMA NextType == TypeInv /\ [Next]_vars => TypeInv'
<1> SUFFICES ASSUME TypeInv, [Next]_vars
             PROVE  TypeInv'
  OBVIOUS
<1>1. CASE \E who \in Accounts : DelegateTask(who) \/ ReassignTask(who)
  BY <1>1, AssignByHandType DEF DelegateTask, ReassignTask
<1>2. CASE \E t \in Events : Move(t)
  BY <1>2, MoveType
<1>3. CASE \E r \in 1..Len(item) : Ack(r) \/ Start(r) \/ Result(r)
  <2>1. {"ACKED", "IN_PROGRESS", "ENDED"} \subseteq OpenStates \cup {"ENDED"}
    BY DEF OpenStates
  <2> QED
    BY <1>3, <2>1, ItemStepType DEF Ack, Start, Result
<1>4. ASSUME NEW c \in Callers,
             \/ \E r \in 1..Len(item) : WorkReject(c, r)
             \/ AgentUnavailable(c)
             \/ BudgetExceeded(c)
      PROVE  TypeInv'
  <2>1. c \in Txns
    BY DEF Txns
  <2>2. PICK mine \in SUBSET OpenItems : Trigger(c, 1, mine)
    BY <1>4 DEF WorkReject, AgentUnavailable, BudgetExceeded
  <2> QED
    BY <2>1, <2>2, TriggerType
<1>5. CASE SweepWorkItems
  BY <1>5, SweepType
<1>6. ASSUME NEW c \in Txns, RerouteStep(c)
      PROVE  TypeInv'
  BY <1>6, LoadTaskType, SelectType, RerouteType, CancelType, MarkWaitingType,
     CommitType, RollbackType
  DEF RerouteStep
<1>7. CASE UNCHANGED vars
  BY <1>7
  DEF vars, txnVars, TypeInv, TypeOK, TaskTypeOK, TxnTypeOK, RowsDisjoint,
      StepInv, UnassignedInv, Revision, OpenItems
<1> QED
  BY <1>1, <1>2, <1>3, <1>4, <1>5, <1>6, <1>7 DEF Next

\* Every reachable state is type correct: in particular a work item locked by
\* a rejection, a sweep or a re-route stays open until that transaction ends.
THEOREM RoutingTypeOK == Spec => []TypeOK
<1>1. TypeInv => TypeOK
  BY DEF TypeInv
<1> QED
  BY <1>1, InitType, NextType, PTL DEF Spec

-----------------------------------------------------------------------------
\* Why stale counts are harmless up to a bound: a re-route is recorded under
\* the revision it started from, which is used once, and a transaction that
\* counted fewer re-routes than the limit started from an early revision.
KeysInv ==
  \A r \in 1..Revision :
    /\ assigned[r].base < r
    /\ assigned[r].base <= Limit + ByHand(Revision)
    /\ \A q \in 1..Revision :
         assigned[r].base # 0 /\ assigned[r].base = assigned[q].base => r = q

\* What a transaction knows about its candidate when it issues ReassignTask.
PickInv ==
  \A c \in Txns : pc[c] = "REASSIGN" =>
    /\ base[c] <= Limit + ByHand(Revision)
    /\ \A q \in 1..base[c] : assigned[q].who # pick[c]

RouteInv == KeysInv /\ NeverBack /\ PickInv

\* A revision is the first one, one made by hand or a re-route.
LEMMA RevisionCount ==
  ASSUME TaskTypeOK, NEW m \in 1..Revision
  PROVE  /\ ByHand(m) \in Nat
         /\ Autos(m) \in Nat
         /\ m <= 1 + ByHand(m) + Autos(m)
<1> DEFINE H == {r \in 2..m : assigned[r].base = 0}
           A == {r \in 1..m : assigned[r].base # 0}
<1>1. m \in Nat /\ IsFiniteSet(1..m) /\ Cardinality(1..m) = m
  BY FS_Interval, RevisionType
<1>2. H \in SUBSET (1..m) /\ A \in SUBSET (1..m)
  BY <1>1
<1>3. IsFiniteSet(H) /\ IsFiniteSet(A)
  BY <1>1, <1>2, FS_Subset
<1>4. Cardinality(H) \in Nat /\ Cardinality(A) \in Nat
  BY <1>3, FS_CardinalityType
<1>5. H \cap A = {}
  OBVIOUS
<1>6. /\ IsFiniteSet(H \cup A)
      /\ Cardinality(H \cup A) = Cardinality(H) + Cardinality(A)
  <2>1. /\ IsFiniteSet(H \cup A)
        /\ Cardinality(H \cup A) = Cardinality(H) + Cardinality(A)
                                     - Cardinality(H \cap A)
    BY <1>3, FS_Union
  <2>2. Cardinality(H \cap A) = 0
    BY <1>5, FS_EmptySet
  <2> QED
    BY <1>4, <2>1, <2>2
<1>7. /\ IsFiniteSet((H \cup A) \cup {1})
      /\ Cardinality((H \cup A) \cup {1}) <= Cardinality(H) + Cardinality(A) + 1
  <2> HIDE DEF H, A
  <2>1. /\ IsFiniteSet((H \cup A) \cup {1})
        /\ Cardinality((H \cup A) \cup {1}) =
             IF 1 \in H \cup A THEN Cardinality(H \cup A)
             ELSE Cardinality(H \cup A) + 1
    BY <1>6, FS_AddElement
  <2> QED
    BY <1>4, <1>6, <2>1
<1>8. 1..m \in SUBSET ((H \cup A) \cup {1})
  BY <1>1
<1>9. Cardinality(1..m) <= Cardinality((H \cup A) \cup {1})
  BY <1>7, <1>8, FS_Subset
<1>10. Cardinality((H \cup A) \cup {1}) \in Nat
  BY <1>7, FS_CardinalityType
<1>11. ByHand(m) = Cardinality(H) /\ Autos(m) = Cardinality(A)
  BY DEF ByHand, Autos
<1> HIDE DEF H, A
<1> QED
  BY <1>1, <1>4, <1>7, <1>9, <1>10, <1>11

\* Reassignments by hand only become more.
LEMMA ByHandGrows ==
  ASSUME TaskTypeOK, NEW m \in 0..Revision
  PROVE  ByHand(m) \in Nat /\ ByHand(Revision) \in Nat
         /\ ByHand(m) <= ByHand(Revision)
<1> DEFINE S == {r \in 2..Revision : assigned[r].base = 0}
           T == {r \in 2..m : assigned[r].base = 0}
<1>1. Revision \in Nat /\ IsFiniteSet(2..Revision)
  BY FS_Interval, RevisionType
<1>2. S \in SUBSET (2..Revision) /\ T \in SUBSET S
  BY <1>1
<1>3. IsFiniteSet(S)
  BY <1>1, <1>2, FS_Subset
<1>4. IsFiniteSet(T) /\ Cardinality(T) <= Cardinality(S)
  BY <1>2, <1>3, FS_Subset
<1>5. Cardinality(S) \in Nat /\ Cardinality(T) \in Nat
  BY <1>3, <1>4, FS_CardinalityType
<1> QED
  BY <1>4, <1>5 DEF ByHand

LEMMA ByHandAppend ==
  ASSUME TaskTypeOK, TaskTypeOK', Revision' = Revision + 1,
         \A r \in 1..Revision : assigned'[r] = assigned[r]
  PROVE  ByHand(Revision) \in Nat /\ ByHand(Revision)' \in Nat
         /\ ByHand(Revision) <= ByHand(Revision)'
<1> DEFINE S == {r \in 2..Revision' : assigned'[r].base = 0}
           T == {r \in 2..Revision : assigned[r].base = 0}
<1> Revision \in Nat /\ Revision' \in Nat
  BY RevisionType
<1>1. IsFiniteSet(2..Revision')
  BY FS_Interval
<1>2. S \in SUBSET (2..Revision')
  OBVIOUS
<1>3. T \in SUBSET S
  BY <1>1
<1>4. IsFiniteSet(S)
  BY <1>1, <1>2, FS_Subset
<1>5. IsFiniteSet(T) /\ Cardinality(T) <= Cardinality(S)
  BY <1>3, <1>4, FS_Subset
<1>6. Cardinality(S) \in Nat /\ Cardinality(T) \in Nat
  BY <1>4, <1>5, FS_CardinalityType
<1> QED
  BY <1>5, <1>6 DEF ByHand

\* Facts about sequences and records, away from the state.
LEMMA SeqElement ==
  ASSUME NEW S, NEW q \in Seq(S), NEW r \in 1..Len(q)
  PROVE  q[r] \in S
  OBVIOUS

LEMMA RowFields ==
  ASSUME NEW w, NEW b, NEW x, x = [who |-> w, base |-> b]
  PROVE  x.who = w /\ x.base = b
  OBVIOUS

LEMMA Weaken ==
  ASSUME NEW x \in Nat, NEW l \in Nat, NEW h \in Nat, NEW k \in Nat,
         x <= l + h, h <= k
  PROVE  x <= l + k
  OBVIOUS

\* Rows of task_assignments.
LEMMA RowType ==
  ASSUME TaskTypeOK, NEW r \in 1..Revision
  PROVE  assigned[r].base \in Nat /\ assigned[r].who \in Accounts
<1>1. assigned \in Seq([who : Accounts, base : Nat]) /\ r \in 1..Len(assigned)
  BY DEF TaskTypeOK, Revision
<1>2. assigned[r] \in [who : Accounts, base : Nat]
  BY <1>1, SeqElement
<1> QED
  BY <1>2

\* Steps that assign nobody and pick nobody.
LEMMA RouteSame ==
  ASSUME RouteInv, UNCHANGED assigned,
         \A c \in Txns : pc'[c] = "REASSIGN" =>
           pc[c] = "REASSIGN" /\ base'[c] = base[c] /\ pick'[c] = pick[c]
  PROVE  RouteInv'
<1>1. Revision' = Revision /\ ByHand(Revision)' = ByHand(Revision)
  BY DEF Revision, ByHand
<1> QED
  BY <1>1 DEF RouteInv, KeysInv, NeverBack, PickInv

\* A new revision under a key that is not used yet, for an account that did
\* not have the Task at the revision the key names.
LEMMA RouteAppend ==
  ASSUME RouteInv, TypeInv, TypeInv',
         NEW who \in Accounts, NEW from \in 0..Revision,
         assigned' = Append(assigned, [who |-> who, base |-> from]),
         from <= Limit + ByHand(Revision),
         from # 0 => \A r \in 1..Revision : assigned[r].base # from,
         \A q \in 1..from : assigned[q].who # who,
         \A c \in Txns : pc'[c] = "REASSIGN" =>
           pc[c] = "REASSIGN" /\ base'[c] = base[c] /\ pick'[c] = pick[c]
  PROVE  RouteInv'
<1>1. Revision \in Nat /\ Limit \in Nat
  BY RevisionType, RoutingAssumption DEF TypeInv, TypeOK
<1>2. /\ Revision' = Revision + 1
      /\ \A r \in 1..Revision : assigned'[r] = assigned[r]
      /\ assigned'[Revision + 1] = [who |-> who, base |-> from]
  <2>1. TaskTypeOK /\ from \in Nat
    BY <1>1 DEF TypeInv, TypeOK
  <2> QED
    BY <2>1, AssignedType
<1>3. ByHand(Revision) \in Nat /\ ByHand(Revision)' \in Nat
      /\ ByHand(Revision) <= ByHand(Revision)'
  <2>1. TaskTypeOK /\ TaskTypeOK'
    BY DEF TypeInv, TypeOK
  <2> QED
    BY <1>2, <2>1, ByHandAppend
<1>4. \A r \in 1..Revision : assigned[r].base \in Nat
  BY RowType DEF TypeInv, TypeOK
<1>5. /\ assigned'[Revision + 1].who = who
      /\ assigned'[Revision + 1].base = from
  <2> DEFINE row == [who |-> who, base |-> from]
  <2>1. assigned'[Revision + 1] = row
    BY <1>2
  <2>2. row.who = who /\ row.base = from
    BY RowFields
  <2> HIDE DEF row
  <2> QED
    BY <2>1, <2>2, Zenon
<1>6. 1..Revision' = 1..Revision \cup {Revision + 1}
  BY <1>1, <1>2
<1>7. KeysInv'
  <2> SUFFICES ASSUME NEW r \in 1..Revision \cup {Revision + 1}
               PROVE  /\ assigned'[r].base < r
                      /\ assigned'[r].base <= Limit + ByHand(Revision)'
                      /\ \A q \in 1..Revision \cup {Revision + 1} :
                           assigned'[r].base # 0
                           /\ assigned'[r].base = assigned'[q].base => r = q
    BY <1>6 DEF KeysInv
  <2>1. assigned'[r].base < r /\ assigned'[r].base <= Limit + ByHand(Revision)'
    <3>1. CASE r \in 1..Revision
      <4>1. /\ assigned[r].base \in Nat
            /\ assigned[r].base < r
            /\ assigned[r].base <= Limit + ByHand(Revision)
        BY <1>4, <3>1 DEF RouteInv, KeysInv
      <4>2. assigned'[r].base = assigned[r].base
        BY <1>2, <3>1
      <4>3. assigned[r].base <= Limit + ByHand(Revision)'
        BY <1>1, <1>3, <4>1, Weaken
      <4> QED
        BY <4>1, <4>2, <4>3, Zenon
    <3>2. CASE r = Revision + 1
      <4>1. from < r /\ from <= Limit + ByHand(Revision)'
        BY <1>1, <1>3, <3>2
      <4>2. assigned'[r].base = from
        BY <1>5, <3>2
      <4> QED
        BY <4>1, <4>2
    <3> QED
      BY <3>1, <3>2
  <2>2. \A q \in 1..Revision \cup {Revision + 1} :
          assigned'[r].base # 0 /\ assigned'[r].base = assigned'[q].base => r = q
    <3>1. CASE r \in 1..Revision
      BY <1>2, <1>5, <3>1 DEF RouteInv, KeysInv
    <3>2. CASE r = Revision + 1
      BY <1>2, <1>5, <3>2 DEF RouteInv, KeysInv
    <3> QED
      BY <3>1, <3>2
  <2> QED
    BY <2>1, <2>2
<1>8. NeverBack'
  <2> SUFFICES ASSUME NEW r \in 1..Revision \cup {Revision + 1},
                      assigned'[r].base # 0,
                      NEW q \in 1..assigned'[r].base
               PROVE  assigned'[q].who # assigned'[r].who
    BY <1>6 DEF NeverBack
  <2>1. CASE r \in 1..Revision
    <3>1. /\ assigned[r].base \in Nat /\ assigned[r].base < r
          /\ q \in 1..assigned[r].base /\ assigned[r].base # 0
      BY <1>2, <1>4, <2>1 DEF RouteInv, KeysInv
    <3>2. q \in 1..Revision
      BY <1>1, <2>1, <3>1
    <3>3. assigned[q].who # assigned[r].who
      BY <2>1, <3>1 DEF RouteInv, NeverBack
    <3> QED
      BY <1>2, <2>1, <3>2, <3>3
  <2>2. CASE r = Revision + 1
    <3>1. q \in 1..from /\ q \in 1..Revision
      <4>1. q \in 1..from
        BY <1>5, <2>2, Zenon
      <4> QED
        BY <1>1, <4>1
    <3>2. assigned'[q].who = assigned[q].who /\ assigned[q].who # who
      BY <1>2, <3>1
    <3>3. assigned'[r].who = who
      BY <1>5, <2>2
    <3> QED
      BY <3>2, <3>3
  <2> QED
    BY <2>1, <2>2
<1>9. PickInv'
  <2> SUFFICES ASSUME NEW c \in Txns, pc'[c] = "REASSIGN"
               PROVE  /\ base'[c] <= Limit + ByHand(Revision)'
                      /\ \A q \in 1..base'[c] : assigned'[q].who # pick'[c]
    BY DEF PickInv
  <2>1. /\ base'[c] = base[c] /\ pick'[c] = pick[c]
        /\ base[c] <= Limit + ByHand(Revision)
        /\ \A q \in 1..base[c] : assigned[q].who # pick[c]
    BY DEF RouteInv, PickInv
  <2>2. base[c] \in Nat /\ base[c] <= Revision
    BY DEF TypeInv, TypeOK, TxnTypeOK
  <2>3. base'[c] <= Limit + ByHand(Revision)'
    BY <1>1, <1>3, <2>1, <2>2
  <2>4. ASSUME NEW q \in 1..base'[c]
        PROVE  assigned'[q].who # pick'[c]
    <3>1. q \in 1..base[c] /\ q \in 1..Revision
      BY <1>1, <2>1, <2>2
    <3>2. assigned'[q].who = assigned[q].who
      BY <1>2, <3>1
    <3> QED
      BY <2>1, <3>1, <3>2
  <2> QED
    BY <2>3, <2>4
<1> QED
  BY <1>7, <1>8, <1>9 DEF RouteInv

\* The choice of a candidate: fewer re-routes than the limit were counted, so
\* the revision it started from is early.
LEMMA RouteSelect ==
  ASSUME RouteInv, TypeInv, NEW c \in Txns, SelectAssignee(c)
  PROVE  RouteInv'
<1>1. Revision \in Nat /\ base[c] \in Nat /\ Limit \in Nat /\ base[c] > 0
  BY RevisionType, RoutingAssumption
  DEF TypeInv, TypeOK, TxnTypeOK, StepInv, SelectAssignee, Working
<1>2. /\ UNCHANGED <<assigned, base>>
      /\ Revision' = Revision /\ ByHand(Revision)' = ByHand(Revision)
  BY DEF SelectAssignee, Revision, ByHand
<1>3. KeysInv' /\ NeverBack'
  BY <1>2 DEF RouteInv, KeysInv, NeverBack
<1>4. CASE pc' = [pc EXCEPT ![c] = "CANCEL"] /\ pick' = [pick EXCEPT ![c] = None]
  BY <1>2, <1>4, RouteSame DEF TypeInv, TypeOK, TxnTypeOK
<1>5. ASSUME NEW n \in base[c]..Revision, NEW m \in n..Revision,
             Autos(m) < Limit,
             NEW a \in Agents \ Excluded(c, n),
             pick' = [pick EXCEPT ![c] = a],
             pc' = [pc EXCEPT ![c] = "REASSIGN"]
      PROVE  RouteInv'
  <2>1. m \in 1..Revision /\ base[c] <= m /\ n \in Nat /\ base[c] <= n
    BY <1>1
  <2>2. /\ ByHand(m) \in Nat /\ Autos(m) \in Nat
        /\ m <= 1 + ByHand(m) + Autos(m)
    BY <2>1, RevisionCount DEF TypeInv, TypeOK
  <2>3. /\ ByHand(Revision) \in Nat /\ ByHand(m) <= ByHand(Revision)
    BY <2>1, <1>1, ByHandGrows DEF TypeInv, TypeOK
  <2>4. base[c] <= Limit + ByHand(Revision)
    BY <1>1, <1>5, <2>1, <2>2, <2>3
  <2>5. \A q \in 1..base[c] : assigned[q].who # a
    BY <1>1, <1>5, <2>1 DEF Excluded
  <2>6. PickInv'
    BY <1>2, <1>5, <2>4, <2>5 DEF RouteInv, PickInv, TypeInv, TypeOK, TxnTypeOK
  <2> QED
    BY <1>3, <2>6 DEF RouteInv
<1> QED
  BY <1>4, <1>5 DEF SelectAssignee, Goto

\* ReassignTask by a re-route: replayed, or under a new key.
LEMMA RouteReroute ==
  ASSUME RouteInv, TypeInv, TypeInv', NEW c \in Txns, Reroute(c)
  PROVE  RouteInv'
<1>1. \A d \in Txns : pc'[d] = "REASSIGN" =>
        pc[d] = "REASSIGN" /\ base'[d] = base[d] /\ pick'[d] = pick[d]
  BY DEF Reroute, Done, Forget, TypeInv, TypeOK, TxnTypeOK
<1>2. CASE UNCHANGED assigned
  BY <1>1, <1>2, RouteSame
<1>3. CASE ~Replayed(c) /\ Assign(pick[c], base[c], "TASK_REASSIGNED")
  <2>1. /\ base[c] \in 0..Revision /\ base[c] <= Limit + ByHand(Revision)
        /\ pick[c] \in Accounts
        /\ \A q \in 1..base[c] : assigned[q].who # pick[c]
    <3>1. pc[c] = "REASSIGN" /\ base[c] \in Nat /\ base[c] <= Revision
      BY DEF Reroute, TypeInv, TypeOK, TxnTypeOK
    <3>2. Revision \in Nat
      BY RevisionType DEF TypeInv, TypeOK
    <3>3. pick[c] \in Accounts
      BY <3>1 DEF TypeInv, StepInv, Accounts
    <3> QED
      BY <3>1, <3>2, <3>3 DEF RouteInv, PickInv
  <2>2. \A r \in 1..Revision : assigned[r].base # base[c]
    BY <1>3 DEF Replayed
  <2>3. assigned' = Append(assigned, [who |-> pick[c], base |-> base[c]])
    BY <1>3 DEF Assign
  <2> HIDE DEF RouteInv, TypeInv
  <2> QED
    BY <1>1, <2>1, <2>2, <2>3, RouteAppend
<1> QED
  BY <1>2, <1>3 DEF Reroute

LEMMA InitRoute == Init => RouteInv
<1> SUFFICES ASSUME Init
             PROVE  RouteInv
  OBVIOUS
<1>1. Revision = 0
  BY DEF Init, Revision
<1>2. \A c \in Txns : pc[c] = "IDLE"
  BY DEF Init
<1> QED
  BY <1>1, <1>2 DEF RouteInv, KeysInv, NeverBack, PickInv

LEMMA NextRoute ==
  TypeInv /\ TypeInv' /\ RouteInv /\ [Next]_vars => RouteInv'
<1> SUFFICES ASSUME TypeInv, TypeInv', RouteInv, [Next]_vars
             PROVE  RouteInv'
  OBVIOUS
<1> DEFINE Quietly ==
      /\ UNCHANGED assigned
      /\ \A d \in Txns : pc'[d] = "REASSIGN" =>
           pc[d] = "REASSIGN" /\ base'[d] = base[d] /\ pick'[d] = pick[d]
<1>0. Quietly => RouteInv'
  BY RouteSame
<1>1. ASSUME NEW who \in Accounts, DelegateTask(who) \/ ReassignTask(who)
      PROVE  RouteInv'
  <2>1. /\ assigned' = Append(assigned, [who |-> who, base |-> 0])
        /\ UNCHANGED txnVars
    BY <1>1 DEF DelegateTask, ReassignTask, AssignByHand, Assign
  <2>2. Revision \in Nat /\ Limit \in Nat
    BY RevisionType, RoutingAssumption DEF TypeInv, TypeOK
  <2>3. ByHand(Revision) \in Nat
    BY <2>2, ByHandGrows DEF TypeInv, TypeOK
  <2>4. 0 \in 0..Revision /\ 0 <= Limit + ByHand(Revision) /\ 1..0 = {}
    BY <2>2, <2>3
  <2>5. \A d \in Txns : pc'[d] = "REASSIGN" =>
          pc[d] = "REASSIGN" /\ base'[d] = base[d] /\ pick'[d] = pick[d]
    BY <2>1 DEF txnVars
  <2>6. \A q \in 1..0 : assigned[q].who # who
    BY <2>4
  <2> HIDE DEF Quietly
  <2> QED
    BY <2>1, <2>4, <2>5, <2>6, RouteAppend
<1>2. ASSUME NEW t \in Events, Move(t)
      PROVE  Quietly
  BY <1>2 DEF Move, txnVars
<1>3. ASSUME NEW r \in 1..Len(item), Ack(r) \/ Start(r) \/ Result(r)
      PROVE  Quietly
  BY <1>3 DEF Ack, Start, Result, ItemStep, txnVars
<1>4. ASSUME NEW c \in Txns, NEW n, NEW mine, Trigger(c, n, mine)
      PROVE  Quietly
  BY <1>4 DEF Trigger, TypeInv, TypeOK, TxnTypeOK
<1>5. ASSUME NEW c \in Callers,
             \/ \E r \in 1..Len(item) : WorkReject(c, r)
             \/ AgentUnavailable(c)
             \/ BudgetExceeded(c)
      PROVE  Quietly
  <2>1. c \in Txns
    BY DEF Txns
  <2>2. PICK mine : Trigger(c, 1, mine)
    BY <1>5 DEF WorkReject, AgentUnavailable, BudgetExceeded
  <2> QED
    BY <1>4, <2>1, <2>2
<1>6. CASE SweepWorkItems
  <2>1. Sweeper \in Txns
    BY DEF Txns
  <2>2. PICK n, mine : Trigger(Sweeper, n, mine)
    BY <1>6 DEF SweepWorkItems
  <2> QED
    BY <1>0, <1>4, <2>1, <2>2
<1>7. ASSUME NEW c \in Txns, RerouteStep(c)
      PROVE  RouteInv'
  <2>1. CASE LoadTask(c) \/ CancelAssignments(c) \/ MarkWaiting(c)
    <3>1. Quietly
      BY <2>1 DEF LoadTask, CancelAssignments, MarkWaiting, Done, Forget, Goto,
                  TypeInv, TypeOK, TxnTypeOK
    <3> QED
      BY <1>0, <3>1
  <2>2. CASE Commit(c) \/ Rollback(c)
    <3>1. Quietly
      BY <2>2 DEF Commit, Rollback, EndTxn, Forget, TypeInv, TypeOK, TxnTypeOK
    <3> QED
      BY <1>0, <3>1
  <2>3. CASE SelectAssignee(c)
    BY <2>3, RouteSelect
  <2>4. CASE Reroute(c)
    BY <2>4, RouteReroute
  <2> QED
    BY <1>7, <2>1, <2>2, <2>3, <2>4 DEF RerouteStep
<1>8. CASE UNCHANGED vars
  <2>1. Quietly
    BY <1>8 DEF vars, txnVars
  <2> QED
    BY <1>0, <2>1
<1> HIDE DEF Quietly
<1> QED
  BY <1>0, <1>1, <1>2, <1>3, <1>5, <1>6, <1>7, <1>8 DEF Next

\* Re-routes have different keys, all of them small.
LEMMA KeysBound ==
  ASSUME TypeInv, RouteInv
  PROVE  ReroutesBounded
<1> DEFINE S == {r \in 1..Revision : assigned[r].base # 0}
           top == Limit + ByHand(Revision)
           f == [r \in S |-> assigned[r].base]
<1>1. TaskTypeOK /\ Revision \in Nat /\ Limit \in Nat
  BY RevisionType, RoutingAssumption DEF TypeInv, TypeOK
<1>2. ByHand(Revision) \in Nat
  BY <1>1, ByHandGrows
<1>3. IsFiniteSet(S)
  <2>1. IsFiniteSet(1..Revision) /\ S \in SUBSET (1..Revision)
    BY <1>1, FS_Interval
  <2> QED
    BY <2>1, FS_Subset
<1>4. top \in Nat /\ IsFiniteSet(1..top) /\ Cardinality(1..top) = top
  <2>1. top \in Nat
    BY <1>1, <1>2
  <2> HIDE DEF top
  <2> QED
    BY <2>1, FS_Interval
<1>5. f \in [S -> 1..top]
  <2> SUFFICES ASSUME NEW r \in S
               PROVE  assigned[r].base \in 1..top
    OBVIOUS
  <2>1. assigned[r].base \in Nat /\ assigned[r].base # 0
    BY <1>1, RowType
  <2>2. assigned[r].base <= top
    BY DEF RouteInv, KeysInv
  <2> HIDE DEF top
  <2> QED
    BY <1>4, <2>1, <2>2
<1>6. \A x, y \in S : f[x] = f[y] => x = y
  BY DEF RouteInv, KeysInv
<1>7. Cardinality(S) \in Nat
  BY <1>3, FS_CardinalityType
<1>8. ~(top < Cardinality(S))
  <2> HIDE DEF S, top, f
  <2> QED
    BY <1>3, <1>4, <1>5, <1>6, FS_PigeonHole
<1>9. Autos(Revision) = Cardinality(S)
  BY DEF Autos
<1> HIDE DEF S
<1> QED
  BY <1>1, <1>2, <1>4, <1>7, <1>8, <1>9 DEF ReroutesBounded

\* Concurrent triggers that count re-routes without a lock exceed the limit
\* by at most the number of reassignments by hand.
THEOREM RoutingReroutesBounded == Spec => []ReroutesBounded
  BY InitType, NextType, InitRoute, NextRoute, KeysBound, PTL DEF Spec

\* However stale the state it selected a candidate on, a re-route never gives
\* a Task back to an account that had had it when the trigger loaded it.
THEOREM RoutingNeverBack == Spec => []NeverBack
<1>1. RouteInv => NeverBack
  BY DEF RouteInv
<1> QED
  BY <1>1, InitType, NextType, InitRoute, NextRoute, PTL DEF Spec

-----------------------------------------------------------------------------
\* Steps that assign nobody and open no item keep one Agent at work.
LEMMA WorkShrinks ==
  ASSUME OneAgentAtWork, UNCHANGED assigned, OpenSoon' \subseteq OpenSoon
  PROVE  OneAgentAtWork'
<1>1. Assignee' = Assignee
  BY DEF Assignee, Revision
<1> QED
  BY <1>1 DEF OneAgentAtWork

\* A new assignee, when the items of other Agents are gone.
LEMMA WorkAssigned ==
  ASSUME OneAgentAtWork, TypeInv, NEW who \in Accounts, NEW from \in Nat,
         assigned' = Append(assigned, [who |-> who, base |-> from]),
         OpenSoon' \subseteq OpenSoon \cup {Revision + 1},
         Revision + 1 \in OpenSoon' => who \in Agents,
         who \in Agents =>
           \A r \in OpenSoon' \ {Revision + 1} : assigned[r].who = who
  PROVE  OneAgentAtWork'
<1>1. Revision \in Nat /\ OpenSoon \subseteq 1..Revision
  BY RevisionType DEF OpenSoon, TypeInv, TypeOK
<1>2. /\ Revision' = Revision + 1
      /\ \A r \in 1..Revision : assigned'[r] = assigned[r]
      /\ assigned'[Revision + 1] = [who |-> who, base |-> from]
  <2>1. TaskTypeOK
    BY DEF TypeInv, TypeOK
  <2> QED
    BY <2>1, AssignedType
<1>3. assigned'[Revision + 1].who = who
  <2> DEFINE row == [who |-> who, base |-> from]
  <2>1. assigned'[Revision + 1] = row
    BY <1>2
  <2>2. row.who = who
    BY RowFields
  <2> HIDE DEF row
  <2> QED
    BY <2>1, <2>2, Zenon
<1>4. Assignee' = who
  BY <1>2, <1>3 DEF Assignee
<1>5. CASE who \in Agents
  <2>1. ASSUME NEW r \in OpenSoon'
        PROVE  assigned'[r].who = who
    <3>1. CASE r = Revision + 1
      BY <1>3, <3>1
    <3>2. CASE r # Revision + 1
      <4>1. r \in 1..Revision /\ assigned[r].who = who
        BY <1>1, <1>5, <3>2
      <4> QED
        BY <1>2, <4>1
    <3> QED
      BY <3>1, <3>2
  <2> QED
    BY <1>4, <2>1, Zenon DEF OneAgentAtWork
<1>6. CASE who \notin Agents
  <2>1. OpenSoon' \subseteq OpenSoon
    BY <1>6
  <2>2. ASSUME NEW r \in OpenSoon'
        PROVE  r \in OpenSoon /\ assigned'[r].who = assigned[r].who
    BY <1>1, <1>2, <2>1
  <2> QED
    BY <1>4, <1>6, <2>2, Zenon DEF OneAgentAtWork
<1> QED
  BY <1>5, <1>6

\* By hand: after_assignment has cancelled the items of other Agents.
LEMMA WorkByHand ==
  ASSUME OneAgentAtWork, TypeInv, NEW who \in Accounts, NEW t,
         AssignByHand(who, t)
  PROVE  OneAgentAtWork'
<1> DEFINE gone == Superseded(who, OpenItems)
<1>1. /\ lock = None /\ lock' = None
      /\ assigned' = Append(assigned, [who |-> who, base |-> 0])
      /\ item' = Append(Ending(gone), NewItem(who))
  BY DEF AssignByHand, Assign
<1>2. TaskTypeOK /\ Revision \in Nat
      /\ OpenItems = {r \in 1..Revision : item[r] \in OpenStates}
  BY RevisionType DEF TypeInv, TypeOK
<1>3. /\ Ending(gone) \in Seq(OpenStates \cup {"NONE", "ENDED"})
      /\ Len(Ending(gone)) = Revision
      /\ \A r \in 1..Revision :
           Ending(gone)[r] = IF r \in gone THEN "ENDED" ELSE item[r]
  BY <1>2, EndingType
<1>4. /\ Len(item') = Revision + 1
      /\ item'[Revision + 1] = NewItem(who)
      /\ \A r \in 1..Revision :
           item'[r] = IF r \in gone THEN "ENDED" ELSE item[r]
  <2> HIDE DEF gone
  <2>1. /\ Len(item') = Revision + 1
        /\ item'[Revision + 1] = NewItem(who)
        /\ \A r \in 1..Revision : item'[r] = Ending(gone)[r]
    BY <1>1, <1>3, NewItemType
  <2> QED
    BY <1>3, <2>1
<1>5. OpenSoon = OpenItems /\ OpenSoon' = OpenItems'
  BY <1>1 DEF OpenSoon
<1>6. OpenItems' \subseteq (OpenItems \ gone) \cup {Revision + 1}
  <2> SUFFICES ASSUME NEW r \in OpenItems', r # Revision + 1
               PROVE  r \in OpenItems \ gone
    OBVIOUS
  <2>1. r \in 1..Revision /\ item'[r] \in OpenStates
    BY <1>2, <1>4 DEF OpenItems
  <2>2. r \notin gone /\ item[r] \in OpenStates
    <3> HIDE DEF gone
    <3> QED
      BY <1>4, <2>1 DEF OpenStates
  <2> QED
    BY <1>2, <2>1, <2>2
<1>7. Revision + 1 \in OpenItems' => who \in Agents
  BY <1>2, <1>4 DEF OpenItems, NewItem, OpenStates
<1>8. who \in Agents =>
        \A r \in OpenSoon' \ {Revision + 1} : assigned[r].who = who
  BY <1>5, <1>6 DEF Superseded
<1>9. OpenSoon' \subseteq OpenSoon \cup {Revision + 1}
  BY <1>5, <1>6
<1> HIDE DEF gone
<1> QED
  BY <1>1, <1>5, <1>7, <1>8, <1>9, WorkAssigned

\* By a re-route: the items of other Agents end when it commits, and it holds
\* the lock until then.
LEMMA WorkRerouted ==
  ASSUME OneAgentAtWork, TypeInv, NEW c \in Txns, Reroute(c)
  PROVE  OneAgentAtWork'
<1> DEFINE gone == Superseded(pick[c], OpenItems \ ended[c])
<1>1. CASE UNCHANGED <<assigned, item, lock, ended>>
  <2>1. OpenSoon' = OpenSoon
    BY <1>1 DEF OpenSoon, OpenItems
  <2> QED
    BY <1>1, <2>1, WorkShrinks
<1>2. CASE /\ Assign(pick[c], base[c], "TASK_REASSIGNED")
           /\ item' = Append(item, NewItem(pick[c]))
           /\ ended' = [ended EXCEPT ![c] = @ \cup gone]
           /\ lock' = c
  <2>1. /\ pick[c] \in Agents /\ pick[c] \in Accounts /\ base[c] \in Nat
        /\ assigned' = Append(assigned, [who |-> pick[c], base |-> base[c]])
    BY <1>2 DEF Reroute, TypeInv, StepInv, TypeOK, TxnTypeOK, Accounts, Assign
  <2>2. Revision \in Nat
        /\ OpenItems = {r \in 1..Revision : item[r] \in OpenStates}
    BY RevisionType DEF TypeInv, TypeOK
  <2>3. /\ Len(item') = Revision + 1
        /\ \A r \in 1..Revision : item'[r] = item[r]
    BY <1>2, NewItemType DEF TypeInv, TypeOK, TaskTypeOK
  <2>4. ended'[c] = ended[c] \cup gone
    BY <1>2 DEF TypeInv, TypeOK, TxnTypeOK
  <2>5. lock \in {None, c} /\ c # None
    BY RoutingAssumption DEF Reroute, Quiet, Txns
  <2>6. OpenItems' \subseteq OpenItems \cup {Revision + 1}
    BY <2>2, <2>3 DEF OpenItems
  <2>7. OpenSoon' = OpenItems' \ (ended[c] \cup gone)
    BY <1>2, <2>4, <2>5 DEF OpenSoon
  <2>8. OpenItems \ ended[c] \subseteq OpenSoon
    BY <2>5 DEF OpenSoon
  <2>9. \A r \in OpenSoon' \ {Revision + 1} :
          r \in OpenItems \ ended[c] /\ assigned[r].who = pick[c]
    BY <2>1, <2>6, <2>7 DEF Superseded
  <2>10. OpenSoon' \subseteq OpenSoon \cup {Revision + 1}
    BY <2>8, <2>9
  <2> HIDE DEF gone
  <2> QED
    BY <2>1, <2>9, <2>10, WorkAssigned
<1> QED
  BY <1>1, <1>2 DEF Reroute

\* The steps of a transaction that assign nobody.
LEMMA WorkTxn ==
  ASSUME TypeInv, NEW c \in Txns,
         \/ LoadTask(c) \/ SelectAssignee(c) \/ CancelAssignments(c)
         \/ MarkWaiting(c) \/ Commit(c) \/ Rollback(c)
  PROVE  UNCHANGED assigned /\ OpenSoon' \subseteq OpenSoon
<1>1. /\ c # None
      /\ lock \in Txns \cup {None}
      /\ ended \in [Txns -> SUBSET Nat]
  BY RoutingAssumption DEF TypeInv, TypeOK, TxnTypeOK, Txns
<1>2. CASE LoadTask(c) \/ SelectAssignee(c)
  BY <1>2 DEF LoadTask, SelectAssignee, OpenSoon, OpenItems
<1>3. CASE CancelAssignments(c)
  <2>1. PICK mine : ended' = [ended EXCEPT ![c] = @ \cup mine]
    BY <1>3 DEF CancelAssignments
  <2>2. \A d \in Txns : ended[d] \subseteq ended'[d]
    BY <1>1, <2>1
  <2> QED
    BY <1>1, <1>3, <2>2 DEF CancelAssignments, OpenSoon, OpenItems
<1>4. CASE MarkWaiting(c)
  BY <1>1, <1>4 DEF MarkWaiting, Quiet, OpenSoon, OpenItems
<1>5. CASE Commit(c)
  <2>1. /\ item' = Ending(ended[c]) /\ assigned' = assigned
        /\ lock' = IF lock = c THEN None ELSE lock
        /\ ended' = [ended EXCEPT ![c] = {}]
    BY <1>5 DEF Commit, EndTxn
  <2>2. /\ Len(item') = Len(item)
        /\ \A r \in 1..Len(item) :
             item'[r] = IF r \in ended[c] THEN "ENDED" ELSE item[r]
    BY <2>1, EndingType DEF TypeInv, TypeOK, TaskTypeOK
  <2>3. OpenItems' \subseteq OpenItems \ ended[c]
    BY <2>2 DEF OpenItems, OpenStates
  <2>4. \A d \in Txns \ {c} : ended'[d] = ended[d]
    BY <1>1, <2>1
  <2> QED
    BY <1>1, <2>1, <2>3, <2>4 DEF OpenSoon
<1>6. CASE Rollback(c)
  <2>1. /\ UNCHANGED <<assigned, item, lock>> /\ lock # c
        /\ ended' = [ended EXCEPT ![c] = {}]
    BY <1>6 DEF Rollback, EndTxn
  <2>2. \A d \in Txns \ {c} : ended'[d] = ended[d]
    BY <1>1, <2>1
  <2> QED
    BY <1>1, <2>1, <2>2 DEF OpenSoon, OpenItems
<1> QED
  BY <1>2, <1>3, <1>4, <1>5, <1>6

LEMMA NextWork ==
  TypeInv /\ OneAgentAtWork /\ [Next]_vars => OneAgentAtWork'
<1> SUFFICES ASSUME TypeInv, OneAgentAtWork, [Next]_vars
             PROVE  OneAgentAtWork'
  OBVIOUS
<1> DEFINE Shrinks == UNCHANGED assigned /\ OpenSoon' \subseteq OpenSoon
<1>0. Shrinks => OneAgentAtWork'
  BY WorkShrinks
<1>1. ASSUME NEW who \in Accounts, DelegateTask(who) \/ ReassignTask(who)
      PROVE  OneAgentAtWork'
  BY <1>1, WorkByHand DEF DelegateTask, ReassignTask
<1>2. ASSUME NEW t \in Events, Move(t)
      PROVE  Shrinks
  BY <1>2 DEF Move, txnVars, OpenSoon, OpenItems
<1>3. ASSUME NEW r \in 1..Len(item), Ack(r) \/ Start(r) \/ Result(r)
      PROVE  Shrinks
  <2>1. PICK to : /\ item[r] \in OpenStates
                  /\ item' = [item EXCEPT ![r] = to]
                  /\ UNCHANGED <<assigned, lock, ended>>
    BY <1>3 DEF Ack, Start, Result, ItemStep, txnVars, OpenStates
  <2>2. /\ Len(item') = Len(item)
        /\ \A q \in 1..Len(item) : q # r => item'[q] = item[q]
    BY <2>1 DEF TypeInv, TypeOK, TaskTypeOK
  <2>3. OpenItems' \subseteq OpenItems
    BY <2>1, <2>2 DEF OpenItems
  <2> QED
    BY <2>1, <2>3 DEF OpenSoon
<1>4. ASSUME NEW c \in Txns, NEW n, NEW mine, Trigger(c, n, mine)
      PROVE  Shrinks
  BY <1>4 DEF Trigger, OpenSoon, OpenItems
<1>5. ASSUME NEW c \in Callers,
             \/ \E r \in 1..Len(item) : WorkReject(c, r)
             \/ AgentUnavailable(c)
             \/ BudgetExceeded(c)
      PROVE  Shrinks
  <2>1. c \in Txns
    BY DEF Txns
  <2>2. PICK mine : Trigger(c, 1, mine)
    BY <1>5 DEF WorkReject, AgentUnavailable, BudgetExceeded
  <2> QED
    BY <1>4, <2>1, <2>2
<1>6. CASE SweepWorkItems
  <2>1. Sweeper \in Txns
    BY DEF Txns
  <2>2. PICK n, mine : Trigger(Sweeper, n, mine)
    BY <1>6 DEF SweepWorkItems
  <2> QED
    BY <1>0, <1>4, <2>1, <2>2
<1>7. ASSUME NEW c \in Txns, RerouteStep(c)
      PROVE  OneAgentAtWork'
  <2>1. CASE Reroute(c)
    BY <2>1, WorkRerouted
  <2>2. CASE ~Reroute(c)
    <3>1. Shrinks
      BY <1>7, <2>2, WorkTxn DEF RerouteStep
    <3> QED
      BY <1>0, <3>1
  <2> QED
    BY <2>1, <2>2
<1>8. CASE UNCHANGED vars
  <2>1. Shrinks
    BY <1>8 DEF vars, txnVars, OpenSoon, OpenItems
  <2> QED
    BY <1>0, <2>1
<1> HIDE DEF Shrinks
<1> QED
  BY <1>0, <1>1, <1>2, <1>3, <1>5, <1>6, <1>7, <1>8 DEF Next

LEMMA InitWork == Init => OneAgentAtWork
  BY DEF Init, OneAgentAtWork, OpenSoon, OpenItems

\* Whatever rejections, sweeps and reassignments overlap, the open assignment
\* items of a Task belong to one Agent, its assignee if that is an Agent.
THEOREM RoutingOneAgentAtWork == Spec => []OneAgentAtWork
  BY InitType, NextType, InitWork, NextWork, PTL DEF Spec

-----------------------------------------------------------------------------
(***************************************************************************)
(* The planner of a Schedule, and its Runs.                                *)
(***************************************************************************)
\* Every reachable state of the planner is type correct.
THEOREM PlannerTypes == PlannerSpec => []PlannerTypeOK
<1>1. PlannerInit => PlannerTypeOK
  BY PlannerAssumption DEF PlannerInit, PlannerTypeOK
<1>2. PlannerTypeOK /\ [PlannerNext]_plannerVars => PlannerTypeOK'
  <2> SUFFICES ASSUME PlannerTypeOK, [PlannerNext]_plannerVars
               PROVE  PlannerTypeOK'
    OBVIOUS
  <2> USE PlannerAssumption DEF PlannerTypeOK
  <2>1. CASE PlanCommand /\ planCommands < MaxPlanCommands /\ planCommands' = planCommands + 1
    <3>1. CASE CreateSchedule
      BY <2>1, <3>1 DEF CreateSchedule, ScheduleStatus
    <3>2. CASE EnableSchedule
      <4>1. now \in Nat /\ since' \in Nat
        BY <3>2 DEF EnableSchedule
      <4>2. sched' \in [status : ScheduleStatus \cup {"NONE"}, version : Versions, planned : Nat]
        <5>1. sched' = [sched EXCEPT !.status = "ENABLED", !.planned = now]
          BY <3>2 DEF EnableSchedule
        <5> QED
          BY <4>1, <5>1 DEF ScheduleStatus
      <4> QED
        BY <2>1, <3>2, <4>1, <4>2 DEF EnableSchedule
    <3>3. CASE \E v \in Versions : CommitVersion(v)
      BY <2>1, <3>3 DEF CommitVersion, InsertVersion
    <3>4. CASE \E target \in {"PAUSED", "DISABLED"} : StopSchedule(target)
      BY <2>1, <3>4 DEF StopSchedule, CancelPending, ScheduleStatus, RunStatus, RUN_TERMINAL
    <3>5. CASE \E k \in RequestKeys : RunScheduleNow(k) \/ \E x \in RowIds : RetryScheduleRun(k, x)
      BY <2>1, <3>5 DEF RunScheduleNow, RetryScheduleRun, InsertRun, RunStatus, RUN_PENDING
    <3> QED
      BY <2>1, <3>1, <3>2, <3>3, <3>4, <3>5 DEF PlanCommand
  <2>2. CASE PlanSchedule /\ UNCHANGED planCommands
    <3>1. OccurrencesOf[sched.version] \subseteq Instants
      BY DEF Instants
    <3>2. noted' \subseteq Instants
      BY <2>2, <3>1 DEF PlanSchedule, InWindow, GapsIn, Executable
    <3>3. now + Horizon \in Nat /\ now' \in 0..MaxNow
      BY <2>2 DEF PlanSchedule
    <3> QED
      BY <2>2, <3>2, <3>3 DEF PlanSchedule, InsertRun, RunStatus, RUN_PENDING
  <2>3. CASE (MarkDue \/ ClockTick) /\ UNCHANGED planCommands
    BY <2>3 DEF MarkDue, ClockTick, RunStatus, RUN_PENDING
  <2>4. CASE /\ \E x \in RowIds, end \in {"SUCCEEDED", "FAILED"} : RunEnds(x, end)
             /\ UNCHANGED planCommands
    BY <2>4 DEF RunEnds, RunStatus, RUN_TERMINAL
  <2>5. CASE UNCHANGED plannerVars
    BY <2>5 DEF plannerVars
  <2> QED
    BY <2>1, <2>2, <2>3, <2>4, <2>5 DEF PlannerNext
<1> QED
  BY <1>1, <1>2, PTL DEF PlannerSpec

-----------------------------------------------------------------------------
\* A command that plans nothing keeps what NoOccurrenceLost says.
LEMMA PlanCommandKeeps ==
  ASSUME PlannerTypeOK, NoOccurrenceLost, PlanCommand
  PROVE  NoOccurrenceLost'
<1> USE PlannerAssumption DEF PlannerTypeOK, NoOccurrenceLost
<1>1. \A v \in Versions : OccurrencesOf[v] \subseteq Instants /\ Instants \subseteq Nat
  BY DEF Instants
<1>2. Instants \subseteq RowIds /\ Instants \cap RequestKeys = {}
  BY <1>1 DEF RowIds, Instants
<1>3. CASE CreateSchedule
  BY <1>3 DEF CreateSchedule
<1>4. CASE EnableSchedule
  BY <1>4, <1>1 DEF EnableSchedule
<1>5. CASE \E v \in Versions : CommitVersion(v)
  BY <1>5, <1>1 DEF CommitVersion, InsertVersion
<1>6. CASE \E target \in {"PAUSED", "DISABLED"} : StopSchedule(target)
  BY <1>6, <1>2 DEF StopSchedule, CancelPending, RUN_PENDING
<1>7. CASE \E k \in RequestKeys : RunScheduleNow(k) \/ \E x \in RowIds : RetryScheduleRun(k, x)
  <2>1. UNCHANGED <<sched, noted, since>> /\ \A o \in Instants : rows'[o] = rows[o]
    BY <1>7, <1>2 DEF RunScheduleNow, RetryScheduleRun, InsertRun
  <2> QED
    BY <2>1, <1>1
<1> QED
  BY <1>3, <1>4, <1>5, <1>6, <1>7, PlanCommand DEF PlanCommand

\* A planner tick leaves no occurrence of its window without a Run or a note,
\* whatever the missed-run policy makes of it.
LEMMA PlanScheduleKeeps ==
  ASSUME PlannerTypeOK, NoOccurrenceLost, PlanSchedule
  PROVE  NoOccurrenceLost'
<1> DEFINE until == now + Horizon
           found == InWindow(sched.version, PlanFrom, until)
           missed == {o \in found : o <= now}
           create == (found \ missed) \cup
                MissedToCreate(missedPolicy, missed, now, BackfillWindow, BackfillLimit)
<1> USE PlannerAssumption DEF PlannerTypeOK
<1>1. /\ rows' = InsertRun(create, "PENDING")
      /\ noted' = noted \cup (found \ create) \cup GapsIn(sched.version, PlanFrom, until)
      /\ sched' = [sched EXCEPT !.planned = until]
      /\ sched.status = "ENABLED" /\ since' = since
  BY PlanSchedule DEF PlanSchedule
<1> HIDE DEF create
<1>2. OccurrencesOf[sched.version] \subseteq RowIds /\ OccurrencesOf[sched.version] \subseteq Nat
  BY DEF Instants, RowIds
<1>3. ASSUME NEW o \in OccurrencesOf[sched.version], since < o, o <= until
      PROVE  rows'[o] # "ABSENT" \/ o \in noted'
  <2>1. CASE o <= sched.planned
    BY <1>1, <1>2, <1>3, <2>1 DEF NoOccurrenceLost, InsertRun
  <2>2. CASE o > sched.planned /\ o \in Gaps
    <3>1. o \in GapsIn(sched.version, PlanFrom, until)
      BY <1>2, <1>3, <2>2 DEF GapsIn, PlanFrom, Executable
    <3> QED
      BY <1>1, <3>1
  <2>3. CASE o > sched.planned /\ o \notin Gaps
    <3>1. o \in found
      BY <1>2, <1>3, <2>3 DEF InWindow, PlanFrom, Executable
    <3> QED
      BY <1>1, <1>2, <3>1 DEF InsertRun
  <2> QED
    BY <1>2, <1>3, <2>1, <2>2, <2>3
<1> QED
  BY <1>1, <1>3 DEF NoOccurrenceLost

\* Every occurrence of the planned window of an enabled Schedule has a Run or a
\* note, and a Schedule that is not enabled has nothing left to run.
THEOREM PlannerNoOccurrenceLost == PlannerSpec => []NoOccurrenceLost
<1>1. PlannerInit => NoOccurrenceLost
  BY DEF PlannerInit, NoOccurrenceLost, RUN_PENDING, RowIds
<1>2. PlannerTypeOK /\ NoOccurrenceLost /\ [PlannerNext]_plannerVars => NoOccurrenceLost'
  <2> SUFFICES ASSUME PlannerTypeOK, NoOccurrenceLost, [PlannerNext]_plannerVars
               PROVE  NoOccurrenceLost'
    OBVIOUS
  <2>1. CASE PlanCommand
    BY <2>1, PlanCommandKeeps
  <2>2. CASE PlanSchedule
    BY <2>2, PlanScheduleKeeps
  <2>3. CASE MarkDue \/ ClockTick \/ \E x \in RowIds, end \in {"SUCCEEDED", "FAILED"} : RunEnds(x, end)
    <3>1. UNCHANGED <<sched, noted, since>>
      BY <2>3 DEF MarkDue, ClockTick, RunEnds
    <3>2. \A o \in RowIds : /\ rows[o] # "ABSENT" => rows'[o] # "ABSENT"
                            /\ rows[o] \notin RUN_PENDING => rows'[o] \notin RUN_PENDING
      BY <2>3 DEF MarkDue, ClockTick, RunEnds, PlannerTypeOK, RUN_PENDING
    <3>3. Instants \subseteq RowIds /\ OccurrencesOf[sched.version] \subseteq Instants
      BY DEF Instants, RowIds, PlannerTypeOK
    <3> QED
      BY <3>1, <3>2, <3>3 DEF NoOccurrenceLost
  <2>4. CASE UNCHANGED plannerVars
    BY <2>4 DEF plannerVars, NoOccurrenceLost
  <2> QED
    BY <2>1, <2>2, <2>3, <2>4 DEF PlannerNext
<1> QED
  BY <1>1, <1>2, PlannerTypes, PTL DEF PlannerSpec

-----------------------------------------------------------------------------
(***************************************************************************)
(* The Runs.  What RunsInv adds to the types: the row of an execution is   *)
(* CLAIMED and nobody else executes it; what recovery and the terminal     *)
(* hook hold in hand has left the queue for good; and what an execution    *)
(* has read of the other Runs.                                             *)
(***************************************************************************)
WorkingStatuses == {"TASK_CREATED", "RUNNING", "VERIFYING"}
Over == {"SUCCEEDED", "FAILED", "TIMED_OUT", "CANCELLED", "CANCEL_REQUESTED"}
Past(row) == row.status \in WorkingStatuses \cup Over
Forbid == policy.concurrency = "FORBID"

\* A worker's open transaction; vs are those of all workers.
ExecutionGood(w, t, rs, vs) ==
  /\ t.run \in RunIds /\ t.prev \in RunIds \cup {Nobody} /\ t.prev # t.run
  /\ rs[t.run].status = "CLAIMED"
  /\ \A v \in Workers : vs[v].op = "execute" /\ (vs[v].run = t.run \/ policy.daily) => v = w
  /\ Forbid /\ t.prev = Nobody =>
       /\ \A r \in RunIds : rs[r].status \notin WorkingStatuses
       /\ \A v \in Workers : vs[v].op = "execute" /\ vs[v].prev = Nobody => v = w
  /\ Forbid /\ policy.daily /\ t.prev # Nobody =>
       rs[t.prev].status # "ABSENT" /\ rs[t.prev].code # "CONCURRENCY"
TxnGood(w, t, rs, vs) ==
  \/ t = Idle
  \/ t.op = "execute" /\ ExecutionGood(w, t, rs, vs)
  \/ t.op \in {"timeout", "window"} /\ t.run \in RunIds /\ Past(rs[t.run])

\* A Run's row with its reservations.
RowGood(row, h, l) ==
  /\ row.code = "CONCURRENCY" => Forbid /\ row.status = "SKIPPED"
  /\ l \notin {"none", "reserved"} => row.status \in Over \cup {"SKIPPED"}
  /\ l = "reserved" => h >= 1
  /\ policy.daily /\ row.status \in WorkingStatuses => l = "reserved"

Enough(rs) ==
  /\ Forbid => \A p, q \in RunIds : rs[p].status \in WorkingStatuses /\ rs[q].status \in WorkingStatuses => p = q
  /\ policy.daily /\ (\E r \in RunIds : rs[r].code = "CONCURRENCY") =>
       \E p \in RunIds : rs[p].status # "ABSENT" /\ rs[p].code # "CONCURRENCY"

HookGood == hook = Idle \/ (hook.op = "end" /\ hook.run \in RunIds /\ Past(runs[hook.run])
                            /\ hook.result \in {"DONE", "FAILED"})

RunsInv ==
  /\ RunsTypeOK /\ DOMAIN txn = Workers /\ HookGood
  /\ \A r \in RunIds : /\ RowGood(runs[r], held[r], link[r])
                       /\ task[r] # "NONE" => Past(runs[r])
  /\ \A w \in Workers : TxnGood(w, txn[w], runs, txn)
  /\ Enough(runs)

\* Row r is changed: its status and code afterwards; the other rows are not.
Touched(f, g, r, s, c) ==
  /\ g \in [RunIds -> RunRow] /\ g[r].status = s /\ g[r].code = c
  /\ \A q \in RunIds : q # r => g[q] = f[q]

\* The changes of one row that the handlers make.
LEMMA TouchStatus ==
  ASSUME NEW f \in [RunIds -> RunRow], NEW r \in RunIds,
         NEW s \in RunStatus
  PROVE  Touched(f, [f EXCEPT ![r].status = s], r, s, f[r].code)
  BY DEF RunRow, Touched

LEMMA TouchLapsed ==
  ASSUME NEW f \in [RunIds -> RunRow], NEW r \in RunIds,
         NEW b \in BOOLEAN
  PROVE  Touched(f, [f EXCEPT ![r].lapsed = b], r, f[r].status, f[r].code)
  BY DEF RunRow, Touched

LEMMA TouchConfirmed ==
  ASSUME NEW f \in [RunIds -> RunRow], NEW r \in RunIds,
         NEW s \in RunStatus, NEW b \in BOOLEAN
  PROVE  Touched(f, [f EXCEPT ![r].status = s, ![r].confirmed = b], r, s, f[r].code)
  BY DEF RunRow, Touched

LEMMA TouchAsked ==
  ASSUME NEW f \in [RunIds -> RunRow], NEW r \in RunIds,
         NEW s \in RunStatus, NEW b \in BOOLEAN
  PROVE  Touched(f, [f EXCEPT ![r].status = s, ![r].asked = b], r, s, f[r].code)
  BY DEF RunRow, Touched

LEMMA TouchTarget ==
  ASSUME NEW f \in [RunIds -> RunRow], NEW r \in RunIds,
         NEW s \in RunStatus, NEW a \in BOOLEAN, NEW b \in BOOLEAN
  PROVE  Touched(f, [f EXCEPT ![r].status = s, ![r].asked = a, ![r].confirmed = b], r, s, f[r].code)
<1> DEFINE g == [f EXCEPT ![r].status = s, ![r].asked = a, ![r].confirmed = b]
           row == [f[r] EXCEPT !.status = s, !.asked = a, !.confirmed = b]
<1>1. g = [f EXCEPT ![r] = row]
  OBVIOUS
<1>2. row \in RunRow /\ row.status = s /\ row.code = f[r].code
  <2>1. f[r] \in RunRow
    OBVIOUS
  <2> QED
    BY <2>1 DEF RunRow
<1> HIDE DEF row
<1> QED
  BY <1>1, <1>2 DEF Touched

LEMMA TouchTask ==
  ASSUME NEW f \in [RunIds -> RunRow], NEW r \in RunIds,
         NEW s \in RunStatus, NEW b \in BOOLEAN
  PROVE  Touched(f, [f EXCEPT ![r].status = s, ![r].task = b], r, s, f[r].code)
  BY DEF RunRow, Touched

LEMMA TouchSkipped ==
  ASSUME NEW f \in [RunIds -> RunRow], NEW r \in RunIds,
         NEW c \in {"", "POLICY", "BUDGET", "CONCURRENCY", "REPLACE_TIMEOUT"}
  PROVE  Touched(f, SkipRun(f, r, c), r, "SKIPPED", c)
  BY DEF RunRow, Touched, SkipRun, RunStatus, RUN_TERMINAL

LEMMA TouchAttempt ==
  ASSUME NEW f \in [RunIds -> RunRow], NEW r \in RunIds
  PROVE  Touched(f, AddAttempt(f, r), r, f[r].status, f[r].code)
<1> DEFINE row == [f[r] EXCEPT !.attempts = f[r].attempts + 1]
<1>1. AddAttempt(f, r) = [f EXCEPT ![r] = row]
  BY DEF AddAttempt
<1>2. f[r] \in RunRow /\ f[r].attempts + 1 \in Nat
  <2>1. f[r] \in RunRow
    OBVIOUS
  <2>2. f[r].attempts \in Nat
    BY <2>1 DEF RunRow
  <2> QED
    BY <2>1, <2>2
<1>3. row \in RunRow /\ row.status = f[r].status /\ row.code = f[r].code
  BY <1>2 DEF RunRow
<1> HIDE DEF row
<1> QED
  BY <1>1, <1>3 DEF Touched


\* What most steps do to a row: they do not put a Run to work, do not skip
\* it for concurrency, and leave what recovery holds out of the queue.
RowKept(a, b) ==
  /\ Past(a) => Past(b)
  /\ b.status \in WorkingStatuses => a.status \in WorkingStatuses
  /\ b.code = "CONCURRENCY" <=> a.code = "CONCURRENCY"
  /\ a.status # "ABSENT" => b.status # "ABSENT"
RowsKept == \A r \in RunIds : RowKept(runs[r], runs'[r])
RowsGood == \A r \in RunIds : /\ RowGood(runs[r], held[r], link[r])
                              /\ task[r] # "NONE" => Past(runs[r])
LocksGood ==
  \A w \in Workers : txn[w].op = "execute" => runs[txn[w].run].status = "CLAIMED"

\* Such a step, which opens no transaction, keeps the invariant.
LEMMA Gentle ==
  ASSUME RunsInv, UNCHANGED policy, RunsTypeOK', DOMAIN txn' = Workers,
         RowsKept, RowsGood', hook' \in {hook, Idle},
         \A w \in Workers : txn'[w] \in {txn[w], Idle}, LocksGood'
  PROVE  RunsInv'
<1>1. HookGood'
  BY DEF RunsInv, HookGood, RowsKept, RowKept, Idle
<1>2. Enough(runs)'
  <2>1. Enough(runs)
    BY DEF RunsInv
  <2> QED
    BY <2>1 DEF Enough, RowsKept, RowKept, Forbid
<1>3. ASSUME NEW w \in Workers
      PROVE  TxnGood(w, txn[w], runs, txn)'
  <2>1. TxnGood(w, txn[w], runs, txn)
    BY DEF RunsInv
  <2>2. CASE txn'[w] = Idle
    BY <2>2 DEF TxnGood
  <2>3. CASE txn'[w] = txn[w] /\ txn[w].op = "execute" /\ ExecutionGood(w, txn[w], runs, txn)
    <3>1. \A v \in Workers : txn'[v].op = "execute" => txn'[v] = txn[v]
      BY DEF Idle
    <3>2. runs'[txn[w].run].status = "CLAIMED"
      BY <2>3 DEF LocksGood
    <3>3. ExecutionGood(w, txn[w], runs', txn')
      BY <2>3, <3>1, <3>2 DEF ExecutionGood, RowsKept, RowKept, Forbid
    <3> QED
      BY <2>3, <3>3 DEF TxnGood, ExecutionGood, Forbid
  <2>4. CASE txn'[w] = txn[w] /\ txn[w].op \in {"timeout", "window"}
             /\ txn[w].run \in RunIds /\ Past(runs[txn[w].run])
    BY <2>4 DEF TxnGood, RowsKept, RowKept
  <2> QED
    BY <2>1, <2>2, <2>3, <2>4 DEF TxnGood
<1> QED
  BY <1>1, <1>2, <1>3 DEF RunsInv, RowsGood
-----------------------------------------------------------------------------
\* A set of natural numbers that is not empty has a least element (the
\* library states it only with an operator parameter).
LEMMA LeastNumber ==
  ASSUME NEW T \in SUBSET Nat, T # {}
  PROVE  \E n \in T : \A m \in T : n <= m
<1> DEFINE U == {0 .. k : k \in T}
<1>1. \A k \in T : 0 .. k \in FiniteSubsetsOf(Nat)
  BY FS_Interval DEF FiniteSubsetsOf
<1>2. U \subseteq FiniteSubsetsOf(Nat) /\ U # {}
  BY <1>1
<1>3. IsWellFoundedOn(StrictSubsetOrdering(Nat), FiniteSubsetsOf(Nat))
  BY FS_StrictSubsetOrderingWellFounded
<1> HIDE DEF U
<1>4. PICK x \in U : \A y \in U : ~(<<y, x>> \in StrictSubsetOrdering(Nat))
  BY <1>2, <1>3, WFMin
<1>5. PICK n \in T : x = 0 .. n
  BY DEF U
<1>6. ASSUME NEW m \in T, ~(n <= m) PROVE FALSE
  <2>1. 0 .. m \in U /\ 0 .. m \subseteq 0 .. n /\ n \notin 0 .. m /\ n \in 0 .. n
    BY <1>6 DEF U
  <2>2. <<0 .. m, 0 .. n>> \in StrictSubsetOrdering(Nat)
    BY <2>1 DEF StrictSubsetOrdering
  <2> QED
    BY <1>4, <1>5, <2>1, <2>2
<1> QED
  BY <1>6

\* active_runs, oldest first: the first one is one of them.
LEMMA OldestIsIn ==
  ASSUME NEW S \in SUBSET RunIds, S # {}
  PROVE  Oldest(S) \in S
<1>1. \E p \in S : \A q \in S : p <= q
  BY ScheduleAssumption, LeastNumber
<1> QED
  BY <1>1 DEF Oldest

\* A Run's row and its reservations, of the right shape.
BudgetTypes ==
  /\ held \in [RunIds -> Nat]
  /\ link \in [RunIds -> {"none", "reserved", "released", "settled", "exceeded"}]
OthersHeld(r) == \A q \in RunIds : q # r => held'[q] = held[q] /\ link'[q] = link[q]

\* What RowGood asks of the reservations of a Run that is over.
LinkGood(r) == link[r] = "reserved" => held[r] >= 1

\* A reservation is closed when its Run is over.
LEMMA CloseGood ==
  ASSUME NEW h \in [RunIds -> Nat],
         NEW l \in [RunIds -> {"none", "reserved", "released", "settled", "exceeded"}],
         NEW r \in RunIds, l[r] = "reserved" => h[r] >= 1,
         NEW how \in {"released", "settled", "exceeded"}, Close(r, h, l, how)
  PROVE  /\ BudgetTypes' /\ link'[r] # "reserved"
         /\ \A q \in RunIds : q # r => held'[q] = h[q] /\ link'[q] = l[q]
<1>1. CASE l[r] = "reserved"
  <2>1. h[r] - 1 \in Nat
    BY <1>1
  <2>2. held' = [h EXCEPT ![r] = h[r] - 1] /\ link' = [l EXCEPT ![r] = how]
    BY <1>1 DEF Close
  <2> QED
    BY <2>1, <2>2 DEF BudgetTypes
<1>2. CASE l[r] # "reserved"
  BY <1>2 DEF Close, BudgetTypes
<1> QED
  BY <1>1, <1>2

\* A new reservation: the Run's row names one now.
LEMMA ReserveGood ==
  ASSUME BudgetTypes, NEW r \in RunIds, LinkGood(r)
  PROVE  LET h == ReservedHeld(r)
             l == ReservedLink(r)
         IN  /\ h \in [RunIds -> Nat]
             /\ l \in [RunIds -> {"none", "reserved", "released", "settled", "exceeded"}]
             /\ \A q \in RunIds : q # r => h[q] = held[q] /\ l[q] = link[q]
             /\ l[r] = "reserved" => h[r] >= 1
             /\ l[r] = link[r] \/ l[r] = "reserved"
             /\ policy.daily /\ link[r] \in {"none", "reserved"} => l[r] = "reserved"
<1>1. held[r] \in Nat /\ held[r] + 1 \in Nat /\ held[r] + 1 >= 1
  BY DEF BudgetTypes
<1>2. CASE policy.daily
  <2>1. ReservedHeld(r) = [held EXCEPT ![r] = held[r] + 1]
    BY <1>2 DEF ReservedHeld
  <2>2. ReservedHeld(r) \in [RunIds -> Nat] /\ ReservedHeld(r)[r] >= 1
        /\ \A q \in RunIds : q # r => ReservedHeld(r)[q] = held[q]
    BY <1>1, <2>1 DEF BudgetTypes
  <2>3. ReservedLink(r) = link \/ (link[r] = "none" /\ ReservedLink(r) = [link EXCEPT ![r] = "reserved"])
    BY DEF ReservedLink
  <2>4. link[r] = "none" => ReservedLink(r) = [link EXCEPT ![r] = "reserved"]
    BY <1>2 DEF ReservedLink
  <2>5. /\ ReservedLink(r) \in [RunIds -> {"none", "reserved", "released", "settled", "exceeded"}]
        /\ \A q \in RunIds : q # r => ReservedLink(r)[q] = link[q]
        /\ ReservedLink(r)[r] = link[r] \/ ReservedLink(r)[r] = "reserved"
        /\ link[r] \in {"none", "reserved"} => ReservedLink(r)[r] = "reserved"
    BY <2>3, <2>4 DEF BudgetTypes
  <2> QED
    BY <2>2, <2>5
<1>3. CASE ~policy.daily
  BY <1>3 DEF ReservedHeld, ReservedLink, BudgetTypes, LinkGood
<1> QED
  BY <1>2, <1>3

\* request_cancel of a Run.
LEMMA AskedGood ==
  ASSUME RunsTypeOK, NEW p \in RunIds, NEW met
  PROVE  /\ Touched(runs, AskedRuns(p), p, "CANCEL_REQUESTED", runs[p].code)
         /\ AskedRuns(p) \in [RunIds -> RunRow]
         /\ \A ts \in AskedTasks(p, met) :
              /\ ts \in [RunIds -> {"NONE", "OPEN", "DONE", "FAILED", "CANCELLED"}]
              /\ \A q \in RunIds : ts[q] # "NONE" => task[q] # "NONE"
<1>1. Touched(runs, AskedRuns(p), p, "CANCEL_REQUESTED", runs[p].code)
  BY TouchAsked DEF RunsTypeOK, AskedRuns, RunStatus
<1>2. \A ts \in AskedTasks(p, met) :
        ts = task \/ (task[p] = "OPEN" /\ ts = [task EXCEPT ![p] = "CANCELLED"])
  BY DEF AskedTasks
<1> QED
  BY <1>1, <1>2 DEF RunsTypeOK, Touched

\* What the end of an execution does to the Run r it executed, and to the
\* previous Run, if that is asked to make room.
LEMMA ExecutionRows ==
  ASSUME RunsInv, NEW w \in Workers, NEW r, r = txn[w].run,
         txn[w].op = "execute", ExecutionGood(w, txn[w], runs, txn), EndRunTxn(w),
         UNCHANGED <<policy, enabled, queue, hook, faults, maint, commands>>,
         NEW rs, rs = runs \/ (/\ rs = RunsAsked(txn[w])
                               /\ Asks(txn[w]) => AskFree(txn[w].prev, txn[w].seen)),
         NEW s, NEW c, Touched(rs, runs', r, s, c),
         NEW ts \in TasksAsked(txn[w]) \cup {task},
         task' = ts \/ (task' = [ts EXCEPT ![r] = "OPEN"] /\ s = "TASK_CREATED"),
         retry' \subseteq RunIds, BudgetTypes', OthersHeld(r),
         RowGood(runs[r], held[r], link[r])'
  PROVE  /\ RunsTypeOK' /\ RowsGood' /\ LocksGood' /\ DOMAIN txn' = Workers
         /\ \A q \in RunIds : q # r => RowKept(runs[q], runs'[q])
         /\ \A v \in Workers : txn'[v] \in {txn[v], Idle}
<1> DEFINE p == txn[w].prev
<1>1. RunsTypeOK /\ r \in RunIds /\ runs[r].status = "CLAIMED" /\ task[r] = "NONE"
  BY DEF RunsInv, ExecutionGood, Past, WorkingStatuses, Over
<1>2. rs = runs \/ (/\ Asks(txn[w]) /\ ~Locked(p) /\ p \in RunIds /\ p # r
                    /\ Touched(runs, rs, p, "CANCEL_REQUESTED", runs[p].code))
  <2>1. CASE rs = RunsAsked(txn[w]) /\ rs # runs /\ Asks(txn[w])
    <3>1. rs = AskedRuns(p) /\ AskFree(p, txn[w].seen)
      BY <2>1 DEF RunsAsked
    <3>2. p \in RunIds /\ p # r /\ ~Locked(p)
      BY <2>1, <3>1 DEF Asks, ExecutionGood, AskFree
    <3> QED
      BY <1>1, <2>1, <3>1, <3>2, AskedGood
  <2>2. CASE rs = RunsAsked(txn[w]) /\ ~Asks(txn[w])
    BY <2>2 DEF RunsAsked
  <2> QED
    BY <2>1, <2>2
<1>3. /\ ts \in [RunIds -> {"NONE", "OPEN", "DONE", "FAILED", "CANCELLED"}]
      /\ \A q \in RunIds : ts[q] # "NONE" => task[q] # "NONE"
  BY <1>1, AskedGood DEF TasksAsked, Asks, ExecutionGood, RunsTypeOK
<1>4. /\ task' \in [RunIds -> {"NONE", "OPEN", "DONE", "FAILED", "CANCELLED"}]
      /\ \A q \in RunIds : q # r /\ task'[q] # "NONE" => task[q] # "NONE"
      /\ task'[r] # "NONE" => s = "TASK_CREATED"
  BY <1>1, <1>3
<1>5. txn' = [txn EXCEPT ![w] = Idle] /\ DOMAIN txn = Workers
  BY DEF EndRunTxn, RunsInv
<1>6. DOMAIN txn' = Workers /\ \A v \in Workers : txn'[v] \in {txn[v], Idle}
  BY <1>5
<1>7. RunsTypeOK'
  <2>1. \A v \in Workers : txn'[v].op \in {"idle", "execute", "timeout", "window"}
    BY <1>1, <1>6 DEF RunsTypeOK, Idle
  <2> QED
    BY <1>1, <1>4, <2>1 DEF RunsTypeOK, Touched, BudgetTypes
<1>8. ASSUME NEW q \in RunIds, q # r
      PROVE  RowKept(runs[q], runs'[q]) /\ RowGood(runs'[q], held[q], link[q])
             /\ (task[q] # "NONE" => Past(runs'[q]))
  <2>1. runs'[q] = rs[q] /\ RowGood(runs[q], held[q], link[q]) /\ (task[q] # "NONE" => Past(runs[q]))
    BY <1>8 DEF Touched, RunsInv
  <2>2. CASE rs[q] = runs[q]
    BY <2>1, <2>2 DEF RowKept
  <2>3. CASE rs[q] # runs[q]
    <3>1. Asks(txn[w]) /\ rs[q].status = "CANCEL_REQUESTED" /\ rs[q].code = runs[q].code
      BY <1>2, <2>3 DEF Touched
    <3>2. ~Forbid
      BY <3>1 DEF Asks, Forbid
    <3> QED
      BY <2>1, <3>1, <3>2 DEF RowKept, RowGood, Past, WorkingStatuses, Over
  <2> QED
    BY <2>2, <2>3
<1>9. RowsGood'
  <2>1. Past(runs'[r]) \/ task'[r] = "NONE"
    BY <1>4 DEF Touched, Past, WorkingStatuses
  <2>2. ASSUME NEW q \in RunIds, q # r
        PROVE RowGood(runs[q], held[q], link[q])' /\ (task'[q] # "NONE" => Past(runs'[q]))
    BY <1>4, <1>8, <2>2 DEF OthersHeld, RowGood, Forbid
  <2> QED
    BY <2>1, <2>2 DEF RowsGood
<1>10. LocksGood'
  <2>1. ASSUME NEW v \in Workers, txn'[v].op = "execute"
        PROVE  runs'[txn'[v].run].status = "CLAIMED"
    <3>1. v # w /\ txn'[v] = txn[v]
      BY <1>5, <2>1 DEF Idle
    <3>2. ExecutionGood(v, txn[v], runs, txn)
      BY <2>1, <3>1 DEF RunsInv, TxnGood, Idle
    <3>3. txn[v].run \in RunIds /\ txn[v].run # r /\ runs[txn[v].run].status = "CLAIMED"
      BY <2>1, <3>1, <3>2 DEF ExecutionGood
    <3>4. rs[txn[v].run] = runs[txn[v].run]
      BY <1>2, <2>1, <3>1, <3>3 DEF Locked, Executing, Touched
    <3> QED
      BY <3>1, <3>3, <3>4 DEF Touched
  <2> QED
    BY <2>1 DEF LocksGood
<1> QED
  BY <1>6, <1>7, <1>8, <1>9, <1>10

\* A worker's open execution.
LEMMA ExecutionIs ==
  ASSUME RunsInv, NEW w \in Workers, txn[w].op = "execute"
  PROVE  LET r == txn[w].run
         IN  /\ ExecutionGood(w, txn[w], runs, txn) /\ BudgetTypes
             /\ r \in RunIds /\ runs[r].status = "CLAIMED" /\ runs[r].code # "CONCURRENCY"
             /\ link[r] \in {"none", "reserved"} /\ LinkGood(r)
<1>1. ExecutionGood(w, txn[w], runs, txn)
  BY DEF RunsInv, TxnGood, Idle
<1>2. txn[w].run \in RunIds /\ runs[txn[w].run].status = "CLAIMED"
  BY <1>1 DEF ExecutionGood
<1>3. RowGood(runs[txn[w].run], held[txn[w].run], link[txn[w].run])
  BY <1>2 DEF RunsInv
<1> QED
  BY <1>1, <1>2, <1>3 DEF RowGood, LinkGood, BudgetTypes, RunsInv, RunsTypeOK, Over

\* An execution that does not put its Run to work, nor skips it for
\* concurrency, keeps the invariant.
LEMMA ExecutionEnds ==
  ASSUME RunsInv, NEW w \in Workers, NEW r, r = txn[w].run,
         txn[w].op = "execute", EndRunTxn(w),
         UNCHANGED <<policy, enabled, queue, hook, faults, maint, commands>>,
         NEW rs, rs = runs \/ (/\ rs = RunsAsked(txn[w])
                               /\ Asks(txn[w]) => AskFree(txn[w].prev, txn[w].seen)),
         NEW s, s \notin WorkingStatuses, NEW c, c # "CONCURRENCY", s # "ABSENT",
         Touched(rs, runs', r, s, c),
         task' \in TasksAsked(txn[w]) \cup {task},
         retry' \subseteq RunIds, BudgetTypes', OthersHeld(r), LinkGood(r)',
         link'[r] \in {"none", "reserved"} \/ s \in Over \cup {"SKIPPED"}
  PROVE  RunsInv'
<1>1. /\ ExecutionGood(w, txn[w], runs, txn)
      /\ r \in RunIds /\ runs[r].status = "CLAIMED" /\ runs[r].code # "CONCURRENCY"
  BY ExecutionIs
<1>2. runs'[r].status = s /\ runs'[r].code = c
  BY DEF Touched
<1>3. RowGood(runs[r], held[r], link[r])'
  BY <1>2 DEF RowGood, LinkGood
<1>4. /\ RunsTypeOK' /\ RowsGood' /\ LocksGood' /\ DOMAIN txn' = Workers
      /\ \A q \in RunIds : q # r => RowKept(runs[q], runs'[q])
      /\ \A v \in Workers : txn'[v] \in {txn[v], Idle}
  BY <1>1, <1>3, ExecutionRows
<1>5. RowKept(runs[r], runs'[r])
  BY <1>1, <1>2 DEF RowKept, Past, WorkingStatuses, Over
<1> QED
  BY <1>4, <1>5, Gentle DEF RowsKept

-----------------------------------------------------------------------------
(***************************************************************************)
(* The ways in which an execution ends.                                    *)
(***************************************************************************)
\* The policy or the budget refuses it.
LEMMA RefusedKeeps ==
  ASSUME RunsInv, NEW w \in Workers, NEW r, r = txn[w].run, NEW code \in {"POLICY", "BUDGET"},
         ExecuteRefused(w, code), UNCHANGED commands
  PROVE  RunsInv'
<1>1. /\ txn[w].op = "execute" /\ EndRunTxn(w) /\ runs' = SkipRun(runs, r, code)
      /\ UNCHANGED <<policy, enabled, task, held, link, queue, hook, faults, maint, commands>>
      /\ retry' = RetryLeft(txn[w])
  BY DEF ExecuteRefused, budgetVars
<1>2. /\ r \in RunIds /\ BudgetTypes /\ LinkGood(r) /\ runs \in [RunIds -> RunRow]
      /\ retry \subseteq RunIds
  BY <1>1, ExecutionIs DEF RunsInv, RunsTypeOK
<1>3. Touched(runs, runs', r, "SKIPPED", code)
  BY <1>1, <1>2, TouchSkipped
<1>4. BudgetTypes' /\ OthersHeld(r) /\ LinkGood(r)' /\ retry' \subseteq RunIds
  BY <1>1, <1>2 DEF BudgetTypes, OthersHeld, LinkGood, RetryLeft
<1> QED
  BY <1>1, <1>3, <1>4, ExecutionEnds DEF WorkingStatuses

\* What the five others have in common.
Outcome(w, r, rs, ts) ==
  /\ txn[w].op = "execute" /\ EndRunTxn(w) /\ r = txn[w].run
  /\ UNCHANGED <<policy, enabled, queue, hook, faults, maint, commands>>
  /\ rs = RunsAsked(txn[w]) /\ (Asks(txn[w]) => AskFree(txn[w].prev, txn[w].seen))
  /\ ts \in TasksAsked(txn[w])
  /\ r \in RunIds /\ runs[r].status = "CLAIMED" /\ runs[r].code # "CONCURRENCY"
  /\ BudgetTypes /\ LinkGood(r) /\ link[r] \in {"none", "reserved"}
  /\ retry \subseteq RunIds
  /\ rs \in [RunIds -> RunRow] /\ rs[r].status = "CLAIMED" /\ rs[r].code = runs[r].code

LEMMA OutcomeIs ==
  ASSUME RunsInv, NEW w \in Workers, NEW v \in {"none", "yes", "no"},
         Continues(w, v), UNCHANGED commands, NEW ts \in TasksAsked(txn[w])
  PROVE  Outcome(w, txn[w].run, RunsAsked(txn[w]), ts)
<1> DEFINE r == txn[w].run
           p == txn[w].prev
<1>1. /\ txn[w].op = "execute" /\ EndRunTxn(w)
      /\ UNCHANGED <<policy, enabled, queue, hook, faults, maint, commands>>
      /\ (Asks(txn[w]) => AskFree(txn[w].prev, txn[w].seen))
  BY DEF Continues
<1>2. /\ r \in RunIds /\ runs[r].status = "CLAIMED" /\ runs[r].code # "CONCURRENCY"
      /\ BudgetTypes /\ LinkGood(r) /\ link[r] \in {"none", "reserved"}
      /\ p \in RunIds \cup {Nobody} /\ p # r
  BY <1>1, ExecutionIs DEF ExecutionGood
<1>3. RunsTypeOK /\ runs \in [RunIds -> RunRow] /\ retry \subseteq RunIds
  BY DEF RunsInv, RunsTypeOK
<1>4. CASE ~Asks(txn[w])
  BY <1>1, <1>2, <1>3, <1>4 DEF Outcome, RunsAsked
<1>5. CASE Asks(txn[w])
  <2>1. p \in RunIds /\ RunsAsked(txn[w]) = AskedRuns(p)
    BY <1>2, <1>5 DEF Asks, RunsAsked
  <2>2. Touched(runs, AskedRuns(p), p, "CANCEL_REQUESTED", runs[p].code)
    BY <1>3, <2>1, AskedGood
  <2>3. AskedRuns(p) \in [RunIds -> RunRow] /\ AskedRuns(p)[r] = runs[r]
    BY <1>2, <2>2 DEF Touched
  <2> QED
    BY <1>1, <1>2, <1>3, <2>1, <2>3 DEF Outcome
<1> QED
  BY <1>4, <1>5

\* REPLACE waits for the previous Run.
LEMMA DeferKeeps ==
  ASSUME RunsInv, NEW w \in Workers, NEW r, r = txn[w].run,
         NEW rs, rs = RunsAsked(txn[w]), NEW v \in {"none", "yes", "no"},
         DeferRun(w, v), UNCHANGED commands
  PROVE  RunsInv'
<1>1. /\ task' \in TasksAsked(txn[w]) /\ runs' = [rs EXCEPT ![r].lapsed = FALSE]
      /\ retry' = RetryLeft(txn[w]) /\ held' = ReservedHeld(r) /\ link' = ReservedLink(r)
  BY DEF DeferRun, Reserve
<1>2. Outcome(w, r, rs, task')
  BY <1>1, OutcomeIs DEF DeferRun
<1>3. Touched(rs, runs', r, "CLAIMED", runs[r].code)
  BY <1>1, <1>2, TouchLapsed DEF Outcome
<1>4. /\ BudgetTypes' /\ OthersHeld(r) /\ LinkGood(r)'
      /\ link'[r] \in {"none", "reserved"} /\ retry' \subseteq RunIds
  BY <1>1, <1>2, ReserveGood DEF Outcome, BudgetTypes, OthersHeld, LinkGood, RetryLeft
<1> QED
  BY <1>2, <1>3, <1>4, ExecutionEnds DEF Outcome, WorkingStatuses

\* A transient error: another attempt follows.
LEMMA RetryLaterKeeps ==
  ASSUME RunsInv, NEW w \in Workers, NEW r, r = txn[w].run,
         NEW rs, rs = RunsAsked(txn[w]), NEW v \in {"none", "yes", "no"},
         RetryLater(w, v), UNCHANGED commands
  PROVE  RunsInv'
<1>1. /\ task' \in TasksAsked(txn[w])
      /\ runs' = [AddAttempt(rs, r) EXCEPT ![r].lapsed = FALSE]
      /\ retry' = retry \cup {r} /\ held' = ReservedHeld(r) /\ link' = ReservedLink(r)
  BY DEF RetryLater, Reserve
<1>2. Outcome(w, r, rs, task')
  BY <1>1, OutcomeIs DEF RetryLater
<1>3. Touched(rs, AddAttempt(rs, r), r, "CLAIMED", runs[r].code)
  BY <1>2, TouchAttempt DEF Outcome
<1>4. Touched(AddAttempt(rs, r), runs', r, "CLAIMED", runs[r].code)
  BY <1>1, <1>2, <1>3, TouchLapsed DEF Outcome, Touched
<1>5. Touched(rs, runs', r, "CLAIMED", runs[r].code)
  BY <1>3, <1>4 DEF Touched
<1>6. /\ BudgetTypes' /\ OthersHeld(r) /\ LinkGood(r)'
      /\ link'[r] \in {"none", "reserved"} /\ retry' \subseteq RunIds
  BY <1>1, <1>2, ReserveGood DEF Outcome, BudgetTypes, OthersHeld, LinkGood
<1> QED
  BY <1>2, <1>5, <1>6, ExecutionEnds DEF Outcome, WorkingStatuses

\* The reservation just made is released again.
LEMMA ReleasedGood ==
  ASSUME BudgetTypes, NEW r \in RunIds, LinkGood(r),
         Close(r, ReservedHeld(r), ReservedLink(r), "released")
  PROVE  BudgetTypes' /\ OthersHeld(r) /\ LinkGood(r)' /\ link'[r] # "reserved"
<1>1. /\ ReservedHeld(r) \in [RunIds -> Nat]
      /\ ReservedLink(r) \in [RunIds -> {"none", "reserved", "released", "settled", "exceeded"}]
      /\ \A q \in RunIds : q # r => ReservedHeld(r)[q] = held[q] /\ ReservedLink(r)[q] = link[q]
      /\ ReservedLink(r)[r] = "reserved" => ReservedHeld(r)[r] >= 1
  BY ReserveGood
<1>2. /\ BudgetTypes' /\ link'[r] # "reserved"
      /\ \A q \in RunIds : q # r => held'[q] = ReservedHeld(r)[q] /\ link'[q] = ReservedLink(r)[q]
  BY <1>1, CloseGood
<1> QED
  BY <1>1, <1>2 DEF OthersHeld, LinkGood

\* A permanent error, or the last attempt.
LEMMA FailKeeps ==
  ASSUME RunsInv, NEW w \in Workers, NEW r, r = txn[w].run,
         NEW rs, rs = RunsAsked(txn[w]), NEW v \in {"none", "yes", "no"},
         FailRun(w, v), UNCHANGED commands
  PROVE  RunsInv'
<1>1. /\ task' \in TasksAsked(txn[w])
      /\ runs' = [AddAttempt(rs, r) EXCEPT ![r].status = "FAILED"]
      /\ retry' = retry \ {r} /\ Close(r, ReservedHeld(r), ReservedLink(r), "released")
  BY DEF FailRun
<1>2. Outcome(w, r, rs, task')
  BY <1>1, OutcomeIs DEF FailRun
<1>3. Touched(rs, AddAttempt(rs, r), r, "CLAIMED", runs[r].code)
  BY <1>2, TouchAttempt DEF Outcome
<1>4. Touched(AddAttempt(rs, r), runs', r, "FAILED", runs[r].code)
  <2>1. "FAILED" \in RunStatus
    BY DEF RunStatus, RUN_TERMINAL
  <2>2. /\ AddAttempt(rs, r) \in [RunIds -> RunRow] /\ r \in RunIds
        /\ AddAttempt(rs, r)[r].code = runs[r].code
    BY <1>2, <1>3 DEF Outcome, Touched
  <2> QED
    BY <1>1, <2>1, <2>2, TouchStatus
<1>5. Touched(rs, runs', r, "FAILED", runs[r].code)
  BY <1>3, <1>4 DEF Touched
<1>6. BudgetTypes' /\ OthersHeld(r) /\ LinkGood(r)' /\ retry' \subseteq RunIds
  BY <1>1, <1>2, ReleasedGood DEF Outcome
<1> QED
  BY <1>2, <1>5, <1>6, ExecutionEnds DEF Outcome, WorkingStatuses, Over

\* Skipped because another Run is at work.
LEMMA SkipKeeps ==
  ASSUME RunsInv, NEW w \in Workers, NEW r, r = txn[w].run,
         NEW rs, rs = RunsAsked(txn[w]), NEW v \in {"none", "yes", "no"},
         SkipConcurrent(w, v), UNCHANGED commands
  PROVE  RunsInv'
<1> DEFINE why == IF policy.concurrency = "FORBID" THEN "CONCURRENCY" ELSE "REPLACE_TIMEOUT"
<1>1. /\ task' \in TasksAsked(txn[w]) /\ Decision(txn[w], v) = "SKIP"
      /\ runs' = SkipRun(rs, r, why)
      /\ retry' = RetryLeft(txn[w]) /\ Close(r, ReservedHeld(r), ReservedLink(r), "released")
  BY DEF SkipConcurrent
<1>2. Outcome(w, r, rs, task')
  BY <1>1, OutcomeIs DEF SkipConcurrent
<1>3. why = "REPLACE_TIMEOUT" \/ (why = "CONCURRENCY" /\ Forbid)
  BY DEF Forbid
<1> HIDE DEF why
<1>4. Touched(rs, runs', r, "SKIPPED", why)
  BY <1>1, <1>2, <1>3, TouchSkipped DEF Outcome
<1>5. BudgetTypes' /\ OthersHeld(r) /\ LinkGood(r)' /\ retry' \subseteq RunIds
      /\ link'[r] # "reserved"
  BY <1>1, <1>2, ReleasedGood DEF Outcome, RetryLeft
<1>6. CASE why # "CONCURRENCY"
  BY <1>1, <1>2, <1>4, <1>5, <1>6, ExecutionEnds DEF Outcome, WorkingStatuses
<1>7. CASE why = "CONCURRENCY"
  <2>1. Forbid /\ txn[w].prev # Nobody /\ txn[w].prev \in RunIds /\ txn[w].prev # r
    BY <1>1, <1>2, <1>3, <1>7, ExecutionIs DEF Decision, Concurrency, Outcome, ExecutionGood
  <2>2. rs = runs
    BY <1>2, <2>1 DEF Outcome, RunsAsked, Asks, Forbid
  <2>3. ExecutionGood(w, txn[w], runs, txn) /\ UNCHANGED policy
    BY <1>2, ExecutionIs DEF Outcome
  <2>4. runs'[r].status = "SKIPPED" /\ runs'[r].code = "CONCURRENCY"
        /\ \A q \in RunIds : q # r => runs'[q] = runs[q]
    BY <1>4, <1>7, <2>2 DEF Touched
  <2>5. RowGood(runs[r], held[r], link[r])'
    BY <1>5, <2>1, <2>3, <2>4 DEF RowGood, LinkGood, WorkingStatuses, Forbid
  <2>6. /\ RunsTypeOK' /\ RowsGood' /\ LocksGood' /\ DOMAIN txn' = Workers
        /\ \A x \in Workers : txn'[x] \in {txn[x], Idle}
    BY <1>1, <1>2, <1>4, <1>5, <2>3, <2>5, ExecutionRows DEF Outcome
  <2>7. HookGood'
    <3>1. HookGood /\ hook' = hook /\ r \in RunIds /\ ~Past(runs[r])
      BY <1>2 DEF RunsInv, Outcome, Past, WorkingStatuses, Over
    <3> QED
      BY <2>4, <3>1 DEF HookGood
  <2>8. Enough(runs)'
    <3>1. Enough(runs)
      BY DEF RunsInv
    <3>2. policy.daily => runs[txn[w].prev].status # "ABSENT" /\ runs[txn[w].prev].code # "CONCURRENCY"
      BY <2>1, <2>3 DEF ExecutionGood
    <3> QED
      BY <2>1, <2>3, <2>4, <3>1, <3>2 DEF Enough, WorkingStatuses, Forbid
  <2>9. ASSUME NEW x \in Workers
        PROVE  TxnGood(x, txn[x], runs, txn)'
    <3>1. TxnGood(x, txn[x], runs, txn)
      BY DEF RunsInv
    <3>2. CASE txn'[x] = Idle
      BY <3>2 DEF TxnGood
    <3>3. CASE txn'[x] = txn[x] /\ txn[x].op = "execute" /\ x # w
      <4>1. ExecutionGood(x, txn[x], runs, txn)
        BY <3>1, <3>3 DEF TxnGood, Idle
      <4>2. ~policy.daily /\ txn[x].run # r
        BY <1>2, <2>3, <3>3, <4>1 DEF ExecutionGood, Outcome
      <4>3. \A y \in Workers : txn'[y].op = "execute" => txn'[y] = txn[y]
        BY <2>6 DEF Idle
      <4>4. \A q \in RunIds : runs'[q].status \in WorkingStatuses => runs[q].status \in WorkingStatuses
        BY <2>4 DEF WorkingStatuses
      <4>5. ExecutionGood(x, txn[x], runs', txn')
        BY <2>4, <4>1, <4>2, <4>3, <4>4 DEF ExecutionGood, Forbid
      <4> QED
        BY <2>3, <3>3, <4>5 DEF TxnGood, ExecutionGood, Forbid
    <3>4. CASE txn'[x] = txn[x] /\ x = w
      BY <1>2, <3>4 DEF Outcome, EndRunTxn, TxnGood, RunsInv
    <3>5. CASE txn'[x] = txn[x] /\ txn[x].op \in {"timeout", "window"}
      <4>1. txn[x].run \in RunIds /\ Past(runs[txn[x].run]) /\ ~Past(runs[r])
        BY <1>2, <3>1, <3>5 DEF TxnGood, Idle, Outcome, Past, WorkingStatuses, Over
      <4> QED
        BY <2>4, <3>5, <4>1 DEF TxnGood
    <3>6. txn[x].op # "execute" /\ txn[x].op \notin {"timeout", "window"} => txn[x] = Idle
      BY <3>1 DEF TxnGood
    <3> QED
      BY <2>6, <3>2, <3>3, <3>4, <3>5, <3>6
  <2> QED
    BY <2>6, <2>7, <2>8, <2>9 DEF RunsInv, RowsGood
<1> QED
  BY <1>6, <1>7

\* The Run's Task is created.
LEMMA StartKeeps ==
  ASSUME RunsInv, NEW w \in Workers, NEW r, r = txn[w].run,
         NEW rs, rs = RunsAsked(txn[w]), NEW v \in {"none", "yes", "no"},
         StartTask(w, v), UNCHANGED commands
  PROVE  RunsInv'
<1>1. /\ Decision(txn[w], v) = "START" /\ retry' = RetryLeft(txn[w])
      /\ runs' = [AddAttempt(rs, r) EXCEPT ![r].status = "TASK_CREATED", ![r].task = TRUE]
      /\ held' = ReservedHeld(r) /\ link' = ReservedLink(r)
  BY DEF StartTask, Reserve
<1>2. PICK ts \in TasksAsked(txn[w]) : task' = [ts EXCEPT ![r] = "OPEN"]
  BY DEF StartTask
<1>3. Outcome(w, r, rs, ts)
  BY <1>2, OutcomeIs DEF StartTask
<1>4. ExecutionGood(w, txn[w], runs, txn) /\ UNCHANGED policy
  BY <1>3, ExecutionIs DEF Outcome
<1>5. Touched(rs, AddAttempt(rs, r), r, "CLAIMED", runs[r].code)
  BY <1>3, TouchAttempt DEF Outcome
<1>6. Touched(AddAttempt(rs, r), runs', r, "TASK_CREATED", runs[r].code)
  <2>1. "TASK_CREATED" \in RunStatus
    BY DEF RunStatus, RUN_RUNNING
  <2>2. /\ AddAttempt(rs, r) \in [RunIds -> RunRow] /\ r \in RunIds
        /\ AddAttempt(rs, r)[r].code = runs[r].code
    BY <1>3, <1>5 DEF Outcome, Touched
  <2> QED
    BY <1>1, <2>1, <2>2, TouchTask
<1>7. Touched(rs, runs', r, "TASK_CREATED", runs[r].code)
  BY <1>5, <1>6 DEF Touched
<1>8. /\ BudgetTypes' /\ OthersHeld(r) /\ LinkGood(r)' /\ retry' \subseteq RunIds
      /\ link'[r] \in {"none", "reserved"} /\ (policy.daily => link'[r] = "reserved")
  BY <1>1, <1>3, ReserveGood DEF Outcome, BudgetTypes, OthersHeld, LinkGood, RetryLeft
<1>9. runs'[r].status = "TASK_CREATED" /\ runs'[r].code # "CONCURRENCY"
  BY <1>3, <1>7 DEF Outcome, Touched
<1>10. RowGood(runs[r], held[r], link[r])'
  BY <1>4, <1>8, <1>9 DEF RowGood, LinkGood
<1>11. /\ RunsTypeOK' /\ RowsGood' /\ LocksGood' /\ DOMAIN txn' = Workers
       /\ \A q \in RunIds : q # r => RowKept(runs[q], runs'[q])
       /\ \A x \in Workers : txn'[x] \in {txn[x], Idle}
  BY <1>2, <1>3, <1>4, <1>7, <1>8, <1>10, ExecutionRows DEF Outcome
<1>12. ~Past(runs[r]) /\ r \in RunIds /\ runs[r].status = "CLAIMED" /\ hook' = hook
  BY <1>3 DEF Outcome, Past, WorkingStatuses, Over
<1>13. HookGood'
  BY <1>11, <1>12 DEF HookGood, RunsInv, RowKept
<1>14. Forbid => /\ \A q \in RunIds : runs[q].status \notin WorkingStatuses
                 /\ \A x \in Workers : txn[x].op = "execute" /\ txn[x].prev = Nobody => x = w
  <2>1. Forbid => txn[w].prev = Nobody
    BY <1>1 DEF Decision, Concurrency, Forbid
  <2> QED
    BY <1>4, <2>1 DEF ExecutionGood
<1>15. Enough(runs)'
  <2>1. Enough(runs)
    BY DEF RunsInv
  <2>2. \A q \in RunIds : runs'[q].code = "CONCURRENCY" => q # r /\ runs[q].code = "CONCURRENCY"
    BY <1>9, <1>11 DEF RowKept
  <2>3. \A q \in RunIds : runs[q].status # "ABSENT" /\ runs[q].code # "CONCURRENCY" =>
          runs'[q].status # "ABSENT" /\ runs'[q].code # "CONCURRENCY"
    BY <1>9, <1>11 DEF RowKept
  <2>4. Forbid => \A q \in RunIds : runs'[q].status \in WorkingStatuses => q = r
    BY <1>11, <1>14 DEF RowKept
  <2> QED
    BY <1>4, <2>1, <2>2, <2>3, <2>4 DEF Enough, Forbid
<1>16. ASSUME NEW x \in Workers
       PROVE  TxnGood(x, txn[x], runs, txn)'
  <2>1. TxnGood(x, txn[x], runs, txn)
    BY DEF RunsInv
  <2>2. CASE txn'[x] = Idle
    BY <2>2 DEF TxnGood
  <2>3. CASE txn'[x] = txn[x] /\ txn[x].op = "execute" /\ x # w
    <3>1. ExecutionGood(x, txn[x], runs, txn)
      BY <2>1, <2>3 DEF TxnGood, Idle
    <3>2. txn[x].run # r /\ runs'[txn[x].run].status = "CLAIMED"
      BY <1>3, <1>4, <1>11, <2>3, <3>1 DEF ExecutionGood, Outcome, LocksGood
    <3>3. \A y \in Workers : txn'[y].op = "execute" => txn'[y] = txn[y]
      BY <1>11 DEF Idle
    <3>4. Forbid => txn[x].prev # Nobody
      BY <1>14, <2>3
    <3>5. \A q \in RunIds : runs[q].status # "ABSENT" /\ runs[q].code # "CONCURRENCY" =>
            runs'[q].status # "ABSENT" /\ runs'[q].code # "CONCURRENCY"
      BY <1>9, <1>11 DEF RowKept
    <3>6. ExecutionGood(x, txn[x], runs', txn')
      BY <3>1, <3>2, <3>3, <3>4, <3>5 DEF ExecutionGood, Forbid
    <3> QED
      BY <1>4, <2>3, <3>6 DEF TxnGood, ExecutionGood, Forbid
  <2>4. CASE txn'[x] = txn[x] /\ x = w
    BY <1>3, <2>4 DEF Outcome, EndRunTxn, TxnGood, RunsInv
  <2>5. CASE txn'[x] = txn[x] /\ txn[x].op \in {"timeout", "window"}
    <3>1. txn[x].run \in RunIds /\ Past(runs[txn[x].run]) /\ txn[x].run # r
      BY <1>12, <2>1, <2>5 DEF TxnGood, Idle
    <3> QED
      BY <1>11, <2>5, <3>1 DEF TxnGood, RowKept
  <2>6. txn[x].op # "execute" /\ txn[x].op \notin {"timeout", "window"} => txn[x] = Idle
    BY <2>1 DEF TxnGood
  <2> QED
    BY <1>11, <2>2, <2>3, <2>4, <2>5, <2>6
<1> QED
  BY <1>11, <1>13, <1>15, <1>16 DEF RunsInv, RowsGood

-----------------------------------------------------------------------------
(***************************************************************************)
(* The reads with which a transaction opens.                               *)
(***************************************************************************)
\* Worker w opens transaction t; nothing that the invariant is about changes.
Opened(w, t) ==
  /\ txn' = [txn EXCEPT ![w] = t]
  /\ UNCHANGED <<policy, runs, task, held, link, hook>>

\* The transaction is good, and no other execution minds it.
LEMMA OpenKeeps ==
  ASSUME RunsInv, NEW w \in Workers, NEW t, Opened(w, t), RunsTypeOK', txn[w] = Idle,
         TxnGood(w, t, runs, txn'),
         t.op = "execute" =>
           \A v \in Workers : v # w /\ txn[v].op = "execute" =>
             /\ txn[v].run # t.run /\ ~policy.daily
             /\ Forbid /\ txn[v].prev = Nobody => t.prev # Nobody
  PROVE  RunsInv'
<1>1. DOMAIN txn = Workers /\ DOMAIN txn' = Workers /\ txn'[w] = t
      /\ \A v \in Workers : v # w => txn'[v] = txn[v]
  BY DEF RunsInv, Opened
<1>2. ASSUME NEW v \in Workers
      PROVE  TxnGood(v, txn[v], runs, txn)'
  <2>1. CASE v = w
    BY <1>1, <2>1 DEF TxnGood, ExecutionGood, Opened, Forbid
  <2>2. CASE v # w /\ txn[v].op = "execute"
    <3>1. ExecutionGood(v, txn[v], runs, txn)
      BY <2>2 DEF RunsInv, TxnGood, Idle
    <3>2. ExecutionGood(v, txn[v], runs, txn')
      BY <1>1, <2>2, <3>1 DEF ExecutionGood, Forbid
    <3> QED
      BY <1>1, <2>2, <3>2 DEF TxnGood, ExecutionGood, Opened, Forbid
  <2>3. CASE v # w /\ txn[v].op # "execute"
    BY <1>1, <2>3 DEF RunsInv, TxnGood, Opened
  <2> QED
    BY <2>1, <2>2, <2>3
<1> QED
  BY <1>1, <1>2 DEF RunsInv, Opened, HookGood, RowGood, Enough, Forbid

\* execute reads the Schedule and the oldest active Run.
LEMMA ReadRunKeeps ==
  ASSUME RunsInv, NEW w \in Workers, NEW r \in RunIds, NEW again \in BOOLEAN,
         txn[w] = Idle, ~Locked(r), runs[r].status = "CLAIMED", ReadRun(w, r, again),
         UNCHANGED <<policy, runs, task, held, link, hook>>, RunsTypeOK'
  PROVE  RunsInv'
<1> DEFINE p == IF Others(r) = {} THEN Nobody ELSE Oldest(Others(r))
           t == [op |-> "execute", run |-> r, again |-> again,
                 enabled |-> enabled, prev |-> p, seen |-> Seen(p)]
<1>1. Opened(w, t)
  BY DEF Opened, ReadRun
<1>2. (p = Nobody /\ Others(r) = {}) \/ p \in Others(r)
  BY OldestIsIn DEF Others
<1>3. Others(r) \subseteq RunIds \ {r} /\ Nobody \notin RunIds
  BY ScheduleAssumption DEF Others
<1> HIDE DEF p
<1>4. t.op = "execute" /\ t.run = r /\ t.prev = p
  OBVIOUS
<1> HIDE DEF t
<1>5. DOMAIN txn = Workers /\ txn'[w] = t /\ \A v \in Workers : v # w => txn'[v] = txn[v]
  BY <1>1 DEF RunsInv, Opened
<1>6. \A v \in Workers : v # w /\ txn[v].op = "execute" =>
        /\ txn[v].run \in RunIds /\ txn[v].run # r /\ ~policy.daily
        /\ runs[txn[v].run].status = "CLAIMED" /\ txn[v].run \in Others(r)
  <2> SUFFICES ASSUME NEW v \in Workers, v # w, txn[v].op = "execute"
               PROVE  /\ txn[v].run \in RunIds /\ txn[v].run # r /\ ~policy.daily
                      /\ runs[txn[v].run].status = "CLAIMED" /\ txn[v].run \in Others(r)
    OBVIOUS
  <2>1. txn[v].run \in RunIds /\ runs[txn[v].run].status = "CLAIMED"
    BY DEF RunsInv, TxnGood, ExecutionGood, Idle
  <2>2. txn[v].run # r /\ ~policy.daily
    BY DEF Locked, Executing, ReadRun, Serialized
  <2> QED
    BY <2>1, <2>2 DEF Others, Active, RUN_RUNNING
<1>7. p = Nobody => /\ \A q \in RunIds : runs[q].status \notin WorkingStatuses
                    /\ \A v \in Workers : v # w => txn[v].op # "execute"
  <2>1. p = Nobody => \A q \in RunIds \ {r} : runs[q].status \notin Active
    BY <1>2, <1>3 DEF Others
  <2> QED
    BY <1>2, <1>3, <1>6, <2>1 DEF WorkingStatuses, Active, RUN_RUNNING
<1>8. p # Nobody => p \in RunIds /\ p # r /\ runs[p].status # "ABSENT"
                    /\ runs[p].code # "CONCURRENCY"
  <2>1. p # Nobody => p \in RunIds /\ p # r /\ runs[p].status \in Active
    BY <1>2 DEF Others
  <2>2. p # Nobody => RowGood(runs[p], held[p], link[p])
    BY <2>1 DEF RunsInv
  <2> QED
    BY <2>1, <2>2 DEF RowGood, Active, RUN_RUNNING
<1>9. ExecutionGood(w, t, runs, txn')
  <2>1. t.run \in RunIds /\ t.prev \in RunIds \cup {Nobody} /\ t.prev # t.run
    BY <1>3, <1>4, <1>8
  <2>2. \A v \in Workers : txn'[v].op = "execute" /\ (txn'[v].run = t.run \/ policy.daily) => v = w
    BY <1>4, <1>5, <1>6
  <2>3. t.prev = Nobody => /\ \A q \in RunIds : runs[q].status \notin WorkingStatuses
                           /\ \A v \in Workers : txn'[v].op = "execute" => v = w
    BY <1>4, <1>5, <1>7
  <2> QED
    BY <1>4, <1>8, <2>1, <2>2, <2>3 DEF ExecutionGood
<1>10. TxnGood(w, t, runs, txn')
  BY <1>4, <1>9 DEF TxnGood
<1> QED
  BY <1>1, <1>4, <1>6, <1>7, <1>10, OpenKeeps

\* Recovery reads a Run that has left the queue.
LEMMA ReadForKeeps ==
  ASSUME RunsInv, NEW w \in Workers, NEW r \in RunIds, NEW op \in {"timeout", "window"},
         Past(runs[r]), ReadFor(w, op, r), UNCHANGED commands
  PROVE  RunsInv'
<1> DEFINE t == [op |-> op, run |-> r, seen |-> Seen(r), open |-> task[r] = "OPEN"]
<1>1. Opened(w, t) /\ txn[w] = Idle /\ UNCHANGED <<enabled, retry, queue, faults, maint, commands>>
  BY DEF Opened, ReadFor, runVars, budgetVars
<1>2. t.op = op /\ t.run = r
  OBVIOUS
<1> HIDE DEF t
<1>3. RunsTypeOK'
  BY <1>1, <1>2 DEF RunsInv, RunsTypeOK, Opened
<1>4. TxnGood(w, t, runs, txn')
  BY <1>2 DEF TxnGood
<1> QED
  BY <1>1, <1>2, <1>3, <1>4, OpenKeeps

-----------------------------------------------------------------------------
(***************************************************************************)
(* The other steps.                                                        *)
(***************************************************************************)
\* Run r leaves the queue, or ends, by somebody who saw it unlocked.
LEMMA RunOver ==
  ASSUME RunsInv, NEW r \in RunIds, NEW s \in Over, ~Locked(r), runs[r].code # "CONCURRENCY",
         Touched(runs, runs', r, s, runs[r].code),
         BudgetTypes', OthersHeld(r), LinkGood(r)', UNCHANGED <<policy, enabled, queue, maint>>,
         task' \in [RunIds -> {"NONE", "OPEN", "DONE", "FAILED", "CANCELLED"}],
         \A q \in RunIds : q # r /\ task'[q] # "NONE" => task[q] # "NONE",
         retry' \subseteq RunIds, faults' = faults, commands' \in 0 .. MaxCommands,
         hook' \in {hook, Idle}, DOMAIN txn' = Workers,
         \A w \in Workers : txn'[w] \in {txn[w], Idle}
  PROVE  RunsInv'
<1>1. runs'[r].status = s /\ runs'[r].code = runs[r].code
      /\ \A q \in RunIds : q # r => runs'[q] = runs[q]
  BY DEF Touched
<1>2. RunsTypeOK'
  BY DEF RunsInv, RunsTypeOK, Touched, BudgetTypes, Idle
<1>3. RowsKept
  <2>1. RowKept(runs[r], runs'[r])
    BY <1>1 DEF RowKept, Past, WorkingStatuses, Over
  <2>2. \A q \in RunIds : q # r => RowKept(runs[q], runs'[q])
    BY <1>1 DEF RowKept
  <2> QED
    BY <2>1, <2>2 DEF RowsKept
<1>4. RowsGood'
  <2>1. RowGood(runs[r], held[r], link[r])' /\ Past(runs'[r])
    BY <1>1 DEF RowGood, LinkGood, Past, Over, WorkingStatuses
  <2>2. ASSUME NEW q \in RunIds, q # r
        PROVE RowGood(runs[q], held[q], link[q])' /\ (task'[q] # "NONE" => Past(runs'[q]))
    BY <1>1, <2>2 DEF RunsInv, RowGood, Forbid, OthersHeld
  <2> QED
    BY <2>1, <2>2 DEF RowsGood
<1>5. LocksGood'
  BY <1>1 DEF LocksGood, RunsInv, TxnGood, ExecutionGood, Locked, Executing, Idle
<1> QED
  BY <1>2, <1>3, <1>4, <1>5, Gentle

\* Facts about a Run: what its row says of its reservation.
LEMMA RunIs ==
  ASSUME RunsInv, NEW r \in RunIds
  PROVE  /\ RunsTypeOK /\ BudgetTypes /\ LinkGood(r)
         /\ runs[r].status # "SKIPPED" => runs[r].code # "CONCURRENCY"
         /\ Past(runs[r]) => runs[r].status # "SKIPPED"
  BY DEF RunsInv, RunsTypeOK, BudgetTypes, LinkGood, RowGood, Past, WorkingStatuses, Over

LEMMA DomainIs == RunsInv => \A w : EndRunTxn(w) => /\ DOMAIN txn' = Workers
                                                 /\ \A v \in Workers : txn'[v] \in {txn[v], Idle}
  BY DEF RunsInv, EndRunTxn

\* The commands of users and operators.
LEMMA CommandKeeps ==
  ASSUME RunsInv, Command, commands' \in 0 .. MaxCommands
  PROVE  RunsInv'
<1>1. RunsTypeOK /\ DOMAIN txn = Workers /\ runs \in [RunIds -> RunRow]
  BY DEF RunsInv, RunsTypeOK
<1>2. CASE PauseSchedule
  <2>1. runs' = [r \in RunIds |-> IF runs[r].status \in RUN_PENDING
                 THEN [runs[r] EXCEPT !.status = "CANCELLED", !.confirmed = TRUE]
                 ELSE runs[r]]
        /\ UNCHANGED <<policy, task, retry, held, link, queue, txn, hook, faults, maint>>
        /\ enabled' = FALSE
    BY <1>2 DEF PauseSchedule, budgetVars, procVars
  <2>2. ASSUME NEW r \in RunIds
        PROVE  /\ runs'[r] \in RunRow
               /\ runs'[r] = runs[r] \/ (/\ runs[r].status \in RUN_PENDING
                                         /\ runs'[r].status = "CANCELLED"
                                         /\ runs'[r].code = runs[r].code)
    <3>1. runs[r] \in RunRow
      BY <1>1
    <3> QED
      BY <2>1, <3>1 DEF RunRow, RunStatus, RUN_TERMINAL
  <2>3. RunsTypeOK'
    <3>1. runs' \in [RunIds -> RunRow]
      BY <2>1, <2>2
    <3> QED
      BY <1>1, <2>1, <3>1 DEF RunsTypeOK
  <2>4. RowsKept
    BY <2>2 DEF RowsKept, RowKept, Past, WorkingStatuses, Over, RUN_PENDING
  <2>5. RowsGood'
    BY <2>1, <2>2 DEF RowsGood, RunsInv, RowGood, Past, WorkingStatuses, Over, RUN_PENDING, Forbid
  <2>6. LocksGood'
    <3>1. \A w \in Workers : txn[w].op = "execute" =>
            txn[w].run \in RunIds /\ runs[txn[w].run].status = "CLAIMED"
      BY ExecutionIs
    <3>2. \A r \in RunIds : runs[r].status = "CLAIMED" => runs'[r] = runs[r]
      BY <2>2 DEF RUN_PENDING
    <3> QED
      BY <2>1, <3>1, <3>2 DEF LocksGood
  <2> QED
    BY <1>1, <2>1, <2>3, <2>4, <2>5, <2>6, Gentle
<1>3. CASE ResumeSchedule \/ SwitchMaintenance
  <2>1. UNCHANGED <<policy, runs, task, retry, held, link, queue, txn, hook, faults>>
        /\ enabled' \in BOOLEAN /\ maint' \in BOOLEAN
    BY <1>1, <1>3 DEF ResumeSchedule, SwitchMaintenance, runVars, budgetVars, procVars, RunsTypeOK
  <2> QED
    BY <1>1, <2>1 DEF RunsInv, RunsTypeOK, HookGood, RowGood, TxnGood, ExecutionGood, Enough, Forbid
<1>4. ASSUME NEW r \in RunIds, CancelScheduleRun(r)
      PROVE  RunsInv'
  <2> DEFINE target == CancelTarget(runs[r].status)
  <2>1. /\ ~Locked(r) /\ target # "none" /\ r \in RunIds
        /\ runs' = [runs EXCEPT ![r].status = target,
                                ![r].asked = @ \/ target = "CANCEL_REQUESTED",
                                ![r].confirmed = @ \/ target = "CANCELLED"]
        /\ UNCHANGED <<policy, enabled, task, retry, held, link, queue, txn, hook, faults, maint>>
    BY <1>4 DEF CancelScheduleRun, budgetVars, procVars
  <2>2. target \in Over /\ target \in RunStatus /\ runs[r].status # "SKIPPED"
    BY <2>1 DEF CancelTarget, Over, RunStatus, RUN_TERMINAL, RUN_PENDING, RUN_RUNNING
  <2> HIDE DEF target
  <2>3. Touched(runs, runs', r, target, runs[r].code)
    <3>1. runs[r] \in RunRow
      BY <1>1
    <3>2. runs[r].asked \in BOOLEAN /\ runs[r].confirmed \in BOOLEAN
      BY <3>1 DEF RunRow
    <3> DEFINE a == runs[r].asked \/ target = "CANCEL_REQUESTED"
               b == runs[r].confirmed \/ target = "CANCELLED"
    <3>3. runs' = [runs EXCEPT ![r].status = target, ![r].asked = a, ![r].confirmed = b]
      BY <1>1, <2>1
    <3>4. a \in BOOLEAN /\ b \in BOOLEAN
      OBVIOUS
    <3> HIDE DEF a, b
    <3> QED
      BY <1>1, <2>2, <3>3, <3>4, TouchTarget
  <2>4. BudgetTypes' /\ OthersHeld(r) /\ LinkGood(r)'
    BY <2>1, RunIs DEF BudgetTypes, OthersHeld, LinkGood
  <2> QED
    BY <1>1, <2>1, <2>2, <2>3, <2>4, RunIs, RunOver DEF RunsTypeOK
<1>5. ASSUME NEW r \in RunIds, CancelRun(r)
      PROVE  RunsInv'
  <2>1. /\ ~Locked(r) /\ CancelTarget(runs[r].status) # "none"
        /\ UNCHANGED <<policy, enabled, queue, txn, hook, faults, maint>>
    BY <1>5 DEF CancelRun, AskFree, procVars
  <2>2. runs[r].status # "SKIPPED"
    BY <2>1 DEF CancelTarget, RUN_PENDING, RUN_RUNNING
  <2>3. CASE CancelTarget(runs[r].status) = "CANCELLED"
    <3>1. /\ runs' = [runs EXCEPT ![r].status = "CANCELLED", ![r].confirmed = TRUE]
          /\ retry' = retry \ {r} /\ Close(r, held, link, "released") /\ task' = task
      BY <1>5, <2>3 DEF CancelRun
    <3>2. "CANCELLED" \in RunStatus /\ "CANCELLED" \in Over
      BY DEF RunStatus, RUN_TERMINAL, Over
    <3>3. Touched(runs, runs', r, "CANCELLED", runs[r].code)
      BY <1>1, <3>1, <3>2, TouchConfirmed
    <3>4. BudgetTypes' /\ OthersHeld(r) /\ LinkGood(r)'
      BY <3>1, RunIs, CloseGood DEF BudgetTypes, OthersHeld, LinkGood
    <3> QED
      BY <1>1, <2>1, <2>2, <3>1, <3>2, <3>3, <3>4, RunIs, RunOver DEF RunsTypeOK
  <2>4. CASE CancelTarget(runs[r].status) # "CANCELLED"
    <3>1. runs' = AskedRuns(r) /\ task' \in AskedTasks(r, Seen(r)) /\ UNCHANGED <<retry, held, link>>
      BY <1>5, <2>4 DEF CancelRun, budgetVars
    <3>2. /\ Touched(runs, runs', r, "CANCEL_REQUESTED", runs[r].code)
          /\ task' \in [RunIds -> {"NONE", "OPEN", "DONE", "FAILED", "CANCELLED"}]
          /\ \A q \in RunIds : task'[q] # "NONE" => task[q] # "NONE"
      BY <1>1, <3>1, AskedGood
    <3>3. BudgetTypes' /\ OthersHeld(r) /\ LinkGood(r)' /\ "CANCEL_REQUESTED" \in Over
      BY <3>1, RunIs DEF BudgetTypes, OthersHeld, LinkGood, Over
    <3> QED
      BY <1>1, <2>1, <2>2, <3>1, <3>2, <3>3, RunIs, RunOver DEF RunsTypeOK
  <2> QED
    BY <2>3, <2>4
<1> QED
  BY <1>2, <1>3, <1>4, <1>5 DEF Command

\* A step that leaves each row as it was, or changes a Run that waits in the
\* queue and that nobody executes.
Waiting == {"ABSENT", "DUE", "CLAIMED"}
LEMMA QueueKeeps ==
  ASSUME RunsInv, runs' \in [RunIds -> RunRow],
         \A r \in RunIds : runs'[r] = runs[r] \/
           /\ runs[r].status \in Waiting /\ runs'[r].status \in Waiting
           /\ runs'[r].code = runs[r].code
           /\ runs[r].status # "ABSENT" => runs'[r].status # "ABSENT"
           /\ Locked(r) => runs'[r].status = "CLAIMED",
         UNCHANGED <<policy, enabled, task, held, link, hook, maint>>,
         retry' \subseteq RunIds, queue' \in [Workers -> SUBSET RunIds],
         faults' \in 0 .. MaxFaults, commands' \in 0 .. MaxCommands, DOMAIN txn' = Workers,
         \A w \in Workers : txn'[w] \in {txn[w], Idle}
  PROVE  RunsInv'
<1>1. RunsTypeOK'
  BY DEF RunsInv, RunsTypeOK, Idle
<1>2. RowsKept
  BY DEF RowsKept, RowKept, Past, WorkingStatuses, Over, Waiting
<1>3. RowsGood'
  <2>1. ASSUME NEW r \in RunIds
        PROVE  RowGood(runs[r], held[r], link[r])' /\ (task'[r] # "NONE" => Past(runs'[r]))
    <3>1. RowGood(runs[r], held[r], link[r]) /\ (task[r] # "NONE" => Past(runs[r]))
      BY DEF RunsInv
    <3>2. CASE runs'[r] = runs[r]
      BY <3>1, <3>2 DEF RowGood, Forbid
    <3>3. CASE runs[r].status \in Waiting /\ runs'[r].status \in Waiting /\ runs'[r].code = runs[r].code
      BY <3>1, <3>3 DEF RowGood, Forbid, Past, WorkingStatuses, Over, Waiting
    <3> QED
      BY <3>2, <3>3
  <2> QED
    BY <2>1 DEF RowsGood
<1>4. LocksGood'
  <2>1. ASSUME NEW w \in Workers, txn'[w].op = "execute"
        PROVE  runs'[txn'[w].run].status = "CLAIMED"
    <3>1. txn'[w] = txn[w]
      BY <2>1 DEF Idle
    <3>2. txn[w].run \in RunIds /\ runs[txn[w].run].status = "CLAIMED" /\ Locked(txn[w].run)
      BY <2>1, <3>1, ExecutionIs DEF Locked, Executing
    <3> QED
      BY <3>1, <3>2
  <2> QED
    BY <2>1 DEF LocksGood
<1> QED
  BY <1>1, <1>2, <1>3, <1>4, Gentle

\* expire_leases and claim_due.
LEMMA ClaimKeeps ==
  ASSUME RunsInv, NEW w \in Workers, ClaimPhase(w), UNCHANGED commands
  PROVE  RunsInv'
<1> DEFINE due == ExpireLeases(runs)
<1>1. /\ runs' = [r \in RunIds |-> IF r \in Chosen(due)
                       THEN [due[r] EXCEPT !.status = "CLAIMED"] ELSE due[r]]
      /\ queue' = [queue EXCEPT ![w] = Chosen(due)]
      /\ UNCHANGED <<policy, enabled, task, retry, held, link, txn, hook, faults, maint>>
  BY DEF ClaimPhase, budgetVars
<1>2. RunsTypeOK /\ DOMAIN txn = Workers
  BY DEF RunsInv
<1>3. ASSUME NEW r \in RunIds
      PROVE  /\ due[r] \in RunRow
             /\ due[r] = runs[r] \/ (/\ runs[r].status = "CLAIMED" /\ ~Locked(r)
                                     /\ due[r].status = "DUE" /\ due[r].code = runs[r].code)
  <2>1. runs[r] \in RunRow
    BY <1>2 DEF RunsTypeOK
  <2>2. due[r] = IF runs[r].status = "CLAIMED" /\ runs[r].lapsed /\ ~Locked(r)
                    THEN [runs[r] EXCEPT !.status = "DUE", !.lapsed = FALSE]
                    ELSE runs[r]
    BY DEF ExpireLeases
  <2> HIDE DEF due
  <2> QED
    BY <2>1, <2>2 DEF RunRow, RunStatus, RUN_PENDING
<1>4. Chosen(due) \subseteq {r \in RunIds : due[r].status = "DUE"}
  BY DEF Chosen, Claimable
<1> HIDE DEF due
<1>5. ASSUME NEW r \in RunIds
      PROVE  /\ runs'[r] \in RunRow
             /\ runs'[r] = due[r] \/ (/\ due[r].status = "DUE"
                                      /\ runs'[r].status = "CLAIMED" /\ runs'[r].code = due[r].code)
  <2>1. runs'[r] = IF r \in Chosen(due) THEN [due[r] EXCEPT !.status = "CLAIMED"] ELSE due[r]
    BY <1>1
  <2> QED
    BY <1>3, <1>4, <2>1 DEF RunRow, RunStatus, RUN_RUNNING
<1>6. runs' \in [RunIds -> RunRow]
  BY <1>1, <1>5
<1>7. \A r \in RunIds : Locked(r) => runs[r].status = "CLAIMED"
  BY ExecutionIs DEF Locked, Executing
<1>8. ASSUME NEW r \in RunIds, runs'[r] # runs[r]
      PROVE  /\ runs[r].status \in Waiting /\ runs'[r].status \in Waiting
             /\ runs'[r].code = runs[r].code
             /\ runs[r].status # "ABSENT" => runs'[r].status # "ABSENT"
             /\ Locked(r) => runs'[r].status = "CLAIMED"
  BY <1>3, <1>5, <1>7, <1>8 DEF Waiting
<1>9. queue' \in [Workers -> SUBSET RunIds] /\ retry \subseteq RunIds /\ faults \in 0 .. MaxFaults
      /\ commands \in 0 .. MaxCommands
  BY <1>1, <1>2, <1>4 DEF RunsTypeOK
<1> QED
  BY <1>1, <1>2, <1>6, <1>8, <1>9, QueueKeeps

\* The other steps of a worker.
LEMMA WorkerKeeps ==
  ASSUME RunsInv, NEW w \in Workers, Worker(w), UNCHANGED commands
  PROVE  RunsInv'
<1>1. RunsTypeOK /\ DOMAIN txn = Workers /\ runs \in [RunIds -> RunRow]
  BY DEF RunsInv, RunsTypeOK
<1>2. CASE ClaimPhase(w)
  BY <1>2, ClaimKeeps
<1>3. ASSUME NEW r \in RunIds, ExecuteRun(w, r)
      PROVE  RunsInv'
  <2>1. /\ txn[w] = Idle /\ ~Locked(r)
        /\ UNCHANGED <<policy, enabled, runs, task, retry, held, link, hook, faults, maint>>
        /\ queue' \in [Workers -> SUBSET RunIds]
    BY <1>1, <1>3 DEF ExecuteRun, runVars, budgetVars, RunsTypeOK
  <2>2. CASE runs[r].status = "CLAIMED"
    <3>1. ReadRun(w, r, FALSE)
      BY <1>3, <2>2 DEF ExecuteRun
    <3>2. RunsTypeOK'
      <4>1. txn' = [txn EXCEPT ![w] = txn'[w]] /\ txn'[w].op = "execute"
        BY <1>1, <3>1 DEF ReadRun
      <4> QED
        BY <1>1, <2>1, <4>1 DEF RunsTypeOK
    <3> QED
      BY <2>1, <2>2, <3>1, <3>2, ReadRunKeeps
  <2>3. CASE runs[r].status # "CLAIMED"
    <3>1. txn' = txn
      BY <1>3, <2>3 DEF ExecuteRun
    <3> QED
      BY <1>1, <2>1, <3>1, QueueKeeps DEF RunsTypeOK
  <2> QED
    BY <2>2, <2>3
<1>4. ASSUME NEW r \in RunIds, RunDueRetry(w, r)
      PROVE  RunsInv'
  <2>1. /\ txn[w] = Idle /\ ~Locked(r)
        /\ UNCHANGED <<policy, enabled, runs, task, held, link, queue, hook, faults, maint>>
    BY <1>4 DEF RunDueRetry, budgetVars
  <2>2. CASE runs[r].status = "CLAIMED"
    <3>1. ReadRun(w, r, TRUE) /\ retry' = retry
      BY <1>4, <2>2 DEF RunDueRetry
    <3>2. RunsTypeOK'
      <4>1. txn' = [txn EXCEPT ![w] = txn'[w]] /\ txn'[w].op = "execute"
        BY <1>1, <3>1 DEF ReadRun
      <4> QED
        BY <1>1, <2>1, <3>1, <4>1 DEF RunsTypeOK
    <3> QED
      BY <2>1, <2>2, <3>1, <3>2, ReadRunKeeps
  <2>3. CASE runs[r].status # "CLAIMED"
    <3>1. txn' = txn /\ retry' = retry \ {r}
      BY <1>4, <2>3 DEF RunDueRetry
    <3> QED
      BY <1>1, <2>1, <3>1, QueueKeeps DEF RunsTypeOK
  <2> QED
    BY <2>2, <2>3
<1>5. ASSUME NEW code \in {"POLICY", "BUDGET"}, ExecuteRefused(w, code)
      PROVE  RunsInv'
  BY <1>5, RefusedKeeps
<1>6. ASSUME NEW v \in {"none", "yes", "no"},
             DeferRun(w, v) \/ SkipConcurrent(w, v) \/ StartTask(w, v) \/ FailRun(w, v) \/ RetryLater(w, v)
      PROVE  RunsInv'
  BY <1>6, DeferKeeps, SkipKeeps, StartKeeps, FailKeeps, RetryLaterKeeps
<1>7. ASSUME NEW r \in RunIds, ReadTimeout(w, r) \/ ReadWindow(w, r)
      PROVE  RunsInv'
  <2>1. Past(runs[r])
    BY <1>7 DEF ReadTimeout, ReadWindow, Past, WorkingStatuses, Over
  <2> QED
    BY <1>7, <2>1, ReadForKeeps DEF ReadTimeout, ReadWindow
<1>8. CASE RequestTimeout(w)
  <2> DEFINE r == txn[w].run
  <2>1. /\ txn[w].op = "timeout" /\ ~Locked(r) /\ EndRunTxn(w)
        /\ runs' = AskedRuns(r) /\ task' \in AskedTasks(r, txn[w].seen)
        /\ UNCHANGED <<policy, enabled, retry, held, link, queue, hook, faults, maint>>
    BY <1>8 DEF RequestTimeout, AskFree, budgetVars
  <2>2. PICK q \in RunIds : q = r /\ Past(runs[q])
    BY <2>1 DEF RunsInv, TxnGood, Idle
  <2> HIDE DEF r
  <2>3. /\ Touched(runs, runs', q, "CANCEL_REQUESTED", runs[q].code)
        /\ task' \in [RunIds -> {"NONE", "OPEN", "DONE", "FAILED", "CANCELLED"}]
        /\ \A p \in RunIds : task'[p] # "NONE" => task[p] # "NONE"
    BY <1>1, <2>1, <2>2, AskedGood
  <2>4. BudgetTypes' /\ OthersHeld(q) /\ LinkGood(q)' /\ "CANCEL_REQUESTED" \in Over
    BY <2>1, RunIs DEF BudgetTypes, OthersHeld, LinkGood, Over
  <2> QED
    BY <1>1, <2>1, <2>2, <2>3, <2>4, RunIs, DomainIs, RunOver DEF RunsTypeOK
<1>9. CASE KeepWaiting(w)
  <2>1. EndRunTxn(w) /\ UNCHANGED <<policy, enabled, runs, task, retry, held, link, queue, hook, faults, maint>>
    BY <1>9 DEF KeepWaiting, runVars, budgetVars
  <2> QED
    BY <1>1, <2>1, DomainIs, QueueKeeps DEF RunsTypeOK
<1>10. ASSUME NEW settled \in {"settled", "exceeded"}, FinishCancel(w, settled)
       PROVE  RunsInv'
  <2> DEFINE r == txn[w].run
             end == IF txn[w].open THEN "TIMED_OUT" ELSE "CANCELLED"
  <2>1. /\ txn[w].op = "window" /\ ~Locked(r) /\ EndRunTxn(w)
        /\ runs' = [runs EXCEPT ![r].status = end, ![r].confirmed = @ \/ end = "CANCELLED"]
        /\ retry' = retry \ {r} /\ Close(r, held, link, settled)
        /\ UNCHANGED <<policy, enabled, task, queue, hook, faults, maint>>
    BY <1>10 DEF FinishCancel
  <2>2. PICK q \in RunIds : q = r /\ Past(runs[q])
    BY <2>1 DEF RunsInv, TxnGood, Idle
  <2>3. end \in RunStatus /\ end \in Over
    BY DEF RunStatus, RUN_TERMINAL, Over
  <2> HIDE DEF r, end
  <2>4. Touched(runs, runs', q, end, runs[q].code)
    <3>1. runs[q] \in RunRow
      BY <1>1
    <3>2. runs[q].confirmed \in BOOLEAN
      BY <3>1 DEF RunRow
    <3> DEFINE b == runs[q].confirmed \/ end = "CANCELLED"
    <3>3. runs' = [runs EXCEPT ![q].status = end, ![q].confirmed = b]
      BY <1>1, <2>1, <2>2
    <3>4. b \in BOOLEAN
      OBVIOUS
    <3> HIDE DEF b
    <3> QED
      BY <1>1, <2>3, <3>3, <3>4, TouchConfirmed
  <2>5. BudgetTypes' /\ OthersHeld(q) /\ LinkGood(q)'
    BY <2>1, <2>2, RunIs, CloseGood DEF BudgetTypes, OthersHeld, LinkGood
  <2> QED
    BY <1>1, <2>1, <2>2, <2>3, <2>4, <2>5, RunIs, DomainIs, RunOver DEF RunsTypeOK
<1> QED
  BY <1>2, <1>3, <1>4, <1>5, <1>6, <1>7, <1>8, <1>9, <1>10 DEF Worker

\* A Run falls due, a lease lapses, a Task ends, a worker moves or dies.
LEMMA SystemKeeps ==
  ASSUME RunsInv, System, UNCHANGED commands
  PROVE  RunsInv'
<1>1. RunsTypeOK /\ DOMAIN txn = Workers /\ runs \in [RunIds -> RunRow]
  BY DEF RunsInv, RunsTypeOK
<1>2. ASSUME NEW r \in RunIds, RunDue(r)
      PROVE  RunsInv'
  <2>1. /\ runs[r].status = "ABSENT" /\ runs' = [runs EXCEPT ![r].status = "DUE"]
        /\ UNCHANGED <<policy, enabled, task, retry, held, link, queue, txn, hook, faults, maint>>
    BY <1>2 DEF RunDue, budgetVars, procVars
  <2>2. Touched(runs, runs', r, "DUE", runs[r].code)
    BY <1>1, <2>1, TouchStatus DEF RunStatus, RUN_PENDING
  <2>3. ~Locked(r)
    BY <2>1, ExecutionIs DEF Locked, Executing
  <2> QED
    BY <1>1, <2>1, <2>2, <2>3, QueueKeeps DEF RunsTypeOK, Touched, Waiting
<1>3. ASSUME NEW r \in RunIds, LeaseLapses(r)
      PROVE  RunsInv'
  <2>1. /\ runs[r].status = "CLAIMED" /\ runs' = [runs EXCEPT ![r].lapsed = TRUE]
        /\ faults < MaxFaults /\ faults' = faults + 1
        /\ UNCHANGED <<policy, enabled, task, retry, held, link, queue, txn, hook, maint>>
    BY <1>3 DEF LeaseLapses, budgetVars
  <2>2. Touched(runs, runs', r, "CLAIMED", runs[r].code)
    BY <1>1, <2>1, TouchLapsed
  <2>3. faults' \in 0 .. MaxFaults
    BY <1>1, <2>1, ScheduleAssumption DEF RunsTypeOK
  <2> QED
    BY <1>1, <2>1, <2>2, <2>3, QueueKeeps DEF RunsTypeOK, Touched, Waiting
<1>4. ASSUME NEW r \in RunIds, NEW res \in {"DONE", "FAILED"}, TaskEnds(r, res)
      PROVE  RunsInv'
  <2>1. /\ task[r] = "OPEN" /\ hook'.op = "end" /\ hook'.run = r /\ hook'.result = res
        /\ UNCHANGED <<policy, enabled, runs, task, retry, held, link, queue, txn, faults, maint, commands>>
    BY <1>4 DEF TaskEnds, runVars, budgetVars
  <2>2. HookGood'
    BY <2>1 DEF HookGood, RunsInv
  <2>3. RunsTypeOK'
    BY <1>1, <2>1 DEF RunsTypeOK
  <2> QED
    BY <1>1, <2>1, <2>2, <2>3 DEF RunsInv, RowGood, TxnGood, ExecutionGood, Enough, Forbid
<1>5. ASSUME NEW settled \in {"settled", "exceeded"}, OnTaskTerminal(settled)
      PROVE  RunsInv'
  <2> DEFINE r == hook.run
             end == IF hook.result = "DONE" THEN "SUCCEEDED" ELSE "FAILED"
  <2>1. /\ hook.op = "end" /\ ~Locked(r) /\ hook' = Idle
        /\ task' = [task EXCEPT ![r] = hook.result]
        /\ UNCHANGED <<policy, enabled, queue, txn, faults, maint>>
    BY <1>5 DEF OnTaskTerminal
  <2>2. PICK q \in RunIds : q = r /\ Past(runs[q]) /\ hook.result \in {"DONE", "FAILED"}
    BY <2>1 DEF RunsInv, HookGood, Idle
  <2>3. end \in RunStatus /\ end \in Over
    BY DEF RunStatus, RUN_TERMINAL, Over
  <2>4. /\ task' \in [RunIds -> {"NONE", "OPEN", "DONE", "FAILED", "CANCELLED"}]
        /\ \A p \in RunIds : p # q /\ task'[p] # "NONE" => task[p] # "NONE"
    BY <1>1, <2>1, <2>2 DEF RunsTypeOK
  <2>5. CASE hook.running
    <3>1. /\ runs' = [runs EXCEPT ![q].status = end] /\ retry' = retry \ {q}
          /\ Close(q, held, link, settled)
      BY <1>5, <2>2, <2>5 DEF OnTaskTerminal
    <3> HIDE DEF r, end
    <3>2. Touched(runs, runs', q, end, runs[q].code)
      BY <1>1, <2>3, <3>1, TouchStatus
    <3>3. BudgetTypes' /\ OthersHeld(q) /\ LinkGood(q)'
      BY <3>1, RunIs, CloseGood DEF BudgetTypes, OthersHeld, LinkGood
    <3> QED
      BY <1>1, <2>1, <2>2, <2>3, <2>4, <3>1, <3>2, <3>3, RunIs, RunOver DEF RunsTypeOK
  <2>6. CASE ~hook.running
    <3>1. UNCHANGED <<runs, retry, held, link>>
      BY <1>5, <2>6 DEF OnTaskTerminal, budgetVars
    <3> HIDE DEF r, end
    <3>2. RunsTypeOK'
      BY <1>1, <2>1, <2>4, <3>1 DEF RunsTypeOK, Idle
    <3>3. RowsKept
      BY <3>1 DEF RowsKept, RowKept
    <3>4. RowsGood'
      BY <2>1, <2>2, <2>4, <3>1 DEF RowsGood, RunsInv, RowGood, Forbid
    <3>5. LocksGood'
      BY <2>1, <3>1, ExecutionIs DEF LocksGood
    <3> QED
      BY <1>1, <2>1, <3>2, <3>3, <3>4, <3>5, Gentle
  <2> QED
    BY <2>5, <2>6
<1>6. ASSUME NEW w \in Workers, Worker(w)
      PROVE  RunsInv'
  BY <1>6, WorkerKeeps
<1>7. ASSUME NEW w \in Workers, Crash(w)
      PROVE  RunsInv'
  <2>1. /\ faults < MaxFaults /\ faults' = faults + 1 /\ EndRunTxn(w)
        /\ queue' \in {queue, [queue EXCEPT ![w] = {}]}
        /\ UNCHANGED <<policy, enabled, runs, task, retry, held, link, hook, maint>>
    BY <1>7 DEF Crash, runVars, budgetVars
  <2>2. queue' \in [Workers -> SUBSET RunIds]
    BY <1>1, <2>1 DEF RunsTypeOK
  <2>3. faults' \in 0 .. MaxFaults
    BY <1>1, <2>1, ScheduleAssumption DEF RunsTypeOK
  <2> QED
    BY <1>1, <2>1, <2>2, <2>3, DomainIs, QueueKeeps DEF RunsTypeOK
<1> QED
  BY <1>2, <1>3, <1>4, <1>5, <1>6, <1>7 DEF System

LEMMA RunsStart == RunsInit => RunsInv
<1> SUFFICES ASSUME RunsInit PROVE RunsInv
  OBVIOUS
<1>1. NoRun \in RunRow /\ NoRun.status = "ABSENT" /\ NoRun.code = ""
  BY DEF NoRun, RunRow
<1>2. RunsTypeOK
  <2>1. runs \in [RunIds -> RunRow] /\ \A w \in Workers : txn[w].op = "idle"
    BY <1>1 DEF RunsInit, Idle
  <2>2. 0 \in 0 .. MaxFaults /\ 0 \in 0 .. MaxCommands
    BY ScheduleAssumption
  <2>3. hook.op = "idle"
    BY DEF RunsInit, Idle
  <2> QED
    BY <2>1, <2>2, <2>3 DEF RunsInit, RunsTypeOK
<1> QED
  BY <1>1, <1>2 DEF RunsInit, RunsInv, HookGood, RowGood, TxnGood, Enough, WorkingStatuses, Idle

LEMMA RunsStepKeeps == RunsInv /\ [RunsNext]_runsVars => RunsInv'
<1> SUFFICES ASSUME RunsInv, [RunsNext]_runsVars PROVE RunsInv'
  OBVIOUS
<1>1. CASE Command /\ commands < MaxCommands /\ commands' = commands + 1
  BY <1>1, CommandKeeps, ScheduleAssumption DEF RunsInv, RunsTypeOK
<1>2. CASE System /\ UNCHANGED commands
  BY <1>2, SystemKeeps
<1>3. CASE UNCHANGED runsVars
  <2>1. UNCHANGED <<policy, enabled, runs, task, retry, held, link, queue, txn, hook, faults, maint, commands>>
    BY <1>3 DEF runsVars, runVars, procVars
  <2> QED
    BY <2>1 DEF RunsInv, RunsTypeOK, HookGood, RowGood, TxnGood, ExecutionGood, Enough, Forbid
<1> QED
  BY <1>1, <1>2, <1>3 DEF RunsNext

\* RunsInv says what the two properties ask.
LEMMA RunsInvGood == RunsInv => RunsTypeOK /\ OneRunAtWork /\ WorkIsReserved
<1> SUFFICES ASSUME RunsInv PROVE RunsTypeOK /\ OneRunAtWork /\ WorkIsReserved
  OBVIOUS
<1>1. RunsTypeOK
  BY DEF RunsInv
<1>2. WorkIsReserved
  BY DEF RunsInv, RowGood, WorkIsReserved, WorkingStatuses
<1>3. OneRunAtWork
  <2> DEFINE working == {r \in RunIds : runs[r].status \in {"TASK_CREATED", "RUNNING", "VERIFYING"}}
             skipped == {r \in RunIds : runs[r].code = "CONCURRENCY"}
  <2>1. ASSUME policy.concurrency = "FORBID"
        PROVE  Cardinality(working) <= 1
    <3>1. \A p, q \in working : p = q
      BY <2>1 DEF RunsInv, Enough, Forbid, WorkingStatuses
    <3>2. CASE working = {}
      BY <3>2, FS_EmptySet
    <3>3. ASSUME NEW p \in working PROVE Cardinality(working) <= 1
      <4>1. working = {p}
        BY <3>1
      <4>2. Cardinality({p}) = 1
        BY FS_Singleton
      <4> QED
        BY <4>1, <4>2
    <3> QED
      BY <3>2, <3>3
  <2>2. ASSUME policy.daily, skipped # {}
        PROVE  Existing \ skipped # {}
    BY <2>2 DEF RunsInv, Enough, Existing
  <2> QED
    BY <2>1, <2>2 DEF OneRunAtWork
<1> QED
  BY <1>1, <1>2, <1>3

LEMMA RunsInvAlways == RunsSpec => []RunsInv
  BY RunsStart, RunsStepKeeps, PTL DEF RunsSpec

\* Under FORBID at most one Run is at work, and under a daily budget a Run is
\* skipped for concurrency only for one that is not (_concurrency, the row
\* locks, the budget's lock), with any number of workers, Runs and crashes.
THEOREM RunsOneAtWork == RunsSpec => [](RunsTypeOK /\ OneRunAtWork)
  BY RunsInvAlways, RunsInvGood, PTL

\* A Task at work is covered by an open reservation (reserve_for_run before
\* the side effect, release and settle at the end), whatever crashes.
THEOREM RunsWorkReserved == RunsSpec => []WorkIsReserved
  BY RunsInvAlways, RunsInvGood, PTL
==============================================================================
