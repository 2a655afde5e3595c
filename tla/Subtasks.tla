------------------------------ MODULE Subtasks ------------------------------
(***************************************************************************)
(* Sub-Tasks of one parent Task: their creation under the channel's graph  *)
(* limits, the join of their results and the parent's completion           *)
(* (server/application/orchestration.py, server/application/tasks.py,      *)
(* server/tasks/graph.py).                                                 *)
(*                                                                         *)
(* The parent and its children are read without a lock.  A command appends *)
(* the child's own Event first, and holds the child's stream until it      *)
(* commits; then it loads the parent, reads the children and may append    *)
(* TASK_JOIN_SATISFIED to the parent's stream with the sequence number it  *)
(* has loaded.  Append and commit are one step: what other transactions do *)
(* while they wait for the stream they could have done before.             *)
(*                                                                         *)
(* Of a Task the code tells apart only whether it is done (VERIFIED or     *)
(* COMPLETED), CANCELLED or neither ("OPEN" here, for every other status). *)
(***************************************************************************)
EXTENDS Naturals, Sequences, FiniteSets

CONSTANTS Crew,          \* transactions
          Kids,          \* ids of sub-Tasks
          ParentTask,    \* the parent's id
          Forebears,     \* ids of its ancestors
          JoinActors,    \* accounts that submit verdicts and complete Tasks
          JoinPolicies,  \* join_policy of the parent: mode, quorum, required
          GraphLimits,   \* delegation_depth, max_fan_out, concurrent_subtasks
          ParentDepth,   \* delegation depth of the parent
          MaxParentSeq   \* bound: length of the parent's stream

ASSUME SubtasksAssumption ==
  /\ ParentDepth \in Nat /\ MaxParentSeq \in Nat \ {0}
  /\ ParentTask \notin Kids \cup Forebears
  /\ Forebears \cap Kids = {}
  /\ \A p \in JoinPolicies :
       /\ p.mode \in {"ALL", "ANY", "QUORUM"}
       /\ p.quorum \in Nat \ {0}
       /\ p.required \subseteq Kids
  /\ GraphLimits \in [delegation_depth : Nat \ {0}, max_fan_out : Nat \ {0},
                      concurrent_subtasks : Nat \ {0}]

VARIABLES
  joinPolicy, \* the parent's join_policy, of its TASK_CREATED
  parentRow,  \* the parent: status and length of its stream
  kid,        \* status of each sub-Task, "none" before it is created
  joins,      \* TASK_JOIN_SATISFIED Events: actor and satisfied_children
  joinRow,    \* satisfied_children of task_join_state; {} without a row
  crew        \* the transaction of each member

subtasksVars == <<joinPolicy, parentRow, kid, joins, joinRow, crew>>

KidStatuses == {"none", "OPEN", "VERIFIED", "COMPLETED", "CANCELLED"}
ChildDone == {"VERIFIED", "COMPLETED"}
ParentStatuses == {"OPEN", "VERIFIED", "COMPLETED", "CANCELLED"}

NoTrip == [step |-> "idle", what |-> "none", kid |-> ParentTask, actor |-> "none",
           status |-> "OPEN", seq |-> 0, joined |-> FALSE, found |-> {}]

SubtasksInit ==
  /\ joinPolicy \in JoinPolicies
  /\ parentRow = [status |-> "OPEN", seq |-> 1]
  /\ kid = [k \in Kids |-> "none"]
  /\ joins = <<>>
  /\ joinRow = {}
  /\ crew = [c \in Crew |-> NoTrip]

Created(kids) == {k \in Kids : kids[k] # "none"}
DoneIn(kids) == {k \in Kids : kids[k] \in ChildDone}

\* evaluate_join: "ALL" leaves cancelled children out but not required ones,
\* and no join holds before a sub-Task is done.
EvaluateJoin(p, kids) ==
  LET done == DoneIn(kids)
  IN /\ Created(kids) # {}
     /\ CASE p.mode = "ALL" -> /\ \A k \in Created(kids) : kids[k] # "OPEN"
                               /\ p.required \subseteq done
                               /\ done # {}
          [] p.mode = "ANY" -> done # {}
          [] p.mode = "QUORUM" -> /\ Cardinality(done) >= p.quorum
                                  /\ p.required \subseteq done

\* validate_new_child on the parent's loaded status and the children read.
ValidateNewChild(k, status, kids) ==
  /\ k \notin Forebears \cup {ParentTask}
  /\ status \notin {"COMPLETED", "CANCELLED"}
  /\ ParentDepth + 1 <= GraphLimits.delegation_depth
  /\ Cardinality(Created(kids)) + 1 <= GraphLimits.max_fan_out
  /\ Cardinality({j \in Created(kids) : kids[j] \notin {"COMPLETED", "CANCELLED"}}) + 1
       <= GraphLimits.concurrent_subtasks

Trip(c, t) == crew' = [crew EXCEPT ![c] = t]
EndTrip(c) == Trip(c, NoTrip)

\* Transactions that have appended to the child's stream and hold its lock.
KidHolders(k) == {c \in Crew : crew[c].kid = k /\ crew[c].step \in {"load", "join", "append"}}

-----------------------------------------------------------------------------
(***************************************************************************)
(* CreateSubtask.                                                          *)
(***************************************************************************)
\* load_task of the parent, and its early checks.
BeginCreate(c, k) ==
  /\ crew[c] = NoTrip
  /\ parentRow.status \notin {"COMPLETED", "CANCELLED"}
  /\ k # ParentTask
  /\ Trip(c, [NoTrip EXCEPT !.step = "check", !.what = "create", !.kid = k, !.status = parentRow.status])
  /\ UNCHANGED <<joinPolicy, parentRow, kid, joins, joinRow>>

\* check_subtask_creation: GraphError ends the command without a trace.
CheckSubtaskCreation(c) ==
  /\ crew[c].step = "check" /\ crew[c].what = "create"
  /\ IF ValidateNewChild(crew[c].kid, crew[c].status, kid)
     THEN Trip(c, [crew[c] EXCEPT !.step = "insert"])
     ELSE EndTrip(c)
  /\ UNCHANGED <<joinPolicy, parentRow, kid, joins, joinRow>>

\* SUBTASK_CREATED with expected_seq 1 and the task_edges row; an id that is
\* taken by now is a replay or a SEQUENCE_CONFLICT, and changes nothing.
InsertSubtask(c) ==
  /\ crew[c].step = "insert"
  /\ kid' = [kid EXCEPT ![crew[c].kid] = IF @ = "none" THEN "OPEN" ELSE @]
  /\ EndTrip(c)
  /\ UNCHANGED <<joinPolicy, parentRow, joins, joinRow>>

-----------------------------------------------------------------------------
(***************************************************************************)
(* The end of a sub-Task.                                                  *)
(***************************************************************************)
\* cancel_task: the parent's join is not evaluated.
CancelSubtask(k) ==
  /\ kid[k] = "OPEN"
  /\ KidHolders(k) = {}
  /\ kid' = [kid EXCEPT ![k] = "CANCELLED"]
  /\ UNCHANGED <<joinPolicy, parentRow, joins, joinRow, crew>>

\* VERIFICATION_PASSED of the child's run, or TASK_COMPLETED of the child:
\* appended, not committed.  on_child_terminal follows.
BeginFinish(c, k, what, who) ==
  /\ crew[c] = NoTrip
  /\ KidHolders(k) = {}
  /\ \/ what = "verify" /\ kid[k] = "OPEN"
     \/ what = "complete" /\ kid[k] = "VERIFIED"
  /\ Trip(c, [NoTrip EXCEPT !.step = "load", !.what = what, !.kid = k, !.actor = who])
  /\ UNCHANGED <<joinPolicy, parentRow, kid, joins, joinRow>>

\* record_join_if_satisfied: load_task of the parent,
LoadParent(c) ==
  /\ crew[c].step = "load"
  /\ Trip(c, [crew[c] EXCEPT !.step = "join", !.seq = parentRow.seq, !.joined = (joins # <<>>)])
  /\ UNCHANGED <<joinPolicy, parentRow, kid, joins, joinRow>>

\* The children as the transaction sees them: its own Event is applied.
KidsSeen(c) ==
  [kid EXCEPT ![crew[c].kid] = IF crew[c].what = "verify" THEN "VERIFIED" ELSE "COMPLETED"]

CommitChild(c) == kid' = KidsSeen(c) /\ EndTrip(c)

\* children_of and evaluate_join: nothing to record, and the command commits,
\* or the join holds and is not known to be recorded.
JudgeJoin(c) ==
  /\ crew[c].step = "join"
  /\ IF EvaluateJoin(joinPolicy, KidsSeen(c)) /\ ~crew[c].joined
     THEN /\ Trip(c, [crew[c] EXCEPT !.step = "append", !.found = DoneIn(KidsSeen(c))])
          /\ UNCHANGED kid
     ELSE CommitChild(c)
  /\ UNCHANGED <<joinPolicy, parentRow, joins, joinRow>>

\* Mutant of SeqStillNext: the append names no expected sequence number.
SeqNotNamed(c) == crew[c].seq > 0

\* expected_seq of the append is the next of the parent's stream.
SeqStillNext(c) == crew[c].seq = parentRow.seq

\* The Event under the key join:<parent>, which is per actor.
JoinOfActor(c) == {i \in 1..Len(joins) : joins[i].who = crew[c].actor}

\* The append: a replay under the actor's key (with other children it is an
\* IDEMPOTENCY_CONFLICT, which is swallowed), a SEQUENCE_CONFLICT that rolls
\* back the child's own Event, or the Event and the task_join_state row.
AppendJoin(c) ==
  /\ crew[c].step = "append"
  /\ IF JoinOfActor(c) # {}
     THEN /\ joinRow' = IF \E i \in JoinOfActor(c) : joins[i].children = crew[c].found
                        THEN crew[c].found ELSE joinRow
          /\ CommitChild(c)
          /\ UNCHANGED <<parentRow, joins>>
     ELSE IF SeqStillNext(c)
     THEN /\ joins' = Append(joins, [who |-> crew[c].actor, children |-> crew[c].found])
          /\ joinRow' = crew[c].found
          /\ parentRow' = [parentRow EXCEPT !.seq = @ + 1]
          /\ CommitChild(c)
     ELSE EndTrip(c) /\ UNCHANGED <<kid, parentRow, joins, joinRow>>
  /\ UNCHANGED joinPolicy

-----------------------------------------------------------------------------
(***************************************************************************)
(* The parent.                                                             *)
(***************************************************************************)
\* Other commands append to its stream; a verdict is on the stream of its run.
ParentProgress ==
  /\ parentRow.status = "OPEN"
  /\ parentRow.seq < MaxParentSeq
  /\ parentRow' = [parentRow EXCEPT !.seq = @ + 1]
  /\ UNCHANGED <<joinPolicy, kid, joins, joinRow, crew>>

ParentVerified ==
  /\ parentRow.status = "OPEN"
  /\ parentRow' = [parentRow EXCEPT !.status = "VERIFIED"]
  /\ UNCHANGED <<joinPolicy, kid, joins, joinRow, crew>>

ParentCancelled ==
  /\ parentRow.status = "OPEN"
  /\ parentRow.seq < MaxParentSeq
  /\ parentRow' = [status |-> "CANCELLED", seq |-> parentRow.seq + 1]
  /\ UNCHANGED <<joinPolicy, kid, joins, joinRow, crew>>

BeginParentComplete(c) ==
  /\ crew[c] = NoTrip
  /\ parentRow.status = "VERIFIED"
  /\ Trip(c, [NoTrip EXCEPT !.step = "check", !.what = "close", !.status = "VERIFIED", !.seq = parentRow.seq])
  /\ UNCHANGED <<joinPolicy, parentRow, kid, joins, joinRow>>

\* parent_join_check: TASK_JOIN_UNSATISFIED unless there are no children.
ParentJoinCheck(c) ==
  /\ crew[c].step = "check" /\ crew[c].what = "close"
  /\ IF Created(kid) = {} \/ EvaluateJoin(joinPolicy, kid)
     THEN Trip(c, [crew[c] EXCEPT !.step = "close"])
     ELSE EndTrip(c)
  /\ UNCHANGED <<joinPolicy, parentRow, kid, joins, joinRow>>

\* TASK_COMPLETED, unless the stream has moved on.
CompleteParent(c) ==
  /\ crew[c].step = "close"
  /\ parentRow' = IF SeqStillNext(c) THEN [status |-> "COMPLETED", seq |-> parentRow.seq + 1]
                  ELSE parentRow
  /\ EndTrip(c)
  /\ UNCHANGED <<joinPolicy, kid, joins, joinRow>>

\* The process is lost, or the transaction is rolled back for another reason.
LoseTrip(c) ==
  /\ crew[c] # NoTrip
  /\ EndTrip(c)
  /\ UNCHANGED <<joinPolicy, parentRow, kid, joins, joinRow>>

SubtasksNext ==
  \/ \E c \in Crew :
       \/ \E k \in Kids \cup {ParentTask} \cup Forebears : BeginCreate(c, k)
       \/ CheckSubtaskCreation(c) \/ InsertSubtask(c)
       \/ \E k \in Kids, what \in {"verify", "complete"}, who \in JoinActors : BeginFinish(c, k, what, who)
       \/ LoadParent(c) \/ JudgeJoin(c) \/ AppendJoin(c)
       \/ BeginParentComplete(c) \/ ParentJoinCheck(c) \/ CompleteParent(c)
       \/ LoseTrip(c)
  \/ \E k \in Kids : CancelSubtask(k)
  \/ ParentProgress \/ ParentVerified \/ ParentCancelled

SubtasksSpec == SubtasksInit /\ [][SubtasksNext]_subtasksVars

-----------------------------------------------------------------------------
SubtasksTypeOK ==
  /\ joinPolicy \in JoinPolicies
  /\ parentRow.status \in ParentStatuses /\ parentRow.seq \in 1..(MaxParentSeq + 2)
  /\ kid \in [Kids -> KidStatuses]
  /\ joinRow \subseteq Kids
  /\ \A c \in Crew : crew[c].step \in {"idle", "check", "insert", "load", "join", "append", "close"}

\* The join is recorded at most once, whoever finishes the children and in
\* whatever order, for children that are done and enough for the policy; and
\* task_join_state says what the Event says (record_join_if_satisfied: two
\* children that finish together, under different accounts, share no
\* idempotency key, and only the sequence number keeps the second one out).
JoinRecordedOnce ==
  /\ Len(joins) <= 1
  /\ joinRow = IF joins = <<>> THEN {} ELSE joins[1].children
  /\ \A i \in 1..Len(joins) :
       /\ joins[i].children \subseteq DoneIn(kid)
       /\ joins[i].children # {}
       /\ joinPolicy.mode = "QUORUM" => Cardinality(joins[i].children) >= joinPolicy.quorum
       /\ joinPolicy.mode # "ANY" => joinPolicy.required \subseteq joins[i].children
=============================================================================
