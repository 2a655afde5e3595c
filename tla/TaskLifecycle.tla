--------------------------- MODULE TaskLifecycle ----------------------------
(***************************************************************************)
(* One Task and the verification runs on it, under concurrent command      *)
(* transactions (server/domain/task.py, server/application/tasks.py,       *)
(* server/application/verification.py, server/verification/runs.py,        *)
(* server/projections/tasks.py).                                           *)
(*                                                                         *)
(* The Task has no row of its own: its state is the fold, in recorded_seq  *)
(* order, of its own Event stream merged with the verdicts in the streams  *)
(* of its verification runs.  A command loads these streams without a      *)
(* lock, decides, appends one Event to ONE of the streams with a           *)
(* compare-and-swap on that stream's sequence number (EventStore), and     *)
(* upserts tasks_projection.  Verification runs are rows locked FOR UPDATE.*)
(* A retried command that finds its Event in the stream changes nothing    *)
(* and is not an action here; EventStore is about retries.                 *)
(***************************************************************************)
EXTENDS TaskTable, Naturals, FiniteSetsExt

CONSTANTS Clients,    \* concurrent command transactions
          Accounts,   \* accounts a Task can be assigned to
          Runs,       \* verification ids
          None,
          MaxRec,     \* bound: Events recorded
          Twice,      \* bound: Event types that may happen twice; others once
          MaxDetours  \* bound: Events of Detours

ASSUME BoundAssumption == MaxRec \in Nat /\ MaxDetours \in Nat

VARIABLES
  log,      \* committed Events of the Task's streams
  proj,     \* committed tasks_projection row
  run,      \* committed verification_runs rows
  pc, cmd,  \* where each transaction is and the command it executes
  seen,     \* last Task Event of the first SELECT of load_task
  view,     \* the TaskState a transaction has folded
  pend,     \* its uncommitted Event
  runNew    \* its uncommitted verification_runs row

txnVars == <<pc, cmd, seen, view, pend, runNew>>
vars == <<log, proj, run, txnVars>>

-----------------------------------------------------------------------------
(***************************************************************************)
(* The domain: apply_event and fold over the table of TaskTable.           *)
(***************************************************************************)
\* TaskState.  "BROKEN" stands for the TaskTransitionError that fold raises:
\* load_task, and with it every command on the Task, fails.
NewTask == [status |-> "OPEN", assignee |-> None, active |-> None,
            verdict |-> None, seq |-> 1]

\* A verdict counts only for the active run and from VERIFYING.
ApplyVerdict(st, e) ==
  IF e.arg = st.active /\ Allowed(st.status, e.type)
  THEN [st EXCEPT !.status = NextStatus(@, e.type), !.verdict = e.type]
  ELSE st

\* Mutant of ApplyTaskEvent: every Event's argument becomes the active run.
ApplyTaskEventUntyped(st, e) ==
  IF ~Allowed(st.status, e.type) THEN [st EXCEPT !.status = "BROKEN"]
  ELSE [st EXCEPT !.status = NextStatus(@, e.type), !.seq = e.seq,
                  !.assignee = IF e.type \in Assignments THEN e.arg ELSE @,
                  !.active = e.arg]

\* An Event of the task stream.
ApplyTaskEvent(st, e) ==
  IF ~Allowed(st.status, e.type) THEN [st EXCEPT !.status = "BROKEN"]
  ELSE [status |-> NextStatus(st.status, e.type),
        seq |-> e.seq,
        assignee |-> IF e.type \in Assignments THEN e.arg ELSE st.assignee,
        active |-> IF e.type = "TASK_VERIFICATION_STARTED" THEN e.arg
                   ELSE st.active,
        verdict |-> CASE e.type = "IMPLEMENTATION_SUBMITTED" -> None
                      [] e.type = "TASK_VERIFICATION_STARTED" -> "PENDING"
                      [] OTHER -> st.verdict]

ApplyEvent(st, e) ==
  IF st.status = "BROKEN" THEN st
  ELSE IF e.type \in Verdicts THEN ApplyVerdict(st, e)
  ELSE ApplyTaskEvent(st, e)

\* fold, in recorded_seq order.
LastRec(S) == Max({0} \cup {e.rec : e \in S})
Fold(S) ==
  LET after[n \in 0 .. LastRec(S)] ==
        IF n = 0 THEN NewTask
        ELSE IF \A e \in S : e.rec # n THEN after[n - 1]
        ELSE ApplyEvent(after[n - 1], CHOOSE e \in S : e.rec = n)
  IN  after[LastRec(S)]

TaskStream(S) == {e \in S : e.type \in TaskTypes}
RunStream(S, v) == {e \in S : e.type \in Verdicts /\ e.arg = v}
LastSeq(S) == Cardinality(TaskStream(S)) + 1  \* TASK_CREATED has number 1

\* load_task: the task stream, then one SELECT per verification it mentions.
Merged(taskEvents, S) ==
  taskEvents \cup
    UNION {RunStream(S, e.arg) : e \in {x \in taskEvents :
                                   x.type = "TASK_VERIFICATION_STARTED"}}

-----------------------------------------------------------------------------
(***************************************************************************)
(* Verification runs: the row's status and current_revision.               *)
(***************************************************************************)
RunMoves ==
  {<<"PLANNED", "assign", "ASSIGNED">>,
   <<"FAILED", "fix", "FIX_SUBMITTED">>, <<"BLOCKED", "fix", "FIX_SUBMITTED">>,
   <<"FIX_SUBMITTED", "recheck", "RECHECK_ASSIGNED">>,
   <<"BLOCKED", "recheck", "RECHECK_ASSIGNED">>}
  \cup {<<s, "cancel", "CANCELLED">> :
          s \in {"PLANNED", "ASSIGNED", "RUNNING", "FAILED", "BLOCKED",
                 "FIX_SUBMITTED", "RECHECK_ASSIGNED"}}
Startable == {"ASSIGNED", "RECHECK_ASSIGNED"}
ResultOf == [t \in Verdicts |->
  CASE t = "VERIFICATION_PASSED" -> "PASSED"
    [] t = "VERIFICATION_FAILED" -> "FAILED"
    [] t = "VERIFICATION_BLOCKED" -> "BLOCKED"]

\* Mutant of RunHeld: load_run without FOR UPDATE.
RunHeldNever(v) == FALSE

\* The row lock of load_run is held to the end of the transaction.
RunHeld(v) ==
  \E c \in Clients : pc[c] # "idle" /\ cmd[c].run = v

Init ==
  /\ log = {}
  /\ proj = NewTask
  /\ run = [v \in Runs |-> None]
  /\ pc = [c \in Clients |-> "idle"]
  /\ cmd = [c \in Clients |-> None]
  /\ seen = [c \in Clients |-> 0]
  /\ view = [c \in Clients |-> None]
  /\ pend = [c \in Clients |-> None]
  /\ runNew = [c \in Clients |-> None]

\* create_verification_run
CreateRun(v) ==
  /\ run[v] = None
  /\ run' = [run EXCEPT ![v] = [status |-> "PLANNED", revision |-> 0]]
  /\ UNCHANGED <<log, proj, txnVars>>

\* _simple_move for ASSIGN, FIX, RECHECK and CANCEL: one transaction on one
\* locked row; it writes no Event and does not look at the Task.
MoveRun(v) ==
  /\ run[v] # None /\ ~RunHeld(v)
  /\ \E m \in RunMoves :
        /\ m[1] = run[v].status
        /\ run' = [run EXCEPT ![v].status = m[3]]
  /\ UNCHANGED <<log, proj, txnVars>>

-----------------------------------------------------------------------------
(***************************************************************************)
(* Transactions.                                                           *)
(***************************************************************************)
\* What a transaction sees of the Events.
Own(c) == IF pend[c] = None THEN {} ELSE {pend[c]}

\* The recorded_seq of the next INSERT, whether or not the earlier ones are
\* committed.  Only its order matters, so a number burnt by a rollback is
\* taken again when no later one is in use.
InUse == log \cup UNION {Own(c) : c \in Clients}
NextRec == LastRec(InUse) + 1

\* The bounds.
Detours == {"TASK_PROGRESS_REPORTED", "TASK_WAITING", "TASK_REASSIGNED"}
Room(t) ==
  /\ Cardinality({e \in log : e.type = t}) < IF t \in Twice THEN 2 ELSE 1
  /\ t \in Detours =>
       Cardinality({e \in log : e.type \in Detours}) < MaxDetours
  /\ NextRec <= MaxRec

\* Every local of c is gone, its locks are released.
Finish(c) ==
  /\ pc' = [pc EXCEPT ![c] = "idle"]
  /\ cmd' = [cmd EXCEPT ![c] = None]
  /\ seen' = [seen EXCEPT ![c] = 0]
  /\ view' = [view EXCEPT ![c] = None]
  /\ pend' = [pend EXCEPT ![c] = None]
  /\ runNew' = [runNew EXCEPT ![c] = None]

\* session.rollback(): a refused command, a failed completion prerequisite, a
\* SEQUENCE_CONFLICT, an exception, a crash.
Rollback(c) ==
  /\ pc[c] # "idle"
  /\ Finish(c)
  /\ UNCHANGED <<log, proj, run>>

\* The commands of the bus.  arg is the assignee, the accepting account or
\* the verification id the Event carries.
TaskCommands ==
  {[type |-> t, arg |-> None, run |-> None] :
     t \in TaskTypes \ (Assignments \cup {"TASK_ACCEPTED",
                                          "TASK_VERIFICATION_STARTED"})}
  \cup {[type |-> t, arg |-> a, run |-> None] :
          t \in Assignments \cup {"TASK_ACCEPTED"}, a \in Accounts}
RunCommands ==
  {[type |-> t, arg |-> v, run |-> v] :
     t \in Verdicts \cup {"TASK_VERIFICATION_STARTED"}, v \in Runs}

\* Mutant of Permitted: an implemented Task may be completed unverified.
PermittedUnverified(k, st) ==
  CASE k.type \in Verdicts ->
         st.status = "VERIFYING" /\ st.active = k.run
    [] k.type = "TASK_ACCEPTED" ->
         Allowed(st.status, k.type) /\ st.assignee = k.arg
    [] k.type = "TASK_COMPLETED" -> st.status \in {"IMPLEMENTED", "VERIFIED"}
    [] OTHER -> Allowed(st.status, k.type)

\* What each handler requires of the state it has loaded, beyond next_status.
Permitted(k, st) ==
  CASE k.type \in Verdicts ->
         st.status = "VERIFYING" /\ st.active = k.run
    [] k.type = "TASK_ACCEPTED" ->
         Allowed(st.status, k.type) /\ st.assignee = k.arg
    [] k.type = "TASK_COMPLETED" ->
         Allowed(st.status, k.type) /\ st.verdict = "VERIFICATION_PASSED"
    [] OTHER -> Allowed(st.status, k.type)

\* _enter_task_verifying: the Task is not IMPLEMENTED, so only the run starts.
StartsRunOnly(k, st) ==
  k.type = "TASK_VERIFICATION_STARTED" /\ st.status # "IMPLEMENTED"

\* The handler decides on the state it has folded.  A BROKEN Task raises and a
\* command that is not permitted is refused: both can only roll back.
Decide(c, k, st) ==
  /\ st.status # "BROKEN"
  /\ StartsRunOnly(k, st) \/ Permitted(k, st)
  /\ view' = [view EXCEPT ![c] = st]
  /\ pc' = [pc EXCEPT ![c] = IF StartsRunOnly(k, st) THEN "done" ELSE "append"]
  /\ seen' = [seen EXCEPT ![c] = 0]

\* load_task, first statement: the task stream.  The statements for the
\* verification streams follow only when it mentions some.
LoadTask(c, k, st) ==
  IF \A e \in log : e.type # "TASK_VERIFICATION_STARTED"
  THEN Decide(c, k, st)
  ELSE /\ pc' = [pc EXCEPT ![c] = "runs"]
       /\ seen' = [seen EXCEPT ![c] = LastSeq(log)]
       /\ UNCHANGED view

\* A command on the Task alone goes straight to load_task.
BeginTask(c) ==
  LET st == Fold(TaskStream(log))
  IN  /\ pc[c] = "idle"
      /\ \E k \in TaskCommands :
            /\ Room(k.type)
            /\ cmd' = [cmd EXCEPT ![c] = k]
            /\ LoadTask(c, k, st)
      /\ UNCHANGED <<log, proj, run, pend, runNew>>

\* append_revision: the next revision of the run, which takes its result as
\* its status.
AppendRevision(row, verdict) ==
  [status |-> ResultOf[verdict], revision |-> row.revision + 1]

\* submit_verdict and start_verification first lock the row of their run,
\* check its status and move it.
BeginRun(c, k) ==
  /\ pc[c] = "idle"
  /\ Room(k.type)
  /\ run[k.run] # None /\ ~RunHeld(k.run)
  /\ IF k.type \in Verdicts THEN run[k.run].status = "RUNNING"
     ELSE run[k.run].status \in Startable
  /\ cmd' = [cmd EXCEPT ![c] = k]
  /\ runNew' = [runNew EXCEPT ![c] =
        IF k.type \in Verdicts
        THEN AppendRevision(run[k.run], k.type)
        ELSE [run[k.run] EXCEPT !.status = "RUNNING"]]
  /\ pc' = [pc EXCEPT ![c] = "load"]
  /\ UNCHANGED <<log, proj, run, seen, view, pend>>

\* ... and then load the Task.
LoadForRun(c) ==
  /\ pc[c] = "load"
  /\ LoadTask(c, cmd[c], Fold(TaskStream(log)))
  /\ UNCHANGED <<log, proj, run, cmd, pend, runNew>>

\* load_task, the verification streams, and the fold of both.
LoadRuns(c) ==
  /\ pc[c] = "runs"
  /\ Decide(c, cmd[c],
            Fold(Merged({e \in TaskStream(log) : e.seq <= seen[c]}, log)))
  /\ UNCHANGED <<log, proj, run, cmd, pend, runNew>>

\* The aggregate the command appends to is free: no open transaction holds
\* its advisory lock.
StreamFree(c, k) ==
  \A d \in Clients \ {c} :
    pend[d] # None =>
      IF k.type \in Verdicts THEN ~(pend[d].type \in Verdicts
                                    /\ pend[d].arg = k.run)
      ELSE pend[d].type \in Verdicts

\* Mutant of SeqExpected: append is called without expected_seq.
SeqUnchecked(k, st) == TRUE

\* The compare-and-swap of store.append.  A Task command expects the number
\* after the last Task Event it folded; a verdict re-reads its run's stream
\* under the row lock, so its number is always right.
SeqExpected(k, st) ==
  k.type \in Verdicts \/ st.seq = LastSeq(log)

NewEvent(c, k) ==
  [type |-> k.type, arg |-> k.arg, rec |-> NextRec,
   seq |-> IF k.type \in Verdicts
           THEN Cardinality(RunStream(log, k.run)) + 1
           ELSE LastSeq(log) + 1]

\* _transition / record_verification_result: lock the stream, compare, insert.
AppendEvent(c) ==
  /\ pc[c] = "append"
  /\ NextRec <= MaxRec
  /\ StreamFree(c, cmd[c])
  /\ SeqExpected(cmd[c], view[c])
  /\ LET e == NewEvent(c, cmd[c])
     IN  /\ pend' = [pend EXCEPT ![c] = e]
         /\ view' = [view EXCEPT ![c] = ApplyEvent(@, e)]
  /\ pc' = [pc EXCEPT ![c] =
              IF cmd[c].type \in Verdicts THEN "reload" ELSE "project"]
  /\ UNCHANGED <<log, proj, run, cmd, seen, runNew>>

\* record_verification_result loads the Task again after its append.
Reload(c) ==
  /\ pc[c] = "reload"
  /\ LET S == log \cup Own(c)
         st == Fold(Merged(TaskStream(S), S))
     IN  /\ st.status # "BROKEN"
         /\ view' = [view EXCEPT ![c] = st]
  /\ pc' = [pc EXCEPT ![c] = "project"]
  /\ UNCHANGED <<log, proj, run, cmd, seen, pend, runNew>>

\* Mutant of Commit: record_verification_result does not call write_state.
CommitVerdictUnprojected(c) ==
  /\ pc[c] \in {"project", "done"}
  /\ log' = log \cup Own(c)
  /\ proj' = IF pc[c] = "project" /\ cmd[c].type \notin Verdicts
             THEN view[c] ELSE proj
  /\ run' = IF runNew[c] = None THEN run
            ELSE [run EXCEPT ![cmd[c].run] = runNew[c]]
  /\ Finish(c)

\* write_state and session.commit().  The upsert waits for the row lock, which
\* is then held to the commit: rows are overwritten in commit order.
Commit(c) ==
  /\ pc[c] \in {"project", "done"}
  /\ log' = log \cup Own(c)
  /\ proj' = IF pc[c] = "project" THEN view[c] ELSE proj
  /\ run' = IF runNew[c] = None THEN run
            ELSE [run EXCEPT ![cmd[c].run] = runNew[c]]
  /\ Finish(c)

Next ==
  \/ \E v \in Runs : CreateRun(v) \/ MoveRun(v)
  \/ \E c \in Clients :
       \/ BeginTask(c)
       \/ \E k \in RunCommands : BeginRun(c, k)
       \/ LoadForRun(c)
       \/ LoadRuns(c)
       \/ AppendEvent(c)
       \/ Reload(c)
       \/ Commit(c)
       \/ Rollback(c)

Spec == Init /\ [][Next]_vars

-----------------------------------------------------------------------------
(***************************************************************************)
(* Properties.                                                             *)
(***************************************************************************)
TaskState == [status : Statuses \cup {"BROKEN"},
              assignee : Accounts \cup {None}, active : Runs \cup {None},
              verdict : Verdicts \cup {"PENDING", None}, seq : Nat]
RunStatuses == {"PLANNED", "RUNNING"} \cup {m[3] : m \in RunMoves}
                 \cup {ResultOf[t] : t \in Verdicts}
Event == [type : Types, arg : Accounts \cup Runs \cup {None},
          rec : Nat, seq : Nat]

ASSUME NoneAssumption ==
  /\ None \notin Runs /\ None \notin Event
  /\ None \notin [status : RunStatuses, revision : Nat]

\* The types of the streams, the rows and each transaction's locals; every
\* TaskState that write_state stores has a status of the table.
TypeOK ==
  /\ log \subseteq Event
  /\ proj \in TaskState
  /\ \A v \in Runs : run[v] = None \/ /\ run[v].status \in RunStatuses
                                      /\ run[v].revision \in Nat
  /\ \A c \in Clients :
       /\ pc[c] \in {"idle", "load", "runs", "append", "reload", "project",
                     "done"}
       /\ cmd[c] \in TaskCommands \cup RunCommands \cup {None}
       /\ view[c] = None \/ view[c] \in TaskState
       /\ pend[c] = None \/ pend[c] \in Event

\* The committed state of the Task, as the next load_task will see it.
Current == Fold(Merged(TaskStream(log), log))

Before(e, T) == {f \in log : f.type \in T /\ f.rec < e.rec}
IsLatest(f, S) == f \in S /\ \A g \in S : g.rec <= f.rec

\* A Task is only completed on a PASSED verdict about the implementation
\* submitted last, with no other verdict after it, however verdicts, rechecks
\* and resubmissions interleave.
CompletionVerified ==
  \A e \in log : e.type = "TASK_COMPLETED" =>
    \E p \in log :
      /\ p.type = "VERIFICATION_PASSED"
      /\ IsLatest(p, Before(e, Verdicts \cup {"IMPLEMENTATION_SUBMITTED",
                                              "TASK_VERIFICATION_STARTED"}))

\* Only the account a Task was last assigned to can have accepted it, even
\* when a reassignment commits between the acceptance's load and append.
AcceptedByAssignee ==
  \A e \in log : e.type = "TASK_ACCEPTED" =>
    \A d \in log : IsLatest(d, Before(e, Assignments)) => d.arg = e.arg

\* The verification row and the run's stream tell one story: there are as
\* many verdict Events as revisions and the last one is the row's result.
RunMatchesStream ==
  \A v \in Runs :
    IF run[v] = None THEN RunStream(log, v) = {}
    ELSE /\ Cardinality(RunStream(log, v)) = run[v].revision
         /\ run[v].status \in {ResultOf[t] : t \in Verdicts} =>
              \E e \in log : /\ IsLatest(e, RunStream(log, v))
                             /\ ResultOf[e.type] = run[v].status

\* A cancel request and a verdict that were both decided on the same VERIFYING
\* state: they append to different streams, so neither conflicts.
Crossed ==
  \E e, f \in log :
    /\ e.type = "TASK_CANCEL_REQUESTED" /\ f.type \in Verdicts
    /\ \E s \in log : /\ s.type = "TASK_VERIFICATION_STARTED"
                      /\ s.arg = f.arg /\ s.rec < f.rec /\ s.rec < e.rec
                      /\ s.seq + 1 = e.seq

\* Apart from that one race, the committed Events obey the transition table
\* and, when no transaction is open, tasks_projection is the fold of the log:
\* a rebuild would change nothing; and a VERIFYING Task has its run still
\* running, or cancelled: it has taken every verdict that was given.
ProjectionFaithful ==
  LET now == Current
  IN  ~Crossed =>
        /\ now.status # "BROKEN"
        /\ now.status = "VERIFYING" => run[now.active].status \in {"RUNNING", "CANCELLED"}
        /\ (\A c \in Clients : pc[c] = "idle") => proj = now

\* "An Event that violates the transition table can only come from outside
\* the command handlers": the log written by the handlers always folds.
EventsFollowTable == Current.status # "BROKEN"
=============================================================================
