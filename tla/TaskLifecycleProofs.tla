------------------------ MODULE TaskLifecycleProofs -------------------------
(***************************************************************************)
(* Proofs about a Task and its verification runs, for any number of        *)
(* concurrent transactions, any accounts, any verification runs and any    *)
(* number of Events.                                                       *)
(*                                                                         *)
(* LifeInv is the inductive invariant.  At its heart is what an open       *)
(* transaction knows: as long as no verdict has crossed a cancel request   *)
(* (Quiet), a transaction that may still commit has decided on the fold of *)
(* all committed Events, or its commit will be such a crossing.            *)
(***************************************************************************)
EXTENDS TaskLifecycle, FiniteSetTheorems, WellFoundedInduction, TLAPS

-----------------------------------------------------------------------------
(***************************************************************************)
(* Two facts that the library states only with an operator parameter: a    *)
(* set of numbers has a least element, and induction.                      *)
(***************************************************************************)
\* A set of natural numbers that is not empty has a least element.
LEMMA LeastNumber ==
  ASSUME NEW T \in SUBSET Nat, T # {}
  PROVE  \E n \in T : \A m \in T : n <= m
<1> DEFINE U == {0 .. k : k \in T}
<1>1. \A k \in T : 0 .. k \in FiniteSubsetsOf(Nat)
  BY FS_Interval DEF FiniteSubsetsOf
<1>2. U \subseteq FiniteSubsetsOf(Nat) /\ U # {}
  BY <1>1
<1>3. IsWellFoundedOn(StrictSubsetOrdering(Nat), FiniteSubsetsOf(Nat))
  BY FS_StrictSubsetOrderingWellFounded
<1> HIDE DEF U
<1>4. PICK x \in U : \A y \in U : ~(<<y, x>> \in StrictSubsetOrdering(Nat))
  BY <1>2, <1>3, WFMin
<1>5. PICK n \in T : x = 0 .. n
  BY DEF U
<1>6. ASSUME NEW m \in T, ~(n <= m) PROVE FALSE
  <2>1. 0 .. m \in U /\ 0 .. m \subseteq 0 .. n /\ n \notin 0 .. m /\ n \in 0 .. n
    BY <1>6 DEF U
  <2>2. <<0 .. m, 0 .. n>> \in StrictSubsetOrdering(Nat)
    BY <2>1 DEF StrictSubsetOrdering
  <2> QED
    BY <1>4, <1>5, <2>1, <2>2
<1> QED
  BY <1>6

\* Induction, for what can be said of the members of a set.
LEMMA Induction ==
  ASSUME NEW S, 0 \in S, \A n \in Nat : n \in S => n + 1 \in S
  PROVE  Nat \subseteq S
<1>1. SUFFICES ASSUME NEW k \in Nat, k \notin S PROVE FALSE
  OBVIOUS
<1> DEFINE T == {n \in Nat : n \notin S}
<1>2. PICK n \in T : \A m \in T : n <= m
  <2>1. T \in SUBSET Nat /\ T # {}
    BY <1>1
  <2> HIDE DEF T
  <2> QED
    BY <2>1, LeastNumber
<1>3. n # 0 /\ n - 1 \in Nat /\ n - 1 \notin T
  BY <1>2
<1> QED
  BY <1>3
-----------------------------------------------------------------------------
(***************************************************************************)
(* What is said of a set S of Events, committed ones.                      *)
(***************************************************************************)
RunRow == [status : RunStatuses, revision : Nat]
Places == {"idle", "load", "runs", "append", "reload", "project", "done"}
Commands == TaskCommands \cup RunCommands
Row == 1 .. MaxRec

\* An Event carries what its type says, and has a number of its own.
Carries(e) ==
  /\ e \in Event /\ e.rec \in Row
  /\ e.type \in Assignments => e.arg \in Accounts
  /\ e.type \in Verdicts \cup {"TASK_VERIFICATION_STARTED"} => e.arg \in Runs
Recorded(S) == (\A e \in S : Carries(e)) /\ (\A e, f \in S : e.rec = f.rec => e = f)

\* Nobody has asked to cancel the Task.
Live(S) == \A e \in S : e.type # "TASK_CANCEL_REQUESTED"
Cancelling == {"CANCEL_REQUESTED", "CANCELLED"}
Crossing(S, s, e, f) ==
  /\ s \in S /\ e \in S /\ f \in S
  /\ e.type = "TASK_CANCEL_REQUESTED" /\ f.type \in Verdicts
  /\ s.type = "TASK_VERIFICATION_STARTED"
  /\ s.arg = f.arg /\ s.rec < f.rec /\ s.rec < e.rec /\ s.seq + 1 = e.seq
Quiet(S) == \A s, e, f \in S : ~Crossing(S, s, e, f)
Above(n, S) == \A e \in S : e.rec < n
Prefix(S, n) == {e \in TaskStream(S) : e.seq <= n}

\* The Task is VERIFYING, with run v.
Verifying(st, v) == st.status = "VERIFYING" /\ st.active = v
\* A verdict has come after the start of the verification that the Task
\* Events end with.
Late(S) ==
  /\ Fold(S).status \in {"VERIFIED", "RUNNING", "WAITING"}
  /\ \E s, f \in S : /\ s.type = "TASK_VERIFICATION_STARTED" /\ s.seq = LastSeq(S)
                     /\ f.type \in Verdicts /\ f.arg = s.arg /\ s.rec < f.rec
\* A cancel request has come after a start of v: one more verdict, recorded
\* after rec, crosses it.
CanCross(S, v, rec) ==
  \E s, e \in S : /\ s.type = "TASK_VERIFICATION_STARTED" /\ s.arg = v
                  /\ e.type = "TASK_CANCEL_REQUESTED" /\ s.seq + 1 = e.seq
                  /\ s.rec < e.rec /\ s.rec < rec
Started(S, v) == \E s \in S : s.type = "TASK_VERIFICATION_STARTED" /\ s.arg = v

\* The committed Task: Events, projection and runs.
TaskGood(S, pj, rn) ==
  LET now == Fold(S) IN
  /\ Quiet(S) =>
       /\ now.status # "BROKEN" /\ now.seq = LastSeq(S) /\ pj = now
       /\ now.status = "VERIFYING" =>
            /\ now.active \in Runs /\ rn[now.active] # None
            /\ rn[now.active].status \in {"RUNNING", "CANCELLED"}
            /\ \E s \in S : /\ s.type = "TASK_VERIFICATION_STARTED"
                            /\ s.arg = now.active /\ s.seq = LastSeq(S)
       /\ now.status = "VERIFIED" =>
            \E p \in S : /\ p.type = "VERIFICATION_PASSED"
                         /\ \A g \in S : g.type \in Verdicts \cup {"IMPLEMENTATION_SUBMITTED",
                                                                 "TASK_VERIFICATION_STARTED"}
                                           => g.rec <= p.rec
       /\ \A d \in S : /\ d.type \in Assignments
                       /\ \A g \in S : g.type \in Assignments => g.rec <= d.rec
                       => d.arg = now.assignee
       /\ (\E e \in S : e.type = "TASK_COMPLETED") => now.status = "COMPLETED"
  /\ ~Live(S) => \A e \in S : e.type # "TASK_COMPLETED"

\* A transaction on the Task: where it is, its command, what it has seen, its
\* view and its Event.
TaskTxnGood(S, p, k, vw, pd) ==
  /\ p = "append" =>
       /\ vw.seq <= LastSeq(S)
       /\ vw.seq = LastSeq(S) =>
            /\ Quiet(S) => \/ vw = Fold(S) /\ Permitted(k, vw)
                           \/ k.type = "TASK_CANCEL_REQUESTED" /\ Live(S) /\ Late(S)
            /\ ~Live(S) => k.type = "TASK_CANCELLED"
  /\ p = "project" =>
       /\ Quiet(S) =>
            \/ /\ Permitted(k, Fold(S)) /\ vw = ApplyEvent(Fold(S), pd) /\ Above(pd.rec, S)
            \/ k.type = "TASK_CANCEL_REQUESTED" /\ Live(S) /\ Late(S)
       /\ ~Live(S) => k.type = "TASK_CANCELLED"
VerdictTxnGood(S, p, k, sn, vw, pd) ==
  Quiet(S) =>
    /\ p = "runs" =>
         LET st == Fold(Merged(Prefix(S, sn), S)) IN
         Verifying(st, k.run) => \/ Live(S) /\ st = Fold(S)
                                 \/ CanCross(S, k.run, MaxRec + 1)
    /\ p = "append" => \/ Live(S) /\ Verifying(Fold(S), k.run)
                       \/ CanCross(S, k.run, MaxRec + 1)
    /\ p \in {"reload", "project"} =>
         \/ /\ Live(S) /\ Verifying(Fold(S), k.run) /\ Above(pd.rec, S)
            /\ p = "project" => vw = ApplyEvent(Fold(S), pd)
         \/ CanCross(S, k.run, pd.rec)
TxnGood(S, p, k, sn, vw, pd) ==
  /\ p # "idle" /\ k.type \notin Verdicts => TaskTxnGood(S, p, k, vw, pd)
  /\ p # "idle" /\ k.type \in Verdicts => VerdictTxnGood(S, p, k, sn, vw, pd)

\* The Events, the ones of open transactions included, the locks and the rows.
EventsGood ==
  /\ Recorded(log) /\ IsFiniteSet(log)
  /\ \A e \in TaskStream(log) : e.seq <= LastSeq(log)
  /\ \A e \in log : e.type \in Verdicts => Started(log, e.arg)
PendGood(S, p, k, pd) ==
  /\ pd = None <=> p \notin {"reload", "project"}
  /\ pd # None =>
       /\ Carries(pd) /\ pd.type = k.type /\ pd.arg = k.arg
       /\ \A e \in S : e.rec # pd.rec
       /\ pd.type \in TaskTypes => pd.seq = LastSeq(S) + 1 /\ Above(pd.rec, TaskStream(S))
       /\ pd.type \in Verdicts => Above(pd.rec, RunStream(S, k.run))
  /\ k.type \in Verdicts /\ p \in {"append", "reload", "project"} => Started(S, k.run)
  /\ p = "reload" => k.type \in Verdicts
\* A transaction on a run has locked its row and moves it.
RowGood(rn, k, nw) ==
  /\ k \in TaskCommands => nw = None
  /\ k \in RunCommands =>
       /\ rn[k.run] # None
       /\ IF k.type \in Verdicts
          THEN rn[k.run].status = "RUNNING" /\ nw = AppendRevision(rn[k.run], k.type)
          ELSE rn[k.run].status \in Startable /\ nw = [rn[k.run] EXCEPT !.status = "RUNNING"]
LocalGood(S, rn, p, k, sn, vw, pd, nw) ==
  /\ p \in Places /\ sn \in Nat /\ vw \in TaskState \cup {None}
  /\ nw \in RunRow \cup {None}
  /\ p = "idle" => k = None /\ pd = None /\ nw = None
  /\ p # "idle" =>
       /\ k \in Commands /\ PendGood(S, p, k, pd)
       /\ p = "load" => k \in RunCommands
       /\ p = "runs" => sn <= LastSeq(S)
       /\ p \in {"append", "project"} => vw \in TaskState
       /\ p = "done" => k.type = "TASK_VERIFICATION_STARTED"
       /\ RowGood(rn, k, nw)
RunGood(S, row, v) ==
  IF row = None THEN RunStream(S, v) = {}
  ELSE /\ Cardinality(RunStream(S, v)) = row.revision
       /\ row.status \in {ResultOf[t] : t \in Verdicts} =>
            \E e \in RunStream(S, v) : /\ \A g \in RunStream(S, v) : g.rec <= e.rec
                                       /\ ResultOf[e.type] = row.status
Exclusive(cs, ks, ps) ==
  /\ \A c, d \in Clients : (/\ cs[c] # "idle" /\ ks[c].run \in Runs
                            /\ cs[d] # "idle" /\ ks[d].run = ks[c].run) => c = d
  /\ \A c, d \in Clients : ps[c] # None /\ ps[d] # None /\ c # d =>
       /\ ps[c].rec # ps[d].rec
       /\ ps[c].type \in Verdicts \/ ps[d].type \in Verdicts

LifeInv ==
  /\ EventsGood /\ proj \in TaskState
  /\ run \in [Runs -> RunRow \cup {None}] /\ \A v \in Runs : RunGood(log, run[v], v)
  /\ DOMAIN pc = Clients /\ DOMAIN cmd = Clients /\ DOMAIN seen = Clients
  /\ DOMAIN view = Clients /\ DOMAIN pend = Clients /\ DOMAIN runNew = Clients
  /\ \A c \in Clients : /\ LocalGood(log, run, pc[c], cmd[c], seen[c], view[c], pend[c], runNew[c])
                        /\ TxnGood(log, pc[c], cmd[c], seen[c], view[c], pend[c])
  /\ Exclusive(pc, cmd, pend)
  /\ TaskGood(log, proj, run)
  /\ CompletionVerified /\ AcceptedByAssignee
-----------------------------------------------------------------------------
(***************************************************************************)
(* The transition table.                                                   *)
(***************************************************************************)
InTable(s, t, u) ==
  \/ s = "OPEN" /\ t = "TASK_DELEGATED" /\ u = "DELEGATED"
  \/ s \in {"DELEGATED", "ACCEPTED", "RUNNING", "WAITING"} /\ t = "TASK_REASSIGNED" /\ u = "DELEGATED"
  \/ s = "DELEGATED" /\ t = "TASK_ACCEPTED" /\ u = "ACCEPTED"
  \/ s \in {"ACCEPTED", "WAITING"} /\ t = "TASK_STARTED" /\ u = "RUNNING"
  \/ s \in {"RUNNING", "DELEGATED", "ACCEPTED", "IMPLEMENTED"} /\ t = "TASK_WAITING" /\ u = "WAITING"
  \/ s = "RUNNING" /\ t = "TASK_PROGRESS_REPORTED" /\ u = "RUNNING"
  \/ s = "RUNNING" /\ t = "IMPLEMENTATION_SUBMITTED" /\ u = "IMPLEMENTED"
  \/ s = "IMPLEMENTED" /\ t = "TASK_VERIFICATION_STARTED" /\ u = "VERIFYING"
  \/ s = "VERIFYING" /\ t = "VERIFICATION_PASSED" /\ u = "VERIFIED"
  \/ s = "VERIFYING" /\ t = "VERIFICATION_FAILED" /\ u = "RUNNING"
  \/ s = "VERIFYING" /\ t = "VERIFICATION_BLOCKED" /\ u = "WAITING"
  \/ s = "VERIFIED" /\ t = "TASK_COMPLETED" /\ u = "COMPLETED"
  \/ s \in {"OPEN", "DELEGATED", "ACCEPTED", "CANCEL_REQUESTED"} /\ t = "TASK_CANCELLED" /\ u = "CANCELLED"
  \/ s \in {"RUNNING", "WAITING", "IMPLEMENTED", "VERIFYING"} /\ t = "TASK_CANCEL_REQUESTED"
     /\ u = "CANCEL_REQUESTED"

\* A move of the table is one of its lines.
LEMMA TableLines ==
  \A x : x \in Transitions <=> \E s, t, u : x = <<s, t, u>> /\ InTable(s, t, u)
BY DEF Transitions, From, InTable

\* What is allowed leads to where its line says.
LEMMA AllowedMove ==
  ASSUME NEW s, NEW t, Allowed(s, t)
  PROVE  InTable(s, t, NextStatus(s, t)) /\ NextStatus(s, t) \in Statuses
<1> DEFINE x == CHOOSE y \in Transitions : y[1] = s /\ y[2] = t
<1>1. x \in Transitions /\ x[1] = s /\ x[2] = t
  BY DEF Allowed
<1>2. NextStatus(s, t) = x[3]
  BY DEF NextStatus
<1> HIDE DEF x
<1>3. InTable(s, t, x[3])
  BY <1>1, TableLines
<1>4. x[3] \in Statuses
  BY <1>1 DEF Statuses
<1> QED
  BY <1>2, <1>3, <1>4

\* A line of the table is allowed.
LEMMA LineAllowed ==
  ASSUME NEW s, NEW t, NEW u, InTable(s, t, u)
  PROVE  Allowed(s, t) /\ s \in Statuses /\ u \in Statuses /\ t \in Types
<1>1. <<s, t, u>> \in Transitions
  BY TableLines
<1> QED
  BY <1>1 DEF Allowed, Statuses, Types

\* The types of Events.
LEMMA TypesAre ==
  /\ Types = {"TASK_DELEGATED", "TASK_REASSIGNED", "TASK_ACCEPTED", "TASK_STARTED", "TASK_WAITING",
              "TASK_PROGRESS_REPORTED", "IMPLEMENTATION_SUBMITTED", "TASK_VERIFICATION_STARTED",
              "VERIFICATION_PASSED", "VERIFICATION_FAILED", "VERIFICATION_BLOCKED",
              "TASK_COMPLETED", "TASK_CANCELLED", "TASK_CANCEL_REQUESTED"}
  /\ Verdicts \subseteq Types /\ TaskTypes = Types \ Verdicts /\ Assignments \subseteq TaskTypes
  /\ {"TASK_ACCEPTED", "TASK_VERIFICATION_STARTED", "TASK_COMPLETED", "TASK_CANCELLED",
      "TASK_CANCEL_REQUESTED", "IMPLEMENTATION_SUBMITTED"} \subseteq TaskTypes
  /\ "OPEN" \in Statuses
<1> DEFINE All == {"TASK_DELEGATED", "TASK_REASSIGNED", "TASK_ACCEPTED", "TASK_STARTED", "TASK_WAITING",
              "TASK_PROGRESS_REPORTED", "IMPLEMENTATION_SUBMITTED", "TASK_VERIFICATION_STARTED",
              "VERIFICATION_PASSED", "VERIFICATION_FAILED", "VERIFICATION_BLOCKED",
              "TASK_COMPLETED", "TASK_CANCELLED", "TASK_CANCEL_REQUESTED"}
<1>1. Types \subseteq All
  BY TableLines DEF Types, InTable
<1>2. \A t \in All : \E s, u : InTable(s, t, u)
  <2>1. \A t \in All : \E s \in {"OPEN", "RUNNING", "DELEGATED", "ACCEPTED", "IMPLEMENTED", "VERIFYING", "VERIFIED"},
          u \in {"DELEGATED", "ACCEPTED", "RUNNING", "WAITING", "IMPLEMENTED", "VERIFYING", "VERIFIED",
                 "COMPLETED", "CANCELLED", "CANCEL_REQUESTED"} : InTable(s, t, u)
    BY DEF InTable
  <2> QED
    BY <2>1
<1>3. All \subseteq Types
  BY <1>2, LineAllowed
<1>4. InTable("OPEN", "TASK_DELEGATED", "DELEGATED")
  BY DEF InTable
<1>5. "OPEN" \in Statuses
  BY <1>4, LineAllowed
<1>6. Types = All
  BY <1>1, <1>3
<1> QED
  BY <1>5, <1>6 DEF TaskTypes, Verdicts, Assignments

\* What a command carries.
LEMMA CommandsAre ==
  ASSUME NEW k \in Commands
  PROVE  /\ k.type \in Types /\ (k \in RunCommands <=> k.type \in Verdicts \cup {"TASK_VERIFICATION_STARTED"})
         /\ (k \in RunCommands => k.run \in Runs /\ k.arg = k.run)
         /\ (k \in TaskCommands <=> k.type \in TaskTypes \ {"TASK_VERIFICATION_STARTED"})
         /\ (k \in TaskCommands => k.run = None /\ k.arg \in Accounts \cup {None})
         /\ (k.type \in Assignments \cup {"TASK_ACCEPTED"} => k.arg \in Accounts)
<1>1. ASSUME k \in RunCommands
      PROVE  /\ k.type \in Verdicts \cup {"TASK_VERIFICATION_STARTED"} /\ k.type \in Types
             /\ k.run \in Runs /\ k.arg = k.run /\ k.type \notin Assignments \cup {"TASK_ACCEPTED"}
  <2>1. PICK t \in Verdicts \cup {"TASK_VERIFICATION_STARTED"}, v \in Runs :
          k = [type |-> t, arg |-> v, run |-> v]
    BY <1>1 DEF RunCommands
  <2>2. k.type = t /\ k.arg = v /\ k.run = v
    BY <2>1
  <2>3. t \in Types /\ t \notin Assignments \cup {"TASK_ACCEPTED"}
    BY TypesAre DEF Assignments, Verdicts
  <2> QED
    BY <2>2, <2>3
<1>2. ASSUME k \in TaskCommands
      PROVE  /\ k.type \in TaskTypes \ {"TASK_VERIFICATION_STARTED"} /\ k.type \in Types
             /\ k.run = None /\ k.arg \in Accounts \cup {None}
             /\ (k.type \in Assignments \cup {"TASK_ACCEPTED"} => k.arg \in Accounts)
  <2>1. \/ \E t \in TaskTypes \ (Assignments \cup {"TASK_ACCEPTED", "TASK_VERIFICATION_STARTED"}) :
             k = [type |-> t, arg |-> None, run |-> None]
        \/ \E t \in Assignments \cup {"TASK_ACCEPTED"}, a \in Accounts :
             k = [type |-> t, arg |-> a, run |-> None]
    BY <1>2 DEF TaskCommands
  <2>2. "TASK_VERIFICATION_STARTED" \notin Assignments \cup {"TASK_ACCEPTED"}
        /\ Assignments \cup {"TASK_ACCEPTED"} \subseteq TaskTypes /\ TaskTypes \subseteq Types
    BY TypesAre DEF Assignments
  <2> QED
    BY <2>1, <2>2
<1>3. (Verdicts \cup {"TASK_VERIFICATION_STARTED"}) \cap (TaskTypes \ {"TASK_VERIFICATION_STARTED"}) = {}
  BY TypesAre
<1> QED
  BY <1>1, <1>2, <1>3 DEF Commands
-----------------------------------------------------------------------------
(***************************************************************************)
(* The fold: the function that the LET of Fold defines exists; an Event    *)
(* with a number above the others is applied last; and what every fold     *)
(* says.                                                                   *)
(***************************************************************************)
\* The greatest number of a set of Events.
LEMMA LastRecIs ==
  ASSUME NEW S, Recorded(S)
  PROVE  /\ LastRec(S) \in 0 .. MaxRec /\ LastRec(S) \in Nat
         /\ \A e \in S : e.rec <= LastRec(S) /\ e.rec \in Nat /\ e.rec # 0
         /\ (LastRec(S) = 0 \/ \E e \in S : e.rec = LastRec(S))
<1> DEFINE R == {0} \cup {e.rec : e \in S}
           T == {k \in Nat : \A j \in R : j <= k}
<1>1. MaxRec \in Nat /\ R \subseteq 0 .. MaxRec /\ \A e \in S : e.rec \in 1 .. MaxRec
  BY BoundAssumption DEF Recorded, Carries, Row
<1>2. PICK k \in T : \A m \in T : k <= m
  <2>1. T \in SUBSET Nat /\ MaxRec \in T
    BY <1>1
  <2> HIDE DEF T
  <2> QED
    BY <2>1, LeastNumber
<1>3. k \in R
  <2> SUFFICES ASSUME k \notin R PROVE FALSE
    OBVIOUS
  <2>1. k # 0 /\ k \in Nat /\ k - 1 \in Nat
    BY <1>2
  <2>2. \A j \in R : j \in Nat /\ j <= k /\ j # k
    BY <1>1, <1>2
  <2>3. \A j \in R : j <= k - 1
    <3> TAKE j \in R
    <3>1. j \in Nat /\ j <= k /\ j # k
      BY <2>2
    <3> HIDE DEF R
    <3> QED
      BY <2>1, <3>1
  <2>4. k - 1 \in T
    BY <2>1, <2>3
  <2> QED
    BY <1>2, <2>1, <2>4
<1>4. k \in R /\ \A j \in R : k >= j
  BY <1>1, <1>2, <1>3
<1>5. Max(R) \in R /\ \A j \in R : Max(R) >= j
  BY <1>4 DEF Max
<1>6. LastRec(S) = Max(R)
  BY DEF LastRec
<1>7. LastRec(S) \in R /\ \A j \in R : LastRec(S) >= j
  BY <1>5, <1>6
<1>8. LastRec(S) \in 0 .. MaxRec /\ LastRec(S) \in Nat
  BY <1>1, <1>7
<1>9. \A e \in S : e.rec \in R /\ e.rec \in Nat /\ e.rec # 0
  BY <1>1
<1>10. LastRec(S) = 0 \/ \E e \in S : e.rec = LastRec(S)
  BY <1>7
<1> HIDE DEF T, R
<1>11. \A e \in S : e.rec <= LastRec(S)
  BY <1>7, <1>8, <1>9
<1> QED
  BY <1>8, <1>9, <1>10, <1>11

\* The Event with a number.
At(S, n) == CHOOSE e \in S : e.rec = n
LEMMA AtIs ==
  ASSUME NEW S, Recorded(S), NEW e \in S
  PROVE  At(S, e.rec) = e
<1>1. At(S, e.rec) \in S /\ At(S, e.rec).rec = e.rec
  BY DEF At
<1> QED
  BY <1>1 DEF Recorded

\* The function, as far as m.
Folds(S, f, m) == f = [n \in 0 .. m |-> IF n = 0 THEN NewTask
                                        ELSE IF \A e \in S : e.rec # n THEN f[n - 1]
                                        ELSE ApplyEvent(f[n - 1], At(S, n))]
LEMMA FoldExists ==
  ASSUME NEW S, NEW m \in Nat
  PROVE  \E f : Folds(S, f, m)
<1> DEFINE Step(st, n) == IF \A e \in S : e.rec # n THEN st ELSE ApplyEvent(st, At(S, n))
           M == {k \in Nat : \E f : Folds(S, f, k)}
<1>1. \A f, k : Folds(S, f, k) <=> f = [n \in 0 .. k |-> IF n = 0 THEN NewTask ELSE Step(f[n - 1], n)]
  BY DEF Folds
<1> HIDE DEF Step
<1>2. 0 \in M
  <2> DEFINE z == [n \in 0 .. 0 |-> NewTask]
  <2>1. \A n \in 0 .. 0 : n = 0
    OBVIOUS
  <2>2. z = [n \in 0 .. 0 |-> IF n = 0 THEN NewTask ELSE Step(z[n - 1], n)]
    BY <2>1
  <2>3. Folds(S, z, 0)
    BY <1>1, <2>2
  <2> HIDE DEF z
  <2> QED
    BY <2>3
<1>3. ASSUME NEW k \in Nat, k \in M PROVE k + 1 \in M
  <2>1. PICK g : g = [n \in 0 .. k |-> IF n = 0 THEN NewTask ELSE Step(g[n - 1], n)]
    BY <1>1, <1>3
  <2> DEFINE h == [n \in 0 .. k + 1 |-> IF n <= k THEN g[n] ELSE Step(g[k], k + 1)]
  <2>2. ASSUME NEW n \in 0 .. k + 1
        PROVE  h[n] = IF n = 0 THEN NewTask ELSE Step(h[n - 1], n)
    <3>1. CASE n = 0
      BY <2>1, <3>1
    <3>2. CASE n # 0 /\ n <= k
      <4>1. n - 1 \in 0 .. k /\ h[n - 1] = g[n - 1] /\ h[n] = g[n]
        BY <3>2
      <4>2. g[n] = Step(g[n - 1], n)
        BY <2>1, <3>2
      <4> QED
        BY <3>2, <4>1, <4>2
    <3>3. CASE n = k + 1
      BY <3>3
    <3> QED
      BY <3>1, <3>2, <3>3
  <2>3. h = [n \in 0 .. k + 1 |-> IF n = 0 THEN NewTask ELSE Step(h[n - 1], n)]
    BY <2>2
  <2>4. Folds(S, h, k + 1)
    BY <1>1, <2>3
  <2> HIDE DEF h
  <2> QED
    BY <2>4
<1>4. m \in M
  <2> HIDE DEF M
  <2> QED
    BY <1>2, <1>3, Induction
<1> QED
  BY <1>4

\* Fold is such a function at the last number.
LEMMA FoldIs ==
  ASSUME NEW S, Recorded(S)
  PROVE  \E f : Folds(S, f, LastRec(S)) /\ Fold(S) = f[LastRec(S)]
<1>1. PICK g : Folds(S, g, LastRec(S))
  BY FoldExists, LastRecIs
<1>2. Fold(S) = (CHOOSE f : Folds(S, f, LastRec(S)))[LastRec(S)]
  BY DEF Fold, Folds, At
<1>3. Folds(S, CHOOSE f : Folds(S, f, LastRec(S)), LastRec(S))
  BY <1>1
<1> QED
  BY <1>2, <1>3

\* A step of such a function.
LEMMA FoldsStep ==
  ASSUME NEW S, NEW f, NEW m \in Nat, Folds(S, f, m)
  PROVE  /\ f[0] = NewTask
         /\ \A n \in 1 .. m : f[n] = IF \A e \in S : e.rec # n THEN f[n - 1]
                                     ELSE ApplyEvent(f[n - 1], At(S, n))
BY DEF Folds

\* Two such functions agree as far as the Events do.
LEMMA FoldsAgree ==
  ASSUME NEW S, NEW T, Recorded(S), Recorded(T), NEW f, NEW g, NEW m \in Nat, NEW l \in Nat,
         Folds(S, f, m), Folds(T, g, l), NEW k \in Nat, k <= m, k <= l,
         \A e \in S : e.rec <= k => e \in T, \A e \in T : e.rec <= k => e \in S
  PROVE  f[k] = g[k]
<1> DEFINE M == {n \in Nat : n <= k => f[n] = g[n]}
<1>1. 0 \in M
  BY FoldsStep
<1>2. ASSUME NEW n \in Nat, n \in M PROVE n + 1 \in M
  <2> SUFFICES ASSUME n + 1 <= k PROVE f[n + 1] = g[n + 1]
    OBVIOUS
  <2>1. n + 1 \in 1 .. m /\ n + 1 \in 1 .. l /\ (n + 1) - 1 = n /\ f[n] = g[n]
    BY <1>2
  <2>2. CASE \A e \in S : e.rec # n + 1
    <3>1. \A e \in T : e.rec # n + 1
      BY <2>2
    <3> QED
      BY <2>1, <2>2, <3>1, FoldsStep
  <2>3. CASE \E e \in S : e.rec = n + 1
    <3>1. PICK e \in S : e.rec = n + 1
      BY <2>3
    <3>2. e \in T
      BY <3>1
    <3>3. At(S, n + 1) = e /\ At(T, n + 1) = e
      BY <3>1, <3>2, AtIs
    <3>4. f[n + 1] = ApplyEvent(f[n], e)
      BY <2>1, <3>1, <3>3, FoldsStep
    <3>5. g[n + 1] = ApplyEvent(g[n], e)
      BY <2>1, <3>1, <3>2, <3>3, FoldsStep
    <3> QED
      BY <2>1, <3>4, <3>5
  <2> QED
    BY <2>2, <2>3
<1>3. k \in M
  <2> HIDE DEF M
  <2> QED
    BY <1>1, <1>2, Induction
<1> QED
  BY <1>3

\* Nothing happens after the last Event.
LEMMA FoldsOn ==
  ASSUME NEW S, Recorded(S), NEW f, NEW m \in Nat, Folds(S, f, m), LastRec(S) <= m
  PROVE  f[m] = Fold(S)
<1> DEFINE L == LastRec(S)
           M == {n \in Nat : L + n <= m => f[L + n] = Fold(S)}
<1>1. L \in Nat /\ \A e \in S : e.rec <= L /\ e.rec \in Nat
  BY LastRecIs
<1> HIDE DEF L
<1>2. 0 \in M
  <2>1. PICK g : Folds(S, g, L) /\ Fold(S) = g[L]
    BY FoldIs DEF L
  <2>2. f[L] = g[L]
    BY <1>1, <2>1, FoldsAgree DEF L
  <2> QED
    BY <1>1, <2>1, <2>2
<1>3. ASSUME NEW n \in Nat, n \in M PROVE n + 1 \in M
  <2> SUFFICES ASSUME L + (n + 1) <= m PROVE f[L + (n + 1)] = Fold(S)
    OBVIOUS
  <2>1. f[L + n] = Fold(S) /\ L + (n + 1) \in 1 .. m /\ (L + (n + 1)) - 1 = L + n
    BY <1>1, <1>3
  <2>2. \A e \in S : e.rec # L + (n + 1)
    BY <1>1
  <2> QED
    BY <2>1, <2>2, FoldsStep
<1>4. m - L \in Nat /\ L + (m - L) = m
  BY <1>1 DEF L
<1>5. m - L \in M
  <2> HIDE DEF M
  <2> QED
    BY <1>2, <1>3, <1>4, Induction
<1> QED
  BY <1>4, <1>5

\* An Event recorded above the others is applied last.
LEMMA FoldNext ==
  ASSUME NEW S, NEW e, Recorded(S \cup {e}), Above(e.rec, S)
  PROVE  Fold(S \cup {e}) = ApplyEvent(Fold(S), e)
<1> DEFINE T == S \cup {e}
           n == e.rec
<1>1. Recorded(S) /\ n \in Nat /\ n # 0 /\ n - 1 \in Nat /\ LastRec(S) \in Nat /\ LastRec(T) \in Nat
  <2>1. Recorded(S)
    BY DEF Recorded
  <2> QED
    BY <2>1, LastRecIs
<1>2. LastRec(S) <= n - 1
  BY <1>1, LastRecIs DEF Above
<1>3. LastRec(T) = n
  <2>1. n <= LastRec(T)
    BY LastRecIs
  <2>2. \A g \in T : g.rec <= n
    <3> TAKE g \in T
    <3>1. CASE g = e
      BY <1>1, <3>1
    <3>2. CASE g \in S
      <4>1. g.rec < n /\ g.rec \in Nat
        BY <1>1, <3>2, LastRecIs DEF Above
      <4> QED
        BY <1>1, <4>1
    <3> QED
      BY <3>1, <3>2
  <2>3. LastRec(T) <= n
    BY <1>1, <2>2, LastRecIs
  <2> QED
    BY <1>1, <2>1, <2>3
<1>4. PICK f : Folds(T, f, n)
  BY <1>1, FoldExists
<1>5. PICK g : Folds(S, g, n - 1)
  BY <1>1, FoldExists
<1> HIDE DEF T, n
<1>6. Recorded(T) /\ e \in T /\ e.rec = n /\ \A d \in T : d # e => d \in S /\ d.rec < n
  BY DEF T, n, Above
<1>7. f[n] = Fold(T)
  BY <1>1, <1>3, <1>4, <1>6, FoldsOn
<1>8. g[n - 1] = Fold(S)
  BY <1>1, <1>2, <1>5, FoldsOn
<1>9. f[n - 1] = g[n - 1]
  <2>1. \A d \in T : d.rec <= n - 1 => d \in S
    BY <1>1, <1>6
  <2>2. \A d \in S : d.rec <= n - 1 => d \in T
    BY DEF T
  <2>3. n - 1 <= n /\ n - 1 <= n - 1
    BY <1>1
  <2> QED
    BY <1>1, <1>4, <1>5, <1>6, <2>1, <2>2, <2>3, FoldsAgree
<1>10. f[n] = ApplyEvent(f[n - 1], e)
  <2>1. At(T, n) = e /\ n \in 1 .. n
    BY <1>1, <1>6, AtIs
  <2> QED
    BY <1>1, <1>4, <1>6, <2>1, FoldsStep
<1> QED
  BY <1>7, <1>8, <1>9, <1>10 DEF T

\* One Event: the state keeps its shape, its number and its active run come
\* from Events, and a Task that is being cancelled goes nowhere else.
Ended(st) == st.status \in Cancelling \cup {"BROKEN"}
LEMMA ApplyKeeps ==
  ASSUME NEW st \in TaskState, NEW e, Carries(e)
  PROVE  /\ ApplyEvent(st, e) \in TaskState
         /\ ApplyEvent(st, e).seq = st.seq \/ (e.type \in TaskTypes /\ ApplyEvent(st, e).seq = e.seq)
         /\ \/ ApplyEvent(st, e).active = st.active
            \/ e.type = "TASK_VERIFICATION_STARTED" /\ ApplyEvent(st, e).active = e.arg
         /\ Ended(st) \/ e.type = "TASK_CANCEL_REQUESTED" => Ended(ApplyEvent(st, e))
<1>1. /\ e.type \in Types /\ e.arg \in Accounts \cup Runs \cup {None} /\ e.seq \in Nat
      /\ e.type \in Assignments => e.arg \in Accounts
      /\ e.type \in Verdicts \cup {"TASK_VERIFICATION_STARTED"} => e.arg \in Runs
  BY DEF Carries, Event
<1>2. /\ st.status \in Statuses \cup {"BROKEN"} /\ st.assignee \in Accounts \cup {None}
      /\ st.active \in Runs \cup {None} /\ st.verdict \in Verdicts \cup {"PENDING", None} /\ st.seq \in Nat
  BY DEF TaskState
<1>3. Allowed(st.status, e.type) => /\ NextStatus(st.status, e.type) \in Statuses
                                    /\ InTable(st.status, e.type, NextStatus(st.status, e.type))
  BY AllowedMove
<1>4. CASE st.status = "BROKEN"
  <2>1. ApplyEvent(st, e) = st
    BY <1>4 DEF ApplyEvent
  <2> QED
    BY <1>4, <2>1 DEF Ended
<1>5. CASE st.status # "BROKEN" /\ e.type \in Verdicts
  <2>1. ApplyEvent(st, e) = ApplyVerdict(st, e) /\ e.type # "TASK_CANCEL_REQUESTED"
    BY <1>5 DEF ApplyEvent, Verdicts
  <2>2. CASE e.arg = st.active /\ Allowed(st.status, e.type)
    <3> DEFINE new == [st EXCEPT !.status = NextStatus(@, e.type), !.verdict = e.type]
    <3>1. ApplyEvent(st, e) = new
      BY <2>1, <2>2 DEF ApplyVerdict
    <3>2. new \in TaskState /\ new.seq = st.seq /\ new.active = st.active
      BY <1>2, <1>3, <1>5, <2>2 DEF TaskState
    <3>3. ~Ended(st)
      BY <1>3, <1>5, <2>2 DEF InTable, Verdicts, Ended, Cancelling
    <3> HIDE DEF new
    <3> QED
      BY <2>1, <3>1, <3>2, <3>3
  <2>3. CASE ~(e.arg = st.active /\ Allowed(st.status, e.type))
    <3>1. ApplyEvent(st, e) = st
      BY <2>1, <2>3 DEF ApplyVerdict
    <3> QED
      BY <2>1, <3>1
  <2> QED
    BY <2>2, <2>3
<1>6. CASE st.status # "BROKEN" /\ e.type \notin Verdicts
  <2>1. ApplyEvent(st, e) = ApplyTaskEvent(st, e) /\ e.type \in TaskTypes
    BY <1>1, <1>6 DEF ApplyEvent, TaskTypes
  <2>2. CASE ~Allowed(st.status, e.type)
    <3> DEFINE new == [st EXCEPT !.status = "BROKEN"]
    <3>1. ApplyEvent(st, e) = new
      BY <2>1, <2>2 DEF ApplyTaskEvent
    <3>2. new \in TaskState /\ new.seq = st.seq /\ new.active = st.active /\ new.status = "BROKEN"
      BY <1>2 DEF TaskState
    <3> HIDE DEF new
    <3> QED
      BY <3>1, <3>2 DEF Ended
  <2>3. CASE Allowed(st.status, e.type)
    <3> DEFINE new == [status |-> NextStatus(st.status, e.type), seq |-> e.seq,
                       assignee |-> IF e.type \in Assignments THEN e.arg ELSE st.assignee,
                       active |-> IF e.type = "TASK_VERIFICATION_STARTED" THEN e.arg ELSE st.active,
                       verdict |-> CASE e.type = "IMPLEMENTATION_SUBMITTED" -> None
                                     [] e.type = "TASK_VERIFICATION_STARTED" -> "PENDING"
                                     [] OTHER -> st.verdict]
    <3>1. ApplyEvent(st, e) = new
      BY <2>1, <2>3 DEF ApplyTaskEvent
    <3>2. /\ new.assignee \in Accounts \cup {None} /\ new.active \in Runs \cup {None}
          /\ new.verdict \in Verdicts \cup {"PENDING", None} /\ new.status \in Statuses
      BY <1>1, <1>2, <1>3, <2>3
    <3>3. new \in TaskState
      BY <1>1, <3>2 DEF TaskState
    <3>4. /\ new.seq = e.seq
          /\ new.active = st.active \/ (e.type = "TASK_VERIFICATION_STARTED" /\ new.active = e.arg)
      OBVIOUS
    <3>5. Ended(st) \/ e.type = "TASK_CANCEL_REQUESTED" => Ended(new)
      BY <1>3, <2>3 DEF InTable, Ended, Cancelling
    <3> HIDE DEF new
    <3> QED
      BY <2>1, <3>1, <3>3, <3>4, <3>5
  <2> QED
    BY <2>2, <2>3
<1> QED
  BY <1>4, <1>5, <1>6

\* What every fold says.
LEMMA FoldSays ==
  ASSUME NEW S, Recorded(S)
  PROVE  /\ Fold(S) \in TaskState
         /\ Fold(S).seq = 1 \/ \E e \in TaskStream(S) : Fold(S).seq = e.seq
         /\ Fold(S).active = None \/ Started(S, Fold(S).active)
         /\ ~Live(S) => Ended(Fold(S))
<1> DEFINE Says(st, n) == /\ st \in TaskState
                          /\ st.seq = 1 \/ \E e \in TaskStream(S) : st.seq = e.seq
                          /\ st.active = None \/ Started(S, st.active)
                          /\ (\E e \in S : e.type = "TASK_CANCEL_REQUESTED" /\ e.rec <= n) => Ended(st)
           L == LastRec(S)
<1>1. L \in Nat /\ \A e \in S : e.rec <= L /\ e.rec \in Nat /\ e.rec # 0
  BY LastRecIs
<1>2. PICK f : Folds(S, f, L) /\ Fold(S) = f[L]
  BY FoldIs
<1> HIDE DEF L
<1> DEFINE M == {n \in Nat : n <= L => Says(f[n], n)}
<1>3. 0 \in M
  <2>1. f[0] = NewTask
    BY <1>1, <1>2, FoldsStep
  <2>2. NewTask \in TaskState /\ NewTask.seq = 1 /\ NewTask.active = None
    BY TypesAre DEF NewTask, TaskState
  <2>3. ~\E e \in S : e.type = "TASK_CANCEL_REQUESTED" /\ e.rec <= 0
    BY <1>1
  <2> QED
    BY <2>1, <2>2, <2>3
<1>4. ASSUME NEW n \in Nat, n \in M PROVE n + 1 \in M
  <2> SUFFICES ASSUME n + 1 <= L PROVE Says(f[n + 1], n + 1)
    OBVIOUS
  <2>1. Says(f[n], n) /\ n + 1 \in 1 .. L /\ (n + 1) - 1 = n
    BY <1>1, <1>4
  <2>2. CASE \A e \in S : e.rec # n + 1
    <3>1. f[n + 1] = f[n]
      BY <1>1, <1>2, <2>1, <2>2, FoldsStep
    <3>2. \A e \in S : e.rec <= n + 1 => e.rec <= n
      BY <1>1, <2>2
    <3> QED
      BY <2>1, <3>1, <3>2
  <2>3. CASE \E e \in S : e.rec = n + 1
    <3>1. PICK e \in S : e.rec = n + 1
      BY <2>3
    <3>2. At(S, n + 1) = e
      BY <3>1, AtIs
    <3>3. f[n + 1] = ApplyEvent(f[n], e)
      BY <1>1, <1>2, <2>1, <3>1, <3>2, FoldsStep
    <3>4. Carries(e)
      BY DEF Recorded
    <3> DEFINE old == f[n]
               new == ApplyEvent(old, e)
    <3>5. old \in TaskState /\ Says(old, n)
      BY <2>1
    <3>6. /\ new \in TaskState /\ (new.seq = old.seq \/ (e.type \in TaskTypes /\ new.seq = e.seq))
          /\ (new.active = old.active \/ (e.type = "TASK_VERIFICATION_STARTED" /\ new.active = e.arg))
          /\ (Ended(old) \/ e.type = "TASK_CANCEL_REQUESTED" => Ended(new))
      BY <3>4, <3>5, ApplyKeeps
    <3>9. f[n + 1] = new
      BY <3>3
    <3> HIDE DEF old, new
    <3>7. new.seq = 1 \/ \E g \in TaskStream(S) : new.seq = g.seq
      BY <3>5, <3>6 DEF TaskStream
    <3>8. new.active = None \/ Started(S, new.active)
      BY <3>5, <3>6 DEF Started
    <3>10. (\E g \in S : g.type = "TASK_CANCEL_REQUESTED" /\ g.rec <= n + 1) => Ended(new)
      <4>1. \A g \in S : g.rec <= n + 1 => g.rec <= n \/ g = e
        <5> TAKE g \in S
        <5>1. g.rec = n + 1 => g = e
          BY <3>1 DEF Recorded
        <5> QED
          BY <1>1, <5>1
      <4> QED
        BY <3>5, <3>6, <4>1
    <3> QED
      BY <3>6, <3>7, <3>8, <3>9, <3>10
  <2> QED
    BY <2>2, <2>3
<1>5. L \in M
  <2> HIDE DEF M
  <2> QED
    BY <1>1, <1>3, <1>4, Induction
<1>6. Says(f[L], L)
  BY <1>5, <1>1
<1> QED
  BY <1>1, <1>2, <1>6 DEF Live
-----------------------------------------------------------------------------
(***************************************************************************)
(* The Events of a Task as sets.                                           *)
(***************************************************************************)
\* The Task's own Events and the verdicts of its verifications are all.
LEMMA MergedIsAll ==
  ASSUME NEW S, Recorded(S), \A e \in S : e.type \in Verdicts => Started(S, e.arg)
  PROVE  /\ Merged(TaskStream(S), S) = S
         /\ (\A e \in S : e.type # "TASK_VERIFICATION_STARTED") => TaskStream(S) = S
<1>1. \A e \in S : e.type \in TaskTypes \/ e.type \in Verdicts
  BY TypesAre DEF Recorded, Carries, Event
<1>2. Merged(TaskStream(S), S) \subseteq S
  BY DEF Merged, TaskStream, RunStream
<1>3. ASSUME NEW e \in S PROVE e \in Merged(TaskStream(S), S)
  <2>1. CASE e.type \in TaskTypes
    BY <2>1 DEF Merged, TaskStream
  <2>2. CASE e.type \in Verdicts
    <3>1. PICK s \in S : s.type = "TASK_VERIFICATION_STARTED" /\ s.arg = e.arg
      BY <2>2 DEF Started
    <3>2. s \in TaskStream(S) /\ e \in RunStream(S, s.arg)
      BY <2>2, <3>1, TypesAre DEF TaskStream, RunStream
    <3> QED
      BY <3>1, <3>2 DEF Merged
  <2> QED
    BY <1>1, <2>1, <2>2
<1>4. (\A e \in S : e.type # "TASK_VERIFICATION_STARTED") => TaskStream(S) = S
  BY <1>1 DEF TaskStream, Started
<1> QED
  BY <1>2, <1>3, <1>4

\* The sequence number counts the Task's Events, the revision the verdicts.
LEMMA Counts ==
  ASSUME NEW S, IsFiniteSet(S)
  PROVE  /\ LastSeq(S) \in Nat /\ LastSeq(S) >= 1
         /\ \A v : IsFiniteSet(RunStream(S, v)) /\ Cardinality(RunStream(S, v)) \in Nat
<1>1. IsFiniteSet(TaskStream(S)) /\ Cardinality(TaskStream(S)) \in Nat
  <2>1. TaskStream(S) \subseteq S
    BY DEF TaskStream
  <2> QED
    BY <2>1, FS_Subset, FS_CardinalityType
<1>2. ASSUME NEW v PROVE IsFiniteSet(RunStream(S, v)) /\ Cardinality(RunStream(S, v)) \in Nat
  <2>1. RunStream(S, v) \subseteq S
    BY DEF RunStream
  <2> QED
    BY <2>1, FS_Subset, FS_CardinalityType
<1> QED
  BY <1>1, <1>2 DEF LastSeq

\* One Event more.
LEMMA CountMore ==
  ASSUME NEW S, IsFiniteSet(S), NEW e, e \notin S
  PROVE  /\ IsFiniteSet(S \cup {e})
         /\ e.type \in TaskTypes => /\ TaskStream(S \cup {e}) = TaskStream(S) \cup {e}
                                    /\ LastSeq(S \cup {e}) = LastSeq(S) + 1
                                    /\ \A v : RunStream(S \cup {e}, v) = RunStream(S, v)
         /\ e.type \in Verdicts => /\ TaskStream(S \cup {e}) = TaskStream(S)
                                   /\ LastSeq(S \cup {e}) = LastSeq(S)
                                   /\ RunStream(S \cup {e}, e.arg) = RunStream(S, e.arg) \cup {e}
                                   /\ Cardinality(RunStream(S \cup {e}, e.arg))
                                        = Cardinality(RunStream(S, e.arg)) + 1
                                   /\ \A v : v # e.arg => RunStream(S \cup {e}, v) = RunStream(S, v)
<1>1. IsFiniteSet(S \cup {e})
  BY FS_AddElement
<1>2. \A t \in TaskTypes : t \notin Verdicts
  BY TypesAre
<1>3. ASSUME e.type \in TaskTypes
      PROVE  /\ TaskStream(S \cup {e}) = TaskStream(S) \cup {e}
             /\ LastSeq(S \cup {e}) = LastSeq(S) + 1
             /\ \A v : RunStream(S \cup {e}, v) = RunStream(S, v)
  <2>1. TaskStream(S \cup {e}) = TaskStream(S) \cup {e} /\ e \notin TaskStream(S) /\ TaskStream(S) \subseteq S
    BY <1>3 DEF TaskStream
  <2>2. IsFiniteSet(TaskStream(S)) /\ Cardinality(TaskStream(S)) \in Nat
    BY <2>1, FS_Subset, FS_CardinalityType
  <2>3. Cardinality(TaskStream(S) \cup {e}) = Cardinality(TaskStream(S)) + 1
    BY <2>1, <2>2, FS_AddElement
  <2>4. \A v : RunStream(S \cup {e}, v) = RunStream(S, v)
    BY <1>2, <1>3 DEF RunStream
  <2> QED
    BY <2>1, <2>2, <2>3, <2>4 DEF LastSeq
<1>4. ASSUME e.type \in Verdicts
      PROVE  /\ TaskStream(S \cup {e}) = TaskStream(S)
             /\ RunStream(S \cup {e}, e.arg) = RunStream(S, e.arg) \cup {e}
             /\ Cardinality(RunStream(S \cup {e}, e.arg)) = Cardinality(RunStream(S, e.arg)) + 1
             /\ \A v : v # e.arg => RunStream(S \cup {e}, v) = RunStream(S, v)
  <2>1. /\ RunStream(S \cup {e}, e.arg) = RunStream(S, e.arg) \cup {e}
        /\ e \notin RunStream(S, e.arg) /\ RunStream(S, e.arg) \subseteq S
    BY <1>4 DEF RunStream
  <2>2. IsFiniteSet(RunStream(S, e.arg))
    BY <2>1, FS_Subset
  <2>3. Cardinality(RunStream(S, e.arg) \cup {e}) = Cardinality(RunStream(S, e.arg)) + 1
    BY <2>1, <2>2, FS_AddElement
  <2>4. TaskStream(S \cup {e}) = TaskStream(S)
    BY <1>2, <1>4 DEF TaskStream
  <2>5. \A v : v # e.arg => RunStream(S \cup {e}, v) = RunStream(S, v)
    BY DEF RunStream
  <2> QED
    BY <2>1, <2>3, <2>4, <2>5
<1> QED
  BY <1>1, <1>3, <1>4 DEF LastSeq

-----------------------------------------------------------------------------
(***************************************************************************)
(* Steps that record nothing: one transaction moves.                       *)
(***************************************************************************)
Moves(c, f, g, x) == DOMAIN g = Clients /\ g[c] = x /\ \A d \in Clients \ {c} : g[d] = f[d]
LEMMA MovesTo ==
  ASSUME NEW c \in Clients, NEW f, DOMAIN f = Clients, NEW x
  PROVE  Moves(c, f, [f EXCEPT ![c] = x], x) /\ Moves(c, f, f, f[c])
BY DEF Moves

\* What the locals of transactions become.
MovesAll(c, p, k, sn, vw, pd, nw) ==
  /\ Moves(c, pc, pc', p) /\ Moves(c, cmd, cmd', k) /\ Moves(c, seen, seen', sn)
  /\ Moves(c, view, view', vw) /\ Moves(c, pend, pend', pd) /\ Moves(c, runNew, runNew', nw)

\* Locks: one holder of a run's row, one Event for the Task's stream.
MayHold(c, p, k, pd) ==
  /\ p # "idle" /\ k.run \in Runs =>
       \A d \in Clients \ {c} : ~(pc[d] # "idle" /\ cmd[d].run = k.run)
  /\ pd # None => \A d \in Clients \ {c} : pend[d] # None =>
       pend[d].rec # pd.rec /\ (pend[d].type \in Verdicts \/ pd.type \in Verdicts)
LEMMA StaysExclusive ==
  ASSUME NEW c \in Clients, NEW p, NEW k, NEW sn, NEW vw, NEW pd, NEW nw,
         MovesAll(c, p, k, sn, vw, pd, nw), MayHold(c, p, k, pd), Exclusive(pc, cmd, pend)
  PROVE  Exclusive(pc', cmd', pend')
<1>1. /\ pc'[c] = p /\ cmd'[c] = k /\ pend'[c] = pd
      /\ \A d \in Clients \ {c} : pc'[d] = pc[d] /\ cmd'[d] = cmd[d] /\ pend'[d] = pend[d]
  BY DEF MovesAll, Moves
<1>2. ASSUME NEW a \in Clients, NEW d \in Clients, pc'[a] # "idle", cmd'[a].run \in Runs,
             pc'[d] # "idle", cmd'[d].run = cmd'[a].run
      PROVE  a = d
  <2>1. CASE a # c /\ d # c
    BY <1>1, <1>2, <2>1 DEF Exclusive
  <2>2. CASE a = c /\ d # c
    BY <1>1, <1>2, <2>2 DEF MayHold
  <2>3. CASE a # c /\ d = c
    BY <1>1, <1>2, <2>3 DEF MayHold
  <2> QED
    BY <2>1, <2>2, <2>3
<1>3. ASSUME NEW a \in Clients, NEW d \in Clients, pend'[a] # None, pend'[d] # None, a # d
      PROVE  /\ pend'[a].rec # pend'[d].rec
             /\ pend'[a].type \in Verdicts \/ pend'[d].type \in Verdicts
  <2>1. CASE a # c /\ d # c
    BY <1>1, <1>3, <2>1 DEF Exclusive
  <2>2. CASE a = c /\ d # c
    BY <1>1, <1>3, <2>2 DEF MayHold
  <2>3. CASE a # c /\ d = c
    BY <1>1, <1>3, <2>3 DEF MayHold
  <2> QED
    BY <1>3, <2>1, <2>2, <2>3
<1>4. \A a, d \in Clients : (/\ pc'[a] # "idle" /\ cmd'[a].run \in Runs
                             /\ pc'[d] # "idle" /\ cmd'[d].run = cmd'[a].run) => a = d
  BY <1>2
<1>5. \A a, d \in Clients : pend'[a] # None /\ pend'[d] # None /\ a # d =>
        /\ pend'[a].rec # pend'[d].rec
        /\ pend'[a].type \in Verdicts \/ pend'[d].type \in Verdicts
  BY <1>3
<1> QED
  BY <1>4, <1>5, Zenon DEF Exclusive

\* A transaction keeps what it holds.
LEMMA StillHolds ==
  ASSUME Exclusive(pc, cmd, pend), NEW c \in Clients, NEW p, NEW k, NEW pd, pc[c] # "idle",
         k = cmd[c], pd = pend[c] \/ pd = None
  PROVE  MayHold(c, p, k, pd)
BY DEF Exclusive, MayHold

\* A step that changes no committed state.
LEMMA OneMoves ==
  ASSUME LifeInv, NEW c \in Clients, UNCHANGED <<log, proj, run>>,
         NEW p, NEW k, NEW sn, NEW vw, NEW pd, NEW nw, MovesAll(c, p, k, sn, vw, pd, nw),
         LocalGood(log, run, p, k, sn, vw, pd, nw), TxnGood(log, p, k, sn, vw, pd),
         MayHold(c, p, k, pd)
  PROVE  LifeInv'
<1>1. Exclusive(pc', cmd', pend')
  <2>1. Exclusive(pc, cmd, pend)
    BY DEF LifeInv
  <2> QED
    BY <2>1, StaysExclusive
<1>2. log' = log /\ proj' = proj /\ run' = run
  OBVIOUS
<1>3. ASSUME NEW d \in Clients
      PROVE  /\ LocalGood(log, run, pc'[d], cmd'[d], seen'[d], view'[d], pend'[d], runNew'[d])
             /\ TxnGood(log, pc'[d], cmd'[d], seen'[d], view'[d], pend'[d])
  <2>1. CASE d = c
    BY <2>1 DEF MovesAll, Moves
  <2>2. CASE d # c
    <3>1. /\ pc'[d] = pc[d] /\ cmd'[d] = cmd[d] /\ seen'[d] = seen[d] /\ view'[d] = view[d]
          /\ pend'[d] = pend[d] /\ runNew'[d] = runNew[d]
      BY <2>2 DEF MovesAll, Moves
    <3> QED
      BY <3>1 DEF LifeInv
  <2> QED
    BY <2>1, <2>2
<1>4. /\ DOMAIN pc' = Clients /\ DOMAIN cmd' = Clients /\ DOMAIN seen' = Clients
      /\ DOMAIN view' = Clients /\ DOMAIN pend' = Clients /\ DOMAIN runNew' = Clients
  BY DEF MovesAll, Moves
<1>5. EventsGood' /\ CompletionVerified' /\ AcceptedByAssignee'
  <2>1. EventsGood /\ CompletionVerified /\ AcceptedByAssignee
    BY DEF LifeInv
  <2> QED
    BY <1>2, <2>1 DEF EventsGood, CompletionVerified, AcceptedByAssignee, Before, IsLatest
<1>6. /\ proj \in TaskState /\ run \in [Runs -> RunRow \cup {None}]
      /\ \A v \in Runs : RunGood(log, run[v], v) /\ TaskGood(log, proj, run)
  BY DEF LifeInv
<1>7. TaskGood(log, proj, run)
  BY DEF LifeInv
<1> QED
  BY <1>1, <1>2, <1>3, <1>4, <1>5, <1>6, <1>7 DEF LifeInv

\* What the invariant says of one transaction.
LEMMA OfOne ==
  ASSUME LifeInv, NEW c \in Clients
  PROVE  /\ LocalGood(log, run, pc[c], cmd[c], seen[c], view[c], pend[c], runNew[c])
         /\ TxnGood(log, pc[c], cmd[c], seen[c], view[c], pend[c])
         /\ EventsGood /\ Exclusive(pc, cmd, pend) /\ TaskGood(log, proj, run)
         /\ run \in [Runs -> RunRow \cup {None}]
         /\ DOMAIN pc = Clients /\ DOMAIN cmd = Clients /\ DOMAIN seen = Clients
         /\ DOMAIN view = Clients /\ DOMAIN pend = Clients /\ DOMAIN runNew = Clients
BY DEF LifeInv

\* Every local is gone.
LEMMA FinishMoves ==
  ASSUME LifeInv, NEW c \in Clients, Finish(c)
  PROVE  MovesAll(c, "idle", None, 0, None, None, None)
<1>1. /\ DOMAIN pc = Clients /\ DOMAIN cmd = Clients /\ DOMAIN seen = Clients
      /\ DOMAIN view = Clients /\ DOMAIN pend = Clients /\ DOMAIN runNew = Clients
  BY OfOne
<1>2. /\ pc' = [pc EXCEPT ![c] = "idle"] /\ cmd' = [cmd EXCEPT ![c] = None]
      /\ seen' = [seen EXCEPT ![c] = 0] /\ view' = [view EXCEPT ![c] = None]
      /\ pend' = [pend EXCEPT ![c] = None] /\ runNew' = [runNew EXCEPT ![c] = None]
  BY DEF Finish
<1> QED
  BY <1>1, <1>2, MovesTo DEF MovesAll

\* An idle transaction holds nothing.
LEMMA IdleIsGood ==
  ASSUME NEW c \in Clients
  PROVE  /\ LocalGood(log, run, "idle", None, 0, None, None, None)
         /\ TxnGood(log, "idle", None, 0, None, None) /\ MayHold(c, "idle", None, None)
BY DEF LocalGood, TxnGood, MayHold, Places

\* A rollback.
LEMMA RollbackStep ==
  ASSUME LifeInv, NEW c \in Clients, Rollback(c)
  PROVE  LifeInv'
<1>1. MovesAll(c, "idle", None, 0, None, None, None) /\ UNCHANGED <<log, proj, run>>
  BY FinishMoves DEF Rollback
<1>2. /\ LocalGood(log, run, "idle", None, 0, None, None, None)
      /\ TxnGood(log, "idle", None, 0, None, None) /\ MayHold(c, "idle", None, None)
  BY IdleIsGood
<1> QED
  BY <1>1, <1>2, OneMoves

-----------------------------------------------------------------------------
(***************************************************************************)
(* What the handlers know of the state they have loaded.                   *)
(***************************************************************************)
\* A Task that is being cancelled allows nothing else.
LEMMA OnlyCancelled ==
  ASSUME NEW st, NEW k, k.type \notin Verdicts, Permitted(k, st), Ended(st), st.status # "BROKEN"
  PROVE  k.type = "TASK_CANCELLED"
<1>1. Allowed(st.status, k.type) /\ st.status \in Cancelling
  BY DEF Permitted, Ended
<1> QED
  BY <1>1, AllowedMove DEF InTable, Cancelling

\* The Events, whole: the state is their fold, and its number one of theirs.
LEMMA WholeFold ==
  ASSUME EventsGood
  PROVE  /\ Recorded(log) /\ IsFiniteSet(log) /\ LastSeq(log) \in Nat /\ LastSeq(log) >= 1
         /\ Merged(TaskStream(log), log) = log
         /\ (\A e \in log : e.type # "TASK_VERIFICATION_STARTED") => TaskStream(log) = log
         /\ Fold(log) \in TaskState /\ Fold(log).seq <= LastSeq(log)
<1>1. /\ Recorded(log) /\ IsFiniteSet(log) /\ (\A e \in log : e.type \in Verdicts => Started(log, e.arg))
      /\ \A e \in TaskStream(log) : e.seq <= LastSeq(log)
  BY DEF EventsGood
<1>2. LastSeq(log) \in Nat /\ LastSeq(log) >= 1
  BY <1>1, Counts
<1>3. Fold(log) \in TaskState /\ (Fold(log).seq = 1 \/ \E e \in TaskStream(log) : Fold(log).seq = e.seq)
  BY <1>1, FoldSays
<1> QED
  BY <1>1, <1>2, <1>3, MergedIsAll

\* A prefix of the Task's Events with all the verdicts of its verifications.
LEMMA PrefixFold ==
  ASSUME EventsGood, NEW n \in Nat
  PROVE  /\ Recorded(Merged(Prefix(log, n), log)) /\ Merged(Prefix(log, n), log) \subseteq log
         /\ Fold(Merged(Prefix(log, n), log)) \in TaskState
         /\ Fold(Merged(Prefix(log, n), log)).seq <= LastSeq(log)
         /\ n >= LastSeq(log) => Merged(Prefix(log, n), log) = log
         /\ Fold(Merged(Prefix(log, n), log)).seq = LastSeq(log) => Merged(Prefix(log, n), log) = log
<1> DEFINE M == Merged(Prefix(log, n), log)
           st == Fold(M)
<1>1. /\ Recorded(log) /\ IsFiniteSet(log) /\ LastSeq(log) \in Nat /\ LastSeq(log) >= 1
      /\ Merged(TaskStream(log), log) = log /\ \A e \in TaskStream(log) : e.seq <= LastSeq(log)
  BY WholeFold DEF EventsGood
<1>2. M \subseteq log
  BY DEF Merged, Prefix, TaskStream, RunStream
<1>3. Recorded(M)
  BY <1>1, <1>2 DEF Recorded
<1>4. st \in TaskState /\ (st.seq = 1 \/ \E e \in TaskStream(M) : st.seq = e.seq)
  BY <1>3, FoldSays
<1>5. TaskStream(M) \subseteq Prefix(log, n) /\ Prefix(log, n) \subseteq TaskStream(log)
  BY TypesAre DEF Merged, Prefix, TaskStream, RunStream
<1>6. \A e \in TaskStream(log) : e.seq \in Nat
  BY <1>1 DEF Recorded, Carries, Event, TaskStream
<1>7. n >= LastSeq(log) => M = log
  <2>1. n >= LastSeq(log) => Prefix(log, n) = TaskStream(log)
    BY <1>1, <1>6 DEF Prefix
  <2> QED
    BY <1>1, <2>1
<1>8. st.seq <= LastSeq(log)
  BY <1>1, <1>4, <1>5
<1>9. ASSUME st.seq = LastSeq(log) PROVE M = log
  <2>1. CASE LastSeq(log) = 1
    <3>1. IsFiniteSet(TaskStream(log))
      <4>1. TaskStream(log) \subseteq log
        BY DEF TaskStream
      <4> QED
        BY <1>1, <4>1, FS_Subset
    <3>2. Cardinality(TaskStream(log)) = 0
      <4>1. Cardinality(TaskStream(log)) \in Nat
        BY <3>1, FS_CardinalityType
      <4> QED
        BY <2>1, <4>1 DEF LastSeq
    <3>3. TaskStream(log) = {}
      BY <3>1, <3>2, FS_EmptySet
    <3>4. Prefix(log, n) = TaskStream(log)
      BY <3>3 DEF Prefix
    <3> QED
      BY <1>1, <3>4
  <2>2. CASE LastSeq(log) # 1
    <3>1. PICK e \in TaskStream(M) : st.seq = e.seq
      BY <1>4, <1>9, <2>2
    <3>2. e.seq <= n
      BY <1>5, <3>1 DEF Prefix
    <3> QED
      BY <1>1, <1>7, <1>9, <3>1, <3>2
  <2> QED
    BY <2>1, <2>2
<1> QED
  BY <1>2, <1>3, <1>4, <1>7, <1>8, <1>9

-----------------------------------------------------------------------------
(***************************************************************************)
(* The steps up to the append.                                             *)
(***************************************************************************)
\* A handler decides on a state it has folded: on all Events, or on fewer, and
\* then the compare-and-swap will refuse it.
LEMMA Decides ==
  ASSUME LifeInv, NEW c \in Clients, NEW k \in Commands, NEW nw \in RunRow \cup {None},
         NEW st \in TaskState, Decide(c, k, st), UNCHANGED <<log, proj, run>>,
         Moves(c, cmd, cmd', k), Moves(c, pend, pend', None), Moves(c, runNew, runNew', nw),
         RowGood(run, k, nw), MayHold(c, "append", k, None),
         st.seq <= LastSeq(log), st.seq = LastSeq(log) => st = Fold(log),
         k.type \in Verdicts /\ Verifying(st, k.run) => Started(log, k.run),
         Quiet(log) /\ k.type \in Verdicts /\ Verifying(st, k.run) =>
           (Live(log) /\ st = Fold(log)) \/ CanCross(log, k.run, MaxRec + 1)
  PROVE  LifeInv'
<1> DEFINE p == IF StartsRunOnly(k, st) THEN "done" ELSE "append"
<1>1. /\ EventsGood /\ DOMAIN pc = Clients /\ DOMAIN seen = Clients /\ DOMAIN view = Clients
      /\ Recorded(log)
  BY OfOne DEF EventsGood
<1>2. /\ view' = [view EXCEPT ![c] = st] /\ pc' = [pc EXCEPT ![c] = p] /\ seen' = [seen EXCEPT ![c] = 0]
      /\ st.status # "BROKEN" /\ (StartsRunOnly(k, st) \/ Permitted(k, st))
  BY DEF Decide
<1>3. Moves(c, view, view', st) /\ Moves(c, pc, pc', p) /\ Moves(c, seen, seen', 0)
  <2> HIDE DEF p
  <2> QED
    BY <1>1, <1>2, MovesTo
<1>4. MovesAll(c, p, k, 0, st, None, nw)
  BY <1>3 DEF MovesAll
<1>5. p = "done" \/ (p = "append" /\ Permitted(k, st))
  BY <1>2
<1>6. p = "done" => k.type = "TASK_VERIFICATION_STARTED"
  BY DEF StartsRunOnly
<1> HIDE DEF p
<1>7. k.type \in Verdicts /\ p = "append" => Verifying(st, k.run)
  BY <1>5 DEF Permitted, Verifying, Verdicts
<1>8. PendGood(log, p, k, None)
  BY <1>5, <1>6, <1>7 DEF PendGood, Verdicts
<1>9. LocalGood(log, run, p, k, 0, st, None, nw)
  BY <1>5, <1>6, <1>8 DEF LocalGood, Places
<1>10. ASSUME k.type \notin Verdicts PROVE TaskTxnGood(log, p, k, st, None)
  <2>1. p # "project"
    BY <1>5
  <2>2. ASSUME p = "append", st.seq = LastSeq(log)
        PROVE  /\ st = Fold(log) /\ Permitted(k, st)
               /\ ~Live(log) => k.type = "TASK_CANCELLED"
    <3>1. st = Fold(log) /\ Permitted(k, st)
      BY <1>5, <2>2
    <3>2. ~Live(log) => Ended(st)
      BY <1>1, <3>1, FoldSays
    <3> QED
      BY <1>2, <1>10, <3>1, <3>2, OnlyCancelled
  <2> QED
    BY <2>1, <2>2 DEF TaskTxnGood
<1>11. ASSUME k.type \in Verdicts PROVE VerdictTxnGood(log, p, k, 0, st, None)
  <2>1. p = "append" /\ Verifying(st, k.run)
    BY <1>5, <1>6, <1>7, <1>11 DEF Verdicts
  <2>2. Quiet(log) => (Live(log) /\ Verifying(Fold(log), k.run)) \/ CanCross(log, k.run, MaxRec + 1)
    BY <1>11, <2>1
  <2> QED
    BY <2>1, <2>2 DEF VerdictTxnGood
<1>12. TxnGood(log, p, k, 0, st, None)
  BY <1>10, <1>11 DEF TxnGood
<1>13. MayHold(c, p, k, None)
  BY DEF MayHold
<1> QED
  BY <1>4, <1>9, <1>12, <1>13, OneMoves

\* load_task, when the Task has no verification yet.
LEMMA DecidesAtOnce ==
  ASSUME LifeInv, NEW c \in Clients, NEW k \in Commands, NEW nw \in RunRow \cup {None},
         Decide(c, k, Fold(TaskStream(log))), UNCHANGED <<log, proj, run>>,
         \A e \in log : e.type # "TASK_VERIFICATION_STARTED",
         Moves(c, cmd, cmd', k), Moves(c, pend, pend', None), Moves(c, runNew, runNew', nw),
         RowGood(run, k, nw), MayHold(c, "append", k, None), k.type \in Verdicts => k.run \in Runs
  PROVE  LifeInv'
<1> DEFINE st == Fold(TaskStream(log))
<1>1. EventsGood
  BY OfOne
<1>2. TaskStream(log) = log /\ Fold(log) \in TaskState /\ Fold(log).seq <= LastSeq(log) /\ Recorded(log)
  BY <1>1, WholeFold
<1>3. st = Fold(log) /\ st \in TaskState /\ st.seq <= LastSeq(log)
  BY <1>2
<1>4. Fold(log).active = None \/ Started(log, Fold(log).active)
  BY <1>2, FoldSays
<1>5. Verifying(st, k.run) => st.active = k.run
  BY DEF Verifying
<1>6. Fold(log).active = None
  BY <1>4 DEF Started
<1> HIDE DEF st
<1>7. ASSUME k.type \in Verdicts PROVE ~Verifying(st, k.run)
  BY <1>3, <1>5, <1>6, <1>7, NoneAssumption
<1>8. ASSUME k.type \in Verdicts PROVE st.status = "BROKEN" \/ ~Permitted(k, st)
  BY <1>7, <1>8 DEF Permitted, Verifying, Verdicts
<1>9. Decide(c, k, st)
  BY DEF st
<1>10. k.type \notin Verdicts
  BY <1>8, <1>9 DEF Decide, StartsRunOnly, Verdicts
<1>11. k.type \notin Verdicts
  BY <1>10
<1> QED
  BY <1>3, <1>9, <1>11, Decides

\* The verification streams are still to be read.
LEMMA WillLoadRuns ==
  ASSUME LifeInv, NEW c \in Clients, NEW k \in Commands, NEW nw \in RunRow \cup {None},
         UNCHANGED <<log, proj, run>>,
         pc' = [pc EXCEPT ![c] = "runs"], seen' = [seen EXCEPT ![c] = LastSeq(log)], UNCHANGED view,
         Moves(c, cmd, cmd', k), Moves(c, pend, pend', None), Moves(c, runNew, runNew', nw),
         RowGood(run, k, nw), MayHold(c, "append", k, None)
  PROVE  LifeInv'
<1> DEFINE sn == LastSeq(log)
<1>1. /\ EventsGood /\ DOMAIN pc = Clients /\ DOMAIN seen = Clients /\ DOMAIN view = Clients
      /\ LocalGood(log, run, pc[c], cmd[c], seen[c], view[c], pend[c], runNew[c])
  BY OfOne
<1>2. Recorded(log) /\ sn \in Nat
  BY <1>1, WholeFold
<1> HIDE DEF sn
<1>3. Moves(c, pc, pc', "runs") /\ Moves(c, seen, seen', sn) /\ Moves(c, view, view', view[c])
  BY <1>1, MovesTo DEF sn
<1>4. MovesAll(c, "runs", k, sn, view[c], None, nw)
  BY <1>3 DEF MovesAll
<1>5. view[c] \in TaskState \cup {None}
  BY <1>1 DEF LocalGood
<1>6. PendGood(log, "runs", k, None)
  BY DEF PendGood
<1>7. sn <= LastSeq(log)
  BY <1>2 DEF sn
<1>8. LocalGood(log, run, "runs", k, sn, view[c], None, nw)
  BY <1>2, <1>5, <1>6, <1>7 DEF LocalGood, Places
<1>9. Merged(Prefix(log, sn), log) = log
  BY <1>1, <1>2, PrefixFold DEF sn
<1>10. Verifying(Fold(log), k.run) => Live(log)
  <2>1. ~Live(log) => Ended(Fold(log))
    BY <1>2, FoldSays
  <2> QED
    BY <2>1 DEF Ended, Cancelling, Verifying
<1>11. VerdictTxnGood(log, "runs", k, sn, view[c], None)
  BY <1>9, <1>10 DEF VerdictTxnGood
<1>12. TaskTxnGood(log, "runs", k, view[c], None)
  BY DEF TaskTxnGood
<1>13. TxnGood(log, "runs", k, sn, view[c], None) /\ MayHold(c, "runs", k, None)
  BY <1>11, <1>12 DEF TxnGood, MayHold
<1> QED
  BY <1>4, <1>8, <1>13, OneMoves

\* A command on the Task alone.
LEMMA BeginTaskStep ==
  ASSUME LifeInv, NEW c \in Clients, BeginTask(c)
  PROVE  LifeInv'
<1> DEFINE st == Fold(TaskStream(log))
<1>1. PICK k \in TaskCommands : cmd' = [cmd EXCEPT ![c] = k] /\ LoadTask(c, k, st)
  BY DEF BeginTask
<1>2. pc[c] = "idle" /\ UNCHANGED <<log, proj, run, pend, runNew>>
  BY DEF BeginTask
<1>3. /\ LocalGood(log, run, pc[c], cmd[c], seen[c], view[c], pend[c], runNew[c])
      /\ DOMAIN cmd = Clients /\ DOMAIN pend = Clients /\ DOMAIN runNew = Clients
  BY OfOne
<1>4. pend[c] = None /\ runNew[c] = None
  BY <1>2, <1>3 DEF LocalGood
<1>5. Moves(c, cmd, cmd', k) /\ Moves(c, pend, pend', None) /\ Moves(c, runNew, runNew', None)
  BY <1>1, <1>2, <1>3, <1>4, MovesTo
<1>6. k \in Commands /\ k.run = None /\ k \notin RunCommands /\ k.type \notin Verdicts
  <2>1. k \in Commands
    BY DEF Commands
  <2> QED
    BY <2>1, CommandsAre, TypesAre
<1>7. RowGood(run, k, None)
  BY <1>6 DEF RowGood
<1>8. MayHold(c, "append", k, None)
  BY <1>6, NoneAssumption DEF MayHold
<1>9. CASE \A e \in log : e.type # "TASK_VERIFICATION_STARTED"
  <2>1. Decide(c, k, Fold(TaskStream(log)))
    BY <1>1, <1>9 DEF LoadTask
  <2> QED
    BY <1>2, <1>5, <1>6, <1>7, <1>8, <1>9, <2>1, DecidesAtOnce
<1>10. CASE ~\A e \in log : e.type # "TASK_VERIFICATION_STARTED"
  <2>1. pc' = [pc EXCEPT ![c] = "runs"] /\ seen' = [seen EXCEPT ![c] = LastSeq(log)] /\ UNCHANGED view
    BY <1>1, <1>10 DEF LoadTask
  <2> QED
    BY <1>2, <1>5, <1>6, <1>7, <1>8, <2>1, WillLoadRuns
<1> QED
  BY <1>9, <1>10

\* The rows that a command on a run writes.
LEMMA RowMoves ==
  ASSUME NEW row \in RunRow
  PROVE  /\ [row EXCEPT !.status = "RUNNING"] \in RunRow
         /\ \A t \in Verdicts : AppendRevision(row, t) \in RunRow
<1>1. row.revision + 1 \in Nat /\ "RUNNING" \in RunStatuses
  BY DEF RunRow, RunStatuses
<1>2. \A t \in Verdicts : ResultOf[t] \in RunStatuses
  BY DEF RunStatuses
<1> QED
  BY <1>1, <1>2 DEF RunRow, AppendRevision

\* A command on a run, which locks the row.
LEMMA BeginRunStep ==
  ASSUME LifeInv, NEW c \in Clients, NEW k \in RunCommands, BeginRun(c, k)
  PROVE  LifeInv'
<1> DEFINE nw == IF k.type \in Verdicts THEN AppendRevision(run[k.run], k.type)
                 ELSE [run[k.run] EXCEPT !.status = "RUNNING"]
<1>1. /\ pc[c] = "idle" /\ run[k.run] # None /\ ~RunHeld(k.run) /\ cmd' = [cmd EXCEPT ![c] = k]
      /\ IF k.type \in Verdicts THEN run[k.run].status = "RUNNING" ELSE run[k.run].status \in Startable
      /\ runNew' = [runNew EXCEPT ![c] = nw] /\ pc' = [pc EXCEPT ![c] = "load"]
      /\ UNCHANGED <<log, proj, run, seen, view, pend>>
  BY DEF BeginRun
<1>2. /\ LocalGood(log, run, pc[c], cmd[c], seen[c], view[c], pend[c], runNew[c])
      /\ DOMAIN pc = Clients /\ DOMAIN cmd = Clients /\ DOMAIN seen = Clients
      /\ DOMAIN view = Clients /\ DOMAIN pend = Clients /\ DOMAIN runNew = Clients
      /\ run \in [Runs -> RunRow \cup {None}]
  BY OfOne
<1>3. pend[c] = None /\ seen[c] \in Nat /\ view[c] \in TaskState \cup {None}
  BY <1>1, <1>2 DEF LocalGood
<1>4. k \in Commands /\ k.run \in Runs /\ k \notin TaskCommands
  <2>1. k \in Commands
    BY DEF Commands
  <2> QED
    BY <2>1, CommandsAre, TypesAre DEF Verdicts
<1>5. run[k.run] \in RunRow
  BY <1>1, <1>2, <1>4
<1>6. nw \in RunRow \cup {None}
  BY <1>5, RowMoves
<1>7. RowGood(run, k, nw)
  BY <1>1, <1>4 DEF RowGood
<1> HIDE DEF nw
<1>8. MovesAll(c, "load", k, seen[c], view[c], None, nw)
  BY <1>1, <1>2, <1>3, MovesTo DEF MovesAll
<1>9. PendGood(log, "load", k, None)
  BY DEF PendGood
<1>10. LocalGood(log, run, "load", k, seen[c], view[c], None, nw)
  BY <1>3, <1>4, <1>6, <1>7, <1>9 DEF LocalGood, Places
<1>11. TxnGood(log, "load", k, seen[c], view[c], None)
  BY DEF TxnGood, TaskTxnGood, VerdictTxnGood
<1>12. MayHold(c, "load", k, None)
  BY <1>1 DEF MayHold, RunHeld
<1> QED
  BY <1>1, <1>8, <1>10, <1>11, <1>12, OneMoves

\* What a transaction at work carries.
LEMMA AtWork ==
  ASSUME LifeInv, NEW c \in Clients, pc[c] # "idle"
  PROVE  /\ cmd[c] \in Commands /\ runNew[c] \in RunRow \cup {None} /\ RowGood(run, cmd[c], runNew[c])
         /\ PendGood(log, pc[c], cmd[c], pend[c]) /\ seen[c] \in Nat
         /\ (pc[c] \notin {"reload", "project"} => pend[c] = None)
         /\ MayHold(c, "append", cmd[c], pend[c]) /\ MayHold(c, "append", cmd[c], None)
         /\ cmd[c].type \in Verdicts => cmd[c].run \in Runs
<1>1. /\ LocalGood(log, run, pc[c], cmd[c], seen[c], view[c], pend[c], runNew[c])
      /\ Exclusive(pc, cmd, pend)
  BY OfOne
<1>2. /\ cmd[c] \in Commands /\ runNew[c] \in RunRow \cup {None} /\ RowGood(run, cmd[c], runNew[c])
      /\ PendGood(log, pc[c], cmd[c], pend[c]) /\ seen[c] \in Nat
  BY <1>1 DEF LocalGood
<1>3. MayHold(c, "append", cmd[c], pend[c]) /\ MayHold(c, "append", cmd[c], None)
  BY <1>1, StillHolds
<1>4. cmd[c].type \in Verdicts => cmd[c].run \in Runs
  BY <1>2, CommandsAre
<1> QED
  BY <1>2, <1>3, <1>4 DEF PendGood

\* ... and loads the Task.
LEMMA LoadForRunStep ==
  ASSUME LifeInv, NEW c \in Clients, LoadForRun(c)
  PROVE  LifeInv'
<1> DEFINE k == cmd[c]
           nw == runNew[c]
<1>1. /\ pc[c] = "load" /\ LoadTask(c, k, Fold(TaskStream(log)))
      /\ UNCHANGED <<log, proj, run, cmd, pend, runNew>>
  BY DEF LoadForRun
<1>2. /\ k \in Commands /\ nw \in RunRow \cup {None} /\ RowGood(run, k, nw)
      /\ pend[c] = None /\ MayHold(c, "append", k, None) /\ (k.type \in Verdicts => k.run \in Runs)
  BY <1>1, AtWork
<1>3. DOMAIN cmd = Clients /\ DOMAIN pend = Clients /\ DOMAIN runNew = Clients
  BY OfOne
<1>4. Moves(c, cmd, cmd', k) /\ Moves(c, pend, pend', None) /\ Moves(c, runNew, runNew', nw)
  BY <1>1, <1>2, <1>3, MovesTo
<1> HIDE DEF k, nw
<1>5. CASE \A e \in log : e.type # "TASK_VERIFICATION_STARTED"
  <2>1. Decide(c, k, Fold(TaskStream(log)))
    BY <1>1, <1>5 DEF LoadTask
  <2> QED
    BY <1>1, <1>2, <1>4, <1>5, <2>1, DecidesAtOnce
<1>6. CASE ~\A e \in log : e.type # "TASK_VERIFICATION_STARTED"
  <2>1. pc' = [pc EXCEPT ![c] = "runs"] /\ seen' = [seen EXCEPT ![c] = LastSeq(log)] /\ UNCHANGED view
    BY <1>1, <1>6 DEF LoadTask
  <2> QED
    BY <1>1, <1>2, <1>4, <2>1, WillLoadRuns
<1> QED
  BY <1>5, <1>6

\* The second part of load_task.
LEMMA LoadRunsStep ==
  ASSUME LifeInv, NEW c \in Clients, LoadRuns(c)
  PROVE  LifeInv'
<1> DEFINE k == cmd[c]
           nw == runNew[c]
           sn == seen[c]
           st == Fold(Merged(Prefix(log, sn), log))
<1>1. pc[c] = "runs" /\ Decide(c, k, st) /\ UNCHANGED <<log, proj, run, cmd, pend, runNew>>
  BY DEF LoadRuns, Prefix
<1>2. /\ k \in Commands /\ nw \in RunRow \cup {None} /\ RowGood(run, k, nw) /\ sn \in Nat
      /\ pend[c] = None /\ MayHold(c, "append", k, None) /\ (k.type \in Verdicts => k.run \in Runs)
  BY <1>1, AtWork
<1>3. /\ DOMAIN cmd = Clients /\ DOMAIN pend = Clients /\ DOMAIN runNew = Clients /\ EventsGood
      /\ TxnGood(log, pc[c], k, sn, view[c], pend[c])
  BY OfOne
<1>4. Moves(c, cmd, cmd', k) /\ Moves(c, pend, pend', None) /\ Moves(c, runNew, runNew', nw)
  BY <1>1, <1>2, <1>3, MovesTo
<1> HIDE DEF k, nw, sn
<1>5. /\ st \in TaskState /\ st.seq <= LastSeq(log) /\ (st.seq = LastSeq(log) => st = Fold(log))
      /\ Recorded(Merged(Prefix(log, sn), log)) /\ Merged(Prefix(log, sn), log) \subseteq log
  BY <1>2, <1>3, PrefixFold
<1>6. ASSUME k.type \in Verdicts, Verifying(st, k.run)
      PROVE  /\ Started(log, k.run)
             /\ Quiet(log) => (Live(log) /\ st = Fold(log)) \/ CanCross(log, k.run, MaxRec + 1)
  <2>1. st.active = None \/ Started(Merged(Prefix(log, sn), log), st.active)
    BY <1>5, FoldSays
  <2>2. st.active = k.run /\ k.run # None
    BY <1>2, <1>6, NoneAssumption DEF Verifying
  <2>3. Started(log, k.run)
    BY <1>5, <2>1, <2>2 DEF Started
  <2>4. VerdictTxnGood(log, "runs", k, sn, view[c], pend[c])
    BY <1>1, <1>3, <1>6 DEF TxnGood
  <2> QED
    BY <1>6, <2>3, <2>4 DEF VerdictTxnGood
<1> HIDE DEF st
<1> QED
  BY <1>1, <1>2, <1>4, <1>5, <1>6, Decides

-----------------------------------------------------------------------------
(***************************************************************************)
(* The append and the second load.                                         *)
(***************************************************************************)
\* The next number is above those of all Events, of open transactions too.
LEMMA NextIsAbove ==
  ASSUME LifeInv
  PROVE  /\ NextRec \in Nat /\ NextRec >= 1 /\ Above(NextRec, log)
         /\ \A d \in Clients : pend[d] # None => Above(NextRec, {pend[d]}) /\ pend[d].rec # NextRec
<1>1. EventsGood /\ Exclusive(pc, cmd, pend)
  BY DEF LifeInv
<1>2. ASSUME NEW d \in Clients, pend[d] # None
      PROVE  Carries(pend[d]) /\ \A e \in log : e.rec # pend[d].rec
  <2>1. LocalGood(log, run, pc[d], cmd[d], seen[d], view[d], pend[d], runNew[d])
    BY OfOne
  <2>2. PendGood(log, pc[d], cmd[d], pend[d])
    BY <1>2, <2>1 DEF LocalGood
  <2> QED
    BY <1>2, <2>2 DEF PendGood
<1>3. \A e \in InUse : e \in log \/ \E d \in Clients : pend[d] # None /\ e = pend[d]
  BY DEF InUse, Own
<1>4. ASSUME NEW e \in InUse, NEW f \in InUse, e.rec = f.rec PROVE e = f
  <2>1. CASE e \in log /\ f \in log
    BY <1>1, <1>4, <2>1 DEF EventsGood, Recorded
  <2>2. CASE e \notin log \/ f \notin log
    <3>1. ASSUME NEW d \in Clients, NEW b \in Clients, pend[d] # None, pend[b] # None,
                 pend[d].rec = pend[b].rec
          PROVE  pend[d] = pend[b]
      BY <1>1, <3>1 DEF Exclusive
    <3> QED
      BY <1>2, <1>3, <1>4, <2>2, <3>1
  <2> QED
    BY <2>1, <2>2
<1>5. \A e \in InUse : Carries(e)
  BY <1>1, <1>2, <1>3 DEF EventsGood, Recorded
<1>6. Recorded(InUse)
  BY <1>4, <1>5 DEF Recorded
<1>7. LastRec(InUse) \in Nat /\ \A e \in InUse : e.rec <= LastRec(InUse) /\ e.rec \in Nat
  BY <1>6, LastRecIs
<1>8. log \subseteq InUse /\ \A d \in Clients : pend[d] # None => pend[d] \in InUse
  BY DEF InUse, Own
<1>9. NextRec \in Nat /\ NextRec >= 1 /\ \A e \in InUse : e.rec < NextRec /\ e.rec # NextRec
  BY <1>7 DEF NextRec
<1>10. \A d \in Clients : pend[d] # None => pend[d].rec < NextRec /\ pend[d].rec # NextRec
  BY <1>8, <1>9
<1> QED
  BY <1>8, <1>9, <1>10 DEF Above

\* The new Event.
LEMMA NewEventIs ==
  ASSUME LifeInv, NEW c \in Clients, NEW k \in Commands, NextRec <= MaxRec
  PROVE  /\ Carries(NewEvent(c, k)) /\ NewEvent(c, k).type = k.type /\ NewEvent(c, k).arg = k.arg
         /\ NewEvent(c, k).rec = NextRec
         /\ k.type \in TaskTypes => NewEvent(c, k).seq = LastSeq(log) + 1
<1> DEFINE n == IF k.type \in Verdicts THEN Cardinality(RunStream(log, k.run)) + 1 ELSE LastSeq(log) + 1
           e == [type |-> k.type, arg |-> k.arg, rec |-> NextRec, seq |-> n]
<1>1. NewEvent(c, k) = e
  BY DEF NewEvent
<1>2. NextRec \in Nat /\ NextRec >= 1
  BY NextIsAbove
<1>3. n \in Nat
  <2>1. IsFiniteSet(log)
    BY DEF LifeInv, EventsGood
  <2>2. LastSeq(log) \in Nat /\ Cardinality(RunStream(log, k.run)) \in Nat
    BY <2>1, Counts
  <2> QED
    BY <2>2
<1>4. /\ k.type \in Types /\ k.arg \in Accounts \cup Runs \cup {None}
      /\ k.type \in Assignments => k.arg \in Accounts
      /\ k.type \in Verdicts \cup {"TASK_VERIFICATION_STARTED"} => k.arg \in Runs
  <2>1. k \in TaskCommands \/ k \in RunCommands
    BY DEF Commands
  <2> QED
    BY <2>1, CommandsAre
<1>5. \A t \in TaskTypes : t \notin Verdicts
  BY TypesAre
<1>6. k.type \in TaskTypes => n = LastSeq(log) + 1
  BY <1>5
<1> HIDE DEF n
<1>7. e \in Event
  BY <1>2, <1>3, <1>4 DEF Event
<1>8. NextRec \in Row
  BY <1>2, BoundAssumption DEF Row
<1> QED
  BY <1>1, <1>4, <1>6, <1>7, <1>8 DEF Carries

\* Locking the stream, the compare-and-swap, the insert.
LEMMA AppendEventStep ==
  ASSUME LifeInv, NEW c \in Clients, AppendEvent(c)
  PROVE  LifeInv'
<1> DEFINE k == cmd[c]
           nw == runNew[c]
           e == NewEvent(c, k)
           vw == view[c]
           p == IF k.type \in Verdicts THEN "reload" ELSE "project"
<1>1. /\ pc[c] = "append" /\ NextRec <= MaxRec /\ StreamFree(c, k) /\ SeqExpected(k, vw)
      /\ pend' = [pend EXCEPT ![c] = e] /\ view' = [view EXCEPT ![c] = ApplyEvent(@, e)]
      /\ pc' = [pc EXCEPT ![c] = p] /\ UNCHANGED <<log, proj, run, cmd, seen, runNew>>
  BY DEF AppendEvent
<1>2. /\ k \in Commands /\ nw \in RunRow \cup {None} /\ RowGood(run, k, nw) /\ seen[c] \in Nat
      /\ PendGood(log, "append", k, None) /\ MayHold(c, "append", k, None)
  BY <1>1, AtWork
<1>3. /\ DOMAIN pc = Clients /\ DOMAIN cmd = Clients /\ DOMAIN seen = Clients
      /\ DOMAIN view = Clients /\ DOMAIN pend = Clients /\ DOMAIN runNew = Clients /\ EventsGood
      /\ LocalGood(log, run, pc[c], k, seen[c], vw, pend[c], nw)
      /\ TxnGood(log, pc[c], k, seen[c], vw, pend[c])
  BY OfOne
<1>4. view' = [view EXCEPT ![c] = ApplyEvent(vw, e)]
  BY <1>1, <1>3
<1>5. /\ Carries(e) /\ e.type = k.type /\ e.arg = k.arg /\ e.rec = NextRec
      /\ (k.type \in TaskTypes => e.seq = LastSeq(log) + 1)
  BY <1>1, <1>2, NewEventIs
<1>6. vw \in TaskState
  BY <1>1, <1>3 DEF LocalGood
<1>7. ApplyEvent(vw, e) \in TaskState
  BY <1>5, <1>6, ApplyKeeps
<1>8. /\ Above(e.rec, log) /\ \A d \in Clients : pend[d] # None => pend[d].rec # e.rec
      /\ NextRec \in Nat
  BY <1>5, NextIsAbove
<1>9. k.type \in Types /\ (k.type \in TaskTypes <=> k.type \notin Verdicts)
      /\ (k.type \in Verdicts => k.arg = k.run /\ k.run \in Runs)
  <2>1. k.type \in Types /\ (k \in RunCommands <=> k.type \in Verdicts \cup {"TASK_VERIFICATION_STARTED"})
        /\ (k \in RunCommands => k.run \in Runs /\ k.arg = k.run)
    BY <1>2, CommandsAre
  <2> QED
    BY <2>1, TypesAre
<1>10. MovesAll(c, p, k, seen[c], ApplyEvent(vw, e), e, nw)
  <2> HIDE DEF p, e, k, nw, vw
  <2>1. k = cmd[c] /\ nw = runNew[c]
    BY DEF k, nw
  <2>2. Moves(c, pc, pc', p) /\ Moves(c, pend, pend', e)
    BY <1>1, <1>3, MovesTo
  <2>4. Moves(c, view, view', ApplyEvent(vw, e))
    BY <1>3, <1>4, MovesTo
  <2>3. Moves(c, cmd, cmd', k) /\ Moves(c, seen, seen', seen[c]) /\ Moves(c, runNew, runNew', nw)
    BY <1>1, <1>3, <2>1, MovesTo
  <2> QED
    BY <2>2, <2>3, <2>4 DEF MovesAll
<1>11. (p = "reload" <=> k.type \in Verdicts) /\ (p = "project" <=> k.type \notin Verdicts)
       /\ p \in {"reload", "project"}
  OBVIOUS
<1> HIDE DEF e, k, nw, vw, p
<1>12. e # None
  BY <1>5, NoneAssumption DEF Carries
<1>13. \A f \in log : f.rec < e.rec /\ f.rec # e.rec
  <2>1. \A f \in log : f.rec \in Nat /\ e.rec \in Nat
    BY <1>3, <1>5 DEF EventsGood, Recorded, Carries, Event
  <2> QED
    BY <1>8, <2>1 DEF Above
<1>14. PendGood(log, p, k, e)
  <2>1. Above(e.rec, TaskStream(log)) /\ Above(e.rec, RunStream(log, k.run))
    BY <1>13 DEF Above, TaskStream, RunStream
  <2>2. k.type \in Verdicts => Started(log, k.run)
    BY <1>2 DEF PendGood
  <2> QED
    BY <1>5, <1>11, <1>12, <1>13, <2>1, <2>2 DEF PendGood
<1>15. LocalGood(log, run, p, k, seen[c], ApplyEvent(vw, e), e, nw)
  BY <1>2, <1>7, <1>11, <1>14 DEF LocalGood, Places
<1>16. MayHold(c, p, k, e)
  <2>1. ASSUME NEW d \in Clients \ {c}, pend[d] # None
        PROVE  pend[d].rec # e.rec /\ (pend[d].type \in Verdicts \/ e.type \in Verdicts)
    BY <1>1, <1>5, <1>8, <2>1 DEF StreamFree
  <2>2. k.run \in Runs => \A d \in Clients \ {c} : ~(pc[d] # "idle" /\ cmd[d].run = k.run)
    BY <1>2 DEF MayHold
  <2> QED
    BY <2>1, <2>2 DEF MayHold
<1>17. ASSUME k.type \notin Verdicts PROVE TaskTxnGood(log, p, k, ApplyEvent(vw, e), e)
  <2>1. TaskTxnGood(log, "append", k, vw, pend[c])
    BY <1>1, <1>3, <1>17 DEF TxnGood
  <2>2. vw.seq = LastSeq(log)
    BY <1>1, <1>17 DEF SeqExpected
  <2> QED
    BY <1>8, <1>11, <1>17, <2>1, <2>2 DEF TaskTxnGood
<1>18. ASSUME k.type \in Verdicts PROVE VerdictTxnGood(log, p, k, seen[c], ApplyEvent(vw, e), e)
  <2>1. VerdictTxnGood(log, "append", k, seen[c], vw, pend[c])
    BY <1>1, <1>3, <1>18 DEF TxnGood
  <2>2. CanCross(log, k.run, MaxRec + 1) => CanCross(log, k.run, e.rec)
    BY <1>13 DEF CanCross
  <2> QED
    BY <1>8, <1>11, <1>18, <2>1, <2>2 DEF VerdictTxnGood
<1>19. TxnGood(log, p, k, seen[c], ApplyEvent(vw, e), e)
  BY <1>17, <1>18 DEF TxnGood
<1>20. UNCHANGED <<log, proj, run>>
  BY <1>1
<1> QED
  BY <1>10, <1>15, <1>16, <1>19, <1>20, OneMoves

\* With an Event of an open transaction, the Events are still recorded ones.
LEMMA WithEvent ==
  ASSUME LifeInv, NEW c \in Clients, pend[c] # None
  PROVE  /\ Recorded(log \cup {pend[c]}) /\ pend[c] \notin log
         /\ \A e \in log \cup {pend[c]} : e.type \in Verdicts => Started(log \cup {pend[c]}, e.arg)
         /\ pc[c] \in {"reload", "project"} /\ cmd[c] \in Commands
         /\ pend[c].type = cmd[c].type /\ pend[c].arg = cmd[c].arg
<1> DEFINE e == pend[c]
<1>1. /\ LocalGood(log, run, pc[c], cmd[c], seen[c], view[c], pend[c], runNew[c]) /\ EventsGood
  BY OfOne
<1>2. pc[c] # "idle" /\ cmd[c] \in Commands /\ PendGood(log, pc[c], cmd[c], e)
  BY <1>1 DEF LocalGood
<1>3. /\ Carries(e) /\ (\A f \in log : f.rec # e.rec) /\ pc[c] \in {"reload", "project"}
      /\ e.type = cmd[c].type /\ e.arg = cmd[c].arg /\ (e.type \in Verdicts => Started(log, cmd[c].run))
  BY <1>2 DEF PendGood
<1>4. Recorded(log) /\ \A f \in log : f.type \in Verdicts => Started(log, f.arg)
  BY <1>1 DEF EventsGood
<1>5. Recorded(log \cup {e}) /\ e \notin log
  BY <1>3, <1>4 DEF Recorded
<1>6. e.type \in Verdicts => e.arg = cmd[c].run
  BY <1>2, <1>3, CommandsAre
<1>7. \A f \in log \cup {e} : f.type \in Verdicts => Started(log \cup {e}, f.arg)
  BY <1>3, <1>4, <1>6 DEF Started
<1> QED
  BY <1>2, <1>3, <1>5, <1>7

\* A verdict loads the Task again.
LEMMA ReloadStep ==
  ASSUME LifeInv, NEW c \in Clients, Reload(c)
  PROVE  LifeInv'
<1> DEFINE k == cmd[c]
           nw == runNew[c]
           e == pend[c]
           S == log \cup {e}
           st == Fold(S)
<1>1. pc[c] = "reload"
  BY DEF Reload
<1>2. /\ k \in Commands /\ nw \in RunRow \cup {None} /\ RowGood(run, k, nw) /\ seen[c] \in Nat
      /\ PendGood(log, "reload", k, e) /\ MayHold(c, "append", k, e)
  BY <1>1, AtWork
<1>3. e # None /\ k.type \in Verdicts /\ e.type \in Verdicts
  BY <1>2 DEF PendGood
<1>4. log \cup Own(c) = S
  BY <1>3 DEF Own
<1>5. Recorded(S) /\ \A f \in S : f.type \in Verdicts => Started(S, f.arg)
  BY <1>3, WithEvent
<1>6. Merged(TaskStream(S), S) = S
  <2> HIDE DEF S
  <2> QED
    BY <1>5, MergedIsAll
<1>7. /\ view' = [view EXCEPT ![c] = st] /\ pc' = [pc EXCEPT ![c] = "project"]
      /\ UNCHANGED <<log, proj, run, cmd, seen, pend, runNew>>
  <2> HIDE DEF S
  <2> QED
    BY <1>4, <1>6 DEF Reload
<1>8. /\ DOMAIN pc = Clients /\ DOMAIN cmd = Clients /\ DOMAIN seen = Clients
      /\ DOMAIN view = Clients /\ DOMAIN pend = Clients /\ DOMAIN runNew = Clients /\ EventsGood
      /\ TxnGood(log, pc[c], k, seen[c], view[c], e)
  BY OfOne
<1>9. st \in TaskState
  <2> HIDE DEF S
  <2> QED
    BY <1>5, FoldSays
<1>10. Above(e.rec, log) => st = ApplyEvent(Fold(log), e)
  BY <1>5, FoldNext
<1> HIDE DEF st, S
<1>11. MovesAll(c, "project", k, seen[c], st, e, nw)
  BY <1>7, <1>8, MovesTo DEF MovesAll
<1> HIDE DEF e, k, nw
<1>12. PendGood(log, "project", k, e)
  BY <1>2 DEF PendGood
<1>13. LocalGood(log, run, "project", k, seen[c], st, e, nw)
  BY <1>2, <1>9, <1>12 DEF LocalGood, Places
<1>14. VerdictTxnGood(log, "reload", k, seen[c], view[c], e)
  BY <1>1, <1>3, <1>8 DEF TxnGood
<1>15. VerdictTxnGood(log, "project", k, seen[c], st, e)
  BY <1>10, <1>14 DEF VerdictTxnGood
<1>16. TxnGood(log, "project", k, seen[c], st, e) /\ MayHold(c, "project", k, e)
  BY <1>2, <1>3, <1>15 DEF TxnGood, MayHold
<1>17. UNCHANGED <<log, proj, run>>
  BY <1>7
<1> QED
  BY <1>11, <1>13, <1>16, <1>17, OneMoves

-----------------------------------------------------------------------------
(***************************************************************************)
(* Steps that change the row of one run and nothing else that is           *)
(* committed.                                                              *)
(***************************************************************************)
\* A transaction on another run does not notice.
LEMMA OtherRow ==
  ASSUME NEW S, NEW rn \in [Runs -> RunRow \cup {None}], NEW v \in Runs, NEW row, NEW p, NEW k, NEW sn, NEW vw,
         NEW pd, NEW nw, LocalGood(S, rn, p, k, sn, vw, pd, nw),
         p # "idle" => k.run # v
  PROVE  LocalGood(S, [rn EXCEPT ![v] = row], p, k, sn, vw, pd, nw)
<1>1. ASSUME p # "idle" PROVE RowGood([rn EXCEPT ![v] = row], k, nw)
  <2>1. k \in Commands /\ RowGood(rn, k, nw) /\ k.run # v
    BY <1>1 DEF LocalGood
  <2>2. k \in RunCommands => k.run \in Runs
    BY <2>1, CommandsAre
  <2>3. k \in RunCommands => [rn EXCEPT ![v] = row][k.run] = rn[k.run]
    BY <2>1, <2>2
  <2> QED
    BY <2>1, <2>3 DEF RowGood
<1> QED
  BY <1>1 DEF LocalGood

\* The row of run v moves; transactions at work on it are none, or end.
LEMMA RowChanges ==
  ASSUME LifeInv, NEW v \in Runs, NEW row \in RunRow, run' = [run EXCEPT ![v] = row],
         UNCHANGED <<log, proj>>, RunGood(log, row, v),
         run[v] # None /\ run[v].status \in {"RUNNING", "CANCELLED"} => row.status \in {"RUNNING", "CANCELLED"},
         Exclusive(pc', cmd', pend'),
         DOMAIN pc' = Clients, DOMAIN cmd' = Clients, DOMAIN seen' = Clients,
         DOMAIN view' = Clients, DOMAIN pend' = Clients, DOMAIN runNew' = Clients,
         \A d \in Clients :
           \/ /\ pc'[d] = "idle" /\ cmd'[d] = None /\ seen'[d] = 0 /\ view'[d] = None
              /\ pend'[d] = None /\ runNew'[d] = None
           \/ /\ pc'[d] = pc[d] /\ cmd'[d] = cmd[d] /\ seen'[d] = seen[d] /\ view'[d] = view[d]
              /\ pend'[d] = pend[d] /\ runNew'[d] = runNew[d]
              /\ pc[d] # "idle" => cmd[d].run # v
  PROVE  LifeInv'
<1> DEFINE rn == [run EXCEPT ![v] = row]
<1>1. /\ EventsGood /\ CompletionVerified /\ AcceptedByAssignee /\ TaskGood(log, proj, run)
      /\ run \in [Runs -> RunRow \cup {None}] /\ (\A u \in Runs : RunGood(log, run[u], u))
      /\ proj \in TaskState
  BY DEF LifeInv
<1>2. log' = log /\ proj' = proj /\ run' = rn
  OBVIOUS
<1>3. /\ rn \in [Runs -> RunRow \cup {None}] /\ rn[v] = row
      /\ \A u \in Runs : u # v => rn[u] = run[u]
  BY <1>1
<1>4. \A u \in Runs : RunGood(log, rn[u], u)
  BY <1>1, <1>3
<1>5. ASSUME NEW d \in Clients
      PROVE  /\ LocalGood(log, rn, pc'[d], cmd'[d], seen'[d], view'[d], pend'[d], runNew'[d])
             /\ TxnGood(log, pc'[d], cmd'[d], seen'[d], view'[d], pend'[d])
  <2>1. CASE pc'[d] = "idle" /\ cmd'[d] = None /\ pend'[d] = None /\ runNew'[d] = None /\ seen'[d] = 0
             /\ view'[d] = None
    BY <2>1 DEF LocalGood, TxnGood, Places
  <2>2. CASE /\ pc'[d] = pc[d] /\ cmd'[d] = cmd[d] /\ seen'[d] = seen[d] /\ view'[d] = view[d]
             /\ pend'[d] = pend[d] /\ runNew'[d] = runNew[d] /\ (pc[d] # "idle" => cmd[d].run # v)
    <3>1. /\ LocalGood(log, run, pc[d], cmd[d], seen[d], view[d], pend[d], runNew[d])
          /\ TxnGood(log, pc[d], cmd[d], seen[d], view[d], pend[d])
      BY OfOne
    <3>2. LocalGood(log, rn, pc[d], cmd[d], seen[d], view[d], pend[d], runNew[d])
      BY <1>1, <2>2, <3>1, OtherRow
    <3> QED
      BY <2>2, <3>1, <3>2
  <2> QED
    BY <2>1, <2>2
<1>6. TaskGood(log, proj, rn)
  <2>1. ASSUME NEW u \in Runs, run[u] # None, run[u].status \in {"RUNNING", "CANCELLED"}
        PROVE  rn[u] # None /\ rn[u].status \in {"RUNNING", "CANCELLED"}
    BY <1>3, <2>1, NoneAssumption DEF RunRow
  <2> HIDE DEF rn
  <2> QED
    BY <1>1, <2>1 DEF TaskGood
<1>7. EventsGood' /\ CompletionVerified' /\ AcceptedByAssignee'
  BY <1>1, <1>2 DEF EventsGood, CompletionVerified, AcceptedByAssignee, Before, IsLatest
<1> HIDE DEF rn
<1> QED
  BY <1>1, <1>2, <1>3, <1>4, <1>5, <1>6, <1>7 DEF LifeInv

\* A new run has no Events and nobody works on it.
LEMMA CreateRunStep ==
  ASSUME LifeInv, NEW v \in Runs, CreateRun(v)
  PROVE  LifeInv'
<1> DEFINE row == [status |-> "PLANNED", revision |-> 0]
<1>1. run[v] = None /\ run' = [run EXCEPT ![v] = row] /\ UNCHANGED <<log, proj, txnVars>>
  BY DEF CreateRun
<1>2. UNCHANGED <<log, proj>> /\ UNCHANGED <<pc, cmd, seen, view, pend, runNew>>
  BY <1>1 DEF txnVars
<1>3. row \in RunRow /\ row.status = "PLANNED" /\ row.revision = 0 /\ row # None
  BY NoneAssumption DEF RunRow, RunStatuses
<1>4. RunGood(log, row, v)
  <2>1. RunStream(log, v) = {}
    BY <1>1 DEF LifeInv, RunGood
  <2>2. Cardinality(RunStream(log, v)) = 0
    BY <2>1, FS_EmptySet
  <2>3. "PLANNED" \notin {ResultOf[t] : t \in Verdicts}
    BY DEF ResultOf, Verdicts
  <2> QED
    BY <1>3, <2>2, <2>3 DEF RunGood
<1>5. \A d \in Clients : pc[d] # "idle" => cmd[d].run # v
  <2> SUFFICES ASSUME NEW d \in Clients, pc[d] # "idle", cmd[d].run = v PROVE FALSE
    OBVIOUS
  <2>1. cmd[d] \in Commands /\ RowGood(run, cmd[d], runNew[d])
    BY AtWork
  <2>2. cmd[d] \notin TaskCommands
    BY <2>1, CommandsAre, NoneAssumption
  <2> QED
    BY <1>1, <2>1, <2>2 DEF RowGood, Commands
<1>6. /\ DOMAIN pc = Clients /\ DOMAIN cmd = Clients /\ DOMAIN seen = Clients
      /\ DOMAIN view = Clients /\ DOMAIN pend = Clients /\ DOMAIN runNew = Clients
      /\ Exclusive(pc, cmd, pend)
  BY DEF LifeInv
<1> HIDE DEF row
<1> QED
  BY <1>1, <1>2, <1>3, <1>4, <1>5, <1>6, RowChanges

\* A move of an unlocked row.
LEMMA MoveRunStep ==
  ASSUME LifeInv, NEW v \in Runs, MoveRun(v)
  PROVE  LifeInv'
<1>1. PICK m \in RunMoves : m[1] = run[v].status /\ run' = [run EXCEPT ![v].status = m[3]]
  BY DEF MoveRun
<1> DEFINE old == run[v]
           row == [old EXCEPT !.status = m[3]]
<1>2. run[v] # None /\ ~RunHeld(v) /\ UNCHANGED <<log, proj, pc, cmd, seen, view, pend, runNew>>
  BY DEF MoveRun, txnVars
<1>3. /\ DOMAIN pc = Clients /\ DOMAIN cmd = Clients /\ DOMAIN seen = Clients
      /\ DOMAIN view = Clients /\ DOMAIN pend = Clients /\ DOMAIN runNew = Clients
      /\ Exclusive(pc, cmd, pend) /\ run \in [Runs -> RunRow \cup {None}] /\ RunGood(log, run[v], v)
  BY DEF LifeInv
<1>4. old \in RunRow
  BY <1>2, <1>3
<1>5. run' = [run EXCEPT ![v] = row]
  BY <1>1, <1>3
<1>6. m[3] \in RunStatuses /\ m[3] \notin {ResultOf[t] : t \in Verdicts}
      /\ (m[1] \in {"RUNNING", "CANCELLED"} => m[3] = "CANCELLED")
  BY DEF RunStatuses, RunMoves, ResultOf, Verdicts
<1>7. row \in RunRow /\ row.status = m[3] /\ row.revision = old.revision
  BY <1>4, <1>6 DEF RunRow
<1>8. row # None
  BY <1>7, NoneAssumption DEF RunRow
<1> HIDE DEF row
<1>9. RunGood(log, row, v)
  BY <1>2, <1>3, <1>6, <1>7, <1>8 DEF RunGood
<1>10. \A d \in Clients : pc[d] # "idle" => cmd[d].run # v
  BY <1>2 DEF RunHeld
<1>11. run[v].status \in {"RUNNING", "CANCELLED"} => row.status \in {"RUNNING", "CANCELLED"}
  BY <1>1, <1>6, <1>7
<1> HIDE DEF old
<1>12. UNCHANGED <<log, proj>>
  BY <1>2
<1> QED
  BY <1>2, <1>3, <1>5, <1>7, <1>9, <1>10, <1>11, <1>12, RowChanges

\* A verification that starts on a Task that is not IMPLEMENTED.
LEMMA CommitDoneStep ==
  ASSUME LifeInv, NEW c \in Clients, pc[c] = "done", Commit(c)
  PROVE  LifeInv'
<1> DEFINE k == cmd[c]
           nw == runNew[c]
           v == k.run
<1>1. /\ LocalGood(log, run, pc[c], cmd[c], seen[c], view[c], pend[c], runNew[c])
      /\ Exclusive(pc, cmd, pend) /\ run \in [Runs -> RunRow \cup {None}]
  BY OfOne
<1>2. pend[c] = None /\ k \in Commands /\ RowGood(run, k, nw) /\ k.type = "TASK_VERIFICATION_STARTED"
  BY AtWork, <1>1 DEF LocalGood
<1>3. k \in RunCommands /\ v \in Runs /\ k.type \notin Verdicts
  BY <1>2, CommandsAre DEF Verdicts
<1>4. /\ run[v] # None /\ run[v].status \in Startable /\ nw = [run[v] EXCEPT !.status = "RUNNING"]
  BY <1>2, <1>3 DEF RowGood
<1>5. run[v] \in RunRow
  BY <1>1, <1>3, <1>4
<1>6. nw \in RunRow /\ nw.status = "RUNNING" /\ nw.revision = run[v].revision
  BY <1>4, <1>5, RowMoves DEF RunRow
<1>7. nw # None
  BY <1>6, NoneAssumption DEF RunRow
<1>8. UNCHANGED <<log, proj>> /\ run' = [run EXCEPT ![v] = nw] /\ Finish(c)
  BY <1>2, <1>7 DEF Commit, Own
<1>9. MovesAll(c, "idle", None, 0, None, None, None) /\ MayHold(c, "idle", None, None)
  BY <1>8, FinishMoves, IdleIsGood
<1>10. Exclusive(pc', cmd', pend')
  BY <1>1, <1>9, StaysExclusive
<1>11. RunGood(log, nw, v)
  <2>1. RunGood(log, run[v], v)
    BY <1>3 DEF LifeInv
  <2>2. "RUNNING" \notin {ResultOf[t] : t \in Verdicts}
    BY DEF ResultOf, Verdicts
  <2> QED
    BY <1>4, <1>6, <1>7, <2>1, <2>2 DEF RunGood
<1>12. /\ DOMAIN pc' = Clients /\ DOMAIN cmd' = Clients /\ DOMAIN seen' = Clients
       /\ DOMAIN view' = Clients /\ DOMAIN pend' = Clients /\ DOMAIN runNew' = Clients
  BY <1>9 DEF MovesAll, Moves
<1>13. ASSUME NEW d \in Clients
       PROVE  \/ /\ pc'[d] = "idle" /\ cmd'[d] = None /\ seen'[d] = 0 /\ view'[d] = None
                 /\ pend'[d] = None /\ runNew'[d] = None
              \/ /\ pc'[d] = pc[d] /\ cmd'[d] = cmd[d] /\ seen'[d] = seen[d] /\ view'[d] = view[d]
                 /\ pend'[d] = pend[d] /\ runNew'[d] = runNew[d]
                 /\ pc[d] # "idle" => cmd[d].run # v
  <2>1. CASE d = c
    BY <1>9, <2>1 DEF MovesAll, Moves
  <2>2. CASE d # c
    <3>1. pc[d] # "idle" => cmd[d].run # v
      BY <1>1, <1>3, <2>2 DEF Exclusive
    <3> QED
      BY <1>9, <2>2, <3>1 DEF MovesAll, Moves
  <2> QED
    BY <2>1, <2>2
<1> HIDE DEF k, nw, v
<1> QED
  BY <1>3, <1>6, <1>8, <1>10, <1>11, <1>12, <1>13, RowChanges

-----------------------------------------------------------------------------
(***************************************************************************)
(* The commit of an Event e of command k into the committed Events S.      *)
(***************************************************************************)
Entering(S, k, sn, vw, e) ==
  /\ k \in Commands /\ Recorded(S \cup {e}) /\ IsFiniteSet(S) /\ e \notin S
  /\ \A x \in TaskStream(S) : x.seq <= LastSeq(S)
  /\ e.type = k.type /\ e.arg = k.arg
  /\ k.type \notin Verdicts => /\ e.seq = LastSeq(S) + 1 /\ Above(e.rec, TaskStream(S))
                               /\ TaskTxnGood(S, "project", k, vw, e)
  /\ k.type \in Verdicts => /\ k.run = e.arg /\ Above(e.rec, RunStream(S, k.run)) /\ Started(S, k.run)
                            /\ VerdictTxnGood(S, "project", k, sn, vw, e)

\* What an Event in its place makes of the state.
LEMMA Applies ==
  ASSUME NEW st \in TaskState, NEW e, Carries(e),
         \/ e.type \notin Verdicts /\ Allowed(st.status, e.type)
         \/ e.type \in Verdicts /\ Verifying(st, e.arg)
  PROVE  /\ InTable(st.status, e.type, ApplyEvent(st, e).status) /\ st.status # "BROKEN"
         /\ e.type \notin Verdicts =>
              /\ ApplyEvent(st, e).seq = e.seq
              /\ ApplyEvent(st, e).assignee = IF e.type \in Assignments THEN e.arg ELSE st.assignee
              /\ ApplyEvent(st, e).active = IF e.type = "TASK_VERIFICATION_STARTED" THEN e.arg ELSE st.active
         /\ e.type \in Verdicts =>
              /\ ApplyEvent(st, e).seq = st.seq /\ ApplyEvent(st, e).assignee = st.assignee
              /\ ApplyEvent(st, e).active = st.active
<1>1. ASSUME e.type \notin Verdicts, Allowed(st.status, e.type)
      PROVE  /\ ApplyEvent(st, e).status = NextStatus(st.status, e.type) /\ ApplyEvent(st, e).seq = e.seq
             /\ ApplyEvent(st, e).assignee = IF e.type \in Assignments THEN e.arg ELSE st.assignee
             /\ ApplyEvent(st, e).active = IF e.type = "TASK_VERIFICATION_STARTED" THEN e.arg ELSE st.active
             /\ InTable(st.status, e.type, NextStatus(st.status, e.type)) /\ st.status # "BROKEN"
  <2>1. InTable(st.status, e.type, NextStatus(st.status, e.type))
    BY <1>1, AllowedMove
  <2>2. st.status # "BROKEN"
    BY <2>1 DEF InTable
  <2>3. ApplyEvent(st, e) = ApplyTaskEvent(st, e)
    BY <1>1, <2>2 DEF ApplyEvent
  <2> QED
    BY <1>1, <2>1, <2>2, <2>3 DEF ApplyTaskEvent
<1>2. ASSUME e.type \in Verdicts, Verifying(st, e.arg)
      PROVE  /\ InTable(st.status, e.type, ApplyEvent(st, e).status) /\ st.status # "BROKEN"
             /\ ApplyEvent(st, e).seq = st.seq /\ ApplyEvent(st, e).assignee = st.assignee
             /\ ApplyEvent(st, e).active = st.active
  <2>1. \E u \in {"VERIFIED", "RUNNING", "WAITING"} : InTable(st.status, e.type, u)
    BY <1>2 DEF InTable, Verifying, Verdicts
  <2>2. Allowed(st.status, e.type)
    BY <2>1, LineAllowed
  <2>3. InTable(st.status, e.type, NextStatus(st.status, e.type))
    BY <2>2, AllowedMove
  <2>4. st.status # "BROKEN" /\ e.arg = st.active
    BY <1>2 DEF Verifying
  <2>5. ApplyEvent(st, e) = [st EXCEPT !.status = NextStatus(st.status, e.type), !.verdict = e.type]
    BY <1>2, <2>2, <2>4 DEF ApplyEvent, ApplyVerdict
  <2> QED
    BY <2>3, <2>4, <2>5 DEF TaskState
<1> QED
  BY <1>1, <1>2

\* Types of the entering Event and what is recorded.
LEMMA EntersAs ==
  ASSUME NEW S, NEW k, NEW sn, NEW vw, NEW e, Entering(S, k, sn, vw, e)
  PROVE  /\ Recorded(S) /\ Carries(e) /\ Fold(S) \in TaskState /\ LastSeq(S) \in Nat /\ e.rec \in Nat
         /\ e.rec <= MaxRec
         /\ (\A x \in S : Carries(x) /\ x.rec \in Nat /\ x.seq \in Nat /\ x.type \in Types)
         /\ (e.type \in TaskTypes <=> e.type \notin Verdicts) /\ e.type \in Types
<1>1. Recorded(S) /\ Carries(e) /\ \A x \in S : Carries(x)
  BY DEF Entering, Recorded
<1>2. e.rec \in Nat /\ e.rec <= MaxRec /\ e.type \in Types
  BY <1>1, BoundAssumption DEF Carries, Row, Event
<1>3. \A x \in S : x.rec \in Nat /\ x.seq \in Nat /\ x.type \in Types
  BY <1>1 DEF Carries, Event
<1>4. LastSeq(S) \in Nat
  BY Counts DEF Entering
<1> QED
  BY <1>1, <1>2, <1>3, <1>4, FoldSays, TypesAre

\* When the Events stay quiet, the Event was decided on all of them and comes
\* after all of them.
LEMMA InOrder ==
  ASSUME NEW S, NEW k, NEW sn, NEW vw, NEW e, Entering(S, k, sn, vw, e), Quiet(S \cup {e})
  PROVE  /\ Quiet(S) /\ Above(e.rec, S) /\ vw = ApplyEvent(Fold(S), e) /\ vw = Fold(S \cup {e})
         /\ k.type \notin Verdicts => Permitted(k, Fold(S))
         /\ k.type \in Verdicts => Live(S) /\ Verifying(Fold(S), k.run)
<1>1. /\ Recorded(S) /\ Carries(e) /\ LastSeq(S) \in Nat /\ e.rec \in Nat
      /\ (\A x \in S : x.rec \in Nat) /\ (e.type \in TaskTypes <=> e.type \notin Verdicts) /\ e.type = k.type
      /\ Recorded(S \cup {e}) /\ e.arg = k.arg
  BY EntersAs DEF Entering
<1>2. Quiet(S)
  BY DEF Quiet, Crossing
<1>3. ASSUME k.type \notin Verdicts
      PROVE  Permitted(k, Fold(S)) /\ vw = ApplyEvent(Fold(S), e) /\ Above(e.rec, S)
  <2>1. /\ e.seq = LastSeq(S) + 1 /\ Above(e.rec, TaskStream(S)) /\ TaskTxnGood(S, "project", k, vw, e)
    BY <1>3 DEF Entering
  <2>2. \/ /\ Permitted(k, Fold(S)) /\ vw = ApplyEvent(Fold(S), e) /\ Above(e.rec, S)
        \/ k.type = "TASK_CANCEL_REQUESTED" /\ Live(S) /\ Late(S)
    BY <1>2, <2>1 DEF TaskTxnGood
  <2>3. ASSUME k.type = "TASK_CANCEL_REQUESTED", Late(S) PROVE FALSE
    <3>1. PICK s \in S, f \in S : /\ s.type = "TASK_VERIFICATION_STARTED" /\ s.seq = LastSeq(S)
                                  /\ f.type \in Verdicts /\ f.arg = s.arg /\ s.rec < f.rec
      BY <2>3 DEF Late
    <3>2. s.rec < e.rec
      BY <2>1, <3>1, TypesAre DEF TaskStream, Above
    <3>3. Crossing(S \cup {e}, s, e, f)
      BY <1>1, <2>1, <2>3, <3>1, <3>2 DEF Crossing
    <3> QED
      BY <3>3 DEF Quiet
  <2> QED
    BY <2>2, <2>3
<1>4. ASSUME k.type \in Verdicts
      PROVE  Live(S) /\ Verifying(Fold(S), k.run) /\ vw = ApplyEvent(Fold(S), e) /\ Above(e.rec, S)
  <2>1. k.run = e.arg /\ VerdictTxnGood(S, "project", k, sn, vw, e)
    BY <1>4 DEF Entering
  <2>2. \/ Live(S) /\ Verifying(Fold(S), k.run) /\ Above(e.rec, S) /\ vw = ApplyEvent(Fold(S), e)
        \/ CanCross(S, k.run, e.rec)
    BY <1>2, <2>1 DEF VerdictTxnGood
  <2>3. ASSUME CanCross(S, k.run, e.rec) PROVE FALSE
    <3>1. PICK s \in S, r \in S : /\ s.type = "TASK_VERIFICATION_STARTED" /\ s.arg = k.run
                                  /\ r.type = "TASK_CANCEL_REQUESTED" /\ s.seq + 1 = r.seq
                                  /\ s.rec < r.rec /\ s.rec < e.rec
      BY <2>3 DEF CanCross
    <3>2. Crossing(S \cup {e}, s, r, e)
      BY <1>1, <1>4, <2>1, <3>1 DEF Crossing
    <3> QED
      BY <3>2 DEF Quiet
  <2> QED
    BY <2>2, <2>3
<1>5. Above(e.rec, S) /\ vw = ApplyEvent(Fold(S), e)
  BY <1>3, <1>4
<1>6. Fold(S \cup {e}) = ApplyEvent(Fold(S), e)
  BY <1>1, <1>5, FoldNext
<1> QED
  BY <1>2, <1>3, <1>4, <1>5, <1>6

\* A completed Task takes no Event.
LEMMA CompletedIsLast ==
  ASSUME NEW S, NEW k, NEW sn, NEW vw, NEW e, NEW pj, NEW rn, Entering(S, k, sn, vw, e), TaskGood(S, pj, rn),
         NEW x \in S, x.type = "TASK_COMPLETED"
  PROVE  FALSE
<1>1. Live(S)
  BY DEF TaskGood
<1>2. Quiet(S)
  BY <1>1 DEF Live, Quiet, Crossing
<1>3. Fold(S).status = "COMPLETED"
  BY <1>2 DEF TaskGood
<1>4. ~Late(S) /\ \A v : ~Verifying(Fold(S), v)
  BY <1>3 DEF Late, Verifying
<1>5. \A v, n : ~CanCross(S, v, n)
  BY <1>1 DEF Live, CanCross
<1>6. k.type \notin Verdicts => ~Permitted(k, Fold(S))
  <2> SUFFICES ASSUME k.type \notin Verdicts, Permitted(k, Fold(S)) PROVE FALSE
    OBVIOUS
  <2>1. Allowed(Fold(S).status, k.type)
    BY DEF Permitted
  <2> QED
    BY <1>3, <2>1, AllowedMove DEF InTable
<1> QED
  BY <1>2, <1>4, <1>5, <1>6 DEF Entering, TaskTxnGood, VerdictTxnGood

\* A Task that is being cancelled takes no completion.
LEMMA LiveOrCancelled ==
  ASSUME NEW S, NEW k, NEW sn, NEW vw, NEW e, Entering(S, k, sn, vw, e), k.type \notin Verdicts,
         k.type # "TASK_CANCELLED"
  PROVE  Live(S) /\ Quiet(S)
<1>1. Live(S)
  BY DEF Entering, TaskTxnGood
<1> QED
  BY <1>1 DEF Live, Quiet, Crossing

\* The Task after the commit.
LEMMA TaskAfter ==
  ASSUME NEW S, NEW k, NEW sn, NEW vw, NEW e, NEW pj, NEW rn, NEW new,
         Entering(S, k, sn, vw, e), TaskGood(S, pj, rn),
         k.type = "TASK_VERIFICATION_STARTED" =>
           new[k.run] # None /\ new[k.run].status \in {"RUNNING", "CANCELLED"}
  PROVE  TaskGood(S \cup {e}, vw, new)
<1> DEFINE T == S \cup {e}
           st == Fold(S)
           now == Fold(T)
<1>1. /\ Recorded(S) /\ Carries(e) /\ st \in TaskState /\ LastSeq(S) \in Nat /\ e.rec \in Nat
      /\ (\A x \in S : x.rec \in Nat) /\ (e.type \in TaskTypes <=> e.type \notin Verdicts) /\ e.type = k.type
      /\ e.arg = k.arg /\ IsFiniteSet(S) /\ e \notin S /\ k \in Commands
  BY EntersAs DEF Entering
<1>2. /\ e.type \in TaskTypes => LastSeq(T) = LastSeq(S) + 1
      /\ e.type \in Verdicts => LastSeq(T) = LastSeq(S)
  BY <1>1, CountMore
<1>3. ASSUME NEW x \in S PROVE x.type # "TASK_COMPLETED"
  BY CompletedIsLast
<1>4. ASSUME ~Live(T) PROVE \A x \in T : x.type # "TASK_COMPLETED"
  <2>1. e.type # "TASK_COMPLETED"
    <3> SUFFICES ASSUME e.type = "TASK_COMPLETED" PROVE FALSE
      OBVIOUS
    <3>1. Live(S)
      BY <1>1, LiveOrCancelled DEF Verdicts
    <3> QED
      BY <1>4, <3>1 DEF Live
  <2> QED
    BY <1>3, <2>1
<1>5. ASSUME Quiet(T)
      PROVE  /\ now.status # "BROKEN" /\ now.seq = LastSeq(T) /\ vw = now
             /\ now.status = "VERIFYING" =>
                  /\ now.active \in Runs /\ new[now.active] # None
                  /\ new[now.active].status \in {"RUNNING", "CANCELLED"}
                  /\ \E s \in T : /\ s.type = "TASK_VERIFICATION_STARTED"
                                  /\ s.arg = now.active /\ s.seq = LastSeq(T)
             /\ now.status = "VERIFIED" =>
                  \E p \in T : /\ p.type = "VERIFICATION_PASSED"
                               /\ \A g \in T : g.type \in Verdicts \cup {"IMPLEMENTATION_SUBMITTED",
                                                                       "TASK_VERIFICATION_STARTED"}
                                                 => g.rec <= p.rec
             /\ \A d \in T : (/\ d.type \in Assignments
                              /\ \A g \in T : g.type \in Assignments => g.rec <= d.rec)
                             => d.arg = now.assignee
             /\ (\E x \in T : x.type = "TASK_COMPLETED") => now.status = "COMPLETED"
  <2>1. /\ Quiet(S) /\ Above(e.rec, S) /\ vw = ApplyEvent(st, e) /\ vw = now
        /\ (k.type \notin Verdicts => Permitted(k, st))
        /\ (k.type \in Verdicts => Live(S) /\ Verifying(st, k.run))
    BY <1>5, InOrder
  <2>2. k.type \in Verdicts => k.run = e.arg
    BY DEF Entering
  <2>3. k.type \notin Verdicts => Allowed(st.status, e.type)
    BY <1>1, <2>1 DEF Permitted, Verdicts
  <2>4. /\ InTable(st.status, e.type, now.status)
        /\ e.type \notin Verdicts =>
              /\ now.seq = e.seq /\ now.assignee = (IF e.type \in Assignments THEN e.arg ELSE st.assignee)
              /\ now.active = (IF e.type = "TASK_VERIFICATION_STARTED" THEN e.arg ELSE st.active)
        /\ e.type \in Verdicts => now.seq = st.seq /\ now.assignee = st.assignee /\ now.active = st.active
    <3>1. \/ e.type \notin Verdicts /\ Allowed(st.status, e.type)
          \/ e.type \in Verdicts /\ Verifying(st, e.arg)
      BY <1>1, <2>1, <2>2, <2>3
    <3>2. now = ApplyEvent(st, e)
      BY <2>1
    <3> HIDE DEF st, now
    <3> QED
      BY <1>1, <3>1, <3>2, Applies
  <2>5. /\ st.seq = LastSeq(S)
        /\ \A d \in S : (/\ d.type \in Assignments /\ \A g \in S : g.type \in Assignments => g.rec <= d.rec)
                        => d.arg = st.assignee
    BY <2>1 DEF TaskGood
  <2>6. k.type \notin Verdicts => e.seq = LastSeq(S) + 1
    BY DEF Entering
  <2> HIDE DEF now, st
  <2>7. now.status # "BROKEN" /\ now.seq = LastSeq(T) /\ vw = now
    <3>1. now.status # "BROKEN"
      BY <2>4 DEF InTable
    <3> QED
      BY <1>1, <1>2, <2>1, <2>4, <2>5, <2>6, <3>1
  <2>8. ASSUME now.status = "VERIFYING"
        PROVE  /\ now.active \in Runs /\ new[now.active] # None
               /\ new[now.active].status \in {"RUNNING", "CANCELLED"}
               /\ \E s \in T : /\ s.type = "TASK_VERIFICATION_STARTED"
                               /\ s.arg = now.active /\ s.seq = LastSeq(T)
    <3>1. e.type = "TASK_VERIFICATION_STARTED"
      BY <2>4, <2>8 DEF InTable
    <3>2. e.type \notin Verdicts /\ e.arg = k.run /\ k.run \in Runs
      BY <1>1, <3>1, CommandsAre DEF Verdicts
    <3> QED
      BY <1>1, <2>4, <2>7, <3>1, <3>2
  <2>9. ASSUME now.status = "VERIFIED"
        PROVE  \E p \in T : /\ p.type = "VERIFICATION_PASSED"
                            /\ \A g \in T : g.type \in Verdicts \cup {"IMPLEMENTATION_SUBMITTED",
                                                                    "TASK_VERIFICATION_STARTED"}
                                              => g.rec <= p.rec
    <3>1. e.type = "VERIFICATION_PASSED"
      BY <2>4, <2>9 DEF InTable
    <3>2. \A g \in T : g.rec <= e.rec
      BY <1>1, <2>1 DEF Above
    <3> QED
      BY <3>1, <3>2
  <2>10. ASSUME NEW d \in T, d.type \in Assignments, \A g \in T : g.type \in Assignments => g.rec <= d.rec
         PROVE  d.arg = now.assignee
    <3>1. \A t \in Assignments : t \notin Verdicts
      BY DEF Assignments, Verdicts
    <3>2. CASE e.type \in Assignments
      <4>1. d = e
        BY <1>1, <2>1, <2>10, <3>2 DEF Above
      <4> QED
        BY <2>4, <3>1, <3>2, <4>1
    <3>3. CASE e.type \notin Assignments
      <4>1. d \in S /\ now.assignee = st.assignee
        BY <2>4, <2>10, <3>3
      <4> QED
        BY <2>5, <2>10, <4>1
    <3> QED
      BY <3>2, <3>3
  <2>11. ASSUME NEW x \in T, x.type = "TASK_COMPLETED" PROVE now.status = "COMPLETED"
    <3>1. x = e
      BY <1>3, <2>11
    <3> QED
      BY <2>4, <2>11, <3>1 DEF InTable
  <2> QED
    BY <2>7, <2>8, <2>9, <2>10, <2>11
<1> QED
  BY <1>4, <1>5 DEF TaskGood

\* What is said of more Events.
LEMMA MoreEvents ==
  ASSUME NEW S, NEW e
  PROVE  /\ \A v : Started(S, v) => Started(S \cup {e}, v)
         /\ \A v, n : CanCross(S, v, n) => CanCross(S \cup {e}, v, n)
         /\ Live(S \cup {e}) => Live(S)
         /\ Live(S) /\ e.type # "TASK_CANCEL_REQUESTED" => Live(S \cup {e})
BY DEF Started, CanCross, Live

\* A state that is VERIFYING in a verification takes a cancel request only.
LEMMA OnlyCancelRequest ==
  ASSUME NEW st, NEW k, k.type \notin Verdicts, Permitted(k, st), st.status = "VERIFYING"
  PROVE  k.type = "TASK_CANCEL_REQUESTED"
<1>1. Allowed(st.status, k.type)
  BY DEF Permitted, Verdicts
<1> QED
  BY <1>1, AllowedMove DEF InTable, Verdicts

\* A task Event decided on a VERIFYING Task asks to cancel it: a verdict of its
\* run now crosses it.
LEMMA CancelCanCross ==
  ASSUME NEW S, NEW k, NEW sn, NEW vw, NEW e, NEW pj, NEW rn, Entering(S, k, sn, vw, e), TaskGood(S, pj, rn),
         Quiet(S \cup {e}), k.type \notin Verdicts, NEW v, Verifying(Fold(S), v),
         NEW n, n = MaxRec + 1 \/ (n \in Nat /\ Above(n, S))
  PROVE  CanCross(S \cup {e}, v, n)
<1>1. /\ Recorded(S) /\ e.rec \in Nat /\ (\A x \in S : x.rec \in Nat /\ Carries(x)) /\ e.type = k.type
  BY EntersAs DEF Entering
<1>2. Quiet(S) /\ Above(e.rec, S) /\ Permitted(k, Fold(S))
  BY InOrder
<1>3. e.type = "TASK_CANCEL_REQUESTED"
  BY <1>1, <1>2, OnlyCancelRequest DEF Verifying
<1>4. PICK s \in S : s.type = "TASK_VERIFICATION_STARTED" /\ s.arg = v /\ s.seq = LastSeq(S)
  BY <1>2 DEF TaskGood, Verifying
<1>5. s.seq + 1 = e.seq
  BY <1>4 DEF Entering
<1>6. s.rec < e.rec /\ s.rec < n
  BY <1>1, <1>2, <1>4, BoundAssumption DEF Above, Carries, Row
<1> QED
  BY <1>3, <1>4, <1>5, <1>6 DEF CanCross

\* A verdict that is in order is late for whoever has seen the Task VERIFYING.
LEMMA VerdictIsLate ==
  ASSUME NEW S, NEW k, NEW sn, NEW vw, NEW e, NEW pj, NEW rn, Entering(S, k, sn, vw, e), TaskGood(S, pj, rn),
         Quiet(S \cup {e}), k.type \in Verdicts
  PROVE  Late(S \cup {e})
<1> DEFINE T == S \cup {e}
<1>1. /\ Recorded(S) /\ e.rec \in Nat /\ (\A x \in S : x.rec \in Nat) /\ e.type = k.type /\ Carries(e)
      /\ IsFiniteSet(S) /\ e \notin S /\ Fold(S) \in TaskState
  BY EntersAs DEF Entering
<1>2. /\ Quiet(S) /\ Above(e.rec, S) /\ Verifying(Fold(S), k.run) /\ Fold(T) = ApplyEvent(Fold(S), e)
      /\ k.run = e.arg
  BY InOrder DEF Entering
<1>3. PICK s \in S : s.type = "TASK_VERIFICATION_STARTED" /\ s.arg = e.arg /\ s.seq = LastSeq(S)
  BY <1>2 DEF TaskGood, Verifying
<1>4. LastSeq(T) = LastSeq(S)
  BY <1>1, CountMore
<1>5. InTable(Fold(S).status, e.type, ApplyEvent(Fold(S), e).status)
  BY <1>1, <1>2, Applies
<1>6. Fold(T).status \in {"VERIFIED", "RUNNING", "WAITING"}
  BY <1>1, <1>2, <1>5 DEF InTable, Verdicts
<1>7. s.rec < e.rec
  BY <1>2, <1>3 DEF Above
<1>8. /\ s \in T /\ e \in T /\ s.type = "TASK_VERIFICATION_STARTED" /\ s.seq = LastSeq(T)
      /\ e.type \in Verdicts /\ e.arg = s.arg /\ s.rec < e.rec
  BY <1>1, <1>3, <1>4, <1>7
<1> QED
  BY <1>6, <1>8 DEF Late

\* Another transaction on the Task, after the commit.
LEMMA TaskTxnAfter ==
  ASSUME NEW S, NEW k, NEW sn, NEW vw, NEW e, NEW pj, NEW rn, Entering(S, k, sn, vw, e), TaskGood(S, pj, rn),
         NEW p, NEW kd, NEW vd, NEW pd, TaskTxnGood(S, p, kd, vd, pd), kd.type \notin Verdicts,
         p = "append" => vd \in TaskState, p = "project" => k.type \in Verdicts
  PROVE  TaskTxnGood(S \cup {e}, p, kd, vd, pd)
<1> DEFINE T == S \cup {e}
<1>1. /\ LastSeq(S) \in Nat /\ e.type = k.type /\ IsFiniteSet(S) /\ e \notin S /\ Recorded(S)
      /\ (e.type \in TaskTypes <=> e.type \notin Verdicts)
  BY EntersAs DEF Entering
<1>2. /\ k.type \notin Verdicts => LastSeq(T) = LastSeq(S) + 1
      /\ k.type \in Verdicts => LastSeq(T) = LastSeq(S)
  BY <1>1, CountMore
<1>3. p = "append" => vd.seq \in Nat
  BY DEF TaskState
<1>4. CASE k.type \notin Verdicts
  <2>1. p # "project"
    BY <1>4
  <2>2. p = "append" => vd.seq <= LastSeq(T) /\ vd.seq # LastSeq(T)
    BY <1>1, <1>2, <1>3, <1>4 DEF TaskTxnGood
  <2> QED
    BY <2>1, <2>2 DEF TaskTxnGood
<1>5. CASE k.type \in Verdicts
  <2>1. LastSeq(T) = LastSeq(S)
    BY <1>2, <1>5
  <2>2. ASSUME Quiet(T)
        PROVE  /\ Quiet(S) /\ Fold(S).status = "VERIFYING" /\ Live(S) /\ Live(T) /\ Late(T) /\ ~Late(S)
    <3>1. Quiet(S) /\ Live(S) /\ Verifying(Fold(S), k.run)
      BY <1>5, <2>2, InOrder
    <3>2. Late(T)
      BY <1>5, <2>2, VerdictIsLate
    <3>3. e.type # "TASK_CANCEL_REQUESTED"
      BY <1>1, <1>5 DEF Verdicts
    <3>4. Live(T)
      BY <3>1, <3>3, MoreEvents
    <3> QED
      BY <3>1, <3>2, <3>4 DEF Verifying, Late
  <2>3. ~Live(T) => ~Live(S)
    BY <1>1, <1>5, MoreEvents DEF Verdicts
  <2>4. Permitted(kd, Fold(S)) /\ Fold(S).status = "VERIFYING" => kd.type = "TASK_CANCEL_REQUESTED"
    BY OnlyCancelRequest
  <2>5. ASSUME p = "append"
        PROVE  /\ vd.seq <= LastSeq(T)
               /\ vd.seq = LastSeq(T) =>
                    /\ Quiet(T) => \/ vd = Fold(T) /\ Permitted(kd, vd)
                                   \/ kd.type = "TASK_CANCEL_REQUESTED" /\ Live(T) /\ Late(T)
                    /\ ~Live(T) => kd.type = "TASK_CANCELLED"
    BY <2>1, <2>2, <2>3, <2>4, <2>5 DEF TaskTxnGood
  <2>6. ASSUME p = "project"
        PROVE  /\ Quiet(T) => kd.type = "TASK_CANCEL_REQUESTED" /\ Live(T) /\ Late(T)
               /\ ~Live(T) => kd.type = "TASK_CANCELLED"
    BY <2>2, <2>3, <2>4, <2>6 DEF TaskTxnGood
  <2> HIDE DEF T
  <2>7. TaskTxnGood(T, p, kd, vd, pd)
    BY <2>5, <2>6, Zenon DEF TaskTxnGood
  <2> QED
    BY <2>7 DEF T
<1> QED
  BY <1>4, <1>5

\* The Events that a load in two parts will have seen.
LEMMA PrefixAfter ==
  ASSUME NEW S, NEW k, NEW n, NEW vw, NEW e, Entering(S, k, n, vw, e), NEW sn \in Nat, sn <= LastSeq(S)
  PROVE  /\ k.type \notin Verdicts => Merged(Prefix(S \cup {e}, sn), S \cup {e}) = Merged(Prefix(S, sn), S)
         /\ k.type \in Verdicts =>
              \/ Merged(Prefix(S \cup {e}, sn), S \cup {e}) = Merged(Prefix(S, sn), S)
              \/ Merged(Prefix(S \cup {e}, sn), S \cup {e}) = Merged(Prefix(S, sn), S) \cup {e}
         /\ Merged(Prefix(S, sn), S) \subseteq S
<1> DEFINE T == S \cup {e}
           P == Prefix(S, sn)
           Heads(Q) == {x \in Q : x.type = "TASK_VERIFICATION_STARTED"}
<1>1. /\ LastSeq(S) \in Nat /\ e.type = k.type /\ IsFiniteSet(S) /\ e \notin S
      /\ (e.type \in TaskTypes <=> e.type \notin Verdicts)
  BY EntersAs DEF Entering
<1>2. Prefix(T, sn) = P
  <2>1. CASE k.type \notin Verdicts
    <3>1. ~(e.seq <= sn)
      BY <1>1, <2>1 DEF Entering
    <3> QED
      BY <3>1 DEF Prefix, TaskStream
  <2>2. CASE k.type \in Verdicts
    BY <1>1, <2>2, CountMore DEF Prefix
  <2> QED
    BY <2>1, <2>2
<1>3. P \subseteq S
  BY DEF Prefix, TaskStream
<1> HIDE DEF P
<1>4. \A U, y : y \in Merged(P, U) <=> y \in P \/ \E x \in Heads(P) : y \in RunStream(U, x.arg)
  BY DEF Merged
<1>8. \A U, V : (\A y : y \in Merged(P, U) <=> y \in Merged(P, V)) => Merged(P, U) = Merged(P, V)
  <2> TAKE U, V
  <2> DEFINE M == Merged(P, U)
             N == Merged(P, V)
  <2> HIDE DEF M, N
  <2>1. (\A y : y \in M <=> y \in N) => M = N
    OBVIOUS
  <2> QED
    BY <2>1 DEF M, N
<1>5. ASSUME k.type \notin Verdicts PROVE Merged(P, T) = Merged(P, S)
  <2>1. \A v : RunStream(T, v) = RunStream(S, v)
    BY <1>1, <1>5, CountMore
  <2>2. \A y : y \in Merged(P, T) <=> y \in Merged(P, S)
    BY <1>4, <2>1
  <2> QED
    BY <1>8, <2>2
<1>6. ASSUME k.type \in Verdicts PROVE Merged(P, T) = Merged(P, S) \/ Merged(P, T) = Merged(P, S) \cup {e}
  <2>1. /\ RunStream(T, e.arg) = RunStream(S, e.arg) \cup {e}
        /\ \A v : v # e.arg => RunStream(T, v) = RunStream(S, v)
    BY <1>1, <1>6, CountMore
  <2>2. CASE \E x \in Heads(P) : x.arg = e.arg
    <3>1. \A y : y \in Merged(P, T) <=> y \in Merged(P, S) \cup {e}
      <4> HIDE DEF T, Heads
      <4> QED
        BY <1>4, <2>1, <2>2
    <3> QED
      BY <3>1
  <2>3. CASE \A x \in Heads(P) : x.arg # e.arg
    <3>1. \A x \in Heads(P) : RunStream(T, x.arg) = RunStream(S, x.arg)
      BY <2>1, <2>3
    <3>2. \A y : y \in Merged(P, T) <=> y \in Merged(P, S)
      BY <1>4, <3>1
    <3> QED
      BY <1>8, <3>2
  <2> QED
    BY <2>2, <2>3
<1>7. Merged(P, S) \subseteq S
  BY <1>3 DEF Merged, RunStream
<1> QED
  BY <1>2, <1>5, <1>6, <1>7 DEF P

\* Another verdict's transaction, after the commit.
LEMMA VerdictTxnAfter ==
  ASSUME NEW S, NEW k, NEW sn, NEW vw, NEW e, NEW pj, NEW rn, Entering(S, k, sn, vw, e), TaskGood(S, pj, rn),
         NEW p, NEW kd, NEW sd \in Nat, NEW vd, NEW pd, VerdictTxnGood(S, p, kd, sd, vd, pd),
         k.type \in Verdicts => kd.run # k.run, p = "runs" => sd <= LastSeq(S),
         p \in {"reload", "project"} => pd.rec \in Nat
  PROVE  VerdictTxnGood(S \cup {e}, p, kd, sd, vd, pd)
<1> DEFINE T == S \cup {e}
<1> SUFFICES ASSUME Quiet(T) PROVE VerdictTxnGood(T, p, kd, sd, vd, pd)
  BY DEF VerdictTxnGood
<1>1. /\ Quiet(S) /\ Above(e.rec, S) /\ (k.type \notin Verdicts => Permitted(k, Fold(S)))
      /\ (k.type \in Verdicts => Live(S) /\ Verifying(Fold(S), k.run))
  BY InOrder
<1>2. ASSUME Verifying(Fold(S), kd.run)
      PROVE  /\ CanCross(T, kd.run, MaxRec + 1)
             /\ \A n \in Nat : Above(n, S) => CanCross(T, kd.run, n)
  <2>1. k.type \notin Verdicts
    BY <1>1, <1>2 DEF Verifying
  <2> QED
    BY <1>2, <2>1, CancelCanCross
<1>3. \A n : CanCross(S, kd.run, n) => CanCross(T, kd.run, n)
  BY MoreEvents
<1>4. ASSUME p = "runs", Verifying(Fold(Merged(Prefix(T, sd), T)), kd.run)
      PROVE  CanCross(T, kd.run, MaxRec + 1)
  <2> DEFINE M == Merged(Prefix(S, sd), S)
             N == Merged(Prefix(T, sd), T)
  <2>1. M \subseteq S /\ (N = M \/ (N = M \cup {e} /\ k.type \in Verdicts))
    BY <1>4, PrefixAfter
  <2>2. Verifying(Fold(M), kd.run) => (Live(S) /\ Fold(M) = Fold(S)) \/ CanCross(S, kd.run, MaxRec + 1)
    BY <1>1, <1>4 DEF VerdictTxnGood
  <2>3. Verifying(Fold(M), kd.run) => CanCross(T, kd.run, MaxRec + 1)
    BY <1>2, <1>3, <2>2
  <2>4. CASE N = M
    BY <1>4, <2>3, <2>4
  <2>5. CASE N = M \cup {e} /\ k.type \in Verdicts
    <3>1. Recorded(M \cup {e}) /\ Recorded(M) /\ e.type \in Verdicts /\ Above(e.rec, M)
      BY <1>1, <2>1, <2>5 DEF Entering, Recorded, Above
    <3>2. Fold(N) = ApplyEvent(Fold(M), e) /\ Fold(M) \in TaskState
      BY <2>5, <3>1, FoldNext, FoldSays
    <3>3. Verifying(ApplyEvent(Fold(M), e), kd.run)
      BY <1>4, <3>2
    <3>4. CASE Verifying(Fold(M), e.arg)
      <4>1. Carries(e)
        BY EntersAs
      <4>2. InTable(Fold(M).status, e.type, ApplyEvent(Fold(M), e).status)
        BY <3>1, <3>2, <3>4, <4>1, Applies
      <4> QED
        BY <3>1, <3>3, <4>2 DEF InTable, Verifying, Verdicts
    <3>5. CASE ~Verifying(Fold(M), e.arg)
      <4>1. ApplyEvent(Fold(M), e) = Fold(M)
        <5>1. ~(e.arg = Fold(M).active /\ Allowed(Fold(M).status, e.type))
          <6> SUFFICES ASSUME e.arg = Fold(M).active, Allowed(Fold(M).status, e.type) PROVE FALSE
            OBVIOUS
          <6>1. InTable(Fold(M).status, e.type, NextStatus(Fold(M).status, e.type))
            BY AllowedMove
          <6> QED
            BY <3>1, <3>5, <6>1 DEF InTable, Verdicts, Verifying
        <5> QED
          BY <3>1, <5>1 DEF ApplyEvent, ApplyVerdict
      <4> QED
        BY <2>3, <3>3, <4>1
    <3> QED
      BY <3>4, <3>5
  <2> QED
    BY <2>1, <2>4, <2>5
<1>5. ASSUME p = "append"
      PROVE  CanCross(T, kd.run, MaxRec + 1)
  BY <1>1, <1>2, <1>3, <1>5 DEF VerdictTxnGood
<1>6. ASSUME p \in {"reload", "project"}
      PROVE  CanCross(T, kd.run, pd.rec)
  BY <1>1, <1>2, <1>3, <1>6 DEF VerdictTxnGood
<1> HIDE DEF T
<1> QED
  BY <1>4, <1>5, <1>6 DEF VerdictTxnGood

\* The Event of another open transaction, after the commit.
LEMMA PendAfter ==
  ASSUME NEW S, NEW k, NEW sn, NEW vw, NEW e, Entering(S, k, sn, vw, e),
         NEW p, NEW kd \in Commands, NEW pd, PendGood(S, p, kd, pd),
         pd # None => pd.rec # e.rec /\ (pd.type \in Verdicts \/ e.type \in Verdicts),
         k.type \in Verdicts /\ kd.type \in Verdicts => kd.run # k.run
  PROVE  PendGood(S \cup {e}, p, kd, pd)
<1> DEFINE T == S \cup {e}
<1>1. /\ e.type = k.type /\ IsFiniteSet(S) /\ e \notin S /\ (e.type \in TaskTypes <=> e.type \notin Verdicts)
      /\ (k.type \in Verdicts => k.run = e.arg) /\ \A t \in TaskTypes : t \notin Verdicts
  BY EntersAs, TypesAre DEF Entering
<1>2. Started(S, kd.run) => Started(T, kd.run)
  BY MoreEvents
<1>3. ASSUME pd # None
      PROVE  /\ \A x \in T : x.rec # pd.rec
             /\ pd.type \in TaskTypes => pd.seq = LastSeq(T) + 1 /\ Above(pd.rec, TaskStream(T))
             /\ pd.type \in Verdicts => Above(pd.rec, RunStream(T, kd.run))
  <2>1. /\ \A x \in S : x.rec # pd.rec
        /\ pd.type \in TaskTypes => pd.seq = LastSeq(S) + 1 /\ Above(pd.rec, TaskStream(S))
        /\ pd.type \in Verdicts => Above(pd.rec, RunStream(S, kd.run))
        /\ pd.type = kd.type
    BY <1>3 DEF PendGood
  <2>2. ASSUME pd.type \in TaskTypes PROVE LastSeq(T) = LastSeq(S) /\ TaskStream(T) = TaskStream(S)
    BY <1>1, <1>3, <2>2, CountMore
  <2>3. ASSUME pd.type \in Verdicts PROVE RunStream(T, kd.run) = RunStream(S, kd.run)
    <3>1. k.type \in Verdicts => kd.run # e.arg
      BY <1>1, <2>1, <2>3
    <3>2. CASE k.type \in Verdicts
      <4>1. \A u : u # e.arg => RunStream(T, u) = RunStream(S, u)
        BY <1>1, <3>2, CountMore
      <4> QED
        BY <3>1, <3>2, <4>1
    <3>3. CASE k.type \notin Verdicts
      BY <1>1, <3>3, CountMore
    <3> QED
      BY <3>2, <3>3
  <2> QED
    BY <1>3, <2>1, <2>2, <2>3
<1> HIDE DEF T
<1>4. PendGood(T, p, kd, pd)
  BY <1>2, <1>3 DEF PendGood
<1> QED
  BY <1>4 DEF T

\* Another transaction, after the commit; rows of other runs do not change.
LEMMA LocalAfter ==
  ASSUME NEW S, NEW k, NEW sn, NEW vw, NEW e, Entering(S, k, sn, vw, e),
         NEW rn, NEW new, NEW p, NEW kd, NEW sd, NEW vd, NEW pd, NEW nd,
         LocalGood(S, rn, p, kd, sd, vd, pd, nd),
         pd # None => pd.rec # e.rec /\ (pd.type \in Verdicts \/ e.type \in Verdicts),
         p # "idle" /\ k.run \in Runs => kd.run # k.run,
         \A u \in Runs : u # k.run => new[u] = rn[u]
  PROVE  LocalGood(S \cup {e}, new, p, kd, sd, vd, pd, nd)
<1>1. /\ LastSeq(S) \in Nat /\ e.type = k.type /\ IsFiniteSet(S) /\ e \notin S /\ k \in Commands
      /\ (e.type \in TaskTypes <=> e.type \notin Verdicts)
  BY EntersAs DEF Entering
<1>2. LastSeq(S \cup {e}) \in Nat /\ LastSeq(S) <= LastSeq(S \cup {e})
  <2>1. LastSeq(S \cup {e}) = LastSeq(S) \/ LastSeq(S \cup {e}) = LastSeq(S) + 1
    BY <1>1, CountMore
  <2> QED
    BY <1>1, <2>1
<1>3. ASSUME p # "idle"
      PROVE  PendGood(S \cup {e}, p, kd, pd) /\ RowGood(new, kd, nd)
  <2>1. kd \in Commands /\ PendGood(S, p, kd, pd) /\ RowGood(rn, kd, nd)
    BY <1>3 DEF LocalGood
  <2>2. k.type \in Verdicts => k.run \in Runs
    BY <1>1, CommandsAre
  <2>3. k.type \in Verdicts /\ kd.type \in Verdicts => kd.run # k.run
    BY <1>3, <2>2
  <2>4. PendGood(S \cup {e}, p, kd, pd)
    BY <2>1, <2>3, PendAfter
  <2>5. kd \in RunCommands => kd.run \in Runs
    BY <2>1, CommandsAre
  <2>6. kd \in RunCommands => new[kd.run] = rn[kd.run]
    BY <1>3, <2>5
  <2>7. RowGood(new, kd, nd)
    BY <2>1, <2>6 DEF RowGood
  <2> QED
    BY <2>4, <2>7
<1>4. p = "runs" /\ sd \in Nat /\ sd <= LastSeq(S) => sd <= LastSeq(S \cup {e})
  BY <1>1, <1>2
<1> QED
  BY <1>3, <1>4 DEF LocalGood

\* The run's row and stream, after the commit.
RowsAfter(rn, k, nw) == IF nw = None THEN rn ELSE [rn EXCEPT ![k.run] = nw]
RunsGood(S, rn) == \A v \in Runs : RunGood(S, rn[v], v)
LEMMA RunAfter ==
  ASSUME NEW S, NEW k, NEW sn, NEW vw, NEW e, Entering(S, k, sn, vw, e),
         NEW rn \in [Runs -> RunRow \cup {None}], NEW nw \in RunRow \cup {None}, RowGood(rn, k, nw),
         RunsGood(S, rn), NEW new, new = RowsAfter(rn, k, nw)
  PROVE  /\ new \in [Runs -> RunRow \cup {None}] /\ RunsGood(S \cup {e}, new)
         /\ \A u \in Runs : u # k.run => new[u] = rn[u]
         /\ k.type = "TASK_VERIFICATION_STARTED" =>
              new[k.run] # None /\ new[k.run].status \in {"RUNNING", "CANCELLED"}
<1> DEFINE T == S \cup {e}
<1>1. /\ Recorded(S) /\ e.type = k.type /\ IsFiniteSet(S) /\ e \notin S /\ k \in Commands /\ e.rec \in Nat
      /\ (e.type \in TaskTypes <=> e.type \notin Verdicts)
      /\ (k.type \in Verdicts => k.run = e.arg /\ Above(e.rec, RunStream(S, k.run)))
  BY EntersAs DEF Entering
<1>4. \A v \in Runs : RunGood(S, rn[v], v)
  BY DEF RunsGood
<1>5. new = IF nw = None THEN rn ELSE [rn EXCEPT ![k.run] = nw]
  BY DEF RowsAfter
<1>2. CASE k \in TaskCommands
  <2>1. nw = None /\ new = rn /\ k.type \notin Verdicts /\ k.type # "TASK_VERIFICATION_STARTED"
    BY <1>1, <1>2, <1>5, CommandsAre, TypesAre DEF RowGood
  <2>2. \A v \in Runs : RunStream(T, v) = RunStream(S, v)
    BY <1>1, <2>1, CountMore
  <2>3. \A v \in Runs : RunGood(T, rn[v], v)
    BY <1>4, <2>2 DEF RunGood
  <2> QED
    BY <2>1, <2>3 DEF RunsGood
<1>3. CASE k \in RunCommands
  <2> DEFINE v == k.run
             old == rn[v]
  <2>1. /\ v \in Runs /\ rn[v] # None /\ rn[v] \in RunRow
        /\ IF k.type \in Verdicts THEN nw = AppendRevision(old, k.type)
           ELSE nw = [old EXCEPT !.status = "RUNNING"]
    BY <1>1, <1>3, CommandsAre DEF RowGood
  <2>2. nw \in RunRow /\ nw # None
    <3>1. nw \in RunRow
      BY <2>1, RowMoves
    <3> QED
      BY <3>1, NoneAssumption DEF RunRow
  <2>3. new = [rn EXCEPT ![v] = nw]
    BY <1>5, <2>2
  <2>4. new \in [Runs -> RunRow \cup {None}] /\ new[v] = nw /\ \A u \in Runs : u # v => new[u] = rn[u]
    BY <2>1, <2>3
  <2>5. old.revision \in Nat /\ RunGood(S, old, v) /\ old # None
    BY <1>4, <2>1 DEF RunRow
  <2>6. Cardinality(RunStream(S, v)) = old.revision
    BY <2>5 DEF RunGood
  <2> HIDE DEF v, old
  <2>7. CASE k.type \in Verdicts
    <3>1. nw.revision = old.revision + 1 /\ nw.status = ResultOf[e.type]
      BY <1>1, <2>1, <2>7 DEF AppendRevision
    <3>2. /\ RunStream(T, v) = RunStream(S, v) \cup {e}
          /\ Cardinality(RunStream(T, v)) = Cardinality(RunStream(S, v)) + 1
          /\ \A u : u # v => RunStream(T, u) = RunStream(S, u)
      <4>1. /\ RunStream(T, e.arg) = RunStream(S, e.arg) \cup {e}
            /\ Cardinality(RunStream(T, e.arg)) = Cardinality(RunStream(S, e.arg)) + 1
            /\ \A u : u # e.arg => RunStream(T, u) = RunStream(S, u)
        BY <1>1, <2>7, CountMore
      <4>2. v = e.arg
        BY <1>1, <2>7 DEF v
      <4> QED
        BY <4>1, <4>2
    <3>3. \A g \in RunStream(T, v) : g.rec <= e.rec
      <4>1. \A g \in RunStream(S, v) : g.rec < e.rec /\ g.rec \in Nat
        BY <1>1, <2>7 DEF v, Above, RunStream, Recorded, Carries, Event
      <4>2. \A g \in RunStream(T, v) : g \in RunStream(S, v) \/ g = e
        BY <3>2
      <4> QED
        BY <1>1, <4>1, <4>2
    <3>4. RunGood(T, nw, v)
      <4>1. e \in RunStream(T, v)
        BY <3>2
      <4> QED
        BY <2>2, <2>6, <3>1, <3>2, <3>3, <4>1 DEF RunGood
    <3>5. \A u \in Runs : u # v => RunGood(T, rn[u], u)
      BY <1>4, <3>2 DEF RunGood
    <3>6. k.type # "TASK_VERIFICATION_STARTED"
      BY <2>7 DEF Verdicts
    <3> QED
      BY <2>4, <3>4, <3>5, <3>6 DEF v, RunsGood
  <2>8. CASE k.type \notin Verdicts
    <3>1. \A u : RunStream(T, u) = RunStream(S, u)
      BY <1>1, <2>8, CountMore
    <3>2. nw.revision = old.revision /\ nw.status = "RUNNING"
      BY <2>1, <2>8 DEF v, old, RunRow
    <3>3. "RUNNING" \notin {ResultOf[t] : t \in Verdicts}
      BY DEF ResultOf, Verdicts
    <3>4. RunGood(T, nw, v)
      BY <2>2, <2>6, <3>1, <3>2, <3>3 DEF RunGood
    <3>5. \A u \in Runs : u # v => RunGood(T, rn[u], u)
      BY <1>4, <3>1 DEF RunGood
    <3> QED
      BY <2>2, <2>4, <3>2, <3>4, <3>5 DEF v, RunsGood
  <2> QED
    BY <2>7, <2>8
<1> QED
  BY <1>1, <1>2, <1>3 DEF Commands

\* A completion comes on the verdict that made the Task VERIFIED.
LEMMA CompletionAfter ==
  ASSUME CompletionVerified, NEW k, NEW sn, NEW vw, NEW e, Entering(log, k, sn, vw, e),
         TaskGood(log, proj, run), log' = log \cup {e}
  PROVE  CompletionVerified'
<1> DEFINE About == Verdicts \cup {"IMPLEMENTATION_SUBMITTED", "TASK_VERIFICATION_STARTED"}
<1>1. ASSUME NEW x \in log, x.type = "TASK_COMPLETED" PROVE FALSE
  BY <1>1, CompletedIsLast
<1>2. ASSUME e.type = "TASK_COMPLETED"
      PROVE  \E p \in log' : p.type = "VERIFICATION_PASSED" /\ IsLatest(p, Before(e, About)')
  <2>1. e.type = k.type /\ k.type \notin Verdicts /\ k.type # "TASK_CANCELLED"
        /\ k.type # "TASK_CANCEL_REQUESTED"
    BY <1>2 DEF Entering, Verdicts
  <2>2. Live(log) /\ Quiet(log)
    BY <2>1, LiveOrCancelled
  <2>3. Permitted(k, Fold(log)) /\ Above(e.rec, log)
    BY <2>1, <2>2 DEF Entering, TaskTxnGood
  <2>4. Allowed(Fold(log).status, k.type)
    BY <2>1, <2>3 DEF Permitted, Verdicts
  <2>5. Fold(log).status = "VERIFIED"
    BY <1>2, <2>1, <2>4, AllowedMove DEF InTable
  <2>6. PICK p \in log : p.type = "VERIFICATION_PASSED" /\ \A g \in log : g.type \in About => g.rec <= p.rec
    BY <2>2, <2>5 DEF TaskGood
  <2>7. p.rec < e.rec /\ p.type \in About
    BY <2>3, <2>6 DEF Above, Verdicts
  <2>8. p \in Before(e, About)'
    BY <2>6, <2>7 DEF Before
  <2>9. \A g \in Before(e, About)' : g \in log /\ g.type \in About
    <3>1. e.rec \in Nat
      BY EntersAs
    <3> QED
      BY <3>1 DEF Before
  <2> QED
    BY <2>6, <2>8, <2>9 DEF IsLatest
<1> QED
  BY <1>1, <1>2 DEF CompletionVerified, Before

\* An acceptance is by the account of the last assignment.
LEMMA AcceptedAfter ==
  ASSUME AcceptedByAssignee, NEW k, NEW sn, NEW vw, NEW e, Entering(log, k, sn, vw, e),
         TaskGood(log, proj, run), log' = log \cup {e}
  PROVE  AcceptedByAssignee'
<1>1. /\ e.rec \in Nat /\ (\A x \in log : x.rec \in Nat /\ x.type \in Types)
      /\ (e.type \in TaskTypes <=> e.type \notin Verdicts)
      /\ e.type = k.type /\ e.arg = k.arg
  BY EntersAs DEF Entering
<1>2. \A t \in Assignments : t \in TaskTypes /\ t \notin Verdicts
  BY TypesAre
<1>3. ASSUME NEW x \in log, x.type = "TASK_ACCEPTED" PROVE Before(x, Assignments)' = Before(x, Assignments)
  <2>1. e.type \notin Assignments \/ ~(e.rec < x.rec)
    <3> SUFFICES ASSUME e.type \in Assignments PROVE ~(e.rec < x.rec)
      OBVIOUS
    <3>1. Above(e.rec, TaskStream(log))
      BY <1>1, <1>2 DEF Entering
    <3>2. x \in TaskStream(log)
      BY <1>3, TypesAre DEF TaskStream
    <3> QED
      BY <1>1, <3>1, <3>2 DEF Above
  <2> QED
    BY <2>1 DEF Before
<1>4. ASSUME NEW x \in log, x.type = "TASK_ACCEPTED", NEW d \in log', IsLatest(d, Before(x, Assignments)')
      PROVE  d.arg = x.arg
  <2>1. IsLatest(d, Before(x, Assignments)) /\ d \in log
    BY <1>3, <1>4 DEF IsLatest, Before
  <2> QED
    BY <1>4, <2>1 DEF AcceptedByAssignee
<1>5. ASSUME e.type = "TASK_ACCEPTED", NEW d \in log', IsLatest(d, Before(e, Assignments)')
      PROVE  d.arg = e.arg
  <2>1. k.type \notin Verdicts /\ k.type # "TASK_CANCELLED" /\ k.type # "TASK_CANCEL_REQUESTED"
    BY <1>1, <1>5 DEF Verdicts
  <2>2. Live(log) /\ Quiet(log)
    BY <2>1, LiveOrCancelled
  <2>3. Permitted(k, Fold(log)) /\ Above(e.rec, log)
    BY <2>1, <2>2 DEF Entering, TaskTxnGood
  <2>4. Fold(log).assignee = k.arg
    BY <1>1, <1>5, <2>3 DEF Permitted, Verdicts
  <2>5. d \in log /\ d.type \in Assignments /\ \A g \in log : g.type \in Assignments => g.rec <= d.rec
    BY <1>1, <1>5, <2>3 DEF IsLatest, Before, Above
  <2>6. d.arg = Fold(log).assignee
    BY <2>2, <2>5 DEF TaskGood
  <2> QED
    BY <1>1, <2>4, <2>6
<1> QED
  BY <1>4, <1>5 DEF AcceptedByAssignee

\* A transaction with an Event commits.
LEMMA CommitEventStep ==
  ASSUME LifeInv, NEW c \in Clients, pc[c] = "project", Commit(c)
  PROVE  LifeInv'
<1> DEFINE k == cmd[c]
           nw == runNew[c]
           e == pend[c]
           vw == view[c]
           sn == seen[c]
           new == RowsAfter(run, k, nw)
<1>1. /\ LocalGood(log, run, pc[c], k, sn, vw, e, nw) /\ EventsGood /\ Exclusive(pc, cmd, pend)
      /\ TxnGood(log, pc[c], k, sn, vw, e) /\ TaskGood(log, proj, run) /\ run \in [Runs -> RunRow \cup {None}]
  BY OfOne
<1>2. /\ k \in Commands /\ PendGood(log, "project", k, e) /\ RowGood(run, k, nw) /\ vw \in TaskState
      /\ nw \in RunRow \cup {None}
  BY <1>1 DEF LocalGood
<1>3. e # None
  BY <1>2 DEF PendGood
<1>4. /\ log' = log \cup {e} /\ proj' = vw /\ run' = new /\ Finish(c)
  BY <1>3 DEF Commit, Own, RowsAfter
<1>5. /\ Recorded(log \cup {e}) /\ e \notin log
      /\ \A x \in log \cup {e} : x.type \in Verdicts => Started(log \cup {e}, x.arg)
  BY <1>3, WithEvent
<1>6. /\ e.type = k.type /\ e.arg = k.arg
      /\ (e.type \in TaskTypes => e.seq = LastSeq(log) + 1 /\ Above(e.rec, TaskStream(log)))
      /\ (e.type \in Verdicts => Above(e.rec, RunStream(log, k.run)))
      /\ (k.type \in Verdicts => Started(log, k.run))
  BY <1>2, <1>3 DEF PendGood
<1>7. Entering(log, k, sn, vw, e)
  <2>1. k.type \in Types /\ (k.type \in Verdicts => k.run = e.arg)
    BY <1>2, <1>6, CommandsAre
  <2>2. k.type \notin Verdicts => k.type \in TaskTypes
    BY <2>1, TypesAre
  <2>3. /\ k.type \notin Verdicts => TaskTxnGood(log, "project", k, vw, e)
        /\ k.type \in Verdicts => VerdictTxnGood(log, "project", k, sn, vw, e)
    BY <1>1 DEF TxnGood
  <2>4. IsFiniteSet(log) /\ \A x \in TaskStream(log) : x.seq <= LastSeq(log)
    BY <1>1 DEF EventsGood
  <2> HIDE DEF k, e, vw, sn
  <2> QED
    BY <1>2, <1>5, <1>6, <2>1, <2>2, <2>3, <2>4 DEF Entering
<1>8. MovesAll(c, "idle", None, 0, None, None, None) /\ MayHold(c, "idle", None, None)
  BY <1>4, FinishMoves, IdleIsGood
<1>9. Exclusive(pc', cmd', pend')
  BY <1>1, <1>8, StaysExclusive
<1>10. /\ DOMAIN pc' = Clients /\ DOMAIN cmd' = Clients /\ DOMAIN seen' = Clients
       /\ DOMAIN view' = Clients /\ DOMAIN pend' = Clients /\ DOMAIN runNew' = Clients
  BY <1>8 DEF MovesAll, Moves
<1>11. RunsGood(log, run)
  BY DEF LifeInv, RunsGood
<1> HIDE DEF new
<1>12. /\ new \in [Runs -> RunRow \cup {None}] /\ RunsGood(log \cup {e}, new)
       /\ \A u \in Runs : u # k.run => new[u] = run[u]
       /\ k.type = "TASK_VERIFICATION_STARTED" =>
            new[k.run] # None /\ new[k.run].status \in {"RUNNING", "CANCELLED"}
  <2>1. new = RowsAfter(run, k, nw)
    BY DEF new
  <2>2. /\ run \in [Runs -> RunRow \cup {None}] /\ nw \in RunRow \cup {None} /\ RowGood(run, k, nw)
    BY <1>1, <1>2
  <2> HIDE DEF k, e, vw, sn, nw
  <2> QED
    BY <1>7, <1>11, <2>1, <2>2, RunAfter
<1>13. TaskGood(log \cup {e}, vw, new)
  <2> HIDE DEF k, e, vw, sn
  <2> QED
    BY <1>1, <1>7, <1>12, TaskAfter
<1>14. CompletionVerified' /\ AcceptedByAssignee'
  <2>1. CompletionVerified /\ AcceptedByAssignee
    BY DEF LifeInv
  <2> HIDE DEF k, e, vw, sn
  <2> QED
    BY <1>1, <1>4, <1>7, <2>1, CompletionAfter, AcceptedAfter
<1>15. ASSUME NEW d \in Clients
       PROVE  /\ LocalGood(log', run', pc'[d], cmd'[d], seen'[d], view'[d], pend'[d], runNew'[d])
              /\ TxnGood(log', pc'[d], cmd'[d], seen'[d], view'[d], pend'[d])
  <2>1. CASE d = c
    <3>1. /\ pc'[d] = "idle" /\ cmd'[d] = None /\ seen'[d] = 0 /\ view'[d] = None
          /\ pend'[d] = None /\ runNew'[d] = None
      BY <1>8, <2>1 DEF MovesAll, Moves
    <3> QED
      BY <3>1 DEF LocalGood, TxnGood, Places
  <2>2. CASE d # c
    <3> DEFINE p == pc[d]
               kd == cmd[d]
               sd == seen[d]
               vd == view[d]
               pd == pend[d]
               nd == runNew[d]
    <3>1. /\ pc'[d] = p /\ cmd'[d] = kd /\ seen'[d] = sd /\ view'[d] = vd
          /\ pend'[d] = pd /\ runNew'[d] = nd
      BY <1>8, <2>2 DEF MovesAll, Moves
    <3>2. LocalGood(log, run, p, kd, sd, vd, pd, nd) /\ TxnGood(log, p, kd, sd, vd, pd)
      BY OfOne
    <3>3. pd # None => pd.rec # e.rec /\ (pd.type \in Verdicts \/ e.type \in Verdicts)
      BY <1>1, <1>3, <2>2 DEF Exclusive
    <3>4. p # "idle" /\ k.run \in Runs => kd.run # k.run
      BY <1>1, <2>2 DEF Exclusive
    <3> HIDE DEF p, kd, sd, vd, pd, nd, k, e, vw, sn, nw
    <3>5. LocalGood(log \cup {e}, new, p, kd, sd, vd, pd, nd)
      BY <1>7, <1>12, <3>2, <3>3, <3>4, LocalAfter
    <3>6. ASSUME p # "idle" PROVE TxnGood(log \cup {e}, p, kd, sd, vd, pd)
      <4>1. /\ kd \in Commands /\ PendGood(log, p, kd, pd) /\ sd \in Nat
            /\ (p = "runs" => sd <= LastSeq(log)) /\ (p \in {"append", "project"} => vd \in TaskState)
        BY <3>2, <3>6 DEF LocalGood
      <4>2. p \in {"reload", "project"} => pd # None /\ pd.type = kd.type /\ pd.rec \in Nat
        BY <4>1 DEF PendGood, Carries, Event
      <4>3. k.type \in Verdicts => k.run \in Runs
        BY <1>2, CommandsAre
      <4>4. CASE kd.type \notin Verdicts
        <5>1. TaskTxnGood(log, p, kd, vd, pd)
          BY <3>2, <3>6, <4>4 DEF TxnGood
        <5>2. p = "project" => k.type \in Verdicts
          BY <1>6, <3>3, <4>2, <4>4
        <5>3. p = "append" => vd \in TaskState
          BY <4>1
        <5>4. TaskTxnGood(log \cup {e}, p, kd, vd, pd)
          BY <1>1, <1>7, <4>4, <5>1, <5>2, <5>3, TaskTxnAfter
        <5> QED
          BY <4>4, <5>4 DEF TxnGood
      <4>5. CASE kd.type \in Verdicts
        <5>1. VerdictTxnGood(log, p, kd, sd, vd, pd)
          BY <3>2, <3>6, <4>5 DEF TxnGood
        <5>2. k.type \in Verdicts => kd.run # k.run
          BY <3>4, <3>6, <4>3
        <5>3. p \in {"reload", "project"} => pd.rec \in Nat
          BY <4>2
        <5>4. VerdictTxnGood(log \cup {e}, p, kd, sd, vd, pd)
          BY <1>1, <1>7, <4>1, <5>1, <5>2, <5>3, VerdictTxnAfter
        <5> QED
          BY <4>5, <5>4 DEF TxnGood
      <4> QED
        BY <4>4, <4>5
    <3>7. TxnGood(log \cup {e}, p, kd, sd, vd, pd)
      BY <3>6 DEF TxnGood
    <3> QED
      BY <1>4, <3>1, <3>5, <3>7
  <2> QED
    BY <2>1, <2>2
<1>16. EventsGood'
  <2>1. IsFiniteSet(log \cup {e})
    BY <1>1, FS_AddElement DEF EventsGood
  <2>2. \A x \in TaskStream(log \cup {e}) : x.seq <= LastSeq(log \cup {e})
    <3> HIDE DEF k, e, vw, sn
    <3>1. /\ LastSeq(log) \in Nat /\ IsFiniteSet(log) /\ e \notin log
          /\ (e.type \in TaskTypes <=> e.type \notin Verdicts)
          /\ \A x \in log : x.seq \in Nat
      BY <1>7, EntersAs DEF Entering
    <3>2. \A x \in TaskStream(log) : x.seq <= LastSeq(log) /\ x \in log
      BY <1>1 DEF EventsGood, TaskStream
    <3>3. CASE e.type \in TaskTypes
      <4>1. TaskStream(log \cup {e}) = TaskStream(log) \cup {e} /\ LastSeq(log \cup {e}) = LastSeq(log) + 1
        BY <3>1, <3>3, CountMore
      <4>2. e.seq = LastSeq(log) + 1
        BY <1>6, <3>3
      <4>3. ASSUME NEW x \in TaskStream(log) PROVE x.seq <= LastSeq(log) + 1
        BY <3>1, <3>2
      <4> TAKE x \in TaskStream(log \cup {e})
      <4>4. x \in TaskStream(log) \/ x = e
        BY <4>1
      <4>5. x = e => x.seq <= LastSeq(log) + 1
        BY <3>1, <4>2
      <4>6. x.seq <= LastSeq(log) + 1
        BY <4>3, <4>4, <4>5
      <4> QED
        BY <4>1, <4>6
    <3>4. CASE e.type \in Verdicts
      <4>1. TaskStream(log \cup {e}) = TaskStream(log) /\ LastSeq(log \cup {e}) = LastSeq(log)
        BY <3>1, <3>4, CountMore
      <4> QED
        BY <3>2, <4>1
    <3> QED
      BY <3>1, <3>3, <3>4
  <2> QED
    BY <1>4, <1>5, <2>1, <2>2 DEF EventsGood
<1> HIDE DEF k, e, vw, sn, nw
<1> QED
  BY <1>2, <1>4, <1>9, <1>10, <1>12, <1>13, <1>14, <1>15, <1>16 DEF LifeInv, RunsGood

-----------------------------------------------------------------------------
(***************************************************************************)
(* The invariant holds at the start and over every step.                   *)
(***************************************************************************)
\* A Task that has just been created.
LEMMA LifeInit == Init => LifeInv
<1> SUFFICES ASSUME Init PROVE LifeInv
  OBVIOUS
<1>1. /\ log = {} /\ proj = NewTask /\ run = [v \in Runs |-> None]
      /\ pc = [c \in Clients |-> "idle"] /\ cmd = [c \in Clients |-> None] /\ seen = [c \in Clients |-> 0]
      /\ view = [c \in Clients |-> None] /\ pend = [c \in Clients |-> None]
      /\ runNew = [c \in Clients |-> None]
  BY DEF Init
<1>2. Recorded({}) /\ IsFiniteSet({})
  BY FS_EmptySet DEF Recorded
<1>3. LastSeq({}) = 1
  <2>1. TaskStream({}) = {} /\ Cardinality({}) = 0
    BY FS_EmptySet DEF TaskStream
  <2> QED
    BY <2>1 DEF LastSeq
<1>4. Fold({}) = NewTask
  <2>1. LastRec({}) = 0
    BY <1>2, LastRecIs
  <2>2. PICK f : Folds({}, f, 0) /\ Fold({}) = f[0]
    BY <1>2, <2>1, FoldIs
  <2> QED
    BY <2>2, FoldsStep
<1>5. NewTask \in TaskState /\ NewTask.status = "OPEN" /\ NewTask.seq = 1
  BY TypesAre DEF NewTask, TaskState
<1>6. TaskGood({}, NewTask, run)
  BY <1>3, <1>4, <1>5 DEF TaskGood
<1>7. EventsGood
  BY <1>1, <1>2 DEF EventsGood, TaskStream
<1>8. \A v \in Runs : RunGood(log, run[v], v)
  BY <1>1 DEF RunGood, RunStream
<1>9. ASSUME NEW c \in Clients
      PROVE  /\ LocalGood(log, run, pc[c], cmd[c], seen[c], view[c], pend[c], runNew[c])
             /\ TxnGood(log, pc[c], cmd[c], seen[c], view[c], pend[c])
  BY <1>1 DEF LocalGood, TxnGood, Places
<1>10. Exclusive(pc, cmd, pend)
  BY <1>1 DEF Exclusive
<1>11. CompletionVerified /\ AcceptedByAssignee
  BY <1>1 DEF CompletionVerified, AcceptedByAssignee
<1>12. run \in [Runs -> RunRow \cup {None}]
  BY <1>1
<1>13. /\ DOMAIN pc = Clients /\ DOMAIN cmd = Clients /\ DOMAIN seen = Clients
       /\ DOMAIN view = Clients /\ DOMAIN pend = Clients /\ DOMAIN runNew = Clients
  BY <1>1
<1> QED
  BY <1>1, <1>5, <1>6, <1>7, <1>8, <1>9, <1>10, <1>11, <1>12, <1>13 DEF LifeInv

\* A commit, with an Event or without.
LEMMA CommitStep ==
  ASSUME LifeInv, NEW c \in Clients, Commit(c)
  PROVE  LifeInv'
<1>1. pc[c] = "project" \/ pc[c] = "done"
  BY DEF Commit
<1> QED
  BY <1>1, CommitEventStep, CommitDoneStep

\* Steps that change nothing.
LEMMA LifeStutter ==
  ASSUME LifeInv, UNCHANGED vars
  PROVE  LifeInv'
<1>1. /\ log' = log /\ proj' = proj /\ run' = run /\ pc' = pc /\ cmd' = cmd /\ seen' = seen
      /\ view' = view /\ pend' = pend /\ runNew' = runNew
  BY DEF vars, txnVars
<1> QED
  BY <1>1 DEF LifeInv, EventsGood, CompletionVerified, AcceptedByAssignee, Before, IsLatest

\* Every step.
LEMMA LifeStep ==
  ASSUME LifeInv, [Next]_vars
  PROVE  LifeInv'
<1>1. ASSUME NEW v \in Runs, CreateRun(v) PROVE LifeInv'
  BY <1>1, CreateRunStep
<1>2. ASSUME NEW v \in Runs, MoveRun(v) PROVE LifeInv'
  BY <1>2, MoveRunStep
<1>3. ASSUME NEW c \in Clients, BeginTask(c) PROVE LifeInv'
  BY <1>3, BeginTaskStep
<1>4. ASSUME NEW c \in Clients, NEW k \in RunCommands, BeginRun(c, k) PROVE LifeInv'
  BY <1>4, BeginRunStep
<1>5. ASSUME NEW c \in Clients, LoadForRun(c) PROVE LifeInv'
  BY <1>5, LoadForRunStep
<1>6. ASSUME NEW c \in Clients, LoadRuns(c) PROVE LifeInv'
  BY <1>6, LoadRunsStep
<1>7. ASSUME NEW c \in Clients, AppendEvent(c) PROVE LifeInv'
  BY <1>7, AppendEventStep
<1>8. ASSUME NEW c \in Clients, Reload(c) PROVE LifeInv'
  BY <1>8, ReloadStep
<1>9. ASSUME NEW c \in Clients, Commit(c) PROVE LifeInv'
  BY <1>9, CommitStep
<1>10. ASSUME NEW c \in Clients, Rollback(c) PROVE LifeInv'
  BY <1>10, RollbackStep
<1>11. CASE UNCHANGED vars
  BY <1>11, LifeStutter
<1> QED
  BY <1>1, <1>2, <1>3, <1>4, <1>5, <1>6, <1>7, <1>8, <1>9, <1>10, <1>11 DEF Next

\* The Events, the projection, the rows and the transactions stay as the
\* invariant says.
THEOREM LifeInvariant == Spec => []LifeInv
<1>1. Init => LifeInv
  BY LifeInit
<1>2. LifeInv /\ [Next]_vars => LifeInv'
  BY LifeStep
<1> QED
  BY <1>1, <1>2, PTL DEF Spec

-----------------------------------------------------------------------------
(***************************************************************************)
(* The properties.                                                         *)
(***************************************************************************)
\* Streams, rows and locals keep their types; every stored TaskState has a
\* status of the table.
THEOREM LifeTypes == Spec => []TypeOK
<1>1. LifeInv => TypeOK
  <2> SUFFICES ASSUME LifeInv PROVE TypeOK
    OBVIOUS
  <2>1. log \subseteq Event /\ proj \in TaskState
    BY DEF LifeInv, EventsGood, Recorded, Carries
  <2>2. \A v \in Runs : run[v] = None \/ (run[v].status \in RunStatuses /\ run[v].revision \in Nat)
    <3>1. \A v \in Runs : run[v] \in RunRow \cup {None}
      BY DEF LifeInv
    <3> QED
      BY <3>1 DEF RunRow
  <2>3. ASSUME NEW c \in Clients
        PROVE  /\ pc[c] \in {"idle", "load", "runs", "append", "reload", "project", "done"}
               /\ cmd[c] \in TaskCommands \cup RunCommands \cup {None}
               /\ view[c] = None \/ view[c] \in TaskState
               /\ pend[c] = None \/ pend[c] \in Event
    <3>1. LocalGood(log, run, pc[c], cmd[c], seen[c], view[c], pend[c], runNew[c])
      BY OfOne
    <3>2. pc[c] \in Places /\ cmd[c] \in Commands \cup {None} /\ view[c] \in TaskState \cup {None}
      BY <3>1 DEF LocalGood
    <3>3. pend[c] = None \/ pend[c] \in Event
      BY <3>1 DEF LocalGood, PendGood, Carries
    <3> QED
      BY <3>2, <3>3 DEF Places, Commands
  <2> QED
    BY <2>1, <2>2, <2>3 DEF TypeOK
<1> QED
  BY <1>1, LifeInvariant, PTL

\* A verification row and its run's stream tell one story: one verdict Event
\* for each revision, the last of them the row's result (append_revision and
\* record_verification_result, in one transaction under the row lock).
THEOREM LifeRunMatchesStream == Spec => []RunMatchesStream
<1>1. LifeInv => RunMatchesStream
  <2> SUFFICES ASSUME LifeInv PROVE RunMatchesStream
    OBVIOUS
  <2>1. \A v \in Runs : RunGood(log, run[v], v)
    BY DEF LifeInv
  <2>2. \A v \in Runs : RunStream(log, v) \subseteq log
    BY DEF RunStream
  <2> QED
    BY <2>1, <2>2 DEF RunMatchesStream, RunGood, IsLatest
<1> QED
  BY <1>1, LifeInvariant, PTL

\* A Task is only completed on a PASSED verdict about the implementation that
\* was submitted last (the prerequisite check of complete_task).
THEOREM LifeCompletionVerified == Spec => []CompletionVerified
<1>1. LifeInv => CompletionVerified
  BY DEF LifeInv
<1> QED
  BY <1>1, LifeInvariant, PTL

\* Only the account that the Task was last assigned to has accepted it
\* (accept_task checks a state that the compare-and-swap then confirms).
THEOREM LifeAcceptedByAssignee == Spec => []AcceptedByAssignee
<1>1. LifeInv => AcceptedByAssignee
  BY DEF LifeInv
<1> QED
  BY <1>1, LifeInvariant, PTL

\* Unless a verdict crosses a cancel request, the committed Events obey the
\* table and tasks_projection is their fold: write_state stores what a rebuild
\* would compute.
THEOREM LifeProjectionFaithful == Spec => []ProjectionFaithful
<1>1. LifeInv => ProjectionFaithful
  <2> SUFFICES ASSUME LifeInv, ~Crossed
               PROVE  /\ Current.status # "BROKEN"
                      /\ Current.status = "VERIFYING" =>
                           run[Current.active].status \in {"RUNNING", "CANCELLED"}
                      /\ (\A c \in Clients : pc[c] = "idle") => proj = Current
    BY DEF ProjectionFaithful
  <2>1. EventsGood /\ TaskGood(log, proj, run)
    BY DEF LifeInv
  <2>2. Quiet(log)
    BY DEF Crossed, Quiet, Crossing
  <2>3. Current = Fold(log)
    BY <2>1, WholeFold DEF Current
  <2> QED
    BY <2>1, <2>2, <2>3 DEF TaskGood
<1> QED
  BY <1>1, LifeInvariant, PTL
=============================================================================
