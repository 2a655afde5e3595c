--------------------------- MODULE VerifierProofs ---------------------------
(***************************************************************************)
(* Proofs about verifier assignment, for any verifiers, Tasks and runs.    *)
(* Book says what runs and offers say of each other; SweepGood and         *)
(* UsersGood, that what a transaction has read of the rows it locked is    *)
(* still there.  The loop of the sweep keeps Book with every due offer,    *)
(* for the offers that are left are as the sweep found them.               *)
(***************************************************************************)
EXTENDS VerifierAssignment, FiniteSetTheorems, WellFoundedInduction, TLAPS

RunStatuses == {"ABSENT", "PLANNED", "ASSIGNED", "RUNNING", "PASSED", "FAILED", "BLOCKED", "FIX_SUBMITTED",
                "RECHECK_ASSIGNED", "CANCELLED"}
VRunRow == [status : RunStatuses, task : VTasks \cup {"none"}, verifier : Verifiers \cup {0},
            replaces : VRuns \cup {NoRunId}, started : BOOLEAN, rechecked : BOOLEAN,
            endedBy : {"none", "user", "timeout"}]
OfferRow == [run : VRuns, account : Verifiers, status : {"offered", "accepted", "timed_out", "exhausted"},
             item : {"none", "open", "cancelled"}, late : BOOLEAN]

RunGood(row) ==
  /\ row \in VRunRow
  /\ row.endedBy = "timeout" => row.status = "CANCELLED" /\ (row.started => row.rechecked)
  /\ row.status = "ABSENT" => row.replaces = NoRunId
  /\ row.status \in {"PLANNED", "ASSIGNED"} => ~row.started
  /\ row.status = "RECHECK_ASSIGNED" => row.rechecked
  /\ row.status \in TakenUp => row.started

Replacements(runs, r) == {q \in VRuns : runs[q].replaces = r}
Replaced(t, o, runs) ==
  \E q \in VRuns : Replacements(runs, o.run) = {q} /\ runs[q].task = t /\ runs[q].verifier # o.account
OfferGood(t, o, runs, waiting) ==
  /\ runs[o.run].status # "ABSENT"
  /\ o.status = "timed_out" => runs[o.run].endedBy = "timeout" /\ o.item # "open" /\ Replaced(t, o, runs)
  /\ runs[o.run].endedBy = "timeout" => o.status \in {"timed_out", "exhausted"}
  /\ o.status = "accepted" => runs[o.run].started
  /\ o.status = "exhausted" => t \in waiting /\ Replacements(runs, o.run) = {}

BookShapes(runs, offers) == runs \in [VRuns -> VRunRow] /\ offers \in [VTasks -> Seq(OfferRow)]
RunsGood(runs) ==
  /\ \A r \in VRuns : RunGood(runs[r])
  /\ \A r \in VRuns : runs[r].replaces # NoRunId => runs[runs[r].replaces].endedBy = "timeout"
OffersGood(runs, offers, waiting) ==
  \A t \in VTasks : \A k \in DOMAIN offers[t] : OfferGood(t, offers[t][k], runs, waiting)
OneOfferEach(offers) ==
  \A t, u \in VTasks : \A j \in DOMAIN offers[t], k \in DOMAIN offers[u] :
    offers[t][j].run = offers[u][k].run => t = u /\ j = k
Book(runs, offers, waiting) ==
  /\ BookShapes(runs, offers) /\ RunsGood(runs) /\ OffersGood(runs, offers, waiting) /\ OneOfferEach(offers)
  /\ waiting \subseteq VTasks

\* A set of natural numbers that is not empty has a least element.
LEMMA LeastElement ==
  ASSUME NEW T \in SUBSET Nat, T # {}
  PROVE  \E n \in T : \A m \in T : n <= m
<1> DEFINE U == {0 .. k : k \in T}
<1>1. \A k \in T : 0 .. k \in FiniteSubsetsOf(Nat)
  BY FS_Interval DEF FiniteSubsetsOf
<1>2. U \subseteq FiniteSubsetsOf(Nat) /\ U # {}
  BY <1>1
<1>3. IsWellFoundedOn(StrictSubsetOrdering(Nat), FiniteSubsetsOf(Nat))
  BY FS_StrictSubsetOrderingWellFounded
<1> HIDE DEF U
<1>4. PICK x \in U : \A y \in U : ~(<<y, x>> \in StrictSubsetOrdering(Nat))
  BY <1>2, <1>3, WFMin
<1>5. PICK n \in T : x = 0 .. n
  BY DEF U
<1>6. ASSUME NEW m \in T, ~(n <= m) PROVE FALSE
  <2>1. 0 .. m \in U /\ 0 .. m \subseteq 0 .. n /\ n \notin 0 .. m /\ n \in 0 .. n
    BY <1>6 DEF U
  <2>2. <<0 .. m, 0 .. n>> \in StrictSubsetOrdering(Nat)
    BY <2>1 DEF StrictSubsetOrdering
  <2> QED
    BY <1>4, <1>5, <2>1, <2>2
<1> QED
  BY <1>6

\* Induction, for what can be said of the members of a set.
LEMMA LoopInduction ==
  ASSUME NEW S, 0 \in S, \A n \in Nat : n \in S => n + 1 \in S
  PROVE  Nat \subseteq S
<1>1. SUFFICES ASSUME NEW k \in Nat, k \notin S PROVE FALSE
  OBVIOUS
<1> DEFINE T == {n \in Nat : n \notin S}
<1>2. PICK n \in T : \A m \in T : n <= m
  <2>1. T \in SUBSET Nat /\ T # {}
    BY <1>1
  <2> HIDE DEF T
  <2> QED
    BY <2>1, LeastElement
<1>3. n # 0 /\ n - 1 \in Nat /\ n - 1 \notin T
  BY <1>2
<1> QED
  BY <1>3

\* The best of some candidates is one of them: there is a highest score, and a
\* first account with it.
LEMMA BestIs ==
  ASSUME NEW st, NEW t, NEW C \in SUBSET Verifiers, C # {}
  PROVE  BestOf(st, t, C) \in C
<1> DEFINE Points(v) == Score(st[v], t)
           T == {4 - Points(v) : v \in C}
<1>1. \A v \in C : Points(v) \in 0 .. 4 /\ v \in Nat
  <2> SUFFICES ASSUME NEW v \in C PROVE Points(v) \in 0 .. 4 /\ v \in Nat
    OBVIOUS
  <2> DEFINE a == IF DomainMatch(st[v]) THEN 2 ELSE 0
             b == IF st[v].load = 0 THEN 1 ELSE 0
             c == IF HumanRequired(t) THEN 1 ELSE 0
  <2>1. a \in {0, 2} /\ b \in {0, 1} /\ c \in {0, 1}
    OBVIOUS
  <2>2. Points(v) = a + b + c
    BY DEF Score
  <2> HIDE DEF a, b, c, Points
  <2> QED
    BY <2>1, <2>2, VerifierAssumption
<1> HIDE DEF Points
<1>2. PICK v \in C : \A w \in C : Points(w) <= Points(v)
  <2>1. T \in SUBSET Nat /\ T # {}
    BY <1>1
  <2>2. PICK n \in T : \A m \in T : n <= m
    <3> HIDE DEF T
    <3> QED
      BY <2>1, LeastElement
  <2>3. PICK v \in C : n = 4 - Points(v)
    OBVIOUS
  <2>4. ASSUME NEW w \in C PROVE Points(w) <= Points(v)
    <3>1. 4 - Points(v) <= 4 - Points(w)
      BY <2>2, <2>3
    <3> QED
      BY <1>1, <3>1
  <2> QED
    BY <2>4
<1> DEFINE B == {w \in C : Points(w) = Points(v)}
<1>3. PICK b \in B : \A w \in B : b <= w
  <2>1. B \in SUBSET Nat /\ B # {}
    BY <1>1
  <2> HIDE DEF B
  <2> QED
    BY <2>1, LeastElement
<1>4. b \in C /\ \A w \in C \ {b} : Points(b) > Points(w) \/ (Points(b) = Points(w) /\ b < w)
  <2> SUFFICES ASSUME NEW w \in C \ {b}
               PROVE  Points(b) > Points(w) \/ (Points(b) = Points(w) /\ b < w)
    OBVIOUS
  <2>1. Points(b) = Points(v) /\ Points(w) <= Points(v) /\ b \in Nat /\ w \in Nat
        /\ Points(w) \in 0 .. 4 /\ Points(v) \in 0 .. 4
    BY <1>1, <1>2, <1>3
  <2>2. CASE Points(w) = Points(v)
    BY <1>3, <2>1, <2>2
  <2>3. CASE Points(w) # Points(v)
    BY <2>1, <2>3
  <2> QED
    BY <2>2, <2>3
<1> QED
  BY <1>4 DEF BestOf, Points

\* The next id is one that is free.
LEMMA NextRunIs ==
  ASSUME NEW S \in SUBSET VRuns, S # {}
  PROVE  NextRun(S) \in S
<1>1. S \in SUBSET Nat
  BY VerifierAssumption
<1>2. \E r \in S : \A q \in S : r <= q
  BY <1>1, LeastElement
<1> QED
  BY <1>2 DEF NextRun

\* What a move makes of a run.
LEMMA MoveIs ==
  ASSUME NEW m \in VerificationMoves
  PROVE  /\ m[3] \in RunStatuses \ {"ABSENT", "PLANNED"} /\ m[1] # "CANCELLED"
         /\ m[3] = "ASSIGNED" => m[1] = "PLANNED"
         /\ m[3] \in TakenUp => m[3] = "RUNNING" \/ m[1] \in TakenUp
BY DEF VerificationMoves, RunStatuses, TakenUp

LEMMA MovedGood ==
  ASSUME NEW row, RunGood(row), row.status # "ABSENT", NEW m \in VerificationMoves, m[1] = row.status
  PROVE  LET x == Moved(row, m[3])
         IN  /\ RunGood(x) /\ x.status # "ABSENT" /\ x.endedBy # "timeout" /\ row.endedBy # "timeout"
             /\ x.replaces = row.replaces /\ x.task = row.task /\ x.verifier = row.verifier
             /\ row.started => x.started
<1> DEFINE s == m[3]
<1>1. /\ s \in RunStatuses \ {"ABSENT", "PLANNED"} /\ row.status # "CANCELLED"
      /\ s = "ASSIGNED" => row.status = "PLANNED"
      /\ s \in TakenUp => s = "RUNNING" \/ row.status \in TakenUp
  BY MoveIs
<1> HIDE DEF s
<1> DEFINE begun == row.started \/ s = "RUNNING"
           again == row.rechecked \/ s = "RECHECK_ASSIGNED"
           ended == IF s = "CANCELLED" THEN "user" ELSE row.endedBy
           x == [row EXCEPT !.status = s, !.started = begun, !.rechecked = again, !.endedBy = ended]
<1>2. Moved(row, s) = x
  BY DEF Moved
<1>3. row \in VRunRow /\ row.endedBy # "timeout" /\ begun \in BOOLEAN /\ again \in BOOLEAN
      /\ ended \in {"none", "user"}
  BY <1>1 DEF RunGood, VRunRow
<1>4. /\ s \in {"PLANNED", "ASSIGNED"} => ~begun
      /\ s = "RECHECK_ASSIGNED" => again
      /\ s \in TakenUp => begun
      /\ row.started => begun
  BY <1>1 DEF RunGood
<1> HIDE DEF begun, again, ended
<1>5. /\ x \in VRunRow /\ x.status = s /\ x.started = begun /\ x.rechecked = again /\ x.endedBy = ended
      /\ x.replaces = row.replaces /\ x.task = row.task /\ x.verifier = row.verifier
  BY <1>1, <1>3 DEF VRunRow
<1> HIDE DEF x
<1>6. RunGood(x)
  BY <1>1, <1>3, <1>4, <1>5 DEF RunGood
<1>7. x.status # "ABSENT" /\ x.endedBy # "timeout" /\ (row.started => x.started)
  BY <1>1, <1>3, <1>4, <1>5
<1> QED
  BY <1>2, <1>3, <1>5, <1>6, <1>7 DEF s

-----------------------------------------------------------------------------
\* A run is moved: it was not timed out and is not now, and what was started
\* stays started.
LEMMA BookRunMoved ==
  ASSUME NEW runs, NEW offers, NEW waiting, Book(runs, offers, waiting), NEW r \in VRuns, NEW row,
         RunGood(row), row.status # "ABSENT", runs[r].endedBy # "timeout", row.endedBy # "timeout",
         row.replaces = runs[r].replaces, row.task = runs[r].task, row.verifier = runs[r].verifier,
         runs[r].started => row.started
  PROVE  Book([runs EXCEPT ![r] = row], offers, waiting)
<1> DEFINE new == [runs EXCEPT ![r] = row]
<1>1. /\ BookShapes(runs, offers) /\ RunsGood(runs) /\ OffersGood(runs, offers, waiting) /\ OneOfferEach(offers)
      /\ runs \in [VRuns -> VRunRow] /\ offers \in [VTasks -> Seq(OfferRow)] /\ row \in VRunRow
  BY DEF Book, BookShapes, RunGood
<1>2. /\ new \in [VRuns -> VRunRow] /\ \A q \in VRuns : new[q] = IF q = r THEN row ELSE runs[q]
  BY <1>1
<1> HIDE DEF new
<1>3. \A q \in VRuns : /\ new[q].replaces = runs[q].replaces /\ new[q].task = runs[q].task
                       /\ new[q].verifier = runs[q].verifier
                       /\ (new[q].endedBy = "timeout" <=> runs[q].endedBy = "timeout")
                       /\ (runs[q].started => new[q].started)
                       /\ (runs[q].status # "ABSENT" => new[q].status # "ABSENT")
                       /\ RunGood(new[q])
  BY <1>1, <1>2 DEF RunsGood
<1>4. RunsGood(new)
  <2> SUFFICES ASSUME NEW q \in VRuns, new[q].replaces # NoRunId PROVE new[new[q].replaces].endedBy = "timeout"
    BY <1>3 DEF RunsGood
  <2>1. runs[q].replaces \in VRuns \cup {NoRunId}
    BY <1>1 DEF VRunRow
  <2> QED
    BY <1>1, <1>3, <2>1 DEF RunsGood
<1>5. \A i \in VRuns : Replacements(new, i) = Replacements(runs, i)
  BY <1>3 DEF Replacements
<1>6. OffersGood(new, offers, waiting)
  <2> SUFFICES ASSUME NEW t \in VTasks, NEW k \in DOMAIN offers[t] PROVE OfferGood(t, offers[t][k], new, waiting)
    BY DEF OffersGood
  <2> DEFINE o == offers[t][k]
  <2>0. offers[t] \in Seq(OfferRow) /\ OfferGood(t, o, runs, waiting)
    BY <1>1 DEF OffersGood
  <2>1. OfferGood(t, o, runs, waiting) /\ o.run \in VRuns
    <3>1. o \in OfferRow
      BY <2>0
    <3> QED
      BY <2>0, <3>1 DEF OfferRow
  <2> HIDE DEF o
  <2>2. Replaced(t, o, runs) => Replaced(t, o, new)
    BY <1>3, <1>5, <2>1 DEF Replaced
  <2>3. OfferGood(t, o, new, waiting)
    BY <1>3, <1>5, <2>1, <2>2 DEF OfferGood
  <2> QED
    BY <2>3 DEF o
<1> QED
  BY <1>1, <1>2, <1>4, <1>6 DEF Book, BookShapes, new

\* A run appears that replaces no other.
LEMMA BookRunAdded ==
  ASSUME NEW runs, NEW offers, NEW waiting, Book(runs, offers, waiting), NEW r \in VRuns, NEW row,
         runs[r].status = "ABSENT", RunGood(row), row.status # "ABSENT", row.endedBy = "none",
         row.replaces = NoRunId
  PROVE  Book([runs EXCEPT ![r] = row], offers, waiting)
<1> DEFINE new == [runs EXCEPT ![r] = row]
<1>1. /\ BookShapes(runs, offers) /\ RunsGood(runs) /\ OffersGood(runs, offers, waiting) /\ OneOfferEach(offers)
      /\ runs \in [VRuns -> VRunRow] /\ offers \in [VTasks -> Seq(OfferRow)] /\ row \in VRunRow
  BY DEF Book, BookShapes, RunGood
<1>2. /\ new \in [VRuns -> VRunRow] /\ \A q \in VRuns : new[q] = IF q = r THEN row ELSE runs[q]
  BY <1>1
<1> HIDE DEF new
<1>3. runs[r].endedBy # "timeout" /\ \A q \in VRuns : RunGood(new[q])
  BY <1>1, <1>2 DEF RunsGood, RunGood
<1>4. RunsGood(new)
  <2> SUFFICES ASSUME NEW q \in VRuns, new[q].replaces # NoRunId PROVE new[new[q].replaces].endedBy = "timeout"
    BY <1>3 DEF RunsGood
  <2>1. q # r /\ new[q] = runs[q] /\ runs[q].replaces \in VRuns /\ runs[runs[q].replaces].endedBy = "timeout"
    BY <1>1, <1>2 DEF RunsGood, VRunRow
  <2> QED
    BY <1>2, <1>3, <2>1
<1>5. \A i \in VRuns : Replacements(new, i) = Replacements(runs, i)
  <2>1. runs[r].replaces = NoRunId /\ NoRunId \notin VRuns
    BY <1>1, VerifierAssumption DEF RunsGood, RunGood
  <2> QED
    BY <1>2, <2>1 DEF Replacements
<1>6. OffersGood(new, offers, waiting)
  <2> SUFFICES ASSUME NEW t \in VTasks, NEW k \in DOMAIN offers[t] PROVE OfferGood(t, offers[t][k], new, waiting)
    BY DEF OffersGood
  <2> DEFINE o == offers[t][k]
  <2>0. offers[t] \in Seq(OfferRow) /\ OfferGood(t, o, runs, waiting)
    BY <1>1 DEF OffersGood
  <2>1. OfferGood(t, o, runs, waiting) /\ o.run \in VRuns
    <3>1. o \in OfferRow
      BY <2>0
    <3> QED
      BY <2>0, <3>1 DEF OfferRow
  <2> HIDE DEF o
  <2>2. new[o.run] = runs[o.run]
    BY <1>2, <2>1 DEF OfferGood
  <2>3. Replaced(t, o, runs) => Replaced(t, o, new)
    <3> SUFFICES ASSUME NEW q \in VRuns, Replacements(runs, o.run) = {q}, runs[q].task = t,
                        runs[q].verifier # o.account
                 PROVE  Replaced(t, o, new)
      BY DEF Replaced
    <3>1. q \in Replacements(runs, o.run)
      OBVIOUS
    <3>2. q # r
      BY <1>1, <2>1, <3>1, VerifierAssumption DEF Replacements, RunsGood, RunGood
    <3> QED
      BY <1>2, <1>5, <2>1, <3>2 DEF Replaced
  <2>4. OfferGood(t, o, new, waiting)
    BY <1>5, <2>1, <2>2, <2>3 DEF OfferGood
  <2> QED
    BY <2>4 DEF o
<1> QED
  BY <1>1, <1>2, <1>4, <1>6 DEF Book, BookShapes, new

\* An offer is recorded for a run that has none.
LEMMA BookOfferAdded ==
  ASSUME NEW runs, NEW offers, NEW waiting, Book(runs, offers, waiting), NEW t \in VTasks, NEW row \in OfferRow,
         row.status = "offered", runs[row.run].status # "ABSENT", runs[row.run].endedBy # "timeout",
         \A u \in VTasks : \A k \in DOMAIN offers[u] : offers[u][k].run # row.run
  PROVE  Book(runs, [offers EXCEPT ![t] = Append(@, row)], waiting)
<1> DEFINE rows == Append(offers[t], row)
           new == [offers EXCEPT ![t] = rows]
<1>1. /\ BookShapes(runs, offers) /\ RunsGood(runs) /\ OffersGood(runs, offers, waiting) /\ OneOfferEach(offers)
      /\ offers \in [VTasks -> Seq(OfferRow)] /\ offers[t] \in Seq(OfferRow)
  BY DEF Book, BookShapes
<1>2. /\ rows \in Seq(OfferRow) /\ DOMAIN rows = DOMAIN offers[t] \cup {Len(offers[t]) + 1}
      /\ rows[Len(offers[t]) + 1] = row /\ \A k \in DOMAIN offers[t] : rows[k] = offers[t][k]
  BY <1>1
<1> HIDE DEF rows
<1>3. /\ new \in [VTasks -> Seq(OfferRow)] /\ new[t] = rows
      /\ \A u \in VTasks : u # t => new[u] = offers[u]
  BY <1>1, <1>2
<1> HIDE DEF new
<1>4. \A u \in VTasks : \A k \in DOMAIN new[u] :
        \/ k \in DOMAIN offers[u] /\ new[u][k] = offers[u][k]
        \/ u = t /\ k = Len(offers[t]) + 1 /\ new[u][k] = row
  BY <1>2, <1>3
<1>5. OfferGood(t, row, runs, waiting)
  BY DEF OfferGood
<1>6. OffersGood(runs, new, waiting)
  BY <1>1, <1>4, <1>5 DEF OffersGood
<1>7. OneOfferEach(new)
  BY <1>1, <1>4 DEF OneOfferEach
<1> QED
  BY <1>1, <1>3, <1>6, <1>7 DEF Book, BookShapes, new, rows

\* An offer that has been made gets a status it deserves.
LEMMA BookOfferSet ==
  ASSUME NEW runs, NEW offers, NEW waiting, Book(runs, offers, waiting), NEW t \in VTasks,
         NEW k \in DOMAIN offers[t], NEW row \in OfferRow, row.run = offers[t][k].run,
         OfferGood(t, row, runs, waiting)
  PROVE  Book(runs, [offers EXCEPT ![t] = [@ EXCEPT ![k] = row]], waiting)
<1> DEFINE rows == [offers[t] EXCEPT ![k] = row]
           new == [offers EXCEPT ![t] = rows]
<1>1. /\ BookShapes(runs, offers) /\ RunsGood(runs) /\ OffersGood(runs, offers, waiting) /\ OneOfferEach(offers)
      /\ offers \in [VTasks -> Seq(OfferRow)] /\ offers[t] \in Seq(OfferRow)
  BY DEF Book, BookShapes
<1>2. /\ rows \in Seq(OfferRow) /\ DOMAIN rows = DOMAIN offers[t]
      /\ rows[k] = row /\ \A j \in DOMAIN offers[t] : j # k => rows[j] = offers[t][j]
  BY <1>1
<1> HIDE DEF rows
<1>3. /\ new \in [VTasks -> Seq(OfferRow)] /\ new[t] = rows
      /\ \A u \in VTasks : u # t => new[u] = offers[u]
  BY <1>1, <1>2
<1> HIDE DEF new
<1>4. \A u \in VTasks : \A j \in DOMAIN new[u] :
        /\ j \in DOMAIN offers[u] /\ new[u][j].run = offers[u][j].run
        /\ new[u][j] = offers[u][j] \/ (u = t /\ new[u][j] = row)
  BY <1>2, <1>3
<1>5. OffersGood(runs, new, waiting)
  BY <1>1, <1>4 DEF OffersGood
<1>6. OneOfferEach(new)
  BY <1>1, <1>4 DEF OneOfferEach
<1> QED
  BY <1>1, <1>3, <1>5, <1>6 DEF Book, BookShapes, new, rows

\* Offers and runs as the sweep leaves them.
LEMMA SweepRows ==
  /\ \A row : RunGood(row) /\ row.status \in {"PLANNED", "ASSIGNED", "RECHECK_ASSIGNED"} =>
       /\ RunGood(TimedOut(row)) /\ TimedOut(row).endedBy = "timeout" /\ TimedOut(row).status = "CANCELLED"
       /\ TimedOut(row).replaces = row.replaces /\ TimedOut(row).task = row.task
       /\ TimedOut(row).verifier = row.verifier /\ row.endedBy # "timeout"
  /\ \A o \in OfferRow : /\ GiveUp(o) \in OfferRow /\ GiveUp(o).run = o.run /\ GiveUp(o).account = o.account
                         /\ GiveUp(o).status = "timed_out" /\ GiveUp(o).item # "open"
  /\ \A o \in OfferRow, st \in {"accepted", "exhausted"} :
       LET x == [o EXCEPT !.status = st]
       IN  x \in OfferRow /\ x.run = o.run /\ x.account = o.account /\ x.status = st
  /\ \A t \in VTasks, v \in Verifiers, r \in VRuns \cup {NoRunId} :
       LET x == NewRun(t, v, r)
       IN  /\ RunGood(x) /\ x.status = "PLANNED" /\ x.task = t /\ x.verifier = v /\ x.replaces = r
           /\ x.endedBy = "none"
<1>1. ASSUME NEW row, RunGood(row), row.status \in {"PLANNED", "ASSIGNED", "RECHECK_ASSIGNED"}
      PROVE  /\ RunGood(TimedOut(row)) /\ TimedOut(row).endedBy = "timeout" /\ TimedOut(row).status = "CANCELLED"
             /\ TimedOut(row).replaces = row.replaces /\ TimedOut(row).task = row.task
             /\ TimedOut(row).verifier = row.verifier /\ row.endedBy # "timeout"
  <2> DEFINE x == TimedOut(row)
  <2>1. row \in VRunRow /\ (row.started => row.rechecked) /\ row.endedBy # "timeout"
    BY <1>1 DEF RunGood
  <2>2. /\ x \in VRunRow /\ x.status = "CANCELLED" /\ x.endedBy = "timeout" /\ x.started = row.started
        /\ x.rechecked = row.rechecked /\ x.replaces = row.replaces /\ x.task = row.task
        /\ x.verifier = row.verifier
    BY <2>1 DEF TimedOut, VRunRow, RunStatuses
  <2> HIDE DEF x
  <2>3. RunGood(x)
    BY <2>1, <2>2 DEF RunGood, TakenUp
  <2> QED
    BY <2>1, <2>2, <2>3 DEF x
<1>2. ASSUME NEW o \in OfferRow
      PROVE  /\ GiveUp(o) \in OfferRow /\ GiveUp(o).run = o.run /\ GiveUp(o).account = o.account
             /\ GiveUp(o).status = "timed_out" /\ GiveUp(o).item # "open"
  BY DEF OfferRow, GiveUp
<1>3. ASSUME NEW o \in OfferRow, NEW st \in {"accepted", "exhausted"}
      PROVE  LET x == [o EXCEPT !.status = st]
             IN  x \in OfferRow /\ x.run = o.run /\ x.account = o.account /\ x.status = st
  BY DEF OfferRow
<1>4. ASSUME NEW t \in VTasks, NEW v \in Verifiers, NEW r \in VRuns \cup {NoRunId}
      PROVE  LET x == NewRun(t, v, r)
             IN  /\ RunGood(x) /\ x.status = "PLANNED" /\ x.task = t /\ x.verifier = v /\ x.replaces = r
                 /\ x.endedBy = "none"
  <2> DEFINE x == NewRun(t, v, r)
  <2>1. NoVRun \in VRunRow /\ ~NoVRun.started /\ NoVRun.endedBy = "none"
    BY DEF NoVRun, VRunRow, RunStatuses
  <2>2. /\ x \in VRunRow /\ x.status = "PLANNED" /\ x.task = t /\ x.verifier = v /\ x.replaces = r
        /\ x.endedBy = "none" /\ x.started = NoVRun.started
    BY <2>1 DEF NewRun, VRunRow, RunStatuses
  <2> HIDE DEF x
  <2>3. RunGood(x)
    BY <2>1, <2>2 DEF RunGood, TakenUp
  <2> QED
    BY <2>2, <2>3 DEF x
<1> QED
  BY <1>1, <1>2, <1>3, <1>4

\* An offer is given up and its run replaced by a new one.
LEMMA BookReplaced ==
  ASSUME NEW runs, NEW offers, NEW waiting, Book(runs, offers, waiting), NEW t \in VTasks,
         NEW k \in DOMAIN offers[t], offers[t][k].status \in {"offered", "exhausted"}, NEW q \in VRuns,
         NEW v \in Verifiers, v # offers[t][k].account, runs[q].status = "ABSENT",
         runs[offers[t][k].run].status \in {"PLANNED", "ASSIGNED", "RECHECK_ASSIGNED"}
  PROVE  Book([[runs EXCEPT ![offers[t][k].run] = TimedOut(@)] EXCEPT ![q] = NewRun(t, v, offers[t][k].run)],
              [offers EXCEPT ![t] = [offers[t] EXCEPT ![k] = GiveUp(offers[t][k])]], waiting)
<1> DEFINE o == offers[t][k]
           r == o.run
           gone == TimedOut(runs[r])
           heir == NewRun(t, v, r)
           closed == GiveUp(o)
           runs2 == [[runs EXCEPT ![r] = gone] EXCEPT ![q] = heir]
           rows == [offers[t] EXCEPT ![k] = closed]
           offers2 == [offers EXCEPT ![t] = rows]
<1>1. /\ BookShapes(runs, offers) /\ RunsGood(runs) /\ OffersGood(runs, offers, waiting) /\ OneOfferEach(offers)
      /\ runs \in [VRuns -> VRunRow] /\ offers \in [VTasks -> Seq(OfferRow)] /\ offers[t] \in Seq(OfferRow)
      /\ o \in OfferRow
  BY DEF Book, BookShapes
<1>2. r \in VRuns /\ NoRunId \notin VRuns
  BY <1>1, VerifierAssumption DEF OfferRow
<1>3. /\ RunGood(gone) /\ gone.endedBy = "timeout" /\ gone.status = "CANCELLED"
      /\ gone.replaces = runs[r].replaces /\ gone.task = runs[r].task /\ gone.verifier = runs[r].verifier
      /\ runs[r].endedBy # "timeout"
  <2>1. RunGood(runs[r]) /\ runs[r].status \in {"PLANNED", "ASSIGNED", "RECHECK_ASSIGNED"}
    BY <1>1, <1>2 DEF RunsGood
  <2> QED
    BY <2>1, SweepRows
<1>4. /\ RunGood(heir) /\ heir.status = "PLANNED" /\ heir.task = t /\ heir.verifier = v /\ heir.replaces = r
      /\ heir.endedBy = "none"
  BY <1>2, SweepRows
<1>5. /\ closed \in OfferRow /\ closed.run = r /\ closed.account = o.account /\ closed.status = "timed_out"
      /\ closed.item # "open"
  BY <1>1, SweepRows
<1>6. /\ q # r /\ v # o.account /\ runs[q].status = "ABSENT" /\ runs[r].status # "ABSENT"
      /\ runs[q].replaces = NoRunId /\ runs[q].endedBy # "timeout"
  BY <1>1 DEF RunsGood, RunGood
<1> HIDE DEF o, r, gone, heir, closed
<1>7. /\ runs2 \in [VRuns -> VRunRow] /\ runs2[q] = heir /\ runs2[r] = gone
      /\ \A p \in VRuns : p # q /\ p # r => runs2[p] = runs[p]
  BY <1>1, <1>2, <1>3, <1>4, <1>6 DEF RunGood
<1>8. /\ rows \in Seq(OfferRow) /\ DOMAIN rows = DOMAIN offers[t]
      /\ rows[k] = closed /\ \A j \in DOMAIN offers[t] : j # k => rows[j] = offers[t][j]
  BY <1>1, <1>5
<1> HIDE DEF rows
<1>9. /\ offers2 \in [VTasks -> Seq(OfferRow)] /\ offers2[t] = rows
      /\ \A u \in VTasks : u # t => offers2[u] = offers[u]
  BY <1>1, <1>8
<1> HIDE DEF runs2, offers2
<1>10. \A u \in VTasks : \A j \in DOMAIN offers2[u] :
         /\ j \in DOMAIN offers[u] /\ offers2[u][j].run = offers[u][j].run
         /\ \/ offers2[u][j] = offers[u][j] /\ ~(u = t /\ j = k)
            \/ u = t /\ j = k /\ offers2[u][j] = closed
  BY <1>5, <1>8, <1>9 DEF o, r
<1>11. OneOfferEach(offers2)
  BY <1>1, <1>10 DEF OneOfferEach
<1>12. RunsGood(runs2)
  <2>1. \A p \in VRuns : RunGood(runs2[p])
    BY <1>1, <1>3, <1>4, <1>7 DEF RunsGood
  <2>2. ASSUME NEW p \in VRuns, runs2[p].replaces # NoRunId PROVE runs2[runs2[p].replaces].endedBy = "timeout"
    <3>1. CASE p = q
      BY <1>3, <1>4, <1>7, <3>1
    <3>2. CASE p # q
      <4>1. runs2[p].replaces = runs[p].replaces
        BY <1>3, <1>7, <3>2
      <4>2. runs[p].replaces \in VRuns /\ runs[runs[p].replaces].endedBy = "timeout"
        BY <1>1, <2>2, <4>1 DEF RunsGood, VRunRow
      <4>3. runs[p].replaces # q /\ runs[p].replaces # r
        BY <1>3, <1>6, <4>2
      <4> QED
        BY <1>7, <4>1, <4>2, <4>3
    <3> QED
      BY <3>1, <3>2
  <2> QED
    BY <2>1, <2>2 DEF RunsGood
<1>13. Replacements(runs, r) = {}
  BY <1>1, <1>2, <1>3 DEF Replacements, RunsGood
<1>14. Replacements(runs2, r) = {q} /\ \A i \in VRuns : i # r => Replacements(runs2, i) = Replacements(runs, i)
  <2>1. \A p \in VRuns : p # q => runs2[p].replaces = runs[p].replaces
    BY <1>3, <1>7
  <2>2. runs2[q].replaces = r /\ runs[q].replaces \notin VRuns
    BY <1>2, <1>4, <1>6, <1>7
  <2> QED
    BY <1>2, <1>13, <2>1, <2>2 DEF Replacements
<1>15. OffersGood(runs2, offers2, waiting)
  <2> SUFFICES ASSUME NEW u \in VTasks, NEW j \in DOMAIN offers2[u]
               PROVE  OfferGood(u, offers2[u][j], runs2, waiting)
    BY DEF OffersGood
  <2>1. CASE u = t /\ j = k
    <3>1. offers2[u][j] = closed
      BY <1>10, <2>1
    <3>2. Replaced(t, closed, runs2)
      BY <1>4, <1>5, <1>6, <1>7, <1>14 DEF Replaced
    <3>3. OfferGood(t, closed, runs2, waiting)
      BY <1>3, <1>5, <1>7, <3>2 DEF OfferGood
    <3> QED
      BY <2>1, <3>1, <3>3
  <2>2. CASE ~(u = t /\ j = k)
    <3> DEFINE p == offers[u][j]
    <3>1. j \in DOMAIN offers[u] /\ offers2[u][j] = p
      BY <1>10, <2>2
    <3>2. OfferGood(u, p, runs, waiting) /\ offers[u] \in Seq(OfferRow)
      BY <1>1, <3>1 DEF OffersGood
    <3>3. p \in OfferRow
      BY <3>1, <3>2
    <3>4. p.run # r
      BY <1>1, <2>2, <3>1 DEF OneOfferEach, r, o
    <3> HIDE DEF p
    <3>5. p.run \in VRuns /\ p.run # q
      BY <1>6, <3>2, <3>3 DEF OfferRow, OfferGood
    <3>6. runs2[p.run] = runs[p.run] /\ Replacements(runs2, p.run) = Replacements(runs, p.run)
      BY <1>7, <1>14, <3>4, <3>5
    <3>7. Replaced(u, p, runs) => Replaced(u, p, runs2)
      <4> SUFFICES ASSUME NEW i \in VRuns, Replacements(runs, p.run) = {i}, runs[i].task = u,
                          runs[i].verifier # p.account
                   PROVE  Replaced(u, p, runs2)
        BY DEF Replaced
      <4>1. i \in Replacements(runs, p.run)
        OBVIOUS
      <4>2. i # q
        BY <1>2, <1>6, <3>5, <4>1 DEF Replacements
      <4>3. runs2[i].task = runs[i].task /\ runs2[i].verifier = runs[i].verifier
        BY <1>3, <1>7, <4>2
      <4> QED
        BY <3>6, <4>3 DEF Replaced
    <3>8. OfferGood(u, p, runs2, waiting)
      BY <3>2, <3>6, <3>7 DEF OfferGood
    <3> QED
      BY <3>1, <3>8
  <2> QED
    BY <2>1, <2>2
<1>16. Book(runs2, offers2, waiting)
  BY <1>7, <1>9, <1>11, <1>12, <1>15 DEF Book, BookShapes
<1> QED
  <2>1. runs2 = [[runs EXCEPT ![offers[t][k].run] = TimedOut(@)] EXCEPT ![q] = NewRun(t, v, offers[t][k].run)]
    BY DEF runs2, heir, gone, r, o
  <2>2. offers2 = [offers EXCEPT ![t] = [offers[t] EXCEPT ![k] = GiveUp(offers[t][k])]]
    BY DEF offers2, rows, closed, o
  <2> QED
    BY <1>16, <2>1, <2>2

\* Nobody else is found: the offer and those that are open are exhausted, and
\* the Task waits.
LEMMA BookExhausted ==
  ASSUME NEW runs, NEW offers, NEW waiting, Book(runs, offers, waiting), NEW t \in VTasks,
         NEW k \in DOMAIN offers[t], offers[t][k].status \in {"offered", "exhausted"},
         runs[offers[t][k].run].status \in {"PLANNED", "ASSIGNED", "RECHECK_ASSIGNED"}
  PROVE  Book([runs EXCEPT ![offers[t][k].run] = TimedOut(@)],
              [offers EXCEPT ![t] = CloseOffers([[offers[t] EXCEPT ![k] = GiveUp(offers[t][k])]
                                                   EXCEPT ![k].status = "exhausted"])],
              waiting \cup {t})
<1> DEFINE o == offers[t][k]
           r == o.run
           gone == TimedOut(runs[r])
           closed == [GiveUp(o) EXCEPT !.status = "exhausted"]
           runs2 == [runs EXCEPT ![r] = gone]
           given == [[offers[t] EXCEPT ![k] = GiveUp(offers[t][k])] EXCEPT ![k].status = "exhausted"]
           rows == CloseOffers(given)
           offers2 == [offers EXCEPT ![t] = rows]
<1>1. /\ BookShapes(runs, offers) /\ RunsGood(runs) /\ OffersGood(runs, offers, waiting) /\ OneOfferEach(offers)
      /\ runs \in [VRuns -> VRunRow] /\ offers \in [VTasks -> Seq(OfferRow)] /\ offers[t] \in Seq(OfferRow)
      /\ o \in OfferRow
  BY DEF Book, BookShapes
<1>2. r \in VRuns
  BY <1>1 DEF OfferRow
<1>3. /\ RunGood(gone) /\ gone.endedBy = "timeout" /\ gone.status = "CANCELLED"
      /\ gone.replaces = runs[r].replaces /\ gone.task = runs[r].task /\ gone.verifier = runs[r].verifier
      /\ runs[r].endedBy # "timeout"
  <2>1. RunGood(runs[r]) /\ runs[r].status \in {"PLANNED", "ASSIGNED", "RECHECK_ASSIGNED"}
    BY <1>1, <1>2 DEF RunsGood
  <2> QED
    BY <2>1, SweepRows
<1>4. closed \in OfferRow /\ closed.run = r /\ closed.status = "exhausted"
  <2>1. GiveUp(o) \in OfferRow /\ GiveUp(o).run = r
    BY <1>1, SweepRows
  <2> QED
    BY <2>1, SweepRows
<1>5. given \in Seq(OfferRow) /\ DOMAIN given = DOMAIN offers[t] /\ given[k] = closed
      /\ \A j \in DOMAIN offers[t] : j # k => given[j] = offers[t][j]
  <2> DEFINE first == [offers[t] EXCEPT ![k] = GiveUp(offers[t][k])]
  <2>1. DOMAIN first = DOMAIN offers[t] /\ first[k] = GiveUp(o)
        /\ (\A j \in DOMAIN offers[t] : j # k => first[j] = offers[t][j]) /\ first \in Seq(OfferRow)
    BY <1>1, SweepRows
  <2>2. given = [first EXCEPT ![k] = closed]
    BY <2>1
  <2> HIDE DEF first, given, closed
  <2> QED
    BY <1>4, <2>1, <2>2
<1> HIDE DEF o, r, gone, closed, given
<1>6. /\ rows \in Seq(OfferRow) /\ DOMAIN rows = DOMAIN offers[t] /\ rows[k] = closed
      /\ \A j \in DOMAIN offers[t] : j # k =>
           /\ rows[j].run = offers[t][j].run
           /\ \/ rows[j] = offers[t][j]
              \/ offers[t][j].status = "offered" /\ rows[j].status = "exhausted"
  <2> DEFINE Close(x) == IF x.status = "offered" THEN [x EXCEPT !.status = "exhausted"] ELSE x
  <2>1. rows = [j \in DOMAIN given |-> Close(given[j])]
    BY DEF CloseOffers
  <2>2. \A x \in OfferRow : /\ Close(x) \in OfferRow /\ Close(x).run = x.run
                            /\ \/ Close(x) = x
                               \/ x.status = "offered" /\ Close(x).status = "exhausted"
    BY SweepRows
  <2>3. Close(closed) = closed
    BY <1>4
  <2> HIDE DEF Close, rows
  <2>4. \A j \in DOMAIN given : given[j] \in OfferRow
    BY <1>5
  <2>5. DOMAIN rows = DOMAIN given /\ \A j \in DOMAIN given : rows[j] = Close(given[j])
    BY <2>1
  <2>6. rows \in Seq(OfferRow)
    <3>1. Len(given) \in Nat /\ DOMAIN given = 1 .. Len(given)
      BY <1>5
    <3>2. rows \in [1 .. Len(given) -> OfferRow]
      BY <2>1, <2>2, <2>4, <3>1
    <3> QED
      BY <3>1, <3>2
  <2> QED
    BY <1>5, <2>2, <2>3, <2>4, <2>5, <2>6
<1> HIDE DEF rows
<1>7. /\ runs2 \in [VRuns -> VRunRow] /\ runs2[r] = gone /\ \A p \in VRuns : p # r => runs2[p] = runs[p]
  BY <1>1, <1>2, <1>3 DEF RunGood
<1>8. /\ offers2 \in [VTasks -> Seq(OfferRow)] /\ offers2[t] = rows
      /\ \A u \in VTasks : u # t => offers2[u] = offers[u]
  BY <1>1, <1>6
<1> HIDE DEF runs2, offers2
<1>9. \A u \in VTasks : \A j \in DOMAIN offers2[u] :
         /\ j \in DOMAIN offers[u] /\ offers2[u][j].run = offers[u][j].run
         /\ \/ offers2[u][j] = offers[u][j] /\ ~(u = t /\ j = k)
            \/ u = t /\ j # k /\ offers[t][j].status = "offered" /\ offers2[u][j].status = "exhausted"
            \/ u = t /\ j = k /\ offers2[u][j] = closed
  BY <1>4, <1>6, <1>8 DEF o, r
<1>10. OneOfferEach(offers2)
  BY <1>1, <1>9 DEF OneOfferEach
<1>11. RunsGood(runs2)
  <2>1. \A p \in VRuns : RunGood(runs2[p]) /\ runs2[p].replaces = runs[p].replaces
                         /\ (runs[p].endedBy = "timeout" => runs2[p].endedBy = "timeout")
    BY <1>1, <1>3, <1>7 DEF RunsGood
  <2>2. \A p \in VRuns : runs[p].replaces \in VRuns \cup {NoRunId}
    BY <1>1 DEF VRunRow
  <2> QED
    BY <1>1, <2>1, <2>2 DEF RunsGood
<1>12. /\ \A i \in VRuns : Replacements(runs2, i) = Replacements(runs, i)
       /\ \A i \in VRuns : runs[i].endedBy # "timeout" => Replacements(runs, i) = {}
  <2>1. \A p \in VRuns : runs2[p].replaces = runs[p].replaces
    BY <1>3, <1>7
  <2>2. NoRunId \notin VRuns
    BY VerifierAssumption
  <2> QED
    BY <1>1, <2>1, <2>2 DEF Replacements, RunsGood
<1>13. OffersGood(runs2, offers2, waiting \cup {t})
  <2> SUFFICES ASSUME NEW u \in VTasks, NEW j \in DOMAIN offers2[u]
               PROVE  OfferGood(u, offers2[u][j], runs2, waiting \cup {t})
    BY DEF OffersGood
  <2> DEFINE p == offers[u][j]
             n == offers2[u][j]
  <2>1. /\ j \in DOMAIN offers[u] /\ n.run = p.run /\ offers[u] \in Seq(OfferRow)
        /\ OfferGood(u, p, runs, waiting)
    BY <1>1, <1>9 DEF OffersGood
  <2>2. p \in OfferRow
    BY <2>1
  <2>3. p.run \in VRuns
    BY <2>2 DEF OfferRow
  <2>4. (u = t /\ j = k) \/ p.run # r
    BY <1>1, <2>1 DEF OneOfferEach, r, o
  <2>5. \/ n = p /\ p.run # r
        \/ u = t /\ p.run # r /\ p.status = "offered" /\ n.status = "exhausted"
        \/ u = t /\ n = closed
    BY <1>9, <2>4
  <2> HIDE DEF p, n
  <2>6. CASE n = p /\ p.run # r
    <3>1. runs2[p.run] = runs[p.run] /\ Replacements(runs2, p.run) = Replacements(runs, p.run)
      BY <1>7, <1>12, <2>3, <2>6
    <3>2. Replaced(u, p, runs) => Replaced(u, p, runs2)
      <4>1. \A i \in VRuns : runs2[i].task = runs[i].task /\ runs2[i].verifier = runs[i].verifier
        BY <1>3, <1>7
      <4> QED
        BY <3>1, <4>1 DEF Replaced
    <3>3. OfferGood(u, p, runs2, waiting \cup {t})
      BY <2>1, <3>1, <3>2 DEF OfferGood
    <3> QED
      BY <2>6, <3>3 DEF n
  <2>7. CASE u = t /\ p.run # r /\ p.status = "offered" /\ n.status = "exhausted"
    <3>1. runs[p.run].endedBy # "timeout" /\ runs[p.run].status # "ABSENT"
      BY <2>1, <2>7 DEF OfferGood
    <3>2. runs2[p.run] = runs[p.run] /\ Replacements(runs2, p.run) = {}
      BY <1>7, <1>12, <2>3, <2>7, <3>1
    <3>3. OfferGood(u, n, runs2, waiting \cup {t})
      BY <2>1, <2>7, <3>1, <3>2 DEF OfferGood
    <3> QED
      BY <3>3 DEF n
  <2>8. CASE u = t /\ n = closed
    <3>1. Replacements(runs2, r) = {} /\ runs2[r] = gone
      BY <1>2, <1>3, <1>7, <1>12
    <3>2. OfferGood(u, n, runs2, waiting \cup {t})
      BY <1>3, <1>4, <2>8, <3>1 DEF OfferGood
    <3> QED
      BY <3>2 DEF n
  <2> QED
    BY <2>5, <2>6, <2>7, <2>8
<1>14. Book(runs2, offers2, waiting \cup {t})
  BY <1>7, <1>8, <1>10, <1>11, <1>13 DEF Book, BookShapes
<1>15. runs2 = [runs EXCEPT ![offers[t][k].run] = TimedOut(@)]
  BY DEF runs2, gone, r, o
<1>16. offers2 = [offers EXCEPT ![t] = CloseOffers([[offers[t] EXCEPT ![k] = GiveUp(offers[t][k])]
                                                     EXCEPT ![k].status = "exhausted"])]
  BY DEF offers2, rows, given
<1> QED
  BY <1>14, <1>15, <1>16

-----------------------------------------------------------------------------
\* What the transactions know of the rows they have locked.
Moving(w) == w.op \notin {"idle", "create"}
UserGood(w) ==
  /\ w.op = "create" => w.task \in VTasks /\ w.verifier \in Verifiers /\ w.item \in {"none", "open"}
  /\ Moving(w) => /\ w.run \in VRuns /\ vlock[w.run] = "user"
                  /\ w.seen = vrun[w.run].status /\ w.seen # "ABSENT"
UsersGood ==
  /\ DOMAIN vuser = VUsers /\ \A u \in VUsers : UserGood(vuser[u])
  /\ \A u, w \in VUsers : u # w /\ Moving(vuser[u]) /\ Moving(vuser[w]) => vuser[u].run # vuser[w].run

DueGood ==
  /\ sweep.due \in Seq(VTasks \X Nat)
  /\ \A i \in DOMAIN sweep.due : /\ sweep.due[i][2] \in DOMAIN offer[sweep.due[i][1]]
                                 /\ offer[sweep.due[i][1]][sweep.due[i][2]].status = "offered"
  /\ \A i, j \in DOMAIN sweep.due : i # j => sweep.due[i] # sweep.due[j]
SeenGood ==
  /\ sweep.seen \in Seq(RunStatuses) /\ sweep.next = Len(sweep.seen) + 1 /\ Len(sweep.seen) <= Len(sweep.due)
  /\ \A i \in DOMAIN sweep.seen : vlock[RunOfDue(i)] = "sweep" /\ sweep.seen[i] = vrun[RunOfDue(i)].status
SweepGood ==
  /\ {"phase", "due", "next", "seen"} \subseteq DOMAIN sweep
  /\ sweep.phase = "lock" => DueGood /\ SeenGood

VerInv ==
  /\ Book(vrun, offer, parked) /\ vlock \in [VRuns -> {"free", "user", "sweep"}]
  /\ UsersGood /\ SweepGood

-----------------------------------------------------------------------------
\* The tables in the loop of the sweep, after n of the due offers.
Unused(runs) == {q \in VRuns : runs[q].status = "ABSENT"}
StillDue(runs, offers, n) ==
  \A i \in DOMAIN sweep.due : i > n =>
    LET rows == offers[sweep.due[i][1]]  k == sweep.due[i][2]
    IN  /\ k \in DOMAIN rows /\ rows[k].run = RunOfDue(i) /\ rows[k].status \in {"offered", "exhausted"}
        /\ runs[RunOfDue(i)] = vrun[RunOfDue(i)]
Kept(runs) ==
  \A r \in VRuns : vrun[r].status # "ABSENT" /\ vlock[r] # "sweep" => runs[r].status = vrun[r].status
Room(runs, n, found) ==
  \/ Cardinality(Unused(runs)) >= Len(sweep.due) - n
  \/ \A t \in VTasks : EligibleVerifiers(found, t, {}) = {}
LoopGood(T, n, found) ==
  Book(T.vrun, T.offer, T.parked) /\ StillDue(T.vrun, T.offer, n) /\ Kept(T.vrun) /\ Room(T.vrun, n, found)

SweepReady ==
  /\ sweep.phase = "lock" /\ Len(sweep.seen) = Len(sweep.due)
  /\ "CANCELLED" \notin Sequence!ToSet(sweep.seen)

\* The due offer that is next.
LEMMA DueIs ==
  ASSUME VerInv, SweepReady, NEW i \in 1 .. Len(sweep.due)
  PROVE  /\ sweep.due[i][1] \in VTasks /\ sweep.due[i][2] \in DOMAIN offer[sweep.due[i][1]]
         /\ RunOfDue(i) \in VRuns /\ i \in DOMAIN sweep.due /\ Len(sweep.due) \in Nat
         /\ vrun[RunOfDue(i)].status \notin {"ABSENT", "CANCELLED"} /\ vlock[RunOfDue(i)] = "sweep"
         /\ sweep.seen[i] = vrun[RunOfDue(i)].status
         /\ \A j \in DOMAIN sweep.due : j # i => sweep.due[j] # sweep.due[i] /\ RunOfDue(j) # RunOfDue(i)
<1> DEFINE t == sweep.due[i][1]
           k == sweep.due[i][2]
<1>1. /\ sweep.due \in Seq(VTasks \X Nat) /\ sweep.seen \in Seq(RunStatuses) /\ DueGood /\ SeenGood
      /\ Len(sweep.seen) = Len(sweep.due)
  BY DEF VerInv, SweepGood, DueGood, SeenGood, SweepReady
<1>2. Len(sweep.due) \in Nat /\ i \in DOMAIN sweep.due /\ i \in DOMAIN sweep.seen
  BY <1>1
<1>3. \A j \in DOMAIN sweep.due : /\ sweep.due[j] \in VTasks \X Nat /\ sweep.due[j][1] \in VTasks
                                  /\ sweep.due[j] = <<sweep.due[j][1], sweep.due[j][2]>>
                                  /\ sweep.due[j][2] \in DOMAIN offer[sweep.due[j][1]]
  BY <1>1 DEF DueGood
<1>4. BookShapes(vrun, offer) /\ OffersGood(vrun, offer, parked) /\ OneOfferEach(offer)
  BY DEF VerInv, Book
<1>5. t \in VTasks /\ k \in DOMAIN offer[t] /\ offer[t] \in Seq(OfferRow)
  BY <1>2, <1>3, <1>4 DEF BookShapes
<1>6. offer[t][k] \in OfferRow /\ OfferGood(t, offer[t][k], vrun, parked)
  BY <1>4, <1>5 DEF OffersGood
<1>7. RunOfDue(i) = offer[t][k].run
  BY DEF RunOfDue
<1>8. RunOfDue(i) \in VRuns /\ vrun[RunOfDue(i)].status # "ABSENT"
  BY <1>6, <1>7 DEF OfferRow, OfferGood
<1>9. vlock[RunOfDue(i)] = "sweep" /\ sweep.seen[i] = vrun[RunOfDue(i)].status
  BY <1>1, <1>2 DEF SeenGood
<1>10. sweep.seen[i] # "CANCELLED"
  BY <1>2 DEF SweepReady, Sequence!ToSet
<1>11. ASSUME NEW j \in DOMAIN sweep.due, j # i
       PROVE  sweep.due[j] # sweep.due[i] /\ RunOfDue(j) # RunOfDue(i)
  <2>1. sweep.due[j] # sweep.due[i]
    BY <1>1, <1>2, <1>11 DEF DueGood
  <2>2. ~(sweep.due[j][1] = t /\ sweep.due[j][2] = k)
    BY <1>2, <1>3, <2>1
  <2> QED
    BY <1>3, <1>4, <1>5, <2>1, <2>2 DEF OneOfferEach, RunOfDue
<1> QED
  BY <1>2, <1>5, <1>8, <1>9, <1>10, <1>11

LEMMA TimedOutIs ==
  ASSUME NEW row, RunGood(row), row.status \in {"PLANNED", "ASSIGNED", "RECHECK_ASSIGNED"}
  PROVE  TimedOut(row).status = "CANCELLED"
BY SweepRows

LEMMA LoopStep ==
  ASSUME VerInv, SweepReady, NEW n \in Nat, n + 1 <= Len(sweep.due), NEW T, NEW view, NEW found,
         LoopGood(T, n, found)
  PROVE  LoopGood(ResolveOffer(T, n + 1, view, found), n + 1, found)
<1> DEFINE i == n + 1
           t == sweep.due[i][1]
           k == sweep.due[i][2]
           r == RunOfDue(i)
           o == T.offer[t][k]
           runs == T.vrun
           offers == T.offer
           waiting == T.parked
           X == ResolveOffer(T, i, view, found)
<1>0. i \in 1 .. Len(sweep.due) /\ Len(sweep.due) \in Nat
  BY DEF VerInv, SweepGood, DueGood, SweepReady
<1>1. /\ t \in VTasks /\ r \in VRuns /\ i \in DOMAIN sweep.due
      /\ vrun[r].status \notin {"ABSENT", "CANCELLED"} /\ vlock[r] = "sweep" /\ sweep.seen[i] = vrun[r].status
      /\ \A j \in DOMAIN sweep.due : j # i => sweep.due[j] # sweep.due[i] /\ RunOfDue(j) # r
  BY <1>0, DueIs
<1>2. /\ Book(runs, offers, waiting) /\ StillDue(runs, offers, n) /\ Kept(runs) /\ Room(runs, n, found)
      /\ BookShapes(runs, offers) /\ RunsGood(runs) /\ OffersGood(runs, offers, waiting)
      /\ runs \in [VRuns -> VRunRow] /\ offers \in [VTasks -> Seq(OfferRow)] /\ offers[t] \in Seq(OfferRow)
  BY <1>1 DEF LoopGood, Book, BookShapes
<1>3. /\ k \in DOMAIN offers[t] /\ o.run = r /\ o.status \in {"offered", "exhausted"} /\ runs[r] = vrun[r]
  <2>1. i \in DOMAIN sweep.due /\ i > n
    BY <1>0, <1>1
  <2> HIDE DEF i
  <2> QED
    BY <1>2, <2>1 DEF StillDue
<1>4. o \in OfferRow /\ OfferGood(t, o, runs, waiting) /\ RunGood(runs[r])
  BY <1>1, <1>2, <1>3 DEF OffersGood, RunsGood
<1>5. \A j \in DOMAIN sweep.due : j > i =>
        /\ j > n /\ j # i /\ RunOfDue(j) # r
        /\ sweep.due[j][1] \in VTasks /\ vrun[RunOfDue(j)].status # "ABSENT" /\ RunOfDue(j) \in VRuns
        /\ ~(sweep.due[j][1] = t /\ sweep.due[j][2] = k)
        /\ sweep.due[j][2] \in DOMAIN offers[sweep.due[j][1]]
        /\ offers[sweep.due[j][1]][sweep.due[j][2]].run = RunOfDue(j)
        /\ offers[sweep.due[j][1]][sweep.due[j][2]].status \in {"offered", "exhausted"}
        /\ runs[RunOfDue(j)] = vrun[RunOfDue(j)]
  <2> SUFFICES ASSUME NEW j \in DOMAIN sweep.due, j > i
               PROVE  /\ j > n /\ j # i /\ RunOfDue(j) # r
                      /\ sweep.due[j][1] \in VTasks /\ vrun[RunOfDue(j)].status # "ABSENT" /\ RunOfDue(j) \in VRuns
                      /\ ~(sweep.due[j][1] = t /\ sweep.due[j][2] = k)
                      /\ sweep.due[j][2] \in DOMAIN offers[sweep.due[j][1]]
                      /\ offers[sweep.due[j][1]][sweep.due[j][2]].run = RunOfDue(j)
                      /\ offers[sweep.due[j][1]][sweep.due[j][2]].status \in {"offered", "exhausted"}
                      /\ runs[RunOfDue(j)] = vrun[RunOfDue(j)]
    OBVIOUS
  <2>1. sweep.due \in Seq(VTasks \X Nat)
    BY DEF VerInv, SweepGood, DueGood, SweepReady
  <2>2. j \in 1 .. Len(sweep.due) /\ j \in Nat /\ sweep.due[j] \in VTasks \X Nat /\ sweep.due[i] \in VTasks \X Nat
    BY <1>0, <2>1
  <2>3. /\ sweep.due[j][1] \in VTasks /\ RunOfDue(j) \in VRuns /\ vrun[RunOfDue(j)].status # "ABSENT"
    BY <2>2, DueIs
  <2>4. j > n /\ j # i
    BY <2>2
  <2>5. sweep.due[j] # sweep.due[i] /\ RunOfDue(j) # r
    BY <1>1, <2>4
  <2>6. ~(sweep.due[j][1] = t /\ sweep.due[j][2] = k)
    BY <2>2, <2>5
  <2>7. /\ sweep.due[j][2] \in DOMAIN offers[sweep.due[j][1]]
        /\ offers[sweep.due[j][1]][sweep.due[j][2]].run = RunOfDue(j)
        /\ offers[sweep.due[j][1]][sweep.due[j][2]].status \in {"offered", "exhausted"}
        /\ runs[RunOfDue(j)] = vrun[RunOfDue(j)]
    BY <1>2, <2>4 DEF StillDue
  <2> QED
    BY <2>3, <2>4, <2>5, <2>6, <2>7
<1>6. IsFiniteSet(Unused(runs)) /\ Cardinality(Unused(runs)) \in Nat
  BY VerifierAssumption, FS_Subset, FS_CardinalityType DEF Unused
<1> DEFINE free == EligibleVerifiers(found, t, OfferedAccounts(view[t]) \cup OfferedAccounts(offers[t]))
           row == [o EXCEPT !.status = "accepted"]
<1>7. CASE sweep.seen[i] \in TakenUp
  <2> DEFINE offers2 == [offers EXCEPT ![t] = [@ EXCEPT ![k] = row]]
  <2>1. row \in OfferRow /\ row.run = r /\ row.status = "accepted"
    BY <1>3, <1>4, SweepRows
  <2>2. X.vrun = runs /\ X.offer = offers2 /\ X.parked = waiting
    BY <1>7 DEF ResolveOffer
  <2>3. runs[r].started /\ runs[r].endedBy # "timeout" /\ runs[r].status # "ABSENT"
    BY <1>1, <1>3, <1>4, <1>7 DEF RunGood
  <2>4. OfferGood(t, row, runs, waiting)
    BY <2>1, <2>3 DEF OfferGood
  <2>5. Book(runs, offers2, waiting)
    <3> HIDE DEF row, X
    <3>1. row.run = offers[t][k].run
      BY <1>3, <2>1
    <3> HIDE DEF runs, offers, waiting, t, k
    <3> QED
      BY <1>1, <1>2, <1>3, <2>1, <2>4, <3>1, BookOfferSet
  <2>6. StillDue(runs, offers2, i)
    <3> HIDE DEF row, X, o, runs, offers, waiting, t, k, i, r
    <3>1. \A u \in VTasks, j \in Nat : j \in DOMAIN offers[u] /\ ~(u = t /\ j = k) =>
            j \in DOMAIN offers2[u] /\ offers2[u][j] = offers[u][j]
      BY <1>1, <1>2
    <3>2. sweep.due \in Seq(VTasks \X Nat)
      BY DEF VerInv, SweepGood, DueGood, SweepReady
    <3>3. \A j \in DOMAIN sweep.due : sweep.due[j][2] \in Nat
      BY <3>2
    <3> HIDE DEF offers2
    <3> QED
      BY <1>5, <3>1, <3>3 DEF StillDue
  <2>7. Room(runs, i, found)
    BY <1>0, <1>2, <1>6 DEF Room
  <2> QED
    BY <1>2, <2>2, <2>5, <2>6, <2>7 DEF LoopGood
<1>8. CASE sweep.seen[i] \notin TakenUp /\ free # {}
  <2> DEFINE v == BestOf(found, t, free)
             q == NextRun(Unused(runs))
             offer2 == NewOffer(q, v, ItemFor(found[v]))
             rows == [offers[t] EXCEPT ![k] = GiveUp(offers[t][k])]
             runs2 == [[runs EXCEPT ![r] = TimedOut(@)] EXCEPT ![q] = NewRun(t, v, r)]
             rank == Len(view[t]) + (Len(offers[t]) - Len(offer[t])) + 1
             offers1 == [offers EXCEPT ![t] = rows]
             offers2 == [offers EXCEPT ![t] = InsertOffer(rows, rank, offer2)]
  <2>1. X.vrun = runs2 /\ X.offer = offers2 /\ X.parked = waiting
    BY <1>8 DEF ResolveOffer, Unused, RunOfDue
  <2>2. v \in free /\ v \in Verifiers /\ v # o.account
    <3>1. free \in SUBSET Verifiers
      BY DEF EligibleVerifiers
    <3>2. v \in free
      BY <1>8, <3>1, BestIs
    <3>3. o.account \in OfferedAccounts(offers[t])
      BY <1>3 DEF OfferedAccounts
    <3>4. o.account \notin free
      BY <3>3 DEF EligibleVerifiers
    <3> QED
      BY <3>1, <3>2, <3>4
  <2>3. q \in VRuns /\ runs[q].status = "ABSENT" /\ q # r /\ Unused(runs) # {}
        /\ (Cardinality(Unused(runs)) >= Len(sweep.due) - n \/ \A u \in VTasks : EligibleVerifiers(found, u, {}) = {})
    <3>1. EligibleVerifiers(found, t, {}) # {}
      BY <1>8 DEF EligibleVerifiers
    <3>2. Cardinality(Unused(runs)) >= Len(sweep.due) - n
      BY <1>1, <1>2, <3>1 DEF Room
    <3>3. Unused(runs) # {}
      <4> SUFFICES ASSUME Unused(runs) = {} PROVE FALSE
        OBVIOUS
      <4>1. Cardinality(Unused(runs)) = 0
        BY FS_EmptySet
      <4>2. Len(sweep.due) - n >= 1
        BY <1>0
      <4> QED
        BY <1>0, <3>2, <4>1, <4>2
    <3>4. Unused(runs) \in SUBSET VRuns
      BY DEF Unused
    <3>5. q \in Unused(runs)
      BY <3>3, <3>4, NextRunIs
    <3> QED
      BY <1>1, <1>3, <3>2, <3>3, <3>5 DEF Unused
  <2>4. runs[r].status \in {"PLANNED", "ASSIGNED", "RECHECK_ASSIGNED"}
    <3>1. runs[r].status \in RunStatuses
      BY <1>1, <1>2 DEF VRunRow
    <3> QED
      BY <1>1, <1>3, <1>8, <3>1 DEF RunStatuses, TakenUp
  <2>5. /\ RunGood(TimedOut(runs[r])) /\ TimedOut(runs[r]).status = "CANCELLED"
    BY <1>4, <2>4, SweepRows
  <2>6. LET x == NewRun(t, v, r) IN RunGood(x) /\ x.status = "PLANNED" /\ x.endedBy = "none"
    BY <1>1, <2>2, SweepRows
  <2>7. /\ GiveUp(o) \in OfferRow /\ GiveUp(o).run = r
    BY <1>3, <1>4, SweepRows
  <2>8. /\ offer2 \in OfferRow /\ offer2.run = q /\ offer2.status = "offered"
    BY <2>2, <2>3 DEF NewOffer, OfferRow, ItemFor
  <2> HIDE DEF X, free, row
  <2>9. runs2[q] = NewRun(t, v, r) /\ runs2[r] = TimedOut(runs[r])
        /\ \A p \in VRuns : p # q /\ p # r => runs2[p] = runs[p]
    <3> HIDE DEF q, v, t, i, k, r, runs
    <3> QED
      BY <1>1, <1>2, <2>3
  <2>10. /\ DOMAIN rows = DOMAIN offers[t] /\ rows[k] = GiveUp(o) /\ rows \in Seq(OfferRow)
         /\ \A j \in DOMAIN offers[t] : j # k => rows[j] = offers[t][j]
    <3> DEFINE list == offers[t]
               x == GiveUp(o)
    <3>1. list \in Seq(OfferRow) /\ k \in DOMAIN list /\ x \in OfferRow
      BY <1>2, <1>3, <2>7
    <3>2. rows = [list EXCEPT ![k] = x]
      OBVIOUS
    <3> HIDE DEF list, x, rows, k
    <3>3. /\ DOMAIN rows = DOMAIN list /\ rows[k] = x /\ rows \in Seq(OfferRow)
          /\ \A j \in DOMAIN list : j # k => rows[j] = list[j]
      BY <3>1, <3>2
    <3> QED
      BY <3>3 DEF list, x
  <2>11. Book(runs2, offers1, waiting)
    <3>1. offers[t][k].run = r /\ offers[t][k].account # v /\ runs[offers[t][k].run].status \in {"PLANNED", "ASSIGNED", "RECHECK_ASSIGNED"}
          /\ offers[t][k].status \in {"offered", "exhausted"}
      BY <1>3, <2>2, <2>4
    <3> HIDE DEF q, v, t, k, r, runs, offers, waiting, o
    <3>2. Book([[runs EXCEPT ![offers[t][k].run] = TimedOut(@)] EXCEPT ![q] = NewRun(t, v, offers[t][k].run)],
               [offers EXCEPT ![t] = [offers[t] EXCEPT ![k] = GiveUp(offers[t][k])]], waiting)
      BY <1>1, <1>2, <1>3, <2>2, <2>3, <3>1, BookReplaced
    <3>3. runs2 = [[runs EXCEPT ![offers[t][k].run] = TimedOut(@)] EXCEPT ![q] = NewRun(t, v, offers[t][k].run)]
      BY <3>1
    <3> QED
      BY <3>2, <3>3
  <2> HIDE DEF offer2, rows, rank, q, v, t, i, k, r, o, runs, offers, waiting
  <2>12. /\ offers1 \in [VTasks -> Seq(OfferRow)] /\ offers1[t] = rows
         /\ \A u \in VTasks : u # t => offers1[u] = offers[u]
    BY <1>1, <1>2, <2>10
  <2>13. \A u \in VTasks : \A j \in DOMAIN offers1[u] : offers1[u][j].run # q
    <3> SUFFICES ASSUME NEW u \in VTasks, NEW j \in DOMAIN offers1[u] PROVE offers1[u][j].run # q
      OBVIOUS
    <3>1. j \in DOMAIN offers[u] /\ offers1[u][j].run = offers[u][j].run
      <4>1. CASE u # t
        BY <2>12, <4>1
      <4>2. CASE u = t
        <5>1. j \in DOMAIN offers[t] /\ offers1[u][j] = rows[j]
          BY <2>10, <2>12, <4>2
        <5>2. rows[k].run = offers[t][k].run
          BY <1>3, <2>7, <2>10 DEF o, offers
        <5> QED
          BY <2>10, <4>2, <5>1, <5>2
      <4> QED
        BY <4>1, <4>2
    <3>2. runs[offers[u][j].run].status # "ABSENT"
      BY <1>2, <3>1 DEF OffersGood, OfferGood
    <3> QED
      BY <2>3, <3>1, <3>2
  <2>14. /\ Book(runs2, offers2, waiting)
         /\ offers2 = offers1 \/ offers2 = [offers1 EXCEPT ![t] = Append(@, offer2)]
    <3>1. [offers1 EXCEPT ![t] = Append(@, offer2)] = [offers EXCEPT ![t] = Append(rows, offer2)]
      BY <1>1, <1>2, <2>12
    <3>2. InsertOffer(rows, rank, offer2) = rows \/ InsertOffer(rows, rank, offer2) = Append(rows, offer2)
      BY DEF InsertOffer
    <3>3. offers2 = offers1 \/ offers2 = [offers1 EXCEPT ![t] = Append(@, offer2)]
      BY <3>1, <3>2
    <3>4. runs2[q].status # "ABSENT" /\ runs2[q].endedBy # "timeout"
      BY <2>6, <2>9
    <3>5. Book(runs2, [offers1 EXCEPT ![t] = Append(@, offer2)], waiting)
      <4> HIDE DEF runs2, offers1, offers2
      <4> QED
        BY <1>1, <2>8, <2>11, <2>13, <3>4, BookOfferAdded
    <3> QED
      BY <2>11, <3>3, <3>5
  <2> HIDE DEF runs2, offers2
  <2>15. \A u \in VTasks, j \in Nat : j \in DOMAIN offers[u] /\ ~(u = t /\ j = k) =>
           j \in DOMAIN offers2[u] /\ offers2[u][j] = offers[u][j]
    <3>1. \A u \in VTasks, j \in Nat : j \in DOMAIN offers[u] /\ ~(u = t /\ j = k) =>
            j \in DOMAIN offers1[u] /\ offers1[u][j] = offers[u][j]
      BY <2>10, <2>12
    <3>2. \A u \in VTasks, j \in Nat : j \in DOMAIN offers1[u] =>
            j \in DOMAIN offers2[u] /\ offers2[u][j] = offers1[u][j]
      <4> HIDE DEF offers1
      <4>1. CASE offers2 = offers1
        BY <4>1
      <4>2. CASE offers2 = [offers1 EXCEPT ![t] = Append(@, offer2)]
        <5>1. offers1[t] \in Seq(OfferRow)
          BY <1>1, <2>12
        <5>2. \A j \in DOMAIN offers1[t] : j \in DOMAIN Append(offers1[t], offer2)
                                           /\ Append(offers1[t], offer2)[j] = offers1[t][j]
          BY <5>1
        <5>3. offers2[t] = Append(offers1[t], offer2) /\ \A u \in VTasks : u # t => offers2[u] = offers1[u]
          BY <1>1, <2>12, <4>2
        <5> QED
          BY <5>2, <5>3
      <4> QED
        BY <2>14, <4>1, <4>2
    <3> QED
      BY <3>1, <3>2
  <2>16. StillDue(runs2, offers2, i)
    <3>1. sweep.due \in Seq(VTasks \X Nat)
      BY DEF VerInv, SweepGood, DueGood, SweepReady
    <3>2. \A j \in DOMAIN sweep.due : sweep.due[j][2] \in Nat
      BY <3>1
    <3>3. \A j \in DOMAIN sweep.due : j > i => runs2[RunOfDue(j)] = vrun[RunOfDue(j)]
      BY <1>5, <2>3, <2>9
    <3> QED
      BY <1>5, <2>15, <3>2, <3>3 DEF StillDue
  <2>17. Kept(runs2)
    <3> SUFFICES ASSUME NEW p \in VRuns, vrun[p].status # "ABSENT", vlock[p] # "sweep"
                 PROVE  runs2[p].status = vrun[p].status
      BY DEF Kept
    <3>1. runs[p].status = vrun[p].status
      BY <1>2 DEF Kept
    <3> QED
      BY <1>1, <2>3, <2>9, <3>1
  <2>18. Room(runs2, i, found)
    <3>1. Unused(runs2) = Unused(runs) \ {q} /\ q \in Unused(runs)
      <4>1. /\ runs2[q].status # "ABSENT" /\ runs2[r].status # "ABSENT" /\ runs[r].status # "ABSENT"
            /\ runs[q].status = "ABSENT" /\ \A p \in VRuns : p # q /\ p # r => runs2[p].status = runs[p].status
        BY <2>3, <2>4, <2>5, <2>6, <2>9
      <4> QED
        BY <2>3, <4>1 DEF Unused
    <3>2. Cardinality(Unused(runs2)) = Cardinality(Unused(runs)) - 1
      BY <1>6, <3>1, FS_RemoveElement
    <3> QED
      BY <1>0, <1>6, <2>3, <3>2 DEF Room, i
  <2> QED
    BY <2>1, <2>14, <2>16, <2>17, <2>18 DEF LoopGood, i, X
<1>9. CASE sweep.seen[i] \notin TakenUp /\ free = {}
  <2> DEFINE given == [[offers[t] EXCEPT ![k] = GiveUp(offers[t][k])] EXCEPT ![k].status = "exhausted"]
             runs2 == [runs EXCEPT ![r] = TimedOut(@)]
             offers2 == [offers EXCEPT ![t] = CloseOffers(given)]
             waiting2 == waiting \cup {t}
  <2>1. X.vrun = runs2 /\ X.offer = offers2 /\ X.parked = waiting2
    BY <1>9 DEF ResolveOffer, RunOfDue
  <2>2. runs[r].status \in {"PLANNED", "ASSIGNED", "RECHECK_ASSIGNED"}
    <3>1. runs[r].status \in RunStatuses
      BY <1>1, <1>2 DEF VRunRow
    <3> QED
      BY <1>1, <1>3, <1>9, <3>1 DEF RunStatuses, TakenUp
  <2>3. TimedOut(runs[r]).status = "CANCELLED"
    BY <1>4, <2>2, TimedOutIs
  <2> HIDE DEF X, free, row
  <2>4. DOMAIN given = DOMAIN offers[t] /\ \A j \in DOMAIN offers[t] : j # k => given[j] = offers[t][j]
    BY <1>2, <1>3
  <2>5. offers2[t] = CloseOffers(given) /\ \A u \in VTasks : u # t => offers2[u] = offers[u]
    BY <1>1, <1>2
  <2>6. runs2[r] = TimedOut(runs[r]) /\ \A p \in VRuns : p # r => runs2[p] = runs[p]
    BY <1>1, <1>2
  <2>7. Book(runs2, offers2, waiting2)
    <3>1. offers[t][k].run = r /\ runs[offers[t][k].run].status \in {"PLANNED", "ASSIGNED", "RECHECK_ASSIGNED"}
          /\ offers[t][k].status \in {"offered", "exhausted"}
      BY <1>3, <2>2
    <3> HIDE DEF t, k, r, runs, offers, waiting, o
    <3>2. Book([runs EXCEPT ![offers[t][k].run] = TimedOut(@)],
               [offers EXCEPT ![t] = CloseOffers([[offers[t] EXCEPT ![k] = GiveUp(offers[t][k])]
                                                   EXCEPT ![k].status = "exhausted"])],
               waiting \cup {t})
      BY <1>1, <1>2, <1>3, <3>1, BookExhausted
    <3>3. runs2 = [runs EXCEPT ![offers[t][k].run] = TimedOut(@)]
      BY <3>1
    <3> QED
      BY <3>2, <3>3
  <2> HIDE DEF given, t, i, k, r, o, runs, offers, waiting, runs2, offers2
  <2>8. ASSUME NEW u \in VTasks, NEW j \in Nat, j \in DOMAIN offers[u], ~(u = t /\ j = k),
               offers[u][j].status \in {"offered", "exhausted"}
        PROVE  /\ j \in DOMAIN offers2[u] /\ offers2[u][j].run = offers[u][j].run
               /\ offers2[u][j].status \in {"offered", "exhausted"}
    <3>1. CASE u # t
      BY <2>5, <2>8, <3>1
    <3>2. CASE u = t
      <4> DEFINE p == offers[t][j]
      <4>1. given[j] = p /\ j \in DOMAIN given /\ p \in OfferRow
        BY <1>2, <2>4, <2>8, <3>2
      <4>2. offers2[u][j] = (IF p.status = "offered" THEN [p EXCEPT !.status = "exhausted"] ELSE p)
            /\ j \in DOMAIN offers2[u]
        BY <2>5, <3>2, <4>1 DEF CloseOffers
      <4>3. p.status \in {"offered", "exhausted"} /\ offers[u][j] = p
        BY <2>8, <3>2
      <4> HIDE DEF p
      <4>4. LET x == [p EXCEPT !.status = "exhausted"] IN x.run = p.run /\ x.status = "exhausted"
        BY <4>1, SweepRows
      <4> QED
        BY <4>2, <4>3, <4>4
    <3> QED
      BY <3>1, <3>2
  <2>9. StillDue(runs2, offers2, i)
    <3>1. sweep.due \in Seq(VTasks \X Nat)
      BY DEF VerInv, SweepGood, DueGood, SweepReady
    <3>2. \A j \in DOMAIN sweep.due : sweep.due[j][2] \in Nat
      BY <3>1
    <3>3. \A j \in DOMAIN sweep.due : j > i => runs2[RunOfDue(j)] = vrun[RunOfDue(j)]
      BY <1>5, <2>6
    <3> SUFFICES ASSUME NEW j \in DOMAIN sweep.due, j > i
                 PROVE  LET rows == offers2[sweep.due[j][1]]  m == sweep.due[j][2]
                        IN  /\ m \in DOMAIN rows /\ rows[m].run = RunOfDue(j)
                            /\ rows[m].status \in {"offered", "exhausted"}
                            /\ runs2[RunOfDue(j)] = vrun[RunOfDue(j)]
      BY DEF StillDue
    <3>4. /\ sweep.due[j][1] \in VTasks /\ sweep.due[j][2] \in Nat
          /\ sweep.due[j][2] \in DOMAIN offers[sweep.due[j][1]]
          /\ ~(sweep.due[j][1] = t /\ sweep.due[j][2] = k)
          /\ offers[sweep.due[j][1]][sweep.due[j][2]].run = RunOfDue(j)
          /\ offers[sweep.due[j][1]][sweep.due[j][2]].status \in {"offered", "exhausted"}
      BY <1>5, <3>2
    <3> QED
      BY <2>8, <3>3, <3>4
  <2>10. Kept(runs2)
    <3> SUFFICES ASSUME NEW p \in VRuns, vrun[p].status # "ABSENT", vlock[p] # "sweep"
                 PROVE  runs2[p].status = vrun[p].status
      BY DEF Kept
    <3>1. runs[p].status = vrun[p].status
      BY <1>2 DEF Kept
    <3> QED
      BY <1>1, <2>6, <3>1
  <2>11. Room(runs2, i, found)
    <3>1. Unused(runs2) = Unused(runs)
      <4>1. runs2[r].status # "ABSENT" /\ runs[r].status # "ABSENT"
        BY <2>2, <2>3, <2>6
      <4> QED
        BY <2>6, <4>1 DEF Unused
    <3> QED
      BY <1>0, <1>2, <1>6, <3>1 DEF Room, i
  <2> QED
    BY <2>1, <2>7, <2>9, <2>10, <2>11 DEF LoopGood, i, X
<1> QED
  BY <1>7, <1>8, <1>9

\* The function that the loop defines exists, and ResolveOffers is its last
\* value.
LEMMA LoopRuns ==
  ASSUME NEW view, NEW found, Len(sweep.due) \in Nat
  PROVE  \E f : /\ f = [n \in 0 .. Len(sweep.due) |->
                          IF n = 0 THEN [vrun |-> vrun, offer |-> offer, parked |-> parked]
                          ELSE ResolveOffer(f[n - 1], n, view, found)]
                /\ ResolveOffers(view, found) = f[Len(sweep.due)]
<1> DEFINE First == [vrun |-> vrun, offer |-> offer, parked |-> parked]
           Runs(f, m) == f = [n \in 0 .. m |-> IF n = 0 THEN First ELSE ResolveOffer(f[n - 1], n, view, found)]
           S == {m \in Nat : \E f : Runs(f, m)}
<1> HIDE DEF First
<1>1. 0 \in S
  <2>1. Runs([n \in 0 .. 0 |-> First], 0)
    OBVIOUS
  <2> QED
    BY <2>1
<1>2. ASSUME NEW m \in Nat, m \in S PROVE m + 1 \in S
  <2>1. PICK g : Runs(g, m)
    BY <1>2
  <2> DEFINE h == [n \in 0 .. m + 1 |-> IF n <= m THEN g[n] ELSE ResolveOffer(g[m], m + 1, view, found)]
  <2>2. ASSUME NEW n \in 0 .. m + 1
        PROVE  h[n] = IF n = 0 THEN First ELSE ResolveOffer(h[n - 1], n, view, found)
    <3>1. CASE n = 0
      BY <2>1, <3>1
    <3>2. CASE n # 0 /\ n <= m
      <4>1. n - 1 \in 0 .. m /\ h[n - 1] = g[n - 1] /\ h[n] = g[n]
        BY <3>2
      <4>2. g[n] = ResolveOffer(g[n - 1], n, view, found)
        BY <2>1, <3>2
      <4> QED
        BY <3>2, <4>1, <4>2
    <3>3. CASE n = m + 1
      BY <3>3
    <3> QED
      BY <3>1, <3>2, <3>3
  <2>3. Runs(h, m + 1)
    BY <2>2
  <2> HIDE DEF h, Runs
  <2> QED
    BY <2>3
<1>3. Len(sweep.due) \in S
  <2> HIDE DEF S
  <2> QED
    BY <1>1, <1>2, LoopInduction
<1>4. \E f : Runs(f, Len(sweep.due))
  BY <1>3
<1>5. ResolveOffers(view, found) = (CHOOSE f : Runs(f, Len(sweep.due)))[Len(sweep.due)]
  BY DEF ResolveOffers, First
<1>6. Runs(CHOOSE f : Runs(f, Len(sweep.due)), Len(sweep.due))
  BY <1>4
<1> QED
  BY <1>5, <1>6 DEF First

\* What the loop leaves.
LEMMA LoopIs ==
  ASSUME VerInv, SweepReady, NEW view, NEW found,
         \/ Cardinality(NewRuns) >= Len(sweep.due)
         \/ \A t \in VTasks : EligibleVerifiers(found, t, {}) = {}
  PROVE  LET T == ResolveOffers(view, found) IN Book(T.vrun, T.offer, T.parked) /\ Kept(T.vrun)
<1> DEFINE N == Len(sweep.due)
<1>0. N \in Nat /\ sweep.due \in Seq(VTasks \X Nat)
  BY DEF VerInv, SweepGood, DueGood, SweepReady
<1>1. PICK f : /\ f = [n \in 0 .. N |-> IF n = 0 THEN [vrun |-> vrun, offer |-> offer, parked |-> parked]
                                        ELSE ResolveOffer(f[n - 1], n, view, found)]
               /\ ResolveOffers(view, found) = f[N]
  BY <1>0, LoopRuns
<1> DEFINE S == {n \in Nat : n <= N => LoopGood(f[n], n, found)}
<1>2. 0 \in S
  <2>1. f[0].vrun = vrun /\ f[0].offer = offer /\ f[0].parked = parked
    BY <1>0, <1>1
  <2>2. StillDue(vrun, offer, 0)
    BY DEF StillDue, RunOfDue, VerInv, SweepGood, DueGood, SweepReady
  <2>3. Kept(vrun)
    BY DEF Kept
  <2>4. Room(vrun, 0, found)
    <3>1. Unused(vrun) = NewRuns
      BY DEF Unused, NewRuns
    <3> QED
      BY <1>0, <3>1 DEF Room
  <2> QED
    BY <2>1, <2>2, <2>3, <2>4 DEF LoopGood, VerInv
<1>3. ASSUME NEW n \in Nat, n \in S PROVE n + 1 \in S
  <2> SUFFICES ASSUME n + 1 <= N PROVE LoopGood(f[n + 1], n + 1, found)
    OBVIOUS
  <2>1. LoopGood(f[n], n, found)
    BY <1>0, <1>3
  <2>2. f[n + 1] = ResolveOffer(f[n], n + 1, view, found)
    BY <1>0, <1>1
  <2>3. LoopGood(ResolveOffer(f[n], n + 1, view, found), n + 1, found)
    BY <2>1, LoopStep
  <2> QED
    BY <2>2, <2>3
<1>4. N \in S
  <2> HIDE DEF S, N
  <2> QED
    BY <1>0, <1>2, <1>3, LoopInduction
<1> QED
  BY <1>0, <1>1, <1>4 DEF LoopGood

-----------------------------------------------------------------------------
\* The steps that leave the sweep its rows, and the users theirs.
LEMMA SweepKept ==
  ASSUME VerInv, UNCHANGED sweep,
         \A t \in VTasks : \A k \in DOMAIN offer[t] :
           k \in DOMAIN offer'[t] /\ offer'[t][k].run = offer[t][k].run /\ offer'[t][k].status = offer[t][k].status,
         \A r \in VRuns : vlock[r] = "sweep" /\ vrun[r].status # "ABSENT" =>
           vlock'[r] = "sweep" /\ vrun'[r].status = vrun[r].status
  PROVE  SweepGood'
<1> SUFFICES ASSUME sweep.phase = "lock" PROVE DueGood' /\ SeenGood'
  BY DEF VerInv, SweepGood
<1>1. DueGood /\ SeenGood
  BY DEF VerInv, SweepGood
<1>2. ASSUME NEW i \in DOMAIN sweep.due
      PROVE  /\ sweep.due[i][1] \in VTasks /\ sweep.due[i][2] \in DOMAIN offer[sweep.due[i][1]]
             /\ RunOfDue(i) \in VRuns /\ vrun[RunOfDue(i)].status # "ABSENT"
  <2> DEFINE t == sweep.due[i][1]
             k == sweep.due[i][2]
  <2>1. sweep.due[i] \in VTasks \X Nat /\ k \in DOMAIN offer[t]
    BY <1>1 DEF DueGood
  <2>2. t \in VTasks
    BY <2>1
  <2>3. offer[t] \in Seq(OfferRow) /\ OfferGood(t, offer[t][k], vrun, parked)
    BY <2>1, <2>2 DEF VerInv, Book, BookShapes, OffersGood
  <2>4. offer[t][k] \in OfferRow
    BY <2>1, <2>3
  <2> QED
    BY <2>1, <2>2, <2>3, <2>4 DEF OfferGood, OfferRow, RunOfDue
<1>3. \A i \in DOMAIN sweep.due : RunOfDue(i)' = RunOfDue(i)
  BY <1>2 DEF RunOfDue
<1>4. DueGood'
  BY <1>1, <1>2 DEF DueGood
<1>5. SeenGood'
  <2>1. \A i \in DOMAIN sweep.seen : i \in DOMAIN sweep.due
    BY <1>1 DEF SeenGood, DueGood
  <2> QED
    BY <1>1, <1>2, <1>3, <2>1 DEF SeenGood
<1> QED
  BY <1>4, <1>5

LEMMA UsersKept ==
  ASSUME VerInv, UNCHANGED vuser,
         \A r \in VRuns : vlock[r] = "user" /\ vrun[r].status # "ABSENT" =>
           vlock'[r] = "user" /\ vrun'[r].status = vrun[r].status
  PROVE  UsersGood'
BY DEF VerInv, UsersGood, UserGood, Moving

\* A user begins or ends something; the others have other runs.
LEMMA UserKept ==
  ASSUME VerInv, NEW u \in VUsers, NEW w, vuser' = [vuser EXCEPT ![u] = w],
         \A r \in VRuns : vlock[r] = "user" /\ vrun[r].status # "ABSENT" /\ ~(Moving(vuser[u]) /\ vuser[u].run = r) =>
           vlock'[r] = "user" /\ vrun'[r].status = vrun[r].status,
         ~Moving(w), w.op = "create" => w.task \in VTasks /\ w.verifier \in Verifiers /\ w.item \in {"none", "open"}
  PROVE  UsersGood'
<1>1. /\ DOMAIN vuser = VUsers /\ \A x \in VUsers : UserGood(vuser[x])
      /\ \A x, y \in VUsers : x # y /\ Moving(vuser[x]) /\ Moving(vuser[y]) => vuser[x].run # vuser[y].run
  BY DEF VerInv, UsersGood
<1>2. DOMAIN vuser' = VUsers /\ vuser'[u] = w /\ \A x \in VUsers : x # u => vuser'[x] = vuser[x]
  BY <1>1
<1>3. UserGood(w)'
  BY DEF UserGood
<1>4. ASSUME NEW x \in VUsers, x # u PROVE UserGood(vuser[x])'
  <2>1. UserGood(vuser[x]) /\ vuser'[x] = vuser[x]
    BY <1>1, <1>2, <1>4
  <2>2. Moving(vuser[x]) /\ Moving(vuser[u]) => vuser[x].run # vuser[u].run
    BY <1>1, <1>4
  <2> QED
    BY <2>1, <2>2 DEF UserGood, Moving
<1>5. \A x, y \in VUsers : x # y /\ Moving(vuser'[x]) /\ Moving(vuser'[y]) => vuser'[x].run # vuser'[y].run
  BY <1>1, <1>2
<1>6. \A x \in VUsers : UserGood(vuser[x])'
  BY <1>2, <1>3, <1>4 DEF UserGood, Moving
<1> QED
  BY <1>2, <1>5, <1>6 DEF UsersGood, Moving

-----------------------------------------------------------------------------
LEMMA VerInit_Inv == VerifierInit => VerInv
<1> SUFFICES ASSUME VerifierInit PROVE VerInv
  OBVIOUS
<1>1. /\ vrun = [r \in VRuns |-> NoVRun] /\ offer = [t \in VTasks |-> <<>>] /\ parked = {}
      /\ vlock = [r \in VRuns |-> "free"] /\ vuser = [u \in VUsers |-> IdleUser] /\ sweep = IdleSweep
  BY DEF VerifierInit
<1>2. NoVRun \in VRunRow /\ RunGood(NoVRun) /\ NoVRun.replaces = NoRunId
  BY DEF NoVRun, VRunRow, RunGood, RunStatuses, TakenUp
<1>3. BookShapes(vrun, offer)
  BY <1>1, <1>2 DEF BookShapes
<1>4. RunsGood(vrun)
  BY <1>1, <1>2 DEF RunsGood
<1>5. OffersGood(vrun, offer, parked) /\ OneOfferEach(offer)
  BY <1>1 DEF OffersGood, OneOfferEach
<1>6. UsersGood
  BY <1>1 DEF UsersGood, UserGood, Moving, IdleUser
<1>7. SweepGood
  BY <1>1 DEF SweepGood, IdleSweep
<1> QED
  BY <1>1, <1>3, <1>4, <1>5, <1>6, <1>7 DEF VerInv, Book

LEMMA PickVerifier_Inv ==
  ASSUME VerInv, NEW u \in VUsers, NEW t \in VTasks, NEW st, PickVerifier(u, t, st)
  PROVE  VerInv'
<1> DEFINE candidates == EligibleVerifiers(st, t, OfferedAccounts(offer[t]))
           v == BestOf(st, t, candidates)
           w == [IdleUser EXCEPT !.op = "create", !.task = t, !.verifier = v,
                                 !.rank = Len(offer[t]) + 1, !.item = ItemFor(st[v])]
<1>1. /\ candidates # {} /\ vuser' = [vuser EXCEPT ![u] = w] /\ vuser[u].op = "idle"
      /\ UNCHANGED <<vrun, offer, vlock, sweep, parked>>
  BY DEF PickVerifier
<1>2. v \in Verifiers
  <2>1. candidates \in SUBSET Verifiers
    BY DEF EligibleVerifiers
  <2> HIDE DEF candidates
  <2> QED
    BY <1>1, <2>1, BestIs
<1> HIDE DEF v
<1>3. ItemFor(st[v]) \in {"none", "open"}
  BY DEF ItemFor
<1>4. w.op = "create" /\ w.task = t /\ w.verifier = v /\ w.item = ItemFor(st[v])
  BY DEF IdleUser
<1> HIDE DEF w
<1>5. UsersGood'
  BY <1>1, <1>2, <1>3, <1>4, UserKept DEF Moving
<1> QED
  BY <1>1, <1>5, SweepKept DEF VerInv

LEMMA CreateRun_Inv ==
  ASSUME VerInv, NEW u \in VUsers, CreateVerificationRun(u)
  PROVE  VerInv'
<1> DEFINE w == vuser[u]
           r == NextRun(NewRuns)
           t == w.task
           v == w.verifier
           row == NewOffer(r, v, w.item)
           runs == [vrun EXCEPT ![r] = NewRun(t, v, NoRunId)]
           added == [offer EXCEPT ![t] = Append(@, row)]
<1>1. /\ w.op = "create" /\ NewRuns # {} /\ vrun' = runs /\ vuser' = [vuser EXCEPT ![u] = IdleUser]
      /\ \E rank : offer' = [offer EXCEPT ![t] = InsertOffer(@, rank, row)]
      /\ UNCHANGED <<vlock, sweep, parked>>
  BY DEF CreateVerificationRun
<1>2. t \in VTasks /\ v \in Verifiers /\ w.item \in {"none", "open"}
  BY <1>1 DEF VerInv, UsersGood, UserGood
<1>3. r \in VRuns /\ vrun[r].status = "ABSENT"
  <2>1. NewRuns \in SUBSET VRuns
    BY DEF NewRuns
  <2>2. r \in NewRuns
    BY <1>1, <2>1, NextRunIs
  <2> QED
    BY <2>2 DEF NewRuns
<1>4. /\ row \in OfferRow /\ row.run = r /\ row.status = "offered"
  BY <1>2, <1>3 DEF NewOffer, OfferRow
<1>5. LET x == NewRun(t, v, NoRunId)
      IN  RunGood(x) /\ x.status = "PLANNED" /\ x.endedBy = "none" /\ x.replaces = NoRunId
  BY <1>2, SweepRows
<1> HIDE DEF r, row, t, v, w
<1>6. /\ Book(vrun, offer, parked) /\ BookShapes(vrun, offer) /\ OffersGood(vrun, offer, parked)
      /\ vrun \in [VRuns -> VRunRow] /\ offer \in [VTasks -> Seq(OfferRow)] /\ offer[t] \in Seq(OfferRow)
  BY <1>2 DEF VerInv, Book, BookShapes
<1>7. Book(runs, offer, parked)
  BY <1>3, <1>5, <1>6, BookRunAdded
<1>8. runs[r] = NewRun(t, v, NoRunId) /\ \A p \in VRuns : vrun[p].status # "ABSENT" => runs[p] = vrun[p]
  BY <1>3, <1>6
<1>9. \A x \in VTasks : \A k \in DOMAIN offer[x] : offer[x][k].run # r
  BY <1>3, <1>6 DEF OffersGood, OfferGood
<1>10. Book(runs, added, parked)
  <2>1. runs[row.run].status # "ABSENT" /\ runs[row.run].endedBy # "timeout"
    BY <1>4, <1>5, <1>8
  <2> HIDE DEF runs
  <2> QED
    BY <1>2, <1>4, <1>7, <1>9, <2>1, BookOfferAdded
<1>11. offer' = offer \/ offer' = added
  <2>1. PICK rank : offer' = [offer EXCEPT ![t] = InsertOffer(@, rank, row)]
    BY <1>1
  <2>2. InsertOffer(offer[t], rank, row) = offer[t] \/ InsertOffer(offer[t], rank, row) = Append(offer[t], row)
    BY DEF InsertOffer
  <2>3. offer = [offer EXCEPT ![t] = offer[t]]
    BY <1>6
  <2> QED
    BY <2>1, <2>2, <2>3
<1>12. Book(vrun', offer', parked')
  BY <1>1, <1>7, <1>10, <1>11
<1>13. \A x \in VTasks : \A k \in DOMAIN offer[x] :
         k \in DOMAIN offer'[x] /\ offer'[x][k].run = offer[x][k].run /\ offer'[x][k].status = offer[x][k].status
  <2>1. CASE offer' = offer
    BY <2>1
  <2>2. CASE offer' = added
    <3>1. \A k \in DOMAIN offer[t] : k \in DOMAIN Append(offer[t], row) /\ Append(offer[t], row)[k] = offer[t][k]
      BY <1>6
    <3>2. added[t] = Append(offer[t], row) /\ \A x \in VTasks : x # t => added[x] = offer[x]
      BY <1>2, <1>6
    <3> HIDE DEF added
    <3> QED
      BY <2>2, <3>1, <3>2
  <2> QED
    BY <1>11, <2>1, <2>2
<1>14. \A p \in VRuns : vrun[p].status # "ABSENT" => vrun'[p].status = vrun[p].status
  BY <1>1, <1>8
<1>15. UsersGood'
  <2>1. ~Moving(IdleUser) /\ IdleUser.op # "create"
    BY DEF Moving, IdleUser
  <2> QED
    BY <1>1, <1>14, <2>1, UserKept
<1>16. SweepGood'
  BY <1>1, <1>13, <1>14, SweepKept
<1> QED
  BY <1>1, <1>12, <1>15, <1>16 DEF VerInv

LEMMA LoadRun_Inv ==
  ASSUME VerInv, NEW u \in VUsers, NEW r \in VRuns, NEW op, op # "create", LoadRun(u, r, op)
  PROVE  VerInv'
<1> DEFINE w == [IdleUser EXCEPT !.op = op, !.run = r, !.seen = vrun[r].status]
<1>1. /\ vuser[u].op = "idle" /\ vlock[r] = "free" /\ vrun[r].status # "ABSENT"
      /\ vlock' = [vlock EXCEPT ![r] = "user"] /\ vuser' = [vuser EXCEPT ![u] = w]
      /\ UNCHANGED <<vrun, offer, sweep, parked>>
  BY DEF LoadRun, RunFree
<1>2. w.op = op /\ w.run = r /\ w.seen = vrun[r].status /\ w.task = "none"
  BY DEF IdleUser
<1> HIDE DEF w
<1>3. vlock \in [VRuns -> {"free", "user", "sweep"}] /\ DOMAIN vuser = VUsers
  BY DEF VerInv, UsersGood
<1>4. vlock' \in [VRuns -> {"free", "user", "sweep"}] /\ vlock'[r] = "user"
      /\ \A p \in VRuns : p # r => vlock'[p] = vlock[p]
  BY <1>1, <1>3
<1>5. SweepGood'
  BY <1>1, <1>4, SweepKept
<1>6. UsersGood'
  <2>1. \A x \in VUsers : UserGood(vuser[x]) /\ (Moving(vuser[x]) => vuser[x].run # r)
    BY <1>1 DEF VerInv, UsersGood, UserGood
  <2>2. vuser'[u] = w /\ \A x \in VUsers : x # u => vuser'[x] = vuser[x]
    BY <1>1, <1>3
  <2>3. \A x \in VUsers : x # u => UserGood(vuser[x])'
    BY <1>1, <1>4, <2>1, <2>2 DEF UserGood, Moving
  <2>4. UserGood(vuser[u])'
    BY <1>1, <1>2, <1>4, <2>2 DEF UserGood, Moving
  <2>5. DOMAIN vuser' = VUsers /\ \A x \in VUsers : UserGood(vuser[x])'
    BY <1>1, <1>3, <2>3, <2>4
  <2>6. \A x, y \in VUsers : x # y /\ Moving(vuser[x]) /\ Moving(vuser[y]) => vuser[x].run # vuser[y].run
    BY DEF VerInv, UsersGood
  <2>7. \A x, y \in VUsers : x # y /\ Moving(vuser'[x]) /\ Moving(vuser'[y]) => vuser'[x].run # vuser'[y].run
    BY <1>2, <2>1, <2>2, <2>6
  <2> QED
    BY <2>5, <2>7 DEF UsersGood, Moving
<1> QED
  BY <1>1, <1>4, <1>5, <1>6 DEF VerInv

LEMMA MoveRun_Inv ==
  ASSUME VerInv, NEW u \in VUsers, MoveRun(u)
  PROVE  VerInv'
<1> DEFINE w == vuser[u]
           r == w.run
<1>1. /\ Moving(w) /\ vlock' = [vlock EXCEPT ![r] = "free"] /\ vuser' = [vuser EXCEPT ![u] = IdleUser]
      /\ UNCHANGED <<offer, sweep, parked>>
      /\ \/ vrun' = vrun
         \/ \E m \in VerificationMoves : m[1] = w.seen /\ vrun' = [vrun EXCEPT ![r] = Moved(@, m[3])]
  <2>1. CASE {m[3] : m \in {m \in VerificationMoves : m[1] = w.seen /\ m[2] = w.op}} = {}
    BY <2>1 DEF MoveRun, Moving
  <2>2. CASE {m[3] : m \in {m \in VerificationMoves : m[1] = w.seen /\ m[2] = w.op}} # {}
    <3>1. PICK s \in {m[3] : m \in {m \in VerificationMoves : m[1] = w.seen /\ m[2] = w.op}} :
            vrun' = [vrun EXCEPT ![r] = Moved(@, s)]
      BY <2>2 DEF MoveRun
    <3>2. PICK m \in VerificationMoves : m[1] = w.seen /\ m[3] = s
      OBVIOUS
    <3>3. \E p \in VerificationMoves : p[1] = w.seen /\ vrun' = [vrun EXCEPT ![r] = Moved(@, p[3])]
      BY <3>1, <3>2
    <3> QED
      BY <3>3 DEF MoveRun, Moving
  <2> QED
    BY <2>1, <2>2
<1>2. r \in VRuns /\ vlock[r] = "user" /\ w.seen = vrun[r].status /\ w.seen # "ABSENT"
  BY <1>1 DEF VerInv, UsersGood, UserGood
<1>3. /\ Book(vrun, offer, parked) /\ vrun \in [VRuns -> VRunRow] /\ RunGood(vrun[r])
      /\ vlock \in [VRuns -> {"free", "user", "sweep"}]
  BY <1>2 DEF VerInv, Book, BookShapes, RunsGood
<1> HIDE DEF r, w
<1>4. /\ Book(vrun', offer, parked) /\ \A p \in VRuns : p # r => vrun'[p] = vrun[p]
  <2>1. CASE vrun' = vrun
    BY <1>3, <2>1
  <2>2. CASE \E m \in VerificationMoves : m[1] = w.seen /\ vrun' = [vrun EXCEPT ![r] = Moved(@, m[3])]
    <3>1. PICK m \in VerificationMoves : m[1] = w.seen /\ vrun' = [vrun EXCEPT ![r] = Moved(@, m[3])]
      BY <2>2
    <3> DEFINE row == Moved(vrun[r], m[3])
    <3>2. /\ RunGood(row) /\ row.status # "ABSENT" /\ row.endedBy # "timeout" /\ vrun[r].endedBy # "timeout"
          /\ row.replaces = vrun[r].replaces /\ row.task = vrun[r].task /\ row.verifier = vrun[r].verifier
          /\ (vrun[r].started => row.started)
      BY <1>2, <1>3, <3>1, MovedGood
    <3> HIDE DEF row
    <3>3. Book([vrun EXCEPT ![r] = row], offer, parked)
      BY <1>2, <1>3, <3>2, BookRunMoved
    <3>4. vrun' = [vrun EXCEPT ![r] = row]
      BY <3>1 DEF row
    <3> QED
      BY <1>2, <1>3, <3>3, <3>4
  <2> QED
    BY <1>1, <2>1, <2>2
<1>5. vlock' \in [VRuns -> {"free", "user", "sweep"}] /\ \A p \in VRuns : p # r => vlock'[p] = vlock[p]
  BY <1>1, <1>3
<1>6. UsersGood'
  <2>1. ~Moving(IdleUser) /\ IdleUser.op # "create"
    BY DEF Moving, IdleUser
  <2>2. Moving(vuser[u]) /\ vuser[u].run = r
    BY <1>1 DEF w, r
  <2> QED
    BY <1>1, <1>4, <1>5, <2>1, <2>2, UserKept
<1>7. SweepGood'
  BY <1>1, <1>2, <1>4, <1>5, SweepKept
<1> QED
  BY <1>1, <1>4, <1>5, <1>6, <1>7 DEF VerInv

LEMMA AcceptDeadline_Inv ==
  ASSUME VerInv, NEW t \in VTasks, NEW k, AcceptDeadline(t, k)
  PROVE  VerInv'
<1> DEFINE row == [offer[t][k] EXCEPT !.late = TRUE]
<1>1. /\ k \in DOMAIN offer[t] /\ offer' = [offer EXCEPT ![t] = [@ EXCEPT ![k] = row]]
      /\ UNCHANGED <<vrun, vlock, vuser, sweep, parked>>
  BY DEF AcceptDeadline
<1>2. /\ Book(vrun, offer, parked) /\ offer \in [VTasks -> Seq(OfferRow)] /\ offer[t] \in Seq(OfferRow)
      /\ OfferGood(t, offer[t][k], vrun, parked)
  BY <1>1 DEF VerInv, Book, BookShapes, OffersGood
<1>3. offer[t][k] \in OfferRow
  BY <1>1, <1>2
<1>4. /\ row \in OfferRow /\ row.run = offer[t][k].run /\ row.status = offer[t][k].status
      /\ row.item = offer[t][k].item /\ row.account = offer[t][k].account
  BY <1>3 DEF OfferRow
<1> HIDE DEF row
<1>5. OfferGood(t, row, vrun, parked)
  BY <1>2, <1>4 DEF OfferGood, Replaced
<1>6. Book(vrun, offer', parked)
  BY <1>1, <1>2, <1>4, <1>5, BookOfferSet
<1>7. \A x \in VTasks : \A j \in DOMAIN offer[x] :
        j \in DOMAIN offer'[x] /\ offer'[x][j].run = offer[x][j].run /\ offer'[x][j].status = offer[x][j].status
  <2>1. offer'[t] = [offer[t] EXCEPT ![k] = row] /\ \A x \in VTasks : x # t => offer'[x] = offer[x]
    BY <1>1, <1>2
  <2> QED
    BY <1>1, <1>4, <2>1
<1>8. UsersGood' /\ SweepGood'
  BY <1>1, <1>7, UsersKept, SweepKept
<1> QED
  BY <1>1, <1>6, <1>8 DEF VerInv

-----------------------------------------------------------------------------
\* The due offers are read, in some order.
LEMMA ReadDueOffers_Inv ==
  ASSUME VerInv, ReadDueOffers
  PROVE  VerInv'
<1>1. PICK order \in Sequence!SetToSeqs(DueOffers) :
        sweep' = [IdleSweep EXCEPT !.phase = "lock", !.due = order, !.offers = offer]
  BY DEF ReadDueOffers
<1>2. UNCHANGED <<vrun, offer, vlock, vuser, parked>>
  BY DEF ReadDueOffers
<1>3. IsFiniteSet(DueOffers)
  <2>1. IsFiniteSet(VTasks) /\ Cardinality(VRuns) \in Nat
    BY VerifierAssumption, FS_CardinalityType
  <2>2. IsFiniteSet(1 .. Cardinality(VRuns))
    BY <2>1, FS_Interval
  <2>3. IsFiniteSet(VTasks \X (1 .. Cardinality(VRuns)))
    BY <2>1, <2>2, FS_Product
  <2> QED
    BY <2>3, FS_Subset DEF DueOffers
<1>4. /\ order \in [1 .. Cardinality(DueOffers) -> DueOffers]
      /\ \A i, j \in 1 .. Cardinality(DueOffers) : i # j => order[i] # order[j]
      /\ Cardinality(DueOffers) \in Nat
  <2> DEFINE D == 1 .. Cardinality(DueOffers)
  <2>1. Cardinality(DueOffers) \in Nat
    BY <1>3, FS_CardinalityType
  <2>2. Sequence!Cardinality(DueOffers) = Cardinality(DueOffers)
    BY DEF Cardinality, Sequence!Cardinality
  <2>3. order \in {f \in [D -> DueOffers] : \A i, j \in D : i # j => f[i] # f[j]}
    BY <1>1, <2>2 DEF Sequence!SetToSeqs
  <2> QED
    BY <2>1, <2>3
<1>5. \A d \in DueOffers : /\ d \in VTasks \X Nat /\ d[2] \in DOMAIN offer[d[1]]
                           /\ offer[d[1]][d[2]].status = "offered"
  BY DEF DueOffers
<1> HIDE DEF DueOffers
<1>6. order \in Seq(VTasks \X Nat) /\ DOMAIN order = 1 .. Cardinality(DueOffers) /\ Len(order) \in Nat
  BY <1>4, <1>5
<1>7. /\ {"phase", "due", "next", "seen"} \subseteq DOMAIN sweep' /\ sweep'.due = order /\ sweep'.next = 1
      /\ sweep'.seen = <<>>
  BY <1>1 DEF IdleSweep
<1>8. DueGood'
  BY <1>2, <1>4, <1>5, <1>6, <1>7 DEF DueGood
<1>9. SeenGood'
  BY <1>6, <1>7 DEF SeenGood
<1>10. UsersGood'
  BY <1>2, UsersKept
<1> QED
  BY <1>2, <1>7, <1>8, <1>9, <1>10 DEF VerInv, SweepGood

LEMMA LockDueRun_Inv ==
  ASSUME VerInv, LockDueRun
  PROVE  VerInv'
<1> PICK n : n = sweep.next
  OBVIOUS
<1> DEFINE r == RunOfDue(n)
           s == vrun[r].status
<1>1. /\ sweep.phase = "lock" /\ n <= Len(sweep.due) /\ vlock[r] = "free"
      /\ vlock' = [vlock EXCEPT ![r] = "sweep"]
      /\ sweep' = [sweep EXCEPT !.next = @ + 1, !.seen = Append(@, s)]
      /\ UNCHANGED <<vrun, offer, vuser, parked>>
  BY DEF LockDueRun, RunFree
<1>2. /\ DueGood /\ SeenGood /\ {"phase", "due", "next", "seen"} \subseteq DOMAIN sweep
      /\ sweep.seen \in Seq(RunStatuses) /\ n = Len(sweep.seen) + 1 /\ sweep.due \in Seq(VTasks \X Nat)
      /\ vlock \in [VRuns -> {"free", "user", "sweep"}] /\ vrun \in [VRuns -> VRunRow]
  BY <1>1 DEF VerInv, SweepGood, DueGood, SeenGood, Book, BookShapes
<1>3. r \in VRuns /\ n \in DOMAIN sweep.due
  <2> DEFINE t == sweep.due[n][1]
             k == sweep.due[n][2]
  <2>1. n \in DOMAIN sweep.due
    BY <1>1, <1>2
  <2>2. t \in VTasks /\ k \in DOMAIN offer[t]
    BY <1>2, <2>1 DEF DueGood
  <2>3. offer[t] \in Seq(OfferRow)
    BY <2>2 DEF VerInv, Book, BookShapes
  <2>4. offer[t][k] \in OfferRow
    BY <2>2, <2>3
  <2> QED
    BY <2>1, <2>4 DEF OfferRow, RunOfDue
<1>4. s \in RunStatuses
  BY <1>2, <1>3 DEF VRunRow
<1> HIDE DEF s, r
<1>5. /\ sweep'.due = sweep.due /\ sweep'.next = n + 1 /\ sweep'.seen = Append(sweep.seen, s)
      /\ sweep'.phase = sweep.phase /\ DOMAIN sweep' = DOMAIN sweep
  BY <1>1, <1>2
<1>6. vlock' \in [VRuns -> {"free", "user", "sweep"}] /\ vlock'[r] = "sweep"
      /\ \A p \in VRuns : p # r => vlock'[p] = vlock[p]
  BY <1>1, <1>2, <1>3
<1>7. DueGood'
  BY <1>1, <1>2, <1>5 DEF DueGood
<1>8. \A i : RunOfDue(i)' = RunOfDue(i)
  BY <1>1, <1>5 DEF RunOfDue
<1>9. SeenGood'
  <2>1. /\ sweep'.seen \in Seq(RunStatuses) /\ Len(sweep'.seen) = Len(sweep.seen) + 1
        /\ DOMAIN sweep'.seen = DOMAIN sweep.seen \cup {n} /\ sweep'.seen[n] = s
        /\ \A i \in DOMAIN sweep.seen : sweep'.seen[i] = sweep.seen[i]
    BY <1>2, <1>4, <1>5
  <2>2. sweep'.next = Len(sweep'.seen) + 1 /\ Len(sweep'.seen) <= Len(sweep'.due)
    BY <1>1, <1>2, <1>5, <2>1
  <2>3. vlock'[RunOfDue(n)'] = "sweep" /\ sweep'.seen[n] = vrun'[RunOfDue(n)'].status
    BY <1>1, <1>6, <1>8, <2>1 DEF r, s
  <2>4. ASSUME NEW i \in DOMAIN sweep.seen
        PROVE  vlock'[RunOfDue(i)'] = "sweep" /\ sweep'.seen[i] = vrun'[RunOfDue(i)'].status
    <3>1. vlock[RunOfDue(i)] = "sweep" /\ sweep.seen[i] = vrun[RunOfDue(i)].status
      BY <1>2 DEF SeenGood
    <3>2. vlock'[RunOfDue(i)] = "sweep"
      BY <1>1, <1>2, <1>3, <3>1
    <3> QED
      BY <1>1, <1>8, <2>1, <3>1, <3>2
  <2> QED
    BY <2>1, <2>2, <2>3, <2>4 DEF SeenGood
<1>10. UsersGood'
  BY <1>1, <1>6, UsersKept
<1> QED
  BY <1>1, <1>2, <1>5, <1>6, <1>7, <1>9, <1>10 DEF VerInv, SweepGood

\* The sweep ends, by an error or with the tables of its loop.
LEMMA SweepEnds_Inv ==
  ASSUME VerInv, SweepAborts \/ SweepTimeouts
  PROVE  VerInv'
<1>1. sweep' = IdleSweep /\ vlock' = SweepReleased /\ UNCHANGED vuser
  BY DEF SweepAborts, SweepTimeouts
<1>2. Book(vrun', offer', parked')
      /\ \A r \in VRuns : vrun[r].status # "ABSENT" /\ vlock[r] # "sweep" => vrun'[r].status = vrun[r].status
  <2>1. CASE SweepAborts
    BY <2>1 DEF SweepAborts, VerInv
  <2>2. CASE SweepTimeouts
    <3>1. SweepReady
      BY <2>2 DEF SweepTimeouts, SweepReady
    <3>2. PICK view \in {sweep.offers, offer}, found \in Standings :
            /\ \/ Cardinality(NewRuns) >= Len(sweep.due)
               \/ \A t \in VTasks : EligibleVerifiers(found, t, {}) = {}
            /\ vrun' = ResolveOffers(view, found).vrun /\ offer' = ResolveOffers(view, found).offer
            /\ parked' = ResolveOffers(view, found).parked
      BY <2>2 DEF SweepTimeouts
    <3>3. LET T == ResolveOffers(view, found) IN Book(T.vrun, T.offer, T.parked) /\ Kept(T.vrun)
      BY <3>1, <3>2, LoopIs
    <3> QED
      BY <3>2, <3>3 DEF Kept
  <2> QED
    BY <2>1, <2>2
<1>3. vlock' \in [VRuns -> {"free", "user", "sweep"}] /\ \A r \in VRuns : vlock[r] = "user" => vlock'[r] = "user"
  BY <1>1 DEF SweepReleased, VerInv
<1>4. UsersGood'
  <2>1. \A r \in VRuns : vlock[r] = "user" /\ vrun[r].status # "ABSENT" =>
          vlock'[r] = "user" /\ vrun'[r].status = vrun[r].status
    BY <1>2, <1>3
  <2> QED
    BY <1>1, <2>1, UsersKept
<1>5. SweepGood'
  BY <1>1 DEF SweepGood, IdleSweep
<1> QED
  BY <1>2, <1>3, <1>4, <1>5 DEF VerInv

LEMMA VerInvStep == VerInv /\ [VerifierNext]_verifierVars => VerInv'
<1> SUFFICES ASSUME VerInv, [VerifierNext]_verifierVars PROVE VerInv'
  OBVIOUS
<1>1. CASE UNCHANGED verifierVars
  <2>1. UNCHANGED <<vrun, offer, vlock, vuser, sweep, parked>>
    BY <1>1 DEF verifierVars
  <2> QED
    BY <2>1, UsersKept, SweepKept DEF VerInv
<1>2. ASSUME NEW u \in VUsers, NEW r \in VRuns,
             \/ AssignVerifier(u, r) \/ StartVerification(u, r) \/ SubmitVerdict(u, r)
             \/ SubmitFix(u, r) \/ RequestRecheck(u, r) \/ CancelVerification(u, r)
      PROVE  VerInv'
  <2>1. PICK op \in {"assign", "start", "verdict", "fix", "recheck", "cancel"} : LoadRun(u, r, op)
    BY <1>2 DEF AssignVerifier, StartVerification, SubmitVerdict, SubmitFix, RequestRecheck, CancelVerification
  <2> QED
    BY <2>1, LoadRun_Inv
<1>3. ASSUME NEW u \in VUsers, NEW t \in VTasks, NEW st \in Standings, PickVerifier(u, t, st) PROVE VerInv'
  BY <1>3, PickVerifier_Inv
<1>4. ASSUME NEW u \in VUsers, CreateVerificationRun(u) PROVE VerInv'
  BY <1>4, CreateRun_Inv
<1>5. ASSUME NEW u \in VUsers, MoveRun(u) PROVE VerInv'
  BY <1>5, MoveRun_Inv
<1>6. CASE ReadDueOffers
  BY <1>6, ReadDueOffers_Inv
<1>7. CASE LockDueRun
  BY <1>7, LockDueRun_Inv
<1>8. CASE SweepAborts \/ SweepTimeouts
  BY <1>8, SweepEnds_Inv
<1>9. ASSUME NEW t \in VTasks, NEW k \in 1 .. Cardinality(VRuns), AcceptDeadline(t, k) PROVE VerInv'
  BY <1>9, AcceptDeadline_Inv
<1> QED
  BY <1>1, <1>2, <1>3, <1>4, <1>5, <1>6, <1>7, <1>8, <1>9 DEF VerifierNext

\* What the timeouts leave, from what runs and offers say of each other.
LEMMA VerInvReplaces == VerInv => TimeoutReplacesOnlyUnstarted
<1> SUFFICES ASSUME VerInv PROVE TimeoutReplacesOnlyUnstarted
  OBVIOUS
<1>1. \A r \in VRuns : vrun[r].endedBy = "timeout" =>
        vrun[r].status = "CANCELLED" /\ (vrun[r].started => vrun[r].rechecked)
  BY DEF VerInv, Book, RunsGood, RunGood
<1>2. ASSUME NEW t \in VTasks, NEW k \in DOMAIN offer[t]
      PROVE  LET o == offer[t][k]
                 next == {q \in VRuns : vrun[q].replaces = o.run}
             IN  /\ o.status = "timed_out" =>
                      /\ vrun[o.run].endedBy = "timeout" /\ o.item # "open"
                      /\ Cardinality(next) = 1
                      /\ \A q \in next : vrun[q].task = t /\ vrun[q].verifier # o.account
                 /\ o.status = "accepted" => vrun[o.run].started
                 /\ o.status = "exhausted" => t \in parked /\ next = {}
  <2> DEFINE o == offer[t][k]
             next == {q \in VRuns : vrun[q].replaces = o.run}
  <2>1. OfferGood(t, o, vrun, parked) /\ next = Replacements(vrun, o.run)
    BY DEF VerInv, Book, OffersGood, Replacements
  <2> HIDE DEF o, next
  <2>2. Replaced(t, o, vrun) => Cardinality(next) = 1 /\ \A q \in next : vrun[q].task = t /\ vrun[q].verifier # o.account
    BY <2>1, FS_Singleton DEF Replaced
  <2>3. /\ o.status = "timed_out" =>
             /\ vrun[o.run].endedBy = "timeout" /\ o.item # "open"
             /\ Cardinality(next) = 1
             /\ \A q \in next : vrun[q].task = t /\ vrun[q].verifier # o.account
        /\ o.status = "accepted" => vrun[o.run].started
        /\ o.status = "exhausted" => t \in parked /\ next = {}
    BY <2>1, <2>2 DEF OfferGood
  <2> QED
    BY <2>3 DEF o, next
<1> QED
  BY <1>1, <1>2 DEF TimeoutReplacesOnlyUnstarted

\* The book has the types of the tables.
LEMMA VerInvTypes == VerInv => VerifierTypeOK
<1> SUFFICES ASSUME VerInv PROVE VerifierTypeOK
  OBVIOUS
<1>1. vrun \in [VRuns -> VRunRow] /\ offer \in [VTasks -> Seq(OfferRow)] /\ parked \subseteq VTasks
  BY DEF VerInv, Book, BookShapes
<1>2. \A r \in VRuns : vrun[r].status \in {"ABSENT", "PLANNED"} \cup {m[3] : m \in VerificationMoves}
  <2>1. RunStatuses \subseteq {"ABSENT", "PLANNED"} \cup {m[3] : m \in VerificationMoves}
    <3>1. /\ <<"PLANNED", "assign", "ASSIGNED">> \in VerificationMoves
          /\ <<"ASSIGNED", "start", "RUNNING">> \in VerificationMoves
          /\ <<"BLOCKED", "recheck", "RECHECK_ASSIGNED">> \in VerificationMoves
          /\ <<"FAILED", "fix", "FIX_SUBMITTED">> \in VerificationMoves
          /\ <<"PLANNED", "cancel", "CANCELLED">> \in VerificationMoves
          /\ \A s \in {"PASSED", "FAILED", "BLOCKED"} : <<"RUNNING", "verdict", s>> \in VerificationMoves
      BY DEF VerificationMoves
    <3>2. \A x, y, z : <<x, y, z>> \in VerificationMoves => z \in {m[3] : m \in VerificationMoves}
      OBVIOUS
    <3> HIDE DEF VerificationMoves
    <3> QED
      BY <3>1, <3>2 DEF RunStatuses
  <2>2. \A r \in VRuns : vrun[r].status \in RunStatuses
    BY <1>1 DEF VRunRow
  <2> QED
    BY <2>1, <2>2
<1>3. ASSUME NEW t \in VTasks, NEW k \in DOMAIN offer[t]
      PROVE  /\ offer[t][k].status \in {"offered", "accepted", "timed_out", "exhausted"}
             /\ offer[t][k].run \in VRuns /\ offer[t][k].account \in Verifiers
  <2>1. offer[t][k] \in OfferRow
    BY <1>1
  <2> QED
    BY <2>1 DEF OfferRow
<1> QED
  BY <1>1, <1>2, <1>3 DEF VerifierTypeOK, VerInv

\* A run that its verifier has started is not timed out unless it waits for a
\* recheck, a timed-out offer has one successor, for another account, and a
\* search ends only with its Task waiting (assignment.py sweep_timeouts,
\* record_offer; verification.py load_run).
THEOREM VerifierTimeoutReplaces == VerifierSpec => [](VerifierTypeOK /\ TimeoutReplacesOnlyUnstarted)
<1>1. VerifierInit => VerInv
  BY VerInit_Inv
<1>2. VerInv /\ [VerifierNext]_verifierVars => VerInv'
  BY VerInvStep
<1>3. VerInv => VerifierTypeOK /\ TimeoutReplacesOnlyUnstarted
  BY VerInvTypes, VerInvReplaces
<1> QED
  BY <1>1, <1>2, <1>3, PTL DEF VerifierSpec
=============================================================================
