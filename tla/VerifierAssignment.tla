-------------------------- MODULE VerifierAssignment --------------------------
(***************************************************************************)
(* Automatic verifier assignment (server/verification/assignment.py): a    *)
(* verification run is offered to the best candidate that has no offer for *)
(* the Task yet; the timeout sweep of the maintenance loop accepts offers  *)
(* whose run was started, and replaces the others by a run for the next    *)
(* candidate, or declares the search exhausted.  Users move runs in        *)
(* transactions of their own.  load_run takes the row lock.  Availability, *)
(* load, policy and independence, which decide who is eligible, belong to  *)
(* other parts and may be found in any of Standings at any time.           *)
(***************************************************************************)
EXTENDS Integers, Sequences, FiniteSets
Sequence == INSTANCE SequencesExt

CONSTANTS
  VUsers,      \* command transactions in flight
  VTasks,      \* Tasks under verification
  VRuns,       \* verification ids, taken in order
  Verifiers,   \* human and agent accounts, numbered in the order of account_id
  HumanTasks,  \* the Tasks of VTasks that only a Human may verify
  Standings,   \* what the reads may find of every account
  NoRunId      \* "replaces" of a run a user created

\* ready: an active Agent, online; capability: of the Task's domain; scoped: a
\* Role for that domain grants verification.
Standing == [human : BOOLEAN, ready : BOOLEAN, capability : BOOLEAN, scoped : BOOLEAN,
             independent : BOOLEAN, allowed : BOOLEAN, load : Nat, capacity : Nat]

ASSUME VerifierAssumption ==
  /\ VRuns \subseteq Nat /\ IsFiniteSet(VRuns) /\ NoRunId \notin VRuns /\ IsFiniteSet(VTasks)
  /\ Verifiers \subseteq Nat \ {0} /\ HumanTasks \subseteq VTasks
  /\ \A st \in Standings : \A v \in Verifiers : st[v] \in Standing

VARIABLES
  vrun,     \* verification_runs: status, task, verifier, replaces, and the
            \* history: started (ever RUNNING), rechecked, endedBy
  offer,    \* verifier_assignments: Task -> rank -> run, account, status,
            \* item, late (accept_deadline has passed)
  vlock,    \* runs whose row is locked, with the holder
  vuser,    \* the transaction of each user
  sweep,    \* the transaction of the sweep
  parked    \* Tasks that MarkWaiting(NO_VERIFIER) was sent to

verifierVars == <<vrun, offer, vlock, vuser, sweep, parked>>

NoVRun == [status |-> "ABSENT", task |-> "none", verifier |-> 0,
           replaces |-> NoRunId, started |-> FALSE, rechecked |-> FALSE, endedBy |-> "none"]
IdleUser == [op |-> "idle", run |-> NoRunId, task |-> "none", verifier |-> 0,
             rank |-> 0, item |-> "none", seen |-> "ABSENT"]
IdleSweep == [phase |-> "idle", due |-> <<>>, next |-> 1, seen |-> <<>>, offers |-> <<>>]

VerifierInit ==
  /\ vrun = [r \in VRuns |-> NoVRun]
  /\ offer = [t \in VTasks |-> <<>>]
  /\ vlock = [r \in VRuns |-> "free"]
  /\ vuser = [u \in VUsers |-> IdleUser]
  /\ sweep = IdleSweep /\ parked = {}

-----------------------------------------------------------------------------
\* runs.TRANSITIONS with next_status: status, operation, next status.
VerificationMoves ==
  {<<"PLANNED", "assign", "ASSIGNED">>,
   <<"ASSIGNED", "start", "RUNNING">>, <<"RECHECK_ASSIGNED", "start", "RUNNING">>,
   <<"FIX_SUBMITTED", "recheck", "RECHECK_ASSIGNED">>,
   <<"BLOCKED", "recheck", "RECHECK_ASSIGNED">>}
  \cup {<<"RUNNING", "verdict", s>> : s \in {"PASSED", "FAILED", "BLOCKED"}}
  \cup {<<s, "fix", "FIX_SUBMITTED">> : s \in {"FAILED", "BLOCKED"}}
  \cup {<<s, "cancel", "CANCELLED">> : s \in {"PLANNED", "ASSIGNED", "RUNNING",
          "FAILED", "BLOCKED", "FIX_SUBMITTED", "RECHECK_ASSIGNED"}}

\* The sweep takes an offer whose run has one of these statuses as accepted.
TakenUp == {"RUNNING", "PASSED", "FAILED", "BLOCKED", "FIX_SUBMITTED"}

OfferedAccounts(rows) == {rows[i].account : i \in DOMAIN rows}
NewRuns == {r \in VRuns : vrun[r].status = "ABSENT"}
NextRun(S) == CHOOSE r \in S : \A q \in S : r <= q

NewRun(t, v, replaced) ==
  [NoVRun EXCEPT !.status = "PLANNED", !.task = t, !.verifier = v, !.replaces = replaced]
NewOffer(r, v, item) == [run |-> r, account |-> v, status |-> "offered", item |-> item, late |-> FALSE]
\* Only Agents get a work item.
ItemFor(s) == IF s.human THEN "none" ELSE "open"

\* INSERT ... ON CONFLICT (task_id, candidate_rank) DO NOTHING: the offer is
\* lost when the rank is taken.
InsertOffer(rows, rank, row) == IF rank = Len(rows) + 1 THEN Append(rows, row) ELSE rows

\* human_required: HIGH and CRITICAL risk, or the template of the channel.
HumanRequired(t) == t \in HumanTasks

\* eligible_verifiers: an Agent must be active, online, of the Task's domain
\* and have room; everyone must be independent of the implementer and
\* allowed to submit verifications; an account is offered a Task once.
EligibleVerifiers(st, t, excluded) ==
  {v \in Verifiers \ excluded :
     /\ HumanRequired(t) => st[v].human
     /\ st[v].human \/ (st[v].ready /\ st[v].capability /\ st[v].load < st[v].capacity)
     /\ st[v].independent /\ st[v].allowed}

\* The order of the candidates: score, then account_id.
DomainMatch(s) == IF s.human THEN s.scoped ELSE s.capability
Score(s, t) == (IF DomainMatch(s) THEN 2 ELSE 0) + (IF s.load = 0 THEN 1 ELSE 0) + (IF HumanRequired(t) THEN 1 ELSE 0)
BestOf(st, t, candidates) ==
  CHOOSE v \in candidates : \A w \in candidates \ {v} :
    \/ Score(st[v], t) > Score(st[w], t)
    \/ Score(st[v], t) = Score(st[w], t) /\ v < w

\* resolve_auto_assign: the candidate and, if the rank is read now too, the
\* rank of the offer.  Nothing is locked.  Without a candidate the command is
\* refused with VERIFIER_NONE_ELIGIBLE.
PickVerifier(u, t, st) ==
  LET candidates == EligibleVerifiers(st, t, OfferedAccounts(offer[t]))
      v == BestOf(st, t, candidates)
  IN
  /\ vuser[u].op = "idle" /\ candidates # {}
  /\ vuser' = [vuser EXCEPT ![u] = [IdleUser EXCEPT !.op = "create", !.task = t, !.verifier = v,
                                     !.rank = Len(offer[t]) + 1, !.item = ItemFor(st[v])]]
  /\ UNCHANGED <<vrun, offer, vlock, sweep, parked>>

\* create_verification_run and record_offer, committed: next_rank was read
\* before or after the Events of other transactions.
CreateVerificationRun(u) ==
  LET w == vuser[u]
      r == NextRun(NewRuns)
  IN  /\ w.op = "create" /\ NewRuns # {}
      /\ vrun' = [vrun EXCEPT ![r] = NewRun(w.task, w.verifier, NoRunId)]
      /\ \E rank \in {w.rank, Len(offer[w.task]) + 1} :
           offer' = [offer EXCEPT ![w.task] = InsertOffer(@, rank, NewOffer(r, w.verifier, w.item))]
      /\ vuser' = [vuser EXCEPT ![u] = IdleUser]
      /\ UNCHANGED <<vlock, sweep, parked>>

\* Mutant of RunFree: load_run without FOR UPDATE.
RunUnlocked(r) == TRUE

RunFree(r) == vlock[r] = "free"

\* load_run FOR UPDATE, the first statement of every move.
LoadRun(u, r, op) ==
  /\ vuser[u].op = "idle" /\ RunFree(r) /\ vrun[r].status # "ABSENT"
  /\ vlock' = [vlock EXCEPT ![r] = "user"]
  /\ vuser' = [vuser EXCEPT ![u] = [IdleUser EXCEPT !.op = op, !.run = r,
                                     !.seen = vrun[r].status]]
  /\ UNCHANGED <<vrun, offer, sweep, parked>>

\* The row with a new status, and what is remembered of it.
Moved(row, s) ==
  [row EXCEPT !.status = s, !.started = @ \/ s = "RUNNING", !.rechecked = @ \/ s = "RECHECK_ASSIGNED",
              !.endedBy = IF s = "CANCELLED" THEN "user" ELSE @]

\* _simple_move, start_verification and a verdict: the status the table
\* gives, or a refusal, and the end of the transaction.
MoveRun(u) ==
  LET w == vuser[u]
      to == {m[3] : m \in {m \in VerificationMoves : m[1] = w.seen /\ m[2] = w.op}}
  IN  /\ w.op \notin {"idle", "create"}
      /\ IF to = {} THEN vrun' = vrun
         ELSE \E s \in to : vrun' = [vrun EXCEPT ![w.run] = Moved(@, s)]
      /\ vlock' = [vlock EXCEPT ![w.run] = "free"]
      /\ vuser' = [vuser EXCEPT ![u] = IdleUser]
      /\ UNCHANGED <<offer, sweep, parked>>

-----------------------------------------------------------------------------
DueOffers == {d \in VTasks \X (1..Cardinality(VRuns)) :
                /\ d[2] \in DOMAIN offer[d[1]] /\ offer[d[1]][d[2]].late
                /\ offer[d[1]][d[2]].status = "offered"}

\* sweep_timeouts, its first read: the due offers, in the order of their ids.
ReadDueOffers ==
  /\ sweep.phase = "idle" /\ DueOffers # {}
  /\ \E order \in Sequence!SetToSeqs(DueOffers) :
       /\ \A i, j \in DOMAIN order : /\ i < j /\ order[i][1] = order[j][1]
                                     => order[i][2] < order[j][2]
       /\ sweep' = [IdleSweep EXCEPT !.phase = "lock", !.due = order, !.offers = offer]
  /\ UNCHANGED <<vrun, offer, vlock, vuser, parked>>

RunOfDue(i) == offer[sweep.due[i][1]][sweep.due[i][2]].run

\* load_run of the next due offer: its row stays locked until the sweep ends.
LockDueRun ==
  LET r == RunOfDue(sweep.next) IN
  /\ sweep.phase = "lock" /\ sweep.next <= Len(sweep.due) /\ RunFree(r)
  /\ vlock' = [vlock EXCEPT ![r] = "sweep"]
  /\ sweep' = [sweep EXCEPT !.next = @ + 1, !.seen = Append(@, vrun[r].status)]
  /\ UNCHANGED <<vrun, offer, vuser, parked>>

SweepReleased == [r \in VRuns |-> IF vlock[r] = "sweep" THEN "free" ELSE vlock[r]]

\* CancelVerification refuses a run that a user has cancelled, with
\* VERIFICATION_TERMINAL, and the error leaves sweep_timeouts: every offer
\* of this sweep is rolled back.
SweepAborts ==
  /\ sweep.phase = "lock" /\ "CANCELLED" \in Sequence!ToSet(sweep.seen)
  /\ sweep' = IdleSweep /\ vlock' = SweepReleased
  /\ UNCHANGED <<vrun, offer, vuser, parked>>

\* _set_offer_status_by_task
CloseOffers(rows) ==
  [i \in DOMAIN rows |-> IF rows[i].status = "offered"
                         THEN [rows[i] EXCEPT !.status = "exhausted"] ELSE rows[i]]

\* An offer is given up: its work item is taken back, its run cancelled.
GiveUp(o) == [o EXCEPT !.status = "timed_out", !.item = IF @ = "open" THEN "cancelled" ELSE @]
TimedOut(row) == [row EXCEPT !.status = "CANCELLED", !.endedBy = "timeout"]

\* One pass of the loop of sweep_timeouts: the tables st after due offer i,
\* where view is what the reads of this transaction see of other
\* transactions' offers and found what they find of the accounts.
ResolveOffer(st, i, view, found) ==
  LET t == sweep.due[i][1]
      k == sweep.due[i][2]
      r == offer[t][k].run
      mine == Len(st.offer[t]) - Len(offer[t])
      free == EligibleVerifiers(found, t, OfferedAccounts(view[t]) \cup OfferedAccounts(st.offer[t]))
      new == {q \in VRuns : st.vrun[q].status = "ABSENT"}
      rows == [st.offer[t] EXCEPT ![k] = GiveUp(@)]
      runs == [st.vrun EXCEPT ![r] = TimedOut(@)]
  IN  IF sweep.seen[i] \in TakenUp
      THEN [vrun |-> st.vrun, offer |-> [st.offer EXCEPT ![t][k].status = "accepted"], parked |-> st.parked]
      ELSE IF free # {}
      THEN LET v == BestOf(found, t, free)
               q == NextRun(new)
               row == NewOffer(q, v, ItemFor(found[v]))
           IN  [vrun |-> [runs EXCEPT ![q] = NewRun(t, v, r)],
                offer |-> [st.offer EXCEPT ![t] = InsertOffer(rows, Len(view[t]) + mine + 1, row)],
                parked |-> st.parked]
      ELSE [vrun |-> runs,
            offer |-> [st.offer EXCEPT ![t] = CloseOffers([rows EXCEPT ![k].status = "exhausted"])],
            parked |-> st.parked \cup {t}]

\* The tables after the loop.
ResolveOffers(view, found) ==
  LET after[n \in 0 .. Len(sweep.due)] ==
        IF n = 0 THEN [vrun |-> vrun, offer |-> offer, parked |-> parked]
        ELSE ResolveOffer(after[n - 1], n, view, found)
  IN  after[Len(sweep.due)]

\* The sweep commits: every due offer accepted, replaced or exhausted.  Runs
\* are bounded by VRuns, so candidates are found only while ids are left.
SweepTimeouts ==
  /\ sweep.phase = "lock" /\ Len(sweep.seen) = Len(sweep.due)
  /\ "CANCELLED" \notin Sequence!ToSet(sweep.seen)
  /\ \E view \in {sweep.offers, offer}, found \in Standings :
       /\ \/ Cardinality(NewRuns) >= Len(sweep.due)
          \/ \A t \in VTasks : EligibleVerifiers(found, t, {}) = {}
       /\ LET st == ResolveOffers(view, found)
          IN  vrun' = st.vrun /\ offer' = st.offer /\ parked' = st.parked
  /\ sweep' = IdleSweep /\ vlock' = SweepReleased
  /\ UNCHANGED vuser

\* Ten minutes pass after an offer was made.
AcceptDeadline(t, k) ==
  /\ k \in DOMAIN offer[t] /\ ~offer[t][k].late
  /\ offer' = [offer EXCEPT ![t][k].late = TRUE]
  /\ UNCHANGED <<vrun, vlock, vuser, sweep, parked>>

\* The commands on a run.
AssignVerifier(u, r) == LoadRun(u, r, "assign")
StartVerification(u, r) == LoadRun(u, r, "start")
SubmitVerdict(u, r) == LoadRun(u, r, "verdict")
SubmitFix(u, r) == LoadRun(u, r, "fix")
RequestRecheck(u, r) == LoadRun(u, r, "recheck")
CancelVerification(u, r) == LoadRun(u, r, "cancel")

VerifierNext ==
  \/ \E u \in VUsers :
       \/ \E t \in VTasks, st \in Standings : PickVerifier(u, t, st)
       \/ CreateVerificationRun(u)
       \/ \E r \in VRuns :
            \/ AssignVerifier(u, r) \/ StartVerification(u, r) \/ SubmitVerdict(u, r)
            \/ SubmitFix(u, r) \/ RequestRecheck(u, r) \/ CancelVerification(u, r)
       \/ MoveRun(u)
  \/ ReadDueOffers \/ LockDueRun \/ SweepAborts \/ SweepTimeouts
  \/ \E t \in VTasks, k \in 1..Cardinality(VRuns) : AcceptDeadline(t, k)

VerifierSpec == VerifierInit /\ [][VerifierNext]_verifierVars

-----------------------------------------------------------------------------
VerifierTypeOK ==
  /\ \A r \in VRuns : vrun[r].status \in {"ABSENT", "PLANNED"} \cup {m[3] : m \in VerificationMoves}
  /\ \A t \in VTasks : \A k \in DOMAIN offer[t] :
       /\ offer[t][k].status \in {"offered", "accepted", "timed_out", "exhausted"}
       /\ offer[t][k].run \in VRuns /\ offer[t][k].account \in Verifiers
  /\ vlock \in [VRuns -> {"free", "user", "sweep"}]
  /\ parked \subseteq VTasks

\* The accept timeout against the verifier and the other transactions: a run
\* that its verifier has started is never cancelled as not accepted (unless
\* it waits for a recheck, which sweep_timeouts does not count as started);
\* an offer that timed out has its run cancelled, its work item taken back
\* and exactly one run in its place, for another account; a search is
\* exhausted only with the Task sent to WAITING, and no offer is resolved
\* while another transaction moves its run (sweep_timeouts, load_run,
\* record_offer, _exhausted).
TimeoutReplacesOnlyUnstarted ==
  /\ \A r \in VRuns : vrun[r].endedBy = "timeout" =>
       /\ vrun[r].status = "CANCELLED"
       /\ vrun[r].started => vrun[r].rechecked
  /\ \A t \in VTasks : \A k \in DOMAIN offer[t] :
       LET o == offer[t][k]
           next == {q \in VRuns : vrun[q].replaces = o.run}
       IN  /\ o.status = "timed_out" =>
                /\ vrun[o.run].endedBy = "timeout" /\ o.item # "open"
                /\ Cardinality(next) = 1
                /\ \A q \in next : vrun[q].task = t /\ vrun[q].verifier # o.account
           /\ o.status = "accepted" => vrun[o.run].started
           /\ o.status = "exhausted" => t \in parked /\ next = {}
===============================================================================
