------------------------------ MODULE Approvals ------------------------------
(***************************************************************************)
(* Approval grants (server/approvals): requested once per idempotency key, *)
(* decided by independent approvers up to a quorum, consumed at most       *)
(* max_uses times, and ended by rejection, cancellation, revocation or     *)
(* expiry.  Every command is one transaction that takes the grant's row    *)
(* lock with its first read; what it decides is based on that read.        *)
(* Append is compare-and-swap on the grant's stream (module EventStore).   *)
(* A refusal (wrong subject, role, channel or missing re-authentication)   *)
(* changes nothing and is ApprovalRefused.                                 *)
(***************************************************************************)
EXTENDS Integers, Sequences, FiniteSets

CONSTANTS
  Clients,       \* transactions in flight
  GrantIds,      \* approval ids
  GrantKeys,     \* idempotency keys of requests
  Approvers,     \* accounts that may try to decide
  Requester,     \* requested_by
  PrincipalOf,   \* account -> effective principal (the alias graph)
  UseKeys,       \* consumption keys
  Shapes,        \* the risk of a grant as [quorum, maxUses]; maxUses 0: None
  GrantExpiry,   \* expires_at
  NoClient       \* holder of a free row lock

ASSUME ApprovalsAssumption ==
  /\ DOMAIN PrincipalOf = Approvers \cup {Requester}
  /\ Shapes \subseteq [quorum : Nat, maxUses : Nat]
  /\ GrantExpiry \in Nat /\ NoClient \notin Clients

VARIABLES
  grant,         \* approval_grants: status, key, quorum, maxUses, seq
  history,       \* the grant's Event stream
  decisions,     \* approval_decisions: account -> "APPROVE", "REJECT", "NONE"
  uses,          \* approval_consumptions: the keys
  grantLock,     \* holder of the row lock
  atWork,        \* the transaction of each client
  today          \* the clock

approvalsVars == <<grant, history, decisions, uses, grantLock, atWork, today>>

TerminalGrant == {"CONSUMED", "REJECTED", "CANCELLED", "EXPIRED", "REVOKED"}
CONSUMABLE == {"APPROVED", "PARTIALLY_CONSUMED"}
ApprovalStatus == TerminalGrant \cup CONSUMABLE \cup {"PENDING"}

\* Mutant of Ending: the row is given the Event's name for its status.
EndingAsEvent == [e \in {"GRANTED", "REJECTED", "CANCELLED", "EXPIRED", "REVOKED"} |-> e]

Ending == [GRANTED |-> "APPROVED", REJECTED |-> "REJECTED",
           CANCELLED |-> "CANCELLED", EXPIRED |-> "EXPIRED",
           REVOKED |-> "REVOKED"]

\* TRANSITIONS and next_status: the Events that a status allows.
GrantMoves(s) ==
  CASE s = "PENDING" -> {"GRANTED", "REJECTED", "CANCELLED", "EXPIRED", "REVOKED"}
    [] s \in CONSUMABLE -> {"CONSUMED", "CANCELLED", "EXPIRED", "REVOKED"}
    [] OTHER -> {}

\* status_after_consumption
StatusAfterUse(used, maxUses) ==
  IF maxUses # 0 /\ used >= maxUses THEN "CONSUMED" ELSE "PARTIALLY_CONSUMED"

NoApproval == [status |-> "ABSENT", key |-> "none", quorum |-> 0, maxUses |-> 0, seq |-> 0]
NoGrantWork == [op |-> "idle", on |-> "none", arg |-> "none", seen |-> NoApproval,
           prior |-> {}, used |-> {}, now |-> 0]

ApprovalsInit ==
  /\ grant = [g \in GrantIds |-> NoApproval]
  /\ history = [g \in GrantIds |-> <<>>]
  /\ decisions = [g \in GrantIds |-> [a \in Approvers |-> "NONE"]]
  /\ uses = [g \in GrantIds |-> {}]
  /\ grantLock = [g \in GrantIds |-> NoClient]
  /\ atWork = [c \in Clients |-> NoGrantWork]
  /\ today = 0

-----------------------------------------------------------------------------
\* request_approval's first read: a key that already has a grant is
\* answered with it; otherwise the request goes on to insert.
LookupRequest(c, k) ==
  /\ atWork[c].op = "idle"
  /\ \A g \in GrantIds : grant[g].key # k
  /\ atWork' = [atWork EXCEPT ![c] = [NoGrantWork EXCEPT !.op = "request", !.arg = k]]
  /\ UNCHANGED <<grant, history, decisions, uses, grantLock, today>>

\* The Event store refuses a second APPROVAL_REQUESTED with one key.
KeyFree(k) == \A g \in GrantIds : grant[g].key # k

\* The rest of request_approval: row, APPROVAL_REQUESTED, commit.
RequestApproval(c, g, shape) ==
  LET k == atWork[c].arg IN
  /\ atWork[c].op = "request" /\ KeyFree(k) /\ grant[g] = NoApproval
  /\ grant' = [grant EXCEPT ![g] = [status |-> "PENDING", key |-> k, seq |-> 1,
                 quorum |-> shape.quorum, maxUses |-> shape.maxUses]]
  /\ history' = [history EXCEPT ![g] = <<"REQUESTED">>]
  /\ atWork' = [atWork EXCEPT ![c] = NoGrantWork]
  /\ UNCHANGED <<decisions, uses, grantLock, today>>

\* Mutant of LockFree: the read does not wait for the row lock.
ReadUnlocked(g) == TRUE

LockFree(g) == grantLock[g] = NoClient

PriorDeciders(g) == {a \in Approvers : decisions[g][a] # "NONE"}

\* _load_grant FOR UPDATE, the first step of decide, cancel, revoke and
\* consume, with the reads of the ledgers behind it.
LoadGrant(c, g, op, arg) ==
  /\ atWork[c].op = "idle" /\ LockFree(g) /\ grant[g] # NoApproval
  /\ grantLock' = [grantLock EXCEPT ![g] = c]
  /\ atWork' = [atWork EXCEPT ![c] = [op |-> op, on |-> g, arg |-> arg, seen |-> grant[g],
                                    prior |-> PriorDeciders(g), used |-> uses[g],
                                    now |-> today]]
  /\ UNCHANGED <<grant, history, decisions, uses, today>>

\* Rollback of a refused command; the lock goes with the transaction.
ApprovalRefused(c) ==
  /\ atWork[c].op # "idle"
  /\ grantLock' = [g \in GrantIds |->
                     IF grantLock[g] = c THEN NoClient ELSE grantLock[g]]
  /\ atWork' = [atWork EXCEPT ![c] = NoGrantWork]
  /\ UNCHANGED <<grant, history, decisions, uses, today>>

\* The last statements of a command: _append with expected_seq, _set_status,
\* commit.  Without an Event the row stays as it is.
WriteGrant(c, type, status) ==
  LET g == atWork[c].on
      s == atWork[c].seen
  IN  /\ type # "none" => s.seq = Len(history[g])
      /\ grant' = IF type = "none" THEN grant
                  ELSE [grant EXCEPT ![g].status = status, ![g].seq = s.seq + 1]
      /\ history' = IF type = "none" THEN history
                    ELSE [history EXCEPT ![g] = Append(@, type)]
      /\ grantLock' = [grantLock EXCEPT ![g] = NoClient]
      /\ atWork' = [atWork EXCEPT ![c] = NoGrantWork]

\* check_eligibility: neither the requester (under any alias) nor an
\* account that has decided before.
Eligible(prior, a) == PrincipalOf[a] # PrincipalOf[Requester] /\ a \notin prior

\* _record_decision
RecordDecision(g, a, decided) == [decisions EXCEPT ![g][a] = decided]

\* decide_approval with APPROVE: the last approval of the quorum grants;
\* an earlier one is only recorded.
Approve(c) ==
  LET g == atWork[c].on
      a == atWork[c].arg
      s == atWork[c].seen
      met == Cardinality(atWork[c].prior) + 1 >= s.quorum
  IN  /\ atWork[c].op = "approve" /\ s.status = "PENDING" /\ atWork[c].now < GrantExpiry
      /\ Eligible(atWork[c].prior, a)
      /\ decisions' = RecordDecision(g, a, "APPROVE")
      /\ IF met THEN WriteGrant(c, "GRANTED", Ending.GRANTED)
                ELSE WriteGrant(c, "none", s.status)
      /\ UNCHANGED <<uses, today>>

\* decide_approval with REJECT: one rejection ends the grant.
RejectGrant(c) ==
  LET g == atWork[c].on
      a == atWork[c].arg
  IN  /\ atWork[c].op = "reject" /\ atWork[c].seen.status = "PENDING"
      /\ atWork[c].now < GrantExpiry /\ Eligible(atWork[c].prior, a)
      /\ decisions' = RecordDecision(g, a, "REJECT")
      /\ WriteGrant(c, "REJECTED", Ending.REJECTED)
      /\ UNCHANGED <<uses, today>>

\* _terminate for cancel_approval and revoke_approval.
TerminateGrant(c) ==
  /\ atWork[c].op \in {"CANCELLED", "REVOKED"}
  /\ atWork[c].op \in GrantMoves(atWork[c].seen.status)
  /\ WriteGrant(c, atWork[c].op, Ending[atWork[c].op])
  /\ UNCHANGED <<decisions, uses, today>>

\* What consume_approval asks of a grant that has used consumptions.
Usable(s, used, now) ==
  /\ s.status \in CONSUMABLE /\ now < GrantExpiry
  /\ s.maxUses = 0 \/ used < s.maxUses

\* consume_approval; a key that is already in the ledger is answered again
\* whatever the grant's status, which is ApprovalRefused here.
Consume(c) ==
  LET g == atWork[c].on
      k == atWork[c].arg
      used == Cardinality(atWork[c].used)
  IN  /\ atWork[c].op = "consume" /\ k \notin atWork[c].used
      /\ Usable(atWork[c].seen, used, atWork[c].now)
      /\ uses' = [uses EXCEPT ![g] = @ \cup {k}]
      /\ WriteGrant(c, "CONSUMED", StatusAfterUse(used + 1, atWork[c].seen.maxUses))
      /\ UNCHANGED <<decisions, today>>

Overdue == {g \in GrantIds : "EXPIRED" \in GrantMoves(grant[g].status)
                             /\ GrantExpiry <= today}

\* expire_approvals: locks every overdue open grant, expires and escalates
\* each in one transaction.
ExpireApprovals ==
  /\ Overdue # {} /\ \A g \in Overdue : LockFree(g)
  /\ grant' = [g \in GrantIds |-> IF g \in Overdue
                THEN [grant[g] EXCEPT !.status = "EXPIRED", !.seq = @ + 2] ELSE grant[g]]
  /\ history' = [g \in GrantIds |-> IF g \in Overdue
                  THEN history[g] \o <<"EXPIRED", "ESCALATED">> ELSE history[g]]
  /\ UNCHANGED <<decisions, uses, grantLock, atWork, today>>

ApprovalTick ==
  /\ today < GrantExpiry /\ today' = today + 1
  /\ UNCHANGED <<grant, history, decisions, uses, grantLock, atWork>>

-----------------------------------------------------------------------------
(* The command handlers (server/application/approvals.py): a permission    *)
(* check, which only refuses, and the service call's first step.           *)

HandleDecide(c, g) ==
  \E a \in Approvers, verdict \in {"approve", "reject"} : LoadGrant(c, g, verdict, a)
HandleCancel(c, g) == LoadGrant(c, g, "CANCELLED", "none")
HandleRevoke(c, g) == LoadGrant(c, g, "REVOKED", "none")
HandleConsume(c, g) == \E k \in UseKeys : LoadGrant(c, g, "consume", k)
HandleRequest(c) == \E k \in GrantKeys : LookupRequest(c, k)

ApprovalsNext ==
  \/ \E c \in Clients :
       \/ HandleRequest(c)
       \/ \E g \in GrantIds, shape \in Shapes : RequestApproval(c, g, shape)
       \/ \E g \in GrantIds :
            HandleDecide(c, g) \/ HandleCancel(c, g) \/ HandleRevoke(c, g) \/ HandleConsume(c, g)
       \/ Approve(c) \/ RejectGrant(c) \/ TerminateGrant(c) \/ Consume(c) \/ ApprovalRefused(c)
  \/ ExpireApprovals
  \/ ApprovalTick

ApprovalsSpec == ApprovalsInit /\ [][ApprovalsNext]_approvalsVars

-----------------------------------------------------------------------------
ApprovalsTypeOK ==
  /\ \A g \in GrantIds :
       /\ grant[g].status \in ApprovalStatus \cup {"ABSENT"}
       /\ {grant[g].quorum, grant[g].maxUses, grant[g].seq} \subseteq Nat
  /\ decisions \in [GrantIds -> [Approvers -> {"NONE", "APPROVE", "REJECT"}]]
  /\ uses \in [GrantIds -> SUBSET UseKeys]
  /\ grantLock \in [GrantIds -> Clients \cup {NoClient}]
  /\ today \in 0..GrantExpiry

EventCount(g, type) == Cardinality({i \in 1..Len(history[g]) : history[g][i] = type})

\* projections/approvals.py, apply over the whole stream (rebuild): the
\* status that the last deciding Event leaves.
Rebuilt(g) ==
  LET deciding == {i \in 1..Len(history[g]) : history[g][i] # "ESCALATED"}
      last == history[g][CHOOSE i \in deciding : \A j \in deciding : j <= i]
  IN  CASE last = "REQUESTED" -> "PENDING"
        [] last = "CONSUMED" -> StatusAfterUse(EventCount(g, "CONSUMED"), grant[g].maxUses)
        [] OTHER -> Ending[last]

\* Decided independently and counted exactly, however decisions, consumption,
\* cancellation, revocation, expiry and retried requests interleave: a grant
\* is PENDING only while approvals are missing, is granted by a quorum of
\* accounts none of which is the requester under another name, is used at
\* most max_uses times and only between its grant and its end, belongs to
\* one request key, and a rebuild of the projection from the Events gives
\* the row (decide_approval, consume_approval, expire_approvals,
\* check_eligibility, rebuild_approvals).
ApprovalCounts ==
  \A g \in GrantIds : grant[g] # NoApproval =>
    LET yes == {a \in Approvers : decisions[g][a] = "APPROVE"}
    IN  /\ grant[g].status = "PENDING" => Cardinality(yes) < grant[g].quorum \/ yes = {}
        /\ EventCount(g, "GRANTED") > 0 => Cardinality(yes) >= grant[g].quorum /\ yes # {}
        /\ \A a \in PriorDeciders(g) : PrincipalOf[a] # PrincipalOf[Requester]
        /\ EventCount(g, "CONSUMED") = Cardinality(uses[g])
        /\ grant[g].maxUses # 0 => Cardinality(uses[g]) <= grant[g].maxUses
        /\ \A i \in 1..Len(history[g]) :
             /\ history[g][i] = "CONSUMED" => i > 2 /\ history[g][i-1] \in {"GRANTED", "CONSUMED"}
             /\ history[g][i] \in {"EXPIRED", "REVOKED", "CANCELLED", "REJECTED"} =>
                  \A j \in i + 1..Len(history[g]) : history[g][j] = "ESCALATED"
        /\ grant[g].status = Rebuilt(g)
        /\ \A h \in GrantIds : grant[h].key = grant[g].key => h = g
==============================================================================
