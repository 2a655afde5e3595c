-------------------------- MODULE GovernanceProofs --------------------------
(***************************************************************************)
(* Proofs about the governance components: approvals, secret leases,       *)
(* break-glass sessions, setup and hard delete, each for any number of     *)
(* clients, rows and concurrent transactions.                              *)
(***************************************************************************)
EXTENDS MCGovernance, AgentProofs, FiniteSetTheorems, SequenceTheorems, WellFoundedInduction, TLAPS

-----------------------------------------------------------------------------
(***************************************************************************)
(* Approvals: the inductive invariant.                                     *)
(***************************************************************************)
GrantRow == [status : ApprovalStatus \cup {"ABSENT"}, key : GrantKeys \cup {"none"},
             quorum : Nat, maxUses : Nat, seq : Nat]
GrantEvents == {"REQUESTED", "GRANTED", "CONSUMED", "REJECTED", "CANCELLED",
                "REVOKED", "EXPIRED", "ESCALATED"}
GrantWork == [op : {"idle", "request", "approve", "reject", "CANCELLED",
                    "REVOKED", "consume"},
              on : GrantIds \cup {"none"},
              arg : Approvers \cup UseKeys \cup GrantKeys \cup {"none"},
              seen : GrantRow, prior : SUBSET Approvers, used : SUBSET UseKeys,
              now : Nat]
Ledger == [Approvers -> {"NONE", "APPROVE", "REJECT"}]

\* The types that ApprovalsTypeOK leaves open.
ApprovalsFullType ==
  /\ ApprovalsTypeOK
  /\ grant \in [GrantIds -> GrantRow]
  /\ history \in [GrantIds -> Seq(GrantEvents)]
  /\ atWork \in [Clients -> GrantWork]

\* A transaction past its first read holds the row lock of its grant, so what
\* it read is still so.
GrantWorkInv(c) ==
  LET w == atWork[c] IN
  /\ w.op = "request" => w.arg \in GrantKeys
  /\ w.op \in {"approve", "reject"} => w.arg \in Approvers
  /\ w.op = "consume" => w.arg \in UseKeys
  /\ w.op \notin {"idle", "request"} =>
       /\ w.on \in GrantIds /\ grantLock[w.on] = c
       /\ grant[w.on] # NoApproval /\ w.seen = grant[w.on]
       /\ w.prior = PriorDeciders(w.on) /\ w.used = uses[w.on]

\* Events that end a grant in status s, and the Events before them.
EndLength(s) == IF s \in {"REJECTED", "CANCELLED", "REVOKED"} THEN 1
                ELSE IF s = "EXPIRED" THEN 2 ELSE 0
Lived(r, h) == Len(h) - EndLength(r.status)
LivedEvent(i) == IF i = 1 THEN "REQUESTED" ELSE IF i = 2 THEN "GRANTED" ELSE "CONSUMED"

\* The stream of a grant: requested, granted, used so many times, ended.
StreamOK(r, h) ==
  /\ r.seq = Len(h) /\ Lived(r, h) >= 1
  /\ \A i \in 1 .. Lived(r, h) : h[i] = LivedEvent(i)
  /\ \A i \in Lived(r, h) + 1 .. Len(h) :
       h[i] = IF i = Lived(r, h) + 1 THEN r.status ELSE "ESCALATED"
  /\ r.status \in {"PENDING", "REJECTED"} => Lived(r, h) = 1
  /\ r.status = "APPROVED" => Lived(r, h) = 2
  /\ r.status \in {"PARTIALLY_CONSUMED", "CONSUMED"} => Lived(r, h) >= 3

\* The consumptions: one per CONSUMED Event, and the status they leave.
UsesOK(r, h, u) ==
  /\ IsFiniteSet(u)
  /\ Cardinality(u) = IF Lived(r, h) >= 2 THEN Lived(r, h) - 2 ELSE 0
  /\ r.maxUses # 0 => Cardinality(u) <= r.maxUses
  /\ r.status = "CONSUMED" => r.maxUses # 0 /\ Cardinality(u) >= r.maxUses
  /\ r.status = "PARTIALLY_CONSUMED" => r.maxUses = 0 \/ Cardinality(u) < r.maxUses

Yes(d) == {a \in Approvers : d[a] = "APPROVE"}
Voters(d) == {a \in Approvers : d[a] # "NONE"}

\* The decisions: a quorum once granted, missing approvals while pending.
DecisionsOK(r, h, d) ==
  /\ IsFiniteSet(Voters(d))
  /\ \A a \in Voters(d) : PrincipalOf[a] # PrincipalOf[Requester]
  /\ r.status = "PENDING" =>
       /\ Yes(d) = Voters(d)
       /\ Cardinality(Yes(d)) < r.quorum \/ Yes(d) = {}
  /\ Lived(r, h) >= 2 => Cardinality(Yes(d)) >= r.quorum /\ Yes(d) # {}

GrantOK(r, h, d, u) ==
  IF r = NoApproval THEN h = <<>> /\ u = {} /\ Voters(d) = {}
  ELSE /\ r.status # "ABSENT" /\ r.key # "none"
       /\ StreamOK(r, h) /\ UsesOK(r, h, u) /\ DecisionsOK(r, h, d)

GrantsInv == \A g \in GrantIds : GrantOK(grant[g], history[g], decisions[g], uses[g])

OneGrantPerKey ==
  \A g, h \in GrantIds : grant[g] # NoApproval /\ grant[g].key = grant[h].key => g = h

ApprovalsInv ==
  /\ \A c \in Clients : GrantWorkInv(c)
  /\ GrantsInv
  /\ OneGrantPerKey

-----------------------------------------------------------------------------
(***************************************************************************)
(* What each transition does to one grant.                                 *)
(***************************************************************************)
\* request_approval leaves a well-formed pending grant.
LEMMA NewGrantOK ==
  ASSUME NEW k, k # "none", NEW q \in Nat, NEW m \in Nat, NEW d \in Ledger, Voters(d) = {}
  PROVE  GrantOK([status |-> "PENDING", key |-> k, seq |-> 1, quorum |-> q, maxUses |-> m],
                 <<"REQUESTED">>, d, {})
<1> DEFINE r == [status |-> "PENDING", key |-> k, seq |-> 1, quorum |-> q, maxUses |-> m]
           h == <<"REQUESTED">>
<1>0. r # NoApproval /\ r.status = "PENDING" /\ r.seq = 1 /\ r.key = k /\ r.maxUses = m
  BY DEF NoApproval
<1>1. Len(h) = 1 /\ h[1] = "REQUESTED"
  OBVIOUS
<1>2. Lived(r, h) = 1
  BY <1>0, <1>1 DEF Lived, EndLength
<1> HIDE DEF r, h
<1>3. StreamOK(r, h)
  BY <1>0, <1>1, <1>2 DEF StreamOK, LivedEvent
<1>4. UsesOK(r, h, {})
  BY <1>0, <1>2, FS_EmptySet DEF UsesOK
<1>5. Yes(d) = {} /\ IsFiniteSet(Voters(d))
  BY FS_EmptySet DEF Yes, Voters
<1>6. DecisionsOK(r, h, d)
  BY <1>0, <1>2, <1>5 DEF DecisionsOK
<1>7. GrantOK(r, h, d, {})
  BY <1>0, <1>3, <1>4, <1>6 DEF GrantOK
<1> QED
  BY <1>7 DEF r, h

\* One more Event behind a stream.
LEMMA AppendedStream ==
  ASSUME NEW h \in Seq(GrantEvents), NEW e \in GrantEvents
  PROVE  /\ Append(h, e) \in Seq(GrantEvents) /\ Len(Append(h, e)) = Len(h) + 1
         /\ Append(h, e)[Len(h) + 1] = e /\ Len(h) \in Nat
         /\ \A i \in 1 .. Len(h) : Append(h, e)[i] = h[i]
OBVIOUS

\* An account decides for the first time.
LEMMA OneMoreDecision ==
  ASSUME NEW d \in Ledger, NEW a \in Approvers, a \notin Voters(d), IsFiniteSet(Voters(d)),
         NEW v \in {"APPROVE", "REJECT"}
  PROVE  LET e == [d EXCEPT ![a] = v] IN
         /\ e \in Ledger /\ Voters(e) = Voters(d) \cup {a}
         /\ IsFiniteSet(Voters(e)) /\ Cardinality(Voters(e)) = Cardinality(Voters(d)) + 1
         /\ v = "APPROVE" => Yes(e) = Yes(d) \cup {a}
<1> DEFINE e == [d EXCEPT ![a] = v]
<1>1. e \in Ledger
  BY DEF Ledger
<1>2. Voters(e) = Voters(d) \cup {a}
  BY DEF Ledger, Voters
<1>3. v = "APPROVE" => Yes(e) = Yes(d) \cup {a}
  BY DEF Ledger, Yes
<1>4. IsFiniteSet(Voters(e)) /\ Cardinality(Voters(e)) = Cardinality(Voters(d)) + 1
  BY <1>2, FS_AddElement
<1> QED
  BY <1>1, <1>2, <1>3, <1>4

\* decide_approval, APPROVE below the quorum.
LEMMA ApprovalRecorded ==
  ASSUME NEW r \in GrantRow, NEW h \in Seq(GrantEvents), NEW d \in Ledger, NEW u,
         GrantOK(r, h, d, u), r.status = "PENDING", NEW a \in Approvers,
         a \notin Voters(d), PrincipalOf[a] # PrincipalOf[Requester],
         ~(Cardinality(Voters(d)) + 1 >= r.quorum)
  PROVE  GrantOK(r, h, [d EXCEPT ![a] = "APPROVE"], u)
<1> DEFINE e == [d EXCEPT ![a] = "APPROVE"]
<1>1. r # NoApproval /\ StreamOK(r, h) /\ UsesOK(r, h, u) /\ DecisionsOK(r, h, d)
      /\ r.key # "none"
  BY DEF GrantOK, NoApproval
<1>2. IsFiniteSet(Voters(d)) /\ Yes(d) = Voters(d) /\ Lived(r, h) = 1
  BY <1>1 DEF DecisionsOK, StreamOK
<1>3. /\ Voters(e) = Voters(d) \cup {a} /\ Yes(e) = Yes(d) \cup {a}
      /\ IsFiniteSet(Voters(e)) /\ Cardinality(Voters(e)) = Cardinality(Voters(d)) + 1
  BY <1>2, OneMoreDecision
<1>4. Cardinality(Voters(d)) \in Nat /\ r.quorum \in Nat
  BY <1>2, FS_CardinalityType DEF GrantRow
<1> HIDE DEF e
<1>5. Cardinality(Yes(e)) < r.quorum
  BY <1>2, <1>3, <1>4
<1>6. DecisionsOK(r, h, e)
  BY <1>1, <1>2, <1>3, <1>5 DEF DecisionsOK
<1>7. GrantOK(r, h, e, u)
  BY <1>1, <1>6 DEF GrantOK
<1> QED
  BY <1>7 DEF e

\* decide_approval, the approval that completes the quorum.
LEMMA ApprovalGrants ==
  ASSUME NEW r \in GrantRow, NEW h \in Seq(GrantEvents), NEW d \in Ledger, NEW u,
         GrantOK(r, h, d, u), r.status = "PENDING", NEW a \in Approvers,
         a \notin Voters(d), PrincipalOf[a] # PrincipalOf[Requester],
         Cardinality(Voters(d)) + 1 >= r.quorum
  PROVE  GrantOK([r EXCEPT !.status = "APPROVED", !.seq = r.seq + 1],
                 Append(h, "GRANTED"), [d EXCEPT ![a] = "APPROVE"], u)
<1> DEFINE e == [d EXCEPT ![a] = "APPROVE"]
           s == [r EXCEPT !.status = "APPROVED", !.seq = r.seq + 1]
           k == Append(h, "GRANTED")
<1>1. r # NoApproval /\ StreamOK(r, h) /\ UsesOK(r, h, u) /\ DecisionsOK(r, h, d)
      /\ r.key # "none"
  BY DEF GrantOK, NoApproval
<1>2. IsFiniteSet(Voters(d)) /\ Yes(d) = Voters(d) /\ Lived(r, h) = 1
  BY <1>1 DEF DecisionsOK, StreamOK
<1>3. /\ Voters(e) = Voters(d) \cup {a} /\ Yes(e) = Yes(d) \cup {a}
      /\ IsFiniteSet(Voters(e)) /\ Cardinality(Voters(e)) = Cardinality(Voters(d)) + 1
  BY <1>2, OneMoreDecision
<1>4. Cardinality(Voters(d)) \in Nat /\ r.quorum \in Nat
  BY <1>2, FS_CardinalityType DEF GrantRow
<1>5. /\ s.status = "APPROVED" /\ s.seq = r.seq + 1 /\ s.key = r.key
      /\ s.maxUses = r.maxUses /\ s.quorum = r.quorum /\ s # NoApproval
  BY DEF GrantRow, NoApproval
<1>6. /\ Len(k) = Len(h) + 1 /\ k[Len(h) + 1] = "GRANTED" /\ Len(h) \in Nat
      /\ \A i \in 1 .. Len(h) : k[i] = h[i]
  BY AppendedStream DEF GrantEvents
<1> HIDE DEF e, s, k
<1>7. Len(h) = 1 /\ Lived(s, k) = 2
  <2>1. EndLength(r.status) = 0 /\ EndLength(s.status) = 0
    BY <1>5 DEF EndLength
  <2> QED
    <3>1. Lived(r, h) = Len(h) /\ Lived(s, k) = Len(h) + 1
      BY <1>6, <2>1 DEF Lived
    <3>2. Len(h) = 1
      BY <1>2, <3>1
    <3> QED
      BY <3>1, <3>2
<1>8. StreamOK(s, k)
  BY <1>1, <1>2, <1>5, <1>6, <1>7 DEF StreamOK, LivedEvent
<1>9. UsesOK(s, k, u)
  BY <1>1, <1>2, <1>5, <1>7 DEF UsesOK
<1>10. DecisionsOK(s, k, e)
  BY <1>1, <1>2, <1>3, <1>4, <1>5, <1>7 DEF DecisionsOK
<1>11. GrantOK(s, k, e, u)
  BY <1>1, <1>5, <1>8, <1>9, <1>10 DEF GrantOK
<1> QED
  BY <1>11 DEF e, s, k

\* Rejection, cancellation and revocation end an open grant.
LEMMA EndingOK ==
  ASSUME NEW r \in GrantRow, NEW h \in Seq(GrantEvents), NEW d \in Ledger, NEW u,
         GrantOK(r, h, d, u), NEW e \in Ledger,
         NEW st \in {"REJECTED", "CANCELLED", "REVOKED"}, st \in GrantMoves(r.status),
         IsFiniteSet(Voters(e)), Yes(e) = Yes(d),
         \A a \in Voters(e) : PrincipalOf[a] # PrincipalOf[Requester]
  PROVE  GrantOK([r EXCEPT !.status = st, !.seq = r.seq + 1], Append(h, st), e, u)
<1> DEFINE s == [r EXCEPT !.status = st, !.seq = r.seq + 1]
           k == Append(h, st)
<1>0. r.status \in {"PENDING", "APPROVED", "PARTIALLY_CONSUMED"}
      /\ (st = "REJECTED" => r.status = "PENDING")
  BY DEF GrantMoves, CONSUMABLE
<1>1. r # NoApproval /\ StreamOK(r, h) /\ UsesOK(r, h, u) /\ DecisionsOK(r, h, d)
      /\ r.key # "none"
  BY <1>0 DEF GrantOK, NoApproval
<1>5. /\ s.status = st /\ s.seq = r.seq + 1 /\ s.key = r.key
      /\ s.maxUses = r.maxUses /\ s.quorum = r.quorum /\ s # NoApproval
  BY DEF GrantRow, NoApproval
<1>6. /\ Len(k) = Len(h) + 1 /\ k[Len(h) + 1] = st /\ Len(h) \in Nat
      /\ \A i \in 1 .. Len(h) : k[i] = h[i]
  BY AppendedStream DEF GrantEvents
<1> HIDE DEF s, k
<1>7. Lived(r, h) = Len(h) /\ Lived(s, k) = Len(h)
  BY <1>0, <1>5, <1>6 DEF Lived, EndLength
<1>8. StreamOK(s, k)
  BY <1>0, <1>1, <1>5, <1>6, <1>7 DEF StreamOK
<1>9. UsesOK(s, k, u)
  BY <1>1, <1>5, <1>7 DEF UsesOK
<1>10. DecisionsOK(s, k, e)
  BY <1>1, <1>5, <1>7 DEF DecisionsOK
<1>11. GrantOK(s, k, e, u)
  BY <1>0, <1>1, <1>5, <1>8, <1>9, <1>10 DEF GrantOK
<1> QED
  BY <1>11 DEF s, k

\* expire_approvals: expired and escalated.
LEMMA ExpiryOK ==
  ASSUME NEW r \in GrantRow, NEW h \in Seq(GrantEvents), NEW d \in Ledger, NEW u,
         GrantOK(r, h, d, u), "EXPIRED" \in GrantMoves(r.status)
  PROVE  GrantOK([r EXCEPT !.status = "EXPIRED", !.seq = @ + 2],
                 h \o <<"EXPIRED", "ESCALATED">>, d, u)
<1> DEFINE s == [r EXCEPT !.status = "EXPIRED", !.seq = @ + 2]
           k == h \o <<"EXPIRED", "ESCALATED">>
<1>0. r.status \in {"PENDING", "APPROVED", "PARTIALLY_CONSUMED"}
  BY DEF GrantMoves, CONSUMABLE
<1>1. r # NoApproval /\ StreamOK(r, h) /\ UsesOK(r, h, u) /\ DecisionsOK(r, h, d)
      /\ r.key # "none"
  BY <1>0 DEF GrantOK, NoApproval
<1>5. /\ s.status = "EXPIRED" /\ s.seq = r.seq + 2 /\ s.key = r.key
      /\ s.maxUses = r.maxUses /\ s.quorum = r.quorum /\ s # NoApproval
  BY DEF GrantRow, NoApproval
<1>6. /\ Len(k) = Len(h) + 2 /\ k[Len(h) + 1] = "EXPIRED" /\ k[Len(h) + 2] = "ESCALATED"
      /\ Len(h) \in Nat /\ \A i \in 1 .. Len(h) : k[i] = h[i]
  OBVIOUS
<1> HIDE DEF s, k
<1>7. Lived(r, h) = Len(h) /\ Lived(s, k) = Len(h)
  BY <1>0, <1>5, <1>6 DEF Lived, EndLength
<1>8. StreamOK(s, k)
  BY <1>0, <1>1, <1>5, <1>6, <1>7 DEF StreamOK
<1>9. UsesOK(s, k, u)
  BY <1>1, <1>5, <1>7 DEF UsesOK
<1>10. DecisionsOK(s, k, d)
  BY <1>1, <1>5, <1>7 DEF DecisionsOK
<1>11. GrantOK(s, k, d, u)
  BY <1>0, <1>1, <1>5, <1>8, <1>9, <1>10 DEF GrantOK
<1> QED
  BY <1>11 DEF s, k

\* consume_approval: one more key in the ledger, one more Event.
LEMMA ConsumptionOK ==
  ASSUME NEW r \in GrantRow, NEW h \in Seq(GrantEvents), NEW d \in Ledger, NEW u, NEW x,
         GrantOK(r, h, d, u), NEW now, Usable(r, Cardinality(u), now), x \notin u
  PROVE  GrantOK([r EXCEPT !.status = StatusAfterUse(Cardinality(u) + 1, r.maxUses),
                           !.seq = r.seq + 1],
                 Append(h, "CONSUMED"), d, u \cup {x})
<1> DEFINE st == StatusAfterUse(Cardinality(u) + 1, r.maxUses)
           s == [r EXCEPT !.status = st, !.seq = r.seq + 1]
           k == Append(h, "CONSUMED")
           v == u \cup {x}
<1>0. r.status \in {"APPROVED", "PARTIALLY_CONSUMED"}
      /\ (r.maxUses = 0 \/ Cardinality(u) < r.maxUses)
  BY DEF Usable, CONSUMABLE
<1>1. r # NoApproval /\ StreamOK(r, h) /\ UsesOK(r, h, u) /\ DecisionsOK(r, h, d)
      /\ r.key # "none"
  BY <1>0 DEF GrantOK, NoApproval
<1>2. IsFiniteSet(u) /\ Cardinality(u) \in Nat /\ r.maxUses \in Nat
  BY <1>1, FS_CardinalityType DEF UsesOK, GrantRow
<1>3. IsFiniteSet(v) /\ Cardinality(v) = Cardinality(u) + 1
  BY <1>2, FS_AddElement
<1>4. st = IF r.maxUses # 0 /\ Cardinality(v) >= r.maxUses THEN "CONSUMED"
           ELSE "PARTIALLY_CONSUMED"
  BY <1>3 DEF StatusAfterUse
<1>5. /\ s.status = st /\ s.seq = r.seq + 1 /\ s.key = r.key
      /\ s.maxUses = r.maxUses /\ s.quorum = r.quorum
  BY DEF GrantRow
<1>6. /\ Len(k) = Len(h) + 1 /\ k[Len(h) + 1] = "CONSUMED" /\ Len(h) \in Nat
      /\ \A i \in 1 .. Len(h) : k[i] = h[i]
  BY AppendedStream DEF GrantEvents
<1> HIDE DEF s, k, v, st
<1>7. Lived(r, h) = Len(h) /\ Lived(s, k) = Len(h) + 1 /\ Len(h) >= 2
      /\ st \in {"CONSUMED", "PARTIALLY_CONSUMED"} /\ s # NoApproval
  <2>1. st \in {"CONSUMED", "PARTIALLY_CONSUMED"} /\ s # NoApproval
    BY <1>4, <1>5 DEF NoApproval
  <2>2. EndLength(r.status) = 0 /\ EndLength(s.status) = 0
    BY <1>0, <1>5, <2>1 DEF EndLength
  <2>3. Lived(r, h) = Len(h) /\ Lived(s, k) = Len(h) + 1
    BY <1>6, <2>2 DEF Lived
  <2> QED
    BY <1>0, <1>1, <1>6, <2>1, <2>3 DEF StreamOK
<1>8. StreamOK(s, k)
  <2>1. \A i \in 1 .. Lived(s, k) : k[i] = LivedEvent(i)
    BY <1>1, <1>6, <1>7 DEF StreamOK, LivedEvent
  <2> QED
    BY <1>1, <1>5, <1>6, <1>7, <2>1 DEF StreamOK
<1>9. UsesOK(s, k, v)
  <2>1. Cardinality(v) = Lived(s, k) - 2
    BY <1>1, <1>2, <1>3, <1>6, <1>7 DEF UsesOK
  <2>2. r.maxUses # 0 => Cardinality(v) <= r.maxUses
    BY <1>0, <1>2, <1>3
  <2> QED
    BY <1>2, <1>3, <1>4, <1>5, <1>6, <1>7, <2>1, <2>2 DEF UsesOK
<1>10. DecisionsOK(s, k, d)
  BY <1>1, <1>5, <1>6, <1>7 DEF DecisionsOK
<1>11. GrantOK(s, k, d, v)
  BY <1>5, <1>7, <1>8, <1>9, <1>10 DEF GrantOK
<1> QED
  BY <1>11 DEF s, k, v, st

-----------------------------------------------------------------------------
(***************************************************************************)
(* Approvals: every step keeps the invariant.                              *)
(***************************************************************************)
\* What PriorDeciders reads.
LEMMA PriorDecided == \A g \in GrantIds : PriorDeciders(g) = Voters(decisions[g])
BY DEF PriorDeciders, Voters

\* The grants a transaction does not work on stay as they are, and so does
\* what the other transactions have read of theirs.
LEMMA GrantOthersKeep ==
  ASSUME ApprovalsFullType, ApprovalsInv, NEW c \in Clients, NEW g \in GrantIds,
         grantLock[g] \in {c, NoClient},
         \A f \in GrantIds \ {g} :
           /\ grant'[f] = grant[f] /\ uses'[f] = uses[f]
           /\ decisions'[f] = decisions[f] /\ grantLock'[f] = grantLock[f],
         NEW b \in Clients \ {c}, atWork'[b] = atWork[b]
  PROVE  GrantWorkInv(b)'
<1>1. GrantWorkInv(b)
  BY DEF ApprovalsInv
<1>2. ASSUME atWork[b].op \notin {"idle", "request"}
      PROVE  /\ atWork[b].on \in GrantIds \ {g}
             /\ PriorDeciders(atWork[b].on)' = PriorDeciders(atWork[b].on)
  <2>1. atWork[b].on \in GrantIds /\ grantLock[atWork[b].on] = b
    BY <1>1, <1>2 DEF GrantWorkInv
  <2>2. atWork[b].on # g
    BY <2>1, ApprovalsAssumption
  <2> QED
    BY <2>1, <2>2 DEF PriorDeciders
<1> QED
  BY <1>1, <1>2 DEF GrantWorkInv

\* The transaction that is over knows nothing.
LEMMA OverKeeps ==
  ASSUME NEW c \in Clients, atWork'[c] = NoGrantWork
  PROVE  GrantWorkInv(c)'
BY DEF GrantWorkInv, NoGrantWork

\* _set_status with the stream's new length.
LEMMA RowWritten ==
  ASSUME NEW r \in GrantRow, NEW st \in ApprovalStatus
  PROVE  LET s == [r EXCEPT !.status = st, !.seq = r.seq + 1] IN
         s \in GrantRow /\ s.key = r.key /\ s.status = st
<1> DEFINE s == [r EXCEPT !.status = st, !.seq = r.seq + 1]
<1>1. r.seq + 1 \in Nat
  BY DEF GrantRow
<1>2. s \in GrantRow
  BY <1>1 DEF GrantRow
<1>3. s.key = r.key /\ s.status = st
  BY DEF GrantRow
<1> QED
  BY <1>2, <1>3

\* A command that writes its Event: the whole invariant from the changed
\* grant's part of it.
LEMMA GrantWriteKeeps ==
  ASSUME ApprovalsFullType, ApprovalsInv, NEW c \in Clients,
         atWork[c].op \notin {"idle", "request"},
         NEW type \in GrantEvents, NEW st \in ApprovalStatus, WriteGrant(c, type, st),
         NEW d \in Ledger, decisions' = [decisions EXCEPT ![atWork[c].on] = d],
         NEW u \in SUBSET UseKeys, uses' = [uses EXCEPT ![atWork[c].on] = u],
         UNCHANGED today,
         GrantOK([atWork[c].seen EXCEPT !.status = st, !.seq = atWork[c].seen.seq + 1],
                 Append(history[atWork[c].on], type), d, u)
  PROVE  ApprovalsFullType' /\ ApprovalsInv'
<1> DEFINE g == atWork[c].on
           r == [atWork[c].seen EXCEPT !.status = st, !.seq = atWork[c].seen.seq + 1]
<1>1. /\ g \in GrantIds /\ grantLock[g] = c /\ grant[g] # NoApproval
      /\ atWork[c].seen = grant[g]
  BY DEF ApprovalsInv, GrantWorkInv
<1>2. /\ grant \in [GrantIds -> GrantRow] /\ history \in [GrantIds -> Seq(GrantEvents)]
      /\ atWork \in [Clients -> GrantWork] /\ grantLock \in [GrantIds -> Clients \cup {NoClient}]
      /\ decisions \in [GrantIds -> Ledger] /\ uses \in [GrantIds -> SUBSET UseKeys]
      /\ today \in 0 .. GrantExpiry
  BY DEF ApprovalsFullType, ApprovalsTypeOK, Ledger
<1>3. type # "none"
  BY DEF GrantEvents
<1>4. /\ grant' = [grant EXCEPT ![g].status = st, ![g].seq = atWork[c].seen.seq + 1]
      /\ history' = [history EXCEPT ![g] = Append(@, type)]
      /\ grantLock' = [grantLock EXCEPT ![g] = NoClient]
      /\ atWork' = [atWork EXCEPT ![c] = NoGrantWork]
  BY <1>3 DEF WriteGrant
<1>5. r \in GrantRow /\ r.key = grant[g].key /\ r.status = st
  <2>1. atWork[c].seen \in GrantRow
    BY <1>1, <1>2
  <2> QED
    BY <1>1, <2>1, RowWritten
<1>6. grant' = [grant EXCEPT ![g] = r]
  BY <1>1, <1>2, <1>4 DEF GrantRow
<1>7. NoGrantWork \in GrantWork /\ NoApproval \in GrantRow
  BY DEF NoGrantWork, GrantWork, NoApproval, GrantRow, ApprovalStatus
<1>8. ApprovalsFullType'
  <2>1. grant' \in [GrantIds -> GrantRow]
    BY <1>1, <1>2, <1>5, <1>6
  <2>2. history' \in [GrantIds -> Seq(GrantEvents)]
    BY <1>1, <1>2, <1>4, AppendedStream
  <2>3. decisions' \in [GrantIds -> Ledger] /\ uses' \in [GrantIds -> SUBSET UseKeys]
    BY <1>1, <1>2
  <2>4. grantLock' \in [GrantIds -> Clients \cup {NoClient}] /\ today' \in 0 .. GrantExpiry
    BY <1>1, <1>2, <1>4
  <2>5. atWork' \in [Clients -> GrantWork]
    BY <1>2, <1>4, <1>7
  <2> QED
    BY <2>1, <2>2, <2>3, <2>4, <2>5 DEF ApprovalsFullType, ApprovalsTypeOK, Ledger, GrantRow
<1> HIDE DEF r
<1>9. \A f \in GrantIds \ {g} :
        /\ grant'[f] = grant[f] /\ uses'[f] = uses[f] /\ history'[f] = history[f]
        /\ decisions'[f] = decisions[f] /\ grantLock'[f] = grantLock[f]
  BY <1>1, <1>2, <1>4, <1>6
<1>10. \A b \in Clients : GrantWorkInv(b)'
  <2>1. GrantWorkInv(c)'
    BY <1>2, <1>4, OverKeeps
  <2>2. ASSUME NEW b \in Clients \ {c} PROVE GrantWorkInv(b)'
    <3>1. atWork'[b] = atWork[b] /\ grantLock[g] \in {c, NoClient}
      BY <1>1, <1>2, <1>4
    <3> QED
      BY <1>1, <1>9, <3>1, GrantOthersKeep
  <2> QED
    BY <2>1, <2>2
<1>11. GrantsInv'
  <2>1. /\ grant'[g] = r /\ history'[g] = Append(history[g], type)
        /\ decisions'[g] = d /\ uses'[g] = u
    BY <1>1, <1>2, <1>4, <1>6
  <2>2. GrantOK(grant'[g], history'[g], decisions'[g], uses'[g])
    BY <2>1 DEF r
  <2> QED
    BY <1>9, <2>2 DEF ApprovalsInv, GrantsInv
<1>12. OneGrantPerKey'
  <2>1. \A f \in GrantIds : /\ grant'[f].key = grant[f].key
                            /\ grant'[f] # NoApproval => grant[f] # NoApproval
    BY <1>1, <1>2, <1>5, <1>6, <1>9
  <2> QED
    BY <2>1 DEF ApprovalsInv, OneGrantPerKey
<1> QED
  BY <1>8, <1>10, <1>11, <1>12 DEF ApprovalsInv

\* Every step of a command or of the expiry sweep keeps the invariant.
LEMMA ApprovalsStepKeeps ==
  ASSUME ApprovalsFullType, ApprovalsInv, [ApprovalsNext]_approvalsVars
  PROVE  ApprovalsFullType' /\ ApprovalsInv'
<1>0. /\ grant \in [GrantIds -> GrantRow] /\ history \in [GrantIds -> Seq(GrantEvents)]
      /\ atWork \in [Clients -> GrantWork] /\ grantLock \in [GrantIds -> Clients \cup {NoClient}]
      /\ decisions \in [GrantIds -> Ledger] /\ uses \in [GrantIds -> SUBSET UseKeys]
      /\ today \in 0 .. GrantExpiry /\ GrantExpiry \in Nat
  BY ApprovalsAssumption DEF ApprovalsFullType, ApprovalsTypeOK, Ledger
<1>1. NoGrantWork \in GrantWork /\ NoApproval \in GrantRow
  BY DEF NoGrantWork, GrantWork, NoApproval, GrantRow, ApprovalStatus
<1>2. ASSUME UNCHANGED <<grant, history, decisions, uses, today>>,
             grantLock' \in [GrantIds -> Clients \cup {NoClient}],
             atWork' \in [Clients -> GrantWork],
             \A c \in Clients : GrantWorkInv(c)'
      PROVE  ApprovalsFullType' /\ ApprovalsInv'
  BY <1>2 DEF ApprovalsFullType, ApprovalsTypeOK, ApprovalsInv, GrantsInv, OneGrantPerKey
<1>3. ASSUME NEW c \in Clients, HandleRequest(c)
      PROVE  ApprovalsFullType' /\ ApprovalsInv'
  <2>1. PICK k \in GrantKeys : LookupRequest(c, k)
    BY <1>3 DEF HandleRequest
  <2> DEFINE w == [NoGrantWork EXCEPT !.op = "request", !.arg = k]
  <2>2. w \in GrantWork /\ w.op = "request" /\ w.arg = k
    BY <1>1 DEF GrantWork, NoGrantWork
  <2>3. /\ atWork' = [atWork EXCEPT ![c] = w]
        /\ UNCHANGED <<grant, history, decisions, uses, grantLock, today>>
    BY <2>1 DEF LookupRequest
  <2> HIDE DEF w
  <2>4. ASSUME NEW b \in Clients PROVE GrantWorkInv(b)'
    <3>1. GrantWorkInv(b)
      BY DEF ApprovalsInv
    <3>2. CASE b = c
      BY <1>0, <2>2, <2>3, <3>2 DEF GrantWorkInv
    <3>3. CASE b # c
      BY <1>0, <2>3, <3>1, <3>3 DEF GrantWorkInv, PriorDeciders
    <3> QED
      BY <3>2, <3>3
  <2> QED
    BY <1>0, <1>2, <2>2, <2>3, <2>4
<1>4. ASSUME NEW c \in Clients, NEW g \in GrantIds, NEW shape \in Shapes,
             RequestApproval(c, g, shape)
      PROVE  ApprovalsFullType' /\ ApprovalsInv'
  <2> DEFINE k == atWork[c].arg
             r == [status |-> "PENDING", key |-> k, seq |-> 1,
                   quorum |-> shape.quorum, maxUses |-> shape.maxUses]
  <2>1. /\ atWork[c].op = "request" /\ KeyFree(k) /\ grant[g] = NoApproval
        /\ grant' = [grant EXCEPT ![g] = r]
        /\ history' = [history EXCEPT ![g] = <<"REQUESTED">>]
        /\ atWork' = [atWork EXCEPT ![c] = NoGrantWork]
        /\ UNCHANGED <<decisions, uses, grantLock, today>>
    BY <1>4 DEF RequestApproval
  <2>2. k \in GrantKeys /\ k # "none" /\ \A f \in GrantIds : grant[f].key # k
    BY <2>1 DEF ApprovalsInv, GrantWorkInv, KeyFree, NoApproval
  <2>3. shape.quorum \in Nat /\ shape.maxUses \in Nat
    BY ApprovalsAssumption
  <2>4. r \in GrantRow /\ r.key = k /\ r # NoApproval
    BY <2>2, <2>3 DEF GrantRow, ApprovalStatus, NoApproval
  <2>5. decisions[g] \in Ledger /\ Voters(decisions[g]) = {} /\ uses[g] = {}
    BY <1>0, <2>1 DEF ApprovalsInv, GrantsInv, GrantOK
  <2>6. GrantOK(r, <<"REQUESTED">>, decisions[g], {})
    BY <2>2, <2>3, <2>5, NewGrantOK
  <2> HIDE DEF r
  <2>7. ApprovalsFullType'
    <3>1. grant' \in [GrantIds -> GrantRow]
      BY <1>0, <2>1, <2>4
    <3>2. history' \in [GrantIds -> Seq(GrantEvents)]
      <4>1. <<"REQUESTED">> \in Seq(GrantEvents)
        BY DEF GrantEvents
      <4> QED
        BY <1>0, <2>1, <4>1
    <3>3. atWork' \in [Clients -> GrantWork]
      BY <1>0, <1>1, <2>1
    <3> QED
      BY <1>0, <2>1, <3>1, <3>2, <3>3
         DEF ApprovalsFullType, ApprovalsTypeOK, GrantRow, Ledger
  <2>8. \A b \in Clients : GrantWorkInv(b)'
    <3>1. GrantWorkInv(c)'
      BY <1>0, <2>1, OverKeeps
    <3>2. ASSUME NEW b \in Clients \ {c} PROVE GrantWorkInv(b)'
      <4>1. atWork'[b] = atWork[b] /\ GrantWorkInv(b)
        BY <1>0, <2>1 DEF ApprovalsInv
      <4>2. \A f \in GrantIds : /\ PriorDeciders(f)' = PriorDeciders(f)
                                /\ grant[f] # NoApproval => grant'[f] = grant[f]
        BY <1>0, <2>1 DEF PriorDeciders
      <4> QED
        BY <2>1, <4>1, <4>2 DEF GrantWorkInv
    <3> QED
      BY <3>1, <3>2
  <2>9. GrantsInv'
    <3>1. /\ grant'[g] = r /\ history'[g] = <<"REQUESTED">> /\ uses'[g] = {}
          /\ decisions'[g] = decisions[g]
      BY <1>0, <2>1, <2>5
    <3>2. \A f \in GrantIds \ {g} : grant'[f] = grant[f] /\ history'[f] = history[f]
      BY <1>0, <2>1
    <3> QED
      BY <2>1, <2>6, <3>1, <3>2 DEF ApprovalsInv, GrantsInv
  <2>10. OneGrantPerKey'
    <3>1. \A f \in GrantIds \ {g} : grant'[f] = grant[f]
      BY <1>0, <2>1
    <3>2. grant'[g].key = k
      BY <1>0, <2>1, <2>4
    <3> QED
      BY <2>2, <3>1, <3>2 DEF ApprovalsInv, OneGrantPerKey
  <2> QED
    BY <2>7, <2>8, <2>9, <2>10 DEF ApprovalsInv
<1>5. ASSUME NEW c \in Clients, NEW g \in GrantIds,
             NEW op \in {"approve", "reject", "CANCELLED", "REVOKED", "consume"},
             NEW arg \in Approvers \cup UseKeys \cup {"none"},
             op \in {"approve", "reject"} => arg \in Approvers,
             op = "consume" => arg \in UseKeys,
             LoadGrant(c, g, op, arg)
      PROVE  ApprovalsFullType' /\ ApprovalsInv'
  <2> DEFINE w == [op |-> op, on |-> g, arg |-> arg, seen |-> grant[g],
                   prior |-> PriorDeciders(g), used |-> uses[g], now |-> today]
  <2>1. /\ LockFree(g) /\ grant[g] # NoApproval
        /\ grantLock' = [grantLock EXCEPT ![g] = c]
        /\ atWork' = [atWork EXCEPT ![c] = w]
        /\ UNCHANGED <<grant, history, decisions, uses, today>>
    BY <1>5 DEF LoadGrant
  <2>2. w \in GrantWork
    BY <1>0 DEF GrantWork, PriorDeciders
  <2>3. GrantWorkInv(c)'
    <3>1. atWork'[c] = w /\ grantLock'[g] = c /\ PriorDeciders(g)' = PriorDeciders(g)
      BY <1>0, <2>1 DEF PriorDeciders
    <3> QED
      BY <1>5, <2>1, <3>1 DEF GrantWorkInv
  <2>4. ASSUME NEW b \in Clients \ {c} PROVE GrantWorkInv(b)'
    <3>1. atWork'[b] = atWork[b] /\ grantLock[g] \in {c, NoClient}
      BY <1>0, <2>1 DEF LockFree
    <3>2. \A f \in GrantIds \ {g} :
           /\ grant'[f] = grant[f] /\ uses'[f] = uses[f]
           /\ decisions'[f] = decisions[f] /\ grantLock'[f] = grantLock[f]
      BY <1>0, <2>1
    <3> QED
      BY <3>1, <3>2, GrantOthersKeep
  <2> HIDE DEF w
  <2>5. /\ grantLock' \in [GrantIds -> Clients \cup {NoClient}]
        /\ atWork' \in [Clients -> GrantWork]
    BY <1>0, <2>1, <2>2
  <2> QED
    BY <1>2, <2>1, <2>3, <2>4, <2>5
<1>6. ASSUME NEW c \in Clients, ApprovalRefused(c)
      PROVE  ApprovalsFullType' /\ ApprovalsInv'
  <2>1. /\ grantLock' = [g \in GrantIds |->
                           IF grantLock[g] = c THEN NoClient ELSE grantLock[g]]
        /\ atWork' = [atWork EXCEPT ![c] = NoGrantWork]
        /\ UNCHANGED <<grant, history, decisions, uses, today>>
    BY <1>6 DEF ApprovalRefused
  <2>2. GrantWorkInv(c)'
    BY <1>0, <2>1, OverKeeps
  <2>3. ASSUME NEW b \in Clients \ {c} PROVE GrantWorkInv(b)'
    <3>1. atWork'[b] = atWork[b] /\ GrantWorkInv(b)
      BY <1>0, <2>1 DEF ApprovalsInv
    <3>2. \A f \in GrantIds : grantLock[f] = b => grantLock'[f] = b
      BY <2>1
    <3>3. \A f \in GrantIds : PriorDeciders(f)' = PriorDeciders(f)
      BY <2>1 DEF PriorDeciders
    <3> QED
      BY <2>1, <3>1, <3>2, <3>3 DEF GrantWorkInv
  <2>4. /\ grantLock' \in [GrantIds -> Clients \cup {NoClient}]
        /\ atWork' \in [Clients -> GrantWork]
    BY <1>0, <1>1, <2>1
  <2> QED
    BY <1>2, <2>1, <2>2, <2>3, <2>4
<1>7. ASSUME NEW c \in Clients, atWork[c].op \notin {"idle", "request"}
      PROVE  /\ atWork[c].on \in GrantIds /\ grant[atWork[c].on] # NoApproval
             /\ atWork[c].seen = grant[atWork[c].on]
             /\ atWork[c].prior = Voters(decisions[atWork[c].on])
             /\ atWork[c].used = uses[atWork[c].on]
             /\ grant[atWork[c].on] \in GrantRow /\ decisions[atWork[c].on] \in Ledger
             /\ history[atWork[c].on] \in Seq(GrantEvents)
             /\ GrantOK(grant[atWork[c].on], history[atWork[c].on],
                        decisions[atWork[c].on], uses[atWork[c].on])
  <2>1. /\ atWork[c].on \in GrantIds /\ grant[atWork[c].on] # NoApproval
        /\ atWork[c].seen = grant[atWork[c].on]
        /\ atWork[c].prior = PriorDeciders(atWork[c].on)
        /\ atWork[c].used = uses[atWork[c].on]
    BY <1>7 DEF ApprovalsInv, GrantWorkInv
  <2> QED
    BY <1>0, <2>1, PriorDecided DEF ApprovalsInv, GrantsInv
<1>8. ASSUME NEW c \in Clients, Approve(c)
      PROVE  ApprovalsFullType' /\ ApprovalsInv'
  <2> DEFINE g == atWork[c].on
             a == atWork[c].arg
             d == [decisions[g] EXCEPT ![a] = "APPROVE"]
  <2>1. /\ atWork[c].op = "approve" /\ atWork[c].seen.status = "PENDING"
        /\ Eligible(atWork[c].prior, a)
        /\ decisions' = [decisions EXCEPT ![g][a] = "APPROVE"]
        /\ UNCHANGED <<uses, today>>
    BY <1>8 DEF Approve, RecordDecision
  <2>2. a \in Approvers /\ a \notin Voters(decisions[g])
        /\ PrincipalOf[a] # PrincipalOf[Requester]
    BY <1>7, <2>1 DEF ApprovalsInv, GrantWorkInv, Eligible
  <2>3. decisions' = [decisions EXCEPT ![g] = d] /\ d \in Ledger
    BY <1>0, <1>7, <2>1, <2>2 DEF Ledger
  <2>4. uses' = [uses EXCEPT ![g] = uses[g]] /\ uses[g] \in SUBSET UseKeys
    BY <1>0, <1>7, <2>1
  <2>5. CASE Cardinality(atWork[c].prior) + 1 >= atWork[c].seen.quorum
    <3>1. WriteGrant(c, "GRANTED", "APPROVED")
      BY <1>8, <2>5 DEF Approve, Ending
    <3>2. GrantOK([atWork[c].seen EXCEPT !.status = "APPROVED",
                                         !.seq = atWork[c].seen.seq + 1],
                  Append(history[g], "GRANTED"), d, uses[g])
      BY <1>7, <2>1, <2>2, <2>5, ApprovalGrants
    <3>3. "GRANTED" \in GrantEvents /\ "APPROVED" \in ApprovalStatus
      BY DEF GrantEvents, ApprovalStatus, CONSUMABLE
    <3> HIDE DEF d
    <3> QED
      BY <2>1, <2>3, <2>4, <3>1, <3>2, <3>3, GrantWriteKeeps
  <2>6. CASE ~(Cardinality(atWork[c].prior) + 1 >= atWork[c].seen.quorum)
    <3>1. WriteGrant(c, "none", atWork[c].seen.status)
      BY <1>8, <2>6 DEF Approve
    <3>2. /\ UNCHANGED <<grant, history>>
          /\ grantLock' = [grantLock EXCEPT ![g] = NoClient]
          /\ atWork' = [atWork EXCEPT ![c] = NoGrantWork]
      BY <3>1 DEF WriteGrant
    <3>3. GrantOK(grant[g], history[g], d, uses[g])
      BY <1>7, <2>1, <2>2, <2>6, ApprovalRecorded
    <3>4. g \in GrantIds /\ grantLock[g] = c
      BY <2>1 DEF ApprovalsInv, GrantWorkInv
    <3> HIDE DEF d
    <3>5. ApprovalsFullType'
      <4>1. atWork' \in [Clients -> GrantWork]
        BY <1>0, <1>1, <3>2
      <4>2. /\ decisions' \in [GrantIds -> Ledger] 
            /\ grantLock' \in [GrantIds -> Clients \cup {NoClient}]
        BY <1>0, <2>3, <3>2, <3>4
      <4> QED
        BY <2>1, <3>2, <4>1, <4>2 DEF ApprovalsFullType, ApprovalsTypeOK, Ledger
    <3>6. GrantWorkInv(c)'
      BY <1>0, <3>2, OverKeeps
    <3>7. ASSUME NEW b \in Clients \ {c} PROVE GrantWorkInv(b)'
      <4>1. atWork'[b] = atWork[b]
        BY <1>0, <3>2
      <4>2. \A f \in GrantIds \ {g} :
             /\ grant'[f] = grant[f] /\ uses'[f] = uses[f]
             /\ decisions'[f] = decisions[f] /\ grantLock'[f] = grantLock[f]
        BY <1>0, <2>1, <2>3, <3>2, <3>4
      <4> QED
        BY <3>4, <4>1, <4>2, GrantOthersKeep
    <3>8. GrantsInv'
      <4>1. decisions'[g] = d /\ \A f \in GrantIds \ {g} : decisions'[f] = decisions[f]
        BY <1>0, <2>3, <3>4
      <4> QED
        BY <2>1, <3>2, <3>3, <4>1 DEF ApprovalsInv, GrantsInv
    <3>9. OneGrantPerKey'
      BY <3>2 DEF ApprovalsInv, OneGrantPerKey
    <3> QED
      BY <3>5, <3>6, <3>7, <3>8, <3>9 DEF ApprovalsInv
  <2> QED
    BY <2>5, <2>6
<1>9. ASSUME NEW c \in Clients, RejectGrant(c)
      PROVE  ApprovalsFullType' /\ ApprovalsInv'
  <2> DEFINE g == atWork[c].on
             a == atWork[c].arg
             d == [decisions[g] EXCEPT ![a] = "REJECT"]
  <2>1. /\ atWork[c].op = "reject" /\ atWork[c].seen.status = "PENDING"
        /\ Eligible(atWork[c].prior, a)
        /\ decisions' = [decisions EXCEPT ![g][a] = "REJECT"]
        /\ WriteGrant(c, "REJECTED", "REJECTED")
        /\ UNCHANGED <<uses, today>>
    BY <1>9 DEF RejectGrant, RecordDecision, Ending
  <2>2. a \in Approvers /\ a \notin Voters(decisions[g])
        /\ PrincipalOf[a] # PrincipalOf[Requester]
    BY <1>7, <2>1 DEF ApprovalsInv, GrantWorkInv, Eligible
  <2>3. decisions' = [decisions EXCEPT ![g] = d] /\ d \in Ledger
    BY <1>0, <1>7, <2>1, <2>2 DEF Ledger
  <2>4. uses' = [uses EXCEPT ![g] = uses[g]] /\ uses[g] \in SUBSET UseKeys
    BY <1>0, <1>7, <2>1
  <2>5. grant[g] # NoApproval /\ DecisionsOK(grant[g], history[g], decisions[g])
    BY <1>7, <2>1 DEF GrantOK
  <2>6. Voters(d) = Voters(decisions[g]) \cup {a} /\ IsFiniteSet(Voters(d))
    BY <1>7, <2>1, <2>2, <2>5, OneMoreDecision DEF DecisionsOK
  <2>7. Yes(d) = Yes(decisions[g])
    BY <1>7, <2>1, <2>2 DEF Yes, Voters, Ledger
  <2>8. \A b \in Voters(d) : PrincipalOf[b] # PrincipalOf[Requester]
    BY <2>2, <2>5, <2>6 DEF DecisionsOK
  <2>9. "REJECTED" \in GrantMoves(grant[g].status)
    <3>1. grant[g].status = "PENDING"
      BY <1>7, <2>1
    <3>2. GrantMoves("PENDING") =
            {"GRANTED", "REJECTED", "CANCELLED", "EXPIRED", "REVOKED"}
      BY DEF GrantMoves, CONSUMABLE
    <3> QED
      BY <3>1, <3>2
  <2> HIDE DEF d
  <2>10. GrantOK([atWork[c].seen EXCEPT !.status = "REJECTED",
                                        !.seq = atWork[c].seen.seq + 1],
                 Append(history[g], "REJECTED"), d, uses[g])
    BY <1>7, <2>1, <2>3, <2>6, <2>7, <2>8, <2>9, EndingOK
  <2>11. "REJECTED" \in GrantEvents /\ "REJECTED" \in ApprovalStatus
    BY DEF GrantEvents, ApprovalStatus, TerminalGrant
  <2> QED
    BY <2>1, <2>3, <2>4, <2>10, <2>11, GrantWriteKeeps
<1>10. ASSUME NEW c \in Clients, TerminateGrant(c)
       PROVE  ApprovalsFullType' /\ ApprovalsInv'
  <2> DEFINE g == atWork[c].on
             st == atWork[c].op
             d == decisions[g]
  <2>1. /\ st \in {"CANCELLED", "REVOKED"} /\ st \in GrantMoves(atWork[c].seen.status)
        /\ WriteGrant(c, st, st) /\ UNCHANGED <<decisions, uses, today>>
    BY <1>10 DEF TerminateGrant, Ending
  <2>2. /\ uses' = [uses EXCEPT ![g] = uses[g]] /\ uses[g] \in SUBSET UseKeys
        /\ decisions' = [decisions EXCEPT ![g] = d] /\ d \in Ledger
    BY <1>0, <1>7, <2>1
  <2>3. grant[g] # NoApproval /\ DecisionsOK(grant[g], history[g], d)
    BY <1>7, <2>1 DEF GrantOK
  <2>4. GrantOK([atWork[c].seen EXCEPT !.status = st, !.seq = atWork[c].seen.seq + 1],
                Append(history[g], st), d, uses[g])
    <3>1. st \in {"REJECTED", "CANCELLED", "REVOKED"}
      BY <2>1
    <3>2. IsFiniteSet(Voters(d))
          /\ \A b \in Voters(d) : PrincipalOf[b] # PrincipalOf[Requester]
      BY <2>3 DEF DecisionsOK
    <3> QED
      BY <1>7, <2>1, <2>2, <3>1, <3>2, EndingOK
  <2>5. st \in GrantEvents /\ st \in ApprovalStatus
    BY <2>1 DEF GrantEvents, ApprovalStatus, TerminalGrant
  <2> HIDE DEF d
  <2> QED
    BY <2>1, <2>2, <2>4, <2>5, GrantWriteKeeps
<1>11. ASSUME NEW c \in Clients, Consume(c)
       PROVE  ApprovalsFullType' /\ ApprovalsInv'
  <2> DEFINE g == atWork[c].on
             k == atWork[c].arg
             d == decisions[g]
             u == uses[g] \cup {k}
             st == StatusAfterUse(Cardinality(uses[g]) + 1, grant[g].maxUses)
  <2>1. /\ atWork[c].op = "consume" /\ k \notin atWork[c].used
        /\ Usable(atWork[c].seen, Cardinality(atWork[c].used), atWork[c].now)
        /\ uses' = [uses EXCEPT ![g] = @ \cup {k}]
        /\ WriteGrant(c, "CONSUMED", StatusAfterUse(Cardinality(atWork[c].used) + 1,
                                                    atWork[c].seen.maxUses))
        /\ UNCHANGED <<decisions, today>>
    BY <1>11 DEF Consume
  <2>2. k \in UseKeys
    BY <2>1 DEF ApprovalsInv, GrantWorkInv
  <2>3. WriteGrant(c, "CONSUMED", st)
    BY <1>7, <2>1
  <2>4. /\ uses' = [uses EXCEPT ![g] = u] /\ u \in SUBSET UseKeys
        /\ decisions' = [decisions EXCEPT ![g] = d] /\ d \in Ledger
    BY <1>0, <1>7, <2>1, <2>2
  <2>5. GrantOK([grant[g] EXCEPT !.status = st, !.seq = grant[g].seq + 1],
                Append(history[g], "CONSUMED"), d, u)
    BY <1>7, <2>1, ConsumptionOK
  <2>6. "CONSUMED" \in GrantEvents /\ st \in ApprovalStatus
    BY DEF GrantEvents, ApprovalStatus, TerminalGrant, CONSUMABLE, StatusAfterUse
  <2> HIDE DEF d, u, st
  <2>7. GrantOK([atWork[c].seen EXCEPT !.status = st, !.seq = atWork[c].seen.seq + 1],
                Append(history[g], "CONSUMED"), d, u)
    BY <1>7, <2>1, <2>5
  <2> QED
    BY <2>1, <2>3, <2>4, <2>6, <2>7, GrantWriteKeeps
<1>12. CASE ExpireApprovals
  <2> DEFINE New(g) == [grant[g] EXCEPT !.status = "EXPIRED", !.seq = @ + 2]
  <2>1. /\ \A g \in Overdue : LockFree(g)
        /\ grant' = [g \in GrantIds |-> IF g \in Overdue THEN New(g) ELSE grant[g]]
        /\ history' = [g \in GrantIds |-> IF g \in Overdue
                          THEN history[g] \o <<"EXPIRED", "ESCALATED">> ELSE history[g]]
        /\ UNCHANGED <<decisions, uses, grantLock, atWork, today>>
    BY <1>12 DEF ExpireApprovals
  <2>2. ASSUME NEW g \in Overdue
        PROVE  /\ g \in GrantIds /\ New(g) \in GrantRow /\ New(g).key = grant[g].key
               /\ GrantOK(New(g), history[g] \o <<"EXPIRED", "ESCALATED">>,
                          decisions[g], uses[g])
               /\ history[g] \o <<"EXPIRED", "ESCALATED">> \in Seq(GrantEvents)
               /\ grant[g] # NoApproval
    <3>1. /\ g \in GrantIds /\ grant[g] \in GrantRow /\ "EXPIRED" \in GrantMoves(grant[g].status)
          /\ history[g] \in Seq(GrantEvents) /\ decisions[g] \in Ledger
      BY <1>0 DEF Overdue
    <3>2. GrantOK(New(g), history[g] \o <<"EXPIRED", "ESCALATED">>, decisions[g], uses[g])
      BY <3>1, ExpiryOK DEF ApprovalsInv, GrantsInv
    <3>3. New(g) \in GrantRow /\ New(g).key = grant[g].key
      <4>1. grant[g].seq + 2 \in Nat /\ "EXPIRED" \in ApprovalStatus
        BY <3>1 DEF GrantRow, ApprovalStatus, TerminalGrant
      <4> QED
        BY <3>1, <4>1 DEF GrantRow
    <3>4. <<"EXPIRED", "ESCALATED">> \in Seq(GrantEvents)
      BY DEF GrantEvents
    <3>5. grant[g] # NoApproval
      BY <3>1 DEF NoApproval, GrantMoves, CONSUMABLE
    <3> QED
      BY <3>1, <3>2, <3>3, <3>4, <3>5
  <2> HIDE DEF New
  <2>3. ApprovalsFullType'
    <3>1. grant' \in [GrantIds -> GrantRow] /\ history' \in [GrantIds -> Seq(GrantEvents)]
      BY <1>0, <2>1, <2>2
    <3> QED
      BY <1>0, <2>1, <3>1 DEF ApprovalsFullType, ApprovalsTypeOK, GrantRow, Ledger
  <2>4. ASSUME NEW b \in Clients PROVE GrantWorkInv(b)'
    <3>1. GrantWorkInv(b)
      BY DEF ApprovalsInv
    <3>2. \A f \in GrantIds : grantLock[f] = b => grant'[f] = grant[f]
      BY <2>1, ApprovalsAssumption DEF LockFree
    <3>3. \A f \in GrantIds : PriorDeciders(f)' = PriorDeciders(f)
      BY <2>1 DEF PriorDeciders
    <3> QED
      BY <2>1, <3>1, <3>2, <3>3 DEF GrantWorkInv
  <2>5. GrantsInv'
    BY <2>1, <2>2 DEF ApprovalsInv, GrantsInv
  <2>6. OneGrantPerKey'
    <3>1. \A f \in GrantIds : /\ grant'[f].key = grant[f].key
                              /\ grant'[f] # NoApproval => grant[f] # NoApproval
      BY <2>1, <2>2
    <3> QED
      BY <3>1 DEF ApprovalsInv, OneGrantPerKey
  <2> QED
    BY <2>3, <2>4, <2>5, <2>6 DEF ApprovalsInv
<1>13. ASSUME today' \in 0 .. GrantExpiry,
              UNCHANGED <<grant, history, decisions, uses, grantLock, atWork>>
       PROVE  ApprovalsFullType' /\ ApprovalsInv'
  <2>1. ApprovalsFullType'
    BY <1>13 DEF ApprovalsFullType, ApprovalsTypeOK
  <2>2. \A c \in Clients : GrantWorkInv(c)'
    BY <1>13 DEF ApprovalsInv, GrantWorkInv, PriorDeciders
  <2> QED
    BY <1>13, <2>1, <2>2 DEF ApprovalsInv, GrantsInv, OneGrantPerKey
<1>14. CASE ApprovalTick
  BY <1>0, <1>13, <1>14 DEF ApprovalTick
<1>15. CASE UNCHANGED approvalsVars
  BY <1>0, <1>13, <1>15 DEF approvalsVars
<1> QED
  BY <1>3, <1>4, <1>5, <1>6, <1>8, <1>9, <1>10, <1>11, <1>12, <1>14, <1>15
     DEF ApprovalsNext, HandleDecide, HandleCancel, HandleRevoke, HandleConsume

\* A well-formed, not yet used registry of grants to begin with.
LEMMA ApprovalsStart == ApprovalsInit => ApprovalsFullType /\ ApprovalsInv
<1> SUFFICES ASSUME ApprovalsInit PROVE ApprovalsFullType /\ ApprovalsInv
  OBVIOUS
<1>1. NoGrantWork \in GrantWork /\ NoApproval \in GrantRow /\ 0 \in 0 .. GrantExpiry
  BY ApprovalsAssumption
     DEF NoGrantWork, GrantWork, NoApproval, GrantRow, ApprovalStatus
<1>2. <<>> \in Seq(GrantEvents)
  OBVIOUS
<1>3. ApprovalsFullType
  BY <1>1, <1>2 DEF ApprovalsInit, ApprovalsFullType, ApprovalsTypeOK, GrantRow
<1>4. \A c \in Clients : GrantWorkInv(c)
  BY DEF ApprovalsInit, GrantWorkInv, NoGrantWork
<1>5. GrantsInv
  BY DEF ApprovalsInit, GrantsInv, GrantOK, Voters
<1> QED
  BY <1>3, <1>4, <1>5 DEF ApprovalsInit, ApprovalsInv, OneGrantPerKey

\* The tables and the clock keep their types.
THEOREM ApprovalsTypes == ApprovalsSpec => []ApprovalsTypeOK
<1>1. ApprovalsFullType => ApprovalsTypeOK
  BY DEF ApprovalsFullType
<1> QED
  BY <1>1, ApprovalsStart, ApprovalsStepKeeps, PTL DEF ApprovalsSpec

-----------------------------------------------------------------------------
(***************************************************************************)
(* Approvals: what the invariant says of a grant.                          *)
(***************************************************************************)
\* The Events of one kind, counted.
LEMMA CountedEvents ==
  ASSUME NEW r \in GrantRow, NEW h \in Seq(GrantEvents), StreamOK(r, h)
  PROVE  /\ {i \in 1 .. Len(h) : h[i] = "GRANTED"} = IF Lived(r, h) >= 2 THEN {2} ELSE {}
         /\ {i \in 1 .. Len(h) : h[i] = "CONSUMED"} = 3 .. Lived(r, h)
<1>1. /\ Len(h) \in Nat /\ EndLength(r.status) \in {0, 1, 2}
      /\ EndLength(r.status) > 0 =>
           r.status \in {"REJECTED", "CANCELLED", "REVOKED", "EXPIRED"}
  BY DEF EndLength
<1>2. Lived(r, h) \in Nat /\ Lived(r, h) >= 1 /\ Lived(r, h) <= Len(h)
  BY <1>1 DEF StreamOK, Lived
<1>3. \A i \in 1 .. Lived(r, h) : h[i] = LivedEvent(i)
  BY DEF StreamOK
<1>4. ASSUME NEW i \in 1 .. Len(h), i \notin 1 .. Lived(r, h)
      PROVE  h[i] \notin {"GRANTED", "CONSUMED"}
  <2>1. EndLength(r.status) > 0
    BY <1>1, <1>2, <1>4 DEF Lived
  <2>2. i \in Lived(r, h) + 1 .. Len(h)
    BY <1>1, <1>2, <1>4
  <2>3. h[i] = IF i = Lived(r, h) + 1 THEN r.status ELSE "ESCALATED"
    BY <2>2 DEF StreamOK
  <2> QED
    BY <1>1, <2>1, <2>3
<1>5. \A i \in 1 .. Len(h) : h[i] = "GRANTED" <=> i = 2 /\ 2 <= Lived(r, h)
  BY <1>1, <1>2, <1>3, <1>4 DEF LivedEvent
<1>6. \A i \in 1 .. Len(h) : h[i] = "CONSUMED" <=> i \in 3 .. Lived(r, h)
  BY <1>1, <1>2, <1>3, <1>4 DEF LivedEvent
<1>7. 3 .. Lived(r, h) \subseteq 1 .. Len(h)
  BY <1>1, <1>2
<1>8. Lived(r, h) >= 2 => 2 \in 1 .. Len(h)
  BY <1>1, <1>2
<1> QED
  BY <1>2, <1>5, <1>6, <1>7, <1>8

\* The last deciding Event gives the row's status back.
LEMMA RebuiltStatus ==
  ASSUME ApprovalsFullType, NEW g \in GrantIds, grant[g] # NoApproval,
         GrantOK(grant[g], history[g], decisions[g], uses[g]),
         EventCount(g, "CONSUMED") = Cardinality(uses[g])
  PROVE  grant[g].status = Rebuilt(g)
<1> DEFINE r == grant[g]
           h == history[g]
           m == Lived(r, h)
           deciding == {i \in 1 .. Len(h) : h[i] # "ESCALATED"}
           Greatest(i) == i \in deciding /\ \A j \in deciding : j <= i
           top == IF r.status = "EXPIRED" THEN Len(h) - 1 ELSE Len(h)
<1>1. /\ r \in GrantRow /\ h \in Seq(GrantEvents) /\ StreamOK(r, h) /\ UsesOK(r, h, uses[g])
      /\ r.status # "ABSENT"
  BY DEF ApprovalsFullType, GrantOK
<1>2. /\ Len(h) \in Nat /\ r.status \in ApprovalStatus
      /\ r.status \in {"REJECTED", "CANCELLED", "REVOKED"} => EndLength(r.status) = 1
      /\ r.status = "EXPIRED" => EndLength(r.status) = 2
      /\ r.status \in CONSUMABLE \cup {"PENDING", "CONSUMED"} => EndLength(r.status) = 0
  BY <1>1 DEF EndLength, GrantRow, CONSUMABLE
<1>3. r.status \in {"REJECTED", "CANCELLED", "REVOKED"} \cup {"EXPIRED"}
                     \cup CONSUMABLE \cup {"PENDING", "CONSUMED"}
  BY <1>2 DEF ApprovalStatus, TerminalGrant, CONSUMABLE
<1>4. m \in Nat /\ m >= 1 /\ m <= Len(h) /\ m = Len(h) - EndLength(r.status)
  BY <1>1, <1>2, <1>3 DEF Lived, StreamOK
<1>5. \A i \in 1 .. m : h[i] = LivedEvent(i)
  BY <1>1 DEF StreamOK
<1>6. \A i \in m + 1 .. Len(h) : h[i] = IF i = m + 1 THEN r.status ELSE "ESCALATED"
  BY <1>1 DEF StreamOK
<1> HIDE DEF m
<1>7. Greatest(top)
  <2>1. CASE r.status = "EXPIRED"
    <3>1. m = Len(h) - 2 /\ top = m + 1 /\ Len(h) = m + 2
      BY <1>2, <1>4, <2>1
    <3>2. h[m + 1] = "EXPIRED" /\ h[m + 2] = "ESCALATED"
      BY <1>4, <1>6, <2>1, <3>1
    <3> QED
      BY <1>2, <1>4, <3>1, <3>2
  <2>2. CASE r.status \in {"REJECTED", "CANCELLED", "REVOKED"}
    <3>1. m = Len(h) - 1 /\ top = m + 1 /\ Len(h) = m + 1
      BY <1>2, <1>4, <2>2
    <3>2. h[m + 1] = r.status
      BY <1>4, <1>6, <2>2, <3>1
    <3> QED
      BY <1>2, <1>4, <2>2, <3>1, <3>2
  <2>3. CASE r.status \in CONSUMABLE \cup {"PENDING", "CONSUMED"}
    <3>1. m = Len(h) /\ top = m /\ h[top] # "ESCALATED"
      BY <1>2, <1>4, <1>5, <2>3 DEF LivedEvent, CONSUMABLE
    <3> QED
      BY <1>2, <1>4, <3>1
  <2> QED
    BY <1>3, <2>1, <2>2, <2>3
<1>8. \A i \in deciding : (\A j \in deciding : j <= i) => i = top
  BY <1>7
<1>9. (CHOOSE i \in deciding : \A j \in deciding : j <= i) = top
  BY <1>7, <1>8
<1>10. Rebuilt(g) = CASE h[top] = "REQUESTED" -> "PENDING"
                      [] h[top] = "CONSUMED" ->
                           StatusAfterUse(Cardinality(uses[g]), r.maxUses)
                      [] OTHER -> Ending[h[top]]
  BY <1>9 DEF Rebuilt
<1>11. CASE r.status \in {"REJECTED", "CANCELLED", "REVOKED", "EXPIRED"}
  <2>1. h[top] = r.status
    BY <1>2, <1>4, <1>6, <1>11
  <2> QED
    BY <1>10, <1>11, <2>1 DEF Ending
<1>12. CASE r.status = "PENDING"
  <2>1. h[top] = "REQUESTED"
    BY <1>1, <1>2, <1>4, <1>5, <1>12 DEF StreamOK, LivedEvent, m
  <2> QED
    BY <1>10, <1>12, <2>1
<1>13. CASE r.status = "APPROVED"
  <2>1. h[top] = "GRANTED"
    BY <1>1, <1>2, <1>4, <1>5, <1>13 DEF StreamOK, LivedEvent, m, CONSUMABLE
  <2> QED
    BY <1>10, <1>13, <2>1 DEF Ending
<1>14. CASE r.status \in {"PARTIALLY_CONSUMED", "CONSUMED"}
  <2>1. m >= 3 /\ top = m
    BY <1>1, <1>2, <1>4, <1>14 DEF StreamOK, m, CONSUMABLE
  <2>2. h[top] = "CONSUMED"
    BY <1>4, <1>5, <2>1 DEF LivedEvent
  <2>3. Rebuilt(g) = StatusAfterUse(Cardinality(uses[g]), r.maxUses)
    BY <1>10, <2>2
  <2>4. Cardinality(uses[g]) \in Nat /\ r.maxUses \in Nat
    BY <1>1, FS_CardinalityType DEF UsesOK, GrantRow
  <2> QED
    BY <1>1, <1>14, <2>3, <2>4 DEF UsesOK, StatusAfterUse
<1> QED
  BY <1>3, <1>11, <1>12, <1>13, <1>14 DEF CONSUMABLE

\* The invariant answers for every clause of ApprovalCounts.
LEMMA ApprovalsInvCounts ==
  ASSUME ApprovalsFullType, ApprovalsInv
  PROVE  ApprovalCounts
<1> SUFFICES ASSUME NEW g \in GrantIds, grant[g] # NoApproval
             PROVE  LET yes == {a \in Approvers : decisions[g][a] = "APPROVE"} IN
        /\ grant[g].status = "PENDING" => Cardinality(yes) < grant[g].quorum \/ yes = {}
        /\ EventCount(g, "GRANTED") > 0 => Cardinality(yes) >= grant[g].quorum /\ yes # {}
        /\ \A a \in PriorDeciders(g) : PrincipalOf[a] # PrincipalOf[Requester]
        /\ EventCount(g, "CONSUMED") = Cardinality(uses[g])
        /\ grant[g].maxUses # 0 => Cardinality(uses[g]) <= grant[g].maxUses
        /\ \A i \in 1..Len(history[g]) :
             /\ history[g][i] = "CONSUMED" => i > 2 /\ history[g][i-1] \in {"GRANTED", "CONSUMED"}
             /\ history[g][i] \in {"EXPIRED", "REVOKED", "CANCELLED", "REJECTED"} =>
                  \A j \in i + 1..Len(history[g]) : history[g][j] = "ESCALATED"
        /\ grant[g].status = Rebuilt(g)
        /\ \A h \in GrantIds : grant[h].key = grant[g].key => h = g
  BY DEF ApprovalCounts
<1> DEFINE r == grant[g]
           h == history[g]
           m == Lived(r, h)
           yes == {a \in Approvers : decisions[g][a] = "APPROVE"}
<1>1. /\ r \in GrantRow /\ h \in Seq(GrantEvents) /\ StreamOK(r, h) /\ UsesOK(r, h, uses[g])
      /\ DecisionsOK(r, h, decisions[g]) /\ GrantOK(r, h, decisions[g], uses[g])
  BY DEF ApprovalsFullType, ApprovalsInv, GrantsInv, GrantOK
<1>2. Len(h) \in Nat /\ m \in Nat /\ m >= 1 /\ m <= Len(h)
  <2>1. Len(h) \in Nat /\ EndLength(r.status) \in {0, 1, 2}
    BY <1>1 DEF EndLength
  <2> QED
    BY <1>1, <2>1 DEF Lived, StreamOK
<1>3. /\ {i \in 1 .. Len(h) : h[i] = "GRANTED"} = IF m >= 2 THEN {2} ELSE {}
      /\ {i \in 1 .. Len(h) : h[i] = "CONSUMED"} = 3 .. m
  BY <1>1, CountedEvents
<1>4. yes = Yes(decisions[g])
  BY DEF Yes
<1>5. EventCount(g, "GRANTED") > 0 => m >= 2
  <2>1. m < 2 => {i \in 1 .. Len(h) : h[i] = "GRANTED"} = {}
    BY <1>2, <1>3
  <2>2. m < 2 => EventCount(g, "GRANTED") = 0
    BY <2>1, FS_EmptySet DEF EventCount
  <2> QED
    BY <1>2, <2>2
<1>6. EventCount(g, "CONSUMED") = Cardinality(uses[g])
  <2>1. Cardinality(3 .. m) = IF m >= 2 THEN m - 2 ELSE 0
    <3> HIDE DEF m
    <3>1. m \in Int /\ 3 \in Int
      BY <1>2
    <3>2. Cardinality(3 .. m) = IF 3 > m THEN 0 ELSE m - 3 + 1
      BY ONLY <3>1, FS_Interval
    <3> QED
      BY <1>2, <3>2
  <2> QED
    BY <1>1, <1>3, <2>1 DEF EventCount, UsesOK
<1>7. grant[g].status = Rebuilt(g)
  BY <1>1, <1>6, RebuiltStatus
<1>8. ASSUME NEW i \in 1 .. Len(h), h[i] = "CONSUMED"
      PROVE  i > 2 /\ h[i-1] \in {"GRANTED", "CONSUMED"}
  <2>1. i \in 3 .. m /\ i - 1 \in 1 .. m /\ i - 1 >= 2
    BY <1>2, <1>3, <1>8
  <2>2. h[i - 1] = LivedEvent(i - 1)
    BY <1>1, <2>1 DEF StreamOK
  <2> QED
    BY <2>1, <2>2 DEF LivedEvent
<1>9. ASSUME NEW i \in 1 .. Len(h), h[i] \in {"EXPIRED", "REVOKED", "CANCELLED", "REJECTED"},
             NEW j \in i + 1 .. Len(h)
      PROVE  h[j] = "ESCALATED"
  <2>1. i \notin 1 .. m
    BY <1>1, <1>9 DEF StreamOK, LivedEvent
  <2>2. j \in m + 1 .. Len(h) /\ j # m + 1
    BY <1>2, <2>1
  <2> QED
    BY <1>1, <2>2 DEF StreamOK
<1>10. grant[g].maxUses # 0 => Cardinality(uses[g]) <= grant[g].maxUses
  BY <1>1 DEF UsesOK
<1>11. /\ grant[g].status = "PENDING" => Cardinality(yes) < grant[g].quorum \/ yes = {}
       /\ m >= 2 => Cardinality(yes) >= grant[g].quorum /\ yes # {}
       /\ \A a \in PriorDeciders(g) : PrincipalOf[a] # PrincipalOf[Requester]
  BY <1>1, <1>4, PriorDecided DEF DecisionsOK
<1>12. \A f \in GrantIds : grant[f].key = grant[g].key => f = g
  BY DEF ApprovalsInv, OneGrantPerKey
<1> HIDE DEF h, m, yes
<1>13. EventCount(g, "GRANTED") > 0 => Cardinality(yes) >= grant[g].quorum /\ yes # {}
  BY <1>5, <1>11
<1> QED
  BY <1>6, <1>7, <1>8, <1>9, <1>10, <1>11, <1>12, <1>13 DEF h, yes

\* Approvals are decided independently and counted exactly, whatever
\* transactions interleave.
THEOREM ApprovalsCounts == ApprovalsSpec => []ApprovalCounts
BY ApprovalsInvCounts, ApprovalsStart, ApprovalsStepKeeps, PTL DEF ApprovalsSpec

-----------------------------------------------------------------------------
(***************************************************************************)
(* Secrets.                                                                *)
(***************************************************************************)
LeaseRow == [state : {"ABSENT", "live", "revoked"}, grant : SecretGrants \cup {"none"},
             task : SecretTasks \cup {NoTask}, single : BOOLEAN, uses : Nat]
Resolving == {"resolve-side", "resolve-inject"}
BrokerTxn == [op : {"idle", "issue", "revoke", "store"} \cup Resolving,
              lease : Leases \cup {"none"}, grant : SecretGrants \cup {"none"},
              task : SecretTasks \cup {NoTask}, id : Leases \cup {"none", "lease"},
              leases : SUBSET Leases, grants : SUBSET SecretGrants, seq : Nat,
              dark : BOOLEAN]

SecretsFullType ==
  /\ sgrant \in [SecretGrants -> [state : {"ABSENT", "live", "revoked"},
                                  task : SecretTasks \cup {NoTask}, single : BOOLEAN]]
  /\ lease \in [Leases -> LeaseRow]
  /\ rowLock \subseteq Leases
  /\ broker \in [Broker -> BrokerTxn]
  /\ given \in [Leases -> Nat]
  /\ feedSeq \in Nat

\* The lease rows a transaction has locked.
HeldRows(t) == IF t.op \in Resolving THEN {t.lease}
               ELSE IF t.op = "revoke" THEN t.leases ELSE {}

\* The fields that each kind of transaction has filled in.
TxnShape(t) ==
  /\ t.op \in Resolving \cup {"store"} => t.lease \in Leases
  /\ t.op \in Resolving \cup {"issue"} => t.leases = {}
  /\ t.op \in {"issue", "revoke"} => t.lease = "none"
  /\ t.op = "issue" => t.grant \in SecretGrants
  /\ ~t.dark

\* A resolve under way works on an issued lease, and on a fresh one if the
\* lease is single-use.
StillFresh(t) ==
  t.op \in Resolving => /\ lease[t.lease].state # "ABSENT"
                        /\ lease[t.lease].single => lease[t.lease].uses = 0

\* Row locks exclude each other, so the count read is still the count.
SecretsInv ==
  /\ \A c \in Broker : /\ TxnShape(broker[c]) /\ StillFresh(broker[c])
                       /\ HeldRows(broker[c]) \subseteq rowLock
  /\ \A c, d \in Broker : c # d => HeldRows(broker[c]) \cap HeldRows(broker[d]) = {}
  /\ \A l \in Leases : /\ lease[l].single => lease[l].uses <= 1
                       /\ given[l] = lease[l].uses

\* A transaction lets its rows go (commit, rollback) or has none; only the
\* rows it held, and rows that did not exist, may have changed.
LEMMA LetGoKeeps ==
  ASSUME SecretsFullType, SecretsInv, NEW c \in Broker, NEW t \in BrokerTxn,
         broker' = [broker EXCEPT ![c] = t], TxnShape(t), HeldRows(t) = {},
         rowLock \ HeldRows(broker[c]) \subseteq rowLock', rowLock' \subseteq Leases,
         lease' \in [Leases -> LeaseRow], given' \in [Leases -> Nat],
         \A l \in Leases : /\ given'[l] = lease'[l].uses
                           /\ lease'[l].single => lease'[l].uses <= 1,
         \A l \in Leases \ HeldRows(broker[c]) : lease[l].state # "ABSENT" =>
           /\ lease'[l].state # "ABSENT"
           /\ lease'[l].single = lease[l].single /\ lease'[l].uses = lease[l].uses,
         sgrant' \in [SecretGrants -> [state : {"ABSENT", "live", "revoked"},
                                  task : SecretTasks \cup {NoTask}, single : BOOLEAN]],
         UNCHANGED feedSeq
  PROVE  SecretsFullType' /\ SecretsInv'
<1>1. SecretsFullType'
  BY DEF SecretsFullType
<1>2. broker'[c] = t /\ \A d \in Broker \ {c} : broker'[d] = broker[d]
  BY DEF SecretsFullType
<1>3. StillFresh(t)'
  BY DEF StillFresh, HeldRows
<1>4. ASSUME NEW d \in Broker \ {c}
      PROVE  StillFresh(broker[d])' /\ HeldRows(broker[d]) \subseteq rowLock'
  <2>1. /\ HeldRows(broker[d]) \cap HeldRows(broker[c]) = {}
        /\ HeldRows(broker[d]) \subseteq rowLock
        /\ StillFresh(broker[d]) /\ TxnShape(broker[d])
    BY DEF SecretsInv
  <2>2. HeldRows(broker[d]) \subseteq rowLock'
    BY <2>1
  <2>3. ASSUME broker[d].op \in Resolving
        PROVE  /\ lease'[broker[d].lease].state # "ABSENT"
               /\ lease'[broker[d].lease].single => lease'[broker[d].lease].uses = 0
    <3>1. broker[d].lease \in Leases \ HeldRows(broker[c])
      BY <2>1, <2>3 DEF HeldRows, TxnShape
    <3>2. /\ lease[broker[d].lease].state # "ABSENT"
          /\ lease[broker[d].lease].single => lease[broker[d].lease].uses = 0
      BY <2>1, <2>3 DEF StillFresh
    <3> QED
      BY <3>1, <3>2
  <2>4. broker'[d] = broker[d]
    BY <1>2
  <2> QED
    BY <2>2, <2>3, <2>4 DEF StillFresh
<1>5. \A d \in Broker : /\ TxnShape(broker'[d]) /\ StillFresh(broker[d])'
                        /\ HeldRows(broker'[d]) \subseteq rowLock'
  BY <1>2, <1>3, <1>4 DEF SecretsInv, StillFresh
<1>6. \A b, d \in Broker : b # d => HeldRows(broker'[b]) \cap HeldRows(broker'[d]) = {}
  BY <1>2 DEF SecretsInv
<1> QED
  BY <1>1, <1>5, <1>6 DEF SecretsInv

\* A transaction takes rows that nobody holds.
LEMMA TakeUpKeeps ==
  ASSUME SecretsFullType, SecretsInv, NEW c \in Broker, NEW t \in BrokerTxn,
         broker' = [broker EXCEPT ![c] = t], TxnShape(t), StillFresh(t),
         HeldRows(t) \subseteq Leases, HeldRows(t) \cap rowLock = {},
         rowLock' = rowLock \cup HeldRows(t), feedSeq' \in Nat,
         UNCHANGED <<sgrant, lease, given>>
  PROVE  SecretsFullType' /\ SecretsInv'
<1>1. SecretsFullType'
  BY DEF SecretsFullType
<1>2. broker'[c] = t /\ \A d \in Broker \ {c} : broker'[d] = broker[d]
  BY DEF SecretsFullType
<1>3. \A d \in Broker : /\ TxnShape(broker'[d]) /\ StillFresh(broker[d])'
                        /\ HeldRows(broker'[d]) \subseteq rowLock'
  BY <1>2 DEF SecretsInv, StillFresh
<1>4. \A b, d \in Broker : b # d => HeldRows(broker'[b]) \cap HeldRows(broker'[d]) = {}
  BY <1>2 DEF SecretsInv
<1> QED
  BY <1>1, <1>3, <1>4 DEF SecretsInv

\* Every step of the broker, the sidecar and the server keeps the invariant.
LEMMA SecretsStepKeeps ==
  ASSUME SecretsFullType, SecretsInv, [SecretsNext]_secretsVars
  PROVE  SecretsFullType' /\ SecretsInv'
<1>0. /\ sgrant \in [SecretGrants -> [state : {"ABSENT", "live", "revoked"},
                                      task : SecretTasks \cup {NoTask}, single : BOOLEAN]]
      /\ lease \in [Leases -> LeaseRow] /\ rowLock \subseteq Leases
      /\ broker \in [Broker -> BrokerTxn] /\ given \in [Leases -> Nat] /\ feedSeq \in Nat
  BY DEF SecretsFullType
<1>1. /\ NoBrokerTxn \in BrokerTxn /\ TxnShape(NoBrokerTxn) /\ HeldRows(NoBrokerTxn) = {}
  BY DEF NoBrokerTxn, BrokerTxn, TxnShape, HeldRows, Resolving
<1>2. \A l \in Leases : /\ lease[l].single => lease[l].uses <= 1
                        /\ given[l] = lease[l].uses
  BY DEF SecretsInv
<1>3. ASSUME UNCHANGED <<lease, rowLock, broker, given, feedSeq>>,
             sgrant' \in [SecretGrants -> [state : {"ABSENT", "live", "revoked"},
                                           task : SecretTasks \cup {NoTask}, single : BOOLEAN]]
      PROVE  SecretsFullType' /\ SecretsInv'
  BY <1>3 DEF SecretsFullType, SecretsInv, StillFresh
<1>4. CASE CreateSecretGrant
  BY <1>0, <1>3, <1>4 DEF CreateSecretGrant, CreateGrant
<1>5. CASE StartSession \/ Watch \/ EndSession \/ RestartServer \/ SecretTick
           \/ UNCHANGED secretsVars
  <2>1. UNCHANGED <<sgrant, lease, rowLock, broker, given, feedSeq>>
    BY <1>5 DEF StartSession, Watch, EndSession, RestartServer, SecretTick, secretsVars
  <2> QED
    BY <1>0, <1>3, <2>1
<1>6. ASSUME NEW c \in Broker, IssueSecretLease(c)
      PROVE  SecretsFullType' /\ SecretsInv'
  <2>1. PICK g \in SecretGrants, t \in SecretTasks \cup {NoTask} : ReadGrant(c, g, t)
    BY <1>6 DEF IssueSecretLease
  <2> DEFINE x == [NoBrokerTxn EXCEPT !.op = "issue", !.grant = g, !.task = t]
  <2>2. /\ broker' = [broker EXCEPT ![c] = x] /\ broker[c].op = "idle"
        /\ UNCHANGED <<sgrant, lease, rowLock, given, feedSeq>>
    BY <2>1 DEF ReadGrant, BeginBroker
  <2>3. x \in BrokerTxn /\ TxnShape(x) /\ HeldRows(x) = {}
    BY DEF NoBrokerTxn, BrokerTxn, TxnShape, HeldRows, Resolving
  <2> HIDE DEF x
  <2> QED
    BY <1>0, <1>2, <2>2, <2>3, LetGoKeeps
<1>7. ASSUME NEW c \in Broker, NEW l \in Leases, IssueLease(c, l)
      PROVE  SecretsFullType' /\ SecretsInv'
  <2> DEFINE r == [state |-> "live", grant |-> broker[c].grant, task |-> broker[c].task,
                   single |-> sgrant[broker[c].grant].single, uses |-> 0]
  <2>1. /\ broker[c].op = "issue" /\ lease[l] = NoLease
        /\ lease' = [lease EXCEPT ![l] = r] /\ broker' = [broker EXCEPT ![c] = NoBrokerTxn]
        /\ UNCHANGED <<sgrant, rowLock, given, feedSeq>>
    BY <1>7 DEF IssueLease, EndBroker
  <2>2. broker[c].grant \in SecretGrants /\ broker[c].task \in SecretTasks \cup {NoTask}
    BY <1>0, <2>1 DEF SecretsInv, TxnShape, BrokerTxn
  <2>3. r \in LeaseRow /\ r.uses = 0
    BY <1>0, <2>2 DEF LeaseRow
  <2>4. lease[l].state = "ABSENT" /\ given[l] = 0
    BY <1>2, <2>1 DEF NoLease
  <2> HIDE DEF r
  <2>5. lease'[l] = r /\ \A k \in Leases \ {l} : lease'[k] = lease[k]
    BY <1>0, <2>1
  <2>6. lease' \in [Leases -> LeaseRow]
    BY <1>0, <2>1, <2>3
  <2>7. \A k \in Leases : /\ given'[k] = lease'[k].uses
                          /\ lease'[k].single => lease'[k].uses <= 1
    BY <1>2, <2>1, <2>3, <2>4, <2>5
  <2>8. \A k \in Leases : lease[k].state # "ABSENT" => lease'[k] = lease[k]
    BY <2>4, <2>5
  <2> QED
    BY <1>0, <1>1, <2>1, <2>6, <2>7, <2>8, LetGoKeeps
<1>8. ASSUME NEW c \in Broker, NEW l \in Leases, NEW via \in Resolving, ResolveLease(c, l, via)
      PROVE  SecretsFullType' /\ SecretsInv'
  <2>1. PICK i \in Leases \cup {"none", "lease"} :
          broker' = [broker EXCEPT ![c] = [NoBrokerTxn EXCEPT !.op = via, !.lease = l,
                                                   !.id = i, !.dark = Dark(l)]]
    BY <1>8 DEF ResolveLease, BeginBroker
  <2>2. /\ lease[l].state = "live" /\ sgrant[lease[l].grant].state = "live"
        /\ l \notin rowLock /\ (lease[l].single => lease[l].uses = 0)
        /\ rowLock' = rowLock \cup {l} /\ UNCHANGED <<sgrant, lease, given, feedSeq>>
    BY <1>8 DEF ResolveLease, RowFree
  <2>3. Dark(l) = FALSE
    BY <2>2 DEF Dark
  <2> DEFINE x == [NoBrokerTxn EXCEPT !.op = via, !.lease = l, !.id = i, !.dark = FALSE]
  <2>4. x \in BrokerTxn
    BY DEF NoBrokerTxn, BrokerTxn, Resolving
  <2>5. x.op = via /\ x.lease = l /\ x.leases = {} /\ x.dark = FALSE
    BY DEF NoBrokerTxn
  <2>6. broker' = [broker EXCEPT ![c] = x]
    BY <2>1, <2>3
  <2> HIDE DEF x
  <2>7. TxnShape(x) /\ HeldRows(x) = {l} /\ StillFresh(x)
    BY <2>2, <2>5 DEF TxnShape, HeldRows, Resolving, StillFresh
  <2>8. /\ HeldRows(x) \subseteq Leases /\ HeldRows(x) \cap rowLock = {}
        /\ rowLock' = rowLock \cup HeldRows(x) /\ feedSeq' \in Nat
    BY <1>0, <2>2, <2>7
  <2> QED
    BY <2>2, <2>4, <2>6, <2>7, <2>8, TakeUpKeeps
<1>9. ASSUME NEW c \in Broker, HandOut(c)
      PROVE  SecretsFullType' /\ SecretsInv'
  <2> DEFINE l == broker[c].lease
  <2>1. /\ broker[c].op \in Resolving
        /\ lease' = [lease EXCEPT ![l].uses = @ + 1]
        /\ given' = [given EXCEPT ![l] = @ + 1] /\ rowLock' = rowLock \ {l}
        /\ UNCHANGED <<sgrant, feedSeq>>
        /\ broker' = [broker EXCEPT ![c] = NoBrokerTxn]
           \/ broker' = [broker EXCEPT ![c].op = "store"]
    BY <1>9 DEF HandOut, Resolving, EndBroker
  <2>2. l \in Leases /\ HeldRows(broker[c]) = {l} /\ ~broker[c].dark
        /\ (lease[l].single => lease[l].uses = 0)
    BY <2>1 DEF SecretsInv, TxnShape, HeldRows, StillFresh
  <2>3. PICK t \in BrokerTxn : /\ broker' = [broker EXCEPT ![c] = t]
                               /\ TxnShape(t) /\ HeldRows(t) = {}
    <3>1. CASE broker' = [broker EXCEPT ![c] = NoBrokerTxn]
      BY <1>1, <3>1
    <3>2. CASE broker' = [broker EXCEPT ![c].op = "store"]
      <4> DEFINE t == [broker[c] EXCEPT !.op = "store"]
      <4>1. broker' = [broker EXCEPT ![c] = t] /\ broker[c] \in BrokerTxn
        BY <1>0, <3>2
      <4>2. t \in BrokerTxn
        BY <4>1 DEF BrokerTxn
      <4>3. t.op = "store" /\ t.lease = l /\ t.dark = broker[c].dark
        BY <4>1 DEF BrokerTxn
      <4> HIDE DEF t
      <4>4. TxnShape(t) /\ HeldRows(t) = {}
        BY <2>2, <4>3 DEF TxnShape, HeldRows, Resolving
      <4> QED
        BY <4>1, <4>2, <4>4
    <3> QED
      BY <2>1, <3>1, <3>2
  <2> DEFINE r == [lease[l] EXCEPT !.uses = @ + 1]
  <2>4. lease[l] \in LeaseRow /\ given[l] \in Nat
    BY <1>0, <2>2
  <2>5. r \in LeaseRow
    BY <2>4 DEF LeaseRow
  <2>6. r.uses = lease[l].uses + 1 /\ r.single = lease[l].single /\ lease[l].uses \in Nat
    BY <2>4 DEF LeaseRow
  <2>7. lease' = [lease EXCEPT ![l] = r]
    BY <1>0, <2>1, <2>2
  <2> HIDE DEF r
  <2>8. lease'[l] = r /\ (\A k \in Leases \ {l} : lease'[k] = lease[k])
        /\ lease' \in [Leases -> LeaseRow]
    BY <1>0, <2>2, <2>5, <2>7
  <2>9. given'[l] = given[l] + 1 /\ (\A k \in Leases \ {l} : given'[k] = given[k])
        /\ given' \in [Leases -> Nat]
    BY <1>0, <2>1, <2>2, <2>4
  <2>10. \A k \in Leases : /\ given'[k] = lease'[k].uses
                           /\ lease'[k].single => lease'[k].uses <= 1
    BY <1>2, <2>2, <2>6, <2>8, <2>9
  <2> QED
    BY <1>0, <2>1, <2>2, <2>3, <2>8, <2>9, <2>10, LetGoKeeps
<1>10. ASSUME NEW c \in Broker, StoreValue(c)
       PROVE  SecretsFullType' /\ SecretsInv'
  <2>1. /\ broker' = [broker EXCEPT ![c] = NoBrokerTxn]
        /\ UNCHANGED <<sgrant, lease, rowLock, given, feedSeq>>
    BY <1>10 DEF StoreValue, EndBroker
  <2> QED
    BY <1>0, <1>1, <1>2, <2>1, LetGoKeeps
<1>11. ASSUME NEW c \in Broker, NEW kind, NEW y, RevokeRows(c, kind, y)
       PROVE  SecretsFullType' /\ SecretsInv'
  <2> DEFINE ls == LeasesOf(kind, y)
             gs == GrantsOf(kind, y)
             x == [NoBrokerTxn EXCEPT !.op = "revoke", !.leases = ls, !.grants = gs,
                                      !.seq = feedSeq + 1]
  <2>1. /\ broker' = [broker EXCEPT ![c] = x] /\ ls \cap rowLock = {}
        /\ rowLock' = rowLock \cup ls /\ feedSeq' = feedSeq + 1
        /\ UNCHANGED <<sgrant, lease, given>>
    BY <1>11 DEF RevokeRows, BeginBroker
  <2>2. ls \subseteq Leases /\ gs \subseteq SecretGrants /\ feedSeq + 1 \in Nat
    BY <1>0 DEF LeasesOf, GrantsOf
  <2> HIDE DEF ls, gs
  <2>3. x \in BrokerTxn
    BY <1>0, <2>2 DEF NoBrokerTxn, BrokerTxn
  <2>4. x.op = "revoke" /\ x.lease = "none" /\ x.leases = ls /\ x.dark = FALSE
    BY DEF NoBrokerTxn
  <2> HIDE DEF x
  <2>5. TxnShape(x) /\ HeldRows(x) = ls /\ StillFresh(x)
    BY <2>4 DEF TxnShape, HeldRows, Resolving, StillFresh
  <2>6. /\ HeldRows(x) \subseteq Leases /\ HeldRows(x) \cap rowLock = {}
        /\ rowLock' = rowLock \cup HeldRows(x) /\ feedSeq' \in Nat
    BY <1>0, <2>1, <2>2, <2>5
  <2> QED
    BY <2>1, <2>3, <2>5, <2>6, TakeUpKeeps
<1>12. ASSUME NEW c \in Broker, CommitRevoke(c)
       PROVE  SecretsFullType' /\ SecretsInv'
  <2> DEFINE ls == broker[c].leases
             Gone(l) == [lease[l] EXCEPT !.state = "revoked"]
  <2>1. /\ broker[c].op = "revoke" /\ broker' = [broker EXCEPT ![c] = NoBrokerTxn]
        /\ lease' = [l \in Leases |-> IF l \in ls THEN Gone(l) ELSE lease[l]]
        /\ sgrant' = [g \in SecretGrants |-> IF g \in broker[c].grants
                        THEN [sgrant[g] EXCEPT !.state = "revoked"] ELSE sgrant[g]]
        /\ rowLock' = rowLock \ ls /\ UNCHANGED <<given, feedSeq>>
    BY <1>12 DEF CommitRevoke, EndBroker
  <2>2. HeldRows(broker[c]) = ls
    BY <2>1 DEF HeldRows, Resolving
  <2>3. \A l \in Leases : /\ Gone(l) \in LeaseRow /\ Gone(l).uses = lease[l].uses
                          /\ Gone(l).single = lease[l].single /\ Gone(l).state = "revoked"
    BY <1>0 DEF LeaseRow
  <2>4. sgrant' \in [SecretGrants -> [state : {"ABSENT", "live", "revoked"},
                                  task : SecretTasks \cup {NoTask}, single : BOOLEAN]]
    BY <1>0, <2>1
  <2> HIDE DEF Gone
  <2>5. /\ lease' \in [Leases -> LeaseRow]
        /\ \A l \in Leases : /\ lease'[l].uses = lease[l].uses
                             /\ lease'[l].single = lease[l].single
        /\ \A l \in Leases \ ls : lease'[l] = lease[l]
    BY <1>0, <2>1, <2>3
  <2> QED
    BY <1>0, <1>1, <1>2, <2>1, <2>2, <2>4, <2>5, LetGoKeeps
<1>13. ASSUME NEW c \in Broker, AbortBroker(c)
       PROVE  SecretsFullType' /\ SecretsInv'
  <2>1. /\ broker[c].op \in {"issue", "revoke"} \cup Resolving
        /\ rowLock' = rowLock \ (broker[c].leases \cup {broker[c].lease})
        /\ broker' = [broker EXCEPT ![c] = NoBrokerTxn]
        /\ UNCHANGED <<sgrant, lease, given, feedSeq>>
    BY <1>13 DEF AbortBroker, EndBroker, Resolving
  <2>2. rowLock' = rowLock \ HeldRows(broker[c])
    BY <1>0, <2>1, SecretsAssumption DEF SecretsInv, TxnShape, HeldRows, Resolving
  <2> QED
    BY <1>0, <1>1, <1>2, <2>1, <2>2, LetGoKeeps
<1> QED
  BY <1>4, <1>5, <1>6, <1>7, <1>8, <1>9, <1>10, <1>11, <1>12, <1>13
     DEF SecretsNext, ResolveSecret, ResolveInProcess, RevokeSecretGrant, RevokeForTask,
         RotateSecret, Resolving

\* The broker starts with no lease, no transaction and an empty feed.
LEMMA SecretsStart == SecretsInit => SecretsFullType /\ SecretsInv
<1> SUFFICES ASSUME SecretsInit PROVE SecretsFullType /\ SecretsInv
  OBVIOUS
<1>1. SecretsFullType
  BY DEF SecretsInit, SecretsFullType, NoGrant, NoLease, LeaseRow, NoBrokerTxn, BrokerTxn
<1>2. \A c \in Broker : broker[c] = NoBrokerTxn
  BY DEF SecretsInit
<1>3. TxnShape(NoBrokerTxn) /\ StillFresh(NoBrokerTxn) /\ HeldRows(NoBrokerTxn) = {}
  BY DEF NoBrokerTxn, TxnShape, StillFresh, HeldRows, Resolving
<1>4. \A l \in Leases : lease[l].uses = 0 /\ given[l] = 0
  BY DEF SecretsInit, NoLease
<1> QED
  BY <1>1, <1>2, <1>3, <1>4 DEF SecretsInv
\* A single-use handle yields its value once, every value is counted, and no
\* value is handed out behind a committed revocation.
THEOREM SecretsYieldOnce == SecretsSpec => []HandleYieldsOnce
<1>1. SecretsInv => HandleYieldsOnce
  BY DEF SecretsInv, HandleYieldsOnce, TxnShape
<1> QED
  BY <1>1, SecretsStart, SecretsStepKeeps, PTL DEF SecretsSpec

\* The numbers drawn for the revocations: each row of the feed and each
\* revocation under way has one of its own, up to the last one drawn.
FeedRow == [seq : Nat, leases : SUBSET Leases]
Revoking(c) == broker[c].op = "revoke"
FeedInv ==
  /\ feed \in Seq(FeedRow) /\ feedSeq \in 0 .. MaxRevokes
  /\ \A i \in 1 .. Len(feed) : feed[i].seq \in 1 .. feedSeq
  /\ \A i, j \in 1 .. Len(feed) : feed[i].seq = feed[j].seq => i = j
  /\ \A c \in Broker : Revoking(c) =>
       /\ broker[c].seq \in 1 .. feedSeq
       /\ \A i \in 1 .. Len(feed) : feed[i].seq # broker[c].seq
       /\ \A d \in Broker : Revoking(d) /\ broker[d].seq = broker[c].seq => c = d

\* The registry, the held values and the sidecar name leases.
HoldersInv ==
  /\ live \subseteq Leases /\ held \subseteq Leases /\ acked \subseteq Leases
  /\ side \in [phase : {"off", "asked", "answered", "watching", "ended"},
               lease : Leases \cup {"none"}, key : Leases \cup {"none", "lease"}, seq : Nat]
  /\ side.phase \in {"answered", "watching"} => side.lease \in Leases

\* Distinct numbers up to feedSeq are at most feedSeq.
LEMMA FeedCounted == ASSUME FeedInv PROVE Len(feed) <= feedSeq
<1>1. feedSeq \in Nat /\ Len(feed) \in Nat
  BY SecretsAssumption DEF FeedInv
<1> DEFINE f == [i \in 1 .. Len(feed) |-> feed[i].seq]
<1>2. f \in Injection(1 .. Len(feed), 1 .. feedSeq)
  BY DEF FeedInv, Injection, IsInjective
<1>3. /\ IsFiniteSet(1 .. feedSeq) /\ Cardinality(1 .. feedSeq) = feedSeq
      /\ IsFiniteSet(1 .. Len(feed)) /\ Cardinality(1 .. Len(feed)) = Len(feed)
  <2>1. ASSUME NEW n \in Nat PROVE IsFiniteSet(1 .. n) /\ Cardinality(1 .. n) = n
    <3>1. IsFiniteSet(1 .. n) /\ Cardinality(1 .. n) = IF 1 > n THEN 0 ELSE n - 1 + 1
      BY FS_Interval, SMT
    <3>2. (IF 1 > n THEN 0 ELSE n - 1 + 1) = n
      OBVIOUS
    <3> QED
      BY <3>1, <3>2
  <2> QED
    BY <1>1, <2>1
<1> HIDE DEF f
<1>4. Cardinality(1 .. Len(feed)) <= Cardinality(1 .. feedSeq)
  BY <1>2, <1>3, FS_Injection
<1> QED
  BY <1>3, <1>4

\* No revocation begins or commits.
LEMMA FeedStays ==
  ASSUME FeedInv, UNCHANGED <<feed, feedSeq>>,
         \A d \in Broker : broker'[d] = broker[d] \/ broker'[d].op # "revoke"
  PROVE  FeedInv'
BY DEF FeedInv, Revoking

\* One transaction moves on to something that is no revocation.
LEMMA FeedStaysAt ==
  ASSUME SecretsFullType, FeedInv, UNCHANGED <<feed, feedSeq>>, NEW c \in Broker, NEW t,
         broker' = [broker EXCEPT ![c] = t], t.op # "revoke"
  PROVE  FeedInv'
<1>1. \A d \in Broker : broker'[d] = broker[d] \/ broker'[d].op # "revoke"
  BY DEF SecretsFullType
<1> QED
  BY <1>1, FeedStays

\* Every step keeps the numbers of the revocations apart.
LEMMA FeedStepKeeps ==
  ASSUME SecretsFullType, SecretsInv, FeedInv, [SecretsNext]_secretsVars
  PROVE  FeedInv'
<1>0. broker \in [Broker -> BrokerTxn]
  BY DEF SecretsFullType
<1>1. NoBrokerTxn.op = "idle"
  BY DEF NoBrokerTxn
<1>2. CASE CreateSecretGrant \/ StartSession \/ Watch \/ EndSession \/ RestartServer \/ SecretTick
           \/ UNCHANGED secretsVars
  <2>1. UNCHANGED <<broker, feed, feedSeq>>
    BY <1>2 DEF CreateSecretGrant, CreateGrant, StartSession, Watch, EndSession, RestartServer,
                SecretTick, secretsVars
  <2> QED
    BY <2>1, FeedStays
<1>3. ASSUME NEW c \in Broker, IssueSecretLease(c)
      PROVE  FeedInv'
  <2>1. PICK g \in SecretGrants, t \in SecretTasks \cup {NoTask} : ReadGrant(c, g, t)
    BY <1>3 DEF IssueSecretLease
  <2> DEFINE x == [NoBrokerTxn EXCEPT !.op = "issue", !.grant = g, !.task = t]
  <2>2. broker' = [broker EXCEPT ![c] = x] /\ UNCHANGED <<feed, feedSeq>>
    BY <2>1 DEF ReadGrant, BeginBroker
  <2>3. x.op = "issue"
    BY DEF NoBrokerTxn
  <2> HIDE DEF x
  <2> QED
    BY <2>2, <2>3, FeedStaysAt
<1>4. ASSUME NEW c \in Broker, NEW l \in Leases, NEW via \in Resolving, ResolveLease(c, l, via)
      PROVE  FeedInv'
  <2>1. PICK i : broker' = [broker EXCEPT ![c] = [NoBrokerTxn EXCEPT !.op = via, !.lease = l,
                                                   !.id = i, !.dark = Dark(l)]]
    BY <1>4 DEF ResolveLease, BeginBroker
  <2> DEFINE x == [NoBrokerTxn EXCEPT !.op = via, !.lease = l, !.id = i, !.dark = Dark(l)]
  <2>2. x.op = via /\ via # "revoke" /\ UNCHANGED <<feed, feedSeq>>
    BY <1>4 DEF NoBrokerTxn, ResolveLease, Resolving
  <2>3. broker' = [broker EXCEPT ![c] = x]
    BY <2>1
  <2> HIDE DEF x
  <2> QED
    BY <2>2, <2>3, FeedStaysAt
<1>5. ASSUME NEW c \in Broker, \/ HandOut(c) \/ StoreValue(c) \/ AbortBroker(c)
                               \/ \E l \in Leases : IssueLease(c, l)
      PROVE  FeedInv'
  <2>1. /\ UNCHANGED <<feed, feedSeq>>
        /\ broker' = [broker EXCEPT ![c] = NoBrokerTxn]
           \/ broker' = [broker EXCEPT ![c] = [broker[c] EXCEPT !.op = "store"]]
    BY <1>0, <1>5 DEF HandOut, StoreValue, AbortBroker, IssueLease, EndBroker
  <2>2. [broker[c] EXCEPT !.op = "store"].op = "store"
    BY <1>0 DEF BrokerTxn
  <2> DEFINE y == [broker[c] EXCEPT !.op = "store"]
  <2> HIDE DEF y
  <2>3. CASE broker' = [broker EXCEPT ![c] = NoBrokerTxn]
    BY <1>1, <2>1, <2>3, FeedStaysAt
  <2>4. CASE broker' = [broker EXCEPT ![c] = y]
    BY <2>1, <2>2, <2>4, FeedStaysAt DEF y
  <2> QED
    BY <2>1, <2>3, <2>4 DEF y
<1>6. ASSUME NEW c \in Broker, NEW kind, NEW k, RevokeRows(c, kind, k)
      PROVE  FeedInv'
  <2> DEFINE x == [NoBrokerTxn EXCEPT !.op = "revoke", !.leases = LeasesOf(kind, k),
                                      !.grants = GrantsOf(kind, k), !.seq = feedSeq + 1]
  <2>1. /\ broker' = [broker EXCEPT ![c] = x] /\ UNCHANGED feed
        /\ feedSeq' = feedSeq + 1 /\ feedSeq < MaxRevokes
    BY <1>6 DEF RevokeRows, BeginBroker
  <2>2. x.op = "revoke" /\ x.seq = feedSeq + 1
    BY DEF NoBrokerTxn
  <2> HIDE DEF x
  <2>3. broker'[c] = x /\ \A d \in Broker \ {c} : broker'[d] = broker[d]
    BY <1>0, <2>1
  <2>4. /\ feedSeq \in Nat /\ MaxRevokes \in Nat /\ feed' = feed
        /\ feed \in Seq(FeedRow)
    BY <2>1, SecretsAssumption DEF FeedInv
  <2>5. feedSeq' \in 0 .. MaxRevokes
    BY <2>1, <2>4
  <2>6. \A i \in 1 .. Len(feed) : feed[i].seq \in 1 .. feedSeq' /\ feed[i].seq # feedSeq + 1
    BY <2>1, <2>4 DEF FeedInv
  <2>7. ASSUME NEW d \in Broker \ {c}, Revoking(d)
        PROVE  /\ broker[d].seq \in 1 .. feedSeq' /\ broker[d].seq # feedSeq + 1
               /\ \A i \in 1 .. Len(feed) : feed[i].seq # broker[d].seq
    BY <2>1, <2>4, <2>7 DEF FeedInv
  <2>8. ASSUME NEW b \in Broker, broker'[b].op = "revoke"
        PROVE  /\ broker'[b].seq \in 1 .. feedSeq'
               /\ \A i \in 1 .. Len(feed) : feed[i].seq # broker'[b].seq
               /\ \A d \in Broker : broker'[d].op = "revoke" /\ broker'[d].seq = broker'[b].seq
                                      => b = d
    <3>1. CASE b = c
      <4>1. broker'[b].seq = feedSeq + 1
        BY <2>2, <2>3, <3>1
      <4>2. \A d \in Broker : broker'[d].op = "revoke" /\ broker'[d].seq = feedSeq + 1 => d = c
        BY <2>3, <2>7 DEF Revoking
      <4> QED
        BY <2>1, <2>4, <2>6, <3>1, <4>1, <4>2
    <3>2. CASE b # c
      <4>1. broker'[b] = broker[b] /\ Revoking(b)
        BY <2>3, <2>8, <3>2 DEF Revoking
      <4>2. \A d \in Broker \ {c} : Revoking(d) /\ broker[d].seq = broker[b].seq => b = d
        BY <4>1 DEF FeedInv
      <4>3. \A d \in Broker : broker'[d].op = "revoke" /\ broker'[d].seq = broker[b].seq => b = d
        BY <2>2, <2>3, <2>7, <3>2, <4>1, <4>2 DEF Revoking
      <4> QED
        BY <2>7, <3>2, <4>1, <4>3
    <3> QED
      BY <3>1, <3>2
  <2>9. \A i, j \in 1 .. Len(feed) : feed[i].seq = feed[j].seq => i = j
    BY DEF FeedInv
  <2> QED
    BY <2>4, <2>5, <2>6, <2>8, <2>9 DEF FeedInv, Revoking
<1>7. ASSUME NEW c \in Broker, CommitRevoke(c)
      PROVE  FeedInv'
  <2> DEFINE r == [seq |-> broker[c].seq, leases |-> broker[c].leases]
  <2>1. /\ Revoking(c) /\ broker' = [broker EXCEPT ![c] = NoBrokerTxn]
        /\ feed' = Append(feed, r) /\ UNCHANGED feedSeq
    BY <1>7 DEF CommitRevoke, EndBroker, Revoking
  <2>2. r \in FeedRow /\ r.seq = broker[c].seq
    BY <1>0 DEF BrokerTxn, FeedRow
  <2> HIDE DEF r
  <2>3. /\ r.seq \in 1 .. feedSeq /\ \A i \in 1 .. Len(feed) : feed[i].seq # r.seq
        /\ \A d \in Broker : Revoking(d) /\ broker[d].seq = r.seq => c = d
    BY <2>1, <2>2 DEF FeedInv
  <2>4. feed \in Seq(FeedRow)
    BY DEF FeedInv
  <2>5. /\ feed' \in Seq(FeedRow) /\ Len(feed') = Len(feed) + 1 /\ Len(feed) \in Nat
        /\ \A i \in 1 .. Len(feed) : feed'[i] = feed[i]
        /\ feed'[Len(feed) + 1] = r
    BY <2>1, <2>2, <2>4
  <2>6. \A i \in 1 .. Len(feed') : i \in 1 .. Len(feed) \/ (feed'[i] = r /\ i = Len(feed) + 1)
    BY <2>5
  <2>7. \A i \in 1 .. Len(feed') : feed'[i].seq \in 1 .. feedSeq
    BY <2>3, <2>5, <2>6 DEF FeedInv
  <2>8. \A i, j \in 1 .. Len(feed') : feed'[i].seq = feed'[j].seq => i = j
    BY <2>3, <2>5, <2>6 DEF FeedInv
  <2>9. \A d \in Broker : broker'[d].op = "revoke" => d # c /\ broker'[d] = broker[d]
    BY <1>0, <1>1, <2>1
  <2>10. ASSUME NEW d \in Broker, broker'[d].op = "revoke"
         PROVE  /\ broker'[d].seq \in 1 .. feedSeq
                /\ \A i \in 1 .. Len(feed') : feed'[i].seq # broker'[d].seq
                /\ \A b \in Broker : broker'[b].op = "revoke" /\ broker'[b].seq = broker'[d].seq
                                       => d = b
    <3>1. Revoking(d) /\ broker'[d] = broker[d] /\ d # c
      BY <2>9, <2>10 DEF Revoking
    <3>2. /\ broker[d].seq \in 1 .. feedSeq
          /\ \A i \in 1 .. Len(feed) : feed[i].seq # broker[d].seq
          /\ \A b \in Broker : Revoking(b) /\ broker[b].seq = broker[d].seq => d = b
      BY <3>1 DEF FeedInv
    <3>3. \A i \in 1 .. Len(feed') : feed'[i].seq # broker[d].seq
      BY <2>3, <2>5, <2>6, <3>1, <3>2
    <3> QED
      BY <2>9, <3>1, <3>2, <3>3 DEF Revoking
  <2> QED
    BY <2>1, <2>5, <2>7, <2>8, <2>10 DEF FeedInv, Revoking
<1> QED
  BY <1>2, <1>3, <1>4, <1>5, <1>6, <1>7
     DEF SecretsNext, ResolveSecret, ResolveInProcess, RevokeSecretGrant, RevokeForTask,
         RotateSecret, Resolving

\* Nothing but leases gets into the registry, the held values and a sidecar.
LEMMA HoldersStepKeeps ==
  ASSUME SecretsFullType, SecretsInv, FeedInv, HoldersInv, [SecretsNext]_secretsVars
  PROVE  HoldersInv'
<1>0. broker \in [Broker -> BrokerTxn]
  BY DEF SecretsFullType
<1>1. CASE UNCHANGED <<live, held, acked, side>>
  BY <1>1 DEF HoldersInv
<1>2. CASE CreateSecretGrant \/ SecretTick \/ UNCHANGED secretsVars
  BY <1>1, <1>2 DEF CreateSecretGrant, CreateGrant, SecretTick, secretsVars
<1>3. ASSUME NEW c \in Broker, IssueSecretLease(c) \/ CommitRevoke(c)
      PROVE  HoldersInv'
  BY <1>1, <1>3 DEF IssueSecretLease, ReadGrant, CommitRevoke
<1>4. ASSUME NEW c \in Broker, NEW l \in Leases, IssueLease(c, l)
      PROVE  HoldersInv'
  BY <1>4 DEF IssueLease, HoldersInv
<1>5. ASSUME NEW c \in Broker, NEW l \in Leases, NEW via \in Resolving, ResolveLease(c, l, via)
      PROVE  HoldersInv'
  <2>1. live' \subseteq Leases /\ UNCHANGED <<held, acked>>
    BY <1>5 DEF ResolveLease, HoldersInv
  <2>2. side' \in {side, [side EXCEPT !.phase = "asked"]}
    BY <1>5 DEF ResolveLease
  <2> QED
    BY <2>1, <2>2 DEF HoldersInv
<1>6. ASSUME NEW c \in Broker, HandOut(c)
      PROVE  HoldersInv'
  <2>1. broker[c].lease \in Leases /\ broker[c].id \in Leases \cup {"none", "lease"}
    BY <1>0, <1>6 DEF HandOut, SecretsInv, TxnShape, BrokerTxn, Resolving
  <2>2. /\ UNCHANGED <<live, held, acked>>
        /\ side' \in {side, [side EXCEPT !.phase = "answered", !.lease = broker[c].lease,
                                         !.key = broker[c].id]}
    BY <1>6 DEF HandOut
  <2> QED
    BY <2>1, <2>2 DEF HoldersInv
<1>7. ASSUME NEW c \in Broker, StoreValue(c)
      PROVE  HoldersInv'
  <2>1. broker[c].lease \in Leases
    BY <1>7 DEF StoreValue, SecretsInv, TxnShape
  <2> QED
    BY <1>7, <2>1 DEF StoreValue, HoldersInv
<1>8. ASSUME NEW c \in Broker, NEW kind, NEW k, RevokeRows(c, kind, k)
      PROVE  HoldersInv'
  BY <1>8 DEF RevokeRows, LiveRevoke, HoldersInv
<1>9. ASSUME NEW c \in Broker, AbortBroker(c)
      PROVE  HoldersInv'
  BY <1>9 DEF AbortBroker, HoldersInv
<1>10. CASE StartSession \/ EndSession \/ RestartServer
  BY <1>10 DEF StartSession, EndSession, RestartServer, HoldersInv
<1>11. CASE Watch
  <2> DEFINE new == {feed[i] : i \in Behind(side.seq)}
             hit == \E r \in new : side.key \in r.leases
             top == CHOOSE r \in new : \A q \in new : q.seq <= r.seq
  <2>1. /\ side.phase = "watching" /\ new # {} /\ UNCHANGED <<live, held>>
        /\ side' = [side EXCEPT !.seq = top.seq, !.phase = IF hit THEN "ended" ELSE @]
        /\ acked' \in {acked, acked \cup {side.lease}}
    BY <1>11 DEF Watch, AckCleanup
  <2>2. \A r \in new : r \in FeedRow /\ r.seq \in 0 .. feedSeq
    BY DEF Behind, FeedInv
  <2>3. top \in new
    <3> DEFINE gaps == {feedSeq - r.seq : r \in new}
    <3>1. gaps \in SUBSET Nat /\ gaps # {} /\ feedSeq \in Nat
      <4>1. feedSeq \in Nat
        BY SecretsAssumption DEF FeedInv
      <4>2. \A r \in new : feedSeq - r.seq \in Nat
        BY <2>2, <4>1
      <4>3. new # {}
        BY <2>1
      <4> HIDE DEF new
      <4> QED
        BY <4>1, <4>2, <4>3
    <3>2. PICK n \in gaps : \A m \in gaps : n <= m
      <4> HIDE DEF gaps
      <4> QED
        BY <3>1, LeastNumber
    <3>3. PICK r \in new : n = feedSeq - r.seq
      BY <3>2
    <3>4. \A q \in new : feedSeq - r.seq <= feedSeq - q.seq
      BY <3>2, <3>3
    <3>5. \A q \in new : q.seq <= r.seq
      BY <2>2, <3>1, <3>4 DEF FeedRow
    <3> QED
      BY <3>5
  <2>4. top.seq \in Nat
    BY <2>2, <2>3 DEF FeedRow
  <2>5. side.lease \in Leases
    BY <2>1 DEF HoldersInv
  <2> HIDE DEF top, hit
  <2> QED
    BY <2>1, <2>4, <2>5 DEF HoldersInv
<1> QED
  BY <1>2, <1>3, <1>4, <1>5, <1>6, <1>7, <1>8, <1>9, <1>10, <1>11
     DEF SecretsNext, ResolveSecret, ResolveInProcess, RevokeSecretGrant, RevokeForTask,
         RotateSecret, Resolving

\* The tables keep their types, the registry, the held values and the sidecar
\* name leases, and the feed has no more rows than numbers were drawn.
THEOREM SecretsTypes == SecretsSpec => []SecretsTypeOK
<1>1. SecretsInit => FeedInv /\ HoldersInv
  BY SecretsAssumption
     DEF SecretsInit, FeedInv, HoldersInv, Revoking, NoBrokerTxn, NoSession
<1>2. SecretsFullType /\ FeedInv /\ HoldersInv => SecretsTypeOK
  <2> SUFFICES ASSUME SecretsFullType, FeedInv, HoldersInv PROVE SecretsTypeOK
    OBVIOUS
  <2>1. \A l \in Leases : lease[l].state \in {"ABSENT", "live", "revoked"} /\ lease[l].uses \in Nat
    BY DEF SecretsFullType, LeaseRow
  <2>2. rowLock \cup live \cup held \cup acked \subseteq Leases
    BY DEF SecretsFullType, HoldersInv
  <2>3. feedSeq \in 0 .. MaxRevokes /\ Len(feed) <= feedSeq
    BY FeedCounted DEF FeedInv
  <2>4. side.phase \in {"off", "asked", "answered", "watching", "ended"}
    BY DEF HoldersInv
  <2> QED
    BY <2>1, <2>2, <2>3, <2>4 DEF SecretsTypeOK, SecretsFullType
<1> QED
  BY <1>1, <1>2, SecretsStart, SecretsStepKeeps, FeedStepKeeps, HoldersStepKeeps, PTL
     DEF SecretsSpec

-----------------------------------------------------------------------------
(***************************************************************************)
(* Break-glass sessions.                                                   *)
(***************************************************************************)
GlassRow == [ended : {"NEVER", "NO", "TERMINATED", "EXPIRED"},
             code : Codes \cup {"none", "replaced"}, late : BOOLEAN, posthoc : BOOLEAN]
HandWork == [op : {"idle", "activate", "insert", "terminate", "expire", "reviews"},
             at : Sessions \cup {"none"}, code : Codes \cup {"none"},
             due : SUBSET Sessions, read : SUBSET Sessions]

BreakGlassFullType ==
  /\ bg \in [Sessions -> GlassRow]
  /\ ending \in [Sessions -> Seq({"TERMINATED", "EXPIRED"})]
  /\ told \in [Sessions -> SUBSET {"STARTED", "ENDED"}]
  /\ spent \subseteq Codes /\ codeLock \subseteq Codes \X Hands
  /\ bgLock \subseteq Sessions \X Hands
  /\ hand \in [Hands -> HandWork]
  /\ review \in [Sessions -> Nat]

\* The row, the stream, the announcements and the review of one session.
SessionOK(s) ==
  /\ ending[s] = IF bg[s].ended \in {"NEVER", "NO"} THEN <<>> ELSE <<bg[s].ended>>
  /\ told[s] = IF bg[s].ended = "NEVER" THEN {}
               ELSE IF bg[s].ended = "NO" THEN {"STARTED"} ELSE {"STARTED", "ENDED"}
  /\ bg[s].posthoc => bg[s].ended # "NO" /\ review[s] = 1
  /\ ~bg[s].posthoc => review[s] = 0

\* What a request in hand has locked, and what it knows of the sessions it is
\* about to end.
HandOK(h) ==
  /\ hand[h].op \in {"activate", "insert"} =>
       /\ hand[h].code \in Codes \ spent
       /\ <<hand[h].code, h>> \in codeLock
  /\ hand[h].op = "terminate" =>
       /\ hand[h].at \in Sessions /\ <<hand[h].at, h>> \in bgLock
       /\ bg[hand[h].at].ended # "NEVER"
  /\ hand[h].op = "expire" =>
       /\ \A s \in hand[h].due : bg[s].ended # "NEVER"
       /\ \A s \in hand[h].read : /\ <<s, h>> \in bgLock
                                  /\ ending[s] \in {<<>>, <<"EXPIRED">>}

\* Row locks have one holder.
LocksOK ==
  /\ \A c \in Codes, h, k \in Hands : <<c, h>> \in codeLock /\ <<c, k>> \in codeLock => h = k
  /\ \A s \in Sessions, h, k \in Hands : <<s, h>> \in bgLock /\ <<s, k>> \in bgLock => h = k

\* A code that opened a session is spent, and opened no other.
CodesOK ==
  \A s \in Sessions :
    /\ bg[s].code \in Codes => bg[s].code \in spent
    /\ \A r \in Sessions \ {s} : bg[s].code \in Codes => bg[r].code # bg[s].code

BreakGlassInv ==
  /\ \A s \in Sessions : SessionOK(s)
  /\ \A h \in Hands : HandOK(h)
  /\ LocksOK /\ CodesOK

\* The locks that are left when a request is over.
LEMMA Released ==
  ASSUME BreakGlassFullType, LocksOK, NEW h \in Hands, ReleaseHand(h)
  PROVE  /\ codeLock' \subseteq Codes \X Hands /\ bgLock' \subseteq Sessions \X Hands /\ LocksOK'
         /\ \A x, k : k # h => /\ <<x, k>> \in codeLock => <<x, k>> \in codeLock'
                               /\ <<x, k>> \in bgLock => <<x, k>> \in bgLock'
BY DEF BreakGlassFullType, LocksOK, ReleaseHand

\* One more lock on a row that nobody has locked.
LEMMA Locked ==
  ASSUME NEW R, NEW L, L \subseteq R \X Hands, NEW x \in R, NEW h \in Hands,
         \A l \in L : l[1] # x,
         \A r \in R, i, k \in Hands : <<r, i>> \in L /\ <<r, k>> \in L => i = k
  PROVE  /\ L \cup {<<x, h>>} \subseteq R \X Hands
         /\ \A r \in R, i, k \in Hands :
              <<r, i>> \in L \cup {<<x, h>>} /\ <<r, k>> \in L \cup {<<x, h>>} => i = k
<1>1. \A k : <<x, k>> \notin L
  OBVIOUS
<1>2. \A r, i : <<r, i>> \in L \cup {<<x, h>>} => <<r, i>> \in L \/ (r = x /\ i = h)
  OBVIOUS
<1> QED
  BY <1>1, <1>2

\* _end of the sessions that the transaction has locked.
LEMMA EndSessionsKeeps ==
  ASSUME BreakGlassFullType, BreakGlassInv, NEW h \in Hands, NEW S \in SUBSET Sessions,
         NEW reason \in {"TERMINATED", "EXPIRED"}, EndSessions(h, S, reason),
         \A s \in S : /\ <<s, h>> \in bgLock /\ bg[s].ended # "NEVER"
                      /\ ending[s] \in {<<>>, <<reason>>}
  PROVE  BreakGlassFullType' /\ BreakGlassInv'
<1> DEFINE e == [EmptyHand EXCEPT !.op = "reviews", !.due = S]
           Row(s) == [bg[s] EXCEPT !.ended = reason]
<1>1. /\ ending' = [s \in Sessions |-> IF s \in S THEN EndEvent(ending[s], reason)
                                                 ELSE ending[s]]
      /\ bg' = [s \in Sessions |-> IF s \in S THEN Row(s) ELSE bg[s]]
      /\ told' = [s \in Sessions |-> IF s \in S THEN told[s] \cup {"ENDED"} ELSE told[s]]
      /\ hand' = [hand EXCEPT ![h] = e]
      /\ ReleaseHand(h) /\ UNCHANGED <<spent, review>>
  BY DEF EndSessions
<1>2. e \in HandWork /\ e.op = "reviews"
  BY DEF EmptyHand, HandWork
<1>3. \A s \in Sessions : /\ Row(s) \in GlassRow /\ Row(s).ended = reason
                          /\ Row(s).code = bg[s].code /\ Row(s).posthoc = bg[s].posthoc
  BY DEF BreakGlassFullType, GlassRow
<1> HIDE DEF e, Row
<1>4. \A s \in S : EndEvent(ending[s], reason) = <<reason>>
  BY DEF EndEvent
<1>5. BreakGlassFullType'
  <2>1. bg' \in [Sessions -> GlassRow] /\ told' \in [Sessions -> SUBSET {"STARTED", "ENDED"}]
    BY <1>1, <1>3 DEF BreakGlassFullType
  <2>2. ending' \in [Sessions -> Seq({"TERMINATED", "EXPIRED"})]
    <3>1. <<reason>> \in Seq({"TERMINATED", "EXPIRED"})
      OBVIOUS
    <3> QED
      BY <1>1, <1>4, <3>1 DEF BreakGlassFullType
  <2>3. hand' \in [Hands -> HandWork]
    BY <1>1, <1>2 DEF BreakGlassFullType
  <2> QED
    BY <1>1, <2>1, <2>2, <2>3, Released DEF BreakGlassFullType, BreakGlassInv
<1>6. ASSUME NEW s \in Sessions PROVE SessionOK(s)'
  <2>1. SessionOK(s)
    BY DEF BreakGlassInv
  <2>2. CASE s \in S
    <3>1. bg'[s] = Row(s) /\ ending'[s] = <<reason>> /\ told'[s] = told[s] \cup {"ENDED"}
          /\ review'[s] = review[s]
      BY <1>1, <1>4, <2>2
    <3>2. told[s] \cup {"ENDED"} = {"STARTED", "ENDED"}
      BY <2>1, <2>2 DEF SessionOK
    <3> QED
      BY <1>3, <2>1, <2>2, <3>1, <3>2 DEF SessionOK
  <2>3. CASE s \notin S
    <3>1. bg'[s] = bg[s] /\ ending'[s] = ending[s] /\ told'[s] = told[s]
          /\ review'[s] = review[s]
      BY <1>1, <2>3
    <3> QED
      BY <2>1, <3>1 DEF SessionOK
  <2> QED
    BY <2>2, <2>3
<1>7. ASSUME NEW k \in Hands PROVE HandOK(k)'
  <2>1. CASE k = h
    <3>1. hand'[k].op = "reviews"
      BY <1>1, <1>2, <2>1 DEF BreakGlassFullType
    <3> QED
      BY <3>1 DEF HandOK
  <2>2. CASE k # h
    <3>1. hand'[k] = hand[k] /\ HandOK(k) /\ hand[k] \in HandWork
      BY <1>1, <2>2 DEF BreakGlassFullType, BreakGlassInv
    <3>2. \A s \in Sessions : <<s, k>> \in bgLock => s \notin S
      BY <2>2 DEF BreakGlassInv, LocksOK
    <3>3. \A s \in Sessions : /\ s \notin S => ending'[s] = ending[s]
                              /\ bg[s].ended # "NEVER" => bg'[s].ended # "NEVER"
      BY <1>1, <1>3
    <3>4. \A x : /\ <<x, k>> \in codeLock => <<x, k>> \in codeLock'
                 /\ <<x, k>> \in bgLock => <<x, k>> \in bgLock'
      BY <1>1, <2>2, Released DEF BreakGlassInv
    <3>5. hand[k].due \subseteq Sessions /\ hand[k].read \subseteq Sessions
      BY <3>1 DEF HandWork
    <3> QED
      BY <1>1, <3>1, <3>2, <3>3, <3>4, <3>5 DEF HandOK
  <2> QED
    BY <2>1, <2>2
<1>8. CodesOK'
  <2>1. \A s \in Sessions : bg'[s].code = bg[s].code
    BY <1>1, <1>3
  <2> QED
    BY <1>1, <2>1 DEF BreakGlassInv, CodesOK
<1> QED
  BY <1>1, <1>5, <1>6, <1>7, <1>8, Released DEF BreakGlassInv

\* A step that leaves the tables of sessions and codes alone.
LEMMA HandStepKeeps ==
  ASSUME BreakGlassFullType, BreakGlassInv, NEW h \in Hands, NEW w \in HandWork,
         hand' = [hand EXCEPT ![h] = w], UNCHANGED <<bg, ending, told, spent, review>>,
         codeLock' \subseteq Codes \X Hands, bgLock' \subseteq Sessions \X Hands, LocksOK',
         \A x, k : k # h => /\ <<x, k>> \in codeLock => <<x, k>> \in codeLock'
                            /\ <<x, k>> \in bgLock => <<x, k>> \in bgLock',
         HandOK(h)'
  PROVE  BreakGlassFullType' /\ BreakGlassInv'
<1>1. BreakGlassFullType'
  BY DEF BreakGlassFullType
<1>2. \A s \in Sessions : SessionOK(s)'
  BY DEF BreakGlassInv, SessionOK
<1>3. ASSUME NEW k \in Hands \ {h} PROVE HandOK(k)'
  <2>1. hand'[k] = hand[k] /\ HandOK(k)
    BY DEF BreakGlassFullType, BreakGlassInv
  <2> QED
    BY <2>1 DEF HandOK
<1>4. CodesOK'
  BY DEF BreakGlassInv, CodesOK
<1> QED
  BY <1>1, <1>2, <1>3, <1>4 DEF BreakGlassInv

\* Every step of a request, a sweep or the clock keeps the invariant.
LEMMA BreakGlassStepKeeps ==
  ASSUME BreakGlassFullType, BreakGlassInv, [BreakGlassNext]_breakGlassVars
  PROVE  BreakGlassFullType' /\ BreakGlassInv'
<1>0. /\ bg \in [Sessions -> GlassRow] /\ ending \in [Sessions -> Seq({"TERMINATED", "EXPIRED"})]
      /\ told \in [Sessions -> SUBSET {"STARTED", "ENDED"}]
      /\ spent \subseteq Codes /\ codeLock \subseteq Codes \X Hands
      /\ bgLock \subseteq Sessions \X Hands /\ hand \in [Hands -> HandWork]
      /\ review \in [Sessions -> Nat]
  BY DEF BreakGlassFullType
<1>1. EmptyHand \in HandWork /\ EmptyHand.op = "idle"
  BY DEF EmptyHand, HandWork
<1>2. /\ \A c \in Codes, h, k \in Hands :
            <<c, h>> \in codeLock /\ <<c, k>> \in codeLock => h = k
      /\ \A s \in Sessions, h, k \in Hands :
            <<s, h>> \in bgLock /\ <<s, k>> \in bgLock => h = k
  BY DEF BreakGlassInv, LocksOK
<1>3. ASSUME NEW h \in Hands, NEW c \in Codes, ConsumeRecoveryCode(h, c)
      PROVE  BreakGlassFullType' /\ BreakGlassInv'
  <2> DEFINE w == [EmptyHand EXCEPT !.op = "activate", !.code = c]
  <2>1. /\ CodeFree(c) /\ codeLock' = codeLock \cup {<<c, h>>}
        /\ hand' = [hand EXCEPT ![h] = w]
        /\ UNCHANGED <<bg, ending, told, spent, bgLock, review>>
    BY <1>3 DEF ConsumeRecoveryCode
  <2>2. w \in HandWork /\ w.op = "activate" /\ w.code = c
    BY DEF EmptyHand, HandWork
  <2> HIDE DEF w
  <2>3. codeLock' \subseteq Codes \X Hands /\ LocksOK'
    <3>1. /\ \A l \in codeLock : l[1] # c
      BY <2>1 DEF CodeFree
    <3>2. /\ codeLock \cup {<<c, h>>} \subseteq Codes \X Hands
          /\ \A r \in Codes, i, k \in Hands : <<r, i>> \in codeLock \cup {<<c, h>>}
                /\ <<r, k>> \in codeLock \cup {<<c, h>>} => i = k
      BY <1>0, <1>2, <3>1, Locked
    <3> QED
      BY <1>2, <2>1, <3>2 DEF LocksOK
  <2>4. HandOK(h)'
    BY <1>0, <2>1, <2>2 DEF HandOK, CodeFree
  <2> QED
    BY <1>0, <2>1, <2>2, <2>3, <2>4, HandStepKeeps
<1>4. ASSUME NEW h \in Hands, CheckActive(h)
      PROVE  BreakGlassFullType' /\ BreakGlassInv'
  <2> DEFINE w == [hand[h] EXCEPT !.op = "insert"]
  <2>1. /\ hand[h].op = "activate" /\ hand' = [hand EXCEPT ![h] = w]
        /\ UNCHANGED <<bg, ending, told, spent, codeLock, bgLock, review>>
    BY <1>0, <1>4 DEF CheckActive
  <2>2. hand[h] \in HandWork /\ HandOK(h)
    BY <1>0 DEF BreakGlassInv
  <2>3. w \in HandWork /\ w.op = "insert" /\ w.code = hand[h].code
    BY <2>2 DEF HandWork
  <2> HIDE DEF w
  <2>4. LocksOK'
    BY <2>1 DEF BreakGlassInv, LocksOK
  <2>5. HandOK(h)'
    BY <1>0, <2>1, <2>2, <2>3 DEF HandOK
  <2> QED
    BY <1>0, <2>1, <2>3, <2>4, <2>5, HandStepKeeps
<1>5. ASSUME NEW h \in Hands, NEW s \in Sessions, Activate(h, s)
      PROVE  BreakGlassFullType' /\ BreakGlassInv'
  <2> DEFINE c == hand[h].code
             r == [NoBreakGlass EXCEPT !.ended = "NO", !.code = c]
  <2>1. /\ hand[h].op = "insert" /\ bg[s] = NoBreakGlass
        /\ bg' = [bg EXCEPT ![s] = r] /\ told' = [told EXCEPT ![s] = {"STARTED"}]
        /\ spent' = spent \cup {c} /\ hand' = [hand EXCEPT ![h] = EmptyHand]
        /\ ReleaseHand(h) /\ UNCHANGED <<ending, review>>
    BY <1>5 DEF Activate
  <2>2. c \in Codes /\ c \notin spent /\ <<c, h>> \in codeLock
    BY <2>1 DEF BreakGlassInv, HandOK
  <2>3. r \in GlassRow /\ r.ended = "NO" /\ r.code = c /\ r.posthoc = FALSE
    BY <2>2 DEF NoBreakGlass, GlassRow
  <2> HIDE DEF r
  <2>4. bg'[s] = r /\ \A t \in Sessions \ {s} : bg'[t] = bg[t]
    BY <1>0, <2>1
  <2>5. BreakGlassFullType'
    <3>1. bg' \in [Sessions -> GlassRow] /\ told' \in [Sessions -> SUBSET {"STARTED", "ENDED"}]
      BY <1>0, <2>1, <2>3
    <3>2. hand' \in [Hands -> HandWork]
      BY <1>0, <1>1, <2>1
    <3> QED
      BY <1>0, <2>1, <2>2, <3>1, <3>2, Released DEF BreakGlassFullType, BreakGlassInv
  <2>6. ASSUME NEW t \in Sessions PROVE SessionOK(t)'
    <3>1. SessionOK(t)
      BY DEF BreakGlassInv
    <3>2. CASE t = s
      <4>1. told'[t] = {"STARTED"} /\ ending'[t] = <<>> /\ review'[t] = 0
        BY <1>0, <2>1, <3>1, <3>2 DEF SessionOK, NoBreakGlass
      <4> QED
        BY <2>3, <2>4, <3>2, <4>1 DEF SessionOK
    <3>3. CASE t # s
      <4>1. told'[t] = told[t] /\ ending'[t] = ending[t] /\ review'[t] = review[t]
        BY <1>0, <2>1, <3>3
      <4> QED
        BY <2>4, <3>1, <3>3, <4>1 DEF SessionOK
    <3> QED
      BY <3>2, <3>3
  <2>7. ASSUME NEW k \in Hands PROVE HandOK(k)'
    <3>1. CASE k = h
      BY <1>0, <1>1, <2>1, <3>1 DEF HandOK
    <3>2. CASE k # h
      <4>1. hand'[k] = hand[k] /\ HandOK(k) /\ hand[k] \in HandWork
        BY <1>0, <2>1, <3>2 DEF BreakGlassInv
      <4>2. \A x : /\ <<x, k>> \in codeLock => <<x, k>> \in codeLock'
                   /\ <<x, k>> \in bgLock => <<x, k>> \in bgLock'
        BY <2>1, <3>2, Released DEF BreakGlassInv
      <4>3. hand[k].op \in {"activate", "insert"} => hand[k].code # c
        BY <1>2, <2>2, <3>2, <4>1 DEF HandOK
      <4>4. \A t \in Sessions : bg[t].ended # "NEVER" => bg'[t].ended # "NEVER"
        BY <2>3, <2>4
      <4>5. hand[k].due \subseteq Sessions
        BY <4>1 DEF HandWork
      <4> QED
        BY <2>1, <4>1, <4>2, <4>3, <4>4, <4>5 DEF HandOK
    <3> QED
      BY <3>1, <3>2
  <2>8. CodesOK'
    <3>1. \A t \in Sessions : bg[t].code \in Codes => bg[t].code # c
      BY <2>2 DEF BreakGlassInv, CodesOK
    <3> QED
      BY <2>1, <2>2, <2>3, <2>4, <3>1 DEF BreakGlassInv, CodesOK
  <2> QED
    BY <2>1, <2>5, <2>6, <2>7, <2>8, Released DEF BreakGlassInv
<1>6. CASE IssueRecoveryCodes
  <2> DEFINE Row(s) == [bg[s] EXCEPT !.code = "replaced"]
  <2>1. /\ codeLock = {} /\ spent' = {}
        /\ bg' = [s \in Sessions |-> IF bg[s] = NoBreakGlass THEN bg[s] ELSE Row(s)]
        /\ UNCHANGED <<ending, told, codeLock, bgLock, hand, review>>
    BY <1>6 DEF IssueRecoveryCodes
  <2>2. \A s \in Sessions : /\ Row(s) \in GlassRow /\ Row(s).ended = bg[s].ended
                            /\ Row(s).posthoc = bg[s].posthoc /\ Row(s).code = "replaced"
    BY <1>0 DEF GlassRow
  <2> HIDE DEF Row
  <2>3. \A s \in Sessions : /\ bg'[s] \in GlassRow /\ bg'[s].ended = bg[s].ended
                            /\ bg'[s].posthoc = bg[s].posthoc
                            /\ bg'[s].code \in {"none", "replaced"}
    BY <1>0, <2>1, <2>2 DEF NoBreakGlass
  <2>4. BreakGlassFullType'
    BY <1>0, <2>1, <2>3 DEF BreakGlassFullType
  <2>5. \A s \in Sessions : SessionOK(s)'
    BY <2>1, <2>3 DEF BreakGlassInv, SessionOK
  <2>6. ASSUME NEW k \in Hands PROVE HandOK(k)'
    <3>1. HandOK(k) /\ hand[k] \in HandWork
      BY <1>0 DEF BreakGlassInv
    <3>2. hand[k].due \subseteq Sessions /\ hand[k].read \subseteq Sessions
      BY <3>1 DEF HandWork
    <3> QED
      BY <2>1, <2>3, <3>1, <3>2 DEF HandOK
  <2>7. CodesOK'
    BY <2>3, BreakGlassAssumption DEF CodesOK
  <2> QED
    BY <2>1, <2>4, <2>5, <2>6, <2>7 DEF BreakGlassInv, LocksOK
<1>7. ASSUME NEW h \in Hands, NEW s \in Sessions, LoadSession(h, s)
      PROVE  BreakGlassFullType' /\ BreakGlassInv'
  <2> DEFINE w == [EmptyHand EXCEPT !.op = "terminate", !.at = s]
  <2>1. /\ RowFreeFor(s) /\ SessionActive(s) /\ bgLock' = bgLock \cup {<<s, h>>}
        /\ hand' = [hand EXCEPT ![h] = w]
        /\ UNCHANGED <<bg, ending, told, spent, codeLock, review>>
    BY <1>7 DEF LoadSession
  <2>2. w \in HandWork /\ w.op = "terminate" /\ w.at = s
    BY DEF EmptyHand, HandWork
  <2> HIDE DEF w
  <2>3. bgLock' \subseteq Sessions \X Hands /\ LocksOK'
    <3>1. \A l \in bgLock : l[1] # s
      BY <2>1 DEF RowFreeFor
    <3>2. /\ bgLock \cup {<<s, h>>} \subseteq Sessions \X Hands
          /\ \A r \in Sessions, i, k \in Hands : <<r, i>> \in bgLock \cup {<<s, h>>}
                /\ <<r, k>> \in bgLock \cup {<<s, h>>} => i = k
      BY <1>0, <1>2, <3>1, Locked
    <3> QED
      BY <1>2, <2>1, <3>2 DEF LocksOK
  <2>4. HandOK(h)'
    BY <1>0, <2>1, <2>2 DEF HandOK, SessionActive
  <2> QED
    BY <1>0, <2>1, <2>2, <2>3, <2>4, HandStepKeeps
<1>8. ASSUME NEW h \in Hands, TerminateSession(h)
      PROVE  BreakGlassFullType' /\ BreakGlassInv'
  <2>1. /\ hand[h].op = "terminate" /\ ~EndConflicts(hand[h].at, "TERMINATED")
        /\ EndSessions(h, {hand[h].at}, "TERMINATED")
    BY <1>8 DEF TerminateSession
  <2>2. /\ hand[h].at \in Sessions /\ <<hand[h].at, h>> \in bgLock
        /\ bg[hand[h].at].ended # "NEVER"
    BY <2>1 DEF BreakGlassInv, HandOK
  <2> DEFINE S == {hand[h].at}
  <2>3. /\ S \in SUBSET Sessions
        /\ \A s \in S : /\ <<s, h>> \in bgLock /\ bg[s].ended # "NEVER"
                         /\ ending[s] \in {<<>>, <<"TERMINATED">>}
    BY <2>1, <2>2 DEF EndConflicts
  <2>4. EndSessions(h, S, "TERMINATED")
    BY <2>1
  <2> HIDE DEF S
  <2> QED
    BY <2>3, <2>4, EndSessionsKeeps
<1>9. ASSUME NEW h \in Hands, ReadOverdue(h)
      PROVE  BreakGlassFullType' /\ BreakGlassInv'
  <2> DEFINE S == {s \in Sessions : SessionActive(s) /\ bg[s].late}
             w == [EmptyHand EXCEPT !.op = "expire", !.due = S]
  <2>1. /\ hand' = [hand EXCEPT ![h] = w]
        /\ UNCHANGED <<bg, ending, told, spent, codeLock, bgLock, review>>
    BY <1>9 DEF ReadOverdue
  <2>2. w \in HandWork /\ w.op = "expire" /\ w.due = S /\ w.read = {}
    BY DEF EmptyHand, HandWork
  <2>3. \A s \in S : bg[s].ended # "NEVER"
    BY DEF SessionActive
  <2> HIDE DEF w, S
  <2>4. LocksOK'
    BY <2>1 DEF BreakGlassInv, LocksOK
  <2>5. HandOK(h)'
    BY <1>0, <2>1, <2>2, <2>3 DEF HandOK
  <2> QED
    BY <1>0, <2>1, <2>2, <2>4, <2>5, HandStepKeeps
<1>10. ASSUME NEW h \in Hands, NEW s \in Sessions, LockOverdue(h, s)
       PROVE  BreakGlassFullType' /\ BreakGlassInv'
  <2> DEFINE w == [hand[h] EXCEPT !.read = @ \cup {s}]
  <2>1. /\ hand[h].op = "expire" /\ RowFreeFor(s) /\ ~EndConflicts(s, "EXPIRED")
        /\ bgLock' = bgLock \cup {<<s, h>>} /\ hand' = [hand EXCEPT ![h] = w]
        /\ UNCHANGED <<bg, ending, told, spent, codeLock, review>>
    BY <1>0, <1>10 DEF LockOverdue
  <2>2. hand[h] \in HandWork /\ HandOK(h)
    BY <1>0 DEF BreakGlassInv
  <2>3. /\ w \in HandWork /\ w.op = "expire" /\ w.due = hand[h].due
        /\ w.read = hand[h].read \cup {s}
    BY <2>1, <2>2 DEF HandWork
  <2> HIDE DEF w
  <2>4. bgLock' \subseteq Sessions \X Hands /\ LocksOK'
    <3>1. \A l \in bgLock : l[1] # s
      BY <2>1 DEF RowFreeFor
    <3>2. /\ bgLock \cup {<<s, h>>} \subseteq Sessions \X Hands
          /\ \A r \in Sessions, i, k \in Hands : <<r, i>> \in bgLock \cup {<<s, h>>}
                /\ <<r, k>> \in bgLock \cup {<<s, h>>} => i = k
      BY <1>0, <1>2, <3>1, Locked
    <3> QED
      BY <1>2, <2>1, <3>2 DEF LocksOK
  <2>5. HandOK(h)'
    <3>1. hand'[h] = w
      BY <1>0, <2>1
    <3> QED
      BY <2>1, <2>2, <2>3, <3>1 DEF HandOK, EndConflicts
  <2> QED
    BY <1>0, <2>1, <2>3, <2>4, <2>5, HandStepKeeps
<1>11. ASSUME NEW h \in Hands, ExpireSessions(h)
       PROVE  BreakGlassFullType' /\ BreakGlassInv'
  <2>1. /\ hand[h].op = "expire" /\ hand[h].read = hand[h].due
        /\ EndSessions(h, hand[h].due, "EXPIRED")
    BY <1>11 DEF ExpireSessions
  <2>2. hand[h].due \in SUBSET Sessions
    BY <1>0 DEF HandWork
  <2>3. \A s \in hand[h].due : /\ <<s, h>> \in bgLock /\ bg[s].ended # "NEVER"
                               /\ ending[s] \in {<<>>, <<"EXPIRED">>}
    BY <2>1 DEF BreakGlassInv, HandOK
  <2> QED
    BY <2>1, <2>2, <2>3, EndSessionsKeeps
<1>12. ASSUME NEW h \in Hands, NEW s \in Sessions, OpenPosthoc(h, s)
       PROVE  BreakGlassFullType' /\ BreakGlassInv'
  <2> DEFINE w == [hand[h] EXCEPT !.due = @ \ {s}]
             r == [bg[s] EXCEPT !.posthoc = TRUE]
  <2>1. /\ hand[h].op = "reviews" /\ hand' = [hand EXCEPT ![h] = w]
        /\ UNCHANGED <<ending, told, spent, codeLock, bgLock>>
    BY <1>0, <1>12 DEF OpenPosthoc
  <2>2. w \in HandWork /\ w.op = "reviews"
    BY <1>0, <2>1 DEF HandWork
  <2>3. r \in GlassRow /\ r.ended = bg[s].ended /\ r.code = bg[s].code /\ r.posthoc = TRUE
    BY <1>0 DEF GlassRow
  <2> HIDE DEF w
  <2>4. HandOK(h)' /\ LocksOK'
    BY <1>0, <2>1, <2>2 DEF HandOK, LocksOK, BreakGlassInv
  <2>5. CASE UNCHANGED <<bg, review>>
    BY <1>0, <2>1, <2>2, <2>4, <2>5, HandStepKeeps
  <2>6. CASE /\ ~SessionActive(s) /\ ~bg[s].posthoc /\ bg' = [bg EXCEPT ![s] = r]
             /\ review' = [review EXCEPT ![s] = @ + 1]
    <3> HIDE DEF r
    <3>1. bg'[s] = r /\ \A t \in Sessions \ {s} : bg'[t] = bg[t]
      BY <1>0, <2>6
    <3>2. review[s] = 0
      BY <2>6 DEF BreakGlassInv, SessionOK
    <3>3. review'[s] = 1 /\ (\A t \in Sessions \ {s} : review'[t] = review[t])
          /\ review' \in [Sessions -> Nat]
      BY <1>0, <2>6, <3>2
    <3>4. BreakGlassFullType'
      <4>1. bg' \in [Sessions -> GlassRow] /\ hand' \in [Hands -> HandWork]
        BY <1>0, <2>1, <2>2, <2>3, <2>6
      <4> QED
        BY <1>0, <2>1, <3>3, <4>1 DEF BreakGlassFullType
    <3>5. \A t \in Sessions : bg'[t].ended = bg[t].ended /\ bg'[t].code = bg[t].code
      BY <2>3, <3>1
    <3>6. ASSUME NEW t \in Sessions PROVE SessionOK(t)'
      <4>1. SessionOK(t)
        BY DEF BreakGlassInv
      <4>2. CASE t = s
        BY <2>1, <2>3, <2>6, <3>1, <3>3, <4>1, <4>2 DEF SessionOK, SessionActive
      <4>3. CASE t # s
        BY <2>1, <3>1, <3>3, <4>1, <4>3 DEF SessionOK
      <4> QED
        BY <4>2, <4>3
    <3>7. ASSUME NEW k \in Hands \ {h} PROVE HandOK(k)'
      <4>1. hand'[k] = hand[k] /\ HandOK(k) /\ hand[k] \in HandWork
        BY <1>0, <2>1 DEF BreakGlassInv
      <4>2. hand[k].due \subseteq Sessions
        BY <4>1 DEF HandWork
      <4> QED
        BY <2>1, <3>5, <4>1, <4>2 DEF HandOK
    <3>8. CodesOK'
      BY <2>1, <3>5 DEF BreakGlassInv, CodesOK
    <3> QED
      BY <2>4, <3>4, <3>6, <3>7, <3>8 DEF BreakGlassInv
  <2> QED
    BY <1>0, <1>12, <2>5, <2>6 DEF OpenPosthoc
<1>13. ASSUME NEW h \in Hands, Abandon(h)
       PROVE  BreakGlassFullType' /\ BreakGlassInv'
  <2>1. /\ hand' = [hand EXCEPT ![h] = EmptyHand] /\ ReleaseHand(h)
        /\ UNCHANGED <<bg, ending, told, spent, review>>
    BY <1>13 DEF Abandon
  <2>2. HandOK(h)'
    BY <1>0, <1>1, <2>1 DEF HandOK
  <2>3. /\ codeLock' \subseteq Codes \X Hands /\ bgLock' \subseteq Sessions \X Hands /\ LocksOK'
        /\ \A x, k : k # h => /\ <<x, k>> \in codeLock => <<x, k>> \in codeLock'
                              /\ <<x, k>> \in bgLock => <<x, k>> \in bgLock'
    BY <2>1, Released DEF BreakGlassInv
  <2> QED
    BY <1>1, <2>1, <2>2, <2>3, HandStepKeeps
<1>14. ASSUME NEW s \in Sessions, Overrun(s)
       PROVE  BreakGlassFullType' /\ BreakGlassInv'
  <2> DEFINE r == [bg[s] EXCEPT !.late = TRUE]
  <2>1. /\ bg' = [bg EXCEPT ![s] = r]
        /\ UNCHANGED <<ending, told, spent, codeLock, bgLock, hand, review>>
    BY <1>0, <1>14 DEF Overrun
  <2>2. r \in GlassRow /\ r.ended = bg[s].ended /\ r.code = bg[s].code
        /\ r.posthoc = bg[s].posthoc
    BY <1>0 DEF GlassRow
  <2> HIDE DEF r
  <2>3. \A t \in Sessions : /\ bg'[t].ended = bg[t].ended /\ bg'[t].code = bg[t].code
                            /\ bg'[t].posthoc = bg[t].posthoc /\ bg'[t] \in GlassRow
    BY <1>0, <2>1, <2>2
  <2>4. BreakGlassFullType'
    BY <1>0, <2>1, <2>2 DEF BreakGlassFullType
  <2>5. \A t \in Sessions : SessionOK(t)'
    BY <2>1, <2>3 DEF BreakGlassInv, SessionOK
  <2>6. ASSUME NEW k \in Hands PROVE HandOK(k)'
    <3>1. HandOK(k) /\ hand[k] \in HandWork
      BY <1>0 DEF BreakGlassInv
    <3>2. hand[k].due \subseteq Sessions
      BY <3>1 DEF HandWork
    <3> QED
      BY <2>1, <2>3, <3>1, <3>2 DEF HandOK
  <2>7. CodesOK'
    BY <2>1, <2>3 DEF BreakGlassInv, CodesOK
  <2> QED
    BY <2>1, <2>4, <2>5, <2>6, <2>7 DEF BreakGlassInv, LocksOK
<1>15. CASE UNCHANGED breakGlassVars
  BY <1>15 DEF breakGlassVars, BreakGlassFullType, BreakGlassInv, SessionOK, HandOK, LocksOK,
               CodesOK
<1> QED
  BY <1>3, <1>4, <1>5, <1>6, <1>7, <1>8, <1>9, <1>10, <1>11, <1>12, <1>13, <1>14, <1>15
     DEF BreakGlassNext

\* Every session ends once, with one reason in row and stream, one review at
\* most, both announcements, and a recovery code of its own.
THEOREM BreakGlassEndsOnce == BreakGlassSpec => [](BreakGlassTypeOK /\ SessionEndsOnce)
<1>1. BreakGlassInit => BreakGlassFullType /\ BreakGlassInv
  <2> SUFFICES ASSUME BreakGlassInit PROVE BreakGlassFullType /\ BreakGlassInv
    OBVIOUS
  <2>1. BreakGlassFullType
    BY DEF BreakGlassInit, BreakGlassFullType, NoBreakGlass, GlassRow, EmptyHand, HandWork
  <2>2. \A s \in Sessions : SessionOK(s)
    BY DEF BreakGlassInit, SessionOK, NoBreakGlass
  <2>3. \A h \in Hands : HandOK(h)
    BY DEF BreakGlassInit, HandOK, EmptyHand
  <2>4. CodesOK /\ LocksOK
    BY BreakGlassAssumption DEF BreakGlassInit, CodesOK, LocksOK, NoBreakGlass
  <2> QED
    BY <2>1, <2>2, <2>3, <2>4 DEF BreakGlassInv
<1>2. BreakGlassFullType /\ BreakGlassInv => BreakGlassTypeOK /\ SessionEndsOnce
  <2> SUFFICES ASSUME BreakGlassFullType, BreakGlassInv
               PROVE  BreakGlassTypeOK /\ SessionEndsOnce
    OBVIOUS
  <2>1. BreakGlassTypeOK
    BY DEF BreakGlassFullType, BreakGlassTypeOK, GlassRow
  <2>2. ASSUME NEW s \in Sessions
        PROVE  /\ ending[s] = IF bg[s].ended \in {"NEVER", "NO"} THEN <<>> ELSE <<bg[s].ended>>
               /\ bg[s].ended \in {"TERMINATED", "EXPIRED"} <=> told[s] = {"STARTED", "ENDED"}
               /\ review[s] > 0 => review[s] = 1 /\ ~SessionActive(s) /\ bg[s].posthoc
    <3>1. SessionOK(s) /\ bg[s].ended \in {"NEVER", "NO", "TERMINATED", "EXPIRED"}
      BY DEF BreakGlassInv, BreakGlassFullType, GlassRow
    <3>2. {"STARTED"} # {"STARTED", "ENDED"} /\ {} # {"STARTED", "ENDED"}
      OBVIOUS
    <3> QED
      BY <3>1, <3>2 DEF SessionOK, SessionActive
  <2> QED
    BY <2>1, <2>2 DEF SessionEndsOnce, BreakGlassInv, CodesOK
<1> QED
  BY <1>1, <1>2, BreakGlassStepKeeps, PTL DEF BreakGlassSpec

-----------------------------------------------------------------------------
(***************************************************************************)
(* Setup.                                                                  *)
(***************************************************************************)
Stages == {"UNINITIALIZED", "PREFLIGHT_PASSED", "BOOTSTRAPPING", "BOOTSTRAP_FAILED",
           "CONFIGURED", "LOCKED", "RECONFIGURING"}
Tokens == {"none", "live", "used"}
ClerkWork == [at : {"idle", "verified", "migrate", "keys", "owner", "finish", "opened",
                    "setting"},
              session : Nat, version : Nat]

SetupFullType ==
  /\ machine \in [state : Stages \cup {"down"}, session : Nat, due : BOOLEAN]
  /\ token \in Tokens
  /\ file \in [state : Stages \cup {"absent"}, token : Tokens]
  /\ row \in [state : Stages \cup {"absent"}, session : Nat, open : BOOLEAN]
  /\ clerk \in [Clerks -> ClerkWork]
  /\ owners \in Nat
  /\ setting \in Seq(Nat)

\* A request past the Owner's transaction, or past the opening of a session,
\* has an Owner behind it.
SetupInv ==
  /\ OneOwner
  /\ \A c \in Clerks : clerk[c].at \in {"finish", "opened"} => owners = 1

\* The states that have an ordinal are all the states of the machine.
LEMMA StagesAre == DOMAIN StageOrdinal = Stages
BY DEF StageOrdinal, Stages

\* One request goes on; the others stay where they are.
LEMMA ClerkStepIs ==
  ASSUME SetupFullType, NEW c \in Clerks, NEW from,
         NEW to \in {"idle", "verified", "migrate", "keys", "owner", "finish", "opened",
                     "setting"},
         ClerkStep(c, from, to)
  PROVE  /\ clerk' \in [Clerks -> ClerkWork] /\ clerk'[c].at = to /\ clerk[c].at = from
         /\ \A d \in Clerks \ {c} : clerk'[d] = clerk[d]
<1>1. clerk[c] \in ClerkWork /\ clerk' = [clerk EXCEPT ![c].at = to] /\ clerk[c].at = from
  BY DEF SetupFullType, ClerkStep
<1>2. [clerk[c] EXCEPT !.at = to] \in ClerkWork /\ [clerk[c] EXCEPT !.at = to].at = to
  BY <1>1 DEF ClerkWork
<1>3. clerk' = [clerk EXCEPT ![c] = [clerk[c] EXCEPT !.at = to]]
  BY <1>1 DEF SetupFullType
<1> QED
  BY <1>1, <1>2, <1>3 DEF SetupFullType

\* reconcile invents nothing: LOCKED, CONFIGURED and RECONFIGURING come from
\* the file or the row.
LEMMA ReconcileIs ==
  ASSUME NEW local \in Stages \cup {"absent"}, NEW db \in Stages \cup {"absent"}
  PROVE  /\ Reconcile(local, db) \in Stages
         /\ Reconcile(local, db) \in {local, db, "UNINITIALIZED", "BOOTSTRAP_FAILED"}
<1>1. CASE db = "absent"
  BY <1>1 DEF Reconcile, Stages, DbAuthoritative
<1>2. CASE db # "absent" /\ db \in DbAuthoritative
  BY <1>2 DEF Reconcile, Stages
<1>3. CASE db # "absent" /\ db \notin DbAuthoritative
  BY <1>3 DEF Reconcile, Stages
<1> QED
  BY <1>1, <1>2, <1>3

\* Every step of the wizard, the bootstrap, a restart or a reconfiguration
\* keeps the invariant.
LEMMA SetupStepKeeps ==
  ASSUME SetupFullType, SetupInv, [SetupNext]_setupVars
  PROVE  SetupFullType' /\ SetupInv'
<1>0. /\ machine \in [state : Stages \cup {"down"}, session : Nat, due : BOOLEAN]
      /\ token \in Tokens /\ file \in [state : Stages \cup {"absent"}, token : Tokens]
      /\ row \in [state : Stages \cup {"absent"}, session : Nat, open : BOOLEAN]
      /\ clerk \in [Clerks -> ClerkWork] /\ owners \in Nat /\ setting \in Seq(Nat)
  BY DEF SetupFullType
<1>1. /\ owners <= 1 /\ (machine.state \in DbAuthoritative => owners = 1)
      /\ (file.state \in DbAuthoritative => owners = 1)
      /\ (row.state \in DbAuthoritative => owners = 1)
  BY DEF SetupInv, OneOwner
<1>2. ASSUME owners' = owners, SetupFullType',
             machine'.state \in DbAuthoritative => owners = 1,
             file'.state \in DbAuthoritative => owners = 1,
             row'.state \in DbAuthoritative => owners = 1,
             \A c \in Clerks : clerk'[c].at \in {"finish", "opened"} =>
               clerk'[c].at = clerk[c].at \/ owners = 1
      PROVE  SetupFullType' /\ SetupInv'
  BY <1>1, <1>2 DEF SetupInv, OneOwner
<1>3. /\ EarlyStates \subseteq Stages /\ EarlyStates \cap DbAuthoritative = {}
      /\ "BOOTSTRAPPING" \in Stages \ DbAuthoritative
      /\ "BOOTSTRAP_FAILED" \in Stages \ DbAuthoritative
      /\ "PREFLIGHT_PASSED" \in Stages \ DbAuthoritative
      /\ "UNINITIALIZED" \in Stages \ DbAuthoritative
      /\ {"LOCKED", "RECONFIGURING"} \subseteq Stages \cap DbAuthoritative
      /\ "down" \notin DbAuthoritative /\ "absent" \notin DbAuthoritative
  BY DEF EarlyStates, Stages, DbAuthoritative
<1>4. /\ NotBegun \in ClerkWork /\ NotBegun.at = "idle" /\ {"live", "used", "none"} \subseteq Tokens
  BY DEF NotBegun, ClerkWork, Tokens
<1>5. CASE IssueToken
  <2>1. /\ machine.state \in EarlyStates /\ token' = "live"
        /\ file' = [state |-> machine.state, token |-> "live"]
        /\ UNCHANGED <<machine, row, owners, clerk, setting>>
    BY <1>5 DEF IssueToken, PersistLocal, InState
  <2> QED
    BY <1>0, <1>1, <1>2, <1>3, <1>4, <2>1 DEF SetupFullType
<1>6. CASE Configure
  <2>1. /\ machine.state \in EarlyStates
        /\ file' = [state |-> machine.state, token |-> token]
        /\ UNCHANGED <<machine, token, row, owners, clerk, setting>>
    BY <1>6 DEF Configure, PersistLocal, InState
  <2> QED
    BY <1>0, <1>1, <1>2, <1>3, <2>1 DEF SetupFullType
<1>7. CASE HandleExpires \/ EnterMaintenance \/ UNCHANGED setupVars
  <2>1. UNCHANGED <<machine, token, file, row, owners, clerk, setting>>
    BY <1>7 DEF HandleExpires, EnterMaintenance, setupVars
  <2> QED
    BY <1>0, <1>1, <1>2, <2>1 DEF SetupFullType
<1>8. CASE Preflight
  <2>1. /\ machine' = [machine EXCEPT !.state = "PREFLIGHT_PASSED"]
        /\ file' = [state |-> "PREFLIGHT_PASSED", token |-> token]
        /\ UNCHANGED <<token, row, owners, clerk, setting>>
    BY <1>8 DEF Preflight, PersistLocal
  <2> QED
    BY <1>0, <1>1, <1>2, <1>3, <2>1 DEF SetupFullType
<1>9. ASSUME NEW c \in Clerks, VerifyToken(c) PROVE SetupFullType' /\ SetupInv'
  <2>1. PICK to \in {"idle", "verified"} : ClerkStep(c, "idle", to)
    BY <1>9 DEF VerifyToken
  <2>2. token' = "used" /\ UNCHANGED <<machine, file, row, owners, setting>>
    BY <1>9 DEF VerifyToken
  <2>3. /\ clerk' \in [Clerks -> ClerkWork] /\ clerk'[c].at = to
        /\ \A d \in Clerks \ {c} : clerk'[d] = clerk[d]
    BY <2>1, ClerkStepIs
  <2> QED
    BY <1>0, <1>1, <1>2, <1>4, <2>2, <2>3 DEF SetupFullType
<1>10. ASSUME NEW c \in Clerks, StartBootstrap(c) PROVE SetupFullType' /\ SetupInv'
  <2>1. /\ machine' = [machine EXCEPT !.state = "BOOTSTRAPPING"]
        /\ file' = [state |-> "BOOTSTRAPPING", token |-> token]
        /\ ClerkStep(c, "verified", "migrate") /\ UNCHANGED <<token, row, owners, setting>>
    BY <1>10 DEF StartBootstrap, PersistLocal
  <2>2. /\ clerk' \in [Clerks -> ClerkWork] /\ clerk'[c].at = "migrate"
        /\ \A d \in Clerks \ {c} : clerk'[d] = clerk[d]
    BY <2>1, ClerkStepIs
  <2> QED
    BY <1>0, <1>1, <1>2, <1>3, <2>1, <2>2 DEF SetupFullType
<1>11. ASSUME NEW c \in Clerks, BootstrapRefused(c) \/ ApplyKeyProvider(c)
       PROVE  SetupFullType' /\ SetupInv'
  <2>1. PICK to \in {"idle", "owner"}, from \in {"verified", "keys"} : ClerkStep(c, from, to)
    BY <1>11 DEF BootstrapRefused, ApplyKeyProvider
  <2>2. UNCHANGED <<machine, token, file, row, owners, setting>>
    BY <1>11 DEF BootstrapRefused, ApplyKeyProvider
  <2>3. /\ clerk' \in [Clerks -> ClerkWork] /\ clerk'[c].at = to
        /\ \A d \in Clerks \ {c} : clerk'[d] = clerk[d]
    BY <2>1, ClerkStepIs
  <2> QED
    BY <1>0, <1>1, <1>2, <2>2, <2>3 DEF SetupFullType
<1>12. ASSUME NEW c \in Clerks, ApplyDbMigration(c) PROVE SetupFullType' /\ SetupInv'
  <2>1. /\ ClerkStep(c, "migrate", "keys") /\ row' = [row EXCEPT !.state = "BOOTSTRAPPING"]
        /\ UNCHANGED <<machine, token, file, owners, setting>>
    BY <1>12 DEF ApplyDbMigration
  <2>2. /\ clerk' \in [Clerks -> ClerkWork] /\ clerk'[c].at = "keys"
        /\ \A d \in Clerks \ {c} : clerk'[d] = clerk[d]
    BY <2>1, ClerkStepIs
  <2> QED
    BY <1>0, <1>1, <1>2, <1>3, <2>1, <2>2 DEF SetupFullType
<1>13. ASSUME NEW c \in Clerks, ApplyOwnerIntegrationsCommit(c)
       PROVE  SetupFullType' /\ SetupInv'
  <2>1. /\ ~(owners > 0) /\ ClerkStep(c, "owner", "finish") /\ owners' = owners + 1
        /\ row' = [row EXCEPT !.state = "LOCKED"] /\ setting' = Append(setting, 0)
        /\ UNCHANGED <<machine, token, file>>
    BY <1>13 DEF ApplyOwnerIntegrationsCommit, OwnerExists
  <2>2. clerk' \in [Clerks -> ClerkWork]
    BY <2>1, ClerkStepIs
  <2>3. owners' = 1 /\ setting' \in Seq(Nat)
    BY <1>0, <2>1
  <2>4. row' \in [state : Stages \cup {"absent"}, session : Nat, open : BOOLEAN]
    BY <1>0, <1>3, <2>1
  <2>5. SetupFullType'
    BY <1>0, <2>1, <2>2, <2>3, <2>4 DEF SetupFullType
  <2> QED
    BY <2>3, <2>5 DEF SetupInv, OneOwner
<1>14. ASSUME NEW c \in Clerks, FailBootstrap(c) PROVE SetupFullType' /\ SetupInv'
  <2>1. /\ token' = "live" /\ machine' = [machine EXCEPT !.state = "BOOTSTRAP_FAILED"]
        /\ file' = [state |-> "BOOTSTRAP_FAILED", token |-> "live"]
        /\ row' \in {row, [row EXCEPT !.state = "BOOTSTRAP_FAILED"]}
        /\ clerk' = [clerk EXCEPT ![c] = NotBegun] /\ UNCHANGED <<owners, setting>>
    BY <1>14 DEF FailBootstrap, PersistLocal
  <2> QED
    BY <1>0, <1>1, <1>2, <1>3, <1>4, <2>1 DEF SetupFullType
<1>15. ASSUME NEW c \in Clerks, FinishBootstrap(c) PROVE SetupFullType' /\ SetupInv'
  <2>1. /\ ClerkStep(c, "finish", "idle") /\ machine' = [machine EXCEPT !.state = "LOCKED"]
        /\ file' = [state |-> "LOCKED", token |-> "none"]
        /\ UNCHANGED <<token, row, owners, setting>>
    BY <1>15 DEF FinishBootstrap
  <2>2. /\ clerk' \in [Clerks -> ClerkWork] /\ clerk'[c].at = "idle" /\ clerk[c].at = "finish"
        /\ \A d \in Clerks \ {c} : clerk'[d] = clerk[d]
    BY <2>1, ClerkStepIs
  <2>3. owners = 1
    BY <2>2 DEF SetupInv
  <2> QED
    BY <1>0, <1>2, <1>3, <1>4, <2>1, <2>2, <2>3 DEF SetupFullType
<1>16. CASE KillProcess
  <2>1. /\ machine' = ProcessDown /\ token' = "none"
        /\ clerk' = [c \in Clerks |-> NotBegun] /\ UNCHANGED <<file, row, owners, setting>>
    BY <1>16 DEF KillProcess
  <2>2. /\ ProcessDown \in [state : Stages \cup {"down"}, session : Nat, due : BOOLEAN]
        /\ ProcessDown.state = "down"
    BY DEF ProcessDown
  <2> QED
    BY <1>0, <1>1, <1>2, <1>3, <1>4, <2>1, <2>2 DEF SetupFullType
<1>17. ASSUME NEW db \in BOOLEAN, NEW late \in BOOLEAN, Restart(db, late)
       PROVE  SetupFullType' /\ SetupInv'
  <2> DEFINE seen == IF db THEN row.state ELSE "absent"
             state == Reconcile(file.state, seen)
             reopened == state = "RECONFIGURING" /\ row.open /\ ~late
             now == CASE state = "BOOTSTRAPPING" -> "BOOTSTRAP_FAILED"
                      [] state = "RECONFIGURING" -> IF reopened THEN state ELSE "LOCKED"
                      [] OTHER -> state
  <2>1. /\ machine' = [state |-> now, session |-> IF reopened THEN row.session ELSE 0,
                       due |-> FALSE]
        /\ token' = IF state = "BOOTSTRAPPING" THEN "live" ELSE file.token
        /\ file' = IF db /\ row.state \in DbAuthoritative
                   THEN [state |-> "LOCKED", token |-> "none"]
                   ELSE IF file.state = "absent" /\ state # "BOOTSTRAPPING" THEN file
                   ELSE [state |-> now, token |-> token']
        /\ row' = IF state = "RECONFIGURING" /\ row.open /\ late
                  THEN [row EXCEPT !.open = FALSE, !.state = "LOCKED"] ELSE row
        /\ UNCHANGED <<owners, setting, clerk>>
    BY <1>17 DEF Restart
  <2>2. file.state \in Stages \cup {"absent"} /\ seen \in Stages \cup {"absent"}
        /\ row.session \in Nat /\ file.token \in Tokens
    BY <1>0
  <2>3. state \in Stages /\ state \in {file.state, seen, "UNINITIALIZED", "BOOTSTRAP_FAILED"}
    BY <2>2, ReconcileIs
  <2>4. state \in DbAuthoritative => owners = 1
    BY <1>1, <1>3, <2>3
  <2> HIDE DEF state
  <2>5. now \in Stages /\ (now \in DbAuthoritative => state \in DbAuthoritative)
    BY <1>3, <2>3
  <2> HIDE DEF now, seen
  <2>6. /\ machine' \in [state : Stages \cup {"down"}, session : Nat, due : BOOLEAN]
        /\ machine'.state = now
    BY <2>1, <2>2, <2>5
  <2>7. token' \in Tokens
    BY <1>4, <2>1, <2>2
  <2>8. /\ file' \in [state : Stages \cup {"absent"}, token : Tokens]
        /\ file'.state \in DbAuthoritative => owners = 1
    <3>1. CASE db /\ row.state \in DbAuthoritative
      <4>1. file' = [state |-> "LOCKED", token |-> "none"]
        BY <2>1, <3>1
      <4> QED
        BY <1>1, <1>3, <1>4, <3>1, <4>1
    <3>2. CASE ~(db /\ row.state \in DbAuthoritative)
      <4>1. file' \in {file, [state |-> now, token |-> token']}
        BY <2>1, <3>2
      <4> QED
        BY <1>0, <1>1, <2>4, <2>5, <2>7, <4>1
    <3> QED
      BY <3>1, <3>2
  <2>9. /\ row' \in [state : Stages \cup {"absent"}, session : Nat, open : BOOLEAN]
        /\ row'.state \in DbAuthoritative => owners = 1
    <3>1. CASE state = "RECONFIGURING" /\ row.open /\ late
      <4>1. row' = [row EXCEPT !.open = FALSE, !.state = "LOCKED"]
        BY <2>1, <3>1
      <4> QED
        BY <1>0, <1>3, <2>4, <3>1, <4>1
    <3>2. CASE ~(state = "RECONFIGURING" /\ row.open /\ late)
      BY <1>0, <1>1, <2>1, <3>2
    <3> QED
      BY <3>1, <3>2
  <2> QED
    BY <1>0, <1>2, <2>1, <2>4, <2>5, <2>6, <2>7, <2>8, <2>9 DEF SetupFullType
<1>18. ASSUME NEW c \in Clerks, OpenReconfiguration(c) PROVE SetupFullType' /\ SetupInv'
  <2>1. /\ <<machine.state, "RECONFIGURING">> \in SetupTransitions
        /\ ClerkStep(c, "idle", "opened") /\ UNCHANGED <<token, file, row, owners, setting>>
        /\ machine' = [state |-> "RECONFIGURING", session |-> row.session + 1, due |-> FALSE]
    BY <1>18 DEF OpenReconfiguration, CanTransition
  <2>2. machine.state = "LOCKED"
    BY <2>1 DEF SetupTransitions
  <2>3. clerk' \in [Clerks -> ClerkWork]
    BY <2>1, ClerkStepIs
  <2> QED
    BY <1>0, <1>1, <1>2, <1>3, <2>1, <2>2, <2>3 DEF SetupFullType
<1>19. ASSUME NEW c \in Clerks, CommitReconfiguration(c) PROVE SetupFullType' /\ SetupInv'
  <2>1. /\ ClerkStep(c, "opened", "idle") /\ UNCHANGED <<machine, token, file, owners, setting>>
        /\ row' = [state |-> "RECONFIGURING", session |-> row.session + 1, open |-> TRUE]
    BY <1>19 DEF CommitReconfiguration
  <2>2. clerk' \in [Clerks -> ClerkWork] /\ clerk[c].at = "opened"
    BY <2>1, ClerkStepIs
  <2>3. owners = 1
    BY <2>2 DEF SetupInv
  <2> QED
    BY <1>0, <1>2, <1>3, <2>1, <2>2, <2>3 DEF SetupFullType
<1>20. CASE SessionRunsOut
  <2>1. /\ machine' = [machine EXCEPT !.due = TRUE]
        /\ UNCHANGED <<token, file, row, owners, clerk, setting>>
    BY <1>20 DEF SessionRunsOut
  <2> QED
    BY <1>0, <1>1, <1>2, <2>1 DEF SetupFullType
<1>21. CASE CloseReconfiguration \/ \E rowToo \in BOOLEAN : ExpireSession(rowToo)
  <2>1. /\ machine.state = "RECONFIGURING" /\ machine' = [ProcessDown EXCEPT !.state = "LOCKED"]
        /\ row' \in {row, [row EXCEPT !.open = FALSE, !.state = "LOCKED"]}
        /\ UNCHANGED <<token, file, owners, clerk, setting>>
    BY <1>21 DEF CloseReconfiguration, ExpireSession, InState
  <2>2. machine' = [state |-> "LOCKED", session |-> 0, due |-> FALSE]
    BY <2>1 DEF ProcessDown
  <2>3. /\ machine' \in [state : Stages \cup {"down"}, session : Nat, due : BOOLEAN]
        /\ owners = 1
    <3>1. owners = 1 /\ "LOCKED" \in Stages \cup {"down"}
      BY <1>1, <1>3, <2>1
    <3> QED
      BY ONLY <2>2, <3>1
  <2>4. row' \in [state : Stages \cup {"absent"}, session : Nat, open : BOOLEAN]
    BY <1>0, <1>3, <2>1
  <2>5. SetupFullType'
    BY <1>0, <2>1, <2>3, <2>4 DEF SetupFullType
  <2> QED
    BY <1>2, <2>1, <2>3, <2>5
<1>22. ASSUME NEW c \in Clerks, NEW inSession \in BOOLEAN, ReadSetting(c, inSession)
       PROVE  SetupFullType' /\ SetupInv'
  <2> DEFINE w == [at |-> "setting", session |-> IF inSession THEN machine.session ELSE 0,
                   version |-> Len(setting) + 1]
  <2>1. clerk' = [clerk EXCEPT ![c] = w] /\ UNCHANGED <<machine, token, file, row, owners, setting>>
    BY <1>22 DEF ReadSetting
  <2>2. w \in ClerkWork /\ w.at = "setting"
    BY <1>0 DEF ClerkWork
  <2> HIDE DEF w
  <2> QED
    BY <1>0, <1>1, <1>2, <2>1, <2>2 DEF SetupFullType
<1>23. ASSUME NEW c \in Clerks, SetSetting(c) PROVE SetupFullType' /\ SetupInv'
  <2>1. /\ clerk' = [clerk EXCEPT ![c] = NotBegun]
        /\ setting' \in {setting, Append(setting, clerk[c].session)}
        /\ UNCHANGED <<machine, token, file, row, owners>>
    BY <1>23 DEF SetSetting
  <2>2. setting' \in Seq(Nat)
    <3>1. clerk[c].session \in Nat
      BY <1>0 DEF ClerkWork
    <3>2. Append(setting, clerk[c].session) \in Seq(Nat)
      BY <1>0, <3>1
    <3> QED
      BY <1>0, <2>1, <3>2
  <2> QED
    BY <1>0, <1>1, <1>2, <1>4, <2>1, <2>2 DEF SetupFullType
<1> QED
  BY <1>5, <1>6, <1>7, <1>8, <1>9, <1>10, <1>11, <1>12, <1>13, <1>14, <1>15, <1>16, <1>17,
     <1>18, <1>19, <1>20, <1>21, <1>22, <1>23 DEF SetupNext

\* One Owner at most, and nothing is LOCKED or RECONFIGURING without one,
\* however often the bootstrap dies and is retried.
THEOREM SetupOneOwner == SetupSpec => [](SetupTypeOK /\ OneOwner)
<1>1. SetupInit => SetupFullType /\ SetupInv
  <2> SUFFICES ASSUME SetupInit PROVE SetupFullType /\ SetupInv
    OBVIOUS
  <2>1. machine = [state |-> "UNINITIALIZED", session |-> 0, due |-> FALSE]
    BY DEF SetupInit, ProcessDown
  <2>2. /\ machine \in [state : Stages \cup {"down"}, session : Nat, due : BOOLEAN]
        /\ token \in Tokens
    <3>1. "UNINITIALIZED" \in Stages \cup {"down"} /\ token \in Tokens
      BY DEF SetupInit, Stages, Tokens
    <3> QED
      BY ONLY <2>1, <3>1
  <2>3. /\ file \in [state : Stages \cup {"absent"}, token : Tokens]
        /\ row \in [state : Stages \cup {"absent"}, session : Nat, open : BOOLEAN]
    BY DEF SetupInit, NoFile, Tokens
  <2>4. clerk \in [Clerks -> ClerkWork]
    BY DEF SetupInit, NotBegun, ClerkWork
  <2>5. SetupFullType
    BY <2>2, <2>3, <2>4 DEF SetupInit, SetupFullType
  <2> QED
    BY <2>1, <2>5 DEF SetupInit, SetupInv, OneOwner, NoFile, NotBegun, DbAuthoritative
<1>2. SetupFullType /\ SetupInv => SetupTypeOK /\ OneOwner
  BY StagesAre DEF SetupFullType, SetupInv, SetupTypeOK, ClerkWork, Tokens
<1> QED
  BY <1>1, <1>2, SetupStepKeeps, PTL DEF SetupSpec

-----------------------------------------------------------------------------
(***************************************************************************)
(* Hard delete.                                                            *)
(***************************************************************************)
\* What a ledger is: entries that carry the chain before them, about targets,
\* one for each key.
GoodChain(c) ==
  /\ \E S : c \in Seq(S)
  /\ Intact(c) /\ KeysIn(c) \subseteq Targets
  /\ IsFiniteSet(KeysIn(c)) /\ Cardinality(KeysIn(c)) = Len(c)

\* A tombstone for a key that has none keeps a ledger what it is.
LEMMA TombstoneKeeps ==
  ASSUME NEW c, GoodChain(c), NEW t \in Targets, t \notin KeysIn(c), NEW why
  PROVE  /\ GoodChain(c \o Tombstone(t, why, c))
         /\ KeysIn(c \o Tombstone(t, why, c)) = KeysIn(c) \cup {t}
<1> DEFINE e == [key |-> t, why |-> why, prev |-> c]
           d == c \o Tombstone(t, why, c)
<1>1. PICK S : c \in Seq(S)
  BY DEF GoodChain
<1>2. c \in Seq(S \cup {e}) /\ <<e>> \in Seq(S \cup {e}) /\ d = c \o <<e>>
  BY <1>1, SeqMonotonic DEF Tombstone
<1>3. e.key = t /\ e.prev = c
  OBVIOUS
<1> HIDE DEF e, d
<1>4. /\ d \in Seq(S \cup {e}) /\ Len(d) = Len(c) + 1 /\ Len(c) \in Nat
      /\ DOMAIN d = 1 .. Len(c) + 1 /\ DOMAIN c = 1 .. Len(c)
      /\ d[Len(c) + 1] = e /\ \A i \in 1 .. Len(c) : d[i] = c[i]
  BY <1>2
<1>5. Intact(d)
  <2> SUFFICES ASSUME NEW i \in 1 .. Len(c) + 1 PROVE d[i].prev = SubSeq(d, 1, i - 1)
    BY <1>4 DEF Intact
  <2>1. SubSeq(d, 1, i - 1) = SubSeq(c, 1, i - 1)
    <3>1. SubSeq(d, 1, i - 1) \in Seq(S \cup {e}) /\ SubSeq(c, 1, i - 1) \in Seq(S \cup {e})
      BY <1>2, <1>4
    <3>2. Len(SubSeq(d, 1, i - 1)) = i - 1 /\ Len(SubSeq(c, 1, i - 1)) = i - 1
      BY <1>2, <1>4
    <3>3. \A j \in 1 .. i - 1 : SubSeq(d, 1, i - 1)[j] = SubSeq(c, 1, i - 1)[j]
      BY <1>2, <1>4
    <3> QED
      BY <3>1, <3>2, <3>3, SeqEqual
  <2>2. CASE i <= Len(c)
    <3>1. i \in DOMAIN c /\ d[i] = c[i]
      BY <1>4, <2>2
    <3>2. c[i].prev = SubSeq(c, 1, i - 1)
      BY <3>1 DEF GoodChain, Intact
    <3> QED
      BY <2>1, <3>1, <3>2
  <2>3. CASE i = Len(c) + 1
    <3>1. SubSeq(c, 1, i - 1) = c
      BY <1>1, <1>4, <2>3, SubSeqFull
    <3> QED
      BY <1>3, <1>4, <2>1, <2>3, <3>1
  <2> QED
    BY <1>4, <2>2, <2>3
<1>6. KeysIn(d) = KeysIn(c) \cup {t}
  <2>1. \A i \in 1 .. Len(c) + 1 : d[i].key \in KeysIn(c) \cup {t}
    BY <1>3, <1>4 DEF KeysIn
  <2>2. \A i \in 1 .. Len(c) : c[i].key \in KeysIn(d)
    BY <1>4 DEF KeysIn
  <2>3. d[Len(c) + 1].key = t /\ Len(c) + 1 \in DOMAIN d
    BY <1>3, <1>4
  <2> QED
    BY <1>4, <2>1, <2>2, <2>3 DEF KeysIn
<1>7. IsFiniteSet(KeysIn(d)) /\ Cardinality(KeysIn(d)) = Len(d)
  <2>1. /\ IsFiniteSet(KeysIn(c) \cup {t})
        /\ Cardinality(KeysIn(c) \cup {t}) = Cardinality(KeysIn(c)) + 1
    BY FS_AddElement DEF GoodChain
  <2> QED
    BY <1>4, <1>6, <2>1 DEF GoodChain
<1> QED
  BY <1>4, <1>5, <1>6, <1>7 DEF GoodChain, d

\* The recursion of Imported has a solution, and Imported is its last value.
LEMMA ImportedRuns ==
  ASSUME NEW entries, NEW chain, Len(entries) \in Nat
  PROVE  \E f : /\ f = [n \in 0 .. Len(entries) |->
                         IF n = 0 THEN chain ELSE ImportEntry(f[n - 1], entries[n])]
                /\ Imported(entries, chain) = f[Len(entries)]
<1> DEFINE Runs(f, m) == f = [n \in 0 .. m |-> IF n = 0 THEN chain
                                               ELSE ImportEntry(f[n - 1], entries[n])]
           S == {m \in Nat : \E f : Runs(f, m)}
<1>1. 0 \in S
  <2>1. Runs([n \in 0 .. 0 |-> chain], 0)
    OBVIOUS
  <2> QED
    BY <2>1
<1>2. ASSUME NEW m \in Nat, m \in S PROVE m + 1 \in S
  <2>1. PICK g : Runs(g, m)
    BY <1>2
  <2> DEFINE h == [n \in 0 .. m + 1 |-> IF n <= m THEN g[n]
                                        ELSE ImportEntry(g[m], entries[m + 1])]
  <2>2. ASSUME NEW n \in 0 .. m + 1
        PROVE  h[n] = IF n = 0 THEN chain ELSE ImportEntry(h[n - 1], entries[n])
    <3>1. CASE n = 0
      BY <2>1, <3>1
    <3>2. CASE n # 0 /\ n <= m
      <4>1. n - 1 \in 0 .. m /\ h[n - 1] = g[n - 1] /\ h[n] = g[n]
        BY <3>2
      <4>2. g[n] = ImportEntry(g[n - 1], entries[n])
        BY <2>1, <3>2
      <4> QED
        BY <3>2, <4>1, <4>2
    <3>3. CASE n = m + 1
      BY <3>3
    <3> QED
      BY <3>1, <3>2, <3>3
  <2>3. Runs(h, m + 1)
    BY <2>2
  <2> HIDE DEF h, Runs
  <2> QED
    BY <2>3
<1>3. Len(entries) \in S
  <2> HIDE DEF S
  <2> QED
    BY <1>1, <1>2, Induction
<1>4. \E f : Runs(f, Len(entries))
  BY <1>3
<1>5. Imported(entries, chain) = (CHOOSE f : Runs(f, Len(entries)))[Len(entries)]
  BY DEF Imported
<1>6. Runs(CHOOSE f : Runs(f, Len(entries)), Len(entries))
  BY <1>4
<1> QED
  BY <1>5, <1>6

\* import_and_apply leaves a ledger with the keys of both.
LEMMA ImportedIs ==
  ASSUME NEW entries, NEW chain, GoodChain(entries), GoodChain(chain)
  PROVE  /\ GoodChain(Imported(entries, chain))
         /\ KeysIn(Imported(entries, chain)) = KeysIn(chain) \cup KeysIn(entries)
<1>1. PICK T : entries \in Seq(T)
  BY DEF GoodChain
<1>2. Len(entries) \in Nat /\ DOMAIN entries = 1 .. Len(entries)
  BY <1>1
<1>3. PICK f : /\ f = [n \in 0 .. Len(entries) |->
                        IF n = 0 THEN chain ELSE ImportEntry(f[n - 1], entries[n])]
               /\ Imported(entries, chain) = f[Len(entries)]
  BY <1>2, ImportedRuns
<1> DEFINE KeysOf(n) == {entries[i].key : i \in 1 .. n}
           Good(n) == GoodChain(f[n]) /\ KeysIn(f[n]) = KeysIn(chain) \cup KeysOf(n)
           S == {n \in Nat : n <= Len(entries) => Good(n)}
<1>4. 0 \in S
  <2>1. f[0] = chain /\ KeysOf(0) = {}
    BY <1>2, <1>3
  <2> QED
    BY <2>1
<1>5. ASSUME NEW n \in Nat, n \in S PROVE n + 1 \in S
  <2> SUFFICES ASSUME n + 1 <= Len(entries) PROVE Good(n + 1)
    OBVIOUS
  <2>1. f[n + 1] = ImportEntry(f[n], entries[n + 1])
    BY <1>2, <1>3
  <2>2. GoodChain(f[n]) /\ KeysIn(f[n]) = KeysIn(chain) \cup KeysOf(n)
    BY <1>2, <1>5
  <2>3. KeysOf(n + 1) = KeysOf(n) \cup {entries[n + 1].key}
    <3>1. \A i \in 1 .. n + 1 : i \in 1 .. n \/ i = n + 1
      OBVIOUS
    <3>2. 1 .. n \subseteq 1 .. n + 1 /\ n + 1 \in 1 .. n + 1
      OBVIOUS
    <3> QED
      BY <3>1, <3>2
  <2>4. entries[n + 1].key \in Targets
    <3>1. n + 1 \in DOMAIN entries
      BY <1>2
    <3>2. entries[n + 1].key \in KeysIn(entries)
      BY <3>1 DEF KeysIn
    <3> QED
      BY <3>2 DEF GoodChain
  <2> HIDE DEF KeysOf
  <2>5. CASE entries[n + 1].key \in KeysIn(f[n])
    BY <2>1, <2>2, <2>3, <2>5 DEF ImportEntry
  <2>6. CASE entries[n + 1].key \notin KeysIn(f[n])
    BY <2>1, <2>2, <2>3, <2>4, <2>6, TombstoneKeeps DEF ImportEntry
  <2> QED
    BY <2>5, <2>6
<1>6. Len(entries) \in S
  <2> HIDE DEF S
  <2> QED
    BY <1>2, <1>4, <1>5, Induction
<1>7. KeysOf(Len(entries)) = KeysIn(entries)
  BY <1>2 DEF KeysIn
<1> QED
  BY <1>2, <1>3, <1>6, <1>7

\* The rows, the contents of a database and a transaction, by what each says
\* of the others.
RequestRow == [status : RequestStatus, target : Targets \cup {"none"},
               grant : {"NONE", "PENDING", "APPROVED", "REJECTED", "CANCELLED", "EXPIRED"},
               yes : 0 .. 2, waited : BOOLEAN]
RequestGood(it, keys, n) ==
  /\ it.status # "NONE" => it.target \in Targets
  /\ it.status = "APPROVED_WAITING" => it.yes = 2
  /\ n = IF it.status = "EXECUTED" THEN 1 ELSE 0
  /\ it.status = "EXECUTED" => it.yes = 2 /\ it.waited /\ keys[it.target] = "destroyed"
DatabaseGood(rows, keys, chain, runs) ==
  /\ rows \in [Requests -> RequestRow] /\ keys \in [Targets -> {"live", "destroyed"}]
  /\ runs \in [Requests -> Nat] /\ GoodChain(chain)
  /\ KeysIn(chain) = {t \in Targets : keys[t] = "destroyed"}
  /\ \A r \in Requests : RequestGood(rows[r], keys, runs[r])
OfficerIs(w) ==
  w \in [op : {"idle", "open", "execute", "retain", "executing", "retaining"},
         req : Requests \cup {"none"}, target : Targets \cup {"none"}, stale : BOOLEAN,
         prev : {w.prev}, shred : BOOLEAN]
OfficerGood(w, o, rows, keys, chain, locks, serving) ==
  /\ OfficerIs(w)
  /\ w.op = "idle" => w = OffDuty
  /\ w.op # "idle" => serving /\ w.target \in Targets
  /\ w.op \in {"execute", "executing"} =>
       /\ w.req \in Requests /\ <<w.req, o>> \in locks
       /\ rows[w.req].status = "APPROVED_WAITING" /\ rows[w.req].waited
       /\ rows[w.req].target = w.target
  /\ w.op \in {"executing", "retaining"} =>
       /\ <<w.target, o>> \in locks /\ (w.shred <=> keys[w.target] = "live")
       /\ w.shred => <<"chain", o>> \in locks /\ w.prev = chain
HdLocksOK ==
  /\ hdLock \subseteq (Requests \cup Targets \cup {"chain"}) \X Officers
  /\ \A x, o, p : <<x, o>> \in hdLock /\ <<x, p>> \in hdLock => o = p

HardDeleteInv ==
  /\ DatabaseGood(hd, dek, ledger, stones)
  /\ DatabaseGood(dump.hd, dump.dek, dump.ledger, dump.stones)
  /\ GoodChain(exported)
  /\ Serving => \A t \in KeysIn(exported) : dek[t] = "destroyed"
  /\ officer = [o \in Officers |-> officer[o]]
  /\ \A o \in Officers : OfficerGood(officer[o], o, hd, dek, ledger, hdLock, Serving)
  /\ HdLocksOK /\ blobs \subseteq Targets
  /\ restores \in (0 .. MaxRestores) \X BOOLEAN

\* An Event that commits only makes the digest of an execution stale.
LEMMA StaleKeeps ==
  ASSUME NEW w, NEW o, NEW rows, NEW keys, NEW chain, NEW locks, NEW serving,
         OfficerGood(w, o, rows, keys, chain, locks, serving)
  PROVE  OfficerGood([w EXCEPT !.stale = w.op \in {"execute", "executing"}], o, rows, keys,
                     chain, locks, serving)
<1> DEFINE b == w.op \in {"execute", "executing"}
           v == [w EXCEPT !.stale = b]
<1>1. OfficerIs(w) /\ b \in BOOLEAN
  BY DEF OfficerGood
<1>2. /\ OfficerIs(v) /\ v.op = w.op /\ v.req = w.req /\ v.target = w.target
      /\ v.prev = w.prev /\ v.shred = w.shred /\ v.stale = b
  <2> HIDE DEF b
  <2> QED
    BY <1>1 DEF OfficerIs
<1>3. w.op = "idle" => v = OffDuty
  <2> SUFFICES ASSUME w.op = "idle" PROVE v = OffDuty
    OBVIOUS
  <2>1. w = OffDuty /\ b = FALSE
    BY DEF OfficerGood
  <2>2. /\ OffDuty.stale = FALSE
        /\ OffDuty \in [op : {"idle"}, req : {"none"}, target : {"none"}, stale : BOOLEAN,
                        prev : {<<>>}, shred : BOOLEAN]
    BY DEF OffDuty
  <2>3. [OffDuty EXCEPT !.stale = FALSE] = OffDuty
    BY <2>2
  <2> HIDE DEF b
  <2> QED
    BY <2>1, <2>3
<1> HIDE DEF v
<1> QED
  BY <1>2, <1>3 DEF OfficerGood, v

\* A transaction that holds its locks is not disturbed by what happens to rows
\* and keys it has not locked.
LEMMA OtherOfficerKeeps ==
  ASSUME NEW w, NEW o, NEW rows, NEW keys, NEW chain, NEW locks, NEW serving,
         OfficerGood(w, o, rows, keys, chain, locks, serving),
         NEW rows2, NEW keys2, NEW chain2, NEW locks2,
         \A x : <<x, o>> \in locks => <<x, o>> \in locks2,
         \A r \in Requests : <<r, o>> \in locks =>
            rows2[r] = rows[r] \/ rows[r].status # "APPROVED_WAITING"
                               \/ (/\ rows2[r].status = "APPROVED_WAITING" /\ rows2[r].waited
                                   /\ rows2[r].target = rows[r].target),
         \A t \in Targets : <<t, o>> \in locks => keys2[t] = keys[t],
         <<"chain", o>> \in locks => chain2 = chain
  PROVE  OfficerGood(w, o, rows2, keys2, chain2, locks2, serving)
BY DEF OfficerGood

\* A step of one officer, with or without an Event: it is enough to look at
\* what the officer becomes and what it leaves to the others.
LEMMA OfficerStepKeeps ==
  ASSUME HardDeleteInv, NEW o \in Officers, NEW w,
         \/ officer' = [officer EXCEPT ![o] = w]
         \/ officer' = EventFor([officer EXCEPT ![o] = w]),
         OfficerGood(w, o, hd', dek', ledger', hdLock', Serving),
         \A p \in Officers \ {o} :
           OfficerGood(officer[p], p, hd', dek', ledger', hdLock', Serving),
         DatabaseGood(hd', dek', ledger', stones'),
         \A t \in Targets : dek[t] = "destroyed" => dek'[t] = "destroyed",
         HdLocksOK', blobs' \subseteq Targets, UNCHANGED <<dump, exported, restores>>
  PROVE  HardDeleteInv'
<1> DEFINE f == [officer EXCEPT ![o] = w]
<1>1. f = [p \in Officers |-> f[p]] /\ f[o] = w /\ \A p \in Officers \ {o} : f[p] = officer[p]
  BY DEF HardDeleteInv
<1>2. \A p \in Officers : OfficerGood(f[p], p, hd', dek', ledger', hdLock', Serving)
  BY <1>1
<1>3. Serving' = Serving
  BY DEF Serving
<1> HIDE DEF f
<1>4. /\ officer' = [p \in Officers |-> officer'[p]]
      /\ \A p \in Officers : OfficerGood(officer'[p], p, hd', dek', ledger', hdLock', Serving')
  <2>1. CASE officer' = f
    BY <1>1, <1>2, <1>3, <2>1
  <2>2. CASE officer' = EventFor(f)
    <3>1. /\ officer' = [p \in Officers |-> officer'[p]]
          /\ \A p \in Officers :
               officer'[p] = [f[p] EXCEPT !.stale = f[p].op \in {"execute", "executing"}]
      BY <2>2 DEF EventFor
    <3> QED
      BY <1>2, <1>3, <3>1, StaleKeeps
  <2> QED
    BY <2>1, <2>2 DEF f
<1>5. Serving' => \A t \in KeysIn(exported') : dek'[t] = "destroyed"
  BY <1>3 DEF HardDeleteInv, GoodChain
<1> QED
  BY <1>3, <1>4, <1>5 DEF HardDeleteInv

\* An officer that ends holds no lock; the others keep theirs.
LEMMA LocksReleased ==
  ASSUME HdLocksOK, NEW o, hdLock' = {l \in hdLock : l[2] # o}
  PROVE  HdLocksOK' /\ \A x, p : p # o => (<<x, p>> \in hdLock' <=> <<x, p>> \in hdLock)
BY DEF HdLocksOK

\* A lock is taken only when nobody else has it.
LEMMA LocksTaken ==
  ASSUME HdLocksOK, NEW o \in Officers, NEW X, X \subseteq Requests \cup Targets \cup {"chain"},
         \A x \in X : FreeFor(o, x), Mutexes(o, X)
  PROVE  /\ HdLocksOK' /\ \A x \in X : <<x, o>> \in hdLock'
         /\ \A x, p : <<x, p>> \in hdLock => <<x, p>> \in hdLock'
<1>1. hdLock' = hdLock \cup (X \X {o})
  BY DEF Mutexes
<1>2. ASSUME NEW x, NEW p, NEW q, <<x, p>> \in hdLock', <<x, q>> \in hdLock' PROVE p = q
  <2>1. \A y, s : <<y, s>> \in hdLock' => <<y, s>> \in hdLock \/ (y \in X /\ s = o)
    BY <1>1
  <2>2. \A y \in X : \A s : <<y, s>> \in hdLock => s = o
    BY DEF FreeFor
  <2> QED
    BY <1>2, <2>1, <2>2 DEF HdLocksOK
<1> QED
  BY <1>1, <1>2 DEF HdLocksOK

\* Each transition of a request keeps what its row promises.
LEMMA RequestOpens ==
  ASSUME NEW t \in Targets, NEW keys, NEW n, RequestGood(NoRequest, keys, n)
  PROVE  LET new == [NoRequest EXCEPT !.status = "PENDING_APPROVAL", !.target = t,
                                      !.grant = "PENDING"]
         IN  new \in RequestRow /\ RequestGood(new, keys, n)
<1> DEFINE new == [NoRequest EXCEPT !.status = "PENDING_APPROVAL", !.target = t,
                                    !.grant = "PENDING"]
<1>1. /\ NoRequest \in RequestRow /\ NoRequest.status = "NONE" /\ t \in Targets \cup {"none"}
      /\ {"PENDING_APPROVAL", "EXECUTED"} \subseteq RequestStatus
  BY DEF NoRequest, RequestRow, RequestStatus
<1>2. new \in RequestRow /\ new.status = "PENDING_APPROVAL" /\ new.target = t
  BY <1>1 DEF RequestRow
<1> HIDE DEF new
<1>3. RequestGood(new, keys, n)
  BY <1>1, <1>2 DEF RequestGood
<1> QED
  BY <1>2, <1>3 DEF new

\* A request that is pending is refused.
LEMMA RequestRejected ==
  ASSUME NEW it \in RequestRow, NEW keys, NEW n, RequestGood(it, keys, n),
         it.status = "PENDING_APPROVAL"
  PROVE  LET new == [it EXCEPT !.status = "REJECTED", !.grant = "REJECTED"]
         IN  new \in RequestRow /\ RequestGood(new, keys, n)
BY DEF RequestRow, RequestGood, RequestStatus

\* The first approval.
LEMMA RequestApprovedOnce ==
  ASSUME NEW it \in RequestRow, NEW keys, NEW n, RequestGood(it, keys, n),
         it.status = "PENDING_APPROVAL"
  PROVE  LET new == [it EXCEPT !.yes = 1]
         IN  new \in RequestRow /\ RequestGood(new, keys, n)
BY DEF RequestRow, RequestGood, RequestStatus

\* The second approval.
LEMMA RequestApprovedTwice ==
  ASSUME NEW it \in RequestRow, NEW keys, NEW n, RequestGood(it, keys, n),
         it.status = "PENDING_APPROVAL"
  PROVE  LET new == [it EXCEPT !.yes = 2, !.status = "APPROVED_WAITING", !.grant = "APPROVED"]
         IN  new \in RequestRow /\ RequestGood(new, keys, n)
<1> DEFINE new == [it EXCEPT !.yes = 2, !.status = "APPROVED_WAITING", !.grant = "APPROVED"]
<1>1. /\ 2 \in 0 .. 2 /\ "APPROVED_WAITING" \in RequestStatus /\ it.target \in Targets
      /\ n = 0
  BY DEF RequestGood, RequestStatus
<1>2. /\ new \in RequestRow /\ new.status = "APPROVED_WAITING" /\ new.yes = 2
      /\ new.target = it.target
  BY <1>1 DEF RequestRow
<1> HIDE DEF new
<1>3. new \in RequestRow /\ RequestGood(new, keys, n)
  BY <1>1, <1>2 DEF RequestGood
<1> QED
  BY <1>3 DEF new

\* A request is withdrawn.
LEMMA RequestCancelled ==
  ASSUME NEW it \in RequestRow, NEW keys, NEW n, RequestGood(it, keys, n),
         it.status \in {"PENDING_APPROVAL", "APPROVED_WAITING"}
  PROVE  LET new == [it EXCEPT !.status = "CANCELLED",
                                !.grant = IF @ \in {"PENDING", "APPROVED"}
                                          THEN "CANCELLED" ELSE @]
         IN  new \in RequestRow /\ RequestGood(new, keys, n)
BY DEF RequestRow, RequestGood, RequestStatus

\* The grant expires, or the waiting period is over.
LEMMA RequestAges ==
  ASSUME NEW it \in RequestRow, NEW keys, NEW n, RequestGood(it, keys, n),
         NEW new \in {[it EXCEPT !.grant = "EXPIRED"], [it EXCEPT !.waited = TRUE]}
  PROVE  /\ new \in RequestRow /\ RequestGood(new, keys, n)
         /\ new.status = it.status /\ new.target = it.target
         /\ it.waited => new.waited
BY DEF RequestRow, RequestGood

\* One request changes, the rest of the database stays.
LEMMA RequestWriteKeeps ==
  ASSUME NEW rows, NEW keys, NEW chain, NEW runs, DatabaseGood(rows, keys, chain, runs),
         NEW r \in Requests, NEW it \in RequestRow, RequestGood(it, keys, runs[r])
  PROVE  DatabaseGood([rows EXCEPT ![r] = it], keys, chain, runs)
BY DEF DatabaseGood

\* _insert_tombstone under the chain lock: the key of the target is destroyed
\* and has its entry.
LEMMA DestroyKeeps ==
  ASSUME NEW rows, NEW keys, NEW chain, NEW runs, DatabaseGood(rows, keys, chain, runs),
         NEW t \in Targets, keys[t] = "live", NEW why
  PROVE  DatabaseGood(rows, [keys EXCEPT ![t] = "destroyed"], chain \o Tombstone(t, why, chain),
                      runs)
<1> DEFINE k2 == [keys EXCEPT ![t] = "destroyed"]
           c2 == chain \o Tombstone(t, why, chain)
<1>1. keys \in [Targets -> {"live", "destroyed"}] /\ GoodChain(chain)
      /\ KeysIn(chain) = {x \in Targets : keys[x] = "destroyed"}
  BY DEF DatabaseGood
<1>2. GoodChain(c2) /\ KeysIn(c2) = KeysIn(chain) \cup {t}
  BY <1>1, TombstoneKeeps
<1>3. /\ k2 \in [Targets -> {"live", "destroyed"}] /\ k2[t] = "destroyed"
      /\ \A x \in Targets : keys[x] = "destroyed" => k2[x] = "destroyed"
      /\ \A x \in Targets \ {t} : k2[x] = keys[x]
  BY <1>1
<1> HIDE DEF k2, c2
<1>4. KeysIn(c2) = {x \in Targets : k2[x] = "destroyed"}
  BY <1>1, <1>2, <1>3
<1>5. ASSUME NEW r \in Requests PROVE RequestGood(rows[r], k2, runs[r])
  <2>1. RequestGood(rows[r], keys, runs[r])
    BY DEF DatabaseGood
  <2> QED
    BY <1>3, <2>1 DEF RequestGood
<1>6. DatabaseGood(rows, k2, c2, runs)
  BY <1>2, <1>3, <1>4, <1>5 DEF DatabaseGood
<1> QED
  BY <1>6 DEF k2, c2

\* Every step of a request, an execution, a retention job, a backup or a
\* restore keeps the invariant.
LEMMA HardDeleteStepKeeps ==
  ASSUME HardDeleteInv, [HardDeleteNext]_hardDeleteVars
  PROVE  HardDeleteInv'
<1>0. /\ DatabaseGood(hd, dek, ledger, stones) /\ HdLocksOK /\ blobs \subseteq Targets
      /\ officer = [o \in Officers |-> officer[o]]
      /\ \A o \in Officers : OfficerGood(officer[o], o, hd, dek, ledger, hdLock, Serving)
  BY DEF HardDeleteInv
<1>1. /\ hd \in [Requests -> RequestRow] /\ dek \in [Targets -> {"live", "destroyed"}]
      /\ stones \in [Requests -> Nat]
      /\ \A r \in Requests : RequestGood(hd[r], dek, stones[r])
  BY <1>0 DEF DatabaseGood
<1>2. ASSUME NEW o, NEW rows, NEW keys, NEW chain, NEW locks, NEW serving
      PROVE  OfficerGood(OffDuty, o, rows, keys, chain, locks, serving)
  <2>1. /\ OfficerIs(OffDuty) /\ OffDuty.op = "idle"
    BY DEF OfficerIs, OffDuty
  <2> QED
    BY <2>1 DEF OfficerGood
<1>3. ASSUME NEW o \in Officers, NEW r \in Requests, officer[o] = OffDuty, RequestFree(o, r),
             NEW it \in RequestRow, RequestGood(it, dek, stones[r]),
             hd' = [hd EXCEPT ![r] = it], officer' \in {officer, EventFor(officer)},
             UNCHANGED <<dek, ledger, stones, blobs, hdLock, dump, exported, restores>>
      PROVE  HardDeleteInv'
  <2>1. [officer EXCEPT ![o] = OffDuty] = officer
    BY <1>0, <1>3
  <2>2. ASSUME NEW p \in Officers
        PROVE  OfficerGood(officer[p], p, hd', dek', ledger', hdLock', Serving)
    <3>1. CASE p = o
      BY <1>2, <1>3, <3>1
    <3>2. CASE p # o
      <4>1. <<r, p>> \notin hdLock
        BY <1>3, <3>2 DEF RequestFree, FreeFor
      <4>2. \A q \in Requests : <<q, p>> \in hdLock => hd'[q] = hd[q]
        BY <1>1, <1>3, <4>1
      <4>3. OfficerGood(officer[p], p, hd, dek, ledger, hdLock, Serving)
        BY <1>0
      <4>4. OfficerGood(officer[p], p, hd', dek, ledger, hdLock, Serving)
        BY <4>2, <4>3, OtherOfficerKeeps
      <4> QED
        BY <1>3, <4>4
    <3> QED
      BY <3>1, <3>2
  <2>3. DatabaseGood(hd', dek', ledger', stones')
    BY <1>0, <1>3, RequestWriteKeeps
  <2>4. HdLocksOK'
    BY <1>0, <1>3 DEF HdLocksOK
  <2> QED
    BY <1>0, <1>1, <1>3, <2>1, <2>2, <2>3, <2>4, OfficerStepKeeps
<1>4. ASSUME NEW r \in Requests, NEW it \in {[hd[r] EXCEPT !.grant = "EXPIRED"],
                                             [hd[r] EXCEPT !.waited = TRUE]},
             hd' = [hd EXCEPT ![r] = it],
             UNCHANGED <<dek, ledger, stones, blobs, officer, hdLock, dump, exported, restores>>
      PROVE  HardDeleteInv'
  <2>1. /\ it \in RequestRow /\ RequestGood(it, dek, stones[r])
        /\ it.status = hd[r].status /\ it.target = hd[r].target /\ (hd[r].waited => it.waited)
    <3>1. hd[r] \in RequestRow /\ RequestGood(hd[r], dek, stones[r])
      BY <1>1
    <3> QED
      BY <3>1, RequestAges
  <2>2. /\ DatabaseGood(hd', dek, ledger, stones) /\ hd'[r] = it
        /\ \A q \in Requests \ {r} : hd'[q] = hd[q]
    BY <1>0, <1>1, <1>4, <2>1, RequestWriteKeeps
  <2>3. ASSUME NEW p \in Officers
        PROVE  OfficerGood(officer[p], p, hd', dek, ledger, hdLock, Serving)
    <3>1. OfficerGood(officer[p], p, hd, dek, ledger, hdLock, Serving)
      BY <1>0
    <3> QED
      BY <2>1, <2>2, <3>1 DEF OfficerGood
  <2> QED
    BY <1>4, <2>2, <2>3 DEF HardDeleteInv, HdLocksOK, Serving
<1>5. ASSUME NEW o \in Officers, NEW t \in Targets, CheckDuplicate(o, t) PROVE HardDeleteInv'
  <2> DEFINE w == [OffDuty EXCEPT !.op = "open", !.target = t]
  <2>1. /\ officer' = [officer EXCEPT ![o] = w] /\ Serving
        /\ UNCHANGED <<hd, dek, ledger, stones, blobs, hdLock, dump, exported, restores>>
    BY <1>5 DEF CheckDuplicate
  <2>2. OfficerGood(w, o, hd, dek, ledger, hdLock, Serving)
    <3>1. OfficerIs(w) /\ w.op = "open" /\ w.target = t
      BY DEF OfficerIs, OffDuty
    <3> HIDE DEF w
    <3> QED
      BY <2>1, <3>1 DEF OfficerGood
  <2> HIDE DEF w
  <2>3. HdLocksOK'
    BY <1>0, <2>1 DEF HdLocksOK
  <2> QED
    BY <1>0, <2>1, <2>2, <2>3, OfficerStepKeeps
<1>6. ASSUME NEW o \in Officers, hdLock' = {l \in hdLock : l[2] # o},
             \/ officer' = [officer EXCEPT ![o] = OffDuty]
             \/ officer' = EventFor([officer EXCEPT ![o] = OffDuty]),
             DatabaseGood(hd', dek', ledger', stones'),
             \A t \in Targets : dek[t] = "destroyed" => dek'[t] = "destroyed",
             \A p \in Officers \ {o}, r \in Requests : <<r, p>> \in hdLock =>
               hd'[r] = hd[r] \/ hd[r].status # "APPROVED_WAITING",
             \A p \in Officers \ {o}, t \in Targets : <<t, p>> \in hdLock => dek'[t] = dek[t],
             \A p \in Officers \ {o} : <<"chain", p>> \in hdLock => ledger' = ledger,
             UNCHANGED <<blobs, dump, exported, restores>>
      PROVE  HardDeleteInv'
  <2>1. HdLocksOK' /\ \A x, p : p # o => (<<x, p>> \in hdLock' <=> <<x, p>> \in hdLock)
    BY <1>0, <1>6, LocksReleased
  <2>2. ASSUME NEW p \in Officers \ {o}
        PROVE  OfficerGood(officer[p], p, hd', dek', ledger', hdLock', Serving)
    <3>1. OfficerGood(officer[p], p, hd, dek, ledger, hdLock, Serving)
      BY <1>0
    <3>2. \A x : <<x, p>> \in hdLock => <<x, p>> \in hdLock'
      BY <2>1
    <3>3. /\ \A r \in Requests : <<r, p>> \in hdLock =>
               hd'[r] = hd[r] \/ hd[r].status # "APPROVED_WAITING"
          /\ \A t \in Targets : <<t, p>> \in hdLock => dek'[t] = dek[t]
          /\ <<"chain", p>> \in hdLock => ledger' = ledger
      BY <1>6
    <3> QED
      BY <3>1, <3>2, <3>3, OtherOfficerKeeps
  <2>3. OfficerGood(OffDuty, o, hd', dek', ledger', hdLock', Serving)
    BY <1>2
  <2>4. blobs' \subseteq Targets
    BY <1>0, <1>6
  <2> QED
    BY <1>6, <2>1, <2>2, <2>3, <2>4, OfficerStepKeeps
<1>7. ASSUME NEW o \in Officers, NEW r \in Requests, RequestHardDelete(o, r) PROVE HardDeleteInv'
  <2> DEFINE it == [NoRequest EXCEPT !.status = "PENDING_APPROVAL",
                                      !.target = officer[o].target, !.grant = "PENDING"]
  <2>1. /\ officer[o].op = "open" /\ hd[r] = NoRequest /\ hd' = [hd EXCEPT ![r] = it]
        /\ officer' = EventFor([officer EXCEPT ![o] = OffDuty])
        /\ hdLock' = {l \in hdLock : l[2] # o}
        /\ UNCHANGED <<dek, ledger, stones, blobs, dump, exported, restores>>
    BY <1>7 DEF RequestHardDelete, OfficerDoneWithEvent
  <2>2. officer[o].target \in Targets
    BY <1>0, <2>1 DEF OfficerGood
  <2>3. it \in RequestRow /\ RequestGood(it, dek, stones[r])
    <3>1. RequestGood(NoRequest, dek, stones[r])
      BY <1>1, <2>1
    <3> QED
      BY <2>2, <3>1, RequestOpens
  <2> HIDE DEF it
  <2>4. DatabaseGood(hd', dek', ledger', stones')
    BY <1>0, <2>1, <2>3, RequestWriteKeeps
  <2>5. \A q \in Requests : hd'[q] = hd[q] \/ hd[q].status # "APPROVED_WAITING"
    BY <1>1, <2>1 DEF NoRequest
  <2> QED
    BY <1>6, <2>1, <2>4, <2>5
<1>8. ASSUME NEW o \in Officers, NEW r \in Requests, NEW answer,
             ApproveHardDelete(o, r, answer) PROVE HardDeleteInv'
  <2> DEFINE it == IF answer = "REJECT"
                    THEN [hd[r] EXCEPT !.status = "REJECTED", !.grant = "REJECTED"]
                    ELSE IF hd[r].yes = 0 THEN [hd[r] EXCEPT !.yes = 1]
                    ELSE [hd[r] EXCEPT !.yes = 2, !.status = "APPROVED_WAITING",
                                       !.grant = "APPROVED"]
  <2>1. /\ officer[o] = OffDuty /\ RequestFree(o, r) /\ hd[r].status = "PENDING_APPROVAL"
        /\ hd' = [hd EXCEPT ![r] = it] /\ officer' \in {officer, EventFor(officer)}
        /\ UNCHANGED <<dek, ledger, stones, blobs, hdLock, dump, exported, restores>>
    BY <1>1, <1>8 DEF ApproveHardDelete
  <2>2. hd[r] \in RequestRow /\ RequestGood(hd[r], dek, stones[r])
    BY <1>1
  <2>3. it \in RequestRow /\ RequestGood(it, dek, stones[r])
    <3>1. CASE answer = "REJECT"
      <4> DEFINE new == [hd[r] EXCEPT !.status = "REJECTED", !.grant = "REJECTED"]
      <4>1. new \in RequestRow /\ RequestGood(new, dek, stones[r])
        BY <2>1, <2>2, RequestRejected
      <4>2. it = new
        BY <3>1
      <4> HIDE DEF new, it
      <4> QED
        BY <4>1, <4>2
    <3>2. CASE answer # "REJECT" /\ hd[r].yes = 0
      <4> DEFINE new == [hd[r] EXCEPT !.yes = 1]
      <4>1. new \in RequestRow /\ RequestGood(new, dek, stones[r])
        BY <2>1, <2>2, RequestApprovedOnce
      <4>2. it = new
        BY <3>2
      <4> HIDE DEF new, it
      <4> QED
        BY <4>1, <4>2
    <3>3. CASE answer # "REJECT" /\ hd[r].yes # 0
      <4> DEFINE new == [hd[r] EXCEPT !.yes = 2, !.status = "APPROVED_WAITING",
                                      !.grant = "APPROVED"]
      <4>1. new \in RequestRow /\ RequestGood(new, dek, stones[r])
        BY <2>1, <2>2, RequestApprovedTwice
      <4>2. it = new
        BY <3>3
      <4> HIDE DEF new, it
      <4> QED
        BY <4>1, <4>2
    <3> QED
      BY ONLY <3>1, <3>2, <3>3
  <2> HIDE DEF it
  <2> QED
    BY <1>3, <2>1, <2>3
<1>9. ASSUME NEW o \in Officers, NEW r \in Requests, CancelHardDelete(o, r) PROVE HardDeleteInv'
  <2> DEFINE it == [hd[r] EXCEPT !.status = "CANCELLED",
                                  !.grant = IF @ \in {"PENDING", "APPROVED"}
                                            THEN "CANCELLED" ELSE @]
  <2>1. /\ officer[o] = OffDuty /\ RequestFree(o, r)
        /\ hd[r].status \in {"PENDING_APPROVAL", "APPROVED_WAITING"}
        /\ officer' \in {officer, EventFor(officer)}
        /\ UNCHANGED <<dek, ledger, stones, blobs, hdLock, dump, exported, restores>>
    BY <1>9 DEF CancelHardDelete
  <2>3. hd' = [hd EXCEPT ![r] = it]
    BY <1>1, <1>9 DEF CancelHardDelete
  <2>2. it \in RequestRow /\ RequestGood(it, dek, stones[r])
    <3>1. hd[r] \in RequestRow /\ RequestGood(hd[r], dek, stones[r])
      BY <1>1
    <3> QED
      BY <2>1, <3>1, RequestCancelled
  <2> HIDE DEF it
  <2> QED
    BY <1>3, <2>1, <2>2, <2>3
<1>10. ASSUME NEW r \in Requests, GrantExpires(r) \/ WaitOver(r) PROVE HardDeleteInv'
  <2>1. PICK it \in {[hd[r] EXCEPT !.grant = "EXPIRED"], [hd[r] EXCEPT !.waited = TRUE]} :
          hd' = [hd EXCEPT ![r] = it]
    BY <1>1, <1>10 DEF GrantExpires, WaitOver
  <2>2. UNCHANGED <<dek, ledger, stones, blobs, officer, hdLock, dump, exported, restores>>
    BY <1>10 DEF GrantExpires, WaitOver
  <2> QED
    BY <1>4, <2>1, <2>2
<1>11. ASSUME NEW o \in Officers, NEW w, NEW X, X \subseteq Requests \cup Targets \cup {"chain"},
              \A x \in X : FreeFor(o, x), Mutexes(o, X), officer' = [officer EXCEPT ![o] = w],
              (\A x \in X : <<x, o>> \in hdLock') =>
                 OfficerGood(w, o, hd, dek, ledger, hdLock', Serving),
              blobs' \subseteq Targets,
              UNCHANGED <<hd, dek, ledger, stones, dump, exported, restores>>
       PROVE  HardDeleteInv'
  <2>1. /\ HdLocksOK' /\ \A x \in X : <<x, o>> \in hdLock'
        /\ \A x, p : <<x, p>> \in hdLock => <<x, p>> \in hdLock'
    BY <1>0, <1>11, LocksTaken
  <2>2. ASSUME NEW p \in Officers \ {o}
        PROVE  OfficerGood(officer[p], p, hd', dek', ledger', hdLock', Serving)
    BY <1>0, <1>11, <2>1, OtherOfficerKeeps
  <2>3. OfficerGood(w, o, hd', dek', ledger', hdLock', Serving)
    BY <1>11, <2>1
  <2> QED
    BY <1>0, <1>11, <2>1, <2>2, <2>3, OfficerStepKeeps
<1>12. ASSUME NEW o \in Officers, NEW r \in Requests, BeginExecution(o, r) PROVE HardDeleteInv'
  <2> DEFINE w == [OffDuty EXCEPT !.op = "execute", !.req = r, !.target = hd[r].target]
  <2>1. /\ Serving /\ FreeFor(o, r) /\ Mutexes(o, {r}) /\ officer' = [officer EXCEPT ![o] = w]
        /\ hd[r].status = "APPROVED_WAITING" /\ hd[r].waited
        /\ UNCHANGED <<hd, dek, ledger, stones, blobs, dump, exported, restores>>
    BY <1>12 DEF BeginExecution, RequestFree
  <2>2. hd[r].target \in Targets
    BY <1>1, <2>1 DEF RequestGood
  <2>3. OfficerIs(w) /\ w.op = "execute" /\ w.req = r /\ w.target = hd[r].target
    BY <2>2 DEF OfficerIs, OffDuty
  <2> HIDE DEF w
  <2>4. <<r, o>> \in hdLock' => OfficerGood(w, o, hd, dek, ledger, hdLock', Serving)
    BY <2>1, <2>2, <2>3 DEF OfficerGood
  <2>5. {r} \subseteq Requests \cup Targets \cup {"chain"} /\ blobs' \subseteq Targets
    BY <1>0, <2>1
  <2> QED
    BY <1>11, <2>1, <2>4, <2>5
<1>13. ASSUME NEW o \in Officers, NEW t \in Targets, BeginRetention(o, t) PROVE HardDeleteInv'
  <2> DEFINE w == [OffDuty EXCEPT !.op = "retain", !.target = t]
  <2>1. /\ Serving /\ FreeFor(o, t) /\ Mutexes(o, {t}) /\ officer' = [officer EXCEPT ![o] = w]
        /\ UNCHANGED <<hd, dek, ledger, stones, blobs, dump, exported, restores>>
    BY <1>13 DEF BeginRetention
  <2>2. OfficerIs(w) /\ w.op = "retain" /\ w.target = t
    BY DEF OfficerIs, OffDuty
  <2> HIDE DEF w
  <2>3. OfficerGood(w, o, hd, dek, ledger, hdLock', Serving)
    BY <2>1, <2>2 DEF OfficerGood
  <2>4. {t} \subseteq Requests \cup Targets \cup {"chain"} /\ blobs' \subseteq Targets
    BY <1>0, <2>1
  <2> QED
    BY <1>11, <2>1, <2>3, <2>4
<1>14. ASSUME NEW o \in Officers, ShredKey(o) PROVE HardDeleteInv'
  <2> DEFINE w == officer[o]
             t == w.target
             alive == dek[t] = "live"
             v == [w EXCEPT !.op = IF w.op = "execute" THEN "executing" ELSE "retaining",
                            !.prev = ledger, !.shred = alive]
             X == IF alive THEN {t, "chain"} ELSE {t}
  <2>1. /\ w.op \in {"execute", "retain"} /\ FreeFor(o, t) /\ (alive => FreeFor(o, "chain"))
        /\ blobs' = FilesLeft(o) /\ Mutexes(o, X)
        /\ UNCHANGED <<hd, dek, ledger, stones, dump, exported, restores>>
    BY <1>14 DEF ShredKey, ChainFree
  <2>2. officer' = [officer EXCEPT ![o] = v]
    BY <1>0, <1>14 DEF ShredKey
  <2>3. OfficerGood(w, o, hd, dek, ledger, hdLock, Serving)
    BY <1>0
  <2>4. OfficerIs(w) /\ t \in Targets /\ Serving /\ alive \in BOOLEAN
    BY <2>1, <2>3 DEF OfficerGood
  <2>5. /\ OfficerIs(v) /\ v.op = (IF w.op = "execute" THEN "executing" ELSE "retaining")
        /\ v.req = w.req /\ v.target = t /\ v.prev = ledger /\ v.shred = alive
    <3> HIDE DEF alive
    <3> QED
      BY <2>4 DEF OfficerIs
  <2>6. \A x, p : <<x, p>> \in hdLock => <<x, p>> \in hdLock'
    BY <2>1 DEF Mutexes
  <2>7. ASSUME \A x \in X : <<x, o>> \in hdLock'
        PROVE  OfficerGood(v, o, hd, dek, ledger, hdLock', Serving)
    <3>1. <<t, o>> \in hdLock' /\ (alive => <<"chain", o>> \in hdLock')
      BY <2>7
    <3>2. v.op = "executing" => w.op = "execute"
      BY <2>5
    <3> HIDE DEF v, w
    <3> QED
      BY <2>3, <2>4, <2>5, <2>6, <3>1, <3>2 DEF OfficerGood
  <2>8. /\ X \subseteq Requests \cup Targets \cup {"chain"} /\ \A x \in X : FreeFor(o, x)
        /\ blobs' \subseteq Targets
    BY <1>0, <2>1, <2>4 DEF FilesLeft
  <2> HIDE DEF v, X
  <2> QED
    BY <1>11, <2>1, <2>2, <2>7, <2>8
<1>15. ASSUME NEW o \in Officers, officer[o].op \in {"executing", "retaining"}, NEW why,
              Destroyed(o, why)
       PROVE  /\ DatabaseGood(hd, dek', ledger', stones)
              /\ \A t \in Targets : dek[t] = "destroyed" => dek'[t] = "destroyed"
              /\ dek'[officer[o].target] = "destroyed"
              /\ \A p \in Officers \ {o}, t \in Targets : <<t, p>> \in hdLock => dek'[t] = dek[t]
              /\ \A p \in Officers \ {o} : <<"chain", p>> \in hdLock => ledger' = ledger
  <2> DEFINE t == officer[o].target
  <2>1. /\ t \in Targets /\ <<t, o>> \in hdLock /\ (officer[o].shred <=> dek[t] = "live")
        /\ officer[o].shred => <<"chain", o>> \in hdLock /\ officer[o].prev = ledger
    BY <1>0, <1>15 DEF OfficerGood
  <2>2. CASE ~officer[o].shred
    <3>1. dek' = dek /\ ledger' = ledger /\ dek[t] = "destroyed"
      BY <1>1, <1>15, <2>1, <2>2 DEF Destroyed
    <3> QED
      BY <1>0, <3>1
  <2>3. CASE officer[o].shred
    <3>1. /\ dek' = [dek EXCEPT ![t] = "destroyed"] /\ ledger' = ledger \o Tombstone(t, why, ledger)
          /\ dek[t] = "live"
      BY <1>15, <2>1, <2>3 DEF Destroyed
    <3>2. DatabaseGood(hd, dek', ledger', stones)
      BY <1>0, <2>1, <3>1, DestroyKeeps
    <3>3. \A p \in Officers \ {o} : <<t, p>> \notin hdLock /\ <<"chain", p>> \notin hdLock
      BY <1>0, <2>1, <2>3 DEF HdLocksOK
    <3> QED
      BY <1>1, <2>1, <3>1, <3>2, <3>3
  <2> QED
    BY <2>2, <2>3
<1>16. ASSUME NEW o \in Officers, ExecuteHardDelete(o) PROVE HardDeleteInv'
  <2> DEFINE r == officer[o].req
             it == [hd[r] EXCEPT !.status = "EXECUTED"]
  <2>1. /\ officer[o].op = "executing" /\ Destroyed(o, "HARD_DELETE")
        /\ hd' = [hd EXCEPT ![r].status = "EXECUTED"] /\ stones' = [stones EXCEPT ![r] = @ + 1]
        /\ officer' = EventFor([officer EXCEPT ![o] = OffDuty])
        /\ hdLock' = {l \in hdLock : l[2] # o} /\ UNCHANGED <<blobs, dump, exported, restores>>
    BY <1>16 DEF ExecuteHardDelete, OfficerDoneWithEvent
  <2>2. /\ r \in Requests /\ <<r, o>> \in hdLock /\ hd[r].status = "APPROVED_WAITING"
        /\ hd[r].waited /\ hd[r].target = officer[o].target /\ officer[o].target \in Targets
    BY <1>0, <2>1 DEF OfficerGood
  <2>3. /\ DatabaseGood(hd, dek', ledger', stones)
        /\ \A t \in Targets : dek[t] = "destroyed" => dek'[t] = "destroyed"
        /\ dek'[officer[o].target] = "destroyed"
        /\ \A p \in Officers \ {o}, t \in Targets : <<t, p>> \in hdLock => dek'[t] = dek[t]
        /\ \A p \in Officers \ {o} : <<"chain", p>> \in hdLock => ledger' = ledger
    BY <1>15, <2>1
  <2>4. hd' = [hd EXCEPT ![r] = it] /\ hd[r] \in RequestRow /\ RequestGood(hd[r], dek, stones[r])
    BY <1>1, <2>1, <2>2
  <2>5. /\ it \in RequestRow /\ it.status = "EXECUTED" /\ it.target = hd[r].target
        /\ it.yes = hd[r].yes /\ it.waited = hd[r].waited
    BY <2>4 DEF RequestRow, RequestStatus
  <2> HIDE DEF it, r
  <2>6. hd[r].yes = 2 /\ stones[r] = 0
    BY <2>2, <2>4 DEF RequestGood
  <2>7. stones'[r] = 1 /\ stones' \in [Requests -> Nat]
        /\ \A q \in Requests \ {r} : stones'[q] = stones[q]
    BY <1>1, <2>1, <2>2, <2>6
  <2>8. RequestGood(it, dek', stones'[r])
    BY <2>2, <2>3, <2>5, <2>6, <2>7 DEF RequestGood
  <2>9. hd' \in [Requests -> RequestRow] /\ hd'[r] = it /\ \A q \in Requests \ {r} : hd'[q] = hd[q]
    BY <1>1, <2>2, <2>4, <2>5
  <2>10. DatabaseGood(hd', dek', ledger', stones')
    BY <2>3, <2>7, <2>8, <2>9 DEF DatabaseGood
  <2>11. \A p \in Officers \ {o} : <<r, p>> \notin hdLock
    BY <1>0, <2>2 DEF HdLocksOK
  <2>12. \A p \in Officers \ {o}, q \in Requests : <<q, p>> \in hdLock =>
           hd'[q] = hd[q] \/ hd[q].status # "APPROVED_WAITING"
    BY <2>9, <2>11
  <2> QED
    BY <1>6, <2>1, <2>3, <2>10, <2>12
<1>17. ASSUME NEW o \in Officers, RetentionJob(o) PROVE HardDeleteInv'
  <2>1. /\ officer[o].op = "retaining" /\ Destroyed(o, "RETENTION")
        /\ officer' = [officer EXCEPT ![o] = OffDuty] /\ hdLock' = {l \in hdLock : l[2] # o}
        /\ UNCHANGED <<hd, stones, blobs, dump, exported, restores>>
    BY <1>17 DEF RetentionJob, OfficerDone
  <2>2. /\ DatabaseGood(hd, dek', ledger', stones)
        /\ \A t \in Targets : dek[t] = "destroyed" => dek'[t] = "destroyed"
        /\ \A p \in Officers \ {o}, t \in Targets : <<t, p>> \in hdLock => dek'[t] = dek[t]
        /\ \A p \in Officers \ {o} : <<"chain", p>> \in hdLock => ledger' = ledger
    BY <1>15, <2>1
  <2>3. DatabaseGood(hd', dek', ledger', stones')
    BY <2>1, <2>2
  <2> QED
    BY <1>6, <2>1, <2>2, <2>3
<1>18. ASSUME NEW o \in Officers, Undo(o) PROVE HardDeleteInv'
  <2>1. /\ officer' = [officer EXCEPT ![o] = OffDuty] /\ hdLock' = {l \in hdLock : l[2] # o}
        /\ UNCHANGED <<hd, dek, ledger, stones, blobs, dump, exported, restores>>
    BY <1>18 DEF Undo, OfficerDone
  <2>2. DatabaseGood(hd', dek', ledger', stones')
    BY <1>0, <2>1
  <2> QED
    BY <1>6, <2>1, <2>2
<1>19. CASE OtherEvent
  <2>1. /\ officer' = EventFor(officer)
        /\ UNCHANGED <<hd, dek, ledger, stones, blobs, hdLock, dump, exported, restores>>
    BY <1>19 DEF OtherEvent
  <2>2. /\ officer' = [p \in Officers |-> officer'[p]]
        /\ \A p \in Officers : officer'[p] =
             [officer[p] EXCEPT !.stale = officer[p].op \in {"execute", "executing"}]
    BY <2>1 DEF EventFor
  <2>3. \A p \in Officers : OfficerGood(officer'[p], p, hd, dek, ledger, hdLock, Serving)
    BY <1>0, <2>2, StaleKeeps
  <2> QED
    BY <2>1, <2>2, <2>3 DEF HardDeleteInv, HdLocksOK, Serving
<1>20. CASE Backup
  <2>1. /\ dump' = [hd |-> hd, dek |-> dek, ledger |-> ledger, stones |-> stones]
        /\ UNCHANGED <<hd, dek, ledger, stones, blobs, officer, hdLock, exported, restores>>
    BY <1>20 DEF Backup
  <2>2. DatabaseGood(dump'.hd, dump'.dek, dump'.ledger, dump'.stones)
    BY <1>0, <2>1
  <2> QED
    BY <2>1, <2>2 DEF HardDeleteInv, HdLocksOK, Serving
<1>21. CASE ExportLedger
  <2>1. /\ exported' = ledger
        /\ UNCHANGED <<hd, dek, ledger, stones, blobs, officer, hdLock, dump, restores>>
    BY <1>21 DEF ExportLedger
  <2>2. GoodChain(exported') /\ \A t \in KeysIn(exported') : dek'[t] = "destroyed"
    BY <1>0, <2>1 DEF DatabaseGood
  <2> QED
    BY <2>1, <2>2 DEF HardDeleteInv, HdLocksOK, Serving
<1>22. CASE Restore
  <2>1. /\ restores[1] < MaxRestores /\ \A o \in Officers : officer[o] = OffDuty
        /\ hd' = dump.hd /\ dek' = dump.dek /\ ledger' = dump.ledger /\ stones' = dump.stones
        /\ restores' = <<restores[1] + 1, TRUE>>
        /\ UNCHANGED <<blobs, officer, hdLock, dump, exported>>
    BY <1>22 DEF Restore
  <2>2. restores' \in (0 .. MaxRestores) \X BOOLEAN /\ Serving' = FALSE
    <3>1. /\ restores \in (0 .. MaxRestores) \X BOOLEAN /\ MaxRestores \in Nat
          /\ restores[1] < MaxRestores /\ restores' = <<restores[1] + 1, TRUE>>
      BY <2>1, HardDeleteAssumption DEF HardDeleteInv
    <3>2. restores[1] + 1 \in 0 .. MaxRestores
      BY ONLY <3>1
    <3> QED
      BY <3>1, <3>2 DEF Serving
  <2>3. \A o \in Officers : OfficerGood(officer'[o], o, hd', dek', ledger', hdLock', Serving')
    BY <1>2, <2>1
  <2>4. DatabaseGood(hd', dek', ledger', stones')
    BY <2>1 DEF HardDeleteInv
  <2> QED
    BY <2>1, <2>2, <2>3, <2>4 DEF HardDeleteInv, HdLocksOK
<1>23. CASE ReconcileTombstones
  <2>1. /\ restores[2] /\ ledger' = Imported(exported, ledger)
        /\ dek' = ImportAndApply(exported, dek)
        /\ restores' = <<restores[1], FALSE>>
        /\ UNCHANGED <<hd, stones, blobs, officer, hdLock, dump, exported>>
    BY <1>23 DEF ReconcileTombstones
  <2>2. GoodChain(exported) /\ GoodChain(ledger) /\ restores \in (0 .. MaxRestores) \X BOOLEAN
    BY <1>0 DEF HardDeleteInv, DatabaseGood
  <2>3. GoodChain(ledger') /\ KeysIn(ledger') = KeysIn(ledger) \cup KeysIn(exported)
    BY <2>1, <2>2, ImportedIs
  <2>4. /\ dek' \in [Targets -> {"live", "destroyed"}]
        /\ \A t \in Targets : dek'[t] = IF t \in KeysIn(exported) THEN "destroyed" ELSE dek[t]
    BY <1>1, <2>1 DEF ImportAndApply
  <2>5. KeysIn(ledger') = {t \in Targets : dek'[t] = "destroyed"}
    <3>1. KeysIn(ledger) = {t \in Targets : dek[t] = "destroyed"} /\ KeysIn(exported) \subseteq Targets
      BY <1>0, <2>2 DEF DatabaseGood, GoodChain
    <3> QED
      BY <2>3, <2>4, <3>1
  <2>6. ASSUME NEW r \in Requests PROVE RequestGood(hd'[r], dek', stones'[r])
    <3>1. RequestGood(hd[r], dek, stones[r])
      BY <1>1
    <3> QED
      BY <2>1, <2>4, <3>1 DEF RequestGood
  <2>7. DatabaseGood(hd', dek', ledger', stones')
    BY <1>1, <2>1, <2>3, <2>4, <2>5, <2>6 DEF DatabaseGood
  <2>8. restores' \in (0 .. MaxRestores) \X BOOLEAN
    <3>1. restores' = <<restores[1], FALSE>> /\ restores \in (0 .. MaxRestores) \X BOOLEAN
      BY <2>1, <2>2
    <3> QED
      BY ONLY <3>1
  <2>9. ASSUME NEW o \in Officers
        PROVE  OfficerGood(officer'[o], o, hd', dek', ledger', hdLock', Serving')
    <3>1. officer[o].op = "idle" /\ officer[o] = OffDuty
      BY <1>0, <2>1 DEF OfficerGood, Serving
    <3> QED
      BY <1>2, <2>1, <3>1
  <2>10. \A t \in KeysIn(exported') : dek'[t] = "destroyed"
    BY <2>1, <2>2, <2>4 DEF GoodChain
  <2> QED
    BY <2>1, <2>2, <2>7, <2>8, <2>9, <2>10 DEF HardDeleteInv, HdLocksOK
<1>24. CASE UNCHANGED hardDeleteVars
  BY <1>24 DEF hardDeleteVars, HardDeleteInv, HdLocksOK, Serving
<1> QED
  BY <1>5, <1>7, <1>8, <1>9, <1>10, <1>12, <1>13, <1>14, <1>16, <1>17, <1>18, <1>19, <1>20,
     <1>21, <1>22, <1>23, <1>24 DEF HardDeleteNext

\* What was destroyed stays destroyed, and the ledger says so: whatever
\* executions, retention jobs, refusals, backups and restores do.
THEOREM HardDeleteIsFinal == HardDeleteSpec => [](HardDeleteTypeOK /\ DestructionIsFinal)
<1>1. HardDeleteInit => HardDeleteInv
  <2> SUFFICES ASSUME HardDeleteInit PROVE HardDeleteInv
    OBVIOUS
  <2>1. GoodChain(<<>>) /\ KeysIn(<<>>) = {}
    <3>1. <<>> \in Seq({}) /\ Len(<<>>) = 0 /\ DOMAIN <<>> = {}
      OBVIOUS
    <3>2. KeysIn(<<>>) = {} /\ Intact(<<>>)
      BY <3>1 DEF KeysIn, Intact
    <3> QED
      BY <3>1, <3>2, FS_EmptySet DEF GoodChain
  <2>2. DatabaseGood(hd, dek, ledger, stones)
    <3>1. NoRequest \in RequestRow /\ NoRequest.status = "NONE"
      BY DEF NoRequest, RequestRow, RequestStatus
    <3>2. \A r \in Requests : RequestGood(hd[r], dek, stones[r])
      BY <3>1 DEF HardDeleteInit, RequestGood
    <3>3. hd \in [Requests -> RequestRow] /\ dek \in [Targets -> {"live", "destroyed"}]
          /\ stones \in [Requests -> Nat] /\ \A t \in Targets : dek[t] = "live"
      BY <3>1 DEF HardDeleteInit
    <3> QED
      BY <2>1, <3>2, <3>3 DEF HardDeleteInit, DatabaseGood
  <2>3. DatabaseGood(dump.hd, dump.dek, dump.ledger, dump.stones)
    BY <2>2 DEF HardDeleteInit
  <2>4. \A o \in Officers : OfficerGood(officer[o], o, hd, dek, ledger, hdLock, Serving)
    <3>1. OfficerIs(OffDuty) /\ OffDuty.op = "idle"
      BY DEF OfficerIs, OffDuty
    <3>2. \A o \in Officers : officer[o] = OffDuty
      BY DEF HardDeleteInit
    <3> QED
      BY <3>1, <3>2 DEF OfficerGood
  <2>5. HdLocksOK /\ blobs \subseteq Targets /\ officer = [o \in Officers |-> officer[o]]
    BY DEF HardDeleteInit, HdLocksOK
  <2>6. restores \in (0 .. MaxRestores) \X BOOLEAN
    <3>1. 0 \in 0 .. MaxRestores /\ restores = <<0, FALSE>>
      BY HardDeleteAssumption DEF HardDeleteInit
    <3> QED
      BY ONLY <3>1
  <2> QED
    BY <2>1, <2>2, <2>3, <2>4, <2>5, <2>6 DEF HardDeleteInit, HardDeleteInv
<1>2. HardDeleteInv => HardDeleteTypeOK /\ DestructionIsFinal
  <2> SUFFICES ASSUME HardDeleteInv PROVE HardDeleteTypeOK /\ DestructionIsFinal
    OBVIOUS
  <2>1. HardDeleteTypeOK
    BY DEF HardDeleteInv, HardDeleteTypeOK, DatabaseGood, RequestRow, GoodChain
  <2> QED
    BY <2>1 DEF HardDeleteInv, DestructionIsFinal, DatabaseGood, GoodChain, RequestGood
<1> QED
  BY <1>1, <1>2, HardDeleteStepKeeps, PTL DEF HardDeleteSpec

-----------------------------------------------------------------------------
(***************************************************************************)
(* The modules side by side: a behaviour is one of its part's module, so   *)
(* what is proved of the module holds of it.                               *)
(***************************************************************************)
\* Every step is a step of the part's module, and the part stays.
LEMMA GovernancePartSteps ==
  ASSUME [MCNext]_allVars
  PROVE  /\ part' = part
         /\ part = "approvals" => [ApprovalsNext]_approvalsVars
         /\ part = "secrets" => [SecretsNext]_secretsVars
         /\ part = "breakglass" => [BreakGlassNext]_breakGlassVars
         /\ part = "harddelete" => [HardDeleteNext]_hardDeleteVars
         /\ part = "setup" => [SetupNext]_setupVars
         /\ part = "registry" => [RegistryNext]_registryVars
         /\ part = "access" => [AccessNext]_accessVars
         /\ part = "limits" => [AgentLimitsNext]_agentLimitsVars
<1>1. CASE MCNext
  BY <1>1 DEF MCNext
<1>2. CASE UNCHANGED allVars
  BY <1>2 DEF allVars
<1> QED
  BY <1>1, <1>2

\* Whichever module runs, its variables keep their types: a row, a lock, a
\* transaction in hand and a history never leave the shapes the code gives them.
THEOREM GovernanceTypes == MCSpec => []GovernanceTypeOK
<1>1. MCSpec => [](part = "approvals" => ApprovalsTypeOK)
  <2>1. MCInit => ApprovalsInit
    BY DEF MCInit
  <2>2. part = "approvals" /\ [MCNext]_allVars => (part = "approvals")' /\ [ApprovalsNext]_approvalsVars
    BY GovernancePartSteps
  <2>3. ~(part = "approvals") /\ [MCNext]_allVars => ~(part = "approvals")'
    BY GovernancePartSteps
  <2> QED
    BY <2>1, <2>2, <2>3, ApprovalsTypes, PTL DEF MCSpec, ApprovalsSpec
<1>2. MCSpec => [](part = "secrets" => SecretsTypeOK)
  <2>1. MCInit => SecretsInit
    BY DEF MCInit
  <2>2. part = "secrets" /\ [MCNext]_allVars => (part = "secrets")' /\ [SecretsNext]_secretsVars
    BY GovernancePartSteps
  <2>3. ~(part = "secrets") /\ [MCNext]_allVars => ~(part = "secrets")'
    BY GovernancePartSteps
  <2> QED
    BY <2>1, <2>2, <2>3, SecretsTypes, PTL DEF MCSpec, SecretsSpec
<1>3. MCSpec => [](part = "breakglass" => BreakGlassTypeOK)
  <2>1. MCInit => BreakGlassInit
    BY DEF MCInit
  <2>2. part = "breakglass" /\ [MCNext]_allVars => (part = "breakglass")' /\ [BreakGlassNext]_breakGlassVars
    BY GovernancePartSteps
  <2>3. ~(part = "breakglass") /\ [MCNext]_allVars => ~(part = "breakglass")'
    BY GovernancePartSteps
  <2> QED
    BY <2>1, <2>2, <2>3, BreakGlassEndsOnce, PTL DEF MCSpec, BreakGlassSpec
<1>4. MCSpec => [](part = "harddelete" => HardDeleteTypeOK)
  <2>1. MCInit => HardDeleteInit
    BY DEF MCInit
  <2>2. part = "harddelete" /\ [MCNext]_allVars => (part = "harddelete")' /\ [HardDeleteNext]_hardDeleteVars
    BY GovernancePartSteps
  <2>3. ~(part = "harddelete") /\ [MCNext]_allVars => ~(part = "harddelete")'
    BY GovernancePartSteps
  <2> QED
    BY <2>1, <2>2, <2>3, HardDeleteIsFinal, PTL DEF MCSpec, HardDeleteSpec
<1>5. MCSpec => [](part = "setup" => SetupTypeOK)
  <2>1. MCInit => SetupInit
    BY DEF MCInit
  <2>2. part = "setup" /\ [MCNext]_allVars => (part = "setup")' /\ [SetupNext]_setupVars
    BY GovernancePartSteps
  <2>3. ~(part = "setup") /\ [MCNext]_allVars => ~(part = "setup")'
    BY GovernancePartSteps
  <2> QED
    BY <2>1, <2>2, <2>3, SetupOneOwner, PTL DEF MCSpec, SetupSpec
<1>6. MCSpec => [](part = "registry" => RegistryTypeOK)
  <2>1. MCInit => RegistryInit
    BY DEF MCInit
  <2>2. part = "registry" /\ [MCNext]_allVars => (part = "registry")' /\ [RegistryNext]_registryVars
    BY GovernancePartSteps
  <2>3. ~(part = "registry") /\ [MCNext]_allVars => ~(part = "registry")'
    BY GovernancePartSteps
  <2> QED
    BY <2>1, <2>2, <2>3, RegistryRevokedIsFinal, PTL DEF MCSpec, RegistrySpec
<1>7. MCSpec => [](part = "access" => AccessTypeOK)
  <2>1. MCInit => AccessInit
    BY DEF MCInit
  <2>2. part = "access" /\ [MCNext]_allVars => (part = "access")' /\ [AccessNext]_accessVars
    BY GovernancePartSteps
  <2>3. ~(part = "access") /\ [MCNext]_allVars => ~(part = "access")'
    BY GovernancePartSteps
  <2> QED
    BY <2>1, <2>2, <2>3, AccessFollowsEvents, PTL DEF MCSpec, AccessSpec
<1>8. MCSpec => [](part = "limits" => AgentLimitsTypeOK)
  <2>1. MCInit => AgentLimitsInit
    BY DEF MCInit
  <2>2. part = "limits" /\ [MCNext]_allVars => (part = "limits")' /\ [AgentLimitsNext]_agentLimitsVars
    BY GovernancePartSteps
  <2>3. ~(part = "limits") /\ [MCNext]_allVars => ~(part = "limits")'
    BY GovernancePartSteps
  <2> QED
    BY <2>1, <2>2, <2>3, AgentMeteredWithinLimits, PTL DEF MCSpec, AgentLimitsSpec
<1>9. ASSUME part = "approvals" => ApprovalsTypeOK, part = "secrets" => SecretsTypeOK,
             part = "breakglass" => BreakGlassTypeOK, part = "harddelete" => HardDeleteTypeOK,
             part = "setup" => SetupTypeOK, part = "registry" => RegistryTypeOK,
             part = "access" => AccessTypeOK, part = "limits" => AgentLimitsTypeOK
      PROVE  GovernanceTypeOK
  BY <1>9 DEF GovernanceTypeOK
<1> QED
  BY <1>1, <1>2, <1>3, <1>4, <1>5, <1>6, <1>7, <1>8, <1>9, PTL
=============================================================================
