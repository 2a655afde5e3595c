----------------------------- MODULE AgentProofs -----------------------------
(***************************************************************************)
(* Proofs about an Agent, for any number of concurrent requests: its       *)
(* registration and revocation, the limits on what it may use, the roles,  *)
(* channel and members that say what it may do, and the inbox its work     *)
(* comes from.                                                             *)
(***************************************************************************)
EXTENDS AgentRegistry, Access, AgentLimits, WorkInbox, FiniteSetTheorems, SequenceTheorems,
        WellFoundedInduction, TLAPS

-----------------------------------------------------------------------------
(***************************************************************************)
(* Two facts that the library states only with an operator parameter: a    *)
(* set of numbers has a least element, and induction.                      *)
(***************************************************************************)
\* A set of natural numbers that is not empty has a least element.
LEMMA LeastNumber ==
  ASSUME NEW T \in SUBSET Nat, T # {}
  PROVE  \E n \in T : \A m \in T : n <= m
<1> DEFINE U == {0 .. k : k \in T}
<1>1. \A k \in T : 0 .. k \in FiniteSubsetsOf(Nat)
  BY FS_Interval DEF FiniteSubsetsOf
<1>2. U \subseteq FiniteSubsetsOf(Nat) /\ U # {}
  BY <1>1
<1>3. IsWellFoundedOn(StrictSubsetOrdering(Nat), FiniteSubsetsOf(Nat))
  BY FS_StrictSubsetOrderingWellFounded
<1> HIDE DEF U
<1>4. PICK x \in U : \A y \in U : ~(<<y, x>> \in StrictSubsetOrdering(Nat))
  BY <1>2, <1>3, WFMin
<1>5. PICK n \in T : x = 0 .. n
  BY DEF U
<1>6. ASSUME NEW m \in T, ~(n <= m) PROVE FALSE
  <2>1. 0 .. m \in U /\ 0 .. m \subseteq 0 .. n /\ n \notin 0 .. m /\ n \in 0 .. n
    BY <1>6 DEF U
  <2>2. <<0 .. m, 0 .. n>> \in StrictSubsetOrdering(Nat)
    BY <2>1 DEF StrictSubsetOrdering
  <2> QED
    BY <1>4, <1>5, <2>1, <2>2
<1> QED
  BY <1>6

\* Induction, for what can be said of the members of a set.
LEMMA Induction ==
  ASSUME NEW S, 0 \in S, \A n \in Nat : n \in S => n + 1 \in S
  PROVE  Nat \subseteq S
<1>1. SUFFICES ASSUME NEW k \in Nat, k \notin S PROVE FALSE
  OBVIOUS
<1> DEFINE T == {n \in Nat : n \notin S}
<1>2. PICK n \in T : \A m \in T : n <= m
  <2>1. T \in SUBSET Nat /\ T # {}
    BY <1>1
  <2> HIDE DEF T
  <2> QED
    BY <2>1, LeastNumber
<1>3. n # 0 /\ n - 1 \in Nat /\ n - 1 \notin T
  BY <1>2
<1> QED
  BY <1>3

\* What a ledger is: entries that carry the chain before them, about targets,
-----------------------------------------------------------------------------
(***************************************************************************)
(* The Agent registry.  The row is a fold of the stream; the row lock of   *)
(* a command makes the row it read the row there is.                       *)
(***************************************************************************)
\* The fold of a stream is what a recursive function computes.
LEMMA FoldRuns ==
  ASSUME NEW history, Len(history) \in Nat
  PROVE  \E f : /\ f = [n \in 0 .. Len(history) |->
                         IF n = 0 THEN NoAgent ELSE FoldEvent(f[n - 1], history[n])]
                /\ FoldEvents(history) = f[Len(history)]
<1> DEFINE Runs(f, m) == f = [n \in 0 .. m |-> IF n = 0 THEN NoAgent
                                               ELSE FoldEvent(f[n - 1], history[n])]
           S == {m \in Nat : \E f : Runs(f, m)}
<1>1. 0 \in S
  <2>1. Runs([n \in 0 .. 0 |-> NoAgent], 0)
    OBVIOUS
  <2> QED
    BY <2>1
<1>2. ASSUME NEW m \in Nat, m \in S PROVE m + 1 \in S
  <2>1. PICK g : Runs(g, m)
    BY <1>2
  <2> DEFINE h == [n \in 0 .. m + 1 |-> IF n <= m THEN g[n]
                                        ELSE FoldEvent(g[m], history[m + 1])]
  <2>2. ASSUME NEW n \in 0 .. m + 1
        PROVE  h[n] = IF n = 0 THEN NoAgent ELSE FoldEvent(h[n - 1], history[n])
    <3>1. CASE n = 0
      BY <2>1, <3>1
    <3>2. CASE n # 0 /\ n <= m
      <4>1. n - 1 \in 0 .. m /\ h[n - 1] = g[n - 1] /\ h[n] = g[n]
        BY <3>2
      <4>2. g[n] = FoldEvent(g[n - 1], history[n])
        BY <2>1, <3>2
      <4> QED
        BY <3>2, <4>1, <4>2
    <3>3. CASE n = m + 1
      BY <3>3
    <3> QED
      BY <3>1, <3>2, <3>3
  <2>3. Runs(h, m + 1)
    BY <2>2
  <2> HIDE DEF h, Runs
  <2> QED
    BY <2>3
<1>3. Len(history) \in S
  <2> HIDE DEF S
  <2> QED
    BY <1>1, <1>2, Induction
<1>4. \E f : Runs(f, Len(history))
  BY <1>3
<1>5. FoldEvents(history) = (CHOOSE f : Runs(f, Len(history)))[Len(history)]
  BY DEF FoldEvents
<1>6. Runs(CHOOSE f : Runs(f, Len(history)), Len(history))
  BY <1>4
<1> QED
  BY <1>5, <1>6

AgentStatus == {"absent", "pending", "active", "offline", "suspended", "revoked"}
AgentRowType == [status : AgentStatus, online : BOOLEAN, tested : BOOLEAN]
\* What may follow a revocation in the stream.
HarmlessTypes == {"AGENT_MARKED_OFFLINE", "ACCOUNT_SUSPENDED", "ACCOUNT_REINSTATED",
                  "ACCOUNT_DELETION_REQUESTED"}
RegistryTypes == {"AGENT_REGISTERED", "AGENT_UPDATED", "AGENT_ACTIVATED", "AGENT_SUSPENDED",
                  "AGENT_REVOKED", "AGENT_HEARTBEAT_RECORDED"} \cup HarmlessTypes
RegistryEvent == [type : RegistryTypes, key : OpKeys \cup {"none"}]
RevokedAt(history, i) ==
  /\ history[i].type = "AGENT_REVOKED"
  /\ \A j \in i + 1 .. Len(history) : history[j].type \in HarmlessTypes
IsRevoked(row) == row.status = "revoked" /\ row.online = FALSE

\* One Event: the row keeps its shape; an Agent that is there stays there; a
\* revoked one stays revoked but for an Event no command appends to it.
LEMMA FoldEventKeeps ==
  ASSUME NEW s \in AgentRowType, NEW e
  PROVE  /\ FoldEvent(s, e) \in AgentRowType
         /\ (s.status # "absent" => FoldEvent(s, e).status # "absent")
         /\ (e.type = "AGENT_REGISTERED" => FoldEvent(s, e).status # "absent")
         /\ (e.type = "AGENT_REVOKED" => IsRevoked(FoldEvent(s, e)))
         /\ (e.type \in HarmlessTypes /\ IsRevoked(s) => IsRevoked(FoldEvent(s, e)))
<1>1. CASE e.type = "AGENT_REGISTERED"
  BY <1>1 DEF FoldEvent, AgentRowType, AgentStatus, IsRevoked, HarmlessTypes
<1>2. CASE e.type = "AGENT_ACTIVATED"
  BY <1>2 DEF FoldEvent, AgentRowType, AgentStatus, IsRevoked, HarmlessTypes
<1>3. CASE e.type = "AGENT_SUSPENDED"
  BY <1>3 DEF FoldEvent, AgentRowType, AgentStatus, IsRevoked, HarmlessTypes
<1>4. CASE e.type = "AGENT_REVOKED"
  BY <1>4 DEF FoldEvent, AgentRowType, AgentStatus, IsRevoked, HarmlessTypes
<1>5. CASE e.type = "AGENT_HEARTBEAT_RECORDED"
  BY <1>5 DEF FoldEvent, AgentRowType, AgentStatus, IsRevoked, HarmlessTypes
<1>6. CASE e.type = "AGENT_MARKED_OFFLINE"
  BY <1>6 DEF FoldEvent, AgentRowType, AgentStatus, IsRevoked, HarmlessTypes
<1>7. CASE e.type \notin {"AGENT_REGISTERED", "AGENT_ACTIVATED", "AGENT_SUSPENDED",
                          "AGENT_REVOKED", "AGENT_HEARTBEAT_RECORDED", "AGENT_MARKED_OFFLINE"}
  <2>1. FoldEvent(s, e) = s
    BY <1>7 DEF FoldEvent
  <2> QED
    BY <1>7, <2>1
<1> QED
  BY <1>1, <1>2, <1>3, <1>4, <1>5, <1>6, <1>7

\* The whole stream: a row; an Agent that was registered is there; one that was
\* revoked, with nothing but harmless Events since, is revoked.
LEMMA FoldIs ==
  ASSUME NEW history \in Seq(RegistryEvent)
  PROVE  /\ FoldEvents(history) \in AgentRowType
         /\ ((\E i \in 1 .. Len(history) : history[i].type = "AGENT_REGISTERED")
               => FoldEvents(history).status # "absent")
         /\ \A i \in 1 .. Len(history) : RevokedAt(history, i) => IsRevoked(FoldEvents(history))
<1> DEFINE N == Len(history)
<1>0. N \in Nat
  OBVIOUS
<1>1. PICK f : /\ f = [n \in 0 .. N |-> IF n = 0 THEN NoAgent ELSE FoldEvent(f[n - 1], history[n])]
               /\ FoldEvents(history) = f[N]
  BY <1>0, FoldRuns
<1> DEFINE Good(n) ==
      /\ f[n] \in AgentRowType
      /\ ((\E i \in 1 .. n : history[i].type = "AGENT_REGISTERED") => f[n].status # "absent")
      /\ \A i \in 1 .. n : RevokedAt(history, i) => IsRevoked(f[n])
    S == {n \in Nat : n <= N => Good(n)}
<1>2. 0 \in S
  <2>1. f[0] = NoAgent
    BY <1>0, <1>1
  <2>2. NoAgent \in AgentRowType
    BY DEF NoAgent, AgentRowType, AgentStatus
  <2>3. 1 .. 0 = {}
    OBVIOUS
  <2> QED
    BY <2>1, <2>2, <2>3
<1>3. ASSUME NEW n \in Nat, n \in S PROVE n + 1 \in S
  <2> SUFFICES ASSUME n + 1 <= N PROVE Good(n + 1)
    OBVIOUS
  <2>1. Good(n)
    BY <1>0, <1>3
  <2> DEFINE e == history[n + 1]
  <2>2. f[n + 1] = FoldEvent(f[n], e)
    BY <1>0, <1>1
  <2>3. f[n] \in AgentRowType
    BY <2>1
  <2>4. /\ f[n + 1] \in AgentRowType
        /\ (f[n].status # "absent" => f[n + 1].status # "absent")
        /\ (e.type = "AGENT_REGISTERED" => f[n + 1].status # "absent")
        /\ (e.type = "AGENT_REVOKED" => IsRevoked(f[n + 1]))
        /\ (e.type \in HarmlessTypes /\ IsRevoked(f[n]) => IsRevoked(f[n + 1]))
    BY <2>2, <2>3, FoldEventKeeps
  <2>5. (\E i \in 1 .. n + 1 : history[i].type = "AGENT_REGISTERED") => f[n + 1].status # "absent"
    <3> SUFFICES ASSUME NEW i \in 1 .. n + 1, history[i].type = "AGENT_REGISTERED"
                 PROVE  f[n + 1].status # "absent"
      OBVIOUS
    <3>1. CASE i = n + 1
      BY <2>4, <3>1
    <3>2. CASE i \in 1 .. n
      BY <2>1, <2>4, <3>2
    <3> QED
      BY <3>1, <3>2
  <2>6. ASSUME NEW i \in 1 .. n + 1, RevokedAt(history, i) PROVE IsRevoked(f[n + 1])
    <3>1. CASE i = n + 1
      BY <2>4, <2>6, <3>1 DEF RevokedAt
    <3>2. CASE i \in 1 .. n
      <4>1. n + 1 \in i + 1 .. Len(history)
        BY <1>0, <3>2
      <4>2. e.type \in HarmlessTypes
        BY <2>6, <4>1 DEF RevokedAt
      <4>3. IsRevoked(f[n])
        BY <2>1, <2>6, <3>2
      <4> QED
        BY <2>4, <4>2, <4>3
    <3> QED
      BY <3>1, <3>2
  <2> QED
    BY <2>4, <2>5, <2>6
<1>4. N \in S
  <2> HIDE DEF S, N
  <2> QED
    BY <1>0, <1>2, <1>3, Induction
<1>5. Good(N)
  BY <1>0, <1>4
<1> QED
  BY <1>1, <1>5

AccountStatus == {"absent", "ACTIVE", "SUSPENDED", "DELETED"}
RegistryTxn == [verb : AgentVerbs \cup AccountVerbs \cup {"idle", "sweep"}, key : OpKeys \cup {"none"},
                row : AgentRowType, account : AccountStatus]
Registered(history) == \E i \in 1 .. Len(history) : history[i].type = "AGENT_REGISTERED"
Reinstated(history, i) == \E j \in i + 1 .. Len(history) : history[j].type = "ACCOUNT_REINSTATED"
HasRevoked(history) == \E i \in 1 .. Len(history) : history[i].type = "AGENT_REVOKED"

\* What the stream says of the rows: an account belongs to a registered Agent;
\* after a revocation only harmless Events follow, the row is revoked, and the
\* account stays barred until it is reinstated.
LogGood(row, acc, creds, history) ==
  /\ (Registered(history) => row.status # "absent") /\ (row # NoAgent \/ acc # "absent" => Registered(history))
  /\ \A i \in 1 .. Len(history) : history[i].type = "AGENT_REVOKED" =>
       /\ RevokedAt(history, i) /\ IsRevoked(row)
       /\ Reinstated(history, i) \/ (acc # "ACTIVE" /\ creds = {})
\* What the row locks give: one holder, and what it read is still so.
LockGood(tx, row, acc) ==
  /\ \A o \in Operators : tx[o].verb \in AgentVerbs => tx[o].row = row /\ row # NoAgent
  /\ \A o \in Operators : tx[o].verb \in AccountVerbs => tx[o].account = acc /\ acc # "absent"
  /\ \A o, p \in Operators : tx[o].verb \in AgentVerbs /\ tx[p].verb \in AgentVerbs => o = p
  /\ \A o, p \in Operators : tx[o].verb \in AccountVerbs /\ tx[p].verb \in AccountVerbs => o = p

RegistryInv ==
  /\ agentRow \in AgentRowType /\ account \in AccountStatus /\ credentials \subseteq Credentials
  /\ log \in Seq(RegistryEvent) /\ Len(log) <= MaxLog /\ txn \in [Operators -> RegistryTxn]
  /\ LogGood(agentRow, account, credentials, log) /\ LockGood(txn, agentRow, account)
  /\ \A o \in Operators : txn[o].verb # "idle" => Registered(log)
  /\ deletion => Registered(log)

\* The rewritten row is what the stream says.
LEMMA RefreshIs ==
  ASSUME NEW history \in Seq(RegistryEvent), NEW tested \in BOOLEAN
  PROVE  /\ RefreshState(history, tested) \in AgentRowType
         /\ (Registered(history) => RefreshState(history, tested).status # "absent")
         /\ \A i \in 1 .. Len(history) : RevokedAt(history, i) => IsRevoked(RefreshState(history, tested))
<1> DEFINE s == FoldEvents(history)
<1>1. /\ s \in AgentRowType /\ (Registered(history) => s.status # "absent")
      /\ \A i \in 1 .. Len(history) : RevokedAt(history, i) => IsRevoked(s)
  BY FoldIs DEF Registered
<1> HIDE DEF s
<1> DEFINE r == [s EXCEPT !.tested = tested]
<1>2. r \in AgentRowType /\ r.status = s.status /\ r.online = s.online
  BY <1>1 DEF AgentRowType
<1> HIDE DEF r
<1>3. RefreshState(history, tested) = r
  BY DEF RefreshState, s, r
<1> QED
  BY <1>1, <1>2, <1>3 DEF IsRevoked

\* What one more Event e makes of a stream.
Grown(history, e, more) ==
  /\ more \in Seq(RegistryEvent) /\ Len(more) = Len(history) + 1 /\ Len(history) \in Nat
  /\ more[Len(history) + 1] = e /\ \A i \in 1 .. Len(history) : more[i] = history[i]
  /\ (Registered(history) \/ e.type = "AGENT_REGISTERED" => Registered(more))
  /\ \A i \in 1 .. Len(more) : more[i].type = "AGENT_REVOKED" => RevokedAt(more, i)
  /\ \A i \in 1 .. Len(history) : Reinstated(history, i) => Reinstated(more, i)
  /\ (e.type = "ACCOUNT_REINSTATED" => \A i \in 1 .. Len(history) : Reinstated(more, i))

\* One more Event: what was said is said; a revocation is still followed by
\* harmless Events only, when the new one is harmless or none was revoked.
LEMMA LogGrows ==
  ASSUME NEW history \in Seq(RegistryEvent), NEW e \in RegistryEvent,
         \A i \in 1 .. Len(history) : history[i].type = "AGENT_REVOKED" => RevokedAt(history, i),
         HasRevoked(history) => e.type \in HarmlessTypes,
         NEW more, more = Append(history, e)
  PROVE  Grown(history, e, more)
<1>1. /\ more \in Seq(RegistryEvent) /\ Len(more) = Len(history) + 1 /\ Len(history) \in Nat
      /\ more[Len(history) + 1] = e /\ \A i \in 1 .. Len(history) : more[i] = history[i]
  OBVIOUS
<1>2. Registered(history) \/ e.type = "AGENT_REGISTERED" => Registered(more)
  BY <1>1 DEF Registered
<1>3. ASSUME NEW i \in 1 .. Len(more), more[i].type = "AGENT_REVOKED" PROVE RevokedAt(more, i)
  <2>1. CASE i = Len(history) + 1
    <3>1. i + 1 .. Len(more) = {}
      BY <1>1, <2>1
    <3> QED
      BY <1>3, <3>1 DEF RevokedAt
  <2>2. CASE i \in 1 .. Len(history)
    <3>1. history[i].type = "AGENT_REVOKED" /\ RevokedAt(history, i) /\ e.type \in HarmlessTypes
      BY <1>1, <1>3, <2>2 DEF HasRevoked
    <3>2. ASSUME NEW j \in i + 1 .. Len(more) PROVE more[j].type \in HarmlessTypes
      <4>1. CASE j = Len(history) + 1
        BY <1>1, <3>1, <4>1
      <4>2. CASE j \in i + 1 .. Len(history)
        <5>1. j \in 1 .. Len(history)
          BY <1>1, <2>2, <4>2
        <5> QED
          BY <1>1, <3>1, <4>2, <5>1 DEF RevokedAt
      <4> QED
        BY <1>1, <2>2, <4>1, <4>2
    <3> QED
      BY <1>3, <3>2 DEF RevokedAt
  <2> QED
    BY <1>1, <2>1, <2>2
<1>4. ASSUME NEW i \in 1 .. Len(history), Reinstated(history, i) PROVE Reinstated(more, i)
  <2>1. PICK j \in i + 1 .. Len(history) : history[j].type = "ACCOUNT_REINSTATED"
    BY <1>4 DEF Reinstated
  <2>2. j \in i + 1 .. Len(more) /\ j \in 1 .. Len(history)
    BY <1>1, <2>1
  <2> QED
    BY <1>1, <2>1, <2>2 DEF Reinstated
<1>5. ASSUME e.type = "ACCOUNT_REINSTATED", NEW i \in 1 .. Len(history) PROVE Reinstated(more, i)
  <2>1. Len(history) + 1 \in i + 1 .. Len(more)
    BY <1>1
  <2> QED
    BY <1>1, <1>5, <2>1 DEF Reinstated
<1> QED
  BY <1>1, <1>2, <1>3, <1>4, <1>5 DEF Grown

\* An Event that revokes nothing, with the rows that its command writes.
LEMMA LogKeeps ==
  ASSUME NEW history \in Seq(RegistryEvent), NEW e \in RegistryEvent,
         NEW row, NEW acc, NEW creds, LogGood(row, acc, creds, history),
         HasRevoked(history) => e.type \in HarmlessTypes, e.type # "AGENT_REVOKED",
         NEW more, more = Append(history, e), NEW row2, NEW acc2, NEW creds2,
         Registered(more) => row2.status # "absent", Registered(more),
         HasRevoked(history) => IsRevoked(row2),
         e.type = "ACCOUNT_REINSTATED" \/ ~HasRevoked(history) \/ (acc2 # "ACTIVE") \/ acc2 = acc,
         creds2 = creds \/ ~HasRevoked(history)
  PROVE  LogGood(row2, acc2, creds2, more)
<1>1. \A i \in 1 .. Len(history) : history[i].type = "AGENT_REVOKED" => RevokedAt(history, i)
  BY DEF LogGood
<1>2. Grown(history, e, more)
  BY <1>1, LogGrows
<1>3. ASSUME NEW i \in 1 .. Len(more), more[i].type = "AGENT_REVOKED"
      PROVE  /\ RevokedAt(more, i) /\ IsRevoked(row2)
             /\ Reinstated(more, i) \/ (acc2 # "ACTIVE" /\ creds2 = {})
  <2>1. i \in 1 .. Len(history) /\ history[i].type = "AGENT_REVOKED" /\ HasRevoked(history)
    BY <1>2, <1>3 DEF HasRevoked, Grown
  <2>2. Reinstated(history, i) \/ (acc # "ACTIVE" /\ creds = {})
    BY <2>1 DEF LogGood
  <2> QED
    BY <1>2, <1>3, <2>1, <2>2 DEF Grown
<1> QED
  BY <1>3 DEF LogGood

\* A command of one operator ends: it writes a row only while it holds it, or
\* while nobody else does.
LEMMA LockEnds ==
  ASSUME NEW tx \in [Operators -> RegistryTxn], NEW row, NEW acc, LockGood(tx, row, acc),
         NEW o \in Operators, NEW tx2, tx2 = [tx EXCEPT ![o] = NoAgentTxn],
         NEW row2, row2 = row \/ \A p \in Operators \ {o} : tx[p].verb \notin AgentVerbs,
         NEW acc2, acc2 = acc \/ \A p \in Operators \ {o} : tx[p].verb \notin AccountVerbs
  PROVE  tx2 \in [Operators -> RegistryTxn] /\ LockGood(tx2, row2, acc2)
<1>1. NoAgentTxn \in RegistryTxn /\ NoAgentTxn.verb = "idle"
  BY DEF NoAgentTxn, RegistryTxn, NoAgent, AgentRowType, AgentStatus, AccountStatus
<1>2. "idle" \notin AgentVerbs /\ "idle" \notin AccountVerbs
  BY DEF AgentVerbs, AccountVerbs
<1>3. tx2 \in [Operators -> RegistryTxn] /\ tx2[o] = NoAgentTxn
      /\ \A p \in Operators \ {o} : tx2[p] = tx[p]
  BY <1>1
<1> QED
  BY <1>1, <1>2, <1>3 DEF LockGood

\* The holder of a row is alone with it.
LEMMA HolderAlone ==
  ASSUME NEW tx, NEW row, NEW acc, LockGood(tx, row, acc), NEW o \in Operators
  PROVE  /\ (tx[o].verb \in AgentVerbs => /\ tx[o].row = row
                                          /\ \A p \in Operators \ {o} : tx[p].verb \notin AgentVerbs)
         /\ (tx[o].verb \in AccountVerbs => /\ tx[o].account = acc /\ acc # "absent"
                                            /\ \A p \in Operators \ {o} : tx[p].verb \notin AccountVerbs)
BY DEF LockGood

\* Commands that end: the stream and the rows as below, no work in hand.
LEMMA CommandEnds ==
  ASSUME RegistryInv, NEW o \in Operators, txn[o].verb # "idle",
         txn' = [txn EXCEPT ![o] = NoAgentTxn],
         agentRow' \in AgentRowType, account' \in AccountStatus, credentials' \subseteq Credentials,
         log' \in Seq(RegistryEvent), Len(log') <= MaxLog, Registered(log'),
         LogGood(agentRow', account', credentials', log'),
         agentRow' = agentRow \/ \A p \in Operators \ {o} : txn[p].verb \notin AgentVerbs,
         account' = account \/ \A p \in Operators \ {o} : txn[p].verb \notin AccountVerbs
  PROVE  RegistryInv'
<1>1. txn \in [Operators -> RegistryTxn] /\ LockGood(txn, agentRow, account)
  BY DEF RegistryInv
<1>2. txn' \in [Operators -> RegistryTxn] /\ LockGood(txn', agentRow', account')
  BY <1>1, LockEnds
<1> QED
  BY <1>2 DEF RegistryInv

\* A command that appends an Event of the Agent and rewrites its row.
LEMMA FinishKeeps ==
  ASSUME RegistryInv, NEW o \in Operators, txn[o].verb # "idle",
         NEW type \in RegistryTypes, NEW tested \in BOOLEAN, FinishAgent(o, type, tested),
         \A p \in Operators \ {o} : txn[p].verb \notin AgentVerbs,
         type # "AGENT_REVOKED", HasRevoked(log) => type \in HarmlessTypes,
         account' \in AccountStatus, credentials' = credentials,
         account' = account \/ /\ \A p \in Operators \ {o} : txn[p].verb \notin AccountVerbs
                               /\ ~HasRevoked(log)
  PROVE  RegistryInv'
<1> DEFINE e == EventOf(type, txn[o].key)
<1>1. e \in RegistryEvent /\ e.type = type
  BY DEF RegistryInv, RegistryTxn, RegistryEvent, EventOf
<1>2. /\ Len(log) < MaxLog /\ log' = Append(log, e) /\ agentRow' = RefreshState(log', tested)
      /\ txn' = [txn EXCEPT ![o] = NoAgentTxn]
  BY DEF FinishAgent
<1> HIDE DEF e
<1>3. /\ log \in Seq(RegistryEvent) /\ LogGood(agentRow, account, credentials, log)
      /\ Registered(log) /\ credentials \subseteq Credentials
  BY DEF RegistryInv
<1>4. \A i \in 1 .. Len(log) : log[i].type = "AGENT_REVOKED" => RevokedAt(log, i)
  BY <1>3 DEF LogGood
<1>5. Grown(log, e, log')
  BY <1>1, <1>2, <1>3, <1>4, LogGrows
<1>6. log' \in Seq(RegistryEvent) /\ Len(log') <= MaxLog /\ Registered(log')
  BY <1>2, <1>3, <1>5, RegistryAssumption DEF Grown
<1>7. /\ agentRow' \in AgentRowType /\ agentRow'.status # "absent"
      /\ \A i \in 1 .. Len(log') : RevokedAt(log', i) => IsRevoked(agentRow')
  BY <1>2, <1>6, RefreshIs
<1>8. HasRevoked(log) => IsRevoked(agentRow')
  <2> SUFFICES ASSUME NEW i \in 1 .. Len(log), log[i].type = "AGENT_REVOKED"
               PROVE  IsRevoked(agentRow')
    BY DEF HasRevoked
  <2>1. i \in 1 .. Len(log') /\ log'[i].type = "AGENT_REVOKED"
    BY <1>5 DEF Grown
  <2> QED
    BY <1>5, <1>7, <2>1 DEF Grown
<1>9. LogGood(agentRow', account', credentials', log')
  BY <1>1, <1>2, <1>3, <1>6, <1>7, <1>8, LogKeeps
<1> QED
  BY <1>2, <1>3, <1>6, <1>7, <1>9, CommandEnds

\* A command on the account, with its Event.
LEMMA AccountKeeps ==
  ASSUME RegistryInv, NEW o \in Operators, txn[o].verb \in AccountVerbs,
         NEW type \in HarmlessTypes, RecordAccount(o, type),
         account' \in AccountStatus \ {"ACTIVE"} \/ (account' = "ACTIVE" /\ type = "ACCOUNT_REINSTATED"),
         credentials' = credentials, agentRow' \in AgentRowType,
         agentRow' = agentRow \/ /\ \A p \in Operators \ {o} : txn[p].verb \notin AgentVerbs
                                 /\ agentRow.status # "revoked" /\ agentRow'.status # "absent"
  PROVE  RegistryInv'
<1> DEFINE e == EventOf(type, txn[o].key)
<1>1. e \in RegistryEvent /\ e.type = type /\ type # "AGENT_REVOKED"
  <2>1. type \in RegistryTypes /\ type # "AGENT_REVOKED"
    BY DEF HarmlessTypes, RegistryTypes
  <2>2. txn[o].key \in OpKeys \cup {"none"}
    BY DEF RegistryInv, RegistryTxn
  <2> QED
    BY <2>1, <2>2 DEF RegistryEvent, EventOf
<1>2. Len(log) < MaxLog /\ log' = Append(log, e) /\ txn' = [txn EXCEPT ![o] = NoAgentTxn]
  BY DEF RecordAccount
<1> HIDE DEF e
<1>3. txn[o].verb # "idle"
  BY DEF AccountVerbs
<1>4. /\ log \in Seq(RegistryEvent) /\ LogGood(agentRow, account, credentials, log)
      /\ Registered(log) /\ credentials \subseteq Credentials
      /\ \A p \in Operators \ {o} : txn[p].verb \notin AccountVerbs
  BY <1>3, HolderAlone DEF RegistryInv
<1>5. \A i \in 1 .. Len(log) : log[i].type = "AGENT_REVOKED" => RevokedAt(log, i)
  BY <1>4 DEF LogGood
<1>6. Grown(log, e, log')
  BY <1>1, <1>2, <1>4, <1>5, LogGrows
<1>7. log' \in Seq(RegistryEvent) /\ Len(log') <= MaxLog /\ Registered(log')
  BY <1>2, <1>4, <1>6, RegistryAssumption DEF Grown
<1>8. agentRow'.status # "absent" /\ (HasRevoked(log) => IsRevoked(agentRow'))
  BY <1>4 DEF LogGood, HasRevoked, IsRevoked
<1>9. /\ e.type = "ACCOUNT_REINSTATED" \/ ~HasRevoked(log) \/ (account' # "ACTIVE") \/ account' = account
      /\ credentials' = credentials \/ ~HasRevoked(log)
      /\ account' \in AccountStatus
  BY <1>1 DEF AccountStatus
<1>10. LogGood(agentRow', account', credentials', log')
  BY <1>1, <1>2, <1>4, <1>7, <1>8, <1>9, LogKeeps
<1> QED
  BY <1>2, <1>3, <1>4, <1>7, <1>9, <1>10, CommandEnds

\* A command that leaves the stream alone.
LEMMA QuietKeeps ==
  ASSUME RegistryInv, NEW o \in Operators, txn[o].verb # "idle",
         txn' = [txn EXCEPT ![o] = NoAgentTxn], UNCHANGED <<account, log>>,
         credentials' \subseteq Credentials,
         credentials' \subseteq credentials \/ account = "ACTIVE",
         agentRow' \in AgentRowType,
         agentRow' = agentRow \/ /\ \A p \in Operators \ {o} : txn[p].verb \notin AgentVerbs
                                 /\ agentRow'.status # "absent"
                                 /\ HasRevoked(log) => IsRevoked(agentRow')
  PROVE  RegistryInv'
<1>1. /\ log \in Seq(RegistryEvent) /\ LogGood(agentRow, account, credentials, log)
      /\ Registered(log) /\ Len(log) <= MaxLog /\ account \in AccountStatus
  BY DEF RegistryInv
<1>2. agentRow'.status # "absent" /\ (HasRevoked(log) => IsRevoked(agentRow'))
  BY <1>1 DEF LogGood, HasRevoked
<1>3. LogGood(agentRow', account', credentials', log')
  BY <1>1, <1>2 DEF LogGood, HasRevoked
<1> QED
  BY <1>1, <1>3, CommandEnds

\* Every step keeps the invariant.
LEMMA RegistryStepKeeps ==
  ASSUME RegistryInv, [RegistryNext]_registryVars
  PROVE  RegistryInv'
<1>0. /\ agentRow \in AgentRowType /\ account \in AccountStatus /\ credentials \subseteq Credentials
      /\ log \in Seq(RegistryEvent) /\ Len(log) <= MaxLog /\ txn \in [Operators -> RegistryTxn]
      /\ LogGood(agentRow, account, credentials, log) /\ LockGood(txn, agentRow, account)
      /\ \A o \in Operators : txn[o].verb # "idle" => Registered(log)
      /\ (deletion => Registered(log))
  BY DEF RegistryInv
<1>1. ASSUME NEW o \in Operators, txn[o].verb \in AgentVerbs
      PROVE  /\ txn[o].verb # "idle" /\ txn[o].row = agentRow /\ txn[o].row.tested \in BOOLEAN
             /\ \A p \in Operators \ {o} : txn[p].verb \notin AgentVerbs
  BY <1>0, <1>1, HolderAlone DEF AgentVerbs, AgentRowType
<1>2. ASSUME NEW o \in Operators, txn[o].verb \in AccountVerbs
      PROVE  txn[o].verb # "idle" /\ txn[o].account = account
  BY <1>0, <1>2, HolderAlone DEF AccountVerbs
<1>3. HasRevoked(log) => agentRow.status = "revoked" /\ agentRow.online = FALSE
  BY <1>0 DEF LogGood, HasRevoked, IsRevoked
<1>4. ASSUME NEW o \in Operators, NEW k \in OpKeys, NEW c \in Credentials, RegisterAgent(o, k, c)
      PROVE  RegistryInv'
  <2> DEFINE e == EventOf("AGENT_REGISTERED", k)
  <2>1. /\ agentRow = NoAgent /\ Len(log) < MaxLog /\ log' = Append(log, e)
        /\ agentRow' = RefreshState(log', FALSE) /\ account' = "ACTIVE" /\ credentials' = {c}
        /\ txn' = txn
    BY <1>4 DEF RegisterAgent
  <2>2. e \in RegistryEvent /\ e.type = "AGENT_REGISTERED"
    BY DEF RegistryEvent, EventOf, RegistryTypes
  <2> HIDE DEF e
  <2>3. agentRow.status = "absent"
    BY <2>1 DEF NoAgent
  <2>4. ~HasRevoked(log) /\ account = "absent"
    BY <1>0, <1>3, <2>3 DEF LogGood
  <2>5. \A i \in 1 .. Len(log) : log[i].type = "AGENT_REVOKED" => RevokedAt(log, i)
    BY <2>4 DEF HasRevoked
  <2>6. Grown(log, e, log')
    BY <1>0, <2>1, <2>2, <2>4, <2>5, LogGrows
  <2>7. log' \in Seq(RegistryEvent) /\ Len(log') <= MaxLog /\ Registered(log')
    BY <1>0, <2>1, <2>2, <2>6, RegistryAssumption DEF Grown
  <2>8. agentRow' \in AgentRowType /\ agentRow'.status # "absent"
    BY <2>1, <2>7, RefreshIs
  <2>9. LogGood(agentRow', account', credentials', log')
    BY <1>0, <2>1, <2>2, <2>4, <2>7, <2>8, LogKeeps
  <2>10. \A p \in Operators : txn[p].verb \notin AgentVerbs /\ txn[p].verb \notin AccountVerbs
    BY <1>0, <2>1, <2>4 DEF LockGood
  <2>11. LockGood(txn', agentRow', account')
    BY <2>1, <2>10 DEF LockGood
  <2>12. account' \in AccountStatus /\ credentials' \subseteq Credentials
    BY <2>1 DEF AccountStatus
  <2> QED
    BY <1>0, <2>1, <2>7, <2>8, <2>9, <2>11, <2>12 DEF RegistryInv
<1>5. ASSUME NEW o \in Operators, NEW t \in RegistryTxn, txn[o].verb = "idle",
             txn' = [txn EXCEPT ![o] = t], UNCHANGED <<agentRow, account, credentials, log>>,
             Registered(log),
             t.verb \in AgentVerbs => t.row = agentRow /\ agentRow # NoAgent /\ AgentFree(o),
             t.verb \in AccountVerbs => t.account = account /\ account # "absent" /\ AccountFree(o)
      PROVE  RegistryInv'
  <2>1. txn' \in [Operators -> RegistryTxn] /\ txn'[o] = t /\ \A p \in Operators \ {o} : txn'[p] = txn[p]
    BY <1>0, <1>5
  <2>2. LockGood(txn', agentRow, account)
    BY <1>0, <1>5, <2>1 DEF LockGood, AgentFree, AccountFree
  <2> QED
    BY <1>0, <1>5, <2>1, <2>2 DEF RegistryInv
<1>6. ASSUME NEW o \in Operators, BeginAgent(o) PROVE RegistryInv'
  <2>1. PICK v \in AgentVerbs, k \in OpKeys : LoadAgent(o, v, k)
    BY <1>6 DEF BeginAgent
  <2> DEFINE t == [verb |-> v, key |-> k, row |-> agentRow, account |-> "absent"]
  <2>2. t \in RegistryTxn /\ t.verb = v /\ t.row = agentRow /\ v \notin AccountVerbs
    BY <1>0 DEF RegistryTxn, AccountStatus, AgentVerbs, AccountVerbs
  <2>3. /\ txn[o].verb = "idle" /\ agentRow # NoAgent /\ AgentFree(o) /\ txn' = [txn EXCEPT ![o] = t]
        /\ UNCHANGED <<agentRow, account, credentials, log>>
    BY <1>6, <2>1 DEF LoadAgent, BeginAgent
  <2> HIDE DEF t
  <2>4. Registered(log)
    BY <1>0, <2>3 DEF LogGood
  <2> QED
    BY <1>5, <2>2, <2>3, <2>4
<1>7. ASSUME NEW o \in Operators, BeginAccount(o) PROVE RegistryInv'
  <2>1. PICK v \in AccountVerbs, k \in OpKeys : LoadAccount(o, v, k)
    BY <1>7 DEF BeginAccount
  <2> DEFINE t == [verb |-> v, key |-> k, row |-> NoAgent, account |-> account]
  <2>2. t \in RegistryTxn /\ t.verb = v /\ t.account = account /\ v \notin AgentVerbs
    BY <1>0 DEF RegistryTxn, NoAgent, AgentRowType, AgentStatus, AgentVerbs, AccountVerbs
  <2>3. /\ txn[o].verb = "idle" /\ account # "absent" /\ AccountFree(o) /\ txn' = [txn EXCEPT ![o] = t]
        /\ UNCHANGED <<agentRow, account, credentials, log>>
    BY <1>7, <2>1 DEF LoadAccount, BeginAccount
  <2> HIDE DEF t
  <2>4. Registered(log)
    BY <1>0, <2>3 DEF LogGood
  <2> QED
    BY <1>5, <2>2, <2>3, <2>4
<1>8. ASSUME NEW o \in Operators, ListAgents(o) PROVE RegistryInv'
  <2> DEFINE t == [NoAgentTxn EXCEPT !.verb = "sweep"]
  <2>1. t \in RegistryTxn /\ t.verb = "sweep"
    BY DEF NoAgentTxn, RegistryTxn, NoAgent, AgentRowType, AgentStatus, AccountStatus
  <2>2. /\ txn[o].verb = "idle" /\ agentRow.status = "active" /\ txn' = [txn EXCEPT ![o] = t]
        /\ UNCHANGED <<agentRow, account, credentials, log>>
    BY <1>8 DEF ListAgents, InVerb
  <2> HIDE DEF t
  <2>3. Registered(log)
    BY <1>0, <2>2 DEF LogGood, NoAgent
  <2>4. "sweep" \notin AgentVerbs /\ "sweep" \notin AccountVerbs
    BY DEF AgentVerbs, AccountVerbs
  <2> QED
    BY <1>5, <2>1, <2>2, <2>3, <2>4
\* Commands of an Agent that append, on a row that is not revoked.
<1>9. ASSUME NEW o \in Operators, txn[o].verb \in AgentVerbs, StatusSeen(o) # "revoked",
             NEW type \in RegistryTypes, NEW tested \in BOOLEAN, FinishAgent(o, type, tested),
             type # "AGENT_REVOKED", account' \in AccountStatus, credentials' = credentials,
             account' = account \/ AccountFree(o)
      PROVE  RegistryInv'
  <2>1. ~HasRevoked(log)
    BY <1>1, <1>3, <1>9 DEF StatusSeen
  <2>2. account' = account \/ /\ \A p \in Operators \ {o} : txn[p].verb \notin AccountVerbs
                              /\ ~HasRevoked(log)
    BY <1>9, <2>1 DEF AccountFree
  <2> QED
    BY <1>1, <1>9, <2>1, <2>2, FinishKeeps
<1>10. ASSUME NEW o \in Operators, UpdateAgent(o) PROVE RegistryInv'
  <2>1. txn[o].verb \in AgentVerbs /\ "AGENT_UPDATED" \in RegistryTypes /\ "AGENT_UPDATED" # "AGENT_REVOKED"
    BY <1>10 DEF UpdateAgent, InVerb, RegistryTypes, HarmlessTypes, AgentVerbs
  <2>2. /\ StatusSeen(o) # "revoked" /\ FinishAgent(o, "AGENT_UPDATED", txn[o].row.tested)
        /\ account' = account /\ credentials' = credentials
    BY <1>10 DEF UpdateAgent
  <2> QED
    BY <1>0, <1>1, <1>9, <2>1, <2>2
<1>11. ASSUME NEW o \in Operators, ActivateAgent(o) PROVE RegistryInv'
  <2>1. txn[o].verb \in AgentVerbs /\ "AGENT_ACTIVATED" \in RegistryTypes
        /\ "AGENT_ACTIVATED" # "AGENT_REVOKED" /\ account' \in AccountStatus
    BY <1>11 DEF ActivateAgent, InVerb, RegistryTypes, HarmlessTypes, AgentVerbs, AccountStatus
  <2>2. /\ StatusSeen(o) # "revoked" /\ FinishAgent(o, "AGENT_ACTIVATED", TRUE)
        /\ AccountFree(o) /\ credentials' = credentials
    BY <1>11 DEF ActivateAgent
  <2> QED
    BY <1>9, <2>1, <2>2
<1>12. ASSUME NEW o \in Operators, SuspendAgent(o) PROVE RegistryInv'
  <2>1. txn[o].verb \in AgentVerbs /\ "AGENT_SUSPENDED" \in RegistryTypes
        /\ "AGENT_SUSPENDED" # "AGENT_REVOKED" /\ account' \in AccountStatus
    BY <1>12 DEF SuspendAgent, InVerb, RegistryTypes, HarmlessTypes, AgentVerbs, AccountStatus
  <2>2. /\ StatusSeen(o) # "revoked" /\ FinishAgent(o, "AGENT_SUSPENDED", txn[o].row.tested)
        /\ AccountFree(o) /\ credentials' = credentials
    BY <1>12 DEF SuspendAgent
  <2> QED
    BY <1>1, <1>9, <2>1, <2>2
<1>13. ASSUME NEW o \in Operators, RecordHeartbeat(o) PROVE RegistryInv'
  <2>1. txn[o].verb \in AgentVerbs /\ "AGENT_HEARTBEAT_RECORDED" \in RegistryTypes
        /\ "AGENT_HEARTBEAT_RECORDED" # "AGENT_REVOKED"
    BY <1>13 DEF RecordHeartbeat, InVerb, RegistryTypes, HarmlessTypes, AgentVerbs
  <2>2. /\ StatusSeen(o) # "revoked" /\ FinishAgent(o, "AGENT_HEARTBEAT_RECORDED", TRUE)
        /\ account' = account /\ credentials' = credentials
    BY <1>13 DEF RecordHeartbeat
  <2> QED
    BY <1>0, <1>9, <2>1, <2>2
<1>14. ASSUME NEW o \in Operators, MarkOffline(o) PROVE RegistryInv'
  <2>1. txn[o].verb \in AgentVerbs /\ "AGENT_MARKED_OFFLINE" \in RegistryTypes
        /\ "AGENT_MARKED_OFFLINE" # "AGENT_REVOKED"
    BY <1>14 DEF MarkOffline, InVerb, RegistryTypes, HarmlessTypes, AgentVerbs
  <2>2. /\ StatusSeen(o) # "revoked" /\ FinishAgent(o, "AGENT_MARKED_OFFLINE", txn[o].row.tested)
        /\ account' = account /\ credentials' = credentials
    BY <1>14 DEF MarkOffline
  <2> QED
    BY <1>0, <1>1, <1>9, <2>1, <2>2
<1>15. ASSUME NEW o \in Operators, SweepOffline(o) PROVE RegistryInv'
  <2>1. /\ txn[o].verb # "idle" /\ "AGENT_MARKED_OFFLINE" \in RegistryTypes /\ agentRow.tested \in BOOLEAN
        /\ "AGENT_MARKED_OFFLINE" # "AGENT_REVOKED" /\ "AGENT_MARKED_OFFLINE" \in HarmlessTypes
    BY <1>0, <1>15 DEF SweepOffline, InVerb, RegistryTypes, HarmlessTypes, AgentRowType
  <2>2. /\ \A p \in Operators \ {o} : txn[p].verb \notin AgentVerbs
        /\ FinishAgent(o, "AGENT_MARKED_OFFLINE", agentRow.tested)
        /\ account' = account /\ credentials' = credentials
    BY <1>15 DEF SweepOffline, AgentFree
  <2> QED
    BY <1>0, <2>1, <2>2, FinishKeeps
<1>16. ASSUME NEW o \in Operators, RevokeAgent(o) PROVE RegistryInv'
  <2> DEFINE e == EventOf("AGENT_REVOKED", txn[o].key)
  <2>1. /\ txn[o].verb \in AgentVerbs /\ StatusSeen(o) # "revoked" /\ AccountFree(o)
        /\ account' = "SUSPENDED" /\ credentials' = {} /\ Len(log) < MaxLog
        /\ log' = Append(log, e) /\ agentRow' = RefreshState(log', txn[o].row.tested)
        /\ txn' = [txn EXCEPT ![o] = NoAgentTxn]
    BY <1>16 DEF RevokeAgent, FinishAgent, InVerb, AgentVerbs
  <2>2. e \in RegistryEvent /\ e.type = "AGENT_REVOKED"
    BY <1>0 DEF RegistryEvent, EventOf, RegistryTxn, RegistryTypes
  <2> HIDE DEF e
  <2>3. ~HasRevoked(log)
    BY <1>1, <1>3, <2>1 DEF StatusSeen
  <2>4. \A i \in 1 .. Len(log) : log[i].type = "AGENT_REVOKED" => RevokedAt(log, i)
    BY <2>3 DEF HasRevoked
  <2>5. Grown(log, e, log')
    BY <1>0, <2>1, <2>2, <2>3, <2>4, LogGrows
  <2>6. Registered(log) /\ txn[o].verb # "idle"
    BY <1>0, <1>1, <2>1
  <2>7. log' \in Seq(RegistryEvent) /\ Len(log') <= MaxLog /\ Registered(log')
    BY <1>0, <2>1, <2>5, <2>6, RegistryAssumption DEF Grown
  <2>8. /\ agentRow' \in AgentRowType /\ agentRow'.status # "absent"
        /\ \A i \in 1 .. Len(log') : RevokedAt(log', i) => IsRevoked(agentRow')
    BY <1>1, <2>1, <2>7, RefreshIs
  <2>9. LogGood(agentRow', account', credentials', log')
    BY <2>1, <2>5, <2>7, <2>8 DEF LogGood, Grown
  <2>10. account' \in AccountStatus /\ credentials' \subseteq Credentials
    BY <2>1 DEF AccountStatus
  <2>11. /\ \A p \in Operators \ {o} : txn[p].verb \notin AgentVerbs
         /\ \A p \in Operators \ {o} : txn[p].verb \notin AccountVerbs
    BY <1>1, <2>1 DEF AccountFree
  <2> QED
    BY <2>1, <2>6, <2>7, <2>8, <2>9, <2>10, <2>11, CommandEnds
<1>17. ASSUME NEW o \in Operators, TestAgentConnection(o) PROVE RegistryInv'
  <2>1. PICK passed \in BOOLEAN : agentRow' = [agentRow EXCEPT !.tested = @ \/ passed]
    BY <1>17 DEF TestAgentConnection
  <2>2. /\ agentRow' \in AgentRowType /\ agentRow'.status = agentRow.status
        /\ agentRow'.online = agentRow.online
    BY <1>0, <2>1 DEF AgentRowType
  <2>3. /\ txn[o].verb \in AgentVerbs /\ txn' = [txn EXCEPT ![o] = NoAgentTxn]
        /\ UNCHANGED <<account, log>> /\ credentials' = credentials
    BY <1>17 DEF TestAgentConnection, InVerb, AgentVerbs
  <2>4. Registered(log)
    BY <1>0, <1>1, <2>3
  <2>5. agentRow'.status # "absent" /\ (HasRevoked(log) => IsRevoked(agentRow'))
    BY <1>0, <1>3, <2>2, <2>4 DEF LogGood, IsRevoked
  <2> QED
    BY <1>0, <1>1, <2>2, <2>3, <2>5, QuietKeeps
<1>18. ASSUME NEW o \in Operators, ReplayAgent(o) PROVE RegistryInv'
  <2>1. /\ txn[o].verb \in AgentVerbs /\ agentRow' = RefreshState(log, agentRow.tested)
        /\ txn' = [txn EXCEPT ![o] = NoAgentTxn] /\ UNCHANGED <<account, log>>
        /\ credentials' = credentials
    BY <1>18 DEF ReplayAgent, InVerb, AgentVerbs
  <2>2. Registered(log) /\ agentRow.tested \in BOOLEAN
    BY <1>0, <1>1, <2>1
  <2>3. /\ agentRow' \in AgentRowType /\ agentRow'.status # "absent"
        /\ \A i \in 1 .. Len(log) : RevokedAt(log, i) => IsRevoked(agentRow')
    BY <1>0, <2>1, <2>2, RefreshIs
  <2>4. HasRevoked(log) => IsRevoked(agentRow')
    BY <1>0, <2>3 DEF HasRevoked, LogGood
  <2> QED
    BY <1>0, <1>1, <2>1, <2>3, <2>4, QuietKeeps
<1>19. ASSUME NEW o \in Operators, SuspendAccount(o) PROVE RegistryInv'
  <2>1. /\ txn[o].verb \in AccountVerbs /\ account' = "SUSPENDED" /\ AgentFree(o)
        /\ RecordAccount(o, "ACCOUNT_SUSPENDED") /\ credentials' = credentials
        /\ agentRow' = IF agentRow.status = "revoked" THEN agentRow
                       ELSE [agentRow EXCEPT !.status = "suspended", !.online = FALSE]
    BY <1>19 DEF SuspendAccount, InVerb, AccountVerbs
  <2>2. /\ agentRow' \in AgentRowType
        /\ agentRow' = agentRow \/ /\ \A p \in Operators \ {o} : txn[p].verb \notin AgentVerbs
                                   /\ agentRow.status # "revoked" /\ agentRow'.status # "absent"
    BY <1>0, <2>1 DEF AgentFree, AgentRowType, AgentStatus
  <2>3. "ACCOUNT_SUSPENDED" \in HarmlessTypes /\ account' \in AccountStatus \ {"ACTIVE"}
    BY <2>1 DEF HarmlessTypes, AccountStatus
  <2> QED
    BY <2>1, <2>2, <2>3, AccountKeeps
<1>20. ASSUME NEW o \in Operators, ReinstateAccount(o) PROVE RegistryInv'
  <2>1. /\ txn[o].verb \in AccountVerbs /\ account' = "ACTIVE"
        /\ RecordAccount(o, "ACCOUNT_REINSTATED") /\ credentials' = credentials
        /\ agentRow' = agentRow
    BY <1>20 DEF ReinstateAccount, InVerb, AccountVerbs
  <2>2. "ACCOUNT_REINSTATED" \in HarmlessTypes /\ agentRow' \in AgentRowType
    BY <1>0, <2>1 DEF HarmlessTypes
  <2> QED
    BY <2>1, <2>2, AccountKeeps
<1>21. ASSUME NEW o \in Operators, RequestAccountDeletion(o) PROVE RegistryInv'
  <2>1. /\ txn[o].verb \in AccountVerbs /\ account' = "SUSPENDED"
        /\ RecordAccount(o, "ACCOUNT_DELETION_REQUESTED") /\ credentials' = credentials
        /\ agentRow' = agentRow
    BY <1>21 DEF RequestAccountDeletion, InVerb, AccountVerbs
  <2>2. /\ "ACCOUNT_DELETION_REQUESTED" \in HarmlessTypes /\ agentRow' \in AgentRowType
        /\ account' \in AccountStatus \ {"ACTIVE"}
    BY <1>0, <2>1 DEF HarmlessTypes, AccountStatus
  <2> QED
    BY <2>1, <2>2, AccountKeeps
<1>22. ASSUME NEW o \in Operators, NEW c \in Credentials, NEW d \in Credentials,
              IssueCredential(o, c) \/ RevokeCredential(o, c) \/ RotateCredential(o, c, d)
       PROVE  RegistryInv'
  <2>1. /\ txn[o].verb \in AccountVerbs /\ txn' = [txn EXCEPT ![o] = NoAgentTxn]
        /\ UNCHANGED <<account, log>> /\ agentRow' = agentRow
        /\ txn[o].account = "ACTIVE" \/ credentials' \subseteq credentials
    BY <1>22 DEF IssueCredential, RevokeCredential, RotateCredential, RevokeServiceToken, InVerb,
                 AccountVerbs
  <2>2. credentials' \subseteq Credentials
    BY <1>0, <1>22 DEF IssueCredential, RevokeCredential, RotateCredential, IssueServiceToken,
                       RotateServiceToken, RevokeServiceToken
  <2> QED
    BY <1>0, <1>2, <2>1, <2>2, QuietKeeps
<1>23. ASSUME NEW o \in Operators, RollbackOperator(o) PROVE RegistryInv'
  <2>1. /\ txn[o].verb # "idle" /\ txn' = [txn EXCEPT ![o] = NoAgentTxn]
        /\ UNCHANGED <<account, log>> /\ agentRow' = agentRow /\ credentials' = credentials
    BY <1>23 DEF RollbackOperator
  <2> QED
    BY <1>0, <2>1, QuietKeeps
<1>24. ASSUME EndDeletion PROVE RegistryInv'
  <2>1. UNCHANGED <<agentRow, log, txn>> /\ deletion' = FALSE
    BY <1>24 DEF EndDeletion
  <2>2. CASE UNCHANGED <<account, credentials>>
    BY <1>0, <2>1, <2>2 DEF RegistryInv
  <2>3. CASE /\ \A p \in Operators : txn[p].verb \notin AccountVerbs
             /\ account' = "DELETED" /\ credentials' = {}
    <3>1. account' \in AccountStatus /\ credentials' \subseteq Credentials /\ account' # "ACTIVE"
      BY <2>3 DEF AccountStatus
    <3>2. LockGood(txn', agentRow', account')
      BY <1>0, <2>1, <2>3 DEF LockGood
    <3>3. Registered(log)
      BY <1>0, <1>24 DEF EndDeletion
    <3>4. LogGood(agentRow', account', credentials', log')
      BY <1>0, <2>1, <2>3, <3>1, <3>3 DEF LogGood
    <3> QED
      BY <1>0, <2>1, <3>1, <3>2, <3>3, <3>4 DEF RegistryInv
  <2> QED
    BY <1>24, <2>2, <2>3 DEF EndDeletion
<1>25. ASSUME UNCHANGED <<agentRow, account, credentials, log, txn, deletion>> PROVE RegistryInv'
  BY <1>0, <1>25 DEF RegistryInv
<1>26. ASSUME Silence \/ AssignTask \/ UNCHANGED registryVars PROVE RegistryInv'
  BY <1>25, <1>26 DEF Silence, AssignTask, registryVars
<1> QED
  BY <1>4, <1>6, <1>7, <1>8, <1>10, <1>11, <1>12, <1>13, <1>14, <1>15, <1>16, <1>17, <1>18, <1>19,
     <1>20, <1>21, <1>22, <1>23, <1>24, <1>26 DEF RegistryNext

\* A revocation is final: whatever commands of the Agent and of its account,
\* sweeps, probes and retries run beside it, the row stays revoked, no command
\* that had read an earlier row appends, and no token is active until an
\* administrator reinstates the account (revoke_agent, refresh_state, _load).
THEOREM RegistryRevokedIsFinal == RegistrySpec => [](RegistryTypeOK /\ RevokedIsFinal)
<1>1. RegistryInit => RegistryInv
  <2> SUFFICES ASSUME RegistryInit PROVE RegistryInv
    OBVIOUS
  <2>1. /\ agentRow = NoAgent /\ account = "absent" /\ credentials = {} /\ log = <<>>
        /\ deletion = FALSE /\ txn = [o \in Operators |-> NoAgentTxn]
    BY DEF RegistryInit
  <2>2. NoAgent \in AgentRowType /\ NoAgent.status = "absent"
    BY DEF NoAgent, AgentRowType, AgentStatus
  <2>3. NoAgentTxn \in RegistryTxn /\ NoAgentTxn.verb = "idle"
    BY <2>2 DEF NoAgentTxn, RegistryTxn, AccountStatus
  <2>4. 1 .. Len(log) = {} /\ log \in Seq(RegistryEvent) /\ Len(log) <= MaxLog
    BY <2>1, RegistryAssumption
  <2>5. LogGood(agentRow, account, credentials, log)
    BY <2>1, <2>4 DEF LogGood, Registered
  <2>6. "idle" \notin AgentVerbs /\ "idle" \notin AccountVerbs
    BY DEF AgentVerbs, AccountVerbs
  <2>7. LockGood(txn, agentRow, account)
    BY <2>1, <2>3, <2>6 DEF LockGood
  <2>8. account \in AccountStatus
    BY <2>1 DEF AccountStatus
  <2> QED
    BY <2>1, <2>2, <2>3, <2>4, <2>5, <2>7, <2>8 DEF RegistryInv
<1>2. RegistryInv => RegistryTypeOK /\ RevokedIsFinal
  <2> SUFFICES ASSUME RegistryInv PROVE RegistryTypeOK /\ RevokedIsFinal
    OBVIOUS
  <2>1. RegistryTypeOK
    BY DEF RegistryInv, RegistryTypeOK, AgentRowType, AgentStatus, AccountStatus, RegistryTxn
  <2>2. ASSUME NEW i \in 1 .. Len(log), log[i].type = "AGENT_REVOKED"
        PROVE  /\ agentRow.status = "revoked" /\ ~agentRow.online
               /\ \A j \in i+1..Len(log) :
                    log[j].type \notin {"AGENT_ACTIVATED", "AGENT_HEARTBEAT_RECORDED",
                                        "AGENT_SUSPENDED", "AGENT_UPDATED", "AGENT_REVOKED"}
               /\ \/ credentials = {}
                  \/ \E j \in i+1..Len(log) : log[j].type = "ACCOUNT_REINSTATED"
    <3>1. /\ RevokedAt(log, i) /\ IsRevoked(agentRow)
          /\ Reinstated(log, i) \/ (account # "ACTIVE" /\ credentials = {})
      BY <2>2 DEF RegistryInv, LogGood
    <3> QED
      BY <3>1 DEF RevokedAt, IsRevoked, Reinstated, HarmlessTypes
  <2> QED
    BY <2>1, <2>2 DEF RevokedIsFinal
<1> QED
  BY <1>1, <1>2, RegistryStepKeeps, PTL DEF RegistrySpec
-----------------------------------------------------------------------------
(***************************************************************************)
(* An Agent's limits.  The counters are read before they are raised; what  *)
(* bounds them is the number of requests that have passed the check and    *)
(* not ended, which is counted beside them.                                *)
(***************************************************************************)
\* A part of a finite set, and one that leaves an element out.
LEMMA Fewer ==
  ASSUME NEW S, IsFiniteSet(S), NEW T, T \subseteq S
  PROVE  /\ IsFiniteSet(T) /\ Cardinality(T) \in Nat /\ Cardinality(S) \in Nat
         /\ Cardinality(T) <= Cardinality(S)
         /\ \A x \in S \ T : Cardinality(T) + 1 <= Cardinality(S)
<1>1. /\ IsFiniteSet(T) /\ Cardinality(T) \in Nat /\ Cardinality(S) \in Nat
      /\ Cardinality(T) <= Cardinality(S)
  BY FS_Subset, FS_CardinalityType
<1>2. ASSUME NEW x \in S \ T PROVE Cardinality(T) + 1 <= Cardinality(S)
  <2>1. IsFiniteSet(S \ {x}) /\ Cardinality(S \ {x}) = Cardinality(S) - 1
    BY FS_RemoveElement
  <2>2. T \subseteq S \ {x}
    BY <1>2
  <2>3. Cardinality(T) <= Cardinality(S \ {x})
    BY <2>1, <2>2, FS_Subset
  <2> QED
    BY <1>1, <2>1, <2>3
<1> QED
  BY <1>1, <1>2

\* One element more, at most.
LEMMA OneMore ==
  ASSUME NEW S, IsFiniteSet(S), NEW x, NEW T, T \subseteq S \cup {x}
  PROVE  /\ IsFiniteSet(T) /\ Cardinality(T) \in Nat /\ Cardinality(S) \in Nat
         /\ Cardinality(T) <= Cardinality(S) + 1
<1>1. IsFiniteSet(S \cup {x}) /\ Cardinality(S) \in Nat /\ Cardinality(S \cup {x}) <= Cardinality(S) + 1
  <2>1. Cardinality(S) \in Nat
    BY FS_CardinalityType
  <2>2. IsFiniteSet(S \cup {x})
        /\ Cardinality(S \cup {x}) = IF x \in S THEN Cardinality(S) ELSE Cardinality(S) + 1
    BY FS_AddElement
  <2> QED
    BY <2>1, <2>2
<1>2. IsFiniteSet(T) /\ Cardinality(T) \in Nat /\ Cardinality(T) <= Cardinality(S \cup {x})
        /\ Cardinality(S \cup {x}) \in Nat
  BY <1>1, Fewer
<1> QED
  BY <1>1, <1>2

ServeRow == [step : {"idle", "enforce", "count", "effect", "loaded"}, kind : CallKinds \cup {"none"},
             on : {"none"} \cup AgentItems \cup AgentTasks, minute : 1 .. MaxMinutes, cost : {0, 1},
             open : BOOLEAN]
UsageType == [item : AgentItems \cup {"none"}, via : {"result", "report", "heartbeat"}, cost : Nat]

\* Requests in flight: all, those that passed the check in a minute, and the
\* acceptances among them.
Busy(sv) == {r \in AgentRequests : sv[r].step # "idle"}
Passed(sv, m) ==
  {r \in AgentRequests : sv[r].step \in {"count", "effect", "loaded"} /\ sv[r].minute = m}
Accepting(sv) ==
  {r \in AgentRequests : sv[r].step \in {"count", "effect"} /\ sv[r].kind = "accept"}
Active(tasks) == {t \in AgentTasks : tasks[t] = "ACTIVE"}

CallsBound(sv, windows, calls) ==
  calls <= MaxAgentCalls /\ \A m \in 1 .. MaxMinutes : windows[m] + Cardinality(Busy(sv)) <= calls
TasksBound(sv, tasks, limits) ==
  "concurrent_tasks" \in DOMAIN limits =>
    Cardinality(Active(tasks)) + Cardinality(Accepting(sv))
      <= limits["concurrent_tasks"] + (Cardinality(AgentRequests) - 1)
RateBound(sv, windows, limits) ==
  "requests_per_minute" \in DOMAIN limits =>
    \A m \in 1 .. MaxMinutes : windows[m] + Cardinality(Passed(sv, m))
                                 <= limits["requests_per_minute"] + (Cardinality(AgentRequests) - 1)

\* A request, against the item it may hold.
ServeGood(s, items) ==
  /\ (s.kind = "accept" => s.on \in AgentTasks) /\ (s.kind = "result" => s.on \in AgentItems)
  /\ (s.step = "loaded" => s.kind = "result")
  /\ (s.step = "loaded" /\ s.open => items[s.on] = "OPEN")
  /\ (s.step \in {"count", "effect", "enforce"} => s.kind # "none")
OneLoads(sv) ==
  \A q, r \in AgentRequests :
    sv[q].step = "loaded" /\ sv[r].step = "loaded" /\ sv[q].on = sv[r].on => q = r

\* The result rows of an item.
ResultRows(i, rows) == {n \in 1 .. Len(rows) : rows[n].item = i /\ rows[n].via = "result"}
ItemMetered(i, items, rows, un) ==
  IF items[i] = "RESULTED" /\ i \notin un THEN \E n : ResultRows(i, rows) = {n}
  ELSE ResultRows(i, rows) = {}

LimitsInv ==
  /\ agentLimits \in LimitSets /\ rateMinute \in 1 .. MaxMinutes
  /\ rateWindows \in [1 .. MaxMinutes -> Nat] /\ agentCalls \in Nat
  /\ agentTask \in [AgentTasks -> {"DELEGATED", "ACTIVE", "ENDED"}]
  /\ workItems \in [AgentItems -> {"OPEN", "RESULTED"}]
  /\ usageRows \in Seq(UsageType) /\ unmetered \subseteq AgentItems /\ priced \in BOOLEAN
  /\ denied \subseteq LimitNames /\ budgetMoves \subseteq AgentTasks
  /\ served \in [AgentRequests -> ServeRow]
  /\ \A r \in AgentRequests : ServeGood(served[r], workItems)
  /\ OneLoads(served)
  /\ CallsBound(served, rateWindows, agentCalls)
  /\ TasksBound(served, agentTask, agentLimits) /\ RateBound(served, rateWindows, agentLimits)
  /\ \A i \in AgentItems : ItemMetered(i, workItems, usageRows, unmetered)
  /\ \A i \in unmetered : workItems[i] = "RESULTED"

\* The sets that are counted are finite.
LEMMA CountedFinite ==
  /\ \A sv : IsFiniteSet(Busy(sv)) /\ Cardinality(Busy(sv)) \in Nat
  /\ \A sv : IsFiniteSet(Accepting(sv)) /\ Cardinality(Accepting(sv)) \in Nat
  /\ \A sv, m : IsFiniteSet(Passed(sv, m)) /\ Cardinality(Passed(sv, m)) \in Nat
  /\ \A tasks : IsFiniteSet(Active(tasks)) /\ Cardinality(Active(tasks)) \in Nat
  /\ Cardinality(AgentRequests) \in Nat \ {0}
<1>1. IsFiniteSet(AgentRequests) /\ IsFiniteSet(AgentTasks) /\ AgentRequests # {}
  BY AgentLimitsAssumption
<1>2. ASSUME NEW sv PROVE IsFiniteSet(Busy(sv)) /\ Cardinality(Busy(sv)) \in Nat
  <2>1. Busy(sv) \subseteq AgentRequests
    BY DEF Busy
  <2> QED
    BY <1>1, <2>1, Fewer
<1>3. ASSUME NEW sv PROVE IsFiniteSet(Accepting(sv)) /\ Cardinality(Accepting(sv)) \in Nat
  <2>1. Accepting(sv) \subseteq AgentRequests
    BY DEF Accepting
  <2> QED
    BY <1>1, <2>1, Fewer
<1>4. ASSUME NEW sv, NEW m PROVE IsFiniteSet(Passed(sv, m)) /\ Cardinality(Passed(sv, m)) \in Nat
  <2>1. Passed(sv, m) \subseteq AgentRequests
    BY DEF Passed
  <2> QED
    BY <1>1, <2>1, Fewer
<1>5. ASSUME NEW tasks PROVE IsFiniteSet(Active(tasks)) /\ Cardinality(Active(tasks)) \in Nat
  <2>1. Active(tasks) \subseteq AgentTasks
    BY DEF Active
  <2> QED
    BY <1>1, <2>1, Fewer
<1>6. Cardinality(AgentRequests) \in Nat \ {0}
  BY <1>1, FS_CardinalityType, FS_EmptySet
<1> QED
  BY <1>2, <1>3, <1>4, <1>5, <1>6

\* What one request becomes moves it, and nobody else, into or out of the sets.
LEMMA OneMoves ==
  ASSUME NEW sv \in [AgentRequests -> ServeRow], NEW r \in AgentRequests, NEW s \in ServeRow,
         NEW sv2, sv2 = [sv EXCEPT ![r] = s]
  PROVE  /\ sv2 \in [AgentRequests -> ServeRow] /\ sv2[r] = s
         /\ \A q \in AgentRequests \ {r} : sv2[q] = sv[q]
         /\ Busy(sv2) \subseteq Busy(sv) \cup {r} /\ Accepting(sv2) \subseteq Accepting(sv) \cup {r}
         /\ \A m : Passed(sv2, m) \subseteq Passed(sv, m) \cup {r}
         /\ (s.step = "idle" => r \notin Busy(sv2) /\ r \notin Accepting(sv2) /\ \A m : r \notin Passed(sv2, m))
<1>1. sv2 \in [AgentRequests -> ServeRow] /\ sv2[r] = s /\ \A q \in AgentRequests \ {r} : sv2[q] = sv[q]
  OBVIOUS
<1> QED
  BY <1>1 DEF Busy, Accepting, Passed

\* A limit that is set is a number.
LEMMA LimitIsNumber ==
  ASSUME NEW l \in LimitSets, NEW n \in DOMAIN l
  PROVE  l[n] \in Nat
BY AgentLimitsAssumption

NoServeFacts == NoServe \in ServeRow /\ NoServe.step = "idle" /\ NoServe.kind = "none"

\* A request that is not there.
LEMMA NoServeIs == NoServeFacts
BY AgentLimitsAssumption DEF NoServeFacts, NoServe, ServeRow, CallKinds

\* A call ends, with its count when it has one, and with the Task that it
\* accepted: every bound is kept.
LEMMA CallEnds ==
  ASSUME LimitsInv, NEW r \in AgentRequests, served[r].step # "idle",
         served' = [served EXCEPT ![r] = NoServe],
         NEW windows, windows = rateWindows \/
           /\ windows = [rateWindows EXCEPT ![served[r].minute] = @ + 1]
           /\ served[r].step \in {"effect", "loaded"},
         NEW tasks, tasks = agentTask \/
           /\ \E t \in AgentTasks : tasks = [agentTask EXCEPT ![t] = "ACTIVE"]
           /\ served[r].step = "effect" /\ served[r].kind = "accept"
  PROVE  /\ served' \in [AgentRequests -> ServeRow] /\ windows \in [1 .. MaxMinutes -> Nat]
         /\ OneLoads(served') /\ CallsBound(served', windows, agentCalls)
         /\ TasksBound(served', tasks, agentLimits) /\ RateBound(served', windows, agentLimits)
         /\ \A q \in AgentRequests \ {r} : served'[q] = served[q]
         /\ served'[r] = NoServe
<1>0. /\ agentLimits \in LimitSets /\ rateWindows \in [1 .. MaxMinutes -> Nat] /\ agentCalls \in Nat
      /\ agentTask \in [AgentTasks -> {"DELEGATED", "ACTIVE", "ENDED"}]
      /\ served \in [AgentRequests -> ServeRow] /\ OneLoads(served)
      /\ CallsBound(served, rateWindows, agentCalls)
      /\ TasksBound(served, agentTask, agentLimits) /\ RateBound(served, rateWindows, agentLimits)
  BY DEF LimitsInv
<1> DEFINE m0 == served[r].minute
<1>1. NoServe \in ServeRow /\ NoServe.step = "idle" /\ m0 \in 1 .. MaxMinutes
  BY <1>0, NoServeIs DEF NoServeFacts, ServeRow
<1>2. /\ served' \in [AgentRequests -> ServeRow] /\ served'[r] = NoServe
      /\ \A q \in AgentRequests \ {r} : served'[q] = served[q]
      /\ Busy(served') \subseteq Busy(served) /\ Accepting(served') \subseteq Accepting(served)
      /\ \A m : Passed(served', m) \subseteq Passed(served, m)
      /\ r \notin Busy(served') /\ r \notin Accepting(served') /\ \A m : r \notin Passed(served', m)
  <2>1. /\ served' \in [AgentRequests -> ServeRow] /\ served'[r] = NoServe
        /\ \A q \in AgentRequests \ {r} : served'[q] = served[q]
    BY <1>0, <1>1
  <2> QED
    BY <1>1, <2>1 DEF Busy, Accepting, Passed
<1>3. OneLoads(served')
  BY <1>0, <1>1, <1>2 DEF OneLoads
<1>4. r \in Busy(served) /\ (served[r].step \in {"effect", "loaded"} => r \in Passed(served, m0))
      /\ (served[r].step = "effect" /\ served[r].kind = "accept" => r \in Accepting(served))
  BY DEF Busy, Passed, Accepting
<1>5. /\ Cardinality(Busy(served)) \in Nat /\ Cardinality(Busy(served')) \in Nat
      /\ Cardinality(Busy(served')) + 1 <= Cardinality(Busy(served))
  <2>1. IsFiniteSet(Busy(served)) /\ r \in Busy(served) \ Busy(served')
    BY <1>2, <1>4, CountedFinite
  <2> QED
    BY <1>2, <2>1, Fewer
<1>6. /\ windows \in [1 .. MaxMinutes -> Nat]
      /\ \A m \in 1 .. MaxMinutes : \/ windows[m] = rateWindows[m]
                                    \/ /\ windows[m] = rateWindows[m] + 1 /\ m = m0
                                       /\ served[r].step \in {"effect", "loaded"}
  <2>1. CASE windows = rateWindows
    BY <1>0, <2>1
  <2>2. CASE /\ windows = [rateWindows EXCEPT ![m0] = @ + 1]
             /\ served[r].step \in {"effect", "loaded"}
    <3>1. m0 \in 1 .. MaxMinutes
      BY <1>1
    <3> HIDE DEF m0
    <3>2. rateWindows[m0] + 1 \in Nat
      BY <1>0, <3>1
    <3>3. windows \in [1 .. MaxMinutes -> Nat] /\ windows[m0] = rateWindows[m0] + 1
          /\ \A m \in 1 .. MaxMinutes : m # m0 => windows[m] = rateWindows[m]
      BY <1>0, <2>2, <3>1, <3>2
    <3> QED
      BY <2>2, <3>3
  <2> QED
    BY <2>1, <2>2
<1>7. CallsBound(served', windows, agentCalls)
  <2> SUFFICES ASSUME NEW m \in 1 .. MaxMinutes
               PROVE  windows[m] + Cardinality(Busy(served')) <= agentCalls
    BY <1>0 DEF CallsBound
  <2>1. rateWindows[m] + Cardinality(Busy(served)) <= agentCalls /\ rateWindows[m] \in Nat
    BY <1>0 DEF CallsBound
  <2>2. windows[m] = rateWindows[m] \/ windows[m] = rateWindows[m] + 1
    BY <1>6
  <2> QED
    BY <1>0, <1>5, <2>1, <2>2
<1>8. RateBound(served', windows, agentLimits)
  <2> SUFFICES ASSUME "requests_per_minute" \in DOMAIN agentLimits, NEW m \in 1 .. MaxMinutes
               PROVE  windows[m] + Cardinality(Passed(served', m))
                        <= agentLimits["requests_per_minute"] + (Cardinality(AgentRequests) - 1)
    BY DEF RateBound
  <2> DEFINE b == agentLimits["requests_per_minute"] + (Cardinality(AgentRequests) - 1)
  <2>1. b \in Nat
    BY <1>0, LimitIsNumber, CountedFinite
  <2>2. rateWindows[m] + Cardinality(Passed(served, m)) <= b /\ rateWindows[m] \in Nat
    BY <1>0 DEF RateBound
  <2> HIDE DEF b
  <2>3. /\ Cardinality(Passed(served, m)) \in Nat /\ Cardinality(Passed(served', m)) \in Nat
        /\ Cardinality(Passed(served', m)) <= Cardinality(Passed(served, m))
        /\ r \in Passed(served, m) =>
             Cardinality(Passed(served', m)) + 1 <= Cardinality(Passed(served, m))
    BY <1>2, CountedFinite, Fewer
  <2>4. CASE windows[m] = rateWindows[m]
    BY <2>1, <2>2, <2>3, <2>4 DEF b
  <2>5. CASE windows[m] = rateWindows[m] + 1 /\ r \in Passed(served, m)
    BY <2>1, <2>2, <2>3, <2>5 DEF b
  <2> QED
    BY <1>4, <1>6, <2>4, <2>5
<1>9. TasksBound(served', tasks, agentLimits)
  <2> SUFFICES ASSUME "concurrent_tasks" \in DOMAIN agentLimits
               PROVE  Cardinality(Active(tasks)) + Cardinality(Accepting(served'))
                        <= agentLimits["concurrent_tasks"] + (Cardinality(AgentRequests) - 1)
    BY DEF TasksBound
  <2> DEFINE b == agentLimits["concurrent_tasks"] + (Cardinality(AgentRequests) - 1)
  <2>1. b \in Nat
    BY <1>0, LimitIsNumber, CountedFinite
  <2>2. Cardinality(Active(agentTask)) + Cardinality(Accepting(served)) <= b
    BY <1>0 DEF TasksBound
  <2> HIDE DEF b
  <2>3. /\ Cardinality(Accepting(served)) \in Nat /\ Cardinality(Accepting(served')) \in Nat
        /\ Cardinality(Accepting(served')) <= Cardinality(Accepting(served))
        /\ r \in Accepting(served) =>
             Cardinality(Accepting(served')) + 1 <= Cardinality(Accepting(served))
    BY <1>2, CountedFinite, Fewer
  <2>4. Cardinality(Active(agentTask)) \in Nat /\ IsFiniteSet(Active(agentTask))
    BY CountedFinite
  <2>5. CASE tasks = agentTask
    BY <2>1, <2>2, <2>3, <2>4, <2>5 DEF b
  <2>6. CASE /\ \E t \in AgentTasks : tasks = [agentTask EXCEPT ![t] = "ACTIVE"]
             /\ served[r].step = "effect" /\ served[r].kind = "accept"
    <3>1. PICK t \in AgentTasks : tasks = [agentTask EXCEPT ![t] = "ACTIVE"]
      BY <2>6
    <3>2. Active(tasks) \subseteq Active(agentTask) \cup {t}
      BY <1>0, <3>1 DEF Active
    <3>3. /\ Cardinality(Active(tasks)) <= Cardinality(Active(agentTask)) + 1
          /\ Cardinality(Active(tasks)) \in Nat
      BY <2>4, <3>2, OneMore
    <3>4. r \in Accepting(served)
      BY <1>4, <2>6
    <3> QED
      BY <2>1, <2>2, <2>3, <2>4, <3>3, <3>4 DEF b
  <2> QED
    BY <2>5, <2>6
<1> QED
  BY <1>2, <1>3, <1>6, <1>7, <1>8, <1>9

\* A request goes on without passing or raising anything.
LEMMA CallMoves ==
  ASSUME LimitsInv, NEW r \in AgentRequests, NEW s \in ServeRow, served' = [served EXCEPT ![r] = s],
         Busy(served') \subseteq Busy(served),
         Accepting(served') \subseteq Accepting(served),
         \A m \in 1 .. MaxMinutes : Passed(served', m) \subseteq Passed(served, m)
  PROVE  /\ CallsBound(served', rateWindows, agentCalls) /\ TasksBound(served', agentTask, agentLimits)
         /\ RateBound(served', rateWindows, agentLimits)
<1>0. /\ agentLimits \in LimitSets /\ rateWindows \in [1 .. MaxMinutes -> Nat] /\ agentCalls \in Nat
      /\ CallsBound(served, rateWindows, agentCalls)
      /\ TasksBound(served, agentTask, agentLimits) /\ RateBound(served, rateWindows, agentLimits)
  BY DEF LimitsInv
<1>1. /\ Cardinality(Busy(served)) \in Nat /\ Cardinality(Busy(served')) \in Nat
      /\ Cardinality(Busy(served')) <= Cardinality(Busy(served))
  BY CountedFinite, Fewer
<1>2. /\ Cardinality(Accepting(served)) \in Nat /\ Cardinality(Accepting(served')) \in Nat
      /\ Cardinality(Accepting(served')) <= Cardinality(Accepting(served))
  BY CountedFinite, Fewer
<1>3. ASSUME NEW m \in 1 .. MaxMinutes
      PROVE  /\ Cardinality(Passed(served, m)) \in Nat /\ Cardinality(Passed(served', m)) \in Nat
             /\ Cardinality(Passed(served', m)) <= Cardinality(Passed(served, m))
  <2>1. Passed(served', m) \subseteq Passed(served, m)
    OBVIOUS
  <2> QED
    BY <2>1, CountedFinite, Fewer
<1>4. CallsBound(served', rateWindows, agentCalls)
  BY <1>0, <1>1 DEF CallsBound
<1>5. TasksBound(served', agentTask, agentLimits)
  <2> SUFFICES ASSUME "concurrent_tasks" \in DOMAIN agentLimits
               PROVE  Cardinality(Active(agentTask)) + Cardinality(Accepting(served'))
                        <= agentLimits["concurrent_tasks"] + (Cardinality(AgentRequests) - 1)
    BY DEF TasksBound
  <2> DEFINE b == agentLimits["concurrent_tasks"] + (Cardinality(AgentRequests) - 1)
  <2>1. b \in Nat /\ Cardinality(Active(agentTask)) \in Nat
    BY <1>0, LimitIsNumber, CountedFinite
  <2>2. Cardinality(Active(agentTask)) + Cardinality(Accepting(served)) <= b
    BY <1>0 DEF TasksBound
  <2> HIDE DEF b
  <2> QED
    BY <1>2, <2>1, <2>2 DEF b
<1>6. RateBound(served', rateWindows, agentLimits)
  <2> SUFFICES ASSUME "requests_per_minute" \in DOMAIN agentLimits, NEW m \in 1 .. MaxMinutes
               PROVE  rateWindows[m] + Cardinality(Passed(served', m))
                        <= agentLimits["requests_per_minute"] + (Cardinality(AgentRequests) - 1)
    BY DEF RateBound
  <2> DEFINE b == agentLimits["requests_per_minute"] + (Cardinality(AgentRequests) - 1)
  <2>1. b \in Nat
    BY <1>0, LimitIsNumber, CountedFinite
  <2>2. rateWindows[m] + Cardinality(Passed(served, m)) <= b /\ rateWindows[m] \in Nat
    BY <1>0 DEF RateBound
  <2>3. /\ Cardinality(Passed(served, m)) \in Nat /\ Cardinality(Passed(served', m)) \in Nat
        /\ Cardinality(Passed(served', m)) <= Cardinality(Passed(served, m))
    BY <1>3
  <2> HIDE DEF b
  <2>4. rateWindows[m] + Cardinality(Passed(served', m)) <= b
    BY <2>1, <2>2, <2>3
  <2> QED
    BY <2>4 DEF b
<1> QED
  BY <1>4, <1>5, <1>6

\* A request passes the check: the counters it read are below their limits, and
\* no more requests can have passed than there are.
LEMMA CallPasses ==
  ASSUME LimitsInv, NEW r \in AgentRequests, NEW s \in ServeRow, served' = [served EXCEPT ![r] = s],
         served[r].step = "enforce", s.step \in {"count", "effect"}, s.minute = served[r].minute,
         s.kind = served[r].kind, ExceededLimits(r) = {}
  PROVE  /\ CallsBound(served', rateWindows, agentCalls) /\ TasksBound(served', agentTask, agentLimits)
         /\ RateBound(served', rateWindows, agentLimits)
<1>0. /\ agentLimits \in LimitSets /\ rateWindows \in [1 .. MaxMinutes -> Nat] /\ agentCalls \in Nat
      /\ CallsBound(served, rateWindows, agentCalls) /\ served \in [AgentRequests -> ServeRow]
      /\ TasksBound(served, agentTask, agentLimits) /\ RateBound(served, rateWindows, agentLimits)
  BY DEF LimitsInv
<1>1. /\ served'[r] = s /\ \A q \in AgentRequests \ {r} : served'[q] = served[q]
      /\ served[r].minute \in 1 .. MaxMinutes
  BY <1>0 DEF ServeRow
<1>2. Busy(served') = Busy(served)
  BY <1>1 DEF Busy
<1>3. CallsBound(served', rateWindows, agentCalls)
  BY <1>0, <1>2 DEF CallsBound
<1>4. /\ Accepting(served') \subseteq AgentRequests
      /\ \A m : Passed(served', m) \subseteq AgentRequests
      /\ IsFiniteSet(AgentRequests)
  BY AgentLimitsAssumption DEF Accepting, Passed
<1>5. TasksBound(served', agentTask, agentLimits)
  <2> SUFFICES ASSUME "concurrent_tasks" \in DOMAIN agentLimits
               PROVE  Cardinality(Active(agentTask)) + Cardinality(Accepting(served'))
                        <= agentLimits["concurrent_tasks"] + (Cardinality(AgentRequests) - 1)
    BY DEF TasksBound
  <2> DEFINE l == agentLimits["concurrent_tasks"]
  <2>1. l \in Nat /\ Cardinality(Active(agentTask)) \in Nat /\ Cardinality(AgentRequests) \in Nat
    BY <1>0, LimitIsNumber, CountedFinite
  <2>2. CASE served[r].kind = "accept"
    <3>1. "concurrent_tasks" \in RelevantLimits(served[r].kind)
      BY <2>2 DEF RelevantLimits
    <3>2. CurrentOf(r, "concurrent_tasks") = Cardinality(Active(agentTask))
      BY DEF CurrentOf, ConcurrentTasks, Active
    <3>3. ~(Cardinality(Active(agentTask)) >= l)
      BY <3>1, <3>2 DEF ExceededLimits
    <3>4. Cardinality(Accepting(served')) \in Nat
          /\ Cardinality(Accepting(served')) <= Cardinality(AgentRequests)
      BY <1>4, Fewer
    <3> HIDE DEF l
    <3> QED
      BY <2>1, <3>3, <3>4 DEF l
  <2>3. CASE served[r].kind # "accept"
    <3>1. Accepting(served') = Accepting(served)
      BY <1>1, <2>3 DEF Accepting
    <3> QED
      BY <1>0, <3>1 DEF TasksBound
  <2> QED
    BY <2>2, <2>3
<1>6. RateBound(served', rateWindows, agentLimits)
  <2> SUFFICES ASSUME "requests_per_minute" \in DOMAIN agentLimits, NEW m \in 1 .. MaxMinutes
               PROVE  rateWindows[m] + Cardinality(Passed(served', m))
                        <= agentLimits["requests_per_minute"] + (Cardinality(AgentRequests) - 1)
    BY DEF RateBound
  <2> DEFINE l == agentLimits["requests_per_minute"]
  <2>1. l \in Nat /\ rateWindows[m] \in Nat /\ Cardinality(AgentRequests) \in Nat
    BY <1>0, LimitIsNumber, CountedFinite
  <2>2. CASE served[r].minute = m
    <3>1. "requests_per_minute" \in RelevantLimits(served[r].kind)
      BY DEF RelevantLimits
    <3>2. CurrentOf(r, "requests_per_minute") = rateWindows[m]
      BY <2>2 DEF CurrentOf
    <3>3. ~(rateWindows[m] >= l)
      BY <3>1, <3>2 DEF ExceededLimits
    <3>4. Cardinality(Passed(served', m)) \in Nat
          /\ Cardinality(Passed(served', m)) <= Cardinality(AgentRequests)
      BY <1>4, Fewer
    <3> HIDE DEF l
    <3> QED
      BY <2>1, <3>3, <3>4 DEF l
  <2>3. CASE served[r].minute # m
    <3>1. Passed(served', m) = Passed(served, m)
      BY <1>1, <2>3 DEF Passed
    <3> QED
      BY <1>0, <3>1 DEF RateBound
  <2> QED
    BY <2>2, <2>3
<1> QED
  BY <1>3, <1>5, <1>6

\* A usage row more: of another kind, or the first of an item's result.
RowGrows(rows, row, more) ==
  /\ more \in Seq(UsageType)
  /\ \A i : (row.item # i \/ row.via # "result") => ResultRows(i, more) = ResultRows(i, rows)
  /\ (row.via = "result" =>
        ResultRows(row.item, more) = ResultRows(row.item, rows) \cup {Len(rows) + 1})

\* What an appended row adds to the result rows of an item.
LEMMA RowAdded ==
  ASSUME NEW rows \in Seq(UsageType), NEW row \in UsageType
  PROVE  RowGrows(rows, row, Append(rows, row))
<1> DEFINE more == Append(rows, row)
<1>1. /\ more \in Seq(UsageType) /\ Len(more) = Len(rows) + 1 /\ Len(rows) \in Nat
      /\ more[Len(rows) + 1] = row /\ \A n \in 1 .. Len(rows) : more[n] = rows[n]
  OBVIOUS
<1>2. 1 .. Len(more) = (1 .. Len(rows)) \cup {Len(rows) + 1}
  BY <1>1
<1> HIDE DEF more
<1>3. RowGrows(rows, row, more)
  BY <1>1, <1>2 DEF ResultRows, RowGrows
<1> QED
  BY <1>3 DEF more

\* Every step keeps the invariant.
LEMMA LimitsStepKeeps ==
  ASSUME LimitsInv, [AgentLimitsNext]_agentLimitsVars
  PROVE  LimitsInv'
<1>0. /\ agentLimits \in LimitSets /\ rateMinute \in 1 .. MaxMinutes
      /\ rateWindows \in [1 .. MaxMinutes -> Nat] /\ agentCalls \in Nat
      /\ agentTask \in [AgentTasks -> {"DELEGATED", "ACTIVE", "ENDED"}]
      /\ workItems \in [AgentItems -> {"OPEN", "RESULTED"}]
      /\ usageRows \in Seq(UsageType) /\ unmetered \subseteq AgentItems /\ priced \in BOOLEAN
      /\ denied \subseteq LimitNames /\ budgetMoves \subseteq AgentTasks
      /\ served \in [AgentRequests -> ServeRow]
      /\ \A r \in AgentRequests : ServeGood(served[r], workItems)
      /\ OneLoads(served)
      /\ CallsBound(served, rateWindows, agentCalls)
      /\ TasksBound(served, agentTask, agentLimits) /\ RateBound(served, rateWindows, agentLimits)
      /\ \A i \in AgentItems : ItemMetered(i, workItems, usageRows, unmetered)
      /\ \A i \in unmetered : workItems[i] = "RESULTED"
  BY DEF LimitsInv
<1>1. NoServe \in ServeRow /\ NoServe.step = "idle" /\ NoServe.kind = "none"
  BY NoServeIs DEF NoServeFacts
<1>2. \A items : ServeGood(NoServe, items)
  BY <1>1 DEF ServeGood
\* A call ends without touching items, rows or refusals.
<1>3. ASSUME NEW r \in AgentRequests, served[r].step # "idle", served' = [served EXCEPT ![r] = NoServe],
             UNCHANGED <<agentLimits, rateMinute, workItems, usageRows, unmetered, priced, agentCalls>>,
             denied' \subseteq LimitNames, budgetMoves' \subseteq AgentTasks,
             rateWindows' = rateWindows \/
               /\ rateWindows' = [rateWindows EXCEPT ![served[r].minute] = @ + 1]
               /\ served[r].step \in {"effect", "loaded"},
             agentTask' = agentTask \/
               /\ \E t \in AgentTasks : agentTask' = [agentTask EXCEPT ![t] = "ACTIVE"]
               /\ served[r].step = "effect" /\ served[r].kind = "accept"
      PROVE  LimitsInv'
  <2>1. /\ served' \in [AgentRequests -> ServeRow] /\ rateWindows' \in [1 .. MaxMinutes -> Nat]
        /\ OneLoads(served') /\ CallsBound(served', rateWindows', agentCalls)
        /\ TasksBound(served', agentTask', agentLimits) /\ RateBound(served', rateWindows', agentLimits)
        /\ \A q \in AgentRequests \ {r} : served'[q] = served[q]
        /\ served'[r] = NoServe
    BY <1>3, CallEnds
  <2>2. agentTask' \in [AgentTasks -> {"DELEGATED", "ACTIVE", "ENDED"}]
    BY <1>0, <1>3
  <2>3. \A q \in AgentRequests : ServeGood(served'[q], workItems)
    BY <1>0, <1>2, <2>1
  <2> QED
    BY <1>0, <1>3, <2>1, <2>2, <2>3 DEF LimitsInv
\* A call goes on, alone.
<1>4. ASSUME NEW r \in AgentRequests, NEW s \in ServeRow, served' = [served EXCEPT ![r] = s],
             UNCHANGED <<agentLimits, rateMinute, rateWindows, agentTask, workItems, usageRows,
                         unmetered, priced, denied, budgetMoves>>,
             agentCalls' \in Nat, ServeGood(s, workItems),
             s.step = "loaded" => \A q \in AgentRequests \ {r} :
                                    ~(served[q].step = "loaded" /\ served[q].on = s.on),
             CallsBound(served', rateWindows, agentCalls'),
             TasksBound(served', agentTask, agentLimits), RateBound(served', rateWindows, agentLimits)
      PROVE  LimitsInv'
  <2>1. /\ served' \in [AgentRequests -> ServeRow] /\ served'[r] = s
        /\ \A q \in AgentRequests \ {r} : served'[q] = served[q]
    BY <1>0, <1>4
  <2>2. \A q \in AgentRequests : ServeGood(served'[q], workItems)
    BY <1>0, <1>4, <2>1
  <2>3. OneLoads(served')
    BY <1>0, <1>4, <2>1 DEF OneLoads
  <2> QED
    BY <1>0, <1>4, <2>1, <2>2, <2>3 DEF LimitsInv
<1>5. ASSUME NEW r \in AgentRequests, NEW kind \in CallKinds, NEW on, BeginAgentCall(r, kind, on),
             on \in {"none"} \cup AgentItems \cup AgentTasks,
             kind = "accept" => on \in AgentTasks, kind = "result" => on \in AgentItems
      PROVE  LimitsInv'
  <2> DEFINE s == [NoServe EXCEPT !.step = "enforce", !.kind = kind, !.on = on, !.minute = rateMinute]
  <2>1. /\ served[r] = NoServe /\ agentCalls < MaxAgentCalls /\ agentCalls' = agentCalls + 1
        /\ served' = [served EXCEPT ![r] = s]
        /\ UNCHANGED <<agentLimits, rateMinute, rateWindows, agentTask, workItems, usageRows,
                       unmetered, priced, denied, budgetMoves>>
    BY <1>5 DEF BeginAgentCall, Serve, clockVars, usageVars, refusalVars
  <2>2. s \in ServeRow /\ s.step = "enforce" /\ s.kind = kind /\ s.on = on
    BY <1>0, <1>1, <1>5 DEF ServeRow, NoServe
  <2> HIDE DEF s
  <2>3. ServeGood(s, workItems)
    BY <1>5, <2>2 DEF ServeGood, CallKinds
  <2>4. /\ Busy(served') \subseteq Busy(served) \cup {r} /\ Accepting(served') \subseteq Accepting(served)
        /\ \A m \in 1 .. MaxMinutes : Passed(served', m) \subseteq Passed(served, m)
    <3>1. served'[r] = s /\ \A q \in AgentRequests \ {r} : served'[q] = served[q]
      BY <1>0, <2>1
    <3> QED
      BY <2>2, <3>1 DEF Busy, Accepting, Passed
  <2>5. /\ Cardinality(Busy(served')) \in Nat /\ Cardinality(Busy(served)) \in Nat
        /\ Cardinality(Busy(served')) <= Cardinality(Busy(served)) + 1
    BY <2>4, CountedFinite, OneMore
  <2>6. CallsBound(served', rateWindows, agentCalls')
    <3>1. agentCalls + 1 <= MaxAgentCalls
      BY <1>0, <2>1, AgentLimitsAssumption
    <3>2. ASSUME NEW m \in 1 .. MaxMinutes
          PROVE  rateWindows[m] + Cardinality(Busy(served')) <= agentCalls + 1
      <4>1. rateWindows[m] \in Nat /\ rateWindows[m] + Cardinality(Busy(served)) <= agentCalls
        BY <1>0 DEF CallsBound
      <4> QED
        BY <1>0, <2>5, <4>1
    <3> QED
      BY <2>1, <3>1, <3>2 DEF CallsBound
  <2>7. TasksBound(served', agentTask, agentLimits) /\ RateBound(served', rateWindows, agentLimits)
    <3>1. TasksBound(served', agentTask, agentLimits)
      <4> SUFFICES ASSUME "concurrent_tasks" \in DOMAIN agentLimits
                   PROVE  Cardinality(Active(agentTask)) + Cardinality(Accepting(served'))
                            <= agentLimits["concurrent_tasks"] + (Cardinality(AgentRequests) - 1)
        BY DEF TasksBound
      <4> DEFINE b == agentLimits["concurrent_tasks"] + (Cardinality(AgentRequests) - 1)
      <4>1. b \in Nat /\ Cardinality(Active(agentTask)) \in Nat
        BY <1>0, LimitIsNumber, CountedFinite
      <4>2. Cardinality(Active(agentTask)) + Cardinality(Accepting(served)) <= b
        BY <1>0 DEF TasksBound
      <4>3. /\ Cardinality(Accepting(served)) \in Nat /\ Cardinality(Accepting(served')) \in Nat
            /\ Cardinality(Accepting(served')) <= Cardinality(Accepting(served))
        BY <2>4, CountedFinite, Fewer
      <4> HIDE DEF b
      <4>4. Cardinality(Active(agentTask)) + Cardinality(Accepting(served')) <= b
        BY <4>1, <4>2, <4>3
      <4> QED
        BY <4>4 DEF b
    <3>2. RateBound(served', rateWindows, agentLimits)
      <4> SUFFICES ASSUME "requests_per_minute" \in DOMAIN agentLimits, NEW m \in 1 .. MaxMinutes
                   PROVE  rateWindows[m] + Cardinality(Passed(served', m))
                            <= agentLimits["requests_per_minute"] + (Cardinality(AgentRequests) - 1)
        BY DEF RateBound
      <4> DEFINE b == agentLimits["requests_per_minute"] + (Cardinality(AgentRequests) - 1)
      <4>1. b \in Nat /\ Passed(served', m) \subseteq Passed(served, m)
        BY <1>0, <2>4, LimitIsNumber, CountedFinite
      <4>2. rateWindows[m] + Cardinality(Passed(served, m)) <= b /\ rateWindows[m] \in Nat
        BY <1>0 DEF RateBound
      <4>3. /\ Cardinality(Passed(served, m)) \in Nat /\ Cardinality(Passed(served', m)) \in Nat
            /\ Cardinality(Passed(served', m)) <= Cardinality(Passed(served, m))
        BY <4>1, CountedFinite, Fewer
      <4> HIDE DEF b
      <4>4. rateWindows[m] + Cardinality(Passed(served', m)) <= b
        BY <4>1, <4>2, <4>3
      <4> QED
        BY <4>4 DEF b
    <3> QED
      BY <3>1, <3>2
  <2>8. agentCalls' \in Nat /\ s.step # "loaded"
    BY <1>0, <2>1, <2>2
  <2> QED
    BY <1>4, <2>1, <2>2, <2>3, <2>6, <2>7, <2>8
<1>6. ASSUME NEW r \in AgentRequests, EnforceLimits(r) PROVE LimitsInv'
  <2>1. /\ served[r].step = "enforce" /\ served[r].step # "idle"
        /\ UNCHANGED <<agentLimits, rateMinute, rateWindows, agentTask, workItems, usageRows,
                       unmetered, priced, agentCalls>>
    BY <1>6 DEF EnforceLimits, clockVars, usageVars
  <2>2. CASE ScopeRefused(r)
    <3>1. served' = [served EXCEPT ![r] = NoServe] /\ UNCHANGED <<denied, budgetMoves>>
      BY <1>6, <2>2 DEF EnforceLimits, EndServe, Serve
    <3> QED
      BY <1>0, <1>3, <2>1, <3>1
  <2>3. CASE ~ScopeRefused(r) /\ ExceededLimits(r) = {}
    <3> DEFINE s == [served[r] EXCEPT !.step = IF "requests_per_minute" \in DOMAIN agentLimits
                                              THEN "count" ELSE "effect"]
    <3>1. served' = [served EXCEPT ![r] = s] /\ UNCHANGED <<denied, budgetMoves>>
      BY <1>6, <2>3 DEF EnforceLimits, Serve
    <3>2. /\ s \in ServeRow /\ s.step \in {"count", "effect"} /\ s.minute = served[r].minute
          /\ s.kind = served[r].kind /\ s.on = served[r].on
      BY <1>0 DEF ServeRow
    <3> HIDE DEF s
    <3>3. ServeGood(s, workItems) /\ s.step # "loaded"
      BY <1>0, <2>1, <3>2 DEF ServeGood
    <3>4. /\ CallsBound(served', rateWindows, agentCalls) /\ TasksBound(served', agentTask, agentLimits)
          /\ RateBound(served', rateWindows, agentLimits)
      BY <2>1, <2>3, <3>1, <3>2, CallPasses
    <3>5. agentCalls' \in Nat /\ CallsBound(served', rateWindows, agentCalls')
      BY <1>0, <2>1, <3>4
    <3> QED
      BY <1>4, <2>1, <3>1, <3>2, <3>3, <3>4, <3>5
  <2>4. CASE ~ScopeRefused(r) /\ ExceededLimits(r) # {}
    <3> DEFINE n == FirstExceeded(r)
    <3>1. /\ denied' = AuditIndependent(n) /\ served' = [served EXCEPT ![r] = NoServe]
          /\ budgetMoves' = IF n = "daily_cost_units" /\ served[r].kind = "accept"
                            THEN budgetMoves \cup {served[r].on} ELSE budgetMoves
      BY <1>6, <2>4 DEF EnforceLimits, EndServe, Serve
    <3>2. n \in LimitNames
      BY DEF FirstExceeded, LimitNames
    <3> HIDE DEF n
    <3>3. denied' \subseteq LimitNames
      BY <1>0, <3>1, <3>2 DEF AuditIndependent
    <3>4. budgetMoves' \subseteq AgentTasks
      BY <1>0, <3>1 DEF ServeGood
    <3> QED
      BY <1>3, <2>1, <3>1, <3>3, <3>4
  <2> QED
    BY <2>2, <2>3, <2>4
<1>7. ASSUME NEW r \in AgentRequests, CountRequest(r) PROVE LimitsInv'
  <2> DEFINE s == [served[r] EXCEPT !.step = "effect"]
  <2>1. /\ served[r].step = "count" /\ served' = [served EXCEPT ![r] = s]
        /\ UNCHANGED <<agentLimits, rateMinute, rateWindows, agentTask, workItems, usageRows,
                       unmetered, priced, denied, budgetMoves, agentCalls>>
    BY <1>7 DEF CountRequest, Serve, clockVars, usageVars, refusalVars
  <2>2. /\ s \in ServeRow /\ s.step = "effect" /\ s.minute = served[r].minute
        /\ s.kind = served[r].kind /\ s.on = served[r].on
    BY <1>0 DEF ServeRow
  <2> HIDE DEF s
  <2>3. ServeGood(s, workItems) /\ s.step # "loaded"
    BY <1>0, <2>1, <2>2 DEF ServeGood
  <2>4. /\ Busy(served') \subseteq Busy(served) /\ Accepting(served') \subseteq Accepting(served)
        /\ \A m \in 1 .. MaxMinutes : Passed(served', m) \subseteq Passed(served, m)
    <3>1. served'[r] = s /\ \A q \in AgentRequests \ {r} : served'[q] = served[q]
      BY <1>0, <2>1
    <3> QED
      BY <2>1, <2>2, <3>1 DEF Busy, Accepting, Passed
  <2>5. /\ CallsBound(served', rateWindows, agentCalls) /\ TasksBound(served', agentTask, agentLimits)
        /\ RateBound(served', rateWindows, agentLimits)
    BY <2>1, <2>2, <2>4, CallMoves
  <2>6. agentCalls' \in Nat /\ CallsBound(served', rateWindows, agentCalls')
    BY <1>0, <2>1, <2>5
  <2> QED
    BY <1>4, <2>1, <2>2, <2>3, <2>5, <2>6
<1>8. ASSUME NEW r \in AgentRequests, NEW report \in UsageReports, LoadResultItem(r, report)
      PROVE  LimitsInv'
  <2> DEFINE s == [served[r] EXCEPT !.step = "loaded", !.open = (workItems[served[r].on] = "OPEN"),
                                    !.cost = IF report = "metered" THEN 1 ELSE 0]
  <2>1. /\ served[r].step = "effect" /\ served[r].kind = "result" /\ ItemFree(r)
        /\ served' = [served EXCEPT ![r] = s]
        /\ UNCHANGED <<agentLimits, rateMinute, rateWindows, agentTask, workItems, usageRows,
                       unmetered, priced, denied, budgetMoves, agentCalls>>
    BY <1>8 DEF LoadResultItem, Serve, clockVars, usageVars, refusalVars
  <2>2. /\ s \in ServeRow /\ s.step = "loaded" /\ s.minute = served[r].minute
        /\ s.kind = served[r].kind /\ s.on = served[r].on
        /\ s.open = (workItems[served[r].on] = "OPEN")
    BY <1>0 DEF ServeRow
  <2> HIDE DEF s
  <2>3. ServeGood(s, workItems)
    BY <1>0, <2>1, <2>2 DEF ServeGood
  <2>4. /\ Busy(served') \subseteq Busy(served) /\ Accepting(served') \subseteq Accepting(served)
        /\ \A m \in 1 .. MaxMinutes : Passed(served', m) \subseteq Passed(served, m)
    <3>1. served'[r] = s /\ \A q \in AgentRequests \ {r} : served'[q] = served[q]
      BY <1>0, <2>1
    <3> QED
      BY <2>1, <2>2, <3>1 DEF Busy, Accepting, Passed
  <2>5. /\ CallsBound(served', rateWindows, agentCalls) /\ TasksBound(served', agentTask, agentLimits)
        /\ RateBound(served', rateWindows, agentLimits)
    BY <2>1, <2>2, <2>4, CallMoves
  <2>6. agentCalls' \in Nat /\ CallsBound(served', rateWindows, agentCalls')
    BY <1>0, <2>1, <2>5
  <2>7. \A q \in AgentRequests \ {r} : ~(served[q].step = "loaded" /\ served[q].on = s.on)
    BY <2>1, <2>2 DEF ItemFree
  <2> QED
    BY <1>4, <2>1, <2>2, <2>3, <2>5, <2>6, <2>7
<1>9. ASSUME NEW r \in AgentRequests, CommitCount(r)
      PROVE  rateWindows' = rateWindows \/
               /\ rateWindows' = [rateWindows EXCEPT ![served[r].minute] = @ + 1]
               /\ served[r].step \in {"effect", "loaded"}
  BY <1>9 DEF CommitCount, CountedRequest
<1>10. ASSUME NEW r \in AgentRequests, PollWork(r) PROVE LimitsInv'
  <2>1. /\ served[r].step # "idle" /\ CommitCount(r) /\ served' = [served EXCEPT ![r] = NoServe]
        /\ UNCHANGED <<agentLimits, rateMinute, agentTask, workItems, usageRows,
                       unmetered, priced, denied, budgetMoves, agentCalls>>
    BY <1>10 DEF PollWork, EndServe, Serve, clockVars, usageVars, refusalVars
  <2> QED
    BY <1>0, <1>3, <1>9, <2>1
<1>11. ASSUME NEW r \in AgentRequests, AgentAccepts(r) PROVE LimitsInv'
  <2>1. /\ served[r].step = "effect" /\ served[r].kind = "accept" /\ served[r].step # "idle"
        /\ served' = [served EXCEPT ![r] = NoServe]
        /\ UNCHANGED <<agentLimits, rateMinute, workItems, usageRows,
                       unmetered, priced, denied, budgetMoves, agentCalls>>
    BY <1>11 DEF AgentAccepts, EndServe, Serve, clockVars, usageVars, refusalVars
  <2>2. served[r].on \in AgentTasks
    BY <1>0, <2>1 DEF ServeGood
  <2>3. CASE agentTask[served[r].on] = "DELEGATED"
    <3>1. agentTask' = [agentTask EXCEPT ![served[r].on] = "ACTIVE"] /\ CommitCount(r)
      BY <1>11, <2>3 DEF AgentAccepts
    <3> QED
      BY <1>0, <1>3, <1>9, <2>1, <2>2, <3>1
  <2>4. CASE agentTask[served[r].on] # "DELEGATED"
    <3>1. UNCHANGED <<agentTask, rateWindows>>
      BY <1>11, <2>4 DEF AgentAccepts
    <3> QED
      BY <1>0, <1>3, <2>1, <3>1
  <2> QED
    BY <2>3, <2>4
<1>12. ASSUME NEW r \in AgentRequests, LoseCall(r) PROVE LimitsInv'
  <2>1. /\ served[r] # NoServe /\ served' = [served EXCEPT ![r] = NoServe]
        /\ UNCHANGED <<agentLimits, rateMinute, rateWindows, agentTask, workItems, usageRows,
                       unmetered, priced, denied, budgetMoves, agentCalls>>
    BY <1>12 DEF LoseCall, EndServe, Serve, clockVars, usageVars, refusalVars
  <2>2. CASE served[r].step # "idle"
    BY <1>0, <1>3, <2>1, <2>2
  <2>3. CASE served[r].step = "idle"
    <3>1. ServeGood(NoServe, workItems) /\ NoServe.step # "loaded"
      BY <1>1, <1>2
    <3>2. /\ Busy(served') \subseteq Busy(served) /\ Accepting(served') \subseteq Accepting(served)
          /\ \A m \in 1 .. MaxMinutes : Passed(served', m) \subseteq Passed(served, m)
      <4>1. served'[r] = NoServe /\ \A q \in AgentRequests \ {r} : served'[q] = served[q]
        BY <1>0, <2>1
      <4> QED
        BY <1>1, <4>1 DEF Busy, Accepting, Passed
    <3>3. /\ CallsBound(served', rateWindows, agentCalls) /\ TasksBound(served', agentTask, agentLimits)
          /\ RateBound(served', rateWindows, agentLimits)
      BY <1>1, <2>1, <3>2, CallMoves
    <3>4. agentCalls' \in Nat /\ CallsBound(served', rateWindows, agentCalls')
      BY <1>0, <2>1, <3>3
    <3> QED
      BY <1>1, <1>4, <2>1, <3>1, <3>3, <3>4
  <2> QED
    BY <2>2, <2>3
\* A row that is no result's, or none.
<1>13. ASSUME NEW row \in UsageType, row.via # "result", usageRows' = Append(usageRows, row),
              UNCHANGED <<agentLimits, rateMinute, rateWindows, agentTask, workItems,
                          unmetered, priced, denied, budgetMoves, served, agentCalls>>
       PROVE  LimitsInv'
  <2>1. /\ usageRows' \in Seq(UsageType)
        /\ \A i \in AgentItems : ResultRows(i, usageRows') = ResultRows(i, usageRows)
    <3>1. RowGrows(usageRows, row, usageRows')
      BY <1>0, <1>13, RowAdded
    <3> QED
      BY <1>13, <3>1 DEF RowGrows
  <2>2. \A i \in AgentItems : ItemMetered(i, workItems, usageRows', unmetered)
    BY <1>0, <2>1 DEF ItemMetered
  <2> QED
    BY <1>0, <1>13, <2>1, <2>2 DEF LimitsInv
<1>14. ASSUME NEW item \in AgentItems \cup {"none"}, NEW via \in {"report", "heartbeat"},
              ReportUsage(item, via)
       PROVE  LimitsInv'
  <2> DEFINE row == UsageRow(item, via, 1)
  <2>1. /\ usageRows' = Append(usageRows, row)
        /\ UNCHANGED <<agentLimits, rateMinute, rateWindows, agentTask, workItems,
                       unmetered, priced, denied, budgetMoves, served, agentCalls>>
    BY <1>14 DEF ReportUsage, RecordUsage, clockVars, refusalVars
  <2>2. row \in UsageType /\ row.via # "result"
    BY DEF UsageRow, UsageType
  <2> HIDE DEF row
  <2> QED
    BY <1>13, <2>1, <2>2
<1>15. ASSUME NEW r \in AgentRequests, RecordResult(r) PROVE LimitsInv'
  <2> DEFINE i == served[r].on
             row == UsageRow(i, "result", served[r].cost)
  <2>1. /\ served[r].step = "loaded" /\ served[r].step # "idle" /\ CommitCount(r)
        /\ served' = [served EXCEPT ![r] = NoServe]
        /\ UNCHANGED <<agentLimits, rateMinute, agentTask, priced, denied, budgetMoves, agentCalls>>
    BY <1>15 DEF RecordResult, EndServe, Serve, clockVars, refusalVars
  <2>2. CASE ~served[r].open
    <3>1. UNCHANGED <<workItems, usageRows, unmetered>>
      BY <1>15, <2>2 DEF RecordResult
    <3> QED
      BY <1>0, <1>3, <1>9, <2>1, <3>1
  <2>3. CASE served[r].open
    <3>1. /\ workItems' = [workItems EXCEPT ![i] = "RESULTED"]
          /\ usageRows' = IF priced THEN Append(usageRows, row) ELSE usageRows
          /\ unmetered' = IF priced THEN unmetered ELSE unmetered \cup {i}
      BY <1>15, <2>3 DEF RecordResult, RecordUsage, CurrentPricing
    <3>2. i \in AgentItems /\ workItems[i] = "OPEN" /\ i \notin unmetered
      BY <1>0, <2>1, <2>3 DEF ServeGood
    <3>3. row \in UsageType /\ row.via = "result" /\ row.item = i
      <4>1. served[r].cost \in Nat
        BY <1>0 DEF ServeRow
      <4> QED
        BY <3>2, <4>1 DEF UsageRow, UsageType
    <3>4. /\ served' \in [AgentRequests -> ServeRow] /\ rateWindows' \in [1 .. MaxMinutes -> Nat]
          /\ OneLoads(served') /\ CallsBound(served', rateWindows', agentCalls)
          /\ TasksBound(served', agentTask, agentLimits) /\ RateBound(served', rateWindows', agentLimits)
          /\ \A q \in AgentRequests \ {r} : served'[q] = served[q]
          /\ served'[r] = NoServe
      BY <1>9, <2>1, CallEnds
    <3>5. /\ workItems' \in [AgentItems -> {"OPEN", "RESULTED"}] /\ workItems'[i] = "RESULTED"
          /\ \A j \in AgentItems \ {i} : workItems'[j] = workItems[j]
          /\ unmetered' \subseteq AgentItems
      BY <1>0, <3>1, <3>2
    <3>6. ASSUME NEW q \in AgentRequests PROVE ServeGood(served'[q], workItems')
      <4>1. CASE q = r
        BY <1>2, <3>4, <4>1
      <4>2. CASE q # r
        <5>1. served'[q] = served[q] /\ (served[q].step = "loaded" => served[q].on # i)
          BY <1>0, <2>1, <3>4, <4>2 DEF OneLoads
        <5> QED
          BY <1>0, <3>5, <5>1 DEF ServeGood
      <4> QED
        BY <4>1, <4>2
    <3> HIDE DEF row
    <3>7. ResultRows(i, usageRows) = {}
      BY <1>0, <3>2 DEF ItemMetered
    <3>8. /\ usageRows' \in Seq(UsageType)
          /\ \A j \in AgentItems \ {i} : ResultRows(j, usageRows') = ResultRows(j, usageRows)
          /\ ResultRows(i, usageRows') = IF priced THEN {Len(usageRows) + 1} ELSE {}
      <4>1. CASE priced
        <5>1. usageRows' = Append(usageRows, row)
          BY <3>1, <4>1
        <5>2. /\ usageRows' \in Seq(UsageType)
              /\ \A j \in AgentItems \ {i} : ResultRows(j, usageRows') = ResultRows(j, usageRows)
              /\ ResultRows(i, usageRows') = ResultRows(i, usageRows) \cup {Len(usageRows) + 1}
          <6>1. RowGrows(usageRows, row, usageRows')
            BY <1>0, <3>3, <5>1, RowAdded
          <6> QED
            BY <3>3, <6>1 DEF RowGrows
        <5> QED
          BY <3>7, <4>1, <5>2
      <4>2. CASE ~priced
        BY <1>0, <3>1, <3>7, <4>2
      <4> QED
        BY <4>1, <4>2
    <3>9. ASSUME NEW j \in AgentItems PROVE ItemMetered(j, workItems', usageRows', unmetered')
      <4>1. CASE j = i
        <5>1. CASE priced
          BY <3>1, <3>2, <3>5, <3>8, <4>1, <5>1 DEF ItemMetered
        <5>2. CASE ~priced
          BY <3>1, <3>8, <4>1, <5>2 DEF ItemMetered
        <5> QED
          BY <5>1, <5>2
      <4>2. CASE j # i
        <5>1. j \in unmetered' <=> j \in unmetered
          BY <3>1, <4>2
        <5> QED
          BY <1>0, <3>5, <3>8, <4>2, <5>1 DEF ItemMetered
      <4> QED
        BY <4>1, <4>2
    <3>10. \A j \in unmetered' : workItems'[j] = "RESULTED"
      BY <1>0, <3>1, <3>5
    <3> QED
      BY <1>0, <2>1, <3>4, <3>5, <3>6, <3>8, <3>9, <3>10 DEF LimitsInv
  <2> QED
    BY <2>2, <2>3
<1>16. ASSUME NEW t \in AgentTasks, AgentTaskEnds(t) PROVE LimitsInv'
  <2>1. /\ agentTask' = [agentTask EXCEPT ![t] = "ENDED"]
        /\ UNCHANGED <<agentLimits, rateMinute, rateWindows, workItems, usageRows,
                       unmetered, priced, denied, budgetMoves, served, agentCalls>>
    BY <1>16 DEF AgentTaskEnds, clockVars, usageVars, refusalVars
  <2>2. /\ agentTask' \in [AgentTasks -> {"DELEGATED", "ACTIVE", "ENDED"}]
        /\ Active(agentTask') \subseteq Active(agentTask)
    BY <1>0, <2>1 DEF Active
  <2>3. TasksBound(served, agentTask', agentLimits)
    <3> SUFFICES ASSUME "concurrent_tasks" \in DOMAIN agentLimits
                 PROVE  Cardinality(Active(agentTask')) + Cardinality(Accepting(served))
                          <= agentLimits["concurrent_tasks"] + (Cardinality(AgentRequests) - 1)
      BY DEF TasksBound
    <3> DEFINE b == agentLimits["concurrent_tasks"] + (Cardinality(AgentRequests) - 1)
    <3>1. b \in Nat /\ Cardinality(Accepting(served)) \in Nat
      BY <1>0, LimitIsNumber, CountedFinite
    <3>2. Cardinality(Active(agentTask)) + Cardinality(Accepting(served)) <= b
      BY <1>0 DEF TasksBound
    <3>3. /\ Cardinality(Active(agentTask)) \in Nat /\ Cardinality(Active(agentTask')) \in Nat
          /\ Cardinality(Active(agentTask')) <= Cardinality(Active(agentTask))
      BY <2>2, CountedFinite, Fewer
    <3> HIDE DEF b
    <3>4. Cardinality(Active(agentTask')) + Cardinality(Accepting(served)) <= b
      BY <3>1, <3>2, <3>3
    <3> QED
      BY <3>4 DEF b
  <2> QED
    BY <1>0, <2>1, <2>2, <2>3 DEF LimitsInv
<1>17. ASSUME ActivatePricing PROVE LimitsInv'
  <2>1. /\ priced' = TRUE
        /\ UNCHANGED <<agentLimits, rateMinute, rateWindows, agentTask, workItems, usageRows,
                       unmetered, denied, budgetMoves, served, agentCalls>>
    BY <1>17 DEF ActivatePricing, clockVars, usageVars, refusalVars
  <2> QED
    BY <1>0, <2>1 DEF LimitsInv
<1>18. ASSUME MinuteTurns PROVE LimitsInv'
  <2>1. /\ rateMinute < MaxMinutes /\ rateMinute' = rateMinute + 1
        /\ UNCHANGED <<agentLimits, rateWindows, agentTask, workItems, usageRows,
                       unmetered, priced, denied, budgetMoves, served, agentCalls>>
    BY <1>18 DEF MinuteTurns, usageVars, refusalVars
  <2>2. rateMinute' \in 1 .. MaxMinutes
    BY <1>0, <2>1, AgentLimitsAssumption
  <2> QED
    BY <1>0, <2>1, <2>2 DEF LimitsInv
<1>19. ASSUME UNCHANGED agentLimitsVars PROVE LimitsInv'
  <2>1. UNCHANGED <<agentLimits, rateMinute, rateWindows, agentTask, workItems, usageRows,
                    unmetered, priced, denied, budgetMoves, served, agentCalls>>
    BY <1>19 DEF agentLimitsVars
  <2> QED
    BY <1>0, <2>1 DEF LimitsInv
<1>20. ASSUME NEW r \in AgentRequests,
              \/ BeginAgentCall(r, "poll", "none")
              \/ \E i \in AgentItems : BeginAgentCall(r, "result", i)
              \/ \E t \in AgentTasks : BeginAgentCall(r, "accept", t)
       PROVE  LimitsInv'
  <2>1. "poll" \in CallKinds /\ "result" \in CallKinds /\ "accept" \in CallKinds
    BY DEF CallKinds
  <2>2. CASE BeginAgentCall(r, "poll", "none")
    BY <1>5, <2>1, <2>2
  <2>3. ASSUME NEW i \in AgentItems, BeginAgentCall(r, "result", i) PROVE LimitsInv'
    BY <1>5, <2>1, <2>3
  <2>4. ASSUME NEW t \in AgentTasks, BeginAgentCall(r, "accept", t) PROVE LimitsInv'
    BY <1>5, <2>1, <2>4
  <2> QED
    BY <1>20, <2>2, <2>3, <2>4
<1> QED
  BY <1>6, <1>7, <1>8, <1>10, <1>11, <1>12, <1>14, <1>15, <1>16, <1>17, <1>18, <1>19, <1>20
     DEF AgentLimitsNext

\* Requests of one Agent at once neither lose nor double what it uses, and pass
\* a limit by no more than the requests beside the one it admits, however many
\* requests, items, Tasks and minutes there are (enforce_limits, work_result,
\* record_result_usage).
THEOREM AgentMeteredWithinLimits == AgentLimitsSpec => [](AgentLimitsTypeOK /\ MeteredWithinLimits)
<1>1. AgentLimitsInit => LimitsInv
  <2> SUFFICES ASSUME AgentLimitsInit PROVE LimitsInv
    OBVIOUS
  <2>1. /\ agentLimits \in LimitSets /\ rateMinute = 1 /\ rateWindows = [m \in 1 .. MaxMinutes |-> 0]
        /\ agentTask = [t \in AgentTasks |-> "DELEGATED"] /\ workItems = [i \in AgentItems |-> "OPEN"]
        /\ usageRows = <<>> /\ unmetered = {} /\ priced \in BOOLEAN /\ denied = {} /\ budgetMoves = {}
        /\ served = [r \in AgentRequests |-> NoServe] /\ agentCalls = 0
    BY DEF AgentLimitsInit
  <2>2. NoServe \in ServeRow /\ NoServe.step = "idle" /\ NoServe.kind = "none"
    BY NoServeIs DEF NoServeFacts
  <2>3. Busy(served) = {} /\ Accepting(served) = {} /\ (\A m : Passed(served, m) = {}) /\ Active(agentTask) = {}
    BY <2>1, <2>2 DEF Busy, Accepting, Passed, Active
  <2>4. Cardinality({}) = 0 /\ Cardinality(AgentRequests) \in Nat \ {0}
    BY FS_EmptySet, CountedFinite
  <2>5. MaxAgentCalls \in Nat /\ rateMinute \in 1 .. MaxMinutes
    BY <2>1, AgentLimitsAssumption
  <2>6. CallsBound(served, rateWindows, agentCalls)
    <3>1. \A m \in 1 .. MaxMinutes : rateWindows[m] = 0
      BY <2>1
    <3>2. Cardinality(Busy(served)) = 0
      BY <2>3, <2>4
    <3> QED
      BY <2>1, <2>5, <3>1, <3>2 DEF CallsBound
  <2>7. TasksBound(served, agentTask, agentLimits)
    <3>1. ASSUME "concurrent_tasks" \in DOMAIN agentLimits PROVE agentLimits["concurrent_tasks"] \in Nat
      BY <2>1, <3>1, LimitIsNumber
    <3> QED
      BY <2>3, <2>4, <3>1 DEF TasksBound
  <2>8. RateBound(served, rateWindows, agentLimits)
    <3>1. ASSUME "requests_per_minute" \in DOMAIN agentLimits PROVE agentLimits["requests_per_minute"] \in Nat
      BY <2>1, <3>1, LimitIsNumber
    <3> QED
      <4>1. \A m \in 1 .. MaxMinutes : rateWindows[m] = 0 /\ Cardinality(Passed(served, m)) = 0
        BY <2>1, <2>3, <2>4
      <4> QED
        BY <2>4, <3>1, <4>1 DEF RateBound
  <2>9. \A i \in AgentItems : ItemMetered(i, workItems, usageRows, unmetered)
    <3>1. 1 .. Len(usageRows) = {}
      BY <2>1
    <3> QED
      BY <2>1, <3>1 DEF ItemMetered, ResultRows
  <2>10. OneLoads(served) /\ \A r \in AgentRequests : ServeGood(served[r], workItems)
    BY <2>1, <2>2 DEF OneLoads, ServeGood
  <2>11. /\ rateWindows \in [1 .. MaxMinutes -> Nat] /\ agentCalls \in Nat
         /\ agentTask \in [AgentTasks -> {"DELEGATED", "ACTIVE", "ENDED"}]
         /\ workItems \in [AgentItems -> {"OPEN", "RESULTED"}] /\ usageRows \in Seq(UsageType)
         /\ served \in [AgentRequests -> ServeRow]
    BY <2>1, <2>2
  <2> QED
    BY <2>1, <2>5, <2>6, <2>7, <2>8, <2>9, <2>10, <2>11 DEF LimitsInv
<1>2. LimitsInv => AgentLimitsTypeOK /\ MeteredWithinLimits
  <2> SUFFICES ASSUME LimitsInv PROVE AgentLimitsTypeOK /\ MeteredWithinLimits
    OBVIOUS
  <2>0. /\ agentLimits \in LimitSets /\ rateMinute \in 1 .. MaxMinutes
        /\ rateWindows \in [1 .. MaxMinutes -> Nat] /\ agentCalls \in Nat
        /\ served \in [AgentRequests -> ServeRow]
        /\ CallsBound(served, rateWindows, agentCalls)
        /\ TasksBound(served, agentTask, agentLimits) /\ RateBound(served, rateWindows, agentLimits)
        /\ \A i \in AgentItems : ItemMetered(i, workItems, usageRows, unmetered)
    BY DEF LimitsInv
  <2>1. \A m \in 1 .. MaxMinutes : rateWindows[m] \in 0 .. MaxAgentCalls
    <3> SUFFICES ASSUME NEW m \in 1 .. MaxMinutes PROVE rateWindows[m] \in 0 .. MaxAgentCalls
      OBVIOUS
    <3>1. /\ rateWindows[m] \in Nat /\ rateWindows[m] + Cardinality(Busy(served)) <= agentCalls
          /\ agentCalls <= MaxAgentCalls /\ Cardinality(Busy(served)) \in Nat /\ MaxAgentCalls \in Nat
      BY <2>0, CountedFinite, AgentLimitsAssumption DEF CallsBound
    <3> QED
      BY <2>0, <3>1
  <2>2. AgentLimitsTypeOK
    <3>1. rateWindows \in [1 .. MaxMinutes -> 0 .. MaxAgentCalls]
      BY <2>0, <2>1
    <3>2. \A r \in AgentRequests : served[r].kind \in CallKinds \cup {"none"}
      BY <2>0 DEF ServeRow
    <3> QED
      BY <3>1, <3>2 DEF LimitsInv, AgentLimitsTypeOK
  <2>3. ASSUME NEW i \in AgentItems
        PROVE  Cardinality(ResultRows(i, usageRows))
                 = IF workItems[i] = "RESULTED" /\ i \notin unmetered THEN 1 ELSE 0
    <3>1. CASE workItems[i] = "RESULTED" /\ i \notin unmetered
      <4>1. PICK n : ResultRows(i, usageRows) = {n}
        BY <2>0, <3>1 DEF ItemMetered
      <4> QED
        BY <3>1, <4>1, FS_Singleton
    <3>2. CASE ~(workItems[i] = "RESULTED" /\ i \notin unmetered)
      <4>1. ResultRows(i, usageRows) = {}
        BY <2>0, <3>2 DEF ItemMetered
      <4> QED
        BY <3>2, <4>1, FS_EmptySet
    <3> QED
      BY <3>1, <3>2
  <2>4. ASSUME "concurrent_tasks" \in DOMAIN agentLimits
        PROVE  ConcurrentTasks <= agentLimits["concurrent_tasks"] + (Cardinality(AgentRequests) - 1)
    <3> DEFINE b == agentLimits["concurrent_tasks"] + (Cardinality(AgentRequests) - 1)
    <3>1. b \in Nat /\ Cardinality(Active(agentTask)) \in Nat /\ Cardinality(Accepting(served)) \in Nat
      BY <2>0, <2>4, LimitIsNumber, CountedFinite
    <3>2. Cardinality(Active(agentTask)) + Cardinality(Accepting(served)) <= b
      BY <2>0, <2>4 DEF TasksBound
    <3>3. ConcurrentTasks = Cardinality(Active(agentTask))
      BY DEF ConcurrentTasks, Active
    <3> HIDE DEF b
    <3>4. ConcurrentTasks <= b
      BY <3>1, <3>2, <3>3
    <3> QED
      BY <3>4 DEF b
  <2>5. ASSUME "requests_per_minute" \in DOMAIN agentLimits, NEW m \in 1 .. MaxMinutes
        PROVE  rateWindows[m] <= agentLimits["requests_per_minute"] + (Cardinality(AgentRequests) - 1)
    <3> DEFINE b == agentLimits["requests_per_minute"] + (Cardinality(AgentRequests) - 1)
    <3>1. b \in Nat /\ rateWindows[m] \in Nat /\ Cardinality(Passed(served, m)) \in Nat
      <4>1. agentLimits["requests_per_minute"] \in Nat
        BY <2>0, <2>5, LimitIsNumber
      <4>2. Cardinality(AgentRequests) \in Nat \ {0} /\ Cardinality(Passed(served, m)) \in Nat
        BY CountedFinite
      <4> QED
        BY <2>0, <4>1, <4>2
    <3>2. rateWindows[m] + Cardinality(Passed(served, m)) <= b
      BY <2>0, <2>5 DEF RateBound
    <3> HIDE DEF b
    <3>3. rateWindows[m] <= b
      BY <3>1, <3>2
    <3> QED
      BY <3>3 DEF b
  <2>6. MeteredWithinLimits
    BY <2>3, <2>4, <2>5 DEF MeteredWithinLimits, ResultRows
  <2> QED
    BY <2>2, <2>6
<1> QED
  BY <1>1, <1>2, LimitsStepKeeps, PTL DEF AgentLimitsSpec
-----------------------------------------------------------------------------
(***************************************************************************)
(* Roles, channel and members.  The row locks make what a handler read     *)
(* before its Event still so when it writes; a command of a role is never  *)
(* one that was seen, so its rows are written once.                        *)
(***************************************************************************)
AllVerbs == RoleVerbs \cup AssignVerbs \cup ChannelVerbs
AccessCommand == UNION {CommandsOf(v) : v \in AllVerbs \cup {"none"}}
\* A command, as far as the Events and rows tell commands apart.
CommandType == [verb : AllVerbs, role : RoleIds, who : Accounts,
                arg : Policies \cup MemberPermissions \cup {"none"}, actor : Accounts, key : AccessKeys \cup {0}]
EventType == [cmd : CommandType, version : Nat]
Streams == RoleIds \cup Accounts \cup {"channel"}
LockingVerbs == ChannelVerbs \ {"import_channel"}

\* The stream of a role, against its row and versions.
RoleGood(r, row, vers, strm) ==
  /\ vers \in Seq(Policies) /\ row = Len(vers) /\ Len(strm) = row
  /\ \A i \in DOMAIN strm : strm[i].version = i /\ strm[i].cmd.arg = vers[i]
NotSeen(c, strm) == \A i \in DOMAIN strm : ~SameRequest(c, strm[i])
\* A process: what it may hold, and what it knows of the rows it has locked.
DeskType == [at : {"idle", "begun", "appended"}, cmd : CommandType \cup {NoCommand}, version : Nat,
             length : Nat, replayed : BOOLEAN]
DeskGood(t, sub, row, auth, members) ==
  /\ t \in DeskType
  /\ t.at # "idle" =>
       /\ t.cmd \in sub /\ t.cmd.verb \in AllVerbs /\ t.version \in Nat
       /\ t.cmd.verb \in RoleVerbs => /\ t.version = row[t.cmd.role] /\ ~t.replayed
                                      /\ NotSeen(t.cmd, auth[t.cmd.role])
       /\ t.cmd.verb \in {"remove_member", "set_permissions"} => members[t.cmd.who].status = "active"
\* Row locks have one holder.
OneHolder(dk) ==
  /\ \A d, e \in Desks : (/\ dk[d].at # "idle" /\ dk[d].cmd.verb \in RoleVerbs
                          /\ dk[e].at # "idle" /\ dk[e].cmd.verb \in RoleVerbs
                          /\ dk[d].cmd.role = dk[e].cmd.role) => d = e
  /\ \A d, e \in Desks : (/\ dk[d].at # "idle" /\ dk[d].cmd.verb \in LockingVerbs
                          /\ dk[e].at # "idle" /\ dk[e].cmd.verb \in LockingVerbs) => d = e

\* The last index of a stream about an account, and what it says.
About(strm, a, verbs) == {i \in DOMAIN strm : strm[i].cmd.who = a /\ strm[i].cmd.verb \in verbs}
Last(S) == CHOOSE i \in S : \A j \in S : j <= i
Said(strm, a, verbs) == IF About(strm, a, verbs) = {} THEN NoCommand ELSE strm[Last(About(strm, a, verbs))].cmd
MemberSaid(strm, a) ==
  LET entry == Said(strm, a, {"add_member", "remove_member"})
      grant == Said(strm, a, {"add_member", "set_permissions"}) IN
  IF entry.verb = "none" THEN NotMember
  ELSE [status |-> IF entry.verb = "add_member" THEN "active" ELSE "removed", perms |-> grant.arg]

AccessInv ==
  /\ roleRow \in [RoleIds -> Nat] /\ DOMAIN roleVersions = RoleIds
  /\ holds \in [Accounts -> [RoleIds -> Nat]] /\ lapsed \subseteq Accounts \X RoleIds
  /\ channelRow \in {"none", "active", "archived", "deleted"} /\ openTask \in BOOLEAN
  /\ membership \in [Accounts -> [status : {"none", "active", "removed"}, perms : MemberPermissions]]
  /\ submitted \in SubmittedSets /\ DOMAIN desk = Desks
  /\ authority \in [Streams -> Seq(EventType)]
  /\ \A s \in Streams : \A i \in DOMAIN authority[s] :
       authority[s][i].cmd.key # 0 => StreamOf(authority[s][i].cmd) = s
  /\ \A r \in RoleIds : RoleGood(r, roleRow[r], roleVersions[r], authority[r])
  /\ channelRow \in {"archived", "deleted"}
       <=> \E i \in DOMAIN authority["channel"] : authority["channel"][i].cmd.verb = "archive_channel"
  /\ \A a \in Accounts : membership[a] = MemberSaid(authority["channel"], a)
  /\ \A d \in Desks : DeskGood(desk[d], submitted, roleRow, authority, membership)
  /\ OneHolder(desk)

\* The verbs are of one kind each.
LEMMA VerbKinds ==
  /\ RoleVerbs \cap AssignVerbs = {} /\ RoleVerbs \cap ChannelVerbs = {}
  /\ AssignVerbs \cap ChannelVerbs = {} /\ {"remove_member", "set_permissions"} \subseteq LockingVerbs
  /\ "none" \notin AllVerbs
BY DEF RoleVerbs, AssignVerbs, ChannelVerbs, MemberVerbs, LockingVerbs, AllVerbs

\* A submitted command.
LEMMA SubmittedIs ==
  ASSUME NEW sub \in SubmittedSets, NEW c \in sub, c.verb \in AllVerbs
  PROVE  /\ c \in CommandType /\ c.key \in AccessKeys /\ c.key # 0
         /\ (c.verb \in RoleVerbs => c.arg \in Policies)
         /\ (c.verb \in {"add_member", "set_permissions"} => c.arg \in MemberPermissions)
<1>1. c \in CommandsOf(c.verb) /\ 0 \notin AccessKeys
  BY SubmittedAssumption, AccessAssumption
<1>2. Arguments(c.verb) \subseteq Policies \cup MemberPermissions \cup {"none"}
      /\ (c.verb \in RoleVerbs => Arguments(c.verb) = Policies)
      /\ (c.verb \in {"add_member", "set_permissions"} => Arguments(c.verb) = MemberPermissions)
  BY VerbKinds DEF Arguments, RoleVerbs
<1> QED
  BY <1>1, <1>2 DEF CommandsOf, CommandType

\* A longer sequence of numbers has its greatest at the end.
LEMMA LastOf ==
  ASSUME NEW S \in SUBSET Nat, NEW n \in S, \A j \in S : j <= n
  PROVE  Last(S) = n
<1>1. Last(S) \in S /\ \A j \in S : j <= Last(S)
  BY DEF Last
<1>2. n \in Nat /\ Last(S) \in Nat /\ n <= Last(S) /\ Last(S) <= n
  BY <1>1
<1> HIDE DEF Last
<1> QED
  BY <1>2

\* A set of numbers that is bounded and not empty has a greatest element.
LEMMA LastIsIn ==
  ASSUME NEW S \in SUBSET Nat, S # {}, NEW b \in Nat, \A j \in S : j <= b
  PROVE  Last(S) \in S
<1> DEFINE T == {k \in Nat : \A j \in S : j <= k}
<1>1. PICK k \in T : \A m \in T : k <= m
  <2>1. T \in SUBSET Nat /\ T # {}
    OBVIOUS
  <2> HIDE DEF T
  <2> QED
    BY <2>1, LeastNumber
<1>2. k \in S
  <2> SUFFICES ASSUME k \notin S PROVE FALSE
    OBVIOUS
  <2>1. \A j \in S : j \in Nat /\ j <= k - 1
    <3> SUFFICES ASSUME NEW j \in S PROVE j <= k - 1
      OBVIOUS
    <3>1. j \in Nat /\ k \in Nat /\ j <= k /\ j # k
      BY <1>1
    <3> QED
      BY <3>1
  <2>2. PICK j0 \in S : TRUE
    OBVIOUS
  <2>3. j0 \in Nat /\ j0 <= k - 1 /\ k \in Nat
    BY <2>1
  <2>4. k - 1 \in Nat
    BY <2>3
  <2>5. k - 1 \in T
    BY <2>1, <2>4
  <2> QED
    BY <1>1, <2>2
<1> QED
  BY <1>1, <1>2, LastOf

\* What an Event more says about an account: itself, or what was said.
LEMMA SaidMore ==
  ASSUME NEW strm \in Seq(EventType), NEW e \in EventType, NEW a, NEW verbs
  PROVE  Said(Append(strm, e), a, verbs)
           = IF e.cmd.who = a /\ e.cmd.verb \in verbs THEN e.cmd ELSE Said(strm, a, verbs)
<1> DEFINE more == Append(strm, e)
           n == Len(strm) + 1
<1>1. /\ DOMAIN more = DOMAIN strm \cup {n} /\ more[n] = e /\ \A i \in DOMAIN strm : more[i] = strm[i]
      /\ n \in Nat /\ DOMAIN strm \subseteq Nat /\ (\A i \in DOMAIN strm : i < n)
  OBVIOUS
<1> HIDE DEF more, n
<1>2. CASE e.cmd.who = a /\ e.cmd.verb \in verbs
  <2>1. n \in About(more, a, verbs) /\ About(more, a, verbs) \in SUBSET Nat
        /\ \A j \in About(more, a, verbs) : j <= n
    BY <1>1, <1>2 DEF About
  <2>2. Last(About(more, a, verbs)) = n
    BY <2>1, LastOf
  <2>3. Said(more, a, verbs) = e.cmd
    BY <1>1, <2>1, <2>2 DEF Said
  <2> QED
    BY <1>2, <2>3 DEF more
<1>3. CASE ~(e.cmd.who = a /\ e.cmd.verb \in verbs)
  <2>1. About(more, a, verbs) = About(strm, a, verbs)
    BY <1>1, <1>3 DEF About
  <2>2. CASE About(strm, a, verbs) = {}
    BY <1>3, <2>1, <2>2 DEF Said, more
  <2>3. CASE About(strm, a, verbs) # {}
    <3>1. Last(About(strm, a, verbs)) \in About(strm, a, verbs)
      <4> DEFINE T == About(strm, a, verbs)
      <4>1. T \in SUBSET Nat /\ Len(strm) \in Nat /\ \A j \in T : j <= Len(strm)
        BY DEF About
      <4> HIDE DEF T
      <4> QED
        BY <2>3, <4>1, LastIsIn DEF T
    <3> QED
      BY <1>1, <1>3, <2>1, <3>1 DEF Said, more, About
  <2> QED
    BY <2>2, <2>3
<1> QED
  BY <1>2, <1>3

\* A process moves on or gives up: what the others hold and know is untouched.
LEMMA DeskMoves ==
  ASSUME AccessInv, NEW d \in Desks, NEW t, desk' = [desk EXCEPT ![d] = t],
         UNCHANGED <<roleRow, roleVersions, holds, lapsed, channelRow, openTask, membership,
                     authority, submitted>>,
         DeskGood(t, submitted, roleRow, authority, membership),
         t.at # "idle" /\ t.cmd.verb \in RoleVerbs =>
           \A e \in Desks \ {d} : ~(desk[e].at # "idle" /\ desk[e].cmd.verb \in RoleVerbs
                                    /\ desk[e].cmd.role = t.cmd.role),
         t.at # "idle" /\ t.cmd.verb \in LockingVerbs =>
           \A e \in Desks \ {d} : ~(desk[e].at # "idle" /\ desk[e].cmd.verb \in LockingVerbs)
  PROVE  AccessInv'
<1>1. /\ DOMAIN desk = Desks /\ OneHolder(desk)
      /\ \A e \in Desks : DeskGood(desk[e], submitted, roleRow, authority, membership)
  BY DEF AccessInv
<1>2. DOMAIN desk' = Desks /\ desk'[d] = t /\ \A e \in Desks \ {d} : desk'[e] = desk[e]
  BY <1>1
<1>3. \A e \in Desks : DeskGood(desk'[e], submitted, roleRow, authority, membership)
  BY <1>1, <1>2
<1>4. ASSUME NEW a \in Desks, NEW e \in Desks,
             desk'[a].at # "idle", desk'[a].cmd.verb \in RoleVerbs,
             desk'[e].at # "idle", desk'[e].cmd.verb \in RoleVerbs,
             desk'[a].cmd.role = desk'[e].cmd.role
      PROVE  a = e
  <2>1. CASE a # d /\ e # d
    BY <1>1, <1>2, <1>4, <2>1 DEF OneHolder
  <2>2. CASE a = d /\ e # d
    BY <1>2, <1>4, <2>2
  <2>3. CASE a # d /\ e = d
    BY <1>2, <1>4, <2>3
  <2> QED
    BY <2>1, <2>2, <2>3
<1>5. ASSUME NEW a \in Desks, NEW e \in Desks,
             desk'[a].at # "idle", desk'[a].cmd.verb \in LockingVerbs,
             desk'[e].at # "idle", desk'[e].cmd.verb \in LockingVerbs
      PROVE  a = e
  <2>1. CASE a # d /\ e # d
    BY <1>1, <1>2, <1>5, <2>1 DEF OneHolder
  <2>2. CASE a = d /\ e # d
    BY <1>2, <1>5, <2>2
  <2>3. CASE a # d /\ e = d
    BY <1>2, <1>5, <2>3
  <2> QED
    BY <2>1, <2>2, <2>3
<1>6. OneHolder(desk')
  <2>1. \A a, e \in Desks : (/\ desk'[a].at # "idle" /\ desk'[a].cmd.verb \in RoleVerbs
                             /\ desk'[e].at # "idle" /\ desk'[e].cmd.verb \in RoleVerbs
                             /\ desk'[a].cmd.role = desk'[e].cmd.role) => a = e
    <3> TAKE a, e \in Desks
    <3> HAVE /\ desk'[a].at # "idle" /\ desk'[a].cmd.verb \in RoleVerbs
             /\ desk'[e].at # "idle" /\ desk'[e].cmd.verb \in RoleVerbs
             /\ desk'[a].cmd.role = desk'[e].cmd.role
    <3> QED
      BY <1>4
  <2>2. \A a, e \in Desks : (/\ desk'[a].at # "idle" /\ desk'[a].cmd.verb \in LockingVerbs
                             /\ desk'[e].at # "idle" /\ desk'[e].cmd.verb \in LockingVerbs) => a = e
    <3> TAKE a, e \in Desks
    <3> HAVE /\ desk'[a].at # "idle" /\ desk'[a].cmd.verb \in LockingVerbs
             /\ desk'[e].at # "idle" /\ desk'[e].cmd.verb \in LockingVerbs
    <3> QED
      BY <1>5
  <2> QED
    BY <2>1, <2>2, Zenon DEF OneHolder
<1> QED
  BY <1>2, <1>3, <1>6 DEF AccessInv

\* No transaction.
LEMMA NoDeskGood ==
  /\ NoDeskTxn.at = "idle"
  /\ \A sub, row, auth, members : DeskGood(NoDeskTxn, sub, row, auth, members)
BY DEF NoDeskTxn, DeskGood, DeskType

\* A handler's reads.
LEMMA BeginKeeps ==
  ASSUME AccessInv, NEW d \in Desks, NEW c \in submitted, c.verb \in AllVerbs, Begin(d, c),
         c.verb \in RoleVerbs => RoleRowFree(d, c.role) /\ NotSeen(c, authority[c.role]),
         c.verb \in LockingVerbs => ChannelRowFree(d),
         c.verb \in {"remove_member", "set_permissions"} => membership[c.who].status = "active"
  PROVE  AccessInv'
<1> DEFINE t == [NoDeskTxn EXCEPT !.at = "begun", !.cmd = c, !.version = roleRow[c.role],
                                  !.length = Len(authority["channel"])]
<1>1. /\ desk' = [desk EXCEPT ![d] = t]
      /\ UNCHANGED <<roleRow, roleVersions, holds, lapsed, channelRow, openTask, membership,
                     authority, submitted>>
  BY DEF Begin
<1>2. /\ t.at = "begun" /\ t.cmd = c /\ t.version = roleRow[c.role] /\ t.replayed = FALSE
  BY DEF NoDeskTxn
<1>3. /\ submitted \in SubmittedSets /\ roleRow \in [RoleIds -> Nat]
      /\ Len(authority["channel"]) \in Nat
  BY DEF AccessInv, Streams
<1>4. c \in CommandType /\ c.role \in RoleIds /\ roleRow[c.role] \in Nat
  BY <1>3, SubmittedIs DEF CommandType
<1>8. t \in DeskType
  BY <1>3, <1>4 DEF NoDeskTxn, DeskType
<1> HIDE DEF t
<1>5. DeskGood(t, submitted, roleRow, authority, membership)
  BY <1>2, <1>3, <1>4, <1>8 DEF DeskGood
<1>6. c.verb \in RoleVerbs =>
        \A e \in Desks \ {d} : ~(desk[e].at # "idle" /\ desk[e].cmd.verb \in RoleVerbs
                                 /\ desk[e].cmd.role = t.cmd.role)
  BY <1>2 DEF RoleRowFree
<1>7. c.verb \in LockingVerbs =>
        \A e \in Desks \ {d} : ~(desk[e].at # "idle" /\ desk[e].cmd.verb \in LockingVerbs)
  BY DEF ChannelRowFree, LockingVerbs
<1> QED
  BY <1>1, <1>2, <1>5, <1>6, <1>7, DeskMoves

\* An Event by a process, into the stream that its command is about.
LEMMA EventByIs ==
  ASSUME NEW t, NEW sub \in SubmittedSets, t.cmd \in sub, t.cmd.verb \in AllVerbs, t.version \in Nat
  PROVE  /\ EventBy(t) \in EventType /\ EventBy(t).cmd = t.cmd
         /\ (t.cmd.verb \in RoleVerbs => EventBy(t).version = t.version + 1)
         /\ StreamOf(t.cmd) \in Streams /\ t.cmd.key # 0
<1>1. t.cmd \in CommandType /\ t.cmd.key # 0
  BY SubmittedIs
<1>2. /\ EventBy(t).cmd = t.cmd
      /\ EventBy(t).version = CASE t.cmd.verb \in RoleVerbs -> t.version + 1
                               [] t.cmd.verb = "assign_role" -> t.version
                               [] OTHER -> 0
  BY DEF EventBy, EventAbout
<1>3. EventBy(t).version \in Nat /\ (t.cmd.verb \in RoleVerbs => EventBy(t).version = t.version + 1)
  <2>1. CASE t.cmd.verb \in RoleVerbs
    <3>1. t.cmd.verb # "assign_role"
      BY <2>1 DEF RoleVerbs
    <3> QED
      BY <1>2, <2>1, <3>1
  <2>2. CASE t.cmd.verb = "assign_role"
    <3>1. t.cmd.verb \notin RoleVerbs
      BY <2>2 DEF RoleVerbs
    <3> QED
      BY <1>2, <2>2, <3>1
  <2>3. CASE t.cmd.verb \notin RoleVerbs /\ t.cmd.verb # "assign_role"
    BY <1>2, <2>3
  <2> QED
    BY <2>1, <2>2, <2>3
<1>4. EventBy(t) \in EventType
  <2>1. EventBy(t) = [cmd |-> EventBy(t).cmd, version |-> EventBy(t).version]
    BY DEF EventBy, EventAbout
  <2> QED
    BY <1>1, <1>2, <1>3, <2>1 DEF EventType
<1>5. StreamOf(t.cmd) \in Streams
  BY <1>1 DEF StreamOf, Streams, CommandType
<1> QED
  BY <1>1, <1>2, <1>3, <1>4, <1>5

\* store.append: a command of a role is never a replay.
LEMMA AppendKeeps ==
  ASSUME AccessInv, NEW d \in Desks, AppendEvent(d)
  PROVE  AccessInv'
<1> DEFINE t == desk[d]
           c == t.cmd
           u == IF Prior(c) \ {EventBy(t)} # {} THEN NoDeskTxn
                ELSE IF Prior(c) # {} THEN [t EXCEPT !.at = "appended", !.replayed = TRUE]
                ELSE IF c.verb \in ChannelVerbs \ {"import_channel"} /\ t.length # Len(authority["channel"])
                THEN NoDeskTxn ELSE [t EXCEPT !.at = "appended"]
<1>1. /\ t.at = "begun" /\ desk' = [desk EXCEPT ![d] = u]
      /\ UNCHANGED <<roleRow, roleVersions, holds, lapsed, channelRow, openTask, membership,
                     authority, submitted>>
  BY DEF AppendEvent
<1>2. /\ DeskGood(t, submitted, roleRow, authority, membership) /\ OneHolder(desk)
      /\ submitted \in SubmittedSets /\ authority \in [Streams -> Seq(EventType)]
      /\ \A s \in Streams : \A i \in DOMAIN authority[s] :
           authority[s][i].cmd.key # 0 => StreamOf(authority[s][i].cmd) = s
  BY DEF AccessInv
<1>3. /\ t.at # "idle" /\ c \in submitted /\ c.verb \in AllVerbs /\ t.version \in Nat
      /\ c.verb \in RoleVerbs => ~t.replayed /\ NotSeen(c, authority[c.role])
  BY <1>1, <1>2 DEF DeskGood
<1>4. EventBy(t).cmd = c /\ c.key # 0
  BY <1>2, <1>3, EventByIs
<1>5. ASSUME c.verb \in RoleVerbs, Prior(c) \ {EventBy(t)} = {} PROVE Prior(c) = {}
  <2> SUFFICES ASSUME Prior(c) # {} PROVE FALSE
    OBVIOUS
  <2>1. EventBy(t) \in Prior(c)
    BY <1>5
  <2>2. PICK s \in DOMAIN authority : \E i \in DOMAIN authority[s] :
          EventBy(t) = authority[s][i] /\ SameRequest(c, authority[s][i])
    BY <2>1 DEF Prior
  <2>3. PICK i \in DOMAIN authority[s] :
          EventBy(t) = authority[s][i] /\ SameRequest(c, authority[s][i])
    BY <2>2
  <2>4. s \in Streams /\ authority[s][i].cmd = c
    BY <1>2, <1>4, <2>3
  <2>5. StreamOf(c) = s
    BY <1>2, <1>4, <2>3, <2>4
  <2>6. s = c.role
    BY <1>5, <2>5 DEF StreamOf
  <2> QED
    BY <1>3, <1>5, <2>3, <2>6 DEF NotSeen
<1>6. \/ u = NoDeskTxn
      \/ u = [t EXCEPT !.at = "appended", !.replayed = TRUE] /\ c.verb \notin RoleVerbs
      \/ u = [t EXCEPT !.at = "appended"]
  BY <1>5
<1>7. CASE u = NoDeskTxn
  BY <1>1, <1>7, NoDeskGood, DeskMoves
<1>8. ASSUME u \in DeskType, u.at = "appended", u.cmd = c, u.version = t.version,
             u.replayed = t.replayed \/ (u.replayed = TRUE /\ c.verb \notin RoleVerbs)
      PROVE  AccessInv'
  <2> HIDE DEF u
  <2>1. DeskGood(u, submitted, roleRow, authority, membership)
    BY <1>2, <1>3, <1>8 DEF DeskGood
  <2>2. c.verb \in RoleVerbs =>
          \A e \in Desks \ {d} : ~(desk[e].at # "idle" /\ desk[e].cmd.verb \in RoleVerbs
                                   /\ desk[e].cmd.role = u.cmd.role)
    BY <1>2, <1>3, <1>8 DEF OneHolder
  <2>3. c.verb \in LockingVerbs =>
          \A e \in Desks \ {d} : ~(desk[e].at # "idle" /\ desk[e].cmd.verb \in LockingVerbs)
    BY <1>2, <1>3 DEF OneHolder
  <2> QED
    BY <1>1, <1>8, <2>1, <2>2, <2>3, DeskMoves
<1>9. t \in DeskType
  BY <1>2 DEF DeskGood
<1>10. CASE u = [t EXCEPT !.at = "appended", !.replayed = TRUE] /\ c.verb \notin RoleVerbs
  <2>1. /\ u \in DeskType /\ u.at = "appended" /\ u.cmd = c /\ u.version = t.version
        /\ u.replayed = TRUE
    BY <1>9, <1>10 DEF DeskType
  <2> QED
    BY <1>8, <1>10, <2>1
<1>11. CASE u = [t EXCEPT !.at = "appended"]
  <2>1. /\ u \in DeskType /\ u.at = "appended" /\ u.cmd = c /\ u.version = t.version
        /\ u.replayed = t.replayed
    BY <1>9, <1>11 DEF DeskType
  <2> QED
    BY <1>8, <2>1
<1> QED
  BY <1>6, <1>7, <1>10, <1>11

\* A transaction that ends frees its locks, and what it wrote is not what
\* another has locked.
LEMMA OthersKeep ==
  ASSUME AccessInv, NEW d \in Desks, desk[d].at # "idle", desk' = [desk EXCEPT ![d] = NoDeskTxn],
         submitted' = submitted,
         \A r \in RoleIds : \/ desk[d].cmd.verb \in RoleVerbs /\ r = desk[d].cmd.role
                            \/ roleRow'[r] = roleRow[r] /\ authority'[r] = authority[r],
         desk[d].cmd.verb \in LockingVerbs \/ membership' = membership
  PROVE  /\ DOMAIN desk' = Desks /\ OneHolder(desk')
         /\ \A e \in Desks : DeskGood(desk'[e], submitted', roleRow', authority', membership')
<1>1. /\ DOMAIN desk = Desks /\ OneHolder(desk) /\ submitted \in SubmittedSets
      /\ \A e \in Desks : DeskGood(desk[e], submitted, roleRow, authority, membership)
  BY DEF AccessInv
<1>2. DOMAIN desk' = Desks /\ desk'[d] = NoDeskTxn /\ \A e \in Desks \ {d} : desk'[e] = desk[e]
  BY <1>1
<1>3. OneHolder(desk')
  <2>1. \A a \in Desks : desk'[a].at # "idle" => a # d /\ desk'[a] = desk[a]
    BY <1>2, NoDeskGood
  <2>2. \A a, e \in Desks : (/\ desk'[a].at # "idle" /\ desk'[a].cmd.verb \in RoleVerbs
                             /\ desk'[e].at # "idle" /\ desk'[e].cmd.verb \in RoleVerbs
                             /\ desk'[a].cmd.role = desk'[e].cmd.role) => a = e
    <3> TAKE a, e \in Desks
    <3> HAVE /\ desk'[a].at # "idle" /\ desk'[a].cmd.verb \in RoleVerbs
             /\ desk'[e].at # "idle" /\ desk'[e].cmd.verb \in RoleVerbs
             /\ desk'[a].cmd.role = desk'[e].cmd.role
    <3>1. desk'[a] = desk[a] /\ desk'[e] = desk[e]
      BY <2>1
    <3> QED
      BY <1>1, <3>1 DEF OneHolder
  <2>3. \A a, e \in Desks : (/\ desk'[a].at # "idle" /\ desk'[a].cmd.verb \in LockingVerbs
                             /\ desk'[e].at # "idle" /\ desk'[e].cmd.verb \in LockingVerbs) => a = e
    <3> TAKE a, e \in Desks
    <3> HAVE /\ desk'[a].at # "idle" /\ desk'[a].cmd.verb \in LockingVerbs
             /\ desk'[e].at # "idle" /\ desk'[e].cmd.verb \in LockingVerbs
    <3>1. desk'[a] = desk[a] /\ desk'[e] = desk[e]
      BY <2>1
    <3> QED
      BY <1>1, <3>1 DEF OneHolder
  <2> QED
    BY <2>2, <2>3, Zenon DEF OneHolder
<1>4. ASSUME NEW e \in Desks PROVE DeskGood(desk'[e], submitted', roleRow', authority', membership')
  <2>1. CASE e = d
    BY <1>2, <2>1, NoDeskGood
  <2>2. CASE e # d
    <3> DEFINE t == desk[e]
    <3>1. t.at # "idle" => /\ t.cmd \in submitted /\ t.cmd.verb \in AllVerbs /\ t.version \in Nat
                           /\ (t.cmd.verb \in RoleVerbs => /\ t.version = roleRow[t.cmd.role] /\ ~t.replayed
                                                           /\ NotSeen(t.cmd, authority[t.cmd.role]))
                           /\ (t.cmd.verb \in {"remove_member", "set_permissions"} => membership[t.cmd.who].status = "active")
      BY <1>1 DEF DeskGood
    <3>2. t \in DeskType
      BY <1>1 DEF DeskGood
    <3>3. ASSUME t.at # "idle", t.cmd.verb \in RoleVerbs
          PROVE  t.version = roleRow'[t.cmd.role] /\ ~t.replayed /\ NotSeen(t.cmd, authority'[t.cmd.role])
      <4>1. t.cmd.role \in RoleIds
        BY <1>1, <3>1, <3>3, SubmittedIs DEF CommandType
      <4>2. ~(desk[d].cmd.verb \in RoleVerbs /\ t.cmd.role = desk[d].cmd.role)
        BY <1>1, <2>2, <3>3 DEF OneHolder
      <4>3. roleRow'[t.cmd.role] = roleRow[t.cmd.role] /\ authority'[t.cmd.role] = authority[t.cmd.role]
        BY <4>1, <4>2
      <4> QED
        BY <3>1, <3>3, <4>3
    <3>4. ASSUME t.at # "idle", t.cmd.verb \in {"remove_member", "set_permissions"}
          PROVE  membership'[t.cmd.who].status = "active"
      <4>1. t.cmd.verb \in LockingVerbs
        BY <3>4, VerbKinds
      <4>2. desk[d].cmd.verb \notin LockingVerbs
        BY <1>1, <2>2, <3>4, <4>1 DEF OneHolder
      <4> QED
        BY <3>1, <3>4, <4>2
    <3>5. desk'[e] = t
      BY <1>2, <2>2
    <3> HIDE DEF t
    <3> QED
      BY <3>1, <3>2, <3>3, <3>4, <3>5 DEF DeskGood
  <2> QED
    BY <2>1, <2>2
<1> QED
  BY <1>2, <1>3, <1>4

\* An Event in one stream.
StreamGrown(strms, s, e, more) ==
  /\ more \in [Streams -> Seq(EventType)] /\ more[s] = Append(strms[s], e)
  /\ \A o \in Streams \ {s} : more[o] = strms[o]
  /\ Len(more[s]) = Len(strms[s]) + 1 /\ more[s][Len(strms[s]) + 1] = e
  /\ DOMAIN more[s] = DOMAIN strms[s] \cup {Len(strms[s]) + 1}
  /\ \A i \in DOMAIN strms[s] : more[s][i] = strms[s][i]
LEMMA StreamGrows ==
  ASSUME NEW strms \in [Streams -> Seq(EventType)], NEW s \in Streams, NEW e \in EventType
  PROVE  StreamGrown(strms, s, e, [strms EXCEPT ![s] = Append(@, e)])
<1> DEFINE more == [strms EXCEPT ![s] = Append(@, e)]
           strm == strms[s]
<1>1. strm \in Seq(EventType) /\ more[s] = Append(strm, e) /\ more \in [Streams -> Seq(EventType)]
      /\ \A o \in Streams \ {s} : more[o] = strms[o]
  OBVIOUS
<1>2. /\ Len(Append(strm, e)) = Len(strm) + 1 /\ Append(strm, e)[Len(strm) + 1] = e
      /\ DOMAIN Append(strm, e) = DOMAIN strm \cup {Len(strm) + 1}
      /\ \A i \in DOMAIN strm : Append(strm, e)[i] = strm[i]
  <2> HIDE DEF strm
  <2> QED
    BY <1>1
<1> HIDE DEF more
<1> QED
  BY <1>1, <1>2 DEF StreamGrown, more

\* Every Event is in the stream of its command.
LEMMA InItsStream ==
  ASSUME AccessInv, NEW s \in Streams, NEW e \in EventType, StreamOf(e.cmd) = s,
         StreamGrown(authority, s, e, authority')
  PROVE  /\ authority' \in [Streams -> Seq(EventType)]
         /\ \A o \in Streams : \A i \in DOMAIN authority'[o] :
              authority'[o][i].cmd.key # 0 => StreamOf(authority'[o][i].cmd) = o
<1>1. authority' \in [Streams -> Seq(EventType)]
  BY DEF StreamGrown
<1>2. ASSUME NEW o \in Streams, NEW i \in DOMAIN authority'[o], authority'[o][i].cmd.key # 0
      PROVE  StreamOf(authority'[o][i].cmd) = o
  <2>1. \A j \in DOMAIN authority[o] : authority[o][j].cmd.key # 0 => StreamOf(authority[o][j].cmd) = o
    BY DEF AccessInv
  <2>2. CASE o # s
    <3>1. authority'[o] = authority[o]
      BY <2>2 DEF StreamGrown
    <3> QED
      BY <1>2, <2>1, <3>1
  <2>3. CASE o = s /\ i = Len(authority[s]) + 1
    BY <1>2, <2>3 DEF StreamGrown
  <2>4. CASE o = s /\ i # Len(authority[s]) + 1
    <3>1. i \in DOMAIN authority[s] /\ authority'[s][i] = authority[s][i]
      BY <2>4 DEF StreamGrown
    <3> QED
      BY <1>2, <2>1, <2>4, <3>1
  <2> QED
    BY <2>2, <2>3, <2>4
<1> QED
  BY <1>1, <1>2

\* The rows of a role, for a fresh command of it.
LEMMA RoleWritten ==
  ASSUME AccessInv, NEW d \in Desks, WriteAndCommit(d), RowsAllow(desk[d]), desk[d].cmd.verb \in RoleVerbs
  PROVE  AccessInv'
<1> DEFINE t == desk[d]
           c == t.cmd
           r == c.role
           e == EventBy(t)
<1>1. /\ roleRow \in [RoleIds -> Nat] /\ DOMAIN roleVersions = RoleIds /\ submitted \in SubmittedSets
      /\ authority \in [Streams -> Seq(EventType)]
      /\ \A q \in RoleIds : RoleGood(q, roleRow[q], roleVersions[q], authority[q])
      /\ DeskGood(t, submitted, roleRow, authority, membership)
  BY DEF AccessInv
<1>2. t.at # "idle"
  BY DEF WriteAndCommit
<1>3. /\ c \in submitted /\ c.verb \in AllVerbs /\ t.version \in Nat
      /\ t.version = roleRow[r] /\ ~t.replayed
  BY <1>1, <1>2 DEF DeskGood
<1>4. c \in CommandType /\ c.arg \in Policies /\ r \in RoleIds
  BY <1>1, <1>3, SubmittedIs DEF CommandType
<1>5. e \in EventType /\ e.cmd = c /\ e.version = roleRow[r] + 1 /\ StreamOf(c) = r /\ r \in Streams
  BY <1>1, <1>3, <1>4, EventByIs DEF StreamOf, Streams
<1>6. /\ c.verb \notin AssignVerbs /\ c.verb \notin ChannelVerbs /\ c.verb \notin LockingVerbs
      /\ c.verb \notin {"assign_role", "revoke_role", "import_channel", "archive_channel",
                        "add_member", "remove_member", "set_permissions"}
  BY DEF RoleVerbs, AssignVerbs, ChannelVerbs, MemberVerbs, LockingVerbs
<1>7. /\ desk' = [desk EXCEPT ![d] = NoDeskTxn]
      /\ authority' = [authority EXCEPT ![r] = Append(@, e)]
      /\ roleRow' = [roleRow EXCEPT ![r] = @ + 1]
      /\ roleVersions' = [roleVersions EXCEPT ![r] = Append(@, c.arg)]
      /\ UNCHANGED <<holds, lapsed, channelRow, membership, openTask, submitted>>
  BY <1>3, <1>5, <1>6 DEF WriteAndCommit, WritesRows, RoleRowAfter, VersionsAfter, HoldsAfter,
                          ChannelAfter, MembershipAfter
<1>8. StreamGrown(authority, r, e, authority')
  BY <1>1, <1>5, <1>7, StreamGrows
<1>9. /\ authority' \in [Streams -> Seq(EventType)]
      /\ \A o \in Streams : \A i \in DOMAIN authority'[o] :
           authority'[o][i].cmd.key # 0 => StreamOf(authority'[o][i].cmd) = o
  BY <1>5, <1>8, InItsStream
<1>10. RoleGood(r, roleRow'[r], roleVersions'[r], authority'[r])
  <2> DEFINE vers == roleVersions[r]
             strm == authority[r]
  <2>1. /\ vers \in Seq(Policies) /\ strm \in Seq(EventType) /\ roleRow[r] = Len(vers)
        /\ Len(strm) = roleRow[r] /\ roleRow[r] \in Nat
        /\ \A i \in DOMAIN strm : strm[i].version = i /\ strm[i].cmd.arg = vers[i]
    BY <1>1, <1>4, <1>5 DEF RoleGood
  <2>2. /\ authority'[r] = Append(strm, e) /\ roleVersions'[r] = Append(vers, c.arg)
        /\ roleRow'[r] = roleRow[r] + 1
    BY <1>1, <1>4, <1>5, <1>7
  <2> HIDE DEF vers, strm, e, c, r
  <2>3. /\ Append(vers, c.arg) \in Seq(Policies) /\ Len(Append(vers, c.arg)) = Len(vers) + 1
        /\ Len(Append(strm, e)) = Len(strm) + 1
        /\ DOMAIN Append(strm, e) = DOMAIN strm \cup {Len(strm) + 1}
        /\ Append(strm, e)[Len(strm) + 1] = e /\ Append(vers, c.arg)[Len(vers) + 1] = c.arg
        /\ \A i \in DOMAIN strm : Append(strm, e)[i] = strm[i]
        /\ \A i \in DOMAIN vers : Append(vers, c.arg)[i] = vers[i]
    BY <1>4, <1>5, <2>1
  <2>4. DOMAIN strm = DOMAIN vers
    BY <2>1
  <2>5. ASSUME NEW i \in DOMAIN authority'[r]
        PROVE  authority'[r][i].version = i /\ authority'[r][i].cmd.arg = roleVersions'[r][i]
    <3>1. CASE i \in DOMAIN strm
      BY <2>1, <2>2, <2>3, <2>4, <3>1
    <3>2. CASE i = Len(strm) + 1
      BY <1>5, <2>1, <2>2, <2>3, <3>2
    <3> QED
      BY <2>2, <2>3, <3>1, <3>2
  <2> QED
    BY <2>1, <2>2, <2>3, <2>5 DEF RoleGood
<1>11. \A q \in RoleIds : RoleGood(q, roleRow'[q], roleVersions'[q], authority'[q])
  <2> TAKE q \in RoleIds
  <2>1. CASE q = r
    BY <1>10, <2>1
  <2>2. CASE q # r
    <3>1. roleRow'[q] = roleRow[q] /\ roleVersions'[q] = roleVersions[q] /\ authority'[q] = authority[q]
      BY <1>1, <1>7, <2>2 DEF Streams
    <3> QED
      BY <1>1, <3>1
  <2> QED
    BY <2>1, <2>2
<1>12. authority'["channel"] = authority["channel"]
  BY <1>1, <1>4, <1>7, AccessAssumption DEF Streams
<1>13. roleRow' \in [RoleIds -> Nat] /\ DOMAIN roleVersions' = RoleIds
  <2>1. roleRow[r] + 1 \in Nat
    BY <1>1, <1>4
  <2> HIDE DEF r, c
  <2> QED
    BY <1>1, <1>7, <2>1
<1>14. \A q \in RoleIds : \/ desk[d].cmd.verb \in RoleVerbs /\ q = desk[d].cmd.role
                          \/ roleRow'[q] = roleRow[q] /\ authority'[q] = authority[q]
  BY <1>1, <1>7 DEF Streams
<1>15. /\ DOMAIN desk' = Desks /\ OneHolder(desk')
       /\ \A f \in Desks : DeskGood(desk'[f], submitted', roleRow', authority', membership')
  <2>1. submitted' = submitted /\ membership' = membership /\ desk[d].at # "idle"
    BY <1>2, <1>7
  <2> QED
    BY <1>7, <1>14, <2>1, OthersKeep
<1> HIDE DEF e, c, r, t
<1> QED
  BY <1>7, <1>9, <1>11, <1>12, <1>13, <1>15 DEF AccessInv

\* An assignment or its end: the account's stream and rows.
LEMMA AssignmentWritten ==
  ASSUME AccessInv, NEW d \in Desks, WriteAndCommit(d), RowsAllow(desk[d]), desk[d].cmd.verb \in AssignVerbs
  PROVE  AccessInv'
<1> DEFINE t == desk[d]
           c == t.cmd
           s == c.who
           e == EventBy(t)
<1>1. /\ roleRow \in [RoleIds -> Nat] /\ DOMAIN roleVersions = RoleIds /\ submitted \in SubmittedSets
      /\ authority \in [Streams -> Seq(EventType)] /\ holds \in [Accounts -> [RoleIds -> Nat]]
      /\ \A q \in RoleIds : RoleGood(q, roleRow[q], roleVersions[q], authority[q])
      /\ DeskGood(t, submitted, roleRow, authority, membership) /\ lapsed \subseteq Accounts \X RoleIds
      /\ \A o \in Streams : \A i \in DOMAIN authority[o] :
           authority[o][i].cmd.key # 0 => StreamOf(authority[o][i].cmd) = o
  BY DEF AccessInv
<1>2. t.at # "idle"
  BY DEF WriteAndCommit
<1>3. /\ c \in submitted /\ c.verb \in AllVerbs /\ t.version \in Nat
  BY <1>1, <1>2 DEF DeskGood
<1>4. c \in CommandType /\ s \in Accounts /\ c.role \in RoleIds
  BY <1>1, <1>3, SubmittedIs DEF CommandType
<1>6. /\ c.verb \notin RoleVerbs /\ c.verb \notin ChannelVerbs
      /\ c.verb \notin {"import_channel", "archive_channel", "add_member", "remove_member", "set_permissions"}
  BY DEF RoleVerbs, AssignVerbs, ChannelVerbs, MemberVerbs
<1>5. e \in EventType /\ e.cmd = c /\ StreamOf(c) = s /\ s \in Streams
  BY <1>1, <1>3, <1>4, <1>6, EventByIs DEF StreamOf, Streams
<1>7. /\ desk' = [desk EXCEPT ![d] = NoDeskTxn]
      /\ authority' = IF t.replayed THEN authority ELSE [authority EXCEPT ![s] = Append(@, e)]
      /\ holds' = HoldsAfter(c)
      /\ lapsed' = IF c.verb = "revoke_role" THEN lapsed \ {<<c.who, c.role>>} ELSE lapsed
      /\ UNCHANGED <<roleRow, roleVersions, channelRow, membership, openTask, submitted>>
  BY <1>3, <1>5, <1>6 DEF WriteAndCommit, WritesRows, RoleRowAfter, VersionsAfter,
                          ChannelAfter, MembershipAfter
<1>8. /\ authority' \in [Streams -> Seq(EventType)]
      /\ \A o \in Streams : \A i \in DOMAIN authority'[o] :
           authority'[o][i].cmd.key # 0 => StreamOf(authority'[o][i].cmd) = o
  <2>1. CASE t.replayed
    <3>1. authority' = authority
      BY <1>7, <2>1
    <3> QED
      BY <1>1, <3>1
  <2>2. CASE ~t.replayed
    <3>1. StreamGrown(authority, s, e, authority')
      BY <1>1, <1>5, <1>7, <2>2, StreamGrows
    <3> QED
      BY <1>5, <3>1, InItsStream
  <2> QED
    BY <2>1, <2>2
<1>9. \A q \in RoleIds \cup {"channel"} : authority'[q] = authority[q]
  BY <1>1, <1>4, <1>7, AccessAssumption DEF Streams
<1>10. holds' \in [Accounts -> [RoleIds -> Nat]]
  <2>1. CASE c.verb = "assign_role"
    <3>1. holds' = [holds EXCEPT ![s][c.role] = @ + 1]
      BY <1>7, <2>1 DEF HoldsAfter
    <3>2. holds[s][c.role] + 1 \in Nat
      BY <1>1, <1>4
    <3> QED
      BY <1>1, <1>4, <3>1, <3>2
  <2>2. CASE c.verb = "revoke_role"
    <3>1. holds' = [holds EXCEPT ![s][c.role] = 0]
      BY <1>7, <2>2 DEF HoldsAfter
    <3> QED
      BY <1>1, <1>4, <3>1
  <2> QED
    BY <2>1, <2>2 DEF AssignVerbs
<1>11. lapsed' \subseteq Accounts \X RoleIds
  BY <1>1, <1>7
<1>12. /\ DOMAIN desk' = Desks /\ OneHolder(desk')
       /\ \A f \in Desks : DeskGood(desk'[f], submitted', roleRow', authority', membership')
  <2>1. submitted' = submitted /\ membership' = membership /\ desk[d].at # "idle"
    BY <1>2, <1>7
  <2>2. \A q \in RoleIds : \/ desk[d].cmd.verb \in RoleVerbs /\ q = desk[d].cmd.role
                           \/ roleRow'[q] = roleRow[q] /\ authority'[q] = authority[q]
    BY <1>7, <1>9
  <2> QED
    BY <1>7, <2>1, <2>2, OthersKeep
<1> HIDE DEF e, c, s, t
<1> QED
  BY <1>7, <1>8, <1>9, <1>10, <1>11, <1>12 DEF AccessInv

\* What the channel's stream says of the members, when it says more.
LEMMA MembersSaidMore ==
  ASSUME AccessInv, NEW c \in CommandType, NEW e \in EventType, e.cmd = c, c.verb \in ChannelVerbs,
         c.verb \in {"add_member", "set_permissions"} => c.arg \in MemberPermissions,
         c.verb \in {"remove_member", "set_permissions"} => membership[c.who].status = "active",
         membership' = MembershipAfter(c),
         authority'["channel"] = Append(authority["channel"], e)
  PROVE  /\ membership' \in [Accounts -> [status : {"none", "active", "removed"}, perms : MemberPermissions]]
         /\ \A a \in Accounts : membership'[a] = MemberSaid(authority'["channel"], a)
<1> DEFINE strm == authority["channel"]
           Entry(q, a) == Said(q, a, {"add_member", "remove_member"})
           Grant(q, a) == Said(q, a, {"add_member", "set_permissions"})
           MemberType == [status : {"none", "active", "removed"}, perms : MemberPermissions]
<1>1. /\ strm \in Seq(EventType) /\ c.who \in Accounts
      /\ membership \in [Accounts -> MemberType]
      /\ \A a \in Accounts : membership[a] = MemberSaid(strm, a)
  BY DEF AccessInv, Streams, CommandType
<1>2. \A a : /\ Entry(Append(strm, e), a) = IF c.who = a /\ c.verb \in {"add_member", "remove_member"}
                                            THEN c ELSE Entry(strm, a)
             /\ Grant(Append(strm, e), a) = IF c.who = a /\ c.verb \in {"add_member", "set_permissions"}
                                            THEN c ELSE Grant(strm, a)
  BY <1>1, SaidMore
<1>3. \A q, a : MemberSaid(q, a) = IF Entry(q, a).verb = "none" THEN NotMember
                                   ELSE [status |-> IF Entry(q, a).verb = "add_member" THEN "active" ELSE "removed",
                                         perms |-> Grant(q, a).arg]
  BY DEF MemberSaid
<1>4. authority'["channel"] = Append(strm, e)
  OBVIOUS
<1> HIDE DEF strm, Entry, Grant
<1>5. ASSUME NEW a \in Accounts, a # c.who
      PROVE  membership'[a] = MemberSaid(authority'["channel"], a) /\ membership'[a] \in MemberType
  <2>1. membership'[a] = membership[a]
    BY <1>1, <1>5 DEF MembershipAfter
  <2>2. Entry(Append(strm, e), a) = Entry(strm, a) /\ Grant(Append(strm, e), a) = Grant(strm, a)
    BY <1>2, <1>5
  <2> QED
    BY <1>1, <1>3, <1>4, <2>1, <2>2
<1>6. membership'[c.who] = MemberSaid(authority'["channel"], c.who) /\ membership'[c.who] \in MemberType
  <2> DEFINE a == c.who
             old == membership[a]
  <2>1. /\ old \in MemberType /\ old = MemberSaid(strm, a) /\ a \in Accounts
        /\ \A m \in MemberType : [membership EXCEPT ![a] = m][a] = m
    BY <1>1
  <2>2. CASE c.verb = "add_member"
    <3> DEFINE new == [status |-> "active", perms |-> c.arg]
    <3>1. membership'[a] = new /\ new \in MemberType
      BY <1>1, <2>2 DEF MembershipAfter
    <3>2. Entry(Append(strm, e), a) = c /\ Grant(Append(strm, e), a) = c
      BY <1>2, <2>2
    <3>3. MemberSaid(Append(strm, e), a) = new
      BY <1>3, <2>2, <3>2
    <3> QED
      BY <1>4, <3>1, <3>3
  <2>3. ASSUME c.verb \in {"remove_member", "set_permissions"}
        PROVE  /\ Entry(strm, a).verb = "add_member" /\ old = [status |-> "active", perms |-> Grant(strm, a).arg]
               /\ Grant(strm, a).arg \in MemberPermissions
    <3>1. old.status = "active"
      BY <2>3
    <3>2. Entry(strm, a).verb = "add_member"
      BY <1>3, <2>1, <3>1 DEF NotMember
    <3>3. old = [status |-> "active", perms |-> Grant(strm, a).arg]
      BY <1>3, <2>1, <3>2
    <3>4. old.perms = Grant(strm, a).arg
      BY <3>3
    <3> QED
      BY <2>1, <3>2, <3>3, <3>4
  <2>4. CASE c.verb = "remove_member"
    <3> DEFINE new == [status |-> "removed", perms |-> Grant(strm, a).arg]
    <3>1. membership'[a] = new /\ new \in MemberType
      <4>1. membership'[a] = [membership[a] EXCEPT !.status = "removed"]
        BY <1>1, <2>4 DEF MembershipAfter
      <4> QED
        BY <2>3, <2>4, <4>1
    <3>2. Entry(Append(strm, e), a) = c /\ Grant(Append(strm, e), a) = Grant(strm, a)
      BY <1>2, <2>4
    <3>3. MemberSaid(Append(strm, e), a) = new
      BY <1>3, <2>4, <3>2
    <3> QED
      BY <1>4, <3>1, <3>3
  <2>5. CASE c.verb = "set_permissions"
    <3> DEFINE new == [status |-> "active", perms |-> c.arg]
    <3>1. membership'[a] = new /\ new \in MemberType
      <4>1. membership'[a] = [membership[a] EXCEPT !.perms = c.arg]
        BY <1>1, <2>5 DEF MembershipAfter
      <4> QED
        BY <2>3, <2>5, <4>1
    <3>2. Entry(Append(strm, e), a) = Entry(strm, a) /\ Grant(Append(strm, e), a) = c
      BY <1>2, <2>5
    <3>3. MemberSaid(Append(strm, e), a) = new
      BY <1>3, <2>3, <2>5, <3>2
    <3> QED
      BY <1>4, <3>1, <3>3
  <2>6. CASE c.verb \notin {"add_member", "remove_member", "set_permissions"}
    <3>1. membership' = membership
      BY <2>6 DEF MembershipAfter
    <3>2. Entry(Append(strm, e), a) = Entry(strm, a) /\ Grant(Append(strm, e), a) = Grant(strm, a)
      BY <1>2, <2>6
    <3>3. MemberSaid(Append(strm, e), a) = MemberSaid(strm, a)
      BY <1>3, <3>2
    <3> QED
      BY <1>4, <2>1, <3>1, <3>3
  <2> QED
    BY <2>2, <2>4, <2>5, <2>6
<1>7. DOMAIN membership' = Accounts
  BY <1>1 DEF MembershipAfter
<1>8. \A a \in Accounts : membership'[a] = MemberSaid(authority'["channel"], a) /\ membership'[a] \in MemberType
  BY <1>5, <1>6
<1>9. membership' = [a \in Accounts |-> membership'[a]]
  BY <1>1 DEF MembershipAfter
<1> QED
  BY <1>8, <1>9

\* A command of the channel, fresh or replayed.
LEMMA ChannelWritten ==
  ASSUME AccessInv, NEW d \in Desks, WriteAndCommit(d), RowsAllow(desk[d]), desk[d].cmd.verb \in ChannelVerbs
  PROVE  AccessInv'
<1> DEFINE t == desk[d]
           c == t.cmd
           e == EventBy(t)
<1>1. /\ submitted \in SubmittedSets /\ authority \in [Streams -> Seq(EventType)]
      /\ DeskGood(t, submitted, roleRow, authority, membership)
      /\ channelRow \in {"none", "active", "archived", "deleted"}
      /\ channelRow \in {"archived", "deleted"}
           <=> \E i \in DOMAIN authority["channel"] : authority["channel"][i].cmd.verb = "archive_channel"
  BY DEF AccessInv
<1>2. t.at # "idle"
  BY DEF WriteAndCommit
<1>3. /\ c \in submitted /\ c.verb \in AllVerbs /\ t.version \in Nat
      /\ c.verb \in {"remove_member", "set_permissions"} => membership[c.who].status = "active"
  BY <1>1, <1>2 DEF DeskGood
<1>4. /\ c \in CommandType
      /\ c.verb \in {"add_member", "set_permissions"} => c.arg \in MemberPermissions
  BY <1>1, <1>3, SubmittedIs
<1>6. c.verb \notin RoleVerbs /\ c.verb \notin AssignVerbs
  BY DEF RoleVerbs, AssignVerbs, ChannelVerbs, MemberVerbs
<1>5. e \in EventType /\ e.cmd = c /\ StreamOf(c) = "channel" /\ "channel" \in Streams
  BY <1>1, <1>3, <1>6, EventByIs DEF StreamOf, Streams
<1>7. /\ desk' = [desk EXCEPT ![d] = NoDeskTxn] /\ UNCHANGED <<openTask, submitted>>
      /\ authority' = IF t.replayed THEN authority ELSE [authority EXCEPT !["channel"] = Append(@, e)]
      /\ IF t.replayed THEN UNCHANGED <<roleRow, roleVersions, holds, lapsed, channelRow, membership>>
         ELSE UNCHANGED <<roleRow, roleVersions, holds, lapsed>>
              /\ channelRow' = ChannelAfter(c) /\ membership' = MembershipAfter(c)
  BY <1>5, <1>6 DEF WriteAndCommit, WritesRows, RoleRowAfter, VersionsAfter, HoldsAfter, AssignVerbs
<1>8. \A q \in RoleIds : authority'[q] = authority[q]
  BY <1>1, <1>7, AccessAssumption DEF Streams
<1>9. c.verb \in LockingVerbs \/ membership' = membership
  <2>1. CASE c.verb # "import_channel"
    BY <2>1 DEF LockingVerbs
  <2>2. CASE c.verb = "import_channel"
    BY <1>7, <2>2 DEF MembershipAfter
  <2> QED
    BY <2>1, <2>2
<1>10. /\ DOMAIN desk' = Desks /\ OneHolder(desk')
       /\ \A f \in Desks : DeskGood(desk'[f], submitted', roleRow', authority', membership')
  <2>1. submitted' = submitted /\ desk[d].at # "idle" /\ roleRow' = roleRow
    BY <1>2, <1>7
  <2>2. \A q \in RoleIds : \/ desk[d].cmd.verb \in RoleVerbs /\ q = desk[d].cmd.role
                           \/ roleRow'[q] = roleRow[q] /\ authority'[q] = authority[q]
    BY <1>8, <2>1
  <2> QED
    BY <1>7, <1>9, <2>1, <2>2, OthersKeep
<1>11. UNCHANGED <<roleRow, roleVersions, holds, lapsed, openTask, submitted>>
  BY <1>7
<1>12. CASE t.replayed
  <2>1. authority' = authority /\ channelRow' = channelRow /\ membership' = membership
    BY <1>7, <1>12
  <2> HIDE DEF e, c, t
  <2> QED
    BY <1>10, <1>11, <2>1 DEF AccessInv
<1>13. CASE ~t.replayed
  <2>1. /\ authority' = [authority EXCEPT !["channel"] = Append(@, e)]
        /\ channelRow' = ChannelAfter(c) /\ membership' = MembershipAfter(c)
    BY <1>7, <1>13
  <2>2. StreamGrown(authority, "channel", e, authority')
    BY <1>1, <1>5, <2>1, StreamGrows
  <2>3. /\ authority' \in [Streams -> Seq(EventType)]
        /\ \A o \in Streams : \A i \in DOMAIN authority'[o] :
             authority'[o][i].cmd.key # 0 => StreamOf(authority'[o][i].cmd) = o
    BY <1>5, <2>2, InItsStream
  <2>4. /\ membership' \in [Accounts -> [status : {"none", "active", "removed"}, perms : MemberPermissions]]
        /\ \A a \in Accounts : membership'[a] = MemberSaid(authority'["channel"], a)
    <3>1. authority'["channel"] = Append(authority["channel"], e)
      BY <2>2 DEF StreamGrown
    <3>2. /\ c \in CommandType /\ e \in EventType /\ e.cmd = c /\ c.verb \in ChannelVerbs
          /\ membership' = MembershipAfter(c)
      BY <1>4, <1>5, <2>1
    <3>3. c.verb \in {"remove_member", "set_permissions"} => membership[c.who].status = "active"
      BY <1>3
    <3>4. c.verb \in {"add_member", "set_permissions"} => c.arg \in MemberPermissions
      BY <1>4
    <3> HIDE DEF e, c, t
    <3> QED
      BY <3>1, <3>2, <3>3, <3>4, MembersSaidMore
  <2>5. /\ channelRow' \in {"none", "active", "archived", "deleted"}
        /\ channelRow' \in {"archived", "deleted"}
             <=> \E i \in DOMAIN authority'["channel"] : authority'["channel"][i].cmd.verb = "archive_channel"
    <3>1. (\E i \in DOMAIN authority'["channel"] : authority'["channel"][i].cmd.verb = "archive_channel")
            <=> \/ c.verb = "archive_channel"
                \/ \E i \in DOMAIN authority["channel"] : authority["channel"][i].cmd.verb = "archive_channel"
      BY <1>5, <2>2 DEF StreamGrown
    <3>2. CASE c.verb = "archive_channel"
      BY <2>1, <3>1, <3>2 DEF ChannelAfter
    <3>3. CASE c.verb = "import_channel"
      <4>1. channelRow = "none" /\ channelRow' = "active"
        BY <2>1, <3>3 DEF ChannelAfter, RowsAllow
      <4> QED
        BY <1>1, <3>1, <3>3, <4>1
    <3>4. CASE c.verb \notin {"archive_channel", "import_channel"}
      <4>1. channelRow' = channelRow
        BY <2>1, <3>4 DEF ChannelAfter
      <4> QED
        BY <1>1, <3>1, <3>4, <4>1
    <3> QED
      BY <3>2, <3>3, <3>4
  <2> HIDE DEF e, c, t
  <2> QED
    BY <1>8, <1>10, <1>11, <2>3, <2>4, <2>5 DEF AccessInv
<1> QED
  BY <1>12, <1>13

\* The end of a transaction.
LEMMA WriteKeeps ==
  ASSUME AccessInv, NEW d \in Desks, WriteAndCommit(d)
  PROVE  AccessInv'
<1>1. desk[d].cmd.verb \in AllVerbs
  BY DEF WriteAndCommit, AccessInv, DeskGood
<1>2. CASE ~RowsAllow(desk[d])
  <2>1. /\ desk' = [desk EXCEPT ![d] = NoDeskTxn]
        /\ UNCHANGED <<roleRow, roleVersions, holds, lapsed, channelRow, openTask, membership,
                       authority, submitted>>
    BY <1>2 DEF WriteAndCommit
  <2> QED
    BY <2>1, NoDeskGood, DeskMoves
<1> QED
  BY <1>1, <1>2, RoleWritten, AssignmentWritten, ChannelWritten DEF AllVerbs

\* The handlers, up to the Event.
LEMMA HandlersKeep ==
  ASSUME AccessInv, NEW d \in Desks, NEW c \in submitted,
         \/ CreateRole(d, c) \/ CommitRoleVersion(d, c) \/ AssignRole(d, c) \/ RevokeRole(d, c)
         \/ ImportChannel(d, c) \/ ConfigureChannel(d, c) \/ ArchiveChannel(d, c)
         \/ AddChannelMember(d, c) \/ RemoveChannelMember(d, c) \/ SetMemberPermissions(d, c)
         \/ SetChannelDocumentTemplate(d, c)
  PROVE  AccessInv'
<1> USE DEF RoleVerbs, AssignVerbs, ChannelVerbs, MemberVerbs, LockingVerbs, AllVerbs
<1>1. CASE CreateRole(d, c)
  <2>1. NotSeen(c, authority[c.role])
    <3>1. c.verb \in AllVerbs /\ submitted \in SubmittedSets
      BY <1>1 DEF CreateRole, AccessInv
    <3>2. c.role \in RoleIds
      BY <3>1, SubmittedIs DEF CommandType
    <3>3. Len(authority[c.role]) = 0 /\ authority[c.role] \in Seq(EventType)
      BY <1>1, <3>2 DEF CreateRole, AccessInv, RoleGood, Streams
    <3> QED
      BY <3>3 DEF NotSeen
  <2>2. Begin(d, c) /\ RoleRowFree(d, c.role) /\ c.verb = "create_role"
    BY <1>1 DEF CreateRole
  <2> QED
    BY <2>1, <2>2, BeginKeeps
<1>2. CASE CommitRoleVersion(d, c)
  <2>1. Begin(d, c) /\ RoleRowFree(d, c.role) /\ c.verb = "commit_role"
    BY <1>2 DEF CommitRoleVersion
  <2>2. NotSeen(c, authority[c.role])
    BY <1>2 DEF CommitRoleVersion, SeenInStream, StreamOf, NotSeen
  <2> QED
    BY <2>1, <2>2, BeginKeeps
<1>3. CASE AssignRole(d, c) \/ RevokeRole(d, c)
  <2>1. Begin(d, c) /\ c.verb \in AssignVerbs
    BY <1>3 DEF AssignRole, RevokeRole
  <2> QED
    BY <2>1, BeginKeeps
<1>4. CASE ImportChannel(d, c)
  <2>1. Begin(d, c) /\ c.verb = "import_channel"
    BY <1>4 DEF ImportChannel
  <2> QED
    BY <2>1, BeginKeeps
<1>5. CASE \/ ConfigureChannel(d, c) \/ ArchiveChannel(d, c) \/ AddChannelMember(d, c)
           \/ SetChannelDocumentTemplate(d, c)
  <2>1. Begin(d, c) /\ ChannelRowFree(d)
        /\ c.verb \in {"configure_channel", "archive_channel", "add_member", "set_template"}
    BY <1>5 DEF ConfigureChannel, ArchiveChannel, AddChannelMember, SetChannelDocumentTemplate, BeginOnChannel
  <2> QED
    BY <2>1, BeginKeeps
<1>6. CASE RemoveChannelMember(d, c) \/ SetMemberPermissions(d, c)
  <2>1. Begin(d, c) /\ ChannelRowFree(d) /\ c.verb \in {"remove_member", "set_permissions"}
        /\ membership[c.who].status = "active"
    BY <1>6 DEF RemoveChannelMember, SetMemberPermissions, BeginOnChannel
  <2> QED
    BY <2>1, BeginKeeps
<1> QED
  BY <1>1, <1>2, <1>3, <1>4, <1>5, <1>6

\* The first state.
LEMMA AccessInitGood == AccessInit => AccessInv
<1> SUFFICES ASSUME AccessInit PROVE AccessInv
  OBVIOUS
<1> DEFINE blank == [NoCommand EXCEPT !.verb = "create_role", !.arg = "grants"]
           first == EventAbout(blank, 1)
           given == EventAbout([blank EXCEPT !.verb = "assign_role", !.arg = "none"], 1)
           imported == EventAbout([blank EXCEPT !.verb = "import_channel", !.arg = "none"], 0)
<1>1. \A e \in {first, given, imported} : e \in EventType /\ e.cmd.key = 0
  <2> DEFINE Any == [verb : AllVerbs \cup {"none"}, role : RoleIds, who : Accounts,
                     arg : Policies \cup MemberPermissions \cup {"none"}, actor : Accounts,
                     key : AccessKeys \cup {0}]
  <2>1. NoCommand \in Any /\ NoCommand.key = 0
    BY AccessAssumption DEF NoCommand
  <2>2. \A m \in Any, v \in AllVerbs, x \in Policies \cup {"none"} : m.key = 0 =>
          /\ [m EXCEPT !.verb = v, !.arg = x] \in CommandType
          /\ [m EXCEPT !.verb = v, !.arg = x] \in Any
          /\ [m EXCEPT !.verb = v, !.arg = x].key = 0
    BY DEF CommandType
  <2>3. {"create_role", "assign_role", "import_channel"} \subseteq AllVerbs /\ "grants" \in Policies
    BY DEF AllVerbs, RoleVerbs, AssignVerbs, ChannelVerbs, MemberVerbs, Policies
  <2> HIDE DEF Any
  <2>4. blank \in Any /\ blank \in CommandType /\ blank.key = 0
    BY <2>1, <2>2, <2>3
  <2> HIDE DEF blank
  <2>5. /\ [blank EXCEPT !.verb = "assign_role", !.arg = "none"] \in CommandType
        /\ [blank EXCEPT !.verb = "assign_role", !.arg = "none"].key = 0
        /\ [blank EXCEPT !.verb = "import_channel", !.arg = "none"] \in CommandType
        /\ [blank EXCEPT !.verb = "import_channel", !.arg = "none"].key = 0
    BY <2>2, <2>3, <2>4
  <2>6. \A c \in CommandType, v \in Nat : EventAbout(c, v) \in EventType /\ EventAbout(c, v).cmd = c
    BY DEF EventAbout, EventType
  <2> DEFINE begun == [blank EXCEPT !.verb = "assign_role", !.arg = "none"]
             brought == [blank EXCEPT !.verb = "import_channel", !.arg = "none"]
  <2>7. first = EventAbout(blank, 1) /\ given = EventAbout(begun, 1) /\ imported = EventAbout(brought, 0)
    OBVIOUS
  <2> HIDE DEF begun, brought, first, given, imported
  <2>8. begun \in CommandType /\ begun.key = 0 /\ brought \in CommandType /\ brought.key = 0
    BY <2>5 DEF begun, brought
  <2>9. 1 \in Nat /\ 0 \in Nat
    OBVIOUS
  <2> QED
    BY <2>4, <2>6, <2>7, <2>8, <2>9
<1>2. /\ first.version = 1 /\ first.cmd.arg = "grants" /\ imported.cmd.verb = "import_channel"
  BY DEF EventAbout, NoCommand
<1>3. authority = [s \in Streams |->
                     CASE s = AdminRole -> <<first>>
                       [] s = Root      -> <<given>>
                       [] s = "channel" /\ channelRow = "active" -> <<imported>>
                       [] OTHER -> <<>>]
  BY DEF AccessInit, Streams
<1> HIDE DEF first, given, imported
<1>4. /\ Root \in Accounts /\ AdminRole \in RoleIds /\ Root # AdminRole
      /\ Root # "channel" /\ AdminRole # "channel" /\ Root \notin RoleIds /\ "channel" \notin RoleIds
  BY AccessAssumption
<1>5. /\ authority[AdminRole] = <<first>>
      /\ \A r \in RoleIds \ {AdminRole} : authority[r] = <<>>
      /\ authority["channel"] = IF channelRow = "active" THEN <<imported>> ELSE <<>>
  BY <1>3, <1>4 DEF Streams
<1>6. \A e \in {first, given, imported} : <<e>> \in Seq(EventType)
  BY <1>1
<1>7. /\ authority \in [Streams -> Seq(EventType)]
      /\ \A s \in Streams : authority[s] = <<>> \/ \E e \in {first, given, imported} : authority[s] = <<e>>
  BY <1>3, <1>6
<1>8. \A s \in Streams : \A i \in DOMAIN authority[s] : authority[s][i].cmd.key = 0
  BY <1>1, <1>7
<1>9. \A r \in RoleIds : RoleGood(r, roleRow[r], roleVersions[r], authority[r])
  <2>1. ASSUME NEW r \in RoleIds, r # AdminRole PROVE RoleGood(r, roleRow[r], roleVersions[r], authority[r])
    <3>1. roleRow[r] = 0 /\ roleVersions[r] = <<>> /\ authority[r] = <<>>
      BY <1>5, <2>1 DEF AccessInit
    <3> QED
      BY <3>1 DEF RoleGood
  <2>2. RoleGood(AdminRole, roleRow[AdminRole], roleVersions[AdminRole], authority[AdminRole])
    <3>1. roleRow[AdminRole] = 1 /\ roleVersions[AdminRole] = <<"grants">>
          /\ authority[AdminRole] = <<first>>
      BY <1>4, <1>5 DEF AccessInit
    <3> QED
      BY <1>2, <3>1 DEF RoleGood, Policies
  <2> QED
    BY <2>1, <2>2
<1>10. channelRow \in {"none", "active"}
       /\ \A i \in DOMAIN authority["channel"] : authority["channel"][i].cmd.verb = "import_channel"
  BY <1>2, <1>5 DEF AccessInit
<1>11. \A a \in Accounts : membership[a] = MemberSaid(authority["channel"], a)
  <2> TAKE a \in Accounts
  <2>1. About(authority["channel"], a, {"add_member", "remove_member"}) = {}
    BY <1>10 DEF About
  <2>2. Said(authority["channel"], a, {"add_member", "remove_member"}).verb = "none"
    BY <2>1 DEF Said, NoCommand
  <2> QED
    BY <2>2 DEF MemberSaid, AccessInit
<1>12. \A a \in Accounts : membership[a] \in [status : {"none", "active", "removed"}, perms : MemberPermissions]
  BY DEF AccessInit, NotMember, MemberPermissions
<1>13. /\ DOMAIN desk = Desks /\ OneHolder(desk) /\ submitted \in SubmittedSets
       /\ \A d \in Desks : DeskGood(desk[d], submitted, roleRow, authority, membership)
  <2>1. DOMAIN desk = Desks /\ \A d \in Desks : desk[d] = NoDeskTxn
    BY DEF AccessInit
  <2>2. OneHolder(desk)
    BY <2>1, NoDeskGood DEF OneHolder
  <2> QED
    BY <2>1, <2>2, NoDeskGood DEF AccessInit
<1>14. /\ roleRow \in [RoleIds -> Nat] /\ DOMAIN roleVersions = RoleIds
       /\ holds \in [Accounts -> [RoleIds -> Nat]] /\ lapsed \subseteq Accounts \X RoleIds
       /\ openTask \in BOOLEAN
  BY DEF AccessInit
<1>15. membership \in [Accounts -> [status : {"none", "active", "removed"}, perms : MemberPermissions]]
  BY <1>12 DEF AccessInit
<1> QED
  BY <1>7, <1>8, <1>9, <1>10, <1>11, <1>13, <1>14, <1>15 DEF AccessInv

\* Every step.
LEMMA AccessStep == AccessInv /\ [AccessNext]_accessVars => AccessInv'
<1> SUFFICES ASSUME AccessInv, [AccessNext]_accessVars PROVE AccessInv'
  OBVIOUS
<1>1. ASSUME NEW d \in Desks, RollBack(d) PROVE AccessInv'
  BY <1>1, NoDeskGood, DeskMoves DEF RollBack
<1>2. ASSUME NEW d \in Desks, NEW a \in Accounts, DeleteChannel(d, a) PROVE AccessInv'
  <2>1. /\ channelRow = "archived" /\ channelRow' = "deleted"
        /\ UNCHANGED <<roleRow, roleVersions, holds, lapsed, openTask, membership, authority, submitted, desk>>
    BY <1>2 DEF DeleteChannel
  <2> QED
    BY <2>1 DEF AccessInv
<1>3. ASSUME NEW a \in Accounts, NEW r \in RoleIds, Lapse(a, r) PROVE AccessInv'
  BY <1>3 DEF Lapse, AccessInv
<1>4. CASE TaskOpensOrEnds
  <2>1. openTask' \in BOOLEAN
    BY <1>4 DEF TaskOpensOrEnds
  <2> QED
    BY <1>4, <2>1 DEF TaskOpensOrEnds, AccessInv
<1>5. CASE UNCHANGED accessVars
  BY <1>5 DEF accessVars, AccessInv
<1> QED
  BY <1>1, <1>2, <1>3, <1>4, <1>5, HandlersKeep, AppendKeeps, WriteKeeps DEF AccessNext

\* The invariant says what the Events say.
LEMMA AccessInvGood == AccessInv => AccessTypeOK /\ PolicyFollowsEvents
<1> SUFFICES ASSUME AccessInv PROVE AccessTypeOK /\ PolicyFollowsEvents
  OBVIOUS
<1>1. \A r \in RoleIds : RoleGood(r, roleRow[r], roleVersions[r], authority[r])
  BY DEF AccessInv
<1>2. \A a \in Accounts : MemberByEvents(a) = MemberSaid(authority["channel"], a)
  BY DEF MemberByEvents, LastAbout, MemberSaid, Said, About, Last
<1>3. PolicyFollowsEvents
  <2>1. \A r \in RoleIds :
          /\ Len(authority[r]) = roleRow[r]
          /\ \A i \in DOMAIN authority[r] :
               authority[r][i].version = i /\ authority[r][i].cmd.arg = roleVersions[r][i]
    BY <1>1 DEF RoleGood
  <2> QED
    BY <1>2, <2>1 DEF AccessInv, PolicyFollowsEvents
<1>4. AccessTypeOK
  <2>1. \A r \in RoleIds : roleRow[r] = Len(roleVersions[r])
                           /\ \A i \in DOMAIN roleVersions[r] : roleVersions[r][i] \in Policies
    BY <1>1 DEF RoleGood
  <2>2. \A c \in submitted : c \in CommandsOf(c.verb)
    BY SubmittedAssumption DEF AccessInv
  <2>3. \A d \in Desks : desk[d].at \in {"idle", "begun", "appended"} /\ desk[d].replayed \in BOOLEAN
    <3> TAKE d \in Desks
    <3>1. desk[d] \in DeskType
      BY DEF AccessInv, DeskGood
    <3> QED
      BY <3>1 DEF DeskType
  <2> QED
    BY <2>1, <2>2, <2>3 DEF AccessInv, AccessTypeOK
<1> QED
  BY <1>3, <1>4

\* The authority rows follow the Events: the versions of every role, the
\* archived channel and every membership are what the streams say, through
\* replayed and interleaved commands.
THEOREM AccessFollowsEvents == AccessSpec => [](AccessTypeOK /\ PolicyFollowsEvents)
<1>1. AccessInit => AccessInv
  BY AccessInitGood
<1>2. AccessInv /\ [AccessNext]_accessVars => AccessInv'
  BY AccessStep
<1>3. AccessInv => AccessTypeOK /\ PolicyFollowsEvents
  BY AccessInvGood
<1> QED
  BY <1>1, <1>2, <1>3, PTL DEF AccessSpec

-----------------------------------------------------------------------------
(***************************************************************************)
(* The work inbox, for any number of items, any redelivery limit and any   *)
(* number of crashes.                                                      *)
(***************************************************************************)
\* What the sweep decided on an unlocked read is still worth when it gets the
\* lock: a row it wants to redeliver or give up was delivered before and has
\* not been handed out since, because only the sweep itself puts rows back in
\* the queue.
SweepInv ==
  \A i \in Items :
    /\ decision[i] = "REDELIVER" =>
         status[i] \notin {"ABSENT", "QUEUED"} /\ count[i] <= MaxRedeliveries
    /\ decision[i] = "ACK_TIMEOUT" =>
         status[i] \notin {"ABSENT", "QUEUED"}
         /\ count[i] = MaxRedeliveries + 1
    /\ write[i] = "requeue" =>
         status[i] = "DELIVERED" /\ count[i] <= MaxRedeliveries
    /\ write[i] = "expire_ack" => count[i] = MaxRedeliveries + 1
    /\ write[i] # "none" => status[i] \in Open /\ decision[i] = "NONE"

\* A row that waits for a delivery has one left.
CountInv ==
  \A i \in Items :
    /\ status[i] = "ABSENT" => count[i] = 0
    /\ status[i] = "QUEUED" => count[i] <= MaxRedeliveries

\* Between sweeps nothing is decided or locked.
IdleInv ==
  sweeper = "idle" => \A i \in Items : decision[i] = "NONE" /\ write[i] = "none"

InboxInv ==
  /\ EndsOnce
  /\ DeliveriesBounded
  /\ AckNeverLost
  /\ SweepInv
  /\ CountInv
  /\ IdleInv

-----------------------------------------------------------------------------
\* Every reachable state of the inbox is type correct.
THEOREM InboxTypeOK == Spec => []TypeOK
<1>1. Init => TypeOK
  BY InboxAssumption
  DEF Init, TypeOK, NoDecision, NoWrite, EventTypes, Endings, Open, Terminal
<1>2. TypeOK /\ [Next]_vars => TypeOK'
  <2> SUFFICES ASSUME TypeOK, [Next]_vars
               PROVE  TypeOK'
    OBVIOUS
  <2> USE DEF TypeOK, EventTypes, Endings, Open, Terminal
  <2>1. CASE \E i \in Items : Operation(i)
    <3> PICK i \in Items : Operation(i)
      BY <2>1
    <3>1. CASE Enqueue(i)
      BY <3>1 DEF Enqueue, Record, sweepVars
    <3>2. CASE Ack(i)
      BY <3>2 DEF Ack, Record, sweepVars
    <3>3. CASE Start(i)
      BY <3>3 DEF Start, Record, sweepVars
    <3>4. CASE Reject(i)
      BY <3>4 DEF Reject, Record, sweepVars
    <3>5. CASE Cancel(i)
      BY <3>5 DEF Cancel, Record, sweepVars
    <3>6. CASE DuplicateResult(i)
      BY <3>6 DEF DuplicateResult, sweepVars
    <3>7. CASE AcceptResult(i)
      BY <3>7 DEF AcceptResult, Record, sweepVars
    <3> QED
      BY <3>1, <3>2, <3>3, <3>4, <3>5, <3>6, <3>7 DEF Operation
  <2>2. CASE \E i \in Items : TimerRunsOut(i) \/ DeadlinePasses(i)
    BY <2>2 DEF TimerRunsOut, DeadlinePasses, sweepVars
  <2>3. CASE \E S \in SUBSET Items : Poll(S)
    BY <2>3 DEF Poll, sweepVars
  <2>4. CASE SweepBegin
    BY <2>4 DEF SweepBegin, NextAction
  <2>5. CASE \E i \in Items : SweepItem(i) \/ SweepReroute(i)
    BY <2>5 DEF SweepItem, SweepReroute, Change, Decided
  <2>6. CASE SweepAbort \/ SweepCrash
    BY <2>6 DEF SweepAbort, SweepCrash, EndSweep, NoDecision, NoWrite
  <2>7. CASE SweepCommit
    BY <2>7
    DEF SweepCommit, EndSweep, NoDecision, NoWrite, StatusAfter, EventsOf
  <2>8. CASE UNCHANGED vars
    BY <2>8 DEF vars
  <2> QED
    BY <2>1, <2>2, <2>3, <2>4, <2>5, <2>6, <2>7, <2>8 DEF Next
<1> QED
  BY <1>1, <1>2, PTL DEF Spec

-----------------------------------------------------------------------------
\* An operation on one row, which the open sweep has not locked, keeps the
\* invariant: the endings, the counters and what the sweep has decided.
LEMMA OperationKeeps ==
  ASSUME TypeOK, InboxInv, NEW i \in Items, Operation(i)
  PROVE  InboxInv'
<1> USE DEF TypeOK, InboxInv, EndsOnce, DeliveriesBounded, AckNeverLost,
            SweepInv, CountInv, IdleInv, Open, Terminal, Endings, EventTypes, EndedAs
<1>1. CASE Enqueue(i)
  BY <1>1, InboxAssumption DEF Enqueue, Record, sweepVars
<1>2. CASE Ack(i)
  BY <1>2 DEF Ack, Record, sweepVars, Sources, Unlocked
<1>3. CASE Start(i)
  BY <1>3 DEF Start, Record, sweepVars, Sources, Unlocked
<1>4. CASE Reject(i)
  BY <1>4 DEF Reject, Record, sweepVars, Sources, Unlocked
<1>5. CASE Cancel(i)
  BY <1>5 DEF Cancel, Record, sweepVars, Sources, Unlocked
<1>6. CASE DuplicateResult(i)
  BY <1>6 DEF DuplicateResult, sweepVars
<1>7. CASE AcceptResult(i)
  BY <1>7 DEF AcceptResult, Record, sweepVars, Sources, Unlocked, IsDuplicate
<1> QED
  BY <1>1, <1>2, <1>3, <1>4, <1>5, <1>6, <1>7 DEF Operation

\* A step of time, of an Agent's poll or of the sweep keeps the invariant.
LEMMA SweepKeeps ==
  ASSUME TypeOK, InboxInv,
         \/ \E i \in Items : TimerRunsOut(i) \/ DeadlinePasses(i)
         \/ \E S \in SUBSET Items : Poll(S)
         \/ SweepBegin
         \/ \E i \in Items : SweepItem(i) \/ SweepReroute(i)
         \/ SweepAbort \/ SweepCrash \/ SweepCommit
  PROVE  InboxInv'
<1> USE DEF TypeOK, InboxInv, EndsOnce, DeliveriesBounded, AckNeverLost,
            SweepInv, CountInv, IdleInv, Open, Terminal, Endings, EventTypes, EndedAs
<1>1. CASE \E i \in Items : TimerRunsOut(i) \/ DeadlinePasses(i)
  BY <1>1 DEF TimerRunsOut, DeadlinePasses, sweepVars
<1>2. CASE \E S \in SUBSET Items : Poll(S)
  BY <1>2, InboxAssumption DEF Poll, sweepVars, Unlocked
<1>3. CASE SweepBegin
  <2>1. \A i \in Items :
          /\ NextAction(i) = "REDELIVER" =>
               status[i] = "DELIVERED" /\ count[i] <= MaxRedeliveries
          /\ NextAction(i) = "ACK_TIMEOUT" =>
               status[i] = "DELIVERED" /\ ~(count[i] <= MaxRedeliveries)
    BY DEF NextAction
  <2>2. \A i \in Items : write[i] = "none"
    BY <1>3 DEF SweepBegin
  <2> QED
    BY <1>3, <2>1, <2>2, InboxAssumption DEF SweepBegin
<1>4. CASE \E i \in Items : SweepItem(i)
  BY <1>4 DEF SweepItem, Change, Decided, StillAllowed, Sources
<1>5. CASE \E i \in Items : SweepReroute(i)
  BY <1>5 DEF SweepReroute, Decided, Sources
<1>6. CASE SweepAbort \/ SweepCrash
  BY <1>6 DEF SweepAbort, SweepCrash, EndSweep, NoDecision, NoWrite
<1>7. CASE SweepCommit
  <2>1. SweepInv' /\ CountInv' /\ IdleInv'
    BY <1>7 DEF SweepCommit, EndSweep, NoDecision, NoWrite, StatusAfter
  <2>2. DeliveriesBounded' /\ AckNeverLost'
    BY <1>7
    DEF SweepCommit, EndSweep, NoDecision, NoWrite, StatusAfter, EventsOf
  <2>3. EndsOnce'
    BY <1>7
    DEF SweepCommit, EndSweep, NoDecision, NoWrite, StatusAfter, EventsOf
  <2> QED
    BY <2>1, <2>2, <2>3
<1> QED
  BY <1>1, <1>2, <1>3, <1>4, <1>5, <1>6, <1>7

\* The inductive invariant holds in every reachable state.
THEOREM InboxSafe == Spec => []InboxInv
<1>1. Init => InboxInv
  BY InboxAssumption
  DEF Init, InboxInv, EndsOnce, DeliveriesBounded, AckNeverLost, SweepInv,
      CountInv, IdleInv, Open, Terminal, Endings, NoDecision, NoWrite
<1>2. TypeOK /\ InboxInv /\ [Next]_vars => InboxInv'
  <2> SUFFICES ASSUME TypeOK, InboxInv, [Next]_vars
               PROVE  InboxInv'
    OBVIOUS
  <2>1. CASE \E i \in Items : Operation(i)
    BY <2>1, OperationKeeps
  <2>2. CASE UNCHANGED vars
    BY <2>2
    DEF vars, InboxInv, EndsOnce, DeliveriesBounded, AckNeverLost, SweepInv,
        CountInv, IdleInv
  <2> QED
    BY <2>1, <2>2, SweepKeeps DEF Next
<1> QED
  BY <1>1, <1>2, InboxTypeOK, PTL DEF Spec

\* Every item ends at most once, in the row, in its Events and in its
\* receipts, whatever the Agents do between the sweep's read and its writes.
THEOREM InboxEndsOnce == Spec => []EndsOnce
<1>1. InboxInv => EndsOnce
  BY DEF InboxInv
<1> QED
  BY <1>1, InboxSafe, PTL

\* No item is delivered more than MaxRedeliveries + 1 times, and none is given
\* up for want of an acknowledgement before.
THEOREM InboxDeliveriesBounded == Spec => []DeliveriesBounded
<1>1. InboxInv => DeliveriesBounded
  BY DEF InboxInv
<1> QED
  BY <1>1, InboxSafe, PTL

\* An acknowledged item never returns to the queue.
THEOREM InboxAckNeverLost == Spec => []AckNeverLost
<1>1. InboxInv => AckNeverLost
  BY DEF InboxInv
<1> QED
  BY <1>1, InboxSafe, PTL

=============================================================================
