------------------------------- MODULE Secrets -------------------------------
(***************************************************************************)
(* The secret broker (server/secrets) and the sidecar that injects values  *)
(* next to an Agent (sidecar/agent_colab_sidecar).  A grant lets an Agent  *)
(* ask for leases; a lease's handle is resolved to the value, once if the  *)
(* lease is single-use; revocation of a lease, a grant, a Task, the Agent  *)
(* or the secret (rotation) ends them.  Broker commands are READ COMMITTED *)
(* transactions: issue_lease reads the grant without a lock, resolve locks *)
(* the lease row and reads the grant without a lock, revoke updates leases *)
(* before grants and draws its feed number before it commits.  Cryptography*)
(* is left out: a value is known by its lease.  LLM exposure and scope     *)
(* mismatches only refuse.                                                 *)
(***************************************************************************)
EXTENDS Integers, Sequences, FiniteSets

CONSTANTS
  Broker,       \* broker transactions in flight
  SecretGrants, \* grant ids
  Leases,       \* lease ids
  SecretTasks,  \* Tasks that leases and grants may be bound to
  LeaseExpiry,  \* when leases expire
  MaxRevokes,   \* bound of the revocations
  MaxResolves,  \* bound of the resolves of a lease
  NoTask        \* a grant or lease that is not bound to a Task

ASSUME SecretsAssumption ==
  /\ LeaseExpiry \in Nat /\ {MaxRevokes, MaxResolves} \subseteq Nat
  /\ NoTask \notin SecretTasks /\ "none" \notin Leases

VARIABLES
  sgrant,     \* secret_grants: state, task, single
  lease,      \* secret_leases: state, grant, task, single, uses
  rowLock,    \* leases whose row a transaction holds
  broker,     \* the transaction of each member of Broker
  feed,       \* secret_revocations that are committed: seq -> lease ids
  feedSeq,    \* the last seq drawn
  live,       \* LIVE: leases registered in the server process
  held,       \* InMemoryHandleStore: leases whose value the process holds
  given,      \* history: values handed out per lease
  acked,      \* leases whose cleanup is acknowledged
  side,       \* the sidecar session
  clock

secretsVars == <<sgrant, lease, rowLock, broker, feed, feedSeq, live, held,
                 given, acked, side, clock>>

NoGrant == [state |-> "ABSENT", task |-> NoTask, single |-> FALSE]
NoLease == [state |-> "ABSENT", grant |-> "none", task |-> NoTask,
            single |-> FALSE, uses |-> 0]
NoBrokerTxn == [op |-> "idle", lease |-> "none", grant |-> "none", task |-> NoTask,
          id |-> "none", leases |-> {}, grants |-> {}, seq |-> 0, dark |-> FALSE]
NoSession == [phase |-> "off", lease |-> "none", key |-> "none", seq |-> 0]

SecretsInit ==
  /\ sgrant = [g \in SecretGrants |-> NoGrant]
  /\ lease = [l \in Leases |-> NoLease]
  /\ rowLock = {} /\ broker = [c \in Broker |-> NoBrokerTxn]
  /\ feed = <<>> /\ feedSeq = 0
  /\ live = {} /\ held = {} /\ given = [l \in Leases |-> 0] /\ acked = {}
  /\ side = NoSession /\ clock = 0

BeginBroker(c, t) == broker[c].op = "idle" /\ broker' = [broker EXCEPT ![c] = t]
EndBroker(c) == broker' = [broker EXCEPT ![c] = NoBrokerTxn]

-----------------------------------------------------------------------------
\* create_grant
CreateGrant(g, task, single) ==
  /\ sgrant[g] = NoGrant
  /\ sgrant' = [sgrant EXCEPT ![g] = [state |-> "live", task |-> task, single |-> single]]
  /\ UNCHANGED <<lease, rowLock, broker, feed, feedSeq, live, held, given, acked, side, clock>>

\* GrantRow.matches: a grant bound to a Task serves only that Task.
Matches(g, task) == sgrant[g].task \in {NoTask, task}

\* issue_lease's read of a matching live grant.
ReadGrant(c, g, task) ==
  /\ sgrant[g].state = "live" /\ Matches(g, task) /\ clock < LeaseExpiry
  /\ BeginBroker(c, [NoBrokerTxn EXCEPT !.op = "issue", !.grant = g, !.task = task])
  /\ UNCHANGED <<sgrant, lease, rowLock, feed, feedSeq, live, held, given, acked, side, clock>>

\* The rest of issue_lease: the lease row, the handle in LIVE, commit.
IssueLease(c, l) ==
  /\ broker[c].op = "issue" /\ lease[l] = NoLease
  /\ lease' = [lease EXCEPT ![l] = [state |-> "live", grant |-> broker[c].grant,
                 task |-> broker[c].task, single |-> sgrant[broker[c].grant].single, uses |-> 0]]
  /\ live' = live \cup {l}
  /\ EndBroker(c)
  /\ UNCHANGED <<sgrant, rowLock, feed, feedSeq, held, given, acked, side, clock>>

\* Mutant of RowFree: resolve does not lock the lease row.
RowNeverLocked(l) == TRUE

RowFree(l) == l \notin rowLock

\* A lease that no resolve may serve any more, whoever revoked it.
Dark(l) == lease[l].state = "revoked" \/ sgrant[lease[l].grant].state = "revoked"

\* resolve up to the UPDATE: the lease row is locked and checked, then its
\* grant; a handle used once leaves LIVE, another one is registered on its
\* first use.  The caller is told the lease id that LIVE still knows.
ResolveLease(c, l, via) ==
  LET known == IF lease[l].single THEN live \ {l}
               ELSE IF lease[l].uses = 0 THEN live \cup {l} ELSE live
  IN  /\ lease[l].state = "live" /\ sgrant[lease[l].grant].state = "live"
      /\ clock < LeaseExpiry /\ RowFree(l) /\ lease[l].uses < MaxResolves
      /\ lease[l].single => lease[l].uses = 0
      /\ via = "resolve-side" => side = NoSession
      /\ rowLock' = rowLock \cup {l}
      /\ live' = known
      /\ BeginBroker(c, [NoBrokerTxn EXCEPT !.op = via, !.lease = l,
                     !.id = IF l \in known THEN l ELSE "lease", !.dark = Dark(l)])
      /\ side' = IF via = "resolve-side" THEN [side EXCEPT !.phase = "asked"] ELSE side
      /\ UNCHANGED <<sgrant, lease, feed, feedSeq, held, given, acked, clock>>

\* resolve's commit: use_count, SECRET_ACCESSED, and the value is handed to
\* the adapter in this process or answered to the sidecar.
HandOut(c) ==
  LET l == broker[c].lease IN
  /\ broker[c].op \in {"resolve-side", "resolve-inject"}
  /\ lease' = [lease EXCEPT ![l].uses = @ + 1]
  /\ given' = [given EXCEPT ![l] = @ + 1]
  /\ rowLock' = rowLock \ {l}
  /\ IF broker[c].op = "resolve-side"
     THEN /\ EndBroker(c)
          /\ side' = [side EXCEPT !.phase = "answered", !.lease = l, !.key = broker[c].id]
     ELSE /\ broker' = [broker EXCEPT ![c].op = "store"]
          /\ UNCHANGED side
  /\ UNCHANGED <<sgrant, feed, feedSeq, live, held, acked, clock>>

\* InMemoryHandleStore.resolve after its transaction.
StoreValue(c) ==
  /\ broker[c].op = "store" /\ held' = held \cup {broker[c].lease}
  /\ EndBroker(c)
  /\ UNCHANGED <<sgrant, lease, rowLock, feed, feedSeq, live, given, acked, side, clock>>

-----------------------------------------------------------------------------
\* What each kind of revocation reaches.
LeasesOf(kind, x) ==
  {l \in Leases : /\ lease[l].state = "live"
                  /\ CASE kind = "lease" -> l = x
                       [] kind = "grant" -> lease[l].grant = x
                       [] kind = "task" -> lease[l].task = x
                       [] OTHER -> TRUE}
GrantsOf(kind, x) ==
  {g \in SecretGrants : /\ sgrant[g].state = "live"
                        /\ CASE kind = "lease" -> FALSE
                             [] kind = "grant" -> g = x
                             [] kind = "task" -> sgrant[g].task = x
                             [] OTHER -> TRUE}

\* LiveHandles.revoke: the handles leave the registry and the listeners
\* (InMemoryHandleStore) wipe their values.
LiveRevoke(ls) == live' = live \ ls /\ held' = held \ ls

\* revoke: both UPDATEs (each waits for rows that others hold), the feed row
\* with its seq, and LIVE.revoke, whose listeners wipe held values.
RevokeRows(c, kind, x) ==
  LET ls == LeasesOf(kind, x)
      gs == GrantsOf(kind, x)
  IN  /\ ls # {} \/ gs # {}
      /\ feedSeq < MaxRevokes
      /\ ls \cap rowLock = {} /\ \A d \in Broker : broker[d].grants \cap gs = {}
      /\ BeginBroker(c, [NoBrokerTxn EXCEPT !.op = "revoke", !.leases = ls, !.grants = gs, !.seq = feedSeq + 1])
      /\ rowLock' = rowLock \cup ls
      /\ feedSeq' = feedSeq + 1
      /\ LiveRevoke(ls)
      /\ UNCHANGED <<sgrant, lease, feed, given, acked, side, clock>>

\* RevokeSecretGrant: a lease or a grant; the Task's end; a rotation.
RevokeSecretGrant(c) ==
  \/ \E l \in Leases : RevokeRows(c, "lease", l)
  \/ \E g \in SecretGrants : RevokeRows(c, "grant", g)
RevokeForTask(c) == \E t \in SecretTasks : RevokeRows(c, "task", t)
RotateSecret(c) == RevokeRows(c, "secret", "all")

CommitRevoke(c) ==
  LET t == broker[c] IN
  /\ t.op = "revoke"
  /\ lease' = [l \in Leases |-> IF l \in t.leases
                THEN [lease[l] EXCEPT !.state = "revoked"] ELSE lease[l]]
  /\ sgrant' = [g \in SecretGrants |-> IF g \in t.grants
                THEN [sgrant[g] EXCEPT !.state = "revoked"] ELSE sgrant[g]]
  /\ feed' = Append(feed, [seq |-> t.seq, leases |-> t.leases])
  /\ rowLock' = rowLock \ t.leases
  /\ EndBroker(c)
  /\ UNCHANGED <<feedSeq, live, held, given, acked, side, clock>>

\* Rollback of any broker transaction.
AbortBroker(c) ==
  /\ broker[c].op \in {"issue", "revoke", "resolve-side", "resolve-inject"}
  /\ rowLock' = rowLock \ (broker[c].leases \cup {broker[c].lease})
  /\ side' = IF broker[c].op = "resolve-side" THEN [side EXCEPT !.phase = "ended"] ELSE side
  /\ EndBroker(c)
  /\ UNCHANGED <<sgrant, lease, feed, feedSeq, live, held, given, acked, clock>>

-----------------------------------------------------------------------------
\* run_session after the answer: the value is stored under the lease id of
\* the answer, injected, and the watcher started.
StartSession ==
  /\ side.phase = "answered" /\ side' = [side EXCEPT !.phase = "watching"]
  /\ UNCHANGED <<sgrant, lease, rowLock, broker, feed, feedSeq, live, held, given, acked, clock>>

\* revocations_since: the committed feed rows behind the watcher's cursor.
Behind(n) == {i \in 1..Len(feed) : feed[i].seq > n}

\* ack_cleanup records that the sidecar wiped its value of a revoked lease.
AckCleanup(hit) == acked' = IF hit THEN acked \cup {side.lease} ELSE acked

\* The watcher: wipes and acknowledges what the feed names, then moves its
\* cursor to the last row it read.
Watch ==
  LET new == {feed[i] : i \in Behind(side.seq)}
      hit == \E r \in new : side.key \in r.leases
      top == CHOOSE r \in new : \A q \in new : q.seq <= r.seq
  IN  /\ side.phase = "watching" /\ new # {}
      /\ side' = [side EXCEPT !.seq = top.seq, !.phase = IF hit THEN "ended" ELSE @]
      /\ AckCleanup(hit)
      /\ UNCHANGED <<sgrant, lease, rowLock, broker, feed, feedSeq, live, held, given, clock>>

\* The value expires in the sidecar, is served, or its child ends.
EndSession ==
  /\ side.phase = "watching" /\ side' = [side EXCEPT !.phase = "ended"]
  /\ UNCHANGED <<sgrant, lease, rowLock, broker, feed, feedSeq, live, held, given, acked, clock>>

\* A restart of the server forgets LIVE and the held values.
RestartServer ==
  /\ \A c \in Broker : broker[c].op = "idle"
  /\ live \cup held # {} /\ live' = {} /\ held' = {}
  /\ UNCHANGED <<sgrant, lease, rowLock, broker, feed, feedSeq, given, acked, side, clock>>

SecretTick ==
  /\ clock < LeaseExpiry /\ clock' = clock + 1
  /\ UNCHANGED <<sgrant, lease, rowLock, broker, feed, feedSeq, live, held, given, acked, side>>

-----------------------------------------------------------------------------
(* The commands that start a broker transaction.                           *)

IssueSecretLease(c) ==
  \E g \in SecretGrants, t \in SecretTasks \cup {NoTask} : ReadGrant(c, g, t)
ResolveSecret(c, l) == ResolveLease(c, l, "resolve-side")
ResolveInProcess(c, l) == ResolveLease(c, l, "resolve-inject")
CreateSecretGrant ==
  \E g \in SecretGrants, t \in SecretTasks \cup {NoTask}, b \in BOOLEAN : CreateGrant(g, t, b)

SecretsNext ==
  \/ CreateSecretGrant
  \/ \E c \in Broker :
       \/ IssueSecretLease(c)
       \/ \E l \in Leases : IssueLease(c, l) \/ ResolveSecret(c, l) \/ ResolveInProcess(c, l)
       \/ HandOut(c) \/ StoreValue(c)
       \/ RevokeSecretGrant(c) \/ RevokeForTask(c) \/ RotateSecret(c)
       \/ CommitRevoke(c) \/ AbortBroker(c)
  \/ StartSession \/ Watch \/ EndSession
  \/ RestartServer \/ SecretTick

SecretsSpec == SecretsInit /\ [][SecretsNext]_secretsVars

-----------------------------------------------------------------------------
SecretsTypeOK ==
  /\ sgrant \in [SecretGrants -> [state : {"ABSENT", "live", "revoked"},
                                  task : SecretTasks \cup {NoTask}, single : BOOLEAN]]
  /\ \A l \in Leases : lease[l].state \in {"ABSENT", "live", "revoked"} /\ lease[l].uses \in Nat
  /\ rowLock \cup live \cup held \cup acked \subseteq Leases
  /\ feedSeq \in 0..MaxRevokes /\ Len(feed) <= feedSeq
  /\ side.phase \in {"off", "asked", "answered", "watching", "ended"}

\* A single-use handle yields its value once however many callers resolve it
\* at once, every value handed out is counted, and no value is handed out by
\* a transaction that locked the lease after a revocation of the lease or of
\* its grant had committed - also not through a lease that was being issued
\* while its grant was revoked and that the revocation therefore missed
\* (broker.issue_lease, resolve, revoke).
HandleYieldsOnce ==
  /\ \A l \in Leases : /\ lease[l].single => given[l] <= 1
                       /\ given[l] = lease[l].uses
  /\ \A c \in Broker : ~broker[c].dark
==============================================================================
