------------------------------ MODULE HardDelete ------------------------------
(***************************************************************************)
(* Hard delete, retention and the key-tombstone ledger                     *)
(* (server/application/hard_delete.py, server/channels/retention.py,       *)
(* server/secrets/ledger.py, tools/backup.py, tools/restore.py).  A        *)
(* request is approved twice, waits, and is executed: the data key of its  *)
(* target is shredded and a tombstone is chained to the ledger.  Backups   *)
(* carry keys that were alive when they were taken; the ledger is exported *)
(* on its own and applied again after a restore.  Every target has one key.*)
(***************************************************************************)
EXTENDS Integers, Sequences, FiniteSets

CONSTANTS
  Officers,     \* requests in flight
  Requests,     \* hard_delete_requests ids
  Targets,      \* targets, each with one key
  Retained,     \* the targets that are messages with a retention period
  MaxRestores   \* bound: restores

ASSUME HardDeleteAssumption == Retained \subseteq Targets /\ MaxRestores \in Nat

VARIABLES
  hd,           \* hard_delete_requests with the grant of each
  dek,          \* sensitive_keys: live or destroyed
  ledger,       \* key_tombstones
  stones,       \* hard_delete_tombstones: executions per request
  blobs,        \* targets whose file is on disk
  officer,      \* the transaction of each officer
  hdLock,       \* row, key and chain locks, with their owner
  dump,         \* the database in the last backup
  exported,     \* the ledger in the last export
  restores      \* <<number of restores, one is not reconciled yet>>

hardDeleteVars == <<hd, dek, ledger, stones, blobs, officer, hdLock, dump, exported, restores>>

NoRequest == [status |-> "NONE", target |-> "none", grant |-> "NONE", yes |-> 0, waited |-> FALSE]
OffDuty == [op |-> "idle", req |-> "none", target |-> "none", stale |-> FALSE, prev |-> <<>>, shred |-> FALSE]
RequestStatus == {"NONE", "PENDING_APPROVAL", "APPROVED_WAITING", "REJECTED", "CANCELLED", "EXECUTED"}

HardDeleteInit ==
  /\ hd = [r \in Requests |-> NoRequest]
  /\ dek = [t \in Targets |-> "live"] /\ ledger = <<>>
  /\ stones = [r \in Requests |-> 0] /\ blobs = Targets
  /\ officer = [o \in Officers |-> OffDuty] /\ hdLock = {}
  /\ dump = [hd |-> hd, dek |-> dek, ledger |-> ledger, stones |-> stones]
  /\ exported = <<>> /\ restores = <<0, FALSE>>

\* Rows, keys and the chain lock are held until the transaction ends.
FreeFor(o, x) == \A l \in hdLock : l[1] = x => l[2] = o
Mutexes(o, X) == hdLock' = hdLock \cup (X \X {o})

\* An Event commits while executions are under way; their digest is stale.
EventFor(f) == [p \in Officers |-> [f[p] EXCEPT !.stale = f[p].op \in {"execute", "executing"}]]
OfficerDone(o) ==
  /\ officer' = [officer EXCEPT ![o] = OffDuty]
  /\ hdLock' = {l \in hdLock : l[2] # o}
OfficerDoneWithEvent(o) ==
  /\ officer' = EventFor([officer EXCEPT ![o] = OffDuty])
  /\ hdLock' = {l \in hdLock : l[2] # o}
Serving == ~restores[2]

-----------------------------------------------------------------------------
\* open_request: the target has no open request, as far as this transaction
\* can see ...
OpenOf(t) == {r \in Requests : hd[r].target = t /\ hd[r].status \in {"PENDING_APPROVAL", "APPROVED_WAITING"}}
CheckDuplicate(o, t) ==
  /\ officer[o] = OffDuty /\ Serving /\ OpenOf(t) = {}
  /\ officer' = [officer EXCEPT ![o] = [OffDuty EXCEPT !.op = "open", !.target = t]]
  /\ UNCHANGED <<hd, dek, ledger, stones, blobs, hdLock, dump, exported, restores>>

\* ... request_approval with quorum 2, the row, HARD_DELETE_REQUESTED.
RequestHardDelete(o, r) ==
  /\ officer[o].op = "open" /\ hd[r] = NoRequest
  /\ hd' = [hd EXCEPT ![r] = [NoRequest EXCEPT !.status = "PENDING_APPROVAL",
                              !.target = officer[o].target, !.grant = "PENDING"]]
  /\ OfficerDoneWithEvent(o)
  /\ UNCHANGED <<dek, ledger, stones, blobs, dump, exported, restores>>

\* load_request(lock=True).
RequestFree(o, r) == FreeFor(o, r)

\* approve_hard_delete: one decision.  The grant is approved at the second
\* distinct approver and the waiting period starts; one refusal rejects both.
ApproveHardDelete(o, r, answer) ==
  /\ officer[o] = OffDuty /\ Serving /\ RequestFree(o, r)
  /\ hd[r].status = "PENDING_APPROVAL" /\ hd[r].grant = "PENDING"
  /\ hd' = [hd EXCEPT ![r] =
       IF answer = "REJECT" THEN [@ EXCEPT !.status = "REJECTED", !.grant = "REJECTED"]
       ELSE IF @.yes = 0 THEN [@ EXCEPT !.yes = 1]
       ELSE [@ EXCEPT !.yes = 2, !.status = "APPROVED_WAITING", !.grant = "APPROVED"]]
  /\ officer' = IF answer = "REJECT" \/ hd[r].yes = 1 THEN EventFor(officer) ELSE officer
  /\ UNCHANGED <<dek, ledger, stones, blobs, hdLock, dump, exported, restores>>

\* cancel_hard_delete: the grant is cancelled unless it is terminal.
CancelHardDelete(o, r) ==
  /\ officer[o] = OffDuty /\ Serving /\ RequestFree(o, r)
  /\ hd[r].status \in {"PENDING_APPROVAL", "APPROVED_WAITING"}
  /\ hd' = [hd EXCEPT ![r].status = "CANCELLED",
                      ![r].grant = IF @ \in {"PENDING", "APPROVED"} THEN "CANCELLED" ELSE @]
  /\ officer' = EventFor(officer)
  /\ UNCHANGED <<dek, ledger, stones, blobs, hdLock, dump, exported, restores>>

\* The approval sweep expires the grant after seven days; the request keeps
\* its status.
GrantExpires(r) ==
  /\ Serving /\ hd[r].grant \in {"PENDING", "APPROVED"}
  /\ \A l \in hdLock : l[1] # r
  /\ hd' = [hd EXCEPT ![r].grant = "EXPIRED"]
  /\ UNCHANGED <<dek, ledger, stones, blobs, officer, hdLock, dump, exported, restores>>

\* executable_at passes.
WaitOver(r) ==
  /\ hd[r].status = "APPROVED_WAITING" /\ ~hd[r].waited
  /\ hd' = [hd EXCEPT ![r].waited = TRUE]
  /\ UNCHANGED <<dek, ledger, stones, blobs, officer, hdLock, dump, exported, restores>>

-----------------------------------------------------------------------------
\* execute_hard_delete: the locked request, the guards, and the digest of
\* the Event chain before anything is destroyed.
BeginExecution(o, r) ==
  /\ officer[o] = OffDuty /\ Serving /\ RequestFree(o, r)
  /\ hd[r].status = "APPROVED_WAITING" /\ hd[r].waited /\ hd[r].grant = "APPROVED"
  /\ officer' = [officer EXCEPT ![o] =
       [OffDuty EXCEPT !.op = "execute", !.req = r, !.target = hd[r].target]]
  /\ Mutexes(o, {r})
  /\ UNCHANGED <<hd, dek, ledger, stones, blobs, dump, exported, restores>>

\* retention_job: an expired message that no other transaction has locked.
BeginRetention(o, t) ==
  /\ officer[o] = OffDuty /\ Serving /\ t \in Retained /\ dek[t] = "live" /\ FreeFor(o, t)
  /\ officer' = [officer EXCEPT ![o] = [OffDuty EXCEPT !.op = "retain", !.target = t]]
  /\ Mutexes(o, {t})
  /\ UNCHANGED <<hd, dek, ledger, stones, blobs, dump, exported, restores>>

\* Mutant of ChainFree: the advisory lock on the tombstone chain is not taken.
ChainUnlocked(o) == TRUE

\* pg_advisory_xact_lock('key_tombstones_chain').
ChainFree(o) == FreeFor(o, "chain")

\* _execute_artifact, _execute_document: the file goes at once, outside the
\* transaction.
FilesLeft(o) == IF officer[o].op = "execute" THEN blobs \ {officer[o].target} ELSE blobs

\* shred_key and EnvelopeCrypto.destroy lock the key row, leave
\* a destroyed key alone, and record_tombstone reads the last hash of the
\* chain under its lock.
ShredKey(o) ==
  LET t == officer[o].target
      live == dek[t] = "live"
  IN /\ officer[o].op \in {"execute", "retain"} /\ FreeFor(o, t) /\ (live => ChainFree(o))
     /\ blobs' = FilesLeft(o)
     /\ officer' = [officer EXCEPT ![o].op = IF @ = "execute" THEN "executing" ELSE "retaining",
                                   ![o].prev = ledger, ![o].shred = live]
     /\ Mutexes(o, IF live THEN {t, "chain"} ELSE {t})
     /\ UNCHANGED <<hd, dek, ledger, stones, dump, exported, restores>>

\* _insert_tombstone: an entry's hash covers its content and the hash before
\* it, so an entry stands for the chain up to it.
Tombstone(t, why, prev) == <<[key |-> t, why |-> why, prev |-> prev]>>
Destroyed(o, why) ==
  IF ~officer[o].shred THEN UNCHANGED <<dek, ledger>>
  ELSE /\ dek' = [dek EXCEPT ![officer[o].target] = "destroyed"]
       /\ ledger' = ledger \o Tombstone(officer[o].target, why, officer[o].prev)

\* The Events read again must be the ones read before; then the tombstone of
\* the request, its status, HARD_DELETE_EXECUTED, and the commit.
ExecuteHardDelete(o) ==
  /\ officer[o].op = "executing" /\ ~officer[o].stale
  /\ Destroyed(o, "HARD_DELETE")
  /\ hd' = [hd EXCEPT ![officer[o].req].status = "EXECUTED"]
  /\ stones' = [stones EXCEPT ![officer[o].req] = @ + 1]
  /\ OfficerDoneWithEvent(o)
  /\ UNCHANGED <<blobs, dump, exported, restores>>

RetentionJob(o) ==
  /\ officer[o].op = "retaining"
  /\ Destroyed(o, "RETENTION")
  /\ OfficerDone(o) /\ UNCHANGED <<hd, stones, blobs, dump, exported, restores>>

\* HARD_DELETE_EVENT_CHAIN_CHANGED, or a crash: the transaction is undone.
\* An unlinked file is not.
Undo(o) ==
  /\ officer[o] # OffDuty /\ OfficerDone(o)
  /\ UNCHANGED <<hd, dek, ledger, stones, blobs, dump, exported, restores>>

\* Any other command appends an Event.
OtherEvent ==
  /\ officer # EventFor(officer) /\ officer' = EventFor(officer)
  /\ UNCHANGED <<hd, dek, ledger, stones, blobs, hdLock, dump, exported, restores>>

-----------------------------------------------------------------------------
\* tools/backup.py: pg_dump, then the ledger export from a transaction of
\* its own.  The exports are kept apart from the dumps.
Backup ==
  /\ Serving /\ dump' = [hd |-> hd, dek |-> dek, ledger |-> ledger, stones |-> stones]
  /\ UNCHANGED <<hd, dek, ledger, stones, blobs, officer, hdLock, exported, restores>>
ExportLedger ==
  /\ Serving /\ ledger # exported /\ exported' = ledger
  /\ UNCHANGED <<hd, dek, ledger, stones, blobs, officer, hdLock, dump, restores>>

\* tools/restore.py: pg_restore into an empty database ...
Restore ==
  /\ restores[1] < MaxRestores /\ \A o \in Officers : officer[o] = OffDuty
  /\ hd' = dump.hd /\ dek' = dump.dek /\ ledger' = dump.ledger /\ stones' = dump.stones
  /\ restores' = <<restores[1] + 1, TRUE>>
  /\ UNCHANGED <<blobs, officer, hdLock, dump, exported>>

\* verify_exported_ledger.
Intact(chain) == \A i \in DOMAIN chain : chain[i].prev = SubSeq(chain, 1, i - 1)
KeysIn(chain) == {chain[i].key : i \in DOMAIN chain}

\* import_and_apply: every listed key ends destroyed ...
ImportAndApply(chain, keys) == [t \in Targets |-> IF t \in KeysIn(chain) THEN "destroyed" ELSE keys[t]]

\* ... and an entry whose key has none is appended to the local chain, with
\* a reason and so a hash of its own.
ImportEntry(chain, e) ==
  IF e.key \in KeysIn(chain) THEN chain ELSE chain \o Tombstone(e.key, "RECONCILED", chain)
Imported(entries, chain) ==
  LET f[n \in 0 .. Len(entries)] == IF n = 0 THEN chain ELSE ImportEntry(f[n - 1], entries[n])
  IN f[Len(entries)]

ReconcileTombstones ==
  /\ restores[2] /\ Intact(exported)
  /\ ledger' = Imported(exported, ledger) /\ dek' = ImportAndApply(exported, dek)
  /\ restores' = <<restores[1], FALSE>>
  /\ UNCHANGED <<hd, stones, blobs, officer, hdLock, dump, exported>>

HardDeleteNext ==
  \/ \E o \in Officers :
       \/ \E t \in Targets : CheckDuplicate(o, t) \/ BeginRetention(o, t)
       \/ \E r \in Requests : \/ RequestHardDelete(o, r) \/ CancelHardDelete(o, r)
                              \/ \E answer \in {"APPROVE", "REJECT"} : ApproveHardDelete(o, r, answer)
                              \/ BeginExecution(o, r)
       \/ ShredKey(o) \/ ExecuteHardDelete(o) \/ RetentionJob(o) \/ Undo(o)
  \/ \E r \in Requests : GrantExpires(r) \/ WaitOver(r)
  \/ OtherEvent \/ Backup \/ ExportLedger \/ Restore \/ ReconcileTombstones

HardDeleteSpec == HardDeleteInit /\ [][HardDeleteNext]_hardDeleteVars

-----------------------------------------------------------------------------
HardDeleteTypeOK ==
  /\ \A r \in Requests : hd[r].status \in RequestStatus /\ hd[r].yes \in 0 .. 2
  /\ dek \in [Targets -> {"live", "destroyed"}] /\ blobs \subseteq Targets
  /\ KeysIn(ledger) \subseteq Targets /\ stones \in [Requests -> Nat]
  /\ DOMAIN officer = Officers /\ restores \in (0 .. MaxRestores) \X BOOLEAN

\* What the ledger promises, whatever executions, retention jobs, refusals,
\* backups and restores do: the tombstone chain is unbroken and has one entry
\* per destroyed key, exactly the keys that are destroyed; a request that was
\* executed had two approvals and waited, was executed once and its key is
\* destroyed; a request that was cancelled or rejected never was executed; and
\* once a restore is reconciled no key of the exported ledger is alive
\* (execute_hard_delete, _insert_tombstone, import_and_apply).
DestructionIsFinal ==
  /\ Intact(ledger) /\ Cardinality(KeysIn(ledger)) = Len(ledger)
  /\ Serving => /\ KeysIn(ledger) = {t \in Targets : dek[t] = "destroyed"}
                /\ \A t \in KeysIn(exported) : dek[t] = "destroyed"
  /\ \A r \in Requests :
       /\ stones[r] = IF hd[r].status = "EXECUTED" THEN 1 ELSE 0
       /\ hd[r].status = "EXECUTED" =>
            hd[r].yes = 2 /\ hd[r].waited /\ dek[hd[r].target] = "destroyed"
===============================================================================
