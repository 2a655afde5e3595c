---------------------------- MODULE AgentRegistry ----------------------------
(***************************************************************************)
(* One Agent and its account (server/application/agents.py, accounts.py).  *)
(* An Agent command locks the agents row, checks it, writes the accounts   *)
(* row, appends an AGENT_ Event and rewrites the row from the stream; an   *)
(* account command locks the accounts row first and may then write the     *)
(* agents row: the two orders deadlock and PostgreSQL aborts one.  The     *)
(* offline sweep lists Agents without a lock.  Permissions and validation  *)
(* only refuse and are left out; capacity, health and usage are data.      *)
(***************************************************************************)
EXTENDS Integers, Sequences, FiniteSets

CONSTANTS
  Operators,     \* requests in flight
  OpKeys,        \* idempotency keys a client uses (and retries)
  Credentials,   \* service tokens that can be issued
  MaxLog         \* bound on the Events of both streams

ASSUME RegistryAssumption == MaxLog \in Nat

VARIABLES
  agentRow,      \* agents: status, online, tested (capabilities_snapshot)
  account,       \* accounts.status
  credentials,   \* service_credentials that are active
  log,           \* Events of the agent and the account streams, in order
  silent,        \* 90 s without a heartbeat
  openTasks,     \* tasks_projection holds an open Task of the account
  deletion,      \* a hard-delete request for the account is open
  txn            \* the command each operator runs

registryVars == <<agentRow, account, credentials, log, silent, openTasks,
                  deletion, txn>>

NoAgent == [status |-> "absent", online |-> FALSE, tested |-> FALSE]
NoAgentTxn == [verb |-> "idle", key |-> "none", row |-> NoAgent, account |-> "absent"]
AgentVerbs ==
  {"update", "activate", "suspend", "revoke", "heartbeat", "offline", "test"}
AccountVerbs ==
  {"suspendAccount", "reinstate", "requestDeletion", "issue", "rotate",
   "revokeCredential"}

RegistryInit ==
  /\ agentRow = NoAgent /\ account = "absent" /\ credentials = {}
  /\ log = <<>> /\ silent = TRUE /\ openTasks = FALSE /\ deletion = FALSE
  /\ txn = [o \in Operators |-> NoAgentTxn]

-----------------------------------------------------------------------------
(* The stream and its fold.                                                *)

\* fold, one Event: AGENT_UPDATED and the account's Events change nothing.
FoldEvent(s, e) ==
  CASE e.type = "AGENT_REGISTERED" -> [s EXCEPT !.status = "pending"]
    [] e.type = "AGENT_ACTIVATED" -> [s EXCEPT !.status = "active"]
    [] e.type = "AGENT_SUSPENDED" -> [s EXCEPT !.status = "suspended", !.online = FALSE]
    [] e.type = "AGENT_REVOKED" -> [s EXCEPT !.status = "revoked", !.online = FALSE]
    [] e.type = "AGENT_HEARTBEAT_RECORDED" ->
         [s EXCEPT !.online = TRUE,
                   !.status = IF @ \in {"active", "offline"} THEN "active" ELSE @]
    [] e.type = "AGENT_MARKED_OFFLINE" ->
         [s EXCEPT !.online = FALSE,
                   !.status = IF @ \in {"active", "offline"} THEN "offline" ELSE @]
    [] OTHER -> s

\* refresh_state: fold the whole stream and write the runtime columns.
FoldEvents(events) ==
  LET f[n \in 0 .. Len(events)] == IF n = 0 THEN NoAgent ELSE FoldEvent(f[n - 1], events[n])
  IN f[Len(events)]
RefreshState(events, tested) == [FoldEvents(events) EXCEPT !.tested = tested]

EventOf(type, key) == [type |-> type, key |-> key]
\* _replay: the Event of an earlier call with the same scope and key.
Replays(type, key) == \E i \in 1..Len(log) : log[i] = EventOf(type, key)

\* _append, _finish: the Event, the row from the stream, the commit.
FinishAgent(o, type, tested) ==
  LET events == Append(log, EventOf(type, txn[o].key)) IN
  /\ Len(log) < MaxLog
  /\ log' = events
  /\ agentRow' = RefreshState(events, tested)
  /\ txn' = [txn EXCEPT ![o] = NoAgentTxn]

-----------------------------------------------------------------------------
(* Row locks: held by the loaded command until it commits or rolls back.   *)

\* Mutant of AgentFree: load_agent without FOR UPDATE.
AgentUnlocked(o) == TRUE

\* SELECT ... FROM agents ... FOR UPDATE (and any UPDATE of the row).
AgentFree(o) == \A p \in Operators \ {o} : txn[p].verb \notin AgentVerbs
\* SELECT ... FROM accounts ... FOR UPDATE (and any UPDATE of the row).
AccountFree(o) == \A p \in Operators \ {o} : txn[p].verb \notin AccountVerbs

\* _load: lock the agents row and read it.
LoadAgent(o, v, k) ==
  /\ txn[o].verb = "idle" /\ agentRow # NoAgent /\ AgentFree(o)
  /\ txn' = [txn EXCEPT ![o] = [verb |-> v, key |-> k, row |-> agentRow, account |-> "absent"]]

\* accounts._load: lock the accounts row and read it.
LoadAccount(o, v, k) ==
  /\ txn[o].verb = "idle" /\ account # "absent" /\ AccountFree(o)
  /\ txn' = [txn EXCEPT ![o] = [verb |-> v, key |-> k, row |-> NoAgent, account |-> account]]

BeginAgent(o) ==
  /\ \E v \in AgentVerbs, k \in OpKeys : LoadAgent(o, v, k)
  /\ UNCHANGED <<agentRow, account, credentials, log, silent, openTasks, deletion>>
BeginAccount(o) ==
  /\ \E v \in AccountVerbs, k \in OpKeys : LoadAccount(o, v, k)
  /\ UNCHANGED <<agentRow, account, credentials, log, silent, openTasks, deletion>>

InVerb(o, v) == txn[o].verb = v
StatusSeen(o) == txn[o].row.status

-----------------------------------------------------------------------------
(* Agent commands, from the loaded row.                                    *)

\* register_agent reads without a lock; the unique agent_id decides.  The
\* account is created ACTIVE, with one token.
RegisterAgent(o, k, c) ==
  /\ InVerb(o, "idle") /\ agentRow = NoAgent /\ Len(log) < MaxLog
  /\ log' = Append(log, EventOf("AGENT_REGISTERED", k))
  /\ agentRow' = RefreshState(log', FALSE)
  /\ account' = "ACTIVE" /\ credentials' = {c}
  /\ UNCHANGED <<silent, openTasks, deletion, txn>>

UpdateAgent(o) ==
  /\ InVerb(o, "update") /\ StatusSeen(o) # "revoked" /\ AccountFree(o)
  /\ ~Replays("AGENT_UPDATED", txn[o].key)
  /\ FinishAgent(o, "AGENT_UPDATED", txn[o].row.tested)
  /\ UNCHANGED <<account, credentials, silent, openTasks, deletion>>

\* test_agent_connection: a probe that answers is the capability snapshot;
\* one that fails leaves the row and commits its audit entry only.
TestAgentConnection(o) ==
  /\ InVerb(o, "test")
  /\ \E passed \in BOOLEAN :
       agentRow' = [agentRow EXCEPT !.tested = @ \/ passed]
  /\ txn' = [txn EXCEPT ![o] = NoAgentTxn]
  /\ UNCHANGED <<account, credentials, log, silent, openTasks, deletion>>

\* activate_agent, with the snapshot on the row or a probe in the command.
ActivateAgent(o) ==
  /\ InVerb(o, "activate") /\ StatusSeen(o) \notin {"revoked", "active"} /\ AccountFree(o)
  /\ ~Replays("AGENT_ACTIVATED", txn[o].key)
  /\ \E probe \in BOOLEAN :
       /\ probe \/ txn[o].row.tested
       /\ FinishAgent(o, "AGENT_ACTIVATED", TRUE)
  /\ account' = "ACTIVE"
  /\ UNCHANGED <<credentials, silent, openTasks, deletion>>

\* _reroute_unavailable: the Agent's Tasks leave it, where another Agent
\* can take them (TaskRouting); otherwise they wait in its name.
RerouteUnavailable == openTasks' \in {FALSE, openTasks}

SuspendAgent(o) ==
  /\ InVerb(o, "suspend") /\ StatusSeen(o) \notin {"revoked", "suspended"} /\ AccountFree(o)
  /\ ~Replays("AGENT_SUSPENDED", txn[o].key)
  /\ account' = "SUSPENDED"
  /\ RerouteUnavailable
  /\ FinishAgent(o, "AGENT_SUSPENDED", txn[o].row.tested)
  /\ UNCHANGED <<credentials, silent, deletion>>

RevokeAgent(o) ==
  /\ InVerb(o, "revoke") /\ StatusSeen(o) # "revoked" /\ AccountFree(o)
  /\ ~Replays("AGENT_REVOKED", txn[o].key)
  /\ account' = "SUSPENDED"
  /\ credentials' = {}
  /\ RerouteUnavailable
  /\ FinishAgent(o, "AGENT_REVOKED", txn[o].row.tested)
  /\ UNCHANGED <<silent, deletion>>

RecordHeartbeat(o) ==
  /\ InVerb(o, "heartbeat") /\ StatusSeen(o) \notin {"pending", "suspended", "revoked"}
  /\ ~Replays("AGENT_HEARTBEAT_RECORDED", txn[o].key)
  /\ silent' = FALSE
  /\ FinishAgent(o, "AGENT_HEARTBEAT_RECORDED", TRUE)
  /\ UNCHANGED <<account, credentials, openTasks, deletion>>

\* mark_offline: a command for one Agent, which re-routes its Tasks.
MarkOffline(o) ==
  /\ InVerb(o, "offline") /\ StatusSeen(o) = "active" /\ txn[o].row.online
  /\ ~Replays("AGENT_MARKED_OFFLINE", txn[o].key)
  /\ RerouteUnavailable
  /\ FinishAgent(o, "AGENT_MARKED_OFFLINE", txn[o].row.tested)
  /\ UNCHANGED <<account, credentials, silent, deletion>>

\* sweep_offline: list_agents takes no lock ...
ListAgents(o) ==
  /\ InVerb(o, "idle") /\ agentRow.status = "active" /\ agentRow.online /\ silent
  /\ txn' = [txn EXCEPT ![o] = [NoAgentTxn EXCEPT !.verb = "sweep"]]
  /\ UNCHANGED <<agentRow, account, credentials, log, silent, openTasks, deletion>>
\* ... and the row is locked but not checked again before it is marked, with
\* a key of this sweep's own; the Agent's Tasks stay with it.
SweepOffline(o) ==
  /\ InVerb(o, "sweep") /\ AgentFree(o)
  /\ FinishAgent(o, "AGENT_MARKED_OFFLINE", agentRow.tested)
  /\ UNCHANGED <<account, credentials, silent, openTasks, deletion>>

\* A retry of a command that committed: _finish still rewrites the row.
ReplayAgent(o) ==
  /\ \E vt \in {<<"update", "AGENT_UPDATED">>, <<"activate", "AGENT_ACTIVATED">>,
                <<"suspend", "AGENT_SUSPENDED">>, <<"revoke", "AGENT_REVOKED">>,
                <<"heartbeat", "AGENT_HEARTBEAT_RECORDED">>,
                <<"offline", "AGENT_MARKED_OFFLINE">>} :
       InVerb(o, vt[1]) /\ Replays(vt[2], txn[o].key)
  /\ agentRow' = RefreshState(log, agentRow.tested)
  /\ txn' = [txn EXCEPT ![o] = NoAgentTxn]
  /\ UNCHANGED <<account, credentials, log, silent, openTasks, deletion>>

-----------------------------------------------------------------------------
(* Account commands.                                                       *)

RecordAccount(o, type) ==
  /\ Len(log) < MaxLog /\ ~Replays(type, txn[o].key)
  /\ log' = Append(log, EventOf(type, txn[o].key))
  /\ txn' = [txn EXCEPT ![o] = NoAgentTxn]

\* suspend_account: open Tasks only ask for force; the agents row is set without an
\* Event of the Agent, and its Tasks stay with it.
SuspendAccount(o) ==
  /\ InVerb(o, "suspendAccount") /\ txn[o].account = "ACTIVE" /\ AgentFree(o)
  /\ account' = "SUSPENDED"
  /\ agentRow' = IF agentRow.status = "revoked" THEN agentRow
                 ELSE [agentRow EXCEPT !.status = "suspended", !.online = FALSE]
  /\ RecordAccount(o, "ACCOUNT_SUSPENDED")
  /\ UNCHANGED <<credentials, silent, openTasks, deletion>>

ReinstateAccount(o) ==
  /\ InVerb(o, "reinstate") /\ txn[o].account = "SUSPENDED" /\ ~deletion
  /\ account' = "ACTIVE"
  /\ RecordAccount(o, "ACCOUNT_REINSTATED")
  /\ UNCHANGED <<agentRow, credentials, silent, openTasks, deletion>>

RequestAccountDeletion(o) ==
  /\ InVerb(o, "requestDeletion") /\ txn[o].account # "DELETED"
  /\ ~openTasks /\ ~deletion
  /\ account' = "SUSPENDED" /\ deletion' = TRUE
  /\ RecordAccount(o, "ACCOUNT_DELETION_REQUESTED")
  /\ UNCHANGED <<agentRow, credentials, silent, openTasks>>

\* issue_service_token: no Event, so a retry issues another token.
IssueServiceToken(c) == c \notin credentials /\ credentials' = credentials \cup {c}
IssueCredential(o, c) ==
  /\ InVerb(o, "issue") /\ txn[o].account = "ACTIVE"
  /\ IssueServiceToken(c)
  /\ txn' = [txn EXCEPT ![o] = NoAgentTxn]
  /\ UNCHANGED <<agentRow, account, log, silent, openTasks, deletion>>

\* revoke_service_token: CREDENTIAL_NOT_FOUND unless the token is active.
RevokeServiceToken(tokens, old) == IF old \in tokens THEN tokens \ {old} ELSE tokens

\* rotate_service_token: issue one and revoke the old one, in one commit.
RotateServiceToken(tokens, old, c) == RevokeServiceToken(tokens \cup {c}, old)

RotateCredential(o, old, c) ==
  /\ InVerb(o, "rotate") /\ txn[o].account = "ACTIVE"
  /\ old \in credentials /\ c \notin credentials
  /\ credentials' = RotateServiceToken(credentials, old, c)
  /\ txn' = [txn EXCEPT ![o] = NoAgentTxn]
  /\ UNCHANGED <<agentRow, account, log, silent, openTasks, deletion>>

RevokeCredential(o, old) ==
  /\ InVerb(o, "revokeCredential") /\ old \in credentials
  /\ credentials' = RevokeServiceToken(credentials, old)
  /\ txn' = [txn EXCEPT ![o] = NoAgentTxn]
  /\ UNCHANGED <<agentRow, account, log, silent, openTasks, deletion>>

\* The hard-delete workflow ends: cancelled, or the account is deleted
\* (_execute_account, under the accounts row lock).
EndDeletion ==
  /\ deletion /\ deletion' = FALSE
  /\ \/ UNCHANGED <<account, credentials>>
     \/ /\ \A p \in Operators : txn[p].verb \notin AccountVerbs
        /\ account' = "DELETED" /\ credentials' = {}
  /\ UNCHANGED <<agentRow, log, silent, openTasks, txn>>

-----------------------------------------------------------------------------
(* The world, and PostgreSQL.                                              *)

\* A refusal of a check above, or a lost connection: rollback.
RollbackOperator(o) ==
  /\ txn[o].verb # "idle"
  /\ txn' = [txn EXCEPT ![o] = NoAgentTxn]
  /\ UNCHANGED <<agentRow, account, credentials, log, silent, openTasks, deletion>>

Silence ==
  /\ ~silent /\ silent' = TRUE
  /\ UNCHANGED <<agentRow, account, credentials, log, openTasks, deletion, txn>>
\* Routing gives the Agent a Task only while it is active and online.
AssignTask ==
  /\ ~openTasks /\ agentRow.status = "active" /\ agentRow.online
  /\ openTasks' = TRUE
  /\ UNCHANGED <<agentRow, account, credentials, log, silent, deletion, txn>>

RegistryNext ==
  \/ \E o \in Operators :
       \/ \E k \in OpKeys, c \in Credentials : RegisterAgent(o, k, c)
       \/ BeginAgent(o) \/ BeginAccount(o)
       \/ UpdateAgent(o) \/ TestAgentConnection(o) \/ ActivateAgent(o)
       \/ SuspendAgent(o) \/ RevokeAgent(o) \/ RecordHeartbeat(o)
       \/ MarkOffline(o) \/ ListAgents(o) \/ SweepOffline(o) \/ ReplayAgent(o)
       \/ SuspendAccount(o) \/ ReinstateAccount(o) \/ RequestAccountDeletion(o)
       \/ \E c \in Credentials : IssueCredential(o, c) \/ RevokeCredential(o, c)
       \/ \E c, d \in Credentials : RotateCredential(o, c, d)
       \/ RollbackOperator(o)
  \/ EndDeletion \/ Silence \/ AssignTask

RegistrySpec == RegistryInit /\ [][RegistryNext]_registryVars

-----------------------------------------------------------------------------
RegistryTypeOK ==
  /\ agentRow.status \in {"absent", "pending", "active", "offline", "suspended", "revoked"}
  /\ account \in {"absent", "ACTIVE", "SUSPENDED", "DELETED"}
  /\ credentials \subseteq Credentials
  /\ Len(log) <= MaxLog
  /\ \A o \in Operators : txn[o].verb \in AgentVerbs \cup AccountVerbs \cup {"idle", "sweep"}

\* A revocation is final whatever runs beside it: after AGENT_REVOKED the row
\* stays revoked and offline, no command that had checked an earlier row
\* appends to the stream (only a sweep may mark the Agent offline), and the
\* Agent holds no token until an administrator reinstates its account.
RevokedIsFinal ==
  \A i \in 1..Len(log) : log[i].type = "AGENT_REVOKED" =>
    /\ agentRow.status = "revoked" /\ ~agentRow.online
    /\ \A j \in i+1..Len(log) :
         log[j].type \notin {"AGENT_ACTIVATED", "AGENT_HEARTBEAT_RECORDED",
                             "AGENT_SUSPENDED", "AGENT_UPDATED", "AGENT_REVOKED"}
    /\ \/ credentials = {}
       \/ \E j \in i+1..Len(log) : log[j].type = "ACCOUNT_REINSTATED"
=============================================================================
