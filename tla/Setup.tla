------------------------------- MODULE Setup -------------------------------
(***************************************************************************)
(* Setup (server/setup/, server/api/setup.py): the wizard's state machine  *)
(* in memory, the sealed local file, the setup_state row, the apply order  *)
(* of the bootstrap, what a restart makes of file and row, and the         *)
(* reconfiguration session with the settings it changes.  A process may    *)
(* die between any two steps, and may come back without knowing the        *)
(* database (the URL is entered in the wizard, and not kept).              *)
(***************************************************************************)
EXTENDS Integers, Sequences

CONSTANTS
  Clerks,      \* requests handled at once
  MaxKills,    \* bound: times the process dies
  MaxIssued,   \* bound: tokens issued by request
  MaxSessions, \* bound: reconfiguration sessions
  MaxVersions  \* bound: versions of a setting

ASSUME SetupAssumption ==
  MaxKills \in Nat /\ MaxIssued \in Nat /\ MaxSessions \in Nat /\ MaxVersions \in Nat

VARIABLES
  machine,     \* state and reconfiguration session in memory; "down" without a process
  token,       \* the token in memory: none, live or used
  file,        \* the sealed local file: state and token; state "absent" without one
  row,         \* setup_state and the newest reconfiguration session row
  knowsDb,     \* whether the process has a session factory
  password,    \* whether the database password handle is alive
  masterKey,   \* whether the master key file exists
  owners,      \* Owner accounts created
  maintenance, \* maintenance_mode.active
  setting,     \* versions of a setting: the session each was made in, 0 for the API
  clerk,       \* what each request is doing
  kills, issued

setupVars == <<machine, token, file, row, knowsDb, password, masterKey, owners, maintenance, setting, clerk,
               kills, issued>>

-----------------------------------------------------------------------------
\* STAGE_ORDINAL, TRANSITIONS, BOOTSTRAP_OPEN_STATES and reconcile's _DB_AUTHORITATIVE.
StageOrdinal == [UNINITIALIZED |-> 0, PREFLIGHT_PASSED |-> 1, BOOTSTRAPPING |-> 2, BOOTSTRAP_FAILED |-> 2,
                 CONFIGURED |-> 3, LOCKED |-> 4, RECONFIGURING |-> 4]
SetupTransitions ==
  {<<"UNINITIALIZED", "PREFLIGHT_PASSED">>, <<"PREFLIGHT_PASSED", "BOOTSTRAPPING">>,
   <<"BOOTSTRAPPING", "CONFIGURED">>, <<"BOOTSTRAPPING", "BOOTSTRAP_FAILED">>,
   <<"BOOTSTRAP_FAILED", "PREFLIGHT_PASSED">>, <<"BOOTSTRAP_FAILED", "BOOTSTRAPPING">>,
   <<"CONFIGURED", "LOCKED">>, <<"LOCKED", "RECONFIGURING">>, <<"RECONFIGURING", "LOCKED">>}
BootstrapOpen == {"UNINITIALIZED", "PREFLIGHT_PASSED", "BOOTSTRAPPING", "BOOTSTRAP_FAILED"}
DbAuthoritative == {"CONFIGURED", "LOCKED", "RECONFIGURING"}

ProcessDown == [state |-> "down", session |-> 0, due |-> FALSE]
NoFile == [state |-> "absent", token |-> "none"]
NotBegun == [at |-> "idle", session |-> 0, version |-> 0]

SetupInit ==
  /\ machine = [ProcessDown EXCEPT !.state = "UNINITIALIZED"] /\ token = "none" /\ file = NoFile
  /\ row = [state |-> "absent", session |-> 0, open |-> FALSE] /\ knowsDb \in BOOLEAN
  /\ password = FALSE /\ masterKey = FALSE /\ owners = 0 /\ maintenance = FALSE /\ setting = <<>>
  /\ clerk = [c \in Clerks |-> NotBegun] /\ kills = 0 /\ issued = 0

\* BootstrapStore.write: the stage of the file never falls, but for the retry
\* from BOOTSTRAP_FAILED to PREFLIGHT_PASSED.
Writable(state) ==
  (file.state # "absent" /\ StageOrdinal[state] < StageOrdinal[file.state])
    => file.state = "BOOTSTRAP_FAILED" /\ state = "PREFLIGHT_PASSED"
PersistLocal(state, tok) == Writable(state) /\ file' = [state |-> state, token |-> tok]

CanTransition(target) == <<machine.state, target>> \in SetupTransitions
InState(states) == machine.state \in states
EarlyStates == {"UNINITIALIZED", "PREFLIGHT_PASSED", "BOOTSTRAP_FAILED"}
ClerkStep(c, from, to) == clerk[c].at = from /\ clerk' = [clerk EXCEPT ![c].at = to]

-----------------------------------------------------------------------------
IssueToken ==
  /\ InState(EarlyStates) /\ issued < MaxIssued /\ issued' = issued + 1
  /\ token' = "live" /\ PersistLocal(machine.state, "live")
  /\ UNCHANGED <<machine, row, knowsDb, password, masterKey, owners, maintenance, setting, clerk, kills>>

\* configure: the database section; the handle of the password lives 15 minutes.
Configure ==
  /\ InState(EarlyStates) /\ ~password /\ password' = TRUE /\ PersistLocal(machine.state, token)
  /\ UNCHANGED <<machine, token, row, knowsDb, masterKey, owners, maintenance, setting, clerk, kills, issued>>
HandleExpires ==
  /\ password /\ password' = FALSE
  /\ UNCHANGED <<machine, token, file, row, knowsDb, masterKey, owners, maintenance, setting, clerk, kills, issued>>

\* preflight: every probe succeeds, _probe_db with the password among them.
Preflight ==
  /\ InState(EarlyStates \ {"PREFLIGHT_PASSED"}) /\ password
  /\ machine' = [machine EXCEPT !.state = "PREFLIGHT_PASSED"] /\ PersistLocal("PREFLIGHT_PASSED", token)
  /\ UNCHANGED <<token, row, knowsDb, password, masterKey, owners, maintenance, setting, clerk, kills, issued>>

\* bootstrap: the token is consumed first; without a preflight that is all.
VerifyToken(c) ==
  /\ InState(BootstrapOpen) /\ token = "live" /\ token' = "used"
  /\ ClerkStep(c, "idle", IF machine.state = "UNINITIALIZED" THEN "idle" ELSE "verified")
  /\ UNCHANGED <<machine, file, row, knowsDb, password, masterKey, owners, maintenance, setting, kills, issued>>
StartBootstrap(c) ==
  /\ CanTransition("BOOTSTRAPPING") /\ ClerkStep(c, "verified", "migrate")
  /\ machine' = [machine EXCEPT !.state = "BOOTSTRAPPING"] /\ PersistLocal("BOOTSTRAPPING", token)
  /\ UNCHANGED <<token, row, knowsDb, password, masterKey, owners, maintenance, setting, kills, issued>>
BootstrapRefused(c) ==
  /\ ~CanTransition("BOOTSTRAPPING") /\ ClerkStep(c, "verified", "idle")
  /\ UNCHANGED <<machine, token, file, row, knowsDb, password, masterKey, owners, maintenance, setting, kills, issued>>

\* _apply_db_migration: the row is BOOTSTRAPPING, whatever it was.
ApplyDbMigration(c) ==
  /\ password /\ ClerkStep(c, "migrate", "keys")
  /\ row' = [row EXCEPT !.state = "BOOTSTRAPPING"] /\ knowsDb' = TRUE
  /\ UNCHANGED <<machine, token, file, password, masterKey, owners, maintenance, setting, kills, issued>>

\* _apply_key_provider: the key file is written once and then reused.
ApplyKeyProvider(c) ==
  /\ ClerkStep(c, "keys", "owner") /\ masterKey' = TRUE
  /\ UNCHANGED <<machine, token, file, row, knowsDb, password, owners, maintenance, setting, kills, issued>>

OwnerExists == owners > 0

\* Mutant of ApplyOwnerIntegrationsCommit: LOCKED is committed before the Owner.
LockedBeforeOwner(c) ==
  /\ ~OwnerExists /\ clerk[c].at = "owner"
  /\ row' = [row EXCEPT !.state = "LOCKED"]
  /\ IF row.state # "LOCKED" THEN UNCHANGED <<owners, clerk, setting>>
     ELSE /\ ClerkStep(c, "owner", "finish")
          /\ owners' = owners + 1 /\ setting' = Append(setting, 0)
  /\ UNCHANGED <<machine, token, file, knowsDb, password, masterKey, maintenance, kills, issued>>

\* _apply_owner_integrations_commit: Owner, settings and LOCKED in one transaction.
ApplyOwnerIntegrationsCommit(c) ==
  /\ ~OwnerExists /\ ClerkStep(c, "owner", "finish")
  /\ owners' = owners + 1 /\ row' = [row EXCEPT !.state = "LOCKED"] /\ setting' = Append(setting, 0)
  /\ UNCHANGED <<machine, token, file, knowsDb, password, masterKey, maintenance, kills, issued>>

\* _fail: a new token for the retry; the row follows from the key step on.
FailBootstrap(c) ==
  /\ \/ clerk[c].at \in {"migrate", "keys"}
     \/ clerk[c].at = "owner" /\ OwnerExists
  /\ CanTransition("BOOTSTRAP_FAILED")
  /\ token' = "live" /\ machine' = [machine EXCEPT !.state = "BOOTSTRAP_FAILED"]
  /\ PersistLocal("BOOTSTRAP_FAILED", "live")
  /\ row' = IF clerk[c].at = "migrate" THEN row ELSE [row EXCEPT !.state = "BOOTSTRAP_FAILED"]
  /\ clerk' = [clerk EXCEPT ![c] = NotBegun]
  /\ UNCHANGED <<knowsDb, password, masterKey, owners, maintenance, setting, kills, issued>>

\* The end of bootstrap: CONFIGURED, LOCKED, the handles wiped, the marker written.
FinishBootstrap(c) ==
  /\ CanTransition("CONFIGURED") /\ ClerkStep(c, "finish", "idle") /\ machine' = [machine EXCEPT !.state = "LOCKED"] /\ password' = FALSE
  /\ Writable("LOCKED") /\ file' = [state |-> "LOCKED", token |-> "none"]
  /\ UNCHANGED <<token, row, knowsDb, masterKey, owners, maintenance, setting, kills, issued>>

-----------------------------------------------------------------------------
KillProcess ==
  /\ machine.state # "down" /\ kills < MaxKills /\ kills' = kills + 1
  /\ machine' = ProcessDown /\ token' = "none" /\ knowsDb' = FALSE /\ password' = FALSE
  /\ clerk' = [c \in Clerks |-> NotBegun]
  /\ UNCHANGED <<file, row, masterKey, owners, maintenance, setting, issued>>

\* reconcile, for what the file and the row say ("absent": nothing).
Reconcile(local, db) ==
  IF db = "absent" THEN IF local = "absent" THEN "UNINITIALIZED" ELSE local
  ELSE IF db \in DbAuthoritative \/ local = "absent" THEN db
  ELSE IF StageOrdinal[local] < StageOrdinal[db] THEN db
  ELSE IF "BOOTSTRAP_FAILED" \in {local, db} THEN "BOOTSTRAP_FAILED" ELSE local

\* load, in a process that knows the database or does not.  A bootstrap that
\* was interrupted has failed; a session that is still open goes on, one that
\* is over is closed.
Restart(db, due) ==
  LET state == Reconcile(file.state, IF db THEN row.state ELSE "absent")
      reopened == state = "RECONFIGURING" /\ row.open /\ ~due
      now == CASE state = "BOOTSTRAPPING" -> "BOOTSTRAP_FAILED"
               [] state = "RECONFIGURING" -> IF reopened THEN state ELSE "LOCKED"
               [] OTHER -> state
  IN /\ machine.state = "down" /\ knowsDb' = db
     /\ machine' = [state |-> now, session |-> IF reopened THEN row.session ELSE 0, due |-> FALSE]
     /\ token' = IF state = "BOOTSTRAPPING" THEN "live" ELSE file.token
     /\ file' = IF db /\ row.state \in DbAuthoritative THEN [state |-> "LOCKED", token |-> "none"]
                ELSE IF file.state = "absent" /\ state # "BOOTSTRAPPING" THEN file
                ELSE [state |-> now, token |-> token']
     /\ row' = IF state = "RECONFIGURING" /\ row.open /\ due THEN [row EXCEPT !.open = FALSE, !.state = "LOCKED"]
               ELSE row
     /\ UNCHANGED <<password, masterKey, owners, maintenance, setting, clerk, kills, issued>>

-----------------------------------------------------------------------------
\* maintenance.mode enter and exit_mode.
EnterMaintenance ==
  /\ owners > 0 /\ machine.state # "down" /\ maintenance' = ~maintenance
  /\ UNCHANGED <<machine, token, file, row, knowsDb, password, masterKey, owners, setting, clerk, kills, issued>>

\* open_reconfiguration: LOCKED, maintenance mode, the Owner's recovery code and
\* a fresh MFA; memory moves before the transaction commits.
OpenReconfiguration(c) ==
  /\ knowsDb /\ CanTransition("RECONFIGURING") /\ maintenance /\ row.session < MaxSessions
  /\ ClerkStep(c, "idle", "opened")
  /\ machine' = [state |-> "RECONFIGURING", session |-> row.session + 1, due |-> FALSE]
  /\ UNCHANGED <<token, file, row, knowsDb, password, masterKey, owners, maintenance, setting, kills, issued>>
CommitReconfiguration(c) ==
  /\ ClerkStep(c, "opened", "idle")
  /\ row' = [state |-> "RECONFIGURING", session |-> row.session + 1, open |-> TRUE]
  /\ UNCHANGED <<machine, token, file, knowsDb, password, masterKey, owners, maintenance, setting, kills, issued>>

SessionRunsOut ==
  /\ InState({"RECONFIGURING"}) /\ ~machine.due /\ machine' = [machine EXCEPT !.due = TRUE]
  /\ UNCHANGED <<token, file, row, knowsDb, password, masterKey, owners, maintenance, setting, clerk, kills, issued>>

\* expire_session_if_due: a look at the state closes the session in memory, a
\* use of it (require_session) closes its row as well.
ExpireSession(rowToo) ==
  /\ InState({"RECONFIGURING"}) /\ machine.due /\ machine' = [ProcessDown EXCEPT !.state = "LOCKED"]
  /\ row' = IF rowToo THEN [row EXCEPT !.open = FALSE, !.state = "LOCKED"] ELSE row
  /\ UNCHANGED <<token, file, knowsDb, password, masterKey, owners, maintenance, setting, clerk, kills, issued>>
CloseReconfiguration ==
  /\ InState({"RECONFIGURING"}) /\ ~machine.due /\ machine' = [ProcessDown EXCEPT !.state = "LOCKED"]
  /\ row' = [row EXCEPT !.open = FALSE, !.state = "LOCKED"]
  /\ UNCHANGED <<token, file, knowsDb, password, masterKey, owners, maintenance, setting, clerk, kills, issued>>

\* SettingsStore.set: the newest version is read, then one more is inserted,
\* unless someone else did (the primary key); within a session
\* (apply_reconfiguration) or by the settings API.
ReadSetting(c, inSession) ==
  /\ knowsDb /\ owners > 0 /\ clerk[c].at = "idle" /\ Len(setting) < MaxVersions
  /\ inSession => InState({"RECONFIGURING"}) /\ ~machine.due
  /\ clerk' = [clerk EXCEPT ![c] = [at |-> "setting", session |-> IF inSession THEN machine.session ELSE 0,
                                    version |-> Len(setting) + 1]]
  /\ UNCHANGED <<machine, token, file, row, knowsDb, password, masterKey, owners, maintenance, setting, kills, issued>>
SetSetting(c) ==
  /\ clerk[c].at = "setting" /\ clerk' = [clerk EXCEPT ![c] = NotBegun]
  /\ setting' = IF clerk[c].version = Len(setting) + 1 THEN Append(setting, clerk[c].session) ELSE setting
  /\ UNCHANGED <<machine, token, file, row, knowsDb, password, masterKey, owners, maintenance, kills, issued>>

SetupNext ==
  \/ IssueToken \/ Configure \/ HandleExpires \/ Preflight \/ KillProcess
  \/ \E db, due \in BOOLEAN : Restart(db, due)
  \/ EnterMaintenance \/ SessionRunsOut \/ CloseReconfiguration
  \/ \E rowToo \in BOOLEAN : ExpireSession(rowToo)
  \/ \E c \in Clerks :
       \/ VerifyToken(c) \/ StartBootstrap(c) \/ BootstrapRefused(c) \/ ApplyDbMigration(c) \/ ApplyKeyProvider(c)
       \/ ApplyOwnerIntegrationsCommit(c) \/ FailBootstrap(c) \/ FinishBootstrap(c)
       \/ OpenReconfiguration(c) \/ CommitReconfiguration(c) \/ SetSetting(c)
       \/ \E inSession \in BOOLEAN : ReadSetting(c, inSession)

SetupSpec == SetupInit /\ [][SetupNext]_setupVars

-----------------------------------------------------------------------------
SetupTypeOK ==
  /\ machine.state \in DOMAIN StageOrdinal \cup {"down"} /\ token \in {"none", "live", "used"}
  /\ file.state \in DOMAIN StageOrdinal \cup {"absent"} /\ row.state \in DOMAIN StageOrdinal \cup {"absent"}
  /\ owners \in Nat
  /\ \A c \in Clerks : clerk[c].at \in {"idle", "verified", "migrate", "keys", "owner", "finish", "opened", "setting"}

\* However often the bootstrap is killed, restarted with or without the
\* database, and retried: one Owner at most, and nothing says LOCKED or
\* RECONFIGURING (memory, file or row) before there is one.
OneOwner ==
  /\ owners <= 1
  /\ ({machine.state, file.state, row.state} \cap DbAuthoritative # {}) => owners = 1
==============================================================================
