-------------------------------- MODULE Access --------------------------------
(***************************************************************************)
(* Roles, their assignment, a channel and its members: the authority rows  *)
(* that every authorisation reads, the administrators' commands that       *)
(* change them and the Events that record the changes                      *)
(* (server/application/roles.py, channels.py, channel_members.py,          *)
(* server/channels/lifecycle.py, server/policy).  A command is authorised, *)
(* locks or reads rows, appends an Event to the stream of a role, an       *)
(* account or the channel, and writes rows, in one transaction.  All       *)
(* commands need one permission here, and a policy is told by what it says *)
(* of it.  Accounts are ACTIVE; AgentRegistry suspends them.               *)
(***************************************************************************)
EXTENDS Integers, Sequences, FiniteSets

CONSTANTS
  Desks,          \* processes that handle commands
  Accounts,       \* accounts, Root among them
  Root,           \* the account that holds the role AdminRole at first
  RoleIds,        \* roles, AdminRole among them
  AdminRole,
  AccessKeys,     \* idempotency keys
  SubmittedSets,  \* sets of commands that clients may send, each command any number of times
  MaxAuthority    \* bound: Events appended after AccessInit

ASSUME AccessAssumption ==
  /\ Root \in Accounts /\ 0 \notin AccessKeys /\ AdminRole \in RoleIds /\ MaxAuthority \in Nat
  /\ Accounts \cap RoleIds = {} /\ "channel" \notin Accounts \cup RoleIds

VARIABLES
  roleRow,        \* roles.current_version, 0 for no role
  roleVersions,   \* role_versions, in order
  holds,          \* unrevoked principal_role_assignments per account and role
  lapsed,         \* <<account, role>> whose valid_to has passed
  channelRow,     \* channels.status
  openTask,       \* the channel has an open Task or an enabled Bridge
  membership,     \* channel_members: status and permissions per account
  authority,      \* the Event stream of every role, account and the channel
  submitted,      \* the commands of this behaviour's clients
  desk            \* the transaction of each process

accessVars == <<roleRow, roleVersions, holds, lapsed, channelRow, openTask, membership, authority, submitted, desk>>

Policies == {"grants", "denies", "scoped"}
MemberPermissions == {"read", "write"}
NotMember == [status |-> "none", perms |-> "read"]
RoleVerbs == {"create_role", "commit_role"}
AssignVerbs == {"assign_role", "revoke_role"}
MemberVerbs == {"add_member", "remove_member", "set_permissions"}
ChannelVerbs == MemberVerbs \cup {"import_channel", "configure_channel", "archive_channel", "set_template"}

\* The commands as a client may send them; a verb looks at its own fields.
Arguments(verb) == CASE verb \in RoleVerbs -> Policies
                     [] verb \in {"add_member", "set_permissions"} -> MemberPermissions
                     [] OTHER -> {"none"}
CommandsOf(verb) ==
  [verb : {verb}, role : RoleIds, who : Accounts, arg : Arguments(verb), actor : Accounts, key : AccessKeys]

ASSUME SubmittedAssumption == \A s \in SubmittedSets : \A c \in s : c \in CommandsOf(c.verb)

NoCommand == [verb |-> "none", role |-> AdminRole, who |-> Root, arg |-> "none", actor |-> Root, key |-> 0]
NoDeskTxn == [at |-> "idle", cmd |-> NoCommand, version |-> 0, length |-> 0, replayed |-> FALSE]
EventAbout(c, version) == [cmd |-> c, version |-> version]

\* An installation with its owner, whose channel has been imported or not.
AccessInit ==
  LET first == [NoCommand EXCEPT !.verb = "create_role", !.arg = "grants"] IN
  /\ roleRow = [r \in RoleIds |-> IF r = AdminRole THEN 1 ELSE 0]
  /\ roleVersions = [r \in RoleIds |-> IF r = AdminRole THEN <<"grants">> ELSE <<>>]
  /\ holds = [a \in Accounts |-> [r \in RoleIds |-> IF a = Root /\ r = AdminRole THEN 1 ELSE 0]]
  /\ lapsed = {}
  /\ channelRow \in {"none", "active"} /\ openTask \in BOOLEAN
  /\ membership = [a \in Accounts |-> NotMember]
  /\ authority = [s \in RoleIds \cup Accounts \cup {"channel"} |->
                    CASE s = AdminRole -> <<EventAbout(first, 1)>>
                      [] s = Root      -> <<EventAbout([first EXCEPT !.verb = "assign_role", !.arg = "none"], 1)>>
                      [] s = "channel" /\ channelRow = "active" ->
                           <<EventAbout([first EXCEPT !.verb = "import_channel", !.arg = "none"], 0)>>
                      [] OTHER -> <<>>]
  /\ submitted \in SubmittedSets
  /\ desk = [d \in Desks |-> NoDeskTxn]

-----------------------------------------------------------------------------
\* effective_roles: unrevoked assignments inside their window of roles that
\* have a version, each at its current version.
EffectiveRoles(a) == {r \in RoleIds : holds[a][r] > 0 /\ <<a, r>> \notin lapsed /\ roleRow[r] > 0}
CurrentPolicy(r) == roleVersions[r][roleRow[r]]

\* _scope_violation: a policy bound to a channel, a domain or a resource
\* covers no request that names none.
InScope(p) == p # "scoped"

\* PolicyEngine.evaluate: an explicit deny wins, then a role that grants and
\* is in scope; otherwise deny.
Evaluate(rs) ==
  /\ \A r \in rs : CurrentPolicy(r) # "denies"
  /\ \E r \in rs : InScope(CurrentPolicy(r))

\* authorize, require_permission: administrators' commands ask for no
\* capability and name no channel.
Authorized(a) == Evaluate(EffectiveRoles(a))

-----------------------------------------------------------------------------
StreamOf(c) == IF c.verb \in RoleVerbs THEN c.role
               ELSE IF c.verb \in AssignVerbs THEN c.who ELSE "channel"
AppendedEvents == UNION {{<<s, i>> : i \in {j \in DOMAIN authority[s] : authority[s][j].cmd.key # 0}} :
                         s \in DOMAIN authority}
SameRequest(c, e) == e.cmd.actor = c.actor /\ e.cmd.verb = c.verb /\ e.cmd.key = c.key
\* The Event a transaction would append; its body names the role's version.
EventBy(t) == EventAbout(t.cmd, CASE t.cmd.verb \in RoleVerbs -> t.version + 1
                               [] t.cmd.verb = "assign_role" -> t.version
                               [] OTHER -> 0)
Prior(c) == {e \in UNION {{authority[s][i] : i \in DOMAIN authority[s]} : s \in DOMAIN authority} :
               SameRequest(c, e)}
\* _replay: the stream, read without a lock, holds the request.
SeenInStream(c) == \E i \in DOMAIN authority[StreamOf(c)] : SameRequest(c, authority[StreamOf(c)][i])

\* FOR UPDATE on the role's and on the channel's row; INSERT of a new row
\* waits for another that inserts it.
RoleRowFree(d, r) == \A e \in Desks \ {d} : ~(desk[e].at # "idle" /\ desk[e].cmd.verb \in RoleVerbs /\ desk[e].cmd.role = r)
ChannelRowFree(d) == \A e \in Desks \ {d} :
  ~(desk[e].at # "idle" /\ desk[e].cmd.verb \in ChannelVerbs \ {"import_channel"})

\* The common beginning of a handler: the permission, then what it reads.
Begin(d, c) ==
  /\ desk[d].at = "idle" /\ Authorized(c.actor)
  /\ desk' = [desk EXCEPT ![d] = [NoDeskTxn EXCEPT !.at = "begun", !.cmd = c,
                !.version = roleRow[c.role], !.length = Len(authority["channel"])]]
  /\ UNCHANGED <<roleRow, roleVersions, holds, lapsed, channelRow, openTask, membership, authority, submitted>>
BeginOnChannel(d, c) == channelRow # "none" /\ ChannelRowFree(d) /\ Begin(d, c)

\* The handlers, up to the Event: a role that exists is not created again,
\* one that does not is refused, and a request found in the stream answers
\* with its Event; only commit_role_version looks with the row locked.
CreateRole(d, c) == c.verb = "create_role" /\ roleRow[c.role] = 0 /\ RoleRowFree(d, c.role) /\ Begin(d, c)
CommitRoleVersion(d, c) ==
  c.verb = "commit_role" /\ RoleRowFree(d, c.role) /\ roleRow[c.role] > 0 /\ ~SeenInStream(c) /\ Begin(d, c)
AssignRole(d, c) ==
  /\ c.verb = "assign_role" /\ roleRow[c.role] > 0 /\ ~SeenInStream(c)
  /\ holds[c.who][c.role] = 0 /\ Begin(d, c)
RevokeRole(d, c) == c.verb = "revoke_role" /\ roleRow[c.role] > 0 /\ ~SeenInStream(c) /\ Begin(d, c)

\* A channel is imported once; it is configured and archived while active,
\* its members and its template change until it is deleted.
ImportChannel(d, c) == c.verb = "import_channel" /\ channelRow = "none" /\ Begin(d, c)
ConfigureChannel(d, c) == c.verb = "configure_channel" /\ channelRow = "active" /\ BeginOnChannel(d, c)
ArchiveChannel(d, c) == c.verb = "archive_channel" /\ channelRow = "active" /\ BeginOnChannel(d, c)
AddChannelMember(d, c) == c.verb = "add_member" /\ channelRow # "deleted" /\ BeginOnChannel(d, c)
RemoveChannelMember(d, c) ==
  /\ c.verb = "remove_member" /\ channelRow # "deleted"
  /\ membership[c.who].status = "active" /\ BeginOnChannel(d, c)
SetMemberPermissions(d, c) ==
  /\ c.verb = "set_permissions" /\ channelRow # "deleted"
  /\ membership[c.who].status = "active" /\ BeginOnChannel(d, c)
SetChannelDocumentTemplate(d, c) == c.verb = "set_template" /\ channelRow # "deleted" /\ BeginOnChannel(d, c)

\* store.append: the lock of the stream, then the idempotency index, then
\* the expected sequence of the channel's commands.
StreamFree(d, s) == \A e \in Desks \ {d} : ~(desk[e].at = "appended" /\ StreamOf(desk[e].cmd) = s)
AppendEvent(d) ==
  LET t == desk[d] c == t.cmd IN
  /\ t.at = "begun" /\ StreamFree(d, StreamOf(c))
  /\ Prior(c) # {} \/ Cardinality(AppendedEvents) < MaxAuthority
  /\ desk' = [desk EXCEPT ![d] =
       IF Prior(c) \ {EventBy(t)} # {} THEN NoDeskTxn
       ELSE IF Prior(c) # {} THEN [t EXCEPT !.at = "appended", !.replayed = TRUE]
       ELSE IF c.verb \in ChannelVerbs \ {"import_channel"} /\ t.length # Len(authority["channel"])
       THEN NoDeskTxn ELSE [t EXCEPT !.at = "appended"]]
  /\ UNCHANGED <<roleRow, roleVersions, holds, lapsed, channelRow, openTask, membership, authority, submitted>>

\* The channel's handlers write their rows for a fresh Event only; those of
\* roles and assignments write them for a replayed one too.
WritesAnyway(d) == TRUE
WritesRows(d) == desk[d].cmd.verb \in RoleVerbs \cup AssignVerbs \/ ~desk[d].replayed

\* commit_role_version of the repository reads current_version again, and a
\* handler whose Event named another version rolls back.
VersionAgrees(t) == t.cmd.verb = "commit_role" => roleRow[t.cmd.role] = t.version
\* A revocation that updates no row rolls back, its Event with it; an
\* import_channel of a channel that exists breaks the unique index.
RowsAllow(t) ==
  /\ VersionAgrees(t)
  /\ t.cmd.verb = "revoke_role" => holds[t.cmd.who][t.cmd.role] > 0
  /\ t.cmd.verb = "import_channel" => channelRow = "none"

RoleRowAfter(c) == IF c.verb \in RoleVerbs THEN [roleRow EXCEPT ![c.role] = @ + 1] ELSE roleRow
VersionsAfter(c) == IF c.verb \in RoleVerbs THEN [roleVersions EXCEPT ![c.role] = Append(@, c.arg)] ELSE roleVersions
HoldsAfter(c) ==
  CASE c.verb = "assign_role" -> [holds EXCEPT ![c.who][c.role] = @ + 1]
    [] c.verb = "revoke_role" -> [holds EXCEPT ![c.who][c.role] = 0]
    [] OTHER -> holds
ChannelAfter(c) ==
  CASE c.verb = "import_channel"  -> "active"
    [] c.verb = "archive_channel" -> "archived"
    [] OTHER -> channelRow
\* add_member revives the row of a member that was removed.
MembershipAfter(c) ==
  CASE c.verb = "add_member"      -> [membership EXCEPT ![c.who] = [status |-> "active", perms |-> c.arg]]
    [] c.verb = "remove_member"   -> [membership EXCEPT ![c.who].status = "removed"]
    [] c.verb = "set_permissions" -> [membership EXCEPT ![c.who].perms = c.arg]
    [] OTHER -> membership

\* The rows, the audit entry and the commit.
WriteAndCommit(d) ==
  LET t == desk[d] c == t.cmd IN
  /\ t.at = "appended"
  /\ desk' = [desk EXCEPT ![d] = NoDeskTxn]
  /\ IF ~RowsAllow(t) THEN UNCHANGED <<roleRow, roleVersions, holds, lapsed, channelRow, membership, authority>> ELSE
     /\ authority' = IF t.replayed THEN authority
                     ELSE [authority EXCEPT ![StreamOf(c)] = Append(@, EventBy(t))]
     /\ IF WritesRows(d)
        THEN /\ roleRow' = RoleRowAfter(c) /\ roleVersions' = VersionsAfter(c)
             /\ holds' = HoldsAfter(c) /\ channelRow' = ChannelAfter(c)
             /\ membership' = MembershipAfter(c)
             /\ lapsed' = IF c.verb = "revoke_role" THEN lapsed \ {<<c.who, c.role>>} ELSE lapsed
        ELSE UNCHANGED <<roleRow, roleVersions, holds, lapsed, channelRow, membership>>
  /\ UNCHANGED <<openTask, submitted>>

\* The process dies or the database refuses: the transaction is gone.
RollBack(d) ==
  /\ desk[d].at # "idle" /\ desk' = [desk EXCEPT ![d] = NoDeskTxn]
  /\ UNCHANGED <<roleRow, roleVersions, holds, lapsed, channelRow, openTask, membership, authority, submitted>>

\* deletion_blockers: read without a lock on the Tasks or Bridges.
DeletionBlockers == openTask

\* delete_channel: archived, and nothing open in it; a status and an audit
\* entry, no Event.
DeleteChannel(d, a) ==
  /\ Authorized(a) /\ ChannelRowFree(d) /\ desk[d].at = "idle"
  /\ channelRow = "archived" /\ ~DeletionBlockers /\ channelRow' = "deleted"
  /\ UNCHANGED <<roleRow, roleVersions, holds, lapsed, openTask, membership, authority, submitted, desk>>

\* The time valid_to of an assignment comes.
Lapse(a, r) ==
  /\ holds[a][r] > 0 /\ <<a, r>> \notin lapsed /\ a # Root
  /\ lapsed' = lapsed \cup {<<a, r>>}
  /\ UNCHANGED <<roleRow, roleVersions, holds, channelRow, openTask, membership, authority, submitted, desk>>

\* What the channel's Tasks and Bridges do meanwhile.
TaskOpensOrEnds ==
  /\ openTask' = ~openTask
  /\ UNCHANGED <<roleRow, roleVersions, holds, lapsed, channelRow, membership, authority, submitted, desk>>

AccessNext ==
  \/ \E d \in Desks :
       \/ \E c \in submitted :
            \/ CreateRole(d, c) \/ CommitRoleVersion(d, c) \/ AssignRole(d, c) \/ RevokeRole(d, c)
            \/ ImportChannel(d, c) \/ ConfigureChannel(d, c) \/ ArchiveChannel(d, c)
            \/ AddChannelMember(d, c) \/ RemoveChannelMember(d, c) \/ SetMemberPermissions(d, c)
            \/ SetChannelDocumentTemplate(d, c)
       \/ AppendEvent(d) \/ WriteAndCommit(d) \/ RollBack(d)
       \/ \E a \in Accounts : DeleteChannel(d, a)
  \/ \E a \in Accounts, r \in RoleIds : Lapse(a, r)
  \/ TaskOpensOrEnds
AccessSpec == AccessInit /\ [][AccessNext]_accessVars

-----------------------------------------------------------------------------
\* Every variable keeps its shape.
AccessTypeOK ==
  /\ \A r \in RoleIds : roleRow[r] = Len(roleVersions[r]) /\ \A i \in DOMAIN roleVersions[r] : roleVersions[r][i] \in Policies
  /\ holds \in [Accounts -> [RoleIds -> Nat]] /\ lapsed \subseteq Accounts \X RoleIds
  /\ channelRow \in {"none", "active", "archived", "deleted"} /\ openTask \in BOOLEAN
  /\ membership \in [Accounts -> [status : {"none", "active", "removed"}, perms : MemberPermissions]]
  /\ \A c \in submitted : c \in CommandsOf(c.verb)
  /\ \A d \in Desks : desk[d].at \in {"idle", "begun", "appended"} /\ desk[d].replayed \in BOOLEAN

\* What the channel's stream says of a member.
LastAbout(a, verbs) ==
  LET strm == authority["channel"]
      about == {i \in DOMAIN strm : strm[i].cmd.who = a /\ strm[i].cmd.verb \in verbs}
  IN IF about = {} THEN NoCommand ELSE strm[CHOOSE i \in about : \A j \in about : j <= i].cmd
MemberByEvents(a) ==
  LET entry == LastAbout(a, {"add_member", "remove_member"})
      grant == LastAbout(a, {"add_member", "set_permissions"}) IN
  IF entry.verb = "none" THEN NotMember
  ELSE [status |-> IF entry.verb = "add_member" THEN "active" ELSE "removed", perms |-> grant.arg]

\* The authority rows follow the Events, through retries of a command that
\* is still in flight or long done, and commands that interleave: a role's
\* versions are those of its stream, each at the number its Event names;
\* the channel is archived when its stream says so; and every member has the
\* status and the permissions of the last Events about them
\* (commit_role_version's row lock, the channel's row lock and the check of
\* replayed in channel_members.py).
PolicyFollowsEvents ==
  /\ \A r \in RoleIds :
       /\ Len(authority[r]) = roleRow[r]
       /\ \A i \in DOMAIN authority[r] :
            authority[r][i].version = i /\ authority[r][i].cmd.arg = roleVersions[r][i]
  /\ channelRow \in {"archived", "deleted"}
       <=> \E i \in DOMAIN authority["channel"] : authority["channel"][i].cmd.verb = "archive_channel"
  /\ \A a \in Accounts : membership[a] = MemberByEvents(a)
=============================================================================
