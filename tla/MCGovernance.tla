---------------------------- MODULE MCGovernance ----------------------------
(***************************************************************************)
(* The modules about who may do what, for TLC: approvals, secrets, break-  *)
(* glass, hard delete, setup, the Agent registry, roles and channels, and  *)
(* the Agents' limits.  Each behaviour is one of one module (`part`); the  *)
(* others stay in an initial state.                                        *)
(***************************************************************************)
EXTENDS Approvals, Secrets, BreakGlass, HardDelete, Setup, AgentRegistry, Access, AgentLimits, TLC

CONSTANTS p1, p2, at1, at2, at3

VARIABLE part

-----------------------------------------------------------------------------
\* The requester has a second account, "alias".
MCPrincipalOf == [a \in {"req", "alias", "a1", "a2"} |-> IF a \in {"req", "alias"} THEN "P0" ELSE a]
MCShapes == {[quorum |-> 2, maxUses |-> 1], [quorum |-> 0, maxUses |-> 2]}

\* Three scenarios: roles and their assignment, members of a channel, the
\* channel itself.
Cmd(v, r, w, x, k) == [verb |-> v, role |-> r, who |-> w, arg |-> x, actor |-> "root", key |-> k]
MCSubmitted ==
  { {Cmd("create_role", "r", "root", "grants", 1), Cmd("commit_role", "r", "root", "denies", 1),
     Cmd("assign_role", "r", "x", "none", 1), Cmd("revoke_role", "r", "x", "none", 1),
     [Cmd("commit_role", "r", "root", "scoped", 2) EXCEPT !.actor = "x"],
     Cmd("commit_role", "admin", "root", "scoped", 2), Cmd("assign_role", "r", "root", "none", 2)},
    {Cmd("import_channel", "admin", "root", "none", 1), Cmd("add_member", "admin", "x", "write", 1),
     Cmd("remove_member", "admin", "x", "none", 1), Cmd("add_member", "admin", "x", "read", 2),
     Cmd("set_permissions", "admin", "x", "read", 1), Cmd("set_permissions", "admin", "root", "read", 1)},
    {Cmd("configure_channel", "admin", "root", "none", 1), Cmd("archive_channel", "admin", "root", "none", 1),
     Cmd("set_template", "admin", "root", "none", 1), Cmd("add_member", "admin", "root", "write", 1),
     Cmd("archive_channel", "admin", "root", "none", 2), Cmd("import_channel", "admin", "root", "none", 2)} }

MCLimitSets ==
  {[n \in {"concurrent_tasks"} |-> 1],
   [n \in {"requests_per_minute", "daily_cost_units"} |-> 1],
   [n \in {"daily_cost_units", "per_task_cost_units"} |-> 2]}

-----------------------------------------------------------------------------
Parts == {"approvals", "secrets", "breakglass", "harddelete", "setup", "registry", "access", "limits"}

allVars == <<part, approvalsVars, secretsVars, breakGlassVars, hardDeleteVars,
             setupVars, registryVars, accessVars, agentLimitsVars>>

MCInit ==
  /\ part \in Parts
  /\ ApprovalsInit /\ SecretsInit /\ BreakGlassInit /\ HardDeleteInit
  /\ SetupInit /\ RegistryInit /\ AccessInit /\ AgentLimitsInit
  /\ part # "access" => /\ channelRow = "none" /\ ~openTask
                        /\ submitted = CHOOSE s \in SubmittedSets : TRUE
  /\ part # "setup" => ~knowsDb
  /\ part # "limits" => priced /\ agentLimits = CHOOSE l \in LimitSets : TRUE

MCNext ==
  /\ UNCHANGED part
  /\ \/ /\ part = "approvals" /\ ApprovalsNext
        /\ UNCHANGED <<secretsVars, breakGlassVars, hardDeleteVars, setupVars,
                       registryVars, accessVars, agentLimitsVars>>
     \/ /\ part = "secrets" /\ SecretsNext
        /\ UNCHANGED <<approvalsVars, breakGlassVars, hardDeleteVars, setupVars,
                       registryVars, accessVars, agentLimitsVars>>
     \/ /\ part = "breakglass" /\ BreakGlassNext
        /\ UNCHANGED <<approvalsVars, secretsVars, hardDeleteVars, setupVars,
                       registryVars, accessVars, agentLimitsVars>>
     \/ /\ part = "harddelete" /\ HardDeleteNext
        /\ UNCHANGED <<approvalsVars, secretsVars, breakGlassVars, setupVars,
                       registryVars, accessVars, agentLimitsVars>>
     \/ /\ part = "setup" /\ SetupNext
        /\ UNCHANGED <<approvalsVars, secretsVars, breakGlassVars, hardDeleteVars,
                       registryVars, accessVars, agentLimitsVars>>
     \/ /\ part = "registry" /\ RegistryNext
        /\ UNCHANGED <<approvalsVars, secretsVars, breakGlassVars, hardDeleteVars,
                       setupVars, accessVars, agentLimitsVars>>
     \/ /\ part = "access" /\ AccessNext
        /\ UNCHANGED <<approvalsVars, secretsVars, breakGlassVars, hardDeleteVars,
                       setupVars, registryVars, agentLimitsVars>>
     \/ /\ part = "limits" /\ AgentLimitsNext
        /\ UNCHANGED <<approvalsVars, secretsVars, breakGlassVars, hardDeleteVars,
                       setupVars, registryVars, accessVars>>

MCSpec == MCInit /\ [][MCNext]_allVars

Symmetry == Permutations({p1, p2}) \cup Permutations({at1, at2, at3})

\* Every variable of every module keeps its shape (the modules that do not run
\* keep their first state).
GovernanceTypeOK ==
  /\ part = "approvals" => ApprovalsTypeOK
  /\ part = "secrets" => SecretsTypeOK
  /\ part = "breakglass" => BreakGlassTypeOK
  /\ part = "harddelete" => HardDeleteTypeOK
  /\ part = "setup" => SetupTypeOK
  /\ part = "registry" => RegistryTypeOK
  /\ part = "access" => AccessTypeOK
  /\ part = "limits" => AgentLimitsTypeOK
=============================================================================
