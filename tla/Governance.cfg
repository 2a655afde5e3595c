CONSTANTS
  p1 = p1  p2 = p2
  at1 = at1  at2 = at2  at3 = at3
  \* Approvals
  Clients = {p1, p2}
  GrantIds = {1, 2}
  GrantKeys = {"k1"}
  Approvers = {"alias", "a1", "a2"}
  Requester = "req"
  PrincipalOf <- MCPrincipalOf
  UseKeys = {"u1", "u2"}
  Shapes <- MCShapes
  GrantExpiry = 1
  NoClient = NoClient
  \* Secrets
  Broker = {p1, p2}
  SecretGrants = {"g1"}
  Leases = {"l1", "l2"}
  SecretTasks = {"t1"}
  LeaseExpiry = 1
  MaxRevokes = 1
  MaxResolves = 1
  NoTask = NoTask
  \* BreakGlass
  Hands = {p1, p2}
  Sessions = {"s1", "s2"}
  Codes = {"c1", "c2"}
  \* HardDelete
  Officers = {p1, p2}
  Requests = {"r1"}
  Targets = {"conv", "file"}
  Retained = {"conv"}
  MaxRestores = 1
  \* Setup
  Clerks = {p1, p2}
  MaxKills = 1
  MaxIssued = 2
  MaxSessions = 1
  MaxVersions = 3
  \* AgentRegistry
  Operators = {p1, p2}
  OpKeys = {"k"}
  Credentials = {1, 2}
  MaxLog = 4
  \* Access
  Desks = {p1, p2}
  Accounts = {"root", "x"}
  Root = "root"
  RoleIds = {"admin", "r"}
  AdminRole = "admin"
  AccessKeys = {1, 2}
  SubmittedSets <- MCSubmitted
  MaxAuthority = 5
  \* AgentLimits
  AgentRequests = {p1, p2}
  LimitSets <- MCLimitSets
  AgentTasks = {at1, at2, at3}
  AgentItems = {"w1"}
  MaxAgentCalls = 3
  MaxMinutes = 2
  MaxReports = 1
SPECIFICATION MCSpec
SYMMETRY Symmetry
INVARIANTS
  GovernanceTypeOK
  ApprovalCounts
  
  SessionEndsOnce
  DestructionIsFinal
  OneOwner
  
  
  MeteredWithinLimits
CHECK_DEADLOCK FALSE
