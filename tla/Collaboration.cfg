CONSTANTS
  p1 = p1  p2 = p2  m1 = m1  m2 = m2
  \* VerifierAssignment
  VUsers = {"u1"}
  VTasks = {"t1"}
  VRuns = {1, 2}
  Verifiers = {1, 2}
  HumanTasks = {}
  Standings <- MCStandings
  NoRunId = 0
  \* Subtasks
  Crew = {p1, p2}
  Kids = {"k1", "k2"}
  ParentTask = "p"
  Forebears = {"g"}
  JoinActors = {"a1", "a2"}
  JoinPolicies <- MCPolicies
  GraphLimits <- MCGraphLimits
  ParentDepth = 1
  MaxParentSeq = 2
  \* Delivery
  Drainers = {"c", "n"}
  DrainOf <- MCDrainOf
  MaxEvents = 2
  MaxTries = 2
  MaxNotes = 2
  MaxDrainCrashes = 1
  \* Bridge
  Handlers = {p1, p2}
  MaxHuman = 2
  MaxMessages = 3
  MaxBridgeTries = 2
  MaxFailures = 1
  MaxChanges = 1
  \* InboundCommands
  Requesters = {p1, p2}
  Messages = {m1, m2}
  PoolSize = 3
  MaxDeliveries = 3
  \* Brainstorm
  Callers = {p1, p2}
  BsRequests = {1, 2, 3, 4, 5}
  Asked <- MCAsked
  Agents = {"a1", "a2"}
  Humans = {"h1"}
  LimitChoices <- MCLimitChoices
  ActionItems = {1}
  MaxCalls = 5
  \* Documents
  Scribes = {p1, p2}
  DocKeys = {"k1", "k2"}
  Places = {"d1"}
  Subjects = {"task", "other"}
  MaxSource = 2
  MaxRevision = 1
  MaxReviews = 1
  MaxDocCrashes = 1
  \* Artifacts
  Uploaders = {p1, p2}
  Bytes = {"b1", "b2"}
  ArtKeys = {"k1"}
  SniffOf <- MCSniffOf
  LinkSubjects = {"task"}
  MaxArtCrashes = 1
  MaxUploads = 3
SPECIFICATION MCSpec
SYMMETRY Symmetry
INVARIANTS
  CollaborationTypeOK
  TimeoutReplacesOnlyUnstarted
  
  SentOnce
  
  
  TurnsWithinLimits
  
  TakenInIsSound
CHECK_DEADLOCK FALSE
