CONSTANTS
  Workers = {w1, w2}
  RunIds = {1, 2}
  RunPolicies <- MCRunPolicies
  MaxAttempts = 2
  DailyLimit = 2
  ClaimLimit = 1
  MaxFaults = 1
  MaxCommands = 1
  Nobody = Nobody
  Versions <- MCVersions
  OccurrencesOf <- MCOccurrencesOf
  Gaps = {3}
  MissedPolicies = {"SKIP", "RUN_ONCE", "BACKFILL_LIMITED"}
  BackfillWindow = 2
  BackfillLimit = 1
  Horizon = 1
  RequestKeys = {k1}
  MaxNow = 5
  MaxPlanCommands = 5
SPECIFICATION MCSpec
SYMMETRY Symmetry
CHECK_DEADLOCK FALSE
INVARIANT EndedStaysEnded
