CONSTANTS
  c1 = c1
  c2 = c2
  p1 = p1
  p2 = p2
  v1 = v1
  Clients <- MCClients
  Accounts <- MCAccounts
  Runs <- MCRuns
  None = None
  MaxRec = 10
  Twice <- MCTwice
  MaxDetours = 1
SYMMETRY MCSymmetry
SPECIFICATION Spec
INVARIANT EventsFollowTable
CHECK_DEADLOCK FALSE
