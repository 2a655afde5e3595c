CONSTANTS
  a1 = a1
  a2 = a2
  a3 = a3
  h1 = h1
  c1 = c1
  Agents <- MCAgents
  Humans <- MCHumans
  Callers <- MCCallers
  Sweeper = Sweeper
  None = None
  Limit = 1
  Events <- MCEvents
  MaxByHand = 1
SYMMETRY MCSymmetry
SPECIFICATION Spec
INVARIANT TypeOK
INVARIANT OneAgentAtWork
INVARIANT ReroutesBounded
INVARIANT NeverBack
