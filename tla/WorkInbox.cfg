CONSTANTS
  assign = assign
  invoke = invoke
  Items <- MCItems
  Assignments <- MCAssignments
  MaxRedeliveries = 2
  MaxCrashes = 1
SPECIFICATION FairSpec
INVARIANT TypeOK
INVARIANT EndsOnce
INVARIANT DeliveriesBounded
INVARIANT AckNeverLost
PROPERTY EventuallyEnds
CHECK_DEADLOCK FALSE
