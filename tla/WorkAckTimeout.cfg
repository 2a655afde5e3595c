CONSTANTS
  assign = assign
  invoke = invoke
  Items <- MCItems
  Assignments <- MCAssignments
  MaxRedeliveries = 2
  MaxCrashes = 1
SPECIFICATION Spec
INVARIANT AckTimeoutUnacked
CHECK_DEADLOCK FALSE
