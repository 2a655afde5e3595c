CONSTANTS
  t1 = t1
  t2 = t2
  a1 = a1
  a2 = a2
  k1 = k1
  k2 = k2
  b1 = b1
  b2 = b2
  Txns <- MCTxns
  Aggregates <- MCAggregates
  Keys <- MCKeys
  Bodies <- MCBodies
  None = None
  MaxRec = 3
  BatchLimit = 2
SYMMETRY MCSymmetry
SPECIFICATION FeedSpec
INVARIANT ChainIntact
INVARIANT AnswersAgree
INVARIANT PlaceStaysFree
INVARIANT FeedInOrder
PROPERTY ImplementsLog
