CONSTANTS
  o1 = o1
  o2 = o2
  g = g
  r1 = r1
  r2 = r2
  Free = Free
  NoOrder = NoOrder
  MaxLength = 1
  PeekLimit = 2
  Orders <- OneAndGarbage
  Garbage <- MCGarbage
  Requests <- TwoRequests
SPECIFICATION Spec
INVARIANTS
  IInv
  NothingLost
  HeldByActive
  CopiesBounded
PROPERTY EveryRequestEnds
CHECK_DEADLOCK FALSE
