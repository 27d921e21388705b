CONSTANTS
  o1 = o1
  o2 = o2
  g = g
  r1 = r1
  r2 = r2
  Free = Free
  NoOrder = NoOrder
  MaxLength = 2
  PeekLimit = 2
  Orders <- TwoOrders
  Garbage <- NoGarbage
  Requests <- OneRequest
SPECIFICATION Spec
INVARIANT NotFoundMeansAbsent
CHECK_DEADLOCK FALSE
