CONSTANTS
  i1 = i1
  i2 = i2
  o1 = o1
  g = g
  r1 = r1
  Free = Free
  NoOrder = NoOrder
  MaxLength = 1
  PeekLimit = 1
  MaxRetries = 3
  MaxFaults = 1
  Instances <- MCInstances
  Orders <- MCOrders
  Valid <- MCValid
  Garbage <- MCGarbage
  Amount <- MCAmount
  Requests <- NoRequest
  Host <- NoHost
SPECIFICATION Spec
INVARIANT DlqOnlyAfterRetries
CHECK_DEADLOCK FALSE
