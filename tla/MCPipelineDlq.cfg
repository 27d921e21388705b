CONSTANTS
  i1 = i1
  i2 = i2
  o1 = o1
  g = g
  r1 = r1
  Free = Free
  NoOrder = NoOrder
  MaxLength = 1
  PeekLimit = 1
  MaxRetries = 0
  MaxFaults = 1
  Instances <- MCInstances
  Orders <- MCOrders
  Valid <- MCValid
  Garbage <- MCGarbage
  Amount <- MCAmount
  Requests <- OneRequest
  Host <- OneHost
SPECIFICATION Spec
INVARIANTS
  IInv
  NothingLost
CHECK_DEADLOCK FALSE
