CONSTANTS
  i1 = i1
  i2 = i2
  oGood = oGood
  oLimit = oLimit
  oBad = oBad
  NoOrder = NoOrder
  Instances <- MCInstances
  Orders <- MCOrders
  Valid <- MCValid
  Amount <- MCAmount
SPECIFICATION Spec
INVARIANT DecidedAfterProcessing
