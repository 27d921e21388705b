CONSTANTS
  r1 = r1
  r2 = r2
  r3 = r3
  r4 = r4
  p1 = p1
  p2 = p2
  NoId = NoId
  MaxInFlight = 4
  Requests <- Four
  Products <- TwoProducts
  Price <- MCPrice
SPECIFICATION FlowSpec
INVARIANTS
  FlowInv
  NoEndlessWait
  OneOrderPerCart
  OneMessagePerCart
  SerialCartRules
  PublishedUnlessFault
PROPERTIES
  FinalizedStays
  ImplementsCartOrders
SYMMETRY Symmetry
