CONSTANTS
  ana = ana
  bob = bob
  NoOne = NoOne
  MaxAttempts = 2
  MaxInFlight = 3
  People <- Both
  Role <- MCRole
  Spellings <- MCSpellings
  Lower <- MCLower
  Typed <- MCTyped
  Visited <- MCVisited
SPECIFICATION Spec
INVARIANTS
  IInv
  RepliesAreTrue
  IdentityIsOwn
  SellersAreRegistered
PROPERTY
  ImplementsRegistry
