SPECIFICATION Spec
CONSTANTS
  get = get
  post = post
  Calls <- MCCalls
  Cached <- MCReads
  Reads <- MCReads
  Threshold = 2
  MaxAttempts = 2
INVARIANTS IInv CircuitConsistent AnswerMatchesEffects
PROPERTIES ImplementsBreaker EveryCallEnds RecoversWithService
