CONSTANTS
  MaxItems = 3
  Threads = 2
  MaxSubprobs = {2, 9}
  FaultSets <- SomeGoWrong
SPECIFICATION Spec
INVARIANTS
  TypeOK
  ExternsComplete
  ExternsInFlight
  PropagatedOnceWithValue
  TokensConserved
  GoesOnWithOwnJob
PROPERTIES
  EndsUnlessLost
CHECK_DEADLOCK FALSE
