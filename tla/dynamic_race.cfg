CONSTANTS
  MaxItems = 3
  Threads = 2
  MaxSubprobs = {9}
  FaultSets <- AllGoesWell
SPECIFICATION Spec
INVARIANT EverythingPropagated
CHECK_DEADLOCK FALSE
