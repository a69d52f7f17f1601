CONSTANTS
  ELEM_ZERO = ELEM_ZERO
  ELEM_NAN = ELEM_NAN
  Instances <- MCInstances
  Seeds = 1
  DomainSize = 2
  Iterations = 1
  Tolerance = 0
  AutoIter = FALSE
  OrSearchModes = {FALSE}
  IBounds = {1}
  MatchModes = {FALSE, TRUE}
  LookaheadDepths = {1, 2, 3}
  ReuseModes = {FALSE, TRUE}
  AlwaysModes = {FALSE, TRUE}
SPECIFICATION Spec
INVARIANT LookaheadSound
CHECK_DEADLOCK FALSE
