CONSTANTS
  ELEM_ZERO = ELEM_ZERO
  ELEM_NAN = ELEM_NAN
  Instances <- MCInstances
  Seeds = 2
  Constants <- MCConstants
  DomainSize = 2
  Iterations = 2
  Tolerance = 1
  AutoIter = TRUE
  OrSearchModes = {FALSE, TRUE}
  IBounds = {1, 2}
  MatchModes = {FALSE, TRUE}
  BoundGaps = {0, 1}
  LdsModes = {TRUE, FALSE}
SPECIFICATION FairSpec
INVARIANTS
  WidthIsThatOfTree
  ContextsSeparate
  HeuristicAdmissible
  AccurateIsExact
  OutputsOptimum
PROPERTIES
  Terminates
CHECK_DEADLOCK FALSE
