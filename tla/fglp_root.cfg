CONSTANTS
  ELEM_ZERO = ELEM_ZERO
  ELEM_NAN = ELEM_NAN
  DomainSize = 2
  Vars = {0, 1, 2}
  Dummy = 3
  NoVar <- MCNoVar
  Instances <- MCInstances
  Settings <- MCSettings
  Tolerance = 1
  Seeds = 2
  Unit = 1327104
  OrSearchModes = {FALSE}
  Schedules = {"sweep"}
  NodeIters = {0, 1}
  RootItersOfOr = {0, 1}
  RootItersOfTree = {1}
SPECIFICATION Spec
INVARIANTS
  Admissible
CHECK_DEADLOCK FALSE
