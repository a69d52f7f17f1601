CONSTANTS
  ELEM_ZERO = ELEM_ZERO
  ELEM_NAN = ELEM_NAN
  DomainSize = 2
  Vars = {0, 1, 2}
  Dummy = 3
  NoVar <- MCNoVar
  Instances <- MCInstances
  Settings <- MCSettings
  Tolerance = 1
  Seeds = 2
  Unit = 1327104
  OrSearchModes = {FALSE, TRUE}
  Schedules = {"sweep", "cyclic", "priority"}
  NodeIters = {0, 1}
  RootItersOfOr = {0, 1}
  RootItersOfTree = {0}
SPECIFICATION Spec
INVARIANTS
  SameProblem
  Admissible
PROPERTIES
  BoundNeverRises
CHECK_DEADLOCK FALSE
