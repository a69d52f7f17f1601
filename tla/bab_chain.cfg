CONSTANTS
  ELEM_ZERO = ELEM_ZERO
  ELEM_NAN = ELEM_NAN
  Root = r
  r = r
  A = A
  B = B
  C = C
  D = D
  E = E
  F = F
  Vars <- ChainVars
  PtChildren <- ChainPt
  Ctx <- ChainCtx
  Dom <- MCDom
  Problems <- MCProblems
  Seeds = 40
  MaxLabel = 3
  LabelShift = 0
  MaxSlack = 3
  CacheLimit = 1
  DoCaching = TRUE
  PropHeuristic = TRUE
  SubprobOrder = "static"
SPECIFICATION Spec
INVARIANTS
  TypeOK
  NoDangling
  AssignmentOnPath
  NeverEmptyOR
  ResultOptimal
  UpperBoundSound
PROPERTIES
  CacheWritesExact
CHECK_DEADLOCK FALSE
