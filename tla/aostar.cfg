CONSTANTS
  ELEM_ZERO = ELEM_ZERO
  ELEM_NAN = ELEM_NAN
  Root = r
  r = r
  A = A
  B = B
  C = C
  D = D
  E = E
  F = F
  Vars <- GraphVars
  PtChildren <- GraphPt
  Ctx <- GraphCtx
  Dom <- MCDom
  Problems <- MCProblems
  Seeds = 16
  MaxLabel = 3
  LabelShift = 2
  MaxSlack = 2
  CacheLimit <- NoLimit
  Algorithms = {"aobf", "aaobf"}
SPECIFICATION AnytimeSpec
INVARIANTS
  BoundsEnclose
  AssertionsMet
PROPERTIES
  Terminates
CHECK_DEADLOCK FALSE
