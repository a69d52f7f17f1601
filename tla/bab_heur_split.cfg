CONSTANTS
  ELEM_ZERO = ELEM_ZERO
  ELEM_NAN = ELEM_NAN
  Root = r
  r = r
  A = A
  B = B
  C = C
  D = D
  E = E
  F = F
  Vars <- SplitVars
  PtChildren <- SplitPt
  Ctx <- SplitCtx
  Dom <- MCDom
  Problems <- MCProblems
  Seeds = 40
  MaxLabel = 3
  LabelShift = 0
  MaxSlack = 3
  CacheLimit <- NoLimit
  DoCaching = TRUE
  PropHeuristic = TRUE
  SubprobOrder = "static"
SPECIFICATION Spec
INVARIANTS
  UpperBoundSound
CHECK_DEADLOCK FALSE
