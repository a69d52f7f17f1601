CONSTANTS
  ELEM_ZERO = ELEM_ZERO
  ELEM_NAN = ELEM_NAN
  Root = r
  r = r
  A = A
  B = B
  C = C
  D = D
  E = E
  F = F
  Vars <- ForkVars
  PtChildren <- ForkPt
  Ctx <- ForkCtx
  Dom <- MCDom
  Problems <- MCProblems
  Seeds = 10
  MaxLabel = 3
  LabelShift = 0
  MaxSlack = 3
  CacheLimit = 1
  DoCaching = TRUE
  PropHeuristic = FALSE
  SubprobOrder = "static"
  StackLimit = 2
SPECIFICATION Spec
INVARIANTS
  StackTree
  NothingLost
  OptimumNotLost
  ReadsOwnPath
  CacheHitsExact
PROPERTIES
  Terminates
CHECK_DEADLOCK FALSE
