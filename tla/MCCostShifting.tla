--------------------------- MODULE MCCostShifting ---------------------------
(* CostShifting on a node with two branches, a triangle on a chain, and two *)
(* components.                                                              *)
EXTENDS CostShifting

CONSTANTS Seeds, Unit, OrSearchModes, Schedules, NodeIters, RootItersOfOr, RootItersOfTree

\* Each shape: scopes, and the parents of 0, 1 and 2 in the tree and the chain.
Shapes == <<
  [scopes |-> <<{0}, {0, 1}, {0, 2}, {}>>,    tree |-> <<3, 0, 0>>, chain |-> <<3, 0, 1>>],
  [scopes |-> <<{0, 1}, {1, 2}, {0, 2}, {}>>, tree |-> <<3, 0, 1>>, chain |-> <<3, 0, 1>>],
  [scopes |-> <<{0, 1}, {1}, {2}, {}>>,       tree |-> <<3, 0, 3>>, chain |-> <<3, 0, 1>>] >>

MCNoVar == -1

Code(a) == MapThenFoldSet(LAMBDA m, n : m + n, 0, LAMBDA y : (3 * a[y] + 1) * (y + 2) * (y + 2),
             LAMBDA s : CHOOSE y \in s : TRUE, DOMAIN a)

Entry(seed, id, a) ==
  LET h == (seed * 7919 + id * 613 + Code(a) * 353) % 9973
      m == ((h * h) % 9973) \div 7
  IN  IF m % 8 = 0 /\ DOMAIN a # {} THEN ELEM_ZERO ELSE Unit * (1 - (m % 5))

Instance(shape, seed) ==
  [functions |-> [i \in DOMAIN shape.scopes |->
     [id |-> i, scope |-> shape.scopes[i],
      val |-> Tabulated([a \in Assignments(shape.scopes[i]) |-> Entry(seed, i, a)])]],
   tree  |-> [v \in Vars |-> shape.tree[v + 1]],
   chain |-> [v \in Vars |-> shape.chain[v + 1]]]

MCInstances == {Instance(Shapes[i], seed) : i \in DOMAIN Shapes, seed \in 1 .. Seeds}

MCSettings ==
  {s \in [orSearch : OrSearchModes, nullary : BOOLEAN, timed : BOOLEAN, schedule : Schedules,
          rootIters : RootItersOfOr \cup RootItersOfTree, nodeIters : NodeIters] :
     /\ s.rootIters \in (IF s.orSearch THEN RootItersOfOr ELSE RootItersOfTree)
     /\ s.schedule = "priority" => s.timed}
=============================================================================
