------------------------ MODULE AnytimeAOStar_proofs ------------------------
(***************************************************************************)
(* For every pseudo tree, problem and admissible heuristic, and for both   *)
(* algorithms: the bounds of best-first search and its dives enclose the   *)
(* optimum at every node, what is called solved is exact, and the          *)
(* assertions in the code hold.                                            *)
(***************************************************************************)
EXTENDS AnytimeAOStar, CommonLemmas

-----------------------------------------------------------------------------
(* The graph is a part of the space of all nodes.  KidSet is what Expand   *)
(* gives a node when the assignment of the day agrees with the node.       *)

IsOr(n)  == \E x \in Vars : \E c \in Assignments(Ctx[x]) : n = OrNode(x, c)
IsAnd(n) == \E x \in Vars : \E c \in Assignments(Ctx[x]) : \E v \in Values(x) :
              n = AndNode(OrNode(x, c), v)
InSpace(n) == IsOr(n) \/ IsAnd(n)

KidSet(n) == ChildrenOf(n, AssignmentOf(n))

Given(n)       == IF IsOrNode(n) THEN n.ctx ELSE AssignmentOf(n)
Agrees(n, asg) == \A y \in DOMAIN Given(n) : asg[y] = Given(n)[y]

(* The weight of a node on the arc from its parent, and its exact value    *)
Arc(n)     == IF IsOrNode(n) THEN ELEM_ONE ELSE Weight(OrNode(n.var, n.ctx), n.val)
ExactAt(n) == IF IsOrNode(n) THEN Exact(n) ELSE ExactBelow(n)

UpperAt(n, q) == q \in Known /\ ~Greater(Times(Arc(n), ExactAt(n)), Times(Arc(n), q))
LowerAt(n, q) == q \in Known /\ ~Greater(Times(Arc(n), q), Times(Arc(n), ExactAt(n)))
TightAt(n, q) == Times(Arc(n), q) = Times(Arc(n), ExactAt(n))

-----------------------------------------------------------------------------
(* The inductive invariant.  Its parts: what the graph is; that its values *)
(* enclose the exact ones; what a solved node says of its children and the *)
(* other way round, which a dive and the revisions break and restore; what *)
(* waits to be revised; what has been expanded; what the tips of the two   *)
(* partial trees are; and the costs that are reported.                     *)

GraphOK ==
  /\ prob \in Problems
  /\ IsFiniteSet(Nodes) /\ Top \in Nodes /\ \A n \in Nodes : InSpace(n)
  /\ kids \in [Nodes -> SUBSET Nodes] /\ parents \in [Nodes -> SUBSET Nodes]
  /\ value \in [Nodes -> Known] /\ solved \in [Nodes -> BOOLEAN]
  /\ best \in [Nodes -> Nodes \cup {NULL}]
  /\ \A n \in Nodes : kids[n] = {} \/ kids[n] = KidSet(n)
  /\ \A n \in Nodes : parents[n] = {p \in Nodes : n \in kids[p]}

UpperOK ==
  /\ \A n \in Nodes : /\ UpperAt(n, value[n])
                      /\ solved[n] \/ IsTerminal(n) => TightAt(n, value[n])
  /\ bound \in Known /\ ~Greater(Exact(Top), bound) /\ ~Greater(bound, value[Top])

Lowered == IF Anytime THEN Nodes ELSE {Top}

LowerOK ==
  /\ feasibleValue \in [Lowered -> Known] /\ feasible \in [Lowered -> BOOLEAN]
  /\ feasibleChild \in [Lowered -> Nodes \cup {NULL}]
  /\ \A n \in Lowered : LowerAt(n, feasibleValue[n])
  /\ \A n \in Lowered : feasibleChild[n] # NULL => feasibleChild[n] \in kids[n]

Down(n) ==
  solved[n] => /\ kids[n] = KidSet(n)
               /\ IF IsOrNode(n) THEN best[n] \in kids[n] /\ solved[best[n]]
                  ELSE \A m \in kids[n] : solved[m]
Up(n) ==
  kids[n] # {} => IF IsOrNode(n) THEN best[n] \in kids[n] /\ (solved[best[n]] => solved[n])
                  ELSE (\A m \in kids[n] : solved[m]) => solved[n]

FlagsOK ==
  /\ stage \in {"choose", "revise", "feasible", "best"} => \A n \in Nodes : Down(n)
  /\ stage = "revise" => \A n \in Nodes : n \notin DOMAIN revise => Up(n)
  /\ stage \in {"choose", "feasible", "best"} /\ ~repairNeeded => \A n \in Nodes : Up(n)
  /\ stage = "repair" => \A n \in Nodes : LayerOf(n) > layer => Down(n) /\ Up(n)

WaitOK ==
  /\ DOMAIN revise \subseteq Nodes /\ revise \in [DOMAIN revise -> Nat]
  /\ \A e \in DOMAIN revise : /\ kids[e] = KidSet(e) /\ (Anytime => e \in expanded)
                              /\ revise[e] <= VisitedKids(e, DOMAIN revise)
                              /\ stage = "revise" => ~solved[e]
  /\ stage \in {"choose", "best", "repair"} => DOMAIN revise = {}

ExpandedOK ==
  /\ expanded \subseteq Nodes
  /\ \A n \in expanded :
       /\ kids[n] = KidSet(n)
       /\ kids[n] = {} => solved[n] \/ (n \in DOMAIN revise /\ (stage = "feasible" => repairNeeded))
  /\ Anytime => \A n \in Nodes : kids[n] # {} => n \in expanded
  /\ repairNeeded => Top \in expanded
  /\ Anytime /\ stage = "revise" => next \in expanded

StageOK ==
  /\ algorithm \in Algorithms /\ repairNeeded \in BOOLEAN /\ layer \in Int
  /\ stage \in {"choose", "revise", "feasible", "repair", "best", "done", "gaveup"}
  /\ ~Anytime => /\ stage \in {"choose", "revise", "done", "gaveup"}
                 /\ ~repairNeeded /\ expanded = {} /\ diveTips = {}
  /\ stage = "repair" => repairNeeded /\ layer >= -1
  /\ stage \in {"revise", "best"} => ~repairNeeded

TipOK(n) == n \in Nodes /\ kids[n] = {} /\ ~solved[n] /\ Agrees(n, assignment)

TipsOK ==
  /\ stage \in {"choose", "feasible", "best"} /\ ~repairNeeded =>
       /\ \A n \in tips : TipOK(n)
       /\ tips = {} => solved[Top] \/ (stage = "choose" /\ diveTips # {})
       /\ solved[Top] => tips = {}
  /\ stage = "choose" => /\ diveTips \subseteq MarkedTree \cap Nodes
                         /\ \A n \in diveTips : kids[n] = {} /\ ~solved[n]

CostsOK ==
  /\ curCost \in Cost /\ ~Greater(curCost, Exact(Top))
  /\ upper \in Cost /\ ~Greater(Exact(Top), upper)
  /\ stage = "done" => curCost = Exact(Top) /\ upper = Exact(Top)

AOInv ==
  /\ GraphOK /\ UpperOK /\ LowerOK /\ FlagsOK /\ WaitOK /\ ExpandedOK /\ StageOK /\ TipsOK
  /\ CostsOK

-----------------------------------------------------------------------------
(* Nodes. *)

(* A node of the space is made of its parts, and is not NULL.              *)
LEMMA NodeShape ==
  ASSUME NEW n, InSpace(n)
  PROVE  /\ n.var \in Vars /\ n.ctx \in Assignments(Ctx[n.var]) /\ DOMAIN n.ctx = Ctx[n.var]
         /\ n # NULL
         /\ IsOrNode(n) => IsOr(n) /\ n = OrNode(n.var, n.ctx)
         /\ ~IsOrNode(n) => /\ IsAnd(n) /\ n.val \in Values(n.var)
                            /\ n = AndNode(OrNode(n.var, n.ctx), n.val)
                            /\ IsOr(OrNode(n.var, n.ctx)) /\ IsOrNode(OrNode(n.var, n.ctx))
<1>1. CASE IsOr(n)
  <2>1. PICK x \in Vars : \E c \in Assignments(Ctx[x]) : n = OrNode(x, c)
    BY <1>1 DEF IsOr
  <2>4. PICK c \in Assignments(Ctx[x]) : n = OrNode(x, c)
    BY <2>1
  <2>2. n.var = x /\ n.ctx = c /\ IsOrNode(n) /\ n # NULL
    BY <2>4 DEF OrNode, IsOrNode, NULL
  <2>3. DOMAIN c = Ctx[x]
    BY DEF Assignments
  <2> QED  BY <1>1, <2>2, <2>3, <2>4
<1>2. CASE IsAnd(n)
  <2>1. PICK x \in Vars : \E c \in Assignments(Ctx[x]) : \E v \in Values(x) :
               n = AndNode(OrNode(x, c), v)
    BY <1>2 DEF IsAnd
  <2>5. PICK c \in Assignments(Ctx[x]) : \E v \in Values(x) : n = AndNode(OrNode(x, c), v)
    BY <2>1
  <2>6. PICK v \in Values(x) : n = AndNode(OrNode(x, c), v)
    BY <2>5
  <2>2. n.var = x /\ n.ctx = c /\ n.val = v /\ ~IsOrNode(n) /\ n # NULL
    BY <2>6 DEF OrNode, AndNode, IsOrNode, NULL
  <2>3. DOMAIN c = Ctx[x]
    BY DEF Assignments
  <2>4. IsOrNode(OrNode(x, c))
    BY DEF OrNode, IsOrNode
  <2> QED  BY <1>2, <2>2, <2>3, <2>4, <2>6 DEF IsOr
<1> QED  BY <1>1, <1>2 DEF InSpace

(* The parts of a node.                                                    *)
LEMMA NodeParts ==
  ASSUME NEW x, NEW c, NEW o, NEW v
  PROVE  /\ OrNode(x, c).var = x /\ OrNode(x, c).ctx = c /\ IsOrNode(OrNode(x, c))
         /\ AndNode(o, v).var = o.var /\ AndNode(o, v).ctx = o.ctx /\ AndNode(o, v).val = v
         /\ ~IsOrNode(AndNode(o, v))
BY DEF OrNode, AndNode, IsOrNode

(* The root is the only OR node of its variable; it has one value.         *)
LEMMA RootShape ==
  /\ IsOr(Top) /\ InSpace(Top) /\ IsOrNode(Top) /\ Top.var = Root /\ Top.ctx = <<>>
  /\ \A c \in Assignments(Ctx[Root]) : c = <<>>
  /\ \A n : IsOr(n) /\ n.var = Root => n = Top
  /\ Values(Root) = {0}
<1>1. Root \in Vars /\ Ctx[Root] = {}
  BY ModelAssumption, PseudotreeAssumption
<1>2. <<>> \in Assignments({}) /\ \A c \in Assignments({}) : c = <<>>
  BY DEF Assignments
<1>3. Top.var = Root /\ Top.ctx = <<>> /\ IsOrNode(Top)
  BY NodeParts DEF Top
<1>4. IsOr(Top) /\ InSpace(Top)
  BY <1>1, <1>2 DEF IsOr, InSpace, Top
<1>5. ASSUME NEW n, IsOr(n), n.var = Root PROVE n = Top
  <2>1. PICK x \in Vars : \E c \in Assignments(Ctx[x]) : n = OrNode(x, c)
    BY <1>5 DEF IsOr
  <2>2. PICK c \in Assignments(Ctx[x]) : n = OrNode(x, c)
    BY <2>1
  <2>3. x = Root /\ c = <<>>
    BY <1>1, <1>2, <1>5, <2>2 DEF OrNode
  <2> QED  BY <2>2, <2>3 DEF Top
<1>6. Values(Root) = {0}
  BY DummyAssumption DEF Values
<1> QED  BY <1>1, <1>2, <1>3, <1>4, <1>5, <1>6

(* A variable has finitely many values, at least one.                      *)
LEMMA FiniteValues ==
  ASSUME NEW x \in Vars
  PROVE  /\ Values(x) # {} /\ Values(x) \subseteq Int /\ IsFiniteSet(Values(x))
         /\ IsFiniteSet(ChildSet(x))
<1>1. Dom[x] \in Nat \ {0} /\ PtChildren[x] \in Seq(Vars)
  BY ModelAssumption
<1>2. 0 \in Values(x) /\ Values(x) \subseteq Int
  BY <1>1 DEF Values
<1>3. IsFiniteSet(Values(x))
  BY <1>1, FS_Interval DEF Values
<1>4. IsFiniteSet(ChildSet(x))
  BY <1>1, FiniteElements DEF ChildSet, Elements
<1> QED  BY <1>2, <1>3, <1>4

-----------------------------------------------------------------------------
(* Variables. *)

(* The child of a variable is a variable, and that is its parent.          *)
LEMMA ParentOfChild ==
  ASSUME NEW y \in Vars, NEW x \in ChildSet(y)
  PROVE  x \in Vars /\ x # Root /\ PtParent(x) = y
<1>1. PtChildren[y] \in Seq(Vars)
  BY ModelAssumption
<1>2. PICK i \in DOMAIN PtChildren[y] : x = PtChildren[y][i]
  BY DEF ChildSet
<1>3. x \in Vars
  BY <1>1, <1>2, InQueue DEF Elements
<1>4. \A z \in Vars : x \in ChildSet(z) => z = y
  BY <1>3, PseudotreeAssumption
<1>5. x # Root
  BY PseudotreeAssumption
<1> QED  BY <1>3, <1>4, <1>5 DEF PtParent

(* The parent of a variable other than the root has it as a child.         *)
LEMMA ParentVariable ==
  ASSUME NEW x \in Vars, x # Root
  PROVE  PtParent(x) \in Vars /\ x \in ChildSet(PtParent(x))
<1> DEFINE S == {Root} \cup {y \in Vars : \E z \in Vars : y \in ChildSet(z)}
<1>1. S \in SUBSET Vars /\ Root \in S
  BY ModelAssumption
<1>2. \A y \in S : ChildSet(y) \subseteq S
  BY <1>1, ParentOfChild
<1> HIDE DEF S
<1>3. S = Vars
  BY <1>1, <1>2, PseudotreeAssumption
<1>4. PICK z \in Vars : x \in ChildSet(z)
  BY <1>3 DEF S
<1> QED  BY <1>4, ParentOfChild

(* The depth of a variable is one more than that of its parent.            *)
LEMMA DepthOfChild ==
  /\ \A x \in Vars : Depth[x] \in Int /\ Depth[x] >= -1
  /\ Depth[Root] = -1
  /\ \A y \in Vars : \A x \in ChildSet(y) : Depth[x] = Depth[y] + 1
<1> DEFINE up == [x \in Vars |-> PtParent(x)]
           Solves(g) == g = [x \in Vars |-> IF x = Root THEN -1 ELSE g[PtParent(x)] + 1]
<1>1. RootedTree(Vars, Root, up)
  <2>1. Root \in Vars /\ \A x \in Vars \ {Root} : up[x] \in Vars
    BY ParentVariable, ModelAssumption
  <2>2. ASSUME NEW S \in SUBSET Vars, Root \in S, \A x \in Vars \ {Root} : up[x] \in S => x \in S
        PROVE  S = Vars
    <3>1. ASSUME NEW y \in S PROVE ChildSet(y) \subseteq S
      BY <2>2, <3>1, ParentOfChild
    <3> HIDE DEF up
    <3> QED  BY <2>2, <3>1, PseudotreeAssumption
  <2> HIDE DEF up
  <2> QED  BY <2>1, <2>2 DEF RootedTree
<1>2. PICK d : IsDepth(d, Vars, Root, up, -1)
  <2> HIDE DEF up
  <2> QED  BY <1>1, TreeDepth
<1>3. Solves(d)
  <2>1. \A x \in Vars : d[x] = IF x = Root THEN -1 ELSE d[PtParent(x)] + 1
    BY <1>2 DEF IsDepth
  <2>2. d = [x \in Vars |-> d[x]]
    BY <1>2 DEF IsDepth
  <2> HIDE DEF up
  <2> QED  BY <2>1, <2>2
<1>4. \E g : Solves(g)
  BY <1>3
<1>5. Solves(Depth)
  BY <1>4, Zenon DEF Depth
<1>6. Depth = [x \in Vars |-> IF x = Root THEN -1 ELSE Depth[up[x]] + 1]
  BY <1>5
<1>7. IsDepth(Depth, Vars, Root, up, -1)
  <2> HIDE DEF up, Solves
  <2> QED  BY <1>1, <1>6, OneDepth
<1>8. \A x \in Vars : Depth[x] \in Int /\ Depth[x] >= -1
                    /\ Depth[x] = IF x = Root THEN -1 ELSE Depth[PtParent(x)] + 1
  BY <1>7 DEF IsDepth
<1>9. ASSUME NEW y \in Vars, NEW x \in ChildSet(y) PROVE Depth[x] = Depth[y] + 1
  BY <1>8, ParentOfChild
<1> QED  BY <1>8, <1>9, ModelAssumption


-----------------------------------------------------------------------------
(* The children of a node. *)

(* The children of an OR node are its values.                              *)
LEMMA KidsOfOr ==
  ASSUME NEW o, InSpace(o), IsOrNode(o)
  PROVE  /\ KidSet(o) = {AndNode(o, v) : v \in Values(o.var)}
         /\ KidSet(o) # {} /\ IsFiniteSet(KidSet(o))
         /\ \A m \in KidSet(o) :
              /\ InSpace(m) /\ ~IsOrNode(m) /\ m.var = o.var /\ m.ctx = o.ctx
              /\ OrNode(m.var, m.ctx) = o /\ m = AndNode(o, m.val)
              /\ m.val \in Values(o.var) /\ m.val \in Int
<1>1. KidSet(o) = {AndNode(o, v) : v \in Values(o.var)}
  BY DEF KidSet, ChildrenOf
<1>2. PICK x \in Vars : \E c \in Assignments(Ctx[x]) : o = OrNode(x, c)
  BY NodeShape DEF IsOr
<1>3. PICK c \in Assignments(Ctx[x]) : o = OrNode(x, c)
  BY <1>2
<1>4. o.var = x /\ o.ctx = c /\ OrNode(o.var, o.ctx) = o
  BY <1>3, NodeParts
<1>5. Values(x) # {} /\ Values(x) \subseteq Int /\ IsFiniteSet(Values(x))
  BY FiniteValues
<1>6. ASSUME NEW m \in KidSet(o)
      PROVE  /\ InSpace(m) /\ ~IsOrNode(m) /\ m.var = o.var /\ m.ctx = o.ctx
             /\ OrNode(m.var, m.ctx) = o /\ m = AndNode(o, m.val)
             /\ m.val \in Values(o.var) /\ m.val \in Int
  <2>1. PICK v \in Values(x) : m = AndNode(o, v)
    BY <1>1, <1>4
  <2>2. m.var = o.var /\ m.ctx = o.ctx /\ m.val = v /\ ~IsOrNode(m)
    BY <2>1, NodeParts
  <2>3. InSpace(m)
    BY <1>3, <2>1 DEF InSpace, IsAnd
  <2> QED  BY <1>4, <1>5, <2>1, <2>2, <2>3
<1>7. IsFiniteSet({AndNode(o, v) : v \in Values(o.var)})
  <2> DEFINE f == [v \in Values(o.var) |-> AndNode(o, v)]
  <2>1. IsFiniteSet({f[v] : v \in Values(o.var)})
    <3> HIDE DEF f
    <3> QED  BY <1>4, <1>5, FiniteImage
  <2>2. {f[v] : v \in Values(o.var)} = {AndNode(o, v) : v \in Values(o.var)}
    OBVIOUS
  <2> QED  BY <2>1, <2>2
<1> QED  BY <1>1, <1>4, <1>5, <1>6, <1>7

(* What an AND node assigns.                                               *)
LEMMA AssignedByAnd ==
  ASSUME NEW n, InSpace(n), ~IsOrNode(n)
  PROVE  /\ AssignmentOf(n) \in Assignments(Ctx[n.var] \cup {n.var})
         /\ DOMAIN AssignmentOf(n) = Ctx[n.var] \cup {n.var}
         /\ AssignmentOf(n) = With(n.var, n.ctx, n.val)
<1>1. n.var \in Vars /\ n.ctx \in Assignments(Ctx[n.var]) /\ DOMAIN n.ctx = Ctx[n.var]
      /\ n.val \in Values(n.var)
  BY NodeShape
<1>2. AssignmentOf(n) = With(n.var, n.ctx, n.val)
  BY <1>1 DEF AssignmentOf, Extended, With
<1>3. With(n.var, n.ctx, n.val) \in Assignments(Ctx[n.var] \cup {n.var})
  BY <1>1 DEF With, Assignments
<1> QED  BY <1>2, <1>3 DEF Assignments

(* The children of an AND node are one for each child of its variable.     *)
LEMMA KidsOfAnd ==
  ASSUME NEW n, InSpace(n), ~IsOrNode(n)
  PROVE  /\ KidSet(n) = {OrNode(y, Restriction(AssignmentOf(n), Ctx[y])) : y \in ChildSet(n.var)}
         /\ IsFiniteSet(KidSet(n)) /\ (KidSet(n) = {} <=> ChildSet(n.var) = {})
         /\ \A y \in ChildSet(n.var) :
              Restriction(AssignmentOf(n), Ctx[y]) \in Assignments(Ctx[y])
         /\ \A m \in KidSet(n) :
              /\ InSpace(m) /\ IsOrNode(m) /\ m.var \in ChildSet(n.var) /\ m # Top
              /\ m = OrNode(m.var, Restriction(AssignmentOf(n), Ctx[m.var]))
<1>1. KidSet(n) = {OrNode(y, Restriction(AssignmentOf(n), Ctx[y])) : y \in ChildSet(n.var)}
  BY DEF KidSet, ChildrenOf, Key
<1>2. n.var \in Vars /\ AssignmentOf(n) \in Assignments(Ctx[n.var] \cup {n.var})
  BY NodeShape, AssignedByAnd
<1>3. ASSUME NEW y \in ChildSet(n.var)
      PROVE  /\ y \in Vars /\ y # Root
             /\ Restriction(AssignmentOf(n), Ctx[y]) \in Assignments(Ctx[y])
  <2>1. y \in Vars /\ y # Root
    BY <1>2, ParentOfChild
  <2>2. Ctx[y] \subseteq Ctx[n.var] \cup {n.var}
    BY <1>2, <2>1, PseudotreeAssumption
  <2> DEFINE a == AssignmentOf(n)
             S == Ctx[n.var] \cup {n.var}
  <2>3. a \in Assignments(S) /\ Ctx[y] \subseteq S
    BY <1>2, <2>2
  <2> HIDE DEF a, S
  <2>4. Restriction(a, Ctx[y]) \in Assignments(Ctx[y])
    BY <2>3 DEF Restriction, Assignments
  <2> QED  BY <2>1, <2>4 DEF a
<1>4. ASSUME NEW m \in KidSet(n)
      PROVE  /\ InSpace(m) /\ IsOrNode(m) /\ m.var \in ChildSet(n.var) /\ m # Top
             /\ m = OrNode(m.var, Restriction(AssignmentOf(n), Ctx[m.var]))
  <2>1. PICK y \in ChildSet(n.var) : m = OrNode(y, Restriction(AssignmentOf(n), Ctx[y]))
    BY <1>1
  <2>2. m.var = y /\ IsOrNode(m)
    BY <2>1, NodeParts
  <2>3. InSpace(m) /\ m # Top
    BY <1>3, <2>1, <2>2, RootShape DEF InSpace, IsOr
  <2> QED  BY <2>1, <2>2, <2>3
<1>5. IsFiniteSet({OrNode(y, Restriction(AssignmentOf(n), Ctx[y])) : y \in ChildSet(n.var)})
  <2> DEFINE f == [y \in ChildSet(n.var) |-> OrNode(y, Restriction(AssignmentOf(n), Ctx[y]))]
  <2>1. IsFiniteSet({f[y] : y \in ChildSet(n.var)})
    <3> HIDE DEF f
    <3> QED  BY <1>2, FiniteValues, FiniteImage
  <2>2. {f[y] : y \in ChildSet(n.var)}
        = {OrNode(y, Restriction(AssignmentOf(n), Ctx[y])) : y \in ChildSet(n.var)}
    OBVIOUS
  <2> QED  BY <2>1, <2>2
<1>6. KidSet(n) = {} <=> ChildSet(n.var) = {}
  BY <1>1
<1> QED  BY <1>1, <1>3, <1>4, <1>5, <1>6

(* The layers count the steps from the root.                               *)
LEMMA KidLayer ==
  ASSUME NEW n, InSpace(n)
  PROVE  /\ LayerOf(n) \in Nat
         /\ \A m \in KidSet(n) : LayerOf(m) = LayerOf(n) + 1
<1>1. n.var \in Vars /\ Depth[n.var] \in Int /\ Depth[n.var] >= -1
  BY NodeShape, DepthOfChild
<1>2. LayerOf(n) \in Nat
  BY <1>1 DEF LayerOf
<1>3. ASSUME NEW m \in KidSet(n) PROVE LayerOf(m) = LayerOf(n) + 1
  <2>1. CASE IsOrNode(n)
    <3>1. m.var = n.var /\ ~IsOrNode(m)
      BY <2>1, KidsOfOr
    <3> QED  BY <1>1, <2>1, <3>1 DEF LayerOf
  <2>2. CASE ~IsOrNode(n)
    <3>1. m.var \in ChildSet(n.var) /\ IsOrNode(m)
      BY <2>2, KidsOfAnd
    <3>2. Depth[m.var] = Depth[n.var] + 1
      BY <1>1, <3>1, DepthOfChild
    <3> QED  BY <1>1, <2>2, <3>1, <3>2 DEF LayerOf
  <2> QED  BY <2>1, <2>2
<1> QED  BY <1>2, <1>3

(* An assignment that agrees with a node gives it its children.            *)
LEMMA AgreedKids ==
  ASSUME NEW n, InSpace(n), NEW asg, Agrees(n, asg)
  PROVE  ChildrenOf(n, asg) = KidSet(n)
<1>1. CASE IsOrNode(n)
  BY <1>1 DEF KidSet, ChildrenOf
<1>2. CASE ~IsOrNode(n)
  <2>1. n.var \in Vars /\ DOMAIN AssignmentOf(n) = Ctx[n.var] \cup {n.var}
    BY <1>2, NodeShape, AssignedByAnd
  <2>2. \A y \in Ctx[n.var] \cup {n.var} : asg[y] = AssignmentOf(n)[y]
    BY <1>2, <2>1 DEF Agrees, Given
  <2>3. ASSUME NEW x \in ChildSet(n.var) PROVE Key(asg, x) = Key(AssignmentOf(n), x)
    <3>1. Ctx[x] \subseteq Ctx[n.var] \cup {n.var}
      BY <2>1, ParentOfChild, PseudotreeAssumption
    <3> QED  BY <2>2, <3>1 DEF Key, Restriction
  <2>4. \A x \in ChildSet(n.var) :
          OrNode(x, Key(asg, x)) = OrNode(x, Key(AssignmentOf(n), x))
    BY <2>3
  <2>5. {OrNode(x, Key(asg, x)) : x \in ChildSet(n.var)}
        = {OrNode(x, Key(AssignmentOf(n), x)) : x \in ChildSet(n.var)}
    BY <2>4
  <2> QED  BY <1>2, <2>5 DEF KidSet, ChildrenOf
<1> QED  BY <1>1, <1>2

-----------------------------------------------------------------------------
(* Exact values: what a node is worth follows from what its children are.  *)

(* The restriction of an assignment to all it assigns changes nothing.     *)
LEMMA OwnLabel ==
  ASSUME NEW n, InSpace(n), ~IsOrNode(n)
  PROVE  Restriction(AssignmentOf(n), Ctx[n.var] \cup {n.var}) = AssignmentOf(n)
<1>1. AssignmentOf(n) = With(n.var, n.ctx, n.val)
  BY AssignedByAnd
<1> QED  BY <1>1 DEF Restriction, With

(* The weight of a node is a cost: the label of its value.                 *)
LEMMA ArcCost ==
  ASSUME prob \in Problems, NEW n, InSpace(n)
  PROVE  /\ Arc(n) \in Known
         /\ IsOrNode(n) => Arc(n) = ELEM_ONE
         /\ ~IsOrNode(n) =>
              /\ Arc(n) = Weight(OrNode(n.var, n.ctx), n.val)
              /\ prob.label[n.var][AssignmentOf(n)] \in Known
              /\ IF OrNode(n.var, n.ctx) = Top THEN Arc(n) = ELEM_ONE
                 ELSE Arc(n) = prob.label[n.var][AssignmentOf(n)]
<1>1. CASE IsOrNode(n)
  BY <1>1, TimesLaws DEF Arc
<1>2. CASE ~IsOrNode(n)
  <2>1. Arc(n) = Weight(OrNode(n.var, n.ctx), n.val)
    BY <1>2 DEF Arc
  <2>2. OrNode(n.var, n.ctx).var = n.var /\ OrNode(n.var, n.ctx).ctx = n.ctx
    BY NodeParts
  <2>3. /\ OrNode(n.var, n.ctx) = Top => Arc(n) = ELEM_ONE
        /\ OrNode(n.var, n.ctx) # Top => Arc(n) = Label(prob, n.var, AssignmentOf(n))
    BY <2>1, <2>2 DEF Weight, AssignmentOf
  <2>4. Label(prob, n.var, AssignmentOf(n)) = prob.label[n.var][AssignmentOf(n)]
    BY <1>2, OwnLabel DEF Label
  <2>5. prob.label[n.var][AssignmentOf(n)] \in Known
    BY <1>2, AssignedByAnd, NodeShape, ProblemAssumption
  <2> QED  BY <1>2, <2>1, <2>3, <2>4, <2>5, TimesLaws
<1> QED  BY <1>1, <1>2

(* Below an AND node, the exact values of the subproblems are multiplied.  *)
LEMMA ExactProduct ==
  ASSUME prob \in Problems, NEW n, InSpace(n), ~IsOrNode(n)
  PROVE  /\ IsFiniteSet(ChildSet(n.var)) /\ n.var \in Vars
         /\ [y \in ChildSet(n.var) |-> prob.opt[y][Restriction(AssignmentOf(n), Ctx[y])]]
              \in [ChildSet(n.var) -> Known]
         /\ ExactBelow(n) = Product([y \in ChildSet(n.var) |->
              prob.opt[y][Restriction(AssignmentOf(n), Ctx[y])]])
         /\ ExactBelow(n) \in Known
<1>1. n.var \in Vars /\ IsFiniteSet(ChildSet(n.var))
  BY NodeShape, FiniteValues
<1>2. \A y \in ChildSet(n.var) : prob.opt[y][Restriction(AssignmentOf(n), Ctx[y])] \in Known
  BY <1>1, KidsOfAnd, ParentOfChild, ProblemAssumption
<1>3. ExactBelow(n) = Product([y \in ChildSet(n.var) |->
        prob.opt[y][Restriction(AssignmentOf(n), Ctx[y])]])
  BY DEF ExactBelow
<1> DEFINE f == [y \in ChildSet(n.var) |-> prob.opt[y][Restriction(AssignmentOf(n), Ctx[y])]]
<1>4. f \in [ChildSet(n.var) -> Known]
  BY <1>2
<1>5. Product(f) \in Known
  <2> HIDE DEF f
  <2> QED  BY <1>1, <1>4, ProductKnown
<1> QED  BY <1>1, <1>3, <1>4, <1>5

(* What an OR node may be worth by one of its values                       *)
OverValue(o) == [v \in Values(o.var) |-> Times(Weight(o, v), ExactBelow(AndNode(o, v)))]

(* The exact value of an OR node is the largest of its children's, and     *)
(* but for the root it is what the problem says it is.                     *)
LEMMA ExactMaximum ==
  ASSUME prob \in Problems, NEW o, InSpace(o), IsOrNode(o)
  PROVE  /\ Exact(o) \in Known
         /\ \A m \in KidSet(o) : /\ Weight(o, m.val) = Arc(m)
                                 /\ ~Greater(Times(Arc(m), ExactBelow(m)), Exact(o))
         /\ \A q \in Known : (\A m \in KidSet(o) : ~Greater(Times(Arc(m), ExactBelow(m)), q))
                               => ~Greater(Exact(o), q)
         /\ o # Top => Exact(o) = prob.opt[o.var][o.ctx]
<1>1. /\ KidSet(o) = {AndNode(o, v) : v \in Values(o.var)}
      /\ \A m \in KidSet(o) :
              /\ InSpace(m) /\ ~IsOrNode(m) /\ m.var = o.var /\ m.ctx = o.ctx
              /\ OrNode(m.var, m.ctx) = o /\ m = AndNode(o, m.val)
              /\ m.val \in Values(o.var) /\ m.val \in Int
  BY KidsOfOr
<1>2. \A m \in KidSet(o) : /\ Weight(o, m.val) = Arc(m) /\ Arc(m) \in Known
                           /\ ExactBelow(m) \in Known
  BY <1>1, ArcCost, ExactProduct
<1>3. ASSUME NEW v \in Values(o.var)
      PROVE  /\ AndNode(o, v) \in KidSet(o) /\ AndNode(o, v).val = v
             /\ OverValue(o)[v] = Times(Arc(AndNode(o, v)), ExactBelow(AndNode(o, v)))
             /\ OverValue(o)[v] \in Known
  <2>1. AndNode(o, v) \in KidSet(o) /\ AndNode(o, v).val = v
    BY <1>1, NodeParts
  <2>2. Weight(o, v) = Arc(AndNode(o, v)) /\ Arc(AndNode(o, v)) \in Known
        /\ ExactBelow(AndNode(o, v)) \in Known
    BY <1>2, <2>1
  <2>3. OverValue(o)[v] = Times(Weight(o, v), ExactBelow(AndNode(o, v)))
    BY DEF OverValue
  <2> QED  BY <2>1, <2>2, <2>3, TimesLaws
<1>4. o.var \in Vars /\ IsFiniteSet(Values(o.var)) /\ Values(o.var) # {}
  BY NodeShape, FiniteValues
<1>5. OverValue(o) \in [Values(o.var) -> Known] /\ Exact(o) = Maximum(OverValue(o))
  BY <1>3 DEF Exact, OverValue
<1>6. /\ Exact(o) \in Known
      /\ \A v \in Values(o.var) : ~Greater(OverValue(o)[v], Exact(o))
      /\ Exact(o) = ELEM_ZERO \/ \E v \in Values(o.var) : Exact(o) = OverValue(o)[v]
  BY <1>4, <1>5, MaximumOf
<1>7. ASSUME NEW m \in KidSet(o) PROVE ~Greater(Times(Arc(m), ExactBelow(m)), Exact(o))
  BY <1>1, <1>3, <1>6
<1>8. ASSUME NEW q \in Known, \A m \in KidSet(o) : ~Greater(Times(Arc(m), ExactBelow(m)), q)
      PROVE  ~Greater(Exact(o), q)
  <2>1. CASE Exact(o) = ELEM_ZERO
    BY <2>1, NeverGreater, TimesLaws
  <2>2. CASE Exact(o) # ELEM_ZERO
    BY <1>3, <1>6, <1>8, <2>2
  <2> QED  BY <2>1, <2>2
<1>9. ASSUME o # Top PROVE Exact(o) = prob.opt[o.var][o.ctx]
  <2> DEFINE x == o.var
             c == o.ctx
  <2>1. x \in Vars /\ c \in Assignments(Ctx[x]) /\ o = OrNode(x, c)
    BY NodeShape
  <2>2. ASSUME NEW v \in Values(x)
        PROVE  Times(prob.label[x][With(x, c, v)],
                 Product([y \in ChildSet(x) |-> prob.opt[y][Restriction(With(x, c, v), Ctx[y])]]))
               = OverValue(o)[v]
    <3> DEFINE m == AndNode(o, v)
    <3>1. m \in KidSet(o) /\ m.var = x /\ m.ctx = c /\ m.val = v
      BY <1>3, NodeParts
    <3>2. InSpace(m) /\ ~IsOrNode(m) /\ OrNode(m.var, m.ctx) = o
      BY <1>1, <3>1
    <3>3. AssignmentOf(m) = With(x, c, v)
      BY <3>1, <3>2, AssignedByAnd
    <3>4. Arc(m) = prob.label[x][With(x, c, v)]
      BY <1>9, <3>1, <3>2, <3>3, ArcCost
    <3>5. ExactBelow(m) = Product([y \in ChildSet(x) |->
                                    prob.opt[y][Restriction(With(x, c, v), Ctx[y])]])
      BY <3>1, <3>3 DEF ExactBelow
    <3> QED  BY <1>3, <3>4, <3>5
  <2>3. prob.opt[x][c] = Maximum([v \in Values(x) |->
                   Times(prob.label[x][With(x, c, v)],
                         Product([y \in ChildSet(x) |->
                           prob.opt[y][Restriction(With(x, c, v), Ctx[y])]]))])
    BY <2>1, ProblemAssumption
  <2>4. [v \in Values(x) |->
                   Times(prob.label[x][With(x, c, v)],
                         Product([y \in ChildSet(x) |->
                           prob.opt[y][Restriction(With(x, c, v), Ctx[y])]]))]
        = OverValue(o)
    <3> DEFINE e(v) == Times(prob.label[x][With(x, c, v)],
                         Product([y \in ChildSet(x) |->
                           prob.opt[y][Restriction(With(x, c, v), Ctx[y])]]))
    <3>1. OverValue(o) = [v \in Values(x) |-> OverValue(o)[v]]
      BY DEF OverValue
    <3>2. \A v \in Values(x) : e(v) = OverValue(o)[v]
      BY <2>2
    <3> HIDE DEF e, x, c
    <3>3. [v \in Values(x) |-> e(v)] = [v \in Values(x) |-> OverValue(o)[v]]
      BY <3>2
    <3> QED  BY <3>1, <3>3 DEF e
  <2> QED  BY <1>5, <2>3, <2>4
<1> QED  BY <1>2, <1>6, <1>7, <1>8, <1>9

(* The children of an AND node correspond to those of its variable, and    *)
(* are worth what the product of the exact values takes from them.         *)
LEMMA KidsAndVariables ==
  ASSUME prob \in Problems, NEW n, InSpace(n), ~IsOrNode(n)
  PROVE  LET S == ChildSet(n.var)
             f == [y \in S |-> prob.opt[y][Restriction(AssignmentOf(n), Ctx[y])]]
             h == [y \in S |-> OrNode(y, Restriction(AssignmentOf(n), Ctx[y]))]
             g == [m \in KidSet(n) |-> m.var]
         IN  /\ h \in [S -> KidSet(n)] /\ \A x, y \in S : h[x] = h[y] => x = y
             /\ \A m \in KidSet(n) : \E y \in S : h[y] = m
             /\ g \in [KidSet(n) -> S] /\ \A k, m \in KidSet(n) : g[k] = g[m] => k = m
             /\ \A y \in S : \E m \in KidSet(n) : g[m] = y
             /\ \A y \in S : Exact(h[y]) = f[y]
             /\ \A m \in KidSet(n) : Exact(m) = f[g[m]]
<1> DEFINE S == ChildSet(n.var)
           f == [y \in S |-> prob.opt[y][Restriction(AssignmentOf(n), Ctx[y])]]
           h == [y \in S |-> OrNode(y, Restriction(AssignmentOf(n), Ctx[y]))]
           g == [m \in KidSet(n) |-> m.var]
<1>1. /\ KidSet(n) = {OrNode(y, Restriction(AssignmentOf(n), Ctx[y])) : y \in S}
      /\ \A m \in KidSet(n) :
           /\ InSpace(m) /\ IsOrNode(m) /\ m.var \in S /\ m # Top
           /\ m = OrNode(m.var, Restriction(AssignmentOf(n), Ctx[m.var]))
  BY KidsOfAnd
<1>2. \A y \in S : h[y] \in KidSet(n) /\ h[y].var = y
  BY <1>1, NodeParts
<1>3. \A m \in KidSet(n) : m.var \in S /\ m = h[m.var]
  BY <1>1
<1>4. ASSUME NEW m \in KidSet(n) PROVE Exact(m) = f[m.var]
  <2>1. Exact(m) = prob.opt[m.var][m.ctx]
    BY <1>1, ExactMaximum
  <2>2. m.ctx = Restriction(AssignmentOf(n), Ctx[m.var])
    BY <1>1, NodeParts
  <2> QED  BY <1>3, <2>1, <2>2
<1>5. h = [y \in S |-> h[y]]
  OBVIOUS
<1>6. \A m \in KidSet(n) : g[m] = m.var
  OBVIOUS
<1>7. g = [m \in KidSet(n) |-> g[m]]
  OBVIOUS
<1> HIDE DEF S, f, h, g
<1>8. h \in [S -> KidSet(n)] /\ g \in [KidSet(n) -> S]
  BY <1>2, <1>3, <1>5, <1>6, <1>7
<1>9. /\ \A x, y \in S : h[x] = h[y] => x = y
      /\ \A m \in KidSet(n) : \E y \in S : h[y] = m
      /\ \A k, m \in KidSet(n) : g[k] = g[m] => k = m
      /\ \A y \in S : \E m \in KidSet(n) : g[m] = y
      /\ \A y \in S : Exact(h[y]) = f[y]
      /\ \A m \in KidSet(n) : Exact(m) = f[g[m]]
  BY <1>2, <1>3, <1>4, <1>6
<1> QED  BY <1>8, <1>9 DEF S, f, h, g

(* Upper bounds on the children of an AND node multiply to one on what is  *)
(* below it.                                                               *)
LEMMA ProductAbove ==
  ASSUME prob \in Problems, NEW n, InSpace(n), ~IsOrNode(n),
         NEW q \in [KidSet(n) -> Known], \A m \in KidSet(n) : ~Greater(Exact(m), q[m])
  PROVE  Product(q) \in Known /\ ~Greater(ExactBelow(n), Product(q))
<1> DEFINE S == ChildSet(n.var)
           f == [y \in S |-> prob.opt[y][Restriction(AssignmentOf(n), Ctx[y])]]
           h == [y \in S |-> OrNode(y, Restriction(AssignmentOf(n), Ctx[y]))]
<1>1. IsFiniteSet(S) /\ f \in [S -> Known] /\ ExactBelow(n) = Product(f)
  BY ExactProduct
<1>2. /\ h \in [S -> KidSet(n)] /\ \A x, y \in S : h[x] = h[y] => x = y
      /\ \A m \in KidSet(n) : \E y \in S : h[y] = m
      /\ \A y \in S : Exact(h[y]) = f[y]
  BY KidsAndVariables
<1> HIDE DEF S, f, h
<1>3. f \in [S -> Cost]
  BY <1>1, TimesLaws
<1>4. \A y \in S : ~Greater(f[y], q[h[y]])
  BY <1>2
<1>5. ~Greater(Product(f), Product(q))
  BY <1>1, <1>2, <1>3, <1>4, ProductBelow
<1>6. Product(q) \in Known
  BY KidsOfAnd, ProductKnown
<1> QED  BY <1>1, <1>5, <1>6

(* And so do lower bounds.                                                 *)
LEMMA ProductUnder ==
  ASSUME prob \in Problems, NEW n, InSpace(n), ~IsOrNode(n),
         NEW q \in [KidSet(n) -> Known], \A m \in KidSet(n) : ~Greater(q[m], Exact(m))
  PROVE  Product(q) \in Known /\ ~Greater(Product(q), ExactBelow(n))
<1> DEFINE S == ChildSet(n.var)
           f == [y \in S |-> prob.opt[y][Restriction(AssignmentOf(n), Ctx[y])]]
           g == [m \in KidSet(n) |-> m.var]
<1>1. f \in [S -> Known] /\ ExactBelow(n) = Product(f) /\ IsFiniteSet(KidSet(n))
  BY ExactProduct, KidsOfAnd
<1>2. /\ g \in [KidSet(n) -> S] /\ \A k, m \in KidSet(n) : g[k] = g[m] => k = m
      /\ \A y \in S : \E m \in KidSet(n) : g[m] = y
      /\ \A m \in KidSet(n) : Exact(m) = f[g[m]]
  BY KidsAndVariables
<1> HIDE DEF S, f, g
<1>3. q \in [KidSet(n) -> Cost]
  BY TimesLaws
<1>4. \A m \in KidSet(n) : ~Greater(q[m], f[g[m]])
  BY <1>2
<1>5. ~Greater(Product(q), Product(f))
  BY <1>1, <1>2, <1>3, <1>4, ProductBelow
<1>6. Product(q) \in Known
  BY <1>1, ProductKnown
<1> QED  BY <1>1, <1>5, <1>6

-----------------------------------------------------------------------------
(* The heuristic bounds what it is asked for. *)

(* The heuristic below an AND node is an upper bound.                      *)
LEMMA HeurBelow ==
  ASSUME prob \in Problems, NEW n, InSpace(n), ~IsOrNode(n)
  PROVE  /\ HeurOf(prob, n.var, AssignmentOf(n)) \in Known
         /\ ~Greater(ExactBelow(n), HeurOf(prob, n.var, AssignmentOf(n)))
         /\ ChildSet(n.var) = {} =>
              HeurOf(prob, n.var, AssignmentOf(n)) = ELEM_ONE /\ ExactBelow(n) = ELEM_ONE
<1> DEFINE S == ChildSet(n.var)
           c(y) == Restriction(AssignmentOf(n), Ctx[y])
           f == [y \in S |-> prob.opt[y][c(y)]]
           g == [y \in S |-> prob.bound[y][c(y)]]
           id == [y \in S |-> y]
<1>1. IsFiniteSet(S) /\ f \in [S -> Known] /\ ExactBelow(n) = Product(f) /\ n.var \in Vars
  BY ExactProduct
<1>2. HeurOf(prob, n.var, AssignmentOf(n)) = Product(g)
  BY DEF HeurOf, Bound
<1>3. \A y \in S : prob.bound[y][c(y)] \in Known /\ ~Greater(prob.opt[y][c(y)], prob.bound[y][c(y)])
  BY <1>1, KidsOfAnd, ParentOfChild, BoundAssumption
<1>4. /\ g \in [S -> Known] /\ \A y \in S : ~Greater(f[y], g[y])
      /\ id \in [S -> S] /\ \A y \in S : id[y] = y
      /\ S = {} => f = [y \in {} |-> ELEM_ONE] /\ g = [y \in {} |-> ELEM_ONE]
  BY <1>3
<1> HIDE DEF S, f, g, id, c
<1>5. Product(g) \in Known
  BY <1>1, <1>4, ProductKnown
<1>6. f \in [S -> Cost]
  BY <1>1, TimesLaws
<1>7. ~Greater(Product(f), Product(g))
  <2>1. /\ \A x, y \in S : id[x] = id[y] => x = y
        /\ \A y \in S : \E x \in S : id[x] = y
        /\ \A x \in S : ~Greater(f[x], g[id[x]])
    BY <1>4
  <2> QED  BY <1>1, <1>4, <1>6, <2>1, ProductBelow
<1>8. S = {} => Product(f) = ELEM_ONE /\ Product(g) = ELEM_ONE
  BY <1>4, NoFactors
<1> QED  BY <1>1, <1>2, <1>5, <1>7, <1>8 DEF S

(* Dividing by a weight.                                                   *)
LEMMA Divided ==
  ASSUME NEW w \in Known, NEW a \in Known,
         NEW q, q = IF Times(w, a) = ELEM_ZERO THEN ELEM_ZERO ELSE Times(w, a) - w
  PROVE  q \in Known /\ Times(w, q) = Times(w, a)
<1>1. w \in Cost /\ a \in Cost /\ ELEM_ZERO \in Known /\ ELEM_ZERO \in Cost
  BY DEF Cost, Known
<1>2. \A b \in Cost : Times(w, b) = IF ELEM_NAN \in {w, b} THEN ELEM_NAN
                                    ELSE IF ELEM_ZERO \in {w, b} THEN ELEM_ZERO ELSE w + b
  BY <1>1 DEF Times, times
<1>3. w # ELEM_NAN /\ a # ELEM_NAN
  BY SpecialCosts DEF Known
<1>4. CASE ELEM_ZERO \in {w, a}
  BY <1>1, <1>2, <1>3, <1>4, SpecialCosts
<1>5. CASE ELEM_ZERO \notin {w, a}
  <2>1. w \in Int /\ a \in Int /\ Times(w, a) = w + a
    BY <1>1, <1>2, <1>3, <1>5 DEF Known
  <2>2. w + a # ELEM_ZERO /\ (w + a) - w = a
    BY <2>1, SpecialCosts
  <2> QED  BY <2>1, <2>2
<1> QED  BY <1>4, <1>5

(* A bound on a product, divided by a finite factor, bounds the other.     *)
LEMMA DividedBound ==
  ASSUME NEW w \in Int, NEW e \in Known, NEW b \in Known, ~Greater(Times(w, e), b),
         NEW q, q = IF b = ELEM_ZERO THEN ELEM_ZERO ELSE b - w
  PROVE  q \in Known /\ ~Greater(e, q)
<1>1. CASE e = ELEM_ZERO
  BY <1>1, NeverGreater DEF Known, Cost
<1>2. CASE e # ELEM_ZERO
  <2>1. e \in Int /\ w + e \in Int /\ w \in Cost /\ e \in Cost /\ b \in Cost /\ w + e \in Cost
    BY <1>2 DEF Known, Cost
  <2>2. Times(w, e) = w + e
    BY <2>1, SpecialCosts DEF Times, times
  <2>3. ~(b = ELEM_ZERO \/ w + e > b)
    BY <2>1, <2>2, SpecialCosts DEF Greater, greater, Known
  <2>4. b \in Int /\ q = b - w /\ q \in Int /\ ~(e > q)
    BY <2>1, <2>3 DEF Known
  <2>5. q \in Cost /\ q # ELEM_ZERO
    BY <2>4, SpecialCosts DEF Known, Cost
  <2> QED  BY <2>1, <2>4, <2>5, SpecialCosts DEF Greater, greater, Known
<1> QED  BY <1>1, <1>2

(* The global bound is one on the root without its label.                  *)
LEMMA RootBound ==
  ASSUME prob \in Problems
  PROVE  /\ GlobalUB \in Known /\ UpperAt(Top, GlobalUB)
         /\ \A m \in KidSet(Top) : ~Greater(ExactBelow(m), GlobalUB)
<1>1. /\ InSpace(Top) /\ IsOrNode(Top) /\ Top.var = Root /\ Top.ctx = <<>> /\ Values(Root) = {0}
      /\ Root \in Vars /\ <<>> \in Assignments(Ctx[Root])
  BY RootShape, NodeShape
<1>2. ASSUME NEW m \in KidSet(Top)
      PROVE  GlobalUB \in Known /\ ~Greater(ExactBelow(m), GlobalUB) /\ Arc(m) = ELEM_ONE
             /\ ExactBelow(m) \in Known
  <2>1. /\ InSpace(m) /\ ~IsOrNode(m) /\ m.var = Root /\ m.ctx = <<>> /\ m.val = 0
        /\ OrNode(m.var, m.ctx) = Top
    BY <1>1, KidsOfOr
  <2> DEFINE a == AssignmentOf(m)
             w == prob.label[Root][a]
             e == ExactBelow(m)
             b == prob.bound[Root][<<>>]
  <2>2. /\ a = Extended(<<>>, Root, 0) /\ a = With(Root, <<>>, 0)
        /\ a \in Assignments(Ctx[Root] \cup {Root})
    BY <2>1, AssignedByAnd DEF AssignmentOf
  <2>3. w \in Known /\ Arc(m) = ELEM_ONE
    BY <2>1, ArcCost
  <2>4. w # ELEM_ZERO
    BY <2>2, ConstantAssumption
  <2>5. GlobalConstant = w
    BY <2>1, <2>2, OwnLabel DEF GlobalConstant, Label
  <2>6. /\ e \in Known /\ e = Product([y \in ChildSet(Root) |->
                                         prob.opt[y][Restriction(a, Ctx[y])]])
    BY <2>1, ExactProduct
  <2>7. b \in Known /\ ~Greater(prob.opt[Root][<<>>], b) /\ prob.opt[Root][<<>>] \in Known
    BY <1>1, BoundAssumption, ProblemAssumption
  <2>8. ~Greater(Times(w, e), prob.opt[Root][<<>>])
    <3> DEFINE F == [v \in Values(Root) |->
                   Times(prob.label[Root][With(Root, <<>>, v)],
                         Product([y \in ChildSet(Root) |->
                           prob.opt[y][Restriction(With(Root, <<>>, v), Ctx[y])]]))]
    <3>1. prob.opt[Root][<<>>] = Maximum(F)
      BY <1>1, ProblemAssumption
    <3>2. F[0] = Times(w, e) /\ DOMAIN F = {0} /\ F = [v \in {0} |-> F[v]]
      BY <1>1, <2>2, <2>6
    <3>3. Times(w, e) \in Known
      BY <2>3, <2>6, TimesLaws
    <3> HIDE DEF F, w, e
    <3>4. F \in [{0} -> Known] /\ IsFiniteSet({0})
      BY <3>2, <3>3, FS_Singleton
    <3>5. ~Greater(F[0], Maximum(F))
      BY <3>4, MaximumOf
    <3> QED  BY <3>1, <3>2, <3>5
  <2>9. GlobalUB = IF b = ELEM_ZERO THEN ELEM_ZERO ELSE b - w
    BY <2>5 DEF GlobalUB
  <2> HIDE DEF a, w, e, b
  <2>10. w \in Int
    BY <2>3, <2>4 DEF Known
  <2>11. w \in Cost /\ e \in Cost /\ Times(w, e) \in Cost
    BY <2>3, <2>6, TimesLaws
  <2>12. ~Greater(Times(w, e), b)
    BY <2>7, <2>8, <2>11, AtMostTransitive
  <2>13. GlobalUB \in Known /\ ~Greater(e, GlobalUB)
    BY <2>6, <2>7, <2>9, <2>10, <2>12, DividedBound
  <2> QED  BY <2>3, <2>6, <2>13 DEF e
<1>3. KidSet(Top) # {} /\ GlobalUB \in Known
  BY <1>1, <1>2, KidsOfOr
<1>4. \A m \in KidSet(Top) : ~Greater(Times(Arc(m), ExactBelow(m)), GlobalUB)
  BY <1>2, TimesLaws
<1>5. ~Greater(Exact(Top), GlobalUB) /\ Exact(Top) \in Known
  BY <1>1, <1>3, <1>4, ExactMaximum
<1>6. UpperAt(Top, GlobalUB)
  BY <1>1, <1>3, <1>5, TimesLaws DEF UpperAt, Arc, ExactAt
<1> QED  BY <1>2, <1>3, <1>6

(* What a new AND node gets is an upper bound, and exact at a terminal.    *)
LEMMA HeurAndAbove ==
  ASSUME prob \in Problems, NEW n, InSpace(n), ~IsOrNode(n)
  PROVE  UpperAt(n, HeurAND(n)) /\ (IsTerminal(n) => TightAt(n, HeurAND(n)))
<1> DEFINE o == OrNode(n.var, n.ctx)
           h == HeurOf(prob, n.var, AssignmentOf(n))
           w == Arc(n)
           e == ExactBelow(n)
<1>1. /\ n.var \in Vars /\ n.val \in Values(n.var) /\ n = AndNode(o, n.val)
      /\ IsOr(o) /\ IsOrNode(o) /\ o.var = n.var /\ o.ctx = n.ctx
  BY NodeShape, NodeParts
<1>2. w \in Known /\ w = Weight(o, n.val) /\ (o = Top => w = ELEM_ONE)
  BY ArcCost
<1>3. /\ e \in Known /\ ExactAt(n) = e
      /\ h \in Known /\ ~Greater(e, h) /\ (ChildSet(n.var) = {} => h = ELEM_ONE /\ e = ELEM_ONE)
  BY HeurBelow, ExactProduct DEF ExactAt
<1>4. HeurAND(n) = IF HeurCacheAt(o, n.val) = ELEM_ZERO THEN ELEM_ZERO
                   ELSE HeurCacheAt(o, n.val) - w
  BY <1>2 DEF HeurAND
<1>5. CASE o = Top
  <2>1. n \in KidSet(Top) /\ n.var = Root
    BY <1>1, <1>5, RootShape, KidsOfOr
  <2>2. GlobalUB \in Known /\ ~Greater(e, GlobalUB)
    BY <2>1, RootBound
  <2>3. HeurCacheAt(o, n.val) = GlobalUB /\ w = 0
    BY <1>2, <1>5 DEF HeurCacheAt, ELEM_ONE
  <2> HIDE DEF w, e, h
  <2>4. HeurAND(n) = GlobalUB
    BY <1>4, <2>2, <2>3 DEF Known
  <2>5. ~IsTerminal(n)
    BY <2>1, DummyAssumption DEF IsTerminal
  <2>6. w \in Cost /\ e \in Cost /\ ~Greater(w, w)
    BY <1>2, <1>3, TimesLaws, NeverGreater
  <2>7. ~Greater(Times(w, e), Times(w, GlobalUB))
    BY <1>2, <2>2, <2>6, TimesBelow
  <2> QED  BY <1>3, <2>2, <2>4, <2>5, <2>7 DEF UpperAt, w
<1>6. CASE o # Top
  <2>1. HeurCacheAt(o, n.val) = Times(w, h)
    BY <1>1, <1>2, <1>6 DEF HeurCacheAt, AssignmentOf
  <2> HIDE DEF w, e, h, o
  <2>2. HeurAND(n) \in Known /\ Times(w, HeurAND(n)) = Times(w, h)
    BY <1>2, <1>3, <1>4, <2>1, Divided
  <2>3. w \in Cost /\ e \in Cost /\ ~Greater(w, w)
    BY <1>2, <1>3, TimesLaws, NeverGreater
  <2>4. ~Greater(Times(w, e), Times(w, h))
    BY <1>2, <1>3, <2>3, TimesBelow
  <2>5. IsTerminal(n) => Times(w, h) = Times(w, e)
    BY <1>3 DEF IsTerminal
  <2> QED  BY <1>3, <2>2, <2>4, <2>5 DEF UpperAt, TightAt, w
<1> QED  BY <1>5, <1>6

(* What a new OR node gets is an upper bound.                              *)
LEMMA HeurOrAbove ==
  ASSUME prob \in Problems, NEW o, InSpace(o), IsOrNode(o), o # Top
  PROVE  UpperAt(o, HeurOR(o))
<1> DEFINE F == [v \in Values(o.var) |-> HeurCacheAt(o, v)]
<1>1. HeurOR(o) = Maximum(F)
  BY DEF HeurOR
<1>2. o.var \in Vars /\ IsFiniteSet(Values(o.var))
  BY NodeShape, FiniteValues
<1>3. ASSUME NEW m \in KidSet(o)
      PROVE  /\ m.val \in Values(o.var)
             /\ F[m.val] \in Known /\ ~Greater(Times(Arc(m), ExactBelow(m)), F[m.val])
  <2>1. /\ InSpace(m) /\ ~IsOrNode(m) /\ m.var = o.var /\ m.ctx = o.ctx /\ m.val \in Values(o.var)
        /\ OrNode(m.var, m.ctx) = o
    BY KidsOfOr
  <2> DEFINE h == HeurOf(prob, m.var, AssignmentOf(m))
             w == Arc(m)
             e == ExactBelow(m)
  <2>2. w \in Known /\ w = Weight(o, m.val) /\ h \in Known /\ ~Greater(e, h) /\ e \in Known
    BY <2>1, ArcCost, HeurBelow, ExactProduct
  <2>3. F[m.val] = Times(w, h)
    BY <2>1, <2>2 DEF HeurCacheAt, AssignmentOf
  <2> HIDE DEF w, e, h, F
  <2>4. w \in Cost /\ e \in Cost /\ ~Greater(w, w) /\ Times(w, h) \in Known
    BY <2>2, TimesLaws, NeverGreater
  <2>5. ~Greater(Times(w, e), Times(w, h))
    BY <2>2, <2>4, TimesBelow
  <2> QED  BY <2>1, <2>3, <2>4, <2>5 DEF w, e
<1>4. ASSUME NEW v \in Values(o.var) PROVE F[v] \in Known
  <2>1. AndNode(o, v) \in KidSet(o) /\ AndNode(o, v).val = v
    BY KidsOfOr, NodeParts
  <2> HIDE DEF F
  <2> QED  BY <1>3, <2>1
<1>5. F = [v \in Values(o.var) |-> F[v]]
  OBVIOUS
<1> HIDE DEF F
<1>6. F \in [Values(o.var) -> Known]
  BY <1>4, <1>5
<1>7. HeurOR(o) \in Known /\ \A v \in Values(o.var) : ~Greater(F[v], HeurOR(o))
  BY <1>1, <1>2, <1>6, MaximumOf
<1>8. ASSUME NEW m \in KidSet(o) PROVE ~Greater(Times(Arc(m), ExactBelow(m)), HeurOR(o))
  <2>1. Arc(m) \in Known /\ ExactBelow(m) \in Known
    BY KidsOfOr, ArcCost, ExactProduct
  <2>2. Times(Arc(m), ExactBelow(m)) \in Cost
    BY <2>1, TimesLaws
  <2>3. ~Greater(F[m.val], HeurOR(o)) /\ F[m.val] \in Known
    BY <1>3, <1>7
  <2> QED  BY <1>3, <1>7, <2>2, <2>3, AtMostTransitive
<1>9. Exact(o) \in Known /\ ~Greater(Exact(o), HeurOR(o))
  BY <1>7, <1>8, ExactMaximum
<1> QED  BY <1>7, <1>9, TimesLaws DEF UpperAt, Arc, ExactAt

(* What Expand gives a new node.                                           *)
LEMMA NewValue ==
  ASSUME prob \in Problems, NEW n, InSpace(n), n # Top,
         NEW q, q = IF IsOrNode(n) THEN HeurOR(n) ELSE HeurAND(n)
  PROVE  UpperAt(n, q) /\ (IsTerminal(n) => TightAt(n, q))
<1>1. CASE IsOrNode(n)
  BY <1>1, HeurOrAbove DEF IsTerminal
<1>2. CASE ~IsOrNode(n)
  BY <1>2, HeurAndAbove
<1> QED  BY <1>1, <1>2

-----------------------------------------------------------------------------
(* Revisions. *)

(* The values that a revision compares at an OR node                       *)
Reach(o, val) == [m \in kids[o] |-> Times(Weight(o, m.val), val[m])]

(* Where the children of an OR node have costs, so has the revised node:   *)
(* the largest of what it can reach.                                       *)
LEMMA ReachMaximum ==
  ASSUME prob \in Problems, NEW o, InSpace(o), IsOrNode(o), kids[o] = KidSet(o),
         NEW val, \A m \in kids[o] : val[m] \in Known
  PROVE  /\ RevisedValue(o, val) = Maximum(Reach(o, val)) /\ RevisedValue(o, val) \in Known
         /\ \A m \in kids[o] : /\ Reach(o, val)[m] = Times(Arc(m), val[m])
                               /\ Reach(o, val)[m] = Times(Weight(o, m.val), val[m])
                               /\ Reach(o, val)[m] \in Known
                               /\ ~Greater(Reach(o, val)[m], RevisedValue(o, val))
         /\ \E m \in kids[o] : Reach(o, val)[m] = RevisedValue(o, val)
<1>1. RevisedValue(o, val) = Maximum(Reach(o, val))
  BY DEF RevisedValue, Reach
<1>2. ASSUME NEW m \in kids[o]
      PROVE  /\ Reach(o, val)[m] = Times(Arc(m), val[m])
             /\ Reach(o, val)[m] = Times(Weight(o, m.val), val[m])
             /\ Reach(o, val)[m] \in Known
  <2>1. Reach(o, val)[m] = Times(Weight(o, m.val), val[m])
    BY DEF Reach
  <2>2. Weight(o, m.val) = Arc(m) /\ Arc(m) \in Known
    BY ExactMaximum, KidsOfOr, ArcCost
  <2>3. Times(Arc(m), val[m]) \in Known
    BY <2>2, TimesLaws
  <2> QED  BY <2>1, <2>2, <2>3
<1>3. IsFiniteSet(kids[o]) /\ kids[o] # {}
  BY KidsOfOr
<1>4. Reach(o, val) \in [kids[o] -> Known]
  BY <1>2 DEF Reach
<1>5. /\ Maximum(Reach(o, val)) \in Known
      /\ \A m \in kids[o] : ~Greater(Reach(o, val)[m], Maximum(Reach(o, val)))
      /\ \/ Maximum(Reach(o, val)) = ELEM_ZERO
         \/ \E m \in kids[o] : Maximum(Reach(o, val)) = Reach(o, val)[m]
  BY <1>3, <1>4, MaximumOf
<1>6. CASE Maximum(Reach(o, val)) = ELEM_ZERO
  <2>1. PICK m \in kids[o] : TRUE
    BY <1>3
  <2>2. Reach(o, val)[m] = ELEM_ZERO
    BY <1>2, <1>5, <1>6, CostOrder
  <2> QED  BY <1>1, <1>2, <1>5, <1>6, <2>2
<1>7. CASE Maximum(Reach(o, val)) # ELEM_ZERO
  BY <1>1, <1>2, <1>5, <1>7
<1> QED  BY <1>6, <1>7

(* Among the children that reach the new value, the best one exists.       *)
LEMMA BestExists ==
  ASSUME prob \in Problems, NEW o, InSpace(o), IsOrNode(o), kids[o] = KidSet(o),
         NEW val, \A m \in kids[o] : val[m] \in Known, NEW isSolved,
         NEW b, b = BestChild(o, RevisedValue(o, val), val, isSolved)
  PROVE  b \in kids[o] /\ Reach(o, val)[b] = RevisedValue(o, val)
<1> DEFINE q     == RevisedValue(o, val)
           ties  == {m \in kids[o] : Times(Weight(o, m.val), val[m]) = q}
           final == {m \in ties : isSolved[m]}
           up    == [m \in kids[o] |-> m.val]
           down  == [m \in kids[o] |-> 0 - m.val]
<1>1. IsFiniteSet(kids[o]) /\ \A m \in kids[o] : m.val \in Int
  BY KidsOfOr
<1>2. ties # {} /\ \A m \in ties : m \in kids[o] /\ Reach(o, val)[m] = q
  BY ReachMaximum
<1>3. IsFiniteSet(ties) /\ IsFiniteSet(final)
  BY <1>1, FS_Subset
<1>4. /\ \A m \in ties : up[m] = m.val /\ down[m] = 0 - m.val /\ up[m] \in Int /\ down[m] \in Int
      /\ final \subseteq ties
  BY <1>1
<1>5. b = IF final # {} THEN CHOOSE m \in final : \A k \in final : k.val <= m.val
          ELSE CHOOSE m \in ties : \A k \in ties : k.val >= m.val
  BY DEF BestChild
<1> HIDE DEF q, ties, final, up, down
<1>6. final # {} => \E m \in final : \A k \in final : up[k] <= up[m]
  BY <1>3, <1>4, HighestOf
<1>7. \E m \in ties : \A k \in ties : down[k] <= down[m]
  BY <1>2, <1>3, <1>4, HighestOf
<1>8. final # {} => \E m \in final : \A k \in final : k.val <= m.val
  BY <1>4, <1>6
<1>9. \E m \in ties : \A k \in ties : k.val >= m.val
  BY <1>4, <1>7
<1>10. b \in ties
  BY <1>4, <1>5, <1>8, <1>9
<1> QED  BY <1>2, <1>10 DEF q

(* What a dive marks is a child, or nothing.                               *)
LEMMA MarkedExists ==
  ASSUME prob \in Problems, NEW o, InSpace(o), IsOrNode(o),
         NEW val, \A m \in KidSet(o) : val[m] \in Known
  PROVE  MarkedChild(o, KidSet(o), val) \in KidSet(o) \cup {NULL}
<1> DEFINE R(m)    == Times(Weight(o, m.val), val[m])
           hopeful == {m \in KidSet(o) : R(m) # ELEM_ZERO}
           F       == [m \in hopeful |-> R(m)]
           Better(m, k) == Greater(R(m), R(k)) \/ (R(m) = R(k) /\ k.val <= m.val)
<1>1. MarkedChild(o, KidSet(o), val) = IF hopeful = {} THEN NULL
                            ELSE CHOOSE m \in hopeful : \A k \in hopeful : Better(m, k)
  BY DEF MarkedChild
<1>2. IsFiniteSet(KidSet(o)) /\ \A m \in KidSet(o) : m.val \in Int
  BY KidsOfOr
<1>3. ASSUME NEW m \in KidSet(o) PROVE R(m) \in Known
  <2>1. Weight(o, m.val) \in Known
    BY ExactMaximum, KidsOfOr, ArcCost
  <2> QED  BY <2>1, TimesLaws
<1>4. IsFiniteSet(hopeful) /\ F \in [hopeful -> Known] /\ \A m \in hopeful : F[m] = R(m)
  BY <1>2, <1>3, FS_Subset
<1>5. \A m \in hopeful : m \in KidSet(o) /\ R(m) # ELEM_ZERO /\ R(m) \in Known /\ m.val \in Int
  BY <1>2, <1>3
<1> HIDE DEF R, hopeful, F
<1>6. ASSUME hopeful # {} PROVE \E m \in hopeful : \A k \in hopeful : Better(m, k)
  <2>1. /\ Maximum(F) \in Known /\ \A m \in hopeful : ~Greater(F[m], Maximum(F))
        /\ Maximum(F) = ELEM_ZERO \/ \E m \in hopeful : Maximum(F) = F[m]
    BY <1>4, MaximumOf
  <2>2. PICK x \in hopeful : Maximum(F) = F[x]
    BY <1>4, <1>5, <1>6, <2>1, CostOrder
  <2> DEFINE T  == {m \in hopeful : R(m) = R(x)}
             up == [m \in T |-> m.val]
  <2>3. IsFiniteSet(T) /\ T # {} /\ \A m \in T : up[m] \in Int /\ up[m] = m.val
    BY <1>4, <1>5, FS_Subset
  <2>4. \A m \in T : m \in hopeful /\ R(m) = R(x)
    OBVIOUS
  <2>5. \A m \in hopeful : m \in T \/ R(m) # R(x)
    OBVIOUS
  <2> HIDE DEF T, up
  <2>6. PICK m \in T : \A k \in T : up[k] <= up[m]
    BY <2>3, HighestOf
  <2>7. ASSUME NEW k \in hopeful PROVE Better(m, k)
    <3>1. CASE k \in T
      BY <2>3, <2>4, <2>6, <3>1
    <3>2. CASE k \notin T
      <4>1. R(k) # R(x) /\ ~Greater(R(k), R(x)) /\ R(k) \in Known /\ R(x) \in Known
        BY <1>4, <1>5, <2>1, <2>2, <2>5, <3>2
      <4>2. Greater(R(x), R(k))
        BY <4>1, CostOrder
      <4> QED  BY <2>4, <2>6, <4>2
    <3> QED  BY <3>1, <3>2
  <2> HIDE DEF Better
  <2> QED  BY <2>4, <2>6, <2>7
<1> HIDE DEF Better
<1>7. CASE hopeful = {}
  BY <1>1, <1>7
<1>8. CASE hopeful # {}
  <2>1. (CHOOSE m \in hopeful : \A k \in hopeful : Better(m, k)) \in hopeful
    BY <1>6, <1>8
  <2> QED  BY <1>1, <1>5, <1>8, <2>1
<1> QED  BY <1>7, <1>8

(* A bound on an OR node, and on a child of an AND node, needs no weight.  *)
LEMMA OrBounds ==
  ASSUME prob \in Problems, NEW o, InSpace(o), IsOrNode(o), NEW q \in Known
  PROVE  /\ UpperAt(o, q) <=> ~Greater(Exact(o), q)
         /\ LowerAt(o, q) <=> ~Greater(q, Exact(o))
         /\ TightAt(o, q) <=> q = Exact(o)
<1>1. Exact(o) \in Known /\ Arc(o) = ELEM_ONE /\ ExactAt(o) = Exact(o)
  BY ExactMaximum, ArcCost DEF ExactAt
<1>2. Times(ELEM_ONE, Exact(o)) = Exact(o) /\ Times(ELEM_ONE, q) = q
  BY <1>1, TimesLaws
<1> QED  BY <1>1, <1>2 DEF UpperAt, LowerAt, TightAt

(* A revision of upper bounds finds an upper bound.  At an OR node it is   *)
(* exact if the child that reaches it is, at an AND node if all are.       *)
LEMMA RevisedAbove ==
  ASSUME prob \in Problems, NEW n, InSpace(n), kids[n] = KidSet(n),
         NEW val, \A m \in kids[n] : UpperAt(m, val[m]),
         NEW q, q = RevisedValue(n, val)
  PROVE  /\ UpperAt(n, q)
         /\ IsOrNode(n) => \A b \in kids[n] : Reach(n, val)[b] = q /\ TightAt(b, val[b])
                                              => TightAt(n, q)
         /\ ~IsOrNode(n) => ((\A m \in kids[n] : TightAt(m, val[m])) => TightAt(n, q))
<1>1. \A m \in kids[n] : val[m] \in Known
  BY DEF UpperAt
<1>2. CASE IsOrNode(n)
  <2>1. /\ q \in Known
        /\ \A m \in kids[n] : /\ Reach(n, val)[m] = Times(Arc(m), val[m])
                              /\ Reach(n, val)[m] \in Known
                              /\ ~Greater(Reach(n, val)[m], q)
    BY <1>1, <1>2, ReachMaximum
  <2>2. ASSUME NEW m \in kids[n]
        PROVE  /\ ~Greater(Times(Arc(m), ExactBelow(m)), q)
               /\ TightAt(m, val[m]) => Reach(n, val)[m] = Times(Arc(m), ExactBelow(m))
    <3>1. InSpace(m) /\ ~IsOrNode(m)
      BY <1>2, KidsOfOr
    <3>2. Arc(m) \in Known /\ ExactBelow(m) \in Known /\ ExactAt(m) = ExactBelow(m)
      BY <3>1, ArcCost, ExactProduct DEF ExactAt
    <3>3. Times(Arc(m), ExactBelow(m)) \in Cost
      BY <3>2, TimesLaws
    <3>4. ~Greater(Times(Arc(m), ExactBelow(m)), Reach(n, val)[m])
      BY <2>1, <3>2 DEF UpperAt
    <3>5. Reach(n, val)[m] \in Known /\ ~Greater(Reach(n, val)[m], q)
      BY <2>1
    <3>6. TightAt(m, val[m]) => Reach(n, val)[m] = Times(Arc(m), ExactBelow(m))
      BY <2>1, <3>2 DEF TightAt
    <3> QED  BY <2>1, <3>3, <3>4, <3>5, <3>6, AtMostTransitive
  <2>3. Exact(n) \in Known /\ ~Greater(Exact(n), q)
    BY <1>2, <2>1, <2>2, ExactMaximum
  <2>4. ASSUME NEW b \in kids[n], Reach(n, val)[b] = q, TightAt(b, val[b])
        PROVE  q = Exact(n)
    <3>1. q = Times(Arc(b), ExactBelow(b))
      BY <2>2, <2>4
    <3>2. ~Greater(q, Exact(n))
      BY <1>2, <3>1, ExactMaximum
    <3> QED  BY <2>1, <2>3, <3>2, CostOrder
  <2> QED  BY <1>2, <2>1, <2>3, <2>4, OrBounds
<1>3. CASE ~IsOrNode(n)
  <2> DEFINE f == [m \in KidSet(n) |-> val[m]]
  <2>1. q = Product(f) /\ f \in [KidSet(n) -> Known] /\ \A m \in KidSet(n) : f[m] = val[m]
    BY <1>1, <1>3 DEF RevisedValue
  <2>2. \A m \in KidSet(n) : InSpace(m) /\ IsOrNode(m)
    BY <1>3, KidsOfAnd
  <2> HIDE DEF f
  <2>3. \A m \in KidSet(n) : ~Greater(Exact(m), f[m])
    BY <1>1, <2>1, <2>2, OrBounds
  <2>4. q \in Known /\ ~Greater(ExactBelow(n), q)
    BY <1>3, <2>1, <2>3, ProductAbove
  <2>5. Arc(n) \in Known /\ ExactBelow(n) \in Known /\ ExactAt(n) = ExactBelow(n)
    BY <1>3, ArcCost, ExactProduct DEF ExactAt
  <2>6. UpperAt(n, q)
    <3>1. Arc(n) \in Cost /\ ExactBelow(n) \in Cost /\ ~Greater(Arc(n), Arc(n))
      BY <2>5, TimesLaws, NeverGreater
    <3>2. ~Greater(Times(Arc(n), ExactBelow(n)), Times(Arc(n), q))
      BY <2>4, <2>5, <3>1, TimesBelow
    <3> QED  BY <2>4, <2>5, <3>2 DEF UpperAt
  <2>7. ASSUME \A m \in kids[n] : TightAt(m, val[m]) PROVE TightAt(n, q)
    <3>1. \A m \in KidSet(n) : f[m] = Exact(m) /\ f[m] \in Cost
      BY <1>1, <2>1, <2>2, <2>7, OrBounds, TimesLaws
    <3>2. \A m \in KidSet(n) : ~Greater(f[m], Exact(m))
      BY <3>1, NeverGreater
    <3>3. ~Greater(q, ExactBelow(n))
      BY <1>3, <2>1, <3>2, ProductUnder
    <3>4. q = ExactBelow(n)
      BY <2>4, <2>5, <3>3, CostOrder
    <3> QED  BY <2>5, <3>4 DEF TightAt
  <2> QED  BY <1>3, <2>6, <2>7
<1> QED  BY <1>2, <1>3

(* A revision of lower bounds finds a lower bound.                         *)
LEMMA RevisedBelow ==
  ASSUME prob \in Problems, NEW n, InSpace(n), kids[n] = KidSet(n),
         \A m \in kids[n] : LowerAt(m, feasibleValue[m]), LowerAt(n, feasibleValue[n])
  PROVE  LowerAt(n, RevisedLower(n))
<1> DEFINE S == WithSolution(n)
<1>1. S \subseteq kids[n] /\ \A m \in kids[n] : feasibleValue[m] \in Known
  BY DEF WithSolution, LowerAt
<1>2. CASE IsOrNode(n)
  <2> DEFINE f == [m \in S |-> Times(Weight(n, m.val), feasibleValue[m])]
  <2>1. RevisedLower(n) = Maximum(f)
    BY <1>2 DEF RevisedLower, LowerBound
  <2>2. ASSUME NEW m \in kids[n]
        PROVE  /\ Times(Weight(n, m.val), feasibleValue[m]) \in Known
               /\ ~Greater(Times(Weight(n, m.val), feasibleValue[m]), Exact(n))
    <3>1. InSpace(m) /\ ~IsOrNode(m)
      BY <1>2, KidsOfOr
    <3>2. Arc(m) \in Known /\ ExactBelow(m) \in Known /\ ExactAt(m) = ExactBelow(m)
      BY <3>1, ArcCost, ExactProduct DEF ExactAt
    <3>3. /\ Times(Arc(m), ExactBelow(m)) \in Known /\ Times(Arc(m), feasibleValue[m]) \in Known
      BY <1>1, <3>2, TimesLaws
    <3>4. /\ ~Greater(Times(Arc(m), feasibleValue[m]), Times(Arc(m), ExactBelow(m)))
      BY <3>2 DEF LowerAt
    <3>5. /\ Weight(n, m.val) = Arc(m) /\ ~Greater(Times(Arc(m), ExactBelow(m)), Exact(n))
          /\ Exact(n) \in Known
      BY <1>2, ExactMaximum
    <3>6. Times(Arc(m), feasibleValue[m]) \in Cost
      BY <3>3, TimesLaws
    <3> QED  BY <3>3, <3>4, <3>5, <3>6, AtMostTransitive
  <2>3. IsFiniteSet(S)
    BY <1>1, <1>2, KidsOfOr, FS_Subset
  <2>4. f \in [S -> Known] /\ \A m \in S : ~Greater(f[m], Exact(n))
    BY <1>1, <2>2
  <2> HIDE DEF S, f
  <2>5. Maximum(f) \in Known /\ ~Greater(Maximum(f), Exact(n))
    <3>1. /\ Maximum(f) \in Known
          /\ Maximum(f) = ELEM_ZERO \/ \E x \in S : Maximum(f) = f[x]
      BY <2>3, <2>4, MaximumOf
    <3>2. Exact(n) \in Cost
      BY <1>2, ExactMaximum, TimesLaws
    <3> QED  BY <2>4, <3>1, <3>2, NeverGreater
  <2> QED  BY <1>2, <2>1, <2>5, OrBounds
<1>3. CASE ~IsOrNode(n) /\ HasSolution(n)
  <2> DEFINE f == [m \in KidSet(n) |-> feasibleValue[m]]
  <2>1. S = KidSet(n) /\ RevisedLower(n) = Product(f)
    BY <1>3 DEF RevisedLower, LowerBound, HasSolution
  <2>2. \A m \in KidSet(n) : InSpace(m) /\ IsOrNode(m)
    BY <1>3, KidsOfAnd
  <2>3. f \in [KidSet(n) -> Known] /\ \A m \in KidSet(n) : f[m] = feasibleValue[m]
    BY <1>1
  <2> HIDE DEF f
  <2>4. \A m \in KidSet(n) : ~Greater(f[m], Exact(m))
    BY <1>1, <2>2, <2>3, OrBounds
  <2>5. Product(f) \in Known /\ ~Greater(Product(f), ExactBelow(n))
    BY <1>3, <2>3, <2>4, ProductUnder
  <2>6. Arc(n) \in Known /\ ExactBelow(n) \in Known /\ ExactAt(n) = ExactBelow(n)
    BY <1>3, ArcCost, ExactProduct DEF ExactAt
  <2>7. Arc(n) \in Cost /\ Product(f) \in Cost /\ ~Greater(Arc(n), Arc(n))
    BY <2>5, <2>6, TimesLaws, NeverGreater
  <2>8. ~Greater(Times(Arc(n), Product(f)), Times(Arc(n), ExactBelow(n)))
    BY <2>5, <2>6, <2>7, TimesBelow
  <2> QED  BY <2>1, <2>5, <2>6, <2>8 DEF LowerAt
<1>4. CASE ~IsOrNode(n) /\ ~HasSolution(n)
  BY <1>4 DEF RevisedLower
<1> QED  BY <1>2, <1>3, <1>4

-----------------------------------------------------------------------------
(* Partial solution trees. *)

(* A tree of arcs of the graph from the root, one arc at each OR node *)
SolutionTree(T, nx) ==
  /\ Top \in T /\ T \subseteq Nodes
  /\ \A p \in T : /\ nx[p] \subseteq T /\ nx[p] \subseteq kids[p]
                  /\ IsOrNode(p) => \A k, m \in nx[p] : k = m
  /\ \A z \in T : z = Top \/ \E p \in T : z \in nx[p]

(* Every node of the graph has its own children, or none yet.              *)
LEMMA KidsInGraph ==
  ASSUME GraphOK, NEW p \in Nodes, NEW m \in kids[p]
  PROVE  /\ kids[p] = KidSet(p) /\ m \in Nodes /\ InSpace(m) /\ InSpace(p)
         /\ LayerOf(p) \in Nat /\ LayerOf(m) \in Nat /\ LayerOf(m) = LayerOf(p) + 1
         /\ IsOrNode(p) => /\ ~IsOrNode(m) /\ m.var = p.var /\ m.ctx = p.ctx
         /\ ~IsOrNode(p) => /\ IsOrNode(m) /\ m.var \in ChildSet(p.var) /\ PtParent(m.var) = p.var
                            /\ m = OrNode(m.var, Restriction(AssignmentOf(p), Ctx[m.var]))
                            /\ m.ctx = Restriction(AssignmentOf(p), Ctx[m.var])
<1>1. kids[p] = KidSet(p) /\ m \in Nodes /\ InSpace(m) /\ InSpace(p)
  BY DEF GraphOK
<1>2. LayerOf(p) \in Nat /\ LayerOf(m) \in Nat /\ LayerOf(m) = LayerOf(p) + 1
  BY <1>1, KidLayer
<1>3. ASSUME IsOrNode(p) PROVE ~IsOrNode(m) /\ m.var = p.var /\ m.ctx = p.ctx
  BY <1>1, <1>3, KidsOfOr
<1>4. ASSUME ~IsOrNode(p)
      PROVE  /\ IsOrNode(m) /\ m.var \in ChildSet(p.var) /\ PtParent(m.var) = p.var
             /\ m = OrNode(m.var, Restriction(AssignmentOf(p), Ctx[m.var]))
             /\ m.ctx = Restriction(AssignmentOf(p), Ctx[m.var])
  <2>1. /\ IsOrNode(m) /\ m.var \in ChildSet(p.var)
        /\ m = OrNode(m.var, Restriction(AssignmentOf(p), Ctx[m.var]))
    BY <1>1, <1>4, KidsOfAnd
  <2>2. p.var \in Vars
    BY <1>1, NodeShape
  <2>3. PtParent(m.var) = p.var
    BY <2>1, <2>2, ParentOfChild
  <2> QED  BY <2>1, <2>3, NodeParts
<1> QED  BY <1>1, <1>2, <1>3, <1>4

(* A tree has at most one OR node and one AND node of a variable.          *)
LEMMA OnePerVariable ==
  ASSUME GraphOK, NEW T, NEW nx, SolutionTree(T, nx),
         NEW a \in T, NEW b \in T, a.var = b.var, IsOrNode(a) <=> IsOrNode(b)
  PROVE  a = b
<1> DEFINE Twins(x, y) == x # y /\ x.var = y.var /\ (IsOrNode(x) <=> IsOrNode(y))
           Bad(x) == \E y \in T : Twins(x, y)
           L == {LayerOf(x) : x \in {z \in T : Bad(z)}}
<1>1. \A x \in T : x \in Nodes /\ InSpace(x) /\ LayerOf(x) \in Nat
  BY KidLayer DEF SolutionTree, GraphOK
<1>2. ASSUME NEW x \in T, NEW y \in T, Twins(x, y),
             \A z \in T : LayerOf(z) < LayerOf(x) => ~Bad(z)
      PROVE  FALSE
  <2>1. LayerOf(y) = LayerOf(x)
    BY <1>2 DEF LayerOf
  <2>2. x # Top /\ y # Top
    <3>1. ASSUME NEW z \in T, NEW u \in T, Twins(z, u) PROVE z # Top
      <4>1. z = Top => IsOr(u) /\ u.var = Root
        BY <1>1, <3>1, RootShape, NodeShape
      <4> QED  BY <3>1, <4>1, RootShape
    <3>2. Twins(y, x)
      BY <1>2
    <3> QED  BY <1>2, <3>1, <3>2
  <2>3. PICK p \in T : x \in nx[p]
    BY <1>2, <2>2 DEF SolutionTree
  <2>4. PICK q \in T : y \in nx[q]
    BY <1>2, <2>2 DEF SolutionTree
  <2>5. x \in kids[p] /\ y \in kids[q] /\ p \in Nodes /\ q \in Nodes
    BY <1>1, <2>3, <2>4 DEF SolutionTree
  <2>6. /\ LayerOf(p) < LayerOf(x) /\ (IsOrNode(p) <=> ~IsOrNode(x))
        /\ (IsOrNode(q) <=> ~IsOrNode(y))
        /\ IsOrNode(p) => p.var = x.var
        /\ IsOrNode(q) => q.var = y.var
        /\ ~IsOrNode(p) => p.var = PtParent(x.var) /\ x = OrNode(x.var, Restriction(AssignmentOf(p), Ctx[x.var]))
        /\ ~IsOrNode(q) => q.var = PtParent(y.var) /\ y = OrNode(y.var, Restriction(AssignmentOf(q), Ctx[y.var]))
    <3>1. LayerOf(p) \in Nat /\ LayerOf(x) = LayerOf(p) + 1
      BY <2>5, KidsInGraph
    <3> QED  BY <2>5, <3>1, KidsInGraph
  <2>7. p.var = q.var /\ (IsOrNode(p) <=> IsOrNode(q))
    BY <1>2, <2>6
  <2>8. p = q
    BY <1>2, <2>3, <2>4, <2>6, <2>7
  <2>9. CASE IsOrNode(p)
    BY <1>2, <2>3, <2>4, <2>8, <2>9 DEF SolutionTree
  <2>10. CASE ~IsOrNode(p)
    BY <1>2, <2>6, <2>8, <2>10
  <2> QED  BY <2>9, <2>10
<1> SUFFICES ASSUME a # b PROVE FALSE
  OBVIOUS
<1>3. L \subseteq Nat /\ LayerOf(a) \in L
  BY <1>1
<1>4. PICK k \in L : \A j \in L : k <= j
  BY <1>3, LeastNat
<1>5. PICK x \in T : Bad(x) /\ k = LayerOf(x)
  BY <1>4
<1>6. PICK y \in T : Twins(x, y)
  BY <1>5
<1>7. \A z \in T : Bad(z) => LayerOf(z) \in L
  OBVIOUS
<1> HIDE DEF Twins, L, Bad
<1>8. \A z \in T : LayerOf(z) < LayerOf(x) => ~Bad(z)
  BY <1>1, <1>4, <1>5, <1>7
<1> QED  BY <1>2, <1>6, <1>8

(* Every node of a tree agrees with the assignment the tree stands for.    *)
LEMMA TreeAgrees ==
  ASSUME GraphOK, NEW T, NEW nx, SolutionTree(T, nx), NEW n \in T
  PROVE  Agrees(n, AssignmentTo(T))
<1> DEFINE asg == AssignmentTo(T)
           Bad(x) == ~Agrees(x, asg)
           L == {LayerOf(x) : x \in {z \in T : Bad(z)}}
<1>1. \A x \in T : x \in Nodes /\ InSpace(x) /\ LayerOf(x) \in Nat
  BY KidLayer DEF SolutionTree, GraphOK
<1>2. ASSUME NEW x \in T, ~IsOrNode(x) PROVE asg[x.var] = x.val
  <2> DEFINE at == {m \in T : ~IsOrNode(m) /\ m.var = x.var}
  <2>1. x.var \in Vars
    BY <1>1, NodeShape
  <2>2. asg[x.var] = IF at = {} THEN UNKNOWN ELSE (CHOOSE m \in at : TRUE).val
    BY <2>1 DEF AssignmentTo
  <2>3. x \in at /\ \A m \in at : m = x
    BY <1>2, OnePerVariable
  <2> HIDE DEF at
  <2>4. (CHOOSE m \in at : TRUE) = x /\ at # {}
    BY <2>3
  <2> QED  BY <2>2, <2>4
<1>3. ASSUME NEW x \in T, \A z \in T : LayerOf(z) < LayerOf(x) => Agrees(z, asg)
      PROVE  Agrees(x, asg)
  <2>1. CASE x = Top
    <3>1. Given(x) = <<>>
      BY <2>1, RootShape DEF Given
    <3> QED  BY <3>1 DEF Agrees
  <2>2. CASE x # Top
    <3>1. PICK p \in T : x \in nx[p]
      BY <2>2 DEF SolutionTree
    <3>2. x \in kids[p] /\ p \in Nodes
      BY <1>1, <3>1 DEF SolutionTree
    <3>3. LayerOf(p) \in Nat /\ LayerOf(x) = LayerOf(p) + 1 /\ InSpace(p) /\ InSpace(x)
      BY <3>2, KidsInGraph
    <3>4. Agrees(p, asg)
      BY <1>3, <3>3
    <3>5. CASE IsOrNode(p)
      <4>1. ~IsOrNode(x) /\ x.var = p.var /\ x.ctx = p.ctx
        BY <3>2, <3>5, KidsInGraph
      <4>2. \A y \in DOMAIN p.ctx : asg[y] = p.ctx[y]
        BY <3>4, <3>5 DEF Agrees, Given
      <4>3. asg[x.var] = x.val
        BY <1>2, <4>1
      <4>4. \A y \in DOMAIN x.ctx \cup {x.var} : asg[y] = AssignmentOf(x)[y]
        BY <4>1, <4>2, <4>3 DEF AssignmentOf, Extended
      <4>5. Given(x) = AssignmentOf(x) /\ DOMAIN AssignmentOf(x) = DOMAIN x.ctx \cup {x.var}
        BY <4>1 DEF Given, AssignmentOf, Extended
      <4> QED  BY <4>4, <4>5 DEF Agrees
    <3>6. CASE ~IsOrNode(p)
      <4>1. /\ IsOrNode(x) /\ x.var \in ChildSet(p.var)
            /\ x.ctx = Restriction(AssignmentOf(p), Ctx[x.var])
        BY <3>2, <3>6, KidsInGraph
      <4>2. p.var \in Vars /\ DOMAIN AssignmentOf(p) = Ctx[p.var] \cup {p.var}
        BY <3>3, <3>6, NodeShape, AssignedByAnd
      <4>3. Ctx[x.var] \subseteq Ctx[p.var] \cup {p.var}
        BY <4>1, <4>2, ParentOfChild, PseudotreeAssumption
      <4>4. \A y \in Ctx[p.var] \cup {p.var} : asg[y] = AssignmentOf(p)[y]
        BY <3>4, <3>6, <4>2 DEF Agrees, Given
      <4>5. DOMAIN x.ctx = Ctx[x.var] /\ \A y \in Ctx[x.var] : x.ctx[y] = AssignmentOf(p)[y]
        BY <4>1 DEF Restriction
      <4>6. Given(x) = x.ctx
        BY <4>1 DEF Given
      <4> QED  BY <4>3, <4>4, <4>5, <4>6 DEF Agrees
    <3> QED  BY <3>5, <3>6
  <2> QED  BY <2>1, <2>2
<1> SUFFICES ASSUME Bad(n) PROVE FALSE
  OBVIOUS
<1>4. L \subseteq Nat /\ LayerOf(n) \in L
  BY <1>1
<1>5. PICK k \in L : \A j \in L : k <= j
  BY <1>4, LeastNat
<1>6. PICK x \in T : Bad(x) /\ k = LayerOf(x)
  BY <1>5
<1>7. \A z \in T : Bad(z) => LayerOf(z) \in L
  OBVIOUS
<1>8. \A z \in T : LayerOf(z) < LayerOf(x) => Agrees(z, asg)
  <2> HIDE DEF L, asg
  <2> QED  BY <1>1, <1>5, <1>6, <1>7
<1> QED  BY <1>3, <1>6, <1>8

PartialNext == [n \in Nodes |-> NextInTree(n)]
MarkedNext  == [n \in Nodes |-> IF ~IsOrNode(n) THEN kids[n]
                  ELSE IF kids[n] = {} \/ feasibleChild[n] = NULL THEN {} ELSE {feasibleChild[n]}]

(* Arcs of the graph, one at an OR node, lead from the root to a tree.     *)
LEMMA ArcsMakeTree ==
  ASSUME GraphOK, NEW nx,
         \A p \in Nodes : /\ nx[p] \subseteq kids[p]
                          /\ IsOrNode(p) => \A k, m \in nx[p] : k = m,
         NEW f, ReachedBy(f, Nodes, nx)
  PROVE  SolutionTree(f[Top], nx)
<1> DEFINE rank == [n \in Nodes |-> LayerOf(n)]
<1>1. IsFiniteSet(Nodes) /\ Top \in Nodes /\ \A p \in Nodes : kids[p] \subseteq Nodes
  BY DEF GraphOK
<1>2. ASSUME NEW p \in Nodes
      PROVE  /\ rank[p] \in Int /\ nx[p] \subseteq Nodes
             /\ \A m \in nx[p] : rank[p] < rank[m]
  <2>1. InSpace(p) /\ LayerOf(p) \in Nat
    BY KidLayer DEF GraphOK
  <2>2. ASSUME NEW m \in nx[p] PROVE m \in Nodes /\ LayerOf(m) = LayerOf(p) + 1
    BY KidsInGraph
  <2> QED  BY <2>1, <2>2
<1> HIDE DEF rank
<1>3. /\ Top \in f[Top] /\ f[Top] \subseteq Nodes
      /\ \A z \in f[Top] : nx[z] \subseteq f[Top]
      /\ \A z \in f[Top] : z = Top \/ \E p \in f[Top] : z \in nx[p]
  BY <1>1, <1>2, ReachedTree
<1> QED  BY <1>3 DEF SolutionTree

(* FindBestPartialTree walks a tree.                                       *)
LEMMA PartialIsTree ==
  ASSUME GraphOK, \A n \in Nodes : Up(n)
  PROVE  SolutionTree(PartialTree, PartialNext)
<1> DEFINE Solves(g) == g = [n \in Nodes |-> {n} \cup UNION {g[m] : m \in NextInTree(n)}]
           f == CHOOSE g : Solves(g)
<1>1. \A p \in Nodes : /\ PartialNext[p] = NextInTree(p) /\ NextInTree(p) \subseteq kids[p]
                       /\ IsOrNode(p) => \A k, m \in NextInTree(p) : k = m
  BY DEF PartialNext, NextInTree, Up
<1>2. \A p \in Nodes : PartialNext[p] \subseteq Nodes
  BY <1>1 DEF GraphOK
<1>3. PICK g : ReachedBy(g, Nodes, PartialNext)
  BY <1>2, ReachExists
<1>4. \A h : Solves(h) <=> ReachedBy(h, Nodes, PartialNext)
  <2> DEFINE one(h) == [n \in Nodes |-> {n} \cup UNION {h[m] : m \in NextInTree(n)}]
             two(h) == [n \in Nodes |-> {n} \cup UNION {h[m] : m \in PartialNext[n]}]
  <2>1. \A h : one(h) = two(h)
    BY <1>1
  <2>2. \A h : /\ Solves(h) <=> h = one(h)
               /\ ReachedBy(h, Nodes, PartialNext) <=> h = two(h)
    BY DEF ReachedBy
  <2> HIDE DEF one, two, Solves
  <2> QED  BY <2>1, <2>2
<1>5. PartialTree = f[Top]
  BY DEF PartialTree
<1> HIDE DEF Solves
<1>6. Solves(f)
  BY <1>3, <1>4
<1> HIDE DEF f
<1>7. ReachedBy(f, Nodes, PartialNext)
  BY <1>4, <1>6
<1>8. \A p \in Nodes : /\ PartialNext[p] \subseteq kids[p]
                       /\ IsOrNode(p) => \A k, m \in PartialNext[p] : k = m
  BY <1>1
<1>9. SolutionTree(f[Top], PartialNext)
  BY <1>7, <1>8, ArcsMakeTree
<1> QED  BY <1>5, <1>9

(* And so does FindFeasiblePartialTree.                                    *)
LEMMA MarkedIsTree ==
  ASSUME GraphOK, \A n \in Nodes : feasibleChild[n] # NULL => feasibleChild[n] \in kids[n]
  PROVE  SolutionTree(MarkedTree, MarkedNext)
<1> DEFINE to(n) == IF ~IsOrNode(n) THEN kids[n]
                    ELSE IF kids[n] = {} \/ feasibleChild[n] = NULL THEN {} ELSE {feasibleChild[n]}
           Solves(g) == g = [n \in Nodes |-> {n} \cup UNION {g[m] : m \in to(n)}]
           f == CHOOSE g : Solves(g)
<1>1. \A p \in Nodes : /\ MarkedNext[p] = to(p) /\ to(p) \subseteq kids[p]
                       /\ IsOrNode(p) => \A k, m \in to(p) : k = m
  BY DEF MarkedNext
<1>2. MarkedTree = f[Top]
  BY DEF MarkedTree
<1> HIDE DEF to
<1>3. \A p \in Nodes : MarkedNext[p] \subseteq Nodes
  BY <1>1 DEF GraphOK
<1>4. PICK g : ReachedBy(g, Nodes, MarkedNext)
  BY <1>3, ReachExists
<1>5. \A h : Solves(h) <=> ReachedBy(h, Nodes, MarkedNext)
  <2> DEFINE one(h) == [n \in Nodes |-> {n} \cup UNION {h[m] : m \in to(n)}]
             two(h) == [n \in Nodes |-> {n} \cup UNION {h[m] : m \in MarkedNext[n]}]
  <2>1. \A h : one(h) = two(h)
    BY <1>1
  <2>2. \A h : /\ Solves(h) <=> h = one(h)
               /\ ReachedBy(h, Nodes, MarkedNext) <=> h = two(h)
    BY DEF ReachedBy
  <2> HIDE DEF one, two, Solves
  <2> QED  BY <2>1, <2>2
<1> HIDE DEF Solves
<1>6. Solves(f)
  BY <1>4, <1>5
<1> HIDE DEF f
<1>7. ReachedBy(f, Nodes, MarkedNext)
  BY <1>5, <1>6
<1>8. \A p \in Nodes : /\ MarkedNext[p] \subseteq kids[p]
                       /\ IsOrNode(p) => \A k, m \in MarkedNext[p] : k = m
  BY <1>1
<1>9. SolutionTree(f[Top], MarkedNext)
  BY <1>7, <1>8, ArcsMakeTree
<1> QED  BY <1>2, <1>9

(* A root that is not solved leaves tips to expand, none of them solved; a *)
(* solved root leaves none.                                                *)
LEMMA TipsOfPartialTree ==
  ASSUME GraphOK, \A n \in Nodes : Up(n) /\ Down(n)
  PROVE  LET T == {n \in PartialTree : kids[n] = {}}
         IN  /\ ~solved[Top] => T # {} /\ \A n \in T : ~solved[n]
             /\ solved[Top] => T = {}
<1> DEFINE T == PartialTree
           nx == PartialNext
<1>1. SolutionTree(T, nx)
  BY PartialIsTree
<1>2. /\ Top \in T /\ T \subseteq Nodes
      /\ \A p \in T : nx[p] = NextInTree(p) /\ NextInTree(p) \subseteq T /\ NextInTree(p) \subseteq kids[p]
      /\ \A z \in T : z = Top \/ \E p \in T : z \in NextInTree(p)
  <2>1. /\ Top \in T /\ T \subseteq Nodes
        /\ \A p \in T : nx[p] \subseteq T /\ nx[p] \subseteq kids[p]
        /\ \A z \in T : z = Top \/ \E p \in T : z \in nx[p]
    BY <1>1 DEF SolutionTree
  <2>2. \A p \in T : nx[p] = NextInTree(p)
    BY <2>1 DEF PartialNext
  <2> HIDE DEF nx, T
  <2>3. \A z \in T : z = Top \/ \E p \in T : z \in NextInTree(p)
    BY <2>1, <2>2
  <2> QED  BY <2>1, <2>2, <2>3
<1> HIDE DEF nx, T
<1>3. \A p \in T : LayerOf(p) \in Nat /\ \A m \in NextInTree(p) : LayerOf(m) = LayerOf(p) + 1
  <2>1. \A p \in Nodes : LayerOf(p) \in Nat
    BY KidLayer DEF GraphOK
  <2> QED  BY <1>2, <2>1, KidsInGraph
<1>4. ASSUME ~solved[Top] PROVE \A n \in T : ~solved[n]
  <2> DEFINE L == {LayerOf(x) : x \in {z \in T : solved[z]}}
  <2> SUFFICES ASSUME NEW n \in T, solved[n] PROVE FALSE
    OBVIOUS
  <2>1. L \subseteq Nat /\ LayerOf(n) \in L
    BY <1>3
  <2>2. PICK k \in L : \A j \in L : k <= j
    BY <2>1, LeastNat
  <2>3. PICK x \in T : solved[x] /\ k = LayerOf(x)
    BY <2>2
  <2>4. \A z \in T : solved[z] => LayerOf(z) \in L
    OBVIOUS
  <2> HIDE DEF L
  <2>5. PICK p \in T : x \in NextInTree(p)
    BY <1>2, <1>4, <2>3
  <2>6. ~solved[p] /\ p \in Nodes /\ Up(p) /\ kids[p] # {}
    BY <1>2, <1>3, <2>2, <2>3, <2>4, <2>5
  <2>7. CASE IsOrNode(p)
    BY <2>3, <2>5, <2>6, <2>7 DEF NextInTree, Up
  <2>8. CASE ~IsOrNode(p)
    BY <2>3, <2>5, <2>8 DEF NextInTree
  <2> QED  BY <2>7, <2>8
<1>5. ASSUME ~solved[Top] PROVE \E n \in T : kids[n] = {}
  <2> DEFINE rank == [x \in T |-> LayerOf(x)]
  <2>1. IsFiniteSet(T) /\ T # {} /\ \A x \in T : rank[x] \in Int /\ rank[x] = LayerOf(x)
    BY <1>2, <1>3, FS_Subset DEF GraphOK
  <2> HIDE DEF rank
  <2>2. PICK n \in T : \A x \in T : rank[x] <= rank[n]
    BY <2>1, HighestOf
  <2>3. NextInTree(n) = {}
    <3> SUFFICES ASSUME NEW m \in NextInTree(n) PROVE FALSE
      OBVIOUS
    <3>1. m \in T /\ LayerOf(m) = LayerOf(n) + 1 /\ LayerOf(n) \in Nat
      BY <1>2, <1>3
    <3> QED  BY <2>1, <2>2, <3>1
  <2>4. ~solved[n] /\ n \in Nodes /\ Up(n)
    BY <1>2, <1>4, <1>5
  <2>5. kids[n] = {}
    BY <2>3, <2>4 DEF NextInTree, Up
  <2> QED  BY <2>5
<1>6. ASSUME solved[Top] PROVE \A n \in T : kids[n] # {}
  <2> DEFINE b == best[Top]
             L == {LayerOf(x) : x \in {z \in T : z \notin {Top, b}}}
  <2>1. /\ Top \in Nodes /\ InSpace(Top) /\ IsOrNode(Top) /\ Top.var = Root /\ Down(Top)
    BY RootShape DEF GraphOK
  <2>2. kids[Top] = KidSet(Top) /\ b \in kids[Top] /\ solved[b]
    BY <1>6, <2>1 DEF Down
  <2>3. b \in Nodes /\ InSpace(b) /\ ~IsOrNode(b) /\ b.var = Root
    BY <2>1, <2>2, KidsInGraph
  <2>4. kids[b] = KidSet(b) /\ \A m \in kids[b] : solved[m]
    BY <2>2, <2>3 DEF Down
  <2>5. kids[b] # {} /\ kids[Top] # {}
    BY <2>2, <2>3, <2>4, KidsOfAnd, DummyAssumption
  <2>6. NextInTree(Top) = {b} /\ NextInTree(b) = {}
    BY <2>1, <2>3, <2>4, <2>5 DEF NextInTree
  <2>7. T \subseteq {Top, b}
    <3> SUFFICES ASSUME NEW n \in T, n \notin {Top, b} PROVE FALSE
      OBVIOUS
    <3>1. L \subseteq Nat /\ LayerOf(n) \in L
      BY <1>3
    <3>2. PICK k \in L : \A j \in L : k <= j
      BY <3>1, LeastNat
    <3>3. PICK x \in T : x \notin {Top, b} /\ k = LayerOf(x)
      BY <3>2
    <3>4. \A z \in T : z \notin {Top, b} => LayerOf(z) \in L
      OBVIOUS
    <3> HIDE DEF L, b
    <3>5. PICK p \in T : x \in NextInTree(p)
      BY <1>2, <3>3
    <3>6. p \in {Top, b}
      BY <1>3, <3>2, <3>3, <3>4, <3>5
    <3> QED  BY <2>6, <3>3, <3>5, <3>6
  <2> HIDE DEF b
  <2> QED  BY <2>5, <2>7
<1> QED  BY <1>4, <1>5, <1>6 DEF T

-----------------------------------------------------------------------------
(* Steps that change nothing but the graph. *)

(* What the exact values and the weights are never changes.                *)
LEMMA Frozen ==
  ASSUME prob' = prob
  PROVE  /\ \A n : Arc(n)' = Arc(n) /\ ExactAt(n)' = ExactAt(n) /\ Exact(n)' = Exact(n)
         /\ \A n, q : /\ UpperAt(n, q)' <=> UpperAt(n, q)
                      /\ LowerAt(n, q)' <=> LowerAt(n, q)
                      /\ TightAt(n, q)' <=> TightAt(n, q)
<1>1. \A n : Arc(n)' = Arc(n) /\ ExactAt(n)' = ExactAt(n) /\ Exact(n)' = Exact(n)
  BY DEF Arc, ExactAt, Exact, ExactBelow, Weight, Label
<1>2. \A n, q : UpperAt(n, q)' <=> UpperAt(n, q)
  BY <1>1 DEF UpperAt
<1>3. \A n, q : LowerAt(n, q)' <=> LowerAt(n, q)
  BY <1>1 DEF LowerAt
<1>4. \A n, q : TightAt(n, q)' <=> TightAt(n, q)
  BY <1>1 DEF TightAt
<1> QED  BY <1>1, <1>2, <1>3, <1>4

(* The graph after the expansion of n *)
Grown(n) ==
  /\ Nodes' = Nodes \cup KidSet(n) /\ n \in Nodes /\ n \notin KidSet(n)
  /\ kids[n] = {} /\ kids'[n] = KidSet(n)
  /\ \A m \in Nodes : /\ m # n => kids'[m] = kids[m]
                      /\ value'[m] = value[m] /\ solved'[m] = solved[m] /\ best'[m] = best[m]
  /\ \A m \in Nodes' \ Nodes : /\ kids'[m] = {} /\ ~solved'[m] /\ best'[m] = NULL
                               /\ m # Top /\ InSpace(m)
                               /\ value'[m] = IF IsOrNode(m) THEN HeurOR(m) ELSE HeurAND(m)

(* Expand gives a tip its children, and the new ones their bounds.         *)
LEMMA ExpandGrows ==
  ASSUME GraphOK, prob' = prob, NEW n \in Nodes, kids[n] = {},
         NEW asg, Agrees(n, asg), Expand(n, asg)
  PROVE  GraphOK' /\ Grown(n)
<1> DEFINE new == KidSet(n) \ Nodes
           all == Nodes \cup new
<1>1. /\ InSpace(n) /\ IsFiniteSet(Nodes) /\ Top \in Nodes /\ prob \in Problems
      /\ \A m \in Nodes : InSpace(m) /\ kids[m] \subseteq Nodes
                          /\ (kids[m] = {} \/ kids[m] = KidSet(m))
                          /\ parents[m] = {p \in Nodes : m \in kids[p]}
      /\ value \in [Nodes -> Known] /\ solved \in [Nodes -> BOOLEAN]
      /\ best \in [Nodes -> Nodes \cup {NULL}]
  BY DEF GraphOK
<1>2. /\ kids' = [m \in all |-> IF m = n THEN KidSet(n) ELSE IF m \in new THEN {} ELSE kids[m]]
      /\ parents' = [m \in all |-> (IF m \in new THEN {} ELSE parents[m])
                                     \cup (IF m \in KidSet(n) THEN {n} ELSE {})]
      /\ value' = [m \in all |-> IF m \notin new THEN value[m]
                                 ELSE IF IsOrNode(m) THEN HeurOR(m) ELSE HeurAND(m)]
      /\ solved' = [m \in all |-> m \notin new /\ solved[m]]
      /\ best' = [m \in all |-> IF m \in new THEN NULL ELSE best[m]]
  <2>1. ChildrenOf(n, asg) = KidSet(n)
    BY <1>1, AgreedKids
  <2> QED  BY <2>1 DEF Expand
<1>3. Nodes' = all
  BY <1>2 DEF Nodes
<1>4. /\ IsFiniteSet(KidSet(n)) /\ \A m \in KidSet(n) : InSpace(m)
      /\ n \notin KidSet(n)
  <2>1. \A m \in KidSet(n) : LayerOf(m) = LayerOf(n) + 1 /\ LayerOf(n) \in Nat
    BY <1>1, KidLayer
  <2> QED  BY <1>1, <2>1, KidsOfOr, KidsOfAnd
<1>5. /\ all = Nodes \cup KidSet(n) /\ n \in all /\ n \notin new /\ Nodes' \ Nodes = new
      /\ \A m \in Nodes : m \in all /\ m \notin new
      /\ \A m \in new : m \in all /\ m # n /\ m \in KidSet(n) /\ m \notin Nodes
      /\ \A m \in all : m \in Nodes \/ m \in new
      /\ IsFiniteSet(all)
  <2>1. IsFiniteSet(Nodes \cup KidSet(n))
    BY <1>1, <1>4, FS_Union
  <2> QED  BY <1>3, <2>1
<1> HIDE DEF new, all
<1>6. Grown(n)
  <2>1. kids'[n] = KidSet(n)
    BY <1>2, <1>5
  <2>2. ASSUME NEW m \in Nodes
        PROVE  /\ m # n => kids'[m] = kids[m]
               /\ value'[m] = value[m] /\ solved'[m] = solved[m] /\ best'[m] = best[m]
    BY <1>1, <1>2, <1>5
  <2>3. ASSUME NEW m \in new
        PROVE  /\ kids'[m] = {} /\ ~solved'[m] /\ best'[m] = NULL
               /\ value'[m] = IF IsOrNode(m) THEN HeurOR(m) ELSE HeurAND(m)
    BY <1>2, <1>5
  <2>4. \A m \in new : m # Top /\ InSpace(m)
    BY <1>1, <1>4, <1>5
  <2> QED  BY <1>3, <1>4, <1>5, <2>1, <2>2, <2>3, <2>4 DEF Grown
<1>7. \A m \in all : /\ kids'[m] \in SUBSET all /\ (kids'[m] = {} \/ kids'[m] = KidSet(m))
                     /\ InSpace(m)
  <2>1. \A m \in Nodes : kids'[m] \in SUBSET all /\ (kids'[m] = {} \/ kids'[m] = KidSet(m))
    BY <1>1, <1>5, <1>6 DEF Grown
  <2>2. \A m \in new : kids'[m] = {}
    BY <1>2, <1>5
  <2> QED  BY <1>1, <1>4, <1>5, <2>1, <2>2
<1>8. ASSUME NEW m \in all PROVE parents'[m] = {p \in all : m \in kids'[p]}
  <2>1. parents'[m] = (IF m \in new THEN {} ELSE parents[m])
                         \cup (IF m \in KidSet(n) THEN {n} ELSE {})
    BY <1>2
  <2>2. ASSUME NEW p \in all
        PROVE  m \in kids'[p] <=> (p = n /\ m \in KidSet(n)) \/ (p \in Nodes /\ p # n /\ m \in kids[p])
    <3>1. CASE p \in new
      BY <1>2, <1>5, <3>1
    <3>2. CASE p \in Nodes
      BY <1>6, <3>2 DEF Grown
    <3> QED  BY <1>5, <3>1, <3>2
  <2>3. CASE m \in new
    BY <1>1, <1>5, <2>1, <2>2, <2>3
  <2>4. CASE m \in Nodes
    <3>1. parents[m] = {p \in Nodes : m \in kids[p]} /\ m \notin new
      BY <1>1, <1>5, <2>4
    <3>2. n \notin parents[m]
      BY <3>1
    <3>3. \A p : p \in parents'[m] <=> p \in all /\ m \in kids'[p]
      BY <1>5, <2>1, <2>2, <3>1, <3>2
    <3>4. parents'[m] \subseteq all
      BY <3>3
    <3> QED  BY <3>3, <3>4
  <2> QED  BY <1>5, <2>3, <2>4
<1>9. ASSUME NEW m \in all PROVE value'[m] \in Known
  <2>1. CASE m \in Nodes
    BY <1>1, <1>6, <2>1 DEF Grown
  <2>2. CASE m \in new
    <3> DEFINE q == IF IsOrNode(m) THEN HeurOR(m) ELSE HeurAND(m)
    <3>1. value'[m] = q /\ m # Top /\ InSpace(m)
      BY <1>5, <1>6, <2>2 DEF Grown
    <3>2. UpperAt(m, q)
      <4> HIDE DEF q
      <4>1. q = IF IsOrNode(m) THEN HeurOR(m) ELSE HeurAND(m)
        BY DEF q
      <4> QED  BY <1>1, <3>1, <4>1, NewValue
    <3> QED  BY <3>1, <3>2 DEF UpperAt
  <2> QED  BY <1>5, <2>1, <2>2
<1>10. /\ kids' \in [all -> SUBSET all] /\ value' \in [all -> Known]
       /\ solved' \in [all -> BOOLEAN] /\ best' \in [all -> all \cup {NULL}]
       /\ parents' \in [all -> SUBSET all]
  <2>1. kids' \in [all -> SUBSET all]
    BY <1>2, <1>7
  <2>2. value' \in [all -> Known]
    BY <1>2, <1>9
  <2>3. solved' \in [all -> BOOLEAN]
    BY <1>1, <1>2, <1>5
  <2>4. best' \in [all -> all \cup {NULL}]
    BY <1>1, <1>2, <1>5
  <2>5. parents' \in [all -> SUBSET all]
    BY <1>2, <1>8
  <2> QED  BY <2>1, <2>2, <2>3, <2>4, <2>5
<1>11. Top \in all
  BY <1>1, <1>5
<1> QED  BY <1>1, <1>3, <1>5, <1>6, <1>7, <1>8, <1>10, <1>11 DEF GraphOK

(* What does not touch the graph keeps what is true of it.                 *)
LEMMA SameGraph ==
  /\ GraphOK /\ UNCHANGED <<prob, graph>> => GraphOK'
  /\ UpperOK /\ UNCHANGED <<prob, graph, bound>> => UpperOK'
  /\ LowerOK /\ UNCHANGED <<prob, kids, algorithm, lowerGraph>> => LowerOK'
  /\ UNCHANGED graph => Nodes' = Nodes /\ \A n : (Up(n)' <=> Up(n)) /\ (Down(n)' <=> Down(n))
<1>1. UNCHANGED kids => Nodes' = Nodes
  BY DEF Nodes
<1>2. UNCHANGED graph =>
        /\ kids' = kids /\ parents' = parents /\ value' = value /\ solved' = solved /\ best' = best
  BY DEF graph
<1>3. GraphOK /\ UNCHANGED <<prob, graph>> => GraphOK'
  BY <1>1, <1>2 DEF GraphOK
<1>4. ASSUME UpperOK, UNCHANGED <<prob, graph, bound>> PROVE UpperOK'
  <2>1. Nodes' = Nodes /\ value' = value /\ solved' = solved /\ bound' = bound /\ prob' = prob
    BY <1>1, <1>2, <1>4
  <2> QED  BY <1>4, <2>1, Frozen DEF UpperOK
<1>5. ASSUME LowerOK, UNCHANGED <<prob, kids, algorithm, lowerGraph>> PROVE LowerOK'
  <2>1. /\ Nodes' = Nodes /\ feasibleValue' = feasibleValue /\ feasible' = feasible
        /\ feasibleChild' = feasibleChild /\ algorithm' = algorithm /\ prob' = prob /\ kids' = kids
    BY <1>1, <1>5 DEF lowerGraph
  <2>2. Lowered' = Lowered
    BY <2>1 DEF Lowered, Anytime
  <2> QED  BY <1>5, <2>1, <2>2, Frozen DEF LowerOK
<1>6. UNCHANGED graph => Nodes' = Nodes /\ \A n : (Up(n)' <=> Up(n)) /\ (Down(n)' <=> Down(n))
  BY <1>1, <1>2 DEF Up, Down
<1> QED  BY <1>3, <1>4, <1>5, <1>6

(* Bounds and flags survive the expansion of a node that is not solved,    *)
(* but that nothing has been said yet of its children.                     *)
LEMMA GrownUpper ==
  ASSUME GraphOK, UpperOK, prob' = prob, bound' = bound, NEW n, Grown(n)
  PROVE  UpperOK'
<1>1. prob \in Problems /\ Top \in Nodes
  BY DEF GraphOK
<1>2. ASSUME NEW m \in Nodes'
      PROVE  /\ UpperAt(m, value'[m])
             /\ solved'[m] \/ IsTerminal(m) => TightAt(m, value'[m])
  <2>1. CASE m \in Nodes
    BY <2>1 DEF Grown, UpperOK
  <2>2. CASE m \notin Nodes
    <3> DEFINE q == IF IsOrNode(m) THEN HeurOR(m) ELSE HeurAND(m)
    <3>1. value'[m] = q /\ m # Top /\ InSpace(m) /\ ~solved'[m]
      BY <2>2 DEF Grown
    <3>2. UpperAt(m, q) /\ (IsTerminal(m) => TightAt(m, q))
      <4>1. q = IF IsOrNode(m) THEN HeurOR(m) ELSE HeurAND(m)
        OBVIOUS
      <4> HIDE DEF q
      <4> QED  BY <1>1, <3>1, <4>1, NewValue
    <3> QED  BY <3>1, <3>2
  <2> QED  BY <2>1, <2>2
<1>3. value'[Top] = value[Top]
  BY <1>1 DEF Grown
<1> QED  BY <1>2, <1>3, Frozen DEF UpperOK

(* The expansion of a node that is not solved leaves the solved flags in   *)
(* agreement, but for the node itself, which is to be revised.             *)
LEMMA GrownFlags ==
  ASSUME GraphOK, NEW n, Grown(n), ~solved[n]
  PROVE  /\ (\A m \in Nodes : Down(m)) => \A m \in Nodes' : Down(m)'
         /\ (\A m \in Nodes : Up(m)) => \A m \in Nodes' \ {n} : Up(m)'
<1>1. \A m \in Nodes : kids[m] \subseteq Nodes
  BY DEF GraphOK
<1>2. /\ n \in Nodes /\ kids'[n] = KidSet(n)
      /\ \A m \in Nodes : /\ m # n => kids'[m] = kids[m]
                          /\ solved'[m] = solved[m] /\ best'[m] = best[m]
      /\ \A m \in Nodes' \ Nodes : kids'[m] = {} /\ ~solved'[m]
  BY DEF Grown
<1>3. ASSUME \A m \in Nodes : Down(m), NEW m \in Nodes' PROVE Down(m)'
  <2>1. CASE ~solved'[m]
    BY <2>1 DEF Down
  <2>2. CASE solved'[m]
    <3>1. m \in Nodes /\ m # n /\ kids'[m] = kids[m] /\ solved[m] /\ best'[m] = best[m] /\ Down(m)
      BY <1>2, <1>3, <2>2
    <3>2. \A k \in kids[m] : solved'[k] = solved[k]
      BY <1>1, <1>2, <3>1
    <3> QED  BY <3>1, <3>2 DEF Down
  <2> QED  BY <2>1, <2>2
<1>4. ASSUME \A m \in Nodes : Up(m), NEW m \in Nodes' \ {n} PROVE Up(m)'
  <2>1. CASE m \in Nodes
    <3>1. kids'[m] = kids[m] /\ solved'[m] = solved[m] /\ best'[m] = best[m] /\ Up(m)
      BY <1>2, <1>4, <2>1
    <3>2. \A k \in kids[m] : solved'[k] = solved[k]
      BY <1>1, <1>2, <2>1
    <3> QED  BY <3>1, <3>2 DEF Up
  <2>2. CASE m \notin Nodes
    BY <1>2, <1>4, <2>2 DEF Up
  <2> QED  BY <2>1, <2>2
<1> QED  BY <1>3, <1>4

(* A dive and the best-first expansion mark a child of an OR node, and     *)
(* give new nodes the trivial lower bound.                                 *)
LEMMA MarkedLower ==
  ASSUME GraphOK, LowerOK, Anytime, prob' = prob, algorithm' = algorithm,
         NEW n, Grown(n), GraphOK', NEW asg, ExpandAndMark(n, asg)
  PROVE  LowerOK'
<1>1. /\ prob \in Problems /\ Lowered = Nodes /\ Lowered' = Nodes'
      /\ n \in Nodes /\ InSpace(n) /\ kids'[n] = KidSet(n) /\ KidSet(n) \subseteq Nodes'
      /\ Nodes' = Nodes \cup KidSet(n)
  BY DEF GraphOK, Lowered, Anytime, Grown
<1>2. PICK marked : /\ marked = IF IsOrNode(n) THEN MarkedChild(n, kids'[n], value') ELSE NULL
                    /\ feasibleValue' = [m \in Nodes \cup (Nodes' \ Nodes) |->
                          IF m \in Nodes' \ Nodes THEN ELEM_ZERO ELSE feasibleValue[m]]
                    /\ feasible' = [m \in Nodes \cup (Nodes' \ Nodes) |->
                          m \notin Nodes' \ Nodes /\ feasible[m]]
                    /\ feasibleChild' = [m \in Nodes \cup (Nodes' \ Nodes) |->
                          IF m = n THEN marked
                          ELSE IF m \in Nodes' \ Nodes THEN NULL ELSE feasibleChild[m]]
  BY DEF ExpandAndMark, Nodes
<1>3. Nodes \cup (Nodes' \ Nodes) = Nodes' /\ Nodes \subseteq Nodes'
  BY <1>1
<1>4. marked \in KidSet(n) \cup {NULL}
  <2>1. CASE IsOrNode(n)
    <3>1. \A m \in KidSet(n) : value'[m] \in Known
      BY <1>1 DEF GraphOK
    <3> QED  BY <1>1, <1>2, <2>1, <3>1, MarkedExists
  <2>2. CASE ~IsOrNode(n)
    BY <1>2, <2>2
  <2> QED  BY <2>1, <2>2
<1>5. /\ feasibleValue \in [Nodes -> Known] /\ feasible \in [Nodes -> BOOLEAN]
      /\ feasibleChild \in [Nodes -> Nodes \cup {NULL}]
      /\ \A m \in Nodes : LowerAt(m, feasibleValue[m])
      /\ \A m \in Nodes : feasibleChild[m] # NULL => feasibleChild[m] \in kids[m]
  BY <1>1 DEF LowerOK
<1>6. ELEM_ZERO \in Known
  BY TimesLaws
<1>7. /\ feasibleValue' \in [Nodes' -> Known] /\ feasible' \in [Nodes' -> BOOLEAN]
      /\ feasibleChild' \in [Nodes' -> Nodes' \cup {NULL}]
  <2>1. feasibleValue' \in [Nodes' -> Known]
    BY <1>2, <1>3, <1>5, <1>6
  <2>2. feasible' \in [Nodes' -> BOOLEAN]
    BY <1>2, <1>3, <1>5
  <2>3. feasibleChild' \in [Nodes' -> Nodes' \cup {NULL}]
    BY <1>1, <1>2, <1>3, <1>4, <1>5
  <2> QED  BY <2>1, <2>2, <2>3
<1>8. ASSUME NEW m \in Nodes' PROVE LowerAt(m, feasibleValue'[m])
  <2>1. CASE m \in Nodes
    BY <1>2, <1>3, <1>5, <2>1
  <2>2. CASE m \notin Nodes
    <3>1. feasibleValue'[m] = ELEM_ZERO /\ InSpace(m)
      BY <1>2, <1>3, <2>2 DEF GraphOK
    <3>2. Arc(m) \in Known /\ ExactAt(m) \in Known
      BY <1>1, <3>1, ArcCost, ExactProduct, ExactMaximum DEF ExactAt
    <3>3. Times(Arc(m), ELEM_ZERO) = ELEM_ZERO /\ Times(Arc(m), ExactAt(m)) \in Cost
      BY <3>2, CostOrder, TimesLaws
    <3> QED  BY <1>6, <3>1, <3>3, NeverGreater DEF LowerAt
  <2> QED  BY <2>1, <2>2
<1>9. ASSUME NEW m \in Nodes', feasibleChild'[m] # NULL PROVE feasibleChild'[m] \in kids'[m]
  <2>1. CASE m = n
    BY <1>1, <1>2, <1>3, <1>4, <1>9, <2>1
  <2>2. CASE m # n
    BY <1>2, <1>3, <1>5, <1>9, <2>2 DEF Grown
  <2> QED  BY <2>1, <2>2
<1> QED  BY <1>1, <1>7, <1>8, <1>9, Frozen DEF LowerOK

(* The plain search never uses its lower bounds.                           *)
LEMMA PlainLower ==
  ASSUME LowerOK, ~Anytime, UNCHANGED anytimeVars, prob' = prob,
         Nodes \subseteq Nodes', \A m \in Nodes : kids[m] \subseteq kids'[m], Top \in Nodes
  PROVE  LowerOK'
<1>1. /\ feasibleValue' = feasibleValue /\ feasible' = feasible /\ algorithm' = algorithm
      /\ feasibleChild' = feasibleChild
  BY DEF anytimeVars, lowerGraph
<1>2. Lowered' = {Top} /\ Lowered = {Top}
  BY <1>1 DEF Lowered, Anytime
<1> QED  BY <1>1, <1>2, Frozen DEF LowerOK

(* A set of children can be counted.                                       *)
LEMMA KidCount ==
  ASSUME GraphOK, NEW p \in Nodes, NEW S
  PROVE  /\ IsFiniteSet(kids[p] \cap S) /\ VisitedKids(p, S) \in Nat
         /\ VisitedKids(p, S) = Cardinality(kids[p] \cap S)
<1>1. IsFiniteSet(kids[p])
  BY FS_Subset DEF GraphOK
<1>2. IsFiniteSet(kids[p] \cap S)
  BY <1>1, FS_Subset
<1> QED  BY <1>2, FS_CardinalityType DEF VisitedKids

(* The expansion of a tip puts it alone into the set to be revised.        *)
LEMMA ExpandToRevise ==
  ASSUME AOInv, NEW n \in tips, prob' = prob, algorithm' = algorithm, bound' = bound,
         repairNeeded' = repairNeeded, layer' = layer, tips' = tips, diveTips' = diveTips,
         curCost' = curCost, upper' = upper, assignment' = assignment,
         ~repairNeeded, stage \in {"choose", "best"}, stage' = "revise",
         Expand(n, assignment), revise' = [m \in {n} |-> 0],
         \/ ~Anytime /\ UNCHANGED anytimeVars
         \/ Anytime /\ ExpandAndMark(n, assignment) /\ next' = n
  PROVE  AOInv'
<1>1. /\ GraphOK /\ UpperOK /\ LowerOK /\ FlagsOK /\ WaitOK /\ ExpandedOK /\ StageOK /\ TipsOK
      /\ CostsOK
  BY DEF AOInv
<1>2. n \in Nodes /\ kids[n] = {} /\ ~solved[n] /\ Agrees(n, assignment)
  BY <1>1 DEF TipsOK, TipOK
<1>3. GraphOK' /\ Grown(n)
  BY <1>1, <1>2, ExpandGrows
<1>4. UpperOK'
  BY <1>1, <1>3, GrownUpper
<1>5. Anytime' <=> Anytime
  BY DEF Anytime
<1>6. LowerOK'
  <2>1. CASE Anytime
    BY <1>1, <1>3, <2>1, MarkedLower
  <2>2. CASE ~Anytime
    <3>1. Nodes \subseteq Nodes' /\ Top \in Nodes
      BY <1>1, <1>3 DEF Grown, GraphOK
    <3>2. \A m \in Nodes : kids[m] \subseteq kids'[m]
      BY <1>2, <1>3 DEF Grown
    <3> QED  BY <1>1, <2>2, <3>1, <3>2, PlainLower
  <2> QED  BY <2>1, <2>2
<1>7. FlagsOK'
  <2>1. (\A m \in Nodes : Down(m)) /\ (\A m \in Nodes : Up(m))
    BY <1>1 DEF FlagsOK
  <2>2. (\A m \in Nodes' : Down(m)') /\ (\A m \in Nodes' \ {n} : Up(m)')
    BY <1>1, <1>2, <1>3, <2>1, GrownFlags
  <2> QED  BY <2>2 DEF FlagsOK
<1>8. WaitOK'
  <2>1. DOMAIN revise' = {n} /\ revise'[n] = 0 /\ revise' \in [{n} -> Nat]
    OBVIOUS
  <2>2. n \in Nodes' /\ kids'[n] = KidSet(n) /\ ~solved'[n]
    BY <1>2, <1>3 DEF Grown
  <2>3. Anytime => n \in expanded'
    BY DEF ExpandAndMark
  <2>4. VisitedKids(n, DOMAIN revise)' \in Nat
    <3>1. IsFiniteSet(kids'[n] \cap {n})
      <4>1. IsFiniteSet({n}) /\ kids'[n] \cap {n} \subseteq {n}
        BY FS_Singleton
      <4> QED  BY <4>1, FS_Subset
    <3> QED  BY <2>1, <3>1, FS_CardinalityType DEF VisitedKids
  <2>5. revise'[n] <= VisitedKids(n, DOMAIN revise)'
    BY <2>1, <2>4
  <2> QED  BY <1>5, <2>1, <2>2, <2>3, <2>5 DEF WaitOK
<1>9. ExpandedOK'
  <2>1. DOMAIN revise' = {n} /\ DOMAIN revise = {}
    BY <1>1 DEF WaitOK
  <2>2. CASE Anytime
    <3>1. expanded' = expanded \cup {n} /\ next' = n
      BY <2>2 DEF ExpandAndMark
    <3>2. ASSUME NEW m \in expanded'
          PROVE  /\ m \in Nodes' /\ kids'[m] = KidSet(m)
                 /\ kids'[m] = {} => solved'[m] \/ m \in DOMAIN revise'
      <4>1. CASE m = n
        BY <1>2, <1>3, <2>1, <4>1 DEF Grown
      <4>2. CASE m # n
        BY <1>1, <1>3, <2>1, <3>1, <4>2 DEF ExpandedOK, Grown
      <4> QED  BY <4>1, <4>2
    <3>3. ASSUME NEW m \in Nodes', kids'[m] # {} PROVE m \in expanded'
      <4>1. CASE m = n
        BY <3>1, <4>1
      <4>2. CASE m # n
        BY <1>1, <1>3, <2>2, <3>1, <3>3, <4>2 DEF ExpandedOK, Grown
      <4> QED  BY <4>1, <4>2
    <3> QED  BY <3>1, <3>2, <3>3 DEF ExpandedOK
  <2>3. CASE ~Anytime
    <3>1. expanded' = {} /\ ~repairNeeded'
      BY <1>1, <2>3 DEF StageOK, anytimeVars, lowerGraph
    <3> QED  BY <1>5, <2>3, <3>1 DEF ExpandedOK
  <2> QED  BY <2>2, <2>3
<1>10. StageOK'
  <2>1. ~Anytime => expanded' = expanded
    BY DEF anytimeVars, lowerGraph
  <2> QED  BY <1>1, <1>5, <2>1 DEF StageOK
<1>11. TipsOK'
  BY DEF TipsOK
<1>12. CostsOK'
  BY <1>1, <1>5, Frozen DEF CostsOK
<1> QED  BY <1>3, <1>4, <1>6, <1>7, <1>8, <1>9, <1>10, <1>11, <1>12 DEF AOInv

(* A dive expands a node of the tree it follows.                           *)
LEMMA BeyondRoot ==
  ASSUME GraphOK, NEW T, NEW nx, SolutionTree(T, nx), NEW n \in T, n # Top
  PROVE  kids[Top] # {}
<1> DEFINE L == {LayerOf(x) : x \in T \ {Top}}
<1>1. \A x \in T : x \in Nodes /\ InSpace(x) /\ LayerOf(x) \in Nat
  BY KidLayer DEF SolutionTree, GraphOK
<1>2. L \subseteq Nat /\ LayerOf(n) \in L
  BY <1>1
<1>3. PICK k \in L : \A j \in L : k <= j
  BY <1>2, LeastNat
<1>4. PICK x \in T \ {Top} : k = LayerOf(x)
  BY <1>3
<1>5. \A z \in T \ {Top} : LayerOf(z) \in L
  OBVIOUS
<1> HIDE DEF L
<1>6. PICK p \in T : x \in nx[p]
  BY <1>4 DEF SolutionTree
<1>7. x \in kids[p] /\ p \in Nodes
  BY <1>1, <1>6 DEF SolutionTree
<1>8. LayerOf(p) \in Nat /\ LayerOf(x) = LayerOf(p) + 1
  BY <1>7, KidsInGraph
<1>9. p = Top
  BY <1>1, <1>3, <1>4, <1>5, <1>8
<1> QED  BY <1>7, <1>9

(* The exact value of the root is a cost.                                  *)
LEMMA RootExact ==
  ASSUME GraphOK
  PROVE  /\ Exact(Top) \in Known
         /\ \A q \in Known : /\ UpperAt(Top, q) <=> ~Greater(Exact(Top), q)
                             /\ LowerAt(Top, q) <=> ~Greater(q, Exact(Top))
                             /\ TightAt(Top, q) <=> q = Exact(Top)
<1>1. prob \in Problems /\ InSpace(Top) /\ IsOrNode(Top)
  BY RootShape DEF GraphOK
<1> QED  BY <1>1, ExactMaximum, OrBounds

(* Bounds that enclose the optimum may be reported, and are the optimum    *)
(* when what is reported is.                                               *)
LEMMA MayBeReported ==
  ASSUME GraphOK, CostsOK, NEW c \in Known, ~Greater(c, Exact(Top)),
         NEW b \in Known, ~Greater(Exact(Top), b), UpdateLowerUpperBound(c, b)
  PROVE  /\ curCost' \in Cost /\ ~Greater(curCost', Exact(Top))
         /\ upper' \in Cost /\ ~Greater(Exact(Top), upper')
         /\ c = Exact(Top) => curCost' = Exact(Top)
         /\ b = Exact(Top) => upper' = Exact(Top)
<1>1. /\ curCost \in Cost /\ ~Greater(curCost, Exact(Top))
      /\ upper \in Cost /\ ~Greater(Exact(Top), upper)
  BY DEF CostsOK
<1>2. Exact(Top) \in Known /\ Known \subseteq Cost
  BY RootExact, TimesLaws
<1>3. curCost' = IF Greater(curCost, c) THEN curCost ELSE c
  BY DEF UpdateLowerUpperBound
<1>4. upper' = IF ISNAN(upper) \/ Greater(upper, b) THEN b ELSE upper
  BY DEF UpdateLowerUpperBound
<1>5. ASSUME b = Exact(Top) PROVE upper' = Exact(Top)
  <2>1. CASE ISNAN(upper) \/ Greater(upper, b)
    BY <1>4, <1>5, <2>1
  <2>2. CASE ~ISNAN(upper) /\ ~Greater(upper, b)
    <3>1. upper \in Known
      BY <1>1, <2>2, CostOrder DEF ISNAN
    <3> QED  BY <1>1, <1>2, <1>4, <1>5, <2>2, <3>1, CostOrder
  <2> QED  BY <2>1, <2>2
<1>6. c = Exact(Top) => curCost' = Exact(Top)
  BY <1>1, <1>3
<1> QED  BY <1>1, <1>2, <1>3, <1>4, <1>5, <1>6

-----------------------------------------------------------------------------
(* The beginning. *)

(* Both algorithms begin with the invariant.                               *)
LEMMA Begins ==
  ASSUME AnytimeInit
  PROVE  AOInv
<1>1. /\ prob \in Problems /\ kids = [n \in {Top} |-> {}] /\ parents = kids
      /\ value = [n \in {Top} |-> GlobalUB] /\ solved = [n \in {Top} |-> FALSE]
      /\ best = [n \in {Top} |-> NULL] /\ revise = <<>> /\ bound = GlobalUB
      /\ stage = "choose"
  BY DEF AnytimeInit, Init, InitialGraph
<1>2. /\ expanded = {} /\ algorithm \in Algorithms
      /\ feasibleValue = [n \in {Top} |-> ELEM_ZERO] /\ feasible = [n \in {Top} |-> FALSE]
      /\ feasibleChild = [n \in {Top} |-> NULL]
      /\ repairNeeded = FALSE /\ layer = -1
  BY DEF AnytimeInit
<1>3. IF Anytime THEN tips = {} /\ diveTips = {Top} /\ curCost = ELEM_ZERO /\ upper = GlobalUB
      ELSE tips = {Top} /\ diveTips = {} /\ curCost = ELEM_NAN /\ upper = ELEM_NAN
  BY DEF AnytimeInit, Init
<1>4. Nodes = {Top} /\ Top \in Nodes /\ DOMAIN revise = {}
  BY <1>1 DEF Nodes
<1>5. InSpace(Top) /\ IsOrNode(Top) /\ DOMAIN Top.ctx = {}
  BY RootShape
<1>6. GlobalUB \in Known /\ UpperAt(Top, GlobalUB)
  BY <1>1, RootBound
<1>7. GraphOK
  <2>1. IsFiniteSet(Nodes)
    BY <1>4, FS_Singleton
  <2>2. \A n \in Nodes : kids[n] = {} /\ parents[n] = {}
    BY <1>1, <1>4
  <2>3. \A n \in Nodes : parents[n] = {p \in Nodes : n \in kids[p]}
    BY <2>2
  <2>4. kids \in [Nodes -> SUBSET Nodes] /\ parents \in [Nodes -> SUBSET Nodes]
    BY <1>1, <1>4
  <2>5. /\ value \in [Nodes -> Known] /\ solved \in [Nodes -> BOOLEAN]
        /\ best \in [Nodes -> Nodes \cup {NULL}]
    BY <1>1, <1>4, <1>6
  <2> QED  BY <1>1, <1>4, <1>5, <2>1, <2>2, <2>3, <2>4, <2>5 DEF GraphOK
<1>8. Exact(Top) \in Known /\ ~Greater(Exact(Top), GlobalUB) /\ ~Greater(ELEM_ZERO, Exact(Top))
      /\ LowerAt(Top, ELEM_ZERO) /\ ELEM_ZERO \in Known
  <2>1. ELEM_ZERO \in Known /\ Known \subseteq Cost
    BY TimesLaws
  <2>2. Exact(Top) \in Known /\ ~Greater(ELEM_ZERO, Exact(Top))
    BY <1>7, <2>1, RootExact, NeverGreater
  <2> QED  BY <1>6, <1>7, <2>1, <2>2, RootExact
<1>9. UpperOK
  <2>1. ~Greater(GlobalUB, GlobalUB)
    BY <1>6, TimesLaws, NeverGreater
  <2>2. ~IsTerminal(Top) /\ ~solved[Top] /\ value[Top] = GlobalUB
    BY <1>1, <1>5 DEF IsTerminal
  <2> QED  BY <1>1, <1>4, <1>6, <1>8, <2>1, <2>2 DEF UpperOK
<1>10. LowerOK
  <2>1. Lowered = {Top}
    BY <1>4 DEF Lowered
  <2> QED  BY <1>2, <1>4, <1>8, <2>1 DEF LowerOK
<1>11. FlagsOK
  BY <1>1, <1>4 DEF FlagsOK, Down, Up
<1>12. WaitOK
  BY <1>1, <1>4 DEF WaitOK
<1>13. ExpandedOK
  BY <1>1, <1>2, <1>4 DEF ExpandedOK
<1>14. StageOK
  <2>1. ~Anytime => diveTips = {}
    BY <1>3
  <2>2. repairNeeded \in BOOLEAN /\ ~repairNeeded
    BY <1>2
  <2>3. algorithm \in Algorithms /\ expanded = {} /\ layer \in Int
    BY <1>2
  <2> QED  BY <1>1, <2>1, <2>2, <2>3 DEF StageOK
<1>15. TipsOK
  <2>1. TipOK(Top)
    BY <1>1, <1>4, <1>5 DEF TipOK, Agrees, Given
  <2>2. Top \in MarkedTree
    <3>1. \A n \in Nodes : feasibleChild[n] # NULL => feasibleChild[n] \in kids[n]
      BY <1>2, <1>4
    <3> QED  BY <1>7, <3>1, MarkedIsTree DEF SolutionTree
  <2>3. ~solved[Top] /\ kids[Top] = {}
    BY <1>1
  <2> QED  BY <1>1, <1>3, <1>4, <2>1, <2>2, <2>3 DEF TipsOK
<1>16. CostsOK
  <2>1. curCost \in {ELEM_ZERO, ELEM_NAN} /\ upper \in {GlobalUB, ELEM_NAN}
    BY <1>3
  <2>2. Exact(Top) \in Cost /\ GlobalUB \in Cost /\ ELEM_ZERO \in Cost /\ ELEM_NAN \in Cost
    BY <1>6, <1>8, TimesLaws
  <2>3. ~Greater(ELEM_NAN, Exact(Top)) /\ ~Greater(Exact(Top), ELEM_NAN)
    BY <2>2, NeverGreater, CostOrder
  <2> QED  BY <1>1, <1>8, <2>1, <2>2, <2>3 DEF CostsOK
<1> QED  BY <1>7, <1>9, <1>10, <1>11, <1>12, <1>13, <1>14, <1>15, <1>16 DEF AOInv

-----------------------------------------------------------------------------
(* The set of nodes to be revised. *)

(* The node at the front waits for nobody: the deepest of those that wait  *)
(* has no child among them.                                                *)
LEMMA FrontZero ==
  ASSUME GraphOK, WaitOK, NEW e \in DOMAIN revise, Front(e)
  PROVE  revise[e] = 0
<1> DEFINE rank == [x \in DOMAIN revise |-> LayerOf(x)]
<1>1. DOMAIN revise \subseteq Nodes /\ \A x \in DOMAIN revise : revise[x] \in Nat
  BY DEF WaitOK
<1>2. IsFiniteSet(DOMAIN revise) /\ DOMAIN revise # {}
  BY <1>1, FS_Subset DEF GraphOK
<1>3. \A x \in DOMAIN revise : rank[x] \in Int /\ rank[x] = LayerOf(x)
  BY <1>1, KidLayer DEF GraphOK
<1> HIDE DEF rank
<1>4. PICK d \in DOMAIN revise : \A x \in DOMAIN revise : rank[x] <= rank[d]
  BY <1>2, <1>3, HighestOf
<1>5. kids[d] \cap DOMAIN revise = {}
  <2> SUFFICES ASSUME NEW m \in kids[d], m \in DOMAIN revise PROVE FALSE
    OBVIOUS
  <2>1. LayerOf(d) \in Nat /\ LayerOf(m) = LayerOf(d) + 1
    BY <1>1, KidsInGraph
  <2> QED  BY <1>3, <1>4, <2>1
<1>6. VisitedKids(d, DOMAIN revise) = 0
  BY <1>5, FS_EmptySet DEF VisitedKids
<1>7. revise[d] <= 0
  BY <1>6 DEF WaitOK
<1> QED  BY <1>1, <1>7 DEF Front

(* Taking a node from the set and putting in parents of it keeps the       *)
(* counts below the number of children that wait.                          *)
LEMMA WaitMoves ==
  ASSUME GraphOK, WaitOK, NEW e \in DOMAIN revise, NEW change, NEW insert,
         insert \subseteq NotWaiting(e), kids' = kids, revise' = ReviseSet(e, change, insert)
  PROVE  LET added == IF change THEN insert ELSE {}
         IN  /\ DOMAIN revise' = (DOMAIN revise \ {e}) \cup added
             /\ added \subseteq Nodes /\ \A p \in added : e \in kids[p]
             /\ revise' \in [DOMAIN revise' -> Nat]
             /\ \A p \in DOMAIN revise' : revise'[p] <= VisitedKids(p, DOMAIN revise)'
<1> DEFINE added == IF change THEN insert ELSE {}
           W == DOMAIN revise \ {e}
           D == W \cup added
           count(p) == IF p \in added THEN VisitedKids(p, W)
                       ELSE IF p \in parents[e] THEN Decremented(revise[p])
                       ELSE revise[p]
<1>1. revise' = [p \in D |-> count(p)]
  BY DEF ReviseSet, Waiting
<1>2. e \in Nodes /\ parents[e] = {p \in Nodes : e \in kids[p]}
  BY DEF GraphOK, WaitOK
<1>3. added \subseteq parents[e]
  BY DEF NotWaiting
<1>4. added \subseteq Nodes /\ W \subseteq Nodes /\ \A p \in added : e \in kids[p]
  BY <1>2, <1>3 DEF WaitOK
<1>5. DOMAIN revise' = D
  BY <1>1
<1>6. \A p : VisitedKids(p, DOMAIN revise)' = VisitedKids(p, D)
  BY <1>5 DEF VisitedKids
<1>7. ASSUME NEW p \in D PROVE count(p) \in Nat /\ count(p) <= VisitedKids(p, D)
  <2>1. p \in Nodes
    BY <1>4
  <2>2. /\ IsFiniteSet(kids[p] \cap D) /\ VisitedKids(p, D) \in Nat
        /\ VisitedKids(p, W) \in Nat /\ IsFiniteSet(kids[p] \cap DOMAIN revise)
        /\ VisitedKids(p, DOMAIN revise) \in Nat
    BY <2>1, KidCount
  <2>3. VisitedKids(p, W) <= VisitedKids(p, D)
    <3>1. kids[p] \cap W \subseteq kids[p] \cap D
      OBVIOUS
    <3> HIDE DEF W, D
    <3> QED  BY <2>2, <3>1, FS_Subset DEF VisitedKids
  <2>4. CASE p \in added
    <3>1. count(p) = VisitedKids(p, W)
      BY <2>4
    <3> HIDE DEF count, W, D, added
    <3> QED  BY <2>2, <2>3, <3>1
  <2>5. CASE p \notin added
    <3>1. p \in W /\ p \in DOMAIN revise
      BY <2>5
    <3>2. revise[p] \in Nat /\ revise[p] <= VisitedKids(p, DOMAIN revise)
      BY <3>1 DEF WaitOK
    <3>3. CASE p \in parents[e]
      <4>1. e \in kids[p] \cap DOMAIN revise
        BY <1>2, <3>3
      <4>2. kids[p] \cap W = (kids[p] \cap DOMAIN revise) \ {e}
        OBVIOUS
      <4>3. VisitedKids(p, W) = VisitedKids(p, DOMAIN revise) - 1
        <5> DEFINE K == kids[p] \cap DOMAIN revise
        <5>1. IsFiniteSet(K) /\ e \in K /\ kids[p] \cap W = K \ {e}
          BY <2>2, <4>1, <4>2
        <5> HIDE DEF W, D, K
        <5>2. Cardinality(K \ {e}) = Cardinality(K) - 1
          BY <5>1, FS_RemoveElement
        <5> QED  BY <5>1, <5>2 DEF VisitedKids, K
      <4>4. count(p) = Decremented(revise[p])
        BY <2>5, <3>3
      <4> HIDE DEF count, W, D, added
      <4> QED  BY <2>2, <2>3, <3>2, <4>3, <4>4 DEF Decremented
    <3>4. CASE p \notin parents[e]
      <4>1. kids[p] \cap W = kids[p] \cap DOMAIN revise
        BY <1>2, <2>1, <3>4
      <4>2. VisitedKids(p, W) = VisitedKids(p, DOMAIN revise)
        BY <4>1 DEF VisitedKids
      <4>3. count(p) = revise[p]
        BY <2>5, <3>4
      <4> HIDE DEF count, W, D, added
      <4> QED  BY <2>2, <2>3, <3>2, <4>2, <4>3
    <3> QED  BY <3>3, <3>4
  <2> QED  BY <2>4, <2>5
<1> HIDE DEF count, D
<1>8. /\ revise' \in [DOMAIN revise' -> Nat]
      /\ \A p \in DOMAIN revise' : revise'[p] <= VisitedKids(p, DOMAIN revise)'
  BY <1>1, <1>5, <1>6, <1>7
<1> QED  BY <1>4, <1>5, <1>8 DEF D

-----------------------------------------------------------------------------
(* The revisions. *)

(* A revision of upper bounds.                                             *)
LEMMA RevisesNode ==
  ASSUME AOInv, NEW e \in DOMAIN revise, ReviseNode(e), UNCHANGED anytimeVars,
         UNCHANGED <<curCost, upper>> \/ ReportsProgress
  PROVE  AOInv'
<1>1. /\ GraphOK /\ UpperOK /\ LowerOK /\ FlagsOK /\ WaitOK /\ ExpandedOK /\ StageOK /\ TipsOK
      /\ CostsOK
  BY DEF AOInv
<1>2. stage = "revise" /\ stage' = "revise" /\ prob' = prob /\ kids' = kids /\ parents' = parents
      /\ tips' = tips /\ assignment' = assignment
  BY DEF ReviseNode
<1>3. /\ algorithm' = algorithm /\ expanded' = expanded /\ feasibleValue' = feasibleValue
      /\ feasible' = feasible /\ feasibleChild' = feasibleChild /\ diveTips' = diveTips
      /\ repairNeeded' = repairNeeded /\ next' = next /\ layer' = layer
  BY DEF anytimeVars, lowerGraph
<1>4. PICK q \in {RevisedValue(e, value)} :
        \E b \in {IF IsOrNode(e) THEN BestChild(e, q, value, solved) ELSE NULL} :
        \E isSolved \in {IF IsOrNode(e) THEN solved[b] ELSE \A m \in kids[e] : solved[m]} :
          /\ value' = [value EXCEPT ![e] = q]
          /\ best' = [best EXCEPT ![e] = b]
          /\ solved' = [solved EXCEPT ![e] = @ \/ isSolved]
          /\ revise' = ReviseSet(e, kids[e] = {} \/ Changed(q, isSolved, value[e]), ToInsert(e))
          /\ bound' = IF e = Top /\ Greater(bound, q) THEN q ELSE bound
  BY DEF ReviseNode
<1>5. PICK b \in {IF IsOrNode(e) THEN BestChild(e, q, value, solved) ELSE NULL} :
        \E isSolved \in {IF IsOrNode(e) THEN solved[b] ELSE \A m \in kids[e] : solved[m]} :
          /\ value' = [value EXCEPT ![e] = q]
          /\ best' = [best EXCEPT ![e] = b]
          /\ solved' = [solved EXCEPT ![e] = @ \/ isSolved]
          /\ revise' = ReviseSet(e, kids[e] = {} \/ Changed(q, isSolved, value[e]), ToInsert(e))
          /\ bound' = IF e = Top /\ Greater(bound, q) THEN q ELSE bound
  BY <1>4
<1>6. PICK isSolved \in {IF IsOrNode(e) THEN solved[b] ELSE \A m \in kids[e] : solved[m]} :
          /\ value' = [value EXCEPT ![e] = q]
          /\ best' = [best EXCEPT ![e] = b]
          /\ solved' = [solved EXCEPT ![e] = @ \/ isSolved]
          /\ revise' = ReviseSet(e, kids[e] = {} \/ Changed(q, isSolved, value[e]), ToInsert(e))
          /\ bound' = IF e = Top /\ Greater(bound, q) THEN q ELSE bound
  BY <1>5
<1> DEFINE change == kids[e] = {} \/ Changed(q, isSolved, value[e])
           added == IF change THEN ToInsert(e) ELSE {}
<1>7. e \in Nodes /\ InSpace(e) /\ kids[e] = KidSet(e) /\ ~solved[e] /\ prob \in Problems
  BY <1>1, <1>2 DEF WaitOK, GraphOK
<1>8. \A m \in kids[e] : m \in Nodes /\ UpperAt(m, value[m]) /\ value[m] \in Known /\ m # e
  <2>1. \A m \in kids[e] : m \in Nodes /\ m # e
    BY <1>1, <1>7, KidsInGraph
  <2> QED  BY <1>1, <2>1 DEF UpperOK, UpperAt
<1>9. UpperAt(e, q) /\ q \in Known
  <2>1. UpperAt(e, q)
    BY <1>4, <1>7, <1>8, RevisedAbove
  <2> QED  BY <2>1 DEF UpperAt
<1>10. IsOrNode(e) => b \in kids[e] /\ Reach(e, value)[b] = q /\ isSolved = solved[b]
  BY <1>4, <1>5, <1>6, <1>7, <1>8, BestExists
<1>11. ~IsOrNode(e) => (isSolved <=> \A m \in kids[e] : solved[m]) /\ b = NULL
  BY <1>5, <1>6
<1>12. isSolved \in BOOLEAN
  <2>1. CASE IsOrNode(e)
    BY <1>1, <1>8, <1>10, <2>1 DEF GraphOK
  <2>2. CASE ~IsOrNode(e)
    <3>1. isSolved = \A m \in kids[e] : solved[m]
      BY <1>6, <2>2
    <3> QED  BY <3>1
  <2> QED  BY <2>1, <2>2
<1>13. isSolved => TightAt(e, q)
  <2> SUFFICES ASSUME isSolved PROVE TightAt(e, q)
    OBVIOUS
  <2>1. \A m \in kids[e] : solved[m] => TightAt(m, value[m])
    BY <1>1, <1>8 DEF UpperOK
  <2>2. CASE IsOrNode(e)
    BY <1>4, <1>7, <1>8, <1>10, <2>1, <2>2, RevisedAbove
  <2>3. CASE ~IsOrNode(e)
    BY <1>4, <1>7, <1>8, <1>11, <2>1, <2>3, RevisedAbove
  <2> QED  BY <2>2, <2>3
<1>14. kids[e] = {} => ~IsOrNode(e) /\ isSolved
  <2>1. IsOrNode(e) => kids[e] # {}
    BY <1>7, KidsOfOr
  <2> QED  BY <1>11, <2>1
<1>15. IsTerminal(e) => isSolved
  BY <1>7, <1>14, KidsOfAnd DEF IsTerminal
<1>16. /\ Nodes' = Nodes /\ value' \in [Nodes -> Known] /\ solved' \in [Nodes -> BOOLEAN]
       /\ best' \in [Nodes -> Nodes \cup {NULL}]
       /\ value'[e] = q /\ (solved'[e] <=> isSolved) /\ best'[e] = b
       /\ \A m \in Nodes : m # e => /\ value'[m] = value[m] /\ solved'[m] = solved[m]
                                    /\ best'[m] = best[m]
  <2>1. value \in [Nodes -> Known] /\ solved \in [Nodes -> BOOLEAN] /\ best \in [Nodes -> Nodes \cup {NULL}]
    BY <1>1 DEF GraphOK
  <2>2. Nodes' = Nodes
    BY <1>2 DEF Nodes
  <2>3. value' \in [Nodes -> Known] /\ value'[e] = q
        /\ \A m \in Nodes : m # e => value'[m] = value[m]
    BY <1>6, <1>7, <1>9, <2>1
  <2>4. b \in Nodes \cup {NULL}
    BY <1>8, <1>10, <1>11
  <2>5. best' \in [Nodes -> Nodes \cup {NULL}] /\ best'[e] = b
        /\ \A m \in Nodes : m # e => best'[m] = best[m]
    BY <1>6, <1>7, <2>1, <2>4
  <2>6. DOMAIN solved' = Nodes /\ \A m \in Nodes : m # e => solved'[m] = solved[m]
    BY <1>6, <1>7, <2>1
  <2>7. solved'[e] = (solved[e] \/ isSolved)
    BY <1>6, <1>7, <2>1
  <2>8. solved' = [m \in Nodes |-> solved'[m]]
    BY <1>6, <2>1
  <2>9. \A m \in Nodes : solved'[m] \in BOOLEAN
    BY <1>7, <2>1, <2>6, <2>7
  <2> QED  BY <1>7, <2>2, <2>3, <2>5, <2>6, <2>7, <2>8, <2>9
<1>17. /\ DOMAIN revise' = (DOMAIN revise \ {e}) \cup added /\ added \subseteq Nodes
       /\ \A p \in added : e \in kids[p]
       /\ revise' \in [DOMAIN revise' -> Nat]
       /\ \A p \in DOMAIN revise' : revise'[p] <= VisitedKids(p, DOMAIN revise)'
  <2>1. ToInsert(e) \subseteq NotWaiting(e)
    BY DEF ToInsert
  <2> QED  BY <1>1, <1>2, <1>6, <2>1, WaitMoves
<1>18. \A p \in Nodes : e \in kids[p] /\ (IsOrNode(p) => best[p] = e) /\ p \notin DOMAIN revise' => ~change
  BY <1>1, <1>8, <1>17 DEF GraphOK, ToInsert, NotWaiting, Waiting
<1> HIDE DEF added
<1>19. isSolved => change
  BY DEF Changed
<1> HIDE DEF change
<1>20. GraphOK'
  BY <1>1, <1>2, <1>16 DEF GraphOK
<1>21. UpperOK'
  <2>1. ASSUME NEW m \in Nodes
        PROVE  UpperAt(m, value'[m]) /\ (solved'[m] \/ IsTerminal(m) => TightAt(m, value'[m]))
    <3>1. CASE m = e
      BY <1>9, <1>13, <1>15, <1>16, <3>1
    <3>2. CASE m # e
      BY <1>1, <1>16, <3>2 DEF UpperOK
    <3> QED  BY <3>1, <3>2
  <2>2. bound' \in Known /\ ~Greater(Exact(Top), bound') /\ ~Greater(bound', value'[Top])
    <3>1. bound \in Known /\ ~Greater(Exact(Top), bound) /\ ~Greater(bound, value[Top]) /\ Top \in Nodes
      BY <1>1 DEF UpperOK, GraphOK
    <3>2. CASE e = Top
      <4>1. ~Greater(Exact(Top), q)
        BY <1>1, <1>9, <3>2, RootExact
      <4>2. ~Greater(q, q)
        BY <1>9, TimesLaws, NeverGreater
      <4> QED  BY <1>6, <1>9, <1>16, <3>1, <3>2, <4>1, <4>2
    <3>3. CASE e # Top
      BY <1>6, <1>16, <3>1, <3>3
    <3> QED  BY <3>2, <3>3
  <2> QED  BY <1>2, <1>16, <2>1, <2>2, Frozen DEF UpperOK, IsTerminal
<1>22. LowerOK'
  BY <1>1, <1>2, <1>3, SameGraph DEF lowerGraph
<1>23. FlagsOK'
  <2>1. ASSUME NEW n \in Nodes PROVE Down(n)'
    <3>1. Down(n)
      BY <1>1, <1>2 DEF FlagsOK
    <3>2. kids[n] \subseteq Nodes /\ \A m \in kids[n] : solved[m] => solved'[m]
      BY <1>1, <1>7, <1>16 DEF GraphOK
    <3>3. CASE n # e
      BY <1>2, <1>16, <3>1, <3>2, <3>3 DEF Down, KidSet, ChildrenOf
    <3>4. CASE n = e
      <4>1. KidSet(e)' = KidSet(e) /\ kids'[e] = kids[e]
        BY <1>2 DEF KidSet, ChildrenOf
      <4>2. CASE IsOrNode(e)
        <5>1. best'[e] \in kids[e] /\ (isSolved => solved'[best'[e]])
          BY <1>10, <1>16, <3>2, <3>4, <4>2
        <5> QED  BY <1>2, <1>7, <1>16, <3>4, <4>1, <4>2, <5>1 DEF Down
      <4>3. CASE ~IsOrNode(e)
        <5>1. isSolved => \A m \in kids[e] : solved'[m]
          BY <1>11, <3>2, <3>4, <4>3
        <5> QED  BY <1>2, <1>7, <1>16, <3>4, <4>1, <4>3, <5>1 DEF Down
      <4> QED  BY <4>2, <4>3
    <3> QED  BY <3>3, <3>4
  <2>2. ASSUME NEW n \in Nodes, n \notin DOMAIN revise' PROVE Up(n)'
    <3>1. CASE n = e
      <4>1. \A m \in kids[e] : solved'[m] = solved[m]
        BY <1>8, <1>16
      <4> QED  BY <1>2, <1>10, <1>11, <1>16, <3>1, <4>1 DEF Up
    <3>2. CASE n # e
      <4>1. Up(n) /\ kids[n] \subseteq Nodes
        BY <1>1, <1>2, <1>17, <2>2, <3>2 DEF FlagsOK, GraphOK
      <4>2. e \in kids[n] /\ (IsOrNode(n) => best[n] = e) => ~solved'[e]
        BY <1>16, <1>18, <1>19, <2>2
      <4>3. \A m \in kids[n] : m # e => solved'[m] = solved[m]
        BY <1>16, <4>1
      <4>4. CASE IsOrNode(n)
        BY <1>2, <1>16, <3>2, <4>1, <4>2, <4>3, <4>4 DEF Up
      <4>5. CASE ~IsOrNode(n)
        BY <1>2, <1>16, <3>2, <4>1, <4>2, <4>3, <4>5 DEF Up
      <4> QED  BY <4>4, <4>5
    <3> QED  BY <3>1, <3>2
  <2> QED  BY <1>2, <1>16, <2>1, <2>2 DEF FlagsOK
<1>24. WaitOK'
  <2>1. ASSUME NEW p \in DOMAIN revise'
        PROVE  kids[p] = KidSet(p) /\ (Anytime => p \in expanded) /\ ~solved'[p] /\ p \in Nodes
    <3>1. CASE p \in DOMAIN revise /\ p # e
      BY <1>1, <1>2, <1>16, <3>1 DEF WaitOK
    <3>2. CASE p \in added
      <4>1. p \in Nodes /\ e \in kids[p] /\ p # e
        BY <1>8, <1>17, <3>2
      <4>2. kids[p] = KidSet(p) /\ (Anytime => p \in expanded)
        BY <1>1, <4>1 DEF GraphOK, ExpandedOK
      <4>3. IsOrNode(p) => best[p] = e
        BY <3>2 DEF added, ToInsert
      <4>4. ~solved[p]
        <5>1. Down(p)
          BY <1>1, <1>2, <4>1 DEF FlagsOK
        <5> QED  BY <1>7, <4>1, <4>3, <5>1 DEF Down
      <4> QED  BY <1>16, <4>1, <4>2, <4>4
    <3> QED  BY <1>17, <3>1, <3>2
  <2>2. Anytime' <=> Anytime
    BY <1>3 DEF Anytime
  <2>3. \A p : KidSet(p)' = KidSet(p)
    BY DEF KidSet, ChildrenOf
  <2> QED  BY <1>2, <1>3, <1>16, <1>17, <2>1, <2>2, <2>3 DEF WaitOK
<1>25. ExpandedOK'
  <2>1. ASSUME NEW n \in expanded, kids[n] = {} PROVE solved'[n] \/ n \in DOMAIN revise'
    <3>1. CASE n = e
      BY <1>14, <1>16, <2>1, <3>1
    <3>2. CASE n # e
      BY <1>1, <1>16, <1>17, <2>1, <3>2 DEF ExpandedOK
    <3> QED  BY <3>1, <3>2
  <2>2. Anytime' <=> Anytime
    BY <1>3 DEF Anytime
  <2>3. \A p : KidSet(p)' = KidSet(p)
    BY DEF KidSet, ChildrenOf
  <2> QED  BY <1>1, <1>2, <1>3, <1>16, <2>1, <2>2, <2>3 DEF ExpandedOK
<1>26. StageOK'
  <2>1. Anytime' <=> Anytime
    BY <1>3 DEF Anytime
  <2> QED  BY <1>1, <1>2, <1>3, <2>1 DEF StageOK
<1>27. TipsOK'
  BY <1>2 DEF TipsOK
<1>28. CostsOK'
  <2>1. Exact(Top)' = Exact(Top)
    <3>1. Top' = Top
      BY DEF Top
    <3> QED  BY <1>2, <3>1, Frozen
  <2>2. CASE UNCHANGED <<curCost, upper>>
    BY <1>1, <1>2, <2>1, <2>2 DEF CostsOK
  <2>3. CASE UpdateLowerUpperBound(ELEM_ZERO, bound')
    <3>1. PICK known : known = bound'
      OBVIOUS
    <3>2. known \in Known /\ ~Greater(Exact(Top), known)
      BY <1>21, <2>1, <3>1 DEF UpperOK
    <3>3. Exact(Top) \in Cost /\ ELEM_ZERO \in Known
      BY <1>1, RootExact, TimesLaws
    <3>4. ~Greater(ELEM_ZERO, Exact(Top))
      BY <3>3, NeverGreater
    <3>5. UpdateLowerUpperBound(ELEM_ZERO, known)
      BY <2>3, <3>1
    <3>6. /\ curCost' \in Cost /\ ~Greater(curCost', Exact(Top))
          /\ upper' \in Cost /\ ~Greater(Exact(Top), upper')
      BY <1>1, <3>2, <3>3, <3>4, <3>5, MayBeReported
    <3> QED  BY <1>2, <2>1, <3>6 DEF CostsOK
  <2> QED  BY <2>2, <2>3 DEF ReportsProgress
<1> QED  BY <1>20, <1>21, <1>22, <1>23, <1>24, <1>25, <1>26, <1>27, <1>28 DEF AOInv

(* A revision of lower bounds.                                             *)
LEMMA RevisesFeasible ==
  ASSUME AOInv, NEW e \in DOMAIN revise, ReviseFeasible(e)
  PROVE  AOInv'
<1>1. /\ GraphOK /\ UpperOK /\ LowerOK /\ FlagsOK /\ WaitOK /\ ExpandedOK /\ StageOK /\ TipsOK
      /\ CostsOK
  BY DEF AOInv
<1>2. stage = "feasible" /\ stage' = "feasible" /\ prob' = prob /\ kids' = kids /\ parents' = parents
      /\ value' = value /\ best' = best /\ assignment' = assignment /\ tips' = tips
      /\ bound' = bound /\ curCost' = curCost
  BY DEF ReviseFeasible
<1>3. /\ algorithm' = algorithm /\ expanded' = expanded /\ feasibleChild' = feasibleChild
      /\ diveTips' = diveTips /\ upper' = upper /\ repairNeeded' = repairNeeded /\ layer' = layer
  BY DEF ReviseFeasible
<1>4. PICK change \in {HasSolution(e) \/ LowerBound(e) # feasibleValue[e]} :
       /\ feasibleValue' = [feasibleValue EXCEPT ![e] = RevisedLower(e)]
       /\ feasible' = [feasible EXCEPT ![e] = @ \/ HasSolution(e)]
       /\ solved' = [solved EXCEPT ![e] = @ \/ IsTerminal(e)]
       /\ revise' = ReviseSet(e, change, NotWaiting(e))
  BY DEF ReviseFeasible
<1> DEFINE added == IF change THEN NotWaiting(e) ELSE {}
<1>5. Anytime /\ (Anytime' <=> Anytime) /\ \A p : KidSet(p)' = KidSet(p)
  BY <1>1, <1>2, <1>3 DEF StageOK, Anytime, KidSet, ChildrenOf
<1>6. /\ e \in Nodes /\ InSpace(e) /\ kids[e] = KidSet(e) /\ e \in expanded /\ prob \in Problems
      /\ kids[e] \subseteq Nodes
  BY <1>1, <1>5 DEF WaitOK, GraphOK
<1>7. Lowered = Nodes /\ Lowered' = Nodes' /\ Nodes' = Nodes
  BY <1>2, <1>5 DEF Lowered, Nodes
<1>8. kids[e] = {} <=> IsTerminal(e)
  BY <1>6, KidsOfOr, KidsOfAnd DEF IsTerminal
<1>9. /\ solved' \in [Nodes -> BOOLEAN] /\ (solved'[e] <=> solved[e] \/ IsTerminal(e))
      /\ \A m \in Nodes : m # e => solved'[m] = solved[m]
  <2>1. solved \in [Nodes -> BOOLEAN]
    BY <1>1 DEF GraphOK
  <2>2. solved'[e] = (solved[e] \/ IsTerminal(e)) /\ \A m \in Nodes : m # e => solved'[m] = solved[m]
    BY <1>4, <1>6, <2>1
  <2>3. solved' = [m \in Nodes |-> solved'[m]]
    BY <1>4, <2>1
  <2>4. IsTerminal(e) \in BOOLEAN
    BY DEF IsTerminal
  <2>5. \A m \in Nodes : solved'[m] \in BOOLEAN
    BY <1>6, <2>1, <2>2, <2>4
  <2> QED  BY <2>2, <2>3, <2>5
<1>10. ~repairNeeded => \A m \in Nodes : solved'[m] <=> solved[m]
  <2> SUFFICES ASSUME ~repairNeeded, IsTerminal(e) PROVE solved[e]
    BY <1>9
  <2> QED  BY <1>1, <1>2, <1>6, <1>8 DEF ExpandedOK
<1>11. /\ DOMAIN revise' = (DOMAIN revise \ {e}) \cup added /\ added \subseteq Nodes
       /\ \A p \in added : e \in kids[p]
       /\ revise' \in [DOMAIN revise' -> Nat]
       /\ \A p \in DOMAIN revise' : revise'[p] <= VisitedKids(p, DOMAIN revise)'
  <2>1. NotWaiting(e) \subseteq NotWaiting(e)
    OBVIOUS
  <2> QED  BY <1>1, <1>2, <1>4, <2>1, WaitMoves
<1> HIDE DEF added
<1>12. GraphOK'
  BY <1>1, <1>2, <1>5, <1>7, <1>9 DEF GraphOK
<1>13. UpperOK'
  <2>1. ASSUME NEW m \in Nodes, solved'[m] \/ IsTerminal(m) PROVE TightAt(m, value[m])
    BY <1>1, <1>9, <2>1 DEF UpperOK
  <2> QED  BY <1>1, <1>2, <1>7, <2>1, Frozen DEF UpperOK, IsTerminal
<1>14. LowerOK'
  <2>1. feasibleValue \in [Nodes -> Known] /\ feasible \in [Nodes -> BOOLEAN]
    BY <1>1, <1>7 DEF LowerOK
  <2>2. LowerAt(e, RevisedLower(e)) /\ RevisedLower(e) \in Known
    <3>1. \A m \in kids[e] : LowerAt(m, feasibleValue[m])
      BY <1>1, <1>6, <1>7 DEF LowerOK
    <3>2. LowerAt(e, feasibleValue[e])
      BY <1>1, <1>6, <1>7 DEF LowerOK
    <3>3. LowerAt(e, RevisedLower(e))
      BY <1>6, <3>1, <3>2, RevisedBelow
    <3> QED  BY <3>3 DEF LowerAt
  <2>3. /\ feasibleValue' \in [Nodes -> Known] /\ feasibleValue'[e] = RevisedLower(e)
        /\ \A m \in Nodes : m # e => feasibleValue'[m] = feasibleValue[m]
    BY <1>4, <1>6, <2>1, <2>2
  <2>4. feasible' \in [Nodes -> BOOLEAN]
    <3>1. HasSolution(e) \in BOOLEAN
      BY DEF HasSolution
    <3>2. feasible'[e] = (feasible[e] \/ HasSolution(e))
          /\ \A m \in Nodes : m # e => feasible'[m] = feasible[m]
      BY <1>4, <1>6, <2>1
    <3>3. \A m \in Nodes : feasible'[m] \in BOOLEAN
      BY <1>6, <2>1, <3>1, <3>2
    <3>4. feasible' = [m \in Nodes |-> feasible'[m]]
      BY <1>4, <2>1
    <3> QED  BY <3>3, <3>4
  <2>5. \A m \in Nodes : LowerAt(m, feasibleValue'[m])
    BY <1>1, <1>7, <2>2, <2>3 DEF LowerOK
  <2> QED  BY <1>1, <1>2, <1>3, <1>7, <2>3, <2>4, <2>5, Frozen DEF LowerOK
<1>15. FlagsOK'
  <2>1. ASSUME NEW n \in Nodes PROVE Down(n)'
    <3>1. Down(n)
      BY <1>1, <1>2 DEF FlagsOK
    <3>2. kids[n] \subseteq Nodes /\ \A m \in kids[n] : solved[m] => solved'[m]
      BY <1>1, <1>6, <1>9 DEF GraphOK
    <3>3. CASE n = e /\ IsTerminal(e)
      <4>1. kids[e] = {} /\ ~IsOrNode(e)
        BY <1>8, <3>3 DEF IsTerminal
      <4> QED  BY <1>2, <1>5, <1>6, <3>3, <4>1 DEF Down
    <3>4. CASE n # e \/ ~IsTerminal(e)
      <4>1. solved'[n] => solved[n]
        BY <1>6, <1>9, <3>4
      <4> QED  BY <1>2, <1>5, <3>1, <3>2, <4>1 DEF Down
    <3> QED  BY <3>3, <3>4
  <2>2. ASSUME NEW n \in Nodes, ~repairNeeded PROVE Up(n)'
    <3>1. Up(n)
      BY <1>1, <1>2, <2>2 DEF FlagsOK
    <3>2. (solved'[n] <=> solved[n]) /\ kids[n] \subseteq Nodes /\ \A m \in kids[n] : solved'[m] <=> solved[m]
      BY <1>1, <1>10, <2>2 DEF GraphOK
    <3>3. CASE IsOrNode(n)
      BY <1>2, <3>1, <3>2, <3>3 DEF Up
    <3>4. CASE ~IsOrNode(n)
      BY <1>2, <3>1, <3>2, <3>4 DEF Up
    <3> QED  BY <3>3, <3>4
  <2> QED  BY <1>2, <1>3, <1>7, <2>1, <2>2 DEF FlagsOK
<1>16. WaitOK'
  <2>1. ASSUME NEW p \in DOMAIN revise'
        PROVE  kids[p] = KidSet(p) /\ p \in expanded /\ p \in Nodes
    <3>1. CASE p \in DOMAIN revise
      BY <1>1, <1>5, <3>1 DEF WaitOK
    <3>2. CASE p \in added
      <4>1. p \in Nodes /\ e \in kids[p]
        BY <1>11, <3>2
      <4> QED  BY <1>1, <1>5, <4>1 DEF GraphOK, ExpandedOK
    <3> QED  BY <1>11, <3>1, <3>2
  <2> QED  BY <1>2, <1>3, <1>5, <1>7, <1>11, <2>1 DEF WaitOK
<1>17. ExpandedOK'
  <2>1. ASSUME NEW n \in expanded, kids[n] = {}
        PROVE  solved'[n] \/ (n \in DOMAIN revise' /\ repairNeeded)
    <3>1. CASE n = e
      BY <1>8, <1>9, <2>1, <3>1
    <3>2. CASE n # e
      BY <1>1, <1>2, <1>9, <1>11, <2>1, <3>2 DEF ExpandedOK
    <3> QED  BY <3>1, <3>2
  <2> QED  BY <1>1, <1>2, <1>3, <1>5, <1>7, <2>1 DEF ExpandedOK
<1>18. StageOK'
  BY <1>1, <1>2, <1>3, <1>5 DEF StageOK
<1>19. TipsOK'
  <2>1. Top \in Nodes
    BY <1>1 DEF GraphOK
  <2>2. ASSUME ~repairNeeded, NEW n \in tips PROVE TipOK(n)'
    <3>1. TipOK(n)
      BY <1>1, <1>2, <2>2 DEF TipsOK
    <3> QED  BY <1>2, <1>7, <1>10, <2>2, <3>1 DEF TipOK, Agrees, Given
  <2> QED  BY <1>1, <1>2, <1>3, <1>10, <2>1, <2>2 DEF TipsOK
<1>20. CostsOK'
  BY <1>1, <1>2, <1>3, <1>5, Frozen DEF CostsOK
<1> QED  BY <1>12, <1>13, <1>14, <1>15, <1>16, <1>17, <1>18, <1>19, <1>20 DEF AOInv

-----------------------------------------------------------------------------
(* The steps between the revisions. *)

(* What the best partial tree leaves to expand.                            *)
LEMMA BestTips ==
  ASSUME GraphOK, \A n \in Nodes : Up(n) /\ Down(n), MarkBestPartialTree,
         prob' = prob, UNCHANGED graph
  PROVE  /\ \A n \in tips' : TipOK(n)'
         /\ tips' = {} <=> solved[Top]
<1> DEFINE T == PartialTree
<1>1. tips' = {n \in T : kids[n] = {}} /\ assignment' = AssignmentTo(T)
  BY DEF MarkBestPartialTree
<1>2. SolutionTree(T, PartialNext)
  BY PartialIsTree
<1>3. T \subseteq Nodes
  BY <1>2 DEF SolutionTree
<1>4. /\ ~solved[Top] => tips' # {} /\ \A n \in tips' : ~solved[n]
      /\ solved[Top] => tips' = {}
  BY <1>1, TipsOfPartialTree
<1>5. ASSUME NEW n \in T PROVE Agrees(n, AssignmentTo(T))
  <2> HIDE DEF T
  <2> QED  BY <1>2, <1>5, TreeAgrees
<1>6. kids' = kids /\ solved' = solved /\ Nodes' = Nodes
  BY DEF graph, Nodes
<1>7. \A n \in tips' : TipOK(n)'
  <2> SUFFICES ASSUME NEW n \in tips' PROVE TipOK(n)'
    OBVIOUS
  <2>1. n \in T /\ kids[n] = {} /\ ~solved[n]
    BY <1>1, <1>4
  <2> HIDE DEF T
  <2>2. Agrees(n, assignment)'
    BY <1>1, <1>5, <2>1 DEF Agrees, Given
  <2> QED  BY <1>3, <1>6, <2>1, <2>2 DEF TipOK
<1> QED  BY <1>4, <1>7

(* The marked tree depends on the graph and the marks only.                *)
LEMMA SameTree ==
  ASSUME UNCHANGED <<graph, lowerGraph>>
  PROVE  MarkedTree' = MarkedTree
BY DEF MarkedTree, graph, lowerGraph, Nodes, Top

(* The plain search, its revisions done, looks for tips.                   *)
LEMMA FindsBest ==
  ASSUME AOInv, FindBestPartialTree, ~Anytime, UNCHANGED anytimeVars
  PROVE  AOInv'
<1>1. /\ GraphOK /\ UpperOK /\ LowerOK /\ FlagsOK /\ WaitOK /\ ExpandedOK /\ StageOK /\ TipsOK
      /\ CostsOK
  BY DEF AOInv
<1>2. /\ stage = "revise" /\ stage' = "choose" /\ DOMAIN revise = {} /\ revise' = revise
      /\ prob' = prob /\ UNCHANGED graph /\ bound' = bound /\ curCost' = curCost
      /\ upper' = upper /\ MarkBestPartialTree
  BY DEF FindBestPartialTree
<1>3. /\ algorithm' = algorithm /\ expanded' = expanded /\ UNCHANGED lowerGraph
      /\ diveTips' = diveTips /\ repairNeeded' = repairNeeded /\ layer' = layer
  BY DEF anytimeVars, lowerGraph
<1>4. kids' = kids /\ solved' = solved /\ Nodes' = Nodes /\ \A p : KidSet(p)' = KidSet(p)
  BY <1>2 DEF graph, Nodes, KidSet, ChildrenOf
<1>5. (Anytime' <=> Anytime) /\ ~Anytime'
  BY <1>3 DEF Anytime
<1>6. \A n \in Nodes : Up(n) /\ Down(n)
  BY <1>1, <1>2 DEF FlagsOK
<1>7. \A n : (Up(n)' <=> Up(n)) /\ (Down(n)' <=> Down(n))
  BY <1>2, SameGraph
<1>8. GraphOK' /\ UpperOK' /\ LowerOK'
  BY <1>1, <1>2, <1>3, <1>4, SameGraph
<1>9. FlagsOK'
  BY <1>2, <1>4, <1>6, <1>7 DEF FlagsOK
<1>10. WaitOK'
  BY <1>1, <1>2 DEF WaitOK
<1>11. ExpandedOK'
  BY <1>1, <1>2, <1>3, <1>4, <1>5 DEF ExpandedOK, StageOK
<1>12. StageOK'
  BY <1>1, <1>2, <1>3, <1>5 DEF StageOK
<1>13. TipsOK'
  <2>1. (\A n \in tips' : TipOK(n)') /\ (tips' = {} <=> solved[Top])
    BY <1>1, <1>2, <1>6, BestTips
  <2>2. diveTips' = {}
    BY <1>1, <1>3, <1>5 DEF StageOK
  <2> QED  BY <1>4, <2>1, <2>2 DEF TipsOK
<1>14. CostsOK'
  BY <1>1, <1>2, Frozen DEF CostsOK
<1> QED  BY <1>8, <1>9, <1>10, <1>11, <1>12, <1>13, <1>14 DEF AOInv

(* The upper bounds revised, the lower bounds are.                         *)
LEMMA TurnsToFeasible ==
  ASSUME AOInv, TurnToFeasible, Anytime
  PROVE  AOInv'
<1>1. /\ GraphOK /\ UpperOK /\ LowerOK /\ FlagsOK /\ WaitOK /\ ExpandedOK /\ StageOK /\ TipsOK
      /\ CostsOK
  BY DEF AOInv
<1>2. /\ stage = "revise" /\ stage' = "feasible" /\ DOMAIN revise = {}
      /\ revise' = [m \in {next} |-> 0]
      /\ prob' = prob /\ UNCHANGED graph /\ bound' = bound /\ curCost' = curCost
      /\ upper' = upper /\ MarkBestPartialTree /\ UNCHANGED anytimeVars
  BY DEF TurnToFeasible
<1>3. /\ algorithm' = algorithm /\ expanded' = expanded /\ UNCHANGED lowerGraph
      /\ diveTips' = diveTips /\ repairNeeded' = repairNeeded /\ layer' = layer
      /\ next' = next
  BY <1>2 DEF anytimeVars, lowerGraph
<1>4. kids' = kids /\ solved' = solved /\ Nodes' = Nodes /\ \A p : KidSet(p)' = KidSet(p)
  BY <1>2 DEF graph, Nodes, KidSet, ChildrenOf
<1>5. (Anytime' <=> Anytime) /\ Anytime'
  BY <1>3 DEF Anytime
<1>6. \A n \in Nodes : Up(n) /\ Down(n)
  BY <1>1, <1>2 DEF FlagsOK
<1>7. \A n : (Up(n)' <=> Up(n)) /\ (Down(n)' <=> Down(n))
  BY <1>2, SameGraph
<1>8. GraphOK' /\ UpperOK' /\ LowerOK'
  BY <1>1, <1>2, <1>3, <1>4, SameGraph
<1>9. FlagsOK'
  BY <1>2, <1>4, <1>6, <1>7 DEF FlagsOK
<1>10. WaitOK'
  <2>1. next \in expanded /\ next \in Nodes /\ kids[next] = KidSet(next)
    BY <1>1, <1>2 DEF ExpandedOK
  <2>2. DOMAIN revise' = {next} /\ revise'[next] = 0 /\ revise' \in [{next} -> Nat]
    BY <1>2
  <2>3. VisitedKids(next, DOMAIN revise)' \in Nat
    <3>1. VisitedKids(next, {next}) \in Nat
      BY <1>1, <2>1, KidCount
    <3> QED  BY <1>3, <1>4, <2>2, <3>1 DEF VisitedKids
  <2>4. revise'[next] <= VisitedKids(next, DOMAIN revise)'
    BY <2>2, <2>3
  <2> QED  BY <1>2, <1>3, <1>4, <2>1, <2>2, <2>4 DEF WaitOK
<1>11. ExpandedOK'
  BY <1>1, <1>2, <1>3, <1>4, <1>5 DEF ExpandedOK
<1>12. StageOK'
  BY <1>1, <1>2, <1>3, <1>5 DEF StageOK
<1>13. TipsOK'
  <2>1. (\A n \in tips' : TipOK(n)') /\ (tips' = {} <=> solved[Top])
    BY <1>1, <1>2, <1>6, BestTips
  <2> QED  BY <1>2, <1>4, <2>1 DEF TipsOK
<1>14. CostsOK'
  BY <1>1, <1>2, <1>3, <1>5, Frozen DEF CostsOK
<1> QED  BY <1>8, <1>9, <1>10, <1>11, <1>12, <1>13, <1>14 DEF AOInv

(* Repair has revised all layers.                                          *)
LEMMA Repaired ==
  ASSUME AOInv, AfterRepair, Anytime
  PROVE  AOInv'
<1>1. /\ GraphOK /\ UpperOK /\ LowerOK /\ FlagsOK /\ WaitOK /\ ExpandedOK /\ StageOK /\ TipsOK
      /\ CostsOK
  BY DEF AOInv
<1>2. /\ stage = "repair" /\ stage' = "best" /\ layer < 0 /\ revise' = revise
      /\ prob' = prob /\ UNCHANGED graph /\ bound' = bound /\ curCost' = curCost
      /\ MarkBestPartialTree /\ repairNeeded' = FALSE
  BY DEF AfterRepair
<1>3. /\ algorithm' = algorithm /\ expanded' = expanded /\ UNCHANGED lowerGraph
      /\ diveTips' = diveTips /\ upper' = upper /\ layer' = layer
  BY DEF AfterRepair, lowerGraph
<1>4. kids' = kids /\ solved' = solved /\ Nodes' = Nodes /\ \A p : KidSet(p)' = KidSet(p)
  BY <1>2 DEF graph, Nodes, KidSet, ChildrenOf
<1>5. (Anytime' <=> Anytime) /\ Anytime'
  BY <1>3 DEF Anytime
<1>6. \A n \in Nodes : Up(n) /\ Down(n)
  <2>1. \A n \in Nodes : LayerOf(n) \in Nat
    BY <1>1, KidLayer DEF GraphOK
  <2>2. \A n \in Nodes : LayerOf(n) > layer
    BY <1>1, <1>2, <2>1 DEF StageOK
  <2> QED  BY <1>1, <1>2, <2>2 DEF FlagsOK
<1>7. \A n : (Up(n)' <=> Up(n)) /\ (Down(n)' <=> Down(n))
  BY <1>2, SameGraph
<1>8. GraphOK' /\ UpperOK' /\ LowerOK'
  BY <1>1, <1>2, <1>3, <1>4, SameGraph
<1>9. FlagsOK'
  BY <1>2, <1>4, <1>6, <1>7 DEF FlagsOK
<1>10. WaitOK'
  BY <1>1, <1>2 DEF WaitOK
<1>11. ExpandedOK'
  BY <1>1, <1>2, <1>3, <1>4, <1>5 DEF ExpandedOK, WaitOK
<1>12. StageOK'
  BY <1>1, <1>2, <1>3, <1>5 DEF StageOK
<1>13. TipsOK'
  <2>1. (\A n \in tips' : TipOK(n)') /\ (tips' = {} <=> solved[Top])
    BY <1>1, <1>2, <1>6, BestTips
  <2> QED  BY <1>2, <1>4, <2>1 DEF TipsOK
<1>14. CostsOK'
  BY <1>1, <1>2, <1>3, <1>5, Frozen DEF CostsOK
<1> QED  BY <1>8, <1>9, <1>10, <1>11, <1>12, <1>13, <1>14 DEF AOInv

(* The lower bounds revised, a dive goes on.                               *)
LEMMA FindsFeasible ==
  ASSUME AOInv, FindFeasiblePartialTree, Anytime
  PROVE  AOInv'
<1>1. /\ GraphOK /\ UpperOK /\ LowerOK /\ FlagsOK /\ WaitOK /\ ExpandedOK /\ StageOK /\ TipsOK
      /\ CostsOK
  BY DEF AOInv
<1>2. /\ stage = "feasible" /\ stage' = "choose" /\ DOMAIN revise = {} /\ revise' = revise
      /\ prob' = prob /\ UNCHANGED graph /\ curCost' = curCost /\ tips' = tips
      /\ assignment' = assignment
      /\ bound' = IF repairNeeded THEN bound ELSE value[Top]
      /\ diveTips' = TipsOf(MarkedTree)
  BY DEF FindFeasiblePartialTree
<1>3. /\ algorithm' = algorithm /\ expanded' = expanded /\ UNCHANGED lowerGraph
      /\ repairNeeded' = repairNeeded /\ upper' = upper /\ layer' = layer
  BY DEF FindFeasiblePartialTree, lowerGraph
<1>4. kids' = kids /\ solved' = solved /\ value' = value /\ Nodes' = Nodes
      /\ \A p : KidSet(p)' = KidSet(p)
  BY <1>2 DEF graph, Nodes, KidSet, ChildrenOf
<1>5. (Anytime' <=> Anytime) /\ Anytime'
  BY <1>3 DEF Anytime
<1>6. \A n : (Up(n)' <=> Up(n)) /\ (Down(n)' <=> Down(n))
  BY <1>2, SameGraph
<1>7. GraphOK' /\ LowerOK'
  BY <1>1, <1>2, <1>3, <1>4, SameGraph
<1>8. UpperOK'
  <2>1. Top \in Nodes /\ value[Top] \in Known /\ ~Greater(Exact(Top), value[Top])
    <3>1. Top \in Nodes /\ value[Top] \in Known /\ UpperAt(Top, value[Top])
      BY <1>1 DEF GraphOK, UpperOK, UpperAt
    <3> QED  BY <1>1, <3>1, RootExact
  <2>2. ~Greater(value[Top], value[Top])
    BY <2>1, TimesLaws, NeverGreater
  <2>3. bound' \in Known /\ ~Greater(Exact(Top), bound') /\ ~Greater(bound', value[Top])
    BY <1>1, <1>2, <2>1, <2>2 DEF UpperOK
  <2> QED  BY <1>1, <1>2, <1>4, <2>3, Frozen DEF UpperOK, IsTerminal
<1>9. FlagsOK'
  BY <1>1, <1>2, <1>3, <1>4, <1>6 DEF FlagsOK
<1>10. WaitOK'
  BY <1>1, <1>2 DEF WaitOK
<1>11. ExpandedOK'
  BY <1>1, <1>2, <1>3, <1>4, <1>5 DEF ExpandedOK
<1>12. StageOK'
  BY <1>1, <1>2, <1>3, <1>5 DEF StageOK
<1>13. TipsOK'
  <2>1. \A n : TipOK(n)' <=> TipOK(n)
    BY <1>2, <1>4 DEF TipOK, Agrees, Given
  <2>2. diveTips' \subseteq MarkedTree' /\ \A n \in diveTips' : kids'[n] = {} /\ ~solved'[n]
    BY <1>2, <1>3, <1>4, SameTree DEF TipsOf
  <2>3. MarkedTree \subseteq Nodes
    BY <1>1, MarkedIsTree DEF SolutionTree, LowerOK, Lowered
  <2>4. MarkedTree' \subseteq Nodes'
    BY <1>2, <1>3, <1>4, <2>3, SameTree
  <2> QED  BY <1>1, <1>2, <1>3, <1>4, <2>1, <2>2, <2>4 DEF TipsOK
<1>14. CostsOK'
  BY <1>1, <1>2, <1>3, <1>5, Frozen DEF CostsOK
<1> QED  BY <1>7, <1>8, <1>9, <1>10, <1>11, <1>12, <1>13, <1>14 DEF AOInv

(* The dive has come to its end.                                           *)
LEMMA DiveEnds ==
  ASSUME AOInv, EndOfDive, Anytime
  PROVE  AOInv'
<1>1. /\ GraphOK /\ UpperOK /\ LowerOK /\ FlagsOK /\ WaitOK /\ ExpandedOK /\ StageOK /\ TipsOK
      /\ CostsOK
  BY DEF AOInv
<1>2. /\ stage = "choose" /\ diveTips = {} /\ diveTips' = diveTips /\ revise' = revise
      /\ prob' = prob /\ UNCHANGED graph /\ tips' = tips /\ bound' = bound
      /\ assignment' = assignment /\ ~solved[Top]
      /\ IF Greater(feasibleValue[Top], solutionCost)
         THEN solutionCost' = feasibleValue[Top] /\ UpdateLowerUpperBound(feasibleValue[Top], bound)
         ELSE UNCHANGED <<solutionCost, curCost, upper>>
      /\ IF repairNeeded THEN stage' = "repair" /\ layer' = Deepest
         ELSE stage' = "best" /\ UNCHANGED layer
  BY DEF EndOfDive
<1>3. /\ algorithm' = algorithm /\ expanded' = expanded /\ UNCHANGED lowerGraph
      /\ repairNeeded' = repairNeeded
  BY DEF EndOfDive, lowerGraph
<1>4. kids' = kids /\ solved' = solved /\ Nodes' = Nodes /\ \A p : KidSet(p)' = KidSet(p)
  BY <1>2 DEF graph, Nodes, KidSet, ChildrenOf
<1>5. (Anytime' <=> Anytime) /\ Anytime'
  BY <1>3 DEF Anytime
<1>6. \A n : (Up(n)' <=> Up(n)) /\ (Down(n)' <=> Down(n))
  BY <1>2, SameGraph
<1>7. GraphOK' /\ UpperOK' /\ LowerOK'
  BY <1>1, <1>2, <1>3, <1>4, SameGraph
<1>8. Deepest \in Nat /\ \A n \in Nodes : LayerOf(n) <= Deepest
  <2> DEFINE rank == [x \in Nodes |-> LayerOf(x)]
  <2>1. IsFiniteSet(Nodes) /\ Nodes # {}
    BY <1>1 DEF GraphOK
  <2>2. \A x \in Nodes : rank[x] \in Int /\ rank[x] = LayerOf(x) /\ LayerOf(x) \in Nat
    BY <1>1, KidLayer DEF GraphOK
  <2> HIDE DEF rank
  <2>3. PICK d \in Nodes : \A x \in Nodes : rank[x] <= rank[d]
    BY <2>1, <2>2, HighestOf
  <2>4. \E k \in {LayerOf(n) : n \in Nodes} : \A n \in Nodes : LayerOf(n) <= k
    BY <2>2, <2>3
  <2>5. Deepest \in {LayerOf(n) : n \in Nodes} /\ \A n \in Nodes : LayerOf(n) <= Deepest
    BY <2>4 DEF Deepest
  <2> QED  BY <2>2, <2>5
<1>9. FlagsOK'
  <2>1. CASE repairNeeded
    <3>1. stage' = "repair" /\ layer' = Deepest
      BY <1>2, <2>1
    <3>2. \A n \in Nodes : LayerOf(n) \in Nat /\ LayerOf(n)' = LayerOf(n)
      BY <1>1, KidLayer DEF GraphOK, LayerOf
    <3>3. \A n \in Nodes' : ~(LayerOf(n)' > layer')
      BY <1>4, <1>8, <3>1, <3>2
    <3> QED  BY <3>1, <3>3 DEF FlagsOK
  <2>2. CASE ~repairNeeded
    BY <1>1, <1>2, <1>3, <1>4, <1>6, <2>2 DEF FlagsOK
  <2> QED  BY <2>1, <2>2
<1>10. WaitOK'
  BY <1>1, <1>2 DEF WaitOK
<1>11. ExpandedOK'
  BY <1>1, <1>2, <1>3, <1>4, <1>5 DEF ExpandedOK, WaitOK
<1>12. StageOK'
  <2>1. layer' \in Int /\ (stage' = "repair" => layer' >= -1)
    BY <1>1, <1>2, <1>8 DEF StageOK
  <2> QED  BY <1>1, <1>2, <1>3, <1>5, <2>1 DEF StageOK
<1>13. TipsOK'
  <2>1. \A n : TipOK(n)' <=> TipOK(n)
    BY <1>2, <1>4 DEF TipOK, Agrees, Given
  <2>2. stage' # "choose" /\ (stage' = "best" => ~repairNeeded)
    BY <1>2
  <2> QED  BY <1>1, <1>2, <1>3, <1>4, <2>1, <2>2 DEF TipsOK
<1>14. CostsOK'
  <2>2. feasibleValue[Top] \in Known /\ ~Greater(feasibleValue[Top], Exact(Top))
    <3>1. LowerAt(Top, feasibleValue[Top]) /\ feasibleValue[Top] \in Known
      BY <1>1 DEF LowerOK, Lowered, LowerAt, GraphOK
    <3> QED  BY <1>1, <3>1, RootExact
  <2>3. bound \in Known /\ ~Greater(Exact(Top), bound)
    BY <1>1 DEF UpperOK
  <2>4. Exact(Top)' = Exact(Top)
    <3>1. Top' = Top
      BY DEF Top
    <3> QED  BY <1>2, <3>1, Frozen
  <2>5. CASE UNCHANGED <<curCost, upper>>
    BY <1>1, <1>2, <2>4, <2>5 DEF CostsOK
  <2>6. CASE UpdateLowerUpperBound(feasibleValue[Top], bound)
    <3>1. PICK c : c = feasibleValue[Top]
      OBVIOUS
    <3>2. /\ curCost' \in Cost /\ ~Greater(curCost', Exact(Top))
          /\ upper' \in Cost /\ ~Greater(Exact(Top), upper')
      BY <1>1, <2>2, <2>3, <2>6, <3>1, MayBeReported
    <3> QED  BY <1>2, <2>4, <3>2 DEF CostsOK
  <2> QED  BY <1>2, <2>5, <2>6
<1> QED  BY <1>7, <1>9, <1>10, <1>11, <1>12, <1>13, <1>14 DEF AOInv

(* One round of a dive expands a tip of the tree it follows.               *)
LEMMA Dives ==
  ASSUME AOInv, NEW n \in diveTips, Dive(n), Anytime
  PROVE  AOInv'
<1>1. /\ GraphOK /\ UpperOK /\ LowerOK /\ FlagsOK /\ WaitOK /\ ExpandedOK /\ StageOK /\ TipsOK
      /\ CostsOK
  BY DEF AOInv
<1>2. /\ stage = "choose" /\ stage' = "feasible" /\ prob' = prob /\ bound' = bound
      /\ curCost' = curCost /\ repairNeeded' = TRUE
      /\ ExpandAndMark(n, AssignmentTo(MarkedTree))
  BY DEF Dive
<1>3. algorithm' = algorithm /\ upper' = upper /\ layer' = layer
  BY DEF Dive
<1>4. Anytime' <=> Anytime
  BY <1>3 DEF Anytime
<1>5. n \in MarkedTree /\ n \in Nodes /\ kids[n] = {} /\ ~solved[n]
  BY <1>1, <1>2 DEF TipsOK
<1>6. SolutionTree(MarkedTree, MarkedNext)
  BY <1>1, MarkedIsTree DEF LowerOK, Lowered
<1>7. Agrees(n, AssignmentTo(MarkedTree))
  BY <1>1, <1>5, <1>6, TreeAgrees
<1>8. Expand(n, AssignmentTo(MarkedTree)) /\ expanded' = expanded \cup {n}
      /\ revise' = [m \in {n} |-> 0]
  BY <1>2 DEF ExpandAndMark
<1>9. GraphOK' /\ Grown(n)
  BY <1>1, <1>2, <1>5, <1>7, <1>8, ExpandGrows
<1>10. UpperOK'
  BY <1>1, <1>2, <1>9, GrownUpper
<1>11. LowerOK'
  BY <1>1, <1>2, <1>3, <1>9, MarkedLower
<1>12. DOMAIN revise' = {n} /\ revise'[n] = 0 /\ revise' \in [{n} -> Nat] /\ DOMAIN revise = {}
  BY <1>1, <1>2, <1>8 DEF WaitOK
<1>13. FlagsOK'
  <2>1. \A m \in Nodes : Down(m)
    BY <1>1, <1>2 DEF FlagsOK
  <2>2. \A m \in Nodes' : Down(m)'
    BY <1>1, <1>5, <1>9, <2>1, GrownFlags
  <2> QED  BY <1>2, <2>2 DEF FlagsOK
<1>14. n \in Nodes' /\ kids'[n] = KidSet(n) /\ \A m : KidSet(m)' = KidSet(m)
  BY <1>9 DEF Grown, KidSet, ChildrenOf
<1>15. WaitOK'
  <2>1. VisitedKids(n, DOMAIN revise)' \in Nat
    <3>1. IsFiniteSet(kids'[n] \cap {n})
      <4>1. IsFiniteSet({n}) /\ kids'[n] \cap {n} \subseteq {n}
        BY FS_Singleton
      <4> QED  BY <4>1, FS_Subset
    <3> QED  BY <1>12, <3>1, FS_CardinalityType DEF VisitedKids
  <2>2. revise'[n] <= VisitedKids(n, DOMAIN revise)'
    BY <1>12, <2>1
  <2> QED  BY <1>2, <1>8, <1>12, <1>14, <2>2 DEF WaitOK
<1>16. ExpandedOK'
  <2>1. ASSUME NEW m \in expanded'
        PROVE  /\ m \in Nodes' /\ kids'[m] = KidSet(m)
               /\ kids'[m] = {} => solved'[m] \/ m \in DOMAIN revise'
    <3>1. CASE m = n
      BY <1>12, <1>14, <3>1
    <3>2. CASE m # n
      BY <1>1, <1>8, <1>9, <1>12, <2>1, <3>2 DEF ExpandedOK, Grown
    <3> QED  BY <3>1, <3>2
  <2>2. ASSUME NEW m \in Nodes', kids'[m] # {} PROVE m \in expanded'
    <3>1. CASE m = n
      BY <1>8, <3>1
    <3>2. CASE m # n
      BY <1>1, <1>8, <1>9, <2>2, <3>2 DEF ExpandedOK, Grown
    <3> QED  BY <3>1, <3>2
  <2>3. Top \in expanded'
    <3>1. CASE n = Top
      BY <1>8, <3>1
    <3>2. CASE n # Top
      <4>1. kids[Top] # {} /\ Top \in Nodes
        BY <1>1, <1>5, <1>6, <3>2, BeyondRoot DEF GraphOK
      <4> QED  BY <1>1, <1>8, <4>1 DEF ExpandedOK
    <3> QED  BY <3>1, <3>2
  <2>4. Top' = Top
    BY DEF Top
  <2> QED  BY <1>2, <1>14, <2>1, <2>2, <2>3, <2>4 DEF ExpandedOK
<1>17. StageOK'
  BY <1>1, <1>2, <1>3, <1>4 DEF StageOK
<1>18. TipsOK'
  BY <1>2 DEF TipsOK
<1>19. CostsOK'
  BY <1>1, <1>2, <1>3, <1>4, Frozen DEF CostsOK
<1> QED  BY <1>9, <1>10, <1>11, <1>13, <1>15, <1>16, <1>17, <1>18, <1>19 DEF AOInv

(* The plain search expands a tip.                                         *)
LEMMA ExpandsTip ==
  ASSUME AOInv, NEW n \in tips, ExpandTip(n), ~Anytime, UNCHANGED anytimeVars
  PROVE  AOInv'
<1>1. /\ stage = "choose" /\ stage' = "revise" /\ Expand(n, assignment)
      /\ revise' = [m \in {n} |-> 0]
      /\ prob' = prob /\ assignment' = assignment /\ tips' = tips /\ bound' = bound
      /\ curCost' = curCost /\ upper' = upper
  BY DEF ExpandTip
<1>2. /\ algorithm' = algorithm /\ repairNeeded' = repairNeeded /\ layer' = layer
      /\ diveTips' = diveTips
  BY DEF anytimeVars
<1>3. ~repairNeeded
  BY DEF AOInv, StageOK
<1> QED  BY <1>1, <1>2, <1>3, ExpandToRevise

(* After its dive the anytime search expands a tip of the best tree.       *)
LEMMA ExpandsBest ==
  ASSUME AOInv, NEW n \in tips, ExpandBest(n), Anytime
  PROVE  AOInv'
<1>1. /\ stage = "best" /\ stage' = "revise" /\ ExpandAndMark(n, assignment) /\ next' = n
      /\ prob' = prob /\ assignment' = assignment /\ tips' = tips /\ bound' = bound
      /\ curCost' = curCost
  BY DEF ExpandBest
<1>2. /\ algorithm' = algorithm /\ repairNeeded' = repairNeeded /\ layer' = layer
      /\ diveTips' = diveTips /\ upper' = upper
  BY DEF ExpandBest
<1>3. Expand(n, assignment) /\ revise' = [m \in {n} |-> 0]
  BY <1>1 DEF ExpandAndMark
<1>4. ~repairNeeded
  BY <1>1 DEF AOInv, StageOK
<1> QED  BY <1>1, <1>2, <1>3, <1>4, ExpandToRevise

-----------------------------------------------------------------------------
(* The end. *)

(* A solved root has the exact value, and so has the bound.                *)
LEMMA SolvedRoot ==
  ASSUME GraphOK, UpperOK, solved[Top]
  PROVE  value[Top] = Exact(Top) /\ bound = Exact(Top)
<1>1. Top \in Nodes /\ value[Top] \in Known /\ TightAt(Top, value[Top])
  BY DEF GraphOK, UpperOK
<1>2. value[Top] = Exact(Top) /\ Exact(Top) \in Known
  BY <1>1, RootExact
<1>3. bound \in Known /\ ~Greater(Exact(Top), bound) /\ ~Greater(bound, value[Top])
  BY DEF UpperOK
<1> QED  BY <1>2, <1>3, CostOrder

(* A step that only ends the search keeps the invariant if its costs are   *)
(* in order.                                                               *)
LEMMA Ends ==
  ASSUME AOInv, stage' \in {"done", "gaveup"},
         UNCHANGED <<prob, graph, assignment, tips, revise, bound>>,
         UNCHANGED <<algorithm, lowerGraph, diveTips, repairNeeded, next, layer>>,
         CostsOK'
  PROVE  AOInv'
<1>1. GraphOK /\ UpperOK /\ LowerOK /\ WaitOK /\ ExpandedOK /\ StageOK
  BY DEF AOInv
<1>2. /\ prob' = prob /\ UNCHANGED graph /\ tips' = tips /\ revise' = revise /\ bound' = bound
      /\ algorithm' = algorithm /\ UNCHANGED lowerGraph /\ diveTips' = diveTips
      /\ repairNeeded' = repairNeeded /\ layer' = layer
  OBVIOUS
<1>3. kids' = kids /\ solved' = solved /\ Nodes' = Nodes /\ expanded' = expanded
      /\ \A p : KidSet(p)' = KidSet(p)
  BY <1>2 DEF graph, Nodes, KidSet, ChildrenOf, lowerGraph
<1>4. Anytime' <=> Anytime
  BY <1>2 DEF Anytime
<1>5. GraphOK' /\ UpperOK' /\ LowerOK'
  BY <1>1, <1>2, <1>3, SameGraph
<1>6. FlagsOK' /\ TipsOK'
  BY DEF FlagsOK, TipsOK
<1>7. WaitOK'
  BY <1>1, <1>2, <1>3, <1>4 DEF WaitOK, VisitedKids
<1>8. ExpandedOK'
  BY <1>1, <1>2, <1>3, <1>4 DEF ExpandedOK
<1>9. StageOK'
  BY <1>1, <1>2, <1>3, <1>4 DEF StageOK
<1> QED  BY <1>5, <1>6, <1>7, <1>8, <1>9 DEF AOInv

(* Whoever reports the optimum as both bounds leaves the costs in order.   *)
LEMMA ReportsOptimum ==
  ASSUME AOInv, UpdateLowerUpperBound(Exact(Top), Exact(Top)), prob' = prob
  PROVE  CostsOK'
<1>1. GraphOK /\ CostsOK
  BY DEF AOInv
<1>2. PICK x : x = Exact(Top)
  OBVIOUS
<1>3. x \in Known /\ x \in Cost
  BY <1>1, <1>2, RootExact, TimesLaws
<1>4. ~Greater(x, x)
  BY <1>3, NeverGreater
<1>5. curCost' = x /\ upper' = x
  BY <1>1, <1>2, <1>3, <1>4, MayBeReported
<1>6. Exact(Top)' = x
  <2>1. Top' = Top
    BY DEF Top
  <2> QED  BY <1>2, <2>1, Frozen
<1> QED  BY <1>3, <1>4, <1>5, <1>6 DEF CostsOK

(* The plain search reports the value of the solved root.                  *)
LEMMA Reports ==
  ASSUME AOInv, Report, ~Anytime, UNCHANGED anytimeVars
  PROVE  AOInv'
<1>1. /\ solved[Top] /\ UpdateLowerUpperBound(value[Top], bound) /\ stage' = "done"
      /\ prob' = prob /\ UNCHANGED <<graph, assignment, tips, revise, bound>>
  BY DEF Report
<1>2. UNCHANGED <<algorithm, lowerGraph, diveTips, repairNeeded, next, layer>>
  BY DEF anytimeVars
<1>3. value[Top] = Exact(Top) /\ bound = Exact(Top)
  BY <1>1, SolvedRoot DEF AOInv
<1>4. CostsOK'
  BY <1>1, <1>3, ReportsOptimum
<1> QED  BY <1>1, <1>2, <1>4, Ends

(* The anytime search concludes: its bounds have met.                      *)
LEMMA Concludes ==
  ASSUME AOInv, Conclude, Anytime
  PROVE  AOInv'
<1>1. /\ (stage = "choose" /\ solved[Top]) \/ (stage = "best" /\ tips = {})
      /\ UpdateLowerUpperBound(bound, bound) /\ stage' = "done"
      /\ prob' = prob /\ UNCHANGED <<graph, assignment, tips, revise, bound>>
      /\ UNCHANGED <<algorithm, lowerGraph, diveTips, repairNeeded, next, layer>>
  BY DEF Conclude
<1>2. solved[Top]
  <2>1. CASE stage = "best" /\ tips = {}
    BY <2>1 DEF AOInv, TipsOK, StageOK
  <2> QED  BY <1>1, <2>1
<1>3. bound = Exact(Top)
  BY <1>2, SolvedRoot DEF AOInv
<1>4. CostsOK'
  BY <1>1, <1>3, ReportsOptimum
<1> QED  BY <1>1, <1>4, Ends

(* The search may end without an answer.                                   *)
LEMMA GivesUp ==
  ASSUME AOInv, stage' = "gaveup", UNCHANGED anytimeVars,
         UNCHANGED <<prob, graph, assignment, tips, revise, bound, curCost, upper>>
  PROVE  AOInv'
<1>1. UNCHANGED <<algorithm, lowerGraph, diveTips, repairNeeded, next, layer>>
  BY DEF anytimeVars
<1>2. CostsOK'
  <2>1. Anytime' <=> Anytime
    BY <1>1 DEF Anytime
  <2>2. CostsOK
    BY DEF AOInv
  <2> QED  BY <1>1, <2>1, <2>2, Frozen DEF CostsOK
<1> QED  BY <1>1, <1>2, Ends

-----------------------------------------------------------------------------
(* Repair. *)

(* Repair revises one layer, from the layer below it.                      *)
LEMMA RepairsLayer ==
  ASSUME AOInv, RepairLayer, Anytime
  PROVE  AOInv'
<1>1. /\ GraphOK /\ UpperOK /\ LowerOK /\ FlagsOK /\ WaitOK /\ ExpandedOK /\ StageOK /\ TipsOK
      /\ CostsOK
  BY DEF AOInv
<1>2. /\ stage = "repair" /\ stage' = "repair" /\ layer >= 0 /\ layer' = layer - 1
      /\ prob' = prob /\ kids' = kids /\ parents' = parents /\ revise' = revise
      /\ curCost' = curCost
      /\ algorithm' = algorithm /\ expanded' = expanded /\ diveTips' = diveTips
      /\ upper' = upper /\ repairNeeded' = repairNeeded
  BY DEF RepairLayer
<1>24. PICK here \in {{n \in Nodes : LayerOf(n) = layer}} :
     \E q \in {[n \in here \cap expanded |-> RevisedValue(n, value)]} :
     \E b \in {[n \in here \cap expanded |->
                 IF IsOrNode(n) THEN BestChild(n, q[n], value, solved) ELSE NULL]} :
     \E done \in {{n \in here \cap expanded :
                    IF IsOrNode(n) THEN solved[b[n]] ELSE \A m \in kids[n] : solved[m]}} :
       /\ value' = Updated(value, q)
       /\ best' = Updated(best, b)
       /\ solved' = [n \in Nodes |-> IF n \in here THEN n \in done ELSE solved[n]]
       /\ feasibleValue' = Updated(feasibleValue, [n \in here \cap expanded |-> RevisedLower(n)])
       /\ feasible' = [n \in Nodes |-> feasible[n] \/ (n \in here \cap expanded /\ HasSolution(n))]
       /\ feasibleChild' = Updated(feasibleChild,
            [n \in {m \in here \cap expanded : IsOrNode(m)} \ done |-> MarkedChild(n, kids[n], value)])
       /\ bound' = IF Top \in here /\ Greater(bound, q[Top]) THEN q[Top] ELSE bound
  BY DEF RepairLayer
<1> DEFINE R == here \cap expanded
           RepairBy(q, b, done) ==
             /\ value' = Updated(value, q)
             /\ best' = Updated(best, b)
             /\ solved' = [n \in Nodes |-> IF n \in here THEN n \in done ELSE solved[n]]
             /\ feasibleValue' = Updated(feasibleValue, [n \in here \cap expanded |-> RevisedLower(n)])
             /\ feasible' = [n \in Nodes |-> feasible[n] \/ (n \in here \cap expanded /\ HasSolution(n))]
             /\ feasibleChild' = Updated(feasibleChild,
                  [n \in {m \in here \cap expanded : IsOrNode(m)} \ done |-> MarkedChild(n, kids[n], value)])
             /\ bound' = IF Top \in here /\ Greater(bound, q[Top]) THEN q[Top] ELSE bound
<1>3. PICK q \in {[n \in R |-> RevisedValue(n, value)]} :
        \E b \in {[n \in R |-> IF IsOrNode(n) THEN BestChild(n, q[n], value, solved) ELSE NULL]} :
        \E done \in {{n \in R : IF IsOrNode(n) THEN solved[b[n]] ELSE \A m \in kids[n] : solved[m]}} :
          RepairBy(q, b, done)
  BY <1>24
<1>4. PICK b \in {[n \in R |-> IF IsOrNode(n) THEN BestChild(n, q[n], value, solved) ELSE NULL]} :
        \E done \in {{n \in R : IF IsOrNode(n) THEN solved[b[n]] ELSE \A m \in kids[n] : solved[m]}} :
          RepairBy(q, b, done)
  BY <1>3
<1>5. PICK done \in {{n \in R : IF IsOrNode(n) THEN solved[b[n]] ELSE \A m \in kids[n] : solved[m]}} :
        RepairBy(q, b, done)
  BY <1>4
<1>6. /\ value' = Updated(value, q) /\ best' = Updated(best, b)
      /\ solved' = [n \in Nodes |-> IF n \in here THEN n \in done ELSE solved[n]]
      /\ feasibleValue' = Updated(feasibleValue, [n \in R |-> RevisedLower(n)])
      /\ feasible' = [n \in Nodes |-> feasible[n] \/ (n \in R /\ HasSolution(n))]
      /\ feasibleChild' = Updated(feasibleChild,
           [n \in {m \in R : IsOrNode(m)} \ done |-> MarkedChild(n, kids[n], value)])
      /\ bound' = IF Top \in here /\ Greater(bound, q[Top]) THEN q[Top] ELSE bound
  BY <1>5
<1>7. /\ DOMAIN q = R /\ \A n \in R : q[n] = RevisedValue(n, value)
      /\ DOMAIN b = R /\ \A n \in R : b[n] = IF IsOrNode(n) THEN BestChild(n, q[n], value, solved) ELSE NULL
      /\ done \subseteq R
      /\ \A n \in R : n \in done <=> IF IsOrNode(n) THEN solved[b[n]] ELSE \A m \in kids[n] : solved[m]
  BY <1>3, <1>4, <1>5
<1>8. /\ R \subseteq Nodes /\ R \subseteq here /\ here \subseteq Nodes
      /\ \A n \in here : LayerOf(n) = layer
      /\ \A n \in Nodes : n \in here <=> LayerOf(n) = layer
      /\ \A n \in here : n \in R <=> n \in expanded
  <2>1. here = {n \in Nodes : LayerOf(n) = layer}
    BY <1>24
  <2> QED  BY <2>1
<1> HIDE DEF R, RepairBy
<1>9. (Anytime' <=> Anytime) /\ Anytime' /\ Nodes' = Nodes /\ \A p : KidSet(p)' = KidSet(p)
  BY <1>2 DEF Anytime, Nodes, KidSet, ChildrenOf
<1>10. Lowered = Nodes /\ Lowered' = Nodes /\ prob \in Problems
  BY <1>1, <1>9 DEF Lowered, GraphOK
<1>11. ASSUME NEW n \in R
       PROVE  /\ n \in Nodes /\ InSpace(n) /\ kids[n] = KidSet(n)
              /\ \A m \in kids[n] : /\ m \in Nodes /\ m \notin here
                                    /\ UpperAt(m, value[m]) /\ value[m] \in Known
                                    /\ solved[m] => TightAt(m, value[m])
                                    /\ LowerAt(m, feasibleValue[m])
  <2>1. n \in Nodes /\ n \in expanded
    BY <1>8
  <2>2. InSpace(n) /\ kids[n] = KidSet(n) /\ kids[n] \subseteq Nodes
    BY <1>1, <2>1 DEF GraphOK, ExpandedOK
  <2>3. \A m \in kids[n] : m \notin here
    <3> SUFFICES ASSUME NEW m \in kids[n], m \in here PROVE FALSE
      OBVIOUS
    <3>1. LayerOf(n) \in Nat /\ LayerOf(m) = LayerOf(n) + 1
      BY <1>1, <2>1, KidsInGraph
    <3> QED  BY <1>8, <3>1
  <2>4. \A m \in Nodes : UpperAt(m, value[m]) /\ value[m] \in Known
                         /\ (solved[m] => TightAt(m, value[m]))
    BY <1>1 DEF UpperOK, UpperAt
  <2>5. \A m \in Nodes : LowerAt(m, feasibleValue[m])
    BY <1>1, <1>10 DEF LowerOK
  <2> QED  BY <2>1, <2>2, <2>3, <2>4, <2>5
<1>12. ASSUME NEW n \in R
       PROVE  /\ UpperAt(n, q[n]) /\ q[n] \in Known
              /\ IsOrNode(n) => b[n] \in kids[n] /\ (n \in done <=> solved[b[n]])
              /\ ~IsOrNode(n) => b[n] = NULL /\ (n \in done <=> \A m \in kids[n] : solved[m])
              /\ n \in done => TightAt(n, q[n])
              /\ kids[n] = {} => ~IsOrNode(n) /\ n \in done
  <2>1. /\ InSpace(n) /\ kids[n] = KidSet(n)
        /\ \A m \in kids[n] : UpperAt(m, value[m]) /\ value[m] \in Known
                              /\ (solved[m] => TightAt(m, value[m]))
    BY <1>11
  <2>2. q[n] = RevisedValue(n, value)
    BY <1>7
  <2>3. UpperAt(n, q[n])
    BY <1>10, <2>1, <2>2, RevisedAbove
  <2>4. q[n] \in Known
    BY <2>3 DEF UpperAt
  <2>5. CASE IsOrNode(n)
    <3>1. b[n] = BestChild(n, RevisedValue(n, value), value, solved)
      BY <1>7, <2>2, <2>5
    <3>2. b[n] \in kids[n] /\ Reach(n, value)[b[n]] = q[n]
      BY <1>10, <2>1, <2>2, <2>5, <3>1, BestExists
    <3>3. n \in done <=> solved[b[n]]
      BY <1>7, <2>5
    <3>4. n \in done => TightAt(n, q[n])
      BY <1>10, <2>1, <2>2, <2>5, <3>2, <3>3, RevisedAbove
    <3> QED  BY <2>3, <2>4, <2>5, <3>2, <3>3, <3>4
  <2>6. CASE ~IsOrNode(n)
    <3>1. b[n] = NULL /\ (n \in done <=> \A m \in kids[n] : solved[m])
      BY <1>7, <2>6
    <3>2. n \in done => TightAt(n, q[n])
      BY <1>10, <2>1, <2>2, <2>6, <3>1, RevisedAbove
    <3> QED  BY <2>3, <2>4, <2>6, <3>1, <3>2
  <2> QED  BY <2>5, <2>6
<1>13. /\ value' \in [Nodes -> Known] /\ best' \in [Nodes -> Nodes \cup {NULL}]
       /\ solved' \in [Nodes -> BOOLEAN]
       /\ \A n \in Nodes : /\ value'[n] = IF n \in R THEN q[n] ELSE value[n]
                           /\ best'[n] = IF n \in R THEN b[n] ELSE best[n]
                           /\ n \in here => (solved'[n] <=> n \in done)
                           /\ n \notin here => solved'[n] = solved[n]
  <2>1. value \in [Nodes -> Known] /\ best \in [Nodes -> Nodes \cup {NULL}] /\ solved \in [Nodes -> BOOLEAN]
    BY <1>1 DEF GraphOK
  <2>2. value' = [n \in Nodes |-> IF n \in R THEN q[n] ELSE value[n]]
    BY <1>6, <1>7, <2>1 DEF Updated
  <2>3. best' = [n \in Nodes |-> IF n \in R THEN b[n] ELSE best[n]]
    BY <1>6, <1>7, <2>1 DEF Updated
  <2>4. \A n \in R : q[n] \in Known /\ b[n] \in Nodes \cup {NULL}
    BY <1>11, <1>12
  <2>5. \A n \in Nodes : /\ n \in here => solved'[n] = (n \in done)
                         /\ n \notin here => solved'[n] = solved[n]
    BY <1>6
  <2>6. \A n \in Nodes : solved'[n] \in BOOLEAN
    <3>1. ASSUME NEW n \in Nodes, n \in here PROVE solved'[n] \in BOOLEAN
      <4>1. solved'[n] = (n \in done)
        BY <2>5, <3>1
      <4>2. (n \in done) \in BOOLEAN
        OBVIOUS
      <4> QED  BY <4>1, <4>2, Zenon
    <3>2. ASSUME NEW n \in Nodes, n \notin here PROVE solved'[n] \in BOOLEAN
      BY <2>1, <2>5, <3>2
    <3> QED  BY <3>1, <3>2
  <2>7. solved' = [n \in Nodes |-> solved'[n]]
    BY <1>6
  <2> QED  BY <2>1, <2>2, <2>3, <2>4, <2>5, <2>6, <2>7
<1>14. GraphOK'
  BY <1>1, <1>2, <1>9, <1>13 DEF GraphOK
<1>15. \A n \in R : IsTerminal(n) => n \in done
  BY <1>11, <1>12, KidsOfAnd DEF IsTerminal
<1>16. UpperOK'
  <2>1. ASSUME NEW m \in Nodes
        PROVE  UpperAt(m, value'[m]) /\ (solved'[m] \/ IsTerminal(m) => TightAt(m, value'[m]))
    <3>1. CASE m \in R
      BY <1>8, <1>12, <1>13, <1>15, <3>1
    <3>2. CASE m \notin R
      <4>1. value'[m] = value[m] /\ (solved'[m] => solved[m])
        BY <1>7, <1>13, <3>2
      <4> QED  BY <1>1, <4>1 DEF UpperOK
    <3> QED  BY <3>1, <3>2
  <2>2. bound' \in Known /\ ~Greater(Exact(Top), bound') /\ ~Greater(bound', value'[Top])
    <3>1. bound \in Known /\ ~Greater(Exact(Top), bound) /\ ~Greater(bound, value[Top]) /\ Top \in Nodes
      BY <1>1 DEF UpperOK, GraphOK
    <3>2. CASE Top \in here
      <4>1. Top \in R
        BY <1>1, <1>2, <1>8, <3>2 DEF ExpandedOK, StageOK
      <4>2. q[Top] \in Known /\ ~Greater(Exact(Top), q[Top])
        BY <1>1, <1>12, <4>1, RootExact
      <4>3. ~Greater(q[Top], q[Top])
        BY <4>2, TimesLaws, NeverGreater
      <4> QED  BY <1>6, <1>13, <3>1, <3>2, <4>1, <4>2, <4>3
    <3>3. CASE Top \notin here
      BY <1>6, <1>8, <1>13, <3>1, <3>3
    <3> QED  BY <3>2, <3>3
  <2> QED  BY <1>2, <1>9, <2>1, <2>2, Frozen DEF UpperOK, IsTerminal
<1>17. LowerOK'
  <2>1. /\ feasibleValue \in [Nodes -> Known] /\ feasible \in [Nodes -> BOOLEAN]
        /\ feasibleChild \in [Nodes -> Nodes \cup {NULL}]
        /\ \A n \in Nodes : LowerAt(n, feasibleValue[n])
        /\ \A n \in Nodes : feasibleChild[n] # NULL => feasibleChild[n] \in kids[n]
    BY <1>1, <1>10 DEF LowerOK
  <2>2. feasibleValue' = [n \in Nodes |-> IF n \in R THEN RevisedLower(n) ELSE feasibleValue[n]]
    <3> DEFINE g == [n \in R |-> RevisedLower(n)]
    <3>1. DOMAIN g = R /\ \A n \in R : g[n] = RevisedLower(n)
      OBVIOUS
    <3>2. feasibleValue' = Updated(feasibleValue, g)
      BY <1>6
    <3> HIDE DEF g
    <3>3. Updated(feasibleValue, g) = [n \in Nodes |-> IF n \in R THEN g[n] ELSE feasibleValue[n]]
      BY <2>1, <3>1 DEF Updated
    <3> QED  BY <3>1, <3>2, <3>3
  <2>3. \A n \in R : LowerAt(n, RevisedLower(n)) /\ RevisedLower(n) \in Known
    <3> SUFFICES ASSUME NEW n \in R
                 PROVE LowerAt(n, RevisedLower(n)) /\ RevisedLower(n) \in Known
      OBVIOUS
    <3>1. /\ InSpace(n) /\ kids[n] = KidSet(n) /\ LowerAt(n, feasibleValue[n])
          /\ \A m \in kids[n] : LowerAt(m, feasibleValue[m])
      BY <1>11, <2>1
    <3>2. LowerAt(n, RevisedLower(n))
      BY <1>10, <3>1, RevisedBelow
    <3> QED  BY <3>2 DEF LowerAt
  <2>4. feasibleValue' \in [Nodes -> Known] /\ \A n \in Nodes : LowerAt(n, feasibleValue'[n])
    BY <2>1, <2>2, <2>3
  <2>5. feasible' \in [Nodes -> BOOLEAN]
    <3>1. \A n \in Nodes : feasible'[n] = (feasible[n] \/ (n \in R /\ HasSolution(n)))
      BY <1>6
    <3>2. \A n \in Nodes : HasSolution(n) \in BOOLEAN /\ feasible[n] \in BOOLEAN
      BY <2>1 DEF HasSolution
    <3>3. \A n \in Nodes : feasible'[n] \in BOOLEAN
      BY <3>1, <3>2
    <3>4. feasible' = [n \in Nodes |-> feasible'[n]]
      BY <1>6
    <3> QED  BY <3>3, <3>4
  <2>6. /\ feasibleChild' \in [Nodes -> Nodes \cup {NULL}]
        /\ \A n \in Nodes : feasibleChild'[n] # NULL => feasibleChild'[n] \in kids[n]
    <3> DEFINE M == {m \in R : IsOrNode(m)} \ done
               g == [n \in M |-> MarkedChild(n, kids[n], value)]
    <3>1. DOMAIN g = M /\ \A n \in M : g[n] = MarkedChild(n, kids[n], value)
      OBVIOUS
    <3>2. feasibleChild' = Updated(feasibleChild, g)
      BY <1>6
    <3>3. \A n \in M : n \in R /\ IsOrNode(n)
      OBVIOUS
    <3> HIDE DEF g, M
    <3>4. feasibleChild' = [n \in Nodes |-> IF n \in M THEN g[n] ELSE feasibleChild[n]]
      BY <2>1, <3>1, <3>2 DEF Updated
    <3>5. ASSUME NEW n \in M PROVE g[n] \in kids[n] \cup {NULL} /\ kids[n] \subseteq Nodes
      <4>1. /\ InSpace(n) /\ kids[n] = KidSet(n) /\ IsOrNode(n)
            /\ \A m \in KidSet(n) : value[m] \in Known /\ m \in Nodes
        BY <1>11, <3>3
      <4>2. MarkedChild(n, KidSet(n), value) \in KidSet(n) \cup {NULL}
        BY <1>10, <4>1, MarkedExists
      <4> QED  BY <3>1, <4>1, <4>2
    <3> QED  BY <2>1, <3>4, <3>5
  <2>7. \A n \in Nodes : LowerAt(n, feasibleValue[n])'
    BY <1>2, <2>4, Frozen
  <2>8. /\ feasibleValue' \in [Lowered' -> Known] /\ feasible' \in [Lowered' -> BOOLEAN]
        /\ feasibleChild' \in [Lowered' -> Nodes' \cup {NULL}]
    BY <1>9, <1>10, <2>4, <2>5, <2>6
  <2>9. \A n \in Lowered' : LowerAt(n, feasibleValue[n])'
    BY <1>10, <2>7
  <2>10. \A n \in Lowered' : feasibleChild'[n] # NULL => feasibleChild'[n] \in kids'[n]
    BY <1>2, <1>10, <2>6
  <2> QED  BY <2>8, <2>9, <2>10 DEF LowerOK
<1>18. FlagsOK'
  <2>1. ASSUME NEW n \in Nodes, LayerOf(n) > layer'
        PROVE  Down(n)' /\ Up(n)'
    <3>1. LayerOf(n) \in Nat /\ \A m \in kids[n] : m \in Nodes /\ LayerOf(m) = LayerOf(n) + 1
      <4>1. LayerOf(n) \in Nat
        BY <1>1, KidLayer DEF GraphOK
      <4> QED  BY <1>1, <4>1, KidsInGraph
    <3>2. LayerOf(n) = layer \/ LayerOf(n) > layer
      BY <1>1, <1>2, <2>1, <3>1 DEF StageOK
    <3>3. \A m \in kids[n] : solved'[m] = solved[m]
      <4>1. \A m \in kids[n] : m \notin here
        BY <1>1, <1>8, <3>1, <3>2 DEF StageOK
      <4> QED  BY <1>13, <3>1, <4>1
    <3>4. CASE LayerOf(n) > layer
      <4>1. n \notin here /\ n \notin R
        BY <1>1, <1>8, <3>1, <3>4 DEF StageOK
      <4>2. best'[n] = best[n] /\ solved'[n] = solved[n] /\ kids'[n] = kids[n]
        BY <1>2, <1>13, <4>1
      <4>3. Down(n) /\ Up(n)
        BY <1>1, <1>2, <3>4 DEF FlagsOK
      <4>4. Down(n)'
        BY <1>2, <1>9, <3>3, <4>2, <4>3 DEF Down
      <4>5. Up(n)'
        BY <1>2, <1>9, <3>3, <4>2, <4>3 DEF Up
      <4> QED  BY <4>4, <4>5
    <3>5. CASE LayerOf(n) = layer
      <4>1. n \in here /\ (solved'[n] <=> n \in done)
        BY <1>8, <1>13, <3>5
      <4>2. n \in R => best'[n] = b[n]
        BY <1>13
      <4>3. kids[n] # {} => n \in R
        BY <1>1, <1>8, <1>9, <4>1 DEF ExpandedOK
      <4>4. n \in R => kids[n] = KidSet(n)
        BY <1>11
      <4>5. CASE IsOrNode(n)
        <5>1. n \in R => b[n] \in kids[n] /\ (solved'[n] <=> solved'[b[n]])
          BY <1>12, <3>3, <4>1, <4>5
        <5>2. Down(n)'
          BY <1>2, <1>7, <1>9, <4>1, <4>2, <4>4, <4>5, <5>1 DEF Down
        <5>3. Up(n)'
          BY <1>2, <4>2, <4>3, <4>5, <5>1 DEF Up
        <5> QED  BY <5>2, <5>3
      <4>6. CASE ~IsOrNode(n)
        <5>1. n \in R => (solved'[n] <=> \A m \in kids[n] : solved'[m])
          BY <1>12, <3>3, <4>1, <4>6
        <5>2. Down(n)'
          BY <1>2, <1>7, <1>9, <4>1, <4>4, <4>6, <5>1 DEF Down
        <5>3. Up(n)'
          BY <1>2, <4>3, <4>6, <5>1 DEF Up
        <5> QED  BY <5>2, <5>3
      <4> QED  BY <4>5, <4>6
    <3> QED  BY <3>2, <3>4, <3>5
  <2>2. \A n : LayerOf(n)' = LayerOf(n)
    BY DEF LayerOf
  <2> QED  BY <1>2, <1>9, <2>1, <2>2 DEF FlagsOK
<1>19. WaitOK'
  BY <1>1, <1>2 DEF WaitOK
<1>20. ExpandedOK'
  <2>1. ASSUME NEW n \in expanded, kids[n] = {} PROVE solved'[n]
    <3>1. n \in Nodes /\ solved[n]
      BY <1>1, <1>2, <2>1 DEF ExpandedOK, WaitOK
    <3>2. CASE n \in here
      BY <1>8, <1>12, <1>13, <2>1, <3>1, <3>2
    <3>3. CASE n \notin here
      BY <1>13, <3>1, <3>3
    <3> QED  BY <3>2, <3>3
  <2> QED  BY <1>1, <1>2, <1>9, <2>1 DEF ExpandedOK
<1>21. StageOK'
  BY <1>1, <1>2, <1>9 DEF StageOK
<1>22. TipsOK'
  BY <1>2 DEF TipsOK
<1>23. CostsOK'
  BY <1>1, <1>2, <1>9, Frozen DEF CostsOK
<1> QED  BY <1>14, <1>16, <1>17, <1>18, <1>19, <1>20, <1>21, <1>22, <1>23 DEF AOInv

-----------------------------------------------------------------------------
(* Nothing happens.                                                        *)
LEMMA Stutters ==
  ASSUME AOInv, UNCHANGED allVars
  PROVE  AOInv'
<1>1. /\ prob' = prob /\ UNCHANGED graph /\ assignment' = assignment /\ tips' = tips
      /\ revise' = revise /\ bound' = bound /\ curCost' = curCost /\ stage' = stage
      /\ algorithm' = algorithm /\ UNCHANGED lowerGraph /\ diveTips' = diveTips
      /\ upper' = upper /\ repairNeeded' = repairNeeded /\ next' = next /\ layer' = layer
  BY DEF allVars, vars, anytimeVars
<1>2. /\ GraphOK /\ UpperOK /\ LowerOK /\ FlagsOK /\ WaitOK /\ ExpandedOK /\ StageOK /\ TipsOK
      /\ CostsOK
  BY DEF AOInv
<1>3. kids' = kids /\ solved' = solved /\ Nodes' = Nodes /\ expanded' = expanded
      /\ \A p : KidSet(p)' = KidSet(p)
  BY <1>1 DEF graph, Nodes, KidSet, ChildrenOf, lowerGraph
<1>4. Anytime' <=> Anytime
  BY <1>1 DEF Anytime
<1>5. GraphOK' /\ UpperOK' /\ LowerOK'
  BY <1>1, <1>2, <1>3, SameGraph
<1>6. FlagsOK'
  <2>1. \A n : (Up(n)' <=> Up(n)) /\ (Down(n)' <=> Down(n))
    BY <1>1, SameGraph
  <2>2. \A n : LayerOf(n)' = LayerOf(n)
    BY DEF LayerOf
  <2> QED  BY <1>1, <1>2, <1>3, <2>1, <2>2 DEF FlagsOK
<1>7. WaitOK'
  BY <1>1, <1>2, <1>3, <1>4 DEF WaitOK, VisitedKids
<1>8. ExpandedOK'
  BY <1>1, <1>2, <1>3, <1>4 DEF ExpandedOK
<1>9. StageOK'
  BY <1>1, <1>2, <1>3, <1>4 DEF StageOK
<1>10. TipsOK'
  <2>1. \A n : TipOK(n)' <=> TipOK(n)
    BY <1>1, <1>3 DEF TipOK, Agrees, Given
  <2>2. MarkedTree' = MarkedTree
    BY <1>1, SameTree
  <2> QED  BY <1>1, <1>2, <1>3, <2>1, <2>2 DEF TipsOK
<1>11. CostsOK'
  BY <1>1, <1>2, <1>4, Frozen DEF CostsOK
<1> QED  BY <1>5, <1>6, <1>7, <1>8, <1>9, <1>10, <1>11 DEF AOInv

(* Every step of either search keeps the invariant.                        *)
LEMMA StepKeepsInvariant ==
  ASSUME AOInv, [AnytimeNext]_allVars
  PROVE  AOInv'
<1>1. CASE UNCHANGED allVars
  BY <1>1, Stutters
<1>2. CASE Anytime /\ Round
  <2>1. CASE \E n \in diveTips : Dive(n)
    BY <1>2, <2>1, Dives
  <2>2. CASE \E e \in DOMAIN revise : ReviseFeasible(e)
    BY <2>2, RevisesFeasible
  <2>3. CASE \E e \in DOMAIN revise : ReviseNode(e) /\ UNCHANGED <<curCost, upper, anytimeVars>>
    BY <2>3, RevisesNode
  <2>4. CASE FindFeasiblePartialTree
    BY <1>2, <2>4, FindsFeasible
  <2>5. CASE EndOfDive
    BY <1>2, <2>5, DiveEnds
  <2>6. CASE RepairLayer
    BY <1>2, <2>6, RepairsLayer
  <2>7. CASE AfterRepair
    BY <1>2, <2>7, Repaired
  <2>8. CASE \E n \in tips : ExpandBest(n)
    BY <1>2, <2>8, ExpandsBest
  <2>9. CASE TurnToFeasible
    BY <1>2, <2>9, TurnsToFeasible
  <2>10. CASE Conclude
    BY <1>2, <2>10, Concludes
  <2> QED  BY <1>2, <2>1, <2>2, <2>3, <2>4, <2>5, <2>6, <2>7, <2>8, <2>9, <2>10 DEF Round
<1>3. CASE ~Anytime /\ Search /\ UNCHANGED anytimeVars
  <2>1. CASE \E n \in tips : ExpandTip(n)
    BY <1>3, <2>1, ExpandsTip
  <2>2. CASE \E e \in DOMAIN revise : ReviseNode(e) /\ ReportsProgress
    BY <1>3, <2>2, RevisesNode
  <2>3. CASE FindBestPartialTree
    BY <1>3, <2>3, FindsBest
  <2>4. CASE Report
    BY <1>3, <2>4, Reports
  <2> QED  BY <1>3, <2>1, <2>2, <2>3, <2>4 DEF Search
<1>4. CASE Anytime /\ RunOut
  <2>1. /\ stage' = "gaveup" /\ UNCHANGED anytimeVars
        /\ UNCHANGED <<prob, graph, assignment, tips, revise, bound, curCost, upper>>
    BY <1>4 DEF RunOut
  <2> QED  BY <2>1, GivesUp
<1>5. CASE ~Anytime /\ GiveUp /\ UNCHANGED anytimeVars
  <2>1. /\ stage' = "gaveup" /\ UNCHANGED anytimeVars
        /\ UNCHANGED <<prob, graph, assignment, tips, revise, bound, curCost, upper>>
    BY <1>5 DEF GiveUp
  <2> QED  BY <2>1, GivesUp
<1> QED  BY <1>1, <1>2, <1>3, <1>4, <1>5 DEF AnytimeNext, SearchStep

-----------------------------------------------------------------------------
(* Theorems. *)

(* AOInv is an inductive invariant of best-first search, with and without  *)
(* the dives of the anytime algorithm.                                     *)
THEOREM AOInvariance == AnytimeSpec => []AOInv
<1>1. AnytimeInit => AOInv
  BY Begins
<1>2. AOInv /\ [AnytimeNext]_allVars => AOInv'
  BY StepKeepsInvariant
<1> QED  BY <1>1, <1>2, PTL DEF AnytimeSpec

(* BoundsEnclose: at every node, whether its values stem from a dive, from *)
(* a revision that stopped on the way or from Repair, the upper bound and  *)
(* the lower bound enclose the exact value, a solved node has it, and so   *)
(* do the bounds that are reported; at the end they are the optimum.       *)
THEOREM BoundsEncloseHolds == AnytimeSpec => []BoundsEnclose
<1>1. AOInv => BoundsEnclose
  <2> SUFFICES ASSUME AOInv PROVE BoundsEnclose
    OBVIOUS
  <2>1. GraphOK /\ UpperOK /\ LowerOK /\ CostsOK
    BY DEF AOInv
  <2>2. ValuesSound
    <3>1. \A n \in Nodes : /\ ~Greater(Times(Arc(n), ExactAt(n)), Times(Arc(n), value[n]))
                           /\ solved[n] => Times(Arc(n), value[n]) = Times(Arc(n), ExactAt(n))
      BY <2>1 DEF UpperOK, UpperAt, TightAt
    <3>2. /\ ~Greater(Exact(Top), bound)
          /\ ~Greater(curCost, Exact(Top)) /\ ~Greater(Exact(Top), upper)
          /\ stage = "done" => curCost = Exact(Top) /\ upper = Exact(Top)
      BY <2>1 DEF UpperOK, CostsOK
    <3> QED  BY <3>1, <3>2 DEF ValuesSound, Arc, ExactAt
  <2>3. \A n \in DOMAIN feasibleValue :
          ~Greater(Times(Arc(n), feasibleValue[n]), Times(Arc(n), ExactAt(n)))
    BY <2>1 DEF LowerOK, LowerAt
  <2> QED  BY <2>2, <2>3 DEF BoundsEnclose, Arc, ExactAt
<1> QED  BY <1>1, AOInvariance, PTL

(* AssertionsMet: the assertions in AOStar.cpp and AnytimeAOStar.cpp never *)
(* fail.  The node at the front of revise_set waits for nobody, a root     *)
(* that is not solved leaves tips to expand, a tip is not solved and has   *)
(* not been expanded by a dive.                                            *)
THEOREM AssertionsMetHolds == AnytimeSpec => []AssertionsMet
<1>1. AOInv => AssertionsMet
  <2> SUFFICES ASSUME AOInv PROVE AssertionsMet
    OBVIOUS
  <2>1. GraphOK /\ WaitOK /\ ExpandedOK /\ StageOK /\ TipsOK
    BY DEF AOInv
  <2>2. \A e \in DOMAIN revise : Front(e) => revise[e] = 0
    BY <2>1, FrontZero
  <2>3. ASSUME ~Anytime PROVE AssertionsHold
    <3>1. ~repairNeeded /\ diveTips = {}
      BY <2>1, <2>3 DEF StageOK
    <3>2. stage = "choose" /\ ~solved[Top] => tips # {} /\ \A n \in tips : ~solved[n]
      BY <2>1, <3>1 DEF TipsOK, TipOK
    <3> QED  BY <2>2, <3>2 DEF AssertionsHold
  <2>4. stage = "feasible" /\ ~repairNeeded => solved[Top] \/ tips # {}
    BY <2>1 DEF TipsOK
  <2>5. ASSUME stage \in {"choose", "best"}, NEW n \in expanded, kids[n] = {} PROVE solved[n]
    BY <2>1, <2>5 DEF ExpandedOK, WaitOK
  <2>6. ASSUME stage = "best" PROVE (tips = {} <=> solved[Top]) /\ tips \cap expanded = {}
    BY <2>1, <2>5, <2>6 DEF TipsOK, TipOK, StageOK
  <2>7. ASSUME stage = "choose" PROVE diveTips \cap expanded = {}
    BY <2>1, <2>5, <2>7 DEF TipsOK
  <2> QED  BY <2>2, <2>3, <2>4, <2>6, <2>7 DEF AssertionsMet
<1> QED  BY <1>1, AOInvariance, PTL
=============================================================================
