------------------------------ MODULE AOModel ------------------------------
(***************************************************************************)
(* What an AND/OR search runs on: a pseudo tree with its contexts          *)
(* (Pseudotree.cpp, Pseudotree.h), the caching scheme derived from it, the *)
(* functions of the problem seen as arc labels, the mini-bucket bound seen *)
(* as a table, and the nodes of the search space.                          *)
(*                                                                         *)
(* A search node is the path that leads to it: an OR node ends in its      *)
(* variable, its AND children append a value.  The path of a node fixes    *)
(* its parent and the assignment of its ancestors, as m_parent does.       *)
(***************************************************************************)
EXTENDS Costs, Sequences

CONSTANTS
  Vars,         \* the variables, the artificial root variable included
  Root,         \* the artificial (dummy) root variable
  PtChildren,   \* [Vars -> Seq(Vars)], children in the pseudo tree, in order
  Dom,          \* [Vars -> Nat \ {0}], domain sizes
  Ctx,          \* [Vars -> SUBSET Vars], full OR contexts
  CacheLimit,   \* the option cbound, or NoLimit
  Problems      \* the set of problems: records [label, bound, opt, known]

ASSUME ModelAssumption ==
  /\ Root \in Vars
  /\ PtChildren \in [Vars -> Seq(Vars)]
  /\ \A x \in Vars : \A i, j \in DOMAIN PtChildren[x] :
        PtChildren[x][i] = PtChildren[x][j] => i = j
  /\ Dom \in [Vars -> Nat \ {0}]
  /\ Ctx \in [Vars -> SUBSET Vars]

ChildSet(x) == {PtChildren[x][i] : i \in DOMAIN PtChildren[x]}

NoLimit == -1

ASSUME LimitAssumption == CacheLimit \in Nat \cup {NoLimit}

(* The shape Pseudotree::build gives the tree: a variable hangs below the  *)
(* context variable that is eliminated next after it, and those without a  *)
(* context below the artificial root, which is added last and above all.   *)
ASSUME PseudotreeAssumption ==
  /\ Ctx[Root] = {}
  /\ \A y \in Vars : Root \notin ChildSet(y)
  /\ \A x, y \in Vars : x \in ChildSet(y) =>
       /\ \A z \in Vars : x \in ChildSet(z) => z = y
       /\ IF y = Root THEN Ctx[x] = {} ELSE y \in Ctx[x]
       /\ Ctx[x] \subseteq Ctx[y] \cup {y}
  /\ \A S \in SUBSET Vars :            \* all hang below the root
       Root \in S /\ (\A y \in S : ChildSet(y) \subseteq S) => S = Vars

PtParent(x) == CHOOSE y \in Vars : x \in ChildSet(y)
Values(x)   == 0 .. Dom[x] - 1

Depth[x \in Vars] == IF x = Root THEN -1 ELSE Depth[PtParent(x)] + 1

-----------------------------------------------------------------------------
(* Caching contexts.  With a limit smaller than the context, a table keeps *)
(* only the CacheLimit closest context variables, and the next one up is   *)
(* the variable at which the table has to be reset.                        *)

CloserInCtx(x, y) == {z \in Ctx[x] : Depth[z] > Depth[y]}

CacheCtx(x) ==
  IF CacheLimit = NoLimit \/ CacheLimit >= Cardinality(Ctx[x]) THEN Ctx[x]
  ELSE {y \in Ctx[x] : Cardinality(CloserInCtx(x, y)) < CacheLimit}

ResetListEmpty(y) == {}     \* no table is ever reset

ResetList(y) ==
  {x \in Vars : /\ y \in Ctx[x]
                /\ CacheLimit # NoLimit /\ CacheLimit < Cardinality(Ctx[x])
                /\ Cardinality(CloserInCtx(x, y)) = CacheLimit}

(* doCaching looks at a table only below the second level, and only if the *)
(* context does not grow from the parent variable to this one.             *)
HasCacheTable(x) ==
  /\ Depth[x] >= 1
  /\ Cardinality(Ctx[x]) <= Cardinality(Ctx[PtParent(x)])

-----------------------------------------------------------------------------
(* Nodes. *)

NULL     == <<>>
RootNode == <<Root>>

IsOR(p)  == Len(p) % 2 = 1
IsAND(p) == Len(p) > 0 /\ Len(p) % 2 = 0

Var(p)    == IF IsOR(p) THEN p[Len(p)] ELSE p[Len(p) - 1]
Val(p)    == p[Len(p)]
Parent(p) == SubSeq(p, 1, Len(p) - 1)
Prefix(p, k) == SubSeq(p, 1, k)

(* p is q or an ancestor of q *)
Above(p, q) == Len(p) <= Len(q) /\ SubSeq(q, 1, Len(p)) = p

(* the assignment along a path, and its restriction to a set of variables *)
PathValue(p, y) == LET i == CHOOSE j \in 1 .. Len(p) - 1 : j % 2 = 1 /\ p[j] = y
                   IN  p[i + 1]
Restriction(asg, S) == [y \in S |-> asg[y]]
PathRestriction(p, S) == [y \in S |-> PathValue(p, y)]

-----------------------------------------------------------------------------
(* A problem P.  P.label[x] maps an assignment of x and its context to the *)
(* cost of the functions that x completes (getLabelAll); P.bound[x] maps   *)
(* an assignment of the context of x to the heuristic's upper bound on the *)
(* subproblem below x (getHeurAll adds those of the children).  P.opt[x]   *)
(* are the exact values, for the properties only, and P.known the values   *)
(* of a solution that may be known before the search.                      *)

Label(P, x, asg) == P.label[x][Restriction(asg, Ctx[x] \cup {x})]
Bound(P, x, asg) == P.bound[x][Restriction(asg, Ctx[x])]

HeurOf(P, x, asg) == Product([y \in ChildSet(x) |-> Bound(P, y, asg)])

ExactOR(P, p)  == P.opt[Var(p)][PathRestriction(p, Ctx[Var(p)])]
ExactAND(P, p) ==
  Product([y \in ChildSet(Var(p)) |-> P.opt[y][PathRestriction(p, Ctx[y])]])
Optimum(P) == ExactOR(P, RootNode)

Assignments(S) ==
  {c \in [S -> UNION {Values(y) : y \in S}] : \A y \in S : c[y] \in Values(y)}

With(x, c, v) == [y \in Ctx[x] \cup {x} |-> IF y = x THEN v ELSE c[y]]

(* The labels are costs, the exact values are those of eliminating one     *)
(* variable after the other, and a solution known is none too good.        *)
ASSUME ProblemAssumption ==
  \A P \in Problems :
    /\ \A x \in Vars :
         /\ \A a \in Assignments(Ctx[x] \cup {x}) : P.label[x][a] \in Known
         /\ \A c \in Assignments(Ctx[x]) :
              /\ P.opt[x][c] \in Known
              /\ P.opt[x][c] = Maximum([v \in Values(x) |->
                   Times(P.label[x][With(x, c, v)],
                         Product([y \in ChildSet(x) |->
                           P.opt[y][Restriction(With(x, c, v), Ctx[y])]]))])
    /\ \A k \in P.known : k \in Cost /\ ~Greater(k, Optimum(P))

(* The label of the artificial root, the global constant, is feasible: the *)
(* functions that evidence leaves without a variable do not rule it out.   *)
ASSUME ConstantAssumption ==
  \A P \in Problems : \A a \in Assignments(Ctx[Root] \cup {Root}) :
    P.label[Root][a] # ELEM_ZERO

(* The heuristic is admissible (the module MiniBuckets shows where it comes *)
(* from and checks that it is).                                            *)
ASSUME BoundAssumption ==
  \A P \in Problems : \A x \in Vars : \A c \in Assignments(Ctx[x]) :
    P.bound[x][c] \in Known /\ ~Greater(P.opt[x][c], P.bound[x][c])
=============================================================================
