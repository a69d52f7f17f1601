----------------------------- MODULE Lookahead -----------------------------
(***************************************************************************)
(* The look-ahead of the mini-bucket heuristic (MiniBucketElimLH and       *)
(* MBLHSubtree).  At an OR node the messages of the buckets close below it *)
(* are replaced by what exact elimination of those buckets would send for  *)
(* the assignment at hand.  The tables computed for one node may be used   *)
(* by the nodes below it.                                                  *)
(*                                                                         *)
(* Of the depth-first search the module keeps the order in which nodes are *)
(* generated, with or without rotation; whether a node is expanded or      *)
(* pruned is left open.                                                    *)
(***************************************************************************)
EXTENDS MiniBuckets

CONSTANTS LookaheadDepths, ReuseModes, AlwaysModes    \* values of the options

ASSUME LookaheadAssumption ==
  /\ LookaheadDepths \subseteq Nat \ {0}
  /\ ReuseModes \subseteq BOOLEAN /\ AlwaysModes \subseteq BOOLEAN

VARIABLES
  reuse, always,   \* lookahead_reuse_identical_subtrees, lookahead_always_compute
  subtreeOf,       \* _SubtreeNodes of every variable
  outputs,         \* the output functions in it, once they are computed
  valid,           \* the subtrees with _IsValidForCurrentContext
  assignment,      \* m_assignment
  open,            \* AND nodes still to be handled, each with its path
  evaluated        \* what getHeurAll has returned for the last OR nodes

lookVars == <<reuse, always, subtreeOf, outputs, valid, assignment, open, evaluated>>
vars     == <<orderVars, bucketVars, lookVars>>

UNASSIGNED == -1

-----------------------------------------------------------------------------
(* Which buckets a look-ahead replaces.                                    *)

Over(x)        == Ancestors(best, x)
Distance(x, y) == Cardinality(Over(y)) - Cardinality(Over(x))
SentBy(x)      == {n \in DOMAIN sent : n[1] = x}
Split          == {x \in Vars : Cardinality(SentBy(x)) > 1}

(* computeLocalErrorTables samples the error of every bucket that is split *)
(* and tells which are worth while; without pruning all are.               *)
ErrorSets == SUBSET Split \cup {TreeNodes}

(* A bucket is passed over if the nearest with an error is out of reach.   *)
WorthWhile(x, depth, errors) ==
  {y \in Vars : x \in Over(y) /\ Distance(x, y) <= depth /\
     \A z \in (Over(y) \cup {y}) \ (Over(x) \cup {x}) :
       z \in errors \/ \E w \in errors : z \in Over(w) /\ Distance(x, w) <= depth}

LhChildren(x, u) == ChildrenOf(best, u) \cap subtreeOf[x]

(* The nearest ancestors in a row whose subtrees contain that of x: the    *)
(* topmost of them computes the tables, x itself if there is none.         *)
Includes(p, x) == x \in subtreeOf[p] /\ {w \in subtreeOf[p] : x \in Over(w)} = subtreeOf[x]
Earlier(x)     == {p \in Over(x) : \A q \in Over(x) : q = p \/ p \in Over(q) => Includes(q, x)}
OwnerOf(x)     ==
  IF ~reuse \/ Earlier(x) = {} THEN x
  ELSE CHOOSE p \in Earlier(x) : Earlier(x) \ {p} \subseteq {q \in TreeNodes : p \in Over(q)}

-----------------------------------------------------------------------------
(* The functions that take part: not what a bucket in the subtree below u  *)
(* has sent.                                                               *)
SentByNobody(x, u, n)  == FALSE
SentWithin(x, u, n)    == n[1] \in subtreeOf[x] /\ u \in Over(n[1])
FromOutside(x, u, names) == {n \in names : ~SentWithin(x, u, n)}
Own(x, u)   == Given(u) \cup FromOutside(x, u, augmented[u])

(* The tables of the children, under names that no message has.            *)
TablesOf(children, table) == [n \in {<<w, 0>> : w \in children} |-> table[n[1]]]

(* A table that depends on nothing above x is computed once.  Its own      *)
(* functions do not tell: those of the children have lost what was given.  *)
IndependentAlone(x, u) == ScopeOf(Own(x, u)) \cap Over(x) = {}
Independent(x, u) ==
  \A w \in {u} \cup {y \in subtreeOf[x] : u \in Over(y)} : ScopeOf(Own(x, w)) \cap Over(x) = {}

Stays(x, u) == u \in DOMAIN outputs[x] /\ Independent(x, u)

(* ComputeOutputFunction, for all of the subtree of x from the leaves up.  *)
ComputedOutputs(x, asg) ==
  LET given == [y \in Over(x) \ {Dummy} |-> asg[y]]
      table[u \in subtreeOf[x]] ==
        LET fs   == Joined(Family(Own(x, u)), TablesOf(LhChildren(x, u), table))
            keep == JointScope(fs) \ (Over(x) \cup {u})
        IN  IF Stays(x, u) THEN outputs[x][u]
            ELSE [id |-> -u, scope |-> keep,
                  val |-> Tabulated([b \in Assignments(keep) |-> BestOver(fs, Joined(given, b), {u})])]
  IN  [u \in subtreeOf[x] |-> table[u]]

GetHeuristic(x, tables, a) ==
  ProductOf(Joined(Family(FromOutside(x, x, augmented[x] \cup intermediate[x])),
                   TablesOf(LhChildren(x, x), tables)), a)

-----------------------------------------------------------------------------
(* assignCostsOR for the OR nodes of xs, which are children of one AND     *)
(* node or the root: noteOrNodeExpansionBeginning computes tables or, as   *)
(* chance decides, declares them invalid, and getHeurAll uses them.  The   *)
(* enumeration of a table writes into the assignment of the search.        *)
AssignCosts(xs, asg) ==
  \E own \in {{x \in xs : OwnerOf(x) = x /\ subtreeOf[x] # {}}} :
  \E computed \in (IF always THEN {own} ELSE SUBSET own) :
    /\ outputs' = [x \in TreeNodes |->
                     IF x \in computed THEN ComputedOutputs(x, asg) ELSE outputs[x]]
    /\ valid' = (valid \ own) \cup computed
    /\ assignment' = [y \in Vars |->
          IF \E x \in computed : y \in subtreeOf[x] /\ ~Stays(x, y) THEN DomainSize - 1 ELSE asg[y]]
    /\ evaluated' = {
          LET path == [y \in Over(x) \ {Dummy} |-> asg[y]]
              looks == subtreeOf[x] # {} /\ OwnerOf(x) \in valid'
          IN  [var |-> x, path |-> path,
               h |-> [v \in Values |->
                        IF looks THEN GetHeuristic(x, outputs'[OwnerOf(x)], path @@ (x :> v))
                        ELSE Heur(x, path @@ (x :> v))]] : x \in xs}

LookaheadInit ==
  /\ reuse = FALSE /\ always = FALSE
  /\ subtreeOf = <<>> /\ outputs = <<>> /\ valid = {}
  /\ assignment = <<>> /\ open = {} /\ evaluated = {}

SetupLookahead ==
  /\ stage = "built"
  /\ reuse' \in ReuseModes /\ always' \in AlwaysModes
  /\ \E depth \in LookaheadDepths, errors \in ErrorSets :
       subtreeOf' = [x \in TreeNodes |-> WorthWhile(x, depth, errors)]
  /\ outputs' = [x \in TreeNodes |-> <<>>] /\ valid' = {}
  /\ assignment' = [x \in Vars |-> UNASSIGNED]
  /\ stage' = "root"
  /\ UNCHANGED <<problem, primal, workVars, best, orSearch, loopVars, bucketVars, open, evaluated>>

(* finalizeHeuristic *)
StartSearch ==
  /\ stage = "root"
  /\ AssignCosts({Dummy}, assignment)
  /\ open' = {[var |-> Dummy, path |-> <<>>]}
  /\ stage' = "search"
  /\ UNCHANGED <<problem, primal, workVars, best, orSearch, loopVars, bucketVars,
                 reuse, always, subtreeOf>>

(* Depth first: nothing below the siblings of n is left. *)
NextNode(n) == stage = "search" /\ n \in open /\ \A m \in open : n.var \notin Over(m.var)

Recorded(n) == [y \in Vars |-> IF y = n.var THEN n.path[y] ELSE assignment[y]]

Expand(n) ==
  /\ NextNode(n)
  /\ \E xs \in {ChildrenOf(best, n.var)} :
       /\ AssignCosts(xs, Recorded(n))
       /\ open' = (open \ {n}) \cup
            {[var |-> x, path |-> n.path @@ (x :> v)] : x \in xs, v \in Values}
  /\ UNCHANGED <<problem, primal, stage, workVars, best, orSearch, loopVars, bucketVars,
                 reuse, always, subtreeOf>>

(* An OR node that is pruned or answered by the cache is one whose         *)
(* children are all pruned.                                                *)
Prune(n) ==
  /\ NextNode(n) /\ n.var # Dummy
  /\ open' = open \ {n}
  /\ assignment' = Recorded(n)
  /\ evaluated' = {}
  /\ UNCHANGED <<problem, primal, stage, workVars, best, orSearch, loopVars, bucketVars,
                 reuse, always, subtreeOf, outputs, valid>>

Init == stage = "ordering" /\ OrderInit /\ BucketsInit /\ LookaheadInit

Next ==
  \/ (Ordering /\ UNCHANGED <<bucketVars, lookVars>>)
  \/ (Buckets /\ UNCHANGED lookVars)
  \/ SetupLookahead \/ StartSearch
  \/ (\E n \in open : Expand(n) \/ Prune(n))

Spec == Init /\ [][Next]_vars

-----------------------------------------------------------------------------
(* Properties *)

(* Whatever was computed for which assignment before, and by which node,   *)
(* look-ahead is never below the best completion of the path, and never    *)
(* above the heuristic that it refines (MiniBucketElimLH.cpp:649-717,      *)
(* 843-846: a larger value is worth a warning).                            *)
LookaheadSound ==
  \A e \in evaluated : \A v \in Values :
    LET a == e.path @@ (e.var :> v)
    IN  /\ ~Greater(BestCompletion(Subtree(best, e.var) \ {e.var}, a), e.h[v])
        /\ ~Greater(e.h[v], Heur(e.var, a))
=============================================================================
