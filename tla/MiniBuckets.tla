---------------------------- MODULE MiniBuckets ----------------------------
(***************************************************************************)
(* The mini-bucket heuristic: MiniBucketElim::build over the pseudo tree   *)
(* that VariableOrder has found, with the bounded buckets of MiniBucket    *)
(* and, as an option, moment matching.  A function is a record of its id,  *)
(* its scope and its table; what a bucket sends up the tree is one too.    *)
(***************************************************************************)
EXTENDS VariableOrder, Factors

CONSTANTS
  IBounds,      \* the i-bounds to explore
  MatchModes    \* the values of the option match

ASSUME BucketAssumption == IBounds \subseteq Nat /\ MatchModes \subseteq BOOLEAN

(* A table has a cost for every assignment of its scope.                   *)
ASSUME TablesAssumption ==
  \A p \in Instances :
    /\ p.functions \in Seq(ToSet(p.functions))
    /\ \A i \in DOMAIN p.functions :
         LET f == p.functions[i]
         IN  DOMAIN f.val = Assignments(f.scope) /\ \A a \in DOMAIN f.val : f.val[a] \in Known

VARIABLES
  ibound, match,   \* m_ibound and the option
  todo,            \* the variables whose buckets are still to be processed
  bucket,          \* the one whose bucket is being processed
  unplaced,        \* its functions that are in no mini-bucket yet
  minibuckets,     \* its mini-buckets
  shifts,          \* what moment matching adds to each of them
  sent,            \* the messages: what buckets have sent up the tree
  augmented,       \* m_augmented, a set of messages for every variable
  intermediate,    \* m_intermediate
  globalUB         \* m_globalUB

working    == <<bucket, unplaced, minibuckets, shifts>>
bucketVars == <<ibound, match, todo, working, sent, augmented, intermediate, globalUB>>

TreeNodes == Vars \cup {Dummy}

(* The name of a function: <<x, i>> is the message from the i-th           *)
(* mini-bucket of x, <<GIVEN, i>> the i-th function of the problem.        *)
GIVEN == -1
FunctionAt(n) == IF n[1] = GIVEN THEN problem.functions[n[2]] ELSE sent[n]
Family(names) == [n \in names |-> FunctionAt(n)]
ScopeOf(names) == JointScope(Family(names))

-----------------------------------------------------------------------------
(* Partitioning the functions of a bucket. *)

AllowsTight(b, n) ==       \* the bucket's own variable counts against the i-bound
  LET joined == ScopeOf(b \cup {n})
  IN  joined = ScopeOf(b) \/ Cardinality(joined) <= ibound

AllowsFunction(b, n) ==
  LET joined == ScopeOf(b \cup {n})
  IN  joined = ScopeOf(b) \/ Cardinality(joined) <= ibound + 1

ScopeIsLarger(f, g) ==
  \/ Cardinality(f.scope) > Cardinality(g.scope)
  \/ Cardinality(f.scope) = Cardinality(g.scope) /\ f.id > g.id

FirstFit(buckets, n) ==
  LET fits == {i \in DOMAIN buckets : AllowsFunction(buckets[i], n)}
  IN  IF fits = {} THEN Append(buckets, {n})
      ELSE [buckets EXCEPT ![Min(fits)] = @ \cup {n}]

Given(x)     == {<<GIVEN, i>> : i \in FunctionsOf(best, x)}
Collected(x) == Given(x) \cup augmented[x]

-----------------------------------------------------------------------------
(* Messages. *)

SharedScope(buckets) ==
  {y \in ScopeOf(buckets[1]) : \A i \in DOMAIN buckets : y \in ScopeOf(buckets[i])}

MaxMarginals(buckets) ==
  [i \in DOMAIN buckets |-> Eliminated(Family(buckets[i]), 0, SharedScope(buckets))]

(* What shifts a bucket from its own max-marginal to their average, which  *)
(* leaves the product of all as it was.                                    *)
Shifts(marginals, scope) ==
  [i \in DOMAIN marginals |->
     [id |-> 0, scope |-> scope,
      val |-> [a \in Assignments(scope) |->
                 Minus(Root(ProductOf(marginals, a), Len(marginals)), Value(marginals[i], a))]]]

Messages(x) ==
  [i \in DOMAIN minibuckets |->
     Eliminated(Joined(Family(minibuckets[i]), shifts[i]), -x, ScopeOf(minibuckets[i]) \ {x})]

(* The closest ancestor in the scope of a message, else the root. *)
Target(x, m) ==
  LET inScope == Ancestors(best, x) \cap m.scope
  IN  IF inScope = {} THEN Dummy
      ELSE CHOOSE y \in inScope : inScope \ {y} \subseteq Ancestors(best, y)

PassedOn(x, m) == {y \in Ancestors(best, x) : Target(x, m) \in Ancestors(best, y)}

-----------------------------------------------------------------------------
(* findDfsOrder, backwards: a bucket comes after all buckets below it, and *)
(* what hangs on an earlier child comes first.  orderChildren sorts by     *)
(* width, then height (the default order).                                 *)
SubWidth(x)  == Max({Cardinality(best.ctx[y]) : y \in Subtree(best, x)})
SubHeight(x) == Max({Cardinality(Ancestors(best, y)) : y \in Subtree(best, x)})
Position(x)  == CHOOSE i \in DOMAIN best.order : best.order[i] = x

ChildLess(x, y) ==
  \/ SubWidth(x) < SubWidth(y)
  \/ SubWidth(x) = SubWidth(y) /\ SubHeight(x) < SubHeight(y)
  \/ SubWidth(x) = SubWidth(y) /\ SubHeight(x) = SubHeight(y) /\ Position(x) < Position(y)

Siblings(x) == ChildrenOf(best, best.parent[x])

IsNextBucket(x) ==
  /\ x \in todo /\ Subtree(best, x) \cap todo = {x}
  /\ \A y \in ({x} \cup Ancestors(best, x)) \ {Dummy} :
       \A z \in (Siblings(y) \cap todo) \ {y} : ChildLess(y, z)

BucketsInit ==
  /\ ibound = 0 /\ match = FALSE
  /\ todo = {} /\ bucket = UNKNOWN /\ unplaced = {} /\ minibuckets = <<>> /\ shifts = <<>>
  /\ sent = <<>> /\ augmented = <<>> /\ intermediate = <<>> /\ globalUB = ELEM_ONE

(* The options are chosen where they are first read. *)
StartBuckets ==
  /\ stage = "ordered"
  /\ ibound' \in IBounds /\ match' \in MatchModes
  /\ stage' = "bucket"
  /\ todo' = TreeNodes
  /\ augmented' = [x \in TreeNodes |-> {}]
  /\ intermediate' = [x \in TreeNodes |-> {}] /\ sent' = <<>>
  /\ UNCHANGED <<problem, primal, workVars, best, orSearch, loopVars, working, globalUB>>

OpenBucket(x) ==
  /\ stage = "bucket" /\ IsNextBucket(x) /\ x # Dummy
  /\ bucket' = x /\ unplaced' = Collected(x) /\ minibuckets' = <<>>
  /\ stage' = "partition"
  /\ UNCHANGED <<problem, primal, workVars, best, orSearch, loopVars, ibound, match, todo,
                 shifts, sent, augmented, intermediate, globalUB>>

(* Functions are placed in the order of their scopes; std::sort may leave  *)
(* messages of one bucket in any order.                                    *)
PlaceFunction(n) ==
  /\ stage = "partition" /\ n \in unplaced
  /\ \A m \in unplaced : ~ScopeIsLarger(FunctionAt(m), FunctionAt(n))
  /\ minibuckets' = FirstFit(minibuckets, n)
  /\ unplaced' = unplaced \ {n}
  /\ UNCHANGED <<problem, primal, stage, workVars, best, orSearch, loopVars, ibound, match, todo,
                 bucket, shifts, sent, augmented, intermediate, globalUB>>

SHIFT == <<GIVEN, 0>>      \* the name of the shift in its mini-bucket

MatchMoments ==
  /\ stage = "partition" /\ unplaced = {}
  /\ IF match /\ Len(minibuckets) > 1
     THEN \E marginals \in {MaxMarginals(minibuckets)} :
            LET shift == Shifts(marginals, SharedScope(minibuckets))
            IN  shifts' = [i \in DOMAIN minibuckets |-> [n \in {SHIFT} |-> shift[i]]]
     ELSE shifts' = [i \in DOMAIN minibuckets |-> <<>>]
  /\ stage' = "send"
  /\ UNCHANGED <<problem, primal, workVars, best, orSearch, loopVars, ibound, match, todo,
                 bucket, unplaced, minibuckets, sent, augmented, intermediate, globalUB>>

SendMessages ==
  /\ stage = "send"
  /\ \E messages \in {Messages(bucket)} :
       LET new == {<<bucket, i>> : i \in DOMAIN messages}
       IN  /\ sent' = [n \in DOMAIN sent \cup new |->
                          IF n \in new THEN messages[n[2]] ELSE sent[n]]
           /\ augmented' = [y \in TreeNodes |->
                 augmented[y] \cup {n \in new : Target(bucket, messages[n[2]]) = y}]
           /\ intermediate' = [y \in TreeNodes |->
                 intermediate[y] \cup {n \in new : y \in PassedOn(bucket, messages[n[2]])}]
  /\ todo' = todo \ {bucket}
  /\ bucket' = UNKNOWN /\ minibuckets' = <<>> /\ shifts' = <<>>
  /\ stage' = "bucket"
  /\ UNCHANGED <<problem, primal, workVars, best, orSearch, loopVars, ibound, match, unplaced,
                 globalUB>>

FunctionsWith(S) == {i \in DOMAIN problem.functions : problem.functions[i].scope \cap S # {}}

GlobalConstant ==
  ProductOf(Restrict(problem.functions, DOMAIN problem.functions \ FunctionsWith(Vars)), <<>>)

(* The bucket of the artificial root gives the bound on the whole problem, *)
(* from which the constant is taken out again.                             *)
ProcessRootBucket ==
  /\ stage = "bucket" /\ IsNextBucket(Dummy)
  /\ globalUB' = Minus(ProductOf(Family(Collected(Dummy)), <<>>), GlobalConstant)
  /\ todo' = {}
  /\ stage' = "built"
  /\ UNCHANGED <<problem, primal, workVars, best, orSearch, loopVars, ibound, match, working,
                 sent, augmented, intermediate>>

Buckets ==
  \/ StartBuckets \/ (\E x \in Vars : OpenBucket(x)) \/ (\E n \in unplaced : PlaceFunction(n))
  \/ MatchMoments \/ SendMessages \/ ProcessRootBucket

HeurOfNeighbours(x, a) == ProductOf(Family(augmented[x]), a)     \* no m_intermediate

(* getHeur(x): the bound on what is below x. *)
Heur(x, a) == ProductOf(Family(augmented[x] \cup intermediate[x]), a)

IsAccurate == best.width <= ibound

-----------------------------------------------------------------------------
(* Properties *)

(* The best completion of a by the variables in S, over all functions that *)
(* mention S.                                                              *)
BestCompletion(S, a) ==
  BestOver(Restrict(problem.functions, FunctionsWith(S)), a, S)

Optimum == Times(GlobalConstant, BestCompletion(Vars, <<>>))

ForEveryNode(rel(_, _)) ==
  \A x \in TreeNodes : \A a \in Assignments((Ancestors(best, x) \cup {x}) \ {Dummy}) :
    rel(Heur(x, a), BestCompletion(Subtree(best, x) \ {x}, a))

(* Whatever the partitioning, the matching and the path of the messages,   *)
(* the heuristic never underestimates what is below a node: the assumption *)
(* on which pruning in every search scheme rests (MiniBucketElim.cpp:      *)
(* 40-58, 168-346).                                                        *)
HeuristicAdmissible ==
  stage = "built" => ForEveryNode(LAMBDA h, exact : ~Greater(exact, h))

(* If the heuristic calls itself accurate, on which main() turns the       *)
(* search off, it is exact everywhere (MiniBucketElim.h:181-184).          *)
AccurateIsExact ==
  stage = "built" /\ IsAccurate => ForEveryNode(LAMBDA h, exact : h = exact)
=============================================================================
