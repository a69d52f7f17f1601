------------------------ MODULE DynamicMaster_proofs ------------------------
(* For any number of subproblems, tokens and faults: nothing that was cut   *)
(* off is outstanding when the propagator ends, and no handler goes on with *)
(* a job that has not been submitted.  The two queues, the propagator and   *)
(* the handlers never hold the same item twice, so that every item is       *)
(* propagated at most once and gives back one token.                        *)
EXTENDS DynamicMaster, CommonLemmas

Steps == {"take", "expand", "leaf", "extern", "finish",
          "get", "reap", "join", "propagate", "more", "check", "active",
          "wait", "collect", "encode", "submit", "notify", "joinAll", "done"}

Typed ==
  /\ faults \in FaultSets
  /\ total \in Items /\ made \in 0 .. total /\ externs \subseteq Made
  /\ (pc["search"] \in {"take", "expand"} => made < total)
  /\ pc \in [Workers -> Steps]
  /\ lock \in [Mutexes -> Workers \cup {"none"}]
  /\ propagated \in [Items -> Nat]
  /\ handler \in [Items -> {"none", "queue", "sleep", "asleep", "condor", "push", "ended"}]
  /\ exited \in BOOLEAN

(* What the search has announced, what the propagator has concluded from it *)
(* and where each subproblem is meanwhile.                                  *)
Accounted ==
  /\ (searchDone => pc["search"] = "done")
  /\ (pc["prop"] = "active" => searchDone)
  /\ ("search" \in asleep => pc["search"] = "take")
  /\ ("prop" \in interrupted => sigHandler # "idle")
  /\ (pc["prop"] = "done" /\ sigHandler = "idle" => searchDone)
  /\ ExternsComplete
  /\ ExternsInFlight

(* A job is in the queue, in the engine's batch or with Condor; while the   *)
(* engine submits, nobody can add to the queue.                             *)
Lossless == faults \cap {"submit", "spurious"} = {}
JobsKept ==
  /\ pc["engine"] \in {"encode", "submit", "notify"} =>
        lock["condorQueue"] = "engine" /\ condorQueue = {}
  /\ (pc["engine"] = "notify" => batch = {})
  /\ Lossless =>
       \A i \in Items :
         /\ handler[i] \in {"sleep", "asleep"} => i \in condorQueue \cup batch \cup submitted
         /\ handler[i] = "asleep" /\ i \notin waitsForJob => i \in submitted

(* The fields the invariants speak of keep their types.                     *)
THEOREM Typing == Spec => []Typed
<1> USE BoundsAssumption, ThreadsAssumption, FaultsAssumption DEF Typed, Items, Made
<1>1. Init => Typed
  <2> SUFFICES ASSUME Init PROVE Typed
    OBVIOUS
  <2>1. pc \in [Workers -> Steps]
    BY DEF Init, Workers, Steps
  <2>2. lock \in [Mutexes -> Workers \cup {"none"}]
    BY DEF Init
  <2>3. total \in Nat /\ 0 \in 0 .. total
    BY DEF Init
  <2>4. propagated \in [Items -> Nat]
    BY DEF Init
  <2>5. handler \in [Items -> {"none", "queue", "sleep", "asleep", "condor", "push", "ended"}]
    BY DEF Init
  <2>6. total > 0
    BY DEF Init
  <2> QED
    BY <2>1, <2>2, <2>3, <2>4, <2>5, <2>6 DEF Init
<1>2. Typed /\ [Next]_vars => Typed'
  <2> SUFFICES ASSUME Typed, [Next]_vars PROVE Typed'
    OBVIOUS
  <2> USE DEF searchVars, handlerVars, stopVars, At, HandlerAt, Free, Acquire, Release,
              Goto, Handler, Steps, Workers, Mutexes
  <2>1. CASE Search
    <3>1. CASE TakeToken
      BY <3>1 DEF TakeToken
    <3>2. CASE Expand
      <4>1. made + 1 \in 0 .. total /\ made' = made + 1
        BY <3>2 DEF Expand
      <4>2. externs' \subseteq 1 .. made'
        <5>1. externs \subseteq 1 .. made /\ made \in Nat
          OBVIOUS
        <5>2. externs' = externs \/ externs' = externs \cup {made + 1}
          BY <3>2 DEF Expand
        <5>3. \A x \in 1 .. made : x \in 1 .. (made + 1)
          BY <5>1
        <5>4. made + 1 \in 1 .. (made + 1)
          BY <5>1
        <5> QED
          BY <5>1, <5>2, <5>3, <5>4, <4>1, Zenon
      <4>3. pc' \in [Workers -> Steps] /\ pc'["search"] \in {"leaf", "extern"}
        BY <3>2 DEF Expand
      <4>4. lock' \in [Mutexes -> Workers \cup {"none"}]
        BY <3>2 DEF Expand
      <4> QED
        BY <3>2, <4>1, <4>2, <4>3, <4>4 DEF Expand
    <3>3. CASE PushLeaf
      BY <3>3 DEF PushLeaf
    <3>4. CASE StartHandler
      BY <3>4 DEF StartHandler
    <3>5. CASE FinishRound
      BY <3>5 DEF FinishRound, SearchIsDone
    <3> QED
      BY <2>1, <3>1, <3>2, <3>3, <3>4, <3>5 DEF Search
  <2>2. CASE Propagator
    <3>1. CASE GetItem
      BY <3>1 DEF GetItem
    <3>2. CASE ReapHandler
      BY <3>2 DEF ReapHandler
    <3>3. CASE JoinHandler
      BY <3>3 DEF JoinHandler
    <3>4. CASE PropagateItem
      <4>1. propagated' \in [Items -> Nat]
        <5>1. \A i \in Items : propagated[i] \in Nat /\ propagated[i] + 1 \in Nat
          OBVIOUS
        <5> QED
          BY <5>1, <3>4 DEF PropagateItem
      <4> QED
        BY <3>4, <4>1 DEF PropagateItem
    <3>5. CASE CheckMore
      BY <3>5 DEF CheckMore
    <3>6. CASE CheckDone
      BY <3>6 DEF CheckDone
    <3>7. CASE CheckActive
      BY <3>7 DEF CheckActive
    <3> QED
      BY <2>2, <3>1, <3>2, <3>3, <3>4, <3>5, <3>6, <3>7 DEF Propagator
  <2>3. CASE Engine
    <3>1. CASE AwaitQueue
      BY <3>1 DEF AwaitQueue
    <3>2. CASE Collect
      BY <3>2 DEF Collect, CloseBatch
    <3>3. CASE EncodeJobs
      BY <3>3 DEF EncodeJobs
    <3>4. CASE Submit
      BY <3>4 DEF Submit
    <3>7. CASE GiveUp
      BY <3>7 DEF GiveUp
    <3>8. CASE NotifyHandlers
      BY <3>8 DEF NotifyHandlers
    <3>5. CASE InterruptEngine
      BY <3>5 DEF InterruptEngine
    <3>6. CASE JoinAll
      BY <3>6 DEF JoinAll
    <3> QED
      BY <2>3, <3>1, <3>2, <3>3, <3>4, <3>5, <3>6, <3>7, <3>8 DEF Engine
  <2>4. CASE Stop
    <3>1. CASE StopSearch \/ StopEngine \/ MainStopsEngine
      BY <3>1 DEF StopSearch, StopEngine, MainStopsEngine, SigStep
    <3>2. ASSUME NEW t \in Workers, InterruptLoop(t) PROVE Typed'
      BY <3>2 DEF InterruptLoop
    <3> QED
      BY <2>4, <3>1, <3>2 DEF Stop
  <2>5. ASSUME NEW i \in Items, HandlerOf(i) PROVE Typed'
    <3>1. CASE QueueJob(i) \/ AwaitJob(i) \/ Woken(i) \/ NoSuchJob(i)
      BY <3>1 DEF QueueJob, AwaitJob, Woken, NoSuchJob
    <3>2. CASE ReadSolution(i) \/ PushSolved(i)
      BY <3>2 DEF ReadSolution, PushSolved
    <3>3. CASE CutHandler(i)
      BY <3>3 DEF CutHandler
    <3> QED
      BY <2>5, <3>1, <3>2, <3>3 DEF HandlerOf
  <2>6. CASE Signal \/ SpuriousWakeup
    BY <2>6 DEF Signal, SigStep, SpuriousWakeup
  <2>7. CASE UNCHANGED vars
    BY <2>7 DEF vars
  <2> QED
    BY <2>1, <2>2, <2>3, <2>4, <2>5, <2>6, <2>7 DEF Next
<1> QED
  BY <1>1, <1>2, PTL DEF Spec

-----------------------------------------------------------------------------
(* A step of the propagator or of the search keeps every subproblem in      *)
(* activeThreads, in the propagator's hands or behind it; the others leave  *)
(* these alone.                                                             *)
LEMMA AccountedStep == Typed /\ Accounted /\ [Next]_vars => Accounted'
<1> SUFFICES ASSUME Typed, Accounted, [Next]_vars PROVE Accounted'
  OBVIOUS
<1> USE DEF Accounted, ExternsComplete, ExternsInFlight, searchVars, handlerVars,
            stopVars, At, HandlerAt, Goto, Handler, Workers, Steps
<1>0. /\ pc \in [Workers -> Steps] /\ propagated \in [Items -> Nat] /\ made \in Nat
      /\ total \in Items /\ \A i \in externs : i \in Items /\ i \in Nat /\ i <= made
      /\ (pc["search"] \in {"take", "expand"} => made < total)
  BY BoundsAssumption DEF Typed, Items, Made
<1>1. CASE Search
  <2>1. CASE TakeToken
    BY <1>0, <2>1 DEF TakeToken
  <2>2. CASE Expand
    <3>1. pc'["prop"] = pc["prop"] /\ pc'["search"] \in {"leaf", "extern"}
      BY <1>0, <2>2 DEF Expand
    <3>2. externs' = externs \/ (externs' = externs \cup {made'} /\ pc'["search"] = "extern")
      BY <1>0, <2>2 DEF Expand
    <3> QED
      BY <1>0, <2>2, <3>1, <3>2 DEF Expand
  <2>3. CASE PushLeaf
    BY <1>0, <2>3 DEF PushLeaf, WakePropagator
  <2>4. CASE StartHandler
    BY <1>0, <2>4 DEF StartHandler, Entered
  <2>5. CASE FinishRound
    BY <1>0, <2>5 DEF FinishRound
  <2> QED
    BY <1>1, <2>1, <2>2, <2>3, <2>4, <2>5 DEF Search
<1>2. CASE Propagator
  <2>1. CASE GetItem
    BY <1>0, <2>1 DEF GetItem
  <2>2. CASE ReapHandler
    BY <1>0, <2>2 DEF ReapHandler
  <2>3. CASE JoinHandler
    BY <1>0, <2>3 DEF JoinHandler
  <2>4. CASE PropagateItem
    <3>1. pc' = [pc EXCEPT !["prop"] = "more"]
      BY <2>4 DEF PropagateItem
    <3>2. \A i \in Items : propagated'[i] >= propagated[i] /\ (i = item => propagated'[i] > 0)
      BY <1>0, <2>4 DEF PropagateItem
    <3>3. \A i \in Items : propagated[i] > 0 => propagated'[i] > 0
      BY <1>0, <2>4 DEF PropagateItem
    <3> QED
      BY <1>0, <2>4, <3>1, <3>2, <3>3 DEF PropagateItem
  <2>5. CASE CheckMore
    BY <1>0, <2>5 DEF CheckMore
  <2>6. CASE CheckDone
    BY <1>0, <2>6 DEF CheckDone
  <2>7. CASE CheckActive
    BY <1>0, <2>7 DEF CheckActive, AllDone
  <2> QED
    BY <1>2, <2>1, <2>2, <2>3, <2>4, <2>5, <2>6, <2>7 DEF Propagator
<1>3. CASE Engine
  <2>1. pc'["search"] = pc["search"] /\ pc'["prop"] = pc["prop"]
    BY <1>0, <1>3 DEF Engine, AwaitQueue, Collect, EncodeJobs, Submit, GiveUp,
                      NotifyHandlers, InterruptEngine, JoinAll
  <2>2. UNCHANGED <<searchVars, searchDone, activeThreads, item, propagated,
                    interrupted, sigHandler>>
    BY <1>3 DEF Engine, AwaitQueue, Collect, EncodeJobs, Submit, GiveUp,
                NotifyHandlers, InterruptEngine, JoinAll
  <2>3. asleep' \subseteq asleep \cup {"engine"}
    BY <1>3 DEF Engine, AwaitQueue, Collect, EncodeJobs, Submit, GiveUp,
                NotifyHandlers, InterruptEngine, JoinAll
  <2> QED
    BY <2>1, <2>2, <2>3
<1>4. CASE Stop
  <2>1. CASE StopSearch \/ StopEngine
    BY <1>0, <2>1 DEF StopSearch, StopEngine, SigStep
  <2>2. CASE MainStopsEngine
    BY <1>0, <2>2 DEF MainStopsEngine, BothJoined
  <2>3. ASSUME NEW t \in Workers, InterruptLoop(t) PROVE Accounted'
    BY <1>0, <2>3 DEF InterruptLoop
  <2> QED
    BY <1>4, <2>1, <2>2, <2>3 DEF Stop
<1>5. ASSUME NEW i \in Items, HandlerOf(i) PROVE Accounted'
  <2>1. UNCHANGED <<searchVars, searchDone, activeThreads, item, propagated,
                    interrupted, sigHandler, pc>>
    BY <1>5 DEF HandlerOf, QueueJob, AwaitJob, Woken, NoSuchJob, ReadSolution,
                PushSolved, CutHandler
  <2>2. asleep' \subseteq asleep
    BY <1>5 DEF HandlerOf, QueueJob, AwaitJob, Woken, NoSuchJob, ReadSolution,
                PushSolved, CutHandler, WakePropagator
  <2> QED
    BY <2>1, <2>2
<1>6. CASE Signal \/ SpuriousWakeup
  BY <1>6 DEF Signal, SigStep, SpuriousWakeup
<1>7. CASE UNCHANGED vars
  BY <1>7 DEF vars
<1> QED
  BY <1>1, <1>2, <1>3, <1>4, <1>5, <1>6, <1>7 DEF Next

(* Every reachable state accounts for all subproblems.                      *)
THEOREM Accounting == Spec => []Accounted
<1>1. Init => Accounted
  BY DEF Init, Accounted, ExternsComplete, ExternsInFlight
<1> QED
  BY <1>1, AccountedStep, Typing, PTL DEF Spec

(* No subproblem that was cut off is forgotten when the propagator ends:    *)
(* for any number of items and tokens and any faults.                       *)
THEOREM ExternsCompleteHolds == Spec => []ExternsComplete
<1>1. Accounted => ExternsComplete
  BY DEF Accounted
<1> QED
  BY <1>1, Accounting, PTL

(* The propagator finds the handler of every subproblem it takes, and sees  *)
(* all outstanding ones in activeThreads.                                   *)
THEOREM ExternsInFlightHolds == Spec => []ExternsInFlight
<1>1. Accounted => ExternsInFlight
  BY DEF Accounted
<1> QED
  BY <1>1, Accounting, PTL

(* While the engine submits a batch no other job can enter the queue, so    *)
(* its notification finds every waiting handler's job submitted.            *)
LEMMA JobsKeptStep == Typed /\ JobsKept /\ [Next]_vars => JobsKept'
<1> SUFFICES ASSUME Typed, JobsKept, [Next]_vars PROVE JobsKept'
  OBVIOUS
<1> USE DEF JobsKept, Lossless, searchVars, handlerVars, stopVars, At, HandlerAt, Free,
            Goto, Handler, Acquire, Release, Workers, Steps, Mutexes
<1>0. /\ pc \in [Workers -> Steps] /\ lock \in [Mutexes -> Workers \cup {"none"}]
      /\ handler \in [Items -> {"none", "queue", "sleep", "asleep", "condor", "push", "ended"}]
  BY DEF Typed
<1>1. CASE Search
  <2>1. CASE StartHandler
    BY <1>0, <2>1 DEF StartHandler
  <2>2. CASE TakeToken \/ PushLeaf
    BY <1>0, <2>2 DEF TakeToken, PushLeaf
  <2>3. CASE Expand
    BY <1>0, <2>3 DEF Expand
  <2>4. CASE FinishRound
    BY <1>0, <2>4 DEF FinishRound
  <2> QED
    BY <1>1, <2>1, <2>2, <2>3, <2>4 DEF Search
<1>2. CASE Propagator
  <2>1. UNCHANGED <<faults, condorQueue, batch, handlerVars>>
    BY <1>2 DEF Propagator, GetItem, ReapHandler, JoinHandler, PropagateItem, CheckMore,
                CheckDone, CheckActive
  <2>2. pc'["engine"] = pc["engine"] /\ lock'["condorQueue"] = lock["condorQueue"]
    BY <1>0, <1>2 DEF Propagator, GetItem, ReapHandler, JoinHandler, PropagateItem,
                      CheckMore, CheckDone, CheckActive
  <2> QED
    BY <2>1, <2>2
<1>3. CASE Engine
  <2>1. CASE AwaitQueue
    BY <1>0, <2>1 DEF AwaitQueue
  <2>2. CASE Collect
    BY <1>0, <2>2 DEF Collect, CloseBatch
  <2>3. CASE EncodeJobs
    BY <1>0, <2>3 DEF EncodeJobs
  <2>4. CASE Submit
    BY <1>0, <2>4 DEF Submit
  <2>5. CASE GiveUp
    BY <1>0, <2>5 DEF GiveUp
  <2>6. CASE NotifyHandlers
    <3>1. pc'["engine"] = "wait"
      BY <1>0, <2>6 DEF NotifyHandlers
    <3> QED
      BY <1>0, <2>6, <3>1 DEF NotifyHandlers
  <2>7. CASE InterruptEngine
    BY <1>0, <2>7 DEF InterruptEngine
  <2>8. CASE JoinAll
    BY <1>0, <2>8 DEF JoinAll
  <2> QED
    BY <1>3, <2>1, <2>2, <2>3, <2>4, <2>5, <2>6, <2>7, <2>8 DEF Engine
<1>4. CASE Stop
  <2>1. CASE StopSearch \/ StopEngine \/ MainStopsEngine
    BY <2>1 DEF StopSearch, StopEngine, SigStep, MainStopsEngine
  <2>2. ASSUME NEW t \in Workers, InterruptLoop(t) PROVE JobsKept'
    BY <1>0, <2>2 DEF InterruptLoop
  <2> QED
    BY <1>4, <2>1, <2>2 DEF Stop
<1>5. ASSUME NEW i \in Items, HandlerOf(i) PROVE JobsKept'
  <2>1. CASE QueueJob(i)
    BY <1>0, <2>1 DEF QueueJob
  <2>2. CASE AwaitJob(i)
    BY <1>0, <2>2 DEF AwaitJob
  <2>3. CASE Woken(i) \/ PushSolved(i)
    BY <1>0, <2>3 DEF Woken, PushSolved
  <2>4. CASE NoSuchJob(i)
    BY <1>0, <2>4 DEF NoSuchJob
  <2>5. CASE ReadSolution(i)
    BY <1>0, <2>5 DEF ReadSolution
  <2>6. CASE CutHandler(i)
    BY <1>0, <2>6 DEF CutHandler
  <2> QED
    BY <1>5, <2>1, <2>2, <2>3, <2>4, <2>5, <2>6 DEF HandlerOf
<1>6. CASE Signal \/ SpuriousWakeup
  BY <1>6 DEF Signal, SigStep, SpuriousWakeup
<1>7. CASE UNCHANGED vars
  BY <1>7 DEF vars
<1> QED
  BY <1>1, <1>2, <1>3, <1>4, <1>5, <1>6, <1>7 DEF Next

(* For any number of handlers: one that is past cond_jobsSubmitted has its  *)
(* job with Condor, unless a submission failed or the wake-up was spurious. *)
THEOREM GoesOnWithOwnJobHolds == Spec => []GoesOnWithOwnJob
<1>1. Init => JobsKept
  BY DEF Init, JobsKept
<1>2. JobsKept => GoesOnWithOwnJob
  BY DEF JobsKept, GoesOnWithOwnJob, Lossless
<1> QED
  BY <1>1, <1>2, JobsKeptStep, Typing, PTL DEF Spec

-----------------------------------------------------------------------------
(* What TypeOK says beyond Typed.                                           *)
QueueTypes ==
  /\ maxSubprob \in MaxSubprobs
  /\ allowedThreads \in Nat /\ searchDone \in BOOLEAN
  /\ leaves \in Seq(Leaves) /\ solved \in Seq(externs)
  /\ activeThreads \subseteq externs /\ condorQueue \subseteq externs
  /\ asleep \subseteq Workers
  /\ item \in 0 .. made /\ noPropagated \in Nat
  /\ batch \subseteq externs
  /\ waitsForJob \subseteq externs /\ submitted \subseteq externs
  /\ valued \subseteq externs
  /\ interrupted \subseteq Workers /\ cut \subseteq externs
  /\ sigHandler \in {"idle"} \cup Workers

(* The search has let go of item i: it is in a queue, or on its way there.  *)
Released(i) == i \in Made /\ (i = made => pc["search"] \notin {"leaf", "extern"})

(* Each item is in one place: in the hands of the search, of its handler,   *)
(* in one of the queues, in the hands of the propagator, or behind it.      *)
Custody ==
  /\ (pc["search"] = "extern" => made \in externs)
  /\ (pc["search"] = "leaf" => made \in Leaves)
  /\ NoRepeat(leaves) /\ NoRepeat(solved)
  /\ \A i \in Items : handler[i] # "none" => i \in externs /\ Released(i)
  /\ \A i \in Elements(leaves) : Released(i) /\ propagated[i] = 0
  /\ \A i \in Elements(solved) : handler[i] = "ended" /\ propagated[i] = 0
  /\ (pc["prop"] \in {"reap", "join"} => solved # << >> /\ item = Head(solved))
  /\ pc["prop"] = "propagate" =>
       /\ Released(item) /\ propagated[item] = 0
       /\ item \notin Elements(leaves) \cup Elements(solved)
       /\ item \in externs => handler[item] = "ended"
  /\ \A i \in Items : propagated[i] # 0 =>
       propagated[i] = 1 /\ Released(i) /\ (i \in externs => handler[i] = "ended")

-----------------------------------------------------------------------------
(* The items that exist are the first ones, and those that were cut off     *)
(* exist.                                                                   *)
LEMMA ItemsExist ==
  ASSUME Typed
  PROVE  /\ made \in Nat /\ Made \subseteq Items /\ externs \subseteq Items
         /\ Leaves \subseteq Items /\ made + 1 \notin Made
<1> QED  BY BoundsAssumption DEF Typed, Items, Made, Leaves

(* Where one step of the search leaves the items: the new one is in its     *)
(* hands until it is in the queue or has a handler.                         *)
LEMMA SearchKeepsCustody ==
  ASSUME Typed, QueueTypes, Custody, Search
  PROVE  Custody'
<1> USE DEF Goto, At, Workers, Steps, searchVars, handlerVars, stopVars
<1>0. /\ pc \in [Workers -> Steps] /\ made \in Nat
      /\ Made \subseteq Items /\ made + 1 \notin Made
      /\ Elements(leaves) \subseteq Leaves /\ Elements(solved) \subseteq externs
      /\ externs \subseteq Made /\ propagated \in [Items -> Nat]
      /\ handler \in [Items -> {"none", "queue", "sleep", "asleep", "condor", "push", "ended"}]
  BY ItemsExist, InQueue DEF Typed, QueueTypes
<1>1. CASE TakeToken \/ FinishRound
  <2>1. UNCHANGED <<made, externs, leaves, solved, handler, propagated, item>>
    BY <1>1 DEF TakeToken, FinishRound
  <2>2. /\ pc'["prop"] = pc["prop"] /\ pc'["search"] \notin {"leaf", "extern"}
        /\ pc["search"] \notin {"leaf", "extern"}
    BY <1>0, <1>1 DEF TakeToken, FinishRound
  <2> QED
    BY <2>1, <2>2 DEF Custody, Released, Made, Leaves
<1>2. CASE Expand
  <2>1. /\ UNCHANGED <<leaves, solved, handler, propagated, item>>
        /\ made' = made + 1 /\ pc'["prop"] = pc["prop"]
    BY <1>0, <1>2 DEF Expand
  <2>2. \/ pc'["search"] = "leaf" /\ externs' = externs
        \/ pc'["search"] = "extern" /\ externs' = externs \cup {made'}
    BY <1>0, <1>2 DEF Expand
  <2>3. Made' = Made \cup {made'} /\ made' \notin Made
    BY <1>0, <2>1 DEF Made
  <2>4. \A i \in Made : Released(i)' /\ (i \in externs' <=> i \in externs)
    BY <1>0, <2>2, <2>3 DEF Released
  <2>5. \A i \in Items : Released(i) => Released(i)' /\ (i \in externs' <=> i \in externs)
    BY <2>4 DEF Released
  <2>6. \A i \in Items : i \in externs => i \in externs'
    BY <2>2
  <2>7. made' \in externs' \/ made' \in Leaves'
    BY <1>0, <2>2, <2>3 DEF Leaves
  <2>8. /\ pc'["search"] = "extern" => made' \in externs'
        /\ pc'["search"] = "leaf" => made' \in Leaves'
    BY <1>0, <2>2, <2>3 DEF Leaves
  <2>9. Released(item) => Released(item)' /\ (item' \in externs' <=> item \in externs)
    BY <1>0, <2>1, <2>4 DEF Released
  <2>10. Elements(leaves) \subseteq Items /\ Elements(solved) \subseteq Items
    BY <1>0 DEF Leaves
  <2> QED
    BY <2>1, <2>5, <2>6, <2>8, <2>9, <2>10 DEF Custody
<1>3. CASE PushLeaf
  <2>1. /\ UNCHANGED <<made, externs, solved, handler, propagated, item>>
        /\ pc["search"] = "leaf" /\ pc'["search"] = "finish" /\ pc'["prop"] = pc["prop"]
        /\ leaves' = Append(leaves, made)
    BY <1>0, <1>3 DEF PushLeaf
  <2>2. made \in Leaves /\ made \notin Elements(leaves) /\ propagated[made] = 0
    BY <1>0, <2>1 DEF Custody, Released, Leaves
  <2>3. /\ Elements(leaves') = Elements(leaves) \cup {made}
        /\ NoRepeat(leaves')
    BY <2>1, <2>2, PushQueue DEF QueueTypes, Custody
  <2>4. \A i : Released(i) => Released(i)'
    BY <2>1 DEF Released, Made
  <2>5. Released(made)' /\ (pc["prop"] = "propagate" => made # item)
    BY <2>1, <2>2 DEF Custody, Released, Made, Leaves
  <2> QED
    BY <2>1, <2>2, <2>3, <2>4, <2>5 DEF Custody
<1>4. CASE StartHandler
  <2>1. /\ UNCHANGED <<made, externs, leaves, solved, propagated, item>>
        /\ pc["search"] = "extern" /\ pc'["search"] = "finish" /\ pc'["prop"] = pc["prop"]
        /\ handler' = [handler EXCEPT ![made] = "queue"]
    BY <1>0, <1>4 DEF StartHandler, Handler
  <2>2. /\ made \in externs /\ made \in Items /\ handler[made] = "none"
        /\ propagated[made] = 0 /\ made \in Made
    BY <1>0, <2>1 DEF Custody, Released
  <2>3. \A i : Released(i) => Released(i)' /\ i # made
    BY <2>1 DEF Released, Made
  <2>4. Released(made)' /\ handler'[made] = "queue"
    BY <1>0, <2>1, <2>2 DEF Released, Made
  <2>5. \A i \in Items : i # made => handler'[i] = handler[i]
    BY <1>0, <2>1
  <2>6. Elements(solved) \subseteq Items /\ made \notin Elements(solved)
    BY <1>0, <2>2 DEF Custody
  <2>7. pc["prop"] = "propagate" => item \in Items /\ item # made
    BY <1>0, <2>3 DEF Custody, Released
  <2>8. /\ \A i \in Items : handler'[i] # "none" => i \in externs' /\ Released(i)'
        /\ \A i \in Elements(solved) : handler'[i] = "ended" /\ propagated[i] = 0
    BY <2>1, <2>2, <2>3, <2>4, <2>5, <2>6 DEF Custody
  <2>9. \A i \in Items : propagated[i] # 0 =>
          propagated[i] = 1 /\ Released(i)' /\ (i \in externs => handler'[i] = "ended")
    BY <2>2, <2>3, <2>5 DEF Custody
  <2> QED
    BY <2>1, <2>3, <2>5, <2>7, <2>8, <2>9 DEF Custody
<1> QED
  BY <1>1, <1>2, <1>3, <1>4 DEF Search

(* Where one step of the propagator leaves the items: what it takes out of  *)
(* a queue stays in its hands until it is propagated.                       *)
LEMMA PropagatorKeepsCustody ==
  ASSUME Typed, QueueTypes, Custody, Propagator
  PROVE  Custody'
<1> USE DEF Goto, At, Workers, Steps, searchVars, handlerVars, stopVars
<1>0. /\ pc \in [Workers -> Steps] /\ made \in Nat
      /\ Made \subseteq Items /\ externs \subseteq Made
      /\ Elements(leaves) \subseteq Leaves /\ Elements(solved) \subseteq externs
      /\ propagated \in [Items -> Nat]
  BY ItemsExist, InQueue DEF Typed, QueueTypes
<1>f. UNCHANGED <<made, externs, handler>> /\ pc'["search"] = pc["search"]
  BY <1>0 DEF Propagator, GetItem, ReapHandler, JoinHandler, PropagateItem, CheckMore,
              CheckDone, CheckActive
<1>r. \A i : Released(i)' <=> Released(i)
  BY <1>f DEF Released, Made
<1>1. CASE GetItem
  <2>1. UNCHANGED <<propagated, solved>> /\ pc["prop"] = "get"
    BY <1>1 DEF GetItem
  <2>2. CASE NothingToPropagate
    <3>1. UNCHANGED <<pc, item, leaves>>
      BY <1>1, <2>2 DEF GetItem
    <3> QED
      BY <1>f, <1>r, <2>1, <3>1 DEF Custody, Leaves, Made
  <2>3. CASE leaves # << >>
    <3>1. /\ item' = Head(leaves) /\ leaves' = Tail(leaves)
          /\ pc'["prop"] = "propagate"
      BY <1>0, <1>1, <2>3 DEF GetItem, NothingToPropagate
    <3>2. /\ item' \in Elements(leaves) /\ NoRepeat(leaves')
          /\ Elements(leaves') = Elements(leaves) \ {item'}
      BY <2>3, <3>1, PopQueue DEF QueueTypes, Custody
    <3>3. item' \notin externs /\ item' \notin Elements(solved)
      BY <1>0, <3>2 DEF Leaves
    <3> QED
      BY <1>f, <1>r, <2>1, <3>1, <3>2, <3>3 DEF Custody, Leaves, Made
  <2>4. CASE leaves = << >> /\ solved # << >>
    <3>1. UNCHANGED leaves /\ item' = Head(solved) /\ pc'["prop"] = "reap"
      BY <1>0, <1>1, <2>4 DEF GetItem, NothingToPropagate
    <3> QED
      BY <1>f, <1>r, <2>1, <2>4, <3>1 DEF Custody, Leaves, Made
  <2> QED
    BY <2>2, <2>3, <2>4 DEF NothingToPropagate
<1>2. CASE ReapHandler
  <2>1. UNCHANGED <<propagated, solved, leaves, item>> /\ pc["prop"] = "reap"
        /\ pc'["prop"] = "join"
    BY <1>0, <1>2 DEF ReapHandler
  <2> QED
    BY <1>f, <1>r, <2>1 DEF Custody, Leaves, Made
<1>3. CASE JoinHandler
  <2>1. /\ UNCHANGED <<propagated, leaves, item>> /\ solved' = Tail(solved)
        /\ pc["prop"] = "join" /\ pc'["prop"] = "propagate"
    BY <1>0, <1>3 DEF JoinHandler
  <2>2. solved # << >> /\ item = Head(solved)
    BY <2>1 DEF Custody
  <2>3. /\ item \in Elements(solved) /\ NoRepeat(solved')
        /\ Elements(solved') = Elements(solved) \ {item}
    BY <2>1, <2>2, PopQueue DEF QueueTypes, Custody
  <2>4. item \in externs /\ item \in Items /\ item \notin Elements(leaves)
    BY <1>0, <2>3 DEF Leaves
  <2>5. handler[item] = "ended" /\ propagated[item] = 0
    BY <2>3 DEF Custody
  <2>6. Released(item)
    BY <2>4, <2>5 DEF Custody
  <2> QED
    BY <1>f, <1>r, <2>1, <2>3, <2>4, <2>5, <2>6 DEF Custody, Leaves, Made
<1>4. CASE PropagateItem
  <2>1. /\ UNCHANGED <<leaves, solved, item>>
        /\ propagated' = [propagated EXCEPT ![item] = @ + 1]
        /\ pc["prop"] = "propagate" /\ pc'["prop"] = "more"
    BY <1>0, <1>4 DEF PropagateItem
  <2>2. /\ Released(item) /\ propagated[item] = 0 /\ item \in Items
        /\ item \notin Elements(leaves) \cup Elements(solved)
        /\ item \in externs => handler[item] = "ended"
    BY <1>0, <2>1 DEF Custody, Released
  <2>3. propagated'[item] = 1 /\ \A i \in Items : i # item => propagated'[i] = propagated[i]
    BY <1>0, <2>1, <2>2
  <2>4. Elements(leaves) \subseteq Items /\ Elements(solved) \subseteq Items
    BY <1>0 DEF Leaves
  <2>5. /\ \A i \in Elements(leaves) : Released(i) /\ propagated'[i] = 0
        /\ \A i \in Elements(solved) : handler[i] = "ended" /\ propagated'[i] = 0
    BY <2>2, <2>3, <2>4 DEF Custody
  <2>6. \A i \in Items : propagated'[i] # 0 =>
          propagated'[i] = 1 /\ Released(i) /\ (i \in externs => handler[i] = "ended")
    BY <2>2, <2>3 DEF Custody
  <2> QED
    BY <1>f, <1>r, <2>1, <2>5, <2>6 DEF Custody, Leaves, Made
<1>5. CASE CheckMore \/ CheckDone \/ CheckActive
  <2>1. UNCHANGED <<propagated, leaves, solved, item>>
        /\ pc'["prop"] \notin {"reap", "join", "propagate"}
    BY <1>0, <1>5 DEF CheckMore, CheckDone, CheckActive
  <2> QED
    BY <1>f, <1>r, <2>1 DEF Custody, Leaves, Made
<1> QED
  BY <1>1, <1>2, <1>3, <1>4, <1>5 DEF Propagator

(* A step of the handler of subproblem i moves that subproblem only, to the *)
(* end of the queue of solved ones when it ends.                            *)
LEMMA HandlerKeepsCustody ==
  ASSUME Typed, QueueTypes, Custody, NEW i \in Items, HandlerOf(i)
  PROVE  Custody'
<1> USE DEF Handler, HandlerAt, searchVars, handlerVars, stopVars
<1>0. /\ handler \in [Items -> {"none", "queue", "sleep", "asleep", "condor", "push", "ended"}]
      /\ Elements(solved) \subseteq externs /\ externs \subseteq Items
  BY ItemsExist, InQueue DEF Typed, QueueTypes
<1>f. UNCHANGED <<made, externs, leaves, propagated, item, pc>>
  BY DEF HandlerOf, QueueJob, AwaitJob, Woken, NoSuchJob, ReadSolution, PushSolved, CutHandler
<1>r. \A j : Released(j)' <=> Released(j)
  BY <1>f DEF Released, Made
<1>1. handler[i] \notin {"none", "ended"} \/ UNCHANGED handler
  BY DEF HandlerOf, QueueJob, AwaitJob, Woken, NoSuchJob, ReadSolution, PushSolved, CutHandler
<1>2. \A j \in Items : j # i => handler'[j] = handler[j]
  BY <1>0 DEF HandlerOf, QueueJob, AwaitJob, Woken, NoSuchJob, ReadSolution, PushSolved,
              CutHandler
<1>3. /\ \A j \in Items : handler'[j] # "none" => handler[j] # "none"
      /\ \A j \in Items : handler[j] = "ended" => handler'[j] = "ended"
  BY <1>1, <1>2
<1>4. /\ \A j \in Items : handler'[j] # "none" => j \in externs' /\ Released(j)'
      /\ \A j \in Items : propagated'[j] # 0 =>
           propagated'[j] = 1 /\ Released(j)' /\ (j \in externs' => handler'[j] = "ended")
      /\ pc'["prop"] = "propagate" =>
           /\ Released(item)' /\ propagated'[item'] = 0
           /\ item' \notin Elements(leaves')
           /\ item' \in externs' => handler'[item'] = "ended"
  BY <1>0, <1>f, <1>r, <1>3 DEF Custody
<1>5. CASE UNCHANGED solved
  BY <1>0, <1>f, <1>r, <1>3, <1>4, <1>5 DEF Custody, Leaves, Made
<1>6. CASE PushSolved(i)
  <2>1. /\ solved' = Append(solved, i) /\ handler[i] = "push"
        /\ handler'[i] = "ended"
    BY <1>0, <1>6 DEF PushSolved
  <2>2. i \in externs /\ propagated[i] = 0 /\ i \notin Elements(solved)
    BY <2>1 DEF Custody
  <2>3. /\ Elements(solved') = Elements(solved) \cup {i} /\ NoRepeat(solved')
        /\ solved' # << >> /\ (solved # << >> => Head(solved') = Head(solved))
    BY <2>1, <2>2, PushQueue DEF QueueTypes, Custody
  <2>4. \A j \in Elements(solved') : handler'[j] = "ended" /\ propagated[j] = 0
    BY <1>0, <1>3, <2>1, <2>2, <2>3 DEF Custody
  <2>5. pc["prop"] = "propagate" => item \notin Elements(solved')
    BY <2>1, <2>2, <2>3 DEF Custody
  <2> QED
    BY <1>f, <1>r, <1>4, <2>3, <2>4, <2>5 DEF Custody, Leaves, Made
<1> QED
  BY <1>5, <1>6 DEF HandlerOf, QueueJob, AwaitJob, Woken, NoSuchJob, ReadSolution, CutHandler

(* No step puts an item in two places.                                      *)
LEMMA CustodyStep == Typed /\ QueueTypes /\ Custody /\ [Next]_vars => Custody'
<1> SUFFICES ASSUME Typed, QueueTypes, Custody, [Next]_vars PROVE Custody'
  OBVIOUS
<1> USE DEF searchVars, handlerVars, stopVars, At, Goto, Workers, Steps
<1>0. pc \in [Workers -> Steps]
  BY DEF Typed
<1>1. ASSUME UNCHANGED <<made, externs, leaves, solved, handler, propagated, item>>,
             pc'["search"] = pc["search"] \/ pc'["search"] = "done",
             pc'["prop"] = pc["prop"] \/ pc'["prop"] = "done"
      PROVE  Custody'
  <2>1. \A i : Released(i) => Released(i)'
    BY <1>1 DEF Released, Made
  <2> QED
    BY <1>1, <2>1 DEF Custody, Leaves, Made
<1>2. CASE Engine
  BY <1>0, <1>1, <1>2 DEF Engine, AwaitQueue, Collect, EncodeJobs, Submit, GiveUp,
                          NotifyHandlers, InterruptEngine, JoinAll
<1>3. CASE Stop
  <2>1. CASE StopSearch \/ StopEngine \/ MainStopsEngine
    BY <1>1, <2>1 DEF StopSearch, StopEngine, MainStopsEngine, SigStep
  <2>2. ASSUME NEW t \in Workers, InterruptLoop(t) PROVE Custody'
    BY <1>0, <1>1, <2>2 DEF InterruptLoop
  <2> QED
    BY <1>3, <2>1, <2>2 DEF Stop
<1>4. CASE Signal \/ SpuriousWakeup
  BY <1>1, <1>4 DEF Signal, SigStep, SpuriousWakeup
<1>5. CASE UNCHANGED vars
  BY <1>1, <1>5 DEF vars
<1> QED
  BY <1>2, <1>3, <1>4, <1>5, SearchKeepsCustody, PropagatorKeepsCustody,
     HandlerKeepsCustody DEF Next

-----------------------------------------------------------------------------
(* A step of the search or of the propagator keeps the types of the queues. *)
LEMMA QueueTypesOfLoops ==
  ASSUME Typed, QueueTypes, Custody, Search \/ Propagator
  PROVE  QueueTypes'
<1> USE DEF searchVars, handlerVars, stopVars
<1>0. /\ made \in Nat /\ made + 1 \notin Made /\ externs \subseteq Made
  BY ItemsExist DEF Typed
<1>f. UNCHANGED <<maxSubprob, condorQueue, batch, waitsForJob, submitted, valued,
                  interrupted, cut, sigHandler>>
  BY DEF Search, TakeToken, Expand, PushLeaf, StartHandler, FinishRound,
         Propagator, GetItem, ReapHandler, JoinHandler, PropagateItem, CheckMore,
         CheckDone, CheckActive
<1>1. CASE TakeToken \/ FinishRound
  <2>1. UNCHANGED <<made, externs, leaves, solved, activeThreads, item, noPropagated>>
    BY <1>1 DEF TakeToken, FinishRound
  <2>2. searchDone' \in BOOLEAN
    BY <1>1 DEF TakeToken, FinishRound, QueueTypes
  <2>3. allowedThreads' \in Nat /\ asleep' \subseteq Workers
    <3>0. allowedThreads \in Nat /\ asleep \subseteq Workers /\ "search" \in Workers
      BY DEF QueueTypes, Workers
    <3>1. CASE TakeToken
      <4>1. CASE allowedThreads = 0
        BY <3>0, <3>1, <4>1 DEF TakeToken
      <4>2. CASE allowedThreads # 0
        <5>1. allowedThreads' = allowedThreads - 1 /\ UNCHANGED asleep
          BY <3>1, <4>2 DEF TakeToken
        <5> QED
          BY <3>0, <4>2, <5>1
      <4> QED
        BY <4>1, <4>2
    <3>2. CASE FinishRound
      BY <3>2 DEF FinishRound, QueueTypes
    <3> QED
      BY <1>1, <3>1, <3>2
  <2> QED
    BY <1>f, <2>1, <2>2, <2>3 DEF QueueTypes, Leaves, Made
<1>2. CASE Expand
  <2>1. /\ made' = made + 1 /\ externs \subseteq externs'
        /\ externs' \subseteq externs \cup {made'}
        /\ UNCHANGED <<leaves, solved, activeThreads, allowedThreads, searchDone, asleep,
                       item, noPropagated>>
    BY <1>2 DEF Expand
  <2>2. Leaves \subseteq Leaves'
    BY <1>0, <2>1 DEF Leaves, Made
  <2>3. leaves' \in Seq(Leaves') /\ solved' \in Seq(externs')
    BY <2>1, <2>2, SeqMonotonic DEF QueueTypes
  <2>4. item' \in 0 .. made'
    BY <1>0, <2>1 DEF QueueTypes
  <2> QED
    BY <1>f, <2>1, <2>3, <2>4 DEF QueueTypes
<1>3. CASE PushLeaf
  <2>1. made \in Leaves /\ UNCHANGED Leaves
    BY <1>3 DEF Custody, PushLeaf, At, Leaves, Made
  <2>2. leaves' \in Seq(Leaves')
    BY <1>3, <2>1, PushQueue DEF QueueTypes, PushLeaf
  <2> QED
    BY <1>f, <1>3, <2>2 DEF PushLeaf, QueueTypes, WakePropagator
<1>4. CASE StartHandler
  <2>1. made \in externs
    BY <1>4 DEF Custody, StartHandler, At
  <2> QED
    BY <1>f, <1>4, <2>1 DEF StartHandler, QueueTypes, Entered, Leaves, Made
<1>5. CASE GetItem
  <2>1. leaves # << >> => Head(leaves) \in Leaves /\ Tail(leaves) \in Seq(Leaves)
    BY PopQueue DEF QueueTypes, Custody
  <2>2. solved # << >> => Head(solved) \in externs
    BY PopQueue DEF QueueTypes, Custody
  <2>3. Leaves \subseteq 0 .. made /\ externs \subseteq 0 .. made
    BY <1>0 DEF Leaves, Made
  <2>4. /\ item' = item \/ item' \in Leaves \/ item' \in externs
        /\ leaves' \in Seq(Leaves)
    BY <1>5, <2>1, <2>2 DEF GetItem, NothingToPropagate, QueueTypes
  <2> QED
    BY <1>f, <1>5, <2>3, <2>4 DEF GetItem, QueueTypes, Leaves, Made, Workers
<1>6. CASE ReapHandler \/ CheckMore \/ CheckActive
  BY <1>f, <1>6 DEF ReapHandler, CheckMore, CheckActive, QueueTypes, Leaves, Made
<1>7. CASE JoinHandler
  <2>1. solved' \in Seq(externs)
    BY <1>7, PopQueue DEF JoinHandler, At, Custody, QueueTypes
  <2> QED
    BY <1>f, <1>7, <2>1 DEF JoinHandler, QueueTypes, Leaves, Made
<1>8. CASE PropagateItem
  BY <1>f, <1>8 DEF PropagateItem, QueueTypes, Leaves, Made
<1>9. CASE CheckDone
  BY <1>f, <1>9 DEF CheckDone, QueueTypes, ReturnedTokens, Leaves, Made
<1> QED
  BY <1>1, <1>2, <1>3, <1>4, <1>5, <1>6, <1>7, <1>8, <1>9 DEF Search, Propagator

(* Every step keeps the types of the queues and of what waits.              *)
LEMMA QueueTypesStep == Typed /\ QueueTypes /\ Custody /\ [Next]_vars => QueueTypes'
<1> SUFFICES ASSUME Typed, QueueTypes, Custody, [Next]_vars PROVE QueueTypes'
  OBVIOUS
<1> USE DEF searchVars, handlerVars, stopVars, QueueTypes, Leaves, Made, Workers
<1>1. CASE Engine
  <2>1. CASE AwaitQueue \/ Collect \/ EncodeJobs
    BY <2>1 DEF AwaitQueue, Collect, EncodeJobs
  <2>2. CASE Submit \/ GiveUp \/ NotifyHandlers
    BY <2>2 DEF Submit, GiveUp, NotifyHandlers
  <2>3. CASE InterruptEngine \/ JoinAll
    BY <2>3 DEF InterruptEngine, JoinAll
  <2> QED
    BY <1>1, <2>1, <2>2, <2>3 DEF Engine
<1>2. CASE Stop
  <2>1. CASE StopSearch \/ StopEngine \/ MainStopsEngine
    BY <2>1 DEF StopSearch, StopEngine, MainStopsEngine, SigStep
  <2>2. ASSUME NEW t \in Workers, InterruptLoop(t) PROVE QueueTypes'
    BY <2>2 DEF InterruptLoop
  <2> QED
    BY <1>2, <2>1, <2>2 DEF Stop
<1>3. ASSUME NEW i \in Items, HandlerOf(i) PROVE QueueTypes'
  <2>1. handler[i] # "none" => i \in externs
    BY DEF Custody
  <2>2. CASE QueueJob(i) \/ AwaitJob(i) \/ Woken(i) \/ NoSuchJob(i)
    BY <2>1, <2>2 DEF QueueJob, AwaitJob, Woken, NoSuchJob, HandlerAt
  <2>3. CASE ReadSolution(i) \/ CutHandler(i)
    BY <2>1, <2>3 DEF ReadSolution, CutHandler, HandlerAt
  <2>4. CASE PushSolved(i)
    <3>1. solved' \in Seq(externs)
      BY <2>1, <2>4, PushQueue DEF PushSolved, HandlerAt
    <3> QED
      BY <2>4, <3>1 DEF PushSolved, WakePropagator
  <2> QED
    BY <1>3, <2>2, <2>3, <2>4 DEF HandlerOf
<1>4. CASE Signal \/ SpuriousWakeup
  BY <1>4 DEF Signal, SigStep, SpuriousWakeup
<1>5. CASE UNCHANGED vars
  BY <1>5 DEF vars
<1> QED
  BY <1>1, <1>2, <1>3, <1>4, <1>5, QueueTypesOfLoops DEF Next

(* The inductive invariant holds, whatever goes wrong in a run.             *)
THEOREM CustodyHolds == Spec => [](QueueTypes /\ Custody)
<1>1. Init => QueueTypes /\ Custody
  <2> SUFFICES ASSUME Init PROVE QueueTypes /\ Custody
    OBVIOUS
  <2>1. << >> \in Seq(Leaves) /\ << >> \in Seq(externs) /\ Elements(<< >>) = {}
        /\ NoRepeat(<< >>)
    BY EmptySeq DEF Elements, NoRepeat
  <2>2. 0 \in 0 .. 0
    OBVIOUS
  <2> QED
    BY <2>1, <2>2, BoundsAssumption, ThreadsAssumption DEF Init, QueueTypes, Custody, Workers
<1> QED
  BY <1>1, QueueTypesStep, CustodyStep, Typing, PTL DEF Spec

(* Every variable keeps its type, the two queues included: a leaf is never  *)
(* queued as a subproblem, nor a subproblem as a leaf.                      *)
THEOREM TypeCorrect == Spec => []TypeOK
<1>1. Typed /\ QueueTypes => TypeOK
  BY DEF Typed, QueueTypes, TypeOK, Steps
<1> QED
  BY <1>1, CustodyHolds, Typing, PTL

-----------------------------------------------------------------------------
(* The threads are stopped in order: nothing interrupts the engine, and so  *)
(* no handler, before the propagator has ended.                             *)
StopOrder ==
  /\ (sigHandler \in {"search", "engine"} => pc["prop"] = "done")
  /\ ("engine" \in interrupted => pc["prop"] = "done")
  /\ (cut # {} => pc["prop"] = "done")

(* So what reaches the propagator has the value its job returned.           *)
Valued ==
  /\ pc["prop"] # "done" =>
       \A i \in Items : handler[i] = "push" \/ i \in Elements(solved) => i \in valued
  /\ (pc["prop"] = "propagate" /\ item \in externs => item \in valued)
  /\ \A i \in externs : propagated[i] # 0 => i \in valued

(* The propagator that has ended stays so, and the interruptions follow it. *)
LEMMA StopOrderStep == Typed /\ StopOrder /\ [Next]_vars => StopOrder'
<1> SUFFICES ASSUME Typed, StopOrder, [Next]_vars PROVE StopOrder'
  OBVIOUS
<1> USE DEF StopOrder, searchVars, handlerVars, stopVars, At, Goto, Workers, Steps
<1>0. pc \in [Workers -> Steps]
  BY DEF Typed
<1>1. CASE Search
  <2>1. pc'["prop"] = pc["prop"] /\ UNCHANGED stopVars
    BY <1>0, <1>1 DEF Search, TakeToken, Expand, PushLeaf, StartHandler, FinishRound
  <2> QED
    BY <2>1
<1>2. CASE Propagator
  <2>1. pc["prop"] # "done" /\ UNCHANGED stopVars
    BY <1>0, <1>2 DEF Propagator, GetItem, ReapHandler, JoinHandler, PropagateItem,
                      CheckMore, CheckDone, CheckActive
  <2> QED
    BY <2>1
<1>3. CASE Engine
  <2>1. CASE InterruptEngine
    BY <1>0, <2>1 DEF InterruptEngine
  <2>2. CASE ~InterruptEngine
    <3>1. pc'["prop"] = pc["prop"] /\ UNCHANGED stopVars
      BY <1>0, <1>3, <2>2 DEF Engine, AwaitQueue, Collect, EncodeJobs, Submit, GiveUp,
                              NotifyHandlers, JoinAll
    <3> QED
      BY <3>1
  <2> QED
    BY <2>1, <2>2
<1>4. CASE Stop
  <2>1. CASE StopSearch
    BY <2>1 DEF StopSearch, SigStep
  <2>2. CASE StopEngine
    BY <2>2 DEF StopEngine, SigStep
  <2>3. CASE MainStopsEngine
    BY <2>3 DEF MainStopsEngine, BothJoined
  <2>4. ASSUME NEW t \in Workers, InterruptLoop(t) PROVE StopOrder'
    BY <1>0, <2>4 DEF InterruptLoop
  <2> QED
    BY <1>4, <2>1, <2>2, <2>3, <2>4 DEF Stop
<1>5. ASSUME NEW i \in Items, HandlerOf(i) PROVE StopOrder'
  <2>1. UNCHANGED <<pc, sigHandler, interrupted, cut>>
    BY <1>5 DEF HandlerOf, QueueJob, AwaitJob, Woken, NoSuchJob, ReadSolution,
                PushSolved, CutHandler
  <2> QED
    BY <2>1
<1>6. CASE Signal
  BY <1>6 DEF Signal, SigStep
<1>7. CASE SpuriousWakeup
  BY <1>7 DEF SpuriousWakeup
<1>8. CASE UNCHANGED vars
  BY <1>8 DEF vars
<1> QED
  BY <1>1, <1>2, <1>3, <1>4, <1>5, <1>6, <1>7, <1>8 DEF Next

(* While the propagator runs, what is handed to it has a value; and what it *)
(* has propagated had one.                                                  *)
LEMMA ValuedStep ==
  Typed /\ QueueTypes /\ Custody /\ StopOrder /\ Valued /\ [Next]_vars => Valued'
<1> SUFFICES ASSUME Typed, QueueTypes, Custody, StopOrder, Valued, [Next]_vars
             PROVE  Valued'
  OBVIOUS
<1> USE DEF searchVars, handlerVars, stopVars, At, Goto, Handler, HandlerAt, Workers, Steps
<1>0. /\ pc \in [Workers -> Steps] /\ propagated \in [Items -> Nat]
      /\ handler \in [Items -> {"none", "queue", "sleep", "asleep", "condor", "push", "ended"}]
      /\ externs \subseteq Items /\ externs \subseteq Made
      /\ made + 1 \notin Made /\ Elements(solved) \subseteq externs
  BY ItemsExist, InQueue DEF Typed, QueueTypes
<1>1. ASSUME UNCHANGED <<externs, solved, handler, propagated, item, valued>>,
             pc'["prop"] = pc["prop"] \/ pc'["prop"] = "done"
      PROVE  Valued'
  BY <1>1 DEF Valued
<1>2. CASE Search
  <2>1. pc'["prop"] = pc["prop"] /\ UNCHANGED <<solved, propagated, item, valued>>
    BY <1>0, <1>2 DEF Search, TakeToken, Expand, PushLeaf, StartHandler, FinishRound
  <2>2. CASE TakeToken \/ PushLeaf \/ FinishRound
    BY <1>1, <2>1, <2>2 DEF TakeToken, PushLeaf, FinishRound
  <2>3. CASE Expand
    <3>1. made' = made + 1 /\ externs' \subseteq externs \cup {made'} /\ UNCHANGED handler
      BY <2>3 DEF Expand
    <3>2. pc["prop"] = "propagate" => item \in Made
      BY DEF Custody, Released
    <3>3. \A i \in externs' : i \in externs \/ (i \notin Made /\ i = made')
      BY <1>0, <3>1
    <3>4. \A i \in externs' : propagated[i] # 0 => i \in valued
      <4>1. ASSUME NEW i \in externs', propagated[i] # 0, i \notin externs PROVE FALSE
        <5>1. made' \in Items /\ i = made' /\ i \notin Made
          BY <2>3, <3>1, <3>3, <4>1, BoundsAssumption DEF Expand, Typed, Items
        <5> QED
          BY <4>1, <5>1 DEF Custody, Released
      <4> QED
        BY <4>1 DEF Valued
    <3> QED
      BY <2>1, <3>1, <3>2, <3>3, <3>4 DEF Valued
  <2>4. CASE StartHandler
    <3>1. UNCHANGED externs /\ \A i \in Items : handler'[i] = "push" => handler[i] = "push"
      BY <1>0, <2>4 DEF StartHandler
    <3> QED
      BY <2>1, <3>1 DEF Valued
  <2> QED
    BY <1>2, <2>2, <2>3, <2>4 DEF Search
<1>3. CASE Propagator
  <2>1. pc["prop"] # "done" /\ UNCHANGED <<externs, handler, valued>>
    BY <1>0, <1>3 DEF Propagator, GetItem, ReapHandler, JoinHandler, PropagateItem,
                      CheckMore, CheckDone, CheckActive
  <2>2. CASE GetItem
    <3>1. UNCHANGED <<solved, propagated>>
      BY <2>2 DEF GetItem
    <3>2. pc'["prop"] = "propagate" => item' \notin externs
      <4>1. leaves # << >> => Head(leaves) \in Leaves
        BY PopQueue DEF QueueTypes, Custody
      <4> QED
        BY <1>0, <2>2, <4>1 DEF GetItem, Leaves
    <3> QED
      BY <2>1, <3>1, <3>2 DEF Valued
  <2>3. CASE JoinHandler
    <3>1. UNCHANGED <<propagated, item>> /\ solved' = Tail(solved) /\ pc["prop"] = "join"
      BY <2>3 DEF JoinHandler
    <3>2. item \in Elements(solved) /\ Elements(solved') \subseteq Elements(solved)
      BY <3>1, PopQueue DEF QueueTypes, Custody
    <3>3. item \in Items
      BY <1>0, <3>2
    <3> QED
      BY <2>1, <3>1, <3>2, <3>3 DEF Valued
  <2>4. CASE PropagateItem
    <3>1. /\ UNCHANGED <<solved, item>> /\ pc["prop"] = "propagate" /\ pc'["prop"] = "more"
          /\ \A i \in Items : i # item => propagated'[i] = propagated[i]
      BY <1>0, <2>4 DEF PropagateItem
    <3> QED
      BY <1>0, <2>1, <3>1 DEF Valued
  <2>5. CASE ReapHandler \/ CheckMore \/ CheckDone \/ CheckActive
    <3>1. UNCHANGED <<solved, item, propagated>> /\ pc'["prop"] # "propagate"
      BY <1>0, <2>5 DEF ReapHandler, CheckMore, CheckDone, CheckActive
    <3> QED
      BY <2>1, <3>1 DEF Valued
  <2> QED
    BY <1>3, <2>2, <2>3, <2>4, <2>5 DEF Propagator
<1>4. CASE Engine
  BY <1>0, <1>1, <1>4 DEF Engine, AwaitQueue, Collect, EncodeJobs, Submit, GiveUp,
                          NotifyHandlers, InterruptEngine, JoinAll
<1>5. CASE Stop
  <2>1. CASE StopSearch \/ StopEngine \/ MainStopsEngine
    BY <1>1, <2>1 DEF StopSearch, StopEngine, MainStopsEngine, SigStep
  <2>2. ASSUME NEW t \in Workers, InterruptLoop(t) PROVE Valued'
    BY <1>0, <1>1, <2>2 DEF InterruptLoop
  <2> QED
    BY <1>5, <2>1, <2>2 DEF Stop
<1>6. ASSUME NEW i \in Items, HandlerOf(i) PROVE Valued'
  <2>1. UNCHANGED <<externs, propagated, item, pc>> /\ valued \subseteq valued'
    BY <1>6 DEF HandlerOf, QueueJob, AwaitJob, Woken, NoSuchJob, ReadSolution,
                PushSolved, CutHandler
  <2>2. CASE CutHandler(i)
    <3>1. pc["prop"] = "done"
      BY <2>2 DEF CutHandler, StopOrder
    <3> QED
      BY <2>1, <3>1 DEF Valued
  <2>3. CASE PushSolved(i)
    <3>1. /\ handler[i] = "push" /\ solved' = Append(solved, i)
          /\ \A j \in Items : handler'[j] = "push" => handler[j] = "push"
      BY <1>0, <2>3 DEF PushSolved
    <3>2. i \in externs
      BY <3>1 DEF Custody
    <3>3. Elements(solved') = Elements(solved) \cup {i}
      BY <3>1, <3>2, PushQueue DEF QueueTypes
    <3> QED
      BY <2>1, <3>1, <3>3 DEF Valued
  <2>4. CASE QueueJob(i) \/ AwaitJob(i) \/ Woken(i) \/ NoSuchJob(i) \/ ReadSolution(i)
    <3>1. UNCHANGED solved
      BY <2>4 DEF QueueJob, AwaitJob, Woken, NoSuchJob, ReadSolution
    <3>2. \A j \in Items : handler'[j] = "push" => handler[j] = "push" \/ j \in valued'
      BY <1>0, <2>4 DEF QueueJob, AwaitJob, Woken, NoSuchJob, ReadSolution
    <3> QED
      BY <2>1, <3>1, <3>2 DEF Valued
  <2> QED
    BY <1>6, <2>2, <2>3, <2>4 DEF HandlerOf
<1>7. CASE Signal \/ SpuriousWakeup
  BY <1>1, <1>7 DEF Signal, SigStep, SpuriousWakeup
<1>8. CASE UNCHANGED vars
  BY <1>1, <1>8 DEF vars
<1> QED
  BY <1>2, <1>3, <1>4, <1>5, <1>6, <1>7, <1>8 DEF Next

(* No item is propagated twice and none without its value, in any run of    *)
(* any size, one that is stopped by a signal included.                      *)
THEOREM PropagatedOnceHolds == Spec => []PropagatedOnceWithValue
<1>1. Init => StopOrder /\ Valued
  BY EmptySeq DEF Init, StopOrder, Valued, Elements
<1>2. Typed /\ Custody /\ Valued => PropagatedOnceWithValue
  BY DEF Typed, Custody, Valued, PropagatedOnceWithValue
<1> QED
  BY <1>1, <1>2, StopOrderStep, ValuedStep, CustodyHolds, Typing, PTL DEF Spec

-----------------------------------------------------------------------------
Unpropagated == {i \in Made : propagated[i] = 0}
Expanding == IF pc["search"] = "expand" THEN 1 ELSE 0

(* The items that exist are finitely many, so that those in flight can be   *)
(* counted.                                                                 *)
LEMMA CountUnpropagated ==
  ASSUME Typed
  PROVE  IsFiniteSet(Unpropagated) /\ Cardinality(Unpropagated) \in Nat
<1>1. IsFiniteSet(Made)
  BY ItemsExist, FS_Interval DEF Made
<1>2. Unpropagated \in SUBSET Made
  BY DEF Unpropagated
<1> QED
  BY <1>1, <1>2, FS_Subset, FS_CardinalityType

(* A token is with the limit, with the search, with an item in flight or    *)
(* with the propagator, which gives it back; only when the search is done   *)
(* are tokens thrown away.                                                  *)
LEMMA TokensStep ==
  Typed /\ QueueTypes /\ Custody /\ Accounted /\ TokensConserved /\ [Next]_vars
    => TokensConserved'
<1> SUFFICES ASSUME Typed, QueueTypes, Custody, Accounted, TokensConserved, [Next]_vars
             PROVE  TokensConserved'
  OBVIOUS
<1> DEFINE Count == Cardinality(Unpropagated)
<1> USE DEF searchVars, handlerVars, stopVars, At, Goto, Workers, Steps
<1>0. /\ pc \in [Workers -> Steps] /\ propagated \in [Items -> Nat] /\ made \in Nat
      /\ Made \subseteq Items /\ made + 1 \notin Made
      /\ allowedThreads \in Nat /\ noPropagated \in Nat /\ Threads \in Nat
      /\ searchDone \in BOOLEAN
  BY ItemsExist, ThreadsAssumption DEF Typed, QueueTypes
<1>c. IsFiniteSet(Unpropagated) /\ Count \in Nat
  BY CountUnpropagated
<1>s. TokensInUse = noPropagated + Expanding + Count
  BY DEF TokensInUse, Expanding, Unpropagated
<1>t. TokensInUse' = noPropagated' + Expanding' + Count'
  BY DEF TokensInUse, Expanding, Unpropagated
<1>e. Expanding \in Nat /\ Expanding' \in Nat
  BY DEF Expanding
<1>k. /\ allowedThreads + (noPropagated + Expanding + Count) <= Threads
      /\ ~searchDone => allowedThreads + (noPropagated + Expanding + Count) = Threads
  BY <1>s DEF TokensConserved
<1> HIDE DEF Count
<1>1. ASSUME UNCHANGED <<allowedThreads, noPropagated, searchDone>>,
             Expanding' = Expanding, Count' = Count
      PROVE  TokensConserved'
  BY <1>k, <1>t, <1>1 DEF TokensConserved
<1>2. ASSUME UNCHANGED <<made, propagated>> PROVE Count' = Count
  BY <1>2 DEF Count, Unpropagated, Made
<1>3. CASE Search
  <2>1. CASE TakeToken
    <3>1. UNCHANGED <<made, propagated, noPropagated, searchDone>> /\ pc["search"] = "take"
      BY <2>1 DEF TakeToken
    <3>2. CASE allowedThreads = 0
      <4>1. UNCHANGED <<allowedThreads, pc>>
        BY <2>1, <3>2 DEF TakeToken
      <4> QED
        BY <1>1, <1>2, <3>1, <4>1 DEF Expanding
    <3>3. CASE allowedThreads # 0
      <4>1. allowedThreads' = allowedThreads - 1 /\ pc'["search"] = "expand"
        BY <1>0, <2>1, <3>3 DEF TakeToken
      <4>2. Expanding = 0 /\ Expanding' = 1 /\ Count' = Count
        BY <1>2, <3>1, <4>1 DEF Expanding
      <4> QED
        BY <1>0, <1>c, <1>k, <1>t, <3>1, <4>1, <4>2 DEF TokensConserved
    <3> QED
      BY <3>2, <3>3
  <2>2. CASE Expand
    <3>1. /\ UNCHANGED <<allowedThreads, propagated, noPropagated, searchDone>>
          /\ made' = made + 1 /\ pc["search"] = "expand"
          /\ pc'["search"] \in {"leaf", "extern"}
      BY <1>0, <2>2 DEF Expand
    <3>2. Expanding = 1 /\ Expanding' = 0
      BY <3>1 DEF Expanding
    <3>3. made' \in Items /\ made' \notin Made /\ Made' = Made \cup {made'}
      BY <1>0, <3>1, BoundsAssumption DEF Typed, Items, Made
    <3>4. propagated[made'] = 0
      BY <1>0, <3>3 DEF Custody, Released
    <3>5. Unpropagated' = Unpropagated \cup {made'} /\ made' \notin Unpropagated
      BY <3>1, <3>3, <3>4 DEF Unpropagated
    <3>6. Count' = Count + 1
      BY <1>c, <3>5, FS_AddElement DEF Count
    <3> QED
      BY <1>0, <1>c, <1>k, <1>t, <3>1, <3>2, <3>6 DEF TokensConserved
  <2>3. CASE PushLeaf \/ StartHandler
    BY <1>0, <1>1, <1>2, <2>3 DEF PushLeaf, StartHandler, Expanding
  <2>4. CASE FinishRound
    <3>1. UNCHANGED <<allowedThreads, made, propagated, noPropagated>>
          /\ pc["search"] = "finish" /\ pc'["search"] \in {"take", "done"}
          /\ (searchDone => searchDone')
      BY <1>0, <2>4 DEF FinishRound
    <3> QED
      BY <1>2, <1>k, <1>t, <3>1 DEF Expanding, TokensConserved
  <2> QED
    BY <1>3, <2>1, <2>2, <2>3, <2>4 DEF Search
<1>4. CASE Propagator
  <2>1. UNCHANGED <<made, searchDone>> /\ Expanding' = Expanding
    BY <1>0, <1>4 DEF Propagator, GetItem, ReapHandler, JoinHandler, PropagateItem,
                      CheckMore, CheckDone, CheckActive, Expanding
  <2>2. CASE GetItem \/ ReapHandler \/ JoinHandler \/ CheckMore
    BY <1>1, <1>2, <2>1, <2>2 DEF GetItem, ReapHandler, JoinHandler, CheckMore
  <2>3. CASE PropagateItem
    <3>1. /\ UNCHANGED allowedThreads /\ noPropagated' = noPropagated + 1
          /\ propagated' = [propagated EXCEPT ![item] = @ + 1] /\ pc["prop"] = "propagate"
      BY <2>3 DEF PropagateItem
    <3>2. item \in Made /\ propagated[item] = 0
      BY <3>1 DEF Custody, Released
    <3>3. propagated'[item] # 0 /\ \A i \in Made : i # item => propagated'[i] = propagated[i]
      BY <1>0, <3>1, <3>2
    <3>4. Unpropagated' = Unpropagated \ {item} /\ item \in Unpropagated
      BY <2>1, <3>2, <3>3 DEF Unpropagated, Made
    <3>5. Count' = Count - 1
      BY <1>c, <3>4, FS_RemoveElement DEF Count
    <3> QED
      BY <1>0, <1>c, <1>e, <1>k, <1>t, <2>1, <3>1, <3>5 DEF TokensConserved
  <2>4. CASE CheckDone
    <3>1. UNCHANGED propagated
      BY <2>4 DEF CheckDone
    <3>2. \/ UNCHANGED <<allowedThreads, noPropagated>>
          \/ allowedThreads' = allowedThreads + noPropagated /\ noPropagated' = 0
      BY <2>4 DEF CheckDone, ReturnedTokens
    <3>3. Count' = Count
      BY <1>2, <2>1, <3>1
    <3>4. CASE UNCHANGED <<allowedThreads, noPropagated>>
      BY <1>1, <2>1, <3>3, <3>4
    <3>5. CASE allowedThreads' = allowedThreads + noPropagated /\ noPropagated' = 0
      <4>1. allowedThreads' + (noPropagated' + Expanding' + Count')
              = allowedThreads + (noPropagated + Expanding + Count)
        BY <1>0, <1>c, <1>e, <2>1, <3>3, <3>5
      <4> QED
        BY <1>k, <1>t, <2>1, <4>1 DEF TokensConserved
    <3> QED
      BY <3>2, <3>4, <3>5
  <2>5. CASE CheckActive
    <3>1. UNCHANGED <<allowedThreads, propagated>> /\ noPropagated' = 0 /\ searchDone
      BY <2>5 DEF CheckActive, Accounted
    <3> QED
      BY <1>0, <1>2, <1>c, <1>e, <1>k, <1>t, <2>1, <3>1 DEF TokensConserved
  <2> QED
    BY <1>4, <2>2, <2>3, <2>4, <2>5 DEF Propagator
<1>5. ASSUME UNCHANGED <<made, propagated, allowedThreads, noPropagated, searchDone>>,
             Expanding' = Expanding
      PROVE  TokensConserved'
  BY <1>1, <1>2, <1>5
<1>6. CASE Engine
  BY <1>0, <1>5, <1>6 DEF Engine, AwaitQueue, Collect, EncodeJobs, Submit, GiveUp,
                          NotifyHandlers, InterruptEngine, JoinAll, Expanding
<1>7. CASE Stop
  <2>1. CASE StopSearch \/ StopEngine \/ MainStopsEngine
    BY <1>5, <2>1 DEF StopSearch, StopEngine, MainStopsEngine, SigStep, Expanding
  <2>2. ASSUME NEW t \in Workers, InterruptLoop(t) PROVE TokensConserved'
    <3>1. UNCHANGED <<made, propagated, allowedThreads, noPropagated, searchDone>>
      BY <2>2 DEF InterruptLoop
    <3>2. t = "search" => pc["search"] = "take" /\ pc'["search"] = "done"
      BY <1>0, <2>2 DEF InterruptLoop, Accounted
    <3>3. t # "search" => pc'["search"] = pc["search"]
      BY <1>0, <2>2 DEF InterruptLoop
    <3> QED
      BY <1>5, <3>1, <3>2, <3>3 DEF Expanding
  <2> QED
    BY <1>7, <2>1, <2>2 DEF Stop
<1>8. ASSUME NEW i \in Items, HandlerOf(i) PROVE TokensConserved'
  BY <1>5, <1>8 DEF HandlerOf, QueueJob, AwaitJob, Woken, NoSuchJob, ReadSolution,
                    PushSolved, CutHandler, Expanding
<1>9. CASE Signal \/ SpuriousWakeup
  BY <1>5, <1>9 DEF Signal, SigStep, SpuriousWakeup, Expanding
<1>10. CASE UNCHANGED vars
  BY <1>5, <1>10 DEF vars, Expanding
<1> QED
  BY <1>3, <1>4, <1>6, <1>7, <1>8, <1>9, <1>10 DEF Next

(* No token is lost and none is invented: for any limit, at most that many  *)
(* items are between the search and the propagator, and exactly the rest is *)
(* free while the search goes on.                                           *)
THEOREM TokensConservedHolds == Spec => []TokensConserved
<1>1. Init => TokensConserved
  <2> SUFFICES ASSUME Init PROVE TokensConserved
    OBVIOUS
  <2>1. {i \in Made : propagated[i] = 0} = {}
    BY DEF Init, Made
  <2>2. Cardinality({i \in Made : propagated[i] = 0}) = 0
    BY <2>1, FS_EmptySet
  <2>3. /\ pc["search"] = "take" /\ noPropagated = 0 /\ allowedThreads = Threads
        /\ Threads \in Nat
    BY ThreadsAssumption DEF Init
  <2> QED
    BY <2>2, <2>3 DEF TokensConserved, TokensInUse
<1> QED
  BY <1>1, TokensStep, CustodyHolds, Accounting, Typing, PTL DEF Spec
=============================================================================
