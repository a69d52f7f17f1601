--------------------------- MODULE DynamicMaster ---------------------------
(* The master process of the dynamic parallel scheme.  Four kinds of thread *)
(* share SearchSpaceMaster: the search (SearchMaster), which takes a node   *)
(* at a time to a leaf or cuts a subproblem off; a handler for each such    *)
(* subproblem (SubproblemCondor); the engine that submits their jobs to     *)
(* Condor in batches (CondorSubmissionEngine); and the propagator           *)
(* (BoundPropagatorMaster).  The signal handler and Main stop them.         *)
(*                                                                          *)
(* A step is a critical section, or the part of one between two mutexes     *)
(* that are taken inside it.  An item is what one round of the search       *)
(* yields: a leaf, or the root of a subproblem that is solved elsewhere.    *)
(* The search space itself is left out; see BranchAndBound.                 *)
EXTENDS Naturals, Sequences, FiniteSets

CONSTANTS
  MaxItems,     \* bound on the rounds of the search
  Threads,      \* options->threads
  MaxSubprobs,  \* the values of options->maxSubprob, MaxItems + 1 for NONE
  FaultSets     \* what may go wrong in a run: sets of FaultKinds

FaultKinds ==
  {"submit",    \* condor_submit fails in all its tries
   "file",      \* a subproblem ends without a solution file
   "spurious",  \* a condition variable wakes its waiter for no reason
   "signal"}    \* the user stops the program

ASSUME BoundsAssumption == MaxItems \in Nat /\ MaxSubprobs \subseteq Nat
ASSUME ThreadsAssumption == Threads \in Nat \ {0}
ASSUME FaultsAssumption == FaultSets \subseteq SUBSET FaultKinds

Items == 1 .. MaxItems
Mutexes == {"space", "solved", "searchDone", "activeThreads", "condorQueue"}
Workers == {"search", "prop", "engine"}

VARIABLES
  faults,            \* what may go wrong in this run
  total, maxSubprob, \* the rounds until the search space is exhausted; the option
  made,              \* rounds of the search so far: items 1 .. made exist
  externs,           \* those items that were cut off
  allowedThreads, searchDone, leaves, solved, activeThreads, condorQueue,
  lock,              \* who holds a mutex across steps
  pc,                \* the next step of search, propagator and engine
  asleep,            \* those of them that wait for a condition variable
  item, noPropagated,\* locals of the propagator
  propagated,        \* items handed to propagate(), with their multiplicity
  batch,             \* the engine's local queue
  handler,           \* the next step of the handler of a subproblem
  waitsForJob,       \* handlers that wait for cond_jobsSubmitted
  submitted, valued, \* jobs that Condor has; roots that have their value
  interrupted, cut,  \* threads and handlers with an interruption pending
  sigHandler,        \* the next step of the signal handler
  exited             \* the process has ended: exit(1), or a null dereference

searchVars == <<faults, total, maxSubprob, made, externs>>
handlerVars == <<handler, waitsForJob, submitted, valued>>
stopVars == <<interrupted, cut, sigHandler, exited>>
vars == <<searchVars, allowedThreads, searchDone, leaves, solved, activeThreads,
          condorQueue, lock, pc, asleep, item, noPropagated, propagated, batch,
          handlerVars, stopVars>>

Free(m) == lock[m] = "none"
Acquire(m, t) == lock' = [lock EXCEPT ![m] = t]
Release(ms) == lock' = [m \in Mutexes |-> IF m \in ms THEN "none" ELSE lock[m]]
Goto(t, step) == pc' = [pc EXCEPT ![t] = step]
Handler(i, step) == handler' = [handler EXCEPT ![i] = step]
At(t, step) == ~exited /\ pc[t] = step
HandlerAt(i, steps) == ~exited /\ handler[i] \in steps

Init ==
  /\ faults \in FaultSets
  /\ total \in Items /\ maxSubprob \in MaxSubprobs
  /\ made = 0 /\ externs = {}
  /\ allowedThreads = Threads /\ searchDone = FALSE
  /\ leaves = <<>> /\ solved = <<>> /\ activeThreads = {} /\ condorQueue = {}
  /\ lock = [m \in Mutexes |-> "none"]
  /\ pc = [search |-> "take", prop |-> "get", engine |-> "wait"]
  /\ asleep = {}
  /\ item = 0 /\ noPropagated = 0 /\ propagated = [i \in Items |-> 0]
  /\ batch = {}
  /\ handler = [i \in Items |-> "none"]
  /\ waitsForJob = {} /\ submitted = {} /\ valued = {}
  /\ interrupted = {} /\ cut = {} /\ sigHandler = "idle" /\ exited = FALSE

-----------------------------------------------------------------------------
(* SearchMaster::operator().  The mutex of the search space is held from   *)
(* Expand to FinishRound.                                                   *)
TakeToken ==
  /\ At("search", "take") /\ "search" \notin asleep
  /\ IF allowedThreads = 0
     THEN asleep' = asleep \cup {"search"} /\ UNCHANGED <<allowedThreads, pc>>
     ELSE /\ allowedThreads' = allowedThreads - 1
          /\ Goto("search", "expand") /\ UNCHANGED asleep
  /\ UNCHANGED <<searchVars, searchDone, leaves, solved, activeThreads, condorQueue,
                 lock, item, noPropagated, propagated, batch, handlerVars, stopVars>>

Expand ==
  /\ At("search", "expand") /\ Free("space")
  /\ Acquire("space", "search")
  /\ made' = made + 1
  /\ \/ Goto("search", "leaf") /\ UNCHANGED externs
     \/ Goto("search", "extern") /\ externs' = externs \cup {made'}
  /\ UNCHANGED <<faults, total, maxSubprob, allowedThreads, searchDone, leaves, solved,
                 activeThreads, condorQueue, asleep, item, noPropagated, propagated,
                 batch, handlerVars, stopVars>>

WakeNobody == asleep
WakePropagator == asleep \ {"prop"}
PushLeaf ==
  /\ At("search", "leaf") /\ Free("solved")
  /\ leaves' = Append(leaves, made)
  /\ asleep' = WakePropagator
  /\ Goto("search", "finish")
  /\ UNCHANGED <<searchVars, allowedThreads, searchDone, solved, activeThreads,
                 condorQueue, lock, item, noPropagated, propagated, batch,
                 handlerVars, stopVars>>

(* The thread is entered into activeThreads under the mutex under which it  *)
(* is created, so it is there whenever the propagator looks for it.         *)
EnteredTooLate == activeThreads
Entered == activeThreads \cup {made}
StartHandler ==
  /\ At("search", "extern") /\ Free("activeThreads")
  /\ activeThreads' = Entered
  /\ Handler(made, "queue")
  /\ Goto("search", "finish")
  /\ UNCHANGED <<searchVars, allowedThreads, searchDone, leaves, solved, condorQueue,
                 lock, asleep, item, noPropagated, propagated, batch,
                 waitsForJob, submitted, valued, stopVars>>

SearchIsDoneLate == made > total
SearchIsDone == made = total
Quota == maxSubprob <= Cardinality(externs)  \* m_nextThreadId counts the handlers

FinishRound ==
  /\ At("search", "finish")
  /\ IF SearchIsDone \/ Quota
     THEN /\ Free("searchDone") /\ searchDone' = TRUE
          /\ Goto("search", "done")
     ELSE UNCHANGED searchDone /\ Goto("search", "take")
  /\ Release({"space"})
  /\ UNCHANGED <<searchVars, allowedThreads, leaves, solved, activeThreads, condorQueue,
                 asleep, item, noPropagated, propagated, batch, handlerVars, stopVars>>

-----------------------------------------------------------------------------
(* BoundPropagatorMaster::operator().                                      *)
NothingToPropagate == leaves = <<>> /\ solved = <<>>

GetItem ==
  /\ At("prop", "get") /\ "prop" \notin asleep /\ Free("solved")
  /\ IF NothingToPropagate
     THEN asleep' = asleep \cup {"prop"} /\ UNCHANGED <<pc, item, leaves, lock>>
     ELSE /\ UNCHANGED asleep
          /\ IF leaves # <<>>
             THEN /\ item' = Head(leaves) /\ leaves' = Tail(leaves)
                  /\ Goto("prop", "propagate") /\ UNCHANGED lock
             ELSE /\ item' = Head(solved) /\ Acquire("solved", "prop")
                  /\ Goto("prop", "reap") /\ UNCHANGED leaves
  /\ UNCHANGED <<searchVars, allowedThreads, searchDone, solved, activeThreads,
                 condorQueue, noPropagated, propagated, batch, handlerVars, stopVars>>

(* The handler's thread is taken out of activeThreads, then joined, with    *)
(* both mutexes held, before the subproblem leaves the queue.  The test     *)
(* that find() succeeds is left out: ExternsInFlight says that it does.     *)
ReapHandler ==
  /\ At("prop", "reap") /\ Free("activeThreads")
  /\ activeThreads' = activeThreads \ {item}
  /\ Goto("prop", "join")
  /\ Acquire("activeThreads", "prop")
  /\ UNCHANGED <<searchVars, allowedThreads, searchDone, leaves, solved, condorQueue,
                 asleep, item, noPropagated, propagated, batch, handlerVars, stopVars>>

JoinHandler ==
  /\ At("prop", "join") /\ handler[item] = "ended"
  /\ solved' = Tail(solved)
  /\ Release({"activeThreads", "solved"})
  /\ Goto("prop", "propagate")
  /\ UNCHANGED <<searchVars, allowedThreads, searchDone, leaves, activeThreads,
                 condorQueue, asleep, item, noPropagated, propagated, batch,
                 handlerVars, stopVars>>

PropagateItem ==
  /\ At("prop", "propagate") /\ Free("space")
  /\ propagated' = [propagated EXCEPT ![item] = @ + 1]
  /\ noPropagated' = noPropagated + 1
  /\ Goto("prop", "more")
  /\ UNCHANGED <<searchVars, allowedThreads, searchDone, leaves, solved, activeThreads,
                 condorQueue, lock, asleep, item, batch, handlerVars, stopVars>>

CheckMore ==
  /\ At("prop", "more") /\ Free("solved")
  /\ Goto("prop", IF NothingToPropagate THEN "check" ELSE "get")
  /\ UNCHANGED <<searchVars, allowedThreads, searchDone, leaves, solved, activeThreads,
                 condorQueue, lock, asleep, item, noPropagated, propagated, batch,
                 handlerVars, stopVars>>

(* The two flags that decide about the end are read under different mutexes *)
(* and after the queues have been looked at.                                *)
ReturnsOneToken == 1
ReturnedTokens == noPropagated
CheckDone ==
  /\ At("prop", "check") /\ Free("searchDone")
  /\ IF searchDone
     THEN /\ Acquire("searchDone", "prop") /\ Goto("prop", "active")
          /\ UNCHANGED <<allowedThreads, asleep, noPropagated>>
     ELSE /\ allowedThreads' = allowedThreads + ReturnedTokens
          /\ asleep' = asleep \ {"search"}
          /\ noPropagated' = 0
          /\ Goto("prop", "get") /\ UNCHANGED lock
  /\ UNCHANGED <<searchVars, searchDone, leaves, solved, activeThreads, condorQueue,
                 item, propagated, batch, handlerVars, stopVars>>

AllDoneUnseen == TRUE
AllDone == activeThreads = {}
CheckActive ==
  /\ At("prop", "active") /\ Free("activeThreads")
  /\ Goto("prop", IF AllDone THEN "done" ELSE "get")
  /\ noPropagated' = 0
  /\ Release({"searchDone"})
  /\ UNCHANGED <<searchVars, allowedThreads, searchDone, leaves, solved, activeThreads,
                 condorQueue, asleep, item, propagated, batch, handlerVars, stopVars>>

-----------------------------------------------------------------------------
(* SubproblemCondor::operator(), the handler of subproblem i.              *)
QueueJob(i) ==
  /\ HandlerAt(i, {"queue"}) /\ Free("condorQueue")
  /\ condorQueue' = condorQueue \cup {i}
  /\ asleep' = asleep \ {"engine"}
  /\ Handler(i, "sleep")
  /\ UNCHANGED <<searchVars, allowedThreads, searchDone, leaves, solved, activeThreads,
                 lock, pc, item, noPropagated, propagated, batch,
                 waitsForJob, submitted, valued, stopVars>>

(* The handler waits with a mutex of its own and without a predicate.       *)
AwaitJob(i) ==
  /\ HandlerAt(i, {"sleep"}) /\ i \notin cut
  /\ waitsForJob' = waitsForJob \cup {i}
  /\ Handler(i, "asleep")
  /\ UNCHANGED <<searchVars, allowedThreads, searchDone, leaves, solved, activeThreads,
                 condorQueue, lock, pc, asleep, item, noPropagated, propagated, batch,
                 submitted, valued, stopVars>>

Woken(i) ==
  /\ HandlerAt(i, {"asleep"}) /\ i \notin waitsForJob
  /\ Handler(i, "condor")
  /\ UNCHANGED <<searchVars, allowedThreads, searchDone, leaves, solved, activeThreads,
                 condorQueue, lock, pc, asleep, item, noPropagated, propagated, batch,
                 waitsForJob, submitted, valued, stopVars>>

(* condor_wait fails if the job does not exist, and the process exits.      *)
NoSuchJob(i) ==
  /\ HandlerAt(i, {"condor"}) /\ i \notin submitted
  /\ exited' = TRUE
  /\ UNCHANGED <<searchVars, allowedThreads, searchDone, leaves, solved, activeThreads,
                 condorQueue, lock, pc, asleep, item, noPropagated, propagated, batch,
                 handlerVars, interrupted, cut, sigHandler>>

(* The job has ended and the value is written into the search space, not    *)
(* under its mutex; or the file is missing and the handler just returns.    *)
ReadSolution(i) ==
  /\ HandlerAt(i, {"condor"}) /\ i \in submitted
  /\ \/ Handler(i, "push") /\ valued' = valued \cup {i}
     \/ "file" \in faults /\ Handler(i, "ended") /\ UNCHANGED valued
  /\ UNCHANGED <<searchVars, allowedThreads, searchDone, leaves, solved, activeThreads,
                 condorQueue, lock, pc, asleep, item, noPropagated, propagated, batch,
                 waitsForJob, submitted, stopVars>>

PushSolved(i) ==
  /\ HandlerAt(i, {"push"}) /\ Free("solved")
  /\ solved' = Append(solved, i)
  /\ asleep' = WakePropagator
  /\ Handler(i, "ended")
  /\ UNCHANGED <<searchVars, allowedThreads, searchDone, leaves, activeThreads,
                 condorQueue, lock, pc, item, noPropagated, propagated, batch,
                 waitsForJob, submitted, valued, stopVars>>

-----------------------------------------------------------------------------
(* CondorSubmissionEngine::operator().  A batch is closed when the queue is *)
(* found empty after a pause; the queue stays locked until all its jobs are *)
(* with Condor and their handlers have been notified.                       *)
AwaitQueue ==
  /\ At("engine", "wait") /\ "engine" \notin asleep /\ Free("condorQueue")
  /\ IF condorQueue = {}
     THEN asleep' = asleep \cup {"engine"} /\ UNCHANGED <<batch, condorQueue, pc>>
     ELSE /\ batch' = batch \cup condorQueue /\ condorQueue' = {}
          /\ Goto("engine", "collect") /\ UNCHANGED asleep
  /\ UNCHANGED <<searchVars, allowedThreads, searchDone, leaves, solved, activeThreads,
                 lock, item, noPropagated, propagated, handlerVars, stopVars>>

BatchUnlocked == UNCHANGED lock
CloseBatch == Acquire("condorQueue", "engine")
Collect ==
  /\ At("engine", "collect") /\ Free("condorQueue")
  /\ IF condorQueue # {}
     THEN /\ batch' = batch \cup condorQueue /\ condorQueue' = {}
          /\ UNCHANGED <<lock, pc>>
     ELSE /\ CloseBatch /\ Goto("engine", "encode")
          /\ UNCHANGED <<batch, condorQueue>>
  /\ UNCHANGED <<searchVars, allowedThreads, searchDone, leaves, solved, activeThreads,
                 asleep, item, noPropagated, propagated, handlerVars, stopVars>>

EncodeJobs ==
  /\ At("engine", "encode") /\ Free("space")
  /\ Acquire("space", "engine")
  /\ Goto("engine", "submit")
  /\ UNCHANGED <<searchVars, allowedThreads, searchDone, leaves, solved, activeThreads,
                 condorQueue, asleep, item, noPropagated, propagated, batch,
                 handlerVars, stopVars>>

Submit ==
  /\ At("engine", "submit")
  /\ submitted' = submitted \cup batch
  /\ batch' = {}
  /\ Goto("engine", "notify")
  /\ UNCHANGED <<searchVars, allowedThreads, searchDone, leaves, solved, activeThreads,
                 condorQueue, lock, asleep, item, noPropagated, propagated,
                 handler, waitsForJob, valued, stopVars>>

(* After its last try the engine goes on without the batch, silently.       *)
GiveUp ==
  /\ At("engine", "submit") /\ "submit" \in faults
  /\ batch' = {}
  /\ Release({"space", "condorQueue"})
  /\ Goto("engine", "wait")
  /\ UNCHANGED <<searchVars, allowedThreads, searchDone, leaves, solved, activeThreads,
                 condorQueue, asleep, item, noPropagated, propagated, handlerVars,
                 stopVars>>

NotifyHandlers ==
  /\ At("engine", "notify")
  /\ waitsForJob' = {}
  /\ Release({"space", "condorQueue"})
  /\ Goto("engine", "wait")
  /\ UNCHANGED <<searchVars, allowedThreads, searchDone, leaves, solved, activeThreads,
                 condorQueue, asleep, item, noPropagated, propagated, batch,
                 handler, submitted, valued, stopVars>>

-----------------------------------------------------------------------------
(* SigHandler::operator() stops the threads in turn and joins each before   *)
(* the next; Main::runSearchDynamic stops the engine, whose loop has no end *)
(* of its own, when the other two have ended.                               *)
SigStep(from, to) ==
  /\ sigHandler = from /\ ~exited
  /\ sigHandler' = to /\ interrupted' = interrupted \cup {to}
  /\ UNCHANGED <<searchVars, allowedThreads, searchDone, leaves, solved, activeThreads,
                 condorQueue, lock, pc, asleep, item, noPropagated, propagated, batch,
                 handlerVars, cut, exited>>

Signal == "signal" \in faults /\ SigStep("idle", "prop")
StopSearch == At("prop", "done") /\ SigStep("prop", "search")
StopEngine == At("search", "done") /\ SigStep("search", "engine")

SearchJoined == At("search", "done")
BothJoined == At("search", "done") /\ At("prop", "done")
MainStopsEngine ==
  /\ BothJoined
  /\ "engine" \notin interrupted
  /\ interrupted' = interrupted \cup {"engine"}
  /\ UNCHANGED <<searchVars, allowedThreads, searchDone, leaves, solved, activeThreads,
                 condorQueue, lock, pc, asleep, item, noPropagated, propagated, batch,
                 handlerVars, cut, sigHandler, exited>>

(* An interruption is delivered where a thread waits, sleeps or joins; the  *)
(* locks it holds are released by the destructors.                          *)
InterruptLoop(t) ==
  /\ t \in interrupted \ {"engine"} /\ ~exited
  /\ t \in asleep \/ (t = "prop" /\ At("prop", "join"))
  /\ asleep' = asleep \ {t}
  /\ Release({m \in Mutexes : lock[m] = t})
  /\ Goto(t, "done")
  /\ UNCHANGED <<searchVars, allowedThreads, searchDone, leaves, solved, activeThreads,
                 condorQueue, item, noPropagated, propagated, batch, handlerVars, stopVars>>

InterruptEngine ==
  /\ "engine" \in interrupted /\ Free("activeThreads")
  /\ At("engine", "wait") \/ At("engine", "collect")
       \/ (At("engine", "submit") /\ "submit" \in faults)
  /\ asleep' = asleep \ {"engine"}
  /\ lock' = [m \in Mutexes |-> IF m = "activeThreads" THEN "engine"
                                ELSE IF lock[m] = "engine" THEN "none" ELSE lock[m]]
  /\ cut' = activeThreads
  /\ Goto("engine", "joinAll")
  /\ UNCHANGED <<searchVars, allowedThreads, searchDone, leaves, solved, activeThreads,
                 condorQueue, item, noPropagated, propagated, batch, handlerVars,
                 interrupted, sigHandler, exited>>

JoinAll ==
  /\ At("engine", "joinAll")
  /\ \A i \in activeThreads : handler[i] = "ended"
  /\ Release({"activeThreads"})
  /\ Goto("engine", "done")
  /\ UNCHANGED <<searchVars, allowedThreads, searchDone, leaves, solved, activeThreads,
                 condorQueue, asleep, item, noPropagated, propagated, batch,
                 handlerVars, stopVars>>

(* The catch clause uses waitProc, which is still NULL unless the handler   *)
(* has got past cond_jobsSubmitted; there the job is removed, and the       *)
(* subproblem is pushed although it has no value.                           *)
CutHandler(i) ==
  /\ i \in cut
  /\ \/ HandlerAt(i, {"sleep", "asleep"}) /\ exited' = TRUE /\ UNCHANGED handler
     \/ HandlerAt(i, {"condor"}) /\ Handler(i, "push") /\ UNCHANGED exited
  /\ UNCHANGED <<searchVars, allowedThreads, searchDone, leaves, solved, activeThreads,
                 condorQueue, lock, pc, asleep, item, noPropagated, propagated, batch,
                 waitsForJob, submitted, valued, interrupted, cut, sigHandler>>

SpuriousWakeup ==
  /\ "spurious" \in faults /\ ~exited
  /\ \/ \E t \in asleep \ interrupted : asleep' = asleep \ {t} /\ UNCHANGED waitsForJob
     \/ \E i \in waitsForJob : waitsForJob' = waitsForJob \ {i} /\ UNCHANGED asleep
  /\ UNCHANGED <<searchVars, allowedThreads, searchDone, leaves, solved, activeThreads,
                 condorQueue, lock, pc, item, noPropagated, propagated, batch,
                 handler, submitted, valued, stopVars>>

-----------------------------------------------------------------------------
Search == TakeToken \/ Expand \/ PushLeaf \/ StartHandler \/ FinishRound
Propagator ==
  \/ GetItem \/ ReapHandler \/ JoinHandler \/ PropagateItem \/ CheckMore
  \/ CheckDone \/ CheckActive
HandlerOf(i) ==
  \/ QueueJob(i) \/ AwaitJob(i) \/ Woken(i) \/ NoSuchJob(i) \/ ReadSolution(i)
  \/ PushSolved(i) \/ CutHandler(i)
Engine ==
  \/ AwaitQueue \/ Collect \/ EncodeJobs \/ Submit \/ GiveUp \/ NotifyHandlers
  \/ InterruptEngine \/ JoinAll
Stop == StopSearch \/ StopEngine \/ MainStopsEngine \/ \E t \in Workers : InterruptLoop(t)

Next ==
  \/ Search \/ Propagator \/ Engine \/ Stop
  \/ \E i \in Items : HandlerOf(i)
  \/ Signal \/ SpuriousWakeup

(* Every thread that can take a step is scheduled at some time, and Condor  *)
(* comes back with an answer for every job it has accepted.  Nobody has to  *)
(* send a signal.                                                           *)
Fairness ==
  /\ WF_vars(Search) /\ WF_vars(Propagator) /\ WF_vars(Engine) /\ WF_vars(Stop)
  /\ \A i \in Items : WF_vars(HandlerOf(i))

Spec == Init /\ [][Next]_vars /\ Fairness

-----------------------------------------------------------------------------
Made == 1 .. made
Leaves == Made \ externs

TypeOK ==
  /\ faults \in FaultSets
  /\ total \in Items /\ maxSubprob \in MaxSubprobs
  /\ made \in 0 .. total /\ externs \subseteq Made
  /\ allowedThreads \in Nat /\ searchDone \in BOOLEAN
  /\ leaves \in Seq(Leaves) /\ solved \in Seq(externs)
  /\ activeThreads \subseteq externs /\ condorQueue \subseteq externs
  /\ lock \in [Mutexes -> Workers \cup {"none"}]
  /\ pc \in [Workers -> {"take", "expand", "leaf", "extern", "finish",
                         "get", "reap", "join", "propagate", "more", "check", "active",
                         "wait", "collect", "encode", "submit", "notify", "joinAll",
                         "done"}]
  /\ asleep \subseteq Workers
  /\ item \in 0 .. made /\ noPropagated \in Nat /\ propagated \in [Items -> Nat]
  /\ batch \subseteq externs
  /\ handler \in [Items -> {"none", "queue", "sleep", "asleep", "condor", "push", "ended"}]
  /\ waitsForJob \subseteq externs /\ submitted \subseteq externs
  /\ valued \subseteq externs
  /\ interrupted \subseteq Workers /\ cut \subseteq externs
  /\ sigHandler \in {"idle"} \cup Workers /\ exited \in BOOLEAN

(* The propagator declares the problem solved (allDone) only when every     *)
(* subproblem that was cut off has been solved and propagated, whatever     *)
(* files were lost and however handlers, engine and search were scheduled.  *)
ExternsComplete ==
  pc["prop"] = "done" /\ sigHandler = "idle" => \A i \in externs : propagated[i] > 0

(* While the propagator runs, a subproblem that has been cut off and not    *)
(* yet handed to it is in activeThreads or is the item it has just reaped:  *)
(* find() in the clean-up succeeds, and the test for activeThreads.empty()  *)
(* sees every subproblem that is outstanding.                               *)
ExternsInFlight ==
  \A i \in externs :
    \/ i \in activeThreads
    \/ propagated[i] > 0
    \/ i = item /\ pc["prop"] \in {"join", "propagate", "done"}
    \/ i = made /\ pc["search"] = "extern"

(* No item is propagated twice, and a subproblem is propagated only with    *)
(* the value its job has returned: a handler that was interrupted pushes    *)
(* its subproblem without one, and the order in which the threads are       *)
(* stopped sees to it that nobody takes it from the queue.                  *)
PropagatedOnceWithValue ==
  \A i \in Items : propagated[i] > 0 => propagated[i] = 1 /\ (i \in externs => i \in valued)

(* allowedThreads and the items in flight add up to the limit until the     *)
(* search is done: the search is neither starved by tokens that got lost    *)
(* nor lets more than that many items be processed at a time.               *)
TokensInUse ==
  noPropagated + (IF pc["search"] = "expand" THEN 1 ELSE 0)
    + Cardinality({i \in Made : propagated[i] = 0})
TokensConserved ==
  /\ allowedThreads + TokensInUse <= Threads
  /\ ~searchDone => allowedThreads + TokensInUse = Threads

(* A handler gets past cond_jobsSubmitted only when its own job is with     *)
(* Condor, although it waits without a predicate and the engine wakes all   *)
(* handlers at once: the queue is locked and empty when it does.  Only a    *)
(* submission that failed or a spurious wake-up can undo this.              *)
GoesOnWithOwnJob ==
  faults \cap {"submit", "spurious"} = {} =>
    \A i \in Items : handler[i] = "asleep" /\ i \notin waitsForJob => i \in submitted

(* Everything ends, unless a handler waits for a notification that is past  *)
(* or was never sent (its job has left the queue and the batch), or a       *)
(* solution file never came.  These are the only ways to hang: no cycle of  *)
(* mutexes, no token that is lost and no signal is another one.             *)
MissedWakeup == waitsForJob \ (condorQueue \cup batch) # {}
LostFile == \E i \in activeThreads : handler[i] = "ended" /\ i \notin valued
Ended == exited \/ pc["engine"] = "done"
EndsUnlessLost == <>Ended \/ <>[](MissedWakeup \/ LostFile)

(* "TODO: Make sure race condition can't happen" (BoundPropagatorMaster.cpp): *)
(* when the propagator has ended, everything the search has found by then    *)
(* has been propagated, leaves too.                                          *)
EverythingPropagated ==
  pc["prop"] = "done" /\ sigHandler = "idle" => \A i \in Made : propagated[i] = 1
=============================================================================
