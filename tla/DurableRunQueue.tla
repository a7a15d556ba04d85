--------------------------- MODULE DurableRunQueue ---------------------------
(***************************************************************************)
(* The scheduler, src/scheduler/durable-run-queue.ts, at the grain of the  *)
(* event loop: whatever runs between two awaits is one action, and the     *)
(* continuations of different runs interleave freely.  The process may     *)
(* exit at any step and be started again; the runs and threads tables      *)
(* survive, everything else is lost.                                       *)
(*                                                                         *)
(* The executor is an environment here: it reports progress, maps or       *)
(* tombstones the thread, and returns or throws.  The per-key mutex is one *)
(* semaphore of capacity 1 per thread, as module SchedulerLocks shows.     *)
(***************************************************************************)
EXTENDS RunStore, AsyncSemaphore, Integers, FiniteSets

CONSTANTS
    Runs,               \* run ids; their order is the order of the id column
    Threads,
    ThreadOf, OpOf,     \* the thread and the operation of each run
    MaxConcurrentRuns,
    MaxQueueDepth,
    Reports,            \* the progress reports the executor may make
    Results,            \* the outcomes it may come to
    Waited,             \* the runs some caller may wait for
    IdleAwaited,        \* some caller may wait for the queue to be idle
    SameMillisecond,    \* two runs may be accepted in one millisecond
    GateMayFlip         \* canDispatch() may change its answer within a step

(* What BrowserRunExecutor passes to updateProgress ... *)
AllReports ==
    {[state |-> "navigating", sub |-> "keep"],
     [state |-> "submitting", sub |-> "typed"],
     [state |-> "submitting", sub |-> "submitted_unconfirmed"],
     [state |-> "running", sub |-> "keep"],
     [state |-> "running", sub |-> "confirmed"]}

(* ... and what it returns or throws.                                      *)
AllResults ==
    {[state |-> "succeeded", err |-> "none"],
     [state |-> "failed", err |-> "other"],
     [state |-> "failed", err |-> "browser_closed"],
     [state |-> "needs_attention", err |-> "submission_ambiguous"],
     [state |-> "needs_attention", err |-> "other"]}

ASSUME QueueAssumptions ==
    /\ Runs \subseteq Nat /\ IsFiniteSet(Runs)
    /\ IsFiniteSet(Threads)
    /\ ThreadOf \in [Runs -> Threads]
    /\ OpOf \in [Runs -> OPERATION_TYPES]
    /\ MaxConcurrentRuns \in Nat \ {0}
    /\ MaxQueueDepth \in Nat \ {0}
    /\ Reports \subseteq AllReports
    /\ Results \subseteq AllResults
    /\ Waited \subseteq Runs
    /\ IdleAwaited \in BOOLEAN
    /\ SameMillisecond \in BOOLEAN
    /\ GateMayFlip \in BOOLEAN

VARIABLES
    runs,           \* durable: the runs table, NoRun where there is no row
    createdAt,      \* durable: created_at, as a count of milliseconds
    threads,        \* durable: the threads table
    life,           \* of the process: down, starting (in start()), running,
                    \* stopping (closed, draining) or stopped
    gate,           \* what the dispatch gate answers
    pumpScheduled,
    task,           \* where the promise of each launched run is
    permits,        \* the semaphore of maxConcurrentRuns
    threadLocks,    \* the mutex of each thread
    runWaiters,     \* runs with an unanswered waitForRun
    idleWaiter,     \* a waitForIdle is unanswered
    acceptedAt      \* history: the order in which runs were accepted

durable == <<runs, createdAt, threads, acceptedAt>>
sync == <<permits, threadLocks>>
vars == <<durable, life, gate, pumpScheduled, task, sync, runWaiters, idleWaiter>>

-----------------------------------------------------------------------------
NoRun == [NewRun EXCEPT !.state = "absent"]

Queued == {r \in Runs : runs[r].state = "queued"}

inFlight == {r \in Runs : task[r] # "none"}

(* ORDER BY created_at, id *)
Before(q, r) == createdAt[q] < createdAt[r] \/ (createdAt[q] = createdAt[r] /\ q < r)

(* listQueued(maxQueueDepth) *)
Candidates == {r \in Queued : Cardinality({q \in Queued : Before(q, r)}) < MaxQueueDepth}

isIdle == inFlight = {} /\ Queued = {}

(* schedulePump, in a step that leaves the process in state l. *)
schedulePump(l) == pumpScheduled' = (pumpScheduled \/ l = "running")

(* resolveIdleWaiters, with the state the step leaves behind. *)
resolveIdleWaiters == idleWaiter' = (idleWaiter /\ ~isIdle')

(* notifyRunWaiters(r) *)
ignoreRunWaiters(r) == UNCHANGED runWaiters    \* Mutant
notifyRunWaiters(r) ==
    runWaiters' = IF isWaitTerminal(runs'[r].state) THEN runWaiters \ {r} ELSE runWaiters

Init ==
    /\ runs = [r \in Runs |-> NoRun]
    /\ createdAt = [r \in Runs |-> 0]
    /\ acceptedAt = [r \in Runs |-> 0]
    /\ threads = [t \in Threads |-> NewThread]
    /\ life = "down"
    /\ gate = FALSE
    /\ pumpScheduled = FALSE
    /\ task = [r \in Runs |-> "none"]
    /\ permits = NewSemaphore(MaxConcurrentRuns)
    /\ threadLocks = [t \in Threads |-> NewSemaphore(1)]
    /\ runWaiters = {}
    /\ idleWaiter = FALSE

-----------------------------------------------------------------------------
(* The process: start(), close(), exit. *)

(* A new process makes a new queue and enters start(). *)
EnterStart ==
    /\ life = "down"
    /\ life' = "starting"
    /\ UNCHANGED <<durable, gate, pumpScheduled, task, sync, runWaiters, idleWaiter>>

(* reconcileInterruptedRuns runs inside start(). *)
SweepAnyTime == life \in {"starting", "running"}    \* Mutant
Reconciling == life = "starting"

Recoverable == {r \in Runs : isRecoverable(runs[r], OpOf[r], threads[ThreadOf[r]])}
ActiveRuns == {r \in Runs : isActiveRunState(runs[r].state)}

(* reconcileInterruptedRuns: first every recoverable browser failure ...   *)
RequeueRecoverable(r) ==
    /\ Reconciling
    /\ r \in Recoverable
    /\ runs' = [runs EXCEPT ![r] = requeueForRecovery(@)]
    /\ threads' = [threads EXCEPT ![ThreadOf[r]] = setState(@, "running")]
    /\ UNCHANGED <<createdAt, acceptedAt, life, gate, pumpScheduled, task, sync,
                   runWaiters, idleWaiter>>

(* ... then every active run, each in a transaction of its own.            *)
ReconcileActive(r) ==
    /\ Reconciling
    /\ Recoverable = {}
    /\ r \in ActiveRuns
    /\ LET th == threads[ThreadOf[r]]
       IN  /\ runs' = [runs EXCEPT ![r] = reconciledRun(@, OpOf[r], th)]
           /\ threads' = [threads EXCEPT ![ThreadOf[r]] =
                              reconciledThread(runs[r], OpOf[r], @)]
    /\ UNCHANGED <<createdAt, acceptedAt, life, gate, pumpScheduled, task, sync,
                   runWaiters, idleWaiter>>

FailuresReconciled == Recoverable = {}    \* Mutant
AllReconciled == Recoverable = {} /\ ActiveRuns = {}

LeaveStart ==
    /\ life = "starting"
    /\ AllReconciled
    /\ life' = "running"
    /\ schedulePump("running")
    /\ UNCHANGED <<durable, gate, task, sync, runWaiters, idleWaiter>>

(* close(): no more launches; the gate's listener is removed. *)
Close ==
    /\ life = "running"
    /\ life' = "stopping"
    /\ UNCHANGED <<durable, gate, pumpScheduled, task, sync, runWaiters, idleWaiter>>

(* The promises in flight when close() was called have settled. *)
Drained == inFlight = {}

FinishClose ==
    /\ life = "stopping"
    /\ Drained
    /\ life' = "stopped"
    /\ runWaiters' = {}
    /\ idleWaiter' = FALSE
    /\ UNCHANGED <<durable, gate, pumpScheduled, task, sync>>

(* The process exits, in an orderly way or not. *)
Exit ==
    /\ life # "down"
    /\ life' = "down"
    /\ pumpScheduled' = FALSE
    /\ task' = [r \in Runs |-> "none"]
    /\ permits' = NewSemaphore(MaxConcurrentRuns)
    /\ threadLocks' = [t \in Threads |-> NewSemaphore(1)]
    /\ runWaiters' = {}
    /\ idleWaiter' = FALSE
    /\ gate' = FALSE
    /\ UNCHANGED durable

-----------------------------------------------------------------------------
(* Callers. *)

(* The clock stands still or moves between two acceptances. *)
NextCreatedAt ==
    LET used == {0} \cup {createdAt[r] : r \in Runs}
    IN  {ms \in 1..Cardinality(Runs) :
            /\ ms - 1 \in used
            /\ \A n \in used : n <= ms
            /\ ms \in used => SameMillisecond}

(* The id of a new run is not in the table. *)
AnyId(r) == TRUE    \* Mutant
FreshId(r) == runs[r] = NoRun

(* enqueue() of a new run.  A retry with a known idempotency key is        *)
(* answered with the existing run and changes nothing here.                *)
Enqueue(r) ==
    /\ life = "running"
    /\ FreshId(r)
    /\ Cardinality(Queued) < MaxQueueDepth
    /\ runs' = [runs EXCEPT ![r] = NewRun]
    /\ \E ms \in NextCreatedAt : createdAt' = [createdAt EXCEPT ![r] = ms]
    /\ acceptedAt' = [acceptedAt EXCEPT ![r] =
                          Cardinality({q \in Runs : runs[q] # NoRun}) + 1]
    /\ schedulePump(life)
    /\ UNCHANGED <<threads, life, gate, task, sync, runWaiters, idleWaiter>>

(* waitForRun() of a run that is not settled; otherwise it is answered at  *)
(* once, and after close() it is refused.                                  *)
WaitForRun(r) ==
    /\ r \in Waited
    /\ life = "running"
    /\ runs[r] # NoRun /\ ~isWaitTerminal(runs[r].state)
    /\ runWaiters' = runWaiters \cup {r}
    /\ UNCHANGED <<durable, life, gate, pumpScheduled, task, sync, idleWaiter>>

WaitForIdle ==
    /\ IdleAwaited
    /\ life \in {"running", "stopping", "stopped"}
    /\ ~isIdle
    /\ idleWaiter' = TRUE
    /\ UNCHANGED <<durable, life, gate, pumpScheduled, task, sync, runWaiters>>

(* The gate changes its answer and calls its listener, which close() has   *)
(* removed.                                                                *)
NoListener == UNCHANGED pumpScheduled    \* Mutant
GateListener == schedulePump(life)

GateChange ==
    /\ life \notin {"down", "starting"}
    /\ gate' = ~gate
    /\ GateListener
    /\ UNCHANGED <<durable, life, task, sync, runWaiters, idleWaiter>>

-----------------------------------------------------------------------------
(* The pump, a microtask. *)

(* Mutant: the threads in flight are not skipped. *)
LaunchableIgnoringInFlight ==
    {r \in Candidates \ inFlight :
        \A q \in Candidates : ThreadOf[q] = ThreadOf[r] => ~Before(q, r)}

(* The loop over the candidates launches the first of each thread that has *)
(* nothing in flight, in order, until the slots are taken.                 *)
Launchable ==
    {r \in Candidates :
        /\ \A q \in inFlight : ThreadOf[q] # ThreadOf[r]
        /\ \A q \in Candidates : ThreadOf[q] = ThreadOf[r] => ~Before(q, r)}

(* Mutant: the limit is on one pump, not on what is in flight. *)
LaunchedPerPump ==
    {r \in Launchable : Cardinality({q \in Launchable : Before(q, r)}) < MaxConcurrentRuns}

Launched ==
    {r \in Launchable :
        Cardinality(inFlight) + Cardinality({q \in Launchable : Before(q, r)})
            < MaxConcurrentRuns}

Pump ==
    /\ pumpScheduled
    /\ pumpScheduled' = FALSE
    /\ UNCHANGED <<durable, life, gate, sync, runWaiters>>
    /\ IF life = "running" /\ gate
       THEN /\ task' = [r \in Runs |-> IF r \in Launched THEN "launched" ELSE task[r]]
            /\ resolveIdleWaiters
       ELSE UNCHANGED <<task, idleWaiter>>

-----------------------------------------------------------------------------
(* The promise of a launched run: permit, thread lock, claim, executor,    *)
(* then the same way out.                                                  *)

CallAcquire(r) ==
    /\ task[r] = "launched"
    /\ permits' = Acquire(permits, r)
    /\ task' = [task EXCEPT ![r] = "permit"]
    /\ UNCHANGED <<durable, life, gate, pumpScheduled, threadLocks, runWaiters, idleWaiter>>

CallLock(r) ==
    /\ task[r] = "permit"
    /\ r \in permits.holders
    /\ threadLocks' = [threadLocks EXCEPT ![ThreadOf[r]] = Acquire(@, r)]
    /\ task' = [task EXCEPT ![r] = "lock"]
    /\ UNCHANGED <<durable, life, gate, pumpScheduled, permits, runWaiters, idleWaiter>>

(* executeClaimedRun up to the call of the executor.                       *)
Claim(r) ==
    /\ gate
    /\ runs[r].state = "queued"
    /\ runs' = [runs EXCEPT ![r] = claimQueued(@, @.phase)]
    /\ task' = [task EXCEPT ![r] = "executing"]
    /\ UNCHANGED gate

(* The gate is closed, or the run is no longer queued.                     *)
SkipClaim(r) ==
    /\ ~gate \/ runs[r].state # "queued"
    /\ task' = [task EXCEPT ![r] = "returned"]
    /\ UNCHANGED <<runs, gate>>

(* The gate is open before the claim and closed after it: the claim is     *)
(* released, or releaseClaim throws and leaves the run claimed.            *)
ClaimThenRelease(r) ==
    /\ GateMayFlip
    /\ gate
    /\ runs[r].state = "queued"
    /\ LET claimed == claimQueued(runs[r], runs[r].phase)
       IN  runs' = [runs EXCEPT ![r] = IF canReleaseClaim(claimed)
                                      THEN releaseClaim(claimed) ELSE claimed]
    /\ task' = [task EXCEPT ![r] = "returned"]
    /\ gate' = FALSE

ExecuteClaimedRun(r) ==
    /\ task[r] = "lock"
    /\ r \in threadLocks[ThreadOf[r]].holders
    /\ Claim(r) \/ SkipClaim(r) \/ ClaimThenRelease(r)
    /\ UNCHANGED <<createdAt, acceptedAt, threads, life, pumpScheduled, sync,
                   runWaiters, idleWaiter>>

(* The executor reports progress: "typed" once, before the submission, and *)
(* nothing but "running" during a recovery.  A report the table forbids    *)
(* throws.                                                                 *)
UpdateProgress(r, p) ==
    /\ task[r] = "executing"
    /\ runs[r].phase = "recovery_pending" => p.state = "running"
    /\ p.sub = "typed" => runs[r].state = "navigating"
    /\ OpOf[r] = "delete_thread" => p.sub = "keep"
    /\ canTransitionRunState(runs[r].state, p.state)
    /\ runs' = [runs EXCEPT ![r] = transition(@, p.state, "other", p.sub, "none")]
    /\ UNCHANGED <<createdAt, acceptedAt, threads, life, gate, pumpScheduled, task,
                   sync, runWaiters, idleWaiter>>

(* What the executor does to the thread that the queue can see. *)
ExecutorMarksThread(r) ==
    /\ task[r] = "executing"
    /\ \E th \in IF OpOf[r] = "delete_thread"
                  THEN {setState(threads[ThreadOf[r]], "deleted_local"),
                        setState(threads[ThreadOf[r]], "deleted_remote")}
                  ELSE {setRemoteMapping(threads[ThreadOf[r]])} :
          threads' = [threads EXCEPT ![ThreadOf[r]] = th]
    /\ UNCHANGED <<runs, createdAt, acceptedAt, life, gate, pumpScheduled, task,
                   sync, runWaiters, idleWaiter>>

(* The executor returns, persistOutcome; or it throws, which is persisted  *)
(* as a failure.                                                           *)
persistOutcome(run, res) == transition(run, res.state, "other", "keep", res.err)

ExecutorSettles(r, res) ==
    /\ task[r] = "executing"
    /\ runs' = [runs EXCEPT ![r] = persistOutcome(@, res)]
    /\ notifyRunWaiters(r)
    /\ task' = [task EXCEPT ![r] = "returned"]
    /\ UNCHANGED <<createdAt, acceptedAt, threads, life, gate, pumpScheduled, sync,
                   idleWaiter>>

ReleaseLock(r) ==
    /\ task[r] = "returned"
    /\ threadLocks' = [threadLocks EXCEPT ![ThreadOf[r]] = Release(@, r)]
    /\ task' = [task EXCEPT ![r] = "unlocked"]
    /\ UNCHANGED <<durable, life, gate, pumpScheduled, permits, runWaiters, idleWaiter>>

ReleasePermit(r) ==
    /\ task[r] = "unlocked"
    /\ permits' = Release(permits, r)
    /\ task' = [task EXCEPT ![r] = "settling"]
    /\ UNCHANGED <<durable, life, gate, pumpScheduled, threadLocks, runWaiters, idleWaiter>>

(* The finally block of launch. *)
SettleWithoutPump(r) ==    \* Mutant
    /\ task[r] = "settling"
    /\ UNCHANGED <<durable, life, gate, pumpScheduled, sync, runWaiters>>
    /\ task' = [task EXCEPT ![r] = "none"]
    /\ resolveIdleWaiters
Settle(r) ==
    /\ task[r] = "settling"
    /\ UNCHANGED <<durable, life, gate, sync, runWaiters>>
    /\ task' = [task EXCEPT ![r] = "none"]
    /\ schedulePump(life)
    /\ resolveIdleWaiters

-----------------------------------------------------------------------------
Process == EnterStart \/ LeaveStart \/ Close \/ FinishClose \/ Exit

Step(r) ==
    \/ RequeueRecoverable(r) \/ ReconcileActive(r)
    \/ CallAcquire(r) \/ CallLock(r) \/ ExecuteClaimedRun(r)
    \/ ReleaseLock(r) \/ ReleasePermit(r) \/ Settle(r)

Executor(r) ==
    \/ \E p \in Reports : UpdateProgress(r, p)
    \/ ExecutorMarksThread(r)
    \/ \E res \in Results : ExecutorSettles(r, res)

Next ==
    \/ Process
    \/ GateChange \/ WaitForIdle \/ Pump
    \/ \E r \in Runs : Enqueue(r) \/ WaitForRun(r) \/ Step(r) \/ Executor(r)

Safety == Init /\ [][Next]_vars

(* The event loop runs every continuation, the executor comes back (each   *)
(* wait of the adapter has a timeout), and a supervisor starts the process *)
(* again.  Nothing obliges callers to call, the gate to open, anyone to    *)
(* close the queue or the process to exit.                                 *)
Fairness ==
    /\ WF_vars(EnterStart) /\ WF_vars(LeaveStart)
    /\ WF_vars(FinishClose) /\ WF_vars(Pump)
    /\ \A r \in Runs :
          /\ WF_vars(RequeueRecoverable(r)) /\ WF_vars(ReconcileActive(r))
          /\ WF_vars(CallAcquire(r)) /\ WF_vars(CallLock(r))
          /\ WF_vars(ExecuteClaimedRun(r))
          /\ WF_vars(\E res \in Results : ExecutorSettles(r, res))
          /\ WF_vars(ReleaseLock(r)) /\ WF_vars(ReleasePermit(r)) /\ WF_vars(Settle(r))

Spec == Safety /\ Fairness

-----------------------------------------------------------------------------
TaskStates == {"none", "launched", "permit", "lock", "executing", "returned",
               "unlocked", "settling"}

TypeOK ==
    /\ runs \in [Runs -> RunRecords \cup {NoRun}]
    /\ createdAt \in [Runs -> Nat]
    /\ acceptedAt \in [Runs -> Nat]
    /\ threads \in [Threads -> ThreadRecords]
    /\ life \in {"down", "starting", "running", "stopping", "stopped"}
    /\ gate \in BOOLEAN
    /\ pumpScheduled \in BOOLEAN
    /\ task \in [Runs -> TaskStates]
    /\ permits \in Semaphores(Runs)
    /\ threadLocks \in [Threads -> Semaphores(Runs)]
    /\ runWaiters \in SUBSET Runs
    /\ idleWaiter \in BOOLEAN

(* Same-thread serialization (README, line 8), in memory: whatever the     *)
(* order of pumps, claims and settlements, the queue never has two runs of *)
(* one thread in flight.                                                   *)
ThreadSerialization ==
    \A q, r \in inFlight : ThreadOf[q] = ThreadOf[r] => q = r

(* The concurrency bound, and the reason the semaphore never makes a run   *)
(* wait: the pump launches no more runs than there are permits.            *)
BoundedConcurrency ==
    /\ Cardinality(inFlight) <= MaxConcurrentRuns
    /\ permits.waiters = <<>>
    /\ \A t \in Threads : threadLocks[t].waiters = <<>>

(* Once start() has returned, a row says navigating, submitting or running *)
(* exactly while an executor call in this process is working on it: no run *)
(* is left active by a crash, an exception or an orderly close.            *)
ActiveMeansExecuting ==
    life \in {"running", "stopping", "stopped"} =>
        ActiveRuns = {r \in Runs : task[r] = "executing"}

(* No lost wake-up of the pump: with the gate open, a run the pump would   *)
(* launch has a pump coming.  (A restart may queue more runs again than    *)
(* listQueued returns: a run past that limit waits for the next settlement *)
(* even if a slot is free, hence the last condition.)                      *)
WorkConserving ==
    /\ life = "running" /\ gate
    /\ Launched # {}
    /\ Cardinality(Queued \cup inFlight) <= MaxQueueDepth
    => pumpScheduled

(* What is known of a submission is never forgotten: no restart, release   *)
(* or retry turns "may have reached ChatGPT" back into "did not".          *)
NeverForgetsSubmission ==
    [][\A r \in Runs : hasPossibleRemoteSideEffect(runs[r])
                          => hasPossibleRemoteSideEffect(runs'[r])]_vars

(* The outcome a waiter was given stays the outcome while the service is   *)
(* up; a restart may retry a failed run, never one that succeeded or was   *)
(* cancelled.                                                              *)
OutcomeStands ==
    [][\A r \in Runs : isWaitTerminal(runs[r].state) /\ runs'[r] # runs[r] =>
          life = "starting" /\ runs[r].state \notin {"succeeded", "cancelled"}]_vars

(* waitForRun and waitForIdle: nobody waits for a run that has settled, or *)
(* for idleness while the queue is idle.                                   *)
NoForgottenWaiter ==
    /\ \A r \in runWaiters : ~isWaitTerminal(runs[r].state)
    /\ idleWaiter => ~isIdle

(* While the service stays up and its gate open, every queued run settles. *)
QueuedEventuallySettles ==
    <>[](life = "running" /\ gate) =>
        \A r \in Runs : runs[r].state = "queued" ~> isWaitTerminal(runs[r].state)

StageOf(state) ==
    CASE state \in {"absent", "queued"} -> state
      [] isActiveRunState(state) -> "active"
      [] state \in {"succeeded", "cancelled"} -> "final"
      [] OTHER -> "parked"

Contract == INSTANCE RunQueueContract
                WITH stage <- [r \in Runs |-> StageOf(runs[r].state)],
                     up <- life \in {"running", "stopping", "stopped"}

(* The queue keeps its contract. *)
QueueKeepsContract == Contract!Spec
=============================================================================
