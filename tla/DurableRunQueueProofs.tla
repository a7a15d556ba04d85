------------------------ MODULE DurableRunQueueProofs ------------------------
(***************************************************************************)
(* Proofs about DurableRunQueue, for any number of runs, threads, permits  *)
(* and queue slots, and about the process that uses it.                    *)
(*                                                                         *)
(* Serialization and the concurrency bound are kept by the pump alone: the *)
(* claims, locks and settlements only take runs out of flight (LaunchBound *)
(* counts what one pump adds).  That the locks never make a run wait then  *)
(* follows from who is at them (PermitSide, LockSide).  What is promised   *)
(* about rows and waiters needs to know which tasks have an active row     *)
(* (ExecutingActive) and that a run that was never started over has        *)
(* nothing submitted (Unsubmitted).                                        *)
(*                                                                         *)
(* The second part is that the queue implements RunQueueContract, the      *)
(* third that no wake-up of its pump is lost, the last that the process    *)
(* uses it as it says it is used (ProxyRuntime).                           *)
(***************************************************************************)
EXTENDS ProxyRuntime, AsyncSemaphoreProofs

(* What a transition may say of the submission. *)
SubInputs == SUBMISSION_STATES \cup {"keep"}

(* The rows a restart, a claim or an outcome write are rows. *)
LEMMA TransitionType ==
    ASSUME NEW run \in RunRecords, NEW state \in RUN_STATES, NEW phase \in PHASES,
           NEW sub \in SubInputs, NEW err \in ERRORS
    PROVE  /\ transition(run, state, phase, sub, err) \in RunRecords
           /\ transition(run, state, phase, sub, err).state = state
           /\ transition(run, state, phase, sub, err).phase = phase
           /\ state # "queued" /\ sub = "keep" =>
                 transition(run, state, phase, sub, err).sub = run.sub
           /\ state # "queued" /\ sub # "keep" =>
                 transition(run, state, phase, sub, err).sub = sub
<1>1. run.sub \in SUBMISSION_STATES
    BY DEF RunRecords
<1> DEFINE s == CASE state = "queued" -> "not_started"
                  [] state # "queued" /\ sub = "keep" -> run.sub
                  [] OTHER -> sub
<1>2. /\ s \in SUBMISSION_STATES
      /\ state # "queued" /\ sub = "keep" => s = run.sub
      /\ state # "queued" /\ sub # "keep" => s = sub
    <2>1. CASE state = "queued"
        BY <2>1 DEF SUBMISSION_STATES
    <2>2. CASE state # "queued" /\ sub = "keep"
        BY <1>1, <2>2
    <2>3. CASE state # "queued" /\ sub # "keep"
        BY <2>3 DEF SubInputs
    <2> QED
        BY <2>1, <2>2, <2>3
<1>3. transition(run, state, phase, sub, err) = [state |-> state, phase |-> phase,
                                                 sub |-> s, err |-> err]
    BY DEF transition
<1> HIDE DEF s
<1> QED
    BY <1>2, <1>3 DEF RunRecords

(* What the statements make of a row is a row. *)
LEMMA RowTypes ==
    ASSUME NEW run \in RunRecords
    PROVE  /\ claimQueued(run, run.phase) \in RunRecords
           /\ claimQueued(run, run.phase).state = "navigating"
           /\ claimQueued(run, run.phase).phase = run.phase
           /\ claimQueued(run, run.phase).sub = run.sub
           /\ requeueForRecovery(run) \in RunRecords
           /\ requeueForRecovery(run).state = "queued"
           /\ requeueForRecovery(run).phase = "recovery_pending"
           /\ requeueForRecovery(run).sub = run.sub
BY DEF RunRecords, claimQueued, requeueForRecovery, RUN_STATES, PHASES, ERRORS

(* The row of an accepted run. *)
LEMMA NewRunType ==
    /\ NewRun \in RunRecords
    /\ NewRun.state = "queued" /\ NewRun.phase = "other" /\ NewRun.sub = "not_started"
    /\ NoRun.state = "absent" /\ NoRun.phase = "other" /\ NoRun.sub = "not_started"
BY DEF NewRun, NoRun, RunRecords, RUN_STATES, PHASES, SUBMISSION_STATES, ERRORS

(* What the statements make of the row of a thread is one. *)
LEMMA ThreadTypes ==
    ASSUME NEW th \in ThreadRecords, NEW state \in THREAD_STATES
    PROVE  setState(th, state) \in ThreadRecords /\ setRemoteMapping(th) \in ThreadRecords
BY DEF ThreadRecords, setState, setRemoteMapping, DELETED

(* A restart leaves no run active, and keeps what is known of a submission. *)
LEMMA ReconciledRun ==
    ASSUME NEW run \in RunRecords, NEW op, NEW th
    PROVE  /\ reconciledRun(run, op, th) \in RunRecords
           /\ ~isActiveRunState(reconciledRun(run, op, th).state)
           /\ hasPossibleRemoteSideEffect(run) =>
                 hasPossibleRemoteSideEffect(reconciledRun(run, op, th))
           /\ reconciledRun(run, op, th).state \in {"queued", "navigating"} =>
                 reconciledRun(run, op, th).phase = "recovery_pending"
<1> DEFINE r == reconciledRun(run, op, th)
<1> USE DEF isActiveRunState, ACTIVE, hasPossibleRemoteSideEffect
<1>0. run.sub \in SUBMISSION_STATES
    BY DEF RunRecords
<1>1. CASE isDeleted(th)
    <2>1. r = transition(run, "cancelled", "other", "keep", "thread_deleted")
        BY <1>1 DEF reconciledRun
    <2>2. r \in RunRecords /\ r.state = "cancelled" /\ r.sub = run.sub
        BY <2>1, TransitionType DEF RUN_STATES, PHASES, ERRORS, SubInputs
    <2> HIDE DEF r
    <2> QED
        BY <2>2 DEF r
<1>2. CASE ~isDeleted(th) /\ canResume(op, th)
    <2> DEFINE s == transition(run, "interrupted", "other", "keep", "unexpected_state")
    <2>1. r = requeueForRecovery(s)
        BY <1>2 DEF reconciledRun
    <2>2. s \in RunRecords /\ s.sub = run.sub
        BY TransitionType DEF RUN_STATES, PHASES, ERRORS, SubInputs
    <2> HIDE DEF s, r
    <2>3. r \in RunRecords /\ r.state = "queued" /\ r.phase = "recovery_pending" /\ r.sub = s.sub
        BY <2>1, <2>2, RowTypes
    <2> QED
        BY <2>2, <2>3 DEF r
<1>3. CASE ~isDeleted(th) /\ ~canResume(op, th)
    <2> DEFINE state == IF hasPossibleRemoteSideEffect(run) THEN "needs_attention"
                                                            ELSE "interrupted"
               err == IF run.sub = "submitted_unconfirmed" THEN "submission_ambiguous"
                                                           ELSE "unexpected_state"
    <2>1. r = transition(run, state, "other", run.sub, err)
        BY <1>3 DEF reconciledRun
    <2>2. /\ state \in RUN_STATES /\ state \in {"needs_attention", "interrupted"}
          /\ err \in ERRORS /\ run.sub # "keep" /\ "other" \in PHASES
        BY <1>0 DEF RUN_STATES, ERRORS, SUBMISSION_STATES, PHASES
    <2> HIDE DEF state, err, r
    <2>3. r \in RunRecords /\ r.state = state /\ r.sub = run.sub
        BY <1>0, <2>1, <2>2, TransitionType DEF SubInputs
    <2> QED
        BY <2>2, <2>3 DEF r
<1> QED
    BY <1>1, <1>2, <1>3

(* So is what a restart makes of it. *)
LEMMA ReconciledThread ==
    ASSUME NEW run, NEW op, NEW th \in ThreadRecords
    PROVE  reconciledThread(run, op, th) \in ThreadRecords
<1>1. \A state \in THREAD_STATES : setState(th, state) \in ThreadRecords
    BY ThreadTypes
<1>2. {"deleted_remote", "deleted_local", "running", "needs_attention", "error", "idle"}
          \subseteq THREAD_STATES
    BY DEF THREAD_STATES
<1> QED
    BY <1>1, <1>2 DEF reconciledThread

-----------------------------------------------------------------------------
(* Types. *)

(* What the tables hold of a run and of its thread. *)
LEMMA Rows ==
    ASSUME TypeOK, NEW r \in Runs
    PROVE  /\ runs[r] \in RunRecords \cup {NoRun}
           /\ runs[r].state # "absent" => runs[r] \in RunRecords
           /\ ThreadOf[r] \in Threads /\ threads[ThreadOf[r]] \in ThreadRecords
           /\ OpOf[r] \in OPERATION_TYPES
BY QueueAssumptions, NewRunType DEF TypeOK

(* A semaphore remains one. *)
LEMMA SemaphoreTypes ==
    ASSUME NEW s \in Semaphores(Runs), NEW r \in Runs
    PROVE  Acquire(s, r) \in Semaphores(Runs) /\ Release(s, r) \in Semaphores(Runs)
<1>1. /\ s.available \in Nat /\ s.waiters \in Seq(Runs) /\ s.holders \in SUBSET Runs
      /\ s = [available |-> s.available, waiters |-> s.waiters, holders |-> s.holders]
    BY DEF Semaphores
<1>2. Acquire(s, r) \in Semaphores(Runs)
    <2>1. CASE s.available > 0
        <3>1. Acquire(s, r) = [available |-> s.available - 1, waiters |-> s.waiters,
                               holders |-> s.holders \cup {r}]
            BY <1>1, <2>1 DEF Acquire
        <3>2. s.available - 1 \in Nat /\ s.holders \cup {r} \in SUBSET Runs
            BY <1>1, <2>1
        <3> QED
            BY <1>1, <3>1, <3>2, SemaphoreFields
    <2>2. CASE ~(s.available > 0)
        <3>1. Acquire(s, r) = [available |-> s.available, waiters |-> Append(s.waiters, r),
                               holders |-> s.holders]
            BY <1>1, <2>2 DEF Acquire
        <3>2. Append(s.waiters, r) \in Seq(Runs)
            BY <1>1, LineAppend
        <3> QED
            BY <1>1, <3>1, <3>2, SemaphoreFields
    <2> QED
        BY <2>1, <2>2
<1>3. Release(s, r) \in Semaphores(Runs)
    <2>1. CASE r \notin s.holders
        BY <2>1 DEF Release
    <2>2. CASE r \in s.holders /\ s.waiters = <<>>
        <3>1. Release(s, r) = [available |-> s.available + 1, waiters |-> s.waiters,
                               holders |-> s.holders \ {r}]
            BY <1>1, <2>2 DEF Release
        <3>2. s.available + 1 \in Nat /\ s.holders \ {r} \in SUBSET Runs
            BY <1>1
        <3> QED
            BY <1>1, <3>1, <3>2, SemaphoreFields
    <2>3. CASE r \in s.holders /\ s.waiters # <<>>
        <3>1. Release(s, r) = [available |-> s.available, waiters |-> Tail(s.waiters),
                               holders |-> (s.holders \ {r}) \cup {Head(s.waiters)}]
            BY <1>1, <2>3 DEF Release
        <3>2. Tail(s.waiters) \in Seq(Runs) /\ Head(s.waiters) \in Runs
            BY <1>1, <2>3, LineTail
        <3>3. PICK line \in Seq(Runs) : line = Tail(s.waiters)
            BY <3>2
        <3>4. PICK users \in SUBSET Runs : users = (s.holders \ {r}) \cup {Head(s.waiters)}
            BY <1>1, <3>2
        <3>5. Release(s, r) = [available |-> s.available, waiters |-> line, holders |-> users]
            BY <3>1, <3>3, <3>4
        <3> QED
            BY <1>1, <3>5, SemaphoreFields
    <2>4. s.waiters = <<>> \/ s.waiters # <<>>
        OBVIOUS
    <2> QED
        BY <2>1, <2>2, <2>3, <2>4
<1> QED
    BY <1>2, <1>3

(* The semaphores of a new process. *)
LEMMA NewLocksType ==
    /\ NewSemaphore(MaxConcurrentRuns) \in Semaphores(Runs)
    /\ NewSemaphore(1) \in Semaphores(Runs)
BY QueueAssumptions, NewSemaphoreSound DEF Sound

(* The initial state is well typed. *)
LEMMA InitType == Init => TypeOK
<1>1. NewThread \in ThreadRecords
    BY DEF NewThread, ThreadRecords, THREAD_STATES
<1> SUFFICES ASSUME Init PROVE TypeOK
    OBVIOUS
<1>2. /\ createdAt \in [Runs -> Nat] /\ acceptedAt \in [Runs -> Nat]
    BY DEF Init
<1>3. /\ runs \in [Runs -> RunRecords \cup {NoRun}] /\ threads \in [Threads -> ThreadRecords]
      /\ task \in [Runs -> TaskStates]
    BY <1>1 DEF Init, TaskStates
<1>4. permits \in Semaphores(Runs) /\ threadLocks \in [Threads -> Semaphores(Runs)]
    BY NewLocksType DEF Init
<1>5. /\ life = "down" /\ gate \in BOOLEAN /\ pumpScheduled \in BOOLEAN
      /\ runWaiters \in SUBSET Runs /\ idleWaiter \in BOOLEAN
    BY DEF Init
<1> QED
    BY <1>2, <1>3, <1>4, <1>5 DEF TypeOK

(* A claim, a report and an outcome write rows. *)
LEMMA ClaimRows ==
    ASSUME TypeOK, NEW r \in Runs, ExecuteClaimedRun(r)
    PROVE  /\ runs' \in [Runs -> RunRecords \cup {NoRun}]
           /\ task' \in [Runs -> TaskStates]
           /\ gate' \in BOOLEAN
<1>1. runs \in [Runs -> RunRecords \cup {NoRun}] /\ task \in [Runs -> TaskStates]
    BY DEF TypeOK
<1>2. CASE Claim(r)
    <2>1. claimQueued(runs[r], runs[r].phase) \in RunRecords
        BY <1>2, Rows, RowTypes DEF Claim
    <2> QED
        BY <1>1, <1>2, <2>1 DEF Claim, TypeOK, TaskStates
<1>3. CASE SkipClaim(r)
    BY <1>1, <1>3 DEF SkipClaim, TypeOK, TaskStates
<1>4. CASE ClaimThenRelease(r)
    <2> DEFINE claimed == claimQueued(runs[r], runs[r].phase)
               row == IF canReleaseClaim(claimed) THEN releaseClaim(claimed) ELSE claimed
    <2>1. claimed \in RunRecords /\ NewRun \in RunRecords
        BY <1>4, Rows, RowTypes, NewRunType DEF ClaimThenRelease
    <2>2. row \in RunRecords
        BY <2>1 DEF releaseClaim
    <2>3. runs' = [runs EXCEPT ![r] = row]
        BY <1>4 DEF ClaimThenRelease
    <2> HIDE DEF row
    <2> QED
        BY <1>1, <1>4, <2>2, <2>3 DEF ClaimThenRelease, TaskStates
<1> QED
    BY <1>2, <1>3, <1>4 DEF ExecuteClaimedRun

(* A report changes the state and what is known of the submission. *)
LEMMA Reported ==
    ASSUME TypeOK, NEW r \in Runs, NEW p \in Reports, UpdateProgress(r, p),
           runs[r] \in RunRecords
    PROVE  /\ runs' \in [Runs -> RunRecords \cup {NoRun}]
           /\ \A d \in Runs \ {r} : runs'[d] = runs[d]
           /\ runs'[r].state = p.state /\ isActiveRunState(p.state)
           /\ runs'[r].phase = "other"
           /\ runs'[r].sub = IF p.sub = "keep" THEN runs[r].sub ELSE p.sub
<1>1. /\ p.state \in RUN_STATES /\ p.sub \in SubInputs
      /\ "other" \in PHASES /\ "none" \in ERRORS
      /\ isActiveRunState(p.state) /\ p.state # "queued"
    BY QueueAssumptions DEF SubInputs, AllReports, RUN_STATES, SUBMISSION_STATES, PHASES, ERRORS,
                            isActiveRunState, ACTIVE
<1> DEFINE row == transition(runs[r], p.state, "other", p.sub, "none")
<1>2. /\ row \in RunRecords /\ row.state = p.state /\ row.phase = "other"
      /\ p.sub = "keep" => row.sub = runs[r].sub
      /\ p.sub # "keep" => row.sub = p.sub
    <2> DEFINE state == p.state
               sub == p.sub
    <2>1. /\ state \in RUN_STATES /\ sub \in SubInputs
          /\ "other" \in PHASES /\ "none" \in ERRORS /\ state # "queued"
        BY <1>1
    <2>2. row = transition(runs[r], state, "other", sub, "none")
        OBVIOUS
    <2> HIDE DEF row, state, sub
    <2>3. /\ row \in RunRecords /\ row.state = state /\ row.phase = "other"
          /\ sub = "keep" => row.sub = runs[r].sub
          /\ sub # "keep" => row.sub = sub
        BY <2>1, <2>2, TransitionType
    <2> QED
        BY <2>3 DEF state, sub
<1>3. runs' = [runs EXCEPT ![r] = row]
    BY DEF UpdateProgress
<1> HIDE DEF row
<1> QED
    BY <1>1, <1>2, <1>3 DEF TypeOK

(* The row that an executor settles is one, before and after. *)
LEMMA Persisted ==
    ASSUME TypeOK, NEW r \in Runs, NEW res \in Results, ExecutorSettles(r, res),
           runs[r] \in RunRecords
    PROVE  /\ runs' \in [Runs -> RunRecords \cup {NoRun}]
           /\ \A d \in Runs \ {r} : runs'[d] = runs[d]
           /\ runs'[r].state = res.state /\ isWaitTerminal(res.state)
           /\ runs'[r].sub = runs[r].sub
<1>1. /\ res.state \in RUN_STATES /\ res.err \in ERRORS /\ "other" \in PHASES
      /\ isWaitTerminal(res.state) /\ res.state # "queued"
    BY QueueAssumptions DEF AllResults, RUN_STATES, PHASES, ERRORS, isWaitTerminal,
                            isCompletedRunState, COMPLETED
<1> DEFINE row == persistOutcome(runs[r], res)
<1>2. row \in RunRecords /\ row.state = res.state /\ row.sub = runs[r].sub
    <2> DEFINE s == "keep"
    <2>1. s \in SubInputs /\ s = "keep"
        BY DEF SubInputs
    <2>2. row = transition(runs[r], res.state, "other", s, res.err)
        BY DEF persistOutcome
    <2> HIDE DEF row, s
    <2> QED
        BY <1>1, <2>1, <2>2, TransitionType
<1>3. runs' = [runs EXCEPT ![r] = row]
    BY DEF ExecutorSettles
<1> HIDE DEF row
<1> QED
    BY <1>1, <1>2, <1>3 DEF TypeOK

(* Before a process has reconciled the table it has launched nothing, and  *)
(* nobody waits.                                                           *)
AtRest ==
    life \in {"down", "starting"} =>
        (\A r \in Runs : task[r] = "none") /\ runWaiters = {} /\ ~idleWaiter

ExecutingActive ==
    \A r \in Runs : task[r] = "executing" => isActiveRunState(runs[r].state)

(* A run that is queued, active or settled has a row. *)
LEMMA ActiveRow ==
    ASSUME TypeOK, NEW r \in Runs,
           runs[r].state = "queued" \/ isWaitTerminal(runs[r].state)
                                    \/ isActiveRunState(runs[r].state)
    PROVE  runs[r] \in RunRecords
BY Rows DEF isActiveRunState, ACTIVE, isWaitTerminal, isCompletedRunState, COMPLETED

(* Sets of runs can be counted. *)
LEMMA CountType ==
    ASSUME NEW S \in SUBSET Runs
    PROVE  IsFiniteSet(S) /\ Cardinality(S) \in Nat
BY QueueAssumptions, FS_Subset, FS_CardinalityType

(* Every variable keeps its type. *)
LEMMA NextType == ASSUME TypeOK, ExecutingActive, [Next]_vars PROVE TypeOK'
<1> USE DEF durable, sync
<1>1. CASE UNCHANGED vars
    BY <1>1 DEF vars, TypeOK
<1>2. CASE Process
    <2>1. CASE EnterStart
        BY <2>1 DEF EnterStart, TypeOK
    <2>2. CASE LeaveStart
        BY <2>2 DEF LeaveStart, TypeOK, schedulePump
    <2>3. CASE Close
        BY <2>3 DEF Close, TypeOK
    <2>4. CASE FinishClose
        BY <2>4 DEF FinishClose, TypeOK
    <2>5. CASE Exit
        BY <2>5, NewLocksType DEF Exit, TypeOK, TaskStates
    <2> QED
        BY <1>2, <2>1, <2>2, <2>3, <2>4, <2>5 DEF Process
<1>3. CASE GateChange
    BY <1>3 DEF GateChange, GateListener, schedulePump, TypeOK
<1>4. CASE WaitForIdle
    BY <1>4 DEF WaitForIdle, TypeOK
<1>5. CASE Pump
    <2>1. task' \in [Runs -> TaskStates] /\ idleWaiter' \in BOOLEAN
        BY <1>5 DEF Pump, TypeOK, TaskStates, resolveIdleWaiters
    <2> QED
        BY <1>5, <2>1 DEF Pump, TypeOK
<1>6. ASSUME NEW r \in Runs, Enqueue(r) PROVE TypeOK'
    <2>1. NextCreatedAt \subseteq Nat
        BY CountType DEF NextCreatedAt
    <2>2. Cardinality({q \in Runs : runs[q] # NoRun}) + 1 \in Nat
        BY CountType
    <2>3. /\ runs' \in [Runs -> RunRecords \cup {NoRun}]
          /\ createdAt' \in [Runs -> Nat] /\ acceptedAt' \in [Runs -> Nat]
        BY <1>6, <2>1, <2>2, NewRunType DEF Enqueue, TypeOK
    <2> QED
        BY <1>6, <2>3 DEF Enqueue, schedulePump, TypeOK
<1>7. ASSUME NEW r \in Runs, WaitForRun(r) PROVE TypeOK'
    BY <1>7 DEF WaitForRun, TypeOK
<1>8. ASSUME NEW r \in Runs, Step(r) PROVE TypeOK'
    <2>1. CASE RequeueRecoverable(r)
        <3>1. runs[r] \in RunRecords
            BY <2>1, ActiveRow DEF RequeueRecoverable, Recoverable, isRecoverable,
                               isWaitTerminal, isCompletedRunState, COMPLETED
        <3>2. /\ requeueForRecovery(runs[r]) \in RunRecords
              /\ setState(threads[ThreadOf[r]], "running") \in ThreadRecords
            BY <3>1, Rows, RowTypes, ThreadTypes DEF THREAD_STATES
        <3> QED
            BY <2>1, <3>2, Rows DEF RequeueRecoverable, TypeOK
    <2>2. CASE ReconcileActive(r)
        <3>1. runs[r] \in RunRecords
            BY <2>2, ActiveRow DEF ReconcileActive, ActiveRuns
        <3> DEFINE th == threads[ThreadOf[r]]
                   row == reconciledRun(runs[r], OpOf[r], th)
                   thread == reconciledThread(runs[r], OpOf[r], th)
        <3>2. row \in RunRecords /\ thread \in ThreadRecords
            BY <3>1, Rows, ReconciledRun, ReconciledThread
        <3>3. /\ runs' = [runs EXCEPT ![r] = row]
              /\ threads' = [threads EXCEPT ![ThreadOf[r]] = thread]
            BY <2>2 DEF ReconcileActive
        <3> HIDE DEF row, thread
        <3>4. /\ runs' \in [Runs -> RunRecords \cup {NoRun}]
              /\ threads' \in [Threads -> ThreadRecords]
            BY <3>2, <3>3, Rows DEF TypeOK
        <3> QED
            BY <2>2, <3>4 DEF ReconcileActive, TypeOK
    <2>3. CASE CallAcquire(r)
        BY <2>3, SemaphoreTypes DEF CallAcquire, TypeOK, TaskStates
    <2>4. CASE CallLock(r)
        <3>1. Acquire(threadLocks[ThreadOf[r]], r) \in Semaphores(Runs)
            BY Rows, SemaphoreTypes DEF TypeOK
        <3> QED
            BY <2>4, <3>1 DEF CallLock, TypeOK, TaskStates
    <2>5. CASE ExecuteClaimedRun(r)
        BY <2>5, ClaimRows DEF ExecuteClaimedRun, TypeOK
    <2>6. CASE ReleaseLock(r)
        <3>1. Release(threadLocks[ThreadOf[r]], r) \in Semaphores(Runs)
            BY Rows, SemaphoreTypes DEF TypeOK
        <3> QED
            BY <2>6, <3>1 DEF ReleaseLock, TypeOK, TaskStates
    <2>7. CASE ReleasePermit(r)
        BY <2>7, SemaphoreTypes DEF ReleasePermit, TypeOK, TaskStates
    <2>8. CASE Settle(r)
        BY <2>8 DEF Settle, TypeOK, TaskStates, schedulePump, resolveIdleWaiters
    <2> QED
        BY <1>8, <2>1, <2>2, <2>3, <2>4, <2>5, <2>6, <2>7, <2>8 DEF Step
<1>9. ASSUME NEW r \in Runs, Executor(r) PROVE TypeOK'
    <2>1. task[r] = "executing" /\ runs[r] \in RunRecords
        <3>1. task[r] = "executing"
            BY <1>9 DEF Executor, UpdateProgress, ExecutorMarksThread, ExecutorSettles
        <3> QED
            BY <3>1, ActiveRow DEF ExecutingActive
    <2>2. ASSUME NEW p \in Reports, UpdateProgress(r, p) PROVE TypeOK'
        <3>1. runs' \in [Runs -> RunRecords \cup {NoRun}]
            BY <2>1, <2>2, Reported
        <3> QED
            BY <2>2, <3>1 DEF UpdateProgress, TypeOK
    <2>3. CASE ExecutorMarksThread(r)
        <3>1. threads' \in [Threads -> ThreadRecords]
            <4>1. /\ setState(threads[ThreadOf[r]], "deleted_local") \in ThreadRecords
                  /\ setState(threads[ThreadOf[r]], "deleted_remote") \in ThreadRecords
                  /\ setRemoteMapping(threads[ThreadOf[r]]) \in ThreadRecords
                BY Rows, ThreadTypes DEF THREAD_STATES
            <4> QED
                BY <2>3, <4>1, Rows DEF ExecutorMarksThread, TypeOK
        <3> QED
            BY <2>3, <3>1 DEF ExecutorMarksThread, TypeOK
    <2>4. ASSUME NEW res \in Results, ExecutorSettles(r, res) PROVE TypeOK'
        <3>1. runs' \in [Runs -> RunRecords \cup {NoRun}]
            BY <2>1, <2>4, Persisted
        <3> QED
            BY <2>4, <3>1 DEF ExecutorSettles, notifyRunWaiters, TypeOK, TaskStates
    <2> QED
        BY <1>9, <2>2, <2>3, <2>4 DEF Executor
<1> QED
    BY <1>1, <1>2, <1>3, <1>4, <1>5, <1>6, <1>7, <1>8, <1>9 DEF Next

-----------------------------------------------------------------------------
(* Rows and waiters. *)

(* A run that is to be started, or was claimed and reported nothing, and   *)
(* is not a recovery, has not been submitted.                              *)
Unsubmitted ==
    \A r \in Runs : runs[r].state \in {"queued", "navigating"} /\ runs[r].phase = "other"
                         => runs[r].sub = "not_started"

RowInv == TypeOK /\ AtRest /\ ExecutingActive /\ Unsubmitted /\ NoForgottenWaiter

(* What is said of rows and waiters holds at the beginning. *)
LEMMA InitRows == Init => RowInv
<1> SUFFICES ASSUME Init PROVE RowInv
    OBVIOUS
<1>1. \A r \in Runs : runs[r] = NoRun
    BY DEF Init
<1> QED
    BY <1>1, InitType, NewRunType
       DEF RowInv, Init, AtRest, ExecutingActive, Unsubmitted, NoForgottenWaiter

(* A claim makes the row active and enters the executor, or does neither,  *)
(* or gives the claim back; only a recovery's claim cannot be given back.  *)
LEMMA ClaimEffect ==
    ASSUME TypeOK, Unsubmitted, NEW r \in Runs, ExecuteClaimedRun(r)
    PROVE  /\ \A d \in Runs \ {r} : runs'[d] = runs[d] /\ task'[d] = task[d]
           /\ \/ /\ runs[r].state = "queued" /\ runs'[r].state = "navigating"
                 /\ runs'[r].phase = runs[r].phase /\ runs'[r].sub = runs[r].sub
                 /\ task'[r] = "executing" \/ (task'[r] = "returned" /\ GateMayFlip)
              \/ runs'[r] = runs[r] /\ task'[r] = "returned"
              \/ /\ runs[r].state = "queued" /\ runs[r].sub = "not_started"
                 /\ runs'[r] = NewRun /\ task'[r] = "returned" /\ GateMayFlip
<1>1. /\ runs \in [Runs -> RunRecords \cup {NoRun}] /\ task \in [Runs -> TaskStates]
    BY DEF TypeOK
<1> DEFINE claimed == claimQueued(runs[r], runs[r].phase)
<1>2. runs[r].state = "queued" =>
          claimed.state = "navigating" /\ claimed.phase = runs[r].phase /\ claimed.sub = runs[r].sub
    BY ActiveRow, RowTypes
<1>3. CASE Claim(r)
    <2>1. runs' = [runs EXCEPT ![r] = claimed] /\ task' = [task EXCEPT ![r] = "executing"]
          /\ runs[r].state = "queued"
        BY <1>3 DEF Claim
    <2> HIDE DEF claimed
    <2> QED
        BY <1>1, <1>2, <2>1
<1>4. CASE SkipClaim(r)
    BY <1>1, <1>4 DEF SkipClaim
<1>5. CASE ClaimThenRelease(r)
    <2> DEFINE row == IF canReleaseClaim(claimed) THEN releaseClaim(claimed) ELSE claimed
    <2>1. /\ runs' = [runs EXCEPT ![r] = row] /\ task' = [task EXCEPT ![r] = "returned"]
          /\ runs[r].state = "queued" /\ GateMayFlip
        BY <1>5 DEF ClaimThenRelease
    <2>2. \/ row = NewRun /\ claimed.sub = "not_started"
          \/ row = claimed
        BY DEF canReleaseClaim, releaseClaim
    <2> HIDE DEF claimed, row
    <2> QED
        BY <1>1, <1>2, <2>1, <2>2
<1> QED
    BY <1>3, <1>4, <1>5 DEF ExecuteClaimedRun

(* A run that is queued or active is not settled. *)
LEMMA WaitStates ==
    ASSUME NEW state, state \in {"queued", "absent"} \/ isActiveRunState(state)
    PROVE  ~isWaitTerminal(state)
BY DEF isActiveRunState, ACTIVE, isWaitTerminal, isCompletedRunState, COMPLETED

(* A step of the run r that leaves its task in flight, in a process that   *)
(* has reconciled.                                                         *)
LEMMA InFlightStep ==
    ASSUME RowInv, TypeOK', NEW r \in Runs, task[r] # "none", task'[r] # "none",
           UNCHANGED <<life, idleWaiter>>,
           \A d \in Runs \ {r} : runs'[d] = runs[d] /\ task'[d] = task[d],
           task'[r] = "executing" => isActiveRunState(runs'[r].state),
           runs'[r].state \in {"queued", "navigating"} /\ runs'[r].phase = "other" =>
               runs'[r].sub = "not_started",
           runWaiters' \subseteq runWaiters,
           r \in runWaiters' => ~isWaitTerminal(runs'[r].state)
    PROVE  RowInv'
<1>1. AtRest' /\ ExecutingActive' /\ Unsubmitted'
    BY DEF RowInv, AtRest, ExecutingActive, Unsubmitted
<1>2. NoForgottenWaiter'
    <2>1. ~isIdle'
        BY DEF isIdle, inFlight
    <2>2. \A d \in runWaiters' : ~isWaitTerminal(runs'[d].state)
        BY DEF RowInv, NoForgottenWaiter, TypeOK
    <2> QED
        BY <2>1, <2>2 DEF NoForgottenWaiter
<1> QED
    BY <1>1, <1>2 DEF RowInv

(* Every step keeps what is said of rows and waiters. *)
LEMMA NextRows == ASSUME RowInv, [Next]_vars PROVE RowInv'
<1> USE DEF durable, sync
<1>0. TypeOK /\ TypeOK'
    BY NextType DEF RowInv
<1>1. CASE UNCHANGED vars
    BY <1>0, <1>1 DEF vars, RowInv, AtRest, ExecutingActive, Unsubmitted, NoForgottenWaiter,
                      isIdle, inFlight, Queued
<1>2. CASE Process
    <2> USE <1>0 DEF RowInv, AtRest, ExecutingActive, Unsubmitted, NoForgottenWaiter,
                     isIdle, inFlight, Queued
    <2>1. CASE EnterStart
        BY <2>1 DEF EnterStart
    <2>2. CASE LeaveStart
        BY <2>2 DEF LeaveStart
    <2>3. CASE Close
        BY <2>3 DEF Close
    <2>4. CASE FinishClose
        BY <2>4 DEF FinishClose
    <2>5. CASE Exit
        BY <2>5 DEF Exit
    <2> QED
        BY <1>2, <2>1, <2>2, <2>3, <2>4, <2>5 DEF Process
<1>3. CASE GateChange
    BY <1>0, <1>3 DEF GateChange, RowInv, AtRest, ExecutingActive, Unsubmitted,
                      NoForgottenWaiter, isIdle, inFlight, Queued
<1>4. CASE WaitForIdle
    BY <1>0, <1>4 DEF WaitForIdle, RowInv, AtRest, ExecutingActive, Unsubmitted,
                      NoForgottenWaiter, isIdle, inFlight, Queued
<1>5. CASE Pump
    <2>1. CASE life = "running" /\ gate
        <3>1. \A r \in Runs : task'[r] = "executing" => task[r] = "executing"
            BY <1>5, <2>1 DEF Pump
        <3> QED
            BY <1>0, <1>5, <2>1, <3>1 DEF Pump, resolveIdleWaiters, RowInv, AtRest,
               ExecutingActive, Unsubmitted, NoForgottenWaiter
    <2>2. CASE ~(life = "running" /\ gate)
        BY <1>0, <1>5, <2>2 DEF Pump, RowInv, AtRest, ExecutingActive, Unsubmitted,
                                NoForgottenWaiter, isIdle, inFlight, Queued
    <2> QED
        BY <2>1, <2>2
<1>6. ASSUME NEW r \in Runs, Enqueue(r) PROVE RowInv'
    <2>1. /\ runs' = [runs EXCEPT ![r] = NewRun] /\ runs[r] = NoRun
          /\ UNCHANGED <<life, task, runWaiters, idleWaiter>> /\ life = "running"
        BY <1>6 DEF Enqueue, FreshId
    <2>2. /\ runs'[r].state = "queued" /\ runs'[r].sub = "not_started"
          /\ \A d \in Runs \ {r} : runs'[d] = runs[d]
        BY <1>0, <2>1, NewRunType DEF TypeOK
    <2>3. ~isActiveRunState(runs[r].state) /\ ~isWaitTerminal(runs'[r].state)
        BY <2>1, <2>2, NewRunType, WaitStates DEF isActiveRunState, ACTIVE
    <2>4. ~isIdle'
        BY <2>2 DEF isIdle, Queued
    <2> QED
        BY <1>0, <2>1, <2>2, <2>3, <2>4
           DEF RowInv, AtRest, ExecutingActive, Unsubmitted, NoForgottenWaiter
<1>7. ASSUME NEW r \in Runs, WaitForRun(r) PROVE RowInv'
    BY <1>0, <1>7 DEF WaitForRun, RowInv, AtRest, ExecutingActive, Unsubmitted,
                      NoForgottenWaiter, isIdle, inFlight, Queued
<1>8. ASSUME NEW r \in Runs, RequeueRecoverable(r) \/ ReconcileActive(r) PROVE RowInv'
    <2>1. /\ life = "starting" /\ UNCHANGED <<life, task, runWaiters, idleWaiter>>
          /\ runWaiters = {} /\ ~idleWaiter /\ \A d \in Runs : task[d] = "none"
        BY <1>8 DEF RequeueRecoverable, ReconcileActive, Reconciling, RowInv, AtRest
    <2>2. /\ \A d \in Runs \ {r} : runs'[d] = runs[d]
          /\ runs'[r].state \in {"queued", "navigating"} => runs'[r].phase = "recovery_pending"
        <3>1. CASE RequeueRecoverable(r)
            <4>1. runs[r] \in RunRecords
                BY <1>0, <3>1, ActiveRow DEF RequeueRecoverable, Recoverable, isRecoverable,
                                   isWaitTerminal, isCompletedRunState, COMPLETED
            <4>2. runs' = [runs EXCEPT ![r] = requeueForRecovery(runs[r])]
                BY <3>1 DEF RequeueRecoverable
            <4> QED
                BY <1>0, <4>1, <4>2, RowTypes DEF TypeOK
        <3>2. CASE ReconcileActive(r)
            <4> DEFINE row == reconciledRun(runs[r], OpOf[r], threads[ThreadOf[r]])
            <4>1. runs[r] \in RunRecords
                BY <1>0, <3>2, ActiveRow DEF ReconcileActive, ActiveRuns
            <4>2. runs' = [runs EXCEPT ![r] = row]
                BY <3>2 DEF ReconcileActive
            <4>3. row.state \in {"queued", "navigating"} => row.phase = "recovery_pending"
                BY <4>1, ReconciledRun
            <4> HIDE DEF row
            <4> QED
                BY <1>0, <4>2, <4>3 DEF TypeOK
        <3> QED
            BY <1>8, <3>1, <3>2
    <2> QED
        BY <1>0, <2>1, <2>2
           DEF RowInv, AtRest, ExecutingActive, Unsubmitted, NoForgottenWaiter
<1>9. ASSUME NEW r \in Runs,
             CallAcquire(r) \/ CallLock(r) \/ ReleaseLock(r) \/ ReleasePermit(r)
      PROVE  RowInv'
    <2>1. /\ UNCHANGED <<runs, life, runWaiters, idleWaiter>>
          /\ task[r] # "none" /\ task'[r] \notin {"none", "executing"}
          /\ \A d \in Runs \ {r} : task'[d] = task[d]
        BY <1>0, <1>9 DEF CallAcquire, CallLock, ReleaseLock, ReleasePermit, TypeOK
    <2>2. /\ runs[r].state \in {"queued", "navigating"} /\ runs[r].phase = "other" =>
                runs[r].sub = "not_started"
          /\ r \in runWaiters => ~isWaitTerminal(runs[r].state)
        BY DEF RowInv, Unsubmitted, NoForgottenWaiter
    <2> QED
        BY <1>0, <2>1, <2>2, InFlightStep
<1>10. ASSUME NEW r \in Runs, ExecuteClaimedRun(r) PROVE RowInv'
    <2>1. /\ UNCHANGED <<life, runWaiters, idleWaiter>> /\ task[r] = "lock"
        BY <1>10 DEF ExecuteClaimedRun
    <2>2. /\ task'[r] \in {"executing", "returned"}
          /\ \A d \in Runs \ {r} : runs'[d] = runs[d] /\ task'[d] = task[d]
          /\ task'[r] = "executing" => isActiveRunState(runs'[r].state)
          /\ runs'[r].state \in {"queued", "navigating"} /\ runs'[r].phase = "other" =>
                runs'[r].sub = "not_started"
        BY <1>0, <1>10, ClaimEffect, NewRunType
           DEF RowInv, Unsubmitted, isActiveRunState, ACTIVE
    <2>3. r \in runWaiters' => ~isWaitTerminal(runs'[r].state)
        BY <1>0, <1>10, <2>1, ClaimEffect, NewRunType, WaitStates
           DEF RowInv, NoForgottenWaiter, isActiveRunState, ACTIVE
    <2> QED
        BY <1>0, <2>1, <2>2, <2>3, InFlightStep
<1>11. ASSUME NEW r \in Runs, Settle(r) PROVE RowInv'
    <2>1. \A d \in Runs : task'[d] = "executing" => task[d] = "executing"
        BY <1>0, <1>11 DEF Settle, TypeOK
    <2>2. life \notin {"down", "starting"}
        BY <1>11 DEF Settle, RowInv, AtRest
    <2> QED
        BY <1>0, <1>11, <2>1, <2>2 DEF Settle, resolveIdleWaiters, RowInv, AtRest,
           ExecutingActive, Unsubmitted, NoForgottenWaiter
<1>12. ASSUME NEW r \in Runs, Executor(r) PROVE RowInv'
    <2>1. task[r] = "executing" /\ runs[r] \in RunRecords /\ isActiveRunState(runs[r].state)
        <3>1. task[r] = "executing"
            BY <1>12 DEF Executor, UpdateProgress, ExecutorMarksThread, ExecutorSettles
        <3> QED
            BY <1>0, <3>1, ActiveRow DEF RowInv, ExecutingActive
    <2>2. ASSUME NEW p \in Reports, UpdateProgress(r, p) PROVE RowInv'
        <3>1. /\ \A d \in Runs \ {r} : runs'[d] = runs[d]
              /\ runs'[r].state = p.state /\ isActiveRunState(runs'[r].state)
              /\ runs'[r].sub = IF p.sub = "keep" THEN runs[r].sub ELSE p.sub
            BY <1>0, <2>1, <2>2, Reported
        <3>2. UNCHANGED <<life, task, runWaiters, idleWaiter>>
            BY <2>2 DEF UpdateProgress
        (* What may still be navigating after a report was so before it, and is *)
        (* not a recovery.                                                      *)
        <3>3. ASSUME runs'[r].state \in {"queued", "navigating"}
              PROVE  runs'[r].sub = "not_started"
            <4>1. p.state = "navigating" /\ p.sub = "keep"
                BY <3>1, <3>3, QueueAssumptions DEF AllReports
            <4>2. runs[r].state = "navigating"
                <5>1. canTransitionRunState(runs[r].state, "navigating")
                    BY <2>2, <4>1 DEF UpdateProgress
                <5>2. /\ ALLOWED_RUN_TRANSITIONS["submitting"] =
                            {"running", "needs_attention"} \cup COMPLETED
                      /\ ALLOWED_RUN_TRANSITIONS["running"] = {"needs_attention"} \cup COMPLETED
                    BY DEF ALLOWED_RUN_TRANSITIONS, RUN_STATES
                <5> QED
                    BY <2>1, <5>1, <5>2 DEF canTransitionRunState, isActiveRunState, ACTIVE,
                                            COMPLETED
            <4>3. runs[r].phase = "other"
                <5>1. runs[r].phase # "recovery_pending"
                    BY <2>2, <4>1 DEF UpdateProgress
                <5> QED
                    BY <2>1, <5>1 DEF RunRecords, PHASES
            <4> QED
                BY <3>1, <4>1, <4>2, <4>3 DEF RowInv, Unsubmitted
        <3>4. ~isWaitTerminal(runs'[r].state)
            BY <3>1, WaitStates
        <3> QED
            BY <1>0, <2>1, <3>1, <3>2, <3>3, <3>4, InFlightStep
    <2>3. CASE ExecutorMarksThread(r)
        BY <1>0, <2>3 DEF ExecutorMarksThread, RowInv, AtRest, ExecutingActive, Unsubmitted,
                          NoForgottenWaiter, isIdle, inFlight, Queued
    <2>4. ASSUME NEW res \in Results, ExecutorSettles(r, res) PROVE RowInv'
        <3>1. /\ \A d \in Runs \ {r} : runs'[d] = runs[d]
              /\ runs'[r].state = res.state /\ isWaitTerminal(res.state)
            BY <1>0, <2>1, <2>4, Persisted
        <3>2. /\ UNCHANGED <<life, idleWaiter>> /\ task'[r] = "returned"
              /\ \A d \in Runs \ {r} : task'[d] = task[d]
              /\ runWaiters' = runWaiters \ {r}
            BY <1>0, <2>4, <3>1 DEF ExecutorSettles, notifyRunWaiters, TypeOK
        <3>3. runs'[r].state \notin {"queued", "navigating"}
            BY <3>1 DEF isWaitTerminal, isCompletedRunState, COMPLETED
        <3> QED
            BY <1>0, <2>1, <3>1, <3>2, <3>3, InFlightStep
    <2> QED
        BY <1>12, <2>2, <2>3, <2>4 DEF Executor
<1> QED
    BY <1>1, <1>2, <1>3, <1>4, <1>5, <1>6, <1>7, <1>8, <1>9, <1>10, <1>11, <1>12
       DEF Next, Step

-----------------------------------------------------------------------------
(* Permits and thread locks. *)

AtPermit == {"permit", "lock", "executing", "returned", "unlocked"}
AtLock == {"lock", "executing", "returned"}

PermitSide ==
    /\ Sound(permits, Runs, MaxConcurrentRuns)
    /\ Members(permits) = {r \in Runs : task[r] \in AtPermit}
    /\ \A r \in Runs : task[r] \in AtLock \cup {"unlocked"} => r \in permits.holders

LockSound(t) ==
    /\ Sound(threadLocks[t], Runs, 1)
    /\ Members(threadLocks[t]) = {r \in Runs : ThreadOf[r] = t /\ task[r] \in AtLock}
    /\ \A r \in Runs : ThreadOf[r] = t /\ task[r] \in {"executing", "returned"}
                           => r \in threadLocks[t].holders

LockSide == \A t \in Threads : LockSound(t)

InFlightBounded == Cardinality(inFlight) <= MaxConcurrentRuns

LockInv == PermitSide /\ LockSide /\ ThreadSerialization /\ InFlightBounded

(* Where nothing is in flight nobody is at a lock. *)
LEMMA RestLocks ==
    ASSUME permits = NewSemaphore(MaxConcurrentRuns),
           threadLocks = [t \in Threads |-> NewSemaphore(1)],
           \A r \in Runs : task[r] = "none"
    PROVE  LockInv
<1>1. /\ Sound(permits, Runs, MaxConcurrentRuns) /\ Members(permits) = {}
      /\ Sound(NewSemaphore(1), Runs, 1) /\ Members(NewSemaphore(1)) = {}
    BY QueueAssumptions, NewSemaphoreSound
<1>2. PermitSide /\ LockSide
    BY <1>1 DEF PermitSide, LockSide, LockSound, AtPermit, AtLock
<1>3. inFlight = {} /\ Cardinality(inFlight) = 0
    BY FS_EmptySet DEF inFlight
<1> QED
    BY <1>2, <1>3, QueueAssumptions DEF LockInv, ThreadSerialization, InFlightBounded

(* A step that brings no run to a lock or away from one. *)
LEMMA LocksUntouched ==
    ASSUME LockInv, UNCHANGED sync,
           \A r \in Runs : /\ task'[r] \in AtPermit <=> task[r] \in AtPermit
                           /\ task'[r] \in AtLock <=> task[r] \in AtLock
                           /\ task'[r] = "unlocked" <=> task[r] = "unlocked"
                           /\ task'[r] \in {"executing", "returned"} =>
                                 \/ task[r] \in {"executing", "returned"}
                                 \/ r \in threadLocks[ThreadOf[r]].holders
    PROVE  PermitSide' /\ LockSide'
<1> USE DEF sync
<1>1. {r \in Runs : task'[r] \in AtPermit} = {r \in Runs : task[r] \in AtPermit}
    OBVIOUS
<1>2. PermitSide'
    BY <1>1 DEF LockInv, PermitSide
<1>3. ASSUME NEW t \in Threads PROVE LockSound(t)'
    <2>1. {r \in Runs : ThreadOf[r] = t /\ task'[r] \in AtLock}
            = {r \in Runs : ThreadOf[r] = t /\ task[r] \in AtLock}
        OBVIOUS
    <2> QED
        BY <2>1 DEF LockInv, LockSide, LockSound
<1> QED
    BY <1>2, <1>3 DEF LockSide

(* Nothing is launched: what is in flight was in flight. *)
LEMMA FlightShrinks ==
    ASSUME LockInv, \A r \in Runs : task'[r] # "none" => task[r] # "none"
    PROVE  ThreadSerialization' /\ InFlightBounded'
<1>1. inFlight' \subseteq inFlight /\ inFlight \subseteq Runs
    BY DEF inFlight
<1>2. Cardinality(inFlight') <= Cardinality(inFlight)
    BY <1>1, CountType, FS_Subset
<1>3. Cardinality(inFlight') \in Nat /\ Cardinality(inFlight) \in Nat
    BY <1>1, CountType
<1> QED
    BY <1>1, <1>2, <1>3, QueueAssumptions DEF LockInv, ThreadSerialization, InFlightBounded

(* Ordering by created_at and id is a strict total order. *)
LEMMA BeforeOrder ==
    ASSUME TypeOK, NEW p \in Runs, NEW q \in Runs, NEW r \in Runs
    PROVE  /\ ~Before(q, q)
           /\ q = r \/ Before(q, r) \/ Before(r, q)
           /\ Before(p, q) /\ Before(q, r) => Before(p, r)
BY QueueAssumptions DEF TypeOK, Before

(* A run has fewer launchable runs before it than one it comes before. *)
LEMMA RankGrows ==
    ASSUME TypeOK, NEW S \in SUBSET Runs, NEW q \in S, NEW r \in S, Before(q, r)
    PROVE  Cardinality({p \in S : Before(p, q)}) < Cardinality({p \in S : Before(p, r)})
<1> DEFINE Q == {p \in S : Before(p, q)}
           R == {p \in S : Before(p, r)}
<1>1. Q \subseteq R /\ q \in R /\ q \notin Q
    BY BeforeOrder
<1>2. IsFiniteSet(R) /\ Cardinality(R) \in Nat /\ Cardinality(Q) \in Nat
    BY CountType
<1> HIDE DEF Q, R
<1>3. Cardinality(Q) <= Cardinality(R) /\ (Cardinality(Q) = Cardinality(R) => Q = R)
    BY <1>1, <1>2, FS_Subset
<1>4. Cardinality(Q) < Cardinality(R)
    BY <1>1, <1>2, <1>3
<1> QED
    BY <1>4 DEF Q, R

(* There are n numbers below n. *)
LEMMA CountingFromZero ==
    ASSUME NEW n \in Nat
    PROVE  IsFiniteSet(0..(n - 1)) /\ Cardinality(0..(n - 1)) = n
<1>1. 0 \in Int /\ n - 1 \in Int
    OBVIOUS
<1>2. /\ IsFiniteSet(0..(n - 1))
      /\ Cardinality(0..(n - 1)) = IF 0 > n - 1 THEN 0 ELSE (n - 1) - 0 + 1
    BY <1>1, FS_Interval
<1> QED
    BY <1>2

(* One pump launches no more runs than there are slots left. *)
LEMMA LaunchBound ==
    ASSUME TypeOK, InFlightBounded
    PROVE  /\ Launched \subseteq Runs /\ Launched \cap inFlight = {}
           /\ Cardinality(inFlight \cup Launched) <= MaxConcurrentRuns
<1>1. /\ Launched \subseteq Launchable /\ Launchable \subseteq Runs
      /\ Launchable \cap inFlight = {} /\ inFlight \subseteq Runs
    BY DEF Launched, Launchable, Candidates, Queued, inFlight
<1> DEFINE rank(r) == Cardinality({q \in Launchable : Before(q, r)})
           n == MaxConcurrentRuns - Cardinality(inFlight)
           f == [r \in Launched |-> rank(r)]
<1>2. /\ Cardinality(inFlight) \in Nat /\ MaxConcurrentRuns \in Nat /\ n \in Nat
      /\ IsFiniteSet(inFlight) /\ IsFiniteSet(Launched) /\ Cardinality(Launched) \in Nat
    BY <1>1, CountType, QueueAssumptions DEF InFlightBounded
<1>3. Cardinality(Launched) <= n
    <2> SUFFICES ASSUME Cardinality(Launched) > n PROVE FALSE
        BY <1>2
    <2>1. \A r \in Launched : rank(r) \in 0..(n - 1)
        <3> SUFFICES ASSUME NEW r \in Launched PROVE rank(r) \in 0..(n - 1)
            OBVIOUS
        <3>1. rank(r) \in Nat
            BY <1>1, CountType
        <3>2. Cardinality(inFlight) + rank(r) < MaxConcurrentRuns
            BY DEF Launched
        <3> HIDE DEF rank
        <3> QED
            BY <1>2, <3>1, <3>2
    <2>2. IsFiniteSet(0..(n - 1)) /\ Cardinality(0..(n - 1)) = n
        <3> HIDE DEF n
        <3> QED
            BY <1>2, CountingFromZero
    <2>3. f \in [Launched -> 0..(n - 1)]
        BY <2>1
    <2>4. PICK q \in Launched, r \in Launched : q # r /\ f[q] = f[r]
        <3> HIDE DEF f, n
        <3> QED
            BY <1>2, <2>2, <2>3, FS_PigeonHole
    <2>5. rank(q) = rank(r)
        BY <2>4
    <2>6. rank(q) \in Nat /\ rank(r) \in Nat
        BY <1>1, CountType
    <2>7. rank(q) < rank(r) \/ rank(r) < rank(q)
        <3>1. q \in Runs /\ r \in Runs /\ q \in Launchable /\ r \in Launchable
            BY <1>1
        <3>2. Before(q, r) \/ Before(r, q)
            BY <2>4, <3>1, BeforeOrder
        <3> QED
            BY <1>1, <3>1, <3>2, RankGrows
    <2> HIDE DEF rank
    <2> QED
        BY <2>5, <2>6, <2>7
<1>4. Cardinality(inFlight \cup Launched) <= MaxConcurrentRuns
    <2>1. Cardinality(inFlight \cup Launched)
            = Cardinality(inFlight) + Cardinality(Launched) - Cardinality(inFlight \cap Launched)
        BY <1>2, FS_Union
    <2>2. inFlight \cap Launched = {}
        BY <1>1
    <2>3. Cardinality(inFlight \cap Launched) = 0
        BY <2>2, FS_EmptySet
    <2> QED
        BY <1>2, <1>3, <2>1, <2>3
<1> QED
    BY <1>1, <1>4

(* A pump launches no more than the locks let through. *)
LEMMA PumpLocks == ASSUME RowInv, LockInv, Pump PROVE LockInv'
<1> USE DEF Pump, sync
<1>1. CASE life = "running" /\ gate
    <2>0. TypeOK /\ InFlightBounded
        BY DEF RowInv, LockInv
    <2>1. \A r \in Runs : task'[r] = IF r \in Launched THEN "launched" ELSE task[r]
        BY <1>1
    <2>2. /\ Launched \subseteq Runs /\ Launched \cap inFlight = {}
          /\ Cardinality(inFlight \cup Launched) <= MaxConcurrentRuns
        BY <2>0, LaunchBound
    <2>3. PermitSide' /\ LockSide'
        <3>1. \A r \in Launched : task[r] = "none"
            BY <2>2 DEF inFlight
        <3> QED
            BY <2>1, <3>1, LocksUntouched DEF AtPermit, AtLock
    <2>4. inFlight' = inFlight \cup Launched
        BY <2>1, <2>2 DEF inFlight
    <2>5. ASSUME NEW q \in inFlight', NEW r \in inFlight', ThreadOf[q] = ThreadOf[r]
          PROVE  q = r
        <3>1. CASE q \in inFlight /\ r \in inFlight
            BY <2>5, <3>1 DEF LockInv, ThreadSerialization
        <3>2. CASE q \in Launched /\ r \in Launched
            <4>1. ~Before(q, r) /\ ~Before(r, q) /\ q \in Runs /\ r \in Runs
                BY <2>2, <2>5, <3>2 DEF Launched, Launchable
            <4> QED
                BY <2>0, <4>1, BeforeOrder
        <3>3. CASE q \in Launched /\ r \in inFlight
            BY <2>5, <3>3 DEF Launched, Launchable
        <3>4. CASE q \in inFlight /\ r \in Launched
            BY <2>5, <3>4 DEF Launched, Launchable
        <3> QED
            BY <2>4, <2>5, <3>1, <3>2, <3>3, <3>4
    <2> QED
        BY <2>2, <2>3, <2>4, <2>5 DEF LockInv, ThreadSerialization, InFlightBounded
<1>2. CASE ~(life = "running" /\ gate)
    <2>1. PermitSide' /\ LockSide'
        BY <1>2, LocksUntouched
    <2> QED
        BY <1>2, <2>1, FlightShrinks DEF LockInv
<1> QED
    BY <1>1, <1>2

(* A lock a step leaves alone, with all who are at it. *)
LEMMA LockUntouched ==
    ASSUME NEW t \in Threads, LockSound(t), threadLocks'[t] = threadLocks[t],
           \A r \in Runs : ThreadOf[r] = t => task'[r] = task[r]
    PROVE  LockSound(t)'
<1>1. {r \in Runs : ThreadOf[r] = t /\ task'[r] \in AtLock}
        = {r \in Runs : ThreadOf[r] = t /\ task[r] \in AtLock}
    OBVIOUS
<1> QED
    BY <1>1 DEF LockSound

(* So do the steps of a run that takes or leaves a lock. *)
LEMMA StepLocks ==
    ASSUME RowInv, LockInv, NEW r \in Runs,
           CallAcquire(r) \/ CallLock(r) \/ ReleaseLock(r) \/ ReleasePermit(r)
    PROVE  LockInv'
<1> DEFINE t == ThreadOf[r]
<1> USE DEF AtPermit, AtLock
<1>1. /\ task \in [Runs -> TaskStates] /\ t \in Threads
      /\ threadLocks \in [Threads -> Semaphores(Runs)]
      /\ LockSound(t) /\ PermitSide
    BY Rows DEF RowInv, TypeOK, LockInv, LockSide
<1>2. ThreadSerialization' /\ InFlightBounded'
    <2>1. \A d \in Runs : task'[d] # "none" => task[d] # "none"
        BY <1>1 DEF CallAcquire, CallLock, ReleaseLock, ReleasePermit
    <2> QED
        BY <2>1, FlightShrinks
<1>3. CASE CallAcquire(r)
    <2>1. /\ task[r] = "launched" /\ permits' = Acquire(permits, r)
          /\ UNCHANGED threadLocks
          /\ \A d \in Runs : task'[d] = IF d = r THEN "permit" ELSE task[d]
        BY <1>1, <1>3 DEF CallAcquire
    <2>2. /\ Sound(permits', Runs, MaxConcurrentRuns)
          /\ Members(permits') = Members(permits) \cup {r}
          /\ permits.holders \subseteq permits'.holders
        <3>1. Sound(permits, Runs, MaxConcurrentRuns) /\ r \notin Members(permits)
            BY <1>1, <2>1 DEF PermitSide
        <3> QED
            BY <2>1, <3>1, AcquireSound
    <2>3. PermitSide'
        <3>1. {d \in Runs : task'[d] \in AtPermit} = {d \in Runs : task[d] \in AtPermit} \cup {r}
            BY <2>1
        <3> QED
            BY <1>1, <2>1, <2>2, <3>1 DEF PermitSide
    <2>4. ASSUME NEW u \in Threads PROVE LockSound(u)'
        <3>1. LockSound(u)
            BY DEF LockInv, LockSide
        <3>2. {d \in Runs : ThreadOf[d] = u /\ task'[d] \in AtLock}
                = {d \in Runs : ThreadOf[d] = u /\ task[d] \in AtLock}
            BY <2>1
        <3> QED
            BY <2>1, <3>1, <3>2 DEF LockSound
    <2> QED
        BY <1>2, <2>3, <2>4 DEF LockInv, LockSide
<1>4. CASE CallLock(r)
    <2>1. /\ task[r] = "permit" /\ r \in permits.holders /\ UNCHANGED permits
          /\ threadLocks' = [threadLocks EXCEPT ![t] = Acquire(threadLocks[t], r)]
          /\ \A d \in Runs : task'[d] = IF d = r THEN "lock" ELSE task[d]
        BY <1>1, <1>4 DEF CallLock
    <2>2. /\ Sound(Acquire(threadLocks[t], r), Runs, 1)
          /\ Members(Acquire(threadLocks[t], r)) = Members(threadLocks[t]) \cup {r}
          /\ threadLocks[t].holders \subseteq Acquire(threadLocks[t], r).holders
        BY <1>1, <2>1, AcquireSound DEF LockSound
    <2>3. PermitSide'
        <3>1. {d \in Runs : task'[d] \in AtPermit} = {d \in Runs : task[d] \in AtPermit}
            BY <2>1
        <3> QED
            BY <1>1, <2>1, <3>1 DEF PermitSide
    <2>4. LockSound(t)'
        <3>1. threadLocks'[t] = Acquire(threadLocks[t], r)
            BY <1>1, <2>1
        <3>2. {d \in Runs : ThreadOf[d] = t /\ task'[d] \in AtLock}
                = {d \in Runs : ThreadOf[d] = t /\ task[d] \in AtLock} \cup {r}
            BY <2>1
        <3> HIDE DEF t
        <3> QED
            BY <1>1, <2>1, <2>2, <3>1, <3>2 DEF LockSound
    <2>5. ASSUME NEW u \in Threads, u # t PROVE LockSound(u)'
        <3>1. threadLocks'[u] = threadLocks[u] /\ LockSound(u)
            BY <1>1, <2>1, <2>5 DEF LockInv, LockSide
        <3> QED
            BY <2>1, <2>5, <3>1, LockUntouched
    <2> QED
        BY <1>2, <2>3, <2>4, <2>5 DEF LockInv, LockSide
<1>5. CASE ReleaseLock(r)
    <2>1. /\ task[r] = "returned" /\ UNCHANGED permits
          /\ threadLocks' = [threadLocks EXCEPT ![t] = Release(threadLocks[t], r)]
          /\ \A d \in Runs : task'[d] = IF d = r THEN "unlocked" ELSE task[d]
        BY <1>1, <1>5 DEF ReleaseLock
    <2>2. r \in threadLocks[t].holders
        BY <1>1, <2>1 DEF LockSound
    <2>3. /\ Sound(Release(threadLocks[t], r), Runs, 1)
          /\ Members(Release(threadLocks[t], r)) = Members(threadLocks[t]) \ {r}
          /\ threadLocks[t].holders \ {r} \subseteq Release(threadLocks[t], r).holders
        BY <1>1, <2>2, ReleaseSound DEF LockSound
    <2>4. PermitSide'
        <3>1. {d \in Runs : task'[d] \in AtPermit} = {d \in Runs : task[d] \in AtPermit}
            BY <2>1
        <3> QED
            BY <1>1, <2>1, <3>1 DEF PermitSide
    <2>5. LockSound(t)'
        <3>1. threadLocks'[t] = Release(threadLocks[t], r)
            BY <1>1, <2>1
        <3>2. {d \in Runs : ThreadOf[d] = t /\ task'[d] \in AtLock}
                = {d \in Runs : ThreadOf[d] = t /\ task[d] \in AtLock} \ {r}
            BY <2>1
        <3> HIDE DEF t
        <3> QED
            BY <1>1, <2>1, <2>3, <3>1, <3>2 DEF LockSound
    <2>6. ASSUME NEW u \in Threads, u # t PROVE LockSound(u)'
        <3>1. threadLocks'[u] = threadLocks[u] /\ LockSound(u)
            BY <1>1, <2>1, <2>6 DEF LockInv, LockSide
        <3> QED
            BY <2>1, <2>6, <3>1, LockUntouched
    <2> QED
        BY <1>2, <2>4, <2>5, <2>6 DEF LockInv, LockSide
<1>6. CASE ReleasePermit(r)
    <2>1. /\ task[r] = "unlocked" /\ permits' = Release(permits, r)
          /\ UNCHANGED threadLocks
          /\ \A d \in Runs : task'[d] = IF d = r THEN "settling" ELSE task[d]
        BY <1>1, <1>6 DEF ReleasePermit
    <2>2. r \in permits.holders
        BY <1>1, <2>1 DEF PermitSide
    <2>3. /\ Sound(permits', Runs, MaxConcurrentRuns)
          /\ Members(permits') = Members(permits) \ {r}
          /\ permits.holders \ {r} \subseteq permits'.holders
        BY <1>1, <2>1, <2>2, ReleaseSound DEF PermitSide
    <2>4. PermitSide'
        <3>1. {d \in Runs : task'[d] \in AtPermit} = {d \in Runs : task[d] \in AtPermit} \ {r}
            BY <2>1
        <3> QED
            BY <1>1, <2>1, <2>3, <3>1 DEF PermitSide
    <2>5. ASSUME NEW u \in Threads PROVE LockSound(u)'
        <3>1. LockSound(u)
            BY DEF LockInv, LockSide
        <3>2. {d \in Runs : ThreadOf[d] = u /\ task'[d] \in AtLock}
                = {d \in Runs : ThreadOf[d] = u /\ task[d] \in AtLock}
            BY <2>1
        <3> QED
            BY <2>1, <3>1, <3>2 DEF LockSound
    <2> QED
        BY <1>2, <2>4, <2>5 DEF LockInv, LockSide
<1> QED
    BY <1>3, <1>4, <1>5, <1>6

(* Every step keeps what is said of the locks. *)
LEMMA NextLocks == ASSUME RowInv, LockInv, [Next]_vars PROVE LockInv'
<1> USE DEF durable, sync
<1>0. TypeOK /\ task \in [Runs -> TaskStates]
    BY DEF RowInv, TypeOK
<1>1. ASSUME UNCHANGED <<task, sync>> PROVE LockInv'
    <2>1. PermitSide' /\ LockSide'
        BY <1>1, LocksUntouched
    <2> QED
        BY <1>1, <2>1, FlightShrinks DEF LockInv
<1>2. CASE UNCHANGED vars
    BY <1>1, <1>2 DEF vars
<1>3. CASE EnterStart \/ LeaveStart \/ Close \/ FinishClose \/ GateChange \/ WaitForIdle
    BY <1>1, <1>3 DEF EnterStart, LeaveStart, Close, FinishClose, GateChange, WaitForIdle
<1>4. CASE Exit
    <2>1. /\ permits' = NewSemaphore(MaxConcurrentRuns)
          /\ threadLocks' = [t \in Threads |-> NewSemaphore(1)]
          /\ \A r \in Runs : task'[r] = "none"
        BY <1>4 DEF Exit
    <2>2. /\ Sound(permits', Runs, MaxConcurrentRuns) /\ Members(permits') = {}
          /\ Sound(NewSemaphore(1), Runs, 1) /\ Members(NewSemaphore(1)) = {}
        BY <2>1, QueueAssumptions, NewSemaphoreSound
    <2>3. PermitSide' /\ LockSide'
        BY <2>1, <2>2 DEF PermitSide, LockSide, LockSound, AtPermit, AtLock
    <2> QED
        BY <2>1, <2>3, FlightShrinks DEF LockInv
<1>5. CASE Pump
    BY <1>5, PumpLocks
<1>6. ASSUME NEW r \in Runs,
             \/ Enqueue(r) \/ WaitForRun(r)
             \/ RequeueRecoverable(r) \/ ReconcileActive(r)
      PROVE  LockInv'
    BY <1>1, <1>6 DEF Enqueue, WaitForRun, RequeueRecoverable, ReconcileActive
<1>7. ASSUME NEW r \in Runs,
             CallAcquire(r) \/ CallLock(r) \/ ReleaseLock(r) \/ ReleasePermit(r)
      PROVE  LockInv'
    BY <1>7, StepLocks
<1>8. ASSUME NEW r \in Runs, ExecuteClaimedRun(r) PROVE LockInv'
    <2>1. /\ task[r] = "lock" /\ r \in threadLocks[ThreadOf[r]].holders /\ UNCHANGED sync
          /\ \A d \in Runs \ {r} : task'[d] = task[d]
          /\ task'[r] \in {"executing", "returned"}
        BY <1>0, <1>8, ClaimEffect DEF ExecuteClaimedRun, RowInv
    <2>2. PermitSide' /\ LockSide'
        BY <2>1, LocksUntouched DEF AtPermit, AtLock
    <2>3. \A d \in Runs : task'[d] # "none" => task[d] # "none"
        BY <2>1
    <2> QED
        BY <2>2, <2>3, FlightShrinks DEF LockInv
<1>9. ASSUME NEW r \in Runs, Settle(r) PROVE LockInv'
    <2>1. /\ task[r] = "settling" /\ UNCHANGED sync
          /\ \A d \in Runs : task'[d] = IF d = r THEN "none" ELSE task[d]
        BY <1>0, <1>9 DEF Settle
    <2>2. PermitSide' /\ LockSide'
        BY <2>1, LocksUntouched DEF AtPermit, AtLock
    <2> QED
        BY <2>1, <2>2, FlightShrinks DEF LockInv
<1>10. ASSUME NEW r \in Runs, Executor(r) PROVE LockInv'
    <2>1. CASE UNCHANGED <<task, sync>>
        BY <1>1, <2>1
    <2>2. ASSUME NEW res \in Results, ExecutorSettles(r, res) PROVE LockInv'
        <3>1. /\ task[r] = "executing" /\ UNCHANGED sync
              /\ \A d \in Runs : task'[d] = IF d = r THEN "returned" ELSE task[d]
            BY <1>0, <2>2 DEF ExecutorSettles
        <3>2. PermitSide' /\ LockSide'
            BY <3>1, LocksUntouched DEF AtPermit, AtLock
        <3> QED
            BY <3>1, <3>2, FlightShrinks DEF LockInv
    <2> QED
        BY <1>10, <2>1, <2>2 DEF Executor, UpdateProgress, ExecutorMarksThread
<1> QED
    BY <1>2, <1>3, <1>4, <1>5, <1>6, <1>7, <1>8, <1>9, <1>10 DEF Next, Step, Process

-----------------------------------------------------------------------------
(* The theorems. *)

(* Both invariants hold, and no fairness is needed. *)
LEMMA SafetyInv == Safety => [](RowInv /\ LockInv)
<1>1. Init => RowInv /\ LockInv
    <2>1. ASSUME Init PROVE LockInv
        BY <2>1, RestLocks DEF Init
    <2> QED
        BY <2>1, InitRows
<1>2. RowInv /\ LockInv /\ [Next]_vars => RowInv' /\ LockInv'
    BY NextRows, NextLocks
<1> QED
    BY <1>1, <1>2, PTL DEF Safety

(* Every variable of the queue keeps its type. *)
THEOREM QueueTypeOK == Safety => []TypeOK
<1>1. RowInv => TypeOK
    BY DEF RowInv
<1> QED
    BY <1>1, SafetyInv, PTL

(* Same-thread serialization: pump and launch of durable-run-queue.ts      *)
(* never put two runs of a thread in flight, whatever the order of claims, *)
(* settlements, restarts and new acceptances.                              *)
THEOREM QueueThreadSerialization == Safety => []ThreadSerialization
<1>1. LockInv => ThreadSerialization
    BY DEF LockInv
<1> QED
    BY <1>1, SafetyInv, PTL

(* A launched run never waits for a permit or for the lock of its thread:  *)
(* the pump has counted the slots, and no other run of the thread is there. *)
THEOREM QueueBoundedConcurrency == Safety => []BoundedConcurrency
<1>1. RowInv /\ LockInv => BoundedConcurrency
    <2> SUFFICES ASSUME RowInv, LockInv PROVE BoundedConcurrency
        OBVIOUS
    <2>1. permits.waiters = <<>>
        <3> SUFFICES ASSUME permits.waiters # <<>> PROVE FALSE
            OBVIOUS
        <3>1. /\ permits.waiters \in Seq(Runs) /\ permits.available = 0
              /\ permits.available + Cardinality(permits.holders) = MaxConcurrentRuns
              /\ IsFiniteSet(permits.holders) /\ permits.holders \cap Line(permits) = {}
              /\ Members(permits) \subseteq inFlight
            BY DEF LockInv, PermitSide, Sound, Semaphores, AtPermit, inFlight
        <3>2. Head(permits.waiters) \in Line(permits)
            BY <3>1, LineTail DEF Line
        <3> DEFINE h == Head(permits.waiters)
                   H == permits.holders
        <3>3. h \notin H /\ H \cup {h} \subseteq inFlight
            BY <3>1, <3>2 DEF Members
        <3>4. /\ IsFiniteSet(H) /\ Cardinality(H) = MaxConcurrentRuns
              /\ MaxConcurrentRuns \in Nat
            BY <3>1, QueueAssumptions, FS_CardinalityType
        <3> HIDE DEF h, H
        <3>5. Cardinality(H \cup {h}) = MaxConcurrentRuns + 1
            BY <3>3, <3>4, FS_AddElement
        <3>6. IsFiniteSet(inFlight) /\ Cardinality(inFlight) \in Nat
              /\ Cardinality(inFlight) <= MaxConcurrentRuns
            BY CountType DEF inFlight, LockInv, InFlightBounded
        <3>7. Cardinality(H \cup {h}) <= Cardinality(inFlight)
            BY <3>3, <3>6, FS_Subset
        <3> QED
            BY <3>4, <3>5, <3>6, <3>7
    <2>2. ASSUME NEW t \in Threads PROVE threadLocks[t].waiters = <<>>
        <3> SUFFICES ASSUME threadLocks[t].waiters # <<>> PROVE FALSE
            OBVIOUS
        <3> DEFINE s == threadLocks[t]
        <3>0. LockSound(t)
            BY DEF LockInv, LockSide
        <3>1. /\ s.waiters \in Seq(Runs) /\ s.available = 0
              /\ s.available + Cardinality(s.holders) = 1
              /\ IsFiniteSet(s.holders) /\ s.holders \cap Line(s) = {}
              /\ Members(s) = {r \in Runs : ThreadOf[r] = t /\ task[r] \in AtLock}
            BY <3>0 DEF LockSound, Sound, Semaphores
        <3>2. Head(s.waiters) \in Line(s)
            BY <3>1, LineTail DEF Line
        <3>3. s.holders # {}
            BY <3>1, FS_EmptySet
        <3>4. PICK h \in s.holders : h # Head(s.waiters)
            BY <3>1, <3>2, <3>3
        <3>5. h \in Members(s) /\ Head(s.waiters) \in Members(s)
            BY <3>2 DEF Members
        <3> QED
            BY <3>1, <3>4, <3>5 DEF LockInv, ThreadSerialization, inFlight, AtLock
    <2> QED
        BY <2>1, <2>2 DEF BoundedConcurrency, LockInv, InFlightBounded
<1> QED
    BY <1>1, SafetyInv, PTL

(* waitForRun and waitForIdle: every settlement answers those who wait for *)
(* it, so nobody waits for what has already happened.                      *)
THEOREM QueueNoForgottenWaiter == Safety => []NoForgottenWaiter
<1>1. RowInv => NoForgottenWaiter
    BY DEF RowInv
<1> QED
    BY <1>1, SafetyInv, PTL

(* What each step may do to a row: all that the two action properties, and *)
(* the refinement of the contract, need to know of the steps.              *)
LEMMA RowChanges ==
    ASSUME RowInv, [Next]_vars, NEW r \in Runs, runs'[r] # runs[r]
    PROVE  /\ \A d \in Runs \ {r} : runs'[d] = runs[d]
           /\ \/ runs[r] = NoRun /\ runs'[r] = NewRun /\ Enqueue(r)
              \/ /\ life = "starting" /\ runs[r] \in RunRecords
                 /\ runs[r].state \in {"failed", "needs_attention", "timed_out"}
                 /\ runs'[r] = requeueForRecovery(runs[r]) /\ RequeueRecoverable(r)
              \/ /\ life = "starting" /\ runs[r] \in RunRecords
                 /\ isActiveRunState(runs[r].state) /\ ReconcileActive(r)
                 /\ runs'[r] = reconciledRun(runs[r], OpOf[r], threads[ThreadOf[r]])
              \/ runs[r].state = "queued" /\ ExecuteClaimedRun(r)
              \/ /\ task[r] = "executing" /\ runs[r] \in RunRecords
                 /\ isActiveRunState(runs[r].state) /\ \E p \in Reports : UpdateProgress(r, p)
              \/ /\ task[r] = "executing" /\ runs[r] \in RunRecords
                 /\ isActiveRunState(runs[r].state) /\ \E res \in Results : ExecutorSettles(r, res)
<1> USE DEF durable, sync
<1>0. TypeOK /\ runs \in [Runs -> RunRecords \cup {NoRun}]
    BY DEF RowInv, TypeOK
<1>1. ~UNCHANGED runs
    OBVIOUS
<1>2. PICK d \in Runs :
          \/ Enqueue(d) \/ RequeueRecoverable(d) \/ ReconcileActive(d)
          \/ ExecuteClaimedRun(d)
          \/ \E p \in Reports : UpdateProgress(d, p)
          \/ \E res \in Results : ExecutorSettles(d, res)
    BY <1>1 DEF vars, Next, Process, EnterStart, LeaveStart, Close, FinishClose, Exit,
       GateChange, WaitForIdle, Pump, WaitForRun, Step, Executor, CallAcquire, CallLock,
       ReleaseLock, ReleasePermit, Settle, ExecutorMarksThread
<1>3. CASE Enqueue(d)
    <2>1. runs' = [runs EXCEPT ![d] = NewRun] /\ runs[d] = NoRun
        BY <1>3 DEF Enqueue, FreshId
    <2>2. d = r /\ runs'[r] = NewRun /\ \A e \in Runs \ {r} : runs'[e] = runs[e]
        BY <1>0, <2>1
    <2> QED
        BY <1>3, <2>1, <2>2
<1>4. CASE RequeueRecoverable(d)
    <2>1. /\ life = "starting" /\ runs' = [runs EXCEPT ![d] = requeueForRecovery(runs[d])]
          /\ runs[d].state \in {"failed", "needs_attention", "timed_out"}
        BY <1>4 DEF RequeueRecoverable, Reconciling, Recoverable, isRecoverable
    <2>2. runs[d] \in RunRecords
        BY <1>0, <2>1, ActiveRow DEF isWaitTerminal, isCompletedRunState, COMPLETED
    <2> QED
        BY <1>0, <1>4, <2>1, <2>2
<1>5. CASE ReconcileActive(d)
    <2> DEFINE row == reconciledRun(runs[d], OpOf[d], threads[ThreadOf[d]])
    <2>1. /\ life = "starting" /\ runs' = [runs EXCEPT ![d] = row]
          /\ isActiveRunState(runs[d].state)
        BY <1>5 DEF ReconcileActive, Reconciling, ActiveRuns
    <2>2. runs[d] \in RunRecords
        BY <1>0, <2>1, ActiveRow
    <2> HIDE DEF row
    <2>3. d = r /\ runs'[r] = row /\ \A e \in Runs \ {r} : runs'[e] = runs[e]
        BY <1>0, <2>1
    <2> QED
        BY <1>5, <2>1, <2>2, <2>3 DEF row
<1>6. CASE ExecuteClaimedRun(d)
    <2>1. /\ \A e \in Runs \ {d} : runs'[e] = runs[e]
          /\ runs[d].state = "queued" \/ runs'[d] = runs[d]
        BY <1>0, <1>6, ClaimEffect DEF RowInv
    <2>2. d = r
        BY <2>1
    <2> QED
        BY <1>6, <2>1, <2>2
<1>7. ASSUME task[d] = "executing"
      PROVE  runs[d] \in RunRecords /\ isActiveRunState(runs[d].state)
    BY <1>0, <1>7, ActiveRow DEF RowInv, ExecutingActive
<1>8. ASSUME NEW p \in Reports, UpdateProgress(d, p)
      PROVE  d = r /\ task[d] = "executing" /\ \A e \in Runs \ {d} : runs'[e] = runs[e]
    <2>1. task[d] = "executing"
        BY <1>8 DEF UpdateProgress
    <2> QED
        BY <1>0, <1>7, <1>8, <2>1, Reported
<1>9. ASSUME NEW res \in Results, ExecutorSettles(d, res)
      PROVE  d = r /\ task[d] = "executing" /\ \A e \in Runs \ {d} : runs'[e] = runs[e]
    <2>1. task[d] = "executing"
        BY <1>9 DEF ExecutorSettles
    <2> QED
        BY <1>0, <1>7, <1>9, <2>1, Persisted
<1> QED
    BY <1>2, <1>3, <1>4, <1>5, <1>6, <1>7, <1>8, <1>9

(* Nothing forgets that a message may have reached ChatGPT: not a report,  *)
(* not an outcome, not a released claim, not a restart.                    *)
THEOREM QueueNeverForgetsSubmission == Safety => NeverForgetsSubmission
<1>1. ASSUME RowInv, [Next]_vars
      PROVE  \A r \in Runs : hasPossibleRemoteSideEffect(runs[r])
                                 => hasPossibleRemoteSideEffect(runs'[r])
    <2> SUFFICES ASSUME NEW r \in Runs, hasPossibleRemoteSideEffect(runs[r]),
                        runs'[r] # runs[r]
                 PROVE  hasPossibleRemoteSideEffect(runs'[r])
        OBVIOUS
    <2>0. TypeOK
        BY <1>1 DEF RowInv
    <2>1. CASE runs[r] = NoRun
        BY <2>1, NewRunType DEF hasPossibleRemoteSideEffect
    <2>2. CASE runs[r] \in RunRecords /\ runs'[r] = requeueForRecovery(runs[r])
        BY <2>2, RowTypes DEF hasPossibleRemoteSideEffect
    <2>3. CASE /\ runs[r] \in RunRecords
               /\ runs'[r] = reconciledRun(runs[r], OpOf[r], threads[ThreadOf[r]])
        BY <2>3, ReconciledRun
    <2>4. CASE runs[r].state = "queued" /\ ExecuteClaimedRun(r)
        BY <1>1, <2>0, <2>4, ClaimEffect DEF RowInv, hasPossibleRemoteSideEffect
    <2>5. ASSUME NEW p \in Reports, UpdateProgress(r, p), runs[r] \in RunRecords
          PROVE  hasPossibleRemoteSideEffect(runs'[r])
        <3>1. runs'[r].sub = IF p.sub = "keep" THEN runs[r].sub ELSE p.sub
            BY <2>0, <2>5, Reported
        <3>2. p.sub # "typed"
            <4> SUFFICES ASSUME p.sub = "typed" PROVE FALSE
                OBVIOUS
            <4>1. p.state = "submitting"
                BY QueueAssumptions DEF AllReports
            <4>2. runs[r].state = "navigating" /\ runs[r].phase = "other"
                BY <2>5, <4>1 DEF UpdateProgress, RunRecords, PHASES
            <4> QED
                BY <1>1, <4>2 DEF RowInv, Unsubmitted, hasPossibleRemoteSideEffect
        <3>3. p.sub \in {"keep", "submitted_unconfirmed", "confirmed"}
            BY <3>2, QueueAssumptions DEF AllReports
        <3> QED
            BY <3>1, <3>3 DEF hasPossibleRemoteSideEffect
    <2>6. ASSUME NEW res \in Results, ExecutorSettles(r, res), runs[r] \in RunRecords
          PROVE  hasPossibleRemoteSideEffect(runs'[r])
        BY <2>0, <2>6, Persisted DEF hasPossibleRemoteSideEffect
    <2> QED
        BY <1>1, <2>1, <2>2, <2>3, <2>4, <2>5, <2>6, RowChanges
<1> QED
    BY <1>1, SafetyInv, PTL DEF Safety, NeverForgetsSubmission

(* The outcome a caller was told stands until a restart, and then only a   *)
(* failed run is tried again.                                              *)
THEOREM QueueOutcomeStands == Safety => OutcomeStands
<1>1. ASSUME RowInv, [Next]_vars
      PROVE  \A r \in Runs : isWaitTerminal(runs[r].state) /\ runs'[r] # runs[r] =>
                life = "starting" /\ runs[r].state \notin {"succeeded", "cancelled"}
    <2> SUFFICES ASSUME NEW r \in Runs, isWaitTerminal(runs[r].state), runs'[r] # runs[r]
                 PROVE  life = "starting" /\ runs[r].state \notin {"succeeded", "cancelled"}
        OBVIOUS
    <2>1. /\ runs[r].state \notin {"queued", "absent"} /\ ~isActiveRunState(runs[r].state)
          /\ runs[r] # NoRun
        BY WaitStates, NewRunType
    <2> QED
        BY <1>1, <2>1, RowChanges
<1> QED
    BY <1>1, SafetyInv, PTL DEF Safety, OutcomeStands

-----------------------------------------------------------------------------
(***************************************************************************)
(* The durable run queue implements RunQueueContract, if two things do not *)
(* happen: two acceptances in one millisecond, whose order created_at does *)
(* not tell, and a gate that closes between the claim of a recovery and    *)
(* the executor, whose claim cannot be given back (the code throws and     *)
(* leaves the row active).                                                 *)
(*                                                                         *)
(* A run that has been launched and not claimed is still the oldest one    *)
(* queued in its thread (OldestQueued): later acceptances have later       *)
(* stamps (Stamps), and runs are queued again only by a restart.           *)
(***************************************************************************)
Orderly == ~SameMillisecond /\ ~GateMayFlip

Up == life \in {"running", "stopping", "stopped"}

Accepted == {r \in Runs : runs[r] # NoRun}

Stamps ==
    /\ \A r \in Runs : acceptedAt[r] <= Cardinality(Accepted)
    /\ \A q, r \in Accepted : createdAt[q] = createdAt[r] => q = r
    /\ \A q, r \in Accepted : createdAt[q] < createdAt[r] => acceptedAt[q] <= acceptedAt[r]

NotClaimed == {"launched", "permit", "lock"}

OldestQueued ==
    \A q, r \in Runs :
        /\ task[r] \in NotClaimed /\ runs[r].state = "queued"
        /\ ThreadOf[q] = ThreadOf[r] /\ runs[q].state = "queued"
        => ~Before(q, r)

InFlightAccepted == inFlight \subseteq Accepted

ActiveExecutes ==
    Up => \A r \in Runs : isActiveRunState(runs[r].state) => task[r] = "executing"

ContractInv == RowInv /\ LockInv /\ Stamps /\ OldestQueued /\ InFlightAccepted /\ ActiveExecutes

-----------------------------------------------------------------------------
(* A run is accepted when it has a row. *)
LEMMA AcceptedRows ==
    ASSUME TypeOK, NEW r \in Runs
    PROVE  r \in Accepted <=> runs[r].state # "absent"
BY Rows, NewRunType DEF Accepted, RunRecords, RUN_STATES

(* What the contract needs holds at the beginning. *)
LEMMA InitContract == Init => Stamps /\ OldestQueued /\ InFlightAccepted /\ ActiveExecutes
<1> SUFFICES ASSUME Init PROVE Stamps /\ OldestQueued /\ InFlightAccepted /\ ActiveExecutes
    OBVIOUS
<1>1. Accepted = {} /\ Cardinality(Accepted) = 0
    BY FS_EmptySet DEF Init, Accepted
<1>2. Stamps
    BY <1>1 DEF Init, Stamps
<1> QED
    BY <1>2 DEF Init, OldestQueued, InFlightAccepted, ActiveExecutes, NotClaimed, inFlight, Up

(* No step takes a row out of the table. *)
LEMMA RowsStay ==
    ASSUME RowInv, [Next]_vars, NEW r \in Runs, runs[r] # NoRun
    PROVE  runs'[r] # NoRun
<1> SUFFICES ASSUME runs'[r] # runs[r] PROVE runs'[r] # NoRun
    OBVIOUS
<1>0. TypeOK
    BY DEF RowInv
<1>1. CASE runs[r].state = "queued" /\ ExecuteClaimedRun(r)
    BY <1>0, <1>1, ClaimEffect, NewRunType DEF RowInv
<1>2. ASSUME NEW p \in Reports, UpdateProgress(r, p), runs[r] \in RunRecords
      PROVE  runs'[r] # NoRun
    BY <1>0, <1>2, Reported, NewRunType DEF isActiveRunState, ACTIVE
<1>3. ASSUME NEW res \in Results, ExecutorSettles(r, res), runs[r] \in RunRecords
      PROVE  runs'[r] # NoRun
    BY <1>0, <1>3, Persisted, NewRunType, WaitStates
<1>4. CASE runs[r] \in RunRecords /\ runs'[r] \in RunRecords
    BY <1>4, NewRunType DEF RunRecords, RUN_STATES
<1> QED
    BY <1>1, <1>2, <1>3, <1>4, RowChanges, RowTypes, ReconciledRun

(* The clock: a later acceptance has a later stamp. *)
LEMMA StampsStep == ASSUME ContractInv, Orderly, [Next]_vars PROVE Stamps'
<1>0. RowInv /\ TypeOK /\ Stamps
    BY DEF ContractInv, RowInv
<1>1. CASE UNCHANGED <<createdAt, acceptedAt>> /\ ~\E r \in Runs : Enqueue(r)
    <2>1. ASSUME NEW r \in Runs PROVE r \in Accepted <=> runs'[r] # NoRun
        <3>1. CASE runs[r] = NoRun
            <4> SUFFICES ASSUME runs'[r] # runs[r] PROVE FALSE
                BY <3>1 DEF Accepted
            <4>1. ~ExecuteClaimedRun(r) \/ runs[r].state # "queued"
                BY <3>1, NewRunType
            <4>2. runs[r] \notin RunRecords
                BY <3>1, NewRunType DEF RunRecords, RUN_STATES
            <4> QED
                BY <1>0, <1>1, <4>1, <4>2, RowChanges
        <3>2. CASE runs[r] # NoRun
            BY <1>0, <3>2, RowsStay DEF Accepted
        <3> QED
            BY <3>1, <3>2
    <2>2. Accepted' = Accepted
        BY <2>1 DEF Accepted
    <2> QED
        BY <1>0, <1>1, <2>2 DEF Stamps
<1>2. ASSUME NEW r \in Runs, Enqueue(r) PROVE Stamps'
    <2>1. /\ runs[r] = NoRun /\ runs' = [runs EXCEPT ![r] = NewRun]
          /\ \E ms \in NextCreatedAt : createdAt' = [createdAt EXCEPT ![r] = ms]
          /\ acceptedAt' = [acceptedAt EXCEPT ![r] = Cardinality(Accepted) + 1]
        BY <1>2 DEF Enqueue, FreshId, Accepted
    <2>2. PICK ms \in NextCreatedAt : createdAt' = [createdAt EXCEPT ![r] = ms]
        BY <2>1
    <2>3. ms \in Nat /\ \A q \in Runs : createdAt[q] < ms
        <3>1. ms \in Nat
            BY CountType DEF NextCreatedAt
        <3>2. \A q \in Runs : createdAt[q] <= ms /\ createdAt[q] # ms
            BY DEF NextCreatedAt, Orderly
        <3> QED
            BY <1>0, <3>1, <3>2 DEF TypeOK
    <2>4. Accepted' = Accepted \cup {r} /\ r \notin Accepted
        BY <1>0, <2>1, NewRunType DEF TypeOK, Accepted
    <2>5. Cardinality(Accepted') = Cardinality(Accepted) + 1 /\ Cardinality(Accepted) \in Nat
        <3>1. Accepted \in SUBSET Runs
            BY DEF Accepted
        <3>2. IsFiniteSet(Accepted) /\ Cardinality(Accepted) \in Nat
            BY <3>1, CountType
        <3> QED
            BY <2>4, <3>2, FS_AddElement
    <2>6. /\ \A q \in Runs : createdAt'[q] = IF q = r THEN ms ELSE createdAt[q]
          /\ \A q \in Runs : acceptedAt'[q] = IF q = r THEN Cardinality(Accepted) + 1
                                                      ELSE acceptedAt[q]
          /\ \A q \in Runs : createdAt[q] \in Nat /\ acceptedAt[q] \in Nat
        BY <1>0, <2>1, <2>2 DEF TypeOK
    <2>7. \A q \in Runs : acceptedAt[q] <= Cardinality(Accepted)
        BY <1>0 DEF Stamps
    <2>8. \A q \in Runs : acceptedAt'[q] <= Cardinality(Accepted')
        BY <2>5, <2>6, <2>7
    <2>9. \A p, q \in Accepted' : createdAt'[p] = createdAt'[q] => p = q
        BY <1>0, <2>3, <2>4, <2>6 DEF Stamps, Accepted
    <2>10. ASSUME NEW p \in Accepted', NEW q \in Accepted', createdAt'[p] < createdAt'[q]
           PROVE  acceptedAt'[p] <= acceptedAt'[q]
        <3>1. CASE p \in Accepted /\ q \in Accepted
            BY <1>0, <2>4, <2>6, <2>10, <3>1 DEF Stamps, Accepted
        <3>2. CASE q = r
            BY <2>4, <2>5, <2>6, <2>7, <3>2 DEF Accepted
        <3>3. CASE p = r /\ q \in Accepted
            BY <2>3, <2>4, <2>6, <2>10, <3>3 DEF Accepted
        <3> QED
            BY <2>4, <3>1, <3>2, <3>3
    <2> QED
        BY <2>8, <2>9, <2>10 DEF Stamps
<1>3. UNCHANGED <<createdAt, acceptedAt>> \/ \E r \in Runs : Enqueue(r)
    BY DEF vars, durable, Next, Process, EnterStart, LeaveStart, Close, FinishClose, Exit,
       GateChange, WaitForIdle, Pump, WaitForRun, Step, Executor, CallAcquire, CallLock,
       ReleaseLock, ReleasePermit, Settle, RequeueRecoverable, ReconcileActive,
       ExecuteClaimedRun, UpdateProgress, ExecutorMarksThread, ExecutorSettles
<1> QED
    BY <1>1, <1>2, <1>3

(* Where a run's task may go without the pump. *)
LEMMA TaskMoves ==
    ASSUME RowInv, [Next]_vars, ~Pump, ~Exit, NEW r \in Runs
    PROVE  /\ task'[r] \in NotClaimed => task[r] \in NotClaimed
           /\ task'[r] # "none" => task[r] # "none"
           /\ task[r] = "executing" /\ task'[r] # "executing" =>
                 \E res \in Results : ExecutorSettles(r, res)
<1>0. TypeOK /\ task \in [Runs -> TaskStates]
    BY DEF RowInv, TypeOK
<1>1. CASE UNCHANGED task
    BY <1>1
<1>2. ASSUME NEW d \in Runs,
             CallAcquire(d) \/ CallLock(d) \/ ReleaseLock(d) \/ ReleasePermit(d) \/ Settle(d)
      PROVE  /\ task'[r] \in NotClaimed => task[r] \in NotClaimed
             /\ task'[r] # "none" => task[r] # "none"
             /\ task[r] = "executing" => task'[r] = "executing"
    BY <1>0, <1>2 DEF CallAcquire, CallLock, ReleaseLock, ReleasePermit, Settle, NotClaimed
<1>3. ASSUME NEW d \in Runs, ExecuteClaimedRun(d)
      PROVE  /\ task'[r] \in NotClaimed => task[r] \in NotClaimed
             /\ task'[r] # "none" => task[r] # "none"
             /\ task[r] = "executing" => task'[r] = "executing"
    <2>1. /\ task[d] = "lock" /\ task'[d] \in {"executing", "returned"}
          /\ \A e \in Runs \ {d} : task'[e] = task[e]
        BY <1>0, <1>3, ClaimEffect DEF RowInv, ExecuteClaimedRun
    <2> QED
        BY <2>1 DEF NotClaimed
<1>4. ASSUME NEW d \in Runs, NEW res \in Results, ExecutorSettles(d, res)
      PROVE  /\ task'[r] \in NotClaimed => task[r] \in NotClaimed
             /\ task'[r] # "none" => task[r] # "none"
             /\ task[r] = "executing" /\ task'[r] # "executing" => d = r
    <2>1. /\ task[d] = "executing" /\ task'[d] = "returned"
          /\ \A e \in Runs \ {d} : task'[e] = task[e]
        BY <1>0, <1>4 DEF ExecutorSettles
    <2> QED
        BY <2>1 DEF NotClaimed
<1>5. \/ UNCHANGED task
      \/ \E d \in Runs : \/ CallAcquire(d) \/ CallLock(d) \/ ReleaseLock(d)
                          \/ ReleasePermit(d) \/ Settle(d) \/ ExecuteClaimedRun(d)
                          \/ \E res \in Results : ExecutorSettles(d, res)
    BY DEF vars, Next, Process, EnterStart, LeaveStart, Close, FinishClose, GateChange,
       WaitForIdle, Enqueue, WaitForRun, Step, Executor, RequeueRecoverable, ReconcileActive,
       UpdateProgress, ExecutorMarksThread
<1> QED
    BY <1>1, <1>2, <1>3, <1>4, <1>5

(* Outside start() only an acceptance makes a run queued. *)
LEMMA QueuedFrom ==
    ASSUME RowInv, [Next]_vars, life # "starting", NEW r \in Runs,
           runs'[r].state = "queued", ~Enqueue(r)
    PROVE  runs[r].state = "queued"
<1> SUFFICES ASSUME runs'[r] # runs[r] PROVE runs[r].state = "queued"
    OBVIOUS
<1>0. TypeOK
    BY DEF RowInv
<1>1. ASSUME NEW p \in Reports, UpdateProgress(r, p), runs[r] \in RunRecords PROVE FALSE
    BY <1>0, <1>1, Reported DEF isActiveRunState, ACTIVE
<1>2. ASSUME NEW res \in Results, ExecutorSettles(r, res), runs[r] \in RunRecords PROVE FALSE
    BY <1>0, <1>2, Persisted, WaitStates
<1> QED
    BY <1>1, <1>2, RowChanges

(* The oldest queued run of a thread is a candidate if any of them is. *)
LEMMA CandidatesFirst ==
    ASSUME TypeOK, NEW r \in Candidates, NEW q \in Queued, Before(q, r)
    PROVE  q \in Candidates
<1> DEFINE rank(d) == Cardinality({p \in Queued : Before(p, d)})
<1>1. Queued \in SUBSET Runs /\ r \in Queued /\ rank(r) < MaxQueueDepth
    BY DEF Queued, Candidates
<1>2. rank(q) < rank(r)
    BY <1>1, RankGrows
<1>3. rank(q) \in Nat /\ rank(r) \in Nat /\ MaxQueueDepth \in Nat
    <2>1. /\ {p \in Queued : Before(p, q)} \in SUBSET Runs
          /\ {p \in Queued : Before(p, r)} \in SUBSET Runs
        BY <1>1
    <2> QED
        BY <2>1, CountType, QueueAssumptions
<1>4. rank(q) < MaxQueueDepth
    <2> HIDE DEF rank
    <2> QED
        BY <1>1, <1>2, <1>3
<1> QED
    BY <1>4 DEF Candidates

(* A launched run that is not claimed stays the oldest of its thread. *)
LEMMA OldestStep == ASSUME ContractInv, Orderly, [Next]_vars PROVE OldestQueued'
<1> SUFFICES ASSUME NEW q \in Runs, NEW r \in Runs,
                    task'[r] \in NotClaimed, runs'[r].state = "queued",
                    ThreadOf[q] = ThreadOf[r], runs'[q].state = "queued"
             PROVE  ~Before(q, r)'
    BY DEF OldestQueued
<1>0. RowInv /\ TypeOK /\ OldestQueued /\ InFlightAccepted
    BY DEF ContractInv, RowInv
<1>1. ~Exit
    BY DEF Exit, NotClaimed
<1>2. CASE Pump
    <2>1. UNCHANGED <<runs, createdAt>>
        BY <1>2 DEF Pump, durable
    <2>2. CASE r \in Launched
        <3>1. r \in Candidates /\ \A p \in Candidates : ThreadOf[p] = ThreadOf[r] => ~Before(p, r)
            BY <2>2 DEF Launched, Launchable
        <3>2. q \in Queued
            BY <2>1 DEF Queued
        <3>3. ~Before(q, r)
            BY <1>0, <3>1, <3>2, CandidatesFirst
        <3> QED
            BY <2>1, <3>3 DEF Before
    <2>3. CASE r \notin Launched
        <3>1. task'[r] = task[r]
            BY <1>0, <1>2, <2>3 DEF Pump, TypeOK
        <3>2. ~Before(q, r)
            BY <1>0, <2>1, <3>1 DEF OldestQueued
        <3> QED
            BY <2>1, <3>2 DEF Before
    <2> QED
        BY <2>2, <2>3
<1>3. CASE ~Pump
    <2>1. task[r] \in NotClaimed /\ task[r] # "none"
        BY <1>0, <1>1, <1>3, TaskMoves DEF NotClaimed
    <2>2. life # "starting" /\ life # "down" /\ runs[r] # NoRun
        BY <1>0, <2>1 DEF RowInv, AtRest, InFlightAccepted, inFlight, Accepted
    <2>3. runs[r].state = "queued"
        BY <1>0, <2>2, QueuedFrom DEF Enqueue, FreshId
    <2>4. CASE Enqueue(q)
        <3>1. PICK ms \in NextCreatedAt : createdAt' = [createdAt EXCEPT ![q] = ms]
            BY <2>4 DEF Enqueue
        <3>2. q # r
            BY <2>2, <2>4 DEF Enqueue, FreshId
        <3>3. createdAt[r] \in Nat /\ createdAt'[r] = createdAt[r] /\ createdAt'[q] = ms
            BY <1>0, <3>1, <3>2 DEF TypeOK
        <3>4. ms \in Nat /\ createdAt[r] <= ms /\ createdAt[r] # ms
            <4>1. ms \in Nat
                BY CountType DEF NextCreatedAt
            <4> QED
                BY <4>1 DEF NextCreatedAt, Orderly
        <3> QED
            BY <3>3, <3>4 DEF Before
    <2>5. CASE ~Enqueue(q)
        <3>1. runs[q].state = "queued"
            BY <1>0, <2>2, <2>5, QueuedFrom
        <3>2. ~Before(q, r)
            BY <1>0, <2>1, <2>3, <3>1 DEF OldestQueued
        <3>3. createdAt'[q] = createdAt[q] /\ createdAt'[r] = createdAt[r]
            <4>1. CASE UNCHANGED createdAt
                BY <4>1
            <4>2. ASSUME NEW d \in Runs, Enqueue(d)
                  PROVE  createdAt'[q] = createdAt[q] /\ createdAt'[r] = createdAt[r]
                <5>1. d # q /\ d # r
                    BY <2>2, <2>5, <4>2 DEF Enqueue, FreshId
                <5> QED
                    BY <1>0, <4>2, <5>1 DEF Enqueue, TypeOK
            <4>3. UNCHANGED createdAt \/ \E d \in Runs : Enqueue(d)
                BY DEF vars, durable, Next, Process, EnterStart, LeaveStart, Close,
                   FinishClose, Exit, GateChange, WaitForIdle, Pump, WaitForRun, Step,
                   Executor, CallAcquire, CallLock, ReleaseLock, ReleasePermit, Settle,
                   RequeueRecoverable, ReconcileActive, ExecuteClaimedRun, UpdateProgress,
                   ExecutorMarksThread, ExecutorSettles
            <4> QED
                BY <4>1, <4>2, <4>3
        <3> QED
            BY <3>2, <3>3 DEF Before
    <2> QED
        BY <2>4, <2>5
<1> QED
    BY <1>2, <1>3

(* What is in flight has a row. *)
LEMMA InFlightStays == ASSUME ContractInv, [Next]_vars PROVE InFlightAccepted'
<1> SUFFICES ASSUME NEW r \in Runs, task'[r] # "none" PROVE runs'[r] # NoRun
    BY DEF InFlightAccepted, inFlight, Accepted
<1>0. RowInv /\ TypeOK /\ InFlightAccepted /\ ~Exit
    BY DEF ContractInv, RowInv, Exit
<1>1. CASE task[r] # "none"
    BY <1>0, <1>1, RowsStay DEF InFlightAccepted, inFlight, Accepted
<1>2. CASE Pump /\ task[r] = "none"
    <2>1. r \in Launched
        BY <1>0, <1>2 DEF Pump, TypeOK
    <2>2. runs[r].state = "queued" /\ UNCHANGED runs
        BY <1>2, <2>1 DEF Pump, durable, Launched, Launchable, Candidates, Queued
    <2> QED
        BY <2>2, NewRunType
<1> QED
    BY <1>0, <1>1, <1>2, TaskMoves

(* Without a gate that closes mid-claim, an active row has its executor.   *)
LEMMA ActiveStep == ASSUME ContractInv, Orderly, [Next]_vars PROVE ActiveExecutes'
<1> SUFFICES ASSUME Up', NEW r \in Runs, isActiveRunState(runs'[r].state)
             PROVE  task'[r] = "executing"
    BY DEF ActiveExecutes
<1>0. RowInv /\ TypeOK /\ ActiveExecutes /\ ~Exit
    BY DEF ContractInv, RowInv, Exit, Up
<1>1. CASE runs'[r] # runs[r]
    <2>1. life # "starting" \/ LeaveStart \/ (life' = life)
        BY <1>0 DEF vars, Next, Process, EnterStart, LeaveStart, Close, FinishClose, Exit,
           GateChange, WaitForIdle, Pump, Enqueue, WaitForRun, Step, Executor, CallAcquire,
           CallLock, ReleaseLock, ReleasePermit, Settle, RequeueRecoverable,
           ReconcileActive, ExecuteClaimedRun, UpdateProgress, ExecutorMarksThread,
           ExecutorSettles
    <2>2. life # "starting"
        BY <1>1, <2>1 DEF Up, LeaveStart, durable
    <2>3. CASE runs[r] = NoRun /\ runs'[r] = NewRun
        BY <2>3, NewRunType DEF isActiveRunState, ACTIVE
    <2>4. CASE runs[r].state = "queued" /\ ExecuteClaimedRun(r)
        BY <1>0, <1>1, <2>4, ClaimEffect, NewRunType
           DEF RowInv, Orderly, isActiveRunState, ACTIVE
    <2>5. ASSUME NEW p \in Reports, UpdateProgress(r, p) PROVE task'[r] = "executing"
        BY <2>5 DEF UpdateProgress
    <2>6. ASSUME NEW res \in Results, ExecutorSettles(r, res), runs[r] \in RunRecords
          PROVE  FALSE
        BY <1>0, <2>6, Persisted, WaitStates
    <2> QED
        BY <1>0, <1>1, <2>2, <2>3, <2>4, <2>5, <2>6, RowChanges
<1>2. CASE runs'[r] = runs[r]
    <2>1. CASE ~Up
        <3>1. LeaveStart
            BY <1>0, <2>1 DEF Up, vars, Next, Process, EnterStart, LeaveStart, Close, FinishClose,
               Exit, GateChange, WaitForIdle, Pump, Enqueue, WaitForRun, Step, Executor,
               CallAcquire, CallLock, ReleaseLock, ReleasePermit, Settle,
               RequeueRecoverable, ReconcileActive, ExecuteClaimedRun, UpdateProgress,
               ExecutorMarksThread, ExecutorSettles
        <3> QED
            BY <1>2, <3>1 DEF LeaveStart, AllReconciled, ActiveRuns
    <2>2. CASE Up
        <3>1. task[r] = "executing" /\ runs[r].state # "queued"
            BY <1>0, <1>2, <2>2 DEF ActiveExecutes, isActiveRunState, ACTIVE
        <3>2. CASE Pump
            <4>1. r \notin Launched
                BY <3>1 DEF Launched, Launchable, Candidates, Queued
            <4> QED
                BY <1>0, <3>1, <3>2, <4>1 DEF Pump, TypeOK
        <3>3. ASSUME NEW res \in Results, ExecutorSettles(r, res) PROVE FALSE
            <4>1. runs[r] \in RunRecords
                BY <1>0, <1>2, ActiveRow
            <4> QED
                BY <1>0, <3>3, <4>1, Persisted, WaitStates
        <3> QED
            BY <1>0, <3>1, <3>2, <3>3, TaskMoves
    <2> QED
        BY <2>1, <2>2
<1> QED
    BY <1>1, <1>2

(* So does the invariant of the contract. *)
LEMMA SafetyContractInv == ASSUME Orderly PROVE Safety => []ContractInv
<1>1. Init => ContractInv
    <2>1. ASSUME Init PROVE LockInv
        BY <2>1, RestLocks DEF Init
    <2> QED
        BY <2>1, InitRows, InitContract DEF ContractInv
<1>2. ContractInv /\ [Next]_vars => ContractInv'
    <2> SUFFICES ASSUME ContractInv, [Next]_vars PROVE ContractInv'
        OBVIOUS
    <2>1. RowInv' /\ LockInv'
        BY NextRows, NextLocks DEF ContractInv
    <2> QED
        BY <2>1, StampsStep, OldestStep, InFlightStays, ActiveStep DEF ContractInv
<1> QED
    BY <1>1, <1>2, PTL DEF Safety

-----------------------------------------------------------------------------
(* The refinement. *)

(* With the gate steady, no crash, exception or orderly close leaves a row *)
(* active without an executor, or an executor without an active row.       *)
THEOREM QueueActiveMeansExecuting ==
    ASSUME Orderly PROVE Safety => []ActiveMeansExecuting
<1>1. ContractInv => ActiveMeansExecuting
    BY DEF ContractInv, RowInv, ActiveExecutes, ExecutingActive, ActiveMeansExecuting,
           ActiveRuns, Up
<1> QED
    BY <1>1, SafetyContractInv, PTL

(* The stages of the states. *)
LEMMA StageValues ==
    ASSUME NEW state
    PROVE  /\ state \in {"queued", "absent"} => StageOf(state) = state
           /\ isActiveRunState(state) => StageOf(state) = "active"
           /\ isWaitTerminal(state) => StageOf(state) \in {"parked", "final"}
           /\ state \in {"failed", "needs_attention", "timed_out"} => StageOf(state) = "parked"
           /\ StageOf(state) = "active" => isActiveRunState(state)
           /\ StageOf(state) = "queued" => state = "queued"
           /\ StageOf(state) = "absent" => state = "absent"
<1> USE DEF StageOf, isActiveRunState, ACTIVE
<1>1. CASE state \in {"queued", "absent"}
    BY <1>1 DEF isWaitTerminal, isCompletedRunState, COMPLETED
<1>2. CASE isActiveRunState(state)
    BY <1>2 DEF isWaitTerminal, isCompletedRunState, COMPLETED
<1>3. CASE state \in {"succeeded", "cancelled"}
    BY <1>3
<1>4. CASE /\ state \notin {"queued", "absent", "succeeded", "cancelled"}
           /\ ~isActiveRunState(state)
    BY <1>4
<1> QED
    BY <1>1, <1>2, <1>3, <1>4

(* The contract counts as the queue does. *)
LEMMA ContractCardinality == ASSUME NEW S PROVE Contract!Cardinality(S) = Cardinality(S)
BY DEF Contract!Cardinality, Cardinality

Stage == [r \in Runs |-> StageOf(runs[r].state)]

(* A row that changes alone moves its run alone. *)
LEMMA StageMoves ==
    ASSUME NEW r \in Runs, \A d \in Runs \ {r} : runs'[d] = runs[d]
    PROVE  Contract!Move(r, StageOf(runs'[r].state))
BY DEF Contract!Move

(* Where no row changes its stage none of the contract's does. *)
LEMMA StageStays ==
    ASSUME \A r \in Runs : StageOf(runs'[r].state) = StageOf(runs[r].state)
    PROVE  Stage' = Stage
BY DEF Stage

(* A claim is made in turn: no run of the thread is active, none queued is *)
(* older, and a slot is free.                                              *)
LEMMA ClaimInTurn ==
    ASSUME ContractInv, NEW r \in Runs, runs[r].state = "queued", task[r] = "lock"
    PROVE  /\ Cardinality(Contract!In("active")) < MaxConcurrentRuns
           /\ \A q \in Runs : ThreadOf[q] = ThreadOf[r] =>
                 /\ Stage[q] # "active"
                 /\ Stage[q] = "queued" => acceptedAt[r] <= acceptedAt[q]
<1> DEFINE active == Contract!In("active")
<1>0. RowInv /\ TypeOK /\ Up /\ r \in inFlight
    BY DEF ContractInv, RowInv, AtRest, TypeOK, Up, inFlight
<1>1. ASSUME NEW q \in Runs, StageOf(runs[q].state) = "active"
      PROVE  q \in inFlight \ {r}
    <2>1. isActiveRunState(runs[q].state)
        BY <1>1, StageValues
    <2>2. task[q] = "executing" /\ runs[q].state # "queued"
        BY <1>0, <2>1 DEF ContractInv, ActiveExecutes, isActiveRunState, ACTIVE
    <2> QED
        BY <2>2 DEF inFlight
<1>2. active \subseteq inFlight \ {r}
    BY <1>1 DEF Contract!In
<1>3. Cardinality(active) < MaxConcurrentRuns
    <2> HIDE DEF active
    <2>1. /\ IsFiniteSet(inFlight) /\ Cardinality(inFlight) \in Nat
          /\ Cardinality(inFlight) <= MaxConcurrentRuns
        BY CountType DEF inFlight, ContractInv, LockInv, InFlightBounded
    <2>2. /\ Cardinality(inFlight \ {r}) = Cardinality(inFlight) - 1
          /\ IsFiniteSet(inFlight \ {r})
        BY <1>0, <2>1, FS_RemoveElement
    <2>3. Cardinality(active) <= Cardinality(inFlight \ {r}) /\ IsFiniteSet(active)
        BY <1>2, <2>2, FS_Subset
    <2>4. Cardinality(active) \in Nat
        BY <2>3, FS_CardinalityType
    <2> QED
        BY <2>1, <2>2, <2>3, <2>4, QueueAssumptions
<1>4. ASSUME NEW q \in Runs, ThreadOf[q] = ThreadOf[r]
      PROVE  /\ Stage[q] # "active"
             /\ Stage[q] = "queued" => acceptedAt[r] <= acceptedAt[q]
    <2>1. Stage[q] # "active"
        <3>1. q \in inFlight => q = r
            BY <1>0, <1>4 DEF ContractInv, LockInv, ThreadSerialization
        <3> QED
            BY <1>1, <3>1 DEF Stage
    <2>2. ASSUME Stage[q] = "queued" PROVE acceptedAt[r] <= acceptedAt[q]
        <3>1. runs[q].state = "queued"
            BY <2>2, StageValues DEF Stage
        <3>2. ~Before(q, r)
            BY <1>4, <3>1 DEF ContractInv, OldestQueued, NotClaimed
        <3>3. q \in Accepted /\ r \in Accepted
            BY <3>1, NewRunType DEF Accepted
        <3>4. /\ createdAt[q] \in Nat /\ createdAt[r] \in Nat
              /\ acceptedAt[q] \in Nat /\ acceptedAt[r] \in Nat
            BY <1>0 DEF TypeOK
        <3>5. q = r \/ createdAt[r] < createdAt[q]
            BY <3>2, <3>3, <3>4 DEF ContractInv, Stamps, Before
        <3> QED
            BY <3>3, <3>4, <3>5 DEF ContractInv, Stamps
    <2> QED
        BY <2>1, <2>2
<1> QED
    BY <1>3, <1>4

(* Every step of the queue is a step of the contract, or none. *)
LEMMA StepRefines ==
    ASSUME ContractInv, ContractInv', Orderly, [Next]_vars
    PROVE  [Contract!Next]_(Contract!vars)
<1>0. RowInv /\ TypeOK
    BY DEF ContractInv, RowInv
<1>1. CASE \A r \in Runs : StageOf(runs'[r].state) = StageOf(runs[r].state)
    <2>1. Stage' = Stage
        BY <1>1, StageStays
    <2>2. ~\E r \in Runs : Enqueue(r)
        <3> SUFFICES ASSUME NEW r \in Runs, Enqueue(r) PROVE FALSE
            OBVIOUS
        <3>1. runs[r] = NoRun /\ runs'[r] = NewRun
            BY <1>0 DEF Enqueue, FreshId, TypeOK
        <3>2. StageOf(runs[r].state) = "absent" /\ StageOf(runs'[r].state) = "queued"
            BY <3>1, NewRunType, StageValues
        <3> QED
            BY <1>1, <3>2
    <2>3. /\ UNCHANGED acceptedAt
          /\ \/ UNCHANGED Up
             \/ Up /\ ~Up'
             \/ LeaveStart
        BY <2>2 DEF Up, vars, durable, Next, Process, EnterStart, LeaveStart, Close, FinishClose,
           Exit, GateChange, WaitForIdle, Pump, WaitForRun, Step, Executor,
           CallAcquire, CallLock, ReleaseLock, ReleasePermit, Settle,
           RequeueRecoverable, ReconcileActive, ExecuteClaimedRun, UpdateProgress,
           ExecutorMarksThread, ExecutorSettles
    <2>4. CASE UNCHANGED Up
        BY <2>1, <2>3, <2>4 DEF Contract!vars, Stage, Up
    <2>5. CASE Up /\ ~Up'
        BY <2>1, <2>3, <2>5 DEF Contract!Next, Contract!GoDown, Stage, Up
    <2>6. CASE LeaveStart
        <3>1. Contract!In("active") = {}
            BY <2>6, StageValues DEF Contract!In, LeaveStart, AllReconciled, ActiveRuns
        <3> QED
            BY <2>1, <2>3, <2>6, <3>1 DEF Contract!Next, Contract!GoUp, Stage, LeaveStart
    <2> QED
        BY <2>3, <2>4, <2>5, <2>6
<1>2. ASSUME NEW r \in Runs, StageOf(runs'[r].state) # StageOf(runs[r].state)
      PROVE  Contract!Next
    <2>1. runs'[r] # runs[r]
        BY <1>2
    <2>2. Contract!Move(r, StageOf(runs'[r].state))
        BY <1>0, <2>1, RowChanges, StageMoves
    <2>3. CASE runs[r] = NoRun /\ runs'[r] = NewRun /\ Enqueue(r)
        <3>1. StageOf(runs[r].state) = "absent" /\ StageOf(runs'[r].state) = "queued"
            BY <2>3, NewRunType, StageValues
        <3>2. /\ life = "running" /\ UNCHANGED life
              /\ acceptedAt' = [acceptedAt EXCEPT ![r] = Cardinality(Accepted) + 1]
            BY <2>3 DEF Enqueue, Accepted
        <3>3. Runs \ Contract!In("absent") = Accepted
            <4>1. ASSUME NEW d \in Runs
                  PROVE  StageOf(runs[d].state) = "absent" <=> d \notin Accepted
                BY <1>0, AcceptedRows, StageValues
            <4> QED
                BY <4>1 DEF Contract!In, Accepted
        <3>4. Contract!Accept(r)
            <4>1. Contract!Cardinality(Runs \ Contract!In("absent")) = Cardinality(Accepted)
                BY <3>3, ContractCardinality
            <4> QED
                BY <2>2, <3>1, <3>2, <4>1 DEF Contract!Accept
        <3> QED
            BY <3>4 DEF Contract!Next
    <2>4. CASE /\ life = "starting" /\ RequeueRecoverable(r) /\ runs[r] \in RunRecords
               /\ runs[r].state \in {"failed", "needs_attention", "timed_out"}
               /\ runs'[r] = requeueForRecovery(runs[r])
        <3>1. StageOf(runs[r].state) = "parked" /\ StageOf(runs'[r].state) = "queued"
            BY <2>4, RowTypes, StageValues
        <3>2. UNCHANGED <<life, acceptedAt>>
            BY <2>4 DEF RequeueRecoverable
        <3>3. Contract!Recover(r)
            BY <2>2, <2>4, <3>1, <3>2 DEF Contract!Recover
        <3> QED
            BY <3>3 DEF Contract!Next
    <2>5. CASE /\ life = "starting" /\ ReconcileActive(r) /\ runs[r] \in RunRecords
               /\ isActiveRunState(runs[r].state)
               /\ runs'[r] = reconciledRun(runs[r], OpOf[r], threads[ThreadOf[r]])
        <3>1. runs'[r] \in RunRecords /\ ~isActiveRunState(runs'[r].state)
            BY <2>5, ReconciledRun
        <3>2. StageOf(runs[r].state) = "active"
            BY <2>5, StageValues
        <3>3. StageOf(runs'[r].state) \in {"queued", "parked", "final"}
            <4>1. runs'[r].state = "queued" \/ isWaitTerminal(runs'[r].state)
                BY <3>1 DEF RunRecords, RUN_STATES, isActiveRunState, ACTIVE, isWaitTerminal,
                            isCompletedRunState, COMPLETED
            <4> QED
                BY <4>1, StageValues
        <3>4. UNCHANGED <<life, acceptedAt>>
            BY <2>5 DEF ReconcileActive
        <3>5. Contract!Recover(r)
            BY <2>2, <2>5, <3>2, <3>3, <3>4 DEF Contract!Recover
        <3> QED
            BY <3>5 DEF Contract!Next
    <2>6. CASE runs[r].state = "queued" /\ ExecuteClaimedRun(r)
        <3>1. runs'[r].state = "navigating" /\ task[r] = "lock"
            BY <1>0, <2>1, <2>6, ClaimEffect DEF RowInv, Orderly, ExecuteClaimedRun
        <3>2. StageOf(runs[r].state) = "queued" /\ StageOf(runs'[r].state) = "active"
            BY <2>6, <3>1, StageValues DEF isActiveRunState, ACTIVE
        <3>3. UNCHANGED <<life, acceptedAt>> /\ Up
            BY <1>0, <2>6, <3>1 DEF ExecuteClaimedRun, RowInv, AtRest, TypeOK, Up
        <3>4. /\ Cardinality(Contract!In("active")) < MaxConcurrentRuns
              /\ \A q \in Runs : ThreadOf[q] = ThreadOf[r] =>
                    /\ Stage[q] # "active"
                    /\ Stage[q] = "queued" => acceptedAt[r] <= acceptedAt[q]
            BY <2>6, <3>1, ClaimInTurn
        <3>5. Contract!Start(r)
            <4>1. Contract!Cardinality(Contract!In("active")) < MaxConcurrentRuns
                BY <3>4, ContractCardinality
            <4> QED
                BY <2>2, <3>2, <3>3, <3>4, <4>1 DEF Contract!Start, Stage, Up
        <3> QED
            BY <3>5 DEF Contract!Next
    <2>7. ASSUME NEW p \in Reports, UpdateProgress(r, p), runs[r] \in RunRecords,
                 isActiveRunState(runs[r].state)
          PROVE  FALSE
        BY <1>0, <1>2, <2>7, Reported, StageValues
    <2>8. ASSUME NEW res \in Results, ExecutorSettles(r, res), runs[r] \in RunRecords,
                 isActiveRunState(runs[r].state)
          PROVE  Contract!Next
        <3>1. isWaitTerminal(runs'[r].state)
            BY <1>0, <2>8, Persisted
        <3>2. StageOf(runs[r].state) = "active" /\ StageOf(runs'[r].state) \in {"parked", "final"}
            BY <2>8, <3>1, StageValues
        <3>3. UNCHANGED <<life, acceptedAt>> /\ Up
            BY <1>0, <2>8 DEF ExecutorSettles, RowInv, AtRest, TypeOK, Up
        <3>4. Contract!Settle(r)
            BY <2>2, <3>2, <3>3 DEF Contract!Settle, Up
        <3> QED
            BY <3>4 DEF Contract!Next
    <2> QED
        BY <1>0, <2>1, <2>3, <2>4, <2>5, <2>6, <2>7, <2>8, RowChanges
<1> QED
    BY <1>1, <1>2

(* The queue keeps its contract: an accepted run is started once its turn  *)
(* in its thread comes, alone in its thread, within the limit; it settles  *)
(* once, and only a restart may try it again.                              *)
THEOREM QueueImplementsContract == ASSUME Orderly PROVE Safety => QueueKeepsContract
<1>1. Init => Contract!Init
    BY NewRunType, StageValues DEF Init, Contract!Init
<1>2. ContractInv /\ ContractInv' /\ [Next]_vars => [Contract!Next]_(Contract!vars)
    BY StepRefines
<1> QED
    BY <1>1, <1>2, SafetyContractInv, PTL DEF Safety, QueueKeepsContract, Contract!Spec

-----------------------------------------------------------------------------
(***************************************************************************)
(* No lost wake-up of the pump.  The steps that can make a run launchable  *)
(* (an acceptance, a settlement, a gate that opens, the end of start())    *)
(* schedule a pump; every other step leaves what is queued or in flight    *)
(* as it is; and a pump leaves a run behind only when its thread or every  *)
(* slot is taken (LaunchFills).                                            *)
(***************************************************************************)
Unserved == {r \in Queued : \A q \in inFlight : ThreadOf[q] # ThreadOf[r]}

WithinDepth == Cardinality(Queued \cup inFlight) <= MaxQueueDepth

Awake ==
    /\ life = "running" /\ gate
    /\ Unserved # {} /\ Cardinality(inFlight) < MaxConcurrentRuns
    /\ WithinDepth
    => pumpScheduled

(* Any runs at all have a first one: otherwise their ranks, all different, *)
(* would be one fewer than they are.                                       *)
LEMMA FirstRun ==
    ASSUME TypeOK, NEW S \in SUBSET Runs, S # {}
    PROVE  \E r \in S : \A q \in S : ~Before(q, r)
<1> DEFINE below(r) == {q \in S : Before(q, r)}
           n == Cardinality(S)
           f == [r \in S |-> Cardinality(below(r)) - 1]
<1>1. IsFiniteSet(S) /\ n \in Nat /\ n > 0
    BY CountType, FS_EmptySet
<1> SUFFICES ASSUME \A r \in S : below(r) # {} PROVE FALSE
    OBVIOUS
<1>2. ASSUME NEW r \in S
      PROVE  Cardinality(below(r)) \in 1..(n - 1)
    <2>1. below(r) \subseteq S /\ r \notin below(r) /\ below(r) # {}
        BY BeforeOrder
    <2> HIDE DEF below
    <2>2. /\ IsFiniteSet(below(r)) /\ Cardinality(below(r)) \in Nat
          /\ Cardinality(below(r)) # 0
        BY <2>1, CountType, FS_EmptySet
    <2>3. Cardinality(below(r)) <= n /\ Cardinality(below(r)) # n
        BY <1>1, <2>1, FS_Subset
    <2> HIDE DEF n
    <2> QED
        BY <1>1, <2>2, <2>3
<1>3. IsFiniteSet(0..((n - 1) - 1)) /\ Cardinality(0..((n - 1) - 1)) = n - 1
    <2>1. n - 1 \in Nat
        BY <1>1
    <2> HIDE DEF n
    <2> QED
        BY <2>1, CountingFromZero
<1>4. f \in [S -> 0..((n - 1) - 1)]
    <2>1. ASSUME NEW r \in S PROVE Cardinality(below(r)) - 1 \in 0..((n - 1) - 1)
        <3>1. Cardinality(below(r)) \in 1..(n - 1)
            BY <1>2
        <3> HIDE DEF below, n
        <3> QED
            BY <1>1, <3>1
    <2> QED
        BY <2>1
<1>5. PICK q \in S, r \in S : q # r /\ f[q] = f[r]
    <2>1. n - 1 < n
        BY <1>1
    <2> HIDE DEF f
    <2> QED
        BY <1>1, <1>3, <1>4, <2>1, FS_PigeonHole
<1>6. Cardinality(below(q)) = Cardinality(below(r))
    <2>1. Cardinality(below(q)) - 1 = Cardinality(below(r)) - 1
        BY <1>5
    <2>2. Cardinality(below(q)) \in Int /\ Cardinality(below(r)) \in Int
        BY <1>2
    <2> HIDE DEF below
    <2> QED
        BY <2>1, <2>2
<1>7. Cardinality(below(q)) < Cardinality(below(r)) \/ Cardinality(below(r)) < Cardinality(below(q))
    <2>1. Before(q, r) \/ Before(r, q)
        BY <1>5, BeforeOrder
    <2> QED
        BY <2>1, RankGrows
<1>8. Cardinality(below(q)) \in Int
    BY <1>2
<1> HIDE DEF below
<1> QED
    BY <1>6, <1>7, <1>8

(* Within the depth listQueued returns every queued run. *)
LEMMA AllCandidates ==
    ASSUME TypeOK, WithinDepth
    PROVE  Candidates = Queued
<1>1. Queued \subseteq Runs /\ Queued \cup inFlight \subseteq Runs
    BY DEF Queued, inFlight
<1>2. Cardinality(Queued) <= Cardinality(Queued \cup inFlight)
    BY <1>1, CountType, FS_Subset
<1>3. Cardinality(Queued) <= MaxQueueDepth
    BY <1>1, <1>2, CountType, QueueAssumptions DEF WithinDepth
<1>4. ASSUME NEW r \in Queued
      PROVE  Cardinality({q \in Queued : Before(q, r)}) < MaxQueueDepth
    <2> DEFINE B == {q \in Queued : Before(q, r)}
    <2>1. B \subseteq Queued /\ r \notin B /\ r \in Queued
        BY <1>1, BeforeOrder
    <2> HIDE DEF B
    <2>2. /\ IsFiniteSet(Queued) /\ Cardinality(Queued) \in Nat
          /\ Cardinality(B) \in Nat
        BY <1>1, <2>1, CountType
    <2>3. Cardinality(B) <= Cardinality(Queued) /\ Cardinality(B) # Cardinality(Queued)
        BY <2>1, <2>2, FS_Subset
    <2>4. Cardinality(B) < MaxQueueDepth
        BY <1>3, <2>2, <2>3, QueueAssumptions
    <2> QED
        BY <2>4 DEF B
<1> QED
    BY <1>4 DEF Candidates

(* A pump that leaves a run of an idle thread queued has taken every slot: *)
(* the first run it did not launch has only launched ones before it.       *)
LEMMA LaunchFills ==
    ASSUME TypeOK, InFlightBounded, WithinDepth, NEW w \in Queued,
           \A q \in inFlight \cup Launched : ThreadOf[q] # ThreadOf[w]
    PROVE  Cardinality(inFlight \cup Launched) >= MaxConcurrentRuns
<1>1. /\ Launched \subseteq Launchable /\ Launchable \subseteq Runs
      /\ Launchable \cap inFlight = {} /\ inFlight \subseteq Runs /\ Queued \subseteq Runs
    BY DEF Launched, Launchable, Candidates, Queued, inFlight
<1>2. Candidates = Queued
    BY AllCandidates
<1> DEFINE Mates == {q \in Queued : ThreadOf[q] = ThreadOf[w]}
<1>3. PICK m \in Mates : \A q \in Mates : ~Before(q, m)
    <2>1. Mates \subseteq Runs /\ w \in Mates
        BY <1>1
    <2> QED
        BY <2>1, FirstRun
<1>4. m \in Launchable \ Launched
    BY <1>2, <1>3 DEF Launchable
<1>5. PICK x \in Launchable \ Launched : \A q \in Launchable \ Launched : ~Before(q, x)
    <2>1. Launchable \ Launched \in SUBSET Runs /\ Launchable \ Launched # {}
        BY <1>1, <1>4
    <2> QED
        BY <2>1, FirstRun
<1> DEFINE B == {q \in Launchable : Before(q, x)}
<1>6. Cardinality(inFlight) + Cardinality(B) >= MaxConcurrentRuns
    <2>1. ~(Cardinality(inFlight) + Cardinality(B) < MaxConcurrentRuns)
        BY <1>5 DEF Launched
    <2>2. Cardinality(inFlight) \in Nat /\ Cardinality(B) \in Nat
        BY <1>1, CountType
    <2> HIDE DEF B
    <2> QED
        BY <2>1, <2>2, QueueAssumptions
<1>7. B \subseteq Launched
    BY <1>5
<1> HIDE DEF B
<1>8. Cardinality(B) <= Cardinality(Launched)
    BY <1>1, <1>7, CountType, FS_Subset
<1>9. Cardinality(inFlight \cup Launched) = Cardinality(inFlight) + Cardinality(Launched)
    <2>1. /\ IsFiniteSet(inFlight) /\ IsFiniteSet(Launched)
          /\ Cardinality(inFlight) \in Nat /\ Cardinality(Launched) \in Nat
        BY <1>1, CountType
    <2>2. inFlight \cap Launched = {} /\ Cardinality(inFlight \cap Launched) = 0
        BY <1>1, FS_EmptySet
    <2>3. Cardinality(inFlight \cup Launched)
            = Cardinality(inFlight) + Cardinality(Launched) - Cardinality(inFlight \cap Launched)
        BY <2>1, FS_Union
    <2> QED
        BY <2>1, <2>2, <2>3
<1>10. /\ Cardinality(inFlight) \in Nat /\ Cardinality(Launched) \in Nat
       /\ Cardinality(B) \in Nat
    BY <1>1, <1>7, CountType
<1> QED
    BY <1>6, <1>8, <1>9, <1>10, QueueAssumptions

(* After a pump nothing is left to launch. *)
LEMMA PumpServes ==
    ASSUME RowInv, LockInv, Pump, life = "running", gate, WithinDepth',
           Cardinality(inFlight') < MaxConcurrentRuns
    PROVE  Unserved' = {}
<1>1. \A r \in Runs : task'[r] = IF r \in Launched THEN "launched" ELSE task[r]
    BY DEF Pump
<1>2. TypeOK /\ InFlightBounded
    BY DEF RowInv, LockInv
<1>3. inFlight' = inFlight \cup Launched /\ Launched \subseteq Queued
    <2>1. Launched \subseteq Runs
        BY <1>2, LaunchBound
    <2> QED
        BY <1>1, <2>1 DEF inFlight, Launched, Launchable, Candidates
<1>4. Queued' = Queued
    BY DEF Pump, durable, Queued
<1>5. WithinDepth
    <2>1. Queued' \cup inFlight' = Queued \cup inFlight
        BY <1>3, <1>4
    <2> QED
        BY <2>1 DEF WithinDepth
<1> SUFFICES ASSUME NEW w \in Unserved' PROVE FALSE
    OBVIOUS
<1>6. w \in Queued /\ \A q \in inFlight \cup Launched : ThreadOf[q] # ThreadOf[w]
    BY <1>3, <1>4 DEF Unserved
<1>7. Cardinality(inFlight \cup Launched) >= MaxConcurrentRuns
    BY <1>2, <1>5, <1>6, LaunchFills
<1>8. inFlight \cup Launched \subseteq Runs
    BY <1>3 DEF Queued, inFlight
<1>9. Cardinality(inFlight \cup Launched) \in Nat
    BY <1>8, CountType
<1> QED
    BY <1>3, <1>7, <1>9, QueueAssumptions

(* Only a settlement or an exit takes a run out of flight. *)
LEMMA StaysInFlight ==
    ASSUME RowInv, [Next]_vars, ~Exit, NEW r \in Runs, ~Settle(r), task[r] # "none"
    PROVE  task'[r] # "none"
<1>0. TypeOK /\ task \in [Runs -> TaskStates]
    BY DEF RowInv, TypeOK
<1>1. CASE UNCHANGED task
    BY <1>1
<1>2. ASSUME NEW d \in Runs,
             CallAcquire(d) \/ CallLock(d) \/ ReleaseLock(d) \/ ReleasePermit(d) \/ Settle(d)
      PROVE  task'[r] # "none"
    BY <1>0, <1>2 DEF CallAcquire, CallLock, ReleaseLock, ReleasePermit, Settle
<1>3. ASSUME NEW d \in Runs, ExecuteClaimedRun(d) PROVE task'[r] # "none"
    BY <1>0, <1>3, ClaimEffect DEF RowInv
<1>4. ASSUME NEW d \in Runs, NEW res \in Results, ExecutorSettles(d, res)
      PROVE  task'[r] # "none"
    BY <1>0, <1>4 DEF ExecutorSettles
<1>5. CASE Pump
    BY <1>5 DEF Pump
<1>6. \/ UNCHANGED task \/ Pump
      \/ \E d \in Runs : \/ CallAcquire(d) \/ CallLock(d) \/ ReleaseLock(d)
                          \/ ReleasePermit(d) \/ Settle(d) \/ ExecuteClaimedRun(d)
                          \/ \E res \in Results : ExecutorSettles(d, res)
    BY DEF vars, Next, Process, EnterStart, LeaveStart, Close, FinishClose, GateChange,
       WaitForIdle, Enqueue, WaitForRun, Step, Executor, RequeueRecoverable, ReconcileActive,
       UpdateProgress, ExecutorMarksThread
<1> QED
    BY <1>1, <1>2, <1>3, <1>4, <1>5, <1>6

(* A run leaves the queue, while the process runs, by being claimed. *)
LEMMA LeavesQueueInFlight ==
    ASSUME RowInv, [Next]_vars, life # "starting", NEW r \in Queued, r \notin Queued'
    PROVE  task'[r] # "none"
<1>0. TypeOK /\ r \in Runs /\ runs[r].state = "queued" /\ runs'[r] # runs[r]
    BY DEF RowInv, Queued
<1>1. CASE ExecuteClaimedRun(r)
    BY <1>0, <1>1, ClaimEffect DEF RowInv
<1>2. runs[r] # NoRun /\ ~isActiveRunState(runs[r].state)
    BY <1>0, NewRunType DEF isActiveRunState, ACTIVE
<1> QED
    BY <1>0, <1>1, <1>2, RowChanges

(* What wakes the pump. *)
LEMMA Wakes ==
    ASSUME TypeOK, life = "running",
           LeaveStart \/ GateChange \/ \E r \in Runs : Enqueue(r) \/ Settle(r)
    PROVE  pumpScheduled'
BY DEF LeaveStart, GateChange, GateListener, Enqueue, Settle, schedulePump, TypeOK

(* Every step that leaves a run unserved leaves a pump to come. *)
LEMMA NextAwake == ASSUME RowInv, LockInv, Awake, [Next]_vars PROVE Awake'
<1> SUFFICES ASSUME life' = "running", gate', Unserved' # {}, WithinDepth',
                    Cardinality(inFlight') < MaxConcurrentRuns, ~pumpScheduled'
             PROVE  FALSE
    BY DEF Awake
<1>0. TypeOK
    BY DEF RowInv
<1>1. CASE LeaveStart
    BY <1>1 DEF LeaveStart, schedulePump
<1>2. CASE life # "running"
    BY <1>1, <1>2 DEF Next, vars, Process, EnterStart, Close, FinishClose, Exit, GateChange,
       WaitForIdle, Pump, Enqueue, WaitForRun, Step, Executor, RequeueRecoverable,
       ReconcileActive, CallAcquire, CallLock, ExecuteClaimedRun, ReleaseLock, ReleasePermit,
       Settle, UpdateProgress, ExecutorMarksThread, ExecutorSettles
<1>3. CASE life = "running" /\ Pump
    BY <1>3, PumpServes DEF Pump, sync
<1>4. CASE life = "running" /\ ~Pump
    <2>1. ~LeaveStart /\ ~GateChange /\ ~Exit /\ \A r \in Runs : ~Enqueue(r) /\ ~Settle(r)
        BY <1>0, <1>4, Wakes DEF Exit
    <2>2. gate
        BY <1>4, <2>1 DEF Next, vars, Process, EnterStart, Close, FinishClose,
           WaitForIdle, WaitForRun, Step, Executor, RequeueRecoverable,
           ReconcileActive, CallAcquire, CallLock, ExecuteClaimedRun, Claim, SkipClaim,
           ClaimThenRelease, ReleaseLock, ReleasePermit, UpdateProgress, ExecutorMarksThread,
           ExecutorSettles
    <2>3. ~pumpScheduled
        BY <1>4, <2>1 DEF Next, vars, Process, EnterStart, Close, FinishClose,
           WaitForIdle, WaitForRun, Step, Executor, RequeueRecoverable,
           ReconcileActive, CallAcquire, CallLock, ExecuteClaimedRun, ReleaseLock,
           ReleasePermit, UpdateProgress, ExecutorMarksThread, ExecutorSettles
    <2>4. inFlight' = inFlight
        BY <1>4, <2>1, StaysInFlight, TaskMoves DEF inFlight
    <2>5. Queued' \subseteq Queued
        BY <1>4, <2>1, QueuedFrom DEF Queued
    <2>6. Queued \subseteq Queued' \cup inFlight'
        BY <1>4, LeavesQueueInFlight DEF inFlight, Queued
    <2>7. Queued' \cup inFlight' = Queued \cup inFlight
        BY <2>4, <2>5, <2>6
    <2>8. WithinDepth /\ Cardinality(inFlight) < MaxConcurrentRuns
        BY <2>4, <2>7 DEF WithinDepth
    <2>9. Unserved' \subseteq Unserved
        BY <2>4, <2>5 DEF Unserved
    <2> QED
        BY <1>4, <2>2, <2>3, <2>8, <2>9 DEF Awake
<1> QED
    BY <1>2, <1>3, <1>4

(* WorkConserving: with the gate open and no more runs than listQueued     *)
(* returns, a run that could be launched has a pump coming, however        *)
(* settlements, claims, acceptances and pumps interleave.                  *)
THEOREM QueueWorkConserving == Safety => []WorkConserving
<1>1. Init => Awake
    BY DEF Init, Awake
<1>2. RowInv /\ LockInv /\ Awake /\ [Next]_vars => Awake'
    BY NextAwake
<1>3. RowInv /\ Awake => WorkConserving
    <2> SUFFICES ASSUME RowInv, Awake, life = "running", gate, Launched # {},
                        Cardinality(Queued \cup inFlight) <= MaxQueueDepth
                 PROVE  pumpScheduled
        BY DEF WorkConserving
    <2>1. PICK r \in Launched : TRUE
        OBVIOUS
    <2> DEFINE rank == Cardinality({q \in Launchable : Before(q, r)})
    <2>2. r \in Unserved
        BY <2>1 DEF Launched, Launchable, Candidates, Unserved
    <2>3. Cardinality(inFlight) + rank < MaxConcurrentRuns
        BY <2>1 DEF Launched
    <2>4. Cardinality(inFlight) \in Nat /\ rank \in Nat
        <3>1. inFlight \in SUBSET Runs /\ {q \in Launchable : Before(q, r)} \in SUBSET Runs
            BY DEF inFlight, Launchable, Candidates, Queued
        <3> QED
            BY <3>1, CountType
    <2> HIDE DEF rank
    <2>5. Cardinality(inFlight) < MaxConcurrentRuns
        BY <2>3, <2>4, QueueAssumptions
    <2> QED
        BY <2>2, <2>5 DEF Awake, WithinDepth
<1> QED
    BY <1>1, <1>2, <1>3, SafetyInv, PTL DEF Safety

-----------------------------------------------------------------------------
(***************************************************************************)
(* The process uses the run queue as DurableRunQueue says it is used,      *)
(* whatever the order of requests, signals and shutdown steps, so all that *)
(* is proved of the queue holds in it; and a shutdown ends no exchange     *)
(* whose client stays.  The latter rests on the order of the shutdown      *)
(* (Exchanges): an open exchange has its waiter, and the queue closes when *)
(* none is open.                                                           *)
(***************************************************************************)
Closing == life \in {"stopping", "stopped"}

Exchanges ==
    /\ openRequests \subseteq runWaiters
    /\ Closing => openRequests = {} /\ server \in {"closed", "finished"}
    /\ server \in {"closed", "finished"} => Closing

-----------------------------------------------------------------------------
(* A step of the runtime is a step of the queue, or leaves it alone. *)
LEMMA RuntimeStep == ASSUME TypeOK, [RuntimeNext]_runtimeVars PROVE [Next]_vars
<1>1. CASE UNCHANGED runtimeVars
    BY <1>1 DEF runtimeVars
<1>2. CASE QueueStep
    BY <1>2 DEF QueueStep, Next, Process
<1>3. CASE Listen \/ Shutdown
    BY <1>3 DEF Listen, Shutdown
<1>4. CASE CloseQueue
    BY <1>4 DEF CloseQueue, Next, Process
<1>5. CASE CloseAdapter
    <2>1. CASE gate
        <3>1. GateChange
            BY <1>5, <2>1 DEF CloseAdapter, GateChange, GateListener, schedulePump, TypeOK
        <3> QED
            BY <3>1 DEF Next
    <2>2. CASE ~gate
        BY <1>5, <2>2 DEF CloseAdapter, vars, TypeOK
    <2> QED
        BY <2>1, <2>2
<1>6. CASE ProcessExit
    BY <1>6 DEF ProcessExit, Next, Process
<1>7. ASSUME NEW r \in Runs, PostRequest(r) \/ AwaitRun(r) PROVE [Next]_vars
    BY <1>7 DEF PostRequest, AwaitRun, Next
<1>8. ASSUME NEW r \in Runs, ClientLeaves(r) PROVE [Next]_vars
    BY <1>8 DEF ClientLeaves
<1> QED
    BY <1>1, <1>2, <1>3, <1>4, <1>5, <1>6, <1>7, <1>8 DEF RuntimeNext

(* What is said of rows and waiters holds in the process. *)
LEMMA RuntimeType == RuntimeSafety => []RowInv
<1>1. RuntimeInit => RowInv
    BY InitRows DEF RuntimeInit
<1>2. RowInv /\ [RuntimeNext]_runtimeVars => RowInv'
    BY RuntimeStep, NextRows DEF RowInv
<1> QED
    BY <1>1, <1>2, PTL DEF RuntimeSafety

(* The process makes of the queue only the use that DurableRunQueue        *)
(* allows: it starts, closes and gates it in its states only.              *)
THEOREM RuntimeUsesQueue == RuntimeSafety => Safety
<1>1. RuntimeInit => Init
    BY DEF RuntimeInit
<1>2. RowInv /\ [RuntimeNext]_runtimeVars => [Next]_vars
    BY RuntimeStep DEF RowInv
<1> QED
    BY <1>1, <1>2, RuntimeType, PTL DEF RuntimeSafety, Safety

(* In the running service too: one run per thread in flight, no more than  *)
(* the limit, and a launched run never waits for a permit or a lock.       *)
THEOREM RuntimeConcurrency == RuntimeSafety => [](ThreadSerialization /\ BoundedConcurrency)
BY RuntimeUsesQueue, QueueThreadSerialization, QueueBoundedConcurrency, PTL

(* Nor is a pump ever lost in it: not around the start, the shutdown or the *)
(* gate that the adapter's close shuts.                                    *)
THEOREM RuntimeWorkConserving == RuntimeSafety => []WorkConserving
BY RuntimeUsesQueue, QueueWorkConserving, PTL

(* In the running service a row is active exactly while its executor runs, *)
(* and the queue keeps its contract, if runs are accepted in different     *)
(* milliseconds and the gate does not flip within a step.                  *)
THEOREM RuntimeImplementsContract ==
    ASSUME Orderly PROVE RuntimeSafety => [](ActiveMeansExecuting) /\ QueueKeepsContract
BY RuntimeUsesQueue, QueueActiveMeansExecuting, QueueImplementsContract, PTL

-----------------------------------------------------------------------------
(* At the beginning no exchange is open. *)
LEMMA InitExchanges == RuntimeInit => Exchanges
BY DEF RuntimeInit, Init, Exchanges, Closing

(* Every step keeps what is said of the exchanges. *)
LEMMA NextExchanges ==
    ASSUME Exchanges, [RuntimeNext]_runtimeVars PROVE Exchanges'
<1> USE DEF Exchanges, Closing
<1>1. CASE UNCHANGED runtimeVars
    BY <1>1 DEF runtimeVars, vars
<1>2. CASE QueueStep
    <2>1. openRequests' = openRequests \cap runWaiters' /\ UNCHANGED server
        BY <1>2 DEF QueueStep, AnswerRequests
    <2>2. Closing' <=> Closing
        BY <1>2 DEF QueueStep, EnterStart, LeaveStart, FinishClose, Pump, GateChange, Step,
           Executor, RequeueRecoverable, ReconcileActive, CallAcquire, CallLock,
           ExecuteClaimedRun, ReleaseLock, ReleasePermit, Settle, UpdateProgress,
           ExecutorMarksThread, ExecutorSettles
    <2> QED
        BY <2>1, <2>2
<1>3. CASE Listen \/ Shutdown
    BY <1>3 DEF Listen, Shutdown, vars
<1>4. CASE CloseQueue
    BY <1>4 DEF CloseQueue, AppClosed, Close
<1>5. CASE CloseAdapter
    BY <1>5 DEF CloseAdapter
<1>6. CASE ProcessExit
    BY <1>6 DEF ProcessExit, Exit
<1>7. ASSUME NEW r \in Runs, PostRequest(r) \/ AwaitRun(r) \/ ClientLeaves(r) PROVE Exchanges'
    BY <1>7 DEF PostRequest, AwaitRun, ClientLeaves, Handling, Enqueue, WaitForRun, vars
<1> QED
    BY <1>1, <1>2, <1>3, <1>4, <1>5, <1>6, <1>7 DEF RuntimeNext

(* "Existing HTTP requests are allowed to complete" (docs/OPERATIONS.md,   *)
(* line 92): the exchange of a client that stays ends with the settled run *)
(* or with the process.                                                    *)
THEOREM RuntimeRequestsComplete == RuntimeSafety => RequestsComplete
<1>1. RuntimeInit => Exchanges
    BY InitExchanges
<1>2. Exchanges /\ [RuntimeNext]_runtimeVars => Exchanges'
    BY NextExchanges
<1>3. ASSUME RowInv, Exchanges, [RuntimeNext]_runtimeVars
      PROVE  \A r \in openRequests \ openRequests' :
                \/ isWaitTerminal(runs'[r].state)
                \/ r \in runWaiters'
                \/ life' = "down"
    <2> SUFFICES ASSUME NEW r \in openRequests, r \notin openRequests',
                        r \notin runWaiters', life' # "down"
                 PROVE  isWaitTerminal(runs'[r].state)
        OBVIOUS
    <2>1. r \in runWaiters /\ r \in Runs
        BY <1>3 DEF Exchanges, RowInv, TypeOK
    <2>2. ~FinishClose
        BY <1>3 DEF Exchanges, Closing, FinishClose
    <2>3. [Next]_vars
        BY <1>3, RuntimeStep DEF RowInv
    <2>4. PICK d \in Runs, res \in Results : ExecutorSettles(d, res)
        BY <2>1, <2>2, <2>3 DEF vars, durable, Next, Process, EnterStart, LeaveStart, Close, Exit,
           GateChange, WaitForIdle, Pump, Enqueue, WaitForRun, Step, Executor, CallAcquire,
           CallLock, ReleaseLock, ReleasePermit, Settle, RequeueRecoverable,
           ReconcileActive, ExecuteClaimedRun, UpdateProgress, ExecutorMarksThread
    <2> QED
        BY <2>1, <2>4 DEF ExecutorSettles, notifyRunWaiters
<1> QED
    BY <1>1, <1>2, <1>3, RuntimeType, PTL DEF RuntimeSafety, RequestsComplete
=============================================================================
