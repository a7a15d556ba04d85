---------------------------- MODULE RunExecution ----------------------------
(***************************************************************************)
(* The life of one thread, end to end: the mutations ProxyService accepts  *)
(* for it, BrowserRunExecutor carrying them out through the ChatGPT        *)
(* adapter, the conversation on the other side, and what a restart makes   *)
(* of the rows.  Other threads only compete for slots, and are left out.   *)
(*                                                                         *)
(* The run queue appears through its contract: the oldest queued run is    *)
(* claimed when no other run of the thread is in flight (DurableRunQueue   *)
(* implements it).  One action is one commit or what happens between two   *)
(* awaits; the process may exit between any two of them.                   *)
(*                                                                         *)
(* What the page shows is taken to be what ChatGPT holds: confirmation and *)
(* deletion evidence is not forged, except that a message with the text of *)
(* the latest turn is seen as submitted (RepeatedText).                    *)
(***************************************************************************)
EXTENDS RunStore, Naturals

CONSTANTS
    NumRuns,        \* bound on the number of runs
    Requests,       \* what may be asked of the thread once it exists
    MaxExits,       \* bound on the number of process exits
    RepeatedText    \* two messages of the thread may have the same text

(* Runs are numbered in the order in which they are accepted. *)
Runs == 1..NumRuns

AllRequests == {"send_message", "delete_local", "delete_remote"}

ASSUME ExecutionAssumptions ==
    /\ NumRuns \in Nat
    /\ Requests \subseteq AllRequests
    /\ MaxExits \in Nat
    /\ RepeatedText \in BOOLEAN

VARIABLES
    runs,       \* durable: the rows of the thread's runs
    request,    \* durable: what each run is for
    thread,     \* durable: the row of the thread
    life,       \* of the process: down, starting, up
    exits,      \* how often it has exited
    handler,    \* a request handler between its two commits
    exec,       \* the executor: run, position, what it is about to report
    conv,       \* the conversation on the remote side
    posted,     \* how often each message reached it
    latestTurn, \* the run of its latest user turn
    clicked     \* how often each run has confirmed its deletion there

store  == <<runs, request, thread>>
remote == <<conv, posted, latestTurn, clicked>>
process == <<life, exits, handler>>
vars == <<store, remote, process, exec>>

-----------------------------------------------------------------------------
NoRun == [NewRun EXCEPT !.state = "absent"]
NoResult == [state |-> "none", err |-> "none"]
Idle == [run |-> 0, at |-> "none", result |-> NoResult]

isDelete(r) == request[r] \in {"delete_local", "delete_remote"}
operationType(r) == IF isDelete(r) THEN "delete_thread" ELSE request[r]

Accepted == {r \in Runs : runs[r] # NoRun}
Pending == {r \in Runs : runs[r].state \in {"queued"} \cup ACTIVE}

At(p) == life = "up" /\ handler = "none" /\ exec.at = p
Run == exec.run

(* Between two awaits nothing else runs. *)
LoopFree == handler = "none" /\ exec.at # "claimed"

Init ==
    /\ runs = [r \in Runs |-> NoRun]
    /\ request = [r \in Runs |-> "create_thread"]
    /\ thread = NewThread
    /\ life = "down"
    /\ exits = 0
    /\ handler = "none"
    /\ exec = Idle
    /\ conv = "none"
    /\ posted = [r \in Runs |-> 0]
    /\ latestTurn = 0
    /\ clicked = [r \in Runs |-> 0]

-----------------------------------------------------------------------------
(* ProxyService.  A handler commits the run, then the state of the thread. *)

(* The run the next acceptance inserts. *)
IsNext(r) == r \notin Accepted /\ \A q \in Runs : q < r => q \in Accepted

accept(r, what) ==
    /\ life = "up" /\ LoopFree
    /\ IsNext(r)
    /\ runs' = [runs EXCEPT ![r] = NewRun]
    /\ request' = [request EXCEPT ![r] = what]
    /\ UNCHANGED <<thread, life, exits, exec, remote>>

(* The thread and its first run are inserted in one transaction. *)
createThread(r) == r = 1 /\ accept(r, "create_thread") /\ UNCHANGED handler

(* requireThread: a tombstoned thread is not found under its name. *)
requireThread(r) == r > 1 /\ ~thread.deletedAt

(* Mutant: a pending deletion does not keep messages out. *)
assertLivingThread == thread.state \in {"provisioning", "idle", "running", "delete_pending"}

assertMutableThread == thread.state \in {"provisioning", "idle", "running"}

sendMessage(r) ==
    /\ "send_message" \in Requests
    /\ requireThread(r)
    /\ assertMutableThread
    /\ accept(r, "send_message")
    /\ handler' = IF thread.state = "idle" THEN "mark_running" ELSE "none"

deleteThread(r, what) ==
    /\ what \in Requests \ {"send_message"}
    /\ requireThread(r)
    /\ thread.state # "delete_pending"
    /\ accept(r, what)
    /\ handler' = IF thread.state \in DELETED THEN "none" ELSE "mark_deleting"

(* The second commit of the handler. *)
FinishHandler ==
    /\ handler # "none"
    /\ thread' = setState(thread, IF handler = "mark_running" THEN "running"
                                                              ELSE "delete_pending")
    /\ handler' = "none"
    /\ UNCHANGED <<runs, request, remote, life, exits, exec>>

-----------------------------------------------------------------------------
(* The process. *)

Exit ==
    /\ life # "down"
    /\ exits < MaxExits
    /\ exits' = exits + 1
    /\ life' = "down"
    /\ handler' = "none"
    /\ exec' = Idle
    /\ UNCHANGED <<store, remote>>

EnterStart ==
    /\ life = "down"
    /\ life' = "starting"
    /\ UNCHANGED <<store, remote, exits, handler, exec>>

Recoverable == {r \in Accepted : isRecoverable(runs[r], operationType(r), thread)}
NoActiveRuns == {}    \* Mutant: only failures are looked at
ActiveRuns == {r \in Runs : isActiveRunState(runs[r].state)}

RequeueRecoverable(r) ==
    /\ life = "starting"
    /\ r \in Recoverable
    /\ runs' = [runs EXCEPT ![r] = requeueForRecovery(@)]
    /\ thread' = setState(thread, "running")
    /\ UNCHANGED <<request, remote, process, exec>>

ReconcileActive(r) ==
    /\ life = "starting"
    /\ Recoverable = {}
    /\ r \in ActiveRuns
    /\ runs' = [runs EXCEPT ![r] = reconciledRun(@, operationType(r), thread)]
    /\ thread' = reconciledThread(runs[r], operationType(r), thread)
    /\ UNCHANGED <<request, remote, process, exec>>

LeaveStart ==
    /\ life = "starting"
    /\ Recoverable = {} /\ ActiveRuns = {}
    /\ life' = "up"
    /\ UNCHANGED <<store, remote, exits, handler, exec>>

(* Mutant: any queued run of the thread. *)
ClaimAnyRun(r) ==
    /\ At("none")
    /\ runs[r].state = "queued"
    /\ runs' = [runs EXCEPT ![r] = claimQueued(@, @.phase)]
    /\ exec' = [Idle EXCEPT !.run = r, !.at = "claimed"]
    /\ UNCHANGED <<request, thread, remote, process>>

(* The queue claims the oldest queued run of the thread. *)
ClaimRun(r) ==
    /\ At("none")
    /\ runs[r].state = "queued"
    /\ \A q \in Runs : runs[q].state = "queued" => r <= q
    /\ runs' = [runs EXCEPT ![r] = claimQueued(@, @.phase)]
    /\ exec' = [Idle EXCEPT !.run = r, !.at = "claimed"]
    /\ UNCHANGED <<request, thread, remote, process>>

(* ... and persists what the executor returned or threw. *)
PersistOutcome ==
    /\ At("returned")
    /\ runs' = [runs EXCEPT ![Run] = transition(@, exec.result.state, "other", "keep",
                                                exec.result.err)]
    /\ exec' = Idle
    /\ UNCHANGED <<request, thread, remote, process>>

-----------------------------------------------------------------------------
(* BrowserRunExecutor. *)

Goto(p) == exec' = [exec EXCEPT !.at = p]

Return(state, err) ==
    exec' = [exec EXCEPT !.at = "returned", !.result = [state |-> state, err |-> err]]

updateProgress(state, sub) ==
    runs' = [runs EXCEPT ![Run] = transition(@, state, "other", sub, "none")]

(* A deletion that waits in the queue keeps the thread in delete_pending. *)
setStateUnlessDeletePending(state) ==
    thread' = IF thread.state = "delete_pending" THEN thread ELSE setState(thread, state)

markThreadRunning == setStateUnlessDeletePending("running")

(* Mutant: the executor submits again whatever the phase. *)
resubmits == TRUE
(* A run that is a recovery goes to recoverConversation whatever it is for. *)
submits == runs[Run].phase # "recovery_pending"

recoverConversation ==
    /\ At("claimed")
    /\ ~submits
    /\ IF thread.mapped
       THEN /\ markThreadRunning
            /\ updateProgress("running", "keep")
            /\ Goto("inspecting")
       ELSE /\ thread' = setState(thread, "needs_attention")
            /\ Return("needs_attention", "unexpected_state")
            /\ UNCHANGED runs
    /\ UNCHANGED <<request, remote, process>>

(* createThread and sendMessage up to the call of the adapter. *)
beginSubmission ==
    /\ At("claimed")
    /\ submits
    /\ ~isDelete(Run)
    /\ request[Run] = "create_thread" \/ thread.mapped
    /\ markThreadRunning
    /\ updateProgress("submitting", "typed")
    /\ Goto("adapter")
    /\ UNCHANGED <<request, remote, process>>

sendUnmapped ==
    /\ At("claimed")
    /\ submits
    /\ request[Run] = "send_message" /\ ~thread.mapped
    /\ thread' = setState(thread, "orphaned")
    /\ Return("failed", "other")
    /\ UNCHANGED <<runs, request, remote, process>>

tombstone(state) == thread' = setState(thread, state) /\ Return("succeeded", "none")

deleteLocal ==
    /\ At("claimed")
    /\ submits
    /\ request[Run] = "delete_local"
    /\ IF thread.state \in DELETED
       THEN UNCHANGED thread /\ Return("succeeded", "none")
       ELSE tombstone("deleted_local")
    /\ UNCHANGED <<runs, request, remote, process>>

(* Mutant: a conversation that was never mapped is taken to be absent. *)
neverUncertain == FALSE
(* A create operation may have reached ChatGPT. *)
uncertainRemoteCreation ==
    \E r \in Accepted : request[r] = "create_thread" /\ hasPossibleRemoteSideEffect(runs[r])

deleteRemoteUnmapped ==
    /\ At("claimed")
    /\ submits
    /\ request[Run] = "delete_remote"
    /\ ~thread.mapped
    /\ IF uncertainRemoteCreation
       THEN /\ thread' = setState(thread, "needs_attention")
            /\ Return("needs_attention", "remote_delete_ambiguous")
       ELSE tombstone("deleted_remote")
    /\ UNCHANGED <<runs, request, remote, process>>

deleteRemoteMapped ==
    /\ At("claimed")
    /\ submits
    /\ request[Run] = "delete_remote"
    /\ thread.mapped
    /\ updateProgress("running", "keep")
    /\ Goto("deleting")
    /\ UNCHANGED <<request, thread, remote, process>>

hasAnyRun == Pending # {}    \* Mutant: the run itself counts
hasPendingRun == Pending \ {Run} # {}

(* The adapter came back with an answer. *)
ResponseCompleted ==
    /\ updateProgress("running", "confirmed")
    /\ thread' = LET mapped == setRemoteMapping(thread)
                 IN  IF thread.state = "delete_pending" THEN mapped
                     ELSE setState(mapped, IF hasPendingRun THEN "running" ELSE "idle")
    /\ Return("succeeded", "none")
    /\ UNCHANGED <<request, remote, process>>

(* failureOutcome: auth_required stands for every code an operator has to  *)
(* deal with, "other" for every code that is not told apart.               *)
needsAttention(code) ==
    code \in {"auth_required", "submission_ambiguous", "response_timeout",
              "remote_delete_ambiguous"}
errorCode(code) == IF code \in ERRORS THEN code ELSE "other"

(* The adapter came back with a failure; diagnostics are captured first. *)
Fail(code) ==
    exec' = [exec EXCEPT !.at = "diagnosing", !.result = [state |-> "none", err |-> code]]

ReportFailure(code) ==
    Return(IF needsAttention(code) THEN "needs_attention" ELSE "failed", errorCode(code))

FailureThreadState(code) ==
    CASE needsAttention(code)                  -> "needs_attention"
      [] ~needsAttention(code) /\ isDelete(Run) -> "delete_failed"
      [] OTHER                                 -> "error"

RecordFailure ==
    /\ At("diagnosing")
    /\ LET code == exec.result.err
           ambiguous == code = "submission_ambiguous"
       IN  /\ ambiguous => canTransitionRunState(runs[Run].state, "submitting")
           /\ IF ambiguous THEN updateProgress("submitting", "submitted_unconfirmed")
                           ELSE UNCHANGED runs
           /\ IF isDelete(Run)
              THEN thread' = setState(thread, FailureThreadState(code))
              ELSE setStateUnlessDeletePending(FailureThreadState(code))
           /\ ReportFailure(code)
    /\ UNCHANGED <<request, remote, process>>

(* A run that is already running cannot go back to submitting:             *)
(* updateProgress throws, execute marks the thread and throws on, and the  *)
(* queue will record a failure.                                            *)
ProgressRejected ==
    /\ At("diagnosing")
    /\ exec.result.err = "submission_ambiguous"
    /\ ~canTransitionRunState(runs[Run].state, "submitting")
    /\ setStateUnlessDeletePending("error")
    /\ Return("failed", "unexpected_state")
    /\ UNCHANGED <<runs, request, remote, process>>

-----------------------------------------------------------------------------
(* The ChatGPT adapter: a submission. *)

post == /\ posted' = [posted EXCEPT ![Run] = @ + 1]
        /\ latestTurn' = Run
        /\ conv' = "exists"
        /\ UNCHANGED clicked

(* No page, no composer, a blocked page, an exception: nothing was sent. *)
failBeforeSubmit(code) ==
    /\ At("adapter")
    /\ code \in {"auth_required", "browser_crashed", "browser_closed", "other"}
    /\ Fail(code)
    /\ UNCHANGED <<store, remote, process>>

(* The click or the Enter key; what came of it shows later, if ever.  A    *)
(* send into a conversation that is gone has failed before.                *)
submit ==
    /\ At("adapter")
    /\ conv # "deleted"
    /\ post \/ UNCHANGED remote
    /\ Goto("submitted")
    /\ UNCHANGED <<store, process>>

(* The adapter inspects a conversation it knows after an unclear failure.  *)
failOrInspect(code, known) == IF known THEN Goto("inspecting") ELSE Fail(code)

(* The click throws: the page's URL may or may not name a conversation.    *)
clickThrows ==
    /\ At("adapter")
    /\ conv # "deleted"
    /\ \/ post /\ \E known \in {TRUE, thread.mapped} : failOrInspect("submission_ambiguous", known)
       \/ UNCHANGED remote /\ failOrInspect("submission_ambiguous", thread.mapped)
    /\ UNCHANGED <<store, process>>

(* The page's URL names the new conversation. *)
conversationIdentified ==
    /\ At("submitted") \/ At("answering")
    /\ request[Run] = "create_thread"
    /\ posted[Run] > 0
    /\ ~thread.mapped
    /\ thread' = setRemoteMapping(thread)
    /\ UNCHANGED <<runs, request, remote, process, exec>>

submissionConfirmed ==
    /\ At("submitted")
    /\ posted[Run] > 0 \/ (RepeatedText /\ request[Run] = "send_message")
    /\ updateProgress("running", "confirmed")
    /\ Goto("answering")
    /\ UNCHANGED <<request, thread, remote, process>>

notConfirmed ==
    /\ At("submitted")
    /\ failOrInspect("submission_ambiguous", thread.mapped)
    /\ UNCHANGED <<store, remote, process>>

(* A blocking page or an exception before the confirmation: whatever was   *)
(* clicked, the run still says "typed" and no inspection follows.          *)
blockedBeforeConfirmation(code) ==
    /\ At("submitted")
    /\ code \in {"auth_required", "browser_crashed", "browser_closed", "other"}
    /\ Fail(code)
    /\ UNCHANGED <<store, remote, process>>

(* The response is complete. *)
answered ==
    /\ At("answering")
    /\ posted[Run] > 0
    /\ ResponseCompleted

answeredWithoutConversation ==
    /\ At("answering")
    /\ posted[Run] > 0
    /\ request[Run] = "create_thread" /\ ~thread.mapped
    /\ Fail("submission_ambiguous")
    /\ UNCHANGED <<store, remote, process>>

(* Timeouts and lost pages of a confirmed submission are inspected if the  *)
(* conversation is known; other failures are final.                        *)
noAnswer(code) ==
    /\ At("answering")
    /\ \/ /\ code \in {"response_timeout", "browser_crashed"}
          /\ failOrInspect(code, thread.mapped)
       \/ /\ code \in {"auth_required", "browser_closed", "other"}
          /\ Fail(code)
    /\ UNCHANGED <<store, remote, process>>

(* recoverSubmittedConversation: the latest answer of the conversation,    *)
(* whichever message it answers.                                           *)
inspected ==
    /\ At("inspecting")
    /\ conv = "exists"
    /\ ResponseCompleted

inspectionFails(code) ==
    /\ At("inspecting")
    /\ code \in {"auth_required", "response_timeout", "browser_crashed",
                 "browser_closed", "other"}
    /\ Fail(code)
    /\ UNCHANGED <<store, remote, process>>

(* A remote deletion. *)

remoteAbsent ==
    /\ At("deleting") \/ At("verifying")
    /\ conv # "exists"
    /\ tombstone("deleted_remote")
    /\ UNCHANGED <<runs, request, remote, process>>

(* The confirming click, which may take effect or not, or throw. *)
confirmDeletion ==
    /\ At("deleting")
    /\ conv = "exists"
    /\ conv' \in {"exists", "deleted"}
    /\ clicked' = [clicked EXCEPT ![Run] = @ + 1]
    /\ Goto("verifying")
    /\ UNCHANGED <<store, posted, latestTurn, process>>

deletionAmbiguous ==
    /\ At("verifying")
    /\ thread' = setState(thread, "needs_attention")
    /\ Return("needs_attention", "remote_delete_ambiguous")
    /\ UNCHANGED <<runs, request, remote, process>>

deletionFails(code) ==
    /\ \/ At("deleting") /\ code \in {"auth_required", "browser_crashed", "browser_closed", "other"}
       \/ At("verifying") /\ code = "browser_closed"
    /\ Fail(code)
    /\ UNCHANGED <<store, remote, process>>

-----------------------------------------------------------------------------
Codes == {"auth_required", "response_timeout", "browser_crashed", "browser_closed", "other"}

Api == \E r \in Runs : \/ createThread(r) \/ sendMessage(r)
                       \/ \E what \in Requests : deleteThread(r, what)

Reconcile == \E r \in Runs : RequeueRecoverable(r) \/ ReconcileActive(r)

Begin == \/ recoverConversation \/ beginSubmission \/ sendUnmapped
         \/ deleteLocal \/ deleteRemoteUnmapped \/ deleteRemoteMapped

Adapter ==
    \/ submit \/ clickThrows \/ conversationIdentified \/ submissionConfirmed \/ notConfirmed
    \/ answered \/ answeredWithoutConversation \/ inspected
    \/ remoteAbsent \/ confirmDeletion \/ deletionAmbiguous
    \/ \E code \in Codes : \/ failBeforeSubmit(code) \/ blockedBeforeConfirmation(code)
                           \/ noAnswer(code) \/ inspectionFails(code) \/ deletionFails(code)

Service == \/ FinishHandler \/ EnterStart \/ Reconcile \/ LeaveStart
           \/ \E r \in Runs : ClaimRun(r)
           \/ Begin \/ Adapter \/ RecordFailure \/ ProgressRejected \/ PersistOutcome

Next == Api \/ Exit \/ Service

Safety == Init /\ [][Next]_vars

(* The supervisor restarts the process, the queue pumps, and every wait of *)
(* the adapter has a timeout, so that some step of the service is always   *)
(* taken; which one is not promised.                                       *)
Fairness == WF_vars(Service)

Spec == Safety /\ Fairness

-----------------------------------------------------------------------------
(* "Ambiguous submissions are never retried by sending the prompt again"   *)
(* (README, line 97): whatever fails, and however often the process exits, *)
(* no message reaches ChatGPT twice.                                       *)
NeverPostedTwice == \A r \in Runs : posted[r] <= 1

(* The messages of a thread arrive in the order in which they were         *)
(* accepted; a recovery never slips an old message behind newer ones.      *)
PostsInOrder ==
    [][latestTurn' # latestTurn => latestTurn' > latestTurn]_vars

(* An inconclusive deletion needs attention "rather than clicking Delete   *)
(* again" (README, line 159): whatever fails, and however often the        *)
(* process exits, no run confirms its deletion twice.  A start does not    *)
(* try one again that was cut off, although its row, which has no          *)
(* submission to record, looks as if nothing had been done.                *)
DeletionConfirmedOnce == \A r \in Runs : clicked[r] <= 1

(* Recovery "proceeds only when the latest remote user turn exactly        *)
(* matches the requested message" (README, lines 97-99).                   *)
AnswersItsOwnMessage ==
    [][\A r \in Runs : runs'[r].state = "succeeded" /\ runs[r].state # "succeeded"
                           /\ ~isDelete(r) => latestTurn = r]_vars

(* A conversation whose creation is on record as possibly submitted is     *)
(* never declared deleted while it exists (deleteRemoteThread).  A run     *)
(* that was cut off between the click and the confirmation is on record as *)
(* "typed", and its conversation can be.                                   *)
UncertainNotDeclaredAbsent ==
    /\ thread.remoteDeletedAt
    /\ \E r \in Accepted : request[r] = "create_thread" /\ hasPossibleRemoteSideEffect(runs[r])
    => conv # "exists"

(* One deletion at a time: a second one is not accepted while another      *)
(* waits its turn ("rejects a second distinct deletion while one is        *)
(* pending", tests/integration/api-workflow.test.ts:350).                  *)
OneDeletionPending ==
    \A q, r \in {p \in Accepted : isDelete(p) /\ runs[p].state = "queued"} : q = r

(* The service refuses messages to a deleted thread ("has been deleted     *)
(* locally", proxy-service.ts:347); while it stays up, nothing it accepted *)
(* before is sent for it either.  (A restart between the two commits of a  *)
(* deletion leaves the thread open to messages behind it in the queue.)    *)
NothingSentAfterDeletion ==
    [][latestTurn' # latestTurn /\ exits = 0 => ~thread.deletedAt]_vars

(* A thread that says it is busy has something to wait for.                *)
BusyMeansPending ==
    life = "up" /\ handler = "none" /\ thread.state \in {"running", "delete_pending"}
        => Pending # {}

(* Every accepted run settles, whatever the adapter does, as long as the   *)
(* process does not exit for ever.                                         *)
AcceptedEventuallySettles ==
    \A r \in Runs : r \in Accepted ~> isWaitTerminal(runs[r].state)

StageOf(state) ==
    CASE state \in {"absent", "queued"} -> state
      [] isActiveRunState(state) -> "active"
      [] state \in {"succeeded", "cancelled"} -> "final"
      [] OTHER -> "parked"

Contract == INSTANCE RunQueueContract
                WITH ThreadOf <- [r \in Runs |-> "the thread"],
                     MaxConcurrentRuns <- 1,
                     stage <- [r \in Runs |-> StageOf(runs[r].state)],
                     acceptedAt <- [r \in Runs |-> IF r \in Accepted THEN r ELSE 0],
                     up <- life = "up"

(* The thread as the queue sees it keeps the queue's contract. *)
ThreadKeepsContract == Contract!Spec
=============================================================================
