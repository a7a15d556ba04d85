------------------------- MODULE RunExecutionProofs -------------------------
(***************************************************************************)
(* What a thread goes through, for any number of runs, requests and exits. *)
(*                                                                         *)
(* Shape ties the position of the executor to the rows.  Five invariants   *)
(* are then proved upon it, one for each question the runs ask:            *)
(*   Unsent      a fresh message was not posted, nor anything after it,    *)
(*               and a fresh deletion was not confirmed;                   *)
(*   Backed      a message and a mapping have their conversation;          *)
(*   Tombstoned  a thread declared deleted at ChatGPT is, or a creation    *)
(*               without a trace is over for good;                         *)
(*   Busy        a busy thread waits for a run whose result is not known;  *)
(*   LastWords   before the first exit, a deletion comes after every       *)
(*               message, and none is sent once it is carried out.         *)
(*                                                                         *)
(* Next has 35 alternatives; the proofs go by the twelve kinds of step of  *)
(* StepKinds, and use of a step only what the lemmas of the first part say *)
(* it reads and writes.                                                    *)
(***************************************************************************)
EXTENDS RunExecution, FiniteSetTheorems, TLAPS

Positions == {"none", "claimed", "adapter", "submitted", "answering", "inspecting",
              "deleting", "verifying", "diagnosing", "returned"}
Outcomes == {"succeeded", "failed", "needs_attention"}
ResultCodes == Codes \cup ERRORS

RunRows == RunRecords \cup {NoRun}
ResultRecords == [state : {"none"} \cup Outcomes, err : ResultCodes]
ExecRecords == [run : Runs \cup {0}, at : Positions, result : ResultRecords]

TypeOK ==
    /\ runs \in [Runs -> RunRows]
    /\ request \in [Runs -> {"create_thread"} \cup AllRequests]
    /\ thread \in ThreadRecords
    /\ life \in {"down", "starting", "up"}
    /\ exits \in Nat
    /\ handler \in {"none", "mark_running", "mark_deleting"}
    /\ exec \in ExecRecords
    /\ conv \in {"none", "exists", "deleted"}
    /\ posted \in [Runs -> Nat]
    /\ latestTurn \in Runs \cup {0}
    /\ clicked \in [Runs -> Nat]

(* The steps of the adapter that end in no write: something happened on the *)
(* page, or nothing did.                                                    *)
FailureSeen ==
    \E code \in Codes : \/ failBeforeSubmit(code) \/ blockedBeforeConfirmation(code)
                        \/ noAnswer(code) \/ inspectionFails(code) \/ deletionFails(code)
ActsOnPage ==
    \/ submit \/ clickThrows \/ notConfirmed \/ answeredWithoutConversation
    \/ confirmDeletion \/ FailureSeen

(* The row of the run in execution lags behind what the executor knows.    *)
Submitting == {"adapter", "submitted"}
Running == {"answering", "deleting", "verifying"}
Settled == COMPLETED \cup {"needs_attention"}

Executing == exec.at # "none"

(* What the row of the run says at each position, ...                      *)
ExecState ==
    /\ exec.at = "claimed" => runs[Run].state = "navigating"
    /\ exec.at \in Submitting => runs[Run].state = "submitting" /\ runs[Run].phase = "other"
    /\ exec.at \in Running => runs[Run].state = "running"
    /\ runs[Run].state \in ACTIVE

(* ... and what the run is for.                                            *)
ExecTask ==
    /\ exec.at \in {"adapter", "submitted", "answering", "inspecting"} => ~isDelete(Run)
    /\ exec.at \in {"adapter", "submitted", "answering", "inspecting", "diagnosing"}
          /\ request[Run] = "send_message" => thread.mapped
    /\ exec.at \in {"deleting", "verifying"} => request[Run] = "delete_remote" /\ thread.mapped
    /\ exec.at = "diagnosing" => exec.result.err \in Codes \cup {"submission_ambiguous"}
    /\ exec.at = "diagnosing" /\ exec.result.err = "submission_ambiguous" => ~isDelete(Run)
    /\ exec.at = "returned" => exec.result.state \in Outcomes /\ exec.result.err \in ERRORS

ExecOK ==
    /\ ~Executing => Run = 0
    /\ Executing => life = "up" /\ Run \in Accepted /\ ExecState /\ ExecTask
    /\ handler # "none" => life = "up" /\ exec.at # "claimed"

(* Runs are accepted in order, the creation first; while the service is up *)
(* only the run in execution is active, and all before it are settled.     *)
RowsOK ==
    /\ \A q, r \in Runs : r \in Accepted /\ q < r => q \in Accepted
    /\ \A r \in Accepted : request[r] = "create_thread" <=> r = 1
    /\ \A r \in Runs : isDelete(r) => runs[r].phase = "other"
    /\ life = "up" => \A r \in Runs : runs[r].state \in ACTIVE => r = Run
    /\ Executing => \A q \in Runs : q < Run => runs[q].state \in Settled
    /\ Accepted = {} => thread = NewThread /\ handler = "none"

Shape == TypeOK /\ ExecOK /\ RowsOK

(* The shape of a row; a run that was not accepted has none.               *)
LEMMA RowTypes ==
    /\ NewRun \in RunRecords /\ NewRun # NoRun /\ NoRun.state = "absent"
    /\ NoRun \in RunRows /\ NoRun \notin RunRecords
    /\ \A row \in RunRows :
         /\ row.state \in RUN_STATES \cup {"absent"}
         /\ row.phase \in PHASES
         /\ row.sub \in SUBMISSION_STATES
         /\ row.err \in ERRORS
         /\ row.state = "absent" <=> row = NoRun
         /\ row.state # "absent" <=> row \in RunRecords
BY DEF RunRows, RunRecords, NoRun, NewRun, RUN_STATES, PHASES, SUBMISSION_STATES, ERRORS

(* What the statements on a row write.                                     *)
LEMMA TransitionType ==
    ASSUME NEW row \in RunRows, NEW state \in RUN_STATES \ {"queued"}, NEW phase \in PHASES,
           NEW sub \in SUBMISSION_STATES \cup {"keep"}, NEW err \in ERRORS
    PROVE  /\ transition(row, state, phase, sub, err) \in RunRecords
           /\ transition(row, state, phase, sub, err).state = state
           /\ transition(row, state, phase, sub, err).phase = phase
           /\ transition(row, state, phase, sub, err).sub = IF sub = "keep" THEN row.sub ELSE sub
           /\ transition(row, state, phase, sub, err).err = err
BY RowTypes DEF transition, RunRecords, SUBMISSION_STATES

(* What is requeued is a queued recovery. *)
LEMMA RequeueType ==
    ASSUME NEW row \in RunRecords
    PROVE  /\ requeueForRecovery(row) \in RunRecords
           /\ requeueForRecovery(row).state = "queued"
           /\ requeueForRecovery(row).phase = "recovery_pending"
           /\ requeueForRecovery(row).sub = row.sub
BY DEF requeueForRecovery, RunRecords, RUN_STATES, PHASES, ERRORS

(* What is claimed is active. *)
LEMMA ClaimType ==
    ASSUME NEW row \in RunRecords
    PROVE  /\ claimQueued(row, row.phase) \in RunRecords
           /\ claimQueued(row, row.phase).state = "navigating"
           /\ claimQueued(row, row.phase).phase = row.phase
           /\ claimQueued(row, row.phase).sub = row.sub
BY DEF claimQueued, RunRecords, RUN_STATES, PHASES, ERRORS

(* What the statements on a thread write.                                  *)
LEMMA ThreadTypes ==
    ASSUME NEW t \in ThreadRecords, NEW s \in THREAD_STATES
    PROVE  /\ setState(t, s) \in ThreadRecords
           /\ setState(t, s).state = s
           /\ setState(t, s).mapped = t.mapped
BY DEF setState, ThreadRecords

(* Setting a state that is no deletion changes nothing else ... *)
LEMMA LivingMark ==
    ASSUME NEW t \in ThreadRecords, NEW s \in THREAD_STATES \ DELETED
    PROVE  /\ setState(t, s) \in ThreadRecords
           /\ setState(t, s).state = s
           /\ setState(t, s).mapped = t.mapped
           /\ setState(t, s).deletedAt = t.deletedAt
           /\ setState(t, s).remoteDeletedAt = t.remoteDeletedAt
<1> DEFINE u == setState(t, s)
<1>1. u \in ThreadRecords /\ u.state = s /\ u.mapped = t.mapped
    BY ThreadTypes
<1>2. (u.deletedAt <=> t.deletedAt) /\ (u.remoteDeletedAt <=> t.remoteDeletedAt)
    BY DEF setState, ThreadRecords, DELETED
<1>3. \A v \in ThreadRecords : v.deletedAt \in BOOLEAN /\ v.remoteDeletedAt \in BOOLEAN
    BY DEF ThreadRecords
<1> QED
    BY <1>1, <1>2, <1>3

(* ... and setting one that is leaves the mapping. *)
LEMMA DeletedMark ==
    ASSUME NEW t \in ThreadRecords, NEW s \in DELETED
    PROVE  /\ setState(t, s) \in ThreadRecords
           /\ setState(t, s).state = s
           /\ setState(t, s).mapped = t.mapped
           /\ setState(t, s).deletedAt
           /\ s = "deleted_local" \/ t.remoteDeletedAt =>
                  setState(t, s).remoteDeletedAt = t.remoteDeletedAt
<1> DEFINE u == setState(t, s)
<1>1. u \in ThreadRecords /\ u.state = s /\ u.mapped = t.mapped
    BY ThreadTypes DEF THREAD_STATES, DELETED
<1>2. u.deletedAt
    BY DEF setState, ThreadRecords
<1>3. s = "deleted_local" \/ t.remoteDeletedAt => (u.remoteDeletedAt <=> t.remoteDeletedAt)
    BY DEF setState, ThreadRecords, DELETED
<1>4. \A v \in ThreadRecords : v.remoteDeletedAt \in BOOLEAN
    BY DEF ThreadRecords
<1> QED
    BY <1>1, <1>2, <1>3, <1>4

(* What reconciliation makes of a row and its thread. *)
ReconciledTo(row, op, t, row2, t2) ==
    /\ row2 \in RunRecords /\ row2.sub = row.sub
    /\ \/ /\ row2.state = "queued" /\ row2.phase = "recovery_pending"
          /\ op # "delete_thread" /\ t.mapped /\ ~isDeleted(t)
          /\ t2.state = "running"
       \/ /\ row2.state \in {"cancelled", "interrupted", "needs_attention"}
          /\ row2.phase = "other"
          /\ t2.state \notin {"running", "delete_pending", "provisioning"}
    /\ t2 \in ThreadRecords /\ t2.mapped = t.mapped
    /\ t2.remoteDeletedAt = t.remoteDeletedAt
    /\ ~isDeleted(t) => t2.deletedAt = t.deletedAt /\ t2.state \notin DELETED
    /\ isDeleted(t) => t2.deletedAt

(* reconciledRun and reconciledThread do as ReconciledTo says.             *)
LEMMA ReconciledType ==
    ASSUME NEW row \in RunRecords, NEW t \in ThreadRecords,
           NEW op \in {"create_thread", "send_message", "delete_thread"}
    PROVE  ReconciledTo(row, op, t, reconciledRun(row, op, t), reconciledThread(row, op, t))
<1> SUFFICES ASSUME NEW row2, row2 = reconciledRun(row, op, t),
                    NEW t2, t2 = reconciledThread(row, op, t)
             PROVE  ReconciledTo(row, op, t, row2, t2)
    OBVIOUS
<1> USE DEF ReconciledTo
<1>0. row \in RunRows /\ row.sub \in SUBMISSION_STATES
    BY RowTypes DEF RunRows
<1>1. CASE isDeleted(t)
    <2>1. row2 = transition(row, "cancelled", "other", "keep", "thread_deleted")
        BY <1>1 DEF reconciledRun
    <2>2. t2 = setState(t, IF t.remoteDeletedAt THEN "deleted_remote" ELSE "deleted_local")
        BY <1>1 DEF reconciledThread
    <2>3. /\ row2 \in RunRecords /\ row2.sub = row.sub /\ row2.phase = "other"
          /\ row2.state = "cancelled"
        BY <1>0, <2>1, TransitionType DEF RUN_STATES, PHASES, ERRORS
    <2>4. PICK s \in DELETED : t2 = setState(t, s) /\ (s = "deleted_remote" => t.remoteDeletedAt)
        BY <2>2 DEF DELETED
    <2>5. s \in THREAD_STATES /\ s \notin {"running", "delete_pending", "provisioning"}
        BY DEF THREAD_STATES, DELETED
    <2>6. /\ t2 \in ThreadRecords /\ t2.mapped = t.mapped /\ t2.deletedAt
          /\ t2.remoteDeletedAt = t.remoteDeletedAt /\ t2.state = s
        BY <2>4, DeletedMark DEF DELETED
    <2> QED
        BY <1>1, <2>3, <2>5, <2>6
<1>2. CASE ~isDeleted(t) /\ canResume(op, t)
    <2>1. row2 = requeueForRecovery(
                    transition(row, "interrupted", "other", "keep", "unexpected_state"))
        BY <1>2 DEF reconciledRun
    <2>2. t2 = setState(t, "running")
        BY <1>2 DEF reconciledThread
    <2>3. /\ transition(row, "interrupted", "other", "keep", "unexpected_state") \in RunRecords
          /\ transition(row, "interrupted", "other", "keep", "unexpected_state").sub = row.sub
        BY <1>0, TransitionType DEF RUN_STATES, PHASES, ERRORS
    <2>4. /\ row2 \in RunRecords /\ row2.sub = row.sub
          /\ row2.state = "queued" /\ row2.phase = "recovery_pending"
        BY <2>1, <2>3, RequeueType
    <2>5. /\ t2 \in ThreadRecords /\ t2.mapped = t.mapped /\ t2.deletedAt = t.deletedAt
          /\ t2.remoteDeletedAt = t.remoteDeletedAt /\ t2.state = "running"
        BY <2>2, LivingMark DEF THREAD_STATES, DELETED
    <2> QED
        BY <1>2, <2>4, <2>5 DEF canResume, DELETED
<1>3. CASE ~isDeleted(t) /\ ~canResume(op, t)
    <2>1. row2 = transition(row,
                    IF hasPossibleRemoteSideEffect(row) THEN "needs_attention" ELSE "interrupted",
                    "other", row.sub,
                    IF row.sub = "submitted_unconfirmed" THEN "submission_ambiguous"
                                                         ELSE "unexpected_state")
        BY <1>3 DEF reconciledRun
    <2>2. t2 = setState(t, IF hasPossibleRemoteSideEffect(row) THEN "needs_attention"
                           ELSE IF op = "create_thread" THEN "error" ELSE "idle")
        BY <1>3 DEF reconciledThread
    <2>3. /\ row2 \in RunRecords /\ row2.sub = row.sub /\ row2.phase = "other"
          /\ row2.state \in {"interrupted", "needs_attention"}
        <3>1. PICK s \in {"interrupted", "needs_attention"},
                   c \in {"submission_ambiguous", "unexpected_state"} :
                  row2 = transition(row, s, "other", row.sub, c)
            BY <2>1
        <3>2. /\ s \in RUN_STATES \ {"queued"} /\ c \in ERRORS /\ "other" \in PHASES
              /\ row.sub # "keep"
            BY <1>0 DEF RUN_STATES, PHASES, ERRORS, SUBMISSION_STATES
        <3> QED
            BY <1>0, <3>1, <3>2, TransitionType
    <2>4. PICK s \in {"needs_attention", "error", "idle"} : t2 = setState(t, s)
        BY <2>2
    <2>5. /\ t2 \in ThreadRecords /\ t2.mapped = t.mapped /\ t2.deletedAt = t.deletedAt
          /\ t2.remoteDeletedAt = t.remoteDeletedAt /\ t2.state = s
        BY <2>4, LivingMark DEF THREAD_STATES, DELETED
    <2> QED
        BY <1>3, <2>3, <2>5 DEF DELETED
<1> QED
    BY <1>1, <1>2, <1>3

(* The three ways in which the executor moves on.                          *)
LEMMA GotoFacts ==
    ASSUME TypeOK, NEW p \in Positions, Goto(p)
    PROVE  exec' \in ExecRecords /\ exec'.run = Run /\ exec'.at = p
BY DEF TypeOK, Goto, Run, ExecRecords

(* What a failure of the adapter leaves of the executor. *)
LEMMA FailFacts ==
    ASSUME TypeOK, NEW c \in Codes \cup {"submission_ambiguous"}, Fail(c)
    PROVE  /\ exec' \in ExecRecords /\ exec'.run = Run /\ exec'.at = "diagnosing"
           /\ exec'.result.err = c
<1> DEFINE r == [state |-> "none", err |-> c]
<1>1. r \in ResultRecords /\ r.err = c
    BY DEF ResultRecords, ResultCodes, ERRORS
<1>2. exec' = [exec EXCEPT !.at = "diagnosing", !.result = r]
    BY DEF Fail
<1> HIDE DEF r
<1> QED
    BY <1>1, <1>2 DEF TypeOK, Positions, Run, ExecRecords

(* And what its return does. *)
LEMMA ReturnFacts ==
    ASSUME TypeOK, NEW s \in Outcomes, NEW c \in ERRORS, Return(s, c)
    PROVE  /\ exec' \in ExecRecords /\ exec'.run = Run /\ exec'.at = "returned"
           /\ exec'.result.state = s /\ exec'.result.err = c
<1> DEFINE r == [state |-> s, err |-> c]
<1>1. r \in ResultRecords /\ r.state = s /\ r.err = c
    BY DEF ResultRecords, ResultCodes
<1>2. exec' = [exec EXCEPT !.at = "returned", !.result = r]
    BY DEF Return
<1> HIDE DEF r
<1> QED
    BY <1>1, <1>2 DEF TypeOK, Positions, Run, ExecRecords

(* A step that only acts on the page writes no row and no thread; it sends *)
(* at most once, from "adapter".                                           *)
LEMMA PageEffects ==
    ASSUME TypeOK, ActsOnPage
    PROVE  /\ UNCHANGED <<store, process>>
           /\ life = "up" /\ handler = "none"
           /\ exec' \in ExecRecords /\ exec'.run = Run
           /\ \/ exec'.at = "submitted" /\ exec.at = "adapter"
              \/ exec'.at = "inspecting" /\ exec.at \in {"adapter", "submitted", "answering"}
              \/ exec'.at = "verifying" /\ exec.at = "deleting"
              \/ /\ exec'.at = "diagnosing"
                 /\ \/ exec.at \in {"adapter", "submitted", "answering"}
                       /\ exec'.result.err \in Codes \cup {"submission_ambiguous"}
                    \/ exec.at \in {"inspecting", "deleting", "verifying"}
                       /\ exec'.result.err \in Codes
           /\ \/ UNCHANGED remote
              \/ exec.at = "adapter" /\ conv # "deleted" /\ post
              \/ /\ exec.at = "deleting" /\ conv = "exists"
                 /\ conv' \in {"exists", "deleted"} /\ UNCHANGED <<posted, latestTurn>>
                 /\ clicked' = [clicked EXCEPT ![Run] = @ + 1]
<1> DEFINE codes == Codes \cup {"submission_ambiguous"}
<1>c. ASSUME NEW c \in codes, NEW known, failOrInspect(c, known)
      PROVE  Goto("inspecting") \/ Fail(c)
    BY <1>c DEF failOrInspect
<1>1. CASE submit
    BY <1>1, GotoFacts DEF submit, At, Positions
<1>2. CASE clickThrows
    BY <1>2, GotoFacts, FailFacts, <1>c DEF clickThrows, At, Positions
<1>3. CASE notConfirmed
    BY <1>3, GotoFacts, FailFacts, <1>c DEF notConfirmed, At, Positions, store, remote
<1>4. CASE answeredWithoutConversation
    BY <1>4, FailFacts DEF answeredWithoutConversation, At, store, remote
<1>5. CASE confirmDeletion
    BY <1>5, GotoFacts DEF confirmDeletion, At, Positions, store, remote
<1>6. CASE FailureSeen
    <2> PICK code \in Codes : \/ failBeforeSubmit(code) \/ blockedBeforeConfirmation(code)
                              \/ noAnswer(code) \/ inspectionFails(code) \/ deletionFails(code)
        BY <1>6 DEF FailureSeen
    <2>1. CASE failBeforeSubmit(code)
        BY <2>1, FailFacts DEF failBeforeSubmit, At, store, remote
    <2>2. CASE blockedBeforeConfirmation(code)
        BY <2>2, FailFacts DEF blockedBeforeConfirmation, At, store, remote
    <2>3. CASE noAnswer(code)
        BY <2>3, GotoFacts, FailFacts, <1>c DEF noAnswer, At, Positions, store, remote
    <2>4. CASE inspectionFails(code)
        BY <2>4, FailFacts DEF inspectionFails, At, store, remote
    <2>5. CASE deletionFails(code)
        BY <2>5, FailFacts DEF deletionFails, At, store, remote
    <2> QED
        BY <2>1, <2>2, <2>3, <2>4, <2>5
<1> QED
    BY <1>1, <1>2, <1>3, <1>4, <1>5, <1>6 DEF ActsOnPage

-----------------------------------------------------------------------------
(* One row of the table is written. *)
RowWritten(r) ==
    /\ runs' \in [Runs -> RunRows] /\ runs'[r] \in RunRecords
    /\ \A q \in Runs \ {r} : runs'[q] = runs[q]

(* updateProgress writes the row of the run in execution.                  *)
LEMMA ProgressRow ==
    ASSUME TypeOK, Run \in Runs, NEW state \in {"submitting", "running"},
           NEW sub \in SUBMISSION_STATES \cup {"keep"}, updateProgress(state, sub)
    PROVE  /\ RowWritten(Run)
           /\ runs'[Run].state = state /\ runs'[Run].phase = "other"
           /\ sub # "keep" => runs'[Run].sub = sub
<1> DEFINE row == transition(runs[Run], state, "other", sub, "none")
<1>1. runs' = [runs EXCEPT ![Run] = row]
    BY DEF updateProgress
<1>2. /\ row \in RunRecords /\ row.state = state /\ row.phase = "other"
      /\ sub # "keep" => row.sub = sub
    BY TransitionType DEF TypeOK, RUN_STATES, PHASES, ERRORS
<1> HIDE DEF row
<1> QED
    BY <1>1, <1>2 DEF TypeOK, RowWritten, RunRows

(* The executor goes on after a write. *)
Progresses ==
    \/ recoverConversation /\ thread.mapped
    \/ beginSubmission \/ deleteRemoteMapped \/ submissionConfirmed

(* What the executor has read when it goes on, and what it has written.    *)
LEMMA ProgressEffects ==
    ASSUME TypeOK, exec.at # "none" => Run \in Runs, Progresses
    PROVE  /\ UNCHANGED <<request, remote, process>>
           /\ life = "up" /\ handler = "none"
           /\ exec' \in ExecRecords /\ exec'.run = Run
           /\ RowWritten(Run) /\ runs'[Run].phase = "other"
           /\ \/ /\ exec.at = "claimed" /\ exec'.at = "inspecting"
                 /\ runs'[Run].state = "running"
                 /\ runs[Run].phase = "recovery_pending" /\ thread.mapped
                 /\ thread' = thread \/ (thread.state # "delete_pending" /\ markThreadRunning)
              \/ /\ exec.at = "claimed" /\ exec'.at = "adapter"
                 /\ runs'[Run].state = "submitting"
                 /\ runs[Run].phase = "other" /\ ~isDelete(Run)
                 /\ request[Run] = "create_thread" \/ thread.mapped
                 /\ thread' = thread \/ (thread.state # "delete_pending" /\ markThreadRunning)
              \/ /\ exec.at = "claimed" /\ exec'.at = "deleting"
                 /\ runs'[Run].state = "running"
                 /\ runs[Run].phase = "other"
                 /\ request[Run] = "delete_remote" /\ thread.mapped /\ thread' = thread
              \/ /\ exec.at = "submitted" /\ exec'.at = "answering"
                 /\ runs'[Run].state = "running" /\ thread' = thread
<1>0. Run \in Runs => runs[Run].phase \in {"recovery_pending", "other"}
    BY RowTypes DEF TypeOK, PHASES
<1>1. CASE recoverConversation /\ thread.mapped
    BY <1>1, GotoFacts, ProgressRow
       DEF recoverConversation, submits, At, Positions, markThreadRunning, setStateUnlessDeletePending
<1>2. CASE beginSubmission
    <2>1. At("claimed") /\ UNCHANGED <<request, remote, process>> /\ Goto("adapter")
        BY <1>2 DEF beginSubmission
    <2>2. /\ exec.at = "claimed" /\ exec'.at = "adapter" /\ life = "up" /\ handler = "none"
          /\ exec' \in ExecRecords /\ exec'.run = Run
        BY <2>1, GotoFacts DEF At, Positions
    <2>3. RowWritten(Run) /\ runs'[Run].state = "submitting" /\ runs'[Run].phase = "other"
        <3>1. updateProgress("submitting", "typed")
            BY <1>2 DEF beginSubmission
        <3> QED
            BY <2>2, <3>1, ProgressRow DEF SUBMISSION_STATES
    <2>4. runs[Run].phase = "other" /\ ~isDelete(Run) /\ (request[Run] = "create_thread" \/ thread.mapped)
        BY <1>0, <1>2, <2>2 DEF beginSubmission, submits
    <2>5. thread' = thread \/ (thread.state # "delete_pending" /\ markThreadRunning)
        BY <1>2 DEF beginSubmission, markThreadRunning, setStateUnlessDeletePending
    <2> QED
        BY <2>1, <2>2, <2>3, <2>4, <2>5
<1>3. CASE deleteRemoteMapped
    BY <1>0, <1>3, GotoFacts, ProgressRow DEF deleteRemoteMapped, submits, At, Positions
<1>4. CASE submissionConfirmed
    BY <1>4, GotoFacts, ProgressRow DEF submissionConfirmed, At, Positions, SUBMISSION_STATES
<1> QED
    BY <1>1, <1>2, <1>3, <1>4 DEF Progresses

(* The executor comes to a result. *)
Completes == answered \/ inspected

Concludes ==
    \/ recoverConversation /\ ~thread.mapped
    \/ sendUnmapped \/ deleteLocal \/ deleteRemoteUnmapped \/ Completes
    \/ remoteAbsent \/ deletionAmbiguous \/ RecordFailure \/ ProgressRejected

(* What becomes of the thread when a message has come to a result, ... *)
MessageMark ==
    /\ exec.at \in {"claimed", "answering", "inspecting", "diagnosing"}
    /\ thread'.deletedAt = thread.deletedAt /\ thread'.remoteDeletedAt = thread.remoteDeletedAt
    /\ Completes => thread'.mapped
    /\ ~Completes => thread'.mapped = thread.mapped
    /\ thread'.state \in {"needs_attention", "orphaned", "error", "idle", "running", "delete_pending"}
    /\ thread'.state = "running" => Completes /\ hasPendingRun
    /\ thread'.state = "delete_pending" => thread.state = "delete_pending"
    /\ exec.at # "claimed" /\ thread.state = "delete_pending" => thread'.state = "delete_pending"
    /\ exec.at = "claimed" => /\ ~thread.mapped /\ runs' = runs
                              /\ \/ runs[Run].phase = "recovery_pending"
                                 \/ request[Run] = "send_message" /\ thread'.state = "orphaned"

(* ... and when a deletion has. *)
DeletionMark ==
    /\ runs' = runs /\ thread'.mapped = thread.mapped
    /\ \/ /\ thread'.state \in {"needs_attention", "delete_failed"}
          /\ thread'.deletedAt = thread.deletedAt
          /\ thread'.remoteDeletedAt = thread.remoteDeletedAt
       \/ thread' = thread /\ thread.state \in DELETED
       \/ /\ thread'.state = "deleted_local" /\ thread'.deletedAt
          /\ thread'.remoteDeletedAt = thread.remoteDeletedAt
       \/ /\ thread'.state = "deleted_remote" /\ thread'.deletedAt
          /\ \/ thread.mapped /\ conv # "exists"
             \/ ~thread.mapped /\ ~uncertainRemoteCreation

Concluded ==
    /\ UNCHANGED <<request, remote, process>>
    /\ life = "up" /\ handler = "none"
    /\ exec' \in ExecRecords /\ exec'.run = Run /\ exec'.at = "returned"
    /\ exec'.result.state \in Outcomes /\ exec'.result.err \in ERRORS
    /\ \/ runs' = runs
       \/ /\ exec.at # "claimed" /\ RowWritten(Run)
          /\ runs'[Run].state \in {"submitting", "running"} /\ runs'[Run].phase = "other"
    /\ exec'.result.state = "succeeded" /\ ~isDelete(Run) => Completes
    /\ Completes => /\ exec.at \in {"answering", "inspecting"}
                    /\ conv = "exists" \/ posted[Run] > 0
                    /\ runs'[Run].sub = "confirmed"
    /\ thread' \in ThreadRecords
    /\ exec.at # "none"
    /\ isDelete(Run) => DeletionMark
    /\ ~isDelete(Run) => MessageMark

(* setRemoteMapping touches the mapping alone.                             *)
LEMMA MappingType ==
    ASSUME NEW t \in ThreadRecords
    PROVE  LET u == setRemoteMapping(t)
           IN  /\ u \in ThreadRecords /\ u.mapped /\ u.state = t.state
               /\ u.deletedAt = t.deletedAt /\ u.remoteDeletedAt = t.remoteDeletedAt
BY DEF setRemoteMapping, ThreadRecords

(* An answer concludes a message: confirmed, mapped, and the thread is     *)
(* marked for what is left to do.                                          *)
LEMMA CompletesConcludes ==
    ASSUME TypeOK, ExecOK, Completes
    PROVE  Concluded
<1>1. /\ exec.at \in {"answering", "inspecting"} /\ life = "up" /\ handler = "none"
      /\ conv = "exists" \/ posted[Run] > 0
      /\ ResponseCompleted
    BY DEF Completes, answered, inspected, At
<1>2. Run \in Runs /\ ~isDelete(Run)
    BY <1>1 DEF ExecOK, Executing, ExecTask, Accepted
<1>3. /\ RowWritten(Run) /\ runs'[Run].state = "running" /\ runs'[Run].phase = "other"
      /\ runs'[Run].sub = "confirmed"
    BY <1>1, <1>2, ProgressRow DEF ResponseCompleted, SUBMISSION_STATES
<1>4. /\ exec' \in ExecRecords /\ exec'.run = Run /\ exec'.at = "returned"
      /\ exec'.result.state = "succeeded" /\ exec'.result.err = "none"
    BY <1>1, ReturnFacts DEF ResponseCompleted, Outcomes, ERRORS
<1>5. UNCHANGED <<request, remote, process>>
    BY <1>1 DEF ResponseCompleted
<1> DEFINE t == setRemoteMapping(thread)
<1>6. /\ t \in ThreadRecords /\ t.mapped /\ t.state = thread.state
      /\ t.deletedAt = thread.deletedAt /\ t.remoteDeletedAt = thread.remoteDeletedAt
    BY MappingType DEF TypeOK
<1>7. \/ thread.state = "delete_pending" /\ thread' = t
      \/ /\ thread.state # "delete_pending"
         /\ \/ hasPendingRun /\ thread' = setState(t, "running")
            \/ ~hasPendingRun /\ thread' = setState(t, "idle")
    BY <1>1 DEF ResponseCompleted
<1> HIDE DEF t
<1>8. /\ thread' \in ThreadRecords /\ thread'.mapped
      /\ thread'.deletedAt = thread.deletedAt /\ thread'.remoteDeletedAt = thread.remoteDeletedAt
      /\ \/ thread.state = "delete_pending" /\ thread'.state = "delete_pending"
         \/ /\ thread.state # "delete_pending" /\ thread'.state \in {"running", "idle"}
            /\ thread'.state = "running" => hasPendingRun
    BY <1>6, <1>7, LivingMark DEF THREAD_STATES, DELETED
<1>9. MessageMark
    BY <1>1, <1>8 DEF MessageMark
<1> QED
    BY <1>1, <1>2, <1>3, <1>4, <1>5, <1>8, <1>9 DEF Concluded, Outcomes, ERRORS

(* Where the executor sees an answer.                                      *)
LEMMA CompletesAt == Completes => exec.at \in {"answering", "inspecting"}
BY DEF Completes, answered, inspected, At

(* A message that comes to a result as soon as it is claimed. *)
LEMMA UnmappedConcludes ==
    ASSUME TypeOK, ExecOK, RowsOK, (recoverConversation /\ ~thread.mapped) \/ sendUnmapped
    PROVE  Concluded
<1>1. /\ exec.at = "claimed" /\ life = "up" /\ handler = "none" /\ ~thread.mapped
      /\ UNCHANGED <<runs, request, remote, process>>
    BY DEF recoverConversation, sendUnmapped, At
<1>2. Run \in Runs /\ runs[Run].state = "navigating"
    BY <1>1 DEF ExecOK, Executing, ExecState, Accepted
<1>3. PICK s \in {"needs_attention", "failed"}, c \in {"unexpected_state", "other"} : Return(s, c)
    BY <1>1 DEF recoverConversation, sendUnmapped
<1>4. /\ exec' \in ExecRecords /\ exec'.run = Run /\ exec'.at = "returned"
      /\ exec'.result.state = s /\ exec'.result.err = c
    BY <1>3, ReturnFacts DEF Outcomes, ERRORS
<1>5. \/ runs[Run].phase = "recovery_pending" /\ thread' = setState(thread, "needs_attention")
      \/ request[Run] = "send_message" /\ thread' = setState(thread, "orphaned")
    BY <1>1 DEF recoverConversation, sendUnmapped, submits
<1>6. ~isDelete(Run)
    BY <1>2, <1>5 DEF RowsOK, isDelete
<1>7. /\ thread' \in ThreadRecords /\ thread'.mapped = thread.mapped
      /\ thread'.deletedAt = thread.deletedAt /\ thread'.remoteDeletedAt = thread.remoteDeletedAt
      /\ \/ runs[Run].phase = "recovery_pending" /\ thread'.state = "needs_attention"
         \/ request[Run] = "send_message" /\ thread'.state = "orphaned"
    BY <1>5, LivingMark DEF TypeOK, THREAD_STATES, DELETED
<1>8. ~Completes
    BY <1>1, CompletesAt
<1>9. MessageMark
    BY <1>1, <1>7, <1>8 DEF MessageMark
<1> QED
    BY <1>1, <1>4, <1>6, <1>7, <1>8, <1>9 DEF Concluded, Outcomes, ERRORS

(* tombstone reports success and marks the thread deleted.                 *)
LEMMA TombstoneFacts ==
    ASSUME TypeOK, NEW s \in DELETED, tombstone(s)
    PROVE  /\ exec' \in ExecRecords /\ exec'.run = Run /\ exec'.at = "returned"
           /\ exec'.result.state = "succeeded" /\ exec'.result.err = "none"
           /\ thread' \in ThreadRecords /\ thread'.mapped = thread.mapped
           /\ thread'.state = s /\ thread'.deletedAt
           /\ s = "deleted_local" => thread'.remoteDeletedAt = thread.remoteDeletedAt
<1>1. Return("succeeded", "none") /\ thread' = setState(thread, s)
    BY DEF tombstone
<1>2. /\ exec' \in ExecRecords /\ exec'.run = Run /\ exec'.at = "returned"
      /\ exec'.result.state = "succeeded" /\ exec'.result.err = "none"
    BY <1>1, ReturnFacts DEF Outcomes, ERRORS
<1> QED
    BY <1>1, <1>2, DeletedMark DEF TypeOK

(* A deletion that comes to a result without a failure. *)
LEMMA DeletionConcludes ==
    ASSUME TypeOK, ExecOK, RowsOK,
           deleteLocal \/ deleteRemoteUnmapped \/ remoteAbsent \/ deletionAmbiguous
    PROVE  Concluded
<1>1. /\ exec.at \in {"claimed", "deleting", "verifying"} /\ life = "up" /\ handler = "none"
      /\ UNCHANGED <<runs, request, remote, process>>
    BY DEF deleteLocal, deleteRemoteUnmapped, remoteAbsent, deletionAmbiguous, At
<1>2. isDelete(Run)
    BY <1>1 DEF deleteLocal, deleteRemoteUnmapped, remoteAbsent, deletionAmbiguous,
                At, ExecOK, Executing, ExecTask, isDelete
<1>3. ~Completes
    BY <1>1, CompletesAt
<1>4. CASE \E s \in {"needs_attention", "succeeded"}, c \in {"none", "remote_delete_ambiguous"} :
              /\ Return(s, c)
              /\ \/ s = "needs_attention" /\ thread' = setState(thread, "needs_attention")
                 \/ s = "succeeded" /\ thread' = thread /\ thread.state \in DELETED
    <2>1. PICK s \in {"needs_attention", "succeeded"}, c \in {"none", "remote_delete_ambiguous"} :
              /\ Return(s, c)
              /\ \/ s = "needs_attention" /\ thread' = setState(thread, "needs_attention")
                 \/ s = "succeeded" /\ thread' = thread /\ thread.state \in DELETED
        BY <1>4
    <2>2. /\ exec' \in ExecRecords /\ exec'.run = Run /\ exec'.at = "returned"
          /\ exec'.result.state = s /\ exec'.result.err = c
        BY <2>1, ReturnFacts DEF Outcomes, ERRORS
    <2>3. thread' \in ThreadRecords /\ DeletionMark
        BY <1>1, <2>1, LivingMark DEF DeletionMark, TypeOK, THREAD_STATES, DELETED
    <2> QED
        BY <1>1, <1>2, <1>3, <2>2, <2>3 DEF Concluded, Outcomes, ERRORS
<1>5. CASE \/ tombstone("deleted_local")
           \/ /\ tombstone("deleted_remote")
              /\ \/ thread.mapped /\ conv # "exists"
                 \/ ~thread.mapped /\ ~uncertainRemoteCreation
    <2>1. PICK s \in DELETED :
              /\ tombstone(s)
              /\ s = "deleted_remote" => \/ thread.mapped /\ conv # "exists"
                                         \/ ~thread.mapped /\ ~uncertainRemoteCreation
        BY <1>5 DEF DELETED
    <2>2. /\ exec' \in ExecRecords /\ exec'.run = Run /\ exec'.at = "returned"
          /\ exec'.result.state = "succeeded" /\ exec'.result.err = "none"
          /\ thread' \in ThreadRecords /\ thread'.mapped = thread.mapped
          /\ thread'.state = s /\ thread'.deletedAt
          /\ s = "deleted_local" => thread'.remoteDeletedAt = thread.remoteDeletedAt
        BY <2>1, TombstoneFacts
    <2>3. DeletionMark
        BY <1>1, <2>1, <2>2 DEF DeletionMark, DELETED
    <2> QED
        BY <1>1, <1>2, <1>3, <2>2, <2>3 DEF Concluded, Outcomes, ERRORS
<1>6. CASE deleteLocal
    BY <1>4, <1>5, <1>6 DEF deleteLocal
<1>7. CASE deleteRemoteUnmapped
    BY <1>4, <1>5, <1>7 DEF deleteRemoteUnmapped
<1>8. CASE remoteAbsent
    BY <1>1, <1>5, <1>8 DEF remoteAbsent, At, ExecOK, Executing, ExecTask
<1>9. CASE deletionAmbiguous
    BY <1>4, <1>9 DEF deletionAmbiguous
<1> QED
    BY <1>6, <1>7, <1>8, <1>9

(* A failure concludes the run, whether or not its diagnosis can be        *)
(* recorded.                                                               *)
LEMMA FailureConcludes ==
    ASSUME TypeOK, ExecOK, RecordFailure \/ ProgressRejected
    PROVE  Concluded
<1>1. /\ exec.at = "diagnosing" /\ life = "up" /\ handler = "none"
      /\ UNCHANGED <<request, remote, process>>
    BY DEF RecordFailure, ProgressRejected, At
<1> DEFINE code == exec.result.err
<1>2. /\ Run \in Runs /\ code \in Codes \cup {"submission_ambiguous"}
      /\ code = "submission_ambiguous" => ~isDelete(Run)
    BY <1>1 DEF ExecOK, Executing, ExecTask, Accepted
<1>3. ~Completes
    BY <1>1, CompletesAt
<1>4. PICK s \in {"needs_attention", "failed"}, c \in ERRORS : Return(s, c)
    <2>1. errorCode(code) \in ERRORS
        BY DEF errorCode, ERRORS
    <2> QED
        BY <2>1 DEF RecordFailure, ProgressRejected, ReportFailure, ERRORS
<1>5. /\ exec' \in ExecRecords /\ exec'.run = Run /\ exec'.at = "returned"
      /\ exec'.result.state = s /\ exec'.result.err = c
    BY <1>4, ReturnFacts DEF Outcomes
<1>6. \/ runs' = runs
      \/ ~isDelete(Run) /\ updateProgress("submitting", "submitted_unconfirmed")
    BY <1>2 DEF RecordFailure, ProgressRejected
<1>7. \/ runs' = runs
      \/ /\ ~isDelete(Run) /\ RowWritten(Run)
         /\ runs'[Run].state = "submitting" /\ runs'[Run].phase = "other"
    BY <1>2, <1>6, ProgressRow DEF SUBMISSION_STATES
<1>8. \E m \in {"needs_attention", "delete_failed", "error"} :
         /\ isDelete(Run) => m # "error"
         /\ ~isDelete(Run) => m # "delete_failed"
         /\ \/ thread' = setState(thread, m)
            \/ ~isDelete(Run) /\ thread.state = "delete_pending" /\ thread' = thread
         /\ ~isDelete(Run) /\ thread.state = "delete_pending" => thread' = thread
    <2>1. CASE RecordFailure
        <3>1. \E m \in {"needs_attention", "delete_failed", "error"} :
                 /\ FailureThreadState(code) = m
                 /\ isDelete(Run) => m # "error"
                 /\ ~isDelete(Run) => m # "delete_failed"
            BY DEF FailureThreadState
        <3> QED
            BY <2>1, <3>1 DEF RecordFailure, setStateUnlessDeletePending
    <2>2. CASE ProgressRejected
        BY <1>2, <2>2 DEF ProgressRejected, setStateUnlessDeletePending
    <2> QED
        BY <2>1, <2>2
<1>9. PICK m \in {"needs_attention", "delete_failed", "error"} :
         /\ isDelete(Run) => m # "error"
         /\ ~isDelete(Run) => m # "delete_failed"
         /\ \/ thread' = setState(thread, m)
            \/ ~isDelete(Run) /\ thread.state = "delete_pending" /\ thread' = thread
         /\ ~isDelete(Run) /\ thread.state = "delete_pending" => thread' = thread
    BY <1>8
<1>10. /\ setState(thread, m) \in ThreadRecords /\ setState(thread, m).state = m
       /\ setState(thread, m).mapped = thread.mapped
       /\ setState(thread, m).deletedAt = thread.deletedAt
       /\ setState(thread, m).remoteDeletedAt = thread.remoteDeletedAt
    BY LivingMark DEF TypeOK, THREAD_STATES, DELETED
<1>11. thread' \in ThreadRecords
    BY <1>9, <1>10 DEF TypeOK
<1>12. ASSUME isDelete(Run) PROVE DeletionMark
    BY <1>7, <1>9, <1>10, <1>12 DEF DeletionMark
<1>13. ASSUME ~isDelete(Run) PROVE MessageMark
    BY <1>1, <1>3, <1>9, <1>10, <1>13 DEF MessageMark
<1> QED
    BY <1>1, <1>3, <1>5, <1>7, <1>11, <1>12, <1>13 DEF Concluded, Outcomes

(* Every way to a result is one of these.                                  *)
LEMMA ConclusionEffects ==
    ASSUME TypeOK, ExecOK, RowsOK, Concludes
    PROVE  Concluded
BY CompletesConcludes, UnmappedConcludes, DeletionConcludes, FailureConcludes DEF Concludes

(* Every step is of one of these kinds. *)
LEMMA StepKinds ==
    ASSUME Next
    PROVE  \/ Api \/ FinishHandler \/ Exit \/ EnterStart \/ Reconcile \/ LeaveStart
           \/ \E r \in Runs : ClaimRun(r)
           \/ conversationIdentified \/ ActsOnPage \/ Progresses \/ Concludes
           \/ PersistOutcome
BY DEF Next, Service, Begin, Adapter, Progresses, Concludes, Completes, ActsOnPage, FailureSeen

Deletions == {"delete_local", "delete_remote"}

(* A request is accepted: the row r is new. *)
AcceptedAs(r, what) ==
    /\ life = "up" /\ handler = "none" /\ exec.at # "claimed"
    /\ IsNext(r)
    /\ RowWritten(r) /\ runs'[r] = NewRun
    /\ request' \in [Runs -> {"create_thread"} \cup AllRequests] /\ request'[r] = what
    /\ \A q \in Runs \ {r} : request'[q] = request[q]
    /\ UNCHANGED <<thread, life, exits, exec, remote>>
    /\ \/ r = 1 /\ what = "create_thread" /\ handler' = "none"
       \/ /\ r > 1 /\ what = "send_message" /\ ~thread.deletedAt /\ assertMutableThread
          /\ handler' \in {"none", "mark_running"}
       \/ /\ r > 1 /\ what \in Deletions /\ ~thread.deletedAt
          /\ handler' \in {"none", "mark_deleting"}
          /\ handler' = "none" => thread.state \in DELETED

(* What every accepted request does.                                       *)
LEMMA ApiEffects ==
    ASSUME TypeOK, Api
    PROVE  \E r \in Runs, what \in {"create_thread", "send_message"} \cup Deletions :
               AcceptedAs(r, what)
<1>1. PICK r \in Runs : \/ createThread(r) \/ sendMessage(r)
                        \/ \E what \in Requests : deleteThread(r, what)
    BY DEF Api
<1>2. PICK what \in {"create_thread", "send_message"} \cup Deletions :
          \/ what = "create_thread" /\ createThread(r)
          \/ what = "send_message" /\ sendMessage(r)
          \/ what \in Deletions /\ deleteThread(r, what)
    <2>1. ASSUME NEW w \in Requests, deleteThread(r, w) PROVE w \in Deletions
        BY <2>1, ExecutionAssumptions DEF deleteThread, AllRequests, Deletions
    <2> QED
        BY <1>1, <2>1
<1>3. accept(r, what)
    BY <1>2 DEF createThread, sendMessage, deleteThread
<1>4. /\ life = "up" /\ handler = "none" /\ exec.at # "claimed"
      /\ IsNext(r) /\ UNCHANGED <<thread, life, exits, exec, remote>>
    BY <1>3 DEF accept, LoopFree
<1>5. RowWritten(r) /\ runs'[r] = NewRun
    <2>1. runs' = [runs EXCEPT ![r] = NewRun]
        BY <1>3 DEF accept
    <2> QED
        BY <2>1, RowTypes DEF RowWritten, TypeOK, RunRows
<1>6. /\ request' \in [Runs -> {"create_thread"} \cup AllRequests] /\ request'[r] = what
      /\ \A q \in Runs \ {r} : request'[q] = request[q]
    <2>1. what \in {"create_thread"} \cup AllRequests
        BY DEF AllRequests, Deletions
    <2>2. request' = [request EXCEPT ![r] = what]
        BY <1>3 DEF accept
    <2> QED
        BY <2>1, <2>2 DEF TypeOK
<1>7. \/ r = 1 /\ what = "create_thread" /\ handler' = "none"
      \/ /\ r > 1 /\ what = "send_message" /\ ~thread.deletedAt /\ assertMutableThread
         /\ handler' \in {"none", "mark_running"}
      \/ /\ r > 1 /\ what \in Deletions /\ ~thread.deletedAt
         /\ handler' \in {"none", "mark_deleting"}
         /\ handler' = "none" => thread.state \in DELETED
    <2>1. CASE what = "create_thread" /\ createThread(r)
        BY <1>4, <2>1 DEF createThread
    <2>2. CASE what = "send_message" /\ sendMessage(r)
        BY <2>2 DEF sendMessage, requireThread
    <2>3. CASE what \in Deletions /\ deleteThread(r, what)
        BY <2>3 DEF deleteThread, requireThread
    <2> QED
        BY <1>2, <2>1, <2>2, <2>3
<1> QED
    BY <1>4, <1>5, <1>6, <1>7 DEF AcceptedAs

(* A restart rewrites the row r. *)
Requeued(r) ==
    /\ runs'[r].state = "queued" /\ runs'[r].phase = "recovery_pending"
    /\ runs[r].state \in ACTIVE \cup {"failed", "needs_attention", "timed_out"}
    /\ ~isDelete(r) /\ thread.mapped /\ ~isDeleted(thread)
    /\ thread'.state = "running" /\ thread'.deletedAt = thread.deletedAt

GivenUp(r) ==
    /\ runs[r].state \in ACTIVE
    /\ runs'[r].state \in {"cancelled", "interrupted", "needs_attention"}
    /\ runs'[r].phase = "other"
    /\ thread'.state \notin {"running", "delete_pending", "provisioning"}
    /\ ~isDeleted(thread) => thread'.deletedAt = thread.deletedAt /\ thread'.state \notin DELETED
    /\ isDeleted(thread) => thread'.deletedAt

Rewritten(r) ==
    /\ life = "starting"
    /\ UNCHANGED <<request, remote, process, exec>>
    /\ r \in Accepted /\ RowWritten(r) /\ runs'[r].sub = runs[r].sub
    /\ thread' \in ThreadRecords /\ thread'.mapped = thread.mapped
    /\ thread'.remoteDeletedAt = thread.remoteDeletedAt
    /\ Requeued(r) \/ GivenUp(r)

(* What every transaction of a restart does.                               *)
LEMMA ReconcileEffects ==
    ASSUME TypeOK, Reconcile
    PROVE  \E r \in Runs : Rewritten(r)
<1>1. PICK r \in Runs : RequeueRecoverable(r) \/ ReconcileActive(r)
    BY DEF Reconcile
<1>2. life = "starting" /\ UNCHANGED <<request, remote, process, exec>>
    BY <1>1 DEF RequeueRecoverable, ReconcileActive
<1>3. CASE RequeueRecoverable(r)
    <2>1. /\ r \in Accepted /\ isRecoverable(runs[r], operationType(r), thread)
          /\ runs' = [runs EXCEPT ![r] = requeueForRecovery(runs[r])]
          /\ thread' = setState(thread, "running")
        BY <1>3 DEF RequeueRecoverable, Recoverable
    <2>2. runs[r] \in RunRecords
        BY <2>1, RowTypes DEF TypeOK, Accepted
    <2>3. /\ RowWritten(r) /\ runs'[r].sub = runs[r].sub
          /\ runs'[r].state = "queued" /\ runs'[r].phase = "recovery_pending"
        <3> DEFINE row == requeueForRecovery(runs[r])
        <3>1. /\ row \in RunRecords /\ row.state = "queued"
              /\ row.phase = "recovery_pending" /\ row.sub = runs[r].sub
            BY <2>2, RequeueType
        <3>2. runs' = [runs EXCEPT ![r] = row]
            BY <2>1
        <3> HIDE DEF row
        <3> QED
            BY <3>1, <3>2 DEF RowWritten, TypeOK, RunRows
    <2>4. /\ thread' \in ThreadRecords /\ thread'.mapped = thread.mapped
          /\ thread'.remoteDeletedAt = thread.remoteDeletedAt
          /\ thread'.state = "running" /\ thread'.deletedAt = thread.deletedAt
        BY <2>1, LivingMark DEF TypeOK, THREAD_STATES, DELETED
    <2>5. /\ ~isDelete(r) /\ thread.mapped /\ ~isDeleted(thread)
          /\ runs[r].state \in {"failed", "needs_attention", "timed_out"}
        BY <2>1 DEF isRecoverable, operationType
    <2>6. Requeued(r)
        BY <2>3, <2>4, <2>5 DEF Requeued
    <2> QED
        BY <1>2, <2>1, <2>3, <2>4, <2>6 DEF Rewritten
<1>4. CASE ReconcileActive(r)
    <2> DEFINE op == operationType(r)
               row == reconciledRun(runs[r], op, thread)
               t == reconciledThread(runs[r], op, thread)
    <2>1. /\ runs[r].state \in ACTIVE
          /\ runs' = [runs EXCEPT ![r] = row] /\ thread' = t
        BY <1>4 DEF ReconcileActive, ActiveRuns, isActiveRunState
    <2>2. runs[r] \in RunRecords /\ r \in Accepted
        BY <2>1, RowTypes DEF TypeOK, Accepted, ACTIVE
    <2>3. /\ op \in {"create_thread", "send_message", "delete_thread"}
          /\ op # "delete_thread" => ~isDelete(r)
        BY DEF operationType, isDelete, TypeOK, AllRequests
    <2>4. thread \in ThreadRecords
        BY DEF TypeOK
    <2>5. /\ row \in RunRecords /\ row.sub = runs[r].sub
          /\ \/ /\ row.state = "queued" /\ row.phase = "recovery_pending"
                /\ op # "delete_thread" /\ thread.mapped /\ ~isDeleted(thread)
                /\ t.state = "running"
             \/ /\ row.state \in {"cancelled", "interrupted", "needs_attention"}
                /\ row.phase = "other"
                /\ t.state \notin {"running", "delete_pending", "provisioning"}
          /\ t \in ThreadRecords /\ t.mapped = thread.mapped
          /\ t.remoteDeletedAt = thread.remoteDeletedAt
          /\ ~isDeleted(thread) => t.deletedAt = thread.deletedAt /\ t.state \notin DELETED
          /\ isDeleted(thread) => t.deletedAt
        <3>1. ReconciledTo(runs[r], op, thread, row, t)
            BY <2>2, <2>3, <2>4, ReconciledType
        <3> HIDE DEF op, row, t
        <3> QED
            BY <3>1 DEF ReconciledTo
    <2> HIDE DEF op, row, t
    <2>6. RowWritten(r) /\ runs'[r] = row
        BY <2>1, <2>5 DEF RowWritten, TypeOK, RunRows
    <2>7. Requeued(r) \/ GivenUp(r)
        BY <2>1, <2>3, <2>5, <2>6 DEF Requeued, GivenUp
    <2> QED
        BY <1>2, <2>1, <2>2, <2>5, <2>6, <2>7 DEF Rewritten
<1> QED
    BY <1>1, <1>3, <1>4

(* What a claim reads and writes.                                          *)
LEMMA ClaimEffects ==
    ASSUME TypeOK, NEW r \in Runs, ClaimRun(r)
    PROVE  /\ life = "up" /\ handler = "none" /\ exec.at = "none"
           /\ UNCHANGED <<request, thread, remote, process>>
           /\ r \in Accepted /\ runs[r].state = "queued"
           /\ \A q \in Runs : runs[q].state = "queued" => r <= q
           /\ RowWritten(r) /\ runs'[r].state = "navigating"
           /\ runs'[r].phase = runs[r].phase /\ runs'[r].sub = runs[r].sub
           /\ exec' \in ExecRecords /\ exec'.run = r /\ exec'.at = "claimed"
<1>1. /\ life = "up" /\ handler = "none" /\ exec.at = "none"
      /\ UNCHANGED <<request, thread, remote, process>>
      /\ runs[r].state = "queued"
      /\ \A q \in Runs : runs[q].state = "queued" => r <= q
    BY DEF ClaimRun, At
<1>2. r \in Accepted /\ runs[r] \in RunRecords
    BY <1>1, RowTypes DEF TypeOK, Accepted
<1>3. /\ RowWritten(r) /\ runs'[r].state = "navigating"
      /\ runs'[r].phase = runs[r].phase /\ runs'[r].sub = runs[r].sub
    <2> DEFINE row == claimQueued(runs[r], runs[r].phase)
    <2>1. runs' = [runs EXCEPT ![r] = row]
        BY DEF ClaimRun
    <2>2. /\ row \in RunRecords /\ row.state = "navigating"
          /\ row.phase = runs[r].phase /\ row.sub = runs[r].sub
        BY <1>2, ClaimType
    <2> HIDE DEF row
    <2> QED
        BY <2>1, <2>2 DEF RowWritten, TypeOK, RunRows
<1>4. exec' \in ExecRecords /\ exec'.run = r /\ exec'.at = "claimed"
    <2>1. exec' = [Idle EXCEPT !.run = r, !.at = "claimed"]
        BY DEF ClaimRun
    <2> QED
        BY <2>1 DEF Idle, NoResult, ExecRecords, ResultRecords, Positions, ResultCodes, ERRORS
<1> QED
    BY <1>1, <1>2, <1>3, <1>4

(* What persisting an outcome reads and writes.                            *)
LEMMA PersistEffects ==
    ASSUME TypeOK, ExecOK, PersistOutcome
    PROVE  /\ life = "up" /\ handler = "none" /\ exec.at = "returned"
           /\ UNCHANGED <<request, thread, remote, process>>
           /\ Run \in Accepted
           /\ RowWritten(Run) /\ runs'[Run].state = exec.result.state
           /\ runs'[Run].phase = "other" /\ runs'[Run].sub = runs[Run].sub
           /\ exec' = Idle
<1>1. /\ life = "up" /\ handler = "none" /\ exec.at = "returned"
      /\ UNCHANGED <<request, thread, remote, process>> /\ exec' = Idle
    BY DEF PersistOutcome, At
<1>2. Run \in Accepted /\ exec.result.state \in Outcomes /\ exec.result.err \in ERRORS
    BY <1>1 DEF ExecOK, Executing, ExecTask
<1> DEFINE state == exec.result.state
           err == exec.result.err
           row == transition(runs[Run], state, "other", "keep", err)
<1>3. runs' = [runs EXCEPT ![Run] = row]
    BY DEF PersistOutcome
<1>4. /\ row \in RunRecords /\ row.state = state
      /\ row.phase = "other" /\ row.sub = runs[Run].sub
    <2>1. runs[Run] \in RunRows
        BY <1>2 DEF TypeOK, Accepted
    <2>2. state \in RUN_STATES \ {"queued"} /\ "other" \in PHASES /\ err \in ERRORS
        BY <1>2 DEF Outcomes, RUN_STATES, PHASES
    <2> HIDE DEF state, err
    <2> QED
        BY <2>1, <2>2, TransitionType
<1> HIDE DEF row
<1> QED
    BY <1>1, <1>2, <1>3, <1>4 DEF RowWritten, TypeOK, RunRows, Accepted

(* The executor without a run.                                             *)
LEMMA IdleType == Idle \in ExecRecords /\ Idle.run = 0 /\ Idle.at = "none"
BY DEF Idle, NoResult, ExecRecords, ResultRecords, Positions, ResultCodes, ERRORS

-----------------------------------------------------------------------------
USE DEF store, remote, process

(* TypeOK is preserved, kind by kind.                                      *)
LEMMA TypeStep ==
    ASSUME Shape, Next
    PROVE  TypeOK'
<1> USE DEF Shape
<1>1. CASE Api
    <2>1. PICK r \in Runs, what \in {"create_thread", "send_message"} \cup Deletions :
              AcceptedAs(r, what)
        BY <1>1, ApiEffects
    <2> QED
        BY <2>1 DEF AcceptedAs, RowWritten, TypeOK
<1>2. CASE FinishHandler
    <2>1. PICK s \in {"running", "delete_pending"} : thread' = setState(thread, s)
        BY <1>2 DEF FinishHandler
    <2>2. thread' \in ThreadRecords
        BY <2>1, LivingMark DEF TypeOK, THREAD_STATES, DELETED
    <2> QED
        BY <1>2, <2>2 DEF FinishHandler, TypeOK
<1>3. CASE Exit
    BY <1>3, IdleType DEF Exit, TypeOK
<1>4. CASE EnterStart \/ LeaveStart
    BY <1>4 DEF EnterStart, LeaveStart, TypeOK
<1>5. CASE Reconcile
    <2>1. PICK r \in Runs : Rewritten(r)
        BY <1>5, ReconcileEffects
    <2> QED
        BY <2>1 DEF Rewritten, RowWritten, TypeOK
<1>6. CASE \E r \in Runs : ClaimRun(r)
    BY <1>6, ClaimEffects DEF RowWritten, TypeOK
<1>7. CASE conversationIdentified
    BY <1>7, MappingType DEF conversationIdentified, TypeOK
<1>8. CASE ActsOnPage
    <2>1. UNCHANGED <<store, process>> /\ exec' \in ExecRecords
        BY <1>8, PageEffects
    <2>2. conv' \in {"none", "exists", "deleted"} /\ posted' \in [Runs -> Nat]
          /\ latestTurn' \in Runs \cup {0} /\ clicked' \in [Runs -> Nat]
        <3>1. CASE UNCHANGED remote
            BY <3>1 DEF TypeOK
        <3>2. CASE exec.at = "adapter" /\ post
            BY <3>2 DEF post, TypeOK, ExecOK, Executing, Accepted
        <3>3. CASE /\ exec.at = "deleting" /\ conv' \in {"exists", "deleted"}
                   /\ UNCHANGED <<posted, latestTurn>>
                   /\ clicked' = [clicked EXCEPT ![Run] = @ + 1]
            BY <3>3 DEF TypeOK, ExecOK, Executing, Accepted
        <3> QED
            BY <1>8, <3>1, <3>2, <3>3, PageEffects
    <2> QED
        BY <2>1, <2>2 DEF TypeOK
<1>9. CASE Progresses
    <2>1. Executing => Run \in Runs
        BY DEF ExecOK, Accepted
    <2>2. /\ UNCHANGED <<request, remote, process>> /\ exec' \in ExecRecords /\ RowWritten(Run)
          /\ thread' = thread \/ markThreadRunning
        BY <1>9, <2>1, ProgressEffects DEF Executing
    <2>3. thread' \in ThreadRecords
        BY <2>2, LivingMark
           DEF markThreadRunning, setStateUnlessDeletePending, TypeOK, THREAD_STATES, DELETED
    <2> QED
        BY <2>2, <2>3 DEF RowWritten, TypeOK
<1>10. CASE Concludes
    <2>1. Concluded
        BY <1>10, ConclusionEffects
    <2> QED
        BY <2>1 DEF Concluded, RowWritten, TypeOK
<1>11. CASE PersistOutcome
    BY <1>11, PersistEffects, IdleType DEF RowWritten, TypeOK
<1> QED
    BY <1>1, <1>2, <1>3, <1>4, <1>5, <1>6, <1>7, <1>8, <1>9, <1>10, <1>11, StepKinds

(* ExecOK is preserved: the position of the executor agrees with the row.  *)
LEMMA ExecStep ==
    ASSUME Shape, Next
    PROVE  ExecOK'
<1> USE DEF Shape
<1>0. TypeOK' /\ (Executing => Run \in Runs)
    BY TypeStep DEF ExecOK, Accepted
<1>1. CASE Api
    <2>1. PICK r \in Runs, what \in {"create_thread", "send_message"} \cup Deletions :
              AcceptedAs(r, what)
        BY <1>1, ApiEffects
    <2>2. Executing => Run # r
        BY <2>1 DEF AcceptedAs, IsNext, ExecOK
    <2> QED
        BY <2>1, <2>2, RowTypes DEF AcceptedAs, RowWritten, ExecOK, Executing, ExecState, ExecTask,
              Accepted, Run, isDelete, TypeOK
<1>2. CASE FinishHandler
    <2>1. thread'.mapped = thread.mapped
        BY <1>2, ThreadTypes DEF FinishHandler, TypeOK, THREAD_STATES
    <2> QED
        BY <1>2, <2>1 DEF FinishHandler, ExecOK, Executing, ExecState, ExecTask, Accepted, Run, isDelete
<1>3. CASE Exit
    BY <1>3, IdleType DEF Exit, ExecOK, Executing, Run
<1>4. CASE EnterStart \/ LeaveStart
    BY <1>4 DEF EnterStart, LeaveStart, ExecOK, Executing, Run
<1>5. CASE Reconcile
    <2>1. life = "starting" /\ UNCHANGED <<process, exec>>
        BY <1>5, ReconcileEffects DEF Rewritten
    <2> QED
        BY <2>1 DEF ExecOK, Executing, Run
<1>6. CASE \E r \in Runs : ClaimRun(r)
    <2>1. PICK r \in Runs : ClaimRun(r)
        BY <1>6
    <2>2. /\ UNCHANGED <<request, thread, remote, process>> /\ life = "up" /\ handler = "none"
          /\ runs'[r] \in RunRecords /\ runs'[r].state = "navigating"
          /\ exec'.run = r /\ exec'.at = "claimed"
        BY <2>1, ClaimEffects DEF RowWritten
    <2> QED
        BY <2>2, RowTypes DEF ExecOK, Executing, ExecState, ExecTask, Accepted, Run, Submitting, Running, ACTIVE
<1>7. CASE conversationIdentified
    <2>1. thread'.mapped /\ UNCHANGED <<runs, request, remote, process, exec>>
        BY <1>7, MappingType DEF conversationIdentified, TypeOK
    <2> QED
        BY <2>1 DEF ExecOK, Executing, ExecState, ExecTask, Accepted, Run, isDelete
<1>8. CASE ActsOnPage
    <2>1. /\ UNCHANGED <<store, process>> /\ life = "up" /\ handler = "none"
          /\ exec'.run = Run
          /\ \/ exec'.at = "submitted" /\ exec.at = "adapter"
             \/ exec'.at = "inspecting" /\ exec.at \in {"adapter", "submitted", "answering"}
             \/ exec'.at = "verifying" /\ exec.at = "deleting"
             \/ /\ exec'.at = "diagnosing"
                /\ \/ exec.at \in {"adapter", "submitted", "answering"}
                      /\ exec'.result.err \in Codes \cup {"submission_ambiguous"}
                   \/ exec.at \in {"inspecting", "deleting", "verifying"}
                      /\ exec'.result.err \in Codes
        BY <1>8, PageEffects
    <2>2. Run \in Accepted /\ ExecState /\ ExecTask
        BY <2>1 DEF ExecOK, Executing
    <2>3. ExecState'
        BY <2>1, <2>2 DEF ExecState, Run, Submitting, Running
    <2>4. ExecTask'
        <3>1. "submission_ambiguous" \notin Codes
            BY DEF Codes
        <3> QED
            BY <2>1, <2>2, <3>1 DEF ExecTask, Run, isDelete
    <2> QED
        BY <2>1, <2>2, <2>3, <2>4 DEF ExecOK, Executing, Run, Accepted
<1>9. CASE Progresses
    <2>1. /\ UNCHANGED <<request, remote, process>> /\ life = "up" /\ handler = "none"
          /\ exec'.run = Run /\ RowWritten(Run) /\ runs'[Run].phase = "other"
          /\ thread' = thread \/ markThreadRunning
          /\ \/ /\ exec.at = "claimed" /\ exec'.at = "inspecting" /\ runs'[Run].state = "running"
                /\ runs[Run].phase = "recovery_pending" /\ thread.mapped
             \/ /\ exec.at = "claimed" /\ exec'.at = "adapter" /\ runs'[Run].state = "submitting"
                /\ ~isDelete(Run)
                /\ request[Run] = "create_thread" \/ thread.mapped
             \/ /\ exec.at = "claimed" /\ exec'.at = "deleting" /\ runs'[Run].state = "running"
                /\ request[Run] = "delete_remote" /\ thread.mapped
             \/ exec.at = "submitted" /\ exec'.at = "answering" /\ runs'[Run].state = "running"
        BY <1>0, <1>9, ProgressEffects DEF Executing
    <2>2. Run \in Accepted /\ ExecState /\ ExecTask
        BY <2>1 DEF ExecOK, Executing
    <2>3. thread'.mapped = thread.mapped
        BY <2>1, LivingMark
           DEF markThreadRunning, setStateUnlessDeletePending, TypeOK, THREAD_STATES, DELETED
    <2>4. ExecState'
        BY <2>1, <2>2 DEF ExecState, Run, Submitting, Running, ACTIVE
    <2>5. ExecTask'
        <3>1. runs[Run].phase = "recovery_pending" => ~isDelete(Run)
            BY <2>2 DEF RowsOK, Accepted
        <3>2. \/ /\ exec'.at \in {"inspecting", "adapter", "answering"} /\ ~isDelete(Run)
                 /\ request[Run] = "send_message" => thread'.mapped
              \/ exec'.at = "deleting" /\ request[Run] = "delete_remote" /\ thread'.mapped
            BY <2>1, <2>2, <2>3, <3>1 DEF ExecTask
        <3>3. exec'.run = Run /\ request' = request
            BY <2>1
        <3> QED
            BY <3>2, <3>3 DEF ExecTask, Run, isDelete
    <2>6. Run' \in Accepted'
        BY <2>1, <2>2, RowTypes DEF RowWritten, Accepted, Run
    <2> QED
        BY <2>1, <2>4, <2>5, <2>6 DEF ExecOK, Executing
<1>10. CASE Concludes
    <2>1. Concluded
        BY <1>10, ConclusionEffects
    <2> QED
        BY <1>0, <2>1, RowTypes DEF Concluded, RowWritten,
            ExecOK, Executing, ExecState, ExecTask, Accepted, Run, isDelete, Submitting, Running, ACTIVE
<1>11. CASE PersistOutcome
    BY <1>11, PersistEffects, IdleType DEF ExecOK, Executing, Run
<1> QED
    BY <1>1, <1>2, <1>3, <1>4, <1>5, <1>6, <1>7, <1>8, <1>9, <1>10, <1>11, StepKinds

(* Writing a row of a run accepts it if it was not accepted, and leaves    *)
(* the others.                                                             *)
LEMMA WrittenRow ==
    ASSUME TypeOK, NEW r \in Runs, RowWritten(r)
    PROVE  /\ Accepted' = Accepted \cup {r}
           /\ \A q \in Runs : q # r => runs'[q] = runs[q]
           /\ runs'[r].state # "absent"
BY RowTypes DEF TypeOK, RowWritten, Accepted

(* The states of a row, by what they mean for the queue.                   *)
LEMMA StatesOf ==
    ASSUME TypeOK, NEW r \in Runs
    PROVE  /\ r \in Accepted <=> runs[r].state # "absent"
           /\ runs[r].state \in {"absent", "queued"} \cup ACTIVE \cup Settled
           /\ runs[r].phase \in {"recovery_pending", "other"}
           /\ runs[r].state \in Settled => runs[r].state \notin {"absent", "queued"} \cup ACTIVE
BY RowTypes DEF TypeOK, Accepted, RUN_STATES, ACTIVE, Settled, COMPLETED, PHASES

(* RowsOK is preserved: runs are accepted in order and executed one by     *)
(* one.                                                                    *)
LEMMA RowsStep ==
    ASSUME Shape, Next
    PROVE  RowsOK'
<1> USE DEF Shape
<1>0. /\ TypeOK' /\ (Executing => Run \in Accepted /\ Run \in Runs)
      /\ Run \in Nat /\ Runs \subseteq Nat
      /\ Executing => life = "up"
    BY TypeStep DEF ExecOK, Accepted, TypeOK, ExecRecords, Run, Runs
<1>1. CASE Api
    <2>1. PICK r \in Runs, what \in {"create_thread", "send_message"} \cup Deletions :
              AcceptedAs(r, what)
        BY <1>1, ApiEffects
    <2>2. /\ Accepted' = Accepted \cup {r} /\ r \notin Accepted
          /\ \A q \in Runs : q < r => q \in Accepted
          /\ \A q \in Runs : q # r => runs'[q] = runs[q] /\ request'[q] = request[q]
          /\ runs'[r] = NewRun /\ request'[r] = what
          /\ what = "create_thread" <=> r = 1
          /\ UNCHANGED <<life, exec, thread>>
        BY <2>1, WrittenRow DEF AcceptedAs, IsNext, Deletions
    <2>3. NewRun.state = "queued" /\ NewRun.phase = "other"
        BY DEF NewRun
    <2>4. \A q \in Runs, p \in Accepted : q < p => q # r
        BY <2>2 DEF RowsOK, Accepted
    <2>5. (\A p, q \in Runs : q \in Accepted /\ p < q => p \in Accepted)'
        BY <1>0, <2>2 DEF RowsOK
    <2>6. (\A q \in Accepted : request[q] = "create_thread" <=> q = 1)'
        BY <2>2 DEF RowsOK, Accepted
    <2>7. (\A q \in Runs : isDelete(q) => runs[q].phase = "other")'
        BY <2>2, <2>3 DEF RowsOK, isDelete
    <2>8. (life = "up" => \A q \in Runs : runs[q].state \in ACTIVE => q = Run)'
        BY <2>2, <2>3 DEF RowsOK, Run, ACTIVE
    <2>9. (Executing => \A q \in Runs : q < Run => runs[q].state \in Settled)'
        BY <1>0, <2>2, <2>4 DEF RowsOK, Executing, Run
    <2> QED
        BY <2>2, <2>5, <2>6, <2>7, <2>8, <2>9 DEF RowsOK
<1>2. ASSUME NEW r \in Runs, r \in Accepted, RowWritten(r), request' = request,
             isDelete(r) => runs'[r].phase = "other",
             life' = "up" => \A q \in Runs : runs[q].state \in ACTIVE => q = r,
             life' = "up" => runs'[r].state \notin ACTIVE \/ exec'.run = r,
             exec'.at # "none" => /\ exec'.run = r
                                  /\ \A q \in Runs : q < r => runs[q].state \in Settled
      PROVE  RowsOK'
    <2>1. /\ Accepted' = Accepted
          /\ \A q \in Runs : q # r => runs'[q] = runs[q]
        BY <1>2, WrittenRow
    <2>2. \A q \in Runs : q < r => q # r
        BY <1>0
    <2>3. (\A q \in Runs : isDelete(q) => runs[q].phase = "other")'
        BY <1>2, <2>1 DEF RowsOK, isDelete
    <2>4. (life = "up" => \A q \in Runs : runs[q].state \in ACTIVE => q = Run)'
        BY <1>2, <2>1 DEF Run
    <2>5. (Executing => \A q \in Runs : q < Run => runs[q].state \in Settled)'
        BY <1>2, <2>1, <2>2 DEF Executing, Run
    <2>6. Accepted' # {}
        BY <1>2, <2>1
    <2> QED
        BY <1>2, <2>1, <2>3, <2>4, <2>5, <2>6 DEF RowsOK
<1>3. ASSUME UNCHANGED <<runs, request>>, exec'.run = Run \/ life' # "up",
             life' = "up" => \A q \in Runs : runs[q].state \in ACTIVE => q = Run,
             exec'.at # "none" => exec'.run = Run /\ exec.at # "none",
             Accepted = {} => thread' = thread /\ handler' = "none"
      PROVE  RowsOK'
    <2>1. Accepted' = Accepted /\ \A q \in Runs : isDelete(q)' = isDelete(q)
        BY <1>3 DEF Accepted, isDelete
    <2>2. (life = "up" => \A q \in Runs : runs[q].state \in ACTIVE => q = Run)'
        BY <1>3 DEF Run
    <2>3. (Executing => \A q \in Runs : q < Run => runs[q].state \in Settled)'
        BY <1>3 DEF RowsOK, Executing, Run
    <2>4. (\A q \in Runs : isDelete(q) => runs[q].phase = "other")'
        BY <1>3 DEF RowsOK, isDelete
    <2> QED
        BY <1>3, <2>1, <2>2, <2>3, <2>4 DEF RowsOK
<1>4. CASE FinishHandler
    BY <1>3, <1>4 DEF FinishHandler, RowsOK, Run
<1>5. CASE Exit
    BY <1>3, <1>5, IdleType DEF Exit
<1>6. CASE EnterStart
    BY <1>0, <1>3, <1>6 DEF EnterStart, RowsOK, ExecOK, Run, Executing
<1>7. CASE LeaveStart
    BY <1>0, <1>3, <1>7 DEF LeaveStart, ActiveRuns, isActiveRunState, RowsOK, ExecOK, Run, Executing
<1>8. CASE Reconcile
    <2>1. PICK r \in Runs : Rewritten(r)
        BY <1>8, ReconcileEffects
    <2>2. ~Executing /\ life' # "up"
        BY <1>0, <2>1 DEF Rewritten
    <2> QED
        BY <1>2, <2>1, <2>2 DEF Rewritten, Requeued, GivenUp, Executing
<1>9. CASE \E r \in Runs : ClaimRun(r)
    <2>1. PICK r \in Runs : ClaimRun(r)
        BY <1>9
    <2>2. /\ life = "up" /\ exec.at = "none" /\ r \in Accepted /\ request' = request
          /\ \A q \in Runs : runs[q].state = "queued" => r <= q
          /\ RowWritten(r) /\ runs'[r].state = "navigating" /\ runs'[r].phase = runs[r].phase
          /\ exec'.run = r /\ exec'.at = "claimed"
        BY <2>1, ClaimEffects
    <2>3. \A q \in Runs : runs[q].state \notin ACTIVE
        <3>1. Run = 0 /\ 0 \notin Runs
            BY <2>2 DEF ExecOK, Executing, Runs
        <3> QED
            BY <2>2, <3>1 DEF RowsOK
    <2>4. \A q \in Runs : q < r => runs[q].state \in Settled
        <3> TAKE q \in Runs
        <3> HAVE q < r
        <3>1. q \in Accepted /\ runs[q].state # "queued"
            BY <1>0, <2>2 DEF RowsOK
        <3> QED
            BY <2>3, <3>1, StatesOf
    <2> QED
        BY <1>2, <2>2, <2>3, <2>4 DEF RowsOK, ACTIVE
<1>10. CASE conversationIdentified
    BY <1>0, <1>3, <1>10 DEF conversationIdentified, RowsOK, Run, Executing, At
<1>11. CASE ActsOnPage
    <2>1. UNCHANGED <<runs, request, thread, life, handler>> /\ exec'.run = Run /\ exec.at # "none"
        BY <1>11, PageEffects
    <2> QED
        BY <1>0, <1>3, <2>1 DEF RowsOK, Executing
<1>12. ASSUME RowWritten(Run), request' = request, exec'.run = Run, exec.at # "none",
              runs'[Run].state \in ACTIVE, runs'[Run].phase = "other", life = "up"
       PROVE  RowsOK'
    BY <1>0, <1>2, <1>12 DEF RowsOK, Executing
<1>13. CASE Progresses
    <2>1. /\ UNCHANGED request /\ exec'.run = Run /\ exec.at # "none" /\ RowWritten(Run)
          /\ runs'[Run].phase = "other" /\ life = "up"
          /\ runs'[Run].state \in {"submitting", "running"}
        BY <1>0, <1>13, ProgressEffects DEF Executing
    <2> QED
        BY <1>12, <2>1 DEF ACTIVE
<1>14. CASE Concludes
    <2>1. Concluded
        BY <1>14, ConclusionEffects
    <2>2. CASE runs' = runs
        BY <1>0, <1>3, <2>1, <2>2 DEF Concluded, RowsOK, Executing
    <2>3. CASE RowWritten(Run) /\ runs'[Run].state \in {"submitting", "running"}
                               /\ runs'[Run].phase = "other"
        BY <1>12, <2>1, <2>3 DEF Concluded, ACTIVE
    <2> QED
        BY <2>1, <2>2, <2>3 DEF Concluded
<1>15. CASE PersistOutcome
    <2>1. /\ exec.at = "returned" /\ life = "up" /\ request' = request /\ Run \in Accepted
          /\ RowWritten(Run) /\ runs'[Run].state = exec.result.state /\ runs'[Run].phase = "other"
          /\ exec'.at = "none"
        BY <1>15, PersistEffects, IdleType
    <2>2. runs'[Run].state \notin ACTIVE
        BY <2>1 DEF ExecOK, Executing, ExecTask, Outcomes, ACTIVE
    <2> QED
        BY <1>0, <1>2, <2>1, <2>2 DEF RowsOK, Executing
<1> QED
    BY <1>1, <1>4, <1>5, <1>6, <1>7, <1>8, <1>9, <1>10, <1>11, <1>13, <1>14, <1>15, StepKinds

(* The shape is an invariant; the parts below are proved upon it.          *)
LEMMA ShapeHolds == Safety => []Shape
<1>1. ASSUME Init PROVE Shape
    <2>1. TypeOK
        BY <1>1, IdleType, RowTypes
           DEF Init, TypeOK, NewThread, ThreadRecords, THREAD_STATES, AllRequests
    <2>2. Accepted = {} /\ \A r \in Runs : runs[r].state = "absent"
        BY <1>1, RowTypes DEF Init, Accepted
    <2> QED
        BY <1>1, <2>1, <2>2, IdleType
           DEF Init, Shape, ExecOK, RowsOK, Executing, Run, isDelete
<1>2. ASSUME Shape, [Next]_vars PROVE Shape'
    <2>1. CASE Next
        BY <1>2, <2>1, TypeStep, ExecStep, RowsStep DEF Shape
    <2>2. CASE UNCHANGED vars
        <3>1. TypeOK'
            BY <1>2, <2>2 DEF vars, Shape, TypeOK
        <3>2. ExecOK'
            BY <1>2, <2>2 DEF vars, Shape, ExecOK, Executing, ExecState, ExecTask, Run, isDelete, Accepted
        <3>3. RowsOK'
            BY <1>2, <2>2 DEF vars, Shape, RowsOK, Executing, Run, isDelete, Accepted
        <3> QED
            BY <3>1, <3>2, <3>3 DEF Shape
    <2> QED
        BY <1>2, <2>1, <2>2
<1> QED
    BY <1>1, <1>2, PTL DEF Safety

-----------------------------------------------------------------------------
(* What has not been handed to ChatGPT: its row was never beyond the claim *)
(* of a first attempt, or the adapter is about to send or to confirm it.   *)
Fresh(r) ==
    \/ runs[r].state \in {"absent", "queued", "navigating"} /\ runs[r].phase = "other"
    \/ exec.at \in {"adapter", "deleting"} /\ r = Run

(* Nothing fresh was posted or confirmed, and nothing later than it.       *)
Unsent ==
    \A r \in Runs :
        /\ posted[r] <= 1 /\ clicked[r] <= 1
        /\ Fresh(r) => posted[r] = 0 /\ clicked[r] = 0 /\ latestTurn < r

(* The one step that sends, and the one that confirms a deletion.          *)
Posts == ActsOnPage /\ exec.at = "adapter" /\ post
Clicks ==
    /\ ActsOnPage /\ exec.at = "deleting"
    /\ clicked' = [clicked EXCEPT ![Run] = @ + 1]

(* Only what is sent or confirmed stops being fresh, and nothing becomes   *)
(* so again.                                                               *)
LEMMA NoneBecomesFresh ==
    ASSUME Shape, Next, ~Posts
    PROVE  /\ \A r \in Runs : Fresh(r)' => Fresh(r)
           /\ UNCHANGED <<posted, latestTurn>>
           /\ UNCHANGED clicked \/ Clicks
<1> USE DEF Shape
<1>1. CASE Api
    <2>1. PICK r \in Runs, what \in {"create_thread", "send_message"} \cup Deletions :
              AcceptedAs(r, what)
        BY <1>1, ApiEffects
    <2>2. /\ runs[r] = NoRun /\ \A q \in Runs : q # r => runs'[q] = runs[q]
          /\ UNCHANGED <<exec, posted, latestTurn, clicked>>
        BY <2>1, WrittenRow DEF AcceptedAs, IsNext, Accepted
    <2>3. NoRun.state = "absent" /\ NoRun.phase = "other"
        BY DEF NoRun, NewRun
    <2> QED
        BY <2>2, <2>3 DEF Fresh, Run
<1>2. CASE FinishHandler \/ Exit \/ EnterStart \/ LeaveStart \/ conversationIdentified
    BY <1>2, IdleType DEF FinishHandler, Exit, EnterStart, LeaveStart, conversationIdentified, Fresh, Run
<1>3. CASE Reconcile
    <2>1. PICK r \in Runs : Rewritten(r)
        BY <1>3, ReconcileEffects
    <2>2. /\ \A q \in Runs : q # r => runs'[q] = runs[q]
          /\ UNCHANGED <<exec, posted, latestTurn, clicked>>
          /\ \/ runs'[r].phase = "recovery_pending"
             \/ runs'[r].state \notin {"absent", "queued", "navigating"}
        BY <2>1, WrittenRow DEF Rewritten, Requeued, GivenUp
    <2>3. exec.at \notin {"adapter", "deleting"}
        BY <2>1 DEF Rewritten, ExecOK, Executing
    <2> QED
        BY <2>2, <2>3 DEF Fresh
<1>4. CASE \E r \in Runs : ClaimRun(r)
    <2>1. PICK r \in Runs : ClaimRun(r)
        BY <1>4
    <2>2. /\ runs[r].state = "queued" /\ runs'[r].phase = runs[r].phase
          /\ RowWritten(r) /\ exec'.at = "claimed"
          /\ UNCHANGED <<posted, latestTurn, clicked>>
        BY <2>1, ClaimEffects
    <2>3. \A q \in Runs : q # r => runs'[q] = runs[q]
        BY <2>2, WrittenRow
    <2> QED
        BY <2>2, <2>3 DEF Fresh
<1>5. CASE ActsOnPage
    <2>1. /\ UNCHANGED <<runs, posted, latestTurn>>
          /\ UNCHANGED clicked \/ Clicks
          /\ exec'.at \notin {"adapter", "deleting"}
        BY <1>5, PageEffects DEF Posts, Clicks
    <2> QED
        BY <2>1 DEF Fresh
<1>6. CASE Progresses
    <2>1. Executing => Run \in Runs
        BY DEF ExecOK, Accepted
    <2>2. /\ UNCHANGED <<posted, latestTurn, clicked>> /\ RowWritten(Run)
          /\ runs'[Run].state \in {"submitting", "running"} /\ exec'.run = Run
          /\ exec'.at \in {"adapter", "deleting"} =>
                 exec.at = "claimed" /\ runs[Run].phase = "other"
          /\ exec.at # "none"
        BY <1>6, <2>1, ProgressEffects DEF Executing
    <2>3. \A q \in Runs : q # Run => runs'[q] = runs[q]
        BY <2>1, <2>2, WrittenRow DEF Executing
    <2>4. exec.at = "claimed" => runs[Run].state = "navigating"
        BY DEF ExecOK, Executing, ExecState
    <2> QED
        BY <2>2, <2>3, <2>4 DEF Fresh, Run
<1>7. CASE Concludes
    <2>1. Concluded
        BY <1>7, ConclusionEffects
    <2>2. CASE runs' = runs
        BY <2>1, <2>2 DEF Concluded, Fresh
    <2>3. CASE RowWritten(Run) /\ runs'[Run].state \in {"submitting", "running"}
        <3>1. \A q \in Runs : q # Run => runs'[q] = runs[q]
            BY <2>1, <2>3, WrittenRow DEF Concluded, ExecOK, Executing, Accepted
        <3> QED
            BY <2>1, <2>3, <3>1 DEF Concluded, Fresh
    <2> QED
        BY <2>1, <2>2, <2>3 DEF Concluded
<1>8. CASE PersistOutcome
    <2>1. /\ exec.at = "returned" /\ RowWritten(Run) /\ runs'[Run].state = exec.result.state
          /\ Run \in Accepted /\ exec'.at = "none"
          /\ UNCHANGED <<posted, latestTurn, clicked>>
        BY <1>8, PersistEffects, IdleType
    <2>2. runs'[Run].state \notin {"absent", "queued", "navigating"}
        BY <2>1 DEF ExecOK, Executing, ExecTask, Outcomes
    <2>3. \A q \in Runs : q # Run => runs'[q] = runs[q]
        BY <2>1, WrittenRow DEF Accepted
    <2> QED
        BY <2>1, <2>2, <2>3 DEF Fresh
<1> QED
    BY <1>1, <1>2, <1>3, <1>4, <1>5, <1>6, <1>7, <1>8, StepKinds

(* Unsent is preserved: what the adapter sends or confirms is fresh, and   *)
(* older than all that is left.                                            *)
LEMMA UnsentStep ==
    ASSUME Shape, Unsent, Next
    PROVE  Unsent'
<1> USE DEF Shape
<1>1. CASE ~Posts /\ UNCHANGED clicked
    BY <1>1, NoneBecomesFresh DEF Unsent
<1>2. CASE Posts
    <2>1. /\ runs' = runs /\ exec.at = "adapter" /\ exec'.at \notin {"adapter", "deleting"}
          /\ posted' = [posted EXCEPT ![Run] = @ + 1] /\ latestTurn' = Run
          /\ UNCHANGED clicked
        BY <1>2, PageEffects DEF Posts, post
    <2>2. Run \in Runs /\ runs[Run].state = "submitting" /\ posted[Run] = 0
        BY <2>1 DEF ExecOK, Executing, ExecState, Submitting, Accepted, Unsent, Fresh
    <2>3. ASSUME NEW r \in Runs, Fresh(r)'
          PROVE  Fresh(r) /\ Run < r
        <3>1. runs[r].state \in {"absent", "queued", "navigating"} /\ Fresh(r)
            BY <2>1, <2>3 DEF Fresh
        <3>2. r # Run /\ ~(r < Run)
            BY <2>1, <2>2, <3>1, StatesOf DEF RowsOK, Executing, ACTIVE
        <3> QED
            BY <2>2, <3>1, <3>2 DEF Runs
    <2>4. ASSUME NEW r \in Runs
          PROVE  /\ posted'[r] <= 1 /\ clicked'[r] <= 1
                 /\ Fresh(r)' => posted'[r] = 0 /\ clicked'[r] = 0 /\ latestTurn' < r
        <3>1. posted'[r] = IF r = Run THEN 1 ELSE posted[r]
            BY <2>1, <2>2 DEF TypeOK
        <3>2. /\ posted[r] <= 1 /\ clicked'[r] <= 1
              /\ Fresh(r) => posted[r] = 0 /\ clicked'[r] = 0
            BY <2>1 DEF Unsent
        <3>3. CASE r = Run
            BY <2>1, <2>3, <3>1, <3>2, <3>3 DEF Runs
        <3>4. CASE r # Run
            BY <2>1, <2>3, <3>1, <3>2, <3>4
        <3> QED
            BY <3>3, <3>4
    <2> QED
        BY <2>4 DEF Unsent
<1>3. CASE ~Posts /\ Clicks
    <2>1. /\ runs' = runs /\ exec.at = "deleting" /\ exec'.at \notin {"adapter", "deleting"}
          /\ clicked' = [clicked EXCEPT ![Run] = @ + 1]
        BY <1>3, PageEffects DEF Clicks, store
    <2>2. Run \in Runs /\ runs[Run].state = "running" /\ clicked[Run] = 0
        BY <2>1 DEF ExecOK, Executing, ExecState, Running, Accepted, Unsent, Fresh
    <2>3. ASSUME NEW r \in Runs, Fresh(r)' PROVE Fresh(r) /\ r # Run
        BY <2>1, <2>2, <2>3 DEF Fresh
    <2>4. ASSUME NEW r \in Runs
          PROVE  /\ posted'[r] <= 1 /\ clicked'[r] <= 1
                 /\ Fresh(r)' => posted'[r] = 0 /\ clicked'[r] = 0 /\ latestTurn' < r
        <3>1. clicked'[r] = IF r = Run THEN 1 ELSE clicked[r]
            BY <2>1, <2>2 DEF TypeOK
        <3>2. /\ posted'[r] <= 1 /\ clicked[r] <= 1
              /\ Fresh(r) => posted'[r] = 0 /\ clicked[r] = 0 /\ latestTurn' < r
            BY <1>3, NoneBecomesFresh DEF Unsent
        <3> QED
            BY <2>3, <3>1, <3>2
    <2> QED
        BY <2>4 DEF Unsent
<1> QED
    BY <1>1, <1>2, <1>3, NoneBecomesFresh

-----------------------------------------------------------------------------
(* A message that was posted, and a mapping, have their conversation.      *)
Backed ==
    /\ \A r \in Runs : posted[r] > 0 => conv # "none"
    /\ thread.mapped => conv # "none"

(* What a step may do to the conversation and the mapping.                 *)
LEMMA ConversationSteps ==
    ASSUME Shape, Next
    PROVE  /\ thread.mapped => thread'.mapped
           /\ ~thread.mapped /\ thread'.mapped =>
                 Run \in Runs /\ (posted[Run] > 0 \/ conv = "exists")
           /\ \/ UNCHANGED remote
              \/ Posts /\ conv # "deleted" /\ conv' = "exists"
              \/ conv = "exists" /\ conv' # "none" /\ UNCHANGED <<posted, latestTurn>>
<1> USE DEF Shape
<1>1. CASE Api
    BY <1>1, ApiEffects DEF AcceptedAs
<1>2. CASE FinishHandler
    BY <1>2, ThreadTypes DEF FinishHandler, TypeOK, THREAD_STATES
<1>3. CASE Exit \/ EnterStart \/ LeaveStart
    BY <1>3 DEF Exit, EnterStart, LeaveStart
<1>4. CASE Reconcile
    BY <1>4, ReconcileEffects DEF Rewritten
<1>5. CASE \E r \in Runs : ClaimRun(r)
    BY <1>5, ClaimEffects
<1>6. CASE conversationIdentified
    BY <1>6, MappingType DEF conversationIdentified, TypeOK, At, ExecOK, Executing, Accepted
<1>7. CASE ActsOnPage
    BY <1>7, PageEffects DEF Posts, post
<1>8. CASE Progresses
    <2>1. Executing => Run \in Runs
        BY DEF ExecOK, Accepted
    <2>2. UNCHANGED remote /\ (thread' = thread \/ markThreadRunning)
        BY <1>8, <2>1, ProgressEffects DEF Executing
    <2> QED
        BY <2>2, LivingMark
           DEF markThreadRunning, setStateUnlessDeletePending, TypeOK, THREAD_STATES, DELETED
<1>9. CASE Concludes
    <2>1. Concluded
        BY <1>9, ConclusionEffects
    <2>2. UNCHANGED remote /\ Run \in Runs
        BY <2>1 DEF Concluded, ExecOK, Executing, Accepted
    <2> QED
        BY <2>1, <2>2 DEF Concluded, DeletionMark, MessageMark
<1>10. CASE PersistOutcome
    BY <1>10, PersistEffects
<1> QED
    BY <1>1, <1>2, <1>3, <1>4, <1>5, <1>6, <1>7, <1>8, <1>9, <1>10, StepKinds

(* Backed is preserved.                                                    *)
LEMMA BackedStep ==
    ASSUME Shape, Backed, Next
    PROVE  Backed'
<1>1. (thread.mapped => thread'.mapped) /\ (conv # "none" => conv' # "none")
    BY ConversationSteps DEF Posts
<1>2. thread'.mapped => conv' # "none"
    BY <1>1, ConversationSteps DEF Backed
<1>3. ASSUME NEW r \in Runs, posted'[r] > 0 PROVE conv' # "none"
    BY <1>1, <1>3, ConversationSteps DEF Backed
<1> QED
    BY <1>2, <1>3 DEF Backed

-----------------------------------------------------------------------------
(* A creation that ended without a mapping is never taken up again, and    *)
(* no message of its thread can be sent.                                   *)
CreationOver == 1 \in Runs /\ runs[1].state \in Settled /\ ~thread.mapped

(* The run in execution is active, and a deletion has the creation behind  *)
(* it.                                                                     *)
LEMMA ExecutedRun ==
    ASSUME Shape, Executing
    PROVE  /\ Run \in Accepted /\ Run \in Runs /\ runs[Run].state \in ACTIVE
           /\ isDelete(Run) => 1 \in Runs /\ runs[1].state \in Settled
<1>1. Run \in Accepted /\ Run \in Runs /\ runs[Run].state \in ACTIVE
    BY DEF Shape, ExecOK, ExecState, Accepted
<1>2. ASSUME isDelete(Run) PROVE 1 \in Runs /\ runs[1].state \in Settled
    <2>1. Run # 1 /\ 1 \in Runs /\ 1 < Run
        <3>1. request[Run] # "create_thread"
            BY <1>2 DEF isDelete
        <3>2. Run # 1
            BY <1>1, <3>1 DEF Shape, RowsOK
        <3> QED
            BY <1>1, <3>2, ExecutionAssumptions DEF Runs
    <2> QED
        BY <2>1 DEF Shape, RowsOK
<1> QED
    BY <1>1, <1>2

(* CreationOver is for good.                                               *)
LEMMA CreationStaysOver ==
    ASSUME Shape, Next, CreationOver
    PROVE  /\ CreationOver' /\ runs'[1] = runs[1]
           /\ ~(Executing /\ request[Run] = "create_thread")
           /\ ~Posts
<1> USE DEF Shape
<1>1. /\ 1 \in Runs /\ 1 \in Accepted /\ ~thread.mapped
      /\ runs[1].state \in Settled /\ runs[1].state \notin {"absent", "queued"} \cup ACTIVE
    BY StatesOf DEF CreationOver
<1>2. Executing => Run \in Runs /\ Run # 1 /\ request[Run] # "create_thread"
    BY <1>1, ExecutedRun DEF RowsOK
<1>3. exec.at \notin {"adapter", "submitted", "answering", "inspecting"}
    <2>1. Executing => request[Run] \in {"create_thread", "send_message"} \cup Deletions
        BY <1>2 DEF TypeOK, AllRequests, Deletions
    <2> QED
        BY <1>1, <1>2, <2>1 DEF ExecOK, ExecTask, isDelete, Executing, Deletions
<1>4. ~Posts
    BY <1>3 DEF Posts
<1>5. ~thread'.mapped
    <2>1. ~Completes
        BY <1>3, CompletesAt
    <2>2. CASE Api
        BY <1>1, <2>2, ApiEffects DEF AcceptedAs
    <2>3. CASE FinishHandler
        BY <1>1, <2>3, ThreadTypes DEF FinishHandler, TypeOK, THREAD_STATES
    <2>4. CASE Exit \/ EnterStart \/ LeaveStart
        BY <1>1, <2>4 DEF Exit, EnterStart, LeaveStart
    <2>5. CASE Reconcile
        BY <1>1, <2>5, ReconcileEffects DEF Rewritten
    <2>6. CASE \E r \in Runs : ClaimRun(r)
        BY <1>1, <2>6, ClaimEffects
    <2>7. CASE conversationIdentified
        BY <1>3, <2>7 DEF conversationIdentified, At
    <2>8. CASE ActsOnPage
        BY <1>1, <2>8, PageEffects
    <2>9. CASE Progresses
        <3>1. thread' = thread \/ markThreadRunning
            BY <1>2, <2>9, ProgressEffects DEF Executing
        <3> QED
            BY <1>1, <3>1, LivingMark
               DEF markThreadRunning, setStateUnlessDeletePending, TypeOK, THREAD_STATES, DELETED
    <2>10. CASE Concludes
        BY <1>1, <2>1, <2>10, ConclusionEffects DEF Concluded, DeletionMark, MessageMark
    <2>11. CASE PersistOutcome
        BY <1>1, <2>11, PersistEffects
    <2> QED
        BY <2>2, <2>3, <2>4, <2>5, <2>6, <2>7, <2>8, <2>9, <2>10, <2>11, StepKinds
<1>6. runs'[1] = runs[1]
    <2>a. ASSUME NEW r \in Runs, RowWritten(r), r # 1 PROVE runs'[1] = runs[1]
        BY <1>1, <2>a DEF RowWritten
    <2>1. CASE Api
        BY <1>1, <2>a, <2>1, ApiEffects DEF AcceptedAs, IsNext
    <2>2. CASE FinishHandler \/ Exit \/ EnterStart \/ LeaveStart \/ conversationIdentified
        BY <2>2 DEF FinishHandler, Exit, EnterStart, LeaveStart, conversationIdentified
    <2>3. CASE Reconcile
        <3>1. PICK r \in Runs : Rewritten(r)
            BY <2>3, ReconcileEffects
        <3>2. r # 1
            BY <1>1, <3>1 DEF Rewritten, Requeued, GivenUp
        <3> QED
            BY <2>a, <3>1, <3>2 DEF Rewritten
    <2>4. CASE \E r \in Runs : ClaimRun(r)
        BY <1>1, <2>a, <2>4, ClaimEffects
    <2>5. CASE ActsOnPage
        BY <2>5, PageEffects
    <2>6. CASE Progresses
        BY <1>2, <2>a, <2>6, ProgressEffects DEF Executing
    <2>7. CASE Concludes
        BY <1>2, <2>a, <2>7, ConclusionEffects DEF Concluded, Executing
    <2>8. CASE PersistOutcome
        BY <1>2, <2>a, <2>8, PersistEffects DEF Executing
    <2> QED
        BY <2>1, <2>2, <2>3, <2>4, <2>5, <2>6, <2>7, <2>8, StepKinds
<1> QED
    BY <1>1, <1>2, <1>4, <1>5, <1>6 DEF CreationOver

(* What is known of a thread that says it is deleted.                      *)
Tombstoned ==
    /\ thread.remoteDeletedAt \/ thread.state \in DELETED => thread.deletedAt
    /\ thread.remoteDeletedAt => \/ conv = "deleted"
                                 \/ CreationOver /\ ~hasPossibleRemoteSideEffect(runs[1])

(* A thread is marked deleted by an executed deletion only; a remote one   *)
(* has seen the conversation absent, or knows that none was submitted.     *)
LEMMA DeletionSteps ==
    ASSUME Shape, Tombstoned, Next
    PROVE  /\ thread'.remoteDeletedAt \/ thread'.state \in DELETED => thread'.deletedAt
           /\ \/ thread'.remoteDeletedAt = thread.remoteDeletedAt
              \/ /\ Executing /\ isDelete(Run) /\ UNCHANGED <<runs, remote>>
                 /\ thread'.mapped = thread.mapped
                 /\ \/ thread.mapped /\ conv # "exists"
                    \/ ~thread.mapped /\ ~uncertainRemoteCreation
           /\ \/ thread'.deletedAt = thread.deletedAt
              \/ thread.deletedAt /\ thread'.deletedAt
              \/ Executing /\ isDelete(Run) /\ UNCHANGED <<runs, request>>
<1> USE DEF Shape
<1>0. thread.remoteDeletedAt \/ thread.state \in DELETED => thread.deletedAt
    BY DEF Tombstoned
<1>a. ASSUME thread' = thread \/ \E s \in THREAD_STATES \ DELETED : thread' = setState(thread, s)
      PROVE  /\ thread'.remoteDeletedAt \/ thread'.state \in DELETED => thread'.deletedAt
             /\ thread'.remoteDeletedAt = thread.remoteDeletedAt
             /\ thread'.deletedAt = thread.deletedAt
    BY <1>0, <1>a, LivingMark DEF TypeOK
<1>1. CASE Api
    BY <1>a, <1>1, ApiEffects DEF AcceptedAs
<1>2. CASE FinishHandler
    BY <1>a, <1>2 DEF FinishHandler, THREAD_STATES, DELETED
<1>3. CASE Exit \/ EnterStart \/ LeaveStart
    BY <1>a, <1>3 DEF Exit, EnterStart, LeaveStart
<1>4. CASE Reconcile
    <2>1. PICK r \in Runs : Rewritten(r)
        BY <1>4, ReconcileEffects
    <2>2. isDeleted(thread) <=> thread.deletedAt
        BY <1>0 DEF isDeleted
    <2> QED
        BY <1>0, <2>1, <2>2 DEF Rewritten, Requeued, GivenUp, DELETED
<1>5. CASE \E r \in Runs : ClaimRun(r)
    BY <1>a, <1>5, ClaimEffects
<1>6. CASE conversationIdentified
    BY <1>0, <1>6, MappingType DEF conversationIdentified, TypeOK
<1>7. CASE ActsOnPage
    BY <1>a, <1>7, PageEffects
<1>8. CASE Progresses
    <2>1. Executing => Run \in Runs
        BY DEF ExecOK, Accepted
    <2>2. thread' = thread \/ markThreadRunning
        BY <1>8, <2>1, ProgressEffects DEF Executing
    <2> QED
        BY <1>a, <2>2 DEF markThreadRunning, setStateUnlessDeletePending, THREAD_STATES, DELETED
<1>9. CASE Concludes
    <2>1. Concluded
        BY <1>9, ConclusionEffects
    <2>2. CASE isDelete(Run)
        <3>1. DeletionMark /\ Executing /\ UNCHANGED <<request, remote>>
            BY <2>1, <2>2 DEF Concluded, Executing
        <3> QED
            BY <1>0, <2>2, <3>1 DEF DeletionMark, DELETED
    <2>3. CASE ~isDelete(Run)
        <3>1. MessageMark
            BY <2>1, <2>3 DEF Concluded
        <3> QED
            BY <1>0, <3>1 DEF MessageMark, DELETED
    <2> QED
        BY <2>2, <2>3
<1>10. CASE PersistOutcome
    BY <1>a, <1>10, PersistEffects
<1> QED
    BY <1>1, <1>2, <1>3, <1>4, <1>5, <1>6, <1>7, <1>8, <1>9, <1>10, StepKinds

(* Tombstoned is preserved.                                                *)
LEMMA TombstonedStep ==
    ASSUME Shape, Backed, Tombstoned, Next
    PROVE  Tombstoned'
<1>1. ASSUME thread'.remoteDeletedAt
      PROVE  \/ conv' = "deleted"
             \/ CreationOver' /\ ~hasPossibleRemoteSideEffect(runs'[1])
    <2>1. CASE thread.remoteDeletedAt
        <3>1. CASE conv = "deleted"
            BY <3>1, ConversationSteps
        <3>2. CASE CreationOver /\ ~hasPossibleRemoteSideEffect(runs[1])
            BY <3>2, CreationStaysOver DEF hasPossibleRemoteSideEffect
        <3> QED
            BY <2>1, <3>1, <3>2 DEF Tombstoned
    <2>2. CASE ~thread.remoteDeletedAt
        <3>1. /\ Executing /\ isDelete(Run) /\ UNCHANGED <<runs, remote>>
              /\ thread'.mapped = thread.mapped
              /\ \/ thread.mapped /\ conv # "exists"
                 \/ ~thread.mapped /\ ~uncertainRemoteCreation
            BY <1>1, <2>2, DeletionSteps
        <3>2. CASE thread.mapped /\ conv # "exists"
            BY <3>1, <3>2 DEF Backed, Shape, TypeOK
        <3>3. CASE ~thread.mapped /\ ~uncertainRemoteCreation
            <4>1. CreationOver'
                BY <3>1, <3>3, ExecutedRun DEF CreationOver
            <4>2. 1 \in Accepted /\ request[1] = "create_thread"
                BY <3>1, ExecutedRun, StatesOf DEF Shape, RowsOK
            <4>3. ~hasPossibleRemoteSideEffect(runs[1])
                BY <3>3, <4>2 DEF uncertainRemoteCreation
            <4> QED
                BY <3>1, <4>1, <4>3
        <3> QED
            BY <3>1, <3>2, <3>3
    <2> QED
        BY <2>1, <2>2
<1> QED
    BY <1>1, DeletionSteps DEF Tombstoned, hasPossibleRemoteSideEffect

-----------------------------------------------------------------------------
(* The runs that keep the thread busy: a run whose result is known has no  *)
(* say in it any more, though its row is still to be written.              *)
Waiting == IF exec.at = "returned" THEN Pending \ {Run} ELSE Pending

AwaitsDeletion == \E r \in Waiting : isDelete(r)

Busy ==
    /\ thread.state = "running" => Waiting # {}
    /\ thread.state = "delete_pending" => AwaitsDeletion
    /\ handler = "mark_running" => Waiting # {}
    /\ handler = "mark_deleting" => AwaitsDeletion

(* Only a result or a restart can end the wait for a run.                  *)
LEMMA WaitingStays ==
    ASSUME Shape, Next, ~Concludes, ~Reconcile, NEW r \in Waiting
    PROVE  r \in Waiting' /\ (isDelete(r)' <=> isDelete(r))
<1> USE DEF Shape
<1>1. /\ r \in Runs /\ runs[r].state \in {"queued"} \cup ACTIVE /\ r \in Accepted
      /\ exec.at = "returned" => r # Run
    BY StatesOf DEF Waiting, Pending, ACTIVE
<1>2. SUFFICES /\ runs'[r].state \in {"queued"} \cup ACTIVE /\ request'[r] = request[r]
               /\ exec'.at = "returned" => r # exec'.run
    BY <1>1 DEF Waiting, Pending, isDelete, Run
<1>3. CASE Api
    BY <1>1, <1>3, ApiEffects DEF AcceptedAs, IsNext, RowWritten, Run
<1>4. CASE FinishHandler \/ EnterStart \/ LeaveStart \/ conversationIdentified
    BY <1>1, <1>4 DEF FinishHandler, EnterStart, LeaveStart, conversationIdentified, Run
<1>5. CASE Exit
    BY <1>1, <1>5, IdleType DEF Exit
<1>6. CASE \E q \in Runs : ClaimRun(q)
    BY <1>1, <1>6, ClaimEffects DEF RowWritten, ACTIVE
<1>7. CASE ActsOnPage
    BY <1>1, <1>7, PageEffects
<1>8. CASE Progresses
    <2>1. Executing => Run \in Runs
        BY DEF ExecOK, Accepted
    <2> QED
        BY <1>1, <1>8, <2>1, ProgressEffects DEF Executing, RowWritten, ACTIVE
<1>9. CASE PersistOutcome
    BY <1>1, <1>9, PersistEffects, IdleType DEF RowWritten
<1> QED
    BY <1>3, <1>4, <1>5, <1>6, <1>7, <1>8, <1>9, StepKinds

(* Busy is preserved.                                                      *)
LEMMA BusyStep ==
    ASSUME Shape, Busy, Next
    PROVE  Busy'
<1> USE DEF Shape
<1>1. CASE Concludes
    <2>1. Concluded /\ Executing
        BY <1>1, ConclusionEffects DEF Concluded, Executing
    <2>2. /\ exec'.at = "returned" /\ exec'.run = Run /\ handler' = "none"
          /\ request' = request /\ Run \in Runs /\ runs[Run].state \in ACTIVE
        BY <2>1, ExecutedRun DEF Concluded
    <2>3. ASSUME NEW r \in Pending, r # Run PROVE r \in Waiting' /\ (isDelete(r)' <=> isDelete(r))
        BY <2>1, <2>2, <2>3 DEF Concluded, RowWritten, Waiting, Pending, Run, isDelete
    <2>4. CASE isDelete(Run)
        <3>1. thread'.state \notin {"running", "delete_pending"}
            BY <2>1, <2>4 DEF Concluded, DeletionMark, DELETED
        <3> QED
            BY <2>2, <3>1 DEF Busy
    <2>5. CASE ~isDelete(Run)
        <3>1. /\ thread'.state = "running" => hasPendingRun
              /\ thread'.state = "delete_pending" => thread.state = "delete_pending"
            BY <2>1, <2>5 DEF Concluded, MessageMark
        <3>2. thread'.state = "running" => Waiting' # {}
            BY <2>3, <3>1 DEF hasPendingRun
        <3>3. thread'.state = "delete_pending" => AwaitsDeletion'
            BY <2>3, <2>5, <3>1 DEF Busy, AwaitsDeletion, Waiting
        <3> QED
            BY <2>2, <3>2, <3>3 DEF Busy
    <2> QED
        BY <2>4, <2>5
<1>2. CASE Reconcile
    <2>1. PICK r \in Runs : Rewritten(r)
        BY <1>2, ReconcileEffects
    <2>2. handler' = "none" /\ exec'.at = "none"
        BY <2>1 DEF Rewritten, ExecOK, Executing, TypeOK
    <2>3. CASE Requeued(r)
        BY <2>2, <2>3 DEF Requeued, Busy, Waiting, Pending
    <2>4. CASE GivenUp(r)
        BY <2>2, <2>4 DEF GivenUp, Busy
    <2> QED
        BY <2>1, <2>3, <2>4 DEF Rewritten
<1>3. CASE ~Concludes /\ ~Reconcile
    <2>1. /\ Waiting # {} => Waiting' # {}
          /\ AwaitsDeletion => AwaitsDeletion'
        BY <1>3, WaitingStays DEF AwaitsDeletion
    <2>2. CASE Api
        <3>1. PICK r \in Runs, what \in {"create_thread", "send_message"} \cup Deletions :
                  AcceptedAs(r, what)
            BY <2>2, ApiEffects
        <3>2. r # Run
            BY <3>1 DEF AcceptedAs, IsNext, ExecOK, Executing
        <3>3. r \in Waiting' /\ (what \in Deletions => isDelete(r)')
            BY <3>1, <3>2 DEF AcceptedAs, Waiting, Pending, NewRun, Run, isDelete, Deletions
        <3>4. /\ handler' \in {"none", "mark_running", "mark_deleting"}
              /\ handler' = "mark_deleting" => what \in Deletions
              /\ thread' = thread
            BY <3>1 DEF AcceptedAs
        <3> QED
            BY <2>1, <3>3, <3>4 DEF Busy, AwaitsDeletion
    <2>3. CASE FinishHandler
        <3>1. /\ handler' = "none"
              /\ \/ handler = "mark_running" /\ thread'.state = "running"
                 \/ handler = "mark_deleting" /\ thread'.state = "delete_pending"
            BY <2>3, ThreadTypes DEF FinishHandler, TypeOK, THREAD_STATES
        <3> QED
            BY <2>1, <3>1 DEF Busy
    <2>4. CASE Progresses
        <3>1. Executing => Run \in Runs
            BY DEF ExecOK, Accepted
        <3>2. /\ exec'.at # "returned" /\ Run \in Runs /\ runs'[Run].state \in ACTIVE
              /\ handler' = "none"
            BY <2>4, <3>1, ProgressEffects DEF Executing, ACTIVE
        <3>3. Waiting' # {}
            BY <3>2 DEF Waiting, Pending
        <3>4. thread' = thread \/ thread'.state = "running"
            BY <2>4, <3>1, ProgressEffects, ThreadTypes
               DEF Executing, markThreadRunning, setStateUnlessDeletePending, TypeOK, THREAD_STATES
        <3> QED
            BY <2>1, <3>2, <3>3, <3>4 DEF Busy
    <2>5. ASSUME thread'.state = thread.state, handler' = handler \/ handler' = "none"
          PROVE  Busy'
        BY <2>1, <2>5 DEF Busy
    <2>6. CASE Exit \/ EnterStart \/ LeaveStart
        BY <2>5, <2>6 DEF Exit, EnterStart, LeaveStart
    <2>7. CASE conversationIdentified
        BY <2>5, <2>7, MappingType DEF conversationIdentified, TypeOK
    <2>8. CASE \E r \in Runs : ClaimRun(r)
        BY <2>5, <2>8, ClaimEffects
    <2>9. CASE ActsOnPage
        BY <2>5, <2>9, PageEffects
    <2>10. CASE PersistOutcome
        BY <2>5, <2>10, PersistEffects
    <2> QED
        BY <1>3, <2>2, <2>3, <2>4, <2>6, <2>7, <2>8, <2>9, <2>10, StepKinds
<1> QED
    BY <1>1, <1>2, <1>3

-----------------------------------------------------------------------------
(* While the process has never exited, a deletion is the last word of its  *)
(* thread: messages come before it and are not sent once it is carried out.*)
Deletes == {r \in Accepted : isDelete(r)}
Messages == {r \in Pending : ~isDelete(r)}

(* What a message still waiting behind its deletion finds.                 *)
DoomedOrUnsendable ==
    thread.state = "delete_pending" \/ (thread.state = "orphaned" /\ CreationOver)

DeletionIsLast ==
    /\ \A r \in Runs : runs[r].phase = "other"
    /\ life # "up" => Accepted = {}
    /\ \A d \in Deletes, r \in Accepted \ Deletes : r < d
    /\ Deletes # {} => handler # "mark_running"
    /\ Deletes # {} /\ handler = "none" => ~assertMutableThread
    /\ Deletes # {} /\ handler = "none" /\ Messages # {} => DoomedOrUnsendable
    /\ thread.deletedAt => Messages = {}

LastWords == exits = 0 => DeletionIsLast

(* Other steps accept nothing and bring no settled run back.               *)
LEMMA QuietSteps ==
    ASSUME Shape, Next, ~Api, ~Reconcile
    PROVE  request' = request /\ Accepted' = Accepted /\ Pending' \subseteq Pending
<1> USE DEF Shape
<1>a. ASSUME RowWritten(Run), Run \in Accepted, runs[Run].state \in {"queued"} \cup ACTIVE
      PROVE  Accepted' = Accepted /\ Pending' \subseteq Pending
    <2>1. Run \in Runs
        BY <1>a DEF Accepted
    <2> QED
        BY <1>a, <2>1, WrittenRow DEF Pending
<1>b. ASSUME Executing PROVE Run \in Accepted /\ Run \in Runs /\ runs[Run].state \in ACTIVE
    BY <1>b, ExecutedRun
<1>1. CASE FinishHandler \/ Exit \/ EnterStart \/ LeaveStart \/ conversationIdentified \/ ActsOnPage
    <2>1. runs' = runs /\ request' = request
        BY <1>1, PageEffects DEF FinishHandler, Exit, EnterStart, LeaveStart, conversationIdentified
    <2> QED
        BY <2>1 DEF Accepted, Pending
<1>2. CASE \E r \in Runs : ClaimRun(r)
    <2>1. PICK r \in Runs : ClaimRun(r)
        BY <1>2
    <2>2. r \in Accepted /\ runs[r].state = "queued" /\ RowWritten(r) /\ request' = request
        BY <2>1, ClaimEffects
    <2> QED
        BY <2>2, WrittenRow DEF Pending
<1>3. CASE Progresses
    BY <1>a, <1>b, <1>3, ProgressEffects DEF Executing
<1>4. CASE Concludes
    <2>1. Concluded /\ Executing
        BY <1>4, ConclusionEffects DEF Concluded, Executing
    <2> QED
        BY <1>a, <1>b, <2>1 DEF Concluded, Accepted, Pending
<1>5. CASE PersistOutcome
    BY <1>a, <1>b, <1>5, PersistEffects DEF Executing
<1> QED
    BY <1>1, <1>2, <1>3, <1>4, <1>5, StepKinds

(* An accepted request is the latest of its thread.                        *)
LEMMA AcceptedLast ==
    ASSUME Shape, NEW r \in Runs, IsNext(r)
    PROVE  r \notin Accepted /\ \A q \in Accepted : q < r
<1>1. r \notin Accepted
    BY DEF IsNext
<1>2. ASSUME NEW q \in Accepted PROVE q < r
    <2>1. q \in Runs /\ q # r /\ ~(r < q)
        BY <1>1, <1>2 DEF Accepted, Shape, RowsOK
    <2> QED
        BY <2>1 DEF Runs
<1> QED
    BY <1>1, <1>2

(* A handler accepts a message only while no deletion was accepted.        *)
LEMMA AcceptanceKeepsLast ==
    ASSUME Shape, Tombstoned, DeletionIsLast, Api
    PROVE  DeletionIsLast'
<1> USE DEF Shape
<1>1. PICK r \in Runs, what \in {"create_thread", "send_message"} \cup Deletions :
          AcceptedAs(r, what)
    BY ApiEffects
<1>2. /\ life' = "up" /\ handler = "none" /\ thread' = thread
      /\ r \notin Accepted /\ \A q \in Accepted : q < r
      /\ Accepted' = Accepted \cup {r} /\ RowWritten(r) /\ runs'[r].phase = "other"
      /\ request'[r] = what /\ \A q \in Runs \ {r} : request'[q] = request[q]
    BY <1>1, AcceptedLast, WrittenRow DEF AcceptedAs, NewRun
<1>3. \A q \in Runs : runs'[q].phase = "other"
    BY <1>2 DEF RowWritten, DeletionIsLast
<1>4. ~thread.deletedAt
    <2>1. r = 1 => Accepted = {}
        BY <1>2 DEF Accepted, Runs
    <2> QED
        BY <1>1, <2>1 DEF AcceptedAs, RowsOK, NewThread
<1>5. CASE what \in Deletions
    <2>1. Deletes' = Deletes \cup {r}
        BY <1>2, <1>5 DEF Deletes, Accepted, isDelete, Deletions
    <2>2. (Accepted \ Deletes)' = Accepted \ Deletes
        BY <1>2, <2>1 DEF Deletes
    <2>3. handler' = "mark_deleting"
        BY <1>1, <1>4, <1>5 DEF AcceptedAs, Tombstoned, Deletions
    <2> QED
        BY <1>2, <1>3, <1>4, <2>1, <2>2, <2>3 DEF DeletionIsLast
<1>6. CASE what \notin Deletions
    <2>1. Deletes = {}
        <3>1. CASE r = 1
            BY <1>2, <3>1 DEF Accepted, Runs, Deletes
        <3>2. CASE assertMutableThread
            BY <1>2, <3>2 DEF DeletionIsLast
        <3> QED
            BY <1>1, <1>6, <3>1, <3>2 DEF AcceptedAs, Deletions
    <2>2. Deletes' = {}
        BY <1>2, <1>6, <2>1 DEF Deletes, Accepted, isDelete, Deletions
    <2> QED
        BY <1>2, <1>3, <1>4, <2>2 DEF DeletionIsLast
<1> QED
    BY <1>5, <1>6

(* A message in execution is one of those a deletion has to wait for, ...  *)
LEMMA ExecutedMessage ==
    ASSUME Shape, DeletionIsLast, Executing, ~isDelete(Run), Deletes # {}, handler = "none"
    PROVE  /\ ~thread.deletedAt /\ DoomedOrUnsendable
           /\ thread.state # "delete_pending" => exec.at \in {"claimed", "returned"}
<1>1. Run \in Messages /\ Run \in Runs /\ Run \in Accepted
    BY ExecutedRun DEF Messages, Pending
<1>2. ~thread.deletedAt /\ DoomedOrUnsendable
    BY <1>1 DEF DeletionIsLast
<1>3. ASSUME thread.state # "delete_pending" PROVE exec.at \in {"claimed", "returned"}
    <2>1. /\ 1 \in Accepted /\ ~thread.mapped /\ Run # 1
        BY <1>1, <1>2, <1>3, StatesOf, ExecutedRun DEF DoomedOrUnsendable, CreationOver, Shape
    <2>2. request[Run] = "send_message"
        BY <1>1, <2>1 DEF Shape, RowsOK, TypeOK, AllRequests, isDelete
    <2>3. exec.at \notin {"adapter", "submitted", "answering", "inspecting", "diagnosing",
                         "deleting", "verifying"}
        BY <2>1, <2>2 DEF Shape, ExecOK, ExecTask
    <2> QED
        BY <2>3 DEF Shape, TypeOK, ExecRecords, Positions, Executing
<1> QED
    BY <1>2, <1>3

(* ... and a deletion in execution has no message left behind it.          *)
LEMMA ExecutedDeletion ==
    ASSUME Shape, DeletionIsLast, Executing, isDelete(Run)
    PROVE  Messages = {}
<1>1. Run \in Deletes
    BY ExecutedRun DEF Deletes
<1>2. ASSUME NEW r \in Messages PROVE FALSE
    <2>1. r \in Runs /\ r \in Accepted \ Deletes /\ runs[r].state \in {"queued"} \cup ACTIVE
        BY <1>2, StatesOf DEF Messages, Pending, Deletes, Shape, ACTIVE
    <2>2. r < Run
        BY <1>1, <2>1 DEF DeletionIsLast
    <2> QED
        BY <2>1, <2>2, StatesOf DEF Shape, RowsOK
<1> QED
    BY <1>2

(* LastWords is preserved.                                                 *)
LEMMA LastWordsStep ==
    ASSUME Shape, Tombstoned, LastWords, Next
    PROVE  LastWords'
<1> USE DEF Shape
<1> SUFFICES ASSUME exits' = 0 PROVE DeletionIsLast'
    BY DEF LastWords
<1>0. CASE Exit
    BY <1>0 DEF Exit, TypeOK
<1>1. ASSUME ~Exit PROVE exits' = exits /\ DeletionIsLast
    <2>1. exits' = exits
        <3>1. CASE Api
            BY <3>1, ApiEffects DEF AcceptedAs
        <3>2. CASE FinishHandler \/ EnterStart \/ LeaveStart \/ conversationIdentified
            BY <3>2 DEF FinishHandler, EnterStart, LeaveStart, conversationIdentified, process
        <3>3. CASE Reconcile
            BY <3>3, ReconcileEffects DEF Rewritten, process
        <3>4. CASE \E r \in Runs : ClaimRun(r)
            BY <3>4, ClaimEffects DEF process
        <3>5. CASE ActsOnPage
            BY <3>5, PageEffects DEF process
        <3>6. CASE Progresses
            BY <3>6, ExecutedRun, ProgressEffects DEF process, Executing
        <3>7. CASE Concludes
            BY <3>7, ConclusionEffects DEF Concluded, process
        <3>8. CASE PersistOutcome
            BY <3>8, PersistEffects DEF process
        <3> QED
            BY <1>1, <3>1, <3>2, <3>3, <3>4, <3>5, <3>6, <3>7, <3>8, StepKinds
    <2> QED
        BY <2>1 DEF LastWords
<1>2. CASE Api
    BY <1>0, <1>1, <1>2, AcceptanceKeepsLast
<1>3. CASE Reconcile
    <2>1. PICK r \in Runs : Rewritten(r)
        BY <1>3, ReconcileEffects
    <2> QED
        BY <1>0, <1>1, <2>1 DEF Rewritten, DeletionIsLast
<1>4. CASE ~Exit /\ ~Api /\ ~Reconcile
    <2>1. /\ DeletionIsLast /\ request' = request /\ Accepted' = Accepted
          /\ Pending' \subseteq Pending
        BY <1>1, <1>4, QuietSteps
    <2>2. /\ Deletes' = Deletes /\ Messages' \subseteq Messages
          /\ \A d \in Deletes', r \in (Accepted \ Deletes)' : r < d
        BY <2>1 DEF Deletes, Messages, isDelete, DeletionIsLast
    <2>3. CreationOver => CreationOver'
        BY CreationStaysOver
    <2>4. ASSUME /\ \A r \in Runs : runs'[r].phase = "other"
                 /\ life' # "up" => life # "up"
                 /\ thread'.state = thread.state /\ thread'.deletedAt = thread.deletedAt
                 /\ handler' = handler
          PROVE  DeletionIsLast'
        BY <2>1, <2>2, <2>3, <2>4 DEF DeletionIsLast, DoomedOrUnsendable, assertMutableThread
    <2>5. CASE FinishHandler
        <3>1. /\ handler' = "none" /\ life' = life /\ runs' = runs
              /\ \/ handler = "mark_running"
                 \/ handler = "mark_deleting" /\ thread'.state = "delete_pending"
              /\ thread'.deletedAt = thread.deletedAt
            BY <2>5, LivingMark DEF FinishHandler, TypeOK, THREAD_STATES, DELETED
        <3> QED
            BY <2>1, <2>2, <3>1 DEF DeletionIsLast, DoomedOrUnsendable, assertMutableThread
    <2>6. CASE EnterStart \/ LeaveStart
        BY <2>1, <2>4, <2>6 DEF EnterStart, LeaveStart, store, DeletionIsLast
    <2>7. CASE conversationIdentified
        BY <2>1, <2>4, <2>7, MappingType DEF conversationIdentified, TypeOK, process, DeletionIsLast
    <2>8. CASE \E r \in Runs : ClaimRun(r)
        BY <2>1, <2>4, <2>8, ClaimEffects DEF process, RowWritten, DeletionIsLast
    <2>9. CASE ActsOnPage
        BY <2>1, <2>4, <2>9, PageEffects DEF store, process, DeletionIsLast
    <2>10. CASE PersistOutcome
        BY <2>1, <2>4, <2>10, PersistEffects DEF process, RowWritten, DeletionIsLast
    <2>11. CASE Progresses
        <3>1. Executing /\ Run \in Runs
            BY <2>11, ExecutedRun DEF Executing, Progresses, recoverConversation,
                beginSubmission, deleteRemoteMapped, submissionConfirmed, At
        <3>2. /\ RowWritten(Run) /\ runs'[Run].phase = "other"
              /\ life' = life /\ handler' = handler /\ handler = "none"
            BY <2>11, <3>1, ProgressEffects DEF process
        <3>3. \A r \in Runs : runs'[r].phase = "other"
            BY <2>1, <3>2 DEF RowWritten, DeletionIsLast
        <3>4. CASE thread' = thread
            BY <2>4, <3>2, <3>3, <3>4
        <3>5. CASE thread' # thread
            <4>1. /\ exec.at = "claimed" /\ thread.state # "delete_pending" /\ ~isDelete(Run)
                  /\ request[Run] = "create_thread" \/ thread.mapped
                  /\ markThreadRunning
                BY <2>1, <2>11, <3>1, <3>5, ProgressEffects DEF DeletionIsLast
            <4>2. Deletes = {}
                BY <2>1, <3>1, <3>2, <4>1, ExecutedMessage, CreationStaysOver
                   DEF DoomedOrUnsendable, CreationOver
            <4>3. thread'.deletedAt = thread.deletedAt
                BY <4>1, LivingMark
                   DEF markThreadRunning, setStateUnlessDeletePending, TypeOK, THREAD_STATES, DELETED
            <4> QED
                BY <2>1, <2>2, <3>2, <3>3, <4>2, <4>3 DEF DeletionIsLast
        <3> QED
            BY <3>4, <3>5
    <2>12. CASE Concludes
        <3>1. Concluded /\ Executing
            BY <2>12, ConclusionEffects DEF Concluded, Executing
        <3>2. /\ life' = life /\ handler' = handler /\ handler = "none" /\ Run \in Runs
              /\ \A r \in Runs : runs'[r].phase = "other"
            BY <2>1, <3>1, ExecutedRun DEF Concluded, process, RowWritten, DeletionIsLast
        <3>3. CASE isDelete(Run)
            <4>1. Messages' = {}
                BY <2>1, <2>2, <3>1, <3>3, ExecutedDeletion
            <4>2. ~assertMutableThread'
                BY <3>1, <3>3 DEF Concluded, DeletionMark, DELETED, assertMutableThread
            <4> QED
                BY <2>1, <2>2, <3>2, <4>1, <4>2 DEF DeletionIsLast
        <3>4. CASE ~isDelete(Run)
            <4>1. MessageMark
                BY <3>1, <3>4 DEF Concluded
            <4>2. CASE Deletes = {}
                <5>1. ~thread.deletedAt
                    BY <2>1, <3>1, <3>4, ExecutedRun DEF DeletionIsLast, Messages, Pending
                <5> QED
                    BY <2>1, <2>2, <3>2, <4>1, <4>2, <5>1 DEF DeletionIsLast, MessageMark
            <4>3. CASE Deletes # {}
                <5>1. ~thread'.deletedAt
                    BY <2>1, <3>1, <3>2, <3>4, <4>1, <4>3, ExecutedMessage DEF MessageMark
                <5>2. \/ thread'.state = "delete_pending"
                      \/ thread'.state = "orphaned" /\ CreationOver'
                    <6>1. CASE exec.at # "claimed"
                        BY <2>1, <3>1, <3>2, <3>4, <4>1, <4>3, <6>1, ExecutedMessage DEF MessageMark
                    <6>2. CASE exec.at = "claimed"
                        <7>1. /\ thread'.state = "orphaned" /\ request[Run] = "send_message"
                              /\ ~thread'.mapped /\ runs' = runs
                            BY <2>1, <3>2, <4>1, <6>2, CompletesAt DEF MessageMark, DeletionIsLast
                        <7>2. Run # 1
                            BY <3>1, <7>1, ExecutedRun DEF RowsOK
                        <7>3. 1 \in Runs /\ 1 < Run
                            BY <3>2, <7>2, ExecutionAssumptions DEF Runs
                        <7>4. runs[1].state \in Settled
                            BY <3>1, <7>3 DEF RowsOK
                        <7> QED
                            BY <7>1, <7>3, <7>4 DEF CreationOver
                    <6> QED
                        BY <6>1, <6>2
                <5> QED
                    BY <2>1, <2>2, <3>2, <5>1, <5>2
                       DEF DeletionIsLast, DoomedOrUnsendable, assertMutableThread
            <4> QED
                BY <4>2, <4>3
        <3> QED
            BY <3>3, <3>4
    <2> QED
        BY <1>4, <2>5, <2>6, <2>7, <2>8, <2>9, <2>10, <2>11, <2>12, StepKinds
<1> QED
    BY <1>0, <1>2, <1>3, <1>4

-----------------------------------------------------------------------------
(* The strengthening from which every theorem below follows.               *)
ExecutionInv == Shape /\ Unsent /\ Backed /\ Tombstoned /\ Busy /\ LastWords

(* The strengthening is an invariant.                                      *)
LEMMA ExecutionInvHolds == Safety => []ExecutionInv
<1>1. ASSUME Init, Shape
      PROVE  Unsent /\ Backed /\ Tombstoned /\ Busy /\ LastWords
    <2>1. /\ Accepted = {} /\ Pending = {}
          /\ \A r \in Runs : runs[r].state = "absent" /\ runs[r].phase = "other"
        BY <1>1, RowTypes DEF Init, Accepted, Pending, ACTIVE, NoRun, NewRun
    <2>2. Unsent
        BY <1>1, <2>1 DEF Init, Unsent, Runs
    <2>3. Backed
        BY <1>1, <2>1, IdleType DEF Init, Backed, NewThread
    <2>4. Tombstoned
        BY <1>1 DEF Init, Tombstoned, NewThread, DELETED
    <2>5. Busy
        BY <1>1 DEF Init, Busy, NewThread
    <2>6. LastWords
        BY <1>1, <2>1 DEF Init, LastWords, DeletionIsLast, Deletes, Messages, NewThread
    <2> QED
        BY <2>2, <2>3, <2>4, <2>5, <2>6
<1>2. ASSUME ExecutionInv, Shape', [Next]_vars PROVE ExecutionInv'
    <2>1. CASE Next
        BY <1>2, <2>1, UnsentStep, BackedStep, TombstonedStep, BusyStep, LastWordsStep
           DEF ExecutionInv
    <2>2. CASE UNCHANGED vars
        <3>1. Unsent'
            BY <1>2, <2>2 DEF vars, ExecutionInv, Unsent, Fresh, Run
        <3>2. Backed' /\ Tombstoned'
            BY <1>2, <2>2 DEF vars, ExecutionInv, Backed, Tombstoned, CreationOver,
                              Accepted, isDelete, Run
        <3>3. Busy'
            BY <1>2, <2>2 DEF vars, ExecutionInv, Busy, AwaitsDeletion, Waiting, Pending, isDelete, Run
        <3>4. LastWords'
            BY <1>2, <2>2 DEF vars, ExecutionInv, LastWords, DeletionIsLast, Deletes, Messages,
                              DoomedOrUnsendable, CreationOver, assertMutableThread, Accepted,
                              Pending, isDelete
        <3> QED
            BY <1>2, <3>1, <3>2, <3>3, <3>4 DEF ExecutionInv
    <2> QED
        BY <1>2, <2>1, <2>2
<1>3. Init /\ Shape => ExecutionInv
    BY <1>1 DEF ExecutionInv
<1> QED
    BY <1>2, <1>3, ShapeHolds, PTL DEF Safety

(* Every variable keeps its type, whatever the adapter reports and however *)
(* often the process exits (the CHECKs of src/db/migrations.ts).           *)
THEOREM ExecutionTypeOK == Spec => []TypeOK
<1>1. ExecutionInv => TypeOK
    BY DEF ExecutionInv, Shape
<1> QED
    BY <1>1, ExecutionInvHolds, PTL DEF Spec

(* No message reaches ChatGPT twice: the adapter submits in runs that were *)
(* never handed to it, and a run handed over is not fresh again (Unsent).  *)
THEOREM ExecutionNeverPostedTwice == Spec => []NeverPostedTwice
<1>1. ExecutionInv => NeverPostedTwice
    BY DEF ExecutionInv, Unsent, NeverPostedTwice
<1> QED
    BY <1>1, ExecutionInvHolds, PTL DEF Spec

(* No run clicks its deletion twice: only a run that was never beyond its  *)
(* claim gets to the click, and a start queues none of those it finds      *)
(* active again, unless as the recovery of a message (Unsent).             *)
THEOREM ExecutionDeletionConfirmedOnce == Spec => []DeletionConfirmedOnce
<1>1. ExecutionInv => DeletionConfirmedOnce
    BY DEF ExecutionInv, Unsent, DeletionConfirmedOnce
<1> QED
    BY <1>1, ExecutionInvHolds, PTL DEF Spec

(* A conversation whose creation is on record as possibly submitted is not *)
(* declared deleted while it exists (deleteRemoteThread): the creation is  *)
(* the first run, over before a deletion begins, and never taken up again. *)
THEOREM ExecutionUncertainNotDeclaredAbsent == Spec => []UncertainNotDeclaredAbsent
<1>1. ASSUME ExecutionInv PROVE UncertainNotDeclaredAbsent
    <2>1. \A r \in Accepted : request[r] = "create_thread" => r = 1
        BY <1>1 DEF ExecutionInv, Shape, RowsOK
    <2> QED
        BY <1>1, <2>1 DEF ExecutionInv, Tombstoned, UncertainNotDeclaredAbsent
<1> QED
    BY <1>1, ExecutionInvHolds, PTL DEF Spec

(* A thread that says it is busy has a run to wait for: a handler marks it *)
(* after its run is in the table, and the executor leaves it marked only   *)
(* while another run is pending (ProxyService, BrowserRunExecutor).        *)
THEOREM ExecutionBusyMeansPending == Spec => []BusyMeansPending
<1>1. ASSUME ExecutionInv PROVE BusyMeansPending
    BY <1>1 DEF ExecutionInv, Busy, AwaitsDeletion, Waiting, BusyMeansPending
<1> QED
    BY <1>1, ExecutionInvHolds, PTL DEF Spec

(* The messages of a thread arrive in the order of their acceptance.       *)
THEOREM ExecutionPostsInOrder == Spec => PostsInOrder
<1>1. ASSUME ExecutionInv, [Next]_vars
      PROVE  [latestTurn' # latestTurn => latestTurn' > latestTurn]_vars
    <2>1. CASE Next /\ latestTurn' # latestTurn
        <3>1. Posts
            BY <1>1, <2>1, ConversationSteps DEF ExecutionInv
        <3>2. exec.at = "adapter" /\ latestTurn' = Run
            BY <3>1 DEF Posts, post
        <3>3. Run \in Runs /\ Fresh(Run)
            BY <1>1, <3>2, ExecutedRun DEF ExecutionInv, Executing, Fresh
        <3>4. latestTurn < Run
            BY <1>1, <3>3 DEF ExecutionInv, Unsent
        <3> QED
            BY <1>1, <3>2, <3>3, <3>4 DEF ExecutionInv, Shape, TypeOK, Runs
    <2> QED
        BY <1>1, <2>1
<1> QED
    BY <1>1, ExecutionInvHolds, PTL DEF Safety, Spec, PostsInOrder

(* While the process stays up, nothing is sent for a deleted thread: a     *)
(* deletion is carried out after every message accepted before it, and     *)
(* none is accepted behind it (proxy-service.ts: assertMutableThread).     *)
THEOREM ExecutionNothingSentAfterDeletion == Spec => NothingSentAfterDeletion
<1>1. ASSUME ExecutionInv, [Next]_vars
      PROVE  [latestTurn' # latestTurn /\ exits = 0 => ~thread.deletedAt]_vars
    <2>1. CASE Next /\ latestTurn' # latestTurn /\ exits = 0
        <3>1. Posts
            BY <1>1, <2>1, ConversationSteps DEF ExecutionInv
        <3>2. exec.at = "adapter" /\ Executing
            BY <3>1 DEF Posts, Executing
        <3>3. Run \in Messages
            BY <1>1, <3>2, ExecutedRun
               DEF ExecutionInv, Shape, ExecOK, ExecTask, Messages, Pending
        <3> QED
            BY <1>1, <2>1, <3>3 DEF ExecutionInv, LastWords, DeletionIsLast
    <2> QED
        BY <1>1, <2>1
<1> QED
    BY <1>1, ExecutionInvHolds, PTL DEF Safety, Spec, NothingSentAfterDeletion

-----------------------------------------------------------------------------
(* The thread as its queue sees it: the refinement of RunQueueContract.    *)
Stage == [r \in Runs |-> StageOf(runs[r].state)]
AcceptedAt == [r \in Runs |-> IF r \in Accepted THEN r ELSE 0]
Up == life = "up"

(* How the queue reads a state.                                            *)
LEMMA StageValues ==
    ASSUME NEW state
    PROVE  /\ state \in {"queued", "absent"} => StageOf(state) = state
           /\ state \in ACTIVE => StageOf(state) = "active"
           /\ state \in {"failed", "timed_out", "interrupted", "needs_attention"} =>
                 StageOf(state) = "parked"
           /\ state \in {"succeeded", "cancelled"} => StageOf(state) = "final"
           /\ StageOf(state) = "active" => state \in ACTIVE
           /\ StageOf(state) = "queued" => state = "queued"
           /\ StageOf(state) = "absent" => state = "absent"
<1> USE DEF StageOf, isActiveRunState, ACTIVE
<1>1. CASE state \in {"queued", "absent"}
    BY <1>1
<1>2. CASE state \in {"navigating", "submitting", "running"}
    BY <1>2
<1>3. CASE state \in {"succeeded", "cancelled"}
    BY <1>3
<1>4. CASE state \notin {"queued", "absent", "navigating", "submitting", "running",
                        "succeeded", "cancelled"}
    BY <1>4
<1> QED
    BY <1>1, <1>2, <1>3, <1>4

(* A row that is written alone moves its run alone.                        *)
LEMMA StageMoves ==
    ASSUME TypeOK, NEW r \in Runs, RowWritten(r)
    PROVE  Contract!Move(r, StageOf(runs'[r].state))
<1>1. \A q \in Runs : q # r => runs'[q] = runs[q]
    BY WrittenRow
<1> QED
    BY <1>1 DEF Contract!Move

(* A write that leaves the stage of its run, and an unchanged table.       *)
LEMMA StageStays ==
    ASSUME TypeOK,
           \/ runs' = runs
           \/ \E r \in Runs : RowWritten(r) /\ r \in Accepted
                              /\ StageOf(runs'[r].state) = StageOf(runs[r].state)
    PROVE  Stage' = Stage /\ AcceptedAt' = AcceptedAt
<1>1. CASE runs' = runs
    BY <1>1 DEF Stage, AcceptedAt, Accepted
<1>2. CASE \E r \in Runs : RowWritten(r) /\ r \in Accepted
                           /\ StageOf(runs'[r].state) = StageOf(runs[r].state)
    BY <1>2, WrittenRow DEF Stage, AcceptedAt
<1> QED
    BY <1>1, <1>2

(* The runs of a thread are numbered in the order of acceptance, so the    *)
(* number of a run is its rank.                                            *)
LEMMA AcceptedCount ==
    ASSUME Shape, NEW r \in Runs, IsNext(r)
    PROVE  Contract!Cardinality(Runs \ Contract!In("absent")) + 1 = r
<1>1. Accepted = 1..(r - 1)
    <2>1. \A q \in Runs : q < r => q \in Accepted
        BY DEF IsNext
    <2>2. Accepted \subseteq Runs /\ \A q \in Accepted : q < r
        BY AcceptedLast DEF Accepted
    <2>3. ASSUME NEW q \in Accepted PROVE q \in 1..(r - 1)
        BY <2>2, <2>3, ExecutionAssumptions DEF Runs
    <2>4. ASSUME NEW q \in 1..(r - 1) PROVE q \in Accepted
        <3>1. q \in Runs /\ q < r
            BY <2>4, ExecutionAssumptions DEF Runs
        <3> QED
            BY <2>1, <3>1
    <2> QED
        BY <2>3, <2>4
<1>2. Runs \ Contract!In("absent") = Accepted
    <2>1. \A q \in Runs : StageOf(runs[q].state) = "absent" <=> q \notin Accepted
        BY StatesOf, StageValues DEF Shape
    <2> QED
        BY <2>1 DEF Contract!In, Accepted
<1>3. Cardinality(1..(r - 1)) = r - 1
    <2>1. r \in Int /\ r >= 1
        BY ExecutionAssumptions DEF Runs
    <2> QED
        BY <2>1, FS_Interval
<1>4. Contract!Cardinality(Accepted) = Cardinality(Accepted)
    BY DEF Contract!Cardinality, Cardinality
<1>5. r \in Int
    BY ExecutionAssumptions DEF Runs
<1>6. Contract!Cardinality(Runs \ Contract!In("absent")) = Cardinality(Accepted)
    BY <1>2, <1>4
<1>7. Cardinality(Accepted) = r - 1
    BY <1>1, <1>3
<1> QED
    BY <1>5, <1>6, <1>7

(* An acceptance is an Accept of the contract, ...                         *)
LEMMA AcceptRefines ==
    ASSUME Shape, Api
    PROVE  Contract!Next
<1> USE DEF Shape
<1>1. PICK r \in Runs, what \in {"create_thread", "send_message"} \cup Deletions :
          AcceptedAs(r, what)
    BY ApiEffects
<1>2. /\ life = "up" /\ life' = "up" /\ IsNext(r) /\ r \notin Accepted
      /\ RowWritten(r) /\ runs'[r].state = "queued" /\ Accepted' = Accepted \cup {r}
    BY <1>1, AcceptedLast, WrittenRow DEF AcceptedAs, NewRun
<1>3. Contract!Move(r, "queued") /\ StageOf(runs[r].state) = "absent"
    BY <1>2, StageMoves, StageValues, StatesOf
<1>4. AcceptedAt' = [AcceptedAt EXCEPT ![r] = r]
    BY <1>2 DEF AcceptedAt
<1>5. Contract!Accept(r)
    BY <1>2, <1>3, <1>4, AcceptedCount DEF Contract!Accept, AcceptedAt
<1> QED
    BY <1>5 DEF Contract!Next

(* ... a claim a Start, in turn and with nothing active, ...               *)
LEMMA ClaimRefines ==
    ASSUME Shape, NEW r \in Runs, ClaimRun(r)
    PROVE  Contract!Next
<1> USE DEF Shape
<1>1. /\ life = "up" /\ life' = "up" /\ exec.at = "none"
      /\ r \in Accepted /\ runs[r].state = "queued"
      /\ \A q \in Runs : runs[q].state = "queued" => r <= q
      /\ RowWritten(r) /\ runs'[r].state = "navigating"
    BY ClaimEffects DEF process
<1>2. Contract!Move(r, "active") /\ StageOf(runs[r].state) = "queued"
    BY <1>1, StageMoves, StageValues DEF ACTIVE
<1>3. \A q \in Runs : StageOf(runs[q].state) # "active"
    <2>1. Run \notin Runs
        BY <1>1 DEF ExecOK, Executing, Runs
    <2> QED
        BY <1>1, <2>1, StageValues DEF RowsOK
<1>4. Contract!Cardinality(Contract!In("active")) < 1
    <2>1. Contract!In("active") = {}
        BY <1>3 DEF Contract!In
    <2>2. Contract!Cardinality({}) = Cardinality({})
        BY DEF Contract!Cardinality, Cardinality
    <2> QED
        BY <2>1, <2>2, FS_EmptySet
<1>5. \A q \in Runs : StageOf(runs[q].state) = "queued" => AcceptedAt[r] <= AcceptedAt[q]
    <2>1. \A q \in Runs : StageOf(runs[q].state) = "queued" => r <= q /\ q \in Accepted
        BY <1>1, StageValues, StatesOf
    <2> QED
        BY <1>1, <2>1 DEF AcceptedAt
<1>6. AcceptedAt' = AcceptedAt
    <2>1. Accepted' = Accepted
        BY <1>1, WrittenRow
    <2> QED
        BY <2>1 DEF AcceptedAt
<1>7. Contract!Start(r)
    BY <1>1, <1>2, <1>3, <1>4, <1>5, <1>6 DEF Contract!Start, AcceptedAt
<1> QED
    BY <1>7 DEF Contract!Next

(* ... a transaction of a restart a Recover, ...                           *)
LEMMA RestartRefines ==
    ASSUME Shape, Reconcile
    PROVE  Contract!Next
<1> USE DEF Shape
<1>1. PICK r \in Runs : Rewritten(r)
    BY ReconcileEffects
<1>2. /\ life = "starting" /\ life' = "starting" /\ RowWritten(r) /\ Accepted' = Accepted
      /\ Contract!Move(r, StageOf(runs'[r].state))
    BY <1>1, StageMoves, WrittenRow DEF Rewritten, process
<1>3. AcceptedAt' = AcceptedAt
    BY <1>2 DEF AcceptedAt
<1>4. \/ /\ StageOf(runs[r].state) = "active"
         /\ StageOf(runs'[r].state) \in {"queued", "parked", "final"}
      \/ StageOf(runs[r].state) = "parked" /\ StageOf(runs'[r].state) = "queued"
    <2>1. CASE Requeued(r)
        BY <2>1, StageValues DEF Requeued
    <2>2. CASE GivenUp(r)
        BY <2>2, StageValues DEF GivenUp
    <2> QED
        BY <1>1, <2>1, <2>2 DEF Rewritten
<1>5. Contract!Recover(r)
    BY <1>2, <1>3, <1>4 DEF Contract!Recover, AcceptedAt
<1> QED
    BY <1>5 DEF Contract!Next

(* ... and a persisted outcome a Settle.                                   *)
LEMMA SettleRefines ==
    ASSUME Shape, PersistOutcome
    PROVE  Contract!Next
<1> USE DEF Shape
<1>1. /\ life = "up" /\ life' = "up" /\ Executing /\ exec.result.state \in Outcomes
      /\ RowWritten(Run) /\ runs'[Run].state = exec.result.state
      /\ Run \in Accepted /\ Run \in Runs /\ runs[Run].state \in ACTIVE
    BY PersistEffects, ExecutedRun DEF process, Executing, ExecOK, ExecTask
<1>2. /\ Contract!Move(Run, StageOf(runs'[Run].state))
      /\ StageOf(runs[Run].state) = "active"
      /\ StageOf(runs'[Run].state) \in {"parked", "final"}
    BY <1>1, StageMoves, StageValues DEF Outcomes
<1>3. AcceptedAt' = AcceptedAt
    <2>1. Accepted' = Accepted
        BY <1>1, WrittenRow
    <2> QED
        BY <2>1 DEF AcceptedAt
<1>4. Contract!Settle(Run)
    BY <1>1, <1>2, <1>3 DEF Contract!Settle, AcceptedAt
<1> QED
    BY <1>1, <1>4 DEF Contract!Next

(* The executor and the adapter write the row of a run that stays active.  *)
LEMMA ExecutionStutters ==
    ASSUME Shape, \/ FinishHandler \/ conversationIdentified \/ ActsOnPage
                  \/ Progresses \/ Concludes
    PROVE  Stage' = Stage /\ AcceptedAt' = AcceptedAt /\ life' = life
<1> USE DEF Shape
<1>1. life' = life /\ (runs' = runs \/ \E r \in Runs : /\ RowWritten(r) /\ r \in Accepted
                                                     /\ runs[r].state \in ACTIVE
                                                     /\ runs'[r].state \in ACTIVE)
    <2>1. CASE FinishHandler \/ conversationIdentified
        BY <2>1 DEF FinishHandler, conversationIdentified, process
    <2>2. CASE ActsOnPage
        BY <2>2, PageEffects DEF store, process
    <2>3. CASE Progresses
        BY <2>3, ExecutedRun, ProgressEffects DEF process, Executing, ACTIVE
    <2>4. CASE Concludes
        <3>1. Concluded /\ Executing
            BY <2>4, ConclusionEffects DEF Concluded, Executing
        <3> QED
            BY <3>1, ExecutedRun DEF Concluded, process, ACTIVE
    <2> QED
        BY <2>1, <2>2, <2>3, <2>4
<1> QED
    BY <1>1, StageStays, StageValues

(* Every step is one of the contract, or none.                             *)
LEMMA StepRefines ==
    ASSUME Shape, Next
    PROVE  [Contract!Next]_(Contract!vars)
<1> USE DEF Shape
<1>1. ASSUME Stage' = Stage, AcceptedAt' = AcceptedAt, life' = life
      PROVE  UNCHANGED Contract!vars
    BY <1>1 DEF Contract!vars, Stage, AcceptedAt
<1>2. ASSUME runs' = runs, life = "up", life' # "up" PROVE Contract!GoDown
    BY <1>2, StageStays DEF Contract!GoDown, Stage, AcceptedAt
<1>3. CASE FinishHandler \/ conversationIdentified \/ ActsOnPage \/ Progresses \/ Concludes
    BY <1>1, <1>3, ExecutionStutters
<1>4. CASE Exit \/ EnterStart
    <2>1. runs' = runs /\ life' \in {"down", "starting"}
        BY <1>4 DEF Exit, EnterStart, store
    <2>2. CASE life = "up"
        BY <1>2, <2>1, <2>2 DEF Contract!Next
    <2>3. CASE life # "up"
        BY <2>1, <2>3, StageStays DEF Contract!vars, Stage, AcceptedAt
    <2> QED
        BY <2>2, <2>3
<1>5. CASE LeaveStart
    <2>1. runs' = runs /\ life = "starting" /\ life' = "up" /\ ActiveRuns = {}
        BY <1>5 DEF LeaveStart, store
    <2>2. Contract!In("active") = {}
        BY <2>1, StageValues DEF Contract!In, ActiveRuns, isActiveRunState
    <2>3. Contract!GoUp
        BY <2>1, <2>2, StageStays DEF Contract!GoUp, Stage, AcceptedAt
    <2> QED
        BY <2>3 DEF Contract!Next
<1> QED
    BY <1>3, <1>4, <1>5, AcceptRefines, ClaimRefines, RestartRefines, SettleRefines, StepKinds

(* The thread keeps the contract of its queue through every failure and    *)
(* restart: one run at a time, in the order of acceptance, settled once,   *)
(* and tried again by a restart only.                                      *)
THEOREM ExecutionImplementsContract == Spec => ThreadKeepsContract
<1>1. ASSUME Init, Shape PROVE Contract!Init
    <2>1. \A r \in Runs : StageOf(runs[r].state) = "absent" /\ r \notin Accepted
        BY <1>1, RowTypes, StageValues DEF Init, Accepted
    <2> QED
        BY <1>1, <2>1 DEF Init, Contract!Init
<1>2. ASSUME Shape, [Next]_vars PROVE [Contract!Next]_(Contract!vars)
    <2>1. CASE UNCHANGED vars
        BY <2>1 DEF vars, store, process, Contract!vars, Accepted
    <2> QED
        BY <1>2, <2>1, StepRefines
<1> QED
    BY <1>1, <1>2, ShapeHolds, PTL DEF Safety, Spec, ThreadKeepsContract, Contract!Spec
=============================================================================
