------------------------------ MODULE RunStore ------------------------------
(***************************************************************************)
(* The durable record of a run and of a thread, and the SQL statements and *)
(* transactions of src/db/run-repository.ts, src/db/thread-repository.ts   *)
(* and src/scheduler/restart-reconciliation.ts that rewrite them.  Each is *)
(* one committed transaction, so each is a function of the old record.     *)
(*                                                                         *)
(* A run:     state, phase (only "recovery_pending" is ever read back),    *)
(*            sub = submission_state, err = error_code; "browser_closed"   *)
(*            stands for an unexpected_state error whose message names a   *)
(*            closed browser, which is told apart from the others.         *)
(* A thread:  state, mapped = it has a remote conversation id and URL,     *)
(*            deletedAt / remoteDeletedAt = the columns are not NULL.      *)
(* Timestamps, texts and hashes are left out.                              *)
(***************************************************************************)
EXTENDS RunTransitions

PHASES == {"recovery_pending", "other"}

ERRORS == {"none", "unexpected_state", "browser_closed", "submission_ambiguous",
           "response_timeout", "remote_delete_ambiguous", "thread_deleted", "other"}

RunRecords ==
    [state : RUN_STATES, phase : PHASES, sub : SUBMISSION_STATES, err : ERRORS]

(* The row createOrGet inserts. *)
NewRun == [state |-> "queued", phase |-> "other", sub |-> "not_started", err |-> "none"]

(* claimQueued, for a run that is queued.                                  *)
claimQueued(run, phase) ==
    [run EXCEPT !.state = "navigating", !.phase = phase, !.err = "none"]

(* The claim given back before the executor was called; the UPDATE matches *)
(* no row, and releaseClaim throws, unless nothing was submitted.          *)
canReleaseAnyClaim(run) == run.state = "navigating"    \* Mutant
canReleaseClaim(run) == run.state = "navigating" /\ run.sub = "not_started"
releaseClaim(run) == NewRun

(* transition: a sub of "keep" stands for an input without submissionState. *)
transition(run, state, phase, sub, err) ==
    [state |-> state,
     phase |-> phase,
     sub   |-> CASE state = "queued" -> "not_started"
                 [] state # "queued" /\ sub = "keep" -> run.sub
                 [] OTHER -> sub,
     err   |-> err]

(* requeueForRecovery keeps what is known of the submission. *)
requeueForRecovery(run) ==
    [run EXCEPT !.state = "queued", !.phase = "recovery_pending", !.err = "none"]

-----------------------------------------------------------------------------
THREAD_STATES ==
    {"provisioning", "idle", "running", "needs_attention", "delete_pending",
     "deleted_local", "deleted_remote", "delete_failed", "orphaned", "error"}

ThreadRecords ==
    [state : THREAD_STATES, mapped : BOOLEAN, deletedAt : BOOLEAN,
     remoteDeletedAt : BOOLEAN]

DELETED == {"deleted_local", "deleted_remote"}

NewThread == [state |-> "provisioning", mapped |-> FALSE, deletedAt |-> FALSE,
              remoteDeletedAt |-> FALSE]

(* setState never clears the deletion timestamps. *)
setState(thread, state) ==
    [thread EXCEPT !.state = state,
                   !.deletedAt = @ \/ state \in DELETED,
                   !.remoteDeletedAt = @ \/ state = "deleted_remote"]

setRemoteMapping(thread) == [thread EXCEPT !.mapped = TRUE]

isDeleted(thread) == thread.deletedAt \/ thread.state \in DELETED

-----------------------------------------------------------------------------
(* listRecoverableBrowserFailures: failures a restart tries again on the   *)
(* conversation the thread is mapped to.                                   *)
isRecoverable(run, op, thread) ==
    /\ op \in {"create_thread", "send_message"}
    /\ thread.mapped
    /\ ~isDeleted(thread)
    /\ \/ run.state = "failed" /\ run.err = "browser_closed"
       \/ run.state = "needs_attention" /\ run.err \in {"submission_ambiguous", "response_timeout"}
       \/ run.state = "timed_out" /\ run.err = "response_timeout"

hasPossibleRemoteSideEffect(run) == run.sub \in {"submitted_unconfirmed", "confirmed"}

canResume(op, thread) == op # "delete_thread" /\ thread.mapped

(* Mutant: a run that has submitted nothing is queued again. *)
reconciledAsUntouched(run, op, thread) ==
    CASE isDeleted(thread) ->
            transition(run, "cancelled", "other", "keep", "thread_deleted")
      [] ~isDeleted(thread) /\ canResume(op, thread) -> requeueForRecovery(run)
      [] ~isDeleted(thread) /\ ~canResume(op, thread) /\ ~hasPossibleRemoteSideEffect(run) ->
            NewRun
      [] OTHER -> transition(run, "needs_attention", "other", "keep", "submission_ambiguous")

(* What a restart makes of a run it finds active, ...                      *)
reconciledRun(run, op, thread) ==
    CASE isDeleted(thread) ->
            transition(run, "cancelled", "other", "keep", "thread_deleted")
      [] ~isDeleted(thread) /\ canResume(op, thread) ->
            requeueForRecovery(
                transition(run, "interrupted", "other", "keep", "unexpected_state"))
      [] OTHER ->
            transition(run,
                       IF hasPossibleRemoteSideEffect(run) THEN "needs_attention"
                                                           ELSE "interrupted",
                       "other", run.sub,
                       IF run.sub = "submitted_unconfirmed" THEN "submission_ambiguous"
                                                            ELSE "unexpected_state")

(* ... and of its thread, in the same transaction.                         *)
reconciledThread(run, op, thread) ==
    CASE isDeleted(thread) ->
            setState(thread, IF thread.remoteDeletedAt THEN "deleted_remote"
                                                       ELSE "deleted_local")
      [] ~isDeleted(thread) /\ canResume(op, thread) -> setState(thread, "running")
      [] ~isDeleted(thread) /\ ~canResume(op, thread) /\ hasPossibleRemoteSideEffect(run) ->
            setState(thread, "needs_attention")
      [] OTHER ->
            setState(thread, IF op = "create_thread" THEN "error" ELSE "idle")
=============================================================================
