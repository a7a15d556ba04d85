--------------------------- MODULE RunTransitions ---------------------------
(***************************************************************************)
(* The life cycle of a run, as src/domain/run-transitions.ts tabulates it. *)
(* A run is one accepted operation (create a thread, send a message,       *)
(* delete a thread); its state is a column of the durable "runs" table.    *)
(***************************************************************************)

RUN_STATES ==
    {"queued", "navigating", "submitting", "running", "needs_attention",
     "succeeded", "failed", "timed_out", "interrupted", "cancelled"}

SUBMISSION_STATES ==
    {"not_started", "typed", "submitted_unconfirmed", "confirmed"}

OPERATION_TYPES == {"create_thread", "send_message", "delete_thread"}

COMPLETED == {"succeeded", "failed", "timed_out", "interrupted", "cancelled"}

ACTIVE == {"navigating", "submitting", "running"}

(* Where each state may go next. *)
ALLOWED_RUN_TRANSITIONS ==
    [s \in RUN_STATES |->
        CASE s = "queued"          -> {"navigating", "cancelled", "interrupted"}
          [] s = "navigating"      -> {"submitting", "running", "needs_attention"} \cup COMPLETED
          [] s = "submitting"      -> {"running", "needs_attention"} \cup COMPLETED
          [] s = "running"         -> {"needs_attention"} \cup COMPLETED
          [] s = "needs_attention" -> {"queued", "succeeded", "failed", "cancelled"}
          [] s = "failed"          -> {"queued"}
          [] s = "timed_out"       -> {"queued"}
          [] s = "interrupted"     -> {"queued", "failed", "cancelled"}
          [] OTHER                 -> {}]

canTransitionRunState(from, to) ==
    \/ from = to
    \/ to \in ALLOWED_RUN_TRANSITIONS[from]

isCompletedRunState(s) == s \in COMPLETED

isActiveRunState(s) == s \in ACTIVE

(* What a caller that waits for a run waits for. *)
isWaitTerminal(s) == s = "needs_attention" \/ isCompletedRunState(s)
=============================================================================
