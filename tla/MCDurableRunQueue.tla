-------------------------- MODULE MCDurableRunQueue --------------------------
(***************************************************************************)
(* Values of the constants of DurableRunQueue that a cfg cannot write.     *)
(***************************************************************************)
EXTENDS DurableRunQueue

(* Runs 1 and 2 are of one thread, run 3 of another. *)
MCThreadOf == [r \in Runs |-> IF r = 3 THEN "t2" ELSE "t1"]

MCSends == [r \in Runs |-> "send_message"]

(* A deletion behind the creation of its thread. *)
MCCreateThenDelete ==
    [r \in Runs |-> IF r = 2 THEN "delete_thread" ELSE "create_thread"]

(* Enough to settle either way. *)
MCFewResults == {[state |-> "succeeded", err |-> "none"],
                 [state |-> "failed", err |-> "other"]}
=============================================================================
