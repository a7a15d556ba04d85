------------------------- MODULE MCMutationRequests -------------------------
(***************************************************************************)
(* The clients of the model-checked instances of MutationRequests.         *)
(***************************************************************************)
EXTENDS MutationRequests

Request(id, op, key, text, thinking) ==
    [id |-> id, op |-> op, name |-> "a", key |-> key, text |-> text, thinking |-> thinking]

Creation == Request("c1", "create_thread", "k1", "A", "absent")

(* A send that asks for more thinking than the default. *)
MCThoughtful ==
    {Creation, Request("s1", "send_message", "k1", "B", "high")}

(* Every run is of a millisecond of its own. *)
MCIds == {0}
=============================================================================
