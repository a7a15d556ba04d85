---------------------------- MODULE MCCommandLine ----------------------------
(***************************************************************************)
(* A chat command that is run twice, beside other clients of its thread.   *)
(***************************************************************************)
EXTENDS CommandLine

Request(id, op, key, text, thinking) ==
    [id |-> id, op |-> op, name |-> "a", key |-> key, text |-> text, thinking |-> thinking]

MCExecutions ==
    <<Request("x1", "send_message", "k8", "B", "absent"),
      Request("x2", "send_message", "k9", "B", "absent")>>

(* The others: a creation, a send of another message under the key of the  *)
(* first execution, and a remote deletion without any.                     *)
MCRequests ==
    {MCExecutions[1], MCExecutions[2],
     Request("c1", "create_thread", "k1", "A", "absent"),
     Request("s1", "send_message", "k8", "A", "medium"),
     Request("d1", "delete_thread", NoKey, "remote", "absent")}

(* A run is before or behind the one before it, in its millisecond or not: *)
(* a place behind, in the same one, is a later millisecond to the order.   *)
MCIds == {-1, 0}
=============================================================================
