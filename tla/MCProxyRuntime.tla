--------------------------- MODULE MCProxyRuntime ---------------------------
(***************************************************************************)
(* ProxyRuntime with the values of MCDurableRunQueue.                      *)
(***************************************************************************)
EXTENDS ProxyRuntime, MCDurableRunQueue
=============================================================================
