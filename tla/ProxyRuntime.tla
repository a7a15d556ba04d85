---------------------------- MODULE ProxyRuntime ----------------------------
(***************************************************************************)
(* The process: src/runtime.ts, which builds the database, the queue, the  *)
(* service and the HTTP server and takes them down again, and              *)
(* src/operations/server-lifecycle.ts, which listens and turns signals     *)
(* into a shutdown.  The run queue is the one of DurableRunQueue; added is *)
(* what the order of the shutdown depends on: the server, and the HTTP     *)
(* requests that wait for a run.                                           *)
(***************************************************************************)
EXTENDS DurableRunQueue

VARIABLES
    server,         \* off (no process, or not listening yet), listening,
                    \* closing (app.close() under way), closed (app closed,
                    \* the queue closing), finished (runtime.close() is done)
    openRequests    \* the runs an open HTTP exchange waits for: a handler
                    \* whose client has left waits on, but is not one

runtimeVars == <<vars, server, openRequests>>

RuntimeInit == Init /\ server = "off" /\ openRequests = {}

-----------------------------------------------------------------------------
(* A handler goes on when its waiter is answered, and its response ends    *)
(* the exchange.                                                           *)
AnswerRequests == openRequests' = openRequests \cap runWaiters'

(* The queue runs whether the server listens, closes or is closed; only    *)
(* the adapter's gate ends with the adapter.                               *)
QueueStep ==
    /\ \/ EnterStart \/ LeaveStart \/ FinishClose \/ Pump
       \/ GateChange /\ server # "finished"
       \/ \E r \in Runs : Step(r) \/ Executor(r)
    /\ AnswerRequests
    /\ UNCHANGED server

(* startProxyServer: the runtime's queue has started before it listens.    *)
Listen ==
    /\ life = "running"
    /\ server = "off"
    /\ server' = "listening"
    /\ UNCHANGED <<vars, openRequests>>

(* A request that was received before the server closed may reach its      *)
(* handler after it.                                                       *)
Handling == server \in {"listening", "closing"}

PostRequest(r) ==
    /\ Handling
    /\ Enqueue(r)
    /\ UNCHANGED <<server, openRequests>>

(* The handler of a mutation with wait set waits for its run. *)
AwaitRun(r) ==
    /\ Handling
    /\ WaitForRun(r)
    /\ openRequests' = openRequests \cup {r}
    /\ UNCHANGED server

(* A client closes its connection; its handler is not told.                *)
ClientLeaves(r) ==
    /\ r \in openRequests
    /\ openRequests' = openRequests \ {r}
    /\ UNCHANGED <<vars, server>>

(* The first signal: app.close() stops the intake.  A second one of the    *)
(* same kind is the exit; one of another kind is ignored.                  *)
Shutdown ==
    /\ server = "listening"
    /\ server' = "closing"
    /\ UNCHANGED <<vars, openRequests>>

(* app.close() has seen the last exchange end; queue.close() is called.    *)
AppClosedAtOnce == TRUE    \* Mutant
AppClosed == openRequests = {}

CloseQueue ==
    /\ server = "closing"
    /\ AppClosed
    /\ Close
    /\ server' = "closed"
    /\ UNCHANGED openRequests

(* queue.close() has returned: the adapter closes, and with it the gate;   *)
(* then the database.                                                      *)
CloseAdapter ==
    /\ server = "closed"
    /\ life = "stopped"
    /\ server' = "finished"
    /\ gate' = FALSE
    /\ UNCHANGED <<durable, life, pumpScheduled, task, sync, runWaiters, idleWaiter,
                   openRequests>>

(* The process ends, or is made to: a second signal, a signal before the   *)
(* handlers are installed, a crash.                                        *)
ProcessExit == Exit /\ server' = "off" /\ openRequests' = {}

RuntimeNext ==
    \/ QueueStep
    \/ Listen \/ Shutdown \/ CloseQueue \/ CloseAdapter \/ ProcessExit
    \/ \E r \in Runs : PostRequest(r) \/ AwaitRun(r) \/ ClientLeaves(r)

RuntimeSafety == RuntimeInit /\ [][RuntimeNext]_runtimeVars

(* A shutdown under way goes on; nothing obliges anybody to begin one, or  *)
(* a client to leave.                                                      *)
RuntimeSpec ==
    /\ RuntimeSafety
    /\ Fairness
    /\ WF_runtimeVars(Listen) /\ WF_runtimeVars(CloseQueue)
    /\ WF_runtimeVars(CloseAdapter)

-----------------------------------------------------------------------------
(* "Existing HTTP requests are allowed to complete" (docs/OPERATIONS.md,   *)
(* line 92): while the process lives, the exchange of a client that stays  *)
(* ends with the settled run, never because the queue closed under it.     *)
RequestsComplete ==
    [][\A r \in openRequests \ openRequests' :
          \/ isWaitTerminal(runs'[r].state)
          \/ r \in runWaiters'              \* the client has left
          \/ life' = "down"]_runtimeVars

(* A shutdown ends, active work first, if the dispatch gate is open while  *)
(* the server closes.  (With the gate closed for good, a request that      *)
(* waits for a queued run keeps app.close() from returning until its       *)
(* client leaves or a second signal ends the process.)                     *)
ShutdownCompletes ==
    <>[](server = "closing" => gate) =>
        server = "closing" ~> server \in {"finished", "off"}
=============================================================================
