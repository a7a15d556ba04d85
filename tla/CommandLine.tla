----------------------------- MODULE CommandLine -----------------------------
(***************************************************************************)
(* src/cli/http-client.ts: a user runs "new" or "chat" and runs it again   *)
(* when it has timed out or found no server, while other clients go on as  *)
(* in MutationRequests.  The command posts its request (the handlers of    *)
(* src/api/server.ts), with a key made for this execution, polls the run   *)
(* it was answered with until that settles, and gives up at its deadline.  *)
(* Of a request that timed out the client does not know whether it was     *)
(* carried out, is lost or is still on its way; it then asks for the       *)
(* pending run of the thread (findPendingRun in src/api/presenters.ts).    *)
(*                                                                         *)
(* Not modelled: a deletion from the command line, whose one request waits *)
(* for its run at the server, and --no-wait, which prints the first answer.*)
(***************************************************************************)
EXTENDS MutationRequests

CONSTANT Executions     \* the requests of the executions of one command

ASSUME ExecutionAssumptions ==
    /\ Executions \in Seq(Requests)
    /\ \A i, j \in DOMAIN Executions :
          /\ Executions[i].op \in {"create_thread", "send_message"}
          /\ Executions[i].name = Executions[j].name
          /\ Executions[i].text = Executions[j].text
          /\ i # j => Executions[i].key # Executions[j].key

VARIABLES
    executed,   \* how often the command has been run
    transit,    \* the executions whose request may still reach the server
    cli         \* of the latest one: [at, run]; run is activeRunId, or at the
                \* end the run that is printed or named, or 0

cliVars == <<executed, transit, cli>>

CliInit == Init /\ executed = 0 /\ transit = {} /\ cli = [at |-> "idle", run |-> 0]

CliRequests == {Executions[i] : i \in DOMAIN Executions}

-----------------------------------------------------------------------------
(* A user comes back to a command that did not tell how its run ended. *)
Execute ==
    /\ cli.at \in {"idle", "unreachable", "timed_out"}
    /\ executed < Len(Executions)
    /\ executed' = executed + 1
    /\ transit' = transit \cup {executed + 1}
    /\ cli' = [at |-> "posted", run |-> 0]
    /\ UNCHANGED vars

(* What the client is told: the run, or an error, which the run also is    *)
(* when it had already ended badly (requireSuccessfulMutation).            *)
Told(code, r) ==
    IF code # "run" THEN {[at |-> "refused", run |-> 0]}
    ELSE CASE runs'[r].state = "queued"    -> {[at |-> "polling", run |-> r]}
           [] runs'[r].state = "attention" -> {[at |-> "refused", run |-> 0]}
           [] runs'[r].state = "settled"   ->
                 {[at |-> "polling", run |-> r], [at |-> "refused", run |-> 0]}

(* The request is handled, and its answer received, or lost, or too late.  *)
Handle(i) ==
    /\ i \in transit
    /\ createThread(Executions[i]) \/ mutateThread(Executions[i])
    /\ transit' = transit \ {i}
    /\ \/ UNCHANGED cli
       \/ /\ cli.at = "posted" /\ i = executed
          /\ cli' \in Told(response'.code, response'.run)
    /\ UNCHANGED <<deduplicate, executed>>

(* A poll that finds the run settled; others change nothing.               *)
PollRun ==
    /\ cli.at = "polling"
    /\ runs[cli.run].state # "queued"
    /\ cli' = [cli EXCEPT !.at = "printed"]
    /\ UNCHANGED <<vars, executed, transit>>

(* "connection_failed" is not a timeout: no run is looked for or named.    *)
Unreachable ==
    /\ cli.at \in {"posted", "polling"}
    /\ cli' = [at |-> "unreachable", run |-> 0]
    /\ transit' \in {transit, transit \ {executed}}
    /\ UNCHANGED <<vars, executed>>

(* The deadline passes: a run that is known is named.                      *)
Deadline ==
    /\ cli.at \in {"posted", "polling"}
    /\ cli' = [cli EXCEPT !.at = IF cli.run = 0 THEN "recovering" ELSE "timed_out"]
    /\ transit' \in {transit, transit \ {executed}}
    /\ UNCHANGED <<vars, executed>>

Pending(t) == {r \in DOMAIN runs : runs[r].thread = t /\ runs[r].state \in {"queued", "attention"}}

(* Mutant: the list is searched from its beginning. *)
findOldestPendingRun(t) ==
    {r \in Pending(t) : \A s \in Pending(t) : ~Before(s, r)}
(* The last pending one of ORDER BY created_at, id. *)
findPendingRun(t) == LastOf(Pending(t))

(* Mutant: it waits for the run it has found. *)
pollPendingRun(r) == cli' = [at |-> "polling", run |-> r]
namePendingRun(r) == cli' = [at |-> "timed_out", run |-> r]

RecoverPendingRunId ==
    /\ cli.at = "recovering"
    /\ \/ cli' = [cli EXCEPT !.at = "timed_out"]     \* no answer, or none pending
       \/ \E t \in Named(Executions[executed].name) : \E r \in findPendingRun(t) :
             namePendingRun(r)
    /\ UNCHANGED <<vars, executed, transit>>

OtherClients ==
    /\ \/ \E q \in Requests \ CliRequests : createThread(q) \/ mutateThread(q)
       \/ \E r \in DOMAIN runs : Settle(r)
    /\ UNCHANGED <<deduplicate, cliVars>>

CliNext ==
    \/ OtherClients
    \/ Execute \/ PollRun \/ Unreachable \/ Deadline \/ RecoverPendingRunId
    \/ \E i \in DOMAIN Executions : Handle(i)

CliSpec == CliInit /\ [][CliNext]_<<vars, cliVars>>

-----------------------------------------------------------------------------
(* What the command prints as its outcome is a settled run that carries    *)
(* its message in a thread of that name: with deduplication perhaps one    *)
(* made for somebody else, but never the run of another message.           *)
PrintsItsOwnMessage ==
    cli.at = "printed" =>
        LET q == Executions[executed]
        IN  /\ runs[cli.run].state # "queued"
            /\ runs[cli.run].text = q.text
            /\ threads[runs[cli.run].thread].name = q.name
            /\ cli.run \in answers[q]

(* A command that timed out names a run "the server may still be           *)
(* processing": if its own request was accepted and still waits, never a   *)
(* run from before it, unless both were accepted in one millisecond.  (It  *)
(* may name a later one, of another client.)                               *)
NamesNoEarlierRun ==
    [][cli.at = "recovering" /\ cli'.run # 0 =>
          \A r \in answers[Executions[executed]] :
              r \in Pending(runs[cli'.run].thread) =>
                  r <= cli'.run \/ runs[r].createdAt = runs[cli'.run].createdAt
      ]_<<vars, cliVars>>
=============================================================================
