--------------------------- MODULE BrowserManager ---------------------------
(***************************************************************************)
(* The life of the persistent Chromium, src/browser/manager.ts: launching  *)
(* it, watching over its login, noticing its loss, launching it again and  *)
(* closing it.  Six tasks interleave at their awaits: start(), recover(),  *)
(* refreshStatus() (each shared by all who call it while it runs), the     *)
(* navigations to the login page, close(), and what the browser reports.   *)
(*                                                                         *)
(* A context is named by its generation, 0 standing for null.  External:   *)
(* the profile can be open in one browser only, so that a launch beside    *)
(* another fails; a page may show anything; close() of a context succeeds. *)
(* "auth_required" also stands for "verification_required".                *)
(***************************************************************************)
EXTENDS Naturals

CONSTANTS
    MaxGenerations,     \* bound on the number of contexts launched
    Attempts,           \* the length of recoveryDelaysMs
    MaxLogins           \* bound on concurrent navigations to the login page

ASSUME ManagerAssumptions ==
    MaxGenerations \in Nat /\ Attempts \in Nat \ {0} /\ MaxLogins \in Nat

VARIABLES
    context, pool, controlPage,     \* the generation they are of, or 0
    generation,     \* contextGeneration
    status,
    expected,       \* expectedContextClosures
    polling,        \* pollTimer is set
    stopping,
    pending,        \* manualLoginNavigationPending
    launch,         \* launchFreshContext, for start() and for recover()
    recovery,       \* performRecovery
    refresh,        \* performStatusRefresh
    logins,         \* prepareControlPageForManualLogin: how many are under way
    closer,         \* close()
    open,           \* external: the contexts that exist
    exhausted       \* history: all attempts of the last recovery have failed

held == <<context, pool, controlPage>>
fields == <<held, generation, expected, polling, stopping>>
tasks == <<launch, recovery, refresh, logins, closer>>
vars == <<fields, status, pending, tasks, open, exhausted>>

Nobody == [at |-> "none", gen |-> 0]

Init ==
    /\ context = 0 /\ pool = 0 /\ controlPage = 0 /\ generation = 0
    /\ status = "unavailable"
    /\ expected = {} /\ polling = FALSE /\ stopping = FALSE /\ pending = FALSE
    /\ launch = [w \in {"start", "recovery"} |-> Nobody]
    /\ recovery = [at |-> "none", left |-> 0]
    /\ refresh = Nobody /\ logins = 0 /\ closer = Nobody
    /\ open = {} /\ exhausted = FALSE

Starting == launch["start"].at # "none"
Recovering == recovery.at # "none"

(* What BrowserStatusProbe.inspect makes of a page of generation g: what   *)
(* its last selector finds is applied before the browser's next message.   *)
Observations(g) ==
    IF g \in open THEN {"ready", "auth_required", "unavailable"} ELSE {"unavailable"}

(* startPromise or recoveryPromise is settled: so is the refresh that      *)
(* returned it.                                                            *)
neverSettled(w) == UNCHANGED refresh    \* Mutant: refreshPromise is not cleared
settled(w) == refresh' = IF refresh.at = w THEN Nobody ELSE refresh

-----------------------------------------------------------------------------
(* launchFreshContext up to its first await. *)
beginLaunch(w, launchStatus) ==
    /\ status' = launchStatus
    /\ launch' = [launch EXCEPT ![w] = [at |-> "launching", gen |-> 0]]

CallStart ==
    /\ ~stopping /\ context = 0 /\ ~Starting
    /\ beginLaunch("start", "starting")
    /\ UNCHANGED <<fields, pending, recovery, refresh, logins, closer, open, exhausted>>

Launched(w) ==
    /\ launch[w].at = "launching"
    /\ open = {}
    /\ generation < MaxGenerations
    /\ generation' = generation + 1
    /\ context' = generation'
    /\ open' = {generation'}
    /\ launch' = [launch EXCEPT ![w] = [at |-> "preparing", gen |-> generation']]
    /\ UNCHANGED <<pool, controlPage, status, expected, polling, stopping, pending, recovery,
                   refresh, logins, closer, exhausted>>

(* A launch has thrown: start() rejects, a recovery tries again or gives up. *)
attemptFailed(w) ==
    IF w = "recovery" /\ recovery.left > 0
    THEN /\ recovery' = [recovery EXCEPT !.at = "delay"]
         /\ UNCHANGED <<refresh, exhausted>>
    ELSE /\ recovery' = IF w = "recovery" THEN [recovery EXCEPT !.at = "none"] ELSE recovery
         /\ exhausted' = (exhausted \/ w = "recovery")
         /\ settled(w)

(* What it throws outside of the try block: the status stays what it was,  *)
(* unless that was the last attempt of a recovery.                         *)
thrown(w) == IF w = "recovery" /\ recovery.left = 0 THEN "unavailable" ELSE status

(* Either Chromium does not start, or its profile directory is not to be   *)
(* had.                                                                    *)
LaunchFails(w) ==
    /\ launch[w].at = "launching"
    /\ launch' = [launch EXCEPT ![w] = Nobody]
    /\ status' \in {"unavailable", thrown(w)}
    /\ attemptFailed(w)
    /\ UNCHANGED <<fields, pending, logins, closer, open>>

(* The control page and the pool of the context are set up, and the        *)
(* startup page is asked for.                                              *)
Prepared(w) ==
    /\ launch[w].at = "preparing"
    /\ controlPage' = launch[w].gen
    /\ pool' = launch[w].gen
    /\ launch' = [launch EXCEPT ![w].at = "inspecting"]
    /\ UNCHANGED <<context, generation, expected, polling, stopping, status, pending, recovery,
                   refresh, logins, closer, open, exhausted>>

(* The context is lost before it has a page: newPage() throws. *)
PrepareFails(w) ==
    /\ launch[w].at = "preparing"
    /\ launch[w].gen \notin open
    /\ launch' = [launch EXCEPT ![w] = Nobody]
    /\ status' = thrown(w)
    /\ attemptFailed(w)
    /\ UNCHANGED <<fields, pending, logins, closer, open>>

(* The startup page has loaded or not, and has been inspected. *)
NoPolling == UNCHANGED polling    \* Mutant
startPolling == polling' = TRUE

LaunchCompleted(w) ==
    /\ launch[w].at = "inspecting"
    /\ status' \in Observations(launch[w].gen)
    /\ startPolling
    /\ launch' = [launch EXCEPT ![w] = Nobody]
    /\ recovery' = IF w = "recovery" THEN [recovery EXCEPT !.at = "none"] ELSE recovery
    /\ settled(w)
    /\ UNCHANGED <<held, generation, expected, stopping, pending, logins, closer, open,
                   exhausted>>

-----------------------------------------------------------------------------
(* performRecovery, unless one is under way.                               *)
performRecovery ==
    IF Recovering
    THEN UNCHANGED <<polling, recovery, exhausted>>
    ELSE /\ polling' = FALSE
         /\ recovery' = [at |-> "delay", left |-> Attempts]
         /\ exhausted' = FALSE

(* recover(), up to its first await, when there is no context to close; a  *)
(* recovery under way is joined.                                           *)
recover ==
    /\ status' = IF Recovering THEN status ELSE "recovering"
    /\ performRecovery

RecoveryAttempt ==
    /\ recovery.at = "delay"
    /\ IF stopping
       THEN /\ recovery' = [recovery EXCEPT !.at = "none"]
            /\ settled("recovery")
            /\ UNCHANGED <<status, launch>>
       ELSE /\ recovery' = [at |-> "launching", left |-> recovery.left - 1]
            /\ beginLaunch("recovery", "recovering")
            /\ UNCHANGED refresh
    /\ UNCHANGED <<fields, pending, logins, closer, open, exhausted>>

(* handleContextClosed, of a context that nobody has closed. *)
ignoreLoss == UNCHANGED <<status, polling, recovery, exhausted>>    \* Mutant
noticeLoss ==
    /\ status' = "recovering"
    /\ performRecovery

ContextCloses(g) ==
    /\ g \in open
    /\ open' = open \ {g}
    /\ IF g \in expected \/ stopping \/ g # generation
       THEN /\ expected' = expected \ {g}
            /\ UNCHANGED <<held, status, polling, recovery, exhausted>>
       ELSE /\ context' = 0 /\ pool' = 0 /\ controlPage' = 0
            /\ noticeLoss
            /\ UNCHANGED expected
    /\ UNCHANGED <<generation, stopping, pending, launch, refresh, logins, closer>>

-----------------------------------------------------------------------------
(* refreshStatus(), up to its first await, with the control page given:    *)
(* polls, navigations of the control page, status requests and leases call *)
(* it.  While there is no context it returns the promise of a launch.      *)
refreshStatus(control) ==
    \/ /\ stopping \/ refresh.at # "none"
       /\ UNCHANGED <<status, polling, launch, recovery, refresh, exhausted>>
    \/ /\ ~stopping /\ refresh.at = "none" /\ context # 0
       /\ refresh' = [at |-> IF control = 0 THEN "opening" ELSE "probing", gen |-> context]
       /\ UNCHANGED <<status, polling, launch, recovery, exhausted>>
    \/ /\ ~stopping /\ refresh.at = "none" /\ context = 0
       /\ Starting \/ (~Recovering /\ generation = 0)
       /\ refresh' = [at |-> "start", gen |-> 0]
       /\ IF Starting THEN UNCHANGED <<status, launch>> ELSE beginLaunch("start", "starting")
       /\ UNCHANGED <<polling, recovery, exhausted>>
    \/ /\ ~stopping /\ refresh.at = "none" /\ context = 0
       /\ ~Starting /\ (Recovering \/ generation > 0)
       /\ refresh' = [at |-> "recovery", gen |-> 0]
       /\ recover
       /\ UNCHANGED launch

CallRefresh ==
    /\ refreshStatus(controlPage)
    /\ UNCHANGED <<held, generation, expected, stopping, pending, logins, closer, open>>

(* ensureControlPage has a new page, loaded or not; a failure ends the     *)
(* refresh and leaves the status as it is.                                 *)
RefreshOpened ==
    /\ refresh.at = "opening"
    /\ \/ /\ refresh.gen \in open
          /\ controlPage' = refresh.gen
          /\ refresh' \in {Nobody, [refresh EXCEPT !.at = "probing"]}
       \/ refresh' = Nobody /\ UNCHANGED controlPage
    /\ UNCHANGED <<context, pool, generation, expected, polling, stopping, status, pending,
                   launch, recovery, logins, closer, open, exhausted>>

(* A page that still shows the old session is not believed while the login *)
(* page is on its way.                                                     *)
NotBelieved(seen) == pending /\ seen = "ready" /\ status = "auth_required"

RefreshProbed ==
    /\ refresh.at = "probing"
    /\ \E seen \in Observations(refresh.gen) :
          status' = IF NotBelieved(seen) THEN status ELSE seen
    /\ refresh' = Nobody
    /\ UNCHANGED <<fields, pending, launch, recovery, logins, closer, open, exhausted>>

(* The control page is closed by hand. *)
ControlPageCloses ==
    /\ controlPage # 0 /\ controlPage = context /\ context = generation /\ ~stopping
    /\ controlPage' = 0
    /\ refreshStatus(0)
    /\ UNCHANGED <<context, pool, generation, expected, stopping, pending, logins, closer, open>>

-----------------------------------------------------------------------------
(* A run reports what its tab shows: reportPageStatus, which sends the     *)
(* control page to log in when the session is gone.                        *)
ReportPageStatus(g) ==
    /\ logins < MaxLogins
    /\ \E seen \in Observations(g) :
          /\ status' = seen
          /\ IF seen = "auth_required" /\ context # 0 /\ ~stopping
             THEN pending' = TRUE /\ logins' = logins + 1
             ELSE UNCHANGED <<pending, logins>>
    /\ UNCHANGED <<fields, launch, recovery, refresh, closer, open, exhausted>>

(* The navigation has come to an end, or failed; it may have made the      *)
(* control page.                                                           *)
LoginPageShown ==
    /\ logins > 0
    /\ logins' = logins - 1
    /\ pending' = FALSE
    /\ controlPage' \in {controlPage, context}
    /\ refreshStatus(controlPage')
    /\ UNCHANGED <<context, pool, generation, expected, stopping, closer, open>>

-----------------------------------------------------------------------------
(* close(), up to the close of the context; its close event is expected. *)
Close ==
    /\ ~stopping
    /\ stopping' = TRUE
    /\ status' = "stopping"
    /\ polling' = FALSE
    /\ context' = 0 /\ pool' = 0 /\ controlPage' = 0
    /\ expected' = expected \cup ({context} \ {0})
    /\ closer' = [at |-> "closing", gen |-> context]
    /\ UNCHANGED <<generation, pending, launch, recovery, refresh, logins, open, exhausted>>

CloseCompleted ==
    /\ closer.at = "closing"
    /\ open' = open \ {closer.gen}
    /\ expected' = expected \ (open \cap {closer.gen})
    /\ closer' = [at |-> "closed", gen |-> 0]
    /\ UNCHANGED <<held, generation, polling, stopping, status, pending, launch, recovery,
                   refresh, logins, exhausted>>

Next ==
    \/ CallStart \/ CallRefresh \/ Close \/ CloseCompleted
    \/ \E w \in {"start", "recovery"} :
          Launched(w) \/ LaunchFails(w) \/ Prepared(w) \/ PrepareFails(w) \/ LaunchCompleted(w)
    \/ RecoveryAttempt
    \/ \E g \in open : ContextCloses(g)
    \/ RefreshOpened \/ RefreshProbed
    \/ ControlPageCloses \/ LoginPageShown
    \/ \E g \in 1..generation : ReportPageStatus(g)

(* Launches, navigations and inspections have timeouts, so that each comes *)
(* to an end; nothing is assumed of the browser or of the callers.         *)
Fairness ==
    /\ \A w \in {"start", "recovery"} :
          /\ WF_vars(Launched(w) \/ LaunchFails(w))
          /\ WF_vars(Prepared(w) \/ PrepareFails(w))
          /\ WF_vars(LaunchCompleted(w))
    /\ WF_vars(RecoveryAttempt)
    /\ WF_vars(RefreshOpened) /\ WF_vars(RefreshProbed)

Spec == Init /\ [][Next]_vars /\ Fairness

-----------------------------------------------------------------------------
(* The gate of the run queue is open only over a living browser: status    *)
(* "ready" is never left over from, or reported late by, a context that is *)
(* gone (operationGate.canDispatch).                                       *)
GateOpenMeansContext == status = "ready" /\ ~stopping => context # 0

(* "Automatic browser recovery" (README, line 12): when the browser is     *)
(* lost a recovery is under way, or a poll is coming that will begin one,  *)
(* unless all attempts have failed.                                        *)
LossNoticed ==
    generation > 0 /\ context = 0 /\ ~stopping =>
        Recovering \/ polling \/ exhausted

(* Every call of refreshStatus is answered, those that wait for a launch   *)
(* included, whatever becomes of the launch (performStatusRefresh).        *)
RefreshAnswered == refresh.at # "none" ~> refresh.at = "none"

(* "Browser context, SQLite, and other resources close cleanly"            *)
(* (docs/OPERATIONS.md, line 96): once close() has returned and nothing is *)
(* under way, no Chromium is running.                                      *)
ClosedLeavesNothing ==
    closer.at = "closed" /\ ~Starting /\ ~Recovering => open = {}
=============================================================================
