------------------------- MODULE BrowserManagerProofs -------------------------
(***************************************************************************)
(* Proofs about BrowserManager, for any number of contexts launched,       *)
(* attempts of a recovery and navigations to the login page.               *)
(*                                                                         *)
(* Both properties rest on OneContext: until the manager is closed, the    *)
(* context that exists is the one it holds, of the latest generation, and  *)
(* no loss is expected.  A late observation is then "ready" only of that   *)
(* context, and a loss is always noticed.                                  *)
(***************************************************************************)
EXTENDS BrowserManager, TLAPS

Launchers == {"start", "recovery"}

Statuses == {"unavailable", "starting", "recovering", "ready", "auth_required", "stopping"}
Launches == [Launchers -> [at : {"none", "launching", "preparing", "inspecting"}, gen : Nat]]
Recoveries == {r \in [at : {"none", "delay", "launching"}, left : Nat] :
                   r.at = "delay" => r.left > 0}
Refreshes == [at : {"none", "opening", "probing", "start", "recovery"}, gen : Nat]
Closers == [at : {"none", "closing", "closed"}, gen : Nat]

TypeOK ==
    /\ context \in Nat /\ pool \in Nat /\ controlPage \in Nat /\ generation \in Nat
    /\ open \subseteq Nat \ {0} /\ expected \subseteq Nat \ {0}
    /\ polling \in BOOLEAN /\ stopping \in BOOLEAN
    /\ pending \in BOOLEAN /\ exhausted \in BOOLEAN
    /\ status \in Statuses
    /\ launch \in Launches /\ recovery \in Recoveries
    /\ refresh \in Refreshes /\ closer \in Closers
    /\ logins \in Nat

OneContext ==
    ~stopping => expected = {} /\ context \in {0, generation} /\ open \subseteq {context}

ManagerInv == TypeOK /\ OneContext /\ GateOpenMeansContext /\ LossNoticed

-----------------------------------------------------------------------------
(* A page of a context that does not exist shows nothing.                  *)
LEMMA Observed ==
    ASSUME NEW g, NEW seen \in Observations(g)
    PROVE  /\ seen \in {"ready", "auth_required", "unavailable"}
           /\ seen = "ready" => g \in open
BY DEF Observations

(* The tasks that a handler may begin or end, and their types.             *)
LEMMA TaskTypes ==
    /\ Nobody \in Refreshes /\ Nobody \in Closers
    /\ [at |-> "none", left |-> 0] \in Recoveries
    /\ [at |-> "delay", left |-> Attempts] \in Recoveries
    /\ \A r \in Recoveries :
          /\ [r EXCEPT !.at = "none"] \in Recoveries
          /\ r.left > 0 => [r EXCEPT !.at = "delay"] \in Recoveries
          /\ r.at = "delay" => [at |-> "launching", left |-> r.left - 1] \in Recoveries
    /\ \A l \in Launches, w \in Launchers, g \in Nat :
          /\ l[w].gen \in Nat
          /\ [l EXCEPT ![w] = Nobody] \in Launches
          /\ \A a \in {"launching", "preparing"} :
                [l EXCEPT ![w] = [at |-> a, gen |-> g]] \in Launches
          /\ [l EXCEPT ![w].at = "inspecting"] \in Launches
<1>1. ASSUME NEW r \in Recoveries
      PROVE  /\ [r EXCEPT !.at = "none"] \in Recoveries
             /\ r.left > 0 => [r EXCEPT !.at = "delay"] \in Recoveries
             /\ r.at = "delay" => [at |-> "launching", left |-> r.left - 1] \in Recoveries
    BY DEF Recoveries
<1>2. ASSUME NEW l \in Launches, NEW w \in Launchers, NEW row,
             row \in [at : {"none", "launching", "preparing", "inspecting"}, gen : Nat]
      PROVE  [l EXCEPT ![w] = row] \in Launches
    BY <1>2 DEF Launches
<1>3. ASSUME NEW l \in Launches, NEW w \in Launchers
      PROVE  [l EXCEPT ![w].at = "inspecting"] \in Launches
    <2> DEFINE row == [l[w] EXCEPT !.at = "inspecting"]
    <2>1. row \in [at : {"none", "launching", "preparing", "inspecting"}, gen : Nat]
        BY DEF Launches
    <2>2. [l EXCEPT ![w].at = "inspecting"] = [l EXCEPT ![w] = row]
        OBVIOUS
    <2> HIDE DEF row
    <2> QED
        BY <1>2, <2>1, <2>2
<1>4. ASSUME NEW l \in Launches, NEW w \in Launchers, NEW g \in Nat,
             NEW a \in {"launching", "preparing"}
      PROVE  /\ [l EXCEPT ![w] = Nobody] \in Launches
             /\ [l EXCEPT ![w] = [at |-> a, gen |-> g]] \in Launches
    BY <1>2 DEF Nobody
<1>5. Nobody \in Refreshes /\ Nobody \in Closers
    BY DEF Refreshes, Closers, Nobody
<1>6. /\ [at |-> "none", left |-> 0] \in Recoveries
      /\ [at |-> "delay", left |-> Attempts] \in Recoveries
    BY ManagerAssumptions DEF Recoveries
<1>7. \A l \in Launches, w \in Launchers : l[w].gen \in Nat
    BY DEF Launches
<1>8. \A l \in Launches, w \in Launchers, g \in Nat :
          /\ l[w].gen \in Nat
          /\ [l EXCEPT ![w] = Nobody] \in Launches
          /\ \A a \in {"launching", "preparing"} :
                [l EXCEPT ![w] = [at |-> a, gen |-> g]] \in Launches
          /\ [l EXCEPT ![w].at = "inspecting"] \in Launches
    BY <1>3, <1>4, <1>7
<1> QED
    BY <1>1, <1>5, <1>6, <1>8

(* launchFreshContext and recover() up to their first awaits.              *)
LEMMA BeginTypes ==
    ASSUME TypeOK, NEW w \in Launchers, NEW s \in Statuses, beginLaunch(w, s)
    PROVE  status' \in Statuses /\ launch' \in Launches
BY TaskTypes DEF TypeOK, beginLaunch

(* The same of a recovery that begins.                                     *)
LEMMA RecoverTypes ==
    ASSUME TypeOK, performRecovery
    PROVE  polling' \in BOOLEAN /\ recovery' \in Recoveries /\ exhausted' \in BOOLEAN
BY TaskTypes DEF TypeOK, performRecovery

(* The same of an attempt that has failed.                                 *)
LEMMA FailedTypes ==
    ASSUME TypeOK, NEW w \in Launchers, attemptFailed(w)
    PROVE  recovery' \in Recoveries /\ refresh' \in Refreshes /\ exhausted' \in BOOLEAN
BY TaskTypes DEF TypeOK, attemptFailed, settled

(* The same of refreshStatus(), whichever of the tasks it begins.          *)
LEMMA RefreshTypes ==
    ASSUME TypeOK, NEW control, refreshStatus(control)
    PROVE  /\ status' \in Statuses /\ polling' \in BOOLEAN /\ launch' \in Launches
           /\ recovery' \in Recoveries /\ refresh' \in Refreshes /\ exhausted' \in BOOLEAN
<1>1. CASE UNCHANGED <<status, polling, launch, recovery, refresh, exhausted>>
    BY <1>1 DEF TypeOK
<1>2. CASE /\ refresh' = [at |-> IF control = 0 THEN "opening" ELSE "probing", gen |-> context]
           /\ UNCHANGED <<status, polling, launch, recovery, exhausted>>
    BY <1>2 DEF TypeOK, Refreshes
<1>3. CASE /\ refresh' = [at |-> "start", gen |-> 0]
           /\ IF Starting THEN UNCHANGED <<status, launch>> ELSE beginLaunch("start", "starting")
           /\ UNCHANGED <<polling, recovery, exhausted>>
    BY <1>3, BeginTypes DEF TypeOK, Refreshes, Launchers, Statuses
<1>4. CASE refresh' = [at |-> "recovery", gen |-> 0] /\ recover /\ UNCHANGED launch
    BY <1>4, RecoverTypes DEF TypeOK, Refreshes, recover, Statuses
<1> QED
    BY <1>1, <1>2, <1>3, <1>4 DEF refreshStatus

(* The manager begins with nothing.                                        *)
LEMMA TypeInit == Init => TypeOK
<1> SUFFICES ASSUME Init PROVE TypeOK
    OBVIOUS
<1>1. launch \in Launches
    BY DEF Init, Launches, Nobody, Launchers
<1> QED
    BY <1>1, TaskTypes DEF Init, TypeOK, Statuses

(* Every handler and every step of a task keeps the types.                 *)
LEMMA TypeStep == TypeOK /\ [Next]_vars => TypeOK'
<1> SUFFICES ASSUME TypeOK, [Next]_vars PROVE TypeOK'
    OBVIOUS
<1>1. CASE UNCHANGED vars
    BY <1>1 DEF TypeOK, vars, fields, held, tasks
<1>2. CASE CallStart
    BY <1>2, BeginTypes DEF TypeOK, CallStart, Launchers, Statuses, fields, held
<1>3. CASE CallRefresh
    BY <1>3, RefreshTypes DEF TypeOK, CallRefresh, held
<1>4. CASE Close
    BY <1>4 DEF TypeOK, Close, Closers, Statuses
<1>5. CASE CloseCompleted
    BY <1>5 DEF TypeOK, CloseCompleted, Closers, held
<1>6. ASSUME NEW w \in Launchers, Launched(w) PROVE TypeOK'
    <2>1. generation' \in Nat \ {0} /\ context' = generation' /\ open' = {generation'}
        BY <1>6 DEF TypeOK, Launched
    <2>2. launch' \in Launches
        BY <1>6, <2>1, TaskTypes DEF TypeOK, Launched
    <2> QED
        BY <1>6, <2>1, <2>2 DEF TypeOK, Launched
<1>7. ASSUME NEW w \in Launchers, LaunchFails(w) PROVE TypeOK'
    BY <1>7, TaskTypes, FailedTypes DEF TypeOK, LaunchFails, thrown, Statuses, fields, held
<1>8. ASSUME NEW w \in Launchers, Prepared(w) PROVE TypeOK'
    BY <1>8, TaskTypes DEF TypeOK, Prepared
<1>9. ASSUME NEW w \in Launchers, PrepareFails(w) PROVE TypeOK'
    BY <1>9, TaskTypes, FailedTypes DEF TypeOK, PrepareFails, thrown, Statuses, fields, held
<1>10. ASSUME NEW w \in Launchers, LaunchCompleted(w) PROVE TypeOK'
    BY <1>10, TaskTypes, Observed DEF TypeOK, LaunchCompleted, startPolling, settled, Statuses, held
<1>11. CASE RecoveryAttempt
    <2>1. CASE stopping
        BY <1>11, <2>1, TaskTypes DEF TypeOK, RecoveryAttempt, settled, fields, held
    <2>2. CASE ~stopping
        <3>1. recovery' \in Recoveries
            BY <1>11, <2>2, TaskTypes DEF TypeOK, RecoveryAttempt
        <3> QED
            BY <1>11, <2>2, <3>1, BeginTypes
            DEF TypeOK, RecoveryAttempt, Launchers, Statuses, fields, held
    <2> QED
        BY <2>1, <2>2
<1>12. ASSUME NEW g \in open, ContextCloses(g) PROVE TypeOK'
    <2>1. /\ open' \subseteq open /\ expected' \subseteq expected
          /\ context' \in {0, context} /\ pool' \in {0, pool} /\ controlPage' \in {0, controlPage}
        BY <1>12 DEF ContextCloses, held
    <2>2. /\ UNCHANGED <<status, polling, recovery, exhausted>> \/ noticeLoss
          /\ UNCHANGED <<generation, stopping, pending, launch, refresh, logins, closer>>
        BY <1>12 DEF ContextCloses
    <2>3. /\ status' \in Statuses /\ polling' \in BOOLEAN
          /\ recovery' \in Recoveries /\ exhausted' \in BOOLEAN
        BY <2>2, RecoverTypes DEF TypeOK, noticeLoss, Statuses
    <2> QED
        BY <2>1, <2>2, <2>3 DEF TypeOK
<1>13. CASE RefreshOpened
    BY <1>13, TaskTypes DEF TypeOK, RefreshOpened, Refreshes
<1>14. CASE RefreshProbed
    BY <1>14, TaskTypes, Observed DEF TypeOK, RefreshProbed, Statuses, fields, held
<1>15. CASE ControlPageCloses
    BY <1>15, RefreshTypes DEF TypeOK, ControlPageCloses
<1>16. CASE LoginPageShown
    <2>1. logins > 0 /\ logins' = logins - 1 /\ pending' = FALSE
        BY <1>16 DEF LoginPageShown
    <2>2. controlPage' \in {controlPage, context}
        BY <1>16 DEF LoginPageShown
    <2>3. logins' \in Nat
        BY <2>1 DEF TypeOK
    <2> QED
        BY <1>16, <2>1, <2>2, <2>3, RefreshTypes DEF TypeOK, LoginPageShown
<1>17. ASSUME NEW g \in 1..generation, ReportPageStatus(g) PROVE TypeOK'
    <2>1. PICK seen \in Observations(g) :
              /\ status' = seen
              /\ \/ pending' = TRUE /\ logins' = logins + 1
                 \/ UNCHANGED <<pending, logins>>
        BY <1>17 DEF ReportPageStatus
    <2>2. status' \in Statuses
        BY <2>1, Observed DEF Statuses
    <2>3. logins' \in Nat
        BY <2>1 DEF TypeOK
    <2>4. pending' \in BOOLEAN
        BY <2>1 DEF TypeOK
    <2> QED
        BY <1>17, <2>2, <2>3, <2>4 DEF TypeOK, ReportPageStatus, fields, held
<1> QED
    BY <1>1, <1>2, <1>3, <1>4, <1>5, <1>6, <1>7, <1>8, <1>9, <1>10, <1>11, <1>12, <1>13,
       <1>14, <1>15, <1>16, <1>17 DEF Next, Launchers

-----------------------------------------------------------------------------
(* What a step does to the context that exists: it launches it, loses it,  *)
(* leaves it alone, or closes the manager.                                 *)
LEMMA ContextSteps ==
    ASSUME [Next]_vars
    PROVE  \/ \E w \in Launchers : Launched(w)
           \/ \E g \in open : ContextCloses(g)
           \/ Close
           \/ /\ UNCHANGED <<context, generation, stopping>>
              /\ open' \subseteq open /\ expected' \subseteq expected
<1>1. CASE UNCHANGED vars
    BY <1>1 DEF vars, fields, held
<1>2. CASE CallStart \/ CallRefresh \/ RecoveryAttempt \/ RefreshProbed
    BY <1>2 DEF CallStart, CallRefresh, RecoveryAttempt, RefreshProbed, fields, held
<1>3. CASE CloseCompleted
    BY <1>3 DEF CloseCompleted, held
<1>4. ASSUME NEW w \in Launchers,
             LaunchFails(w) \/ Prepared(w) \/ PrepareFails(w) \/ LaunchCompleted(w)
      PROVE  UNCHANGED <<context, generation, stopping, open, expected>>
    BY <1>4 DEF LaunchFails, Prepared, PrepareFails, LaunchCompleted, fields, held
<1>5. CASE RefreshOpened \/ ControlPageCloses \/ LoginPageShown
    BY <1>5 DEF RefreshOpened, ControlPageCloses, LoginPageShown
<1>6. ASSUME NEW g \in 1..generation, ReportPageStatus(g)
      PROVE  UNCHANGED <<context, generation, stopping, open, expected>>
    BY <1>6 DEF ReportPageStatus, fields, held
<1> QED
    BY <1>1, <1>2, <1>3, <1>4, <1>5, <1>6 DEF Next, Launchers

(* A loss that comes before the manager is closed is one of the context it *)
(* holds, which it lets go.                                                *)
LEMMA LossOfContext ==
    ASSUME TypeOK, OneContext, ~stopping, NEW g \in open, ContextCloses(g)
    PROVE  /\ context' = 0 /\ open' = {} /\ UNCHANGED <<expected, generation, stopping>>
           /\ noticeLoss
<1>1. g = context /\ g = generation /\ g \notin expected
    BY DEF OneContext, TypeOK
<1> QED
    BY <1>1 DEF ContextCloses, OneContext

(* The context that exists stays the one that is held.                     *)
LEMMA OneContextStep ==
    ASSUME TypeOK, OneContext, [Next]_vars
    PROVE  OneContext'
<1>1. ASSUME NEW w \in Launchers, Launched(w) PROVE OneContext'
    BY <1>1 DEF Launched, OneContext
<1>2. ASSUME NEW g \in open, ContextCloses(g) PROVE OneContext'
    <2>1. UNCHANGED stopping
        BY <1>2 DEF ContextCloses
    <2> QED
        BY <1>2, <2>1, LossOfContext DEF OneContext
<1>3. CASE Close
    BY <1>3 DEF Close, OneContext
<1> QED
    BY <1>1, <1>2, <1>3, ContextSteps DEF OneContext

(* An observation that is applied late is one of a context that is there,  *)
(* or it is not "ready".                                                   *)
LEMMA GateStep ==
    ASSUME TypeOK, OneContext, GateOpenMeansContext, [Next]_vars
    PROVE  GateOpenMeansContext'
<1> SUFFICES ASSUME status' = "ready", ~stopping' PROVE context' # 0
    BY DEF GateOpenMeansContext
<1>1. ~stopping
    BY ContextSteps DEF Launched, ContextCloses, Close
<1>2. ASSUME NEW g \in open, context' = context PROVE context' # 0
    BY <1>1, <1>2 DEF OneContext, TypeOK
<1>3. CASE UNCHANGED <<status, context>>
    BY <1>1, <1>3 DEF GateOpenMeansContext
<1>4. ASSUME NEW w \in Launchers, Launched(w) PROVE context' # 0
    BY <1>4 DEF Launched, TypeOK
<1>5. ASSUME NEW g \in open, ContextCloses(g) PROVE FALSE
    BY <1>1, <1>5, LossOfContext DEF noticeLoss
<1>6. ASSUME NEW w \in Launchers,
             LaunchFails(w) \/ Prepared(w) \/ PrepareFails(w) \/ LaunchCompleted(w)
      PROVE  context' # 0
    <2>1. UNCHANGED <<status, context>> \/ status' = "unavailable" \/ LaunchCompleted(w)
        BY <1>6 DEF LaunchFails, Prepared, PrepareFails, thrown, fields, held
    <2>2. CASE LaunchCompleted(w)
        BY <1>2, <2>2, Observed DEF LaunchCompleted, held
    <2> QED
        BY <1>3, <2>1, <2>2
<1>7. ASSUME NEW control, refreshStatus(control), UNCHANGED context PROVE context' # 0
    <2>1. status' \in {status, "starting", "recovering"}
        BY <1>7 DEF refreshStatus, beginLaunch, recover
    <2> QED
        BY <1>3, <1>7, <2>1
<1>8. CASE CallRefresh \/ ControlPageCloses \/ LoginPageShown
    <2>1. UNCHANGED context /\ \E control : refreshStatus(control)
        BY <1>8 DEF CallRefresh, ControlPageCloses, LoginPageShown, held
    <2> QED
        BY <1>7, <2>1
<1>9. CASE CallStart \/ Close \/ RecoveryAttempt
    <2>1. UNCHANGED <<status, context>> \/ status' \in {"starting", "stopping", "recovering"}
        BY <1>9 DEF CallStart, Close, RecoveryAttempt, beginLaunch, fields, held
    <2> QED
        BY <1>3, <2>1
<1>10. CASE CloseCompleted \/ RefreshOpened \/ UNCHANGED vars
    BY <1>3, <1>10 DEF CloseCompleted, RefreshOpened, vars, fields, held
<1>11. CASE RefreshProbed
    <2>1. PICK seen \in Observations(refresh.gen) : status' \in {status, seen}
        BY <1>11 DEF RefreshProbed
    <2> QED
        BY <1>2, <1>3, <1>11, <2>1, Observed DEF RefreshProbed, fields, held
<1>12. ASSUME NEW g \in 1..generation, ReportPageStatus(g) PROVE context' # 0
    BY <1>2, <1>12, Observed DEF ReportPageStatus, fields, held
<1> QED
    BY <1>4, <1>5, <1>6, <1>8, <1>9, <1>10, <1>11, <1>12 DEF Next, Launchers

(* A recovery begins with every loss, and ends by polling again or by      *)
(* giving up.                                                              *)
LEMMA LossStep ==
    ASSUME TypeOK, OneContext, LossNoticed, [Next]_vars
    PROVE  LossNoticed'
<1> SUFFICES ASSUME generation' > 0, context' = 0, ~stopping'
             PROVE  Recovering' \/ polling' \/ exhausted'
    BY DEF LossNoticed
<1>1. ~stopping
    BY ContextSteps DEF Launched, ContextCloses, Close
<1>2. ASSUME UNCHANGED <<context, generation, recovery, polling, exhausted>>
      PROVE  Recovering' \/ polling' \/ exhausted'
    BY <1>1, <1>2 DEF LossNoticed, Recovering
<1>3. ASSUME performRecovery PROVE Recovering'
    BY <1>3 DEF performRecovery, Recovering
<1>4. ASSUME NEW w \in Launchers, Launched(w) PROVE FALSE
    BY <1>4 DEF Launched, TypeOK
<1>5. ASSUME NEW g \in open, ContextCloses(g) PROVE Recovering'
    BY <1>1, <1>3, <1>5, LossOfContext DEF noticeLoss
<1>6. ASSUME NEW w \in Launchers, LaunchFails(w) \/ PrepareFails(w)
      PROVE  Recovering' \/ polling' \/ exhausted'
    <2>1. attemptFailed(w) /\ UNCHANGED fields
        BY <1>6 DEF LaunchFails, PrepareFails
    <2>2. CASE w = "recovery"
        BY <2>1, <2>2 DEF attemptFailed, Recovering, TypeOK, Recoveries
    <2>3. CASE w # "recovery"
        <3>1. UNCHANGED recovery /\ (exhausted' <=> exhausted)
            BY <2>1, <2>3 DEF attemptFailed
        <3> QED
            BY <1>1, <2>1, <3>1 DEF LossNoticed, Recovering, fields, held
    <2> QED
        BY <2>2, <2>3
<1>7. ASSUME NEW w \in Launchers, LaunchCompleted(w) PROVE polling'
    BY <1>7 DEF LaunchCompleted, startPolling
<1>8. CASE CallRefresh \/ ControlPageCloses \/ LoginPageShown
    <2>1. UNCHANGED <<context, generation>> /\ \E control : refreshStatus(control)
        BY <1>8 DEF CallRefresh, ControlPageCloses, LoginPageShown, held
    <2>2. UNCHANGED <<recovery, polling, exhausted>> \/ performRecovery
        BY <2>1 DEF refreshStatus, recover
    <2> QED
        BY <1>2, <1>3, <2>1, <2>2
<1>9. CASE Close
    BY <1>9 DEF Close
<1>10. CASE RecoveryAttempt
    BY <1>1, <1>10 DEF RecoveryAttempt, Recovering
<1>11. CASE CallStart \/ CloseCompleted \/ RefreshOpened \/ RefreshProbed \/ UNCHANGED vars
    BY <1>2, <1>11
    DEF CallStart, CloseCompleted, RefreshOpened, RefreshProbed, vars, tasks, fields, held
<1>12. ASSUME NEW w \in Launchers, Prepared(w) PROVE Recovering' \/ polling' \/ exhausted'
    BY <1>2, <1>12 DEF Prepared
<1>13. ASSUME NEW g \in 1..generation, ReportPageStatus(g)
       PROVE  Recovering' \/ polling' \/ exhausted'
    BY <1>2, <1>13 DEF ReportPageStatus, fields, held
<1> QED
    BY <1>4, <1>5, <1>6, <1>7, <1>8, <1>9, <1>10, <1>11, <1>12, <1>13 DEF Next, Launchers

-----------------------------------------------------------------------------
(* All of it holds of the specification.                                   *)
LEMMA ManagerInvariant == Spec => []ManagerInv
<1>1. Init => ManagerInv
    <2>1. Init => OneContext /\ GateOpenMeansContext /\ LossNoticed
        BY DEF Init, OneContext, GateOpenMeansContext, LossNoticed
    <2> QED
        BY <2>1, TypeInit DEF ManagerInv
<1>2. ManagerInv /\ [Next]_vars => ManagerInv'
    BY TypeStep, OneContextStep, GateStep, LossStep DEF ManagerInv
<1> QED
    BY <1>1, <1>2, PTL DEF Spec

(* The fields and the tasks of the manager keep their types.               *)
THEOREM ManagerTypeOK == Spec => []TypeOK
<1>1. ManagerInv => TypeOK
    BY DEF ManagerInv
<1> QED
    BY <1>1, ManagerInvariant, PTL

(* The gate of the run queue is open only over a context that is there,    *)
(* however late a probe or a report of a run comes back.                   *)
THEOREM ManagerGateOpenMeansContext == Spec => []GateOpenMeansContext
<1>1. ManagerInv => GateOpenMeansContext
    BY DEF ManagerInv
<1> QED
    BY <1>1, ManagerInvariant, PTL

(* A lost browser is being launched again, or a poll is coming that begins *)
(* to, or all attempts have failed.                                        *)
THEOREM ManagerLossNoticed == Spec => []LossNoticed
<1>1. ManagerInv => LossNoticed
    BY DEF ManagerInv
<1> QED
    BY <1>1, ManagerInvariant, PTL
=============================================================================
