-------------------------- MODULE RunQueueContract --------------------------
(***************************************************************************)
(* What the durable run queue promises its callers, without pumps,         *)
(* promises, semaphores or rows: an accepted run is started once its turn  *)
(* in its thread comes, never beside another run of the thread, never      *)
(* beyond the concurrency limit; it is settled once, and only a restart of *)
(* the service may try a settled run again.                                *)
(***************************************************************************)
EXTENDS Naturals, FiniteSets

CONSTANTS Runs, ThreadOf, MaxConcurrentRuns

VARIABLES stage,        \* of each run
          acceptedAt,   \* the order of acceptance, 0 before it
          up            \* the service is up

vars == <<stage, acceptedAt, up>>

(* "parked": failed, interrupted or in need of attention; "final": over. *)
Stages == {"absent", "queued", "active", "parked", "final"}

In(s) == {r \in Runs : stage[r] = s}

Init ==
    /\ stage = [r \in Runs |-> "absent"]
    /\ acceptedAt = [r \in Runs |-> 0]
    /\ up = FALSE

Move(r, s) == stage' = [stage EXCEPT ![r] = s]

Accept(r) ==
    /\ up
    /\ stage[r] = "absent"
    /\ Move(r, "queued")
    /\ acceptedAt' = [acceptedAt EXCEPT ![r] = Cardinality(Runs \ In("absent")) + 1]
    /\ UNCHANGED up

(* The run is the oldest one queued in a thread with nothing active. *)
Start(r) ==
    /\ up
    /\ stage[r] = "queued"
    /\ Cardinality(In("active")) < MaxConcurrentRuns
    /\ \A q \in Runs : ThreadOf[q] = ThreadOf[r] =>
          /\ stage[q] # "active"
          /\ stage[q] = "queued" => acceptedAt[r] <= acceptedAt[q]
    /\ Move(r, "active")
    /\ UNCHANGED <<acceptedAt, up>>

Settle(r) ==
    /\ up
    /\ stage[r] = "active"
    /\ \E s \in {"parked", "final"} : Move(r, s)
    /\ UNCHANGED <<acceptedAt, up>>

GoDown == up /\ up' = FALSE /\ UNCHANGED <<stage, acceptedAt>>

(* While the service is down, what was active is given a known stage; some *)
(* parked runs are queued again.                                           *)
Recover(r) ==
    /\ ~up
    /\ \/ stage[r] = "active" /\ \E s \in {"queued", "parked", "final"} : Move(r, s)
       \/ stage[r] = "parked" /\ Move(r, "queued")
    /\ UNCHANGED <<acceptedAt, up>>

GoUp ==
    /\ ~up
    /\ In("active") = {}
    /\ up' = TRUE
    /\ UNCHANGED <<stage, acceptedAt>>

Next ==
    \/ GoDown \/ GoUp
    \/ \E r \in Runs : Accept(r) \/ Start(r) \/ Settle(r) \/ Recover(r)

Spec == Init /\ [][Next]_vars
=============================================================================
