--------------------------- MODULE AsyncSemaphore ---------------------------
(***************************************************************************)
(* The value of an AsyncSemaphore (src/scheduler/async-semaphore.ts) and   *)
(* the two things that can be done to it.  Everything between two awaits   *)
(* of the event loop is one step, so each operation is one function of the *)
(* semaphore.                                                              *)
(*                                                                         *)
(*   available   the permits nobody holds                                  *)
(*   waiters     the callers whose acquire() has not been answered         *)
(*   holders     the callers given a release function not called yet       *)
(***************************************************************************)
EXTENDS Naturals, Sequences

NewSemaphore(capacity) ==
    [available |-> capacity, waiters |-> <<>>, holders |-> {}]

(* acquire(): a free permit is taken at once, otherwise the caller joins   *)
(* the end of the line.                                                    *)
Acquire(sem, c) ==
    IF sem.available > 0
    THEN [sem EXCEPT !.available = @ - 1, !.holders = @ \cup {c}]
    ELSE [sem EXCEPT !.waiters = Append(@, c)]

(* Mutant: a permit given back past the waiters. *)
ReleaseWithoutHandOff(sem, c) ==
    IF c \notin sem.holders
    THEN sem
    ELSE [sem EXCEPT !.available = @ + 1, !.holders = @ \ {c}]

(* Mutant: the hand-off also counts the permit as free. *)
ReleaseTwice(sem, c) ==
    IF c \notin sem.holders
    THEN sem
    ELSE IF sem.waiters = <<>>
         THEN [sem EXCEPT !.available = @ + 1, !.holders = @ \ {c}]
         ELSE [sem EXCEPT !.waiters = Tail(@), !.available = @ + 1,
                          !.holders = (@ \ {c}) \cup {Head(sem.waiters)}]

(* The function acquire() returned: a second call does nothing, the first  *)
(* hands the permit to the longest waiter or gives it back.                *)
Release(sem, c) ==
    IF c \notin sem.holders
    THEN sem
    ELSE IF sem.waiters = <<>>
         THEN [sem EXCEPT !.available = @ + 1, !.holders = @ \ {c}]
         ELSE [sem EXCEPT !.waiters = Tail(@),
                          !.holders = (@ \ {c}) \cup {Head(sem.waiters)}]

Semaphores(Callers) ==
    [available : Nat, waiters : Seq(Callers), holders : SUBSET Callers]
=============================================================================
