------------------------------ MODULE PagePool ------------------------------
(***************************************************************************)
(* The pool of browser tabs, src/browser/page-pool.ts: tabs are made on    *)
(* demand up to a limit, leased to one client each, wiped between clients, *)
(* kept for a while when nobody wants them, and all closed with the pool.  *)
(*                                                                         *)
(* The browser answers in its own time and may close a tab at any moment.  *)
(* Each of its messages is a task of its own, so that a continuation runs  *)
(* before the next message is looked at, and is one action with it.        *)
(***************************************************************************)
EXTENDS Naturals, Sequences, FiniteSets, SequencesExt

CONSTANTS Clients,    \* those who lease, one lease at a time each
          Pages,      \* the identities of Page objects
          MaxPages,
          NoPage

ASSUME PoolAssumptions == MaxPages \in Nat \ {0} /\ NoPage \notin Pages

VARIABLES
    pages,      \* the tabs the pool counts
    activePages,
    idlePages,
    waiters,    \* clients in line
    creatingPages,
    closed,
    at,         \* where the promise of each client is
    page,       \* the tab it has
    aborted,    \* clients whose signal is aborted
    open,       \* external: the tabs that exist in the browser
    closing     \* tabs on which close() has been called

pool == <<pages, activePages, idlePages, waiters, creatingPages>>
vars == <<pool, closed, at, page, aborted, open, closing>>

Init ==
    /\ pages = {} /\ activePages = {} /\ idlePages = <<>> /\ waiters = <<>>
    /\ creatingPages = 0
    /\ closed = FALSE
    /\ at = [c \in Clients |-> "out"]
    /\ page = [c \in Clients |-> NoPage]
    /\ aborted = {}
    /\ open = {} /\ closing = {}

(* A tab nobody refers to any more: a new one may be it. *)
Fresh == Pages \ (open \cup {page[c] : c \in Clients})

Fewer(m, n) == IF m < n THEN m ELSE n

-----------------------------------------------------------------------------
(* A step leaves the pool as given and then drains it: clients in line are *)
(* given the idle tabs, then new ones as far as the limit allows.          *)
Undrained(pgs, act, idle, line, creating, pos, tab) ==    \* Mutant
    /\ pages' = pgs /\ activePages' = act /\ idlePages' = idle /\ waiters' = line
    /\ creatingPages' = creating /\ at' = pos /\ page' = tab
drainWaiters(pgs, act, idle, line, creating, pos, tab) ==
    LET free == IF Cardinality(pgs) + creating < MaxPages
                THEN MaxPages - (Cardinality(pgs) + creating) ELSE 0
        reused == IF closed THEN 0 ELSE Fewer(Len(idle), Len(line))
        made == IF closed THEN 0 ELSE Fewer(Len(line) - reused, free)
        rank(c) == CHOOSE i \in 1..Len(line) : line[i] = c
        served(c) == c \in Range(line) /\ rank(c) <= reused
        awaits(c) == c \in Range(line) /\ rank(c) \in (reused + 1)..(reused + made)
    IN  /\ pages' = pgs
        /\ activePages' = act \cup {idle[i] : i \in 1..reused}
        /\ idlePages' = SubSeq(idle, reused + 1, Len(idle))
        /\ waiters' = SubSeq(line, reused + made + 1, Len(line))
        /\ creatingPages' = creating + made
        /\ at' = [c \in Clients |-> CASE served(c) -> "leased"
                                      [] awaits(c) -> "creating"
                                      [] OTHER     -> pos[c]]
        /\ page' = [c \in Clients |-> IF served(c) THEN idle[rank(c)] ELSE tab[c]]

(* lease(): an idle tab, a new one, or a place in line. *)
RoomIgnoringCreations == Cardinality(pages) < MaxPages    \* Mutant
Room == Cardinality(pages) + creatingPages < MaxPages

Lease(c) ==
    /\ at[c] = "out"
    /\ ~closed /\ c \notin aborted
    /\ \/ /\ idlePages # <<>>
          /\ activePages' = activePages \cup {Head(idlePages)}
          /\ idlePages' = Tail(idlePages)
          /\ at' = [at EXCEPT ![c] = "leased"]
          /\ page' = [page EXCEPT ![c] = Head(idlePages)]
          /\ UNCHANGED <<waiters, creatingPages>>
       \/ /\ idlePages = <<>> /\ Room
          /\ creatingPages' = creatingPages + 1
          /\ at' = [at EXCEPT ![c] = "creating"]
          /\ UNCHANGED <<activePages, idlePages, waiters, page>>
       \/ /\ idlePages = <<>> /\ ~Room
          /\ waiters' = Append(waiters, c)
          /\ at' = [at EXCEPT ![c] = "waiting"]
          /\ UNCHANGED <<activePages, idlePages, creatingPages, page>>
    /\ UNCHANGED <<pages, closed, aborted, open, closing>>

WantedIfAsked(c) == c \in aborted    \* Mutant: closed is not looked at again
Unwanted(c) == closed \/ c \in aborted

(* newPage() answers: the tab joins the pool, unless nobody wants it any   *)
(* more; either way the finally block drains.                              *)
PageCreated(c, p) ==
    /\ at[c] = "creating"
    /\ p \in Fresh
    /\ IF Unwanted(c)
       THEN /\ drainWaiters(pages, activePages, idlePages, waiters, creatingPages - 1,
                            [at EXCEPT ![c] = "out"], page)
            /\ UNCHANGED <<open, closing>>
       ELSE /\ drainWaiters(pages \cup {p}, activePages \cup {p}, idlePages, waiters,
                            creatingPages - 1, [at EXCEPT ![c] = "leased"],
                            [page EXCEPT ![c] = p])
            /\ open' = open \cup {p}
            /\ closing' = closing \ {p}
    /\ UNCHANGED <<closed, aborted>>

CreationFails(c) ==
    /\ at[c] = "creating"
    /\ drainWaiters(pages, activePages, idlePages, waiters, creatingPages - 1,
                    [at EXCEPT ![c] = "out"], page)
    /\ UNCHANGED <<closed, aborted, open, closing>>

(* The release function of a lease: nothing if the tab is already gone     *)
(* from the pool, otherwise the tab is wiped, or thrown away.              *)
Release(c, discard) ==
    /\ at[c] = "leased"
    /\ LET p == page[c]
           away == closed \/ discard \/ p \notin open
       IN  IF p \notin activePages
           THEN /\ at' = [at EXCEPT ![c] = "out"]
                /\ page' = [page EXCEPT ![c] = NoPage]
                /\ UNCHANGED <<pages, activePages, closing>>
           ELSE /\ activePages' = activePages \ {p}
                /\ pages' = IF away THEN pages \ {p} ELSE pages
                /\ closing' = IF away THEN closing \cup {p} ELSE closing
                /\ at' = [at EXCEPT ![c] = IF away THEN "discarding" ELSE "resetting"]
                /\ UNCHANGED page
    /\ UNCHANGED <<idlePages, waiters, creatingPages, closed, aborted, open>>

(* Mutant: a tab given to the head of the line is kept as idle as well. *)
HandOverAndKeep(c) ==
    LET p == page[c]
        next == IF waiters = <<>> THEN c ELSE Head(waiters)
    IN  /\ activePages' = IF next = c THEN activePages ELSE activePages \cup {p}
        /\ waiters' = IF next = c THEN waiters ELSE Tail(waiters)
        /\ idlePages' = Append(idlePages, p)
        /\ at' = [d \in Clients |-> CASE d = c -> "out"
                                      [] d = next /\ d # c -> "leased"
                                      [] OTHER -> at[d]]
        /\ page' = [d \in Clients |-> CASE d = c -> NoPage
                                        [] d = next /\ d # c -> p
                                        [] OTHER -> page[d]]
        /\ UNCHANGED <<pages, creatingPages>>
(* A wiped tab goes to the head of the line, or is kept for the next.      *)
HandOver(c) ==
    LET p == page[c]
    IN  IF waiters # <<>>
        THEN /\ activePages' = activePages \cup {p}
             /\ waiters' = Tail(waiters)
             /\ at' = [at EXCEPT ![c] = "out", ![Head(waiters)] = "leased"]
             /\ page' = [page EXCEPT ![c] = NoPage, ![Head(waiters)] = p]
             /\ UNCHANGED <<pages, idlePages, creatingPages>>
        ELSE /\ idlePages' = Append(idlePages, p)
             /\ at' = [at EXCEPT ![c] = "out"]
             /\ page' = [page EXCEPT ![c] = NoPage]
             /\ UNCHANGED <<pages, activePages, waiters, creatingPages>>

ResetDone(c) ==
    /\ at[c] = "resetting"
    /\ page[c] \in open
    /\ HandOver(c)
    /\ UNCHANGED <<closed, aborted, open, closing>>

ResetFails(c) ==
    /\ at[c] = "resetting"
    /\ pages' = pages \ {page[c]}
    /\ closing' = closing \cup {page[c]}
    /\ at' = [at EXCEPT ![c] = "discarding"]
    /\ UNCHANGED <<activePages, idlePages, waiters, creatingPages, closed, page, aborted, open>>

(* The tab thrown away is closed; releasePage drains once more. *)
Discarded(c) ==
    /\ at[c] = "discarding"
    /\ page[c] \notin open
    /\ drainWaiters(pages, activePages, idlePages, waiters, creatingPages,
                    [at EXCEPT ![c] = "out"], [page EXCEPT ![c] = NoPage])
    /\ UNCHANGED <<closed, aborted, open, closing>>

(* A tab is gone, because it was closed or of its own accord:              *)
(* handlePageClosed.                                                       *)
PageCloses(p) ==
    /\ p \in open
    /\ open' = open \ {p}
    /\ drainWaiters(pages \ {p}, activePages \ {p},
                    RemoveFirst(idlePages, p), waiters, creatingPages, at, page)
    /\ UNCHANGED <<closed, aborted, closing>>

(* The timer of an idle tab. *)
IdleTimeout(p) ==
    /\ p \in Range(idlePages)
    /\ idlePages' = RemoveFirst(idlePages, p)
    /\ pages' = pages \ {p}
    /\ closing' = closing \cup {p}
    /\ UNCHANGED <<activePages, waiters, creatingPages, closed, at, page, aborted, open>>

(* The signal of a client: one in line leaves it. *)
Abort(c) ==
    /\ at[c] \in {"waiting", "creating"}
    /\ c \notin aborted
    /\ aborted' = aborted \cup {c}
    /\ waiters' = RemoveFirst(waiters, c)
    /\ at' = IF at[c] = "waiting" THEN [at EXCEPT ![c] = "out"] ELSE at
    /\ UNCHANGED <<pages, activePages, idlePages, creatingPages, closed, page, open, closing>>

Close ==
    /\ ~closed
    /\ closed' = TRUE
    /\ at' = [c \in Clients |-> IF at[c] = "waiting" THEN "out" ELSE at[c]]
    /\ waiters' = <<>> /\ idlePages' = <<>> /\ pages' = {} /\ activePages' = {}
    /\ closing' = closing \cup pages
    /\ UNCHANGED <<creatingPages, page, aborted, open>>

Next ==
    \/ Close
    \/ \E p \in Pages : PageCloses(p) \/ IdleTimeout(p)
    \/ \E c \in Clients :
          \/ Lease(c) \/ CreationFails(c) \/ Abort(c)
          \/ \E p \in Pages : PageCreated(c, p)
          \/ \E discard \in BOOLEAN : Release(c, discard)
          \/ ResetDone(c) \/ ResetFails(c) \/ Discarded(c)

Spec == Init /\ [][Next]_vars

-----------------------------------------------------------------------------
TypeOK ==
    /\ pages \subseteq Pages /\ activePages \subseteq Pages
    /\ idlePages \in Seq(Pages) /\ waiters \in Seq(Clients)
    /\ creatingPages \in Nat /\ closed \in BOOLEAN
    /\ at \in [Clients -> {"out", "waiting", "creating", "leased", "resetting", "discarding"}]
    /\ page \in [Clients -> Pages \cup {NoPage}]
    /\ aborted \subseteq Clients /\ open \subseteq Pages /\ closing \subseteq Pages

(* "Bounded tab leasing" (README, line 11): tabs in the pool and tabs on   *)
(* their way never exceed the limit together, however leases, failures and *)
(* closing tabs interleave.                                                *)
PoolBounded == Cardinality(pages) + creatingPages <= MaxPages

(* No two clients share a tab, and none gets a tab that is still being     *)
(* wiped or waits to be given away: one conversation never sees another's. *)
TabsNotShared ==
    /\ \A c, d \in Clients :
          {at[c], at[d]} \subseteq {"leased", "resetting"} /\ page[c] = page[d] => c = d
    /\ \A c \in Clients : at[c] \in {"leased", "resetting"} => page[c] \notin Range(idlePages)

(* No lost wake-up: whoever is in line has nothing it could be given, or a *)
(* tab is being thrown away whose release will drain.                      *)
NoWaiterForgotten ==
    waiters # <<>> =>
        /\ idlePages = <<>>
        /\ ~Room \/ \E c \in Clients : at[c] = "discarding"

(* Every tab that exists is counted or is being closed, and a closed pool  *)
(* keeps none.                                                             *)
NoTabLeaks == open \subseteq closing \cup (IF closed THEN {} ELSE pages)
=============================================================================
