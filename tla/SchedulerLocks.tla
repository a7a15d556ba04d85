--------------------------- MODULE SchedulerLocks ---------------------------
(***************************************************************************)
(* The two locks every run is executed under, nested as launch() of        *)
(* src/scheduler/durable-run-queue.ts nests them: a permit of the          *)
(* AsyncSemaphore of maxConcurrentRuns, and within it the KeyedMutex of    *)
(* the run's thread.  Callers come in any order and number; the queue      *)
(* itself launches so few runs that nobody ever waits (DurableRunQueue).   *)
(*                                                                         *)
(* KeyedMutex keeps one semaphore of capacity 1 per key, made on demand    *)
(* and dropped from the map when its last user leaves.  A caller keeps a   *)
(* reference to the entry it found, so an entry dropped too early would    *)
(* leave two semaphores for one key.  Entries are therefore objects with   *)
(* an identity of their own.                                               *)
(***************************************************************************)
EXTENDS AsyncSemaphore, Integers, FiniteSets

CONSTANTS Callers,    \* the promises that execute runs
          Keys,       \* thread ids
          Entries,    \* the identities of MutexEntry objects
          Capacity,   \* maxConcurrentRuns
          NoKey,      \* the key of a caller that is not there
          NoEntry     \* what the map holds for an absent key

ASSUME CapacityAssumption == Capacity \in Nat \ {0}
ASSUME CallersFinite      == IsFiniteSet(Callers)
ASSUME NoKeyAssumption    == NoKey \notin Keys
ASSUME NoEntryAssumption  == NoEntry \notin Entries

VARIABLES permits,    \* the semaphore of the queue
          entries,    \* the map of the mutex: key to entry, or NoEntry
          semaphore,  \* entry to its semaphore
          references, \* entry to its reference count
          pc,         \* where each caller is
          key,        \* the key it asked for
          held        \* the entry it has a reference to

mutex == <<entries, semaphore, references>>
vars == <<permits, mutex, pc, key, held>>

(* The callers that have a reference to entry e. *)
Users(e) == {c \in Callers : pc[c] \in {"lock", "working", "leaving"} /\ held[c] = e}

(* An entry no caller and no key refers to: a new object can be it.        *)
Unused(e) == Users(e) = {} /\ \A k \in Keys : entries[k] # e

Init ==
    /\ permits = NewSemaphore(Capacity)
    /\ entries = [k \in Keys |-> NoEntry]
    /\ semaphore = [e \in Entries |-> NewSemaphore(1)]
    /\ references = [e \in Entries |-> 0]
    /\ pc = [c \in Callers |-> "idle"]
    /\ key = [c \in Callers |-> NoKey]
    /\ held = [c \in Callers |-> NoEntry]

-----------------------------------------------------------------------------
(* The outer runExclusive calls acquire() and awaits its promise. *)
CallAcquire(c, k) ==
    /\ pc[c] = "idle"
    /\ permits' = Acquire(permits, c)
    /\ pc' = [pc EXCEPT ![c] = "permit"]
    /\ key' = [key EXCEPT ![c] = k]
    /\ UNCHANGED <<mutex, held>>

(* getOrCreateEntry returns e: the entry of the key, or a new one.         *)
GetOrCreateEntry(k, e) ==
    \/ entries[k] = e
    \/ entries[k] = NoEntry /\ Unused(e)

(* KeyedMutex.runExclusive up to its first await: take a reference on the  *)
(* entry, a new one with a fresh semaphore and no reference, and ask its   *)
(* semaphore for the permit.                                               *)
CallLock(c, e) ==
    /\ pc[c] = "permit"
    /\ c \in permits.holders
    /\ GetOrCreateEntry(key[c], e)
    /\ LET new == entries[key[c]] = NoEntry
           sem == IF new THEN NewSemaphore(1) ELSE semaphore[e]
           ref == IF new THEN 0 ELSE references[e]
       IN  /\ entries' = [entries EXCEPT ![key[c]] = e]
           /\ semaphore' = [semaphore EXCEPT ![e] = Acquire(sem, c)]
           /\ references' = [references EXCEPT ![e] = ref + 1]
    /\ pc' = [pc EXCEPT ![c] = "lock"]
    /\ held' = [held EXCEPT ![c] = e]
    /\ UNCHANGED <<permits, key>>

StartWork(c) ==
    /\ pc[c] = "lock"
    /\ c \in semaphore[held[c]].holders
    /\ pc' = [pc EXCEPT ![c] = "working"]
    /\ UNCHANGED <<permits, mutex, key, held>>

(* The work settles, or throws: the finally block of the entry's semaphore *)
(* releases it.                                                            *)
FinishWork(c) ==
    /\ pc[c] = "working"
    /\ semaphore' = [semaphore EXCEPT ![held[c]] = Release(@, c)]
    /\ pc' = [pc EXCEPT ![c] = "leaving"]
    /\ UNCHANGED <<permits, entries, references, key, held>>

(* Mutant: whoever leaves drops the entry, whatever the reference count. *)
DropReferenceAndEntry(c) ==
    /\ pc[c] = "leaving"
    /\ references' = [references EXCEPT ![held[c]] = @ - 1]
    /\ entries' = [entries EXCEPT ![key[c]] = NoEntry]
    /\ pc' = [pc EXCEPT ![c] = "unlocked"]
    /\ held' = [held EXCEPT ![c] = NoEntry]
    /\ UNCHANGED <<permits, semaphore, key>>

(* Mutant: the entry stays in the map for ever. *)
DropReferenceKeepEntry(c) ==
    /\ pc[c] = "leaving"
    /\ references' = [references EXCEPT ![held[c]] = @ - 1]
    /\ pc' = [pc EXCEPT ![c] = "unlocked"]
    /\ held' = [held EXCEPT ![c] = NoEntry]
    /\ UNCHANGED <<permits, entries, semaphore, key>>

(* Later, the mutex's finally block drops the reference, and the entry     *)
(* with the last one.                                                      *)
DropReference(c) ==
    /\ pc[c] = "leaving"
    /\ references' = [references EXCEPT ![held[c]] = @ - 1]
    /\ entries' = IF references'[held[c]] = 0
                  THEN [entries EXCEPT ![key[c]] = NoEntry]
                  ELSE entries
    /\ pc' = [pc EXCEPT ![c] = "unlocked"]
    /\ held' = [held EXCEPT ![c] = NoEntry]
    /\ UNCHANGED <<permits, semaphore, key>>

(* Last, the finally block of the outer runExclusive. *)
ReleasePermit(c) ==
    /\ pc[c] = "unlocked"
    /\ permits' = Release(permits, c)
    /\ pc' = [pc EXCEPT ![c] = "idle"]
    /\ key' = [key EXCEPT ![c] = NoKey]
    /\ UNCHANGED <<mutex, held>>

Next ==
    \E c \in Callers :
        \/ \E k \in Keys : CallAcquire(c, k)
        \/ \E e \in Entries : CallLock(c, e)
        \/ StartWork(c)
        \/ FinishWork(c)
        \/ DropReference(c)
        \/ ReleasePermit(c)

(* The event loop runs the continuations of answered promises, and the     *)
(* work of a caller settles.                                               *)
Fairness ==
    \A c \in Callers :
        /\ WF_vars(\E e \in Entries : CallLock(c, e))
        /\ WF_vars(StartWork(c)) /\ WF_vars(FinishWork(c))
        /\ WF_vars(DropReference(c)) /\ WF_vars(ReleasePermit(c))

Spec == Init /\ [][Next]_vars /\ Fairness

-----------------------------------------------------------------------------
TypeOK ==
    /\ permits \in Semaphores(Callers)
    /\ entries \in [Keys -> Entries \cup {NoEntry}]
    /\ semaphore \in [Entries -> Semaphores(Callers)]
    /\ references \in [Entries -> Int]
    /\ pc \in [Callers -> {"idle", "permit", "lock", "working", "leaving", "unlocked"}]
    /\ key \in [Callers -> Keys \cup {NoKey}]
    /\ held \in [Callers -> Entries \cup {NoEntry}]

Live == {entries[k] : k \in Keys} \ {NoEntry}

(* No permit is lost or forged across hand-offs: the free permits and the  *)
(* ones held always add up to the capacity, of the queue's semaphore and   *)
(* of every entry in the map.                                              *)
PermitsConserved ==
    /\ permits.available + Cardinality(permits.holders) = Capacity
    /\ \A e \in Live : semaphore[e].available + Cardinality(semaphore[e].holders) = 1

(* No lost wake-up: nobody stands in line while a permit is free.          *)
NobodyWaitsInVain ==
    /\ permits.waiters # <<>> => permits.available = 0
    /\ \A e \in Live : semaphore[e].waiters # <<>> => semaphore[e].available = 0

(* The bound of README, line 8: never more than Capacity works run.        *)
Working == {c \in Callers : pc[c] = "working"}
BoundedConcurrency == Cardinality(Working) <= Capacity

(* What the mutex is for: two works of one key never overlap, even when    *)
(* the entry of the key is dropped and made again between callers.         *)
MutualExclusion == \A c, d \in Working : key[c] = key[d] => c = d

(* The map neither leaks an entry nobody uses nor loses one in use, and    *)
(* all users of a key share one entry (activeKeyCount counts keys in use). *)
EntriesMatchUse ==
    \A k \in Keys :
        LET users == {c \in Callers : held[c] # NoEntry /\ key[c] = k}
        IN  IF users = {} THEN entries[k] = NoEntry
                          ELSE \A c \in users : held[c] = entries[k]

(* Nobody starves and nothing deadlocks between the two locks: every       *)
(* caller gets to do its work, whatever the others do.                     *)
EveryCallerServed == \A c \in Callers : pc[c] = "permit" ~> pc[c] = "working"
=============================================================================
