------------------------ MODULE SchedulerLocksProofs ------------------------
(***************************************************************************)
(* Proofs about SchedulerLocks, for any number of callers, keys, entries   *)
(* and permits.                                                            *)
(*                                                                         *)
(* MutualExclusion follows from two facts that have to be carried along:   *)
(* all callers of one key hold a reference to the entry the map has for    *)
(* the key (EntryOfKey), and whoever works is a holder of that entry's     *)
(* semaphore, which has one permit (EntrySound).  That the entry is not    *)
(* dropped under a caller's feet takes the reference count: it is the      *)
(* number of callers with a reference.                                     *)
(***************************************************************************)
EXTENDS SchedulerLocks, AsyncSemaphoreProofs

InLock == {"lock", "working", "leaving"}

PermitSide ==
    /\ Sound(permits, Callers, Capacity)
    /\ Members(permits) = {c \in Callers : pc[c] # "idle"}
    /\ \A c \in Callers : pc[c] \in InLock \cup {"unlocked"} => c \in permits.holders

EntryOfKey ==
    /\ \A c \in Callers : pc[c] # "idle" <=> key[c] # NoKey
    /\ \A c \in Callers : pc[c] \in InLock <=> held[c] # NoEntry
    /\ \A c \in Callers : pc[c] \in InLock => held[c] = entries[key[c]]
    /\ \A k, l \in Keys : entries[k] = entries[l] /\ entries[k] # NoEntry => k = l

EntrySound(e) ==
    /\ Users(e) # {}
    /\ references[e] = Cardinality(Users(e))
    /\ Sound(semaphore[e], Callers, 1)
    /\ Members(semaphore[e]) = {c \in Callers : pc[c] \in {"lock", "working"} /\ held[c] = e}
    /\ \A c \in Callers : pc[c] = "working" /\ held[c] = e => c \in semaphore[e].holders

EntrySide == \A e \in Entries : e \in Live => EntrySound(e)

IInv == TypeOK /\ PermitSide /\ EntryOfKey /\ EntrySide

-----------------------------------------------------------------------------
LEMMA UsersFinite == ASSUME NEW e PROVE IsFiniteSet(Users(e)) /\ Cardinality(Users(e)) \in Nat
BY CallersFinite, FS_Subset, FS_CardinalityType DEF Users

LEMMA InitIInv == Init => IInv
<1> SUFFICES ASSUME Init PROVE IInv
    OBVIOUS
<1> USE DEF Init
<1>1. Sound(permits, Callers, Capacity) /\ Members(permits) = {}
    BY CapacityAssumption, NewSemaphoreSound
<1>2. TypeOK
    <2>1. permits \in Semaphores(Callers) /\ NewSemaphore(1) \in Semaphores(Callers)
        BY <1>1, NewSemaphoreSound DEF Sound
    <2> QED
        BY <2>1 DEF TypeOK
<1>3. PermitSide
    BY <1>1 DEF PermitSide, InLock
<1>4. EntryOfKey
    BY DEF EntryOfKey, InLock
<1>5. EntrySide
    BY DEF EntrySide, Live
<1> QED
    BY <1>2, <1>3, <1>4, <1>5 DEF IInv

(* A step that moves no caller into or out of the mutex, and leaves the    *)
(* mutex alone, disturbs nothing there.                                    *)
LEMMA MutexUntouched ==
    ASSUME IInv, UNCHANGED <<mutex, held>>, TypeOK',
           \A d \in Callers : pc'[d] = pc[d] \/ (pc[d] \notin InLock /\ pc'[d] \notin InLock)
    PROVE  EntrySide'
<1> USE DEF InLock, mutex
<1> SUFFICES ASSUME NEW e \in Entries, e \in Live' PROVE EntrySound(e)'
    BY DEF EntrySide
<1>1. EntrySound(e)
    BY DEF IInv, EntrySide, Live
<1>2. Users(e)' = Users(e)
    BY DEF Users
<1>3. {c \in Callers : pc'[c] \in {"lock", "working"} /\ held'[c] = e}
        = {c \in Callers : pc[c] \in {"lock", "working"} /\ held[c] = e}
    OBVIOUS
<1> QED
    BY <1>1, <1>2, <1>3 DEF EntrySound

LEMMA CallAcquireStep ==
    ASSUME IInv, NEW c \in Callers, NEW k \in Keys, CallAcquire(c, k) PROVE IInv'
<1> USE DEF IInv, CallAcquire
<1>1. c \notin Members(permits)
    BY DEF PermitSide
<1>2. /\ Sound(permits', Callers, Capacity)
      /\ Members(permits') = Members(permits) \cup {c}
      /\ permits.holders \subseteq permits'.holders
    BY <1>1, AcquireSound DEF PermitSide
<1>3. pc' = [pc EXCEPT ![c] = "permit"] /\ \A d \in Callers : pc'[d] = IF d = c THEN "permit" ELSE pc[d]
    BY DEF TypeOK
<1>4. TypeOK'
    BY <1>2 DEF TypeOK, Sound, mutex
<1>5. PermitSide'
    BY <1>2, <1>3 DEF PermitSide, InLock
<1>6. EntryOfKey'
    BY <1>3, NoKeyAssumption DEF EntryOfKey, TypeOK, InLock, mutex
<1>7. EntrySide'
    <2>1. \A d \in Callers : pc'[d] = pc[d] \/ (pc[d] \notin InLock /\ pc'[d] \notin InLock)
        BY <1>3 DEF InLock
    <2> QED
        BY <1>4, <2>1, MutexUntouched
<1> QED
    BY <1>4, <1>5, <1>6, <1>7

LEMMA ReleasePermitStep ==
    ASSUME IInv, NEW c \in Callers, ReleasePermit(c) PROVE IInv'
<1> USE DEF IInv, ReleasePermit
<1>1. c \in permits.holders
    BY DEF PermitSide
<1>2. /\ Sound(permits', Callers, Capacity)
      /\ Members(permits') = Members(permits) \ {c}
      /\ permits.holders \ {c} \subseteq permits'.holders
    BY <1>1, ReleaseSound DEF PermitSide
<1>3. \A d \in Callers : pc'[d] = IF d = c THEN "idle" ELSE pc[d]
    BY DEF TypeOK
<1>4. TypeOK'
    BY <1>2 DEF TypeOK, Sound, mutex
<1>5. PermitSide'
    BY <1>2, <1>3 DEF PermitSide, InLock
<1>6. EntryOfKey'
    BY <1>3 DEF EntryOfKey, TypeOK, InLock, mutex
<1>7. EntrySide'
    <2>1. \A d \in Callers : pc'[d] = pc[d] \/ (pc[d] \notin InLock /\ pc'[d] \notin InLock)
        BY <1>3 DEF InLock
    <2> QED
        BY <1>4, <2>1, MutexUntouched
<1> QED
    BY <1>4, <1>5, <1>6, <1>7

(* A caller that has asked for the mutex or is about to has a key, and its *)
(* entry, if it has one, is the one of that key alone.                     *)
LEMMA KeyInUse ==
    ASSUME IInv, NEW c \in Callers, pc[c] # "idle"
    PROVE  /\ key[c] \in Keys
           /\ pc[c] \in InLock => /\ held[c] \in Entries
                                  /\ held[c] = entries[key[c]]
                                  /\ EntrySound(held[c])
                                  /\ \A k \in Keys : entries[k] = held[c] => k = key[c]
<1>1. key[c] \in Keys
    BY DEF IInv, TypeOK, EntryOfKey
<1>2. ASSUME pc[c] \in InLock
      PROVE  /\ held[c] \in Entries /\ held[c] = entries[key[c]]
             /\ \A k \in Keys : entries[k] = held[c] => k = key[c]
    BY <1>1, <1>2 DEF IInv, TypeOK, EntryOfKey
<1>3. ASSUME pc[c] \in InLock PROVE EntrySound(held[c])
    <2>1. held[c] \in Live
        BY <1>1, <1>2, <1>3, NoEntryAssumption DEF Live
    <2> QED
        BY <1>2, <1>3, <2>1 DEF IInv, EntrySide
<1> QED
    BY <1>1, <1>2, <1>3

(* An entry a step leaves alone, with all who refer to it. *)
LEMMA EntryUntouched ==
    ASSUME NEW f \in Entries, EntrySound(f),
           semaphore'[f] = semaphore[f], references'[f] = references[f],
           \A d \in Callers : (held'[d] = f <=> held[d] = f)
                              /\ (held[d] = f => pc'[d] = pc[d])
    PROVE  EntrySound(f)'
<1>1. Users(f)' = Users(f)
    BY DEF Users
<1>2. {d \in Callers : pc'[d] \in {"lock", "working"} /\ held'[d] = f}
        = {d \in Callers : pc[d] \in {"lock", "working"} /\ held[d] = f}
    OBVIOUS
<1> QED
    BY <1>1, <1>2 DEF EntrySound

LEMMA CallLockStep ==
    ASSUME IInv, NEW c \in Callers, NEW e \in Entries, CallLock(c, e) PROVE IInv'
<1> DEFINE k == key[c]
           new == entries[k] = NoEntry
           sem == IF new THEN NewSemaphore(1) ELSE semaphore[e]
           ref == IF new THEN 0 ELSE references[e]
<1>1. k \in Keys /\ pc[c] = "permit" /\ e # NoEntry /\ held[c] = NoEntry
    BY KeyInUse, NoEntryAssumption DEF CallLock, IInv, EntryOfKey, InLock
(* Found or new, the entry is as its users left it, and of no other key. *)
<1>2. /\ Sound(sem, Callers, 1)
      /\ Members(sem) = {d \in Callers : pc[d] \in {"lock", "working"} /\ held[d] = e}
      /\ \A d \in Callers : pc[d] = "working" /\ held[d] = e => d \in sem.holders
      /\ ref = Cardinality(Users(e))
      /\ \A l \in Keys : entries[l] = e => l = k
    <2>1. CASE entries[k] = e
        <3>1. e \in Live /\ EntrySound(e)
            BY <1>1, <2>1 DEF IInv, EntrySide, Live
        <3>2. \A l \in Keys : entries[l] = e => l = k
            BY <1>1, <2>1 DEF IInv, EntryOfKey
        <3> QED
            BY <1>1, <2>1, <3>1, <3>2 DEF EntrySound
    <2>2. CASE entries[k] = NoEntry /\ Unused(e)
        <3>1. Users(e) = {} /\ \A l \in Keys : entries[l] # e
            BY <2>2 DEF Unused
        <3>2. {d \in Callers : pc[d] \in {"lock", "working"} /\ held[d] = e} = {}
            BY <3>1 DEF Users
        <3>3. Sound(sem, Callers, 1) /\ Members(sem) = {} /\ ref = 0
            BY <2>2, NewSemaphoreSound
        <3>4. Cardinality(Users(e)) = 0
            BY <3>1, FS_EmptySet
        <3> HIDE DEF sem, ref
        <3> QED
            BY <3>1, <3>2, <3>3, <3>4
    <2> QED
        BY <2>1, <2>2 DEF CallLock, GetOrCreateEntry
<1>3. /\ entries' = [entries EXCEPT ![k] = e]
      /\ semaphore' = [semaphore EXCEPT ![e] = Acquire(sem, c)]
      /\ references' = [references EXCEPT ![e] = ref + 1]
      /\ pc' = [pc EXCEPT ![c] = "lock"]
      /\ held' = [held EXCEPT ![c] = e]
      /\ UNCHANGED <<permits, key>>
    BY DEF CallLock
<1> HIDE DEF sem, ref
<1>4. /\ Sound(Acquire(sem, c), Callers, 1)
      /\ Members(Acquire(sem, c)) = Members(sem) \cup {c}
      /\ sem.holders \subseteq Acquire(sem, c).holders
    BY <1>1, <1>2, AcquireSound
<1>5. \A d \in Callers : /\ pc'[d] = IF d = c THEN "lock" ELSE pc[d]
                         /\ held'[d] = IF d = c THEN e ELSE held[d]
    BY <1>3 DEF IInv, TypeOK
<1>6. \A l \in Keys : entries'[l] = IF l = k THEN e ELSE entries[l]
    BY <1>3 DEF IInv, TypeOK
<1>7. \A f \in Entries : /\ semaphore'[f] = IF f = e THEN Acquire(sem, c) ELSE semaphore[f]
                         /\ references'[f] = IF f = e THEN ref + 1 ELSE references[f]
    BY <1>3 DEF IInv, TypeOK
<1>8. Cardinality(Users(e)) \in Nat /\ IsFiniteSet(Users(e))
    BY UsersFinite
<1>9. TypeOK'
    <2>1. Acquire(sem, c) \in Semaphores(Callers) /\ ref + 1 \in Int
        BY <1>2, <1>4, <1>8 DEF Sound
    <2> QED
        BY <1>3, <2>1 DEF IInv, TypeOK
<1>10. PermitSide'
    BY <1>1, <1>3, <1>5 DEF CallLock, IInv, PermitSide, InLock
<1>11. EntryOfKey'
    <2> USE DEF IInv, EntryOfKey, InLock
    <2>1. \A d \in Callers : pc'[d] # "idle" <=> key'[d] # NoKey
        BY <1>1, <1>3, <1>5
    <2>2. \A d \in Callers : pc'[d] \in InLock <=> held'[d] # NoEntry
        BY <1>1, <1>5
    <2>3. ASSUME NEW d \in Callers, pc'[d] \in InLock PROVE held'[d] = entries'[key'[d]]
        <3>1. key[d] \in Keys /\ key'[d] = key[d]
            BY <1>1, <1>3, <1>5, <2>3, KeyInUse
        <3>2. CASE d = c
            BY <1>5, <1>6, <3>1, <3>2
        <3>3. CASE d # c
            <4>1. held[d] = entries[key[d]] /\ held[d] # NoEntry
                BY <1>5, <2>3, <3>3
            <4>2. entries[k] = e \/ entries[k] = NoEntry
                BY DEF CallLock, GetOrCreateEntry
            <4> QED
                BY <1>5, <1>6, <3>1, <3>3, <4>1, <4>2
        <3> QED
            BY <3>2, <3>3
    <2>4. \A l, m \in Keys : entries'[l] = entries'[m] /\ entries'[l] # NoEntry => l = m
        BY <1>1, <1>2, <1>6
    <2> QED
        BY <2>1, <2>2, <2>3, <2>4
<1>12. EntrySide'
    <2>1. EntrySound(e)'
        <3>1. Users(e)' = Users(e) \cup {c} /\ c \notin Users(e)
            BY <1>1, <1>5 DEF Users
        <3>2. Cardinality(Users(e) \cup {c}) = Cardinality(Users(e)) + 1
            BY <1>8, <3>1, FS_AddElement
        <3>3. {d \in Callers : pc'[d] \in {"lock", "working"} /\ held'[d] = e}
                = {d \in Callers : pc[d] \in {"lock", "working"} /\ held[d] = e} \cup {c}
            BY <1>5
        <3>4. \A d \in Callers : pc'[d] = "working" /\ held'[d] = e
                                   => d \in Acquire(sem, c).holders
            BY <1>2, <1>4, <1>5
        <3>5. semaphore'[e] = Acquire(sem, c) /\ references'[e] = Cardinality(Users(e))'
            BY <1>2, <1>7, <3>1, <3>2
        <3> QED
            BY <1>2, <1>4, <3>1, <3>3, <3>4, <3>5 DEF EntrySound
    <2>2. ASSUME NEW f \in Entries, f # e, f \in Live' PROVE EntrySound(f)'
        <3>1. EntrySound(f)
            BY <1>6, <2>2 DEF IInv, EntrySide, Live
        <3>2. semaphore'[f] = semaphore[f] /\ references'[f] = references[f]
            BY <1>7, <2>2
        <3>3. \A d \in Callers : (held'[d] = f <=> held[d] = f)
                                 /\ (held[d] = f => pc'[d] = pc[d])
            BY <1>1, <1>5, <2>2, NoEntryAssumption
        <3> QED
            BY <3>1, <3>2, <3>3, EntryUntouched
    <2> QED
        BY <2>1, <2>2 DEF EntrySide
<1> QED
    BY <1>9, <1>10, <1>11, <1>12 DEF IInv

LEMMA StartWorkStep ==
    ASSUME IInv, NEW c \in Callers, StartWork(c) PROVE IInv'
<1>1. PICK e \in Entries : held[c] = e
    BY KeyInUse DEF StartWork, InLock
<1>2. /\ pc[c] = "lock" /\ c \in semaphore[e].holders
      /\ UNCHANGED <<permits, entries, semaphore, references, key, held>>
      /\ \A d \in Callers : pc'[d] = IF d = c THEN "working" ELSE pc[d]
    BY <1>1 DEF StartWork, mutex, IInv, TypeOK
<1>3. TypeOK'
    BY <1>2 DEF StartWork, IInv, TypeOK
<1>4. PermitSide'
    BY <1>2 DEF IInv, PermitSide, InLock
<1>5. EntryOfKey'
    BY <1>2 DEF IInv, EntryOfKey, InLock
<1>6. ASSUME NEW f \in Entries, f \in Live' PROVE EntrySound(f)'
    <2>1. EntrySound(f)
        BY <1>2, <1>6 DEF IInv, EntrySide, Live
    <2>2. CASE f # e
        BY <1>1, <1>2, <2>1, <2>2, EntryUntouched
    <2>3. CASE f = e
        <3>1. Users(f)' = Users(f)
            BY <1>2 DEF Users
        <3>2. {d \in Callers : pc'[d] \in {"lock", "working"} /\ held'[d] = f}
                = {d \in Callers : pc[d] \in {"lock", "working"} /\ held[d] = f}
            BY <1>2
        <3> QED
            BY <1>2, <2>1, <2>3, <3>1, <3>2 DEF EntrySound
    <2> QED
        BY <2>2, <2>3
<1> QED
    BY <1>3, <1>4, <1>5, <1>6 DEF IInv, EntrySide

LEMMA FinishWorkStep ==
    ASSUME IInv, NEW c \in Callers, FinishWork(c) PROVE IInv'
<1>1. PICK e \in Entries : held[c] = e
    BY KeyInUse DEF FinishWork, InLock
<1>2. /\ pc[c] = "working"
      /\ UNCHANGED <<permits, entries, references, key, held>>
      /\ \A d \in Callers : pc'[d] = IF d = c THEN "leaving" ELSE pc[d]
      /\ \A f \in Entries : semaphore'[f] = IF f = e THEN Release(semaphore[e], c)
                                                     ELSE semaphore[f]
    BY <1>1 DEF FinishWork, IInv, TypeOK
<1>3. /\ EntrySound(e) /\ c \in semaphore[e].holders
      /\ Sound(Release(semaphore[e], c), Callers, 1)
      /\ Members(Release(semaphore[e], c)) = Members(semaphore[e]) \ {c}
      /\ semaphore[e].holders \ {c} \subseteq Release(semaphore[e], c).holders
    <2>1. EntrySound(e)
        BY <1>1, <1>2, KeyInUse DEF InLock
    <2>2. c \in semaphore[e].holders /\ Sound(semaphore[e], Callers, 1)
        BY <1>1, <1>2, <2>1 DEF EntrySound
    <2> QED
        BY <2>1, <2>2, ReleaseSound
<1>4. TypeOK'
    <2>1. Release(semaphore[e], c) \in Semaphores(Callers)
        BY <1>3 DEF Sound
    <2> QED
        BY <1>1, <2>1 DEF FinishWork, IInv, TypeOK
<1>5. PermitSide'
    BY <1>2 DEF IInv, PermitSide, InLock
<1>6. EntryOfKey'
    BY <1>2 DEF IInv, EntryOfKey, InLock
<1>7. ASSUME NEW f \in Entries, f \in Live' PROVE EntrySound(f)'
    <2>1. EntrySound(f)
        BY <1>2, <1>7 DEF IInv, EntrySide, Live
    <2>2. CASE f # e
        BY <1>1, <1>2, <2>1, <2>2, EntryUntouched
    <2>3. CASE f = e
        <3>1. Users(f)' = Users(f)
            BY <1>2 DEF Users
        <3>2. {d \in Callers : pc'[d] \in {"lock", "working"} /\ held'[d] = f}
                = {d \in Callers : pc[d] \in {"lock", "working"} /\ held[d] = f} \ {c}
            BY <1>2
        <3>3. \A d \in Callers : pc'[d] = "working" /\ held'[d] = f
                                   => d \in semaphore[e].holders \ {c}
            BY <1>2, <2>1, <2>3 DEF EntrySound
        <3>4. semaphore'[f] = Release(semaphore[e], c) /\ references'[f] = references[f]
            BY <1>2, <2>3
        <3> QED
            BY <1>3, <2>1, <2>3, <3>1, <3>2, <3>3, <3>4 DEF EntrySound
    <2> QED
        BY <2>2, <2>3
<1> QED
    BY <1>4, <1>5, <1>6, <1>7 DEF IInv, EntrySide

LEMMA DropReferenceStep ==
    ASSUME IInv, NEW c \in Callers, DropReference(c) PROVE IInv'
<1>1. PICK e \in Entries : held[c] = e
    BY KeyInUse DEF DropReference, InLock
<1> DEFINE k == key[c]
<1>2. /\ pc[c] = "leaving" /\ k \in Keys /\ entries[k] = e /\ EntrySound(e)
      /\ \A l \in Keys : entries[l] = e => l = k
    BY <1>1, KeyInUse DEF DropReference, InLock
<1>3. /\ UNCHANGED <<permits, semaphore, key>>
      /\ \A d \in Callers : /\ pc'[d] = IF d = c THEN "unlocked" ELSE pc[d]
                            /\ held'[d] = IF d = c THEN NoEntry ELSE held[d]
      /\ \A f \in Entries : references'[f] = IF f = e THEN references[e] - 1
                                                      ELSE references[f]
    BY <1>1 DEF DropReference, IInv, TypeOK
<1>4. /\ Users(e)' = Users(e) \ {c}
      /\ Cardinality(Users(e)') = references[e] - 1
      /\ IsFiniteSet(Users(e)')
    <2>1. Users(e)' = Users(e) \ {c} /\ c \in Users(e)
        BY <1>1, <1>2, <1>3, NoEntryAssumption DEF Users
    <2>2. IsFiniteSet(Users(e)) /\ references[e] = Cardinality(Users(e))
        BY <1>2, UsersFinite DEF EntrySound
    <2>3. /\ Cardinality(Users(e) \ {c}) = Cardinality(Users(e)) - 1
          /\ IsFiniteSet(Users(e) \ {c})
        BY <2>1, <2>2, FS_RemoveElement
    <2> QED
        BY <2>1, <2>2, <2>3
(* The count reaches zero exactly with the last user. *)
<1>5. references'[e] = 0 <=> Users(e)' = {}
    BY <1>3, <1>4, FS_EmptySet
<1>6. \A l \in Keys : entries'[l] = IF l = k /\ Users(e)' = {} THEN NoEntry ELSE entries[l]
    BY <1>1, <1>2, <1>5 DEF DropReference, IInv, TypeOK
<1>7. TypeOK'
    <2>1. entries' \in [Keys -> Entries \cup {NoEntry}]
        BY DEF DropReference, IInv, TypeOK
    <2>2. references' \in [Entries -> Int]
        BY <1>1 DEF DropReference, IInv, TypeOK
    <2>3. /\ pc' \in [Callers -> {"idle", "permit", "lock", "working", "leaving", "unlocked"}]
          /\ held' \in [Callers -> Entries \cup {NoEntry}]
        BY DEF DropReference, IInv, TypeOK
    <2> QED
        BY <1>3, <2>1, <2>2, <2>3 DEF IInv, TypeOK
<1>8. PermitSide'
    BY <1>2, <1>3 DEF IInv, PermitSide, InLock
<1>9. EntryOfKey'
    <2> USE DEF IInv, EntryOfKey, InLock
    <2>1. \A d \in Callers : pc'[d] # "idle" <=> key'[d] # NoKey
        BY <1>2, <1>3
    <2>2. \A d \in Callers : pc'[d] \in InLock <=> held'[d] # NoEntry
        BY <1>3
    <2>3. ASSUME NEW d \in Callers, pc'[d] \in InLock PROVE held'[d] = entries'[key'[d]]
        <3>1. d # c /\ pc[d] \in InLock /\ held'[d] = held[d] /\ key'[d] = key[d]
            BY <1>3, <2>3
        <3>2. key[d] \in Keys /\ held[d] = entries[key[d]]
            BY <3>1, KeyInUse
        <3>3. key[d] = k => d \in Users(e)'
            BY <1>2, <2>3, <3>1, <3>2 DEF Users
        <3> QED
            BY <1>6, <3>1, <3>2, <3>3
    <2>4. \A l, m \in Keys : entries'[l] = entries'[m] /\ entries'[l] # NoEntry => l = m
        BY <1>6
    <2> QED
        BY <2>1, <2>2, <2>3, <2>4
<1>10. ASSUME NEW f \in Entries, f \in Live' PROVE EntrySound(f)'
    <2>1. EntrySound(f)
        BY <1>6, <1>10 DEF IInv, EntrySide, Live
    <2>2. CASE f # e
        BY <1>1, <1>3, <2>1, <2>2, EntryUntouched, NoEntryAssumption
    <2>3. CASE f = e
        <3>1. Users(e)' # {}
            BY <1>2, <1>6, <1>10, <2>3 DEF Live
        <3>2. references'[e] = Cardinality(Users(e)') /\ semaphore'[e] = semaphore[e]
            BY <1>3, <1>4
        <3>3. {d \in Callers : pc'[d] \in {"lock", "working"} /\ held'[d] = e}
                = {d \in Callers : pc[d] \in {"lock", "working"} /\ held[d] = e}
            BY <1>2, <1>3
        <3>4. \A d \in Callers : pc'[d] = "working" /\ held'[d] = e
                                   => pc[d] = "working" /\ held[d] = e
            BY <1>2, <1>3
        <3> QED
            BY <2>1, <2>3, <3>1, <3>2, <3>3, <3>4 DEF EntrySound
    <2> QED
        BY <2>2, <2>3
<1> QED
    BY <1>7, <1>8, <1>9, <1>10 DEF IInv, EntrySide

-----------------------------------------------------------------------------
(* IInv is inductive: every action, and stuttering, preserves it. *)
LEMMA NextIInv == IInv /\ [Next]_vars => IInv'
<1> SUFFICES ASSUME IInv, [Next]_vars PROVE IInv'
    OBVIOUS
<1>1. CASE UNCHANGED vars
    BY <1>1 DEF vars, mutex, IInv, TypeOK, PermitSide, EntryOfKey, EntrySide, EntrySound,
                Users, Live
<1>2. ASSUME NEW c \in Callers, NEW k \in Keys, CallAcquire(c, k) PROVE IInv'
    BY <1>2, CallAcquireStep
<1>3. ASSUME NEW c \in Callers, NEW e \in Entries, CallLock(c, e) PROVE IInv'
    BY <1>3, CallLockStep
<1>4. ASSUME NEW c \in Callers, StartWork(c) PROVE IInv'
    BY <1>4, StartWorkStep
<1>5. ASSUME NEW c \in Callers, FinishWork(c) PROVE IInv'
    BY <1>5, FinishWorkStep
<1>6. ASSUME NEW c \in Callers, DropReference(c) PROVE IInv'
    BY <1>6, DropReferenceStep
<1>7. ASSUME NEW c \in Callers, ReleasePermit(c) PROVE IInv'
    BY <1>7, ReleasePermitStep
<1> QED
    BY <1>1, <1>2, <1>3, <1>4, <1>5, <1>6, <1>7 DEF Next

LEMMA SpecIInv == Spec => []IInv
<1>1. Init => IInv
    BY InitIInv
<1>2. IInv /\ [Next]_vars => IInv'
    BY NextIInv
<1> QED
    BY <1>1, <1>2, PTL DEF Spec

(* Every variable of the two locks keeps its type. *)
THEOREM SpecTypeOK == Spec => []TypeOK
<1>1. IInv => TypeOK
    BY DEF IInv
<1> QED
    BY <1>1, SpecIInv, PTL

(* However many callers pass through however many keys, no hand-off of     *)
(* async-semaphore.ts loses a permit or makes one.                         *)
THEOREM SpecPermitsConserved == Spec => []PermitsConserved
<1>1. IInv => PermitsConserved
    <2> SUFFICES ASSUME IInv PROVE PermitsConserved
        OBVIOUS
    <2>1. permits.available + Cardinality(permits.holders) = Capacity
        BY DEF IInv, PermitSide, Sound
    <2>2. ASSUME NEW e \in Live
          PROVE  semaphore[e].available + Cardinality(semaphore[e].holders) = 1
        BY DEF Live, IInv, TypeOK, EntrySide, EntrySound, Sound
    <2> QED
        BY <2>1, <2>2 DEF PermitsConserved
<1> QED
    BY <1>1, SpecIInv, PTL

(* No caller stands in line for a free permit, of either kind of lock. *)
THEOREM SpecNobodyWaitsInVain == Spec => []NobodyWaitsInVain
<1>1. IInv => NobodyWaitsInVain
    <2> SUFFICES ASSUME IInv PROVE NobodyWaitsInVain
        OBVIOUS
    <2>1. permits.waiters # <<>> => permits.available = 0
        BY DEF IInv, PermitSide, Sound
    <2>2. ASSUME NEW e \in Live
          PROVE  semaphore[e].waiters # <<>> => semaphore[e].available = 0
        BY DEF Live, IInv, TypeOK, EntrySide, EntrySound, Sound
    <2> QED
        BY <2>1, <2>2 DEF NobodyWaitsInVain
<1> QED
    BY <1>1, SpecIInv, PTL

(* maxConcurrentRuns is never exceeded: whoever works holds a permit. *)
THEOREM SpecBoundedConcurrency == Spec => []BoundedConcurrency
<1>1. IInv => BoundedConcurrency
    <2> SUFFICES ASSUME IInv PROVE BoundedConcurrency
        OBVIOUS
    <2>1. /\ Working \subseteq permits.holders /\ IsFiniteSet(permits.holders)
          /\ permits.available \in Nat
          /\ permits.available + Cardinality(permits.holders) = Capacity
        BY DEF Working, IInv, PermitSide, InLock, Sound, Semaphores
    <2>2. Cardinality(Working) <= Cardinality(permits.holders)
          /\ Cardinality(Working) \in Nat /\ Cardinality(permits.holders) \in Nat
        BY <2>1, FS_Subset, FS_CardinalityType
    <2> QED
        BY <2>1, <2>2, CapacityAssumption DEF BoundedConcurrency
<1> QED
    BY <1>1, SpecIInv, PTL

(* A set with at most one element has at most one element. *)
LEMMA AtMostOne ==
    ASSUME NEW S, IsFiniteSet(S), Cardinality(S) <= 1, NEW c \in S, NEW d \in S
    PROVE  c = d
<1> SUFFICES ASSUME c # d PROVE FALSE
    OBVIOUS
<1>1. IsFiniteSet(S \ {c}) /\ Cardinality(S \ {c}) = Cardinality(S) - 1
    BY FS_RemoveElement
<1>2. d \in S \ {c}
    OBVIOUS
<1>3. Cardinality(S \ {c}) \in Nat \ {0} /\ Cardinality(S) \in Nat
    BY <1>1, <1>2, FS_CardinalityType, FS_EmptySet
<1> QED
    BY <1>1, <1>3

(* The README's "one active message per local thread": keyed-mutex.ts      *)
(* never lets two works of one key overlap.                                *)
THEOREM SpecMutualExclusion == Spec => []MutualExclusion
<1>1. IInv => MutualExclusion
    <2> SUFFICES ASSUME IInv, NEW c \in Callers, NEW d \in Callers,
                        pc[c] = "working", pc[d] = "working", key[c] = key[d]
                 PROVE  c = d
        BY DEF MutualExclusion, Working
    <2>1. PICK e \in Entries : held[c] = e
        BY KeyInUse DEF InLock
    <2>2. held[d] = e /\ EntrySound(e)
        BY <2>1, KeyInUse DEF InLock
    <2>3. c \in semaphore[e].holders /\ d \in semaphore[e].holders
        BY <2>1, <2>2 DEF EntrySound
    <2>4. IsFiniteSet(semaphore[e].holders) /\ Cardinality(semaphore[e].holders) <= 1
        <3>1. /\ IsFiniteSet(semaphore[e].holders) /\ semaphore[e].available \in Nat
              /\ semaphore[e].available + Cardinality(semaphore[e].holders) = 1
            BY <2>2 DEF EntrySound, Sound, Semaphores
        <3>2. Cardinality(semaphore[e].holders) \in Nat
            BY <3>1, FS_CardinalityType
        <3> QED
            BY <3>1, <3>2
    <2> QED
        BY <2>3, <2>4, AtMostOne
<1> QED
    BY <1>1, SpecIInv, PTL

(* Entries come and go with their users: none leaks, none is lost in use. *)
THEOREM SpecEntriesMatchUse == Spec => []EntriesMatchUse
<1>1. IInv => EntriesMatchUse
    <2> SUFFICES ASSUME IInv, NEW k \in Keys PROVE
            LET users == {c \in Callers : held[c] # NoEntry /\ key[c] = k}
            IN  IF users = {} THEN entries[k] = NoEntry
                              ELSE \A c \in users : held[c] = entries[k]
        BY DEF EntriesMatchUse
    <2> DEFINE users == {c \in Callers : held[c] # NoEntry /\ key[c] = k}
    <2>1. \A c \in users : held[c] = entries[k]
        BY DEF IInv, EntryOfKey
    <2>2. ASSUME entries[k] # NoEntry PROVE users # {}
        <3>1. PICK e \in Entries : entries[k] = e
            BY <2>2 DEF IInv, TypeOK
        <3>2. EntrySound(e)
            BY <2>2, <3>1 DEF IInv, EntrySide, Live
        <3>3. PICK c \in Callers : pc[c] \in InLock /\ held[c] = e
            BY <3>2 DEF EntrySound, Users, InLock
        <3>4. key[c] = k
            BY <3>1, <3>3, KeyInUse DEF InLock
        <3> QED
            BY <2>2, <3>1, <3>3, <3>4
    <2> QED
        BY <2>1, <2>2
<1> QED
    BY <1>1, SpecIInv, PTL
=============================================================================
