------------------------ MODULE AsyncSemaphoreProofs ------------------------
(***************************************************************************)
(* What acquire() and the release function do to the value of an           *)
(* AsyncSemaphore, for any number of permits and callers.                  *)
(*                                                                         *)
(* That permits are conserved is not enough to carry through a release:    *)
(* handing the permit to the head of the line keeps the count only if the  *)
(* head is not a holder already.  Sound says what else has to be known.    *)
(***************************************************************************)
EXTENDS AsyncSemaphore, FiniteSets, TLAPS, FiniteSetTheorems

Line(s) == {s.waiters[i] : i \in DOMAIN s.waiters}

(* Whoever has a permit or stands in line. *)
Members(s) == s.holders \cup Line(s)

Sound(s, Callers, capacity) ==
    /\ s \in Semaphores(Callers)
    /\ IsFiniteSet(s.holders)
    /\ s.available + Cardinality(s.holders) = capacity
    /\ s.waiters # <<>> => s.available = 0
    /\ s.holders \cap Line(s) = {}
    /\ \A i, j \in DOMAIN s.waiters : s.waiters[i] = s.waiters[j] => i = j

-----------------------------------------------------------------------------
(* A new semaphore has all its permits and nobody at it. *)
LEMMA NewSemaphoreSound ==
    ASSUME NEW Callers, NEW capacity \in Nat
    PROVE  /\ Sound(NewSemaphore(capacity), Callers, capacity)
           /\ Members(NewSemaphore(capacity)) = {}
<1>1. NewSemaphore(capacity) \in Semaphores(Callers)
    BY DEF NewSemaphore, Semaphores
<1>2. Cardinality({}) = 0 /\ IsFiniteSet({})
    BY FS_EmptySet
<1> QED
    BY <1>1, <1>2 DEF Sound, Members, Line, NewSemaphore

(* A semaphore is what its three fields are. *)
LEMMA SemaphoreFields ==
    ASSUME NEW Callers, NEW a \in Nat, NEW w \in Seq(Callers), NEW h \in SUBSET Callers
    PROVE  [available |-> a, waiters |-> w, holders |-> h] \in Semaphores(Callers)
BY DEF Semaphores

(* Appending to the line adds one caller to it. *)
LEMMA LineAppend ==
    ASSUME NEW Callers, NEW w \in Seq(Callers), NEW c \in Callers
    PROVE  /\ Append(w, c) \in Seq(Callers)
           /\ DOMAIN w = 1..Len(w) /\ Len(w) \in Nat
           /\ DOMAIN Append(w, c) = 1..(Len(w) + 1)
           /\ \A i \in 1..Len(w) : Append(w, c)[i] = w[i]
           /\ Append(w, c)[Len(w) + 1] = c
OBVIOUS

(* acquire(): the caller becomes a member, nobody loses a permit. *)
LEMMA AcquireSound ==
    ASSUME NEW Callers, NEW capacity, NEW s, NEW c \in Callers,
           Sound(s, Callers, capacity), c \notin Members(s)
    PROVE  /\ Sound(Acquire(s, c), Callers, capacity)
           /\ Members(Acquire(s, c)) = Members(s) \cup {c}
           /\ s.holders \subseteq Acquire(s, c).holders
<1> DEFINE t == Acquire(s, c)
<1>1. /\ s.available \in Nat /\ s.waiters \in Seq(Callers) /\ s.holders \in SUBSET Callers
      /\ s = [available |-> s.available, waiters |-> s.waiters, holders |-> s.holders]
    BY DEF Sound, Semaphores
<1>2. CASE s.available > 0
    <2>1. t = [available |-> s.available - 1, waiters |-> s.waiters,
               holders |-> s.holders \cup {c}]
        BY <1>1, <1>2 DEF Acquire
    <2>2. t \in Semaphores(Callers)
        <3>1. s.available - 1 \in Nat /\ s.holders \cup {c} \in SUBSET Callers
            BY <1>1, <1>2
        <3> QED
            BY <1>1, <2>1, <3>1, SemaphoreFields
    <2>3. s.waiters = <<>>
        BY <1>2 DEF Sound
    <2>4. Cardinality(s.holders \cup {c}) = Cardinality(s.holders) + 1
          /\ IsFiniteSet(s.holders \cup {c}) /\ Cardinality(s.holders) \in Nat
        BY FS_AddElement, FS_CardinalityType DEF Sound, Members
    <2>5. Line(t) = {} /\ Line(s) = {}
        BY <2>1, <2>3 DEF Line
    <2>6. /\ t.available = s.available - 1 /\ t.holders = s.holders \cup {c}
          /\ t.waiters = <<>>
        BY <2>1, <2>3
    <2>7. t.available + Cardinality(t.holders) = capacity
        BY <1>1, <2>4, <2>6 DEF Sound
    <2> HIDE DEF t
    <2> QED
        BY <2>2, <2>4, <2>5, <2>6, <2>7 DEF Sound, Members, t
<1>3. CASE ~(s.available > 0)
    <2> DEFINE w == s.waiters
    <2>1. t = [available |-> s.available, waiters |-> Append(w, c), holders |-> s.holders]
        BY <1>1, <1>3 DEF Acquire
    <2>2. /\ Append(w, c) \in Seq(Callers)
          /\ DOMAIN w = 1..Len(w) /\ Len(w) \in Nat
          /\ DOMAIN Append(w, c) = 1..(Len(w) + 1)
          /\ \A i \in 1..Len(w) : Append(w, c)[i] = w[i]
          /\ Append(w, c)[Len(w) + 1] = c
        BY <1>1, LineAppend
    <2>3. t \in Semaphores(Callers)
        <3>1. Append(w, c) \in Seq(Callers)
            BY <2>2
        <3> HIDE DEF t, w
        <3>2. [available |-> s.available, waiters |-> Append(w, c), holders |-> s.holders]
                  \in Semaphores(Callers)
            BY <1>1, <3>1, SemaphoreFields
        <3> QED
            BY <2>1, <3>2
    <2>4. Line(t) = Line(s) \cup {c}
        <3>1. t.waiters = Append(w, c)
            BY <2>1
        <3> HIDE DEF t, w
        <3>2. Line(t) = {Append(w, c)[i] : i \in 1..(Len(w) + 1)}
            BY <2>2, <3>1 DEF Line
        <3>3. Line(s) = {w[i] : i \in 1..Len(w)}
            BY <2>2 DEF Line, w
        <3>4. /\ 1..(Len(w) + 1) = 1..Len(w) \cup {Len(w) + 1}
              /\ \A i \in 1..Len(w) : Append(w, c)[i] = w[i]
              /\ Append(w, c)[Len(w) + 1] = c
            BY <2>2
        <3> QED
            BY <3>2, <3>3, <3>4
    <2>5. \A i \in 1..Len(w) : w[i] # c
        BY <2>2 DEF Members, Line
    <2>6. ASSUME NEW i \in DOMAIN t.waiters, NEW j \in DOMAIN t.waiters,
                 t.waiters[i] = t.waiters[j]
          PROVE  i = j
        <3>1. CASE i \in 1..Len(w) /\ j \in 1..Len(w)
            <4>1. w[i] = w[j]
                BY <2>1, <2>2, <2>6, <3>1
            <4> QED
                BY <2>2, <3>1, <4>1 DEF Sound
        <3>2. CASE i = Len(w) + 1 /\ j \in 1..Len(w)
            BY <2>1, <2>2, <2>5, <2>6, <3>2
        <3>3. CASE i \in 1..Len(w) /\ j = Len(w) + 1
            BY <2>1, <2>2, <2>5, <2>6, <3>3
        <3> QED
            BY <2>1, <2>2, <3>1, <3>2, <3>3
    <2>7. s.available = 0
        BY <1>1, <1>3
    <2>8. c \notin s.holders
        BY DEF Members
    <2>9. t.available = s.available /\ t.holders = s.holders
        BY <2>1
    <2> HIDE DEF t, w
    <2> QED
        BY <2>3, <2>4, <2>6, <2>7, <2>8, <2>9 DEF Sound, Members, t
<1> QED
    BY <1>1, <1>2, <1>3

(* The tail of a line without repetitions is the line without its head. *)
LEMMA LineTail ==
    ASSUME NEW Callers, NEW w \in Seq(Callers), w # <<>>
    PROVE  /\ Tail(w) \in Seq(Callers)
           /\ Len(w) \in Nat \ {0} /\ DOMAIN w = 1..Len(w)
           /\ Head(w) = w[1] /\ Head(w) \in Callers
           /\ DOMAIN Tail(w) = 1..(Len(w) - 1)
           /\ \A i \in 1..(Len(w) - 1) : Tail(w)[i] = w[i + 1]
OBVIOUS

(* The release function of a holder: it stops being a member, nobody else  *)
(* does, and nobody else loses a permit.                                   *)
LEMMA ReleaseSound ==
    ASSUME NEW Callers, NEW capacity, NEW s, NEW c \in s.holders,
           Sound(s, Callers, capacity)
    PROVE  /\ Sound(Release(s, c), Callers, capacity)
           /\ Members(Release(s, c)) = Members(s) \ {c}
           /\ s.holders \ {c} \subseteq Release(s, c).holders
<1> DEFINE t == Release(s, c)
<1>1. /\ s.available \in Nat /\ s.waiters \in Seq(Callers) /\ s.holders \in SUBSET Callers
      /\ s = [available |-> s.available, waiters |-> s.waiters, holders |-> s.holders]
    BY DEF Sound, Semaphores
<1>2. /\ Cardinality(s.holders \ {c}) = Cardinality(s.holders) - 1
      /\ IsFiniteSet(s.holders \ {c}) /\ Cardinality(s.holders) \in Nat
    BY FS_RemoveElement, FS_CardinalityType DEF Sound
<1>3. CASE s.waiters = <<>>
    <2>1. t = [available |-> s.available + 1, waiters |-> s.waiters,
               holders |-> s.holders \ {c}]
        BY <1>1, <1>3 DEF Release
    <2>2. t \in Semaphores(Callers)
        <3>1. s.available + 1 \in Nat /\ s.holders \ {c} \in SUBSET Callers
            BY <1>1
        <3> QED
            BY <1>1, <2>1, <3>1, SemaphoreFields
    <2>3. Line(t) = {} /\ Line(s) = {}
        BY <1>3, <2>1 DEF Line
    <2>4. /\ t.available = s.available + 1 /\ t.holders = s.holders \ {c}
          /\ t.waiters = <<>>
        BY <1>3, <2>1
    <2>5. t.available + Cardinality(t.holders) = capacity
        BY <1>1, <1>2, <2>4 DEF Sound
    <2> HIDE DEF t
    <2> QED
        BY <1>2, <2>2, <2>3, <2>4, <2>5 DEF Sound, Members, t
<1>4. CASE s.waiters # <<>>
    <2> DEFINE w == s.waiters
               h == Head(w)
    <2>1. t = [available |-> s.available, waiters |-> Tail(w),
               holders |-> (s.holders \ {c}) \cup {h}]
        BY <1>1, <1>4 DEF Release
    <2>2. /\ Tail(w) \in Seq(Callers)
          /\ Len(w) \in Nat \ {0} /\ DOMAIN w = 1..Len(w)
          /\ h = w[1] /\ h \in Callers
          /\ DOMAIN Tail(w) = 1..(Len(w) - 1)
          /\ \A i \in 1..(Len(w) - 1) : Tail(w)[i] = w[i + 1]
        BY <1>1, <1>4, LineTail
    <2>3. h \in Line(s) /\ h \notin s.holders
        BY <2>2 DEF Line, Sound
    <2>4. t \in Semaphores(Callers)
        <3> DEFINE H == (s.holders \ {c}) \cup {h}
        <3>1. H \in SUBSET Callers /\ Tail(w) \in Seq(Callers)
            BY <1>1, <2>2
        <3> HIDE DEF H, w, h, t
        <3>2. [available |-> s.available, waiters |-> Tail(w), holders |-> H]
                  \in Semaphores(Callers)
            BY <1>1, <3>1, SemaphoreFields
        <3> QED
            BY <2>1, <3>2 DEF H
    <2>5. Line(t) = Line(s) \ {h}
        <3>1. Line(t) = {Tail(w)[i] : i \in 1..(Len(w) - 1)}
            <4>1. t.waiters = Tail(w)
                BY <2>1
            <4>2. DOMAIN t.waiters = 1..(Len(w) - 1)
                BY <4>1, <2>2
            <4> HIDE DEF t, w
            <4> QED
                BY <4>1, <4>2 DEF Line
        <3>2. ASSUME NEW d \in Line(t) PROVE d \in Line(s) /\ d # h
            <4>1. PICK i \in 1..(Len(w) - 1) : d = w[i + 1]
                BY <2>2, <3>1, <3>2
            <4>2. i + 1 \in DOMAIN w /\ 1 \in DOMAIN w /\ i + 1 # 1
                BY <2>2
            <4> QED
                BY <2>2, <4>1, <4>2 DEF Line, Sound
        <3>3. ASSUME NEW d \in Line(s), d # h PROVE d \in Line(t)
            <4>1. PICK j \in 1..Len(w) : d = w[j]
                BY <2>2, <3>3 DEF Line
            <4>2. j - 1 \in 1..(Len(w) - 1) /\ Tail(w)[j - 1] = w[j]
                <5>1. j # 1
                    BY <2>2, <3>3, <4>1
                <5>2. j - 1 \in 1..(Len(w) - 1) /\ (j - 1) + 1 = j
                    BY <2>2, <5>1
                <5> QED
                    BY <2>2, <5>2
            <4> QED
                BY <3>1, <4>1, <4>2
        <3> QED
            BY <3>2, <3>3
    <2>6. \A i, j \in DOMAIN t.waiters : t.waiters[i] = t.waiters[j] => i = j
        <3> SUFFICES ASSUME NEW i \in 1..(Len(w) - 1), NEW j \in 1..(Len(w) - 1),
                            Tail(w)[i] = Tail(w)[j]
                     PROVE  i = j
            <4>1. t.waiters = Tail(w) /\ DOMAIN t.waiters = 1..(Len(w) - 1)
                BY <2>1, <2>2
            <4> HIDE DEF t, w
            <4> QED
                BY <4>1
        <3>1. i + 1 \in DOMAIN w /\ j + 1 \in DOMAIN w /\ w[i + 1] = w[j + 1]
            BY <2>2
        <3>2. i + 1 = j + 1
            BY <3>1 DEF Sound
        <3> QED
            BY <3>2
    <2>7. /\ Cardinality((s.holders \ {c}) \cup {h}) = Cardinality(s.holders)
          /\ IsFiniteSet((s.holders \ {c}) \cup {h})
        <3>1. h \notin s.holders \ {c}
            BY <2>3
        <3> HIDE DEF h
        <3>2. /\ Cardinality((s.holders \ {c}) \cup {h}) = Cardinality(s.holders \ {c}) + 1
              /\ IsFiniteSet((s.holders \ {c}) \cup {h})
            BY <1>2, <3>1, FS_AddElement
        <3> QED
            BY <1>2, <3>2
    <2>8. t.available = s.available /\ t.holders = (s.holders \ {c}) \cup {h}
        BY <2>1
    <2>9. c \notin Line(s) /\ s.available = 0
        BY <1>4 DEF Sound
    <2> HIDE DEF t, w, h
    <2> QED
        BY <2>3, <2>4, <2>5, <2>6, <2>7, <2>8, <2>9 DEF Sound, Members, t
<1> QED
    BY <1>3, <1>4
=============================================================================
