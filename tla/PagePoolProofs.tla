--------------------------- MODULE PagePoolProofs ---------------------------
(***************************************************************************)
(* Proofs about PagePool, for any number of clients and tabs and any       *)
(* limit.                                                                  *)
(*                                                                         *)
(* Every step that can make room ends in drainWaiters, so what a drain     *)
(* does is stated once (DrainEffect) and what it keeps is proved for       *)
(* whatever the step leaves it with (Sorted, DrainKeeps).  The limit needs *)
(* to know that creatingPages counts the clients whose tab is on its way   *)
(* (Counted), and that no tab is shared needs the queue of idle tabs to    *)
(* hold each once and only tabs nobody has (Owned).                        *)
(***************************************************************************)
EXTENDS PagePool, TLAPS, FiniteSetTheorems, SequenceTheorems

Distinct(s) == \A i, j \in DOMAIN s : s[i] = s[j] => i = j

-----------------------------------------------------------------------------
(* findIndex and splice: the element is gone, the rest stays. *)
LEMMA RemoveFirstEffect ==
    ASSUME NEW S, NEW s \in Seq(S), NEW e, Distinct(s)
    PROVE  LET r == RemoveFirst(s, e)
           IN  /\ r \in Seq(S) /\ Distinct(r)
               /\ Range(r) = Range(s) \ {e}
<1>1. CASE e \notin Range(s)
    <2>1. RemoveFirst(s, e) = s
        BY <1>1 DEF RemoveFirst, Range
    <2> QED
        BY <1>1, <2>1
<1>2. CASE e \in Range(s)
    <2>1. PICK i \in 1..Len(s) : s[i] = e
        BY <1>2 DEF Range
    <2>2. {k \in 1..Len(s) : s[k] = e} = {i}
        BY <2>1 DEF Distinct
    <2>3. SelectInSeq(s, LAMBDA v : v = e) = i
        <3>1. Min({i}) = i
            BY DEF Min
        <3> QED
            BY <2>2, <3>1 DEF SelectInSeq
    <2>4. RemoveFirst(s, e) = SubSeq(s, 1, i - 1) \o SubSeq(s, i + 1, Len(s))
        BY <2>1, <2>3 DEF RemoveFirst, RemoveAt
    <2> DEFINE r == SubSeq(s, 1, i - 1) \o SubSeq(s, i + 1, Len(s))
    <2>5. /\ r \in Seq(S) /\ Len(r) = Len(s) - 1
          /\ \A k \in 1..(Len(s) - 1) : r[k] = IF k < i THEN s[k] ELSE s[k + 1]
        <3> DEFINE a == SubSeq(s, 1, i - 1)
                   b == SubSeq(s, i + 1, Len(s))
        <3>1. a \in Seq(S) /\ Len(a) = i - 1 /\ \A k \in 1..(i - 1) : a[k] = s[k]
            BY <2>1
        <3>2. /\ b \in Seq(S) /\ Len(b) = Len(s) - i
              /\ \A k \in 1..(Len(s) - i) : b[k] = s[k + i]
            BY <2>1
        <3>0. ASSUME NEW j \in 1..(Len(s) - i), NEW k, j + i = k PROVE b[j] = s[k]
            BY <3>2, <3>0
        <3> HIDE DEF a, b
        <3>3. /\ a \o b \in Seq(S) /\ Len(a \o b) = Len(s) - 1
              /\ \A k \in 1..(Len(s) - 1) :
                    (a \o b)[k] = IF k <= Len(a) THEN a[k] ELSE b[k - Len(a)]
            <4>1. Len(a) + Len(b) = Len(s) - 1
                BY <2>1, <3>1, <3>2
            <4>2. /\ a \o b \in Seq(S) /\ Len(a \o b) = Len(a) + Len(b)
                  /\ \A k \in 1..(Len(a) + Len(b)) :
                        (a \o b)[k] = IF k <= Len(a) THEN a[k] ELSE b[k - Len(a)]
                BY <3>1, <3>2, ConcatProperties
            <4> QED
                BY <4>1, <4>2
        <3>4. \A k \in 1..(Len(s) - 1) : (a \o b)[k] = IF k < i THEN s[k] ELSE s[k + 1]
            <4> TAKE k \in 1..(Len(s) - 1)
            <4>1. CASE k < i
                <5>1. k <= Len(a) /\ k \in 1..(i - 1)
                    BY <2>1, <3>1, <4>1
                <5> QED
                    BY <3>1, <3>3, <4>1, <5>1
            <4>2. CASE ~(k < i)
                <5> DEFINE j == k - Len(a)
                <5>1. /\ ~(k <= Len(a)) /\ ~(k < i)
                      /\ j \in 1..(Len(s) - i) /\ j + i = k + 1
                    <6>1. Len(a) = i - 1
                        BY <3>1
                    <6> QED
                        BY <4>2, <6>1
                <5>2. (a \o b)[k] = b[j]
                    BY <3>3, <5>1
                <5> HIDE DEF j
                <5>3. b[j] = s[k + 1]
                    BY <3>0, <5>1
                <5> QED
                    BY <5>1, <5>2, <5>3
            <4> QED
                BY <4>1, <4>2
        <3> QED
            BY <3>3, <3>4 DEF a, b
    <2> HIDE DEF r
    <2> DEFINE g(k) == IF k < i THEN k ELSE k + 1
    <2>0. \A k \in 1..(Len(s) - 1) : g(k) \in 1..Len(s) /\ g(k) # i /\ r[k] = s[g(k)]
        BY <2>1, <2>5
    <2>6. Distinct(r)
        <3> SUFFICES ASSUME NEW j \in 1..(Len(s) - 1), NEW k \in 1..(Len(s) - 1), r[j] = r[k]
                     PROVE  j = k
            BY <2>5 DEF Distinct
        <3>1. s[g(j)] = s[g(k)] /\ g(j) \in 1..Len(s) /\ g(k) \in 1..Len(s)
            BY <2>0
        <3>2. g(j) = g(k)
            BY <3>1 DEF Distinct
        <3> QED
            BY <2>1, <3>2
    <2>7. ASSUME NEW x \in Range(r) PROVE x \in Range(s) \ {e}
        <3>1. PICK k \in 1..(Len(s) - 1) : r[k] = x
            BY <2>5, <2>7 DEF Range
        <3>2. g(k) \in 1..Len(s) /\ g(k) # i /\ s[g(k)] = x
            BY <2>0, <3>1
        <3> HIDE DEF g
        <3>3. s[g(k)] # e
            BY <2>1, <3>2 DEF Distinct
        <3> QED
            BY <3>2, <3>3 DEF Range
    <2>8. ASSUME NEW k \in 1..Len(s), k # i PROVE s[k] \in Range(r)
        <3>1. CASE k < i
            BY <2>1, <2>5, <3>1 DEF Range
        <3>2. CASE k > i
            <4>1. k - 1 \in 1..(Len(s) - 1) /\ r[k - 1] = s[k]
                BY <2>1, <2>5, <3>2
            <4> QED
                BY <2>5, <4>1 DEF Range
        <3> QED
            BY <2>1, <2>8, <3>1, <3>2
    <2>9. Range(r) = Range(s) \ {e}
        <3>1. ASSUME NEW x \in Range(s) \ {e} PROVE x \in Range(r)
            <4>1. PICK k \in 1..Len(s) : s[k] = x
                BY <3>1 DEF Range
            <4> QED
                BY <2>1, <2>8, <4>1
        <3> QED
            BY <2>7, <3>1
    <2> QED
        BY <2>4, <2>5, <2>6, <2>9 DEF r
<1> QED
    BY <1>1, <1>2

-----------------------------------------------------------------------------
(* What a drain does: k clients of the line get the first k idle tabs, the *)
(* next m wait for a new one, and it stops only when the line is empty or  *)
(* there is nothing left to give.                                          *)
Drained(k, m, pgs, act, idle, line, creating, pos, tab) ==
    /\ k <= Len(idle) /\ k + m <= Len(line)
    /\ m > 0 => Cardinality(pgs) + creating + m <= MaxPages
    /\ closed => k + m = 0
    /\ ~closed => \/ k + m = Len(line)
                  \/ k = Len(idle) /\ Cardinality(pgs) + creating + m >= MaxPages
    /\ pages' = pgs
    /\ activePages' = act \cup {idle[i] : i \in 1..k}
    /\ idlePages' = SubSeq(idle, k + 1, Len(idle))
    /\ waiters' = SubSeq(line, k + m + 1, Len(line))
    /\ creatingPages' = creating + m
    /\ at' = [c \in Clients |-> at'[c]] /\ page' = [c \in Clients |-> page'[c]]
    /\ \A i \in 1..k : at'[line[i]] = "leased" /\ page'[line[i]] = idle[i]
    /\ \A i \in (k + 1)..(k + m) : at'[line[i]] = "creating" /\ page'[line[i]] = tab[line[i]]
    /\ \A c \in Clients : (\A i \in 1..(k + m) : line[i] # c)
                                => at'[c] = pos[c] /\ page'[c] = tab[c]

LEMMA DrainEffect ==
    ASSUME NEW pgs, NEW act, NEW idle \in Seq(Pages), NEW line \in Seq(Clients),
           NEW creating \in Nat, NEW pos, NEW tab,
           Cardinality(pgs) \in Nat, Distinct(line),
           drainWaiters(pgs, act, idle, line, creating, pos, tab)
    PROVE  \E k, m \in Nat : Drained(k, m, pgs, act, idle, line, creating, pos, tab)
<1> DEFINE free == IF Cardinality(pgs) + creating < MaxPages
                   THEN MaxPages - (Cardinality(pgs) + creating) ELSE 0
           k == IF closed THEN 0 ELSE Fewer(Len(idle), Len(line))
           m == IF closed THEN 0 ELSE Fewer(Len(line) - k, free)
           rank(c) == CHOOSE i \in 1..Len(line) : line[i] = c
<1>1. MaxPages \in Nat /\ Len(idle) \in Nat /\ Len(line) \in Nat
    BY PoolAssumptions
<1>2. /\ k \in Nat /\ m \in Nat
      /\ k <= Len(idle) /\ k + m <= Len(line)
      /\ m > 0 => Cardinality(pgs) + creating + m <= MaxPages
      /\ closed => k + m = 0
      /\ ~closed => \/ k + m = Len(line)
                    \/ k = Len(idle) /\ Cardinality(pgs) + creating + m >= MaxPages
    BY <1>1 DEF Fewer
<1>3. /\ pages' = pgs
      /\ activePages' = act \cup {idle[i] : i \in 1..k}
      /\ idlePages' = SubSeq(idle, k + 1, Len(idle))
      /\ waiters' = SubSeq(line, k + m + 1, Len(line))
      /\ creatingPages' = creating + m
      /\ at' = [c \in Clients |-> CASE c \in Range(line) /\ rank(c) <= k -> "leased"
                                    [] c \in Range(line) /\ rank(c) \in (k + 1)..(k + m)
                                           -> "creating"
                                    [] OTHER -> pos[c]]
      /\ page' = [c \in Clients |-> IF c \in Range(line) /\ rank(c) <= k THEN idle[rank(c)]
                                                                          ELSE tab[c]]
    BY DEF drainWaiters
<1> HIDE DEF free, k, m
<1>4. ASSUME NEW i \in 1..Len(line)
      PROVE  line[i] \in Range(line) /\ line[i] \in Clients /\ rank(line[i]) = i
    BY <1>1, <1>4 DEF Distinct, Range
<1>5. ASSUME NEW c \in Range(line) PROVE rank(c) \in 1..Len(line) /\ line[rank(c)] = c
    <2>1. \E i \in 1..Len(line) : line[i] = c
        BY <1>5 DEF Range
    <2> QED
        BY <2>1
<1> HIDE DEF rank
<1>6. ASSUME NEW i \in 1..k PROVE at'[line[i]] = "leased" /\ page'[line[i]] = idle[i]
    <2>1. i \in 1..Len(line)
        BY <1>1, <1>2
    <2>2. rank(line[i]) = i /\ line[i] \in Range(line) /\ line[i] \in Clients
        BY <1>4, <2>1
    <2> QED
        BY <1>2, <1>3, <2>2
<1>7. ASSUME NEW i \in (k + 1)..(k + m)
      PROVE  at'[line[i]] = "creating" /\ page'[line[i]] = tab[line[i]]
    <2>1. i \in 1..Len(line)
        BY <1>1, <1>2
    <2>2. rank(line[i]) = i /\ line[i] \in Range(line) /\ line[i] \in Clients
        BY <1>4, <2>1
    <2>3. ~(i <= k)
        BY <1>2
    <2> QED
        BY <1>3, <2>2, <2>3
<1>8. ASSUME NEW c \in Clients, \A i \in 1..(k + m) : line[i] # c
      PROVE  at'[c] = pos[c] /\ page'[c] = tab[c]
    <2>1. c \in Range(line) => rank(c) \notin 1..(k + m) /\ rank(c) \in 1..Len(line)
        BY <1>5, <1>8
    <2>2. ~(c \in Range(line) /\ rank(c) <= k)
          /\ ~(c \in Range(line) /\ rank(c) \in (k + 1)..(k + m))
        BY <1>1, <1>2, <2>1
    <2> QED
        BY <1>3, <2>2
<1>9. at' = [c \in Clients |-> at'[c]] /\ page' = [c \in Clients |-> page'[c]]
    BY <1>3
<1>10. Drained(k, m, pgs, act, idle, line, creating, pos, tab)
    BY <1>2, <1>3, <1>6, <1>7, <1>8, <1>9 DEF Drained
<1> QED
    BY <1>2, <1>10

-----------------------------------------------------------------------------
(* The invariant, of values, so that it can be asked of the arguments of a *)
(* drain as well as of the state.                                          *)
Positions == {"out", "waiting", "creating", "leased", "resetting", "discarding"}

Typed(pgs, act, idle, line, creating, pos, tab) ==
    /\ pgs \subseteq Pages /\ act \subseteq Pages
    /\ idle \in Seq(Pages) /\ line \in Seq(Clients)
    /\ creating \in Nat
    /\ pos \in [Clients -> Positions] /\ tab \in [Clients -> Pages \cup {NoPage}]

(* Clients in line are there once, and know it. *)
InLine(line, pos) ==
    /\ Distinct(line)
    /\ \A c \in Clients : pos[c] = "waiting" <=> c \in Range(line)

Creating(pos) == {c \in Clients : pos[c] = "creating"}

Counted(pos, creating) ==
    IsFiniteSet(Creating(pos)) /\ Cardinality(Creating(pos)) = creating

Bounded(pgs, creating) == IsFiniteSet(pgs) /\ Cardinality(pgs) + creating <= MaxPages

Holds(pos, c) == pos[c] \in {"leased", "resetting"}

(* Idle tabs exist, are listed once, and nobody has them. *)
Owned(idle, pos, tab, exist) ==
    /\ Distinct(idle) /\ Range(idle) \subseteq exist
    /\ \A c \in Clients : Holds(pos, c) => tab[c] \in Pages \ Range(idle)
    /\ \A c, d \in Clients : Holds(pos, c) /\ Holds(pos, d) /\ tab[c] = tab[d] => c = d

-----------------------------------------------------------------------------
(* The b entries that follow the first a. *)
Segment(s, a, b) == {s[i] : i \in (a + 1)..(a + b)}

LEMMA SegmentCardinality ==
    ASSUME NEW S, NEW s \in Seq(S), Distinct(s), NEW a \in Nat, NEW b \in Nat,
           a + b <= Len(s)
    PROVE  IsFiniteSet(Segment(s, a, b)) /\ Cardinality(Segment(s, a, b)) = b
<1> DEFINE I == (a + 1)..(a + b)
           T == {s[i] : i \in I}
           f == [i \in I |-> s[i]]
<1>1. IsFiniteSet(I) /\ Cardinality(I) = b
    BY FS_Interval
<1>2. f \in Bijection(I, T)
    BY DEF Bijection, Injection, Surjection, IsInjective, Distinct
<1>3. ExistsBijection(I, T)
    BY <1>2 DEF ExistsBijection
<1> HIDE DEF I, T
<1>4. IsFiniteSet(T) /\ Cardinality(T) = b
    BY <1>1, <1>3, FS_Bijection
<1> QED
    BY <1>4 DEF I, T, Segment

(* What is left of a sequence of which the first n have been taken. *)
LEMMA RestOf ==
    ASSUME NEW S, NEW s \in Seq(S), Distinct(s), NEW n \in Nat, n <= Len(s)
    PROVE  LET t == SubSeq(s, n + 1, Len(s))
           IN  /\ t \in Seq(S) /\ Distinct(t)
               /\ \A x \in S : x \in Range(t) <=>
                     x \in Range(s) /\ \A i \in 1..n : s[i] # x
<1> DEFINE t == SubSeq(s, n + 1, Len(s))
<1>1. t \in Seq(S) /\ Len(t) = Len(s) - n /\ \A i \in 1..(Len(s) - n) : t[i] = s[i + n]
    OBVIOUS
<1> HIDE DEF t
<1>2. Distinct(t)
    <2> SUFFICES ASSUME NEW i \in 1..(Len(s) - n), NEW j \in 1..(Len(s) - n), t[i] = t[j]
                 PROVE  i = j
        BY <1>1 DEF Distinct
    <2>1. i + n \in 1..Len(s) /\ j + n \in 1..Len(s) /\ s[i + n] = s[j + n]
        BY <1>1
    <2> QED
        BY <2>1 DEF Distinct
<1>3. ASSUME NEW x \in Range(t) PROVE x \in Range(s) /\ \A i \in 1..n : s[i] # x
    <2>1. PICK j \in 1..(Len(s) - n) : s[j + n] = x
        BY <1>1, <1>3 DEF Range
    <2> QED
        BY <2>1 DEF Range, Distinct
<1>4. ASSUME NEW x \in Range(s), \A i \in 1..n : s[i] # x PROVE x \in Range(t)
    <2>1. PICK j \in 1..Len(s) : s[j] = x
        BY <1>4 DEF Range
    <2>2. j - n \in 1..(Len(s) - n) /\ t[j - n] = x
        BY <1>1, <1>4, <2>1
    <2> QED
        BY <1>1, <2>2 DEF Range
<1> QED
    BY <1>1, <1>2, <1>3, <1>4 DEF t

-----------------------------------------------------------------------------
(* A drain keeps the invariant. *)

LEMMA DrainTyped ==
    ASSUME NEW pgs, NEW act, NEW idle, NEW line, NEW creating, NEW pos, NEW tab,
           NEW k \in Nat, NEW m \in Nat,
           Typed(pgs, act, idle, line, creating, pos, tab), Distinct(line), Distinct(idle),
           Drained(k, m, pgs, act, idle, line, creating, pos, tab)
    PROVE  Typed(pages', activePages', idlePages', waiters', creatingPages', at', page')
<1>1. /\ idle \in Seq(Pages) /\ line \in Seq(Clients)
      /\ k <= Len(idle) /\ k + m <= Len(line) /\ Len(idle) \in Nat /\ Len(line) \in Nat
    BY DEF Typed, Drained
<1>2. idlePages' \in Seq(Pages) /\ waiters' \in Seq(Clients)
    <2>1. /\ idlePages' = SubSeq(idle, k + 1, Len(idle))
          /\ waiters' = SubSeq(line, k + m + 1, Len(line))
        BY DEF Drained
    <2>2. SubSeq(idle, k + 1, Len(idle)) \in Seq(Pages)
        BY <1>1, RestOf
    <2>3. SubSeq(line, k + m + 1, Len(line)) \in Seq(Clients)
        BY <1>1, RestOf
    <2> QED
        BY <2>1, <2>2, <2>3
<1>3. activePages' \subseteq Pages
    <2>1. \A i \in 1..k : idle[i] \in Pages
        BY <1>1
    <2>2. activePages' = act \cup {idle[i] : i \in 1..k} /\ act \subseteq Pages
        BY DEF Drained, Typed
    <2> QED
        BY <2>1, <2>2
<1>4. ASSUME NEW c \in Clients
      PROVE  at'[c] \in Positions /\ page'[c] \in Pages \cup {NoPage}
    <2>1. CASE \A i \in 1..(k + m) : line[i] # c
        BY <2>1 DEF Drained, Typed
    <2>2. ASSUME NEW i \in 1..(k + m), line[i] = c
          PROVE  at'[c] \in Positions /\ page'[c] \in Pages \cup {NoPage}
        <3>1. CASE i <= k
            <4>1. idle[i] \in Pages /\ i \in 1..k
                BY <1>1, <3>1
            <4> QED
                BY <2>2, <4>1 DEF Drained, Positions
        <3>2. CASE i > k
            <4>1. i \in (k + 1)..(k + m)
                BY <3>2
            <4> QED
                BY <2>2, <4>1 DEF Drained, Positions, Typed
        <3> QED
            BY <3>1, <3>2
    <2> QED
        BY <2>1, <2>2
<1>5. at' \in [Clients -> Positions] /\ page' \in [Clients -> Pages \cup {NoPage}]
    <2>1. at' = [c \in Clients |-> at'[c]] /\ page' = [c \in Clients |-> page'[c]]
        BY DEF Drained
    <2> QED
        BY <1>4, <2>1
<1>6. pages' \subseteq Pages /\ creatingPages' \in Nat
    <2>1. pages' = pgs /\ creatingPages' = creating + m
        BY DEF Drained
    <2>2. pgs \subseteq Pages /\ creating \in Nat
        BY DEF Typed
    <2> QED
        BY <2>1, <2>2
<1> QED
    BY <1>2, <1>3, <1>5, <1>6 DEF Typed

(* Those given a tab, or the promise of one, leave the line. *)
LEMMA DrainLine ==
    ASSUME NEW pgs, NEW act, NEW idle, NEW line, NEW creating, NEW pos, NEW tab,
           NEW k \in Nat, NEW m \in Nat,
           Typed(pgs, act, idle, line, creating, pos, tab), InLine(line, pos),
           Drained(k, m, pgs, act, idle, line, creating, pos, tab)
    PROVE  /\ InLine(waiters', at')
           /\ Creating(at') = Creating(pos) \cup Segment(line, k, m)
           /\ Creating(pos) \cap Segment(line, k, m) = {}
           /\ \A c \in Clients : Holds(at', c) => Holds(pos, c) \/ \E i \in 1..k : line[i] = c
           /\ \A c \in Clients : Holds(pos, c) => page'[c] = tab[c]
<1>1. /\ line \in Seq(Clients) /\ Len(line) \in Nat /\ k + m <= Len(line) /\ Distinct(line)
    BY DEF Typed, Drained, InLine
<1>2. \A i \in 1..Len(line) : line[i] \in Clients /\ pos[line[i]] = "waiting"
    BY <1>1 DEF InLine, Range
<1>3. \A i \in 1..k : at'[line[i]] = "leased" /\ i \in 1..Len(line)
    <2>1. \A i \in 1..k : at'[line[i]] = "leased"
        BY DEF Drained
    <2> QED
        BY <1>1, <2>1
<1>4. \A i \in (k + 1)..(k + m) : at'[line[i]] = "creating" /\ i \in 1..Len(line)
    <2>1. \A i \in (k + 1)..(k + m) : at'[line[i]] = "creating"
        BY DEF Drained
    <2> QED
        BY <1>1, <2>1
<1>5. \A c \in Clients : (\A i \in 1..(k + m) : line[i] # c)
                               => at'[c] = pos[c] /\ page'[c] = tab[c]
    BY DEF Drained
<1>6. \A c \in Clients : \/ \A i \in 1..(k + m) : line[i] # c
                         \/ \E i \in 1..k : line[i] = c
                         \/ \E i \in (k + 1)..(k + m) : line[i] = c
    OBVIOUS
<1>7. /\ Distinct(waiters')
      /\ \A c \in Clients : c \in Range(waiters') <=>
            c \in Range(line) /\ \A i \in 1..(k + m) : line[i] # c
    <2>1. waiters' = SubSeq(line, k + m + 1, Len(line))
        BY DEF Drained
    <2>2. k + m \in Nat
        OBVIOUS
    <2> QED
        BY <1>1, <2>1, <2>2, RestOf
<1>8. \A c \in Clients : at'[c] = "waiting" <=> c \in Range(waiters')
    <2> TAKE c \in Clients
    <2>1. CASE \A i \in 1..(k + m) : line[i] # c
        BY <1>5, <1>7, <2>1 DEF InLine
    <2>2. CASE \E i \in 1..k : line[i] = c
        BY <1>3, <1>7, <2>2
    <2>3. CASE \E i \in (k + 1)..(k + m) : line[i] = c
        BY <1>4, <1>7, <2>3
    <2> QED
        BY <1>6, <2>1, <2>2, <2>3
<1>9. Creating(at') = Creating(pos) \cup Segment(line, k, m)
    <2>1. ASSUME NEW c \in Clients
          PROVE  at'[c] = "creating" <=>
                    pos[c] = "creating" \/ \E i \in (k + 1)..(k + m) : line[i] = c
        <3>1. CASE \A i \in 1..(k + m) : line[i] # c
            <4>1. ~\E i \in (k + 1)..(k + m) : line[i] = c
                BY <3>1
            <4> QED
                BY <1>5, <3>1, <4>1
        <3>2. CASE \E i \in 1..k : line[i] = c
            <4>1. PICK i \in 1..k : line[i] = c
                BY <3>2
            <4>2. ~\E j \in (k + 1)..(k + m) : line[j] = c
                BY <1>3, <1>4, <4>1
            <4> QED
                BY <1>2, <1>3, <4>1, <4>2
        <3>3. CASE \E i \in (k + 1)..(k + m) : line[i] = c
            BY <1>4, <3>3
        <3> QED
            BY <1>6, <3>1, <3>2, <3>3
    <2>2. \A i \in (k + 1)..(k + m) : line[i] \in Clients
        BY <1>2, <1>4
    <2> QED
        BY <2>1, <2>2 DEF Creating, Segment
<1>10. Creating(pos) \cap Segment(line, k, m) = {}
    BY <1>2, <1>4 DEF Creating, Segment
<1>11. \A c \in Clients : Holds(at', c) => Holds(pos, c) \/ \E i \in 1..k : line[i] = c
    BY <1>4, <1>5, <1>6 DEF Holds
<1>12. \A c \in Clients : Holds(pos, c) => page'[c] = tab[c]
    BY <1>2, <1>3, <1>4, <1>5, <1>6 DEF Holds
<1> QED
    BY <1>7, <1>8, <1>9, <1>10, <1>11, <1>12 DEF InLine

(* The idle tabs that are given away are idle no more, and go to one       *)
(* client each.                                                            *)
LEMMA DrainOwned ==
    ASSUME NEW pgs, NEW act, NEW idle, NEW line, NEW creating, NEW pos, NEW tab,
           NEW k \in Nat, NEW m \in Nat, NEW exist,
           Typed(pgs, act, idle, line, creating, pos, tab), InLine(line, pos),
           Owned(idle, pos, tab, exist),
           Drained(k, m, pgs, act, idle, line, creating, pos, tab)
    PROVE  Owned(idlePages', at', page', exist)
<1>1. /\ idle \in Seq(Pages) /\ Len(idle) \in Nat /\ k <= Len(idle) /\ Distinct(idle)
    BY DEF Typed, Drained, Owned
<1>2. \A i \in 1..Len(idle) : idle[i] \in Pages /\ idle[i] \in Range(idle)
    BY <1>1 DEF Range
<1>3. /\ Distinct(idlePages')
      /\ \A p \in Pages : p \in Range(idlePages') <=>
            p \in Range(idle) /\ \A i \in 1..k : idle[i] # p
      /\ Range(idlePages') \subseteq Pages
    <2>1. idlePages' = SubSeq(idle, k + 1, Len(idle))
        BY DEF Drained
    <2>2. /\ Distinct(idlePages') /\ idlePages' \in Seq(Pages)
          /\ \A p \in Pages : p \in Range(idlePages') <=>
                p \in Range(idle) /\ \A i \in 1..k : idle[i] # p
        BY <1>1, <2>1, RestOf
    <2> QED
        BY <2>2 DEF Range
<1>4. \A c \in Clients : Holds(at', c) =>
          \/ Holds(pos, c) /\ page'[c] = tab[c]
          \/ \E i \in 1..k : line[i] = c /\ page'[c] = idle[i]
    <2>1. \A i \in 1..k : page'[line[i]] = idle[i]
        BY DEF Drained
    <2> QED
        BY <2>1, DrainLine
<1>5. \A c \in Clients : Holds(pos, c) => tab[c] \in Pages \ Range(idle)
    BY DEF Owned
<1>6. \A c \in Clients : Holds(at', c) => page'[c] \in Pages \ Range(idlePages')
    BY <1>1, <1>2, <1>3, <1>4, <1>5
<1>7. ASSUME NEW c \in Clients, NEW d \in Clients, Holds(at', c), Holds(at', d),
             page'[c] = page'[d]
      PROVE  c = d
    <2>1. CASE Holds(pos, c) /\ page'[c] = tab[c] /\ Holds(pos, d) /\ page'[d] = tab[d]
        BY <1>7, <2>1 DEF Owned
    <2>2. ASSUME NEW i \in 1..k, NEW j \in 1..k, line[i] = c, page'[c] = idle[i],
                 line[j] = d, page'[d] = idle[j]
          PROVE  c = d
        <3>1. i \in DOMAIN idle /\ j \in DOMAIN idle
            BY <1>1
        <3>2. idle[i] = idle[j]
            BY <1>7, <2>2
        <3>3. i = j
            BY <1>1, <3>1, <3>2 DEF Distinct
        <3> QED
            BY <2>2, <3>3
    <2>3. \A i \in 1..k : idle[i] \in Range(idle)
        BY <1>1, <1>2
    <2>4. ASSUME NEW i \in 1..k, page'[c] = idle[i], Holds(pos, d), page'[d] = tab[d]
          PROVE  FALSE
        BY <1>5, <1>7, <2>3, <2>4
    <2>5. ASSUME NEW i \in 1..k, page'[d] = idle[i], Holds(pos, c), page'[c] = tab[c]
          PROVE  FALSE
        BY <1>5, <1>7, <2>3, <2>5
    <2> QED
        BY <1>4, <1>7, <2>1, <2>2, <2>4, <2>5
<1>8. Range(idlePages') \subseteq exist
    BY <1>3 DEF Owned
<1> QED
    BY <1>3, <1>6, <1>7, <1>8 DEF Owned

Sorted(pgs, act, idle, line, creating, pos, tab, exist) ==
    /\ Typed(pgs, act, idle, line, creating, pos, tab)
    /\ InLine(line, pos) /\ Counted(pos, creating) /\ Bounded(pgs, creating)
    /\ Owned(idle, pos, tab, exist)

LEMMA DrainKeeps ==
    ASSUME NEW pgs, NEW act, NEW idle, NEW line, NEW creating, NEW pos, NEW tab, NEW exist,
           Sorted(pgs, act, idle, line, creating, pos, tab, exist),
           drainWaiters(pgs, act, idle, line, creating, pos, tab)
    PROVE  /\ Sorted(pages', activePages', idlePages', waiters', creatingPages', at', page',
                     exist)
           /\ pages' = pgs
           /\ closed => waiters' = line
           /\ ~closed /\ waiters' # <<>> =>
                 idlePages' = <<>> /\ ~(Cardinality(pages') + creatingPages' < MaxPages)
<1> USE DEF Sorted
<1>1. /\ idle \in Seq(Pages) /\ line \in Seq(Clients) /\ creating \in Nat
      /\ Distinct(line) /\ Distinct(idle) /\ MaxPages \in Nat
      /\ Len(idle) \in Nat /\ Len(line) \in Nat
    BY PoolAssumptions DEF Typed, InLine, Owned
<1>2. Cardinality(pgs) \in Nat /\ IsFiniteSet(pgs) /\ Cardinality(pgs) + creating <= MaxPages
    BY FS_CardinalityType DEF Bounded
<1>3. PICK k \in Nat, m \in Nat : Drained(k, m, pgs, act, idle, line, creating, pos, tab)
    BY <1>1, <1>2, DrainEffect
<1>4. /\ k <= Len(idle) /\ k + m <= Len(line)
      /\ m > 0 => Cardinality(pgs) + creating + m <= MaxPages
      /\ closed => k + m = 0
      /\ ~closed => \/ k + m = Len(line)
                    \/ k = Len(idle) /\ Cardinality(pgs) + creating + m >= MaxPages
      /\ pages' = pgs /\ creatingPages' = creating + m
      /\ idlePages' = SubSeq(idle, k + 1, Len(idle))
      /\ waiters' = SubSeq(line, k + m + 1, Len(line))
    BY <1>3 DEF Drained
<1>5. Typed(pages', activePages', idlePages', waiters', creatingPages', at', page')
    BY <1>1, <1>3, DrainTyped
<1>6. InLine(waiters', at')
    BY <1>3, DrainLine
<1>7. Owned(idlePages', at', page', exist)
    BY <1>3, DrainOwned
<1>8. Counted(at', creatingPages')
    <2> DEFINE T == Segment(line, k, m)
    <2>1. IsFiniteSet(T) /\ Cardinality(T) = m
        BY <1>1, <1>4, SegmentCardinality
    <2>2. Creating(at') = Creating(pos) \cup T /\ Creating(pos) \cap T = {}
        BY <1>3, DrainLine
    <2> HIDE DEF T
    <2>3. /\ IsFiniteSet(Creating(pos) \cup T)
          /\ Cardinality(Creating(pos) \cup T) = creating + m - Cardinality({})
        <3>1. IsFiniteSet(Creating(pos)) /\ Cardinality(Creating(pos)) = creating
            BY DEF Counted
        <3>2. /\ IsFiniteSet(Creating(pos) \cup T)
              /\ Cardinality(Creating(pos) \cup T)
                    = Cardinality(Creating(pos)) + Cardinality(T)
                      - Cardinality(Creating(pos) \cap T)
            BY <2>1, <3>1, FS_Union
        <3> QED
            BY <2>1, <2>2, <3>1, <3>2
    <2> QED
        BY <1>1, <1>4, <2>2, <2>3, FS_EmptySet DEF Counted
<1>9. Bounded(pages', creatingPages')
    BY <1>1, <1>2, <1>4 DEF Bounded
<1>10. closed => waiters' = line
    BY <1>1, <1>4, SubSeqFull
<1>11. ~closed /\ waiters' # <<>> =>
           idlePages' = <<>> /\ ~(Cardinality(pages') + creatingPages' < MaxPages)
    <2> SUFFICES ASSUME ~closed, waiters' # <<>>
                 PROVE  idlePages' = <<>> /\ ~(Cardinality(pages') + creatingPages' < MaxPages)
        OBVIOUS
    <2>1. k + m # Len(line)
        BY <1>1, <1>4, SubSeqEmpty
    <2>2. k = Len(idle) /\ Cardinality(pgs) + creating + m >= MaxPages
        BY <1>4, <2>1
    <2>3. idlePages' = <<>>
        BY <1>1, <1>4, <2>2, SubSeqEmpty
    <2> QED
        BY <1>1, <1>2, <1>4, <2>2, <2>3
<1> QED
    BY <1>4, <1>5, <1>6, <1>7, <1>8, <1>9, <1>10, <1>11

-----------------------------------------------------------------------------
(* The two ends of a line. *)
LEMMA AppendEffect ==
    ASSUME NEW S, NEW s \in Seq(S), NEW e \in S, Distinct(s), e \notin Range(s)
    PROVE  /\ Append(s, e) \in Seq(S) /\ Append(s, e) # <<>> /\ Distinct(Append(s, e))
           /\ Range(Append(s, e)) = Range(s) \cup {e}
<1> DEFINE t == Append(s, e)
<1>1. /\ t \in Seq(S) /\ Len(t) = Len(s) + 1 /\ t[Len(s) + 1] = e
      /\ \A i \in 1..Len(s) : t[i] = s[i]
    OBVIOUS
<1> HIDE DEF t
<1>2. \A i \in 1..Len(s) : s[i] # e
    BY DEF Range
<1>3. Distinct(t)
    <2> SUFFICES ASSUME NEW i \in 1..(Len(s) + 1), NEW j \in 1..(Len(s) + 1), t[i] = t[j]
                 PROVE  i = j
        BY <1>1 DEF Distinct
    <2>1. CASE i \in 1..Len(s) /\ j \in 1..Len(s)
        BY <1>1, <2>1 DEF Distinct
    <2> QED
        BY <1>1, <1>2, <2>1
<1>4. Range(t) = Range(s) \cup {e}
    <2>1. ASSUME NEW x \in Range(t) PROVE x \in Range(s) \cup {e}
        <3>1. PICK i \in 1..(Len(s) + 1) : t[i] = x
            BY <1>1, <2>1 DEF Range
        <3>2. CASE i \in 1..Len(s)
            BY <1>1, <3>1, <3>2 DEF Range
        <3> QED
            BY <1>1, <3>1, <3>2
    <2>2. ASSUME NEW x \in Range(s) PROVE x \in Range(t)
        <3>1. PICK i \in 1..Len(s) : s[i] = x
            BY <2>2 DEF Range
        <3>2. t[i] = x /\ i \in 1..(Len(s) + 1)
            BY <1>1, <3>1
        <3> QED
            BY <1>1, <3>2 DEF Range
    <2>3. e \in Range(t)
        BY <1>1 DEF Range
    <2> QED
        BY <2>1, <2>2, <2>3
<1> QED
    BY <1>1, <1>3, <1>4 DEF t

LEMMA TailEffect ==
    ASSUME NEW S, NEW s \in Seq(S), Distinct(s), s # <<>>
    PROVE  /\ Tail(s) \in Seq(S) /\ Distinct(Tail(s))
           /\ Head(s) \in Range(s) /\ Head(s) \in S
           /\ Range(Tail(s)) = Range(s) \ {Head(s)}
<1>1. Tail(s) = SubSeq(s, 1 + 1, Len(s)) /\ Head(s) = s[1] /\ 1 <= Len(s)
    BY TailIsSubSeq
<1>2. /\ Tail(s) \in Seq(S) /\ Distinct(Tail(s))
      /\ \A x \in S : x \in Range(Tail(s)) <=> x \in Range(s) /\ \A i \in 1..1 : s[i] # x
    <2> DEFINE t == SubSeq(s, 1 + 1, Len(s))
    <2> HIDE DEF t
    <2>1. /\ t \in Seq(S) /\ Distinct(t)
          /\ \A x \in S : x \in Range(t) <=> x \in Range(s) /\ \A i \in 1..1 : s[i] # x
        BY <1>1, RestOf DEF t
    <2> QED
        BY <1>1, <2>1 DEF t
<1>3. Range(Tail(s)) \subseteq S /\ Range(s) \subseteq S
    BY <1>2 DEF Range
<1>4. Head(s) \in Range(s)
    BY <1>1 DEF Range
<1> QED
    BY <1>1, <1>2, <1>3, <1>4

-----------------------------------------------------------------------------
(* The invariant of the pool. *)
PoolInv ==
    /\ Sorted(pages, activePages, idlePages, waiters, creatingPages, at, page, open)
    /\ aborted \subseteq Clients /\ open \subseteq Pages /\ closing \subseteq Pages
    /\ closed \in BOOLEAN
    /\ closed => waiters = <<>>
    /\ NoWaiterForgotten
    /\ NoTabLeaks

LEMMA InitPool == Init => PoolInv
<1> SUFFICES ASSUME Init PROVE PoolInv
    OBVIOUS
<1>1. IsFiniteSet({}) /\ Cardinality({}) = 0
    BY FS_EmptySet
<1>2. Creating(at) = {} /\ pages = {} /\ creatingPages = 0
    BY DEF Init, Creating
<1>3. Counted(at, creatingPages) /\ Bounded(pages, creatingPages)
    BY <1>1, <1>2, PoolAssumptions DEF Counted, Bounded
<1>4. Typed(pages, activePages, idlePages, waiters, creatingPages, at, page)
    BY DEF Init, Typed, Positions
<1>5. InLine(waiters, at) /\ Owned(idlePages, at, page, open)
    BY DEF Init, InLine, Owned, Distinct, Holds, Range
<1> QED
    BY <1>3, <1>4, <1>5 DEF Init, PoolInv, Sorted, NoWaiterForgotten, NoTabLeaks

(* What is known in a state of the pool. *)
LEMMA PoolFacts ==
    ASSUME PoolInv
    PROVE  /\ MaxPages \in Nat /\ NoPage \notin Pages
           /\ Cardinality(pages) \in Nat /\ IsFiniteSet(pages)
           /\ Cardinality(pages) + creatingPages <= MaxPages
           /\ IsFiniteSet(Creating(at)) /\ Cardinality(Creating(at)) = creatingPages
           /\ pages \subseteq Pages /\ activePages \subseteq Pages
           /\ idlePages \in Seq(Pages) /\ waiters \in Seq(Clients) /\ creatingPages \in Nat
           /\ at \in [Clients -> Positions] /\ page \in [Clients -> Pages \cup {NoPage}]
           /\ Distinct(waiters) /\ \A c \in Clients : at[c] = "waiting" <=> c \in Range(waiters)
           /\ Distinct(idlePages) /\ Range(idlePages) \subseteq open
           /\ \A c \in Clients : Holds(at, c) => page[c] \in Pages \ Range(idlePages)
           /\ \A c, d \in Clients : Holds(at, c) /\ Holds(at, d) /\ page[c] = page[d] => c = d
BY PoolAssumptions, FS_CardinalityType
   DEF PoolInv, Sorted, Typed, InLine, Counted, Bounded, Owned

(* A step that drains keeps what a drain keeps. *)
LEMMA DrainStep ==
    ASSUME NEW pgs, NEW act, NEW idle, NEW line, NEW creating, NEW pos, NEW tab,
           Sorted(pgs, act, idle, line, creating, pos, tab, open'),
           drainWaiters(pgs, act, idle, line, creating, pos, tab),
           UNCHANGED closed, closed => line = <<>>,
           aborted' \subseteq Clients, open' \subseteq Pages, closing' \subseteq Pages,
           closed \in BOOLEAN,
           open' \subseteq closing' \cup (IF closed THEN {} ELSE pgs)
    PROVE  PoolInv'
<1>1. /\ Sorted(pages', activePages', idlePages', waiters', creatingPages', at', page', open')
      /\ pages' = pgs
      /\ closed => waiters' = line
      /\ ~closed /\ waiters' # <<>> =>
            idlePages' = <<>> /\ ~(Cardinality(pages') + creatingPages' < MaxPages)
    BY DrainKeeps
<1>2. NoWaiterForgotten'
    BY <1>1 DEF NoWaiterForgotten, Room
<1>3. NoTabLeaks'
    BY <1>1 DEF NoTabLeaks
<1> QED
    BY <1>1, <1>2, <1>3 DEF PoolInv

(* One place more in the pool, if one fewer tab is on its way. *)
LEMMA OneFewerCreating ==
    ASSUME PoolInv, NEW c \in Clients, at[c] = "creating",
           NEW pos \in [Clients -> Positions],
           \A d \in Clients \ {c} : pos[d] = at[d], pos[c] \notin {"creating", "waiting"}
    PROVE  /\ creatingPages - 1 \in Nat
           /\ Counted(pos, creatingPages - 1)
           /\ InLine(waiters, pos)
<1>1. Creating(pos) = Creating(at) \ {c} /\ c \in Creating(at)
    BY DEF Creating
<1>2. /\ IsFiniteSet(Creating(at)) /\ Cardinality(Creating(at)) = creatingPages
      /\ creatingPages \in Nat
    BY PoolFacts
<1>3. /\ IsFiniteSet(Creating(pos)) /\ Cardinality(Creating(pos)) = creatingPages - 1
      /\ Cardinality(Creating(pos)) \in Nat
    BY <1>1, <1>2, FS_RemoveElement, FS_CardinalityType
<1>4. InLine(waiters, pos)
    BY PoolFacts DEF InLine
<1> QED
    BY <1>3, <1>4 DEF Counted

LEMMA CreationEnds ==
    ASSUME PoolInv, NEW c \in Clients, at[c] = "creating"
    PROVE  Sorted(pages, activePages, idlePages, waiters, creatingPages - 1,
                  [at EXCEPT ![c] = "out"], page, open)
<1> DEFINE pos == [at EXCEPT ![c] = "out"]
<1>0. /\ pos \in [Clients -> Positions] /\ \A d \in Clients \ {c} : pos[d] = at[d]
      /\ pos[c] = "out"
    BY PoolFacts DEF Positions
<1> HIDE DEF pos
<1>1. creatingPages - 1 \in Nat /\ Counted(pos, creatingPages - 1) /\ InLine(waiters, pos)
    BY <1>0, OneFewerCreating
<1>2. Typed(pages, activePages, idlePages, waiters, creatingPages - 1, pos, page)
    BY <1>0, <1>1, PoolFacts DEF Typed
<1>3. Bounded(pages, creatingPages - 1)
    BY <1>1, PoolFacts DEF Bounded
<1>4. Owned(idlePages, pos, page, open)
    BY <1>0, PoolFacts DEF Owned, Holds
<1> QED
    BY <1>1, <1>2, <1>3, <1>4 DEF Sorted, pos

-----------------------------------------------------------------------------
(* One lemma per action. *)

LEMMA CreationFailsKeeps ==
    ASSUME PoolInv, NEW c \in Clients, CreationFails(c) PROVE PoolInv'
BY CreationEnds, DrainStep DEF CreationFails, PoolInv, NoTabLeaks

LEMMA PageCreatedKeeps ==
    ASSUME PoolInv, NEW c \in Clients, NEW p \in Pages, PageCreated(c, p) PROVE PoolInv'
<1>1. CASE Unwanted(c)
    BY <1>1, CreationEnds, DrainStep DEF PageCreated, PoolInv, NoTabLeaks
<1>2. CASE ~Unwanted(c)
    <2> DEFINE pos == [at EXCEPT ![c] = "leased"]
               tab == [page EXCEPT ![c] = p]
    <2>1. /\ at[c] = "creating" /\ p \notin open /\ \A d \in Clients : page[d] # p
          /\ open' = open \cup {p} /\ closing' = closing \ {p}
          /\ UNCHANGED <<closed, aborted>> /\ ~closed
          /\ drainWaiters(pages \cup {p}, activePages \cup {p}, idlePages, waiters,
                          creatingPages - 1, pos, tab)
        BY <1>2 DEF PageCreated, Fresh, Unwanted
    <2>2. /\ pos \in [Clients -> Positions] /\ \A d \in Clients \ {c} : pos[d] = at[d]
          /\ pos[c] = "leased"
          /\ tab \in [Clients -> Pages \cup {NoPage}] /\ \A d \in Clients \ {c} : tab[d] = page[d]
          /\ tab[c] = p
        BY PoolFacts DEF Positions
    <2> HIDE DEF pos, tab
    <2>3. /\ creatingPages - 1 \in Nat /\ Counted(pos, creatingPages - 1)
          /\ InLine(waiters, pos)
        BY <2>1, <2>2, OneFewerCreating
    <2>4. Typed(pages \cup {p}, activePages \cup {p}, idlePages, waiters, creatingPages - 1,
                pos, tab)
        BY <2>2, <2>3, PoolFacts DEF Typed
    <2>5. Bounded(pages \cup {p}, creatingPages - 1)
        <3>1. /\ IsFiniteSet(pages \cup {p})
              /\ Cardinality(pages \cup {p}) \in {Cardinality(pages), Cardinality(pages) + 1}
            BY PoolFacts, FS_AddElement
        <3> QED
            BY <2>3, <3>1, PoolFacts DEF Bounded
    <2>6. Owned(idlePages, pos, tab, open')
        <3>1. /\ \A d \in Clients : Holds(pos, d) <=> d = c \/ Holds(at, d)
              /\ p \notin Range(idlePages)
            BY <2>1, <2>2, PoolFacts DEF Holds
        <3>2. Distinct(idlePages) /\ Range(idlePages) \subseteq open'
            BY <2>1, PoolFacts
        <3>3. \A d \in Clients : Holds(pos, d) => tab[d] \in Pages \ Range(idlePages)
            BY <2>2, <3>1, PoolFacts
        <3>4. \A d, e \in Clients : Holds(pos, d) /\ Holds(pos, e) /\ tab[d] = tab[e] => d = e
            BY <2>1, <2>2, <3>1, PoolFacts
        <3> QED
            BY <3>2, <3>3, <3>4 DEF Owned
    <2>7. Sorted(pages \cup {p}, activePages \cup {p}, idlePages, waiters, creatingPages - 1,
                 pos, tab, open')
        BY <2>3, <2>4, <2>5, <2>6 DEF Sorted
    <2>8. open' \subseteq closing' \cup (IF closed THEN {} ELSE pages \cup {p})
        BY <2>1 DEF PoolInv, NoTabLeaks
    <2> QED
        BY <2>1, <2>7, <2>8, DrainStep DEF PoolInv
<1> QED
    BY <1>1, <1>2

(* A drain that finds the tab of c discarded. *)
LEMMA DiscardedKeeps ==
    ASSUME PoolInv, NEW c \in Clients, Discarded(c) PROVE PoolInv'
<1> DEFINE pos == [at EXCEPT ![c] = "out"]
           tab == [page EXCEPT ![c] = NoPage]
<1>1. /\ at[c] = "discarding"
      /\ drainWaiters(pages, activePages, idlePages, waiters, creatingPages, pos, tab)
      /\ UNCHANGED <<closed, aborted, open, closing>>
    BY DEF Discarded
<1>2. /\ pos \in [Clients -> Positions] /\ \A d \in Clients \ {c} : pos[d] = at[d]
      /\ pos[c] = "out"
      /\ tab \in [Clients -> Pages \cup {NoPage}] /\ \A d \in Clients \ {c} : tab[d] = page[d]
    BY PoolFacts DEF Positions
<1> HIDE DEF pos, tab
<1>3. Typed(pages, activePages, idlePages, waiters, creatingPages, pos, tab)
    BY <1>2, PoolFacts DEF Typed
<1>4. Creating(pos) = Creating(at)
    BY <1>1, <1>2 DEF Creating
<1>5. Counted(pos, creatingPages) /\ Bounded(pages, creatingPages)
    BY <1>4, PoolFacts DEF Counted, Bounded
<1>6. InLine(waiters, pos)
    BY <1>1, <1>2, PoolFacts DEF InLine
<1>7. Owned(idlePages, pos, tab, open')
    <2>1. \A d \in Clients : Holds(pos, d) => Holds(at, d) /\ tab[d] = page[d]
        BY <1>2 DEF Holds
    <2> QED
        BY <1>1, <2>1, PoolFacts DEF Owned
<1>8. Sorted(pages, activePages, idlePages, waiters, creatingPages, pos, tab, open')
    BY <1>3, <1>5, <1>6, <1>7 DEF Sorted
<1> QED
    BY <1>1, <1>8, DrainStep DEF PoolInv, NoTabLeaks

(* Fewer tabs never exceed the limit. *)
LEMMA FewerTabs ==
    ASSUME PoolInv, NEW p
    PROVE  /\ Bounded(pages \ {p}, creatingPages)
           /\ Cardinality(pages \ {p}) \in Nat /\ Cardinality(pages \ {p}) <= Cardinality(pages)
<1>1. IsFiniteSet(pages \ {p}) /\ Cardinality(pages \ {p}) <= Cardinality(pages)
      /\ Cardinality(pages \ {p}) \in Nat
    <2>1. IsFiniteSet(pages) /\ Cardinality(pages) \in Nat
        BY PoolFacts
    <2>2. /\ IsFiniteSet(pages \ {p})
          /\ Cardinality(pages \ {p}) \in {Cardinality(pages), Cardinality(pages) - 1}
        BY <2>1, FS_RemoveElement
    <2>3. Cardinality(pages \ {p}) \in Nat
        BY <2>2, FS_CardinalityType
    <2> QED
        BY <2>1, <2>2, <2>3
<1> QED
    BY <1>1, PoolFacts DEF Bounded

LEMMA PageClosesKeeps ==
    ASSUME PoolInv, NEW p \in Pages, PageCloses(p) PROVE PoolInv'
<1> DEFINE idle == RemoveFirst(idlePages, p)
<1>1. /\ open' = open \ {p} /\ UNCHANGED <<closed, aborted, closing>>
      /\ drainWaiters(pages \ {p}, activePages \ {p}, idle, waiters, creatingPages, at, page)
    BY DEF PageCloses
<1>2. idle \in Seq(Pages) /\ Distinct(idle) /\ Range(idle) = Range(idlePages) \ {p}
    BY PoolFacts, RemoveFirstEffect
<1> HIDE DEF idle
<1>3. Typed(pages \ {p}, activePages \ {p}, idle, waiters, creatingPages, at, page)
    BY <1>2, PoolFacts DEF Typed
<1>4. Owned(idle, at, page, open')
    BY <1>1, <1>2, PoolFacts DEF Owned
<1>5. InLine(waiters, at) /\ Counted(at, creatingPages)
    BY DEF PoolInv, Sorted
<1>6. Sorted(pages \ {p}, activePages \ {p}, idle, waiters, creatingPages, at, page, open')
    BY <1>3, <1>4, <1>5, FewerTabs DEF Sorted
<1>7. open' \subseteq closing' \cup (IF closed THEN {} ELSE pages \ {p})
    BY <1>1 DEF PoolInv, NoTabLeaks
<1> QED
    <2>1. /\ closed => waiters = <<>>
          /\ aborted' \subseteq Clients /\ open' \subseteq Pages /\ closing' \subseteq Pages
          /\ closed \in BOOLEAN
        BY <1>1 DEF PoolInv
    <2> QED
        BY <1>1, <1>6, <1>7, <2>1, DrainStep

(* lease(): whoever is put in line found neither an idle tab nor room. *)
LEMMA LeaseKeeps ==
    ASSUME PoolInv, NEW c \in Clients, Lease(c) PROVE PoolInv'
<1>1. /\ at[c] = "out" /\ ~closed /\ UNCHANGED <<pages, closed, aborted, open, closing>>
    BY DEF Lease
<1>2. UNCHANGED <<aborted, open, closing, closed>> /\ NoTabLeaks'
    BY <1>1 DEF PoolInv, NoTabLeaks
<1>3. CASE /\ idlePages # <<>>
           /\ activePages' = activePages \cup {Head(idlePages)}
           /\ idlePages' = Tail(idlePages)
           /\ at' = [at EXCEPT ![c] = "leased"]
           /\ page' = [page EXCEPT ![c] = Head(idlePages)]
           /\ UNCHANGED <<waiters, creatingPages>>
    <2> DEFINE p == Head(idlePages)
    <2>1. /\ idlePages' \in Seq(Pages) /\ Distinct(idlePages')
          /\ p \in Range(idlePages) /\ p \in Pages
          /\ Range(idlePages') = Range(idlePages) \ {p}
        BY <1>3, PoolFacts, TailEffect
    <2>2. /\ activePages' = activePages \cup {p}
          /\ at' \in [Clients -> Positions] /\ \A d \in Clients \ {c} : at'[d] = at[d]
          /\ at'[c] = "leased"
          /\ page' \in [Clients -> Pages \cup {NoPage}]
          /\ \A d \in Clients \ {c} : page'[d] = page[d]
          /\ page'[c] = p
          /\ UNCHANGED <<waiters, creatingPages>>
        BY <1>3, <2>1, PoolFacts DEF Positions
    <2> HIDE DEF p
    <2>3. Typed(pages', activePages', idlePages', waiters', creatingPages', at', page')
        BY <1>1, <2>1, <2>2, PoolFacts DEF Typed
    <2>4. Creating(at') = Creating(at)
        BY <1>1, <2>2 DEF Creating
    <2>5. Counted(at', creatingPages') /\ Bounded(pages', creatingPages')
        BY <1>1, <2>2, <2>4, PoolFacts DEF Counted, Bounded
    <2>6. InLine(waiters', at')
        BY <1>1, <2>2, PoolFacts DEF InLine
    <2>7. Owned(idlePages', at', page', open')
        <3>1. \A d \in Clients : Holds(at', d) <=> d = c \/ Holds(at, d)
            BY <1>1, <2>2 DEF Holds
        <3>2. \A d \in Clients : Holds(at', d) => page'[d] \in Pages \ Range(idlePages')
            BY <2>1, <2>2, <3>1, PoolFacts
        <3>3. \A d, e \in Clients : Holds(at', d) /\ Holds(at', e) /\ page'[d] = page'[e] => d = e
            BY <2>1, <2>2, <3>1, PoolFacts
        <3> QED
            BY <1>1, <2>1, <3>2, <3>3, PoolFacts DEF Owned
    <2>8. waiters = <<>>
        BY <1>3 DEF PoolInv, NoWaiterForgotten
    <2> QED
        BY <1>2, <2>2, <2>3, <2>5, <2>6, <2>7, <2>8 DEF PoolInv, Sorted, NoWaiterForgotten
<1>4. CASE /\ idlePages = <<>> /\ Room
           /\ creatingPages' = creatingPages + 1
           /\ at' = [at EXCEPT ![c] = "creating"]
           /\ UNCHANGED <<activePages, idlePages, waiters, page>>
    <2>1. /\ at' \in [Clients -> Positions] /\ \A d \in Clients \ {c} : at'[d] = at[d]
          /\ at'[c] = "creating"
        BY <1>4, PoolFacts DEF Positions
    <2>2. Typed(pages', activePages', idlePages', waiters', creatingPages', at', page')
        BY <1>1, <1>4, <2>1, PoolFacts DEF Typed
    <2>3. Counted(at', creatingPages')
        <3>1. Creating(at') = Creating(at) \cup {c} /\ c \notin Creating(at)
            BY <1>1, <2>1 DEF Creating
        <3>2. IsFiniteSet(Creating(at)) /\ Cardinality(Creating(at)) = creatingPages
            BY PoolFacts
        <3> QED
            BY <1>4, <3>1, <3>2, FS_AddElement DEF Counted
    <2>4. Bounded(pages', creatingPages')
        BY <1>1, <1>4, PoolFacts DEF Bounded, Room
    <2>5. InLine(waiters', at')
        BY <1>1, <1>4, <2>1, PoolFacts DEF InLine
    <2>6. Owned(idlePages', at', page', open')
        BY <1>1, <1>4, <2>1, PoolFacts DEF Owned, Holds
    <2>7. NoWaiterForgotten'
        <3> SUFFICES ASSUME waiters # <<>>
                     PROVE  idlePages' = <<>> /\ \E d \in Clients : at'[d] = "discarding"
            BY <1>4 DEF NoWaiterForgotten
        <3>1. PICK d \in Clients : at[d] = "discarding"
            BY <1>4 DEF PoolInv, NoWaiterForgotten
        <3> QED
            BY <1>1, <1>4, <2>1, <3>1
    <2> QED
        BY <1>1, <1>2, <1>4, <2>2, <2>3, <2>4, <2>5, <2>6, <2>7 DEF PoolInv, Sorted
<1>5. CASE /\ idlePages = <<>> /\ ~Room
           /\ waiters' = Append(waiters, c)
           /\ at' = [at EXCEPT ![c] = "waiting"]
           /\ UNCHANGED <<activePages, idlePages, creatingPages, page>>
    <2>1. /\ at' \in [Clients -> Positions] /\ \A d \in Clients \ {c} : at'[d] = at[d]
          /\ at'[c] = "waiting"
        BY <1>5, PoolFacts DEF Positions
    <2>2. /\ waiters' \in Seq(Clients) /\ Distinct(waiters')
          /\ Range(waiters') = Range(waiters) \cup {c}
        BY <1>1, <1>5, PoolFacts, AppendEffect
    <2>3. Typed(pages', activePages', idlePages', waiters', creatingPages', at', page')
        BY <1>1, <1>5, <2>1, <2>2, PoolFacts DEF Typed
    <2>4. Creating(at') = Creating(at)
        BY <1>1, <2>1 DEF Creating
    <2>5. Counted(at', creatingPages') /\ Bounded(pages', creatingPages')
        BY <1>1, <1>5, <2>4, PoolFacts DEF Counted, Bounded
    <2>6. InLine(waiters', at')
        BY <2>1, <2>2, PoolFacts DEF InLine
    <2>7. Owned(idlePages', at', page', open')
        BY <1>1, <1>5, <2>1, PoolFacts DEF Owned, Holds
    <2>8. NoWaiterForgotten'
        BY <1>1, <1>5 DEF NoWaiterForgotten, Room
    <2> QED
        BY <1>1, <1>2, <2>3, <2>5, <2>6, <2>7, <2>8 DEF PoolInv, Sorted
<1> QED
    BY <1>3, <1>4, <1>5 DEF Lease

LEMMA ReleaseKeeps ==
    ASSUME PoolInv, NEW c \in Clients, NEW discard \in BOOLEAN, Release(c, discard)
    PROVE  PoolInv'
<1> DEFINE p == page[c]
           away == closed \/ discard \/ p \notin open
<1>1. /\ at[c] = "leased"
      /\ UNCHANGED <<idlePages, waiters, creatingPages, closed, aborted, open>>
    BY DEF Release
<1>2. p \in Pages
    BY <1>1, PoolFacts DEF Holds
<1>3. CASE p \notin activePages
    <2>1. /\ at' = [at EXCEPT ![c] = "out"] /\ page' = [page EXCEPT ![c] = NoPage]
          /\ UNCHANGED <<pages, activePages, closing>>
        BY <1>3 DEF Release
    <2>2. /\ at' \in [Clients -> Positions] /\ \A d \in Clients \ {c} : at'[d] = at[d]
          /\ at'[c] = "out"
          /\ page' \in [Clients -> Pages \cup {NoPage}]
          /\ \A d \in Clients \ {c} : page'[d] = page[d]
        BY <2>1, PoolFacts DEF Positions
    <2>3. Typed(pages', activePages', idlePages', waiters', creatingPages', at', page')
        BY <1>1, <2>1, <2>2, PoolFacts DEF Typed
    <2>4. Creating(at') = Creating(at)
        BY <1>1, <2>2 DEF Creating
    <2>5. Counted(at', creatingPages') /\ Bounded(pages', creatingPages')
        BY <1>1, <2>1, <2>4, PoolFacts DEF Counted, Bounded
    <2>6. InLine(waiters', at')
        BY <1>1, <2>2, PoolFacts DEF InLine
    <2>7. Owned(idlePages', at', page', open')
        <3>1. \A d \in Clients : Holds(at', d) => Holds(at, d) /\ page'[d] = page[d]
            BY <2>2 DEF Holds
        <3> QED
            BY <1>1, <3>1, PoolFacts DEF Owned
    <2>8. \A d \in Clients : at[d] = "discarding" => at'[d] = "discarding"
        BY <1>1, <2>2
    <2>9. NoWaiterForgotten' /\ NoTabLeaks'
        BY <1>1, <2>1, <2>8 DEF PoolInv, NoWaiterForgotten, NoTabLeaks, Room
    <2> QED
        BY <1>1, <2>1, <2>3, <2>5, <2>6, <2>7, <2>9 DEF PoolInv, Sorted
<1>4. CASE p \in activePages
    <2>1. /\ activePages' = activePages \ {p} /\ UNCHANGED page
          /\ pages' = IF away THEN pages \ {p} ELSE pages
          /\ closing' = IF away THEN closing \cup {p} ELSE closing
          /\ at' = [at EXCEPT ![c] = IF away THEN "discarding" ELSE "resetting"]
        BY <1>4 DEF Release
    <2>2. /\ at' \in [Clients -> Positions] /\ \A d \in Clients \ {c} : at'[d] = at[d]
          /\ at'[c] = IF away THEN "discarding" ELSE "resetting"
        BY <2>1, PoolFacts DEF Positions
    <2> HIDE DEF p, away
    <2>3. pages' \subseteq pages /\ Bounded(pages', creatingPages')
        BY <1>1, <2>1, PoolFacts, FewerTabs DEF Bounded
    <2>4. Typed(pages', activePages', idlePages', waiters', creatingPages', at', page')
        BY <1>1, <2>1, <2>2, <2>3, PoolFacts DEF Typed
    <2>5. Creating(at') = Creating(at)
        BY <1>1, <2>2 DEF Creating
    <2>6. Counted(at', creatingPages')
        BY <1>1, <2>5, PoolFacts DEF Counted
    <2>7. InLine(waiters', at')
        BY <1>1, <2>2, PoolFacts DEF InLine
    <2>8. Owned(idlePages', at', page', open')
        <3>1. \A d \in Clients : Holds(at', d) => Holds(at, d)
            BY <1>1, <2>2 DEF Holds
        <3> QED
            BY <1>1, <2>1, <3>1, PoolFacts DEF Owned
    <2>9. NoWaiterForgotten'
        <3>1. CASE away
            BY <1>1, <2>2, <3>1 DEF PoolInv, NoWaiterForgotten
        <3>2. CASE ~away
            <4>1. \A d \in Clients : at[d] = "discarding" => at'[d] = "discarding"
                BY <1>1, <2>2
            <4> QED
                BY <1>1, <2>1, <3>2, <4>1 DEF PoolInv, NoWaiterForgotten, Room
        <3> QED
            BY <3>1, <3>2
    <2>10. NoTabLeaks' /\ closing' \subseteq Pages
        BY <1>1, <1>2, <2>1 DEF PoolInv, NoTabLeaks
    <2> QED
        BY <1>1, <2>3, <2>4, <2>6, <2>7, <2>8, <2>9, <2>10 DEF PoolInv, Sorted
<1> QED
    BY <1>3, <1>4

(* A wiped tab changes hands: it had one holder, and gets one or is idle. *)
LEMMA ResetDoneKeeps ==
    ASSUME PoolInv, NEW c \in Clients, ResetDone(c) PROVE PoolInv'
<1> DEFINE p == page[c]
<1>1. /\ at[c] = "resetting" /\ p \in open
      /\ UNCHANGED <<closed, aborted, open, closing, pages, creatingPages>>
    BY DEF ResetDone, HandOver
<1>2. /\ p \in Pages \ Range(idlePages)
      /\ \A d \in Clients : Holds(at, d) /\ page[d] = p => d = c
    BY <1>1, PoolFacts DEF Holds
<1>3. NoTabLeaks'
    BY <1>1 DEF PoolInv, NoTabLeaks
<1>4. CASE waiters # <<>>
    <2> DEFINE h == Head(waiters)
    <2>1. /\ activePages' = activePages \cup {p} /\ waiters' = Tail(waiters)
          /\ at' = [at EXCEPT ![c] = "out", ![h] = "leased"]
          /\ page' = [page EXCEPT ![c] = NoPage, ![h] = p]
          /\ UNCHANGED idlePages
        BY <1>4 DEF ResetDone, HandOver
    <2>2. /\ waiters' \in Seq(Clients) /\ Distinct(waiters')
          /\ h \in Range(waiters) /\ h \in Clients
          /\ Range(waiters') = Range(waiters) \ {h}
        BY <1>4, <2>1, PoolFacts, TailEffect
    <2>3. at[h] = "waiting" /\ h # c
        BY <1>1, <2>2, PoolFacts
    <2> HIDE DEF h, p
    <2>4. /\ at' \in [Clients -> Positions] /\ \A d \in Clients \ {c, h} : at'[d] = at[d]
          /\ at'[c] = "out" /\ at'[h] = "leased"
          /\ page' \in [Clients -> Pages \cup {NoPage}]
          /\ \A d \in Clients \ {c, h} : page'[d] = page[d]
          /\ page'[h] = p
        BY <1>2, <2>1, <2>2, <2>3, PoolFacts DEF Positions
    <2>5. Typed(pages', activePages', idlePages', waiters', creatingPages', at', page')
        BY <1>1, <1>2, <2>1, <2>2, <2>4, PoolFacts DEF Typed
    <2>6. Creating(at') = Creating(at)
        BY <1>1, <2>3, <2>4 DEF Creating
    <2>7. Counted(at', creatingPages') /\ Bounded(pages', creatingPages')
        BY <1>1, <2>6, PoolFacts DEF Counted, Bounded
    <2>8. InLine(waiters', at')
        BY <1>1, <2>2, <2>3, <2>4, PoolFacts DEF InLine
    <2>9. Owned(idlePages', at', page', open')
        <3>1. \A d \in Clients : Holds(at', d) <=> d = h \/ (d # c /\ Holds(at, d))
            BY <2>2, <2>3, <2>4 DEF Holds
        <3>2. \A d \in Clients : Holds(at', d) => page'[d] \in Pages \ Range(idlePages')
            <4>1. page'[h] = p /\ p \in Pages \ Range(idlePages')
                BY <1>2, <2>1, <2>4
            <4>2. ASSUME NEW d \in Clients, d # c, d # h, Holds(at, d)
                  PROVE  page'[d] \in Pages \ Range(idlePages')
                <5>1. page[d] \in Pages \ Range(idlePages)
                    BY <4>2, PoolFacts
                <5> QED
                    BY <2>1, <2>4, <4>2, <5>1
            <4> QED
                BY <3>1, <4>1, <4>2
        <3>3. \A d, e \in Clients : Holds(at', d) /\ Holds(at', e) /\ page'[d] = page'[e] => d = e
            <4>1. ASSUME NEW d \in Clients, d # c, d # h, Holds(at, d) PROVE page'[d] # p
                BY <1>2, <2>4, <4>1
            <4>2. ASSUME NEW d \in Clients, d # c, d # h, Holds(at, d),
                         NEW e \in Clients, e # c, e # h, Holds(at, e), page'[d] = page'[e]
                  PROVE  d = e
                <5>1. page[d] = page[e]
                    BY <2>4, <4>2
                <5> QED
                    BY <4>2, <5>1, PoolFacts
            <4> QED
                BY <2>4, <3>1, <4>1, <4>2
        <3> QED
            BY <1>1, <2>1, <3>2, <3>3, PoolFacts DEF Owned
    <2>10. NoWaiterForgotten'
        <3>1. \A d \in Clients : at[d] = "discarding" => at'[d] = "discarding"
            BY <1>1, <2>3, <2>4
        <3> QED
            BY <1>1, <1>4, <2>1, <3>1 DEF PoolInv, NoWaiterForgotten, Room
    <2> QED
        BY <1>1, <1>3, <1>4, <2>5, <2>7, <2>8, <2>9, <2>10 DEF PoolInv, Sorted
<1>5. CASE waiters = <<>>
    <2>1. /\ idlePages' = Append(idlePages, p)
          /\ at' = [at EXCEPT ![c] = "out"] /\ page' = [page EXCEPT ![c] = NoPage]
          /\ UNCHANGED <<activePages, waiters>>
        BY <1>5 DEF ResetDone, HandOver
    <2>2. /\ idlePages' \in Seq(Pages) /\ Distinct(idlePages')
          /\ Range(idlePages') = Range(idlePages) \cup {p}
        BY <1>2, <2>1, PoolFacts, AppendEffect
    <2> HIDE DEF p
    <2>3. /\ at' \in [Clients -> Positions] /\ \A d \in Clients \ {c} : at'[d] = at[d]
          /\ at'[c] = "out"
          /\ page' \in [Clients -> Pages \cup {NoPage}]
          /\ \A d \in Clients \ {c} : page'[d] = page[d]
        BY <2>1, PoolFacts DEF Positions
    <2>4. Typed(pages', activePages', idlePages', waiters', creatingPages', at', page')
        BY <1>1, <2>1, <2>2, <2>3, PoolFacts DEF Typed
    <2>5. Creating(at') = Creating(at)
        BY <1>1, <2>3 DEF Creating
    <2>6. Counted(at', creatingPages') /\ Bounded(pages', creatingPages')
        BY <1>1, <2>5, PoolFacts DEF Counted, Bounded
    <2>7. InLine(waiters', at')
        BY <1>1, <2>1, <2>3, PoolFacts DEF InLine
    <2>8. Owned(idlePages', at', page', open')
        <3>1. \A d \in Clients : Holds(at', d) => d # c /\ Holds(at, d) /\ page'[d] = page[d]
            BY <2>3 DEF Holds
        <3>2. \A d \in Clients : Holds(at', d) => page'[d] \in Pages \ Range(idlePages')
            BY <1>2, <2>2, <3>1, PoolFacts
        <3>3. Range(idlePages') \subseteq open'
            BY <1>1, <2>2, PoolFacts DEF p
        <3> QED
            BY <2>2, <3>1, <3>2, <3>3, PoolFacts DEF Owned
    <2> QED
        BY <1>1, <1>3, <1>5, <2>1, <2>4, <2>6, <2>7, <2>8 DEF PoolInv, Sorted, NoWaiterForgotten
<1> QED
    BY <1>4, <1>5

(* A tab that cannot be wiped is thrown away. *)
LEMMA ResetFailsKeeps ==
    ASSUME PoolInv, NEW c \in Clients, ResetFails(c) PROVE PoolInv'
<1> DEFINE p == page[c]
<1>1. /\ at[c] = "resetting"
      /\ pages' = pages \ {p} /\ closing' = closing \cup {p}
      /\ at' = [at EXCEPT ![c] = "discarding"]
      /\ UNCHANGED <<activePages, idlePages, waiters, creatingPages, closed, page, aborted, open>>
    BY DEF ResetFails
<1>2. p \in Pages
    BY <1>1, PoolFacts DEF Holds
<1> HIDE DEF p
<1>3. /\ at' \in [Clients -> Positions] /\ \A d \in Clients \ {c} : at'[d] = at[d]
      /\ at'[c] = "discarding"
    BY <1>1, PoolFacts DEF Positions
<1>4. Typed(pages', activePages', idlePages', waiters', creatingPages', at', page')
    BY <1>1, <1>3, PoolFacts DEF Typed
<1>5. Creating(at') = Creating(at)
    BY <1>1, <1>3 DEF Creating
<1>6. Counted(at', creatingPages') /\ Bounded(pages', creatingPages')
    BY <1>1, <1>5, PoolFacts, FewerTabs DEF Counted
<1>7. InLine(waiters', at')
    BY <1>1, <1>3, PoolFacts DEF InLine
<1>8. Owned(idlePages', at', page', open')
    <2>1. \A d \in Clients : Holds(at', d) => Holds(at, d)
        BY <1>1, <1>3 DEF Holds
    <2> QED
        BY <1>1, <2>1, PoolFacts DEF Owned
<1>9. NoWaiterForgotten' /\ NoTabLeaks' /\ closing' \subseteq Pages
    BY <1>1, <1>2, <1>3 DEF PoolInv, NoWaiterForgotten, NoTabLeaks
<1> QED
    BY <1>1, <1>4, <1>6, <1>7, <1>8, <1>9 DEF PoolInv, Sorted

(* A line whose entries are nobody is empty. *)
LEMMA NobodyInLine ==
    ASSUME NEW S, NEW s \in Seq(S), Range(s) = {} PROVE s = <<>>
<1> SUFFICES ASSUME s # <<>> PROVE FALSE
    OBVIOUS
<1>1. 1 \in DOMAIN s
    OBVIOUS
<1> QED
    BY <1>1 DEF Range

(* While a tab is idle nobody is in line, so its timer owes nobody a drain. *)
LEMMA IdleTimeoutKeeps ==
    ASSUME PoolInv, NEW p \in Pages, IdleTimeout(p) PROVE PoolInv'
<1>1. /\ p \in Range(idlePages)
      /\ idlePages' = RemoveFirst(idlePages, p)
      /\ pages' = pages \ {p} /\ closing' = closing \cup {p}
      /\ UNCHANGED <<activePages, waiters, creatingPages, closed, at, page, aborted, open>>
    BY DEF IdleTimeout
<1>2. /\ idlePages' \in Seq(Pages) /\ Distinct(idlePages')
      /\ Range(idlePages') = Range(idlePages) \ {p}
    BY <1>1, PoolFacts, RemoveFirstEffect
<1>3. waiters = <<>>
    BY <1>1 DEF PoolInv, NoWaiterForgotten, Range
<1>4. Typed(pages', activePages', idlePages', waiters', creatingPages', at', page')
    BY <1>1, <1>2, PoolFacts DEF Typed
<1>5. InLine(waiters', at') /\ Counted(at', creatingPages')
    BY <1>1 DEF PoolInv, Sorted
<1>6. Bounded(pages', creatingPages')
    BY <1>1, FewerTabs
<1>7. Owned(idlePages', at', page', open')
    BY <1>1, <1>2, PoolFacts DEF Owned
<1>8. NoWaiterForgotten' /\ NoTabLeaks' /\ closing' \subseteq Pages
    BY <1>1, <1>3 DEF PoolInv, NoWaiterForgotten, NoTabLeaks
<1> QED
    BY <1>1, <1>4, <1>5, <1>6, <1>7, <1>8 DEF PoolInv, Sorted

(* Whoever leaves the line leaves the others in it. *)
LEMMA AbortKeeps ==
    ASSUME PoolInv, NEW c \in Clients, Abort(c) PROVE PoolInv'
<1>1. /\ at[c] \in {"waiting", "creating"}
      /\ aborted' = aborted \cup {c}
      /\ waiters' = RemoveFirst(waiters, c)
      /\ at' = IF at[c] = "waiting" THEN [at EXCEPT ![c] = "out"] ELSE at
      /\ UNCHANGED <<pages, activePages, idlePages, creatingPages, closed, page, open, closing>>
    BY DEF Abort
<1>2. /\ waiters' \in Seq(Clients) /\ Distinct(waiters')
      /\ Range(waiters') = Range(waiters) \ {c}
    BY <1>1, PoolFacts, RemoveFirstEffect
<1>3. /\ at' \in [Clients -> Positions] /\ \A d \in Clients \ {c} : at'[d] = at[d]
      /\ at'[c] = IF at[c] = "waiting" THEN "out" ELSE "creating"
    BY <1>1, PoolFacts DEF Positions
<1>4. Typed(pages', activePages', idlePages', waiters', creatingPages', at', page')
    BY <1>1, <1>2, <1>3, PoolFacts DEF Typed
<1>5. Creating(at') = Creating(at)
    BY <1>1, <1>3 DEF Creating
<1>6. Counted(at', creatingPages') /\ Bounded(pages', creatingPages')
    BY <1>1, <1>5, PoolFacts DEF Counted, Bounded
<1>7. InLine(waiters', at')
    BY <1>2, <1>3, PoolFacts DEF InLine
<1>8. Owned(idlePages', at', page', open')
    <2>1. \A d \in Clients : Holds(at', d) => Holds(at, d)
        BY <1>1, <1>3 DEF Holds
    <2> QED
        BY <1>1, <2>1, PoolFacts DEF Owned
<1>9. waiters = <<>> => waiters' = <<>>
    <2> SUFFICES ASSUME waiters = <<>> PROVE waiters' = <<>>
        OBVIOUS
    <2>1. Range(waiters') = {}
        BY <1>2 DEF Range
    <2> QED
        BY <1>2, <2>1, NobodyInLine
<1>10. \A d \in Clients : at[d] = "discarding" => at'[d] = "discarding"
    BY <1>1, <1>3
<1>11. NoWaiterForgotten' /\ NoTabLeaks' /\ aborted' \subseteq Clients
    BY <1>1, <1>9, <1>10 DEF PoolInv, NoWaiterForgotten, NoTabLeaks, Room
<1> QED
    BY <1>1, <1>4, <1>6, <1>7, <1>8, <1>9, <1>11 DEF PoolInv, Sorted

(* close() lets nobody wait and keeps no tab. *)
LEMMA CloseKeeps == ASSUME PoolInv, Close PROVE PoolInv'
<1>1. /\ ~closed /\ closed' = TRUE
      /\ at' = [c \in Clients |-> IF at[c] = "waiting" THEN "out" ELSE at[c]]
      /\ waiters' = <<>> /\ idlePages' = <<>> /\ pages' = {} /\ activePages' = {}
      /\ closing' = closing \cup pages
      /\ UNCHANGED <<creatingPages, page, aborted, open>>
    BY DEF Close
<1>2. /\ at' \in [Clients -> Positions]
      /\ \A c \in Clients : at'[c] = IF at[c] = "waiting" THEN "out" ELSE at[c]
    BY <1>1, PoolFacts DEF Positions
<1>3. Typed(pages', activePages', idlePages', waiters', creatingPages', at', page')
    BY <1>1, <1>2, PoolFacts DEF Typed
<1>4. Creating(at') = Creating(at)
    BY <1>2 DEF Creating
<1>5. Counted(at', creatingPages') /\ Bounded(pages', creatingPages')
    BY <1>1, <1>4, FS_EmptySet, PoolFacts DEF Counted, Bounded
<1>6. InLine(waiters', at')
    BY <1>1, <1>2 DEF InLine, Distinct, Range
<1>7. Owned(idlePages', at', page', open')
    <2>1. \A c \in Clients : Holds(at', c) => Holds(at, c)
        BY <1>2 DEF Holds
    <2>2. Range(idlePages') = {} /\ Distinct(idlePages')
        BY <1>1 DEF Range, Distinct
    <2> QED
        BY <1>1, <2>1, <2>2, PoolFacts DEF Owned
<1>8. NoWaiterForgotten' /\ NoTabLeaks' /\ closing' \subseteq Pages
    BY <1>1, PoolFacts DEF PoolInv, NoWaiterForgotten, NoTabLeaks
<1> QED
    BY <1>1, <1>3, <1>5, <1>6, <1>7, <1>8 DEF PoolInv, Sorted

-----------------------------------------------------------------------------
LEMMA NextPool == PoolInv /\ [Next]_vars => PoolInv'
<1> SUFFICES ASSUME PoolInv, [Next]_vars PROVE PoolInv'
    OBVIOUS
<1>1. CASE Close
    BY <1>1, CloseKeeps
<1>2. ASSUME NEW p \in Pages, PageCloses(p) PROVE PoolInv'
    BY <1>2, PageClosesKeeps
<1>3. ASSUME NEW p \in Pages, IdleTimeout(p) PROVE PoolInv'
    BY <1>3, IdleTimeoutKeeps
<1>4. ASSUME NEW c \in Clients, Lease(c) PROVE PoolInv'
    BY <1>4, LeaseKeeps
<1>5. ASSUME NEW c \in Clients, CreationFails(c) PROVE PoolInv'
    BY <1>5, CreationFailsKeeps
<1>6. ASSUME NEW c \in Clients, Abort(c) PROVE PoolInv'
    BY <1>6, AbortKeeps
<1>7. ASSUME NEW c \in Clients, NEW p \in Pages, PageCreated(c, p) PROVE PoolInv'
    BY <1>7, PageCreatedKeeps
<1>8. ASSUME NEW c \in Clients, NEW discard \in BOOLEAN, Release(c, discard) PROVE PoolInv'
    BY <1>8, ReleaseKeeps
<1>9. ASSUME NEW c \in Clients, ResetDone(c) PROVE PoolInv'
    BY <1>9, ResetDoneKeeps
<1>10. ASSUME NEW c \in Clients, ResetFails(c) PROVE PoolInv'
    BY <1>10, ResetFailsKeeps
<1>11. ASSUME NEW c \in Clients, Discarded(c) PROVE PoolInv'
    BY <1>11, DiscardedKeeps
<1>12. CASE UNCHANGED vars
    BY <1>12 DEF vars, pool, PoolInv, Sorted, Typed, InLine, Counted, Creating, Bounded, Owned,
                 Holds, NoWaiterForgotten, NoTabLeaks, Room
<1> QED
    BY <1>1, <1>2, <1>3, <1>4, <1>5, <1>6, <1>7, <1>8, <1>9, <1>10, <1>11, <1>12 DEF Next

LEMMA SpecPool == Spec => []PoolInv
BY InitPool, NextPool, PTL DEF Spec

-----------------------------------------------------------------------------
(* Type correctness of the pool. *)
THEOREM PoolTypeOK == Spec => []TypeOK
<1>1. PoolInv => TypeOK
    BY DEF PoolInv, Sorted, Typed, Positions, TypeOK
<1> QED
    BY <1>1, SpecPool, PTL

(* The limit on tabs: those in the pool and those on their way together    *)
(* never exceed maxPages.                                                  *)
THEOREM PoolBoundedHolds == Spec => []PoolBounded
<1>1. PoolInv => PoolBounded
    BY DEF PoolInv, Sorted, Bounded, PoolBounded
<1> QED
    BY <1>1, SpecPool, PTL

(* No two clients ever have one tab, and nobody has an idle one. *)
THEOREM PoolTabsNotShared == Spec => []TabsNotShared
<1>1. PoolInv => TabsNotShared
    BY DEF PoolInv, Sorted, Owned, Holds, TabsNotShared
<1> QED
    BY <1>1, SpecPool, PTL

(* Nobody stays in line while the pool has something to give, or some      *)
(* release is about to look.                                               *)
THEOREM PoolNoWaiterForgotten == Spec => []NoWaiterForgotten
<1>1. PoolInv => NoWaiterForgotten
    BY DEF PoolInv
<1> QED
    BY <1>1, SpecPool, PTL

(* Every tab that exists is counted or being closed; a closed pool keeps   *)
(* none.                                                                   *)
THEOREM PoolNoTabLeaks == Spec => []NoTabLeaks
<1>1. PoolInv => NoTabLeaks
    BY DEF PoolInv
<1> QED
    BY <1>1, SpecPool, PTL
=============================================================================
