-------------------------- MODULE AlmLibPtrProofs --------------------------
(***************************************************************************)
(* Theorems about AlmLibPtr: the linked list is sound at every step of     *)
(* every thread, on Linux as well; and on a target with real interrupts,   *)
(* where the handler looks at an alarm's fields more than once, nobody     *)
(* changes them in between.                                                *)
(***************************************************************************)
EXTENDS AlmLibPtr, QueueLemmas

-----------------------------------------------------------------------------
(* The list and the pointers. *)

\* A sequence that follows the pointers is the list: the walk of Node meets its
\* elements one by one, and then NULL.
LEMMA ChainIsList ==
  \A s \in Seq(Alarm) : IsInjective(s) /\ Chain(s) =>
    /\ Node[Cardinality(Alarm)] = NULL
    /\ List = s
<1> SUFFICES ASSUME NEW s \in Seq(Alarm), IsInjective(s), Chain(s)
             PROVE  Node[Cardinality(Alarm)] = NULL /\ List = s
  OBVIOUS
<1> DEFINE N == Cardinality(Alarm)
           walk == [n \in 0..N |-> Entry(s, n + 1)]
           After(p) == IF p = NULL THEN NULL ELSE next[p]
           IsWalk(g) == g = [n \in 0..N |-> IF n = 0 THEN first_alm ELSE After(g[n - 1])]
<1>1. N \in Nat /\ Len(s) <= N
  BY InjectiveIsShort, PtrAssumption
<1>2. /\ Len(s) \in Nat /\ DOMAIN s = 1..Len(s)
      /\ \A i \in DOMAIN s : s[i] # NULL
  BY LenProperties, ElementOfSeq, PtrAssumption
<1> HIDE DEF N
<1>3. IsWalk(walk)
  <2>1. walk[0] = first_alm
    BY <1>1 DEF Chain
  <2>2. ASSUME NEW n \in 1..N
        PROVE  walk[n] = After(walk[n - 1])
    <3>1. n - 1 \in 0..N /\ walk[n] = Entry(s, n + 1) /\ walk[n - 1] = Entry(s, n)
      BY <1>1
    <3>2. CASE n \in DOMAIN s
      <4>1. walk[n - 1] = s[n] /\ s[n] # NULL
        BY <1>2, <3>1, <3>2 DEF Entry
      <4>2. next[s[n]] = Entry(s, n + 1)
        BY <3>2 DEF Chain
      <4>3. QED BY <3>1, <4>1, <4>2
    <3>3. CASE n \notin DOMAIN s
      <4>1. n + 1 \notin DOMAIN s
        BY <1>2, <3>3
      <4>2. QED BY <3>1, <3>3, <4>1 DEF Entry
    <3>4. QED BY <3>2, <3>3
  <2>3. walk = [n \in 0..N |-> walk[n]]
    OBVIOUS
  <2> HIDE DEF walk, After
  <2>4. \A n \in 0..N : walk[n] = IF n = 0 THEN first_alm ELSE After(walk[n - 1])
    BY <1>1, <2>1, <2>2
  <2>5. QED BY <2>3, <2>4
<1> HIDE DEF After
<1>4. ASSUME NEW g, IsWalk(g)
      PROVE  g = walk
  <2> DEFINE T == {n \in 0..N : g[n] # walk[n]}
  <2>1. \A h : IsWalk(h) => /\ h[0] = first_alm /\ h = [n \in 0..N |-> h[n]]
                           /\ \A n \in 1..N : h[n] = After(h[n - 1])
    <3>1. SUFFICES ASSUME NEW h, IsWalk(h)
                   PROVE  /\ h[0] = first_alm /\ h = [n \in 0..N |-> h[n]]
                          /\ \A n \in 1..N : h[n] = After(h[n - 1])
      OBVIOUS
    <3>2. \A n \in 0..N : h[n] = IF n = 0 THEN first_alm ELSE After(h[n - 1])
      BY <3>1
    <3>3. QED BY <1>1, <3>1, <3>2
  <2> HIDE DEF IsWalk, walk
  <2>2. T = {}
    <3>1. SUFFICES ASSUME T # {} PROVE FALSE
      OBVIOUS
    <3>2. T \in SUBSET Nat
      BY <1>1
    <3>3. PICK m \in T : \A k \in T : m <= k
      <4> HIDE DEF T
      <4>1. QED BY <3>1, <3>2, LeastNatural
    <3>4. m \in 1..N
      BY <1>1, <1>3, <1>4, <2>1
    <3>5. m - 1 \in 0..N /\ g[m - 1] = walk[m - 1]
      BY <1>1, <3>3, <3>4
    <3>6. g[m] = walk[m]
      BY <1>3, <1>4, <2>1, <3>4, <3>5
    <3>7. QED BY <3>6
  <2>3. g = [n \in 0..N |-> g[n]] /\ walk = [n \in 0..N |-> walk[n]]
    BY <1>3, <1>4, <2>1
  <2>4. QED BY <2>2, <2>3
<1>5. Node = walk
  <2>1. Node = CHOOSE g : IsWalk(g)
    BY DEF Node, N, After
  <2> HIDE DEF IsWalk, walk
  <2>2. QED BY <1>3, <1>4, <2>1
<1>6. Node[N] = NULL
  BY <1>1, <1>2, <1>5 DEF Entry
<1>7. List = s
  <2>1. \A j \in 1..(N + 1) : Node[j - 1] = Entry(s, j)
    BY <1>1, <1>5
  <2>2. {j \in 1..(N + 1) : Node[j - 1] # NULL} = DOMAIN s
    BY <1>1, <1>2, <2>1 DEF Entry
  <2>3. List = [i \in DOMAIN s |-> Node[i - 1]]
    BY <2>2 DEF List, N
  <2>4. \A i \in DOMAIN s : Node[i - 1] = s[i]
    BY <1>1, <1>2, <2>1 DEF Entry
  <2>5. s = [i \in DOMAIN s |-> s[i]]
    BY <1>2
  <2>6. QED BY <2>3, <2>4, <2>5
<1>8. QED BY <1>6, <1>7 DEF N

\* The same in the next state.
LEMMA ChainIsListNext ==
  (\A s \in Seq(Alarm) : IsInjective(s) /\ Chain(s) =>
    /\ Node[Cardinality(Alarm)] = NULL
    /\ List = s)'
BY ChainIsList, PTL

\* The list is a sequence of different alarms, and the pointers follow it.
ListOK == List \in Seq(Alarm) /\ IsInjective(List) /\ Chain(List)

\* What the list is made of.
LEMMA ListDomain ==
  ASSUME ListOK
  PROVE  /\ Len(List) \in Nat /\ DOMAIN List = 1..Len(List)
         /\ \A i \in DOMAIN List : List[i] \in Alarm /\ List[i] # NULL /\ List[i] \in ToSet(List)
         /\ ToSet(List) \subseteq Alarm
BY LenProperties, ElementOfSeq, PtrAssumption DEF ListOK, ToSet

\* A new list is known by its pointers.
LEMMA NewList ==
  ASSUME NEW s \in Seq(Alarm), IsInjective(s),
         first_alm' = Entry(s, 1), \A i \in DOMAIN s : next'[s[i]] = Entry(s, i + 1)
  PROVE  ListOK' /\ List' = s
<1>1. List' = s
  BY ChainIsListNext DEF Chain, Entry
<1>2. QED BY <1>1 DEF ListOK, Chain, Entry

\* Nobody has touched the pointers.
LEMMA SameList ==
  ASSUME ListOK, first_alm' = first_alm, \A a \in ToSet(List) : next'[a] = next[a]
  PROVE  ListOK' /\ List' = List
<1>1. PICK s \in Seq(Alarm) : s = List
  BY DEF ListOK
<1>2. /\ IsInjective(s) /\ first_alm' = Entry(s, 1)
      /\ \A i \in DOMAIN s : next'[s[i]] = Entry(s, i + 1)
  BY <1>1 DEF ListOK, Chain, ToSet
<1>3. QED BY <1>1, <1>2, NewList

\* alm_purge moves first_alm to the place k + 1.
LEMMA CutList ==
  ASSUME ListOK, NEW k \in 0..Len(List), first_alm' = Entry(List, k + 1), next' = next
  PROVE  ListOK' /\ List' = SubSeq(List, k + 1, Len(List))
<1>1. PICK s \in Seq(Alarm) : s = List
  BY DEF ListOK
<1>2. PICK r : r = SubSeq(s, k + 1, Len(s))
  OBVIOUS
<1>3. Len(s) \in Nat /\ DOMAIN s = 1..Len(s) /\ k \in Nat /\ k <= Len(s)
  BY <1>1, ListDomain
<1>4. /\ r \in Seq(Alarm) /\ IsInjective(r) /\ DOMAIN r = 1..(Len(s) - k)
      /\ \A i \in DOMAIN r : k + i \in DOMAIN s /\ r[i] = s[k + i]
  <2>1. k \in 0..Len(s) /\ IsInjective(s)
    BY <1>1 DEF ListOK
  <2>2. r \in Seq(Alarm) /\ DOMAIN r = 1..(Len(s) - k)
    BY <1>2, <1>3, CutKeeps
  <2>3. \A i \in DOMAIN r : k + i \in DOMAIN s /\ r[i] = s[k + i]
    BY <1>2, <1>3, CutKeeps
  <2>4. \A i, j \in DOMAIN r : r[i] = r[j] => k + i = k + j
    BY <2>1, <2>3 DEF IsInjective
  <2>5. IsInjective(r)
    BY <1>3, <2>2, <2>4 DEF IsInjective
  <2>6. QED BY <2>2, <2>3, <2>5
<1>5. \A i \in 1..(Len(s) + 1 - k) : Entry(r, i) = Entry(s, k + i)
  <2>1. \A i \in 1..(Len(s) + 1 - k) : i \in DOMAIN r <=> k + i \in DOMAIN s
    BY <1>3, <1>4
  <2>2. QED BY <1>4, <2>1 DEF Entry
<1>6. first_alm' = Entry(r, 1)
  BY <1>1, <1>3, <1>5
<1>7. ASSUME NEW i \in DOMAIN r
      PROVE  next'[r[i]] = Entry(r, i + 1)
  <2>1. k + i \in DOMAIN s /\ r[i] = s[k + i] /\ i + 1 \in 1..(Len(s) + 1 - k)
        /\ k + (i + 1) = (k + i) + 1
    BY <1>3, <1>4
  <2>2. next[s[k + i]] = Entry(s, (k + i) + 1)
    BY <1>1, <2>1 DEF ListOK, Chain
  <2>3. QED BY <1>5, <2>1, <2>2
<1>8. QED BY <1>1, <1>2, <1>4, <1>6, <1>7, NewList

\* alm_remove takes the alarm out, if it is enqueued.
LEMMA UnlinkedList ==
  ASSUME ListOK, next \in [Alarm -> Alarm \cup {NULL}], enqueued \in [Alarm -> BOOLEAN],
         NEW a \in Alarm, RemoveAlarm(a), enqueued[a] <=> a \in ToSet(List)
  PROVE  /\ ListOK'
         /\ IF a \in ToSet(List)
            THEN \E i \in DOMAIN List : List[i] = a /\ List' = RemoveAt(List, i)
            ELSE List' = List
         /\ enqueued' = [enqueued EXCEPT ![a] = FALSE]
         /\ next' \in [Alarm -> Alarm \cup {NULL}] /\ first_alm' \in Alarm \cup {NULL}
<1>1. PICK s \in Seq(Alarm) : s = List
  BY DEF ListOK
<1>2. /\ Len(s) \in Nat /\ DOMAIN s = 1..Len(s) /\ IsInjective(s)
      /\ \A i \in DOMAIN s : s[i] \in Alarm /\ s[i] # NULL
      /\ \A i \in DOMAIN s : next[s[i]] = Entry(s, i + 1)
      /\ first_alm = Entry(s, 1) /\ first_alm \in Alarm \cup {NULL}
  <2>1. /\ Len(s) \in Nat /\ DOMAIN s = 1..Len(s) /\ IsInjective(s)
        /\ \A i \in DOMAIN s : s[i] \in Alarm /\ s[i] # NULL
    BY <1>1, ListDomain DEF ListOK
  <2>2. QED BY <1>1, <2>1 DEF ListOK, Chain, Entry
<1>3. CASE a \notin ToSet(List)
  <2>1. UNCHANGED <<first_alm, next, enqueued>>
    BY <1>3 DEF RemoveAlarm, listVars
  <2>2. ListOK' /\ List' = List
    BY <2>1, SameList
  <2>3. enqueued' = [enqueued EXCEPT ![a] = FALSE]
    BY <1>3, <2>1
  <2>4. QED BY <1>2, <1>3, <2>1, <2>2, <2>3
<1>4. CASE a \in ToSet(List)
  <2>1. PICK i \in DOMAIN s : s[i] = a
    BY <1>1, <1>4 DEF ToSet
  <2>2. first_alm # NULL
    BY <1>2, <2>1 DEF Entry
  <2>3. /\ enqueued' = [enqueued EXCEPT ![a] = FALSE]
        /\ first_alm' = IF first_alm = a THEN next[a] ELSE first_alm
        /\ next' = [p \in Alarm |-> IF first_alm # a /\ p \in Before(a) THEN next[a] ELSE next[p]]
    BY <1>4, <2>2 DEF RemoveAlarm
  <2>4. PICK r : r = RemoveAt(s, i)
    OBVIOUS
  <2>5. /\ r \in Seq(Alarm) /\ IsInjective(r) /\ DOMAIN r = 1..(Len(s) - 1)
        /\ \A j \in DOMAIN r : r[j] = IF j < i THEN s[j] ELSE s[j + 1]
    BY <1>2, <2>4, RemoveAtKeeps, SMTT(30)
  <2>6. \A j \in 1..Len(s) : Entry(r, j) = IF j < i THEN s[j] ELSE Entry(s, j + 1)
    <3>1. SUFFICES ASSUME NEW j \in 1..Len(s)
                   PROVE  Entry(r, j) = IF j < i THEN s[j] ELSE Entry(s, j + 1)
      OBVIOUS
    <3>2. CASE j \in DOMAIN r
      <4>1. ~(j < i) => j + 1 \in DOMAIN s
        BY <1>2, <2>5, <3>2
      <4>2. QED BY <2>5, <3>2, <4>1 DEF Entry
    <3>3. CASE j \notin DOMAIN r
      <4>1. ~(j < i) /\ j + 1 \notin DOMAIN s
        BY <1>2, <2>5, <3>3
      <4>2. QED BY <3>3, <4>1 DEF Entry
    <3>4. QED BY <3>2, <3>3
  <2>7. \A j \in DOMAIN s : s[j] \in Before(a) <=> j + 1 = i
    <3>1. SUFFICES ASSUME NEW j \in DOMAIN s
                   PROVE  Entry(s, j + 1) = a <=> j + 1 = i
      BY <1>1, <1>2 DEF Before, ToSet
    <3>2. a # NULL
      BY PtrAssumption
    <3>3. QED BY <1>2, <2>1, <3>2 DEF Entry, IsInjective
  <2>8. first_alm = a <=> i = 1
    BY <1>2, <2>1 DEF Entry, IsInjective
  <2>9. next[a] = Entry(s, i + 1)
    BY <1>2, <2>1
  <2>10. first_alm' = Entry(r, 1)
    <3>1. 1 \in 1..Len(s) /\ Entry(s, 1) = s[1]
      BY <1>2, <2>1 DEF Entry
    <3>2. QED BY <1>2, <2>3, <2>6, <2>8, <2>9, <3>1
  <2>11. ASSUME NEW j \in DOMAIN r
         PROVE  next'[r[j]] = Entry(r, j + 1)
    <3>1. j + 1 \in 1..Len(s) /\ j \in DOMAIN s
      BY <1>2, <2>5
    <3>2. CASE j + 1 < i
      <4>1. r[j] = s[j] /\ j + 1 \in DOMAIN s /\ Entry(r, j + 1) = s[j + 1] /\ s[j] \notin Before(a)
        BY <1>2, <2>5, <2>6, <2>7, <3>1, <3>2
      <4>2. QED BY <1>2, <2>3, <3>1, <4>1 DEF Entry
    <3>3. CASE j + 1 = i
      <4>1. r[j] = s[j] /\ Entry(r, j + 1) = Entry(s, i + 1) /\ s[j] \in Before(a) /\ i # 1
        BY <1>2, <2>5, <2>6, <2>7, <3>1, <3>3
      <4>2. QED BY <1>2, <2>3, <2>8, <2>9, <3>1, <4>1
    <3>4. CASE j + 1 > i
      <4>1. r[j] = s[j + 1] /\ Entry(r, j + 1) = Entry(s, (j + 1) + 1)
            /\ j + 1 \in DOMAIN s /\ s[j + 1] \notin Before(a)
        BY <1>2, <2>5, <2>6, <2>7, <3>1, <3>4
      <4>2. QED BY <1>2, <2>3, <4>1
    <3>5. QED BY <1>2, <3>1, <3>2, <3>3, <3>4
  <2>12. ListOK' /\ List' = r
    BY <2>5, <2>10, <2>11, NewList
  <2>13. next' \in [Alarm -> Alarm \cup {NULL}] /\ first_alm' \in Alarm \cup {NULL}
    <3>1. next[a] \in Alarm \cup {NULL}
      OBVIOUS
    <3>2. QED BY <1>2, <2>3, <3>1
  <2>14. QED BY <1>1, <1>4, <2>1, <2>3, <2>4, <2>12, <2>13
<1>5. QED BY <1>3, <1>4

\* The place p is where alm_insert links an alarm: those before it are not due
\* later, the one there is.
InsertsAt(a, p) ==
  /\ \A j \in 1..(p - 1) : time_due[List[j]] <= time_due[a]
  /\ p <= Len(List) => time_due[List[p]] > time_due[a]

\* The walk of alm_insert finds that place.
LEMMA PositionProperties ==
  ASSUME ListOK, time_due \in [Alarm -> Nat], NEW a \in Alarm
  PROVE  \E p \in 1..(Len(List) + 1) :
           Position(a) = p - 1 /\ Behind(a) = Entry(List, p) /\ InsertsAt(a, p)
<1>1. /\ Len(List) \in Nat /\ DOMAIN List = 1..Len(List)
      /\ \A i \in DOMAIN List : time_due[List[i]] \in Nat
      /\ time_due[a] \in Nat
  BY ListDomain
<1>2. Earlier(a) = {i \in 1..Len(List) : \A j \in 1..i : time_due[List[j]] <= time_due[a]}
  BY <1>1 DEF Earlier
<1>3. PICK k \in 0..Len(List) : Earlier(a) = 1..k /\ Cardinality(Earlier(a)) = k
  <2>1. Earlier(a) \in SUBSET (1..Len(List))
    BY <1>2
  <2>2. \A i \in Earlier(a) : \A j \in 1..i : j \in Earlier(a)
    <3>1. SUFFICES ASSUME NEW i \in Earlier(a), NEW j \in 1..i PROVE j \in Earlier(a)
      OBVIOUS
    <3>2. i \in 1..Len(List) /\ \A m \in 1..i : time_due[List[m]] <= time_due[a]
      BY <1>2
    <3>3. j \in 1..Len(List) /\ \A m \in 1..j : m \in 1..i
      BY <1>1, <3>2
    <3>4. QED BY <1>2, <3>2, <3>3
  <2>3. QED BY <1>1, <2>1, <2>2, PrefixProperties
<1>4. PICK p \in 1..(Len(List) + 1) : p = k + 1
  BY <1>1
<1>5. Position(a) = p - 1
  BY <1>1, <1>3, <1>4 DEF Position
<1>6. Behind(a) = Entry(List, p)
  BY <1>1, <1>3, <1>4 DEF Behind, Entry, Position
<1>7. \A j \in 1..(p - 1) : time_due[List[j]] <= time_due[a]
  <2>1. SUFFICES ASSUME NEW j \in 1..(p - 1) PROVE time_due[List[j]] <= time_due[a]
    OBVIOUS
  <2>2. j \in Earlier(a) /\ j \in 1..j
    BY <1>1, <1>3, <1>4
  <2>3. QED BY <1>2, <2>2
<1>8. ASSUME p <= Len(List)
      PROVE  time_due[List[p]] > time_due[a]
  <2>1. p \notin Earlier(a) /\ p \in 1..Len(List)
    BY <1>1, <1>3, <1>4, <1>8
  <2>2. PICK j \in 1..p : ~ (time_due[List[j]] <= time_due[a])
    BY <1>2, <2>1
  <2>3. j = p
    BY <1>1, <1>7, <2>2
  <2>4. QED BY <1>1, <2>1, <2>2, <2>3
<1>9. QED BY <1>5, <1>6, <1>7, <1>8 DEF InsertsAt

\* alm_insert puts the alarm in, behind those that are not due later.
LEMMA LinkedList ==
  ASSUME ListOK, next \in [Alarm -> Alarm \cup {NULL}], time_due \in [Alarm -> Nat],
         NEW a \in Alarm, a \notin ToSet(List), next[a] = Behind(a),
         IF Position(a) = 0
         THEN first_alm' = a /\ UNCHANGED next
         ELSE next' = [next EXCEPT ![List[Position(a)]] = a] /\ UNCHANGED first_alm
  PROVE  /\ ListOK'
         /\ \E p \in 1..(Len(List) + 1) : InsertsAt(a, p) /\ List' = InsertAt(List, p, a)
<1>1. PICK p \in 1..(Len(List) + 1) :
        Position(a) = p - 1 /\ Behind(a) = Entry(List, p) /\ InsertsAt(a, p)
  BY PositionProperties
<1>2. PICK s \in Seq(Alarm) : s = List
  BY DEF ListOK
<1>3. /\ Len(s) \in Nat /\ DOMAIN s = 1..Len(s) /\ IsInjective(s)
      /\ \A i \in DOMAIN s : s[i] \in Alarm /\ s[i] # a
      /\ \A i \in DOMAIN s : next[s[i]] = Entry(s, i + 1)
      /\ first_alm = Entry(s, 1) /\ p \in 1..(Len(s) + 1) /\ p \in Nat
  BY <1>2, ListDomain DEF ListOK, Chain, ToSet
<1>4. PICK r : r = InsertAt(s, p, a)
  OBVIOUS
<1>5. /\ r \in Seq(Alarm) /\ IsInjective(r) /\ DOMAIN r = 1..(Len(s) + 1)
      /\ \A j \in DOMAIN r : r[j] = IF j < p THEN s[j] ELSE IF j = p THEN a ELSE s[j - 1]
  <2>1. s \in Seq(Alarm) /\ p \in 1..(Len(s) + 1) /\ a \in Alarm /\ IsInjective(s)
        /\ a \notin ToSet(s)
    BY <1>2, <1>3
  <2>2. r \in Seq(Alarm) /\ DOMAIN r = 1..(Len(s) + 1)
    BY <1>4, <2>1, InsertAtKeeps
  <2>3. IsInjective(r)
    BY <1>4, <2>1, InsertAtKeeps
  <2>4. \A j \in DOMAIN r : r[j] = IF j < p THEN s[j] ELSE IF j = p THEN a ELSE s[j - 1]
    BY <1>4, <2>1, InsertAtKeeps
  <2>5. QED BY <2>2, <2>3, <2>4
<1>6. \A j \in 1..(Len(s) + 2) :
        Entry(r, j) = IF j < p THEN s[j] ELSE IF j = p THEN a ELSE Entry(s, j - 1)
  <2>1. SUFFICES ASSUME NEW j \in 1..(Len(s) + 2)
                 PROVE  Entry(r, j) = IF j < p THEN s[j] ELSE IF j = p THEN a ELSE Entry(s, j - 1)
    OBVIOUS
  <2>2. CASE j \in DOMAIN r
    <3>1. ~(j < p) /\ j # p => j - 1 \in DOMAIN s
      BY <1>3, <1>5, <2>2
    <3>2. QED BY <1>5, <2>2, <3>1 DEF Entry
  <2>3. CASE j \notin DOMAIN r
    <3>1. ~(j < p) /\ j # p /\ j - 1 \notin DOMAIN s
      BY <1>3, <1>5, <2>3
    <3>2. QED BY <2>3, <3>1 DEF Entry
  <2>4. QED BY <2>2, <2>3
<1>7. next[a] = Entry(s, p)
  BY <1>1, <1>2
<1>8. PICK h \in 0..Len(s) : h = p - 1
  BY <1>3
<1>9. /\ h = 0 => first_alm' = a /\ next' = next
      /\ h # 0 => next' = [next EXCEPT ![s[h]] = a] /\ first_alm' = first_alm /\ h \in DOMAIN s
  BY <1>1, <1>2, <1>3, <1>8
<1>10. first_alm' = Entry(r, 1)
  <2>1. 1 \in 1..(Len(s) + 2) /\ (h = 0 <=> p = 1) /\ (h # 0 => 1 < p /\ 1 \in DOMAIN s)
    BY <1>3, <1>8
  <2>2. CASE h = 0
    BY <1>6, <1>9, <2>1, <2>2
  <2>3. CASE h # 0
    <3>1. Entry(r, 1) = s[1] /\ Entry(s, 1) = s[1]
      BY <1>6, <2>1, <2>3 DEF Entry
    <3>2. QED BY <1>3, <1>9, <2>3, <3>1
  <2>4. QED BY <2>2, <2>3
<1>11. ASSUME NEW j \in DOMAIN r
       PROVE  next'[r[j]] = Entry(r, j + 1)
  <2>1. PICK m \in 1..(Len(s) + 2) : m = j + 1
    BY <1>3, <1>5
  <2> DEFINE L == Len(s)
  <2>0. /\ j \in Nat /\ 1 <= j /\ j <= L + 1 /\ L \in Nat /\ DOMAIN s = 1..L
        /\ h \in Nat /\ h <= L /\ p = h + 1 /\ m = j + 1
    BY <1>3, <1>5, <1>8, <2>1
  <2> HIDE DEF L
  <2>2. CASE j < h
    <3>1. j \in DOMAIN s /\ m \in DOMAIN s /\ j # h /\ j < p /\ m < p /\ h # 0
      BY <2>0, <2>2
    <3>2. r[j] = s[j] /\ Entry(r, m) = s[m] /\ Entry(s, m) = s[m] /\ s[j] # s[h]
      BY <1>3, <1>5, <1>6, <1>9, <2>1, <3>1 DEF Entry, IsInjective
    <3>3. next[s[j]] = Entry(s, m)
      BY <1>3, <2>1, <3>1
    <3>4. QED BY <1>3, <1>9, <2>1, <3>1, <3>2, <3>3
  <2>3. CASE j = h
    <3>1. h # 0 /\ j < p /\ m = p
      BY <1>3, <1>5, <1>8, <2>1, <2>3
    <3>2. h \in DOMAIN s /\ s[h] \in Alarm /\ r[j] = s[h] /\ Entry(r, m) = a
      BY <1>3, <1>5, <1>6, <1>9, <2>1, <2>3, <3>1
    <3>3. QED BY <1>9, <2>1, <3>1, <3>2
  <2>4. CASE j = p
    <3>1. ~(m < p) /\ m # p /\ m - 1 = p /\ ~(j < p)
      BY <1>3, <2>1, <2>4
    <3>2. r[j] = a /\ Entry(r, m) = Entry(s, p)
      BY <1>5, <1>6, <2>1, <2>4, <3>1
    <3>3. h # 0 => s[h] # a
      BY <1>3, <1>9
    <3>4. QED BY <1>7, <1>9, <2>1, <3>2, <3>3
  <2>5. CASE j > p
    <3>1. PICK l \in 1..L : l = j - 1
      BY <2>0, <2>5
    <3>2. /\ l \in DOMAIN s /\ l # h /\ l + 1 = j /\ m - 1 = j
          /\ ~(j < p) /\ j # p /\ ~(m < p) /\ m # p
      BY <2>0, <2>5, <3>1, SMTT(30)
    <3>3. r[j] = s[l] /\ Entry(r, m) = Entry(s, j)
      BY <1>5, <1>6, <2>1, <3>1, <3>2
    <3>4. next[s[l]] = Entry(s, j)
      BY <1>3, <3>2
    <3>5. h # 0 => s[l] # s[h]
      BY <1>3, <1>9, <3>2 DEF IsInjective
    <3>6. next'[s[l]] = next[s[l]]
      BY <1>3, <1>9, <3>2, <3>5
    <3>7. QED BY <2>1, <3>3, <3>4, <3>6
  <2>6. j < h \/ j = h \/ j = p \/ j > p
    BY <1>3, <1>5, <1>8
  <2>7. QED BY <2>2, <2>3, <2>4, <2>5, <2>6
<1>12. ListOK' /\ List' = r
  BY <1>5, <1>10, <1>11, NewList
<1>13. QED BY <1>1, <1>2, <1>4, <1>12

-----------------------------------------------------------------------------
(* Types, and what the handler holds. *)

\* The handler looks at an alarm.
HandlerAt == isr.pc \in {"ring", "reset", "advance", "pass"} => isr.alm # NULL
Typed == TypeOK /\ Working /\ HandlerAt
IsrType == [pc : {"idle", "due", "ring", "reset", "advance", "skip", "pass", "assert", "setup"},
            alm : Alarm \cup {NULL}, now : Nat]

\* The delay handed to the timer is a natural number.
LEMMA SetupDelayType ==
  ASSUME NEW due \in Nat, time \in Nat
  PROVE  SetupDelay(due) \in Nat
BY PtrAssumption DEF SetupDelay

\* alm_setup_alarm keeps the types of next_due and the timer.
LEMMA SetupAlarmType ==
  ASSUME TypeOK, NEW due \in Nat, NEW b \in BOOLEAN, SetupAlarm(due, b)
  PROVE  next_due' \in Nat /\ hw' \in Nat \cup {Off} /\ pending' \in BOOLEAN
<1>1. time \in Nat
  BY DEF TypeOK
<1>2. SetupDelay(due) \in Nat
  BY <1>1, SetupDelayType
<1>3. QED BY <1>1, <1>2 DEF SetupAlarm, TypeOK

\* alm_remove assigns pointers to pointers.
LEMMA RemoveAlarmType ==
  ASSUME TypeOK, NEW a \in Alarm, RemoveAlarm(a)
  PROVE  /\ first_alm' \in Alarm \cup {NULL} /\ next' \in [Alarm -> Alarm \cup {NULL}]
         /\ enqueued' \in [Alarm -> BOOLEAN]
<1>1. next[a] \in Alarm \cup {NULL}
  BY DEF TypeOK
<1>2. QED BY <1>1 DEF RemoveAlarm, listVars, TypeOK

\* The types hold initially.
LEMMA TypedInit == Init => Typed
<1>1. ASSUME Init PROVE Typed
  <2>1. time = 0 /\ MAX_WAIT \in Nat
    BY <1>1, PtrAssumption DEF Init
  <2>2. next_due \in Nat
    BY <1>1, <2>1, SetupDelayType DEF Init
  <2>3. isr \in IsrType
    BY <1>1 DEF Init, IsrIdle, IsrType
  <2>4. QED BY <1>1, <2>2, <2>3, PtrAssumption
            DEF IsrType, Init, Typed, TypeOK, Working, HandlerAt, IsrIdle, InStart, InDestroy, Off
<1>2. QED BY <1>1

\* The handler follows `next' only from an alarm.
LEMMA TypedHandler ==
  ASSUME Typed, HandlerEnter \/ HandlerStep \/ \E a \in Alarm : CallbackCancels(a)
  PROVE  Typed'
<1> USE PtrAssumption DEF Typed, timerVars, listVars, localVars
<1>1. isr \in IsrType /\ TypeOK
  BY DEF TypeOK, IsrType
<1>2. ASSUME isr' \in IsrType, HandlerAt', active' \in [Alarm -> BOOLEAN],
             UNCHANGED <<hw, next_due>>, HandlerOnly
      PROVE  Typed'
  BY <1>2 DEF HandlerOnly, TypeOK, Working, IsrType
<1>3. CASE HandlerEnter
  <2>1. isr' \in IsrType /\ HandlerAt'
    BY <1>3 DEF HandlerEnter, TypeOK, IsrType, HandlerAt
  <2>2. QED BY <1>3, <2>1 DEF HandlerEnter, TypeOK, Working, IsrType
<1>4. CASE HandlerDue
  <2>1. isr' \in IsrType /\ HandlerAt'
    <3>1. CASE AtDue
      BY <1>1, <1>4, <3>1 DEF HandlerDue, HandlerGoto, AtDue, IsrType, HandlerAt
    <3>2. CASE ~AtDue
      BY <1>1, <1>4, <3>2 DEF HandlerDue, HandlerGoto, IsrType, HandlerAt
    <3>3. QED BY <3>1, <3>2
  <2>2. QED BY <1>2, <1>4, <2>1 DEF HandlerDue, HandlerGoto, TypeOK
<1>5. CASE HandlerRing
  <2>1. isr' \in IsrType /\ HandlerAt'
    <3>1. PICK p \in {"reset", "advance"} : isr' = [isr EXCEPT !.pc = p]
      BY <1>5 DEF HandlerRing, HandlerGoto
    <3>2. isr.alm # NULL
      BY <1>5 DEF HandlerRing, HandlerGoto, HandlerAt
    <3>3. QED BY <1>1, <3>1, <3>2 DEF IsrType, HandlerAt
  <2>2. QED BY <1>2, <1>5, <2>1 DEF HandlerRing, HandlerGoto, TypeOK
<1>6. CASE HandlerReset
  <2>1. isr' \in IsrType /\ HandlerAt'
    BY <1>1, <1>6 DEF HandlerReset, IsrType, HandlerAt
  <2>2. active' \in [Alarm -> BOOLEAN]
    BY <1>1, <1>6 DEF HandlerReset, TypeOK
  <2>3. QED BY <1>2, <1>6, <2>1, <2>2 DEF HandlerReset
<1>7. CASE HandlerAdvance \/ HandlerPass
  <2>1. PICK to \in {"due", "skip"} : isr' = [isr EXCEPT !.pc = to, !.alm = next[isr.alm]]
    BY <1>7 DEF HandlerAdvance, HandlerPass, HandlerNext
  <2>2. isr.alm \in Alarm
    BY <1>1, <1>7 DEF HandlerAdvance, HandlerPass, HandlerNext, HandlerAt, IsrType
  <2>3. next[isr.alm] \in Alarm \cup {NULL}
    BY <1>1, <2>2 DEF TypeOK
  <2>4. isr' \in IsrType /\ HandlerAt'
    BY <1>1, <2>1, <2>3 DEF IsrType, HandlerAt
  <2>5. QED BY <1>1, <1>2, <1>7, <2>4 DEF HandlerAdvance, HandlerPass, HandlerNext, TypeOK
<1>8. CASE HandlerSkip
  <2>1. isr' \in IsrType /\ HandlerAt'
    <3>1. CASE AtInactive
      BY <1>1, <1>8, <3>1 DEF HandlerSkip, HandlerGoto, AtInactive, IsrType, HandlerAt
    <3>2. CASE ~AtInactive
      BY <1>1, <1>8, <3>2 DEF HandlerSkip, HandlerGoto, IsrType, HandlerAt
    <3>3. QED BY <3>1, <3>2
  <2>2. QED BY <1>1, <1>2, <1>8, <2>1 DEF HandlerSkip, HandlerGoto, TypeOK
<1>9. CASE HandlerAssert
  <2>1. isr' \in IsrType /\ HandlerAt'
    BY <1>1, <1>9 DEF HandlerAssert, HandlerGoto, IsrType, HandlerAt
  <2>2. QED BY <1>1, <1>2, <1>9, <2>1 DEF HandlerAssert, HandlerGoto, TypeOK
<1>10. CASE HandlerSetup
  <2>1. isr.alm \in Alarm \cup {NULL} /\ isr.now \in Nat
    BY <1>1 DEF IsrType
  <2>2. (IF isr.alm # NULL THEN time_due[isr.alm] ELSE isr.now + MAX_WAIT) \in Nat
    BY <2>1, <1>1 DEF TypeOK
  <2>3. next_due' \in Nat /\ hw' \in Nat \cup {Off} /\ pending' \in BOOLEAN
    BY <1>10, <2>2, SetupAlarmType DEF HandlerSetup
  <2>4. isr' \in IsrType /\ HandlerAt'
    BY <1>10 DEF HandlerSetup, IsrIdle, IsrType, HandlerAt
  <2>5. QED BY <1>1, <1>10, <2>3, <2>4 DEF HandlerSetup, HandlerOnly, TypeOK, Working, IsrType
<1>11. ASSUME NEW a \in Alarm, CallbackCancels(a)
       PROVE  Typed'
  <2>1. isr' \in IsrType /\ HandlerAt' /\ active' \in [Alarm -> BOOLEAN]
    BY <1>1, <1>11 DEF CallbackCancels, TypeOK, HandlerAt
  <2>2. QED BY <1>2, <1>11, <2>1 DEF CallbackCancels
<1>12. QED
  BY <1>3, <1>4, <1>5, <1>6, <1>7, <1>8, <1>9, <1>10, <1>11 DEF HandlerStep

\* Every step keeps the types.
LEMMA TypedNext ==
  ASSUME ListOK
  PROVE  Typed /\ [Next]_vars => Typed'
<1> SUFFICES ASSUME Typed, [Next]_vars PROVE Typed'
  OBVIOUS
<1> USE PtrAssumption DEF Typed, timerVars, listVars, localVars
<1>1. CASE Tick
  BY <1>1 DEF Tick, TypeOK, Working, HandlerAt
<1>2. CASE TimerExpires
  BY <1>2 DEF TimerExpires, TypeOK, Working, HandlerAt
<1>3. CASE HandlerEnter \/ HandlerStep \/ \E a \in Alarm : CallbackCancels(a)
  BY <1>3, TypedHandler
<1>4. ASSUME NEW t \in Thread, StartStep(t)
      PROVE  Typed'
  <2>0. pc[t] \in InStart => what[t] \in Alarm
    BY DEF TypeOK, Working, InStart
  <2>1. CASE Lock(t)
    BY <2>1 DEF Lock, Goto, TypeOK, Working, HandlerAt, InStart
  <2>2. CASE Purge(t)
    <3>1. enqueued' \in [Alarm -> BOOLEAN]
      BY <2>2 DEF Purge, TypeOK
    <3>2. cur[t] \in Alarm
      BY <2>2 DEF Purge, AtPurge, TypeOK
    <3>3. cur' \in [Thread -> Alarm \cup {NULL}]
      BY <2>2, <3>2 DEF Purge, TypeOK
    <3>4. pc' = pc
      BY <2>2 DEF Purge, Goto, TypeOK
    <3>5. QED BY <2>2, <3>1, <3>3, <3>4 DEF Purge, TypeOK, Working, HandlerAt
  <2>3. CASE PurgeEnd(t)
    BY <2>3 DEF PurgeEnd, Goto, TypeOK, Working, HandlerAt, InStart
  <2>4. CASE CancelIt(t)
    BY <2>4 DEF CancelIt, Goto, TypeOK, Working, HandlerAt, InStart
  <2>5. CASE Remove_(t)
    <3>1. what[t] \in Alarm
      BY <2>0, <2>5 DEF Remove_, Goto, InStart
    <3>2. /\ first_alm' \in Alarm \cup {NULL} /\ next' \in [Alarm -> Alarm \cup {NULL}]
          /\ enqueued' \in [Alarm -> BOOLEAN]
      BY <2>5, <3>1, RemoveAlarmType DEF Remove_
    <3>3. QED BY <2>5, <3>2 DEF Remove_, Goto, TypeOK, Working, HandlerAt, InStart
  <2>6. CASE SetDue(t)
    <3>1. what[t] \in Alarm
      BY <2>0, <2>6 DEF SetDue, Goto, InStart
    <3>2. time_due[what[t]] \in Nat /\ tstart[t] + delay[t] \in Nat
      BY <3>1 DEF TypeOK
    <3>3. was' \in [Thread -> Nat] /\ time_due' \in [Alarm -> Nat]
      BY <2>6, <3>2 DEF SetDue, TypeOK
    <3>4. QED BY <2>6, <3>3 DEF SetDue, Goto, TypeOK, Working, HandlerAt, InStart
  <2>7. CASE Activate(t)
    BY <2>7 DEF Activate, Goto, TypeOK, Working, HandlerAt, InStart
  <2>8. CASE Insert(t)
    <3>1. what[t] \in Alarm
      BY <2>0, <2>8 DEF Insert, Goto, InStart
    <3>2. Behind(what[t]) \in Alarm \cup {NULL}
      BY <3>1, PositionProperties, ListDomain DEF Entry, TypeOK
    <3>3. next' \in [Alarm -> Alarm \cup {NULL}]
      BY <2>8, <3>2 DEF Insert, TypeOK
    <3>4. QED BY <2>8, <3>3 DEF Insert, Goto, TypeOK, Working, HandlerAt, InStart
  <2>9. CASE Link(t)
    <3>1. what[t] \in Alarm
      BY <2>0, <2>9 DEF Link, Goto, InStart
    <3>2. first_alm' \in Alarm \cup {NULL} /\ next' \in [Alarm -> Alarm \cup {NULL}]
          /\ enqueued' \in [Alarm -> BOOLEAN]
      BY <2>9, <3>1 DEF Link, TypeOK
    <3>3. QED BY <2>9, <3>2 DEF Link, Goto, TypeOK, Working, HandlerAt, InStart
  <2>10. CASE Check(t)
    BY <2>10 DEF Check, Goto, TypeOK, Working, HandlerAt, InStart
  <2>11. CASE Setup(t)
    <3>1. what[t] \in Alarm
      BY <2>0, <2>11 DEF Setup, Goto, InStart
    <3>2. time_due[what[t]] \in Nat
      BY <3>1 DEF TypeOK
    <3>3. next_due' \in Nat /\ hw' \in Nat \cup {Off} /\ pending' \in BOOLEAN
      BY <2>11, <3>2, SetupAlarmType DEF Setup
    <3>4. QED BY <2>11, <3>3 DEF Setup, Goto, TypeOK, Working, HandlerAt, InStart
  <2>12. CASE Unlock(t)
    BY <2>12 DEF Unlock, Goto, Return, TypeOK, Working, HandlerAt
  <2>13. QED
    BY <1>4, <2>1, <2>2, <2>3, <2>4, <2>5, <2>6, <2>7, <2>8, <2>9, <2>10, <2>11, <2>12
    DEF StartStep
<1>5. ASSUME NEW t \in Thread, DestroyStep(t)
      PROVE  Typed'
  <2>1. CASE DestroyTest(t)
    BY <2>1 DEF DestroyTest, Goto, TypeOK, Working, HandlerAt, InDestroy
  <2>2. CASE DestroyRemove(t)
    <3>1. what[t] \in Alarm
      BY <2>2 DEF DestroyRemove, Goto, TypeOK, Working
    <3>2. /\ first_alm' \in Alarm \cup {NULL} /\ next' \in [Alarm -> Alarm \cup {NULL}]
          /\ enqueued' \in [Alarm -> BOOLEAN]
      BY <2>2, <3>1, RemoveAlarmType DEF DestroyRemove
    <3>3. QED BY <2>2, <3>2 DEF DestroyRemove, Goto, TypeOK, Working, HandlerAt, InDestroy
  <2>3. CASE Free(t)
    BY <2>3 DEF Free, Goto, Return, TypeOK, Working, HandlerAt
  <2>4. QED BY <1>5, <2>1, <2>2, <2>3 DEF DestroyStep
<1>6. ASSUME NEW t \in Thread, DumpStep(t)
      PROVE  Typed'
  <2>1. CASE DumpLock(t)
    BY <2>1 DEF DumpLock, Goto, TypeOK, Working, HandlerAt
  <2>2. CASE DumpAlarm(t)
    <3>1. cur' \in [Thread -> Alarm \cup {NULL}]
      BY <2>2 DEF DumpAlarm, TypeOK
    <3>2. QED BY <2>2, <3>1 DEF DumpAlarm, Goto, TypeOK, Working, HandlerAt
  <2>3. CASE DumpEnd(t)
    BY <2>3 DEF DumpEnd, Goto, TypeOK, Working, HandlerAt
  <2>4. QED BY <1>6, <2>1, <2>2, <2>3 DEF DumpStep
<1>7. ASSUME NEW t \in Thread, Call(t)
      PROVE  Typed'
  <2>1. CASE Dump(t)
    BY <2>1 DEF Dump, Goto, TypeOK, Working, HandlerAt
  <2>2. ASSUME NEW a \in Alarm, NEW d \in Delay, Start(t, a, d)
        PROVE  Typed'
    BY <2>2 DEF Start, Goto, TypeOK, Working, HandlerAt, InStart
  <2>3. ASSUME NEW a \in Alarm, Cancel(t, a)
        PROVE  Typed'
    BY <2>3 DEF Cancel, Goto, TypeOK, Working, HandlerAt
  <2>4. ASSUME NEW a \in Alarm, Create(t, a)
        PROVE  Typed'
    BY <2>4 DEF Create, Goto, TypeOK, Working, HandlerAt
  <2>5. ASSUME NEW a \in Alarm, Destroy(t, a)
        PROVE  Typed'
    BY <2>5 DEF Destroy, Goto, TypeOK, Working, HandlerAt, InDestroy
  <2>6. QED BY <1>7, <2>1, <2>2, <2>3, <2>4, <2>5 DEF Call
<1>8. CASE UNCHANGED vars
  BY <1>8 DEF vars, TypeOK, Working, HandlerAt
<1>9. QED
  BY <1>1, <1>2, <1>3, <1>4, <1>5, <1>6, <1>7, <1>8 DEF Next, ThreadStep

-----------------------------------------------------------------------------
(* The mutex, and who works on which alarm. *)

Locked == Typed /\ Locking /\ Handles
InLock == (InStart \ {"lock"}) \cup {"walk"}

\* Nobody owns the mutex initially.
LEMMA LockedInit == Init => Locked
BY TypedInit, PtrAssumption
   DEF Init, Locked, Locking, Handles, InStart, InDestroy, TypeOK, Typed

\* Every step keeps the mutual exclusion of threads, and of those that share an alarm.
LEMMA LockedNext ==
  ASSUME ListOK
  PROVE  Locked /\ [Next]_vars => Locked'
<1> SUFFICES ASSUME Locked, [Next]_vars PROVE Locking' /\ Handles'
  BY TypedNext DEF Locked
<1>1. TypeOK /\ Working /\ Locking /\ Handles /\ TypeOK' /\ Working'
  BY TypedNext DEF Locked, Typed
<1> USE PtrAssumption DEF timerVars, listVars, localVars
<1>2. ASSUME UNCHANGED <<pc, what, lock, cur, created>>,
             \A a \in Alarm : active'[a] => active[a]
      PROVE  Locking' /\ Handles'
  BY <1>1, <1>2 DEF Locking, Handles, Typed, TypeOK, Working, InDestroy
<1>3. CASE Tick \/ TimerExpires \/ HandlerEnter \/ UNCHANGED vars
  BY <1>2, <1>3 DEF Tick, TimerExpires, HandlerEnter, vars
<1>4. CASE HandlerStep \/ \E a \in Alarm : CallbackCancels(a)
  <2>1. HandlerOnly
    BY <1>4 DEF HandlerStep, CallbackCancels, HandlerDue, HandlerRing, HandlerReset,
         HandlerAdvance, HandlerSkip, HandlerPass, HandlerAssert, HandlerSetup,
         HandlerGoto, HandlerNext
  <2>2. active' = active \/ \E x : active' = [active EXCEPT ![x] = FALSE]
    BY <1>4 DEF HandlerStep, CallbackCancels, HandlerDue, HandlerRing, HandlerReset,
         HandlerAdvance, HandlerSkip, HandlerPass, HandlerAssert, HandlerSetup,
         HandlerGoto, HandlerNext
  <2>3. QED BY <1>1, <1>2, <2>1, <2>2 DEF HandlerOnly, TypeOK
<1>5. ASSUME NEW t \in Thread, StartStep(t)
      PROVE  Locking' /\ Handles'
  <2> USE DEF Goto, TypeOK, Working, Locking, Handles, InStart, InDestroy
  <2>1. CASE Lock(t)
    BY <1>1, <2>1 DEF Lock
  <2>2. CASE Purge(t)
    BY <1>1, <2>2 DEF Purge
  <2>3. CASE PurgeEnd(t)
    BY <1>1, <2>3 DEF PurgeEnd
  <2>4. CASE CancelIt(t)
    BY <1>1, <2>4 DEF CancelIt
  <2>5. CASE Remove_(t)
    BY <1>1, <2>5 DEF Remove_
  <2>6. CASE SetDue(t)
    BY <1>1, <2>6 DEF SetDue
  <2>7. CASE Activate(t)
    BY <1>1, <2>7 DEF Activate
  <2>8. CASE Insert(t)
    BY <1>1, <2>8 DEF Insert
  <2>9. CASE Link(t)
    BY <1>1, <2>9 DEF Link
  <2>10. CASE Check(t)
    BY <1>1, <2>10 DEF Check
  <2>11. CASE Setup(t)
    BY <1>1, <2>11 DEF Setup
  <2>12. CASE Unlock(t)
    BY <1>1, <2>12 DEF Unlock, Return
  <2>13. QED
    BY <1>5, <2>1, <2>2, <2>3, <2>4, <2>5, <2>6, <2>7, <2>8, <2>9, <2>10, <2>11, <2>12
    DEF StartStep
<1>6. ASSUME NEW t \in Thread, DestroyStep(t) \/ DumpStep(t)
      PROVE  Locking' /\ Handles'
  <2> USE DEF Goto, TypeOK, Working, Locking, Handles, InStart, InDestroy
  <2>1. CASE DestroyTest(t)
    BY <1>1, <2>1 DEF DestroyTest
  <2>2. CASE DestroyRemove(t)
    BY <1>1, <2>2 DEF DestroyRemove
  <2>3. CASE Free(t)
    BY <1>1, <2>3 DEF Free, Return
  <2>4. CASE DumpLock(t)
    BY <1>1, <2>4 DEF DumpLock
  <2>5. CASE DumpAlarm(t)
    BY <1>1, <2>5 DEF DumpAlarm
  <2>6. CASE DumpEnd(t)
    BY <1>1, <2>6 DEF DumpEnd
  <2>7. QED BY <1>6, <2>1, <2>2, <2>3, <2>4, <2>5, <2>6 DEF DestroyStep, DumpStep
<1>7. ASSUME NEW t \in Thread, Call(t)
      PROVE  Locking' /\ Handles'
  <2> USE DEF Goto, TypeOK, Working, Locking, Handles, InStart, InDestroy
  <2>1. CASE Dump(t)
    BY <1>1, <2>1 DEF Dump
  <2>2. ASSUME NEW a \in Alarm, NEW d \in Delay, Start(t, a, d)
        PROVE  Locking' /\ Handles'
    BY <1>1, <2>2 DEF Start, Usable
  <2>3. ASSUME NEW a \in Alarm, Cancel(t, a)
        PROVE  Locking' /\ Handles'
    BY <1>1, <2>3 DEF Cancel
  <2>4. ASSUME NEW a \in Alarm, Create(t, a)
        PROVE  Locking' /\ Handles'
    BY <1>1, <2>4 DEF Create
  <2>5. ASSUME NEW a \in Alarm, Destroy(t, a)
        PROVE  Locking' /\ Handles'
    BY <1>1, <2>5 DEF Destroy
  <2>6. QED BY <1>7, <2>1, <2>2, <2>3, <2>4, <2>5 DEF Call
<1>8. QED
  BY <1>3, <1>4, <1>5, <1>6, <1>7 DEF Next, ThreadStep

-----------------------------------------------------------------------------
(* The list and its flags. *)

\* Places, for one thread.
PlaceOf(s, t) ==
  /\ pc[t] \in {"due", "activate", "insert", "link", "free"} => what[t] \notin ToSet(s)
  /\ pc[t] \in {"check", "setup"} => what[t] \in ToSet(s)
  /\ pc[t] = "link" => next[what[t]] = Behind(what[t])

Sorted(s) == Ascending(s, time_due)
Listed == Locked /\ ListOK /\ Flags(List) /\ Places(List) /\ Sorted(List)

\* The invariant is checked and proved in two forms.
LEMMA ListedIsInductive == ListInductive <=> Listed
<1>1. ASSUME ListOK
      PROVE  IsSorted(List, LAMBDA a, b : time_due[a] <= time_due[b]) <=> Sorted(List)
  <2>1. DOMAIN List = 1..Len(List)
    BY <1>1, ListDomain
  <2>2. QED BY <2>1 DEF IsSorted, Sorted, Ascending
<1>2. QED BY <1>1 DEF ListInductive, Listed, Locked, Typed, HandlerAt, ListOK

\* Where alm_insert would put an alarm depends on the due dates only.
LEMMA BehindSame ==
  ASSUME ListOK, List' = List, NEW a,
         \A b \in ToSet(List) \cup {a} : time_due'[b] = time_due[b]
  PROVE  Behind(a)' = Behind(a)
<1>1. PICK s : s = List
  OBVIOUS
<1>2. List = s /\ List' = s
  BY <1>1
<1>3. DOMAIN s = 1..Len(s) /\ Len(s) \in Nat /\ \A i \in DOMAIN s : s[i] \in ToSet(s)
  BY <1>1, ListDomain
<1>4. ASSUME NEW i \in DOMAIN s
      PROVE  (\A j \in 1..i : time_due'[s[j]] <= time_due'[a])
               <=> (\A j \in 1..i : time_due[s[j]] <= time_due[a])
  <2>1. \A j \in 1..i : j \in DOMAIN s
    BY <1>3
  <2>2. \A j \in 1..i : time_due'[s[j]] = time_due[s[j]]
    BY <1>2, <1>3, <2>1
  <2>3. time_due'[a] = time_due[a]
    OBVIOUS
  <2>4. QED BY <2>2, <2>3
<1>5. Earlier(a)' = Earlier(a)
  <2>1. Earlier(a) = {i \in DOMAIN s : \A j \in 1..i : time_due[s[j]] <= time_due[a]}
    BY <1>2 DEF Earlier
  <2>2. Earlier(a)' = {i \in DOMAIN s : \A j \in 1..i : time_due'[s[j]] <= time_due'[a]}
    BY <1>2 DEF Earlier
  <2>3. QED BY <1>4, <2>1, <2>2
<1>6. Position(a)' = Position(a)
  BY <1>5 DEF Position
<1>7. QED BY <1>2, <1>6 DEF Behind

\* What most steps leave as it is.
LEMMA FlagsKept ==
  ASSUME NEW s \in Seq(Alarm), Flags(s), enqueued' = enqueued, ToSet(s) \subseteq created',
         \A a \in ToSet(s) : active'[a] => active[a],
         \A u \in Thread : /\ pc'[u] = "purge" <=> pc[u] = "purge"
                           /\ pc[u] = "purge" => cur'[u] = cur[u]
  PROVE  Flags(s)'
<1>1. \A i \in DOMAIN s : s[i] \in ToSet(s)
  BY DEF ToSet
<1>2. \A u \in Thread : \A i : pc[u] = "purge" => (Passes(s, cur[u], i)' <=> Passes(s, cur[u], i))
  BY DEF Passes
<1>3. \A i \in DOMAIN s :
        enqueued'[s[i]] \/ \E u \in Thread : pc'[u] = "purge" /\ Passes(s, cur[u], i)'
  BY <1>2 DEF Flags
<1>4. \A u \in Thread : pc'[u] = "purge" =>
       /\ cur'[u] \in ToSet(s) \cup {NULL}
       /\ \A i \in DOMAIN s : Passes(s, cur[u], i)' => ~enqueued'[s[i]] /\ ~active'[s[i]]
  BY <1>1, <1>2 DEF Flags
<1>5. ToSet(s) \subseteq created' /\ \A a \in Alarm : enqueued'[a] => a \in ToSet(s)
  BY DEF Flags
<1>6. QED BY <1>3, <1>4, <1>5 DEF Flags

\* A step keeps the places of the threads it leaves alone.
LEMMA PlacesKept ==
  ASSUME ListOK, Places(List), List' = List,
         \A b \in ToSet(List) : time_due'[b] = time_due[b],
         \A u \in Thread :
            \/ PlaceOf(List, u)'
            \/ /\ pc'[u] = pc[u] /\ what'[u] = what[u]
               /\ pc[u] = "link" => /\ next'[what[u]] = next[what[u]]
                                    /\ time_due'[what[u]] = time_due[what[u]]
  PROVE  Places(List)'
<1>1. SUFFICES ASSUME NEW u \in Thread PROVE PlaceOf(List, u)'
  BY DEF Places, PlaceOf
<1>2. CASE PlaceOf(List, u)'
  BY <1>2
<1>3. CASE /\ pc'[u] = pc[u] /\ what'[u] = what[u]
           /\ pc[u] = "link" => /\ next'[what[u]] = next[what[u]]
                                /\ time_due'[what[u]] = time_due[what[u]]
  <2>1. PlaceOf(List, u)
    BY DEF Places, PlaceOf
  <2>2. ASSUME pc[u] = "link"
        PROVE  next'[what'[u]] = Behind(what[u])'
    <3>1. PICK a : a = what[u]
      OBVIOUS
    <3>2. Behind(a)' = Behind(a)
      BY <1>3, <2>2, <3>1, BehindSame
    <3>3. Behind(what[u])' = Behind(a)'
      BY <1>3, <3>1
    <3>4. next[a] = Behind(a)
      BY <2>1, <2>2, <3>1 DEF PlaceOf
    <3>5. QED BY <1>3, <2>2, <3>1, <3>2, <3>3, <3>4
  <2>3. QED BY <1>3, <2>1, <2>2 DEF PlaceOf
<1>4. QED BY <1>2, <1>3

\* The parts of the invariant that are about the list.
Ordered == ListOK /\ Flags(List) /\ Places(List) /\ Sorted(List)

\* The list is empty initially.
LEMMA ListedInit == Init => Listed
<1>1. SUFFICES ASSUME Init PROVE Ordered
  BY LockedInit DEF Listed, Ordered
<1>2. PICK s \in Seq(Alarm) : s = <<>>
  BY EmptySeq
<1>3. DOMAIN s = {} /\ ToSet(s) = {} /\ Len(s) = 0 /\ IsInjective(s)
  BY <1>2 DEF ToSet, IsInjective
<1>4. Chain(s)
  BY <1>1, <1>3 DEF Chain, Entry, Init
<1>5. List = s
  BY <1>3, <1>4, ChainIsList
<1>6. ListOK
  BY <1>3, <1>4, <1>5 DEF ListOK
<1>7. Flags(s) /\ Sorted(s)
  BY <1>1, <1>3 DEF Flags, Sorted, Ascending, Init
<1>8. Places(s)
  BY <1>1, <1>3 DEF Places, Init
<1>9. QED BY <1>5, <1>6, <1>7, <1>8 DEF Ordered

\* Steps that leave the list alone.
LEMMA OrderedKept ==
  ASSUME Listed, first_alm' = first_alm, enqueued' = enqueued,
         ToSet(List) \subseteq created',
         \A a \in ToSet(List) : /\ next'[a] = next[a] /\ time_due'[a] = time_due[a]
                                /\ active'[a] => active[a],
         \A u \in Thread :
           /\ pc'[u] = "purge" <=> pc[u] = "purge"
           /\ pc[u] = "purge" => cur'[u] = cur[u]
           /\ \/ ListOK' /\ List' = List => PlaceOf(List, u)'
              \/ /\ pc'[u] = pc[u] /\ what'[u] = what[u]
                 /\ pc[u] = "link" => /\ next'[what[u]] = next[what[u]]
                                      /\ time_due'[what[u]] = time_due[what[u]]
  PROVE  Ordered'
<1>1. ListOK' /\ List' = List
  BY SameList DEF Listed
<1>2. PICK s \in Seq(Alarm) : s = List
  BY DEF Listed, ListOK
<1>3. s = List'
  BY <1>1, <1>2
<1>4. Flags(s)'
  BY <1>2, FlagsKept DEF Listed
<1>5. Sorted(s)'
  <2>1. \A i \in DOMAIN s : time_due'[s[i]] = time_due[s[i]]
    BY <1>2 DEF ToSet
  <2>2. QED BY <1>2, <2>1 DEF Listed, Sorted, Ascending
<1>6. Places(List)'
  BY <1>1, PlacesKept DEF Listed
<1>7. Flags(List)' /\ Sorted(List)'
  BY <1>3, <1>4, <1>5 DEF Flags, Passes, Sorted, Ascending
<1>8. QED BY <1>1, <1>6, <1>7 DEF Ordered

\* The handler, which changes no pointer of the list, keeps the list as it is.
LEMMA OrderedHandler ==
  ASSUME Listed,
         \/ Tick \/ TimerExpires \/ HandlerEnter \/ HandlerStep \/ UNCHANGED vars
         \/ \E a \in Alarm : CallbackCancels(a)
  PROVE  Ordered'
<1>1. UNCHANGED <<first_alm, next, enqueued, time_due, created, pc, what, cur>>
  BY DEF Tick, TimerExpires, HandlerEnter, HandlerStep, CallbackCancels, HandlerDue,
         HandlerRing, HandlerReset, HandlerAdvance, HandlerSkip, HandlerPass, HandlerAssert,
         HandlerSetup, HandlerGoto, HandlerNext, HandlerOnly, vars, listVars, localVars
<1>2. active' = active \/ \E x : active' = [active EXCEPT ![x] = FALSE]
  BY DEF Tick, TimerExpires, HandlerEnter, HandlerStep, CallbackCancels, HandlerDue,
         HandlerRing, HandlerReset, HandlerAdvance, HandlerSkip, HandlerPass, HandlerAssert,
         HandlerSetup, HandlerGoto, HandlerNext, vars
<1>3. \A a \in ToSet(List) : a \in Alarm /\ (active'[a] => active[a])
  BY <1>2, ListDomain DEF Listed, Locked, Typed, TypeOK
<1>4. ToSet(List) \subseteq created
  BY DEF Listed, Flags
<1>5. QED BY <1>1, <1>3, <1>4, OrderedKept

\* What the proofs about single steps start from.
LEMMA ListedFacts ==
  ASSUME Listed
  PROVE  /\ TypeOK /\ Working /\ Locking /\ Handles /\ ListOK
         /\ ToSet(List) \subseteq created /\ ToSet(List) \subseteq Alarm
         /\ \A u \in Thread : PlaceOf(List, u)
         /\ \A u \in Thread : pc[u] \in InLock => lock = u
         /\ \A u \in Thread : pc[u] \in InStart \cup InDestroy => what[u] \in Alarm
BY ListDomain DEF Listed, Locked, Typed, TypeOK, Working, Flags, Places, PlaceOf, Locking, InLock,
   InStart, InDestroy

\* No alarm is marked ahead of first_alm unless a thread is purging.
LEMMA NoPurge ==
  ASSUME Listed, \A u \in Thread : pc[u] # "purge"
  PROVE  \A a \in Alarm : enqueued[a] <=> a \in ToSet(List)
BY DEF Listed, Flags, ToSet

\* The steps of alm_start that leave the list alone: the alarm whose due date and
\* `next' it overwrites is not in it.
LEMMA OrderedStart ==
  ASSUME Listed, NEW t \in Thread,
         \/ CancelIt(t) \/ SetDue(t) \/ Activate(t) \/ Insert(t) \/ Check(t) \/ Setup(t)
         \/ Unlock(t)
  PROVE  Ordered'
<1>1. /\ TypeOK /\ Working /\ Locking /\ Handles /\ ListOK
      /\ ToSet(List) \subseteq created /\ ToSet(List) \subseteq Alarm
      /\ \A u \in Thread : PlaceOf(List, u)
      /\ \A u \in Thread : pc[u] \in InLock => lock = u
      /\ \A u \in Thread : pc[u] \in InStart \cup InDestroy => what[u] \in Alarm
  BY ListedFacts
<1> USE DEF Goto, listVars, localVars, InLock, InStart
<1>2. CASE CancelIt(t)
  <2>1. PlaceOf(List, t)'
    BY <1>1, <1>2 DEF CancelIt, PlaceOf, TypeOK
  <2>2. \A a \in Alarm : active'[a] => active[a]
    BY <1>1, <1>2 DEF CancelIt, TypeOK
  <2>3. \A u \in Thread : /\ pc'[u] = "purge" <=> pc[u] = "purge"
                          /\ u # t => pc'[u] = pc[u]
    BY <1>1, <1>2 DEF CancelIt, TypeOK
  <2>4. UNCHANGED <<first_alm, next, enqueued, created, time_due, what, cur>>
    BY <1>2 DEF CancelIt
  <2>5. QED BY <1>1, <2>1, <2>2, <2>3, <2>4, OrderedKept
<1>3. CASE SetDue(t)
  <2>1. what[t] \notin ToSet(List) /\ what[t] \in Alarm
    BY <1>1, <1>3 DEF SetDue, PlaceOf
  <2>2. ListOK' /\ List' = List => PlaceOf(List, t)'
    BY <1>1, <1>3, <2>1 DEF SetDue, PlaceOf, TypeOK
  <2>3. \A a \in Alarm : a # what[t] => time_due'[a] = time_due[a]
    BY <1>1, <1>3 DEF SetDue, TypeOK
  <2>4. \A u \in Thread : /\ pc'[u] = "purge" <=> pc[u] = "purge"
                          /\ u # t => pc'[u] = pc[u] /\ pc[u] # "link"
    BY <1>1, <1>3 DEF SetDue, TypeOK
  <2>5. UNCHANGED <<first_alm, next, enqueued, created, active, what, cur>>
    BY <1>3 DEF SetDue
  <2>6. QED BY <1>1, <2>1, <2>2, <2>3, <2>4, <2>5, OrderedKept
<1>4. CASE Activate(t)
  <2>1. what[t] \notin ToSet(List) /\ what[t] \in Alarm
    BY <1>1, <1>4 DEF Activate, PlaceOf
  <2>2. ListOK' /\ List' = List => PlaceOf(List, t)'
    BY <1>1, <1>4, <2>1 DEF Activate, PlaceOf, TypeOK
  <2>3. \A a \in Alarm : a # what[t] => active'[a] = active[a]
    BY <1>1, <1>4 DEF Activate, TypeOK
  <2>4. \A u \in Thread : /\ pc'[u] = "purge" <=> pc[u] = "purge"
                          /\ u # t => pc'[u] = pc[u]
    BY <1>1, <1>4 DEF Activate, TypeOK
  <2>5. UNCHANGED <<first_alm, next, enqueued, created, time_due, what, cur>>
    BY <1>4 DEF Activate
  <2>6. QED BY <1>1, <2>1, <2>2, <2>3, <2>4, <2>5, OrderedKept
<1>5. CASE Insert(t)
  <2>1. what[t] \notin ToSet(List) /\ what[t] \in Alarm
    BY <1>1, <1>5 DEF Insert, PlaceOf
  <2>2. UNCHANGED <<first_alm, enqueued, created, time_due, active, what, cur>>
    BY <1>5 DEF Insert
  <2>3. ASSUME ListOK', List' = List
        PROVE  PlaceOf(List, t)'
    <3>1. PICK a : a = what[t]
      OBVIOUS
    <3>2. Behind(a)' = Behind(a)
      BY <1>1, <2>2, <2>3, BehindSame
    <3>3. Behind(what[t])' = Behind(a)'
      BY <2>2, <3>1
    <3>4. next'[a] = Behind(a)
      BY <1>1, <1>5, <2>1, <3>1 DEF Insert, TypeOK
    <3>5. pc'[t] = "link"
      BY <1>1, <1>5 DEF Insert, TypeOK
    <3>6. QED BY <2>1, <2>2, <2>3, <3>1, <3>2, <3>3, <3>4, <3>5 DEF PlaceOf
  <2>4. \A a \in Alarm : a # what[t] => next'[a] = next[a]
    BY <1>1, <1>5 DEF Insert, TypeOK
  <2>5. \A u \in Thread : /\ pc'[u] = "purge" <=> pc[u] = "purge"
                          /\ u # t => pc'[u] = pc[u] /\ pc[u] # "link"
    BY <1>1, <1>5 DEF Insert, TypeOK
  <2>6. QED BY <1>1, <2>1, <2>2, <2>3, <2>4, <2>5, OrderedKept
<1>6. CASE Check(t) \/ Setup(t)
  <2>1. UNCHANGED <<first_alm, next, enqueued, created, time_due, active, what, cur>>
    BY <1>6 DEF Check, Setup
  <2>2. pc[t] \in {"check", "setup"} /\ pc'[t] \in {"setup", "unlock"}
    BY <1>1, <1>6 DEF Check, Setup, TypeOK
  <2>3. ListOK' /\ List' = List => PlaceOf(List, t)'
    BY <1>1, <2>1, <2>2 DEF PlaceOf
  <2>4. \A u \in Thread : u # t => pc'[u] = pc[u]
    BY <1>1, <1>6 DEF Check, Setup, TypeOK
  <2>5. QED BY <1>1, <2>1, <2>2, <2>3, <2>4, OrderedKept
<1>7. CASE Unlock(t)
  <2>1. PlaceOf(List, t)'
    BY <1>1, <1>7 DEF Unlock, PlaceOf, TypeOK
  <2>2. \A u \in Thread : /\ pc'[u] = "purge" <=> pc[u] = "purge"
                          /\ u # t => pc'[u] = pc[u] /\ what'[u] = what[u]
    BY <1>1, <1>7 DEF Unlock, Return, TypeOK
  <2>3. UNCHANGED <<first_alm, next, enqueued, created, time_due, active, cur>>
    BY <1>7 DEF Unlock, Return
  <2>4. QED BY <1>1, <2>1, <2>2, <2>3, OrderedKept
<1>8. QED BY <1>2, <1>3, <1>4, <1>5, <1>6, <1>7

\* The same outside alm_start: an alarm that is freed or created is not in the
\* list, and an alarm that alm_destroy finds dequeued is no longer linked, for
\* no alm_purge is under way (DestroyRaces = FALSE).
LEMMA OrderedOthers ==
  ASSUME DestroyRaces = FALSE, Listed, NEW t \in Thread,
         DestroyTest(t) \/ Free(t) \/ DumpStep(t) \/ Call(t)
  PROVE  Ordered'
<1>1. /\ TypeOK /\ Working /\ Locking /\ Handles /\ ListOK
      /\ ToSet(List) \subseteq created /\ ToSet(List) \subseteq Alarm
      /\ \A u \in Thread : PlaceOf(List, u)
      /\ \A u \in Thread : pc[u] \in InLock => lock = u
      /\ \A u \in Thread : pc[u] \in InStart \cup InDestroy => what[u] \in Alarm
  BY ListedFacts
<1> USE DEF Goto, listVars, localVars, InLock, InStart
<1>2. CASE DestroyTest(t)
  <2>1. UNCHANGED <<first_alm, next, enqueued, created, time_due, active, what, cur>>
    BY <1>2 DEF DestroyTest
  <2>2. pc'[t] = "free" => what[t] \notin ToSet(List)
    <3>1. SUFFICES ASSUME ~enqueued[what[t]] PROVE what[t] \notin ToSet(List)
      BY <1>1, <1>2 DEF DestroyTest, TypeOK
    <3>2. lock = NULL
      BY <1>2, <3>1 DEF DestroyTest
    <3>3. \A u \in Thread : pc[u] # "purge"
      BY <1>1, <3>2, PtrAssumption
    <3>4. QED BY <1>1, <3>1, <3>3, NoPurge
  <2>3. pc'[t] \in {"extract", "free"} /\ pc[t] = "test"
    BY <1>1, <1>2 DEF DestroyTest, TypeOK
  <2>4. ListOK' /\ List' = List => PlaceOf(List, t)'
    BY <2>1, <2>2, <2>3 DEF PlaceOf
  <2>5. \A u \in Thread : u # t => pc'[u] = pc[u]
    BY <1>1, <1>2 DEF DestroyTest, TypeOK
  <2>6. QED BY <1>1, <2>1, <2>3, <2>4, <2>5, OrderedKept
<1>3. CASE Free(t)
  <2>1. what[t] \notin ToSet(List) /\ what[t] \in Alarm /\ \A u \in Thread \ {t} : what[u] # what[t]
    BY <1>1, <1>3 DEF Free, PlaceOf, Handles, InDestroy
  <2>2. UNCHANGED <<first_alm, next, enqueued, active, cur>>
    BY <1>3 DEF Free, Return
  <2>3. /\ created' = created \ {what[t]}
        /\ \A a \in Alarm : a # what[t] => time_due'[a] = time_due[a]
    BY <1>1, <1>3 DEF Free, TypeOK
  <2>4. PlaceOf(List, t)'
    BY <1>1, <1>3 DEF Free, PlaceOf, TypeOK
  <2>5. \A u \in Thread : /\ pc'[u] = "purge" <=> pc[u] = "purge"
                          /\ u # t => pc'[u] = pc[u] /\ what'[u] = what[u]
    BY <1>1, <1>3 DEF Free, Return, TypeOK
  <2>6. QED BY <1>1, <2>1, <2>2, <2>3, <2>4, <2>5, OrderedKept
<1>4. CASE DumpStep(t) \/ Dump(t)
  <2>1. UNCHANGED <<first_alm, next, enqueued, created, time_due, active, what>>
    BY <1>4 DEF DumpStep, DumpLock, DumpAlarm, DumpEnd, Dump
  <2>2. pc'[t] \in {"dump", "walk", "idle"} /\ pc[t] \in {"dump", "walk", "idle"}
    BY <1>1, <1>4 DEF DumpStep, DumpLock, DumpAlarm, DumpEnd, Dump, TypeOK
  <2>3. \A u \in Thread : u # t => pc'[u] = pc[u] /\ cur'[u] = cur[u]
    BY <1>1, <1>4 DEF DumpStep, DumpLock, DumpAlarm, DumpEnd, Dump, TypeOK
  <2>4. PlaceOf(List, t)'
    BY <2>2 DEF PlaceOf
  <2>5. QED BY <1>1, <2>1, <2>2, <2>3, <2>4, OrderedKept
<1>5. ASSUME NEW a \in Alarm, NEW d \in Delay, Start(t, a, d)
      PROVE  Ordered'
  <2>1. UNCHANGED <<first_alm, next, enqueued, created, time_due, active, cur>>
    BY <1>5 DEF Start
  <2>2. pc'[t] = "lock" /\ pc[t] = "idle"
    BY <1>1, <1>5 DEF Start, TypeOK
  <2>3. \A u \in Thread : u # t => pc'[u] = pc[u] /\ what'[u] = what[u]
    BY <1>1, <1>5 DEF Start, TypeOK
  <2>4. PlaceOf(List, t)'
    BY <2>2 DEF PlaceOf
  <2>5. QED BY <1>1, <2>1, <2>2, <2>3, <2>4, OrderedKept
<1>6. ASSUME NEW a \in Alarm, Cancel(t, a)
      PROVE  Ordered'
  <2>1. UNCHANGED <<first_alm, next, enqueued, created, time_due, what, cur>> /\ pc' = pc
    BY <1>1, <1>6 DEF Cancel, TypeOK
  <2>2. \A b \in Alarm : active'[b] => active[b]
    BY <1>1, <1>6 DEF Cancel, TypeOK
  <2>3. QED BY <1>1, <2>1, <2>2, OrderedKept
<1>7. ASSUME NEW a \in Alarm, Create(t, a)
      PROVE  Ordered'
  <2>1. a \notin created /\ a \notin ToSet(List) /\ \A u \in Thread : what[u] # a
    BY <1>1, <1>7, PtrAssumption DEF Create, Handles
  <2>2. pc' = pc /\ UNCHANGED <<first_alm, what, cur>> /\ created' = created \cup {a}
    BY <1>1, <1>7 DEF Create, TypeOK
  <2>3. enqueued' = enqueued
    <3>1. ~enqueued[a]
      BY <2>1 DEF Listed, Flags
    <3>2. QED BY <1>1, <1>7, <3>1 DEF Create, TypeOK
  <2>4. \A b \in Alarm : b # a => /\ next'[b] = next[b] /\ time_due'[b] = time_due[b]
                                  /\ active'[b] = active[b]
    BY <1>1, <1>7 DEF Create, TypeOK
  <2>5. QED BY <1>1, <2>1, <2>2, <2>3, <2>4, OrderedKept
<1>8. ASSUME NEW a \in Alarm, Destroy(t, a)
      PROVE  Ordered'
  <2>1. UNCHANGED <<first_alm, next, enqueued, created, time_due, cur>>
    BY <1>8 DEF Destroy
  <2>2. pc'[t] = "test" /\ pc[t] = "idle"
    BY <1>1, <1>8 DEF Destroy, TypeOK
  <2>3. \A u \in Thread : u # t => pc'[u] = pc[u] /\ what'[u] = what[u]
    BY <1>1, <1>8 DEF Destroy, TypeOK
  <2>4. PlaceOf(List, t)'
    BY <2>2 DEF PlaceOf
  <2>5. \A b \in Alarm : active'[b] => active[b]
    BY <1>1, <1>8 DEF Destroy, TypeOK
  <2>6. QED BY <1>1, <2>1, <2>2, <2>3, <2>4, <2>5, OrderedKept
<1>9. QED BY <1>2, <1>3, <1>4, <1>5, <1>6, <1>7, <1>8 DEF Call

\* Which places come before a cursor.
LEMMA PassesEntry ==
  ASSUME NEW s \in Seq(Alarm), IsInjective(s), NEW p \in 1..(Len(s) + 1), NEW i
  PROVE  Passes(s, Entry(s, p), i) <=> i \in DOMAIN s /\ i < p
<1>1. Len(s) \in Nat /\ DOMAIN s = 1..Len(s) /\ \A j \in DOMAIN s : s[j] # NULL
  BY LenProperties, ElementOfSeq, PtrAssumption
<1>2. CASE p \in DOMAIN s
  BY <1>1, <1>2 DEF Passes, Entry, IsInjective
<1>3. CASE p \notin DOMAIN s
  <2>1. \A j \in DOMAIN s : j < p
    BY <1>1, <1>3
  <2>2. QED BY <1>1, <1>3, <2>1 DEF Passes, Entry
<1>4. QED BY <1>2, <1>3

\* The cursor of alm_purge is at a place of the list, or at its end.
LEMMA CursorPlace ==
  ASSUME Listed, NEW t \in Thread, pc[t] = "purge"
  PROVE  \E p \in 1..(Len(List) + 1) :
           /\ cur[t] = Entry(List, p)
           /\ \A i \in DOMAIN List : i < p => ~enqueued[List[i]] /\ ~active[List[i]]
           /\ \A i \in DOMAIN List : ~(i < p) => enqueued[List[i]]
<1>1. PICK s \in Seq(Alarm) : s = List
  BY DEF Listed, ListOK
<1>2. Len(s) \in Nat /\ DOMAIN s = 1..Len(s) /\ IsInjective(s)
  BY <1>1, ListDomain DEF Listed, ListOK
<1>3. PICK p \in 1..(Len(s) + 1) : cur[t] = Entry(s, p)
  <2>1. cur[t] \in ToSet(s) \cup {NULL}
    BY <1>1 DEF Listed, Flags
  <2>2. CASE cur[t] \in ToSet(s)
    <3>1. PICK p \in DOMAIN s : s[p] = cur[t]
      BY <2>2 DEF ToSet
    <3>2. p \in 1..(Len(s) + 1) /\ cur[t] = Entry(s, p)
      BY <1>2, <3>1 DEF Entry
    <3>3. QED BY <3>2
  <2>3. CASE cur[t] = NULL
    <3>1. PICK p \in 1..(Len(s) + 1) : p = Len(s) + 1
      BY <1>2
    <3>2. p \notin DOMAIN s
      BY <1>2, <3>1
    <3>3. QED BY <2>3, <3>2 DEF Entry
  <2>4. QED BY <2>1, <2>2, <2>3
<1>4. \A i : Passes(s, cur[t], i) <=> i \in DOMAIN s /\ i < p
  BY <1>2, <1>3, PassesEntry
<1>5. \A i \in DOMAIN s : i < p => ~enqueued[s[i]] /\ ~active[s[i]]
  BY <1>1, <1>4 DEF Listed, Flags
<1>6. \A i \in DOMAIN s : ~(i < p) => enqueued[s[i]]
  <2>1. SUFFICES ASSUME NEW i \in DOMAIN s, ~(i < p) PROVE enqueued[s[i]]
    OBVIOUS
  <2>2. \A u \in Thread : pc[u] = "purge" => u = t
    BY ListedFacts DEF InLock, InStart
  <2>3. enqueued[s[i]] \/ \E u \in Thread : pc[u] = "purge" /\ Passes(s, cur[u], i)
    BY <1>1 DEF Listed, Flags
  <2>4. QED BY <1>4, <2>1, <2>2, <2>3
<1>7. QED BY <1>1, <1>3, <1>5, <1>6

\* A new list r with its flags.
LEMMA NewOrdered ==
  ASSUME ListOK', NEW r, List' = r, Flags(r)', Sorted(r)',
         \A u \in Thread : PlaceOf(r, u)'
  PROVE  Ordered'
BY DEF Ordered, Flags, Passes, Sorted, Ascending, Places, PlaceOf

\* alm_purge starts at first_alm: it has passed nobody.
LEMMA OrderedLock ==
  ASSUME Listed, NEW t \in Thread, Lock(t)
  PROVE  Ordered'
<1>1. /\ TypeOK /\ Working /\ Locking /\ Handles /\ ListOK
      /\ \A u \in Thread : PlaceOf(List, u)
      /\ \A u \in Thread : pc[u] \in InLock => lock = u
  BY ListedFacts
<1>2. UNCHANGED <<first_alm, next, enqueued, created, time_due, active, what>>
  BY DEF Lock, listVars
<1>3. /\ pc' = [pc EXCEPT ![t] = "purge"] /\ cur' = [cur EXCEPT ![t] = first_alm]
      /\ \A u \in Thread : pc[u] \notin InLock
  BY <1>1, PtrAssumption DEF Lock, Goto
<1>4. ListOK' /\ List' = List
  BY <1>1, <1>2, SameList
<1>5. PICK s \in Seq(Alarm) : s = List
  BY <1>1 DEF ListOK
<1>6. Len(s) \in Nat /\ DOMAIN s = 1..Len(s) /\ IsInjective(s) /\ first_alm = Entry(s, 1)
  BY <1>1, <1>5, ListDomain DEF ListOK, Chain
<1>7. \A a \in Alarm : enqueued[a] <=> a \in ToSet(s)
  BY <1>3, <1>5, NoPurge DEF InLock, InStart
<1>8. Flags(s)'
  <2>1. \A u \in Thread : pc'[u] = "purge" => u = t /\ cur'[u] = first_alm
    BY <1>1, <1>3 DEF TypeOK, InLock, InStart
  <2>2. first_alm \in ToSet(s) \cup {NULL}
    BY <1>6 DEF Entry, ToSet
  <2>3. \A i : ~Passes(s, first_alm, i)
    <3>1. 1 \in 1..(Len(s) + 1) /\ \A i \in DOMAIN s : ~(i < 1)
      BY <1>6
    <3>2. QED BY <1>6, <3>1, PassesEntry
  <2>4. \A u \in Thread : \A i : pc'[u] = "purge" => ~Passes(s, cur[u], i)'
    BY <2>1, <2>3 DEF Passes
  <2>5. \A i \in DOMAIN s : enqueued'[s[i]]
    BY <1>2, <1>5, <1>7, ListDomain, <1>1
  <2>6. ToSet(s) \subseteq created'
    BY <1>2, <1>5 DEF Listed, Flags
  <2>7. QED BY <1>2, <1>7, <2>1, <2>2, <2>4, <2>5, <2>6 DEF Flags
<1>9. Sorted(s)'
  BY <1>2, <1>5 DEF Listed, Sorted, Ascending
<1>10. \A u \in Thread : PlaceOf(s, u)'
  BY <1>1, <1>2, <1>3, <1>4, <1>5 DEF PlaceOf, TypeOK, InLock, InStart
<1>11. QED BY <1>4, <1>5, <1>8, <1>9, <1>10, NewOrdered

\* alm_purge marks the alarm under its cursor and passes it.
LEMMA OrderedPurge ==
  ASSUME Listed, NEW t \in Thread, Purge(t)
  PROVE  Ordered'
<1>1. /\ TypeOK /\ Working /\ Locking /\ Handles /\ ListOK
      /\ \A u \in Thread : PlaceOf(List, u)
      /\ \A u \in Thread : pc[u] \in InLock => lock = u
  BY ListedFacts
<1>2. UNCHANGED <<first_alm, next, created, time_due, active, what>> /\ pc' = pc
  BY <1>1 DEF Purge, Goto, TypeOK
<1>3. ListOK' /\ List' = List
  BY <1>1, <1>2, SameList
<1>4. PICK s \in Seq(Alarm) : s = List
  BY <1>1 DEF ListOK
<1>5. /\ Len(s) \in Nat /\ DOMAIN s = 1..Len(s) /\ IsInjective(s)
      /\ \A i \in DOMAIN s : s[i] \in Alarm /\ s[i] # NULL /\ next[s[i]] = Entry(s, i + 1)
  BY <1>1, <1>4, ListDomain DEF ListOK, Chain
<1>6. pc[t] = "purge" /\ cur[t] # NULL /\ ~active[cur[t]]
      /\ enqueued' = [enqueued EXCEPT ![cur[t]] = FALSE]
      /\ cur' = [cur EXCEPT ![t] = next[cur[t]]]
  BY DEF Purge, Goto, AtPurge
<1>7. PICK p \in 1..(Len(s) + 1) :
         /\ cur[t] = Entry(s, p)
         /\ \A i \in DOMAIN s : i < p => ~enqueued[s[i]] /\ ~active[s[i]]
         /\ \A i \in DOMAIN s : ~(i < p) => enqueued[s[i]]
  BY <1>4, <1>6, CursorPlace
<1>8. p \in DOMAIN s /\ cur[t] = s[p]
  BY <1>6, <1>7 DEF Entry
<1>9. PICK q \in 1..(Len(s) + 1) : q = p + 1
  BY <1>5, <1>8
<1>10. cur'[t] = Entry(s, q)
  BY <1>1, <1>5, <1>6, <1>8, <1>9 DEF TypeOK
<1>11. Flags(s)'
  <2>1. \A u \in Thread : pc'[u] = "purge" => u = t
    BY <1>1, <1>2, <1>6 DEF InLock, InStart
  <2>2. \A i : Passes(s, cur[t], i)' <=> i \in DOMAIN s /\ i < q
    <3>1. \A i : Passes(s, cur'[t], i) <=> i \in DOMAIN s /\ i < q
      BY <1>5, <1>10, PassesEntry
    <3>2. QED BY <3>1 DEF Passes
  <2>3. \A i \in DOMAIN s : i < q <=> i < p \/ i = p
    BY <1>5, <1>9
  <2>4. \A i \in DOMAIN s : /\ i # p => enqueued'[s[i]] = enqueued[s[i]]
                            /\ i = p => ~enqueued'[s[i]]
    BY <1>1, <1>5, <1>6, <1>8 DEF TypeOK, IsInjective
  <2>5. \A i \in DOMAIN s : i < q => ~enqueued'[s[i]] /\ ~active'[s[i]]
    BY <1>2, <1>6, <1>7, <1>8, <2>3, <2>4
  <2>6. \A i \in DOMAIN s : ~(i < q) => enqueued'[s[i]]
    BY <1>7, <2>3, <2>4
  <2>7. \A a \in Alarm : enqueued'[a] => a \in ToSet(s)
    BY <1>1, <1>4, <1>6 DEF TypeOK, Listed, Flags
  <2>8. cur'[t] \in ToSet(s) \cup {NULL}
    BY <1>10 DEF Entry, ToSet
  <2>9. ToSet(s) \subseteq created'
    BY <1>2, <1>4 DEF Listed, Flags
  <2>10. pc'[t] = "purge"
    BY <1>2, <1>6
  <2>11. \A i \in DOMAIN s :
           enqueued'[s[i]] \/ \E u \in Thread : pc'[u] = "purge" /\ Passes(s, cur[u], i)'
    BY <2>2, <2>6, <2>10
  <2>12. \A u \in Thread : pc'[u] = "purge" =>
           /\ cur'[u] \in ToSet(s) \cup {NULL}
           /\ \A i \in DOMAIN s : Passes(s, cur[u], i)' => ~enqueued'[s[i]] /\ ~active'[s[i]]
    BY <2>1, <2>2, <2>5, <2>8
  <2>13. QED BY <2>7, <2>9, <2>11, <2>12 DEF Flags
<1>12. Sorted(s)'
  BY <1>2, <1>4 DEF Listed, Sorted, Ascending
<1>13. \A u \in Thread : PlaceOf(s, u)'
  <2>1. Places(List)'
    <3>1. \A u \in Thread : pc[u] # "link"
      BY <1>1, <1>6 DEF InLock, InStart
    <3>2. QED BY <1>1, <1>2, <1>3, <3>1, PlacesKept DEF Listed
  <2>2. QED BY <1>3, <1>4, <2>1 DEF Places, PlaceOf
<1>14. QED BY <1>3, <1>4, <1>11, <1>12, <1>13, NewOrdered

\* first_alm moves behind the alarms that were marked.
LEMMA OrderedPurgeEnd ==
  ASSUME Listed, NEW t \in Thread, PurgeEnd(t)
  PROVE  Ordered'
<1>1. /\ TypeOK /\ Working /\ Locking /\ Handles /\ ListOK
      /\ \A u \in Thread : PlaceOf(List, u)
      /\ \A u \in Thread : pc[u] \in InLock => lock = u
  BY ListedFacts
<1>2. UNCHANGED <<next, enqueued, created, time_due, active, what>>
  BY DEF PurgeEnd
<1>3. pc[t] = "purge" /\ pc' = [pc EXCEPT ![t] = "cancel"] /\ first_alm' = cur[t]
  BY DEF PurgeEnd, Goto
<1>4. PICK s \in Seq(Alarm) : s = List
  BY <1>1 DEF ListOK
<1>5. Len(s) \in Nat /\ DOMAIN s = 1..Len(s) /\ IsInjective(s)
  BY <1>1, <1>4, ListDomain DEF ListOK
<1>6. PICK p \in 1..(Len(s) + 1) :
         /\ cur[t] = Entry(s, p)
         /\ \A i \in DOMAIN s : i < p => ~enqueued[s[i]] /\ ~active[s[i]]
         /\ \A i \in DOMAIN s : ~(i < p) => enqueued[s[i]]
  BY <1>3, <1>4, CursorPlace
<1>7. PICK k \in 0..Len(s) : p = k + 1
  <2>1. p - 1 \in 0..Len(s) /\ p = (p - 1) + 1
    BY <1>5
  <2>2. QED BY <2>1
<1>8. PICK r : r = SubSeq(s, k + 1, Len(s))
  OBVIOUS
<1>9. ListOK' /\ List' = r
  BY <1>1, <1>2, <1>3, <1>4, <1>6, <1>7, <1>8, CutList
<1>10. /\ r \in Seq(Alarm)
       /\ \A i \in DOMAIN r : k + i \in DOMAIN s /\ i \in Nat /\ i >= 1 /\ r[i] = s[k + i]
       /\ \A j \in DOMAIN s : j > k => j - k \in DOMAIN r /\ r[j - k] = s[j]
  <2>1. \A i \in DOMAIN r : k + i \in DOMAIN s /\ r[i] = s[k + i]
    BY <1>5, <1>8, CutKeeps
  <2>2. \A j \in DOMAIN s : j > k => j - k \in DOMAIN r /\ r[j - k] = s[j]
    BY <1>5, <1>8, CutKeeps
  <2>3. r \in Seq(Alarm) /\ DOMAIN r = 1..(Len(s) - k)
    BY <1>5, <1>8, CutKeeps
  <2>4. QED BY <1>5, <2>1, <2>2, <2>3
<1>11. \A u \in Thread : pc'[u] # "purge"
  BY <1>1, <1>3 DEF TypeOK, InLock, InStart
<1>12. ToSet(r) \subseteq ToSet(s)
  BY <1>10 DEF ToSet
<1>13. Flags(r)'
  <2>1. \A i \in DOMAIN r : enqueued'[r[i]]
    <3>1. \A i \in DOMAIN r : ~(k + i < p)
      BY <1>7, <1>10
    <3>2. QED BY <1>2, <1>6, <1>10, <3>1
  <2>2. \A a \in Alarm : enqueued'[a] => a \in ToSet(r)
    <3>1. SUFFICES ASSUME NEW a \in Alarm, enqueued[a] PROVE a \in ToSet(r)
      BY <1>2
    <3>2. PICK j \in DOMAIN s : s[j] = a
      BY <1>4, <3>1 DEF Listed, Flags, ToSet
    <3>3. j > k
      BY <1>5, <1>6, <1>7, <3>1, <3>2
    <3>4. j - k \in DOMAIN r /\ r[j - k] = a
      BY <1>10, <3>2, <3>3
    <3>5. QED BY <3>4 DEF ToSet
  <2>3. ToSet(r) \subseteq created'
    BY <1>2, <1>4, <1>12 DEF Listed, Flags
  <2>4. QED BY <1>11, <2>1, <2>2, <2>3 DEF Flags
<1>14. Sorted(r)'
  <2>1. \A i, j \in DOMAIN r : i < j => k + i < k + j
    BY <1>10
  <2>2. \A i, j \in DOMAIN s : i < j => time_due[s[i]] <= time_due[s[j]]
    BY <1>4 DEF Listed, Sorted, Ascending
  <2>3. QED BY <1>2, <1>10, <2>1, <2>2 DEF Sorted, Ascending
<1>15. \A u \in Thread : PlaceOf(r, u)'
  <2>1. \A u \in Thread : pc'[u] \notin {"check", "setup", "link"}
    BY <1>1, <1>3 DEF TypeOK, InLock, InStart
  <2>2. \A u \in Thread : /\ what'[u] = what[u]
                          /\ pc'[u] = pc[u] \/ pc'[u] = "cancel"
    BY <1>1, <1>2, <1>3 DEF TypeOK
  <2>3. QED BY <1>1, <1>4, <1>12, <2>1, <2>2 DEF PlaceOf
<1>16. QED BY <1>9, <1>13, <1>14, <1>15, NewOrdered

\* alm_remove, for alm_start and alm_destroy.
LEMMA OrderedRemove ==
  ASSUME Listed, NEW t \in Thread, Remove_(t) \/ DestroyRemove(t)
  PROVE  Ordered'
<1>1. /\ TypeOK /\ Working /\ Locking /\ Handles /\ ListOK
      /\ \A u \in Thread : PlaceOf(List, u)
      /\ \A u \in Thread : pc[u] \in InLock => lock = u
      /\ \A u \in Thread : pc[u] \in InStart \cup InDestroy => what[u] \in Alarm
  BY ListedFacts
<1>2. UNCHANGED <<created, time_due, active, what>>
  BY DEF Remove_, DestroyRemove, localVars
<1>3. PICK a \in Alarm : a = what[t]
  BY <1>1 DEF Remove_, DestroyRemove, Goto, InStart, InDestroy
<1>4. /\ RemoveAlarm(a)
      /\ \E p \in {"due", "unlock", "free"} : pc' = [pc EXCEPT ![t] = p]
      /\ pc[t] \in {"remove", "extract"}
      /\ \A u \in Thread : u # t => pc[u] \notin InLock
  BY <1>1, <1>3, PtrAssumption DEF Remove_, DestroyRemove, Goto, InLock, InStart
<1>5. /\ \A u \in Thread : pc[u] # "purge" /\ pc'[u] # "purge"
      /\ pc'[t] \in {"due", "unlock", "free"}
      /\ \A u \in Thread : u # t => pc'[u] = pc[u]
                             /\ pc[u] \notin {"check", "setup", "link"}
  BY <1>1, <1>4 DEF TypeOK, InLock, InStart
<1>6. \A b \in Alarm : enqueued[b] <=> b \in ToSet(List)
  BY <1>5, NoPurge
<1>7. /\ ListOK'
      /\ IF a \in ToSet(List)
         THEN \E i \in DOMAIN List : List[i] = a /\ List' = RemoveAt(List, i)
         ELSE List' = List
      /\ enqueued' = [enqueued EXCEPT ![a] = FALSE]
  BY <1>1, <1>4, <1>6, UnlinkedList DEF TypeOK
<1>8. PICK s \in Seq(Alarm) : s = List
  BY <1>1 DEF ListOK
<1>9. /\ Len(s) \in Nat /\ DOMAIN s = 1..Len(s) /\ IsInjective(s)
      /\ \A i, j \in DOMAIN s : i < j => time_due[s[i]] <= time_due[s[j]]
      /\ ToSet(s) \subseteq created /\ ToSet(s) \subseteq Alarm
  BY <1>1, <1>8, ListDomain DEF Listed, ListOK, Sorted, Ascending, Flags
<1>10. PICK r : r = List'
  OBVIOUS
<1>11. /\ ToSet(r) = ToSet(s) \ {a}
       /\ \A i, j \in DOMAIN r : i < j => time_due[r[i]] <= time_due[r[j]]
  <2>1. CASE a \in ToSet(s)
    <3>1. PICK i \in DOMAIN s : s[i] = a /\ r = RemoveAt(s, i)
      BY <1>7, <1>8, <1>10, <2>1
    <3>2. ToSet(r) = ToSet(s) \ {s[i]}
      BY <1>9, <3>1, RemoveAtKeeps
    <3>3. PICK f : f = time_due
      OBVIOUS
    <3>4. Ascending(s, f)
      BY <1>9, <3>3 DEF Ascending
    <3>5. Ascending(r, f)
      BY <3>1, <3>4, RemoveAtAscends
    <3>6. QED BY <3>1, <3>2, <3>3, <3>5 DEF Ascending
  <2>2. CASE a \notin ToSet(s)
    BY <1>7, <1>8, <1>9, <1>10, <2>2
  <2>3. QED BY <2>1, <2>2
<1>12. Flags(r)'
  <2>1. \A b \in Alarm : enqueued'[b] <=> b \in ToSet(r)
    BY <1>1, <1>6, <1>7, <1>8, <1>11 DEF TypeOK
  <2>2. \A i \in DOMAIN r : r[i] \in ToSet(r)
    BY DEF ToSet
  <2>3. \A i \in DOMAIN r : enqueued'[r[i]]
    BY <1>9, <1>11, <2>1, <2>2
  <2>4. ToSet(r) \subseteq created'
    BY <1>2, <1>9, <1>11
  <2>5. QED BY <1>5, <2>1, <2>3, <2>4 DEF Flags
<1>13. Sorted(r)'
  BY <1>2, <1>11 DEF Sorted, Ascending
<1>14. \A u \in Thread : PlaceOf(r, u)'
  <2>1. \A u \in Thread : pc'[u] \notin {"check", "setup", "link"}
    BY <1>5
  <2>2. \A u \in Thread : pc'[u] \in {"due", "activate", "insert", "link", "free"} =>
          what'[u] \notin ToSet(r)
    BY <1>1, <1>2, <1>3, <1>5, <1>8, <1>11 DEF PlaceOf
  <2>3. QED BY <2>1, <2>2 DEF PlaceOf
<1>15. QED BY <1>7, <1>10, <1>12, <1>13, <1>14, NewOrdered

\* alm_insert links the alarm between the due dates before and behind its own.
LEMMA OrderedLink ==
  ASSUME Listed, NEW t \in Thread, Link(t)
  PROVE  Ordered'
<1>1. /\ TypeOK /\ Working /\ Locking /\ Handles /\ ListOK
      /\ \A u \in Thread : PlaceOf(List, u)
      /\ \A u \in Thread : pc[u] \in InLock => lock = u
      /\ \A u \in Thread : pc[u] \in InStart \cup InDestroy => what[u] \in Alarm
  BY ListedFacts
<1>2. UNCHANGED <<created, time_due, active, what>>
  BY DEF Link, localVars
<1>3. PICK a \in Alarm : a = what[t]
  BY <1>1 DEF Link, Goto, InStart
<1>4. /\ pc[t] = "link" /\ pc' = [pc EXCEPT ![t] = "check"]
      /\ enqueued' = [enqueued EXCEPT ![a] = TRUE]
      /\ IF Position(a) = 0
         THEN first_alm' = a /\ UNCHANGED next
         ELSE next' = [next EXCEPT ![List[Position(a)]] = a] /\ UNCHANGED first_alm
  BY <1>3 DEF Link, Goto
<1>5. a \notin ToSet(List) /\ next[a] = Behind(a)
  BY <1>1, <1>3, <1>4 DEF PlaceOf
<1>6. /\ \A u \in Thread : pc[u] # "purge" /\ pc'[u] # "purge"
      /\ pc'[t] = "check"
      /\ \A u \in Thread : u # t => /\ pc'[u] = pc[u]
                                    /\ pc[u] \notin InLock
                                    /\ pc[u] \in InDestroy => what[u] # a
  BY <1>1, <1>3, <1>4 DEF TypeOK, Handles, InLock, InStart
<1>7. \A b \in Alarm : enqueued[b] <=> b \in ToSet(List)
  BY <1>6, NoPurge
<1>8. ListOK' /\ \E p \in 1..(Len(List) + 1) : InsertsAt(a, p) /\ List' = InsertAt(List, p, a)
  BY <1>1, <1>4, <1>5, LinkedList DEF TypeOK
<1>9. PICK s \in Seq(Alarm) : s = List
  BY <1>1 DEF ListOK
<1>10. PICK r : r = List'
  OBVIOUS
<1>11. PICK p \in 1..(Len(s) + 1) :
         /\ r = InsertAt(s, p, a)
         /\ \A j \in 1..(p - 1) : time_due[s[j]] <= time_due[a]
         /\ p <= Len(s) => time_due[s[p]] > time_due[a]
  BY <1>8, <1>9, <1>10 DEF InsertsAt
<1>12. /\ IsInjective(s) /\ a \notin ToSet(s) /\ Ascending(s, time_due)
       /\ time_due \in [Alarm -> Nat] /\ ToSet(s) \subseteq created
       /\ Len(s) \in Nat /\ DOMAIN s = 1..Len(s) /\ ToSet(s) \subseteq Alarm
       /\ \A i \in DOMAIN s : s[i] \in Alarm
  BY <1>1, <1>5, <1>9, ListDomain DEF Listed, ListOK, Sorted, Flags, TypeOK
<1>13. ToSet(r) = ToSet(s) \cup {a}
  BY <1>11, <1>12, InsertAtKeeps
<1>14. Ascending(r, time_due)
  <2>1. PICK f \in [Alarm -> Nat] : f = time_due
    BY <1>12
  <2>2. Ascending(s, f) /\ (\A j \in 1..(p - 1) : f[s[j]] <= f[a]) /\ (p <= Len(s) => f[a] <= f[s[p]])
    BY <1>11, <1>12, <2>1
  <2>3. Ascending(r, f)
    BY <1>11, <1>12, <2>2, InsertAtKeeps
  <2>4. QED BY <2>1, <2>3
<1>15. Flags(r)'
  <2>1. \A b \in Alarm : enqueued'[b] <=> b \in ToSet(r)
    BY <1>1, <1>4, <1>7, <1>9, <1>13 DEF TypeOK
  <2>2. \A i \in DOMAIN r : r[i] \in ToSet(r)
    BY DEF ToSet
  <2>3. \A i \in DOMAIN r : enqueued'[r[i]]
    BY <1>12, <1>13, <2>1, <2>2
  <2>4. a \in created
    BY <1>1, <1>3, PtrAssumption DEF Handles
  <2>5. ToSet(r) \subseteq created'
    BY <1>2, <1>12, <1>13, <2>4
  <2>6. QED BY <1>6, <2>1, <2>3, <2>5 DEF Flags
<1>16. Sorted(r)'
  BY <1>2, <1>14 DEF Sorted, Ascending
<1>17. \A u \in Thread : PlaceOf(r, u)'
  <2>1. PlaceOf(r, t)'
    BY <1>2, <1>3, <1>6, <1>13 DEF PlaceOf
  <2>2. ASSUME NEW u \in Thread, u # t
        PROVE  PlaceOf(r, u)'
    <3>1. pc'[u] \notin {"due", "activate", "insert", "link", "check", "setup"}
      BY <1>6, <2>2 DEF InLock, InStart
    <3>2. pc'[u] = "free" => what'[u] \notin ToSet(r)
      BY <1>1, <1>2, <1>6, <1>9, <1>13, <2>2 DEF PlaceOf, InDestroy
    <3>3. QED BY <3>1, <3>2 DEF PlaceOf
  <2>3. QED BY <2>1, <2>2
<1>18. QED BY <1>8, <1>10, <1>15, <1>16, <1>17, NewOrdered

\* Every step keeps the list.
LEMMA ListedNext ==
  ASSUME DestroyRaces = FALSE
  PROVE  Listed /\ [Next]_vars => Listed'
<1> SUFFICES ASSUME Listed, [Next]_vars PROVE Ordered'
  BY LockedNext DEF Listed, Ordered
<1>1. CASE \/ Tick \/ TimerExpires \/ HandlerEnter \/ HandlerStep \/ UNCHANGED vars
           \/ \E a \in Alarm : CallbackCancels(a)
  BY <1>1, OrderedHandler
<1>2. ASSUME NEW t \in Thread, StartStep(t)
      PROVE  Ordered'
  BY <1>2, OrderedStart, OrderedLock, OrderedPurge, OrderedPurgeEnd, OrderedRemove, OrderedLink
     DEF StartStep
<1>3. ASSUME NEW t \in Thread, DestroyStep(t) \/ DumpStep(t) \/ Call(t)
      PROVE  Ordered'
  BY <1>3, OrderedOthers, OrderedRemove DEF DestroyStep
<1>4. QED BY <1>1, <1>2, <1>3 DEF Next, ThreadStep

\* For any number of threads and alarms, with real interrupts or on Linux: the
\* pointers form a list of different alarms in the order of their due dates, the
\* `enqueued' flags and the places of alm_start, alm_purge and alm_destroy agree
\* with it, in every state between two memory accesses.
THEOREM ListInvariant ==
  ASSUME DestroyRaces = FALSE
  PROVE  Spec => []ListInductive
<1>1. Spec => []Listed
  BY ListedInit, ListedNext, PTL DEF Spec
<1>2. QED BY <1>1, ListedIsInductive, PTL

\* Every variable keeps its type; the handler never follows a null pointer.
THEOREM PtrTypeCorrect ==
  ASSUME DestroyRaces = FALSE
  PROVE  Spec => []TypeOK
<1>1. ListInductive => TypeOK
  BY DEF ListInductive
<1>2. QED BY <1>1, ListInvariant, PTL

\* A walk along `next' from first_alm ends, and meets due dates in order, whenever
\* it is made: by the handler, which takes no mutex, or by alm_dump_queue.
THEOREM ListCorrect ==
  ASSUME DestroyRaces = FALSE
  PROVE  Spec => []ListSound
<1>1. ASSUME ListInductive PROVE ListSound
  <2>1. Node[Cardinality(Alarm)] = NULL
    BY <1>1, ChainIsList DEF ListInductive
  <2>2. QED BY <1>1, <2>1 DEF ListInductive, ListSound
<1>2. ListInductive => ListSound
  BY <1>1
<1>3. QED BY <1>2, ListInvariant, PTL

-----------------------------------------------------------------------------
(* The handler, where it is an interrupt handler. *)

\* What the second loop has found is still so.
Undisturbed ==
  /\ DOMAIN isr = {"pc", "alm", "now"}
  /\ isr.pc = "assert" => ~AtInactive

\* Every step keeps what the handler has read true.
LEMMA UndisturbedNext ==
  ASSUME HandlerIsThread = FALSE
  PROVE  Undisturbed /\ [Next]_vars => Undisturbed'
<1> SUFFICES ASSUME Undisturbed, [Next]_vars PROVE Undisturbed'
  OBVIOUS
<1> USE DEF timerVars, listVars, localVars
<1>1. ASSUME UNCHANGED <<isr, active>>
      PROVE  Undisturbed'
  BY <1>1 DEF Undisturbed, AtInactive
<1>2. CASE Tick \/ TimerExpires \/ UNCHANGED vars
  BY <1>1, <1>2 DEF Tick, TimerExpires, vars
\* Threads wait until the handler has returned.
<1>3. ASSUME NEW t \in Thread, ThreadStep(t) \/ Call(t)
      PROVE  Undisturbed'
  <2>1. isr.pc = "idle" /\ isr' = isr
    BY <1>3 DEF ThreadStep, StartStep, DestroyStep, DumpStep, Call, Goto, Running,
         Lock, Purge, PurgeEnd, CancelIt, Remove_, SetDue, Activate, Insert, Link, Check,
         Setup, Unlock, DestroyTest, DestroyRemove, Free, DumpLock, DumpAlarm, DumpEnd,
         Dump, Start, Cancel, Create, Destroy
  <2>2. QED BY <2>1 DEF Undisturbed
<1>4. CASE HandlerEnter
  BY <1>4 DEF HandlerEnter, Undisturbed
<1>5. CASE HandlerStep
  <2>1. CASE HandlerDue
    BY <2>1 DEF HandlerDue, HandlerGoto, Undisturbed
  <2>2. CASE HandlerRing
    BY <2>2 DEF HandlerRing, HandlerGoto, Undisturbed
  <2>3. CASE HandlerReset
    BY <2>3 DEF HandlerReset, HandlerOnly, Undisturbed
  <2>4. CASE HandlerAdvance \/ HandlerPass
    BY <2>4 DEF HandlerAdvance, HandlerPass, HandlerNext, Undisturbed
  <2>5. CASE HandlerSkip
    <3>1. /\ isr' = [isr EXCEPT !.pc = IF AtInactive THEN "pass" ELSE "assert"]
          /\ active' = active
      BY <2>5 DEF HandlerSkip, HandlerGoto
    <3>2. CASE AtInactive
      BY <3>1, <3>2 DEF Undisturbed
    <3>3. CASE ~AtInactive
      BY <3>1, <3>3 DEF AtInactive, Undisturbed
    <3>4. QED BY <3>2, <3>3
  <2>6. CASE HandlerAssert
    BY <2>6 DEF HandlerAssert, HandlerGoto, HandlerOnly, Undisturbed
  <2>7. CASE HandlerSetup
    BY <2>7 DEF HandlerSetup, IsrIdle, Undisturbed
  <2>8. QED
    BY <1>5, <2>1, <2>2, <2>3, <2>4, <2>5, <2>6, <2>7 DEF HandlerStep
<1>6. ASSUME NEW a \in Alarm, CallbackCancels(a)
      PROVE  Undisturbed'
  BY <1>6 DEF CallbackCancels, Undisturbed
<1>7. QED BY <1>2, <1>3, <1>4, <1>5, <1>6 DEF Next

\* assert(alm->active) in alm_int_handler holds where the handler is an interrupt
\* handler, for any number of threads and alarms and whatever clients call; on
\* Linux an alm_cancel can break it.
THEOREM HandlerAssertHolds ==
  ASSUME HandlerIsThread = FALSE
  PROVE  Spec => []HandlerAsserts
<1>1. Init => Undisturbed
  BY DEF Init, IsrIdle, Undisturbed
<1>2. Undisturbed => HandlerAsserts
  BY DEF Undisturbed, HandlerAsserts
<1>3. QED BY <1>1, <1>2, UndisturbedNext, PTL DEF Spec
=============================================================================
