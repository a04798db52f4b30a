---------------------------- MODULE QueueLemmas ----------------------------
(* What the three operations on the alarm queue do to a sequence, and what    *)
(* places and natural numbers need instead of induction.                      *)
EXTENDS SequencesExt, SequenceTheorems, FiniteSetTheorems, WellFoundedInduction, TLAPS

\* Cutting off the first k elements, as alm_purge does.
LEMMA CutProperties ==
  ASSUME NEW S, NEW q \in Seq(S), NEW k \in Nat
  PROVE  /\ SubSeq(q, k + 1, Len(q)) \in Seq(S)
         /\ k <= Len(q) => Len(SubSeq(q, k + 1, Len(q))) = Len(q) - k
         /\ \A i \in 1..(Len(q) - k) : SubSeq(q, k + 1, Len(q))[i] = q[k + i]
<1>1. /\ Len(q) \in Nat
      /\ \A i \in 1..Len(q) : q[i] \in S
  BY LenProperties, ElementOfSeq
<1>2. /\ k + 1 \in Int /\ Len(q) \in Int
      /\ \A i \in (k + 1)..Len(q) : q[i] \in S
  BY <1>1
<1>3. /\ SubSeq(q, k + 1, Len(q)) \in Seq(S)
      /\ Len(SubSeq(q, k + 1, Len(q))) =
           IF k + 1 <= Len(q) THEN Len(q) - (k + 1) + 1 ELSE 0
      /\ \A i \in 1..(Len(q) - (k + 1) + 1) :
           SubSeq(q, k + 1, Len(q))[i] = q[(k + 1) + i - 1]
  BY <1>2, SubSeqProperties
<1>4. \A i \in 1..(Len(q) - k) : SubSeq(q, k + 1, Len(q))[i] = q[k + i]
  <2>1. SUFFICES ASSUME NEW i \in 1..(Len(q) - k)
                 PROVE  SubSeq(q, k + 1, Len(q))[i] = q[k + i]
    OBVIOUS
  <2>2. i \in 1..(Len(q) - (k + 1) + 1) /\ (k + 1) + i - 1 = k + i
    BY <1>1
  <2>3. QED BY <1>3, <2>2
<1>5. QED BY <1>1, <1>3, <1>4

\* Taking out the element at i, as alm_remove does.
LEMMA RemoveAtProperties ==
  ASSUME NEW S, NEW q \in Seq(S), NEW i \in 1..Len(q)
  PROVE  /\ RemoveAt(q, i) \in Seq(S)
         /\ Len(RemoveAt(q, i)) = Len(q) - 1
         /\ \A j \in 1..(Len(q) - 1) :
              RemoveAt(q, i)[j] = IF j < i THEN q[j] ELSE q[j + 1]
<1> DEFINE l == SubSeq(q, 1, i - 1)
           r == SubSeq(q, i + 1, Len(q))
<1>1. /\ Len(q) \in Nat
      /\ \A j \in 1..Len(q) : q[j] \in S
  BY LenProperties, ElementOfSeq
<1>2. /\ l \in Seq(S)
      /\ Len(l) = i - 1
      /\ \A j \in 1..(i - 1) : l[j] = q[j]
  <2>1. 1 \in Int /\ i - 1 \in Int /\ \A j \in 1..(i - 1) : q[j] \in S
    BY <1>1
  <2>2. /\ l \in Seq(S)
        /\ Len(l) = IF 1 <= i - 1 THEN (i - 1) - 1 + 1 ELSE 0
        /\ \A j \in 1..((i - 1) - 1 + 1) : l[j] = q[1 + j - 1]
    BY <2>1, SubSeqProperties
  <2>3. \A j \in 1..(i - 1) : j \in 1..((i - 1) - 1 + 1) /\ 1 + j - 1 = j
    BY <1>1
  <2>4. (i - 1) - 1 + 1 = i - 1 /\ (~(1 <= i - 1) => i - 1 = 0)
    BY <1>1
  <2>5. QED BY <2>2, <2>3, <2>4
<1>3. /\ r \in Seq(S)
      /\ Len(r) = Len(q) - i
      /\ \A j \in 1..(Len(q) - i) : r[j] = q[i + j]
  BY <1>1, CutProperties
<1>4. RemoveAt(q, i) = l \o r
  BY DEF RemoveAt
<1> HIDE DEF l, r
<1>5. /\ l \o r \in Seq(S)
      /\ Len(l \o r) = Len(l) + Len(r)
      /\ \A j \in 1..(Len(l) + Len(r)) :
           (l \o r)[j] = IF j <= Len(l) THEN l[j] ELSE r[j - Len(l)]
  BY <1>2, <1>3, ConcatProperties
<1>6. ASSUME NEW j \in 1..(Len(q) - 1)
      PROVE  (l \o r)[j] = IF j < i THEN q[j] ELSE q[j + 1]
  <2>1. j \in 1..(Len(l) + Len(r))
    BY <1>1, <1>2, <1>3
  <2>2. CASE j < i
    <3>1. j <= Len(l) /\ j \in 1..(i - 1)
      BY <1>2, <2>2
    <3>2. QED BY <1>2, <1>5, <2>1, <2>2, <3>1
  <2>3. CASE ~(j < i)
    <3>1. ~(j <= Len(l)) /\ j - Len(l) \in 1..(Len(q) - i) /\ i + (j - Len(l)) = j + 1
      BY <1>1, <1>2, <2>3
    <3>2. QED BY <1>3, <1>5, <2>1, <2>3, <3>1
  <2>4. QED BY <2>2, <2>3
<1>7. Len(l) + Len(r) = Len(q) - 1
  BY <1>1, <1>2, <1>3
<1>8. QED BY <1>4, <1>5, <1>6, <1>7

\* Putting in an element at i, as alm_insert does.
LEMMA InsertAtProperties ==
  ASSUME NEW S, NEW q \in Seq(S), NEW i \in 1..(Len(q) + 1), NEW e \in S
  PROVE  /\ InsertAt(q, i, e) \in Seq(S)
         /\ Len(InsertAt(q, i, e)) = Len(q) + 1
         /\ \A j \in 1..(Len(q) + 1) :
              InsertAt(q, i, e)[j] = IF j < i THEN q[j] ELSE IF j = i THEN e ELSE q[j - 1]
<1> DEFINE l == SubSeq(q, 1, i - 1)
           r == SubSeq(q, i, Len(q))
<1>1. /\ Len(q) \in Nat
      /\ \A j \in 1..Len(q) : q[j] \in S
  BY LenProperties, ElementOfSeq
<1>2. /\ l \in Seq(S)
      /\ Len(l) = i - 1
      /\ \A j \in 1..(i - 1) : l[j] = q[j]
  <2>1. 1 \in Int /\ i - 1 \in Int /\ \A j \in 1..(i - 1) : q[j] \in S
    BY <1>1
  <2>2. /\ l \in Seq(S)
        /\ Len(l) = IF 1 <= i - 1 THEN (i - 1) - 1 + 1 ELSE 0
        /\ \A j \in 1..((i - 1) - 1 + 1) : l[j] = q[1 + j - 1]
    BY <2>1, SubSeqProperties
  <2>3. \A j \in 1..(i - 1) : j \in 1..((i - 1) - 1 + 1) /\ 1 + j - 1 = j
    BY <1>1
  <2>4. (i - 1) - 1 + 1 = i - 1 /\ (~(1 <= i - 1) => i - 1 = 0)
    BY <1>1
  <2>5. QED BY <2>2, <2>3, <2>4
<1>3. /\ r \in Seq(S)
      /\ Len(r) = Len(q) + 1 - i
      /\ \A j \in 1..(Len(q) + 1 - i) : r[j] = q[i - 1 + j]
  <2>1. /\ i - 1 \in Nat /\ (i - 1) + 1 = i /\ i - 1 <= Len(q)
        /\ Len(q) - (i - 1) = Len(q) + 1 - i
    BY <1>1
  <2>2. QED BY <1>1, <2>1, CutProperties
<1> DEFINE h == l \o <<e>>
<1>4. InsertAt(q, i, e) = h \o r
  BY DEF InsertAt
<1> HIDE DEF l, r, h
<1>5. /\ h \in Seq(S)
      /\ Len(h) = i
      /\ \A j \in 1..i : h[j] = IF j < i THEN q[j] ELSE e
  <2>1. <<e>> \in Seq(S) /\ Len(<<e>>) = 1 /\ <<e>>[1] = e
    OBVIOUS
  <2>2. /\ h \in Seq(S)
        /\ Len(h) = Len(l) + Len(<<e>>)
        /\ \A j \in 1..(Len(l) + Len(<<e>>)) :
             h[j] = IF j <= Len(l) THEN l[j] ELSE <<e>>[j - Len(l)]
    BY <1>2, <2>1, ConcatProperties DEF h
  <2>3. Len(l) + Len(<<e>>) = i
    BY <1>1, <1>2, <2>1
  <2>4. ASSUME NEW j \in 1..i PROVE h[j] = IF j < i THEN q[j] ELSE e
    <3>1. CASE j < i
      <4>1. j <= Len(l) /\ j \in 1..(i - 1)
        BY <1>2, <3>1
      <4>2. QED BY <1>2, <2>2, <2>3, <3>1, <4>1
    <3>2. CASE j = i
      <4>1. ~(j <= Len(l)) /\ j - Len(l) = 1 /\ ~(j < i)
        BY <1>1, <1>2, <3>2
      <4>2. QED BY <2>1, <2>2, <2>3, <4>1
    <3>3. QED BY <1>1, <3>1, <3>2
  <2>5. QED BY <2>2, <2>3, <2>4
<1>6. /\ h \o r \in Seq(S)
      /\ Len(h \o r) = Len(h) + Len(r)
      /\ \A j \in 1..(Len(h) + Len(r)) :
           (h \o r)[j] =
              IF j <= Len(h) THEN h[j] ELSE r[j - Len(h)]
  BY <1>3, <1>5, ConcatProperties
<1>7. Len(h) + Len(r) = Len(q) + 1
  BY <1>1, <1>3, <1>5
<1>8. ASSUME NEW j \in 1..(Len(q) + 1)
      PROVE  (h \o r)[j] =
               IF j < i THEN q[j] ELSE IF j = i THEN e ELSE q[j - 1]
  <2>1. CASE j <= i
    <3>1. j \in 1..i /\ j <= Len(h)
      BY <1>5, <2>1
    <3>2. (h \o r)[j] = h[j]
      BY <1>6, <1>7, <3>1
    <3>3. QED BY <1>5, <3>1, <3>2
  <2>2. CASE ~(j <= i)
    <3>1. /\ ~(j <= Len(h)) /\ j - i \in 1..(Len(q) + 1 - i)
          /\ i - 1 + (j - i) = j - 1 /\ ~(j < i) /\ j # i
      BY <1>1, <1>5, <2>2
    <3>2. (h \o r)[j] = r[j - i]
      BY <1>5, <1>6, <1>7, <3>1
    <3>3. QED BY <1>3, <3>1, <3>2
  <2>3. QED BY <2>1, <2>2
<1>9. QED BY <1>4, <1>6, <1>7, <1>8

-----------------------------------------------------------------------------
(* The same for sequences without repetitions, in ascending order of f. *)

Ascending(q, f) == \A i, j \in DOMAIN q : i < j => f[q[i]] <= f[q[j]]

\* Cutting off the first k elements leaves the others in order.
LEMMA CutKeeps ==
  ASSUME NEW S, NEW q \in Seq(S), NEW k \in 0..Len(q),
         NEW r, r = SubSeq(q, k + 1, Len(q))
  PROVE  /\ r \in Seq(S)
         /\ DOMAIN r = 1..(Len(q) - k)
         /\ \A i \in DOMAIN r : k + i \in DOMAIN q /\ r[i] = q[k + i]
         /\ \A j \in DOMAIN q : j > k => j - k \in DOMAIN r /\ r[j - k] = q[j]
<1>1. k \in Nat /\ k <= Len(q) /\ Len(q) \in Nat /\ DOMAIN q = 1..Len(q)
  BY LenProperties
<1>2. /\ r \in Seq(S) /\ Len(r) = Len(q) - k
      /\ \A i \in 1..(Len(q) - k) : r[i] = q[k + i]
  BY <1>1, CutProperties
<1>3. DOMAIN r = 1..(Len(q) - k)
  BY <1>2, LenProperties
<1>4. \A i \in DOMAIN r : k + i \in DOMAIN q /\ r[i] = q[k + i]
  <2>1. \A i \in DOMAIN r : k + i \in DOMAIN q
    BY <1>1, <1>3
  <2>2. QED BY <1>2, <1>3, <2>1
<1>5. \A j \in DOMAIN q : j > k => j - k \in DOMAIN r /\ r[j - k] = q[j]
  <2>1. SUFFICES ASSUME NEW j \in DOMAIN q, j > k
                 PROVE  j - k \in DOMAIN r /\ r[j - k] = q[j]
    OBVIOUS
  <2>2. j - k \in DOMAIN r /\ k + (j - k) = j
    BY <1>1, <1>3, <2>1
  <2>3. QED BY <1>4, <2>2
<1>6. QED BY <1>2, <1>3, <1>4, <1>5

\* Taking out one element leaves the others in order.
LEMMA RemoveAtKeeps ==
  ASSUME NEW S, NEW q \in Seq(S), NEW i \in DOMAIN q, IsInjective(q),
         NEW r, r = RemoveAt(q, i)
  PROVE  /\ r \in Seq(S) /\ IsInjective(r)
         /\ DOMAIN r = 1..(Len(q) - 1)
         /\ ToSet(r) = ToSet(q) \ {q[i]}
         /\ \A j \in DOMAIN r : r[j] = IF j < i THEN q[j] ELSE q[j + 1]
<1>1. Len(q) \in Nat /\ DOMAIN q = 1..Len(q) /\ i \in 1..Len(q)
  BY LenProperties
<1>2. /\ r \in Seq(S) /\ Len(r) = Len(q) - 1
      /\ \A j \in 1..(Len(q) - 1) : r[j] = IF j < i THEN q[j] ELSE q[j + 1]
  BY <1>1, RemoveAtProperties
<1>3. DOMAIN r = 1..(Len(q) - 1)
  BY <1>2, LenProperties
<1> DEFINE old(j) == IF j < i THEN j ELSE j + 1
<1>4. \A j \in DOMAIN r : old(j) \in DOMAIN q /\ old(j) # i /\ r[j] = q[old(j)]
  BY <1>1, <1>2, <1>3
<1>5. \A j, k \in DOMAIN r : (j < k => old(j) < old(k)) /\ (old(j) = old(k) => j = k)
  BY <1>3
<1>6. \A j \in DOMAIN q : j # i => \E k \in DOMAIN r : old(k) = j
  <2>1. SUFFICES ASSUME NEW j \in 1..Len(q), j # i
                 PROVE  \E k \in 1..(Len(q) - 1) : old(k) = j
    BY <1>1, <1>3
  <2>2. CASE j < i
    <3>1. j \in 1..(Len(q) - 1) /\ old(j) = j
      BY <1>1, <2>2
    <3>2. QED BY <3>1
  <2>3. CASE j > i
    <3>1. j - 1 \in 1..(Len(q) - 1) /\ old(j - 1) = j
      BY <1>1, <2>3
    <3>2. QED BY <3>1
  <2>4. QED BY <1>1, <2>1, <2>2, <2>3
<1> HIDE DEF old
<1>7. IsInjective(r)
  BY <1>4, <1>5 DEF IsInjective
<1>8. ToSet(r) = ToSet(q) \ {q[i]}
  <2>1. \A x \in ToSet(r) : x \in ToSet(q) \ {q[i]}
    BY <1>4 DEF ToSet, IsInjective
  <2>2. \A x \in ToSet(q) \ {q[i]} : x \in ToSet(r)
    <3>1. SUFFICES ASSUME NEW j \in DOMAIN q, q[j] # q[i] PROVE q[j] \in ToSet(r)
      BY DEF ToSet
    <3>2. PICK k \in DOMAIN r : old(k) = j
      BY <1>6, <3>1
    <3>3. QED BY <1>4, <3>2 DEF ToSet
  <2>3. QED BY <2>1, <2>2
<1>9. QED BY <1>2, <1>3, <1>7, <1>8

\* Removing a member leaves a sorted sequence sorted.
LEMMA RemoveAtAscends ==
  ASSUME NEW S, NEW q \in Seq(S), NEW i \in DOMAIN q, NEW r, r = RemoveAt(q, i),
         NEW f, Ascending(q, f)
  PROVE  Ascending(r, f)
<1>1. Len(q) \in Nat /\ DOMAIN q = 1..Len(q) /\ i \in 1..Len(q)
  BY LenProperties
<1>2. /\ DOMAIN r = 1..(Len(q) - 1)
      /\ \A j \in 1..(Len(q) - 1) : r[j] = IF j < i THEN q[j] ELSE q[j + 1]
  BY <1>1, RemoveAtProperties, LenProperties
<1> DEFINE old(j) == IF j < i THEN j ELSE j + 1
<1>3. \A j \in DOMAIN r : old(j) \in DOMAIN q /\ r[j] = q[old(j)]
  BY <1>1, <1>2
<1>4. \A j, k \in DOMAIN r : j < k => old(j) < old(k)
  BY <1>2
<1> HIDE DEF old
<1>5. QED BY <1>3, <1>4 DEF Ascending

\* Putting in a new element keeps the others in order, and itself if it is put
\* behind those that are not greater.
LEMMA InsertAtKeeps ==
  ASSUME NEW S, NEW q \in Seq(S), NEW p \in 1..(Len(q) + 1), NEW e \in S, IsInjective(q),
         e \notin ToSet(q), NEW r, r = InsertAt(q, p, e)
  PROVE  /\ r \in Seq(S) /\ IsInjective(r)
         /\ DOMAIN r = 1..(Len(q) + 1)
         /\ ToSet(r) = ToSet(q) \cup {e}
         /\ \A j \in DOMAIN r : r[j] = IF j < p THEN q[j] ELSE IF j = p THEN e ELSE q[j - 1]
         /\ \A f \in [S -> Nat] :
              Ascending(q, f) /\ (\A j \in 1..(p - 1) : f[q[j]] <= f[e])
                /\ (p <= Len(q) => f[e] <= f[q[p]]) => Ascending(r, f)
<1>1. /\ Len(q) \in Nat /\ DOMAIN q = 1..Len(q) /\ p \in Nat /\ 1 <= p /\ p <= Len(q) + 1
      /\ \A j \in DOMAIN q : q[j] \in S /\ q[j] # e
  BY LenProperties, ElementOfSeq DEF ToSet
<1>2. /\ r \in Seq(S) /\ Len(r) = Len(q) + 1
      /\ \A j \in 1..(Len(q) + 1) :
           r[j] = IF j < p THEN q[j] ELSE IF j = p THEN e ELSE q[j - 1]
  <2>1. r \in Seq(S) /\ Len(r) = Len(q) + 1
    BY InsertAtProperties
  <2>2. \A j \in 1..(Len(q) + 1) : InsertAt(q, p, e)[j] =
          IF j < p THEN q[j] ELSE IF j = p THEN e ELSE q[j - 1]
    BY <1>1, InsertAtProperties, SMTT(30)
  <2>3. QED BY <2>1, <2>2
<1>3. DOMAIN r = 1..(Len(q) + 1) /\ p \in DOMAIN r
  BY <1>1, <1>2, LenProperties
<1> DEFINE old(j) == IF j < p THEN j ELSE j - 1
<1>4. /\ r[p] = e
      /\ \A j \in DOMAIN r : j # p => old(j) \in DOMAIN q /\ r[j] = q[old(j)]
  BY <1>1, <1>2, <1>3
<1>5. \A i, j \in DOMAIN r : i # p /\ j # p =>
        (i < j => old(i) < old(j)) /\ (old(i) = old(j) => i = j)
  BY <1>1, <1>3
<1>6. \A j \in DOMAIN q : \E i \in DOMAIN r : i # p /\ old(i) = j
  <2>1. SUFFICES ASSUME NEW j \in 1..Len(q)
                 PROVE  \E i \in 1..(Len(q) + 1) : i # p /\ old(i) = j
    BY <1>1, <1>3
  <2>2. CASE j < p
    <3>1. j \in 1..(Len(q) + 1) /\ j # p /\ old(j) = j
      BY <1>1, <1>3, <2>2
    <3>2. QED BY <3>1
  <2>3. CASE j >= p
    <3>1. j + 1 \in 1..(Len(q) + 1) /\ j + 1 # p /\ old(j + 1) = j
      BY <1>1, <1>3, <2>3
    <3>2. QED BY <3>1
  <2>4. QED BY <1>1, <2>2, <2>3
<1>7. \A j \in DOMAIN r : (j < p => old(j) < p) /\ (j > p => old(j) >= p)
  BY <1>1, <1>3
<1> HIDE DEF old
<1>8. IsInjective(r)
  BY <1>1, <1>4, <1>5 DEF IsInjective
<1>9. ToSet(r) = ToSet(q) \cup {e}
  <2>1. \A x \in ToSet(r) : x \in ToSet(q) \cup {e}
    BY <1>4 DEF ToSet
  <2>2. e \in ToSet(r)
    BY <1>3, <1>4 DEF ToSet
  <2>3. ASSUME NEW j \in DOMAIN q PROVE q[j] \in ToSet(r)
    <3>1. PICK i \in DOMAIN r : i # p /\ old(i) = j
      BY <1>6
    <3>2. QED BY <1>4, <3>1 DEF ToSet
  <2>4. QED BY <2>1, <2>2, <2>3 DEF ToSet
<1>10. ASSUME NEW f \in [S -> Nat], Ascending(q, f),
              \A j \in 1..(p - 1) : f[q[j]] <= f[e], p <= Len(q) => f[e] <= f[q[p]],
              NEW i \in DOMAIN r, NEW j \in DOMAIN r, i < j
       PROVE  f[r[i]] <= f[r[j]]
  <2>1. \A m \in DOMAIN q : f[q[m]] \in Nat /\ f[e] \in Nat
    BY <1>1
  <2>2. \A m \in DOMAIN q : m >= p => f[e] <= f[q[m]]
    <3>1. SUFFICES ASSUME NEW m \in DOMAIN q, m >= p PROVE f[e] <= f[q[m]]
      OBVIOUS
    <3>2. p \in DOMAIN q /\ p <= Len(q)
      BY <1>1, <3>1
    <3>3. CASE m = p
      BY <1>10, <3>2, <3>3
    <3>4. CASE p < m
      BY <1>10, <2>1, <3>2, <3>4 DEF Ascending
    <3>5. QED BY <1>1, <3>1, <3>3, <3>4
  <2>3. \A m \in DOMAIN q : m < p => f[q[m]] <= f[e]
    BY <1>1, <1>10
  <2>4. CASE i # p /\ j # p
    BY <1>4, <1>5, <1>10, <2>4 DEF Ascending
  <2>5. CASE i = p
    <3>1. j # p /\ j > p
      BY <1>3, <1>10, <2>5
    <3>2. QED BY <1>4, <1>7, <2>2, <2>5, <3>1
  <2>6. CASE j = p
    <3>1. i # p /\ i < p
      BY <1>3, <1>10, <2>6
    <3>2. QED BY <1>4, <1>7, <2>3, <2>6, <3>1
  <2>7. QED BY <2>4, <2>5, <2>6
<1>11. QED BY <1>2, <1>3, <1>8, <1>9, <1>10 DEF Ascending

-----------------------------------------------------------------------------
(* Least elements, which take the place of induction. *)

\* A set of numbers that is not empty has a least one.
LEMMA LeastNatural ==
  ASSUME NEW T \in SUBSET Nat, T # {}
  PROVE  \E m \in T : \A k \in T : m <= k
<1>1. IsWellFoundedOn(OpToRel(<, Nat), Nat)
  BY NatLessThanWellFounded
<1>2. PICK m \in T : \A k \in T : ~ (<<k, m>> \in OpToRel(<, Nat))
  BY <1>1, WFMin
<1>3. \A k \in T : ~ (k < m)
  BY <1>2 DEF OpToRel
<1>4. QED BY <1>3

\* A set of places that holds with each place the ones before it.
LEMMA PrefixProperties ==
  ASSUME NEW n \in Nat, NEW T \in SUBSET (1..n), \A i \in T : \A j \in 1..i : j \in T
  PROVE  \E k \in 0..n : T = 1..k /\ Cardinality(T) = k
<1>1. \A k \in 0..n : Cardinality(1..k) = k
  <2>1. SUFFICES ASSUME NEW k \in 0..n PROVE Cardinality(1..k) = k
    OBVIOUS
  <2>2. 1 \in Int /\ k \in Int /\ (1 > k => k = 0) /\ k - 1 + 1 = k
    OBVIOUS
  <2>3. Cardinality(1..k) = IF 1 > k THEN 0 ELSE k - 1 + 1
    BY <2>2, FS_Interval
  <2>4. QED BY <2>2, <2>3
<1>2. CASE T = 1..n
  BY <1>1, <1>2
<1>3. CASE T # 1..n
  <2> DEFINE C == (1..n) \ T
  <2>1. C \in SUBSET Nat /\ C # {}
    <3>1. \E x \in 1..n : x \notin T
      BY <1>3, Zenon
    <3>2. C \in SUBSET Nat
      OBVIOUS
    <3>3. QED BY <3>1, <3>2
  <2>2. PICK m \in C : \A k \in C : m <= k
    <3> HIDE DEF C
    <3>1. QED BY <2>1, LeastNatural
  <2>3. m - 1 \in 0..n
    BY <2>2
  <2>4. T = 1..(m - 1)
    <3>1. \A j \in 1..(m - 1) : j \in T
      BY <2>2
    <3>2. \A j \in T : j \in 1..(m - 1)
      BY <2>2
    <3>3. QED BY <3>1, <3>2
  <2>5. QED BY <1>1, <2>3, <2>4
<1>4. QED BY <1>2, <1>3

\* A sequence without repetitions is no longer than the set of its elements.
LEMMA InjectiveIsShort ==
  ASSUME NEW S, IsFiniteSet(S), NEW q \in Seq(S), IsInjective(q)
  PROVE  Cardinality(S) \in Nat /\ Len(q) <= Cardinality(S)
<1>1. Len(q) \in Nat /\ q \in [1..Len(q) -> S]
  BY LenProperties
<1>2. q \in Injection(1..Len(q), S)
  BY <1>1 DEF Injection
<1>3. Cardinality(1..Len(q)) <= Cardinality(S)
  BY <1>2, FS_Injection
<1>4. Cardinality(1..Len(q)) = Len(q)
  <2>1. 1 \in Int /\ Len(q) \in Int /\ (1 > Len(q) => Len(q) = 0) /\ Len(q) - 1 + 1 = Len(q)
    BY <1>1
  <2>2. QED BY <2>1, FS_Interval
<1>5. QED BY <1>3, <1>4, FS_CardinalityType
=============================================================================
