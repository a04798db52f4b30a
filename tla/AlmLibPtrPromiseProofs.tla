----------------------- MODULE AlmLibPtrPromiseProofs -----------------------
(***************************************************************************)
(* On a target with real interrupts the linked list of AlmLibPtr           *)
(* implements the queue of AlmLib, for every number of alarms and threads, *)
(* and so keeps the promise of almLib.h and forgets no alarm.              *)
(***************************************************************************)
EXTENDS MCAlmLibPtr, AlmLibPtrProofs

-----------------------------------------------------------------------------
(* Where the handler is in the list.                                        *)

\* What the handler knows of the list: the alarms it has passed do not ring any
\* more, and were due while it was in its first loop; behind it, nobody is due.
HandlerPlace(s, p) ==
  /\ isr.alm = Entry(s, p)
  /\ isr.now <= time
  /\ \A i \in DOMAIN s : i < p => ~active[s[i]]
  /\ isr.pc \in {"due", "ring", "reset", "advance"} =>
       \A i \in DOMAIN s : i < p => time_due[s[i]] <= isr.now
  /\ isr.pc \in {"skip", "pass", "assert", "setup"} /\ isr.alm # NULL =>
       time_due[isr.alm] > isr.now
  /\ isr.pc \in {"ring", "reset", "advance"} => AtDue
  /\ isr.pc = "reset" => active[isr.alm]
  /\ isr.pc \in {"advance", "pass"} => AtInactive
  /\ isr.pc \in {"assert", "setup"} => ~AtInactive

Handler == Running => \E p \in 1..(Len(List) + 1) : HandlerPlace(List, p)

\* A thread has assigned time_due.
Dates == \A t \in Thread : pc[t] = "activate" => time_due[what[t]] = tstart[t] + delay[t]

Mapped == Listed /\ Handler /\ Dates

\* Nothing that matters to the list changes under the handler.
LEMMA ListStays ==
  ASSUME Listed, UNCHANGED <<first_alm, next>>
  PROVE  ListOK' /\ List' = List
BY SameList DEF Listed

\* Threads wait until the handler has returned.
LEMMA ThreadsWait ==
  ASSUME HandlerIsThread = FALSE, NEW t \in Thread, ThreadStep(t) \/ Call(t)
  PROVE  ~Running /\ isr' = isr /\ ~(Running')
<1>1. isr.pc = "idle" /\ isr' = isr
  BY DEF ThreadStep, StartStep, DestroyStep, DumpStep, Call, Goto, Running,
         Lock, Purge, PurgeEnd, CancelIt, Remove_, SetDue, Activate, Insert, Link, Check,
         Setup, Unlock, DestroyTest, DestroyRemove, Free, DumpLock, DumpAlarm, DumpEnd,
         Dump, Start, Cancel, Create, Destroy
<1>2. QED BY <1>1 DEF Running

\* A step of the handler, or of the callback, moves that place along.
LEMMA HandlerNextPlace ==
  ASSUME Listed, NEW s \in Seq(Alarm), s = List, NEW p \in 1..(Len(s) + 1),
         HandlerPlace(s, p), HandlerStep \/ \E a \in Alarm : CallbackCancels(a)
  PROVE  ~(Running') \/ \E q \in 1..(Len(s) + 1) : HandlerPlace(s, q)'
<1>1. /\ TypeOK /\ IsInjective(s) /\ Chain(s) /\ isr \in IsrType /\ HandlerAt
      /\ Len(s) \in Nat /\ DOMAIN s = 1..Len(s)
      /\ \A i \in DOMAIN s : s[i] \in Alarm /\ time_due[s[i]] \in Nat /\ next[s[i]] = Entry(s, i + 1)
      /\ \A i, j \in DOMAIN s : i < j => time_due[s[i]] <= time_due[s[j]]
      /\ isr.now \in Nat
  <2>1. TypeOK /\ ListOK /\ Sorted(List) /\ HandlerAt
    BY DEF Listed, Locked, Typed
  <2>2. IsInjective(s) /\ Chain(s) /\ isr \in IsrType
    BY <2>1 DEF ListOK, IsrType, TypeOK
  <2>3. Len(s) \in Nat /\ DOMAIN s = 1..Len(s) /\ \A i \in DOMAIN s : s[i] \in Alarm
    BY <2>1, ListDomain
  <2>4. \A i \in DOMAIN s : time_due[s[i]] \in Nat
    BY <2>1, <2>3 DEF TypeOK
  <2>5. QED BY <2>1, <2>2, <2>3, <2>4 DEF Sorted, Ascending, Chain, IsrType
<1>2. UNCHANGED <<time, time_due, next>>
  BY DEF HandlerStep, CallbackCancels, HandlerDue, HandlerRing, HandlerReset,
         HandlerAdvance, HandlerSkip, HandlerPass, HandlerAssert, HandlerSetup,
         HandlerGoto, HandlerNext, HandlerOnly, listVars
<1>3. CASE HandlerDue
  <2>1. isr' = [isr EXCEPT !.pc = IF AtDue THEN "ring" ELSE "skip"] /\ active' = active /\ isr.pc = "due"
    BY <1>3 DEF HandlerDue, HandlerGoto
  <2>2. CASE AtDue
    BY <1>1, <1>2, <2>1, <2>2 DEF HandlerPlace, AtDue, IsrType
  <2>3. CASE ~AtDue
    <3>1. isr.alm # NULL => time_due[isr.alm] > isr.now
      BY <1>1, <2>3 DEF AtDue, IsrType, TypeOK
    <3>2. QED BY <1>1, <1>2, <2>1, <2>3, <3>1 DEF HandlerPlace, IsrType
  <2>4. QED BY <2>2, <2>3
<1>4. CASE HandlerRing
  <2>1. isr' = [isr EXCEPT !.pc = IF active[isr.alm] THEN "reset" ELSE "advance"] /\ active' = active
        /\ isr.pc = "ring"
    BY <1>4 DEF HandlerRing, HandlerGoto
  <2>2. CASE active[isr.alm]
    BY <1>1, <1>2, <2>1, <2>2 DEF HandlerPlace, AtDue, IsrType
  <2>3. CASE ~active[isr.alm]
    BY <1>1, <1>2, <2>1, <2>3 DEF HandlerPlace, AtDue, AtInactive, IsrType
  <2>4. QED BY <2>2, <2>3
<1>5. CASE HandlerReset
  <2>1. isr' = [isr EXCEPT !.pc = "advance"] /\ active' = [active EXCEPT ![isr.alm] = FALSE]
        /\ isr.pc = "reset"
    BY <1>5 DEF HandlerReset
  <2>2. isr.alm \in Alarm /\ ~active'[isr.alm] /\ \A a \in Alarm : active'[a] => active[a]
    BY <1>1, <2>1 DEF HandlerAt, IsrType, TypeOK
  <2>3. QED BY <1>1, <1>2, <2>1, <2>2 DEF HandlerPlace, AtDue, AtInactive, IsrType
<1>6. CASE HandlerAdvance \/ HandlerPass
  <2>1. /\ isr.pc \in {"advance", "pass"} /\ active' = active
        /\ isr' = [isr EXCEPT !.pc = IF isr.pc = "advance" THEN "due" ELSE "skip",
                              !.alm = next[isr.alm]]
    BY <1>6 DEF HandlerAdvance, HandlerPass, HandlerNext
  <2>2. p \in DOMAIN s /\ isr.alm = s[p] /\ ~active[s[p]]
    BY <1>1, <2>1 DEF HandlerPlace, HandlerAt, Entry, AtInactive
  <2>3. PICK q \in 1..(Len(s) + 1) : q = p + 1
    BY <1>1, <2>2
  <2>4. isr'.alm = Entry(s, q) /\ isr'.now = isr.now
    BY <1>1, <2>1, <2>2, <2>3 DEF IsrType
  <2>5. \A i \in DOMAIN s : i < q <=> i < p \/ i = p
    BY <1>1, <2>3
  <2>6. \A i \in DOMAIN s : i < q => ~active'[s[i]]
    BY <2>1, <2>2, <2>5 DEF HandlerPlace
  <2>7. CASE isr.pc = "advance"
    <3>1. \A i \in DOMAIN s : i < q => time_due[s[i]] <= isr.now
      BY <2>2, <2>5, <2>7 DEF HandlerPlace, AtDue
    <3>2. isr'.pc = "due"
      BY <1>1, <2>1, <2>7 DEF IsrType
    <3>3. QED BY <1>2, <2>4, <2>6, <3>1, <3>2 DEF HandlerPlace
  <2>8. CASE isr.pc = "pass"
    <3>1. isr'.pc = "skip"
      BY <1>1, <2>1, <2>8 DEF IsrType
    <3>2. isr'.alm # NULL => time_due[isr'.alm] > isr.now
      <4>1. SUFFICES ASSUME q \in DOMAIN s PROVE time_due[s[q]] > isr.now
        BY <2>4 DEF Entry
      <4>2. time_due[s[p]] > isr.now /\ time_due[s[p]] <= time_due[s[q]]
        BY <1>1, <2>2, <2>3, <2>8, <4>1, PtrAssumption DEF HandlerPlace
      <4>3. QED BY <1>1, <2>2, <4>1, <4>2
    <3>3. QED BY <1>2, <2>4, <2>6, <3>1, <3>2 DEF HandlerPlace
  <2>9. QED BY <2>1, <2>7, <2>8
<1>7. CASE HandlerSkip
  <2>1. isr' = [isr EXCEPT !.pc = IF AtInactive THEN "pass" ELSE "assert"] /\ active' = active
        /\ isr.pc = "skip"
    BY <1>7 DEF HandlerSkip, HandlerGoto
  <2>2. CASE AtInactive
    BY <1>1, <1>2, <2>1, <2>2 DEF HandlerPlace, AtInactive, IsrType
  <2>3. CASE ~AtInactive
    BY <1>1, <1>2, <2>1, <2>3 DEF HandlerPlace, AtInactive, IsrType
  <2>4. QED BY <2>2, <2>3
<1>8. CASE HandlerAssert
  BY <1>1, <1>2, <1>8 DEF HandlerAssert, HandlerGoto, HandlerPlace, AtInactive, IsrType
<1>9. CASE HandlerSetup
  <2>1. isr'.pc = "idle"
    BY <1>9 DEF HandlerSetup, IsrIdle
  <2>2. QED BY <2>1 DEF Running
<1>10. ASSUME NEW a \in Alarm, CallbackCancels(a)
       PROVE  \E q \in 1..(Len(s) + 1) : HandlerPlace(s, q)'
  <2>1. isr' = isr /\ isr.pc = "reset" /\ a # isr.alm /\ active' = [active EXCEPT ![a] = FALSE]
    BY <1>10 DEF CallbackCancels
  <2>2. active'[isr.alm] = active[isr.alm] /\ \A b \in Alarm : active'[b] => active[b]
    BY <1>1, <2>1 DEF HandlerAt, IsrType, TypeOK
  <2>3. QED BY <1>1, <1>2, <2>1, <2>2 DEF HandlerPlace, AtDue
<1>11. QED
  BY <1>3, <1>4, <1>5, <1>6, <1>7, <1>8, <1>9, <1>10 DEF HandlerStep

\* And nobody else moves while the handler runs.
LEMMA HandlerInvariant ==
  ASSUME HandlerIsThread = FALSE, Listed, Handler, [Next]_vars
  PROVE  Handler'
<1>1. TypeOK
  BY DEF Listed, Locked, Typed
<1>2. PICK s \in Seq(Alarm) : s = List
  BY DEF Listed, ListOK
<1>3. Len(s) \in Nat /\ DOMAIN s = 1..Len(s) /\ first_alm = Entry(s, 1)
  BY <1>2, ListDomain DEF Listed, ListOK, Chain
<1>4. CASE Tick \/ TimerExpires \/ UNCHANGED vars
  <2>1. /\ UNCHANGED <<isr, first_alm, next, active, time_due>>
        /\ time' \in Nat /\ time <= time' /\ time \in Nat
    BY <1>1, <1>4 DEF Tick, TimerExpires, vars, timerVars, listVars, TypeOK
  <2>2. List' = s
    BY <1>2, <2>1, ListStays
  <2>3. SUFFICES ASSUME Running PROVE \E p \in 1..(Len(s) + 1) : HandlerPlace(s, p)'
    BY <2>1, <2>2 DEF Handler, Running, HandlerPlace, AtDue, AtInactive, Entry
  <2>4. PICK p \in 1..(Len(s) + 1) : HandlerPlace(s, p)
    BY <1>2, <2>3 DEF Handler
  <2>5. isr.now <= time' 
    BY <1>1, <2>1, <2>4 DEF HandlerPlace, TypeOK
  <2>6. QED BY <2>1, <2>4, <2>5 DEF HandlerPlace, AtDue, AtInactive
<1>5. CASE HandlerEnter
  <2>1. /\ isr' = [pc |-> "due", alm |-> first_alm, now |-> time] /\ UNCHANGED <<time, first_alm, next>>
    BY <1>5 DEF HandlerEnter, listVars
  <2>2. List' = s
    BY <1>2, <2>1, ListStays
  <2>3. 1 \in 1..(Len(s) + 1) /\ \A i \in DOMAIN s : ~(i < 1)
    BY <1>3
  <2>4. time <= time
    BY <1>1 DEF TypeOK
  <2>5. HandlerPlace(s, 1)'
    BY <1>3, <2>1, <2>3, <2>4 DEF HandlerPlace
  <2>6. QED BY <2>2, <2>3, <2>5 DEF Handler, HandlerPlace, AtDue, AtInactive, Entry
<1>6. CASE HandlerStep \/ \E a \in Alarm : CallbackCancels(a)
  <2>1. UNCHANGED <<first_alm, next>> /\ Running
    BY <1>6 DEF HandlerStep, CallbackCancels, HandlerDue, HandlerRing, HandlerReset,
         HandlerAdvance, HandlerSkip, HandlerPass, HandlerAssert, HandlerSetup,
         HandlerGoto, HandlerNext, HandlerOnly, listVars, Running
  <2>2. List' = s
    BY <1>2, <2>1, ListStays
  <2>3. PICK p \in 1..(Len(s) + 1) : HandlerPlace(s, p)
    BY <1>2, <2>1 DEF Handler
  <2>4. ~(Running') \/ \E q \in 1..(Len(s) + 1) : HandlerPlace(s, q)'
    BY <1>2, <1>6, <2>3, HandlerNextPlace
  <2>5. QED BY <2>2, <2>4 DEF Handler, HandlerPlace, AtDue, AtInactive, Entry
<1>7. ASSUME NEW t \in Thread, ThreadStep(t) \/ Call(t)
      PROVE  Handler'
  BY <1>7, ThreadsWait DEF Handler
<1>8. QED BY <1>4, <1>5, <1>6, <1>7 DEF Next

-----------------------------------------------------------------------------
(* The queue of AlmLib, and the places of the list in it.                   *)

\* Only one thread at a time unlinks.
LEMMA OneUnlinks ==
  Listed => \/ Unlinking = {} /\ \A t \in Thread : pc[t] # "remove"
            \/ \E t \in Thread : pc[t] = "remove" /\ lock = t /\ Unlinking = {what[t]}
                              /\ what[t] \in Alarm /\ ~active[what[t]]
<1> SUFFICES ASSUME Listed, NEW t \in Thread, pc[t] = "remove"
             PROVE  lock = t /\ Unlinking = {what[t]} /\ what[t] \in Alarm /\ ~active[what[t]]
  BY DEF Unlinking
<1>1. /\ Handles
      /\ \A u \in Thread : pc[u] \in InLock => lock = u
      /\ \A u \in Thread : pc[u] \in InStart \cup InDestroy => what[u] \in Alarm
  BY ListedFacts
<1>2. \A u \in Thread : pc[u] = "remove" => u = t
  BY <1>1 DEF InLock, InStart
<1>3. QED BY <1>1, <1>2 DEF Unlinking, Handles, InLock, InStart

\* The queue of AlmLib is the list, but for that alarm.
LEMMA QueueShape ==
  Listed =>
    \/ Gaps = {} /\ Queue = List /\ \A i \in DOMAIN List : List[i] \notin Unlinking
    \/ \E k \in DOMAIN List :
         /\ Gaps = {k} /\ Unlinking = {List[k]} /\ Queue = RemoveAt(List, k)
<1> SUFFICES ASSUME Listed, Gaps # {}
             PROVE  \E k \in DOMAIN List :
                      /\ Gaps = {k} /\ Unlinking = {List[k]} /\ Queue = RemoveAt(List, k)
  BY DEF Gaps, Queue
<1>1. PICK k \in DOMAIN List : List[k] \in Unlinking
  BY DEF Gaps
<1>2. Unlinking = {List[k]}
  BY <1>1, OneUnlinks
<1>3. Gaps = {k}
  BY <1>1, <1>2 DEF Gaps, Listed, ListOK, IsInjective
<1>4. (CHOOSE i \in Gaps : TRUE) = k
  BY <1>3
<1>5. Queue = RemoveAt(List, k)
  BY <1>3, <1>4 DEF Queue
<1>6. QED BY <1>2, <1>3, <1>5

\* The list has every alarm once: a pointer has one place.
LEMMA PlaceProperties ==
  ListOK => \A p \in 1..(Len(List) + 1) : Place(Entry(List, p)) = p
<1> SUFFICES ASSUME ListOK, NEW p \in 1..(Len(List) + 1)
             PROVE  Place(Entry(List, p)) = p
  OBVIOUS
<1>1. Len(List) \in Nat /\ DOMAIN List = 1..Len(List) /\ \A i \in DOMAIN List : List[i] # NULL
  BY ListDomain
<1>2. CASE p \in DOMAIN List
  <2>1. PICK x : x = List[p]
    OBVIOUS
  <2>2. \A i \in DOMAIN List : List[i] = x <=> i = p
    BY <1>2, <2>1 DEF ListOK, IsInjective
  <2>3. (CHOOSE i \in DOMAIN List : List[i] = x) = p
    BY <1>2, <2>2
  <2>4. Entry(List, p) = x /\ x # NULL
    BY <1>1, <1>2, <2>1 DEF Entry
  <2>5. QED BY <2>3, <2>4 DEF Place
<1>3. CASE p \notin DOMAIN List
  BY <1>1, <1>3 DEF Place, Entry
<1>4. QED BY <1>2, <1>3

\* The place p of the list is behind n alarms of the queue.
Leads(s, q, p, n) ==
  /\ n \in 0..Len(q)
  /\ p = 1 => n = 0
  /\ p \notin DOMAIN s => n = Len(q)
  /\ p \in DOMAIN s /\ s[p] \notin Unlinking => n + 1 \in DOMAIN q /\ q[n + 1] = s[p]
  /\ \A j \in DOMAIN q : j <= n => \E i \in DOMAIN s : i < p /\ q[j] = s[i]
  /\ \A j \in DOMAIN q : ~(j <= n) => \E i \in DOMAIN s : ~(i < p) /\ q[j] = s[i]

\* How many alarms of the queue come before a place.
LEMMA PassedIs ==
  Listed =>
    \A p \in 1..(Len(List) + 1) :
      \/ Gaps = {} /\ Queue = List /\ Passed(Entry(List, p)) = p - 1
         /\ \A i \in DOMAIN List : List[i] \notin Unlinking
      \/ \E k \in DOMAIN List :
           /\ Unlinking = {List[k]} /\ Queue = RemoveAt(List, k)
           /\ Passed(Entry(List, p)) = IF k < p THEN p - 2 ELSE p - 1
<1> SUFFICES ASSUME Listed, NEW p \in 1..(Len(List) + 1)
             PROVE  \/ Gaps = {} /\ Queue = List /\ Passed(Entry(List, p)) = p - 1
                       /\ \A i \in DOMAIN List : List[i] \notin Unlinking
                    \/ \E k \in DOMAIN List :
                         /\ Unlinking = {List[k]} /\ Queue = RemoveAt(List, k)
                         /\ Passed(Entry(List, p)) = IF k < p THEN p - 2 ELSE p - 1
  OBVIOUS
<1>1. Place(Entry(List, p)) = p
  BY PlaceProperties DEF Listed
<1>2. Passed(Entry(List, p)) = IF \E i \in Gaps : i < p THEN p - 2 ELSE p - 1
  BY <1>1 DEF Passed
<1>3. QED BY <1>2, QueueShape

\* The queue begins again where the place is, whatever is being unlinked.
LEMMA LeadsQueue ==
  ASSUME Listed, NEW p \in 1..(Len(List) + 1)
  PROVE  Queue \in Seq(Alarm) /\ Leads(List, Queue, p, Passed(Entry(List, p)))
<1>1. PICK s \in Seq(Alarm) : s = List
  BY DEF Listed, ListOK
<1>2. PICK n : n = Passed(Entry(s, p))
  OBVIOUS
<1>3. PICK q : q = Queue
  OBVIOUS
<1>4. /\ Len(s) \in Nat /\ DOMAIN s = 1..Len(s) /\ IsInjective(s) /\ p \in Nat
      /\ 1 <= p /\ p <= Len(s) + 1
  BY <1>1, ListDomain DEF Listed, ListOK
<1>5. CASE q = s /\ n = p - 1 /\ \A i \in DOMAIN s : s[i] \notin Unlinking
  BY <1>1, <1>2, <1>3, <1>4, <1>5 DEF Leads
<1>6. ASSUME NEW k \in DOMAIN s, Unlinking = {s[k]}, q = RemoveAt(s, k),
             n = IF k < p THEN p - 2 ELSE p - 1
      PROVE  q \in Seq(Alarm) /\ Leads(s, q, p, n)
  <2>1. q \in Seq(Alarm) /\ DOMAIN q = 1..(Len(s) - 1)
    BY <1>4, <1>6, RemoveAtKeeps
  <2>0. PICK L \in Nat : L = Len(s)
    BY <1>4
  <2>2. k \in Nat /\ 1 <= k /\ k <= L /\ DOMAIN s = 1..L /\ DOMAIN q = 1..(L - 1)
        /\ p \in Nat /\ 1 <= p /\ p <= L + 1 /\ Len(q) = L - 1
    <3>1. k \in Nat /\ 1 <= k /\ k <= L /\ DOMAIN s = 1..L /\ DOMAIN q = 1..(L - 1)
          /\ p \in Nat /\ 1 <= p /\ p <= L + 1
      BY <1>4, <2>0, <2>1
    <3>2. Len(q) = L - 1
      BY <2>1, <3>1, LenProperties
    <3>3. QED BY <3>1, <3>2
  <2>3. \A j \in DOMAIN q : q[j] = IF j < k THEN s[j] ELSE s[j + 1]
    <3>1. k \in 1..Len(s) /\ Len(s) = L
      BY <2>0, <2>2
    <3>2. \A j \in 1..(Len(s) - 1) : RemoveAt(s, k)[j] = IF j < k THEN s[j] ELSE s[j + 1]
      BY <3>1, RemoveAtProperties
    <3>3. QED BY <1>6, <2>2, <3>1, <3>2
  <2>4. /\ n = IF k < p THEN p - 2 ELSE p - 1
        /\ n \in 0..Len(q) /\ (p = 1 => n = 0) /\ (p \notin DOMAIN s => n = Len(q))
    BY <1>6, <2>2
  <2>5. p \in DOMAIN s /\ s[p] \notin Unlinking => n + 1 \in DOMAIN q /\ q[n + 1] = s[p]
    <3>1. SUFFICES ASSUME p \in DOMAIN s, p # k PROVE n + 1 \in DOMAIN q /\ q[n + 1] = s[p]
      BY <1>6
    <3>2. PICK m : m = n + 1
      OBVIOUS
    <3>3. CASE k < p
      <4>1. m \in DOMAIN q /\ ~(m < k) /\ m + 1 = p
        BY <2>2, <2>4, <3>1, <3>2, <3>3
      <4>2. QED BY <2>3, <3>2, <4>1
    <3>4. CASE ~(k < p)
      <4>1. m \in DOMAIN q /\ m < k /\ m = p
        BY <2>2, <2>4, <3>1, <3>2, <3>4
      <4>2. QED BY <2>3, <3>2, <4>1
    <3>5. QED BY <3>3, <3>4
  <2>6. ASSUME NEW j \in DOMAIN q
        PROVE  \E i \in DOMAIN s : q[j] = s[i] /\ (j <= n <=> i < p)
    <3>1. CASE j < k
      <4>1. j \in DOMAIN s /\ (j <= n <=> j < p)
        BY <2>2, <2>4, <3>1
      <4>2. QED BY <2>3, <3>1, <4>1
    <3>2. CASE ~(j < k)
      <4>1. PICK i \in DOMAIN s : i = j + 1
        BY <2>2
      <4>2. j <= n <=> i < p
        BY <2>2, <2>4, <3>2, <4>1
      <4>3. QED BY <2>3, <3>2, <4>1, <4>2
    <3>3. QED BY <3>1, <3>2
  <2>7. QED BY <2>1, <2>4, <2>5, <2>6 DEF Leads
<1>7. \/ q = s /\ n = p - 1 /\ \A i \in DOMAIN s : s[i] \notin Unlinking
      \/ \E k \in DOMAIN s : Unlinking = {s[k]} /\ q = RemoveAt(s, k)
                             /\ n = IF k < p THEN p - 2 ELSE p - 1
  BY <1>1, <1>2, <1>3, PassedIs
<1>8. q \in Seq(Alarm) /\ Leads(s, q, p, n)
  <2>1. CASE q = s /\ n = p - 1 /\ \A i \in DOMAIN s : s[i] \notin Unlinking
    BY <1>1, <1>2, <1>3, <1>5, <2>1
  <2>2. CASE \E k \in DOMAIN s : Unlinking = {s[k]} /\ q = RemoveAt(s, k)
                             /\ n = IF k < p THEN p - 2 ELSE p - 1
    BY <1>6, <2>2
  <2>3. QED BY <1>7, <2>1, <2>2
<1>9. QED BY <1>1, <1>2, <1>3, <1>8

\* Moving a cursor to the next place.
LEMMA PassedNext ==
  ASSUME Listed, NEW p \in DOMAIN List, NEW r \in 1..(Len(List) + 1), r = p + 1
  PROVE  Passed(Entry(List, r)) =
           IF List[p] \in Unlinking THEN Passed(Entry(List, p)) ELSE Passed(Entry(List, p)) + 1
<1>1. PICK s \in Seq(Alarm) : s = List
  BY DEF Listed, ListOK
<1>2. PICK n, m : n = Passed(Entry(s, p)) /\ m = Passed(Entry(s, r))
  OBVIOUS
<1>3. Len(s) \in Nat /\ DOMAIN s = 1..Len(s) /\ IsInjective(s) /\ p \in 1..(Len(s) + 1)
  BY <1>1, ListDomain DEF Listed, ListOK
<1>4. CASE n = p - 1 /\ m = r - 1 /\ s[p] \notin Unlinking
  BY <1>1, <1>2, <1>3, <1>4
<1>5. ASSUME NEW k \in DOMAIN s, Unlinking = {s[k]}, n = IF k < p THEN p - 2 ELSE p - 1,
             m = IF k < r THEN r - 2 ELSE r - 1
      PROVE  m = IF s[p] \in Unlinking THEN n ELSE n + 1
  <2>1. s[p] \in Unlinking <=> p = k
    BY <1>1, <1>3, <1>5 DEF IsInjective
  <2>2. QED BY <1>3, <1>5, <2>1
<1>6. \/ n = p - 1 /\ m = r - 1 /\ s[p] \notin Unlinking
      \/ \E k \in DOMAIN s : Unlinking = {s[k]} /\ (n = IF k < p THEN p - 2 ELSE p - 1)
                             /\ m = IF k < r THEN r - 2 ELSE r - 1
  <2>1. \/ n = p - 1 /\ Gaps = {} /\ s[p] \notin Unlinking
        \/ \E k \in DOMAIN s : Unlinking = {s[k]} /\ n = IF k < p THEN p - 2 ELSE p - 1
    BY <1>1, <1>2, <1>3, PassedIs
  <2>2. \/ m = r - 1 /\ (\A i \in DOMAIN s : s[i] \notin Unlinking)
        \/ \E k \in DOMAIN s : Unlinking = {s[k]} /\ m = IF k < r THEN r - 2 ELSE r - 1
    BY <1>1, <1>2, <1>3, PassedIs
  <2>3. \A i, j \in DOMAIN s : s[i] = s[j] => i = j
    BY <1>3 DEF IsInjective
  <2>4. CASE \A i \in DOMAIN s : s[i] \notin Unlinking
    <3>1. \A k \in DOMAIN s : Unlinking # {s[k]}
      BY <2>4
    <3>2. QED BY <2>1, <2>2, <2>4, <3>1
  <2>5. ASSUME NEW k \in DOMAIN s, s[k] \in Unlinking
        PROVE  Unlinking = {s[k]} /\ (n = IF k < p THEN p - 2 ELSE p - 1)
               /\ m = IF k < r THEN r - 2 ELSE r - 1
    <3>1. PICK i \in DOMAIN s : Unlinking = {s[i]} /\ n = IF i < p THEN p - 2 ELSE p - 1
      BY <1>1, <2>1, <2>5 DEF Gaps
    <3>2. PICK j \in DOMAIN s : Unlinking = {s[j]} /\ m = IF j < r THEN r - 2 ELSE r - 1
      BY <2>2, <2>5
    <3>3. i = k /\ j = k
      BY <2>3, <2>5, <3>1, <3>2
    <3>4. QED BY <3>1, <3>2, <3>3
  <2>6. QED BY <2>4, <2>5
<1>7. m = IF s[p] \in Unlinking THEN n ELSE n + 1
  BY <1>1, <1>2, <1>3, <1>4, <1>5, <1>6
<1>8. QED BY <1>1, <1>2, <1>7

\* What the mapping takes from the list stays the same with it.
LEMMA QueueSame ==
  ASSUME List' = List, Unlinking' = Unlinking
  PROVE  Gaps' = Gaps /\ Queue' = Queue /\ \A x : Passed(x)' = Passed(x)
<1> DEFINE PlaceIn(l, x) == IF x = NULL THEN Len(l) + 1 ELSE CHOOSE i \in DOMAIN l : l[i] = x
           GapsIn(l, u) == {i \in DOMAIN l : l[i] \in u}
           QueueIn(l, g) == IF g = {} THEN l ELSE RemoveAt(l, CHOOSE i \in g : TRUE)
<1>1. \A x : Place(x) = PlaceIn(List, x) /\ Place(x)' = PlaceIn(List', x)
  BY DEF Place
<1>2. Gaps = GapsIn(List, Unlinking) /\ Gaps' = GapsIn(List', Unlinking')
  BY DEF Gaps
<1>3. Queue = QueueIn(List, Gaps) /\ Queue' = QueueIn(List', Gaps')
  BY DEF Queue
<1> HIDE DEF PlaceIn, GapsIn, QueueIn
<1>4. Gaps' = Gaps /\ Queue' = Queue /\ \A x : Place(x)' = Place(x)
  BY <1>1, <1>2, <1>3
<1>5. QED BY <1>4 DEF Passed

-----------------------------------------------------------------------------
(* What holds in every state, so that every step is one of AlmLib.          *)

\* From there until the flag is set, nobody overwrites the date.
LEMMA DatesNext ==
  ASSUME Listed, Dates, [Next]_vars
  PROVE  Dates'
<1>1. /\ TypeOK /\ Working /\ Locking /\ Handles
      /\ \A u \in Thread : pc[u] \in InLock => lock = u
      /\ \A u \in Thread : pc[u] \in InStart \cup InDestroy => what[u] \in Alarm
  BY ListedFacts
<1> USE DEF Goto, listVars, localVars, timerVars
\* Steps that neither lead a thread to "activate" nor disturb one that is there.
<1>2. ASSUME \A u \in Thread : pc'[u] = "activate" =>
               /\ pc[u] = "activate" /\ what'[u] = what[u] /\ tstart'[u] = tstart[u]
               /\ delay'[u] = delay[u] /\ time_due'[what[u]] = time_due[what[u]]
      PROVE  Dates'
  BY <1>2 DEF Dates
<1>3. CASE \/ Tick \/ TimerExpires \/ HandlerEnter \/ HandlerStep \/ UNCHANGED vars
           \/ \E a \in Alarm : CallbackCancels(a)
  BY <1>2, <1>3 DEF Tick, TimerExpires, HandlerEnter, HandlerStep, CallbackCancels, HandlerDue,
         HandlerRing, HandlerReset, HandlerAdvance, HandlerSkip, HandlerPass, HandlerAssert,
         HandlerSetup, HandlerGoto, HandlerNext, HandlerOnly, vars
<1>4. ASSUME NEW t \in Thread, StartStep(t)
      PROVE  Dates'
  <2>1. CASE \/ Lock(t) \/ Purge(t) \/ PurgeEnd(t) \/ CancelIt(t) \/ Remove_(t)
             \/ Insert(t) \/ Link(t) \/ Check(t) \/ Setup(t)
    <3>1. UNCHANGED <<time_due, what, tstart, delay>>
      BY <2>1 DEF Lock, Purge, PurgeEnd, CancelIt, Remove_, Insert, Link, Check, Setup
    <3>2. \A u \in Thread : pc'[u] = "activate" => pc[u] = "activate"
      BY <1>1, <2>1 DEF Lock, Purge, PurgeEnd, CancelIt, Remove_, Insert, Link, Check, Setup, TypeOK
    <3>3. QED BY <1>2, <3>1, <3>2
  <2>2. CASE SetDue(t)
    <3>1. what[t] \in Alarm /\ \A u \in Thread : pc'[u] = "activate" => u = t
      BY <1>1, <2>2 DEF SetDue, TypeOK, InLock, InStart
    <3>2. time_due'[what[t]] = tstart[t] + delay[t] /\ UNCHANGED <<what, tstart, delay>>
      BY <1>1, <2>2, <3>1 DEF SetDue, TypeOK
    <3>3. QED BY <3>1, <3>2 DEF Dates
  <2>3. CASE Activate(t)
    BY <1>1, <1>2, <2>3 DEF Activate, TypeOK
  <2>4. CASE Unlock(t)
    BY <1>1, <1>2, <2>4 DEF Unlock, Return, TypeOK
  <2>5. QED BY <1>4, <2>1, <2>2, <2>3, <2>4 DEF StartStep
<1>5. ASSUME NEW t \in Thread, DestroyStep(t) \/ DumpStep(t)
      PROVE  Dates'
  <2>1. CASE DestroyTest(t) \/ DestroyRemove(t) \/ DumpStep(t)
    <3>1. UNCHANGED <<time_due, what, tstart, delay>>
      BY <2>1 DEF DestroyTest, DestroyRemove, DumpStep, DumpLock, DumpAlarm, DumpEnd
    <3>2. \A u \in Thread : pc'[u] = "activate" => pc[u] = "activate"
      BY <1>1, <2>1 DEF DestroyTest, DestroyRemove, DumpStep, DumpLock, DumpAlarm, DumpEnd, TypeOK
    <3>3. QED BY <1>2, <3>1, <3>2
  <2>2. CASE Free(t)
    <3>1. \A u \in Thread \ {t} : what[u] # what[t]
      BY <1>1, <2>2 DEF Free, Handles, InDestroy
    <3>2. QED BY <1>1, <1>2, <2>2, <3>1 DEF Free, Return, TypeOK
  <2>3. QED BY <1>5, <2>1, <2>2 DEF DestroyStep
<1>6. ASSUME NEW t \in Thread, Call(t)
      PROVE  Dates'
  <2>1. CASE Dump(t)
    BY <1>1, <1>2, <2>1 DEF Dump, TypeOK
  <2>2. ASSUME NEW a \in Alarm, NEW d \in Delay, Start(t, a, d)
        PROVE  Dates'
    BY <1>1, <1>2, <2>2 DEF Start, TypeOK
  <2>3. ASSUME NEW a \in Alarm, Cancel(t, a)
        PROVE  Dates'
    BY <1>1, <1>2, <2>3 DEF Cancel, TypeOK
  <2>4. ASSUME NEW a \in Alarm, Create(t, a)
        PROVE  Dates'
    <3>1. \A u \in Thread : pc[u] = "activate" => what[u] \in Alarm /\ what[u] # a
      BY <1>1, <2>4, PtrAssumption DEF Create, Handles, InStart
    <3>2. QED BY <1>1, <1>2, <2>4, <3>1 DEF Create, TypeOK
  <2>5. ASSUME NEW a \in Alarm, Destroy(t, a)
        PROVE  Dates'
    BY <1>1, <1>2, <2>5 DEF Destroy, TypeOK
  <2>6. QED BY <1>6, <2>1, <2>2, <2>3, <2>4, <2>5 DEF Call
<1>7. QED BY <1>3, <1>4, <1>5, <1>6 DEF Next, ThreadStep

\* What the refinement rests on holds initially ...
LEMMA MappedInit == Init => Mapped
BY ListedInit DEF Init, Mapped, Handler, Dates, Running, IsrIdle

\* ... and is kept by every step.
LEMMA MappedNext ==
  ASSUME DestroyRaces = FALSE, HandlerIsThread = FALSE
  PROVE  Mapped /\ [Next]_vars => Mapped'
BY ListedNext, HandlerInvariant, DatesNext DEF Mapped

-----------------------------------------------------------------------------
(* What AlmLib sees, and which steps leave it alone.                        *)

\* Due dates as AlmLib sees them.
LEMMA DueDateIs ==
  Listed =>
    /\ \A a \in Alarm :
         (\A t \in Thread : pc[t] = "activate" => what[t] # a) => DueDate[a] = time_due[a]
    /\ \A t \in Thread : pc[t] = "activate" => DueDate[what[t]] = was[t]
    /\ \A a \in ToSet(List) : a \in Alarm /\ DueDate[a] = time_due[a]
<1> SUFFICES ASSUME Listed
             PROVE  /\ \A a \in Alarm : (\A t \in Thread : pc[t] = "activate" => what[t] # a)
                                          => DueDate[a] = time_due[a]
                    /\ \A t \in Thread : pc[t] = "activate" => DueDate[what[t]] = was[t]
                    /\ \A a \in ToSet(List) : a \in Alarm /\ DueDate[a] = time_due[a]
  OBVIOUS
<1>1. /\ ToSet(List) \subseteq Alarm
      /\ \A u \in Thread : PlaceOf(List, u)
      /\ \A u \in Thread : pc[u] \in InLock => lock = u
      /\ \A u \in Thread : pc[u] \in InStart \cup InDestroy => what[u] \in Alarm
  BY ListedFacts
<1>2. ASSUME NEW a \in Alarm, \A t \in Thread : pc[t] = "activate" => what[t] # a
      PROVE  DueDate[a] = time_due[a]
  <2>1. Activating(a) = {}
    BY <1>2 DEF Activating
  <2>2. QED BY <2>1 DEF DueDate
<1>3. ASSUME NEW t \in Thread, pc[t] = "activate"
      PROVE  DueDate[what[t]] = was[t]
  <2>1. \A u \in Thread : pc[u] = "activate" => u = t
    BY <1>1, <1>3 DEF InLock, InStart
  <2>2. PICK a \in Alarm : a = what[t]
    BY <1>1, <1>3 DEF InStart
  <2>3. Activating(a) = {t}
    BY <1>3, <2>1, <2>2 DEF Activating
  <2>4. (CHOOSE u \in Activating(a) : TRUE) = t
    BY <2>3
  <2>5. QED BY <2>2, <2>3, <2>4 DEF DueDate
<1>4. \A a \in ToSet(List) : \A t \in Thread : pc[t] = "activate" => what[t] # a
  BY <1>1 DEF PlaceOf
<1>5. \A a \in ToSet(List) : a \in Alarm /\ DueDate[a] = time_due[a]
  BY <1>1, <1>2, <1>4
<1>6. QED BY <1>2, <1>3, <1>5

\* The same in the next state.
LEMMA DueDateIsNext ==
  (Listed =>
    /\ \A a \in Alarm :
         (\A t \in Thread : pc[t] = "activate" => what[t] # a) => DueDate[a] = time_due[a]
    /\ \A t \in Thread : pc[t] = "activate" => DueDate[what[t]] = was[t]
    /\ \A a \in ToSet(List) : a \in Alarm /\ DueDate[a] = time_due[a])'
BY DueDateIs, PTL

\* A step that leaves the dates alone, as AlmLib sees them.
LEMMA DueDateSame ==
  ASSUME Listed, Listed', time_due' = time_due,
         \A t \in Thread : /\ pc'[t] = "activate" <=> pc[t] = "activate"
                           /\ pc[t] = "activate" => what'[t] = what[t] /\ was'[t] = was[t]
  PROVE  DueDate' = DueDate
<1>1. ASSUME NEW a \in Alarm
      PROVE  DueDate'[a] = DueDate[a]
  <2>1. CASE \E t \in Thread : pc[t] = "activate" /\ what[t] = a
    <3>1. PICK t \in Thread : pc[t] = "activate" /\ what[t] = a
      BY <2>1
    <3>2. DueDate[a] = was[t]
      BY <3>1, DueDateIs
    <3>3. pc'[t] = "activate" /\ what'[t] = a /\ was'[t] = was[t]
      BY <3>1
    <3>4. DueDate'[a] = was'[t]
      BY <3>3, DueDateIsNext
    <3>5. QED BY <3>2, <3>3, <3>4
  <2>2. CASE \A t \in Thread : pc[t] = "activate" => what[t] # a
    <3>1. \A t \in Thread : pc'[t] = "activate" => what'[t] # a
      BY <2>2
    <3>2. QED BY <2>2, <3>1, DueDateIs, DueDateIsNext
  <2>3. QED BY <2>1, <2>2
<1>2. DueDate = [a \in Alarm |-> DueDate[a]] /\ DueDate' = [a \in Alarm |-> DueDate'[a]]
  BY DEF DueDate
<1>3. QED BY <1>1, <1>2

\* A step that leaves the cursors of alm_purge alone.
LEMMA MarkedSame ==
  ASSUME List' = List, Unlinking' = Unlinking,
         \A t \in Thread : /\ pc'[t] = "purge" <=> pc[t] = "purge"
                           /\ pc[t] = "purge" => cur'[t] = cur[t]
  PROVE  Marked' = Marked
<1>1. ASSUME NEW t \in Thread
      PROVE  Marked'[t] = Marked[t]
  <2>1. CASE pc[t] = "purge"
    <3>1. PICK x : x = cur[t]
      OBVIOUS
    <3>2. Passed(x)' = Passed(x)
      BY QueueSame
    <3>3. Passed(cur[t])' = Passed(x)'
      BY <2>1, <3>1
    <3>4. QED BY <2>1, <3>1, <3>2, <3>3 DEF Marked
  <2>2. CASE pc[t] # "purge"
    BY <2>2 DEF Marked
  <2>3. QED BY <2>1, <2>2
<1>2. Marked = [t \in Thread |-> Marked[t]] /\ Marked' = [t \in Thread |-> Marked'[t]]
  BY DEF Marked
<1>3. QED BY <1>1, <1>2

\* Who unlinks depends on where the threads are.
LEMMA UnlinkingSame ==
  ASSUME \A t \in Thread : /\ pc'[t] = "remove" <=> pc[t] = "remove"
                           /\ pc[t] = "remove" => what'[t] = what[t]
  PROVE  Unlinking' = Unlinking
BY DEF Unlinking

\* The handler changes nothing that AlmLib knows of the threads and the queue.
LEMMA HandlerFrame ==
  ASSUME Listed, Listed',
         UNCHANGED <<first_alm, next, enqueued, time_due, created, lock, pc, what, delay,
                     tstart, cur, was>>
  PROVE  /\ List' = List /\ Unlinking' = Unlinking
         /\ Gaps' = Gaps /\ Queue' = Queue /\ \A x : Passed(x)' = Passed(x)
         /\ UNCHANGED <<DueDate, Enqueued, Owner, Pc, Marked>>
<1>1. List' = List
  BY ListStays
<1>2. Unlinking' = Unlinking
  BY UnlinkingSame
<1>3. Gaps' = Gaps /\ Queue' = Queue /\ \A x : Passed(x)' = Passed(x)
  BY <1>1, <1>2, QueueSame
<1>4. DueDate' = DueDate
  BY DueDateSame
<1>5. Marked' = Marked
  BY <1>1, <1>2, MarkedSame
<1>6. UNCHANGED <<Enqueued, Owner, Pc>>
  BY <1>2 DEF Enqueued, Owner, Pc
<1>7. QED BY <1>1, <1>2, <1>3, <1>4, <1>5, <1>6

\* The handler has passed n alarms of the queue.
Sees(n) ==
  /\ n \in 0..Len(Queue) /\ n = Passed(isr.alm)
  /\ Queue \in Seq(Alarm)
  /\ isr \in IsrType /\ HandlerAt
  /\ isr.alm # NULL /\ isr.alm \notin Unlinking => n + 1 \in DOMAIN Queue /\ Queue[n + 1] = isr.alm
  /\ isr.alm = NULL => n = Len(Queue)
  /\ \A j \in DOMAIN Queue :
       /\ time_due[Queue[j]] \in Nat /\ DueDate[Queue[j]] = time_due[Queue[j]]
       /\ isr.pc \in {"due", "ring", "reset", "advance"} /\ j <= n =>
            time_due[Queue[j]] <= isr.now
       /\ isr.pc \in {"skip", "pass", "assert", "setup"} /\ ~(j <= n) =>
            time_due[Queue[j]] > isr.now
  /\ isr.pc \in {"ring", "reset", "advance"} => AtDue
  /\ isr.pc \in {"skip", "pass", "assert", "setup"} /\ isr.alm # NULL =>
       time_due[isr.alm] > isr.now
  /\ isr.pc = "reset" => active[isr.alm]
  /\ isr.pc \in {"advance", "pass"} => AtInactive
  /\ isr.pc \in {"assert", "setup"} => ~AtInactive

\* Wherever the handler is, it has passed some n.
LEMMA HandlerSees ==
  ASSUME Mapped, Running
  PROVE  \E n \in 0..Len(Queue) : Sees(n)
<1>1. PICK s \in Seq(Alarm) : s = List
  BY DEF Mapped, Listed, ListOK
<1>2. PICK p \in 1..(Len(s) + 1) : HandlerPlace(s, p)
  BY <1>1 DEF Mapped, Handler
<1>3. PICK n : n = Passed(isr.alm)
  OBVIOUS
<1>4. PICK q \in Seq(Alarm) : q = Queue
  BY <1>1, <1>2, LeadsQueue DEF Mapped
<1>5. Leads(s, q, p, n) /\ isr.alm = Entry(s, p)
  BY <1>1, <1>2, <1>3, <1>4, LeadsQueue DEF Mapped, HandlerPlace
<1>6. /\ Len(s) \in Nat /\ DOMAIN s = 1..Len(s) /\ TypeOK /\ HandlerAt
      /\ \A i \in DOMAIN s : s[i] \in ToSet(s) /\ s[i] # NULL /\ time_due[s[i]] \in Nat
                             /\ DueDate[s[i]] = time_due[s[i]]
      /\ \A i, j \in DOMAIN s : i < j => time_due[s[i]] <= time_due[s[j]]
  BY <1>1, ListDomain, DueDateIs DEF Mapped, Listed, Locked, Typed, TypeOK, Sorted, Ascending
<1>7. isr \in IsrType /\ isr.now \in Nat
  BY <1>6 DEF TypeOK, IsrType
<1>8. ASSUME NEW j \in DOMAIN q
      PROVE  /\ time_due[q[j]] \in Nat /\ DueDate[q[j]] = time_due[q[j]]
             /\ isr.pc \in {"due", "ring", "reset", "advance"} /\ j <= n =>
                  time_due[q[j]] <= isr.now
             /\ isr.pc \in {"skip", "pass", "assert", "setup"} /\ ~(j <= n) =>
                  time_due[q[j]] > isr.now
  <2>1. PICK i \in DOMAIN s : q[j] = s[i] /\ (j <= n <=> i < p)
    BY <1>5 DEF Leads
  <2>2. isr.pc \in {"due", "ring", "reset", "advance"} /\ j <= n => time_due[q[j]] <= isr.now
    BY <1>2, <2>1 DEF HandlerPlace
  <2>3. ASSUME isr.pc \in {"skip", "pass", "assert", "setup"}, ~(j <= n)
        PROVE  time_due[q[j]] > isr.now
    <3>1. p \in DOMAIN s /\ (p = i \/ p < i)
      BY <1>6, <2>1, <2>3
    <3>2. time_due[s[p]] > isr.now
      BY <1>2, <1>5, <1>6, <2>3, <3>1 DEF HandlerPlace, Entry
    <3>3. CASE p = i
      BY <2>1, <3>2, <3>3
    <3>4. CASE p < i
      <4>1. time_due[s[p]] <= time_due[s[i]]
        BY <1>6, <3>1, <3>4
      <4>2. QED BY <1>6, <1>7, <2>1, <3>1, <3>2, <4>1
    <3>5. QED BY <3>1, <3>3, <3>4
  <2>4. QED BY <1>6, <2>1, <2>2, <2>3
<1>9. /\ n \in 0..Len(q)
      /\ isr.alm # NULL => p \in DOMAIN s /\ isr.alm = s[p] /\ isr.alm \in ToSet(s)
      /\ isr.alm = NULL => n = Len(q)
      /\ isr.alm # NULL /\ isr.alm \notin Unlinking => n + 1 \in DOMAIN q /\ q[n + 1] = isr.alm
  BY <1>5, <1>6 DEF Leads, Entry
<1>10. Sees(n)
  BY <1>1, <1>2, <1>3, <1>4, <1>6, <1>7, <1>8, <1>9 DEF Sees, HandlerPlace
<1>11. QED BY <1>4, <1>9, <1>10

\* A step under the handler leaves its position in the queue where it was.
LEMMA IsrSame ==
  ASSUME Running, Running', Queue' = Queue, UNCHANGED time_due, IsrPos' = IsrPos, isr'.now = isr.now
  PROVE  Isr' = Isr
<1>1. IsrPc' = IsrPc
  BY DEF IsrPc
<1>2. QED BY <1>1 DEF Isr

\* Where the handler is after its step.
LEMMA IsrPosNext ==
  ASSUME NEW x, x = isr'.alm, Passed(x)' = Passed(x), Unlinking' = Unlinking
  PROVE  IsrPos' = IF isr'.pc \in {"advance", "pass"} /\ x \notin Unlinking
                   THEN Passed(x) + 2 ELSE Passed(x) + 1
<1>1. Passed(isr.alm)' = Passed(x)'
  OBVIOUS
<1>2. QED BY <1>1 DEF IsrPos

-----------------------------------------------------------------------------
(* The handler.                                                             *)

\* AlmLib makes a step, or sees none.
Stutters == UNCHANGED Almlib!vars
Follows == Almlib!Next \/ Stutters

\* AlmLib sees these variables and mapped values, nothing else.
LEMMA StuttersIf ==
  ASSUME UNCHANGED <<time, hw, pending, next_due, active, created, what, delay, tstart>>,
         UNCHANGED <<Isr, Queue, DueDate, Enqueued, Owner, Pc, Marked>>
  PROVE  Stutters
BY DEF Stutters, Almlib!vars, Almlib!timerVars, Almlib!alarmVars, Almlib!localVars

\* Where the handler is for AlmLib.
LEMMA IsrIs ==
  ASSUME Running, NEW n \in Nat, Sees(n)
  PROVE  /\ Isr = [pc |-> IsrPc, pos |-> IsrPos, now |-> isr.now]
         /\ IsrPc \in {"due", "skip"}
         /\ IsrPos = IF isr.pc \in {"advance", "pass"} /\ isr.alm \notin Unlinking
                     THEN n + 2 ELSE n + 1
         /\ isr.pc \in {"due", "ring", "reset"} => IsrPc = "due"
<1>1. Isr = [pc |-> IsrPc, pos |-> IsrPos, now |-> isr.now] /\ IsrPc \in {"due", "skip"}
  BY DEF Isr, IsrPc
<1>2. IsrPos = IF isr.pc \in {"advance", "pass"} /\ isr.alm \notin Unlinking
               THEN n + 2 ELSE n + 1
  BY DEF IsrPos, Sees
<1>3. ASSUME isr.pc \in {"due", "ring", "reset"}
      PROVE  IsrPc = "due"
  <2>1. IsrPos - 1 = n
    BY <1>2, <1>3
  <2>2. Len(Queue) \in Nat /\ DOMAIN Queue = 1..Len(Queue)
    BY LenProperties DEF Sees
  <2>3. \A i \in 1..n : ~(time_due[Queue[i]] > isr.now)
    <3>1. SUFFICES ASSUME NEW i \in 1..n PROVE ~(time_due[Queue[i]] > isr.now)
      OBVIOUS
    <3>2. i \in DOMAIN Queue /\ i <= n /\ isr.now \in Nat
      BY <2>2 DEF Sees, IsrType
    <3>3. time_due[Queue[i]] \in Nat /\ time_due[Queue[i]] <= isr.now
      BY <1>3, <3>2 DEF Sees
    <3>4. QED BY <3>2, <3>3
  <2>4. QED BY <2>1, <2>3 DEF IsrPc
<1>4. QED BY <1>1, <1>2, <1>3

\* The callback's alarm: AlmLib goes on to the next one with the same step
\* that resets the flag; the other steps of the first loop it does not see.
LEMMA FollowsInFirstLoop ==
  ASSUME Mapped, Mapped', HandlerDue \/ HandlerRing \/ HandlerReset
  PROVE  Follows
<1>1. /\ List' = List /\ Unlinking' = Unlinking
      /\ Gaps' = Gaps /\ Queue' = Queue /\ \A x : Passed(x)' = Passed(x)
      /\ UNCHANGED <<DueDate, Enqueued, Owner, Pc, Marked>>
  BY HandlerFrame DEF Mapped, HandlerDue, HandlerRing, HandlerReset, HandlerGoto, HandlerOnly,
     listVars, localVars
<1>2. /\ UNCHANGED <<time, hw, next_due, pending, created, what, delay, tstart, time_due>>
      /\ isr.pc \in {"due", "ring", "reset"}
  BY DEF HandlerDue, HandlerRing, HandlerReset, HandlerGoto, HandlerOnly, listVars, localVars
<1>3. Running
  BY <1>2 DEF Running
<1>4. PICK n \in 0..Len(Queue) : Sees(n)
  BY <1>3, HandlerSees
<1>5. /\ n \in Nat /\ isr \in IsrType /\ Len(Queue) \in Nat /\ DOMAIN Queue = 1..Len(Queue)
      /\ TypeOK
  BY <1>4, LenProperties DEF Sees, Mapped, Listed, Locked, Typed
<1>6. PICK x : x = isr.alm
  OBVIOUS
<1>7. /\ Isr = [pc |-> IsrPc, pos |-> IsrPos, now |-> isr.now]
      /\ IsrPos = n + 1 /\ IsrPc = "due" /\ Passed(x) = n
  BY <1>2, <1>3, <1>4, <1>5, <1>6, IsrIs DEF Sees
\* Steps after which AlmLib sees the handler where it was.
<1>8. ASSUME active' = active, isr'.alm = isr.alm, isr'.now = isr.now, Running',
             isr'.pc = "advance" => x \in Unlinking, isr'.pc # "pass"
      PROVE  Follows
  <2>1. IsrPos' = n + 1
    BY <1>1, <1>5, <1>6, <1>7, <1>8, IsrPosNext
  <2>2. Isr' = Isr
    BY <1>1, <1>2, <1>3, <1>7, <1>8, <2>1, IsrSame
  <2>3. QED BY <1>1, <1>2, <1>8, <2>2, StuttersIf DEF Follows
\* An alarm that is due is done with.
<1>9. ASSUME x \notin Unlinking, AtDue, active' = [active EXCEPT ![x] = FALSE],
             isr' = [isr EXCEPT !.pc = "advance"]
      PROVE  Follows
  <2>1. n + 1 \in DOMAIN Queue /\ Queue[n + 1] = x /\ time_due[x] <= isr.now
    BY <1>4, <1>6, <1>9 DEF Sees, AtDue
  <2>2. Running' /\ isr'.alm = x /\ isr'.now = isr.now /\ isr'.pc = "advance"
    BY <1>5, <1>6, <1>9 DEF Running, IsrType
  <2>3. IsrPos' = n + 2
    BY <1>1, <1>7, <1>9, <2>2, IsrPosNext
  <2>4. IsrPc' = "due"
    <3>1. ASSUME NEW i \in 1..(n + 1) PROVE ~(time_due[Queue[i]] > isr.now)
      <4>1. i \in DOMAIN Queue /\ time_due[Queue[i]] \in Nat /\ isr.now \in Nat
        BY <1>4, <1>5, <2>1 DEF Sees, IsrType
      <4>2. CASE i = n + 1
        BY <2>1, <4>1, <4>2
      <4>3. CASE i <= n
        BY <1>2, <1>4, <4>1, <4>3 DEF Sees
      <4>4. QED BY <1>5, <4>2, <4>3
    <3>2. n + 2 - 1 = n + 1
      BY <1>5
    <3>3. QED BY <1>1, <1>2, <2>2, <2>3, <3>1, <3>2 DEF IsrPc
  <2>5. Isr' = [pc |-> "due", pos |-> n + 2, now |-> isr.now]
    BY <2>2, <2>3, <2>4 DEF Isr
  <2>6. Isr' = [Isr EXCEPT !.pos = @ + 1]
    BY <1>5, <1>7, <2>5
  <2>7. Almlib!AtDue(Isr.pos) /\ Queue[Isr.pos] = x
    <3>1. DueDate[x] <= isr.now
      BY <1>4, <2>1 DEF Sees
    <3>2. n + 1 <= Len(Queue)
      BY <1>5, <2>1
    <3>3. QED BY <1>7, <2>1, <3>1, <3>2 DEF Almlib!AtDue
  <2>8. Almlib!HandlerDue
    BY <1>1, <1>2, <1>7, <1>9, <2>6, <2>7
    DEF Almlib!HandlerDue, Almlib!timerVars, Almlib!localVars
  <2>9. QED BY <2>8 DEF Follows, Almlib!Next, Almlib!HandlerStep
<1>10. CASE HandlerDue
  BY <1>5, <1>8, <1>10 DEF HandlerDue, HandlerGoto, IsrType, Running
<1>11. CASE HandlerRing
  <2>1. AtDue /\ x \in Alarm
    BY <1>4, <1>5, <1>6, <1>11 DEF HandlerRing, HandlerGoto, Sees, HandlerAt, IsrType
  <2>2. CASE active[x] \/ x \in Unlinking
    BY <1>5, <1>6, <1>8, <1>11, <2>2 DEF HandlerRing, HandlerGoto, IsrType, Running
  <2>3. CASE ~active[x] /\ x \notin Unlinking
    <3>1. active' = [active EXCEPT ![x] = FALSE]
      BY <1>5, <1>11, <2>1, <2>3 DEF HandlerRing, HandlerGoto, TypeOK
    <3>2. QED BY <1>6, <1>9, <1>11, <2>1, <2>3, <3>1 DEF HandlerRing, HandlerGoto
  <2>4. QED BY <2>2, <2>3
<1>12. CASE HandlerReset
  <2>1. AtDue /\ active[x]
    BY <1>4, <1>6, <1>12 DEF HandlerReset, Sees
  <2>2. x \notin Unlinking
    BY <2>1, OneUnlinks DEF Mapped
  <2>3. QED BY <1>6, <1>9, <1>12, <2>1, <2>2 DEF HandlerReset
<1>13. QED BY <1>10, <1>11, <1>12

\* Following a pointer takes the handler nowhere new in the queue.
LEMMA FollowsPointer ==
  ASSUME Mapped, Mapped', HandlerAdvance \/ HandlerPass
  PROVE  Stutters
<1>1. /\ List' = List /\ Unlinking' = Unlinking
      /\ Gaps' = Gaps /\ Queue' = Queue /\ \A x : Passed(x)' = Passed(x)
      /\ UNCHANGED <<DueDate, Enqueued, Owner, Pc, Marked>>
  BY HandlerFrame DEF Mapped, HandlerAdvance, HandlerPass, HandlerNext, HandlerOnly,
     listVars, localVars
<1>2. /\ UNCHANGED <<time, hw, next_due, pending, created, what, delay, tstart, time_due, active>>
      /\ isr.pc \in {"advance", "pass"}
      /\ isr' = [isr EXCEPT !.pc = IF isr.pc = "advance" THEN "due" ELSE "skip",
                            !.alm = next[isr.alm]]
  BY DEF HandlerAdvance, HandlerPass, HandlerNext, HandlerOnly, listVars, localVars
<1>3. TypeOK /\ HandlerAt /\ isr \in IsrType /\ Running
  BY <1>2 DEF Mapped, Listed, Locked, Typed, TypeOK, IsrType, Running
<1>4. PICK p \in 1..(Len(List) + 1) : HandlerPlace(List, p)
  BY <1>3 DEF Mapped, Handler
<1>5. PICK x, y : x = isr.alm /\ y = isr'.alm
  OBVIOUS
<1>6. p \in DOMAIN List /\ x = List[p] /\ x = Entry(List, p)
  BY <1>2, <1>3, <1>4, <1>5 DEF HandlerPlace, HandlerAt, Entry
<1>7. PICK r \in 1..(Len(List) + 1) : r = p + 1
  BY <1>6, ListDomain DEF Mapped, Listed
<1>8. y = Entry(List, r) /\ isr'.pc \in {"due", "skip"} /\ isr'.now = isr.now
  <2>1. next[x] = Entry(List, r)
    BY <1>6, <1>7 DEF Mapped, Listed, ListOK, Chain
  <2>2. QED BY <1>2, <1>3, <1>5, <2>1 DEF IsrType
<1>9. Passed(y) = IF x \in Unlinking THEN Passed(x) ELSE Passed(x) + 1
  BY <1>6, <1>7, <1>8, PassedNext DEF Mapped
<1>10. PICK n \in 0..Len(Queue) : Sees(n)
  BY <1>3, HandlerSees
<1>11. n \in Nat /\ Passed(x) = n
  <2>1. Len(Queue) \in Nat
    BY <1>10, LenProperties DEF Sees
  <2>2. QED BY <1>5, <1>10, <2>1 DEF Sees
<1>12. IsrPos = IF x \notin Unlinking THEN n + 2 ELSE n + 1
  BY <1>2, <1>3, <1>5, <1>10, <1>11, IsrIs
<1>13. IsrPos' = Passed(y) + 1
  BY <1>1, <1>5, <1>8, IsrPosNext
<1>14. IsrPos' = IsrPos
  BY <1>9, <1>11, <1>12, <1>13
<1>15. Running'
  BY <1>8 DEF Running
<1>16. Isr' = Isr
  BY <1>1, <1>2, <1>3, <1>8, <1>14, <1>15, IsrSame
<1>17. QED BY <1>1, <1>2, <1>16, StuttersIf

\* An inactive alarm is skipped with the step that finds it inactive.
LEMMA FollowsInSecondLoop ==
  ASSUME Mapped, Mapped', HandlerSkip \/ HandlerAssert
  PROVE  Follows
<1>1. /\ List' = List /\ Unlinking' = Unlinking
      /\ Gaps' = Gaps /\ Queue' = Queue /\ \A x : Passed(x)' = Passed(x)
      /\ UNCHANGED <<DueDate, Enqueued, Owner, Pc, Marked>>
  BY HandlerFrame DEF Mapped, HandlerSkip, HandlerAssert, HandlerGoto, HandlerOnly,
     listVars, localVars
<1>2. /\ UNCHANGED <<time, hw, next_due, pending, created, what, delay, tstart, time_due, active>>
      /\ isr.pc \in {"skip", "assert"}
  BY DEF HandlerSkip, HandlerAssert, HandlerGoto, HandlerOnly, listVars, localVars
<1>3. Running
  BY <1>2 DEF Running
<1>4. PICK n \in 0..Len(Queue) : Sees(n)
  BY <1>3, HandlerSees
<1>5. isr \in IsrType /\ Len(Queue) \in Nat /\ DOMAIN Queue = 1..Len(Queue)
  BY <1>4, LenProperties DEF Sees
<1>6. PICK x : x = isr.alm
  OBVIOUS
<1>7. n \in Nat
  BY <1>4, <1>5
<1>8. /\ Isr = [pc |-> IsrPc, pos |-> IsrPos, now |-> isr.now]
      /\ IsrPos = n + 1 /\ IsrPc \in {"due", "skip"} /\ Passed(x) = n
  BY <1>2, <1>3, <1>4, <1>6, <1>7, IsrIs DEF Sees
<1>9. /\ isr'.alm = isr.alm /\ isr'.now = isr.now /\ Running'
      /\ isr'.pc \in {"pass", "assert", "setup"} /\ (isr'.pc = "pass" => isr.pc = "skip" /\ AtInactive)
  BY <1>5 DEF HandlerSkip, HandlerAssert, HandlerGoto, IsrType, Running
<1>10. CASE isr'.pc = "pass" => x \in Unlinking
  <2>1. IsrPos' = n + 1
    BY <1>1, <1>6, <1>8, <1>9, <1>10, IsrPosNext
  <2>2. Isr' = Isr
    BY <1>1, <1>2, <1>3, <1>8, <1>9, <2>1, IsrSame
  <2>3. QED BY <1>1, <1>2, <2>2, StuttersIf DEF Follows
<1>11. CASE isr'.pc = "pass" /\ x \notin Unlinking
  <2>1. x # NULL /\ ~active[x] /\ isr.pc = "skip"
    BY <1>6, <1>9, <1>11 DEF AtInactive
  <2>2. n + 1 \in DOMAIN Queue /\ Queue[n + 1] = x /\ n + 1 <= Len(Queue)
    <3>1. n + 1 \in DOMAIN Queue /\ Queue[n + 1] = x
      BY <1>4, <1>6, <1>11, <2>1 DEF Sees
    <3>2. QED BY <1>5, <3>1
  <2>3. time_due[x] > isr.now /\ DueDate[x] = time_due[x] /\ isr.now \in Nat /\ time_due[x] \in Nat
    BY <1>4, <1>5, <1>6, <2>1, <2>2 DEF Sees, IsrType
  <2>4. IsrPos' = n + 2
    BY <1>1, <1>6, <1>8, <1>9, <1>11, IsrPosNext
  <2>5. IsrPc' = "skip"
    <3>1. n + 1 \in 1..(n + 2 - 1)
      BY <1>7
    <3>2. QED BY <1>1, <1>2, <1>9, <2>2, <2>3, <2>4, <3>1 DEF IsrPc
  <2>6. Isr' = [pc |-> "skip", pos |-> n + 2, now |-> isr.now]
    BY <1>9, <2>4, <2>5 DEF Isr
  <2>7. Isr' = [Isr EXCEPT !.pc = "skip", !.pos = @ + 1]
    <3>1. PICK c, d : c = IsrPc /\ d = isr.now
      OBVIOUS
    <3>2. Isr = [pc |-> c, pos |-> n + 1, now |-> d] /\ (n + 1) + 1 = n + 2
      BY <1>7, <1>8, <3>1
    <3>3. PICK r : r = [Isr EXCEPT !.pc = "skip", !.pos = @ + 1]
      OBVIOUS
    <3>4. r = [pc |-> "skip", pos |-> n + 2, now |-> d]
      BY <3>2, <3>3
    <3>5. QED BY <2>6, <3>1, <3>3, <3>4
  <2>8. Almlib!AtInactive(Isr.pos) /\ ~Almlib!AtDue(Isr.pos)
    BY <1>8, <2>1, <2>2, <2>3 DEF Almlib!AtInactive, Almlib!AtDue
  <2>9. Almlib!HandlerSkip
    BY <1>1, <1>2, <1>8, <2>7, <2>8
    DEF Almlib!HandlerSkip, Almlib!timerVars, Almlib!alarmVars, Almlib!localVars
  <2>10. QED BY <2>9 DEF Follows, Almlib!Next, Almlib!HandlerStep
<1>12. QED BY <1>9, <1>10, <1>11

\* The handler's last step sets up the timer for the same alarm.
LEMMA FollowsSetup ==
  ASSUME Mapped, Mapped', HandlerSetup
  PROVE  Follows
<1>1. /\ List' = List /\ Unlinking' = Unlinking
      /\ Gaps' = Gaps /\ Queue' = Queue /\ \A x : Passed(x)' = Passed(x)
      /\ UNCHANGED <<DueDate, Enqueued, Owner, Pc, Marked>>
  BY HandlerFrame DEF Mapped, HandlerSetup, HandlerOnly, listVars, localVars
<1>2. /\ UNCHANGED <<time, pending, created, what, delay, tstart, time_due, active>>
      /\ isr.pc = "setup" /\ isr' = IsrIdle
  BY DEF HandlerSetup, HandlerOnly, listVars, localVars
<1>3. Running
  BY <1>2 DEF Running
<1>4. PICK n \in 0..Len(Queue) : Sees(n)
  BY <1>3, HandlerSees
<1>5. isr \in IsrType /\ Len(Queue) \in Nat /\ DOMAIN Queue = 1..Len(Queue)
  BY <1>4, LenProperties DEF Sees
<1>6. PICK x : x = isr.alm
  OBVIOUS
<1>7. n \in Nat
  BY <1>4, <1>5
<1>8. /\ Isr = [pc |-> IsrPc, pos |-> IsrPos, now |-> isr.now]
      /\ IsrPos = n + 1 /\ IsrPc \in {"due", "skip"}
  BY <1>2, <1>3, <1>4, <1>7, IsrIs
<1>9. Isr' = [pc |-> "idle", pos |-> 1, now |-> 0]
  BY <1>2 DEF Isr, Running, IsrIdle
<1>10. CASE x # NULL
  <2>1. active[x] /\ x \notin Unlinking
    <3>1. active[x]
      BY <1>2, <1>4, <1>6, <1>10 DEF Sees, AtInactive
    <3>2. QED BY <3>1, OneUnlinks DEF Mapped
  <2>2. n + 1 \in DOMAIN Queue /\ Queue[n + 1] = x /\ n + 1 <= Len(Queue)
    <3>1. n + 1 \in DOMAIN Queue /\ Queue[n + 1] = x
      BY <1>4, <1>6, <1>10, <2>1 DEF Sees
    <3>2. QED BY <1>5, <3>1
  <2>3. time_due[x] > isr.now /\ DueDate[x] = time_due[x] /\ isr.now \in Nat /\ time_due[x] \in Nat
    BY <1>2, <1>4, <1>5, <1>6, <1>10, <2>2 DEF Sees, IsrType
  <2>4. ~Almlib!AtInactive(Isr.pos) /\ ~Almlib!AtDue(Isr.pos)
    BY <1>8, <2>1, <2>2, <2>3 DEF Almlib!AtInactive, Almlib!AtDue
  <2>5. SetupAlarm(DueDate[x], TRUE)
    BY <1>6, <1>10, <2>3 DEF HandlerSetup
  <2>6. Almlib!SetupAlarm(IF Isr.pos <= Len(Queue) THEN DueDate[Queue[Isr.pos]]
                                                 ELSE Isr.now + MAX_WAIT, TRUE)
    BY <1>8, <2>2, <2>5 DEF SetupAlarm, SetupDelay, Almlib!SetupAlarm, Almlib!SetupDelay
  <2>7. Almlib!HandlerSetup
    BY <1>1, <1>2, <1>8, <1>9, <2>4, <2>6
    DEF Almlib!HandlerSetup, Almlib!IsrIdle, Almlib!alarmVars, Almlib!localVars
  <2>8. QED BY <2>7 DEF Follows, Almlib!Next, Almlib!HandlerStep
<1>11. CASE x = NULL
  <2>1. ~(Isr.pos <= Len(Queue)) /\ Isr.now = isr.now
    BY <1>4, <1>5, <1>6, <1>7, <1>8, <1>11 DEF Sees
  <2>2. ~Almlib!AtInactive(Isr.pos) /\ ~Almlib!AtDue(Isr.pos)
    BY <2>1 DEF Almlib!AtInactive, Almlib!AtDue
  <2>3. SetupAlarm(isr.now + MAX_WAIT, TRUE)
    BY <1>6, <1>11 DEF HandlerSetup
  <2>4. Almlib!SetupAlarm(IF Isr.pos <= Len(Queue) THEN DueDate[Queue[Isr.pos]]
                                                 ELSE Isr.now + MAX_WAIT, TRUE)
    BY <2>1, <2>3 DEF SetupAlarm, SetupDelay, Almlib!SetupAlarm, Almlib!SetupDelay
  <2>5. Almlib!HandlerSetup
    BY <1>1, <1>2, <1>8, <1>9, <2>2, <2>4
    DEF Almlib!HandlerSetup, Almlib!IsrIdle, Almlib!alarmVars, Almlib!localVars
  <2>6. QED BY <2>5 DEF Follows, Almlib!Next, Almlib!HandlerStep
<1>12. QED BY <1>10, <1>11

-----------------------------------------------------------------------------
(* The timer, the interrupt and the callback.                               *)

\* A handle that may be used here may be used in AlmLib.
LEMMA UsableIs ==
  ASSUME NEW a, Usable(a)
  PROVE  Almlib!Usable(a)
<1>1. \A u \in Thread : Pc[u] \in {"test", "extract", "free"} => pc[u] \in InDestroy
  BY DEF Pc, AbstractPc, InDestroy
<1>2. QED BY <1>1 DEF Usable, Almlib!Usable, Almlib!Destroying

\* Clock and timer do not look at the list.
LEMMA FollowsTimer ==
  ASSUME Mapped, Mapped', Tick \/ TimerExpires
  PROVE  Follows
<1>1. /\ List' = List /\ Unlinking' = Unlinking
      /\ Gaps' = Gaps /\ Queue' = Queue /\ \A x : Passed(x)' = Passed(x)
      /\ UNCHANGED <<DueDate, Enqueued, Owner, Pc, Marked>>
  BY HandlerFrame DEF Mapped, Tick, TimerExpires, listVars, localVars
<1>2. UNCHANGED <<next_due, isr, time_due, active, created, what, delay, tstart>>
  BY DEF Tick, TimerExpires, timerVars, localVars
<1>3. Isr' = Isr
  <2>1. PICK x : x = isr.alm
    OBVIOUS
  <2>2. IsrPos' = IsrPos
    BY <1>1, <1>2, <2>1, IsrPosNext DEF IsrPos
  <2>3. CASE Running
    BY <1>1, <1>2, <2>2, <2>3, IsrSame DEF Running
  <2>4. CASE ~Running
    BY <1>2, <2>4 DEF Running, Isr
  <2>5. QED BY <2>3, <2>4
<1>4. CASE Tick
  BY <1>1, <1>2, <1>3, <1>4
  DEF Tick, timerVars, Follows, Almlib!Next, Almlib!Tick, Almlib!timerVars, Almlib!alarmVars,
      Almlib!localVars
<1>5. CASE TimerExpires
  BY <1>1, <1>2, <1>3, <1>5
  DEF TimerExpires, Off, Follows, Almlib!Next, Almlib!TimerExpires, Almlib!Off,
      Almlib!alarmVars, Almlib!localVars
<1>6. QED BY <1>4, <1>5

\* The handler starts at first_alm, the first place of the queue.
LEMMA FollowsEnter ==
  ASSUME Mapped, Mapped', HandlerEnter
  PROVE  Follows
<1>1. /\ List' = List /\ Unlinking' = Unlinking
      /\ Gaps' = Gaps /\ Queue' = Queue /\ \A x : Passed(x)' = Passed(x)
      /\ UNCHANGED <<DueDate, Enqueued, Owner, Pc, Marked>>
  BY HandlerFrame DEF Mapped, HandlerEnter, listVars, localVars
<1>2. UNCHANGED <<time, hw, next_due, time_due, active, created, what, delay, tstart>>
  BY DEF HandlerEnter, localVars
<1>3. PICK x : x = first_alm
  OBVIOUS
<1>4. isr' = [pc |-> "due", alm |-> x, now |-> time] /\ pending /\ ~Running /\ pending' = FALSE
  BY <1>3 DEF HandlerEnter
<1>5. Passed(x) = 0
  <2>1. 1 \in 1..(Len(List) + 1) /\ x = Entry(List, 1)
    BY <1>3, ListDomain DEF Mapped, Listed, ListOK, Chain
  <2>2. QED BY <2>1, LeadsQueue DEF Mapped, Leads
<1>6. isr'.alm = x /\ isr'.pc = "due" /\ isr'.now = time
  BY <1>4
<1>7. IsrPos' = 1
  BY <1>1, <1>5, <1>6, IsrPosNext
<1>8. IsrPc' = "due"
  BY <1>7 DEF IsrPc
<1>9. Isr' = [pc |-> "due", pos |-> 1, now |-> time]
  BY <1>6, <1>7, <1>8 DEF Isr, Running
<1>10. ~Almlib!Running
  BY <1>4 DEF Isr, Almlib!Running
<1>11. Almlib!HandlerEnter
  BY <1>1, <1>2, <1>4, <1>9, <1>10
  DEF Almlib!HandlerEnter, Almlib!alarmVars, Almlib!localVars
<1>12. QED BY <1>11 DEF Follows, Almlib!Next

\* A callback cancels another alarm while AlmLib is at the alarm it rang for.
LEMMA FollowsCallback ==
  ASSUME Mapped, Mapped', NEW a \in Alarm, CallbackCancels(a)
  PROVE  Follows
<1>1. /\ List' = List /\ Unlinking' = Unlinking
      /\ Gaps' = Gaps /\ Queue' = Queue /\ \A x : Passed(x)' = Passed(x)
      /\ UNCHANGED <<DueDate, Enqueued, Owner, Pc, Marked>>
  BY HandlerFrame DEF Mapped, CallbackCancels, HandlerOnly, listVars, localVars
<1>2. /\ UNCHANGED <<time, hw, next_due, pending, time_due, created, what, delay, tstart, isr>>
      /\ active' = [active EXCEPT ![a] = FALSE] /\ isr.pc = "reset" /\ a # isr.alm /\ Usable(a)
  BY DEF CallbackCancels, HandlerOnly, listVars, localVars
<1>3. Running
  BY <1>2 DEF Running
<1>4. PICK n \in 0..Len(Queue) : Sees(n)
  BY <1>3, HandlerSees
<1>5. PICK x : x = isr.alm
  OBVIOUS
<1>6. isr \in IsrType /\ Len(Queue) \in Nat /\ DOMAIN Queue = 1..Len(Queue) /\ n \in Nat
  BY <1>4, LenProperties DEF Sees
<1>7. /\ Isr = [pc |-> "due", pos |-> n + 1, now |-> isr.now] /\ IsrPos = n + 1
  BY <1>2, <1>3, <1>4, <1>6, IsrIs
<1>8. Isr' = Isr
  <2>1. IsrPos' = IsrPos
    BY <1>1, <1>2, <1>5, IsrPosNext DEF IsrPos
  <2>2. QED BY <1>1, <1>2, <1>3, <2>1, IsrSame DEF Running
<1>9. x # NULL /\ active[x] /\ time_due[x] <= isr.now /\ x \notin Unlinking
  <2>1. active[x] /\ AtDue
    BY <1>2, <1>4, <1>5 DEF Sees
  <2>2. QED BY <1>5, <2>1, OneUnlinks DEF Mapped, AtDue
<1>10. n + 1 \in DOMAIN Queue /\ Queue[n + 1] = x /\ DueDate[x] = time_due[x]
  BY <1>4, <1>5, <1>9 DEF Sees
<1>11. Almlib!AtDue(Isr.pos) /\ Queue[Isr.pos] = x
  BY <1>6, <1>7, <1>9, <1>10 DEF Almlib!AtDue
<1>12. Almlib!CallbackCancels(a)
  BY <1>1, <1>2, <1>5, <1>7, <1>8, <1>9, <1>11, UsableIs
  DEF Almlib!CallbackCancels, Almlib!timerVars, Almlib!localVars
<1>13. QED BY <1>12 DEF Follows, Almlib!Next

-----------------------------------------------------------------------------
(* The steps of alm_start.                                                  *)

\* The place of a thread, as AlmLib sees it.
LEMMA PcStep ==
  ASSUME TypeOK, NEW t \in Thread, NEW to, pc' = [pc EXCEPT ![t] = to],
         \A u \in Thread \ {t} : delay'[u] = delay[u]
  PROVE  /\ Pc[t] = AbstractPc(pc[t], delay[t])
         /\ Pc' = [Pc EXCEPT ![t] = AbstractPc(to, delay'[t])]
         /\ AbstractPc(to, delay'[t]) = Pc[t] => Pc' = Pc
<1>1. Pc[t] = AbstractPc(pc[t], delay[t])
  BY DEF Pc
<1>2. \A u \in Thread : Pc'[u] = IF u = t THEN AbstractPc(to, delay'[t]) ELSE Pc[u]
  BY DEF Pc, TypeOK
<1>3. Pc = [u \in Thread |-> Pc[u]] /\ Pc' = [u \in Thread |-> Pc'[u]]
  BY DEF Pc
<1> DEFINE new == [Pc EXCEPT ![t] = AbstractPc(to, delay'[t])]
<1>4. Pc' = new
  <2>1. new = [u \in Thread |-> new[u]] /\ \A u \in Thread : new[u] = Pc'[u]
    BY <1>2, <1>3
  <2> HIDE DEF new
  <2>2. QED BY <1>3, <2>1
<1>5. ASSUME AbstractPc(to, delay'[t]) = Pc[t]
      PROVE  Pc' = Pc
  BY <1>2, <1>3, <1>5
<1>6. QED BY <1>1, <1>4, <1>5

\* The owner of the mutex, as AlmLib sees it.
LEMMA OwnerSame ==
  ASSUME lock' = lock, \A u \in Thread : pc'[u] = "walk" <=> pc[u] = "walk"
  PROVE  Owner' = Owner
BY DEF Owner

\* A free mutex is free in AlmLib, and nobody is where it is needed.
LEMMA OwnerFree ==
  ASSUME Listed, lock = NULL
  PROVE  Owner = NULL /\ \A u \in Thread : pc[u] \notin InLock
BY ListedFacts, PtrAssumption DEF Owner

\* A thread step that leaves the list alone.
LEMMA ThreadFrame ==
  ASSUME Listed, ~Running, isr' = isr, first_alm' = first_alm,
         \A a \in ToSet(List) : next'[a] = next[a],
         \A u \in Thread : /\ pc'[u] = "remove" <=> pc[u] = "remove"
                           /\ pc[u] = "remove" => what'[u] = what[u]
  PROVE  /\ List' = List /\ Unlinking' = Unlinking
         /\ Gaps' = Gaps /\ Queue' = Queue /\ \A x : Passed(x)' = Passed(x)
         /\ Isr' = Isr /\ ~Almlib!Running
<1>1. List' = List
  BY SameList DEF Listed
<1>2. Unlinking' = Unlinking
  BY UnlinkingSame
<1>3. Gaps' = Gaps /\ Queue' = Queue /\ \A x : Passed(x)' = Passed(x)
  BY <1>1, <1>2, QueueSame
<1>4. Isr' = Isr /\ ~Almlib!Running
  BY DEF Isr, Running, Almlib!Running
<1>5. QED BY <1>1, <1>2, <1>3, <1>4

\* Nobody else is where the mutex is needed.
LEMMA Alone ==
  ASSUME Listed, NEW t \in Thread, pc[t] \in InLock
  PROVE  \A u \in Thread : pc[u] \in InLock => u = t
BY ListedFacts

\* The last steps of alm_start read an alarm that is linked.
LEMMA FollowsCheck ==
  ASSUME Mapped, Mapped', NEW t \in Thread, ~Running, isr' = isr, Check(t) \/ Setup(t)
  PROVE  Follows
<1>1. TypeOK /\ Listed /\ Listed' /\ pc[t] \in InLock
  BY ListedFacts DEF Mapped, Check, Setup, Goto, InLock, InStart
<1>2. UNCHANGED <<time, pending, isr, first_alm, next, enqueued, time_due, active, created, lock,
                  what, delay, tstart, cur, was>>
  BY DEF Check, Setup, SetupAlarm, listVars, localVars, timerVars
<1>3. PICK to \in {"setup", "unlock"} : pc' = [pc EXCEPT ![t] = to]
  BY DEF Check, Setup, Goto
<1>4. pc[t] \in {"check", "setup"} /\ \A u \in Thread : u # t => pc'[u] = pc[u]
  BY <1>1, <1>3 DEF Check, Setup, Goto, TypeOK
<1>5. pc'[t] = to
  BY <1>1, <1>3 DEF TypeOK
<1>6. /\ List' = List /\ Unlinking' = Unlinking
      /\ Gaps' = Gaps /\ Queue' = Queue /\ \A x : Passed(x)' = Passed(x)
      /\ Isr' = Isr /\ ~Almlib!Running
  BY <1>1, <1>2, <1>4, <1>5, ThreadFrame
<1>7. UNCHANGED <<DueDate, Enqueued, Owner, Marked>>
  <2>1. DueDate' = DueDate
    BY <1>1, <1>2, <1>4, <1>5, DueDateSame
  <2>2. Marked' = Marked
    BY <1>2, <1>4, <1>5, <1>6, MarkedSame
  <2>3. Owner' = Owner
    BY <1>2, <1>4, <1>5, OwnerSame
  <2>4. Enqueued' = Enqueued
    BY <1>2, <1>6 DEF Enqueued
  <2>5. QED BY <2>1, <2>2, <2>3, <2>4
<1>8. Pc[t] = pc[t] /\ Pc' = [Pc EXCEPT ![t] = to]
  BY <1>1, <1>2, <1>3, <1>4, PcStep DEF AbstractPc
<1>9. CASE Check(t)
  <2>1. to = IF active[what[t]] THEN "setup" ELSE "unlock"
    BY <1>1, <1>5, <1>9 DEF Check, Goto, TypeOK
  <2>2. Almlib!Check(t)
    BY <1>2, <1>6, <1>7, <1>8, <1>9, <2>1
    DEF Check, Goto, timerVars, Almlib!Check, Almlib!Goto, Almlib!timerVars, Almlib!alarmVars,
        Almlib!localVars
  <2>3. QED BY <2>2 DEF Follows, Almlib!Next, Almlib!ThreadStep, Almlib!StartStep
<1>10. CASE Setup(t)
  <2>1. DueDate[what[t]] = time_due[what[t]]
    <3>1. what[t] \in ToSet(List)
      BY <1>1, <1>10, ListedFacts DEF Setup, Goto, PlaceOf
    <3>2. QED BY <1>1, <3>1, DueDateIs
  <2>2. to = "unlock" /\ SetupAlarm(DueDate[what[t]], FALSE)
    BY <1>1, <1>5, <1>10, <2>1 DEF Setup, Goto, TypeOK
  <2>3. Almlib!SetupAlarm(DueDate[what[t]], FALSE)
    BY <2>2 DEF SetupAlarm, SetupDelay, Almlib!SetupAlarm, Almlib!SetupDelay
  <2>4. Almlib!Setup(t)
    BY <1>2, <1>6, <1>7, <1>8, <1>10, <2>2, <2>3
    DEF Setup, Goto, Almlib!Setup, Almlib!Goto, Almlib!alarmVars, Almlib!localVars
  <2>5. QED BY <2>4 DEF Follows, Almlib!Next, Almlib!ThreadStep, Almlib!StartStep
<1>11. QED BY <1>9, <1>10

\* While nobody unlinks, the queue is the list.
LEMMA QueueIsList ==
  Listed /\ (\A u \in Thread : pc[u] # "remove") =>
    /\ Unlinking = {} /\ Queue = List /\ Enqueued = enqueued
    /\ \A p \in 1..(Len(List) + 1) : Passed(Entry(List, p)) = p - 1
<1> SUFFICES ASSUME Listed, \A u \in Thread : pc[u] # "remove"
             PROVE  /\ Unlinking = {} /\ Queue = List /\ Enqueued = enqueued
                    /\ \A p \in 1..(Len(List) + 1) : Passed(Entry(List, p)) = p - 1
  OBVIOUS
<1>1. Unlinking = {}
  BY DEF Unlinking
<1>2. Queue = List /\ \A p \in 1..(Len(List) + 1) : Passed(Entry(List, p)) = p - 1
  <2>1. \A k \in DOMAIN List : Unlinking # {List[k]}
    BY <1>1
  <2>2. QED BY <2>1, QueueShape, PassedIs
<1>3. Enqueued = enqueued
  <2>1. enqueued \in [Alarm -> BOOLEAN]
    BY ListedFacts DEF TypeOK
  <2>2. \A a \in Alarm : Enqueued[a] = enqueued[a]
    BY <1>1, <2>1 DEF Enqueued
  <2>3. Enqueued = [a \in Alarm |-> Enqueued[a]] /\ enqueued = [a \in Alarm |-> enqueued[a]]
    BY <2>1 DEF Enqueued
  <2>4. QED BY <2>2, <2>3
<1>4. QED BY <1>1, <1>2, <1>3

\* The same in the next state.
LEMMA QueueIsListNext ==
  (Listed /\ (\A u \in Thread : pc[u] # "remove") =>
    /\ Unlinking = {} /\ Queue = List /\ Enqueued = enqueued
    /\ \A p \in 1..(Len(List) + 1) : Passed(Entry(List, p)) = p - 1)'
BY QueueIsList, PTL

\* Only alm_purge marks alarms.
LEMMA NothingMarked == (\A u \in Thread : pc[u] # "purge") => Marked = [u \in Thread |-> 0]
BY DEF Marked

\* The same in the next state.
LEMMA NothingMarkedNext ==
  ((\A u \in Thread : pc[u] # "purge") => Marked = [u \in Thread |-> 0])'
BY NothingMarked, PTL

\* The cursor of alm_purge starts before everything.
LEMMA FollowsLock ==
  ASSUME Mapped, Mapped', NEW t \in Thread, ~Running, isr' = isr, Lock(t)
  PROVE  Follows
<1>1. TypeOK /\ Listed /\ Listed' /\ ListOK
  BY ListedFacts DEF Mapped
<1>2. /\ UNCHANGED <<time, hw, next_due, pending, isr, first_alm, next, enqueued, time_due, active,
                     created, what, delay, tstart, was>>
      /\ pc[t] = "lock" /\ pc' = [pc EXCEPT ![t] = "purge"] /\ lock = NULL /\ lock' = t
      /\ cur' = [cur EXCEPT ![t] = first_alm]
  BY DEF Lock, Goto, listVars, timerVars
<1>3. \A u \in Thread : pc[u] \notin InLock
  BY <1>1, <1>2, OwnerFree
<1>4. pc'[t] = "purge" /\ cur'[t] = first_alm /\ \A u \in Thread : u # t => pc'[u] = pc[u]
  BY <1>1, <1>2 DEF TypeOK
<1>5. /\ List' = List /\ Unlinking' = Unlinking
      /\ Gaps' = Gaps /\ Queue' = Queue /\ \A x : Passed(x)' = Passed(x)
      /\ Isr' = Isr /\ ~Almlib!Running
  BY <1>1, <1>2, <1>4, ThreadFrame
<1>6. DueDate' = DueDate
  BY <1>1, <1>2, <1>4, DueDateSame
<1>7. Marked' = Marked
  <2>1. Marked = [u \in Thread |-> 0]
    BY <1>3, NothingMarked DEF InLock, InStart
  <2>2. Passed(cur[t])' = 0
    <3>1. PICK x : x = first_alm
      OBVIOUS
    <3>2. 1 \in 1..(Len(List) + 1) /\ x = Entry(List, 1)
      BY <1>1, <3>1, ListDomain DEF ListOK, Chain
    <3>3. Passed(x) = 0
      BY <1>1, <3>2, LeadsQueue DEF Leads
    <3>4. Passed(cur[t])' = Passed(x)'
      BY <1>4, <3>1
    <3>5. QED BY <1>5, <3>3, <3>4
  <2>3. \A u \in Thread : Marked'[u] = 0
    BY <1>3, <1>4, <2>2 DEF Marked, InLock, InStart
  <2>4. Marked' = [u \in Thread |-> Marked'[u]]
    BY DEF Marked
  <2>5. QED BY <2>1, <2>3, <2>4
<1>8. Enqueued' = Enqueued
  BY <1>2, <1>5 DEF Enqueued
<1>9. Owner = NULL /\ Owner' = t
  BY <1>1, <1>2, <1>3, <1>4, OwnerFree DEF Owner, InLock
<1>10. Pc[t] = "lock" /\ Pc' = [Pc EXCEPT ![t] = "purge"]
  BY <1>1, <1>2, PcStep DEF AbstractPc
<1>11. Almlib!Lock(t)
  BY <1>2, <1>5, <1>6, <1>7, <1>8, <1>9, <1>10
  DEF Almlib!Lock, Almlib!Goto, Almlib!timerVars, Almlib!alarmVars, Almlib!localVars
<1>12. QED BY <1>11 DEF Follows, Almlib!Next, Almlib!ThreadStep, Almlib!StartStep

\* One alarm marked here is one alarm marked there.
LEMMA FollowsPurge ==
  ASSUME Mapped, Mapped', NEW t \in Thread, ~Running, isr' = isr, Purge(t)
  PROVE  Follows
<1>1. TypeOK /\ Listed /\ Listed' /\ ListOK /\ pc[t] \in InLock
  BY ListedFacts DEF Mapped, Purge, Goto, InLock, InStart
<1>2. /\ UNCHANGED <<time, hw, next_due, pending, isr, first_alm, next, time_due, active, lock,
                     created, what, delay, tstart, was>>
      /\ pc[t] = "purge" /\ pc' = pc
      /\ AtPurge(t) /\ enqueued' = [enqueued EXCEPT ![cur[t]] = FALSE]
      /\ cur' = [cur EXCEPT ![t] = next[cur[t]]]
  BY <1>1 DEF Purge, Goto, timerVars, TypeOK
<1>3. \A u \in Thread : pc[u] = "purge" => u = t
  BY <1>1, Alone DEF InLock, InStart
<1>4. \A u \in Thread : pc[u] # "remove" /\ pc'[u] # "remove"
  BY <1>1, <1>2, Alone DEF InLock, InStart
<1>5. /\ List' = List /\ Unlinking' = Unlinking
      /\ Gaps' = Gaps /\ Queue' = Queue /\ \A x : Passed(x)' = Passed(x)
      /\ Isr' = Isr /\ ~Almlib!Running
  BY <1>1, <1>2, ThreadFrame
<1>6. PICK p \in 1..(Len(List) + 1) : cur[t] = Entry(List, p)
  BY <1>1, <1>2, CursorPlace
<1>7. PICK x : x = cur[t]
  OBVIOUS
<1>8. p \in DOMAIN List /\ x = List[p] /\ x \in Alarm /\ ~active[x] /\ Len(List) \in Nat
      /\ p <= Len(List) /\ p \in Nat
  BY <1>1, <1>2, <1>6, <1>7, ListDomain DEF AtPurge, Entry
<1>9. /\ Queue = List /\ Enqueued = enqueued /\ Enqueued' = enqueued' /\ Passed(x) = p - 1
  BY <1>1, <1>4, <1>6, <1>7, QueueIsList, QueueIsListNext
<1>10. Marked[t] = p - 1
  BY <1>2, <1>7, <1>9 DEF Marked
<1>11. Passed(cur[t])' = p
  <2>1. PICK r \in 1..(Len(List) + 1) : r = p + 1
    BY <1>8
  <2>2. PICK y : y = next[x]
    OBVIOUS
  <2>3. y = Entry(List, r) /\ Passed(y) = p
    <3>1. y = Entry(List, r)
      BY <1>1, <1>8, <2>1, <2>2 DEF ListOK, Chain
    <3>2. Passed(y) = r - 1
      BY <1>1, <1>4, <3>1, QueueIsList
    <3>3. QED BY <1>8, <2>1, <3>1, <3>2
  <2>4. cur'[t] = y
    BY <1>1, <1>2, <1>7, <2>2 DEF TypeOK
  <2>5. Passed(cur[t])' = Passed(y)'
    BY <2>4
  <2>6. QED BY <1>5, <2>3, <2>5
<1>12. Marked' = [Marked EXCEPT ![t] = @ + 1]
  <2> DEFINE new == [Marked EXCEPT ![t] = @ + 1]
  <2>1. \A u \in Thread : Marked'[u] = IF u = t THEN p ELSE 0
    BY <1>2, <1>3, <1>11 DEF Marked
  <2>2. \A u \in Thread : Marked[u] = IF u = t THEN p - 1 ELSE 0
    BY <1>3, <1>10 DEF Marked
  <2>3. \A u \in Thread : new[u] = Marked'[u]
    BY <1>8, <2>1, <2>2 DEF Marked
  <2>4. new = [u \in Thread |-> new[u]] /\ Marked' = [u \in Thread |-> Marked'[u]]
    BY DEF Marked
  <2> HIDE DEF new
  <2>5. new = Marked'
    BY <2>3, <2>4
  <2>6. QED BY <2>5 DEF new
<1>13. Almlib!AtInactive(Marked[t] + 1) /\ Queue[Marked[t] + 1] = x
  <2>1. Marked[t] + 1 = p
    BY <1>8, <1>10
  <2>2. QED BY <1>8, <1>9, <2>1 DEF Almlib!AtInactive
<1>14. UNCHANGED <<DueDate, Owner, Pc>>
  <2>1. DueDate' = DueDate
    BY <1>1, <1>2, DueDateSame
  <2>2. QED BY <1>2, <2>1 DEF Owner, Pc
<1>15. Pc[t] = "purge" /\ Pc' = [Pc EXCEPT ![t] = "purge"]
  <2>1. pc' = [pc EXCEPT ![t] = "purge"]
    BY DEF Purge, Goto
  <2>2. QED BY <1>1, <1>2, <2>1, PcStep DEF AbstractPc
<1>16. Enqueued' = [Enqueued EXCEPT ![Queue[Marked[t] + 1]] = FALSE]
  BY <1>2, <1>7, <1>9, <1>13
<1>17. Almlib!Purge(t)
  BY <1>2, <1>5, <1>12, <1>13, <1>14, <1>15, <1>16
  DEF Almlib!Purge, Almlib!Goto, Almlib!timerVars
<1>18. QED BY <1>17 DEF Follows, Almlib!Next, Almlib!ThreadStep, Almlib!StartStep

\* The same in the next state.
LEMMA QueueShapeNext ==
  (Listed =>
    \/ Gaps = {} /\ Queue = List /\ \A i \in DOMAIN List : List[i] \notin Unlinking
    \/ \E k \in DOMAIN List :
         /\ Gaps = {k} /\ Unlinking = {List[k]} /\ Queue = RemoveAt(List, k))'
BY QueueShape, PTL

\* AlmLib has its own copies of the operators on sequences.
LEMMA SameOperators ==
  /\ \A s : Almlib!ToSet(s) = ToSet(s)
  /\ \A s, i : Almlib!RemoveAt(s, i) = RemoveAt(s, i)
  /\ \A s, i, a : Almlib!InsertAt(s, i, a) = InsertAt(s, i, a)
BY DEF Almlib!ToSet, ToSet, Almlib!RemoveAt, RemoveAt, Almlib!InsertAt, InsertAt

\* Moving first_alm to the cursor cuts off what is marked.
LEMMA FollowsPurgeEnd ==
  ASSUME Mapped, Mapped', NEW t \in Thread, ~Running, isr' = isr, PurgeEnd(t)
  PROVE  Follows
<1>1. TypeOK /\ Listed /\ Listed' /\ ListOK /\ pc[t] \in InLock
  BY ListedFacts DEF Mapped, PurgeEnd, Goto, InLock, InStart
<1>2. /\ UNCHANGED <<time, hw, next_due, pending, isr, next, enqueued, time_due, active, lock,
                     created, what, delay, tstart, was>>
      /\ pc[t] = "purge" /\ pc' = [pc EXCEPT ![t] = "cancel"]
      /\ ~AtPurge(t) /\ first_alm' = cur[t]
  BY DEF PurgeEnd, Goto, timerVars
<1>3. \A u \in Thread : pc[u] \in InLock => u = t
  BY <1>1, Alone
<1>4. pc'[t] = "cancel" /\ \A u \in Thread : u # t => pc'[u] = pc[u]
  BY <1>1, <1>2 DEF TypeOK
<1>5. \A u \in Thread : pc[u] # "remove" /\ pc'[u] # "remove" /\ pc'[u] # "purge"
  BY <1>2, <1>3, <1>4 DEF InLock, InStart
<1>6. PICK p \in 1..(Len(List) + 1) : cur[t] = Entry(List, p)
  BY <1>1, <1>2, CursorPlace
<1>7. PICK x : x = cur[t]
  OBVIOUS
<1>8. /\ Queue = List /\ Enqueued = enqueued /\ Passed(x) = p - 1
      /\ Queue' = List' /\ Enqueued' = enqueued' 
  BY <1>1, <1>5, <1>6, <1>7, QueueIsList, QueueIsListNext
<1>9. Len(List) \in Nat /\ DOMAIN List = 1..Len(List) /\ p \in Nat
  BY <1>1, ListDomain
<1>10. PICK k \in 0..Len(List) : k = p - 1 /\ k + 1 = p
  BY <1>9
<1>11. Marked[t] = k /\ Marked[t] + 1 = p
  BY <1>2, <1>7, <1>8, <1>10 DEF Marked
<1>12. Queue' = SubSeq(Queue, Marked[t] + 1, Len(Queue))
  <2>1. first_alm' = Entry(List, k + 1)
    BY <1>2, <1>6, <1>10
  <2>2. List' = SubSeq(List, k + 1, Len(List))
    BY <1>1, <1>2, <2>1, CutList
  <2>3. QED BY <1>8, <1>10, <1>11, <2>2
<1>13. Marked' = [Marked EXCEPT ![t] = 0]
  <2>1. Marked' = [u \in Thread |-> 0]
    BY <1>5, NothingMarkedNext
  <2>2. \A u \in Thread : u # t => Marked[u] = 0
    BY <1>2, <1>3 DEF Marked, InLock, InStart
  <2>3. [Marked EXCEPT ![t] = 0] = [u \in Thread |-> 0]
    BY <2>2 DEF Marked
  <2>4. QED BY <2>1, <2>3
<1>14. ~Almlib!AtInactive(Marked[t] + 1)
  <2>1. p \in DOMAIN List => active[List[p]]
    BY <1>1, <1>2, <1>6, ListDomain DEF AtPurge, Entry
  <2>2. QED BY <1>8, <1>9, <1>11, <2>1 DEF Almlib!AtInactive
<1>15. UNCHANGED <<DueDate, Owner>>
  <2>1. \A u \in Thread : (pc'[u] = "activate" <=> pc[u] = "activate")
                          /\ (pc'[u] = "walk" <=> pc[u] = "walk")
    BY <1>2, <1>4
  <2>2. QED BY <1>1, <1>2, <2>1, DueDateSame, OwnerSame
<1>16. Isr' = Isr /\ ~Almlib!Running
  BY DEF Isr, Running, Almlib!Running
<1>17. Pc[t] = "purge" /\ Pc' = [Pc EXCEPT ![t] = "remove"]
  BY <1>1, <1>2, PcStep DEF AbstractPc
<1>18. Almlib!PurgeEnd(t)
  BY <1>2, <1>8, <1>12, <1>13, <1>14, <1>15, <1>16, <1>17
  DEF Almlib!PurgeEnd, Almlib!Goto, Almlib!timerVars, Almlib!alarmVars
<1>19. QED BY <1>18 DEF Follows, Almlib!Next, Almlib!ThreadStep, Almlib!StartStep

\* alm_cancel inside alm_start: AlmLib takes the alarm out as well.
LEMMA FollowsCancelIt ==
  ASSUME Mapped, Mapped', NEW t \in Thread, ~Running, isr' = isr, CancelIt(t)
  PROVE  Follows
<1>1. /\ TypeOK /\ Listed /\ Listed' /\ ListOK /\ ListOK' /\ pc[t] \in InLock
      /\ what[t] \in Alarm
  BY ListedFacts DEF Mapped, Listed, CancelIt, Goto, InLock, InStart
<1>2. /\ UNCHANGED <<time, hw, next_due, pending, isr, first_alm, next, enqueued, time_due, lock,
                     created, what, delay, tstart, cur, was>>
      /\ pc[t] = "cancel" /\ pc' = [pc EXCEPT ![t] = "remove"]
      /\ active' = [active EXCEPT ![what[t]] = FALSE]
  BY DEF CancelIt, Goto, timerVars, listVars, localVars
<1>3. \A u \in Thread : pc[u] \in InLock => u = t
  BY <1>1, Alone
<1>4. pc'[t] = "remove" /\ \A u \in Thread : u # t => pc'[u] = pc[u]
  BY <1>1, <1>2 DEF TypeOK
<1>5. \A u \in Thread : pc[u] # "remove" /\ pc[u] # "purge" /\ pc'[u] # "purge"
  BY <1>2, <1>3, <1>4 DEF InLock, InStart
<1>6. PICK a \in Alarm : a = what[t]
  BY <1>1
<1>7. Unlinking' = {a}
  BY <1>2, <1>4, <1>5, <1>6 DEF Unlinking
<1>8. PICK s \in Seq(Alarm) : s = List
  BY <1>1 DEF ListOK
<1>9. List' = s /\ IsInjective(s)
  BY <1>1, <1>2, <1>8, ListStays DEF ListOK
<1>10. Queue = s /\ Enqueued = enqueued
  BY <1>1, <1>5, <1>8, QueueIsList
<1>11. enqueued[a] <=> a \in ToSet(s)
  BY <1>1, <1>5, <1>8, NoPurge
<1>12. ASSUME a \in ToSet(s)
       PROVE  Almlib!RemoveAlarm(a)
  <2>1. PICK k \in DOMAIN s : s[k] = a
    BY <1>12 DEF ToSet
  <2>2. Queue' = RemoveAt(s, k)
    <3>1. s[k] \in Unlinking'
      BY <1>7, <2>1
    <3>2. \E i \in DOMAIN s : Unlinking' = {s[i]} /\ Queue' = RemoveAt(s, i)
      BY <1>1, <1>9, <3>1, QueueShapeNext
    <3>3. QED BY <1>7, <1>9, <2>1, <3>2 DEF IsInjective
  <2>3. Enqueued' = [Enqueued EXCEPT ![a] = FALSE]
    <3> DEFINE new == [enqueued EXCEPT ![a] = FALSE]
    <3>1. \A b \in Alarm : Enqueued'[b] = new[b]
      BY <1>1, <1>2, <1>7 DEF Enqueued, TypeOK
    <3>2. Enqueued' = [b \in Alarm |-> Enqueued'[b]] /\ new = [b \in Alarm |-> new[b]]
      BY <1>1 DEF Enqueued, TypeOK
    <3> HIDE DEF new
    <3>3. Enqueued' = new
      BY <3>1, <3>2
    <3>4. QED BY <1>10, <3>3 DEF new
  <2>4. enqueued[a] /\ s # <<>>
    BY <1>11, <1>12, <2>1
  <2>5. QED BY <1>10, <2>1, <2>2, <2>3, <2>4, SameOperators DEF Almlib!RemoveAlarm
<1>13. ASSUME a \notin ToSet(s)
       PROVE  Almlib!RemoveAlarm(a)
  <2>1. Queue' = s
    <3>1. \A i \in DOMAIN s : s[i] # a
      BY <1>13 DEF ToSet
    <3>3. \A i \in DOMAIN s : Unlinking' # {s[i]}
      BY <1>7, <3>1
    <3>4. QED BY <1>1, <1>9, <3>3, QueueShapeNext
  <2>2. Enqueued' = enqueued
    <3>1. \A b \in Alarm : Enqueued'[b] = enqueued[b]
      BY <1>1, <1>2, <1>7, <1>11, <1>13 DEF Enqueued, TypeOK
    <3>2. Enqueued' = [b \in Alarm |-> Enqueued'[b]] /\ enqueued = [b \in Alarm |-> enqueued[b]]
      BY <1>1 DEF Enqueued, TypeOK
    <3>3. QED BY <3>1, <3>2
  <2>3. QED BY <1>10, <1>11, <1>13, <2>1, <2>2 DEF Almlib!RemoveAlarm
<1>14. Marked' = Marked
  BY <1>5, NothingMarked, NothingMarkedNext
<1>15. UNCHANGED <<DueDate, Owner>>
  <2>1. \A u \in Thread : (pc'[u] = "activate" <=> pc[u] = "activate")
                          /\ (pc'[u] = "walk" <=> pc[u] = "walk")
    BY <1>2, <1>4
  <2>2. QED BY <1>1, <1>2, <2>1, DueDateSame, OwnerSame
<1>16. Isr' = Isr /\ ~Almlib!Running
  BY DEF Isr, Running, Almlib!Running
<1>17. Pc[t] = "remove"
       /\ Pc' = [Pc EXCEPT ![t] = IF delay[t] < MAX_DELAY THEN "activate" ELSE "unlock"]
  BY <1>1, <1>2, PcStep DEF AbstractPc
<1>18. Almlib!RemoveAlarm(what[t])
  BY <1>6, <1>12, <1>13
<1>19. Almlib!Remove_(t)
  BY <1>2, <1>14, <1>15, <1>16, <1>17, <1>18
  DEF Almlib!Remove_, Almlib!Goto, Almlib!timerVars, Almlib!localVars
<1>20. QED BY <1>19 DEF Follows, Almlib!Next, Almlib!ThreadStep, Almlib!StartStep

\* alm_remove inside alm_start: AlmLib has done that already.
LEMMA FollowsRemove ==
  ASSUME Mapped, Mapped', NEW t \in Thread, ~Running, isr' = isr, Remove_(t)
  PROVE  Follows
<1>1. /\ TypeOK /\ Listed /\ Listed' /\ ListOK /\ ListOK' /\ pc[t] \in InLock
      /\ what[t] \in Alarm
  BY ListedFacts DEF Mapped, Listed, Remove_, Goto, InLock, InStart
<1>2. /\ UNCHANGED <<time, hw, next_due, pending, isr, time_due, lock, active,
                     created, what, delay, tstart, cur, was>>
      /\ pc[t] = "remove"
      /\ pc' = [pc EXCEPT ![t] = IF delay[t] < MAX_DELAY THEN "due" ELSE "unlock"]
  BY DEF Remove_, Goto, timerVars, localVars
<1>3. \A u \in Thread : pc[u] \in InLock => u = t
  BY <1>1, Alone
<1>4. pc'[t] \in {"due", "unlock"} /\ \A u \in Thread : u # t => pc'[u] = pc[u]
  BY <1>1, <1>2 DEF TypeOK
<1>5. \A u \in Thread : pc'[u] # "remove" /\ pc[u] # "purge" /\ pc'[u] # "purge"
  BY <1>2, <1>3, <1>4 DEF InLock, InStart
<1>6. PICK a \in Alarm : a = what[t]
  BY <1>1
<1>7. RemoveAlarm(a)
  BY <1>6 DEF Remove_
<1>8. Unlinking = {a}
  BY <1>1, <1>2, <1>3, <1>6 DEF Unlinking, InLock, InStart
<1>9. PICK s \in Seq(Alarm) : s = List
  BY <1>1 DEF ListOK
<1>10. enqueued[a] <=> a \in ToSet(s)
  BY <1>1, <1>5, <1>9, NoPurge
<1>11. /\ IF a \in ToSet(s)
          THEN \E i \in DOMAIN s : s[i] = a /\ List' = RemoveAt(s, i)
          ELSE List' = s
       /\ enqueued' = [enqueued EXCEPT ![a] = FALSE]
  BY <1>1, <1>7, <1>9, <1>10, UnlinkedList DEF TypeOK
<1>12. Queue' = List' /\ Enqueued' = enqueued'
  BY <1>1, <1>5, QueueIsListNext
<1>13. Queue = List'
  <2>1. \/ Queue = s /\ \A i \in DOMAIN s : s[i] # a
        \/ \E k \in DOMAIN s : s[k] = a /\ Queue = RemoveAt(s, k)
    BY <1>1, <1>8, <1>9, QueueShape
  <2>2. CASE Queue = s /\ \A i \in DOMAIN s : s[i] # a
    BY <1>11, <2>2 DEF ToSet
  <2>3. ASSUME NEW k \in DOMAIN s, s[k] = a, Queue = RemoveAt(s, k)
        PROVE  Queue = List'
    <3>1. a \in ToSet(s) /\ \A i \in DOMAIN s : s[i] = a => i = k
      BY <1>1, <1>9, <2>3 DEF ToSet, ListOK, IsInjective
    <3>2. QED BY <1>11, <2>3, <3>1
  <2>4. QED BY <2>1, <2>2, <2>3
<1>14. Enqueued = enqueued'
  <2> DEFINE new == [enqueued EXCEPT ![a] = FALSE]
  <2>1. \A b \in Alarm : Enqueued[b] = new[b]
    BY <1>1, <1>8 DEF Enqueued, TypeOK
  <2>2. Enqueued = [b \in Alarm |-> Enqueued[b]] /\ new = [b \in Alarm |-> new[b]]
    BY <1>1 DEF Enqueued, TypeOK
  <2> HIDE DEF new
  <2>3. Enqueued = new
    BY <2>1, <2>2
  <2>4. QED BY <1>11, <2>3 DEF new
<1>15. Marked' = Marked
  BY <1>5, NothingMarked, NothingMarkedNext
<1>16. UNCHANGED <<DueDate, Owner>>
  <2>1. \A u \in Thread : (pc'[u] = "activate" <=> pc[u] = "activate")
                          /\ (pc'[u] = "walk" <=> pc[u] = "walk")
    BY <1>2, <1>4
  <2>2. QED BY <1>1, <1>2, <2>1, DueDateSame, OwnerSame
<1>17. Isr' = Isr
  BY DEF Isr, Running
<1>18. Pc' = Pc
  BY <1>1, <1>2, PcStep DEF AbstractPc
<1>19. QED
  BY <1>2, <1>12, <1>13, <1>14, <1>15, <1>16, <1>17, <1>18, StuttersIf DEF Follows

\* alm_remove inside alm_destroy.
LEMMA FollowsDestroyRemove ==
  ASSUME Mapped, Mapped', NEW t \in Thread, ~Running, isr' = isr, DestroyRemove(t)
  PROVE  Follows
<1>1. /\ TypeOK /\ Listed /\ Listed' /\ ListOK /\ ListOK' /\ what[t] \in Alarm
  BY ListedFacts DEF Mapped, Listed, DestroyRemove, Goto, InDestroy
<1>2. /\ UNCHANGED <<time, hw, next_due, pending, isr, time_due, lock, active,
                     created, what, delay, tstart, cur, was>>
      /\ pc[t] = "extract" /\ pc' = [pc EXCEPT ![t] = "free"] /\ lock = NULL
  BY DEF DestroyRemove, Goto, timerVars, localVars
<1>3. Owner = NULL /\ \A u \in Thread : pc[u] \notin InLock
  BY <1>1, <1>2, OwnerFree
<1>4. pc'[t] = "free" /\ \A u \in Thread : u # t => pc'[u] = pc[u]
  BY <1>1, <1>2 DEF TypeOK
<1>5. \A u \in Thread : /\ pc[u] # "remove" /\ pc[u] # "purge"
                        /\ pc'[u] # "remove" /\ pc'[u] # "purge"
  BY <1>3, <1>4 DEF InLock, InStart
<1>6. PICK a \in Alarm : a = what[t]
  BY <1>1
<1>7. RemoveAlarm(a)
  BY <1>6 DEF DestroyRemove
<1>8. PICK s \in Seq(Alarm) : s = List
  BY <1>1 DEF ListOK
<1>9. enqueued[a] <=> a \in ToSet(s)
  BY <1>1, <1>5, <1>8, NoPurge
<1>10. /\ IF a \in ToSet(s)
          THEN \E i \in DOMAIN s : s[i] = a /\ List' = RemoveAt(s, i)
          ELSE List' = s
       /\ enqueued' = [enqueued EXCEPT ![a] = FALSE]
  BY <1>1, <1>7, <1>8, <1>9, UnlinkedList DEF TypeOK
<1>11. Queue = s /\ Enqueued = enqueued /\ Queue' = List' /\ Enqueued' = enqueued'
  BY <1>1, <1>5, <1>8, QueueIsList, QueueIsListNext
<1>12. Almlib!RemoveAlarm(what[t])
  <2>1. CASE a \in ToSet(s)
    <3>1. s # <<>>
      BY <2>1 DEF ToSet
    <3>2. QED BY <1>6, <1>9, <1>10, <1>11, <2>1, <3>1, SameOperators DEF Almlib!RemoveAlarm
  <2>2. CASE a \notin ToSet(s)
    <3>1. UNCHANGED enqueued
      BY <1>1, <1>9, <1>10, <2>2 DEF TypeOK
    <3>2. QED BY <1>6, <1>9, <1>10, <1>11, <2>2, <3>1 DEF Almlib!RemoveAlarm
  <2>3. QED BY <2>1, <2>2
<1>13. Marked' = Marked
  BY <1>5, NothingMarked, NothingMarkedNext
<1>14. UNCHANGED <<DueDate, Owner>>
  <2>1. \A u \in Thread : (pc'[u] = "activate" <=> pc[u] = "activate")
                          /\ (pc'[u] = "walk" <=> pc[u] = "walk")
    BY <1>2, <1>4
  <2>2. QED BY <1>1, <1>2, <2>1, DueDateSame, OwnerSame
<1>15. Isr' = Isr /\ ~Almlib!Running
  BY DEF Isr, Running, Almlib!Running
<1>16. Pc[t] = "extract" /\ Pc' = [Pc EXCEPT ![t] = "free"]
  BY <1>1, <1>2, PcStep DEF AbstractPc
<1>17. Almlib!DestroyRemove(t)
  BY <1>2, <1>3, <1>12, <1>13, <1>14, <1>15, <1>16
  DEF Almlib!DestroyRemove, Almlib!Goto, Almlib!timerVars, Almlib!localVars
<1>18. QED BY <1>17 DEF Follows, Almlib!Next, Almlib!ThreadStep, Almlib!DestroyStep

\* AlmLib does not know the new due date before the flag is set with it.
LEMMA FollowsSetDue ==
  ASSUME Mapped, Mapped', NEW t \in Thread, ~Running, isr' = isr, SetDue(t)
  PROVE  Follows
<1>1. /\ TypeOK /\ Listed /\ Listed' /\ pc[t] \in InLock /\ what[t] \in Alarm
  BY ListedFacts DEF Mapped, SetDue, Goto, InLock, InStart
<1>2. /\ UNCHANGED <<time, hw, next_due, pending, isr, first_alm, next, enqueued, lock, active,
                     created, what, delay, tstart, cur>>
      /\ pc[t] = "due" /\ pc' = [pc EXCEPT ![t] = "activate"]
      /\ time_due' = [time_due EXCEPT ![what[t]] = tstart[t] + delay[t]]
      /\ was' = [was EXCEPT ![t] = time_due[what[t]]]
  BY DEF SetDue, Goto, timerVars, listVars
<1>3. pc'[t] = "activate" /\ \A u \in Thread : u # t => pc'[u] = pc[u]
  BY <1>1, <1>2 DEF TypeOK
<1>4. \A u \in Thread : pc[u] # "activate" /\ pc[u] # "remove" /\ (pc'[u] = "activate" => u = t)
  BY <1>1, <1>2, <1>3, Alone DEF InLock, InStart
<1>5. /\ List' = List /\ Unlinking' = Unlinking /\ Queue' = Queue /\ Isr' = Isr
  BY <1>1, <1>2, <1>3, ThreadFrame
<1>6. DueDate' = DueDate
  <2>1. PICK a \in Alarm : a = what[t]
    BY <1>1
  <2>2. ASSUME NEW b \in Alarm
        PROVE  DueDate'[b] = DueDate[b]
    <3>1. DueDate[b] = time_due[b]
      BY <1>1, <1>4, DueDateIs
    <3>2. CASE b = a
      <4>1. DueDate'[what'[t]] = was'[t]
        BY <1>1, <1>3, DueDateIsNext
      <4>2. was'[t] = time_due[a] /\ what'[t] = a
        BY <1>1, <1>2, <2>1 DEF TypeOK
      <4>3. QED BY <3>1, <3>2, <4>1, <4>2
    <3>3. CASE b # a
      <4>1. \A u \in Thread : pc'[u] = "activate" => what'[u] # b
        BY <1>2, <1>4, <2>1, <3>3
      <4>2. DueDate'[b] = time_due'[b]
        BY <1>1, <4>1, DueDateIsNext
      <4>3. time_due'[b] = time_due[b]
        BY <1>1, <1>2, <2>1, <3>3 DEF TypeOK
      <4>4. QED BY <3>1, <4>2, <4>3
    <3>4. QED BY <3>2, <3>3
  <2>3. DueDate = [b \in Alarm |-> DueDate[b]] /\ DueDate' = [b \in Alarm |-> DueDate'[b]]
    BY DEF DueDate
  <2>4. QED BY <2>2, <2>3
<1>7. UNCHANGED <<Marked, Owner, Enqueued, Pc>>
  <2>1. Marked' = Marked
    BY <1>2, <1>3, <1>5, MarkedSame
  <2>2. Owner' = Owner
    BY <1>2, <1>3, OwnerSame
  <2>3. Enqueued' = Enqueued
    BY <1>2, <1>5 DEF Enqueued
  <2>4. Pc' = Pc
    BY <1>1, <1>2, PcStep DEF AbstractPc
  <2>5. QED BY <2>1, <2>2, <2>3, <2>4
<1>8. QED BY <1>2, <1>5, <1>6, <1>7, StuttersIf DEF Follows

\* Setting the flag makes the new due date known.
LEMMA FollowsActivate ==
  ASSUME Mapped, Mapped', NEW t \in Thread, ~Running, isr' = isr, Activate(t)
  PROVE  Follows
<1>1. /\ TypeOK /\ Listed /\ Listed' /\ pc[t] \in InLock /\ what[t] \in Alarm
  BY ListedFacts DEF Mapped, Activate, Goto, InLock, InStart
<1>2. /\ UNCHANGED <<time, hw, next_due, pending, isr, first_alm, next, enqueued, lock, time_due,
                     created, what, delay, tstart, cur>>
      /\ pc[t] = "activate" /\ pc' = [pc EXCEPT ![t] = "insert"]
      /\ active' = [active EXCEPT ![what[t]] = TRUE]
  BY DEF Activate, Goto, timerVars, listVars
<1>3. pc'[t] = "insert" /\ \A u \in Thread : u # t => pc'[u] = pc[u]
  BY <1>1, <1>2 DEF TypeOK
<1>4. \A u \in Thread : pc'[u] # "activate" /\ pc[u] # "remove" /\ (pc[u] = "activate" => u = t)
  BY <1>1, <1>2, <1>3, Alone DEF InLock, InStart
<1>5. /\ List' = List /\ Unlinking' = Unlinking /\ Queue' = Queue /\ Isr' = Isr
      /\ ~Almlib!Running
  BY <1>1, <1>2, <1>3, ThreadFrame
<1>6. PICK a, d : a \in Alarm /\ a = what[t] /\ d = tstart[t] + delay[t]
  BY <1>1
<1>7. DueDate' = [DueDate EXCEPT ![a] = d]
  <2> DEFINE new == [DueDate EXCEPT ![a] = d]
  <2>1. time_due[a] = d
    BY <1>2, <1>6 DEF Mapped, Dates
  <2>2. ASSUME NEW b \in Alarm
        PROVE  DueDate'[b] = new[b]
    <3>1. DueDate'[b] = time_due[b]
      BY <1>1, <1>2, <1>4, DueDateIsNext
    <3>2. b # a => DueDate[b] = time_due[b]
      BY <1>1, <1>4, <1>6, DueDateIs
    <3>3. new[b] = IF b = a THEN d ELSE DueDate[b]
      BY DEF DueDate
    <3>4. QED BY <2>1, <3>1, <3>2, <3>3
  <2>3. new = [b \in Alarm |-> new[b]] /\ DueDate' = [b \in Alarm |-> DueDate'[b]]
    <3>1. DueDate = [b \in Alarm |-> DueDate[b]] /\ DueDate' = [b \in Alarm |-> DueDate'[b]]
      BY DEF DueDate
    <3>2. QED BY <3>1
  <2> HIDE DEF new
  <2>4. DueDate' = new
    BY <2>2, <2>3
  <2>5. QED BY <2>4 DEF new
<1>8. UNCHANGED <<Marked, Owner, Enqueued>>
  <2>1. Marked' = Marked
    BY <1>2, <1>3, <1>5, MarkedSame
  <2>2. Owner' = Owner
    BY <1>2, <1>3, OwnerSame
  <2>3. Enqueued' = Enqueued
    BY <1>2, <1>5 DEF Enqueued
  <2>4. QED BY <2>1, <2>2, <2>3
<1>9. Pc[t] = "activate" /\ Pc' = [Pc EXCEPT ![t] = "insert"]
  BY <1>1, <1>2, PcStep DEF AbstractPc
<1>10. Almlib!Activate(t)
  BY <1>2, <1>5, <1>6, <1>7, <1>8, <1>9
  DEF Almlib!Activate, Almlib!Goto, Almlib!timerVars, Almlib!localVars
<1>11. QED BY <1>10 DEF Follows, Almlib!Next, Almlib!ThreadStep, Almlib!StartStep

\* The alarm is not linked yet when its own pointer is set.
LEMMA FollowsInsert ==
  ASSUME Mapped, Mapped', NEW t \in Thread, ~Running, isr' = isr, Insert(t)
  PROVE  Follows
<1>1. /\ TypeOK /\ Listed /\ Listed' /\ ListOK
      /\ ToSet(List) \subseteq Alarm /\ PlaceOf(List, t)
  BY ListedFacts DEF Mapped
<1>2. /\ UNCHANGED <<time, hw, next_due, pending, isr, first_alm, enqueued, lock, time_due, active,
                     created, what, delay, tstart, cur, was>>
      /\ pc[t] = "insert" /\ pc' = [pc EXCEPT ![t] = "link"]
      /\ next' = [next EXCEPT ![what[t]] = Behind(what[t])]
  BY DEF Insert, Goto, timerVars, localVars
<1>3. pc'[t] = "link" /\ \A u \in Thread : u # t => pc'[u] = pc[u]
  BY <1>1, <1>2 DEF TypeOK
<1>4. \A b \in ToSet(List) : next'[b] = next[b]
  <2>1. what[t] \notin ToSet(List)
    BY <1>1, <1>2 DEF PlaceOf
  <2>2. QED BY <1>1, <1>2, <2>1 DEF TypeOK
<1>5. /\ List' = List /\ Unlinking' = Unlinking /\ Queue' = Queue /\ Isr' = Isr
  BY <1>1, <1>2, <1>3, <1>4, ThreadFrame
<1>6. UNCHANGED <<DueDate, Marked, Owner, Enqueued, Pc>>
  <2>1. Marked' = Marked
    BY <1>2, <1>3, <1>5, MarkedSame
  <2>2. Owner' = Owner
    BY <1>2, <1>3, OwnerSame
  <2>3. Enqueued' = Enqueued
    BY <1>2, <1>5 DEF Enqueued
  <2>4. Pc' = Pc
    BY <1>1, <1>2, PcStep DEF AbstractPc
  <2>5. DueDate' = DueDate
    BY <1>1, <1>2, <1>3, DueDateSame
  <2>6. QED BY <2>1, <2>2, <2>3, <2>4, <2>5
<1>7. QED BY <1>2, <1>5, <1>6, StuttersIf DEF Follows

\* The pointer that makes the alarm reachable puts it into the queue.
LEMMA FollowsLink ==
  ASSUME Mapped, Mapped', NEW t \in Thread, ~Running, isr' = isr, Link(t)
  PROVE  Follows
<1>1. /\ TypeOK /\ Listed /\ Listed' /\ ListOK /\ pc[t] \in InLock /\ what[t] \in Alarm
      /\ PlaceOf(List, t)
  BY ListedFacts DEF Mapped, Link, Goto, InLock, InStart
<1>2. /\ UNCHANGED <<time, hw, next_due, pending, isr, lock, time_due, active,
                     created, what, delay, tstart, cur, was>>
      /\ pc[t] = "link" /\ pc' = [pc EXCEPT ![t] = "check"]
      /\ enqueued' = [enqueued EXCEPT ![what[t]] = TRUE]
  BY DEF Link, Goto, timerVars, localVars
<1>3. pc'[t] = "check" /\ \A u \in Thread : u # t => pc'[u] = pc[u]
  BY <1>1, <1>2 DEF TypeOK
<1>4. \A u \in Thread : pc[u] \in InLock => u = t
  BY <1>1, Alone
<1>5. \A u \in Thread : /\ pc[u] # "remove" /\ pc'[u] # "remove"
                        /\ pc[u] # "purge" /\ pc'[u] # "purge" /\ pc[u] # "activate"
  BY <1>2, <1>3, <1>4 DEF InLock, InStart
<1>6. PICK a \in Alarm : a = what[t]
  BY <1>1
<1>7. PICK p \in 1..(Len(List) + 1) : InsertsAt(a, p) /\ List' = InsertAt(List, p, a)
  <2>1. /\ a \notin ToSet(List) /\ next[a] = Behind(a)
        /\ IF Position(a) = 0
           THEN first_alm' = a /\ UNCHANGED next
           ELSE next' = [next EXCEPT ![List[Position(a)]] = a] /\ UNCHANGED first_alm
    BY <1>1, <1>2, <1>6 DEF Link, PlaceOf
  <2>2. QED BY <1>1, <2>1, LinkedList DEF TypeOK
<1>8. /\ Queue = List /\ Enqueued = enqueued /\ Queue' = List' /\ Enqueued' = enqueued'
  BY <1>1, <1>5, QueueIsList, QueueIsListNext
<1>9. UNCHANGED <<DueDate, Marked, Owner>>
  <2>1. Marked' = Marked
    BY <1>5, NothingMarked, NothingMarkedNext
  <2>2. Owner' = Owner
    BY <1>2, <1>3, OwnerSame
  <2>3. DueDate' = DueDate
    BY <1>1, <1>2, <1>3, DueDateSame
  <2>4. QED BY <2>1, <2>2, <2>3
<1>10. \A b \in Alarm : DueDate[b] = time_due[b]
  BY <1>1, <1>5, DueDateIs
<1>11. \E k \in 0..Len(Queue) :
         Almlib!InsertionPoint(a, k) /\ Queue' = Almlib!InsertAt(Queue, k + 1, a)
  <2>1. /\ Len(List) \in Nat /\ DOMAIN List = 1..Len(List) /\ p \in Nat
        /\ \A i \in DOMAIN List : List[i] \in Alarm
    BY <1>1, ListDomain
  <2>2. PICK k \in 0..Len(List) : k = p - 1 /\ k + 1 = p
    BY <2>1
  <2>3. PICK s : s = List
    OBVIOUS
  <2>4. Queue = s /\ Queue' = Almlib!InsertAt(s, k + 1, a)
    BY <1>7, <1>8, <2>2, <2>3, SameOperators
  <2>5. /\ \A i \in 1..k : time_due[s[i]] <= time_due[a]
        /\ k < Len(s) => time_due[s[k + 1]] > time_due[a]
    BY <1>7, <2>1, <2>2, <2>3 DEF InsertsAt
  <2>6. Almlib!InsertionPoint(a, k)
    BY <1>10, <2>1, <2>2, <2>3, <2>4, <2>5 DEF Almlib!InsertionPoint
  <2>7. QED BY <2>2, <2>3, <2>4, <2>6
<1>12. Isr' = Isr /\ ~Almlib!Running
  BY DEF Isr, Running, Almlib!Running
<1>13. Pc[t] = "insert" /\ Pc' = [Pc EXCEPT ![t] = "check"]
  BY <1>1, <1>2, PcStep DEF AbstractPc
<1>14. Almlib!Insert(t)
  BY <1>2, <1>6, <1>8, <1>9, <1>11, <1>12, <1>13
  DEF Almlib!Insert, Almlib!Goto, Almlib!timerVars, Almlib!localVars
<1>15. QED BY <1>14 DEF Follows, Almlib!Next, Almlib!ThreadStep, Almlib!StartStep

-----------------------------------------------------------------------------
(* The calls, alm_destroy and alm_dump_queue.                               *)

\* alm_start returns.
LEMMA FollowsUnlock ==
  ASSUME Mapped, Mapped', NEW t \in Thread, ~Running, isr' = isr, Unlock(t)
  PROVE  Follows
<1>1. TypeOK /\ Listed /\ Listed' /\ pc[t] \in InLock
  BY ListedFacts DEF Mapped, Unlock, Goto, InLock, InStart
<1>2. /\ UNCHANGED <<time, hw, next_due, pending, isr, first_alm, next, enqueued, time_due, active,
                     created, cur, was>>
      /\ pc[t] = "unlock" /\ pc' = [pc EXCEPT ![t] = "idle"] /\ lock' = NULL
      /\ what' = [what EXCEPT ![t] = NULL] /\ delay' = [delay EXCEPT ![t] = 0]
      /\ tstart' = [tstart EXCEPT ![t] = 0]
  BY DEF Unlock, Goto, Return, timerVars, listVars
<1>3. pc'[t] = "idle" /\ \A u \in Thread : u # t => pc'[u] = pc[u] /\ what'[u] = what[u]
  BY <1>1, <1>2 DEF TypeOK
<1>4. \A u \in Thread : pc[u] \in InLock => u = t
  BY <1>1, Alone
<1>5. \A u \in Thread : /\ pc[u] # "remove" /\ pc'[u] # "remove"
                        /\ pc[u] # "purge" /\ pc'[u] # "purge"
                        /\ pc[u] # "activate" /\ pc'[u] # "activate"
  BY <1>2, <1>3, <1>4 DEF InLock, InStart
<1>6. /\ List' = List /\ Unlinking' = Unlinking /\ Queue' = Queue /\ Isr' = Isr
      /\ ~Almlib!Running
  BY <1>1, <1>2, <1>5, ThreadFrame
<1>7. /\ UNCHANGED <<DueDate, Enqueued>>
      /\ Marked = [u \in Thread |-> 0] /\ Marked' = [u \in Thread |-> 0]
  <2>1. DueDate' = DueDate
    BY <1>1, <1>2, <1>5, DueDateSame
  <2>2. Enqueued' = Enqueued
    BY <1>2, <1>6 DEF Enqueued
  <2>3. QED BY <1>5, <2>1, <2>2, NothingMarked, NothingMarkedNext
<1>8. Marked' = [Marked EXCEPT ![t] = 0]
  <2>1. [u \in Thread |-> 0] = [[u \in Thread |-> 0] EXCEPT ![t] = 0]
    OBVIOUS
  <2>2. QED BY <1>7, <2>1
<1>9. Owner' = NULL
  BY <1>2 DEF Owner
<1>10. Pc[t] = "unlock" /\ Pc' = [Pc EXCEPT ![t] = "idle"]
  <2>1. \A u \in Thread \ {t} : delay'[u] = delay[u]
    BY <1>1, <1>2 DEF TypeOK
  <2>2. QED BY <1>1, <1>2, <2>1, PcStep DEF AbstractPc
<1>11. Almlib!Unlock(t)
  BY <1>2, <1>6, <1>7, <1>8, <1>9, <1>10
  DEF Almlib!Unlock, Almlib!Return, Almlib!Goto, Almlib!timerVars, Almlib!alarmVars
<1>12. QED BY <1>11 DEF Follows, Almlib!Next, Almlib!ThreadStep, Almlib!StartStep

\* The calls that only read and write arguments, and the flag `active'.
LEMMA FollowsCall ==
  ASSUME Mapped, Mapped', NEW t \in Thread, ~Running, isr' = isr, NEW a \in Alarm,
         NEW d, (d \in Delay /\ Start(t, a, d)) \/ Cancel(t, a) \/ Destroy(t, a)
  PROVE  Follows
<1>1. TypeOK /\ Listed /\ Listed'
  BY ListedFacts DEF Mapped
<1>2. /\ UNCHANGED <<time, hw, next_due, pending, isr, first_alm, next, enqueued, time_due, lock,
                     created, cur, was>>
      /\ pc[t] = "idle"
  BY DEF Start, Cancel, Destroy, Goto, timerVars, listVars, localVars
<1>3. PICK to \in {"lock", "idle", "test"} : pc' = [pc EXCEPT ![t] = to]
  BY DEF Start, Cancel, Destroy, Goto
<1>4. pc'[t] = to /\ \A u \in Thread : u # t => pc'[u] = pc[u] /\ what'[u] = what[u]
                                              /\ delay'[u] = delay[u]
  BY <1>1, <1>3 DEF TypeOK, Start, Cancel, Destroy, localVars
<1>5. /\ List' = List /\ Unlinking' = Unlinking /\ Queue' = Queue /\ Isr' = Isr
      /\ ~Almlib!Running
  BY <1>1, <1>2, <1>4, ThreadFrame
<1>6. UNCHANGED <<DueDate, Marked, Owner, Enqueued>>
  <2>1. Marked' = Marked
    BY <1>2, <1>4, <1>5, MarkedSame
  <2>2. Owner' = Owner
    BY <1>2, <1>4, OwnerSame
  <2>3. Enqueued' = Enqueued
    BY <1>2, <1>5 DEF Enqueued
  <2>4. DueDate' = DueDate
    BY <1>1, <1>2, <1>4, DueDateSame
  <2>5. QED BY <2>1, <2>2, <2>3, <2>4
<1>7. Pc[t] = "idle" /\ Pc' = [Pc EXCEPT ![t] = to]
  <2>1. /\ AbstractPc(pc[t], delay[t]) = "idle"
        /\ AbstractPc(to, delay'[t]) = to
    BY <1>2, <1>3 DEF AbstractPc
  <2>2. /\ Pc[t] = AbstractPc(pc[t], delay[t])
        /\ Pc' = [Pc EXCEPT ![t] = AbstractPc(to, delay'[t])]
    BY <1>1, <1>3, <1>4, PcStep
  <2>3. QED BY <2>1, <2>2
<1>8. CASE d \in Delay /\ Start(t, a, d)
  <2>1. to = "lock"
    BY <1>1, <1>4, <1>8 DEF Start, Goto, TypeOK
  <2>2. Almlib!Start(t, a, d)
    BY <1>2, <1>5, <1>6, <1>7, <1>8, <2>1, UsableIs
    DEF Start, Almlib!Start, Almlib!Goto, Almlib!timerVars, Almlib!alarmVars
  <2>3. QED BY <1>8, <2>2 DEF Follows, Almlib!Next, Almlib!Call
<1>9. CASE Cancel(t, a)
  <2>1. to = "idle"
    BY <1>1, <1>4, <1>9 DEF Cancel, Goto, TypeOK
  <2>2. Almlib!Cancel(t, a)
    BY <1>2, <1>5, <1>6, <1>7, <1>9, <2>1, UsableIs
    DEF Cancel, localVars, Almlib!Cancel, Almlib!Goto, Almlib!timerVars, Almlib!localVars
  <2>3. QED BY <2>2 DEF Follows, Almlib!Next, Almlib!Call
<1>10. CASE Destroy(t, a)
  <2>1. to = "test"
    BY <1>1, <1>4, <1>10 DEF Destroy, Goto, TypeOK
  <2>2. Almlib!Destroy(t, a)
    BY <1>2, <1>5, <1>6, <1>7, <1>10, <2>1
    DEF Destroy, Almlib!Destroy, Almlib!Goto, Almlib!timerVars
  <2>3. QED BY <2>2 DEF Follows, Almlib!Next, Almlib!Call
<1>11. QED BY <1>8, <1>9, <1>10

\* A new alarm: nobody knows it yet.
LEMMA FollowsCreate ==
  ASSUME Mapped, Mapped', NEW t \in Thread, ~Running, isr' = isr, NEW a \in Alarm,
         Create(t, a)
  PROVE  Follows
<1>1. /\ TypeOK /\ Listed /\ Listed' /\ Handles /\ ToSet(List) \subseteq created
      /\ \A u \in Thread : pc[u] \in InStart \cup InDestroy => what[u] \in Alarm
  BY ListedFacts DEF Mapped
<1>2. /\ UNCHANGED <<time, hw, next_due, pending, isr, first_alm, lock,
                     what, delay, tstart, cur, was>>
      /\ pc[t] = "idle" /\ pc' = [pc EXCEPT ![t] = "idle"] /\ pc' = pc
      /\ a \notin created /\ created' = created \cup {a}
      /\ time_due' = [time_due EXCEPT ![a] = 0]
      /\ active' = [active EXCEPT ![a] = FALSE]
      /\ enqueued' = [enqueued EXCEPT ![a] = FALSE]
      /\ next' = [next EXCEPT ![a] = NULL]
  BY <1>1 DEF Create, Goto, timerVars, localVars, TypeOK
<1>3. a \notin ToSet(List) /\ \A u \in Thread : what[u] # a
  BY <1>1, <1>2, PtrAssumption DEF Handles
<1>4. \A b \in ToSet(List) : next'[b] = next[b]
  BY <1>1, <1>2, <1>3 DEF TypeOK
<1>5. /\ List' = List /\ Unlinking' = Unlinking /\ Queue' = Queue /\ Isr' = Isr
      /\ ~Almlib!Running
  BY <1>1, <1>2, <1>4, ThreadFrame
<1>6. DueDate' = [DueDate EXCEPT ![a] = 0]
  <2> DEFINE new == [DueDate EXCEPT ![a] = 0]
  <2>1. DueDate = [b \in Alarm |-> DueDate[b]] /\ DueDate' = [b \in Alarm |-> DueDate'[b]]
    BY DEF DueDate
  <2>2. \A b \in Alarm : new[b] = IF b = a THEN 0 ELSE DueDate[b]
    BY <2>1
  <2>3. new = [b \in Alarm |-> new[b]]
    BY <2>1
  <2> HIDE DEF new
  <2>4. ASSUME NEW b \in Alarm
        PROVE  DueDate'[b] = new[b]
    <3>1. CASE \E u \in Thread : pc[u] = "activate" /\ what[u] = b
      <4>1. PICK u \in Thread : pc[u] = "activate" /\ what[u] = b
        BY <3>1
      <4>2. DueDate[b] = was[u]
        BY <1>1, <4>1, DueDateIs
      <4>3. DueDate[what[u]]' = was'[u]
        BY <1>1, <1>2, <4>1, DueDateIsNext
      <4>4. what'[u] = b /\ b # a
        BY <1>2, <1>3, <4>1
      <4>5. QED BY <1>2, <2>2, <4>2, <4>3, <4>4
    <3>2. CASE \A u \in Thread : pc[u] = "activate" => what[u] # b
      <4>1. DueDate[b] = time_due[b] /\ DueDate'[b] = time_due'[b]
        BY <1>1, <1>2, <3>2, DueDateIs, DueDateIsNext
      <4>2. QED BY <1>1, <1>2, <2>2, <4>1 DEF TypeOK
    <3>3. QED BY <3>1, <3>2
  <2>5. DueDate' = new
    BY <2>1, <2>3, <2>4
  <2>6. QED BY <2>5 DEF new
<1>7. Enqueued' = [Enqueued EXCEPT ![a] = FALSE]
  <2> DEFINE new == [Enqueued EXCEPT ![a] = FALSE]
  <2>1. Enqueued = [b \in Alarm |-> Enqueued[b]] /\ Enqueued' = [b \in Alarm |-> Enqueued'[b]]
    BY DEF Enqueued
  <2>2. new = [b \in Alarm |-> new[b]]
    BY <2>1
  <2>3. \A b \in Alarm : Enqueued'[b] = new[b]
    BY <1>1, <1>2, <1>5 DEF Enqueued, TypeOK
  <2> HIDE DEF new
  <2>4. Enqueued' = new
    BY <2>1, <2>2, <2>3
  <2>5. QED BY <2>4 DEF new
<1>8. UNCHANGED <<Marked, Owner>>
  <2>1. Marked' = Marked
    BY <1>2, <1>5, MarkedSame
  <2>2. QED BY <1>2, <2>1, OwnerSame
<1>9. Pc[t] = "idle" /\ Pc' = [Pc EXCEPT ![t] = "idle"]
  BY <1>1, <1>2, PcStep DEF AbstractPc
<1>10. Almlib!Create(t, a)
  BY <1>2, <1>5, <1>6, <1>7, <1>8, <1>9
  DEF Almlib!Create, Almlib!Goto, Almlib!timerVars, Almlib!localVars
<1>11. QED BY <1>10 DEF Follows, Almlib!Next, Almlib!Call

\* alm_destroy tests the flag of an alarm that nobody else works on.
LEMMA FollowsDestroyTest ==
  ASSUME Mapped, Mapped', NEW t \in Thread, ~Running, isr' = isr, DestroyTest(t)
  PROVE  Follows
<1>1. /\ TypeOK /\ Listed /\ Listed' /\ Handles
      /\ \A u \in Thread : pc[u] \in InStart \cup InDestroy => what[u] \in Alarm
  BY ListedFacts DEF Mapped
<1>2. /\ UNCHANGED <<time, hw, next_due, pending, isr, first_alm, next, enqueued, time_due, active,
                     lock, created, what, delay, tstart, cur, was>>
      /\ pc[t] = "test"
      /\ enqueued[what[t]] \/ lock = NULL \/ DestroyRaces
  BY DEF DestroyTest, Goto, timerVars, listVars, localVars
<1>3. PICK to \in {"extract", "free"} :
        to = (IF enqueued[what[t]] THEN "extract" ELSE "free") /\ pc' = [pc EXCEPT ![t] = to]
  BY DEF DestroyTest, Goto
<1>4. pc'[t] = to /\ \A u \in Thread : u # t => pc'[u] = pc[u]
  BY <1>1, <1>3 DEF TypeOK
<1>5. /\ List' = List /\ Unlinking' = Unlinking /\ Queue' = Queue /\ Isr' = Isr
      /\ ~Almlib!Running
  BY <1>1, <1>2, <1>4, ThreadFrame
<1>6. UNCHANGED <<DueDate, Marked, Owner, Enqueued>>
  <2>1. Marked' = Marked
    BY <1>2, <1>4, <1>5, MarkedSame
  <2>2. Owner' = Owner
    BY <1>2, <1>4, OwnerSame
  <2>3. Enqueued' = Enqueued
    BY <1>2, <1>5 DEF Enqueued
  <2>4. DueDate' = DueDate
    BY <1>1, <1>2, <1>4, DueDateSame
  <2>5. QED BY <2>1, <2>2, <2>3, <2>4
<1>7. Pc[t] = "test" /\ Pc' = [Pc EXCEPT ![t] = to]
  BY <1>1, <1>2, <1>3, PcStep DEF AbstractPc
<1>8. Enqueued[what[t]] = enqueued[what[t]]
  <2>1. what[t] \in Alarm /\ \A u \in Thread : pc[u] = "remove" => what[u] # what[t]
    BY <1>1, <1>2 DEF Handles, InDestroy
  <2>2. what[t] \notin Unlinking
    BY <2>1 DEF Unlinking
  <2>3. QED BY <1>1, <2>1, <2>2 DEF Enqueued, TypeOK
<1>9. lock = NULL => Owner = NULL
  BY DEF Owner
<1>10. Almlib!DestroyTest(t)
  BY <1>2, <1>3, <1>5, <1>6, <1>7, <1>8, <1>9
  DEF Almlib!DestroyTest, Almlib!Goto, Almlib!timerVars, Almlib!alarmVars, Almlib!localVars
<1>11. QED BY <1>10 DEF Follows, Almlib!Next, Almlib!ThreadStep, Almlib!DestroyStep

\* alm_destroy frees the alarm, which nobody else works on.
LEMMA FollowsFree ==
  ASSUME Mapped, Mapped', NEW t \in Thread, ~Running, isr' = isr, Free(t)
  PROVE  Follows
<1>1. /\ TypeOK /\ Listed /\ Listed' /\ Handles /\ what[t] \in Alarm
  BY ListedFacts DEF Mapped, Free, Goto, InDestroy
<1>2. /\ UNCHANGED <<time, hw, next_due, pending, isr, first_alm, next, enqueued, active,
                     lock, cur, was>>
      /\ pc[t] = "free" /\ pc' = [pc EXCEPT ![t] = "idle"]
      /\ created' = created \ {what[t]}
      /\ time_due' = [time_due EXCEPT ![what[t]] = 0]
      /\ what' = [what EXCEPT ![t] = NULL] /\ delay' = [delay EXCEPT ![t] = 0]
      /\ tstart' = [tstart EXCEPT ![t] = 0]
  BY DEF Free, Goto, Return, timerVars, listVars
<1>3. pc'[t] = "idle" /\ \A u \in Thread : u # t => pc'[u] = pc[u] /\ what'[u] = what[u]
  BY <1>1, <1>2 DEF TypeOK
<1>4. /\ List' = List /\ Unlinking' = Unlinking /\ Queue' = Queue /\ Isr' = Isr
      /\ ~Almlib!Running
  BY <1>1, <1>2, <1>3, ThreadFrame
<1>5. PICK a \in Alarm : a = what[t]
  BY <1>1
<1>6. \A u \in Thread : u # t => what[u] # a
  BY <1>1, <1>2, <1>5 DEF Handles, InDestroy
<1>7. DueDate' = [DueDate EXCEPT ![a] = 0]
  <2> DEFINE new == [DueDate EXCEPT ![a] = 0]
  <2>1. DueDate = [b \in Alarm |-> DueDate[b]] /\ DueDate' = [b \in Alarm |-> DueDate'[b]]
    BY DEF DueDate
  <2>2. \A b \in Alarm : new[b] = IF b = a THEN 0 ELSE DueDate[b]
    BY <2>1
  <2>3. new = [b \in Alarm |-> new[b]]
    BY <2>1
  <2> HIDE DEF new
  <2>4. ASSUME NEW b \in Alarm
        PROVE  DueDate'[b] = new[b]
    <3>1. CASE \E u \in Thread : pc[u] = "activate" /\ what[u] = b
      <4>1. PICK u \in Thread : pc[u] = "activate" /\ what[u] = b /\ u # t
        BY <1>2, <3>1
      <4>2. DueDate[b] = was[u]
        BY <1>1, <4>1, DueDateIs
      <4>3. pc'[u] = "activate" /\ what'[u] = b /\ b # a
        BY <1>3, <1>6, <4>1
      <4>4. DueDate[what[u]]' = was'[u]
        BY <1>1, <4>3, DueDateIsNext
      <4>5. QED BY <1>2, <2>2, <4>2, <4>3, <4>4
    <3>2. CASE \A u \in Thread : pc[u] = "activate" => what[u] # b
      <4>1. \A u \in Thread : pc'[u] = "activate" => what'[u] # b
        BY <1>3, <3>2
      <4>2. DueDate[b] = time_due[b] /\ DueDate'[b] = time_due'[b]
        BY <1>1, <3>2, <4>1, DueDateIs, DueDateIsNext
      <4>3. QED BY <1>1, <1>2, <1>5, <2>2, <4>2 DEF TypeOK
    <3>3. QED BY <3>1, <3>2
  <2>5. DueDate' = new
    BY <2>1, <2>3, <2>4
  <2>6. QED BY <2>5 DEF new
<1>8. UNCHANGED <<Marked, Owner, Enqueued>>
  <2>1. Marked' = Marked
    BY <1>2, <1>3, <1>4, MarkedSame
  <2>2. Owner' = Owner
    BY <1>2, <1>3, OwnerSame
  <2>3. Enqueued' = Enqueued
    BY <1>2, <1>4 DEF Enqueued
  <2>4. QED BY <2>1, <2>2, <2>3
<1>9. Marked' = [Marked EXCEPT ![t] = 0]
  <2>1. Marked[t] = 0
    BY <1>2 DEF Marked
  <2>2. Marked = [u \in Thread |-> Marked[u]]
    BY DEF Marked
  <2>3. [Marked EXCEPT ![t] = 0] = Marked
    BY <2>1, <2>2
  <2>4. QED BY <1>8, <2>3
<1>10. Pc[t] = "free" /\ Pc' = [Pc EXCEPT ![t] = "idle"]
  <2>1. \A u \in Thread \ {t} : delay'[u] = delay[u]
    BY <1>1, <1>2 DEF TypeOK
  <2>2. QED BY <1>1, <1>2, <2>1, PcStep DEF AbstractPc
<1>11. Almlib!Free(t)
  BY <1>2, <1>4, <1>5, <1>7, <1>8, <1>9, <1>10
  DEF Almlib!Free, Almlib!Return, Almlib!Goto, Almlib!timerVars
<1>12. QED BY <1>11 DEF Follows, Almlib!Next, Almlib!ThreadStep, Almlib!DestroyStep

\* alm_dump_queue only reads: AlmLib knows nothing of it.
LEMMA FollowsDump ==
  ASSUME Mapped, Mapped', NEW t \in Thread, ~Running, isr' = isr, Dump(t) \/ DumpStep(t)
  PROVE  Follows
<1>1. TypeOK /\ Listed /\ Listed'
  BY ListedFacts DEF Mapped
<1>2. /\ UNCHANGED <<time, hw, next_due, pending, isr, first_alm, next, enqueued, time_due, active,
                     created, what, delay, tstart, was>>
      /\ pc[t] \in {"idle", "dump", "walk"}
      /\ \A u \in Thread : u # t => cur'[u] = cur[u]
  BY <1>1 DEF Dump, DumpStep, DumpLock, DumpAlarm, DumpEnd, Goto, timerVars, listVars, localVars,
              TypeOK
<1>3. PICK to \in {"idle", "dump", "walk"} : pc' = [pc EXCEPT ![t] = to]
  BY DEF Dump, DumpStep, DumpLock, DumpAlarm, DumpEnd, Goto
<1>4. pc'[t] = to /\ \A u \in Thread : u # t => pc'[u] = pc[u]
  BY <1>1, <1>3 DEF TypeOK
<1>5. /\ List' = List /\ Unlinking' = Unlinking /\ Queue' = Queue /\ Isr' = Isr
  BY <1>1, <1>2, <1>4, ThreadFrame
<1>6. Owner' = Owner
  <2>1. CASE Dump(t) \/ DumpAlarm(t)
    <3>1. lock' = lock /\ \A u \in Thread : pc'[u] = "walk" <=> pc[u] = "walk"
      BY <1>1, <2>1 DEF Dump, DumpAlarm, Goto, TypeOK
    <3>2. QED BY <3>1, OwnerSame
  <2>2. CASE DumpLock(t)
    <3>1. lock = NULL /\ pc'[t] = "walk"
      BY <1>1, <2>2 DEF DumpLock, Goto, TypeOK
    <3>2. QED BY <3>1 DEF Owner
  <2>3. CASE DumpEnd(t)
    <3>1. lock' = NULL /\ pc[t] = "walk"
      BY <2>3 DEF DumpEnd, Goto
    <3>2. QED BY <3>1 DEF Owner
  <2>4. QED BY <2>1, <2>2, <2>3 DEF DumpStep
<1>7. UNCHANGED <<DueDate, Marked, Enqueued, Pc>>
  <2>1. Marked' = Marked
    BY <1>2, <1>4, <1>5, MarkedSame
  <2>2. Enqueued' = Enqueued
    BY <1>2, <1>5 DEF Enqueued
  <2>3. DueDate' = DueDate
    BY <1>1, <1>2, <1>4, DueDateSame
  <2>4. Pc' = Pc
    <3>1. AbstractPc(to, delay'[t]) = "idle" /\ AbstractPc(pc[t], delay[t]) = "idle"
      BY <1>2 DEF AbstractPc
    <3>2. Pc[t] = "idle" /\ (AbstractPc(to, delay'[t]) = Pc[t] => Pc' = Pc)
      BY <1>1, <1>2, <1>3, <3>1, PcStep
    <3>3. QED BY <3>1, <3>2
  <2>5. QED BY <2>1, <2>2, <2>3, <2>4
<1>8. QED BY <1>2, <1>5, <1>6, <1>7, StuttersIf DEF Follows

-----------------------------------------------------------------------------
(* The refinement, and what it brings.                                      *)

\* A step that changes nothing changes nothing there.
LEMMA FollowsNothing ==
  ASSUME Mapped, Mapped', UNCHANGED vars
  PROVE  Follows
<1>1. /\ UNCHANGED <<time, hw, pending, next_due, active, created, what, delay, tstart, isr>>
      /\ UNCHANGED <<first_alm, next, enqueued, time_due, lock, pc, cur, was>>
  BY DEF vars, timerVars, listVars, localVars
<1>2. /\ List' = List /\ Unlinking' = Unlinking
      /\ Gaps' = Gaps /\ Queue' = Queue /\ \A x : Passed(x)' = Passed(x)
      /\ UNCHANGED <<DueDate, Enqueued, Owner, Pc, Marked>>
  BY <1>1, HandlerFrame DEF Mapped
<1>3. Isr' = Isr
  <2>1. PICK x : x = isr.alm
    OBVIOUS
  <2>2. IsrPos' = IsrPos
    BY <1>1, <1>2, <2>1, IsrPosNext DEF IsrPos
  <2>3. CASE Running
    BY <1>1, <1>2, <2>2, <2>3, IsrSame DEF Running
  <2>4. CASE ~Running
    BY <1>1, <2>4 DEF Running, Isr
  <2>5. QED BY <2>3, <2>4
<1>4. QED BY <1>1, <1>2, <1>3, StuttersIf DEF Follows

\* Every step of a thread is one of AlmLib, or nothing there.
LEMMA FollowsThread ==
  ASSUME Mapped, Mapped', HandlerIsThread = FALSE, NEW t \in Thread, ThreadStep(t) \/ Call(t)
  PROVE  Follows
<1>1. ~Running /\ isr' = isr
  BY ThreadsWait
<1>2. CASE StartStep(t)
  BY <1>1, <1>2, FollowsLock, FollowsPurge, FollowsPurgeEnd, FollowsCancelIt, FollowsRemove,
     FollowsSetDue, FollowsActivate, FollowsInsert, FollowsLink, FollowsCheck, FollowsUnlock
  DEF StartStep
<1>3. CASE DestroyStep(t)
  BY <1>1, <1>3, FollowsDestroyTest, FollowsDestroyRemove, FollowsFree DEF DestroyStep
<1>4. CASE DumpStep(t) \/ Dump(t)
  BY <1>1, <1>4, FollowsDump
<1>5. ASSUME NEW a \in Alarm, NEW d \in Delay, Start(t, a, d)
      PROVE  Follows
  BY <1>1, <1>5, FollowsCall
<1>6. ASSUME NEW a \in Alarm, Cancel(t, a) \/ Destroy(t, a)
      PROVE  Follows
  <2>1. PICK d : d = 0
    OBVIOUS
  <2>2. QED BY <1>1, <1>6, FollowsCall
<1>7. ASSUME NEW a \in Alarm, Create(t, a)
      PROVE  Follows
  BY <1>1, <1>7, FollowsCreate
<1>8. QED BY <1>2, <1>3, <1>4, <1>5, <1>6, <1>7 DEF ThreadStep, Call

\* Every step is one of AlmLib, or nothing there.
LEMMA FollowsNext ==
  ASSUME Mapped, Mapped', HandlerIsThread = FALSE, [Next]_vars
  PROVE  Follows
<1>1. CASE HandlerStep
  BY <1>1, FollowsInFirstLoop, FollowsPointer, FollowsInSecondLoop, FollowsSetup
  DEF HandlerStep, Follows
<1>2. ASSUME NEW a \in Alarm, CallbackCancels(a) PROVE Follows
  BY <1>2, FollowsCallback
<1>3. ASSUME NEW t \in Thread, ThreadStep(t) \/ Call(t) PROVE Follows
  BY <1>3, FollowsThread
<1>4. QED
  BY <1>1, <1>2, <1>3, FollowsTimer, FollowsEnter, FollowsNothing DEF Next

\* AlmLib starts with an empty queue as well.
LEMMA FollowsInit == Init => Almlib!Init
<1> SUFFICES ASSUME Init PROVE Almlib!Init
  OBVIOUS
<1>1. Listed
  BY ListedInit
<1>2. /\ time = 0 /\ next_due = SetupDelay(MAX_WAIT) /\ hw = next_due /\ pending = FALSE
      /\ isr = IsrIdle /\ first_alm = NULL /\ next = [a \in Alarm |-> NULL]
      /\ time_due = [a \in Alarm |-> 0] /\ active = [a \in Alarm |-> FALSE]
      /\ enqueued = [a \in Alarm |-> FALSE] /\ created = {} /\ lock = NULL
      /\ pc = [t \in Thread |-> "idle"] /\ what = [t \in Thread |-> NULL]
      /\ delay = [t \in Thread |-> 0] /\ tstart = [t \in Thread |-> 0]
      /\ cur = [t \in Thread |-> NULL]
  BY DEF Init
<1>3. Queue = List /\ Enqueued = enqueued
  BY <1>1, <1>2, QueueIsList
<1>4. List = <<>>
  <2>1. ListOK /\ ToSet(List) \subseteq created
    BY <1>1, ListedFacts
  <2>2. DOMAIN List = {}
    BY <1>2, <2>1, ListDomain
  <2>3. PICK s \in Seq(Alarm) : s = List
    BY <2>1 DEF ListOK
  <2>4. QED BY <2>2, <2>3
<1>5. Marked = [t \in Thread |-> 0] /\ Owner = NULL
  BY <1>2, NothingMarked DEF Owner
<1>6. DueDate = [a \in Alarm |-> 0]
  <2>1. \A a \in Alarm : DueDate[a] = 0
    BY <1>1, <1>2, DueDateIs
  <2>2. DueDate = [a \in Alarm |-> DueDate[a]]
    BY DEF DueDate
  <2>3. QED BY <2>1, <2>2
<1>7. Pc = [t \in Thread |-> "idle"]
  BY <1>2 DEF Pc, AbstractPc
<1>8. Isr = Almlib!IsrIdle
  BY <1>2 DEF Isr, IsrIdle, Running, Almlib!IsrIdle
<1>9. next_due = Almlib!SetupDelay(MAX_WAIT)
  BY <1>2 DEF SetupDelay, Almlib!SetupDelay
<1>10. QED BY <1>2, <1>3, <1>4, <1>5, <1>6, <1>7, <1>8, <1>9 DEF Almlib!Init

\* On a target with real interrupts the linked list implements the queue of
\* AlmLib: pointer by pointer and flag by flag, what alm_start, alm_destroy,
\* alm_dump_queue and the handler do is a step on the queue, or nothing.
THEOREM ListImplementsQueue ==
  ASSUME HandlerIsThread = FALSE, DestroyRaces = FALSE
  PROVE  Spec => ImplementsAlmLib
<1>1. ASSUME Mapped, Mapped', [Next]_vars
      PROVE  [Almlib!Next]_Almlib!vars
  BY <1>1, FollowsNext DEF Follows, Stutters
<1>2. Mapped /\ Mapped' /\ [Next]_vars => [Almlib!Next]_Almlib!vars
  BY <1>1
<1>3. QED
  BY <1>2, MappedInit, MappedNext, FollowsInit, PTL DEF Spec, ImplementsAlmLib, Almlib!Spec

\* The theorems about AlmLib, for the queue that the list implements.
Proved == INSTANCE AlmLibPromiseProofs WITH
  isr <- Isr, queue <- Queue, time_due <- DueDate, enqueued <- Enqueued,
  lock <- Owner, pc <- Pc, cur <- Marked

\* Its state is the same, ...
LEMMA SameVars ==
  /\ Almlib!vars = Proved!vars /\ Almlib!timerVars = Proved!timerVars
  /\ Almlib!alarmVars = Proved!alarmVars /\ Almlib!localVars = Proved!localVars
  /\ Almlib!Running = Proved!Running /\ Almlib!IsrIdle = Proved!IsrIdle /\ Almlib!Off = Proved!Off
  /\ UNCHANGED Almlib!vars <=> UNCHANGED Proved!vars
BY DEF Almlib!vars, Proved!vars, Almlib!timerVars, Proved!timerVars, Almlib!alarmVars,
       Proved!alarmVars, Almlib!localVars, Proved!localVars, Almlib!Running, Proved!Running,
       Almlib!IsrIdle, Proved!IsrIdle, Almlib!Off, Proved!Off

\* ... it starts in the same states ...
LEMMA SameInit == Almlib!Init => Proved!Init
BY DEF Almlib!Init, Proved!Init, Almlib!IsrIdle, Proved!IsrIdle, Almlib!SetupDelay,
       Proved!SetupDelay

\* ... and makes the same steps.
LEMMA SameHandler ==
  Almlib!Tick \/ Almlib!TimerExpires \/ Almlib!HandlerEnter \/ Almlib!HandlerStep =>
    Proved!Tick \/ Proved!TimerExpires \/ Proved!HandlerEnter \/ Proved!HandlerStep
<1>1. Almlib!HandlerStep => Proved!HandlerStep
  BY DEF Almlib!HandlerStep, Proved!HandlerStep, Almlib!HandlerDue, Proved!HandlerDue,
         Almlib!HandlerSkip, Proved!HandlerSkip, Almlib!HandlerSetup, Proved!HandlerSetup,
         Almlib!AtDue, Proved!AtDue, Almlib!AtInactive, Proved!AtInactive,
         Almlib!SetupAlarm, Proved!SetupAlarm, Almlib!SetupDelay, Proved!SetupDelay,
         Almlib!IsrIdle, Proved!IsrIdle, Almlib!timerVars, Proved!timerVars,
         Almlib!alarmVars, Proved!alarmVars, Almlib!localVars, Proved!localVars
<1>2. Almlib!HandlerEnter => Proved!HandlerEnter
  BY DEF Almlib!HandlerEnter, Proved!HandlerEnter, Almlib!Running, Proved!Running,
         Almlib!alarmVars, Proved!alarmVars, Almlib!localVars, Proved!localVars
<1>3. (Almlib!Tick => Proved!Tick) /\ (Almlib!TimerExpires => Proved!TimerExpires)
  BY DEF Almlib!Tick, Proved!Tick, Almlib!TimerExpires, Proved!TimerExpires, Almlib!Off,
         Proved!Off, Almlib!timerVars, Proved!timerVars,
         Almlib!alarmVars, Proved!alarmVars, Almlib!localVars, Proved!localVars
<1>4. QED BY <1>1, <1>2, <1>3

\* The callback makes the same step.
LEMMA SameCallback ==
  ASSUME NEW a, Almlib!CallbackCancels(a)
  PROVE  Proved!CallbackCancels(a)
BY DEF Almlib!CallbackCancels, Proved!CallbackCancels, Almlib!AtDue, Proved!AtDue,
       Almlib!Usable, Proved!Usable, Almlib!Destroying, Proved!Destroying,
       Almlib!timerVars, Proved!timerVars, Almlib!localVars, Proved!localVars

\* alm_remove is the same.
LEMMA SameRemove ==
  ASSUME NEW a, Almlib!RemoveAlarm(a)
  PROVE  Proved!RemoveAlarm(a)
BY DEF Almlib!RemoveAlarm, Proved!RemoveAlarm, Almlib!ToSet, Proved!ToSet, Almlib!RemoveAt,
       Proved!RemoveAt

\* alm_start makes the same steps.
LEMMA SameStart ==
  ASSUME NEW t, Almlib!StartStep(t)
  PROVE  Proved!StartStep(t)
<1> USE DEF Almlib!Goto, Proved!Goto, Almlib!Running, Proved!Running,
            Almlib!timerVars, Proved!timerVars, Almlib!alarmVars, Proved!alarmVars,
            Almlib!localVars, Proved!localVars
<1>1. Almlib!Lock(t) => Proved!Lock(t)
  BY DEF Almlib!Lock, Proved!Lock
<1>2. Almlib!Purge(t) => Proved!Purge(t)
  BY DEF Almlib!Purge, Proved!Purge, Almlib!AtInactive, Proved!AtInactive
<1>3. Almlib!PurgeEnd(t) => Proved!PurgeEnd(t)
  BY DEF Almlib!PurgeEnd, Proved!PurgeEnd, Almlib!AtInactive, Proved!AtInactive
<1>4. Almlib!Remove_(t) => Proved!Remove_(t)
  BY SameRemove DEF Almlib!Remove_, Proved!Remove_
<1>5. Almlib!Activate(t) => Proved!Activate(t)
  BY DEF Almlib!Activate, Proved!Activate
<1>6. Almlib!Insert(t) => Proved!Insert(t)
  BY DEF Almlib!Insert, Proved!Insert, Almlib!InsertionPoint, Proved!InsertionPoint,
         Almlib!InsertAt, Proved!InsertAt
<1>7. Almlib!Check(t) => Proved!Check(t)
  BY DEF Almlib!Check, Proved!Check
<1>8. Almlib!Setup(t) => Proved!Setup(t)
  BY DEF Almlib!Setup, Proved!Setup, Almlib!SetupAlarm, Proved!SetupAlarm, Almlib!SetupDelay,
         Proved!SetupDelay
<1>9. Almlib!Unlock(t) => Proved!Unlock(t)
  BY DEF Almlib!Unlock, Proved!Unlock, Almlib!Return, Proved!Return
<1>10. QED
  BY <1>1, <1>2, <1>3, <1>4, <1>5, <1>6, <1>7, <1>8, <1>9 DEF Almlib!StartStep, Proved!StartStep

\* So do alm_destroy and the calls.
LEMMA SameThread ==
  ASSUME NEW t, Almlib!ThreadStep(t) \/ Almlib!Call(t)
  PROVE  Proved!ThreadStep(t) \/ Proved!Call(t)
<1> USE DEF Almlib!Goto, Proved!Goto, Almlib!Running, Proved!Running,
            Almlib!timerVars, Proved!timerVars, Almlib!alarmVars, Proved!alarmVars,
            Almlib!localVars, Proved!localVars
<1>1. Almlib!DestroyTest(t) => Proved!DestroyTest(t)
  BY DEF Almlib!DestroyTest, Proved!DestroyTest
<1>2. Almlib!DestroyRemove(t) => Proved!DestroyRemove(t)
  BY SameRemove DEF Almlib!DestroyRemove, Proved!DestroyRemove
<1>3. Almlib!Free(t) => Proved!Free(t)
  BY DEF Almlib!Free, Proved!Free, Almlib!Return, Proved!Return
<1>4. Almlib!Call(t) => Proved!Call(t)
  BY DEF Almlib!Call, Proved!Call, Almlib!Start, Proved!Start, Almlib!Cancel, Proved!Cancel,
         Almlib!Create, Proved!Create, Almlib!Destroy, Proved!Destroy,
         Almlib!Usable, Proved!Usable, Almlib!Destroying, Proved!Destroying
<1>5. QED
  BY <1>1, <1>2, <1>3, <1>4, SameStart
  DEF Almlib!ThreadStep, Proved!ThreadStep, Almlib!DestroyStep, Proved!DestroyStep

\* All steps are the same.
LEMMA SameNext == [Almlib!Next]_Almlib!vars => [Proved!Next]_Proved!vars
BY SameVars, SameHandler, SameCallback, SameThread DEF Almlib!Next, Proved!Next

\* What implements the one implements the other.
LEMMA SameSpec == Almlib!Spec => Proved!Spec
BY SameInit, SameNext, PTL DEF Almlib!Spec, Proved!Spec

\* The constants are those of AlmLib.
LEMMA ProvedAssumption == Proved!ConstantsAssumption
BY PtrAssumption DEF Proved!ConstantsAssumption

\* The promise, too, is the same.
LEMMA SamePromise == Proved!KeepsPromise => ListKeepsPromise
<1>1. /\ Almlib!DueDates = Proved!DueDates /\ Almlib!Requests = Proved!Requests
      /\ Almlib!Running = Proved!Running
  BY DEF Almlib!DueDates, Proved!DueDates, Almlib!Requests, Proved!Requests, Almlib!Asking,
         Proved!Asking, Almlib!Running, Proved!Running
<1>2. /\ Almlib!DueDates' = Proved!DueDates' /\ Almlib!Requests' = Proved!Requests'
      /\ Almlib!Running' = Proved!Running'
  BY DEF Almlib!DueDates, Proved!DueDates, Almlib!Requests, Proved!Requests, Almlib!Asking,
         Proved!Asking, Almlib!Running, Proved!Running
<1>3. Proved!Promise!Init => Almlib!Promise!Init
  BY <1>1 DEF Proved!Promise!Init, Almlib!Promise!Init, Proved!Promise!Idle, Almlib!Promise!Idle
<1>4. [Proved!Promise!Next]_Proved!Promise!vars => [Almlib!Promise!Next]_Almlib!Promise!vars
  <2> USE <1>1, <1>2 DEF Proved!Promise!Idle, Almlib!Promise!Idle
  <2>1. \A c, a, d : Proved!Promise!Ask(c, a, d) => Almlib!Promise!Ask(c, a, d)
    BY DEF Proved!Promise!Ask, Almlib!Promise!Ask
  <2>2. \A c : Proved!Promise!Arm(c) => Almlib!Promise!Arm(c)
    BY DEF Proved!Promise!Arm, Almlib!Promise!Arm
  <2>3. \A c : Proved!Promise!Refuse(c) => Almlib!Promise!Refuse(c)
    BY DEF Proved!Promise!Refuse, Almlib!Promise!Refuse
  <2>4. \A a : Proved!Promise!Cancel(a) => Almlib!Promise!Cancel(a)
    BY DEF Proved!Promise!Cancel, Almlib!Promise!Cancel
  <2>5. \A a : Proved!Promise!Ring(a) => Almlib!Promise!Ring(a)
    BY DEF Proved!Promise!Ring, Almlib!Promise!Ring, Proved!Promise!Overdue,
           Almlib!Promise!Overdue
  <2>6. \A a : Proved!Promise!TakeBack(a) => Almlib!Promise!TakeBack(a)
    BY DEF Proved!Promise!TakeBack, Almlib!Promise!TakeBack, Proved!Promise!Overdue,
           Almlib!Promise!Overdue
  <2>7. /\ Proved!Promise!Tick => Almlib!Promise!Tick
        /\ Proved!Promise!Interrupt => Almlib!Promise!Interrupt
        /\ UNCHANGED Proved!Promise!vars => UNCHANGED Almlib!Promise!vars
    BY DEF Proved!Promise!Tick, Almlib!Promise!Tick, Proved!Promise!Interrupt,
           Almlib!Promise!Interrupt, Proved!Promise!vars, Almlib!Promise!vars
  <2>8. QED
    BY <2>1, <2>2, <2>3, <2>4, <2>5, <2>6, <2>7 DEF Proved!Promise!Next, Almlib!Promise!Next
<1>5. QED
  BY <1>3, <1>4, PTL DEF Proved!KeepsPromise, Proved!Promise!Spec, ListKeepsPromise,
     Almlib!KeepsPromise, Almlib!Promise!Spec

\* The linked list as well keeps the promise of almLib.h.
THEOREM PromiseKeptByList ==
  ASSUME HandlerIsThread = FALSE, DestroyRaces = FALSE
  PROVE  Spec => ListKeepsPromise
<1>1. Proved!Spec => Proved!KeepsPromise
  BY ProvedAssumption, Proved!PromiseKept
<1>2. QED
  BY <1>1, ListImplementsQueue, SameSpec, SamePromise, PTL DEF ImplementsAlmLib

\* No alarm in the linked list is forgotten.
THEOREM ListCoversAlarms ==
  ASSUME HandlerIsThread = FALSE, DestroyRaces = FALSE
  PROVE  Spec => []ActiveCovered
<1>1. Proved!Spec => []Proved!ActiveCovered
  BY ProvedAssumption, Proved!NoAlarmForgotten
<1>2. Listed /\ Proved!ActiveCovered => ActiveCovered
  <2>1. SUFFICES ASSUME Listed, Proved!ActiveCovered, NEW a \in Alarm, active[a], ~SettingUp(a)
                 PROVE  /\ a \in ToSet(List)
                        /\ \/ pending \/ Running
                           \/ hw # Off /\ (hw <= time_due[a] \/ hw <= time + MIN_WAIT)
    BY DEF ActiveCovered
  <2>2. ~Proved!SettingUp(a)
    BY <2>1 DEF Proved!SettingUp, SettingUp, Pc, AbstractPc
  <2>3. /\ a \in ToSet(Queue)
        /\ \/ pending \/ Proved!Running
           \/ hw # Off /\ (hw <= DueDate[a] \/ hw <= time + MIN_WAIT)
    BY <2>1, <2>2 DEF Proved!ActiveCovered, Proved!Off, Off, Proved!ToSet, ToSet
  <2>4. a \in ToSet(List)
    <3>1. PICK s \in Seq(Alarm) : s = List /\ IsInjective(s)
      BY <2>1 DEF Listed, ListOK
    <3>2. CASE Queue = s
      BY <2>3, <3>1, <3>2
    <3>3. ASSUME NEW k \in DOMAIN s, Queue = RemoveAt(s, k)
          PROVE  a \in ToSet(List)
      <4>1. PICK q : q = Queue
        OBVIOUS
      <4>2. ToSet(q) = ToSet(s) \ {s[k]}
        BY <3>1, <3>3, <4>1, RemoveAtKeeps
      <4>3. QED BY <2>3, <3>1, <4>1, <4>2
    <3>4. QED BY <2>1, <3>1, <3>2, <3>3, QueueShape
  <2>5. DueDate[a] = time_due[a]
    BY <2>1, <2>4, DueDateIs
  <2>6. Proved!Running => Running
    BY DEF Proved!Running, Isr, Running
  <2>7. QED BY <2>3, <2>4, <2>5, <2>6
<1>3. Spec => []Listed
  BY ListedInit, ListedNext, PTL DEF Spec
<1>4. QED
  BY <1>1, <1>2, <1>3, ListImplementsQueue, SameSpec, PTL DEF ImplementsAlmLib
=============================================================================
