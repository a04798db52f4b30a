--------------------------- MODULE AlmTestProofs ---------------------------
(***************************************************************************)
(* The test drivers clean up, and count right, for any number of threads   *)
(* and alarms.                                                             *)
(***************************************************************************)
EXTENDS AlmTest, AlmLibProofs, FiniteSetTheorems

TestTyped ==
  /\ mine \in [Thread -> Seq(Alarm)]
  /\ step \in [Thread -> {"begin", "setup", "clear", "end"}]
  /\ started \in [Thread -> Nat]

\* Every alarm is in the hands of the thread that created it, or being destroyed.
Tracked ==
  \A a \in created : \E t \in Thread :
    \/ \E i \in DOMAIN mine[t] : mine[t][i] = a
    \/ what[t] = a /\ pc[t] \in InDestroy

\* A thread whose test has returned has nothing left to do.
EndsIdle == \A t \in Thread : step[t] = "end" => mine[t] = <<>> /\ pc[t] = "idle"

Tests == Timed /\ TestTyped /\ Tracked /\ EndsIdle

\* What the drivers do is what clients of the library may do.
LEMMA TestsAreClients == TestTyped /\ [TestNext]_testSpecVars => [Next]_vars
<1> SUFFICES ASSUME TestTyped, [TestNext]_testSpecVars PROVE [Next]_vars
  OBVIOUS
<1>1. CASE Timer_ \/ Handler_ \/ Callback \/ UNCHANGED testSpecVars
  BY <1>1 DEF Timer_, Handler_, Callback, HandlerStep, Next, testSpecVars
<1>2. ASSUME NEW t \in Thread, ThreadStep(t)
      PROVE  Next
  BY <1>2 DEF Next
<1>3. ASSUME NEW t \in Thread, Begin(t) \/ Wait(t) \/ End(t)
      PROVE  UNCHANGED vars
  BY <1>3 DEF Begin, Wait, End
<1>4. ASSUME NEW t \in Thread, CreateNext(t) \/ StartNext(t) \/ DestroyNext(t)
      PROVE  Next
  <2>1. /\ Len(mine[t]) \in Nat /\ started[t] \in Nat
        /\ \A i \in 1..Len(mine[t]) : mine[t][i] \in Alarm
        /\ mine[t] # <<>> => Head(mine[t]) \in Alarm
    BY LenProperties, ElementOfSeq, HeadTailProperties DEF TestTyped
  <2>2. CASE CreateNext(t)
    BY <2>2 DEF CreateNext, Call, Next
  <2>3. CASE StartNext(t)
    <3>1. mine[t][started[t] + 1] \in Alarm
      BY <2>1, <2>3 DEF StartNext
    <3>2. QED BY <2>3, <3>1 DEF StartNext, Call, Next
  <2>4. CASE DestroyNext(t)
    BY <2>1, <2>4 DEF DestroyNext, Call, Next
  <2>5. QED BY <1>4, <2>2, <2>3, <2>4
<1>5. QED BY <1>1, <1>2, <1>3, <1>4 DEF TestNext, Test

\* The invariant of the drivers' alarms holds initially.
LEMMA TestsInit == TestInit => Tests
<1> SUFFICES ASSUME TestInit PROVE Tests
  OBVIOUS
<1>1. Timed
  BY TimedInit DEF TestInit
<1>2. QED
  BY <1>1 DEF TestInit, Init, Tests, TestTyped, Tracked, EndsIdle

\* Every step keeps it.
LEMMA TestsNext ==
  ASSUME DestroyRaces = FALSE
  PROVE  Tests /\ [TestNext]_testSpecVars => Tests'
<1> SUFFICES ASSUME Tests, [TestNext]_testSpecVars PROVE Tests'
  OBVIOUS
<1> USE DEF timerVars, alarmVars, localVars
<1>1. Timed'
  BY TestsAreClients, TimedNext DEF Tests
<1>2. TypeOK /\ TestTyped /\ Tracked /\ EndsIdle
  BY Typing DEF Tests
<1>3. ASSUME UNCHANGED <<created, pc, what, mine, step, started>>
      PROVE  Tests'
  BY <1>1, <1>2, <1>3 DEF Tests, TestTyped, Tracked, EndsIdle
<1>4. CASE Timer_ \/ Handler_ \/ Callback \/ UNCHANGED testSpecVars
  BY <1>3, <1>4 DEF Timer_, Handler_, Callback, Tick, TimerExpires, HandlerEnter, HandlerSkip,
                    HandlerSetup, HandlerDue, testVars, testSpecVars, vars
<1>5. ASSUME NEW t \in Thread, ThreadStep(t) /\ UNCHANGED testVars
      PROVE  Tests'
  <2>1. /\ pc[t] # "idle" /\ UNCHANGED <<mine, step, started>>
        /\ \A u \in Thread \ {t} : pc'[u] = pc[u] /\ what'[u] = what[u]
    BY <1>2, <1>5 DEF ThreadStep, StartStep, DestroyStep, Goto, Return, testVars, TypeOK,
         Lock, Purge, PurgeEnd, Remove_, Activate, Insert, Check, Setup, Unlock,
         DestroyTest, DestroyRemove, Free
  <2>2. EndsIdle'
    BY <1>2, <2>1 DEF EndsIdle
  <2>3. CASE StartStep(t)
    <3>1. pc[t] \notin InDestroy /\ created' = created
      BY <2>3 DEF StartStep, Goto, InDestroy,
           Lock, Purge, PurgeEnd, Remove_, Activate, Insert, Check, Setup, Unlock
    <3>2. Tracked'
      BY <1>2, <2>1, <3>1 DEF Tracked
    <3>3. QED BY <1>1, <1>2, <2>1, <2>2, <3>2 DEF Tests, TestTyped
  <2>4. CASE DestroyTest(t) \/ DestroyRemove(t)
    <3>1. pc'[t] \in InDestroy /\ what' = what /\ created' = created
      BY <1>2, <2>4 DEF DestroyTest, DestroyRemove, Goto, InDestroy, TypeOK
    <3>2. Tracked'
      BY <1>2, <2>1, <3>1 DEF Tracked
    <3>3. QED BY <1>1, <1>2, <2>1, <2>2, <3>2 DEF Tests, TestTyped
  <2>5. CASE Free(t)
    <3>1. created' = created \ {what[t]}
      BY <2>5 DEF Free
    <3>2. Tracked'
      BY <1>2, <2>1, <3>1 DEF Tracked
    <3>3. QED BY <1>1, <1>2, <2>1, <2>2, <3>2 DEF Tests, TestTyped
  <2>6. QED BY <1>5, <2>3, <2>4, <2>5 DEF ThreadStep, DestroyStep
<1>6. ASSUME NEW t \in Thread, Test(t)
      PROVE  Tests'
  <2>1. CASE Begin(t) \/ Wait(t) \/ End(t)
    <3>1. /\ UNCHANGED <<created, pc, what, mine, started>>
          /\ step' \in [Thread -> {"begin", "setup", "clear", "end"}]
          /\ \A u \in Thread \ {t} : step'[u] = step[u]
          /\ step'[t] = "end" => mine[t] = <<>> /\ pc[t] = "idle"
      BY <1>2, <2>1 DEF Begin, Wait, End, Ready, TestTyped, vars
    <3>2. QED BY <1>1, <1>2, <3>1 DEF Tests, TestTyped, Tracked, EndsIdle
  <2>2. CASE CreateNext(t)
    <3>1. PICK a \in Alarm : Create(t, a) /\ mine' = [mine EXCEPT ![t] = Append(@, a)]
      BY <2>2 DEF CreateNext
    <3>2. /\ UNCHANGED <<step, started>> /\ step[t] = "setup" /\ what' = what
          /\ pc' = pc /\ created' = created \cup {a}
      BY <1>2, <2>2, <3>1 DEF CreateNext, Create, Goto, Ready, TypeOK
    <3>3. mine[t] \in Seq(Alarm) /\ mine'[t] = Append(mine[t], a)
      BY <1>2, <3>1 DEF TestTyped
    <3>4. /\ Append(mine[t], a) \in Seq(Alarm)
          /\ \A i \in DOMAIN mine[t] :
               i \in DOMAIN mine'[t] /\ mine'[t][i] = mine[t][i]
          /\ \E i \in DOMAIN mine'[t] : mine'[t][i] = a
      <4>1. /\ Len(mine[t]) \in Nat /\ DOMAIN mine[t] = 1..Len(mine[t])
            /\ Len(mine'[t]) = Len(mine[t]) + 1 /\ DOMAIN mine'[t] = 1..Len(mine'[t])
            /\ mine'[t] \in Seq(Alarm)
            /\ mine'[t][Len(mine[t]) + 1] = a
            /\ \A i \in 1..Len(mine[t]) : mine'[t][i] = mine[t][i]
        BY <3>3, AppendProperties
      <4>2. QED BY <3>3, <4>1
    <3>5. \A u \in Thread \ {t} : mine'[u] = mine[u]
      BY <1>2, <3>1 DEF TestTyped
    <3>6. TestTyped' /\ EndsIdle'
      BY <1>2, <3>1, <3>2, <3>4, <3>5 DEF TestTyped, EndsIdle
    <3>7. Tracked'
      BY <1>2, <3>2, <3>4, <3>5 DEF Tracked
    <3>8. QED BY <1>1, <3>6, <3>7 DEF Tests
  <2>3. CASE StartNext(t)
    <3>1. /\ UNCHANGED <<step, mine, created>> /\ started' \in [Thread -> Nat]
          /\ pc[t] = "idle" /\ step[t] = "setup"
          /\ \A u \in Thread \ {t} : pc'[u] = pc[u] /\ what'[u] = what[u]
      <4>1. /\ UNCHANGED <<step, mine, created>>
            /\ started' = [started EXCEPT ![t] = @ + 1]
            /\ pc[t] = "idle" /\ step[t] = "setup"
        BY <2>3 DEF StartNext, Start, Ready
      <4>2. \A u \in Thread \ {t} : pc'[u] = pc[u] /\ what'[u] = what[u]
        BY <1>2, <2>3 DEF StartNext, Start, Goto, TypeOK
      <4>3. QED BY <1>2, <4>1, <4>2 DEF TestTyped
    <3>2. Tracked'
      BY <1>2, <3>1 DEF Tracked, InDestroy
    <3>3. QED BY <1>1, <1>2, <3>1, <3>2 DEF Tests, TestTyped, EndsIdle
  <2>4. CASE DestroyNext(t)
    <3> DEFINE a == Head(mine[t])
    <3>1. /\ UNCHANGED <<step, started>> /\ step[t] = "clear" /\ created' = created /\ pc[t] = "idle"
          /\ pc'[t] \in InDestroy /\ what'[t] = a
          /\ mine[t] # <<>> /\ mine' = [mine EXCEPT ![t] = Tail(mine[t])]
          /\ \A u \in Thread \ {t} : pc'[u] = pc[u] /\ what'[u] = what[u]
      BY <1>2, <2>4 DEF DestroyNext, Destroy, Goto, Ready, InDestroy, TypeOK
    <3>2. /\ mine[t] \in Seq(Alarm) /\ mine'[t] = Tail(mine[t])
          /\ \A u \in Thread \ {t} : mine'[u] = mine[u]
      BY <1>2, <3>1 DEF TestTyped
    <3>3. /\ Tail(mine[t]) \in Seq(Alarm)
          /\ \A i \in DOMAIN mine[t] :
               mine[t][i] = a \/ \E j \in DOMAIN mine'[t] : mine'[t][j] = mine[t][i]
      <4>1. /\ Len(mine[t]) \in Nat /\ DOMAIN mine[t] = 1..Len(mine[t])
            /\ Tail(mine[t]) \in Seq(Alarm)
            /\ Len(mine'[t]) = Len(mine[t]) - 1 /\ DOMAIN mine'[t] = 1..Len(mine'[t])
            /\ \A j \in 1..Len(mine'[t]) : mine'[t][j] = mine[t][j + 1]
        <5> DEFINE s == mine[t]
        <5>1. s \in Seq(Alarm) /\ s # <<>> /\ mine'[t] = Tail(s)
          BY <3>1, <3>2
        <5> HIDE DEF s
        <5>2. /\ Tail(s) \in Seq(Alarm) /\ Len(Tail(s)) = Len(s) - 1
              /\ \A j \in 1..Len(Tail(s)) : Tail(s)[j] = s[j + 1]
          BY <5>1, HeadTailProperties
        <5>3. Len(s) \in Nat /\ DOMAIN s = 1..Len(s) /\ DOMAIN Tail(s) = 1..Len(Tail(s))
          BY <5>1, <5>2, LenProperties
        <5>4. QED BY <5>1, <5>2, <5>3 DEF s
      <4>2. ASSUME NEW i \in DOMAIN mine[t]
            PROVE  mine[t][i] = a \/ \E j \in DOMAIN mine'[t] : mine'[t][j] = mine[t][i]
        <5>1. CASE i = 1
          BY <5>1
        <5>2. CASE i # 1
          <6>1. i - 1 \in 1..Len(mine'[t]) /\ (i - 1) + 1 = i
            BY <4>1, <4>2, <5>2
          <6>2. QED BY <4>1, <6>1
        <5>3. QED BY <5>1, <5>2
      <4>3. QED BY <4>1, <4>2
    <3>4. TestTyped' /\ EndsIdle'
      BY <1>2, <3>1, <3>2, <3>3 DEF TestTyped, EndsIdle
    <3>5. Tracked'
      <4>1. SUFFICES ASSUME NEW b \in created
                     PROVE  \E u \in Thread :
                              \/ \E i \in DOMAIN mine'[u] : mine'[u][i] = b
                              \/ what'[u] = b /\ pc'[u] \in InDestroy
        BY <3>1 DEF Tracked
      <4>2. PICK u \in Thread :
              \/ \E i \in DOMAIN mine[u] : mine[u][i] = b
              \/ what[u] = b /\ pc[u] \in InDestroy
        BY <1>2 DEF Tracked
      <4>3. CASE u # t
        BY <3>1, <3>2, <4>2, <4>3
      <4>4. CASE u = t
        <5>1. \E i \in DOMAIN mine[t] : mine[t][i] = b
          BY <3>1, <4>2, <4>4 DEF InDestroy
        <5>2. b = a \/ \E j \in DOMAIN mine'[t] : mine'[t][j] = b
          BY <3>3, <5>1
        <5>3. QED BY <3>1, <5>2
      <4>5. QED BY <4>3, <4>4
    <3>6. QED BY <1>1, <3>4, <3>5 DEF Tests
  <2>5. QED BY <1>6, <2>1, <2>2, <2>3, <2>4 DEF Test
<1>7. QED BY <1>4, <1>5, <1>6 DEF TestNext

\* README.testing: after the tests have returned normally the alarm queue is empty,
\* and every alarm is freed, whoever ran what at the same time.
THEOREM TestsCleanUp ==
  ASSUME DestroyRaces = FALSE
  PROVE  TestSpec => []EmptyAfterTests
<1>1. Tests => EmptyAfterTests
  <2>1. SUFFICES ASSUME Tests, \A t \in Thread : step[t] = "end"
                 PROVE  queue = <<>> /\ created = {}
    BY DEF EmptyAfterTests
  <2>2. created = {}
    BY <2>1 DEF Tests, Tracked, EndsIdle, InDestroy
  <2>3. queue \in Seq(Alarm) /\ \A i \in DOMAIN queue : queue[i] \in created
    BY <2>1, Typing DEF Tests, TypeOK, QueueFlags
  <2>4. ASSUME queue # <<>> PROVE FALSE
    <3>1. 1 \in DOMAIN queue
      BY <2>3, <2>4, LenProperties, EmptySeq
    <3>2. QED BY <2>2, <2>3, <3>1
  <2>5. QED BY <2>2, <2>4
<1>2. QED BY <1>1, TestsInit, TestsNext, PTL DEF TestSpec
-----------------------------------------------------------------------------
(* The drivers count their callbacks right. *)

\* Every alarm has one owner, until it is being destroyed.
Owned ==
  /\ \A t, u \in Thread : \A i \in DOMAIN mine[t], j \in DOMAIN mine[u] :
       mine[t][i] = mine[u][j] => t = u /\ i = j
  /\ \A t \in Thread : \A i \in DOMAIN mine[t] :
       mine[t][i] \in created /\ ~Destroying(mine[t][i])

\* Inside alm_start, and the alarm is not yet active.
Setting == {"lock", "purge", "remove", "activate"}

\* Which of its alarms a driver has started and have not rung.
ToRing(t) ==
  {i \in 1..started[t] : active[mine[t][i]] \/ (what[t] = mine[t][i] /\ pc[t] \in Setting)}

\* What each driver is doing, and that it waits for exactly these.
Driven(t) ==
  /\ pc[t] \in InStart =>
       /\ step[t] = "setup" /\ started[t] \in DOMAIN mine[t]
       /\ what[t] = mine[t][started[t]] /\ delay[t] < MAX_DELAY
  /\ pc[t] \in Setting => ~active[what[t]]
  /\ step[t] = "begin" => mine[t] = <<>> /\ started[t] = 0 /\ pc[t] = "idle"
  /\ step[t] = "setup" =>
       /\ started[t] <= Len(mine[t])
       /\ \A i \in DOMAIN mine[t] : active[mine[t][i]] => i <= started[t]
       /\ Rung(t) = started[t] - Cardinality(ToRing(t))

\* Of the threads that share the counter, one is inside alm_test_cb.
Exclusive ==
  \A t, u \in Counting :
    t # u => step[t] \in {"begin", "end"} \/ step[u] \in {"begin", "end"}

Counted ==
  /\ Tests /\ Owned /\ counter \in Int /\ posted \in [Thread -> Int] /\ Exclusive
  /\ \A t \in Thread : Driven(t)

\* What has been counted is a number.
LEMMA RungType ==
  ASSUME NEW t \in Thread, counter \in Int, posted \in [Thread -> Int]
  PROVE  Rung(t) \in Int
<1>1. Num[t] \in Int /\ posted[t] \in Int
  BY TestAssumption
<1>2. QED BY <1>1 DEF Rung

\* The alarms still to ring are finitely many.
LEMMA ToRingFinite ==
  ASSUME NEW t \in Thread, TestTyped
  PROVE  IsFiniteSet(ToRing(t)) /\ Cardinality(ToRing(t)) \in Nat
<1>1. IsFiniteSet(1..started[t]) /\ ToRing(t) \in SUBSET (1..started[t])
  BY FS_Interval DEF TestTyped, ToRing
<1>2. IsFiniteSet(ToRing(t))
  BY <1>1, FS_Subset
<1>3. QED BY <1>2, FS_CardinalityType

\* A driver for which nothing changes that it counts.
LEMMA StillDriven ==
  ASSUME NEW t \in Thread, TestTyped, Driven(t),
         mine'[t] = mine[t], step'[t] = step[t], started'[t] = started[t],
         step[t] = "setup" => Rung(t)' = Rung(t),
         step[t] = "begin" => pc'[t] = "idle",
         pc'[t] \in InStart => pc[t] \in InStart /\ what'[t] = what[t] /\ delay'[t] = delay[t],
         pc'[t] \in Setting <=> pc[t] \in Setting,
         \A i \in DOMAIN mine[t] : active'[mine[t][i]] = active[mine[t][i]]
  PROVE  Driven(t)'
<1>1. /\ started[t] \in Nat /\ Len(mine[t]) \in Nat /\ DOMAIN mine[t] = 1..Len(mine[t])
      /\ Setting \subseteq InStart
  BY LenProperties DEF TestTyped, Setting, InStart
<1>2. ASSUME step[t] = "setup" PROVE ToRing(t)' = ToRing(t)
  <2>1. \A i \in 1..started[t] : i \in DOMAIN mine[t]
    BY <1>1, <1>2 DEF Driven
  <2>2. \A i \in 1..started[t] :
          (active'[mine[t][i]] \/ (what'[t] = mine[t][i] /\ pc'[t] \in Setting))
          <=> (active[mine[t][i]] \/ (what[t] = mine[t][i] /\ pc[t] \in Setting))
    BY <1>1, <2>1
  <2>3. QED BY <2>2 DEF ToRing
<1>3. pc'[t] \in Setting => ~active'[what'[t]]
  BY <1>1 DEF Driven
<1>4. QED BY <1>2, <1>3 DEF Driven

\* Every step leaves each alarm with one owner.
LEMMA OwnedNext ==
  ASSUME Tests, Owned, [TestNext]_testSpecVars
  PROVE  Owned'
<1> USE DEF timerVars, alarmVars, localVars
<1>1. /\ TypeOK /\ TestTyped /\ Handles
      /\ \A t \in Thread : mine[t] \in Seq(Alarm) /\ DOMAIN mine[t] = 1..Len(mine[t])
      /\ \A t \in Thread : Len(mine[t]) \in Nat
  BY Typing, LenProperties DEF Tests, TestTyped
\* Nobody's alarms change, and none of them is destroyed.
<1>2. ASSUME mine' = mine, created' = created,
             \A t \in Thread : pc'[t] \in InDestroy => pc[t] \in InDestroy /\ what'[t] = what[t]
      PROVE  Owned'
  BY <1>2 DEF Owned, Destroying, InDestroy
<1>3. CASE Timer_ \/ Handler_ \/ Callback \/ UNCHANGED testSpecVars
  BY <1>2, <1>3 DEF Timer_, Handler_, Callback, Tick, TimerExpires, HandlerEnter, HandlerSkip,
                    HandlerSetup, HandlerDue, testVars, testSpecVars, vars
<1>4. ASSUME NEW t \in Thread, ThreadStep(t) /\ UNCHANGED testVars
      PROVE  Owned'
  <2>1. CASE StartStep(t)
    <3>1. /\ mine' = mine /\ created' = created
          /\ pc'[t] \notin InDestroy
          /\ \A u \in Thread \ {t} : pc'[u] = pc[u] /\ what'[u] = what[u]
      BY <1>1, <1>4, <2>1 DEF StartStep, Goto, Return, InDestroy, TypeOK, testVars,
           Lock, Purge, PurgeEnd, Remove_, Activate, Insert, Check, Setup, Unlock
    <3>2. QED BY <1>2, <3>1
  <2>2. CASE DestroyTest(t) \/ DestroyRemove(t)
    BY <1>1, <1>2, <1>4, <2>2 DEF DestroyTest, DestroyRemove, Goto, InDestroy, TypeOK, testVars
  \* The alarm that is freed is nobody's.
  <2>3. CASE Free(t)
    <3>1. /\ mine' = mine /\ created' = created \ {what[t]}
          /\ pc[t] \in InDestroy /\ pc'[t] = "idle" /\ Destroying(what[t])
          /\ \A u \in Thread \ {t} : pc'[u] = pc[u] /\ what'[u] = what[u]
      BY <1>1, <1>4, <2>3 DEF Free, Goto, Return, Destroying, InDestroy, TypeOK, testVars
    <3>2. ASSUME NEW u \in Thread, NEW i \in DOMAIN mine[u]
          PROVE  mine[u][i] # what[t]
      BY <3>1, <3>2 DEF Owned
    <3>3. QED BY <3>1, <3>2 DEF Owned, Destroying, InDestroy
  <2>4. QED BY <1>4, <2>1, <2>2, <2>3 DEF ThreadStep, DestroyStep
<1>5. ASSUME NEW t \in Thread, Begin(t) \/ Wait(t) \/ End(t) \/ StartNext(t)
      PROVE  Owned'
  BY <1>1, <1>2, <1>5 DEF Begin, Wait, End, StartNext, Start, Goto, InDestroy, TypeOK, vars
<1>6. ASSUME NEW t \in Thread, CreateNext(t)
      PROVE  Owned'
  <2>1. PICK a \in Alarm : Create(t, a) /\ mine' = [mine EXCEPT ![t] = Append(@, a)]
    BY <1>6 DEF CreateNext
  <2>2. /\ a \notin created /\ created' = created \cup {a}
        /\ what' = what /\ pc' = pc
    BY <1>1, <2>1 DEF Create, Goto, TypeOK
  <2> DEFINE n == Len(mine[t]) + 1
  <2>3. /\ DOMAIN mine'[t] = (DOMAIN mine[t]) \cup {n} /\ n \notin DOMAIN mine[t]
        /\ mine'[t][n] = a
        /\ \A i \in DOMAIN mine[t] : mine'[t][i] = mine[t][i]
        /\ \A u \in Thread \ {t} : mine'[u] = mine[u]
    <3>1. /\ mine'[t] = Append(mine[t], a)
          /\ \A u \in Thread \ {t} : mine'[u] = mine[u]
      BY <2>1 DEF Tests, TestTyped
    <3>2. /\ Len(mine'[t]) = n /\ DOMAIN mine'[t] = 1..n
          /\ mine'[t][n] = a
          /\ \A i \in 1..Len(mine[t]) : mine'[t][i] = mine[t][i]
      BY <1>1, <3>1, AppendProperties, LenProperties
    <3>3. QED BY <1>1, <3>1, <3>2
  <2> HIDE DEF n
  <2>4. \A u \in Thread : \A i \in DOMAIN mine'[u] :
          \/ i \in DOMAIN mine[u] /\ mine'[u][i] = mine[u][i] /\ mine[u][i] # a
          \/ u = t /\ i = n /\ mine'[u][i] = a
    BY <2>2, <2>3 DEF Owned
  <2>5. ~Destroying(a)
    BY <1>1, <2>2 DEF Destroying, Handles
  <2>6. \A u \in Thread : \A i \in DOMAIN mine'[u] :
          mine'[u][i] \in created' /\ ~Destroying(mine[u][i])'
    <3>1. SUFFICES ASSUME NEW u \in Thread, NEW i \in DOMAIN mine'[u]
                   PROVE  mine'[u][i] \in created' /\ ~Destroying(mine[u][i])'
      OBVIOUS
    <3>2. CASE i \in DOMAIN mine[u] /\ mine'[u][i] = mine[u][i]
      <4>1. mine[u][i] \in created /\ ~Destroying(mine[u][i])
        BY <3>2 DEF Owned
      <4>2. QED BY <2>2, <3>2, <4>1 DEF Destroying
    <3>3. CASE mine'[u][i] = a
      BY <2>2, <2>5, <3>3 DEF Destroying
    <3>4. QED BY <2>4, <3>2, <3>3
  <2>7. ASSUME NEW u \in Thread, NEW w \in Thread, NEW i \in DOMAIN mine'[u],
               NEW j \in DOMAIN mine'[w], mine'[u][i] = mine'[w][j]
        PROVE  u = w /\ i = j
    <3>1. CASE i \in DOMAIN mine[u] /\ mine[u][i] # a
      BY <2>4, <2>7, <3>1 DEF Owned
    <3>2. CASE u = t /\ i = n /\ mine'[u][i] = a
      BY <2>4, <2>7, <3>2
    <3>3. QED BY <2>4, <3>1, <3>2
  <2>8. QED BY <2>6, <2>7 DEF Owned
<1>7. ASSUME NEW t \in Thread, DestroyNext(t)
      PROVE  Owned'
  <2> DEFINE a == Head(mine[t])
  <2>1. /\ mine[t] # <<>> /\ mine' = [mine EXCEPT ![t] = Tail(mine[t])]
        /\ created' = created /\ what'[t] = a
        /\ \A u \in Thread \ {t} : pc'[u] = pc[u] /\ what'[u] = what[u]
    BY <1>1, <1>7 DEF DestroyNext, Destroy, Goto, TypeOK
  <2>2. /\ 1 \in DOMAIN mine[t] /\ a = mine[t][1]
        /\ \A u \in Thread \ {t} : mine'[u] = mine[u]
        /\ \A i \in DOMAIN mine'[t] :
             i \in Nat /\ i + 1 \in DOMAIN mine[t] /\ i + 1 # 1 /\ mine'[t][i] = mine[t][i + 1]
    <3>1. /\ mine[t] \in Seq(Alarm) /\ mine'[t] = Tail(mine[t])
          /\ \A u \in Thread \ {t} : mine'[u] = mine[u]
      BY <1>1, <2>1 DEF TestTyped
    <3> DEFINE s == mine[t]
    <3>2. s \in Seq(Alarm) /\ s # <<>> /\ mine'[t] = Tail(s)
      BY <2>1, <3>1
    <3> HIDE DEF s
    <3>3. /\ Tail(s) \in Seq(Alarm) /\ Len(Tail(s)) = Len(s) - 1
          /\ \A j \in 1..Len(Tail(s)) : Tail(s)[j] = s[j + 1]
      BY <3>2, HeadTailProperties
    <3>4. /\ Len(s) \in Nat /\ DOMAIN s = 1..Len(s) /\ DOMAIN Tail(s) = 1..Len(Tail(s))
          /\ Len(s) # 0 /\ Head(s) = s[1]
      BY <3>2, <3>3, LenProperties, EmptySeq
    <3>5. QED BY <3>1, <3>2, <3>3, <3>4 DEF s
  <2> HIDE DEF a
  <2>3. \A u \in Thread : \A i \in DOMAIN mine'[u] : \E k \in DOMAIN mine[u] :
          /\ mine'[u][i] = mine[u][k] /\ mine[u][k] # a
          /\ k = IF u = t THEN i + 1 ELSE i
    <3>1. ASSUME NEW u \in Thread, NEW i \in DOMAIN mine'[u], u = t
          PROVE  /\ i + 1 \in DOMAIN mine[u] /\ mine'[u][i] = mine[u][i + 1]
                 /\ mine[u][i + 1] # a
      BY <2>2, <3>1 DEF Owned
    <3>2. ASSUME NEW u \in Thread, NEW i \in DOMAIN mine'[u], u # t
          PROVE  i \in DOMAIN mine[u] /\ mine'[u][i] = mine[u][i] /\ mine[u][i] # a
      BY <2>2, <3>2 DEF Owned
    <3>3. QED BY <3>1, <3>2
  <2>4. \A u \in Thread : \A i \in DOMAIN mine'[u] :
          mine'[u][i] \in created' /\ ~Destroying(mine[u][i])'
    <3>1. SUFFICES ASSUME NEW u \in Thread, NEW i \in DOMAIN mine'[u]
                   PROVE  mine'[u][i] \in created' /\ ~Destroying(mine[u][i])'
      OBVIOUS
    <3>2. PICK k \in DOMAIN mine[u] : mine'[u][i] = mine[u][k] /\ mine[u][k] # a
      BY <2>3
    <3>3. mine[u][k] \in created /\ ~Destroying(mine[u][k])
      BY DEF Owned
    <3>4. QED BY <2>1, <3>2, <3>3 DEF Destroying
  <2>5. ASSUME NEW u \in Thread, NEW w \in Thread, NEW i \in DOMAIN mine'[u],
               NEW j \in DOMAIN mine'[w], mine'[u][i] = mine'[w][j]
        PROVE  u = w /\ i = j
    <3>1. u = w /\ (IF u = t THEN i + 1 ELSE i) = (IF w = t THEN j + 1 ELSE j)
      <4>1. PICK k \in DOMAIN mine[u] : /\ mine'[u][i] = mine[u][k]
                                        /\ k = IF u = t THEN i + 1 ELSE i
        BY <2>3
      <4>2. PICK l \in DOMAIN mine[w] : /\ mine'[w][j] = mine[w][l]
                                        /\ l = IF w = t THEN j + 1 ELSE j
        BY <2>3
      <4>3. mine[u][k] = mine[w][l]
        BY <2>5, <4>1, <4>2
      <4>4. u = w /\ k = l
        BY <4>3 DEF Owned
      <4>5. QED BY <4>1, <4>2, <4>4
    <3>2. CASE u = t
      <4>1. i \in Nat /\ j \in Nat
        BY <2>2, <3>1, <3>2
      <4>2. QED BY <3>1, <3>2, <4>1
    <3>3. QED BY <3>1, <3>2
  <2>6. QED BY <2>4, <2>5 DEF Owned
<1>8. QED BY <1>3, <1>4, <1>5, <1>6, <1>7 DEF TestNext, Test

\* A thread inside the library: only Activate changes how an alarm is counted,
\* and not that it is.
LEMMA DrivenByThread ==
  ASSUME Counted, \A d \in Delay : d < MAX_DELAY,
         NEW t \in Thread, ThreadStep(t), UNCHANGED testVars, NEW u \in Thread
  PROVE  Driven(u)'
<1> USE DEF timerVars, alarmVars, localVars, testVars
<1>1. /\ TypeOK /\ Working /\ TestTyped /\ Owned /\ Driven(u) /\ Driven(t)
      /\ pc[t] # "idle" => what[t] \in Alarm
      /\ started[t] \in Nat /\ started[u] \in Nat
      /\ Rung(u)' = Rung(u)
  BY Typing DEF Counted, Tests, TestTyped, Rung, signalVars
<1>2. CASE Activate(t)
  <2>1. /\ pc[t] = "activate" /\ pc' = [pc EXCEPT ![t] = "insert"]
        /\ active' = [active EXCEPT ![what[t]] = TRUE]
        /\ UNCHANGED <<what, delay, mine, step, started>>
        /\ started[t] \in DOMAIN mine[t] /\ what[t] = mine[t][started[t]]
        /\ step[t] = "setup" /\ delay[t] < MAX_DELAY
    BY <1>1, <1>2 DEF Activate, Goto, Driven, InStart
  <2>2. CASE u # t
    <3>1. \A i \in DOMAIN mine[u] : mine[u][i] # what[t] /\ mine[u][i] \in Alarm
      BY <1>1, <2>1, <2>2, ElementOfSeq, LenProperties DEF Owned, TestTyped
    <3>2. pc'[u] = pc[u] /\ \A i \in DOMAIN mine[u] : active'[mine[u][i]] = active[mine[u][i]]
      BY <1>1, <2>1, <2>2, <3>1 DEF TypeOK
    <3>3. step[u] = "begin" => pc'[u] = "idle"
      BY <1>1, <3>2 DEF Driven
    <3>4. QED BY <1>1, <2>1, <3>2, <3>3, StillDriven
  <2>3. CASE u = t
    <3>1. /\ started[t] <= Len(mine[t])
          /\ DOMAIN mine[t] = 1..Len(mine[t]) /\ Len(mine[t]) \in Nat
          /\ \A i \in DOMAIN mine[t] : mine[t][i] \in Alarm
      BY <1>1, <2>1, LenProperties, ElementOfSeq DEF Driven, TestTyped
    <3>2. \A i \in DOMAIN mine[t] :
            /\ i = started[t] => active'[mine[t][i]]
            /\ i # started[t] => active'[mine[t][i]] = active[mine[t][i]] /\ mine[t][i] # what[t]
      <4>1. \A i \in DOMAIN mine[t] : mine[t][i] = what[t] <=> i = started[t]
        BY <1>1, <2>1 DEF Owned
      <4>2. \A i \in DOMAIN mine[t] : i = started[t] => active'[mine[t][i]]
        BY <1>1, <2>1, <3>1 DEF TypeOK
      <4>3. \A i \in DOMAIN mine[t] : i # started[t] => active'[mine[t][i]] = active[mine[t][i]]
        BY <1>1, <2>1, <3>1, <4>1 DEF TypeOK
      <4>4. QED BY <4>1, <4>2, <4>3
    <3>3. pc'[t] = "insert" /\ pc'[t] \notin Setting /\ pc[t] \in Setting
      BY <1>1, <2>1 DEF TypeOK, Setting
    <3>4. ToRing(t)' = ToRing(t)
      <4>1. \A i \in 1..started[t] :
              (active'[mine[t][i]] \/ (what[t] = mine[t][i] /\ pc'[t] \in Setting))
              <=> (active[mine[t][i]] \/ (what[t] = mine[t][i] /\ pc[t] \in Setting))
        <5>1. SUFFICES ASSUME NEW i \in 1..started[t]
                       PROVE  (active'[mine[t][i]] \/ (what[t] = mine[t][i] /\ pc'[t] \in Setting))
                         <=> (active[mine[t][i]] \/ (what[t] = mine[t][i] /\ pc[t] \in Setting))
          OBVIOUS
        <5>2. i \in DOMAIN mine[t]
          BY <1>1, <3>1
        <5>3. CASE i = started[t]
          BY <2>1, <3>2, <3>3, <5>2, <5>3
        <5>4. CASE i # started[t]
          BY <2>1, <3>2, <3>3, <5>2, <5>4
        <5>5. QED BY <5>3, <5>4
      <4>2. QED BY <2>1, <4>1 DEF ToRing
    <3>5. \A i \in DOMAIN mine[t] : active'[mine[t][i]] => i <= started[t]
      <4>1. ASSUME NEW i \in DOMAIN mine[t], active'[mine[t][i]]
            PROVE  i <= started[t]
        <5>1. CASE i = started[t]
          BY <1>1, <5>1
        <5>2. CASE i # started[t]
          BY <1>1, <2>1, <3>2, <4>1, <5>2 DEF Driven
        <5>3. QED BY <5>1, <5>2
      <4>2. QED BY <4>1
    <3>6. QED BY <1>1, <2>1, <2>3, <3>1, <3>3, <3>4, <3>5 DEF Driven
  <2>4. QED BY <2>2, <2>3
<1>3. CASE ~Activate(t)
  <2>1. /\ UNCHANGED <<mine, step, started>>
        /\ \A w \in Thread \ {t} : pc'[w] = pc[w] /\ what'[w] = what[w] /\ delay'[w] = delay[w]
    BY <1>1, <1>3 DEF ThreadStep, StartStep, DestroyStep, Goto, Return, TypeOK,
         Lock, Purge, PurgeEnd, Remove_, Insert, Check, Setup, Unlock,
         DestroyTest, DestroyRemove, Free
  <2>2. /\ pc'[t] \in InStart => pc[t] \in InStart /\ what'[t] = what[t] /\ delay'[t] = delay[t]
        /\ pc'[t] \in Setting <=> pc[t] \in Setting
        /\ active' = active
    <3>1. pc[t] = "remove" => delay[t] < MAX_DELAY /\ ~active[what[t]]
      BY <1>1 DEF Driven, InStart, Setting
    <3>2. CASE Remove_(t)
      <4>1. active' = active
        BY <1>1, <3>1, <3>2 DEF Remove_, Goto, TypeOK
      <4>2. QED BY <1>1, <3>1, <3>2, <4>1 DEF Remove_, Goto, TypeOK, InStart, Setting
    <3>3. CASE ~Remove_(t)
      BY <1>1, <1>3, <3>3 DEF ThreadStep, StartStep, DestroyStep, Goto, Return, TypeOK,
           Lock, Purge, PurgeEnd, Insert, Check, Setup, Unlock,
           DestroyTest, DestroyRemove, Free, InStart, Setting
    <3>4. QED BY <3>2, <3>3
  <2>3. step[u] = "begin" => u # t
    BY <1>1 DEF Driven, ThreadStep, StartStep, DestroyStep, Goto,
         Lock, Purge, PurgeEnd, Remove_, Activate, Insert, Check, Setup, Unlock,
         DestroyTest, DestroyRemove, Free
  <2>4. step[u] = "begin" => pc'[u] = "idle"
    BY <1>1, <2>1, <2>3 DEF Driven
  <2>5. CASE u = t
    BY <1>1, <2>1, <2>2, <2>4, <2>5, StillDriven
  <2>6. CASE u # t
    BY <1>1, <2>1, <2>2, <2>4, <2>6, StillDriven
  <2>7. QED BY <2>5, <2>6
<1>4. QED BY <1>2, <1>3

\* A callback is for one alarm of one driver, which has waited for it.
LEMMA DrivenByCallback ==
  ASSUME Counted, Callback, NEW u \in Thread
  PROVE  Driven(u)'
<1> DEFINE a == queue[isr.pos]
<1>1. /\ TypeOK /\ TestTyped /\ Owned /\ Driven(u)
      /\ Rung(u) \in Int /\ started[u] \in Nat /\ Num[u] \in Nat
      /\ DOMAIN mine[u] = 1..Len(mine[u]) /\ Len(mine[u]) \in Nat
      /\ \A i \in DOMAIN mine[u] : mine[u][i] \in Alarm
  BY Typing, RungType, TestAssumption, LenProperties, ElementOfSeq DEF Counted, Tests, TestTyped
<1>2. /\ active' = [active EXCEPT ![a] = FALSE]
      /\ UNCHANGED <<pc, what, delay, mine, step, started>>
  BY DEF Callback, HandlerDue, localVars
<1>3. u \in Owner(a) <=> \E i \in DOMAIN mine[u] : mine[u][i] = a
  BY DEF Owner, ToSet
<1>4. \A i \in DOMAIN mine[u] :
        /\ mine[u][i] = a => ~active'[mine[u][i]]
        /\ mine[u][i] # a => active'[mine[u][i]] = active[mine[u][i]]
  BY <1>1, <1>2 DEF TypeOK
\* No other alm_test_cb that counts in the same variable is under way.
<1>0. ASSUME step[u] = "setup"
      PROVE  Rung(u)' = IF active[a] /\ u \in Owner(a) THEN Rung(u) + 1 ELSE Rung(u)
  <2>1. /\ counter' = IF Called \cap Counting = {} THEN counter ELSE counter - 1
        /\ posted'[u] = IF u \in Called \ Counting THEN posted[u] + 1 ELSE posted[u]
        /\ Called = IF active[a] THEN Owner(a) ELSE {}
        /\ counter \in Int /\ posted[u] \in Int
    BY DEF Callback, Called, Counted
  <2>2. ASSUME NEW w \in Called \cap Counting, u \in Counting
        PROVE  w = u
    <3>1. w \in Thread /\ \E i \in DOMAIN mine[w] : mine[w][i] = a
      BY <2>1, <2>2 DEF Owner, ToSet
    <3>2. mine[w] # <<>>
      BY <3>1
    <3>3. step[w] \notin {"begin", "end"}
      BY <3>1, <3>2 DEF Counted, Driven, Tests, EndsIdle
    <3>4. QED BY <1>0, <2>2, <3>3 DEF Counted, Exclusive
  <2>3. CASE u \in Counting
    <3>1. Called \cap Counting = {} <=> u \notin Called
      BY <2>2, <2>3
    <3>2. CASE u \in Called
      BY <1>1, <2>1, <2>3, <3>1, <3>2 DEF Rung
    <3>3. CASE u \notin Called
      BY <1>1, <2>1, <2>3, <3>1, <3>3 DEF Rung
    <3>4. QED BY <3>2, <3>3
  <2>4. CASE u \notin Counting
    BY <2>1, <2>4 DEF Rung
  <2>5. QED BY <2>3, <2>4
<1> HIDE DEF a
<1>5. CASE active[a] /\ u \in Owner(a)
  <2>1. PICK k \in DOMAIN mine[u] : mine[u][k] = a
    BY <1>3, <1>5
  <2>2. \A i \in DOMAIN mine[u] : mine[u][i] = a <=> i = k
    BY <1>1, <2>1 DEF Owned
  <2>3. \A i \in DOMAIN mine[u] : active'[mine[u][i]] => active[mine[u][i]]
    BY <1>4
  <2>4. pc[u] \in Setting => ~active'[what[u]]
    <3>1. SUFFICES ASSUME pc[u] \in Setting PROVE ~active'[what[u]]
      OBVIOUS
    <3>2. started[u] \in DOMAIN mine[u] /\ what[u] = mine[u][started[u]] /\ ~active[what[u]]
      BY <1>1, <3>1 DEF Driven, Setting, InStart
    <3>3. QED BY <2>3, <3>2
  <2>5. ASSUME step[u] = "setup"
        PROVE  Rung(u)' = started[u] - Cardinality(ToRing(u)')
    <3>1. k \in 1..started[u] /\ k \in ToRing(u)
      BY <1>1, <1>5, <2>1, <2>5 DEF Driven, ToRing
    <3>2. \A i \in 1..started[u] : i \in DOMAIN mine[u]
      BY <1>1, <2>5 DEF Driven
    <3>3. ~(what[u] = mine[u][k] /\ pc[u] \in Setting)
      BY <1>1, <1>5, <2>1 DEF Driven
    <3>4. \A i \in 1..started[u] :
            (active'[mine[u][i]] \/ (what[u] = mine[u][i] /\ pc[u] \in Setting))
            <=> i # k /\ (active[mine[u][i]] \/ (what[u] = mine[u][i] /\ pc[u] \in Setting))
      <4>1. SUFFICES ASSUME NEW i \in 1..started[u]
                     PROVE  (active'[mine[u][i]] \/ (what[u] = mine[u][i] /\ pc[u] \in Setting))
                       <=> i # k /\ (active[mine[u][i]] \/ (what[u] = mine[u][i] /\ pc[u] \in Setting))
        OBVIOUS
      <4>2. i \in DOMAIN mine[u]
        BY <3>2
      <4>3. CASE i = k
        BY <1>4, <2>1, <3>3, <4>2, <4>3
      <4>4. CASE i # k
        BY <1>4, <2>2, <4>2, <4>4
      <4>5. QED BY <4>3, <4>4
    <3>5. ToRing(u)' = ToRing(u) \ {k}
      BY <1>2, <3>4 DEF ToRing
    <3>6. Cardinality(ToRing(u)') = Cardinality(ToRing(u)) - 1
      BY <1>1, <3>1, <3>5, ToRingFinite, FS_RemoveElement
    <3>7. Rung(u) = started[u] - Cardinality(ToRing(u))
      BY <1>1, <2>5 DEF Driven
    <3>8. Cardinality(ToRing(u)) \in Nat
      BY <1>1, ToRingFinite
    <3>9. Rung(u)' = Rung(u) + 1
      BY <1>0, <1>5, <2>5
    <3>10. QED BY <1>1, <3>6, <3>7, <3>8, <3>9
  <2>7. \A i \in DOMAIN mine[u] : step[u] = "setup" /\ active'[mine[u][i]] => i <= started[u]
    BY <1>1, <2>3 DEF Driven
  <2>8. Driven(u)
    BY <1>1
  <2>9. QED BY <1>2, <2>4, <2>5, <2>7, <2>8 DEF Driven
<1>6. CASE ~(active[a] /\ u \in Owner(a))
  <2>1. \A i \in DOMAIN mine[u] : active'[mine[u][i]] = active[mine[u][i]]
    <3>1. ASSUME NEW i \in DOMAIN mine[u], mine[u][i] = a
          PROVE  active'[mine[u][i]] = active[mine[u][i]]
      <4>1. active[mine[u][i]] \in BOOLEAN /\ active'[mine[u][i]] \in BOOLEAN
        BY <1>1, <1>2 DEF TypeOK
      <4>2. QED BY <1>3, <1>4, <1>6, <3>1, <4>1
    <3>2. QED BY <1>4, <3>1
  <2>2. step[u] = "begin" => pc'[u] = "idle"
    BY <1>1, <1>2 DEF Driven
  <2>3. step[u] = "setup" => Rung(u)' = Rung(u)
    BY <1>0, <1>6
  <2>4. QED BY <1>1, <1>2, <2>1, <2>2, <2>3, StillDriven
<1>7. QED BY <1>5, <1>6

\* A driver's own steps.
LEMMA DrivenByTest ==
  ASSUME OneAtATime = TRUE, Counted, \A d \in Delay : d < MAX_DELAY,
         NEW t \in Thread, Test(t), NEW u \in Thread
  PROVE  Driven(u)'
<1> USE DEF timerVars, alarmVars, localVars
<1>1. /\ TypeOK /\ Working /\ TestTyped /\ Owned /\ Driven(u) /\ Driven(t)
      /\ counter \in Int /\ posted \in [Thread -> Int]
      /\ started[t] \in Nat /\ Num[t] \in Nat
      /\ mine[t] \in Seq(Alarm) /\ DOMAIN mine[t] = 1..Len(mine[t]) /\ Len(mine[t]) \in Nat
  BY Typing, TestAssumption, LenProperties DEF Counted, Tests, TestTyped
<1>2. \A w \in Thread : \A i \in DOMAIN mine[w] : mine[w][i] \in Alarm
  BY <1>1, LenProperties, ElementOfSeq DEF TestTyped
<1>3. Setting \subseteq InStart /\ "idle" \notin InStart
  BY DEF Setting, InStart
<1>10. signalVars' = signalVars => Rung(u)' = Rung(u) /\ Rung(t)' = Rung(t)
  BY DEF Rung, signalVars
\* Another driver, or one that is past counting.
<1>4. ASSUME mine'[u] = mine[u], step'[u] = step[u], started'[u] = started[u],
             step[u] = "setup" => Rung(u)' = Rung(u), pc'[u] = pc[u], what'[u] = what[u], delay'[u] = delay[u],
             \A i \in DOMAIN mine[u] : active'[mine[u][i]] = active[mine[u][i]]
      PROVE  Driven(u)'
  <2>1. step[u] = "begin" => pc'[u] = "idle"
    BY <1>1, <1>4 DEF Driven
  <2>2. QED BY <1>1, <1>4, <2>1, StillDriven
<1>5. CASE Begin(t) \/ Wait(t) \/ End(t)
  <2>1. /\ UNCHANGED <<active, pc, what, delay, mine, started>> /\ pc[t] = "idle"
        /\ \A w \in Thread \ {t} : step'[w] = step[w]
        /\ step'[t] \in {"setup", "clear", "end"}
        /\ step'[t] = "setup" => step[t] = "begin"
    BY <1>1, <1>5 DEF Begin, Wait, End, Ready, TestTyped, vars
  <2>5. step'[t] = "setup" => Rung(t)' = 0
    BY <1>1, <1>5, <2>1 DEF Begin, Wait, End, TestTyped, Rung
  <2>6. ASSUME u # t, step[u] = "setup" PROVE Rung(u)' = Rung(u)
    <3>1. /\ counter' = counter \/ (t \in Counting /\ Alone(t))
          /\ posted'[u] = posted[u]
      BY <1>1, <1>5, <2>6 DEF Begin, Wait, End, signalVars
    <3>2. u \in Counting => counter' = counter
      BY <2>6, <3>1 DEF Alone
    <3>3. QED BY <3>1, <3>2 DEF Rung
  <2>2. CASE u # t
    BY <1>4, <2>1, <2>2, <2>6
  <2>3. CASE u = t
    <3>1. ASSUME step'[t] = "setup"
          PROVE  /\ started[t] = 0 /\ DOMAIN mine[t] = {} /\ Len(mine[t]) = 0
                 /\ Cardinality(ToRing(t)') = 0
      <4>1. started[t] = 0 /\ mine[t] = <<>>
        BY <1>1, <2>1, <3>1 DEF Driven
      <4>2. ToRing(t)' = {}
        BY <2>1, <4>1 DEF ToRing
      <4>3. Len(mine[t]) = 0 /\ DOMAIN mine[t] = {}
        BY <1>1, <4>1
      <4>4. QED BY <4>1, <4>2, <4>3, FS_EmptySet
    <3>2. QED BY <1>1, <1>3, <2>1, <2>3, <2>5, <3>1 DEF Driven
  <2>4. QED BY <2>2, <2>3
<1>6. CASE CreateNext(t)
  <2>1. PICK a \in Alarm : Create(t, a) /\ mine' = [mine EXCEPT ![t] = Append(@, a)]
    BY <1>6 DEF CreateNext
  <2>2. /\ UNCHANGED <<what, delay, step, started, signalVars>>
        /\ pc' = pc /\ pc[t] = "idle" /\ step[t] = "setup"
        /\ a \notin created /\ active' = [active EXCEPT ![a] = FALSE]
        /\ \A w \in Thread \ {t} : mine'[w] = mine[w]
        /\ mine'[t] = Append(mine[t], a)
    <3>1. /\ UNCHANGED <<what, delay, step, started, signalVars>>
          /\ pc[t] = "idle" /\ pc' = [pc EXCEPT ![t] = "idle"] /\ step[t] = "setup"
          /\ a \notin created /\ active' = [active EXCEPT ![a] = FALSE]
      BY <1>6, <2>1 DEF CreateNext, Create, Goto, Ready
    <3>2. pc' = pc
      BY <1>1, <3>1 DEF TypeOK
    <3>3. mine \in [Thread -> Seq(Alarm)]
      BY <1>1 DEF TestTyped
    <3>4. mine'[t] = Append(mine[t], a) /\ \A w \in Thread \ {t} : mine'[w] = mine[w]
      BY <2>1, <3>3
    <3>5. QED BY <3>1, <3>2, <3>4
  <2>3. \A w \in Thread : \A i \in DOMAIN mine[w] :
          mine[w][i] # a /\ active'[mine[w][i]] = active[mine[w][i]]
    <3>1. \A w \in Thread : \A i \in DOMAIN mine[w] : mine[w][i] # a
      BY <1>1, <2>2 DEF Owned
    <3>2. QED BY <1>1, <1>2, <2>2, <3>1 DEF TypeOK
  <2>4. CASE u # t
    BY <1>4, <1>10, <2>2, <2>3, <2>4
  <2>5. CASE u = t
    <3> DEFINE n == Len(mine[t]) + 1
    <3>1. /\ Len(mine'[t]) = n /\ DOMAIN mine'[t] = 1..n
          /\ mine'[t][n] = a
          /\ \A i \in DOMAIN mine[t] : mine'[t][i] = mine[t][i]
      BY <1>1, <2>2, AppendProperties, LenProperties
    <3>2. ~active'[a]
      BY <1>1, <2>2 DEF TypeOK
    <3>3. started[t] <= Len(mine[t]) /\ started[t] <= n
      BY <1>1, <2>2 DEF Driven
    <3>4. \A i \in 1..n : active'[mine'[t][i]] => i <= started[t]
      <4>1. SUFFICES ASSUME NEW i \in 1..n, active'[mine'[t][i]] PROVE i <= started[t]
        OBVIOUS
      <4>2. i \in DOMAIN mine[t] /\ mine'[t][i] = mine[t][i]
        BY <1>1, <3>1, <3>2, <4>1
      <4>3. QED BY <1>1, <2>2, <2>3, <4>1, <4>2 DEF Driven
    <3>5. ToRing(t)' = ToRing(t)
      <4>1. \A i \in 1..started[t] : i \in DOMAIN mine[t]
        BY <1>1, <3>3
      <4>2. \A i \in 1..started[t] :
              mine'[t][i] = mine[t][i] /\ active'[mine'[t][i]] = active[mine[t][i]]
        BY <2>3, <3>1, <4>1
      <4>3. pc'[t] = pc[t] /\ what'[t] = what[t] /\ started'[t] = started[t]
        BY <2>2
      <4>4. QED BY <4>2, <4>3 DEF ToRing
    <3> HIDE DEF n
    <3>6. QED
      BY <1>1, <1>3, <1>10, <2>2, <2>5, <3>1, <3>3, <3>4, <3>5 DEF Driven
  <2>6. QED BY <2>4, <2>5
<1>7. CASE StartNext(t)
  <2> DEFINE n == started[t] + 1
  <2>1. PICK d \in Delay : Start(t, mine[t][n], d)
    BY <1>7 DEF StartNext
  <2>2. /\ n \in DOMAIN mine[t] /\ n <= Len(mine[t])
        /\ pc[t] = "idle" /\ pc'[t] = "lock" /\ step[t] = "setup"
        /\ what'[t] = mine[t][n] /\ delay'[t] = d /\ started'[t] = n
        /\ UNCHANGED <<mine, step, active, signalVars>>
        /\ \A w \in Thread \ {t} : /\ pc'[w] = pc[w] /\ what'[w] = what[w]
                                   /\ delay'[w] = delay[w] /\ started'[w] = started[w]
    <3>1. /\ step[t] = "setup" /\ started[t] < Len(mine[t])
          /\ pc[t] = "idle" /\ pc' = [pc EXCEPT ![t] = "lock"]
          /\ what' = [what EXCEPT ![t] = mine[t][n]] /\ delay' = [delay EXCEPT ![t] = d]
          /\ UNCHANGED <<mine, step, active, signalVars>>
          /\ started' = [started EXCEPT ![t] = n]
      BY <1>7, <2>1 DEF StartNext, Start, Goto, Ready
    <3>2. n \in DOMAIN mine[t] /\ n <= Len(mine[t])
      BY <1>1, <3>1
    <3>3. QED BY <1>1, <3>1, <3>2 DEF TypeOK, TestTyped
  <2>3. CASE u # t
    BY <1>4, <1>10, <2>2, <2>3
  <2>4. CASE u = t
    <3>1. ~active[mine[t][n]] /\ \A i \in DOMAIN mine[t] : active[mine[t][i]] => i <= n
      BY <1>1, <2>2 DEF Driven
    <3>2. \A i \in 1..n : i \in DOMAIN mine[t] /\ (mine[t][i] = mine[t][n] <=> i = n)
      BY <1>1, <2>2 DEF Owned
    <3>3. pc'[t] \in Setting /\ pc'[t] \in InStart /\ pc[t] \notin Setting
      BY <2>2 DEF Setting, InStart
    <3>4. n \notin ToRing(t) /\ ToRing(t)' = ToRing(t) \cup {n}
      <4>1. ToRing(t)' = {i \in 1..n : active[mine[t][i]] \/ mine[t][n] = mine[t][i]}
        BY <2>2, <3>3 DEF ToRing
      <4>2. ToRing(t) = {i \in 1..started[t] : active[mine[t][i]]}
        BY <3>3 DEF ToRing
      <4>3. 1..n = (1..started[t]) \cup {n} /\ n \notin 1..started[t]
        BY <1>1
      <4> HIDE DEF n
      <4>4. QED BY <3>1, <3>2, <4>1, <4>2, <4>3
    <3>5. Cardinality(ToRing(t)') = Cardinality(ToRing(t)) + 1
      BY <1>1, <3>4, ToRingFinite, FS_AddElement
    <3>6. /\ Rung(t) = started[t] - Cardinality(ToRing(t))
          /\ Cardinality(ToRing(t)) \in Nat
      BY <1>1, <2>2, ToRingFinite DEF Driven
    <3>7. Rung(t)' = n - Cardinality(ToRing(t)')
      <4>1. Rung(t)' = Rung(t)
        BY <1>10, <2>2
      <4>2. QED BY <1>1, <3>5, <3>6, <4>1
    <3>8. d < MAX_DELAY
      BY <2>1
    <3> HIDE DEF n
    <3>9. QED
      BY <2>2, <2>4, <3>1, <3>3, <3>6, <3>7, <3>8 DEF Driven
  <2>5. QED BY <2>3, <2>4
<1>8. CASE DestroyNext(t)
  <2> DEFINE a == Head(mine[t])
  <2>1. /\ mine[t] # <<>> /\ step[t] = "clear" /\ pc'[t] = "test"
        /\ UNCHANGED <<step, started, signalVars, delay>>
        /\ active' = [active EXCEPT ![a] = FALSE]
        /\ \A w \in Thread \ {t} : pc'[w] = pc[w] /\ what'[w] = what[w] /\ mine'[w] = mine[w]
    BY <1>1, <1>8 DEF DestroyNext, Destroy, Goto, Ready, TypeOK, TestTyped
  <2>2. CASE u = t
    <3>1. pc'[t] \notin InStart
      BY <2>1 DEF InStart
    <3>2. QED BY <1>1, <1>3, <2>1, <2>2, <3>1 DEF Driven
  <2>3. CASE u # t
    <3>1. 1 \in DOMAIN mine[t] /\ a = mine[t][1]
      BY <1>1, <2>1, EmptySeq
    <3>2. \A i \in DOMAIN mine[u] : mine[u][i] # a
      BY <1>1, <2>3, <3>1 DEF Owned
    <3>3. \A i \in DOMAIN mine[u] : active'[mine[u][i]] = active[mine[u][i]]
      BY <1>1, <1>2, <2>1, <3>2 DEF TypeOK
    <3>4. QED BY <1>4, <1>10, <2>1, <2>3, <3>3
  <2>4. QED BY <2>2, <2>3
<1>9. QED BY <1>5, <1>6, <1>7, <1>8 DEF Test

\* The invariant of the counters holds initially.
LEMMA CountedInit == TestInit => Counted
<1> SUFFICES ASSUME TestInit PROVE Counted
  OBVIOUS
<1>1. Tests
  BY TestsInit
<1>2. /\ counter \in Int /\ posted \in [Thread -> Int] /\ Exclusive
      /\ \A t \in Thread : DOMAIN mine[t] = {}
  BY TestAssumption DEF TestInit, Exclusive
<1>3. Owned
  BY <1>2 DEF Owned
<1>4. ASSUME NEW t \in Thread
      PROVE  Driven(t)
  <2>1. pc[t] = "idle" /\ step[t] = "begin" /\ mine[t] = <<>> /\ started[t] = 0
    BY <1>4 DEF TestInit, Init
  <2>2. QED BY <1>2, <2>1 DEF Driven, InStart, Setting
<1>5. QED BY <1>1, <1>2, <1>3, <1>4 DEF Counted

\* Every step keeps the counters right.
LEMMA CountedNext ==
  ASSUME DestroyRaces = FALSE, OneAtATime = TRUE, \A d \in Delay : d < MAX_DELAY
  PROVE  Counted /\ [TestNext]_testSpecVars => Counted'
<1> SUFFICES ASSUME Counted, [TestNext]_testSpecVars PROVE Counted'
  OBVIOUS
<1>1. Tests' /\ Owned'
  BY TestsNext, OwnedNext DEF Counted
<1>2. ASSUME NEW u \in Thread
      PROVE  Driven(u)'
  <2>1. CASE Timer_ \/ Handler_ \/ UNCHANGED testSpecVars
    <3>1. UNCHANGED <<mine, step, started, signalVars, pc, what, delay, active>>
      BY <2>1 DEF Timer_, Handler_, Tick, TimerExpires, HandlerEnter, HandlerSkip, HandlerSetup,
                  alarmVars, localVars, testVars, testSpecVars, vars
    <3>2. TestTyped /\ Driven(u)
      BY DEF Counted, Tests
    <3>3. step[u] = "begin" => pc'[u] = "idle"
      BY <3>1, <3>2 DEF Driven
    <3>4. QED BY <3>1, <3>2, <3>3, StillDriven DEF Rung, signalVars
  <2>2. CASE Callback
    BY <2>2, DrivenByCallback
  <2>3. ASSUME NEW t \in Thread, ThreadStep(t) /\ UNCHANGED testVars
        PROVE  Driven(u)'
    BY <2>3, DrivenByThread
  <2>4. ASSUME NEW t \in Thread, Test(t)
        PROVE  Driven(u)'
    BY <2>4, DrivenByTest
  <2>5. QED BY <2>1, <2>2, <2>3, <2>4 DEF TestNext
<1>3. counter' \in Int /\ posted' \in [Thread -> Int]
  <2>1. /\ counter \in Int /\ counter - 1 \in Int /\ posted \in [Thread -> Int]
        /\ \A t \in Thread : Num[t] \in Int /\ posted[t] + 1 \in Int /\ posted[t] - 1 \in Int
    BY TestAssumption DEF Counted
  <2>2. CASE Callback
    BY <2>1, <2>2 DEF Callback
  <2>3. CASE Timer_ \/ Handler_ \/ UNCHANGED testSpecVars
             \/ \E t \in Thread : ThreadStep(t) /\ UNCHANGED testVars
    BY <2>1, <2>3 DEF Timer_, Handler_, testVars, testSpecVars, signalVars
  <2>4. ASSUME NEW t \in Thread, Test(t)
        PROVE  counter' \in Int /\ posted' \in [Thread -> Int]
    BY <2>1, <2>4 DEF Test, Begin, CreateNext, StartNext, Wait, DestroyNext, End, signalVars
  <2>5. QED BY <2>2, <2>3, <2>4 DEF TestNext
<1>5. Exclusive'
  <2>1. Exclusive /\ TestTyped
    BY DEF Counted, Tests
  <2>2. ASSUME NEW t \in Thread, Begin(t) PROVE Exclusive'
    <3>1. /\ \A u \in Thread \ {t} : step'[u] = step[u]
          /\ t \in Counting => Alone(t)
      BY <2>1, <2>2 DEF Begin, TestTyped
    <3>2. QED BY <2>1, <3>1, TestAssumption DEF Exclusive, Alone
  <2>3. ASSUME NEW t \in Thread, Wait(t) \/ End(t) PROVE Exclusive'
    <3>1. /\ \A u \in Thread \ {t} : step'[u] = step[u]
          /\ step[t] \notin {"begin", "end"}
      BY <2>1, <2>3 DEF Wait, End, Ready, TestTyped
    <3>2. QED BY <2>1, <3>1, TestAssumption DEF Exclusive
  <2>4. CASE step' = step
    BY <2>1, <2>4 DEF Exclusive
  <2>5. QED
    BY <2>2, <2>3, <2>4 DEF TestNext, Test, Timer_, Handler_, Callback, CreateNext, StartNext,
         DestroyNext, testVars, testSpecVars
<1>4. QED BY <1>1, <1>2, <1>3, <1>5 DEF Counted

\* Every driver has counted exactly the callbacks that have come, for any number of
\* drivers and alarms, although all alm_test_cb count in one variable, if they run
\* one after the other; two at a time overwrite each other's count.  A driver that
\* asks for a delay that alm_start refuses waits for ever.
THEOREM CounterCorrect ==
  ASSUME DestroyRaces = FALSE, OneAtATime = TRUE, \A d \in Delay : d < MAX_DELAY
  PROVE  TestSpec => []CounterExact
<1>1. ASSUME Counted
      PROVE  CounterExact
  <2>1. SUFFICES ASSUME NEW t \in Thread, step[t] = "setup"
                 PROVE  LET own == {i \in 1..started[t] : active[mine[t][i]]}
                            setting == {i \in 1..started[t] : what[t] = mine[t][i]
                                          /\ pc[t] \in {"lock", "purge", "remove", "activate"}}
                        IN  Rung(t) = started[t] - Cardinality(own \cup setting)
    BY DEF CounterExact
  <2> DEFINE own == {i \in 1..started[t] : active[mine[t][i]]}
             setting == {i \in 1..started[t] : what[t] = mine[t][i]
                           /\ pc[t] \in {"lock", "purge", "remove", "activate"}}
  <2>2. ToRing(t) = own \cup setting
    BY DEF ToRing, Setting
  <2>3. Rung(t) = started[t] - Cardinality(ToRing(t))
    BY <1>1, <2>1 DEF Counted, Driven
  <2>4. QED BY <2>2, <2>3
<1>2. QED BY <1>1, CountedInit, CountedNext, PTL DEF TestSpec
=============================================================================
