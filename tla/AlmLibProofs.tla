---------------------------- MODULE AlmLibProofs ----------------------------
(***************************************************************************)
(* Theorems about AlmLib, for every value of its constants.                *)
(***************************************************************************)
EXTENDS AlmLib, QueueLemmas

\* The delay handed to the timer is a natural number; the interrupt comes no
\* later than the due date, or MIN_WAIT from now.
LEMMA SetupDelayProperties ==
  ASSUME NEW due \in Nat, time \in Nat
  PROVE  /\ SetupDelay(due) \in Nat
         /\ time + SetupDelay(due) <= due \/ time + SetupDelay(due) <= time + MIN_WAIT
BY ConstantsAssumption DEF SetupDelay

-----------------------------------------------------------------------------
(* Types. *)

Typed == TypeOK /\ Working
IsrType == [pc : {"idle", "due", "skip"}, pos : Nat \ {0}, now : Nat]

\* alm_setup_alarm keeps the types of next_due and the timer.
LEMMA SetupAlarmType ==
  ASSUME TypeOK, NEW due \in Nat, NEW b \in BOOLEAN, SetupAlarm(due, b)
  PROVE  next_due' \in Nat /\ hw' \in Nat \cup {Off} /\ pending' \in BOOLEAN
<1>1. time \in Nat
  BY DEF TypeOK
<1>2. SetupDelay(due) \in Nat
  BY <1>1, SetupDelayProperties
<1>3. QED BY <1>1, <1>2 DEF SetupAlarm, TypeOK

\* alm_remove keeps the types of the list and its flags.
LEMMA RemoveAlarmType ==
  ASSUME TypeOK, NEW a \in Alarm, RemoveAlarm(a)
  PROVE  queue' \in Seq(Alarm) /\ enqueued' \in [Alarm -> BOOLEAN]
<1>1. queue \in Seq(Alarm) /\ DOMAIN queue = 1..Len(queue)
  BY LenProperties DEF TypeOK
<1>2. \A i \in DOMAIN queue : RemoveAt(queue, i) \in Seq(Alarm)
  BY <1>1, RemoveAtProperties
<1>3. enqueued' \in [Alarm -> BOOLEAN]
  BY DEF RemoveAlarm, TypeOK
<1>4. queue' = queue \/ \E i \in DOMAIN queue : queue' = RemoveAt(queue, i)
  BY DEF RemoveAlarm
<1>5. QED BY <1>1, <1>2, <1>3, <1>4

\* The first layer holds initially.
LEMMA TypedInit == Init => Typed
<1>1. ASSUME Init PROVE Typed
  <2>1. time = 0 /\ MAX_WAIT \in Nat
    BY <1>1, ConstantsAssumption DEF Init
  <2>2. next_due \in Nat
    BY <1>1, <2>1, SetupDelayProperties DEF Init
  <2>3. isr \in IsrType
    BY <1>1 DEF Init, IsrIdle, IsrType
  <2>4. queue \in Seq(Alarm)
    BY <1>1 DEF Init
  <2>5. QED BY <1>1, <2>2, <2>3, <2>4, ConstantsAssumption
            DEF IsrType, Init, Typed, TypeOK, Working, IsrIdle, InStart, InDestroy, Off
<1>2. QED BY <1>1

\* Every step keeps the types.
LEMMA TypedNext == Typed /\ [Next]_vars => Typed'
<1> SUFFICES ASSUME Typed, [Next]_vars PROVE Typed'
  OBVIOUS
<1> USE ConstantsAssumption DEF Typed, timerVars, alarmVars, localVars
<1>1. CASE Tick
  BY <1>1 DEF Tick, TypeOK, Working
<1>2. CASE TimerExpires
  BY <1>2 DEF TimerExpires, TypeOK, Working
<1>3. CASE HandlerEnter
  <2>1. isr' \in IsrType
    BY <1>3 DEF HandlerEnter, TypeOK, IsrType
  <2>2. QED BY <1>3, <2>1 DEF HandlerEnter, TypeOK, Working, IsrType
<1>4. CASE HandlerDue
  <2>1. isr' \in IsrType
    <3>1. isr \in IsrType /\ isr' = [isr EXCEPT !.pos = @ + 1]
      BY <1>4 DEF HandlerDue, TypeOK, IsrType
    <3>2. isr.pos + 1 \in Nat \ {0}
      BY <3>1 DEF IsrType
    <3>3. QED BY <3>1, <3>2 DEF IsrType
  <2>2. active' \in [Alarm -> BOOLEAN]
    BY <1>4 DEF HandlerDue, TypeOK
  <2>3. QED BY <1>4, <2>1, <2>2 DEF HandlerDue, TypeOK, Working, IsrType
<1>5. CASE HandlerSkip
  <2>1. isr' \in IsrType
    <3>1. isr \in IsrType /\ isr' = [isr EXCEPT !.pc = "skip", !.pos = @ + 1]
      BY <1>5 DEF HandlerSkip, TypeOK, IsrType
    <3>2. isr.pos + 1 \in Nat \ {0}
      BY <3>1 DEF IsrType
    <3>3. QED BY <3>1, <3>2 DEF IsrType
  <2>2. QED BY <1>5, <2>1 DEF HandlerSkip, TypeOK, Working, IsrType
<1>6. CASE HandlerSetup
  <2>1. isr.pos \in Nat \ {0} /\ isr.now \in Nat /\ queue \in Seq(Alarm)
    BY DEF TypeOK
  <2>2. isr.pos <= Len(queue) => time_due[queue[isr.pos]] \in Nat
    BY <2>1 DEF TypeOK
  <2>3. (IF isr.pos <= Len(queue) THEN time_due[queue[isr.pos]] ELSE isr.now + MAX_WAIT) \in Nat
    BY <2>1, <2>2
  <2>4. next_due' \in Nat /\ hw' \in Nat \cup {Off} /\ pending' \in BOOLEAN
    BY <1>6, <2>3, SetupAlarmType DEF HandlerSetup
  <2>5. isr' \in [pc : {"idle", "due", "skip"}, pos : Nat \ {0}, now : Nat]
    BY <1>6 DEF HandlerSetup, IsrIdle
  <2>6. QED BY <1>6, <2>4, <2>5 DEF HandlerSetup, TypeOK, Working
<1>7. ASSUME NEW t \in Thread, StartStep(t)
      PROVE  Typed'
  <2>0. t \in Thread /\ (pc[t] # "idle" => what[t] \in Alarm)
    BY DEF TypeOK, Working
  <2>1. CASE Lock(t)
    BY <2>1 DEF Lock, Goto, TypeOK, Working, InStart
  <2>2. CASE Purge(t)
    <3>1. enqueued' \in [Alarm -> BOOLEAN]
      BY <2>2 DEF Purge, TypeOK
    <3>2. cur[t] + 1 \in Nat /\ cur' = [cur EXCEPT ![t] = cur[t] + 1]
      BY <2>2 DEF Purge, TypeOK
    <3>3. cur' \in [Thread -> Nat]
      BY <3>2 DEF TypeOK
    <3>4. pc' = pc
      BY <2>2 DEF Purge, Goto, TypeOK
    <3>5. QED BY <2>2, <3>1, <3>3, <3>4 DEF Purge, TypeOK, Working
  <2>3. CASE PurgeEnd(t)
    <3>1. queue' \in Seq(Alarm)
      BY <2>3, CutProperties DEF PurgeEnd, TypeOK
    <3>2. QED BY <2>3, <3>1 DEF PurgeEnd, Goto, TypeOK, Working, InStart
  <2>4. CASE Remove_(t)
    <3>1. what[t] \in Alarm
      BY <2>0, <2>4 DEF Remove_, Goto
    <3>2. queue' \in Seq(Alarm) /\ enqueued' \in [Alarm -> BOOLEAN]
      BY <2>4, <3>1, RemoveAlarmType DEF Remove_
    <3>3. QED BY <2>4, <3>2 DEF Remove_, Goto, TypeOK, Working, InStart
  <2>5. CASE Activate(t)
    BY <2>5 DEF Activate, Goto, TypeOK, Working, InStart
  <2>6. CASE Insert(t)
    <3>1. what[t] \in Alarm
      BY <2>0, <2>6 DEF Insert, Goto
    <3>2. PICK k \in 0..Len(queue) : queue' = InsertAt(queue, k + 1, what[t])
      BY <2>6 DEF Insert
    <3>3. queue \in Seq(Alarm) /\ k + 1 \in 1..(Len(queue) + 1)
      BY LenProperties DEF TypeOK
    <3>4. queue' \in Seq(Alarm)
      BY <3>1, <3>2, <3>3, InsertAtProperties
    <3>5. QED BY <2>6, <3>4 DEF Insert, Goto, TypeOK, Working, InStart
  <2>7. CASE Check(t)
    BY <2>7 DEF Check, Goto, TypeOK, Working, InStart
  <2>8. CASE Setup(t)
    <3>1. what[t] \in Alarm
      BY <2>0, <2>8 DEF Setup, Goto
    <3>2. time_due[what[t]] \in Nat
      BY <3>1 DEF TypeOK
    <3>3. next_due' \in Nat /\ hw' \in Nat \cup {Off} /\ pending' \in BOOLEAN
      BY <2>8, <3>2, SetupAlarmType DEF Setup
    <3>4. QED BY <2>8, <3>3 DEF Setup, Goto, TypeOK, Working, InStart
  <2>9. CASE Unlock(t)
    BY <2>9 DEF Unlock, Goto, Return, TypeOK, Working
  <2>10. QED BY <1>7, <2>1, <2>2, <2>3, <2>4, <2>5, <2>6, <2>7, <2>8, <2>9 DEF StartStep
<1>8. ASSUME NEW t \in Thread, DestroyStep(t)
      PROVE  Typed'
  <2>1. CASE DestroyTest(t)
    BY <2>1 DEF DestroyTest, Goto, TypeOK, Working, InDestroy
  <2>2. CASE DestroyRemove(t)
    <3>1. what[t] \in Alarm
      BY <2>2 DEF DestroyRemove, Goto, TypeOK, Working
    <3>2. queue' \in Seq(Alarm) /\ enqueued' \in [Alarm -> BOOLEAN]
      BY <2>2, <3>1, RemoveAlarmType DEF DestroyRemove
    <3>3. QED BY <2>2, <3>2 DEF DestroyRemove, Goto, TypeOK, Working, InDestroy
  <2>3. CASE Free(t)
    BY <2>3 DEF Free, Goto, Return, TypeOK, Working
  <2>4. QED BY <1>8, <2>1, <2>2, <2>3 DEF DestroyStep
<1>9. ASSUME NEW t \in Thread, Call(t)
      PROVE  Typed'
  <2>1. PICK a \in Alarm :
          \/ \E d \in Delay : Start(t, a, d)
          \/ Cancel(t, a) \/ Create(t, a) \/ Destroy(t, a)
    BY <1>9 DEF Call
  <2>2. ASSUME NEW d \in Delay, Start(t, a, d)
        PROVE  Typed'
    BY <2>2 DEF Start, Goto, TypeOK, Working, InStart
  <2>3. CASE Cancel(t, a)
    BY <2>3 DEF Cancel, Goto, TypeOK, Working
  <2>4. CASE Create(t, a)
    BY <2>4 DEF Create, Goto, TypeOK, Working
  <2>5. CASE Destroy(t, a)
    BY <2>5 DEF Destroy, Goto, TypeOK, Working, InDestroy
  <2>6. QED BY <2>1, <2>2, <2>3, <2>4, <2>5
<1>10. CASE UNCHANGED vars
  BY <1>10 DEF vars, TypeOK, Working
<1>11. ASSUME NEW a \in Alarm, CallbackCancels(a)
       PROVE  Typed'
  BY <1>11 DEF CallbackCancels, TypeOK, Working
<1>12. QED
  BY <1>1, <1>2, <1>3, <1>4, <1>5, <1>6, <1>7, <1>8, <1>9, <1>10, <1>11
  DEF Next, HandlerStep, ThreadStep

\* Every variable keeps its type, whatever the threads and interrupts do.
THEOREM TypeCorrect == Spec => []TypeOK
<1>1. Typed => TypeOK
  BY DEF Typed
<1>2. QED BY <1>1, TypedInit, TypedNext, PTL DEF Spec

-----------------------------------------------------------------------------
(* The mutex, and who holds which alarm. *)

Locked == Typed /\ Locking /\ Handles

\* The second layer holds initially.
LEMMA LockedInit == Init => Locked
BY TypedInit, ConstantsAssumption
   DEF Init, Locked, Locking, Handles, InLock, InStart, InDestroy, TypeOK, Typed

\* Every step keeps the mutual exclusion of threads, and of those that share an alarm.
LEMMA LockedNext == Locked /\ [Next]_vars => Locked'
<1> SUFFICES ASSUME Locked, [Next]_vars PROVE Locking' /\ Handles'
  BY TypedNext DEF Locked
<1>1. TypeOK /\ Working /\ Locking /\ Handles /\ TypeOK' /\ Working'
  BY TypedNext DEF Locked, Typed
<1> USE ConstantsAssumption DEF timerVars, alarmVars, localVars
<1>2. ASSUME UNCHANGED <<pc, what, lock, cur, created>>,
             \A a \in Alarm : active'[a] => active[a]
      PROVE  Locking' /\ Handles'
  BY <1>1, <1>2 DEF Locking, Handles, Typed, TypeOK, Working, InDestroy
<1>3. CASE Tick \/ TimerExpires \/ HandlerEnter \/ HandlerSkip \/ HandlerSetup \/ UNCHANGED vars
  BY <1>2, <1>3 DEF Tick, TimerExpires, HandlerEnter, HandlerSkip, HandlerSetup, vars
<1>4. CASE HandlerDue \/ \E a \in Alarm : CallbackCancels(a)
  BY <1>1, <1>2, <1>4 DEF HandlerDue, CallbackCancels, TypeOK
<1>5. ASSUME NEW t \in Thread, StartStep(t)
      PROVE  Locking' /\ Handles'
  <2>1. CASE Lock(t)
    BY <1>1, <2>1 DEF Lock, Goto, TypeOK, Locking, Handles, InLock, InStart, InDestroy
  <2>2. CASE Purge(t)
    BY <1>1, <2>2 DEF Purge, Goto, TypeOK, Locking, Handles, InLock, InStart, InDestroy
  <2>3. CASE PurgeEnd(t)
    BY <1>1, <2>3 DEF PurgeEnd, Goto, TypeOK, Locking, Handles, InLock, InStart, InDestroy
  <2>4. CASE Remove_(t)
    BY <1>1, <2>4 DEF Remove_, Goto, TypeOK, Locking, Handles, InLock, InStart, InDestroy
  <2>5. CASE Activate(t)
    BY <1>1, <2>5 DEF Activate, Goto, TypeOK, Working, Locking, Handles, InLock, InStart, InDestroy
  <2>6. CASE Insert(t)
    BY <1>1, <2>6 DEF Insert, Goto, TypeOK, Locking, Handles, InLock, InStart, InDestroy
  <2>7. CASE Check(t)
    BY <1>1, <2>7 DEF Check, Goto, TypeOK, Locking, Handles, InLock, InStart, InDestroy
  <2>8. CASE Setup(t)
    BY <1>1, <2>8 DEF Setup, Goto, TypeOK, Locking, Handles, InLock, InStart, InDestroy
  <2>9. CASE Unlock(t)
    BY <1>1, <2>9 DEF Unlock, Goto, Return, TypeOK, Working, Locking, Handles, InLock, InStart, InDestroy
  <2>10. QED BY <1>5, <2>1, <2>2, <2>3, <2>4, <2>5, <2>6, <2>7, <2>8, <2>9 DEF StartStep
<1>6. ASSUME NEW t \in Thread, DestroyStep(t)
      PROVE  Locking' /\ Handles'
  <2>1. CASE DestroyTest(t)
    BY <1>1, <2>1 DEF DestroyTest, Goto, TypeOK, Locking, Handles, InLock, InStart, InDestroy
  <2>2. CASE DestroyRemove(t)
    BY <1>1, <2>2 DEF DestroyRemove, Goto, TypeOK, Locking, Handles, InLock, InStart, InDestroy
  <2>3. CASE Free(t)
    BY <1>1, <2>3 DEF Free, Goto, Return, TypeOK, Working, Locking, Handles, InLock, InStart, InDestroy
  <2>4. QED BY <1>6, <2>1, <2>2, <2>3 DEF DestroyStep
<1>7. ASSUME NEW t \in Thread, Call(t)
      PROVE  Locking' /\ Handles'
  <2>1. PICK a \in Alarm :
          \/ \E d \in Delay : Start(t, a, d)
          \/ Cancel(t, a) \/ Create(t, a) \/ Destroy(t, a)
    BY <1>7 DEF Call
  <2>2. ASSUME NEW d \in Delay, Start(t, a, d)
        PROVE  Locking' /\ Handles'
    BY <1>1, <2>2 DEF Start, Usable, Destroying, Goto, TypeOK, Locking, Handles, InLock, InStart, InDestroy
  <2>3. CASE Cancel(t, a)
    BY <1>1, <2>3 DEF Cancel, Goto, TypeOK, Locking, Handles, InLock, InStart, InDestroy
  <2>4. CASE Create(t, a)
    BY <1>1, <2>4 DEF Create, Goto, TypeOK, Locking, Handles, InLock, InStart, InDestroy
  <2>5. CASE Destroy(t, a)
    BY <1>1, <2>5 DEF Destroy, Goto, TypeOK, Locking, Handles, InLock, InStart, InDestroy
  <2>6. QED BY <2>1, <2>2, <2>3, <2>4, <2>5
<1>8. QED
  BY <1>3, <1>4, <1>5, <1>6, <1>7 DEF Next, HandlerStep, ThreadStep

-----------------------------------------------------------------------------
(* The queue.                                                                *)

Queued == Locked /\ QueueFlags /\ QueueSorted

\* No alarm is marked ahead of first_alm unless a thread is purging.
LEMMA NoPurge ==
  ASSUME Locked, \A t \in Thread : lock = t => pc[t] # "purge"
  PROVE  /\ \A t \in Thread : cur[t] = 0
         /\ \A i : ~Purging(i)
BY DEF Locked, Locking, Purging, InLock, InStart

\* The places in the queue.
LEMMA QueueDomain ==
  ASSUME TypeOK
  PROVE  /\ Len(queue) \in Nat /\ DOMAIN queue = 1..Len(queue)
         /\ \A i \in DOMAIN queue : queue[i] \in Alarm
BY LenProperties, ElementOfSeq DEF TypeOK

\* alm_remove leaves the other alarms in the queue, in their order.
LEMMA AfterRemove ==
  ASSUME Queued, NEW a \in Alarm, RemoveAlarm(a),
         \A t \in Thread : cur[t] = 0, \A i : ~Purging(i)
  PROVE  /\ IsInjective(queue')
         /\ \A i \in DOMAIN queue' :
              queue'[i] # a /\ \E j \in DOMAIN queue : queue'[i] = queue[j]
         /\ \A j \in DOMAIN queue :
              queue[j] # a => \E i \in DOMAIN queue' : queue'[i] = queue[j]
         /\ \A i, j \in DOMAIN queue' :
              i < j => time_due[queue'[i]] <= time_due[queue'[j]]
         /\ enqueued' = [enqueued EXCEPT ![a] = FALSE]
<1>1. /\ queue \in Seq(Alarm) /\ Len(queue) \in Nat /\ DOMAIN queue = 1..Len(queue)
      /\ enqueued \in [Alarm -> BOOLEAN]
      /\ IsInjective(queue)
      /\ \A b \in Alarm : enqueued[b] <=> \E i \in DOMAIN queue : queue[i] = b
      /\ \A i, j \in DOMAIN queue : i < j => time_due[queue[i]] <= time_due[queue[j]]
  <2>1. TypeOK /\ QueueFlags /\ QueueSorted
    BY DEF Queued, Locked, Typed
  <2>2. /\ queue \in Seq(Alarm) /\ Len(queue) \in Nat /\ DOMAIN queue = 1..Len(queue)
        /\ enqueued \in [Alarm -> BOOLEAN]
    BY <2>1, QueueDomain DEF TypeOK
  <2>3. \A i, j \in 1..Len(queue) : i < j => time_due[queue[i]] <= time_due[queue[j]]
    BY <2>1 DEF QueueSorted, IsSorted
  <2>4. QED BY <2>1, <2>2, <2>3 DEF QueueFlags
<1>2. CASE ~enqueued[a]
  <2>1. queue' = queue /\ enqueued' = enqueued
    BY <1>2 DEF RemoveAlarm
  <2>2. enqueued' = [enqueued EXCEPT ![a] = FALSE]
    BY <1>1, <1>2, <2>1
  <2>3. QED BY <1>1, <1>2, <2>1, <2>2
<1>3. CASE enqueued[a]
  <2>0. queue # <<>> /\ a \in ToSet(queue)
    <3>1. PICK i \in DOMAIN queue : queue[i] = a
      BY <1>1, <1>3
    <3>2. Len(queue) # 0
      BY <1>1, <3>1
    <3>3. QED BY <1>1, <3>1, <3>2, EmptySeq DEF ToSet
  <2>1. PICK i \in 1..Len(queue) : queue[i] = a /\ queue' = RemoveAt(queue, i)
    BY <1>1, <1>3, <2>0 DEF RemoveAlarm
  <2>2. /\ queue' \in Seq(Alarm)
        /\ Len(queue') = Len(queue) - 1
        /\ \A j \in 1..(Len(queue) - 1) :
             queue'[j] = IF j < i THEN queue[j] ELSE queue[j + 1]
    <3>1. queue \in Seq(Alarm)
      BY <1>1
    <3>2. /\ RemoveAt(queue, i) \in Seq(Alarm)
          /\ Len(RemoveAt(queue, i)) = Len(queue) - 1
          /\ \A j \in 1..(Len(queue) - 1) :
               RemoveAt(queue, i)[j] = IF j < i THEN queue[j] ELSE queue[j + 1]
      BY <3>1, RemoveAtProperties
    <3>3. QED BY <2>1, <3>2
  <2>3. DOMAIN queue' = 1..(Len(queue) - 1)
    BY <2>2, LenProperties
  <2> DEFINE old(j) == IF j < i THEN j ELSE j + 1
  <2>4. \A j \in DOMAIN queue' :
          old(j) \in DOMAIN queue /\ old(j) # i /\ queue'[j] = queue[old(j)]
    BY <1>1, <2>2, <2>3
  <2>5. \A j, k \in DOMAIN queue' : (j < k => old(j) < old(k)) /\ (old(j) = old(k) => j = k)
    BY <2>3
  <2>6. \A j \in DOMAIN queue : j # i => \E k \in DOMAIN queue' : old(k) = j
    <3>1. SUFFICES ASSUME NEW j \in 1..Len(queue), j # i
                   PROVE  \E k \in 1..(Len(queue) - 1) : old(k) = j
      BY <1>1, <2>3
    <3>2. CASE j < i
      <4>1. j \in 1..(Len(queue) - 1) /\ old(j) = j
        BY <1>1, <3>2
      <4>2. QED BY <4>1
    <3>3. CASE j > i
      <4>1. j - 1 \in 1..(Len(queue) - 1) /\ old(j - 1) = j
        BY <1>1, <3>3
      <4>2. QED BY <4>1
    <3>4. QED BY <1>1, <3>1, <3>2, <3>3
  <2> HIDE DEF old
  <2>7. IsInjective(queue')
    BY <1>1, <2>4, <2>5 DEF IsInjective
  <2>8. \A j \in DOMAIN queue' : queue'[j] # a
    BY <1>1, <2>1, <2>4 DEF IsInjective
  <2>9. enqueued' = [enqueued EXCEPT ![a] = FALSE]
    BY <1>3, <2>0 DEF RemoveAlarm
  <2>10. QED BY <1>1, <2>1, <2>4, <2>5, <2>6, <2>7, <2>8, <2>9
<1>4. QED BY <1>2, <1>3

\* alm_insert adds the alarm and keeps the order.
LEMMA AfterInsert ==
  ASSUME Queued, NEW a \in Alarm, NEW k \in 0..Len(queue),
         \A i \in DOMAIN queue : queue[i] # a,
         InsertionPoint(a, k), queue' = InsertAt(queue, k + 1, a)
  PROVE  /\ IsInjective(queue')
         /\ \A i \in DOMAIN queue' :
              queue'[i] = a \/ \E j \in DOMAIN queue : queue'[i] = queue[j]
         /\ \A j \in DOMAIN queue : \E i \in DOMAIN queue' : queue'[i] = queue[j]
         /\ \E i \in DOMAIN queue' : queue'[i] = a
         /\ \A i, j \in DOMAIN queue' :
              i < j => time_due[queue'[i]] <= time_due[queue'[j]]
<1>1. /\ queue \in Seq(Alarm) /\ Len(queue) \in Nat /\ DOMAIN queue = 1..Len(queue)
      /\ IsInjective(queue)
      /\ \A i \in DOMAIN queue : time_due[queue[i]] \in Nat
      /\ time_due[a] \in Nat
      /\ \A i, j \in DOMAIN queue : i < j => time_due[queue[i]] <= time_due[queue[j]]
  <2>1. TypeOK /\ QueueFlags /\ QueueSorted
    BY DEF Queued, Locked, Typed
  <2>2. /\ queue \in Seq(Alarm) /\ Len(queue) \in Nat /\ DOMAIN queue = 1..Len(queue)
        /\ \A i \in DOMAIN queue : queue[i] \in Alarm
    BY <2>1, QueueDomain DEF TypeOK
  <2>3. \A i, j \in 1..Len(queue) : i < j => time_due[queue[i]] <= time_due[queue[j]]
    BY <2>1 DEF QueueSorted, IsSorted
  <2>4. QED BY <2>1, <2>2, <2>3 DEF QueueFlags, TypeOK
<1>2. /\ queue' \in Seq(Alarm)
      /\ Len(queue') = Len(queue) + 1
      /\ \A j \in 1..(Len(queue) + 1) :
           queue'[j] = IF j < k + 1 THEN queue[j] ELSE IF j = k + 1 THEN a ELSE queue[j - 1]
  <2> DEFINE p == k + 1
  <2>1. queue \in Seq(Alarm) /\ p \in 1..(Len(queue) + 1)
    BY <1>1
  <2>2. queue' = InsertAt(queue, p, a)
    OBVIOUS
  <2> HIDE DEF p
  <2>3. InsertAt(queue, p, a) \in Seq(Alarm)
    BY <2>1, InsertAtProperties
  <2>4. Len(InsertAt(queue, p, a)) = Len(queue) + 1
    BY <2>1, InsertAtProperties
  <2>5. \A j \in 1..(Len(queue) + 1) : InsertAt(queue, p, a)[j] =
          IF j < p THEN queue[j] ELSE IF j = p THEN a ELSE queue[j - 1]
    <3> HIDE <2>2
    <3>1. QED BY <2>1, InsertAtProperties, SMTT(30)
  <2>6. QED BY <2>2, <2>3, <2>4, <2>5 DEF p
<1>3. DOMAIN queue' = 1..(Len(queue) + 1) /\ k + 1 \in DOMAIN queue'
  BY <1>1, <1>2, LenProperties
<1> DEFINE old(j) == IF j < k + 1 THEN j ELSE j - 1
<1>4. /\ queue'[k + 1] = a
      /\ \A j \in DOMAIN queue' : j # k + 1 =>
           old(j) \in DOMAIN queue /\ queue'[j] = queue[old(j)]
  BY <1>1, <1>2, <1>3
<1>5. \A i, j \in DOMAIN queue' : i # k + 1 /\ j # k + 1 =>
        (i < j => old(i) < old(j)) /\ (old(i) = old(j) => i = j)
  BY <1>1, <1>3
<1>6. \A j \in DOMAIN queue : \E i \in DOMAIN queue' : i # k + 1 /\ old(i) = j
  <2>1. SUFFICES ASSUME NEW j \in 1..Len(queue)
                 PROVE  \E i \in 1..(Len(queue) + 1) : i # k + 1 /\ old(i) = j
    BY <1>1, <1>3
  <2>2. CASE j <= k
    <3>1. j \in 1..(Len(queue) + 1) /\ j # k + 1 /\ old(j) = j
      BY <1>1, <2>2
    <3>2. QED BY <3>1
  <2>3. CASE j > k
    <3>1. j + 1 \in 1..(Len(queue) + 1) /\ j + 1 # k + 1 /\ old(j + 1) = j
      BY <1>1, <2>3
    <3>2. QED BY <3>1
  <2>4. QED BY <1>1, <2>2, <2>3
<1>7. /\ \A j \in DOMAIN queue : j <= k => time_due[queue[j]] <= time_due[a]
      /\ \A j \in DOMAIN queue : j > k => time_due[queue[j]] >= time_due[a]
  <2>1. \A j \in 1..k : time_due[queue[j]] <= time_due[a]
    BY DEF InsertionPoint
  <2>2. k < Len(queue) => k + 1 \in DOMAIN queue /\ time_due[queue[k + 1]] > time_due[a]
    BY <1>1 DEF InsertionPoint
  <2>3. ASSUME NEW j \in DOMAIN queue, j > k
        PROVE  time_due[queue[j]] >= time_due[a]
    <3>1. k + 1 \in DOMAIN queue /\ time_due[queue[k + 1]] > time_due[a]
      BY <1>1, <2>2, <2>3
    <3>2. CASE j = k + 1
      BY <1>1, <3>1, <3>2
    <3>3. CASE k + 1 < j
      BY <1>1, <2>3, <3>1, <3>3
    <3>4. QED BY <1>1, <2>3, <3>2, <3>3
  <2>4. QED BY <1>1, <2>1, <2>3
<1>8. ASSUME NEW i \in DOMAIN queue', NEW j \in DOMAIN queue', i < j
      PROVE  time_due[queue'[i]] <= time_due[queue'[j]]
  <2>1. CASE i # k + 1 /\ j # k + 1
    <3> HIDE DEF old
    <3>1. QED BY <1>1, <1>4, <1>5, <1>8, <2>1
  <2>2. CASE i = k + 1
    <3>1. j # k + 1 /\ old(j) > k
      BY <1>3, <1>8, <2>2
    <3>2. QED BY <1>4, <1>7, <2>2, <3>1, <1>1
  <2>3. CASE j = k + 1
    <3>1. i # k + 1 /\ old(i) <= k
      BY <1>3, <1>8, <2>3
    <3>2. QED BY <1>4, <1>7, <2>3, <3>1
  <2>4. QED BY <2>1, <2>2, <2>3
<1> HIDE DEF old
<1>9. IsInjective(queue')
  BY <1>1, <1>4, <1>5 DEF IsInjective
<1>10. QED BY <1>3, <1>4, <1>6, <1>8, <1>9

\* The third layer holds initially.
LEMMA QueuedInit == Init => Queued
<1> SUFFICES ASSUME Init PROVE QueueFlags /\ QueueSorted
  BY LockedInit DEF Queued
<1>1. queue = <<>> /\ Len(queue) = 0 /\ DOMAIN queue = {}
  BY DEF Init
<1>2. \A t \in Thread : cur[t] = 0 /\ pc[t] = "idle"
  BY DEF Init
<1>3. \A a \in Alarm : ~enqueued[a]
  BY DEF Init
<1>4. QED BY <1>1, <1>2, <1>3 DEF QueueFlags, QueueSorted, IsSorted, IsInjective

\* Every step keeps the queue sound and sorted.
LEMMA QueuedNext ==
  ASSUME DestroyRaces = FALSE
  PROVE  Queued /\ [Next]_vars => Queued'
<1> SUFFICES ASSUME Queued, [Next]_vars PROVE QueueFlags' /\ QueueSorted'
  BY LockedNext DEF Queued
<1>1. /\ TypeOK /\ Working /\ Locking /\ Handles /\ QueueFlags /\ QueueSorted /\ Locked
      /\ TypeOK' /\ Working' /\ Locking' /\ Handles'
  BY LockedNext DEF Queued, Locked, Typed
<1>2. /\ Len(queue) \in Nat /\ DOMAIN queue = 1..Len(queue)
      /\ \A i \in DOMAIN queue : queue[i] \in Alarm
  BY <1>1, QueueDomain
<1>3. \A i, j \in DOMAIN queue : i < j => time_due[queue[i]] <= time_due[queue[j]]
  BY <1>1, <1>2 DEF QueueSorted, IsSorted
<1>4. /\ Len(queue') \in Nat /\ DOMAIN queue' = 1..Len(queue')
      /\ \A i \in DOMAIN queue' : queue'[i] \in Alarm
  BY <1>1, LenProperties, ElementOfSeq DEF TypeOK
<1>5. ASSUME \A i, j \in DOMAIN queue' : i < j => time_due'[queue'[i]] <= time_due'[queue'[j]]
      PROVE  QueueSorted'
  BY <1>4, <1>5 DEF QueueSorted, IsSorted
<1> USE ConstantsAssumption DEF timerVars, alarmVars, localVars
\* Steps that only make alarms inactive.
<1>6. ASSUME UNCHANGED <<queue, time_due, enqueued, created, pc, what, cur>>,
             \A a \in Alarm : active'[a] => active[a]
      PROVE  QueueFlags' /\ QueueSorted'
  <2>1. QueueFlags'
    BY <1>1, <1>2, <1>6 DEF QueueFlags, Purging
  <2>2. QueueSorted'
    BY <1>3, <1>5, <1>6
  <2>3. QED BY <2>1, <2>2
\* Steps of a thread that change neither the queue nor an alarm in it.
<1>7. ASSUME NEW t \in Thread, UNCHANGED <<queue, cur>>,
             pc[t] # "purge", pc'[t] # "purge",
             pc'[t] \notin {"activate", "insert", "free"} \/ pc[t] = "activate",
             \A u \in Thread \ {t} : pc'[u] = pc[u] /\ what'[u] = what[u],
             pc[t] = "activate" => what'[t] = what[t],
             \A i \in DOMAIN queue :
               /\ enqueued'[queue[i]] = enqueued[queue[i]]
               /\ time_due'[queue[i]] = time_due[queue[i]]
               /\ active'[queue[i]] => active[queue[i]]
               /\ queue[i] \in created',
             \A a \in Alarm : enqueued'[a] => enqueued[a]
      PROVE  QueueFlags' /\ QueueSorted'
  <2>1. \A i : Purging(i)' <=> Purging(i)
    BY <1>7 DEF Purging
  <2>2. \A u \in Thread : pc'[u] \in {"activate", "insert", "free"} =>
          /\ pc[u] \in {"activate", "insert", "free"} /\ what'[u] = what[u]
    BY <1>7
  <2>3. \A u \in Thread : pc'[u] \in {"activate", "insert", "free"} =>
          /\ what[u] \in Alarm /\ ~enqueued[what[u]]
          /\ \A i \in DOMAIN queue : queue[i] # what[u]
    <3>1. \A u \in Thread : pc[u] # "idle" => what[u] \in Alarm
      BY <1>1 DEF TypeOK, Working
    <3>2. QED BY <1>1, <2>2, <3>1 DEF QueueFlags
  <2>4. /\ queue' = queue /\ cur' = cur
        /\ \A i \in DOMAIN queue :
             /\ enqueued'[queue[i]] = enqueued[queue[i]]
             /\ time_due'[queue[i]] = time_due[queue[i]]
             /\ active'[queue[i]] => active[queue[i]]
             /\ queue[i] \in created'
        /\ \A a \in Alarm : enqueued'[a] => enqueued[a]
    BY <1>7
  <2>5. /\ IsInjective(queue)'
        /\ \A i \in DOMAIN queue' : queue'[i] \in created'
        /\ \A a \in Alarm : enqueued'[a] => \E i \in DOMAIN queue' : queue'[i] = a
    BY <1>1, <2>4 DEF QueueFlags, IsInjective
  <2>6. /\ \A i \in DOMAIN queue' : enqueued'[queue'[i]] \/ Purging(i)'
        /\ \A u \in Thread : \A i \in 1..cur'[u] :
             i \in DOMAIN queue' /\ ~active'[queue'[i]] /\ ~enqueued'[queue'[i]]
    BY <1>1, <2>1, <2>4 DEF QueueFlags
  <2>7. \A u \in Thread : pc'[u] \in {"activate", "insert", "free"} =>
          ~enqueued'[what'[u]] /\ \A i \in DOMAIN queue' : queue'[i] # what'[u]
    BY <2>2, <2>3, <2>4
  <2>8. QueueFlags'
    BY <2>5, <2>6, <2>7 DEF QueueFlags, IsInjective
  <2>9. QueueSorted'
    BY <1>3, <1>5, <2>4
  <2>10. QED BY <2>8, <2>9
<1>8. CASE Tick \/ TimerExpires \/ HandlerEnter \/ HandlerSkip \/ HandlerSetup \/ UNCHANGED vars
  BY <1>6, <1>8 DEF Tick, TimerExpires, HandlerEnter, HandlerSkip, HandlerSetup, vars
<1>9. CASE HandlerDue \/ \E a \in Alarm : CallbackCancels(a)
  BY <1>1, <1>6, <1>9 DEF HandlerDue, CallbackCancels, TypeOK
<1>10. ASSUME NEW t \in Thread, StartStep(t)
       PROVE  QueueFlags' /\ QueueSorted'
  <2>1. pc[t] # "idle" => what[t] \in Alarm
    BY <1>1 DEF TypeOK, Working
  <2>2. CASE Lock(t)
    <3>1. /\ pc' = [pc EXCEPT ![t] = "purge"]
          /\ UNCHANGED <<queue, time_due, active, enqueued, created, cur, what>>
      BY <2>2 DEF Lock, Goto
    <3>2. \A i \in DOMAIN queue : Purging(i) => Purging(i)'
      BY <1>1, <3>1 DEF Purging, TypeOK
    <3>3. QueueFlags'
      BY <1>1, <3>1, <3>2 DEF QueueFlags, TypeOK
    <3>4. QED BY <1>3, <1>5, <3>1, <3>3
  <2>3. CASE Purge(t)
    <3> DEFINE c == cur[t] + 1
    <3>1. /\ pc[t] = "purge" /\ pc' = pc /\ c \in Nat
          /\ c \in DOMAIN queue /\ ~active[queue[c]]
          /\ enqueued' = [enqueued EXCEPT ![queue[c]] = FALSE]
          /\ cur' = [cur EXCEPT ![t] = c]
          /\ UNCHANGED <<queue, time_due, active, created, what>>
      BY <1>1, <1>2, <2>3 DEF Purge, Goto, AtInactive, TypeOK
    <3>2. cur[t] \in Nat
      BY <1>1 DEF TypeOK
    <3>3. \A i \in DOMAIN queue : Purging(i) \/ i = c => Purging(i)'
      <4>1. cur'[t] = c /\ \A u \in Thread \ {t} : cur'[u] = cur[u]
        BY <1>1, <3>1 DEF TypeOK
      <4>2. ASSUME NEW i \in DOMAIN queue, Purging(i)
            PROVE  Purging(i)'
        <5>1. PICK u \in Thread : pc[u] = "purge" /\ i <= cur[u]
          BY <4>2 DEF Purging
        <5>2. i <= cur'[u]
          BY <1>2, <3>2, <4>1, <5>1
        <5>3. QED BY <3>1, <5>1, <5>2 DEF Purging
      <4>3. ASSUME NEW i \in DOMAIN queue, i = c
            PROVE  Purging(i)'
        <5>1. pc'[t] = "purge" /\ i <= cur'[t]
          BY <1>2, <3>1, <4>1, <4>3
        <5>2. QED BY <5>1 DEF Purging
      <4>4. QED BY <4>2, <4>3
    <3>4. ASSUME NEW i \in DOMAIN queue
          PROVE  enqueued'[queue[i]] \/ Purging(i)'
      <4>1. CASE i = c
        BY <3>3, <4>1
      <4>2. CASE i # c
        <5>1. queue[i] # queue[c]
          BY <1>1, <3>1, <4>2 DEF QueueFlags, IsInjective
        <5>2. enqueued'[queue[i]] = enqueued[queue[i]]
          BY <1>1, <1>2, <3>1, <5>1 DEF TypeOK
        <5>3. QED BY <1>1, <3>3, <5>2 DEF QueueFlags
      <4>3. QED BY <4>1, <4>2
    <3>5. \A a \in Alarm : enqueued'[a] => enqueued[a]
      BY <1>1, <3>1 DEF TypeOK
    <3>6. ASSUME NEW u \in Thread, NEW i \in 1..cur'[u]
          PROVE  i \in DOMAIN queue /\ ~active[queue[i]] /\ ~enqueued'[queue[i]]
      <4>1. CASE i \in 1..cur[u]
        BY <1>1, <1>2, <3>5, <4>1 DEF QueueFlags
      <4>2. CASE u = t /\ i = c
        BY <1>1, <1>2, <3>1, <4>2 DEF TypeOK
      <4>3. QED BY <1>1, <3>1, <3>2, <3>6, <4>1, <4>2 DEF TypeOK
    <3>7. \A u \in Thread : pc[u] \in {"activate", "insert", "free"} =>
            ~enqueued'[what[u]] /\ \A i \in DOMAIN queue : queue[i] # what[u]
      <4>1. \A u \in Thread : pc[u] # "idle" => what[u] \in Alarm
        BY <1>1 DEF TypeOK, Working
      <4>2. QED BY <1>1, <3>5, <4>1 DEF QueueFlags
    <3> HIDE DEF c
    <3>8. QueueFlags'
      BY <1>1, <3>1, <3>4, <3>5, <3>6, <3>7 DEF QueueFlags
    <3>9. QED BY <1>3, <1>5, <3>1, <3>8
  <2>4. CASE PurgeEnd(t)
    <3> DEFINE k == cur[t]
    <3>1. /\ pc[t] = "purge" /\ pc' = [pc EXCEPT ![t] = "remove"] /\ lock = t
          /\ queue' = SubSeq(queue, k + 1, Len(queue))
          /\ cur' = [cur EXCEPT ![t] = 0]
          /\ UNCHANGED <<time_due, active, enqueued, created, what>>
      BY <1>1, <2>4 DEF PurgeEnd, Goto, Locking, InLock, InStart
    <3>2. k \in Nat /\ k <= Len(queue)
      <4>1. k \in Nat
        BY <1>1 DEF TypeOK
      <4>2. k > 0 => k \in DOMAIN queue
        BY <1>1, <4>1 DEF QueueFlags
      <4>3. QED BY <1>2, <4>1, <4>2
    <3>3. \A u \in Thread : pc'[u] # "purge" /\ cur'[u] = 0
      BY <1>1, <3>1 DEF Locking, InLock, InStart, TypeOK
    <3>4. /\ DOMAIN queue' = 1..(Len(queue) - k)
          /\ \A i \in DOMAIN queue' : k + i \in DOMAIN queue /\ queue'[i] = queue[k + i]
      <4>1. queue \in Seq(Alarm)
        BY <1>1 DEF TypeOK
      <4> HIDE DEF k
      <4>2. /\ Len(queue') = Len(queue) - k
            /\ \A i \in 1..(Len(queue) - k) : queue'[i] = queue[k + i]
        BY <3>1, <3>2, <4>1, CutProperties
      <4>3. QED BY <1>2, <1>4, <3>2, <4>2
    <3>5. IsInjective(queue')
      BY <1>1, <1>2, <3>2, <3>4 DEF QueueFlags, IsInjective
    <3>6. \A i \in DOMAIN queue : Purging(i) => i <= k
      BY <1>1, <3>1 DEF Purging, Locking, InLock, InStart
    <3>7. \A i \in DOMAIN queue' : enqueued'[queue'[i]] /\ queue'[i] \in created'
      BY <1>1, <1>2, <3>1, <3>2, <3>4, <3>6 DEF QueueFlags
    <3>8. ASSUME NEW a \in Alarm, enqueued'[a]
          PROVE  \E i \in DOMAIN queue' : queue'[i] = a
      <4>1. PICK j \in DOMAIN queue : queue[j] = a
        BY <1>1, <3>1, <3>8 DEF QueueFlags
      <4>2. ~(j \in 1..k)
        BY <1>1, <3>1, <3>8, <4>1 DEF QueueFlags
      <4>3. j - k \in DOMAIN queue' /\ k + (j - k) = j
        BY <1>2, <3>2, <3>4, <4>2
      <4>4. QED BY <3>4, <4>1, <4>3
    <3>9. ASSUME NEW u \in Thread, pc'[u] \in {"activate", "insert", "free"}
          PROVE  ~enqueued'[what'[u]] /\ \A i \in DOMAIN queue' : queue'[i] # what'[u]
      <4>1. pc[u] \in {"activate", "insert", "free"} /\ what'[u] = what[u]
        BY <1>1, <3>1, <3>9 DEF TypeOK
      <4>2. ~enqueued[what[u]] /\ \A i \in DOMAIN queue : queue[i] # what[u]
        BY <1>1, <4>1 DEF QueueFlags
      <4>3. QED BY <3>1, <3>4, <4>1, <4>2
    <3>10. QueueFlags'
      BY <3>3, <3>5, <3>7, <3>8, <3>9 DEF QueueFlags
    <3>11. QueueSorted'
      <4>1. ASSUME NEW i \in DOMAIN queue', NEW j \in DOMAIN queue', i < j
            PROVE  time_due'[queue'[i]] <= time_due'[queue'[j]]
        <5>1. k + i \in DOMAIN queue /\ k + j \in DOMAIN queue /\ k + i < k + j
          BY <1>2, <3>2, <3>4, <4>1
        <5>2. time_due[queue[k + i]] <= time_due[queue[k + j]]
          BY <1>3, <5>1
        <5>3. QED BY <3>1, <3>4, <5>2
      <4>2. QED BY <1>5, <4>1
    <3>12. QED BY <3>10, <3>11
  <2>5. CASE Remove_(t)
    <3> DEFINE a == what[t]
    <3>1. /\ pc[t] = "remove" /\ lock = t /\ a \in Alarm /\ RemoveAlarm(a)
          /\ pc'[t] \in {"activate", "unlock"}
          /\ \A u \in Thread \ {t} : pc'[u] = pc[u]
          /\ active' = [active EXCEPT ![a] = FALSE]
          /\ UNCHANGED <<time_due, created, what, cur>>
      BY <1>1, <2>1, <2>5 DEF Remove_, Goto, Locking, InLock, InStart, TypeOK
    <3>2. (\A u \in Thread : cur[u] = 0) /\ (\A i : ~Purging(i))
      BY <1>1, <3>1, NoPurge
    <3>3. /\ IsInjective(queue')
          /\ \A i \in DOMAIN queue' :
               queue'[i] # a /\ \E j \in DOMAIN queue : queue'[i] = queue[j]
          /\ \A j \in DOMAIN queue :
               queue[j] # a => \E i \in DOMAIN queue' : queue'[i] = queue[j]
          /\ \A i, j \in DOMAIN queue' :
               i < j => time_due[queue'[i]] <= time_due[queue'[j]]
      BY <3>1, <3>2, AfterRemove
    <3>4. enqueued' = [enqueued EXCEPT ![a] = FALSE]
      BY <3>1, <3>2, AfterRemove
    <3>5. \A i \in DOMAIN queue : enqueued[queue[i]]
      BY <1>1, <3>2 DEF QueueFlags
    <3>6. \A i \in DOMAIN queue' : enqueued'[queue'[i]] /\ queue'[i] \in created'
      BY <1>1, <1>2, <3>1, <3>3, <3>4, <3>5 DEF QueueFlags, TypeOK
    <3>7. \A b \in Alarm : enqueued'[b] => b # a /\ enqueued[b]
      BY <1>1, <3>1, <3>4 DEF TypeOK
    <3>8. \A b \in Alarm : enqueued'[b] => \E i \in DOMAIN queue' : queue'[i] = b
      BY <1>1, <3>3, <3>7 DEF QueueFlags
    <3>9. ASSUME NEW u \in Thread, pc'[u] \in {"activate", "insert", "free"}
          PROVE  ~enqueued'[what'[u]] /\ \A i \in DOMAIN queue' : queue'[i] # what'[u]
      <4>1. CASE u = t
        BY <3>1, <3>3, <3>7, <4>1
      <4>2. CASE u # t
        <5>1. pc[u] \in {"activate", "insert", "free"} /\ what'[u] = what[u]
          BY <3>1, <3>9, <4>2
        <5>2. what[u] \in Alarm
          BY <1>1, <5>1 DEF TypeOK, Working
        <5>3. ~enqueued[what[u]] /\ \A i \in DOMAIN queue : queue[i] # what[u]
          BY <1>1, <5>1 DEF QueueFlags
        <5>4. QED BY <3>3, <3>7, <5>1, <5>2, <5>3
      <4>3. QED BY <4>1, <4>2
    <3>10. \A u \in Thread : cur'[u] = 0
      BY <3>1, <3>2
    <3>11. QueueFlags'
      BY <3>3, <3>6, <3>8, <3>9, <3>10 DEF QueueFlags
    <3>12. QueueSorted'
      BY <1>5, <3>1, <3>3
    <3>13. QED BY <3>11, <3>12
  <2>6. CASE Activate(t)
    <3>1. /\ pc[t] = "activate" /\ pc'[t] = "insert"
          /\ \A u \in Thread \ {t} : pc'[u] = pc[u]
          /\ \A a \in Alarm : a # what[t] =>
               time_due'[a] = time_due[a] /\ active'[a] = active[a]
          /\ UNCHANGED <<queue, enqueued, created, what, cur>>
      BY <1>1, <2>1, <2>6 DEF Activate, Goto, TypeOK
    <3>2. \A i \in DOMAIN queue : queue[i] # what[t] /\ queue[i] \in created
      BY <1>1, <3>1 DEF QueueFlags
    <3>3. QED BY <1>2, <1>7, <3>1, <3>2
  <2>7. CASE Insert(t)
    <3> DEFINE a == what[t]
    <3>1. /\ pc[t] = "insert" /\ lock = t /\ a \in Alarm
          /\ pc' = [pc EXCEPT ![t] = "check"]
          /\ enqueued' = [enqueued EXCEPT ![a] = TRUE]
          /\ UNCHANGED <<time_due, active, created, what, cur>>
      BY <1>1, <2>1, <2>7 DEF Insert, Goto, Locking, InLock, InStart
    <3>2. PICK k \in 0..Len(queue) :
            InsertionPoint(a, k) /\ queue' = InsertAt(queue, k + 1, a)
      BY <2>7 DEF Insert
    <3>3. (\A u \in Thread : cur[u] = 0) /\ (\A i : ~Purging(i))
      BY <1>1, <3>1, NoPurge
    <3>4. \A i \in DOMAIN queue : queue[i] # a
      BY <1>1, <3>1 DEF QueueFlags
    <3> HIDE DEF a
    <3>5. /\ IsInjective(queue')
          /\ \A i \in DOMAIN queue' :
               queue'[i] = a \/ \E j \in DOMAIN queue : queue'[i] = queue[j]
          /\ \A j \in DOMAIN queue : \E i \in DOMAIN queue' : queue'[i] = queue[j]
          /\ \E i \in DOMAIN queue' : queue'[i] = a
          /\ \A i, j \in DOMAIN queue' :
               i < j => time_due[queue'[i]] <= time_due[queue'[j]]
      BY <3>1, <3>2, <3>4, AfterInsert
    <3>6. a \in created /\ \A i \in DOMAIN queue : enqueued[queue[i]] /\ queue[i] \in created
      BY <1>1, <3>1, <3>3 DEF QueueFlags, Handles, a
    <3>7. \A b \in Alarm : enqueued'[b] <=> b = a \/ enqueued[b]
      BY <1>1, <3>1 DEF TypeOK
    <3>8. \A i \in DOMAIN queue' : enqueued'[queue'[i]] /\ queue'[i] \in created'
      BY <1>4, <3>1, <3>5, <3>6, <3>7
    <3>9. \A b \in Alarm : enqueued'[b] => \E i \in DOMAIN queue' : queue'[i] = b
      BY <1>1, <3>5, <3>7 DEF QueueFlags
    <3>10. ASSUME NEW u \in Thread, pc'[u] \in {"activate", "insert", "free"}
           PROVE  ~enqueued'[what'[u]] /\ \A i \in DOMAIN queue' : queue'[i] # what'[u]
      <4>1. u # t /\ pc[u] = "free" /\ what'[u] = what[u]
        BY <1>1, <3>1, <3>10 DEF Locking, InLock, InStart, TypeOK
      <4>2. what[u] \in Alarm /\ what[u] # a
        BY <1>1, <4>1 DEF Handles, InDestroy, TypeOK, Working, a
      <4>3. ~enqueued[what[u]] /\ \A i \in DOMAIN queue : queue[i] # what[u]
        BY <1>1, <4>1 DEF QueueFlags
      <4>4. QED BY <3>5, <3>7, <4>1, <4>2, <4>3
    <3>11. \A u \in Thread : cur'[u] = 0
      BY <3>1, <3>3
    <3>12. QueueFlags'
      BY <3>5, <3>8, <3>9, <3>10, <3>11 DEF QueueFlags
    <3>13. QueueSorted'
      BY <1>5, <3>1, <3>5
    <3>14. QED BY <3>12, <3>13
  <2>8. CASE Check(t)
    BY <1>1, <1>7, <2>8 DEF Check, Goto, TypeOK, QueueFlags
  <2>9. CASE Setup(t)
    BY <1>1, <1>7, <2>9 DEF Setup, Goto, TypeOK, QueueFlags
  <2>10. CASE Unlock(t)
    <3>1. cur' = cur
      BY <1>1, <2>10 DEF Unlock, Goto, Return, Locking, TypeOK
    <3>2. QED BY <1>1, <1>7, <2>10, <3>1 DEF Unlock, Goto, Return, TypeOK, QueueFlags
  <2>11. QED BY <1>10, <2>2, <2>3, <2>4, <2>5, <2>6, <2>7, <2>8, <2>9, <2>10 DEF StartStep
<1>11. ASSUME NEW t \in Thread, DestroyStep(t)
       PROVE  QueueFlags' /\ QueueSorted'
  <2>1. pc[t] # "idle" => what[t] \in Alarm
    BY <1>1 DEF TypeOK, Working
  <2>2. CASE DestroyTest(t)
    <3>1. /\ pc[t] = "test" /\ what[t] \in Alarm
          /\ pc' = [pc EXCEPT ![t] = IF enqueued[what[t]] THEN "extract" ELSE "free"]
          /\ enqueued[what[t]] \/ lock = NULL
          /\ UNCHANGED <<queue, time_due, active, enqueued, created, cur, what>>
      BY <2>1, <2>2 DEF DestroyTest, Goto
    <3>2. \A i : Purging(i)' <=> Purging(i)
      BY <1>1, <3>1 DEF Purging, TypeOK
    <3>3. ~enqueued[what[t]] => \A i \in DOMAIN queue : queue[i] # what[t]
      <4>1. SUFFICES ASSUME lock = NULL, ~enqueued[what[t]]
                     PROVE  \A i \in DOMAIN queue : queue[i] # what[t]
        BY <3>1
      <4>2. \A i : ~Purging(i)
        BY <1>1, <4>1, NoPurge
      <4>3. QED BY <1>1, <4>1, <4>2 DEF QueueFlags
    <3>4. ASSUME NEW u \in Thread, pc'[u] \in {"activate", "insert", "free"}
          PROVE  ~enqueued[what[u]] /\ \A i \in DOMAIN queue : queue[i] # what[u]
      <4>1. CASE u = t
        BY <1>1, <3>1, <3>3, <3>4, <4>1 DEF TypeOK
      <4>2. CASE u # t
        BY <1>1, <3>1, <3>4, <4>2 DEF QueueFlags, TypeOK
      <4>3. QED BY <4>1, <4>2
    <3>5. QueueFlags'
      BY <1>1, <3>1, <3>2, <3>4 DEF QueueFlags
    <3>6. QED BY <1>3, <1>5, <3>1, <3>5
  <2>3. CASE DestroyRemove(t)
    <3> DEFINE a == what[t]
    <3>1. /\ pc[t] = "extract" /\ lock = NULL /\ a \in Alarm /\ RemoveAlarm(a)
          /\ pc' = [pc EXCEPT ![t] = "free"]
          /\ UNCHANGED <<time_due, active, created, what, cur>>
      BY <2>1, <2>3 DEF DestroyRemove, Goto
    <3>2. (\A u \in Thread : cur[u] = 0) /\ (\A i : ~Purging(i))
      BY <1>1, <3>1, NoPurge, ConstantsAssumption
    <3>3. /\ IsInjective(queue')
          /\ \A i \in DOMAIN queue' :
               queue'[i] # a /\ \E j \in DOMAIN queue : queue'[i] = queue[j]
          /\ \A j \in DOMAIN queue :
               queue[j] # a => \E i \in DOMAIN queue' : queue'[i] = queue[j]
          /\ \A i, j \in DOMAIN queue' :
               i < j => time_due[queue'[i]] <= time_due[queue'[j]]
      BY <3>1, <3>2, AfterRemove
    <3>4. \A b \in Alarm : enqueued'[b] <=> b # a /\ enqueued[b]
      <4>1. enqueued' = [enqueued EXCEPT ![a] = FALSE]
        BY <3>1, <3>2, AfterRemove
      <4>2. QED BY <1>1, <3>1, <4>1 DEF TypeOK
    <3>5. \A i \in DOMAIN queue : enqueued[queue[i]]
      BY <1>1, <3>2 DEF QueueFlags
    <3>6. \A i \in DOMAIN queue' : enqueued'[queue'[i]] /\ queue'[i] \in created'
      BY <1>1, <1>2, <3>1, <3>3, <3>4, <3>5 DEF QueueFlags
    <3>7. \A b \in Alarm : enqueued'[b] => \E i \in DOMAIN queue' : queue'[i] = b
      BY <1>1, <3>3, <3>4 DEF QueueFlags
    <3>8. ASSUME NEW u \in Thread, pc'[u] \in {"activate", "insert", "free"}
          PROVE  ~enqueued'[what'[u]] /\ \A i \in DOMAIN queue' : queue'[i] # what'[u]
      <4>1. CASE u = t
        BY <3>1, <3>3, <3>4, <4>1
      <4>2. CASE u # t
        <5>1. pc[u] \in {"activate", "insert", "free"} /\ what'[u] = what[u]
          BY <1>1, <3>1, <3>8, <4>2 DEF TypeOK
        <5>2. what[u] \in Alarm
          BY <1>1, <5>1 DEF TypeOK, Working
        <5>3. ~enqueued[what[u]] /\ \A i \in DOMAIN queue : queue[i] # what[u]
          BY <1>1, <5>1 DEF QueueFlags
        <5>4. QED BY <3>3, <3>4, <5>1, <5>2, <5>3
      <4>3. QED BY <4>1, <4>2
    <3>9. \A u \in Thread : cur'[u] = 0
      BY <3>1, <3>2
    <3>10. QueueFlags'
      BY <3>3, <3>6, <3>7, <3>8, <3>9 DEF QueueFlags
    <3>11. QueueSorted'
      BY <1>5, <3>1, <3>3
    <3>12. QED BY <3>10, <3>11
  <2>4. CASE Free(t)
    <3>1. cur' = cur
      BY <1>1, <2>4 DEF Free, Goto, Return, Locking, TypeOK
    <3>2. /\ pc[t] = "free" /\ created' = created \ {what[t]}
          /\ pc' = [pc EXCEPT ![t] = "idle"]
          /\ what' = [what EXCEPT ![t] = NULL]
          /\ time_due' = [time_due EXCEPT ![what[t]] = 0]
          /\ UNCHANGED <<queue, active, enqueued>>
      BY <2>4 DEF Free, Goto, Return
    <3>3. \A i \in DOMAIN queue : queue[i] # what[t] /\ queue[i] \in created
      BY <1>1, <3>2 DEF QueueFlags
    <3>4. \A i \in DOMAIN queue : time_due'[queue[i]] = time_due[queue[i]]
      BY <1>1, <1>2, <3>2, <3>3 DEF TypeOK
    <3>5. QED BY <1>1, <1>7, <3>1, <3>2, <3>3, <3>4 DEF TypeOK
  <2>5. QED BY <1>11, <2>2, <2>3, <2>4 DEF DestroyStep
<1>12. ASSUME NEW t \in Thread, Call(t)
       PROVE  QueueFlags' /\ QueueSorted'
  <2>1. PICK a \in Alarm :
          \/ \E d \in Delay : Start(t, a, d)
          \/ Cancel(t, a) \/ Create(t, a) \/ Destroy(t, a)
    BY <1>12 DEF Call
  <2>2. \A i \in DOMAIN queue : queue[i] \in created
    BY <1>1 DEF QueueFlags
  <2>3. ASSUME NEW d \in Delay, Start(t, a, d)
        PROVE  QueueFlags' /\ QueueSorted'
    BY <1>1, <1>7, <2>2, <2>3 DEF Start, Goto, TypeOK
  <2>4. CASE Cancel(t, a)
    <3>1. pc' = pc
      BY <1>1, <2>4 DEF Cancel, Goto, TypeOK
    <3>2. QED BY <1>1, <1>6, <2>4, <3>1 DEF Cancel, TypeOK
  <2>5. CASE Create(t, a)
    <3>1. \A i \in DOMAIN queue : queue[i] # a
      BY <2>2, <2>5 DEF Create
    <3>2. \A i \in DOMAIN queue :
            /\ enqueued'[queue[i]] = enqueued[queue[i]]
            /\ time_due'[queue[i]] = time_due[queue[i]]
            /\ active'[queue[i]] = active[queue[i]]
            /\ queue[i] \in created'
      BY <1>1, <1>2, <2>2, <2>5, <3>1 DEF Create, TypeOK
    <3>3. \A b \in Alarm : enqueued'[b] => enqueued[b]
      BY <1>1, <2>5 DEF Create, TypeOK
    <3>4. /\ pc[t] = "idle" /\ pc'[t] = "idle" /\ UNCHANGED <<queue, cur, what>>
          /\ \A u \in Thread \ {t} : pc'[u] = pc[u]
      BY <1>1, <2>5 DEF Create, Goto, TypeOK
    <3>5. QED BY <1>7, <3>2, <3>3, <3>4
  <2>6. CASE Destroy(t, a)
    BY <1>1, <1>2, <1>7, <2>2, <2>6 DEF Destroy, Goto, TypeOK
  <2>7. QED BY <2>1, <2>3, <2>4, <2>5, <2>6
<1>13. QED
  BY <1>8, <1>9, <1>10, <1>11, <1>12 DEF Next, HandlerStep, ThreadStep

\* The flag `enqueued', which alm_remove, alm_insert and alm_destroy trust,
\* tells what is linked in the queue; provided alm_destroy does not test it
\* while another thread is inside alm_start.
THEOREM FlagsCorrect ==
  ASSUME DestroyRaces = FALSE
  PROVE  Spec => []EnqueuedIffQueued
<1>1. Queued => EnqueuedIffQueued
  <2>1. SUFFICES ASSUME Queued PROVE EnqueuedIffQueued
    OBVIOUS
  <2>2. QueueFlags /\ Len(queue) \in Nat /\ DOMAIN queue = 1..Len(queue)
    BY <2>1, QueueDomain DEF Queued, Locked, Typed
  <2>3. \A i \in DOMAIN queue : Purging(i) => ~enqueued[queue[i]]
    BY <2>2 DEF QueueFlags, Purging
  <2>4. QED BY <2>2, <2>3 DEF QueueFlags, EnqueuedIffQueued, ToSet
<1>2. QED BY <1>1, QueuedInit, QueuedNext, PTL DEF Spec

\* The interrupt handler, which stops at the first alarm that is not due yet,
\* always sees a queue sorted by time_due.
THEOREM OrderCorrect ==
  ASSUME DestroyRaces = FALSE
  PROVE  Spec => []QueueSorted
<1>1. Queued => QueueSorted
  BY DEF Queued
<1>2. QED BY <1>1, QueuedInit, QueuedNext, PTL DEF Spec

\* No alarm that has been freed can be reached from first_alm.
THEOREM NoFreedReachable ==
  ASSUME DestroyRaces = FALSE
  PROVE  Spec => []NoFreedInQueue
<1>1. Queued => NoFreedInQueue
  BY DEF Queued, QueueFlags, NoFreedInQueue, ToSet
<1>2. QED BY <1>1, QueuedInit, QueuedNext, PTL DEF Spec

\* The assertions in alm_insert and alm_destroy never fail.
THEOREM AssertionsCorrect ==
  ASSUME DestroyRaces = FALSE
  PROVE  Spec => []AssertionsHold
<1>1. Queued => AssertionsHold
  BY DEF Queued, Locked, Handles, InDestroy, QueueFlags, AssertionsHold
<1>2. QED BY <1>1, QueuedInit, QueuedNext, PTL DEF Spec

-----------------------------------------------------------------------------
(* No alarm is forgotten: AlmLib keeps an interrupt on its way for every     *)
(* active alarm, whatever the clients, the timer and the handler do.         *)

Timed == Queued /\ Inserted /\ Handler /\ TimerSetUp /\ ActiveCovered

\* The types the proofs about the timer need.
LEMMA Typing ==
  ASSUME Timed
  PROVE  /\ TypeOK /\ Working /\ Locking /\ Handles /\ QueueFlags /\ QueueSorted
         /\ Inserted /\ Handler /\ TimerSetUp /\ ActiveCovered
         /\ time \in Nat /\ next_due \in Nat /\ hw \in Nat \cup {Off}
         /\ \A a \in Alarm : time_due[a] \in Nat
         /\ \A t \in Thread : pc[t] # "idle" => what[t] \in Alarm
BY DEF Timed, Queued, Locked, Typed, TypeOK, Working

\* Membership in the queue, as the provers like to see it.
LEMMA InQueue ==
  ASSUME NEW q \in Seq(Alarm)
  PROVE  \A a : a \in ToSet(q) <=> \E i \in DOMAIN q : q[i] = a
BY DEF ToSet

\* What the timer promises when it is set up for an alarm: whoever is due no
\* earlier is covered.
LEMMA SetupCovers ==
  ASSUME Timed, NEW due \in Nat, NEW later \in Nat, due <= later
  PROVE  LET stamp == time + SetupDelay(due)
         IN  stamp \in Nat /\ (stamp <= later \/ stamp <= time + MIN_WAIT)
<1>1. time \in Nat
  BY Typing
<1>2. /\ SetupDelay(due) \in Nat
      /\ time + SetupDelay(due) <= due \/ time + SetupDelay(due) <= time + MIN_WAIT
  BY <1>1, SetupDelayProperties
<1>3. QED BY <1>1, <1>2

-----------------------------------------------------------------------------
\* The fourth layer holds initially.
LEMMA TimedInit == Init => Timed
<1> SUFFICES ASSUME Init PROVE Timed
  OBVIOUS
<1>1. Queued
  BY QueuedInit
<1>2. Inserted
  BY DEF Init, Inserted
<1>3. Handler
  BY DEF Init, Handler, Running, IsrIdle
<1>4. TimerSetUp
  <2>1. next_due \in Nat /\ hw = next_due
    BY <1>1 DEF Init, Queued, Locked, Typed, TypeOK
  <2>2. QED BY <2>1 DEF TimerSetUp, Off
<1>5. ActiveCovered
  BY DEF Init, ActiveCovered
<1>6. QED BY <1>1, <1>2, <1>3, <1>4, <1>5 DEF Timed

\* The alarm of a thread between alm_insert and epicsMutexUnlock stays linked:
\* all who unlink alarms hold the mutex.
LEMMA InsertedNext ==
  ASSUME Timed, [Next]_vars
  PROVE  Inserted'
<1>1. TypeOK /\ Working /\ Locking /\ Handles /\ Inserted
  BY Typing
<1> USE ConstantsAssumption DEF timerVars, alarmVars, localVars
<1>2. CASE \/ Tick \/ TimerExpires \/ HandlerEnter \/ HandlerStep \/ UNCHANGED vars
           \/ \E a \in Alarm : CallbackCancels(a)
  BY <1>1, <1>2 DEF Tick, TimerExpires, HandlerEnter, HandlerStep, HandlerDue,
                    HandlerSkip, HandlerSetup, CallbackCancels, vars, Inserted
<1>3. ASSUME NEW t \in Thread, StartStep(t)
      PROVE  Inserted'
  <2>1. CASE Lock(t)
    BY <1>1, <2>1 DEF Lock, Goto, Inserted, TypeOK
  <2>2. CASE Purge(t)
    BY <1>1, <2>2 DEF Purge, Goto, Inserted, TypeOK, Locking, InLock, InStart
  <2>3. CASE PurgeEnd(t)
    BY <1>1, <2>3 DEF PurgeEnd, Goto, Inserted, TypeOK
  <2>4. CASE Remove_(t)
    BY <1>1, <2>4 DEF Remove_, RemoveAlarm, Goto, Inserted, TypeOK, Locking, InLock, InStart
  <2>5. CASE Activate(t)
    BY <1>1, <2>5 DEF Activate, Goto, Inserted, TypeOK
  <2>6. CASE Insert(t)
    BY <1>1, <2>6 DEF Insert, Goto, Inserted, TypeOK, Working, Locking, InLock, InStart
  <2>7. CASE Check(t)
    BY <1>1, <2>7 DEF Check, Goto, Inserted, TypeOK
  <2>8. CASE Setup(t)
    BY <1>1, <2>8 DEF Setup, Goto, Inserted, TypeOK
  <2>9. CASE Unlock(t)
    BY <1>1, <2>9 DEF Unlock, Goto, Return, Inserted, TypeOK
  <2>10. QED BY <1>3, <2>1, <2>2, <2>3, <2>4, <2>5, <2>6, <2>7, <2>8, <2>9 DEF StartStep
<1>4. ASSUME NEW t \in Thread, DestroyStep(t)
      PROVE  Inserted'
  <2>1. CASE DestroyTest(t)
    BY <1>1, <2>1 DEF DestroyTest, Goto, Inserted, TypeOK
  <2>2. CASE DestroyRemove(t)
    BY <1>1, <2>2 DEF DestroyRemove, RemoveAlarm, Goto, Inserted, TypeOK, Locking, InLock, InStart
  <2>3. CASE Free(t)
    BY <1>1, <2>3 DEF Free, Goto, Return, Inserted, TypeOK
  <2>4. QED BY <1>4, <2>1, <2>2, <2>3 DEF DestroyStep
<1>5. ASSUME NEW t \in Thread, Call(t)
      PROVE  Inserted'
  <2>1. PICK a \in Alarm :
          \/ \E d \in Delay : Start(t, a, d)
          \/ Cancel(t, a) \/ Create(t, a) \/ Destroy(t, a)
    BY <1>5 DEF Call
  <2>2. ASSUME NEW d \in Delay, Start(t, a, d)
        PROVE  Inserted'
    BY <1>1, <2>2 DEF Start, Goto, Inserted, TypeOK
  <2>3. CASE Cancel(t, a)
    BY <1>1, <2>3 DEF Cancel, Goto, Inserted, TypeOK
  <2>4. CASE Create(t, a)
    BY <1>1, <2>4 DEF Create, Goto, Inserted, TypeOK, Handles
  <2>5. CASE Destroy(t, a)
    BY <1>1, <2>5 DEF Destroy, Goto, Inserted, TypeOK
  <2>6. QED BY <2>1, <2>2, <2>3, <2>4, <2>5
<1>6. QED
  BY <1>2, <1>3, <1>4, <1>5 DEF Next, ThreadStep

-----------------------------------------------------------------------------
\* Steps of a thread that leave the timer alone: each alarm that is active
\* afterwards is being set up, or it was active before and is still linked.
LEMMA CoverKept ==
  ASSUME Timed, ~Running, UNCHANGED <<time, hw, pending, next_due, isr>>,
         \A a \in Alarm : active'[a] =>
           \/ SettingUp(a)'
           \/ /\ active[a] /\ ~SettingUp(a) /\ time_due'[a] = time_due[a]
              /\ a \in ToSet(queue) => a \in ToSet(queue')
  PROVE  Handler' /\ TimerSetUp' /\ ActiveCovered'
<1>1. Handler'
  BY Typing DEF Handler, Running
<1>2. TimerSetUp'
  BY Typing DEF TimerSetUp, Running
<1>3. ActiveCovered'
  <2>1. SUFFICES ASSUME NEW a \in Alarm, active'[a], ~(SettingUp(a)')
                 PROVE  /\ a \in ToSet(queue')
                        /\ \/ pending' \/ Running'
                           \/ hw' # Off /\ (hw' <= time_due'[a] \/ hw' <= time' + MIN_WAIT)
    BY DEF ActiveCovered
  <2>2. active[a] /\ ~SettingUp(a) /\ time_due'[a] = time_due[a]
    BY <2>1
  <2>3. a \in ToSet(queue) => a \in ToSet(queue')
    BY <2>1
  <2>4. /\ a \in ToSet(queue)
        /\ \/ pending \/ Running
           \/ hw # Off /\ (hw <= time_due[a] \/ hw <= time + MIN_WAIT)
    BY <2>2, Typing DEF ActiveCovered
  <2>5. QED BY <2>2, <2>3, <2>4
<1>4. QED BY <1>1, <1>2, <1>3

\* The clock, the timer, and the handler but for its last step.
LEMMA CoverBeforeSetup ==
  ASSUME Timed,
         \/ Tick \/ TimerExpires \/ HandlerEnter \/ HandlerDue \/ HandlerSkip
         \/ \E a \in Alarm : CallbackCancels(a)
  PROVE  Handler' /\ TimerSetUp' /\ ActiveCovered'
<1> USE ConstantsAssumption DEF timerVars, alarmVars, localVars
<1>1. /\ TypeOK /\ Handler /\ TimerSetUp /\ ActiveCovered
      /\ time \in Nat /\ hw \in Nat \cup {Off} /\ \A a \in Alarm : time_due[a] \in Nat
  BY Typing
<1>2. UNCHANGED <<queue, time_due, pc, what>> /\ \A a \in Alarm : active'[a] => active[a]
  BY <1>1
  DEF Tick, TimerExpires, HandlerEnter, HandlerDue, HandlerSkip, CallbackCancels, TypeOK
<1>3. \A a \in Alarm : SettingUp(a)' <=> SettingUp(a)
  BY <1>2 DEF SettingUp
<1>4. ASSUME pending' \/ Running'
      PROVE  TimerSetUp' /\ ActiveCovered'
  BY <1>1, <1>2, <1>3, <1>4 DEF TimerSetUp, ActiveCovered
<1>5. CASE Tick
  <2>1. time' = time + 1 /\ UNCHANGED <<hw, pending, next_due, isr, queue, active>>
    BY <1>5 DEF Tick
  <2>2. Handler'
    <3>1. isr.now \in Nat /\ isr.now <= time
      BY <1>1 DEF Handler, TypeOK
    <3>2. isr'.now <= time'
      BY <1>1, <2>1, <3>1
    <3>3. QED BY <1>1, <2>1, <3>2 DEF Handler, Running
  <2>3. TimerSetUp'
    BY <1>1, <2>1 DEF TimerSetUp, Running
  <2>4. ActiveCovered'
    <3>1. hw \in Nat /\ hw <= time + MIN_WAIT => hw' <= time' + MIN_WAIT
      BY <1>1, <2>1
    <3>2. hw # Off => hw \in Nat
      BY <1>1
    <3>3. QED BY <1>1, <1>2, <1>3, <2>1, <3>1, <3>2 DEF ActiveCovered, Running
  <2>5. QED BY <2>2, <2>3, <2>4
<1>6. CASE TimerExpires
  <2>1. pending' /\ Handler'
    BY <1>1, <1>6 DEF TimerExpires, Handler, Running
  <2>2. QED BY <1>4, <2>1
<1>7. CASE HandlerEnter
  <2>1. isr' = [pc |-> "due", pos |-> 1, now |-> time] /\ time' = time /\ queue' = queue
    BY <1>7 DEF HandlerEnter
  <2>2. isr'.pc = "due" /\ isr'.pos = 1 /\ isr'.now = time
    BY <2>1
  <2>3. DOMAIN queue' \subseteq Nat \ {0}
    BY <1>1, <2>1, QueueDomain
  <2>4. Running' /\ Handler'
    BY <1>1, <2>1, <2>2, <2>3 DEF Running, Handler
  <2>5. QED BY <1>4, <2>4
<1>8. CASE HandlerDue \/ HandlerSkip
  <2>1. /\ isr \in IsrType /\ isr.pos \in Nat
        /\ isr' \in IsrType /\ isr'.pc \in {"due", "skip"} /\ isr'.pos = isr.pos + 1
        /\ isr'.now = isr.now /\ isr.pc # "idle"
        /\ UNCHANGED <<time, queue>>
    <3>1. isr \in IsrType
      BY <1>1 DEF TypeOK, IsrType
    <3>2. isr' = [isr EXCEPT !.pos = @ + 1] \/ isr' = [isr EXCEPT !.pc = "skip", !.pos = @ + 1]
      BY <1>8 DEF HandlerDue, HandlerSkip
    <3>3. isr.pc # "idle" /\ UNCHANGED <<time, queue>>
      BY <1>8 DEF HandlerDue, HandlerSkip
    <3>4. isr.pc \in {"due", "skip"} /\ isr.pos + 1 \in Nat \ {0}
      BY <3>1, <3>3 DEF IsrType
    <3>5. QED BY <3>1, <3>2, <3>3, <3>4 DEF IsrType
  <2>2. Running /\ Running'
    BY <2>1 DEF Running
  <2>3. \A i \in DOMAIN queue : i = isr.pos => ~active'[queue[i]]
    BY <1>1, <1>2, <1>8, QueueDomain DEF HandlerDue, HandlerSkip, AtInactive, TypeOK
  <2>4. \A i \in DOMAIN queue : i < isr.pos + 1 => i < isr.pos \/ i = isr.pos
    BY <1>1, <2>1, QueueDomain
  <2>5. \A i \in DOMAIN queue : i < isr.pos => ~active'[queue[i]]
    BY <1>1, <1>2, <2>2, QueueDomain DEF Handler
  <2>6. Handler'
    BY <1>1, <2>1, <2>3, <2>4, <2>5 DEF Handler
  <2>7. QED BY <1>4, <2>2, <2>6
<1>9. ASSUME NEW a \in Alarm, CallbackCancels(a)
      PROVE  Handler' /\ TimerSetUp' /\ ActiveCovered'
  <2>1. isr.pc = "due" /\ UNCHANGED <<time, isr, queue>>
    BY <1>9 DEF CallbackCancels
  <2>2. Handler'
    BY <1>1, <1>2, <2>1, QueueDomain DEF Handler, Running
  <2>3. Running'
    BY <2>1 DEF Running
  <2>4. QED BY <1>4, <2>2, <2>3
<1>10. QED BY <1>5, <1>6, <1>7, <1>8, <1>9

\* The last step of the handler: everything before the cursor is inactive and
\* everything behind it is due no earlier than the alarm the timer is set for.
LEMMA CoverBySetup ==
  ASSUME Timed, HandlerSetup
  PROVE  Handler' /\ TimerSetUp' /\ ActiveCovered'
<1> USE ConstantsAssumption DEF alarmVars, localVars
<1>1. /\ TypeOK /\ QueueSorted /\ Handler /\ ActiveCovered
      /\ time \in Nat /\ queue \in Seq(Alarm)
      /\ \A a \in Alarm : time_due[a] \in Nat
      /\ isr.pos \in Nat \ {0} /\ isr.now \in Nat /\ Running
      /\ UNCHANGED <<time, queue, time_due, active, pc, what>>
  BY Typing DEF HandlerSetup, TypeOK, Running
<1>2. /\ Len(queue) \in Nat /\ DOMAIN queue = 1..Len(queue)
      /\ \A i \in DOMAIN queue : queue[i] \in Alarm
  BY <1>1, QueueDomain
<1> DEFINE due == IF isr.pos <= Len(queue) THEN time_due[queue[isr.pos]]
                                            ELSE isr.now + MAX_WAIT
<1>3. due \in Nat
  BY <1>1, <1>2
<1>4. hw' = time + SetupDelay(due) /\ next_due' = hw'
  BY DEF HandlerSetup, SetupAlarm
<1> HIDE DEF due
<1>5. hw' \in Nat
  <2>1. time \in Nat
    BY <1>1
  <2>2. SetupDelay(due) \in Nat
    BY <1>3, <2>1, SetupDelayProperties
  <2>3. QED BY <1>4, <2>1, <2>2
<1>6. isr' = IsrIdle
  BY DEF HandlerSetup
<1>7. Handler'
  BY <1>1, <1>6 DEF Handler, Running, IsrIdle
<1>8. TimerSetUp'
  BY <1>4, <1>5 DEF TimerSetUp, Off
<1>9. ASSUME NEW a \in Alarm, active[a], ~SettingUp(a)
      PROVE  a \in ToSet(queue) /\ (hw' <= time_due[a] \/ hw' <= time + MIN_WAIT)
  <2>1. a \in ToSet(queue)
    BY <1>1, <1>9 DEF ActiveCovered
  <2>2. PICK i \in DOMAIN queue : queue[i] = a
    BY <1>1, <2>1, InQueue
  <2>3. isr.pos <= i
    BY <1>1, <1>2, <1>9, <2>2 DEF Handler
  <2>4. isr.pos \in DOMAIN queue /\ due = time_due[queue[isr.pos]]
    BY <1>1, <1>2, <2>3 DEF due
  <2>5. due <= time_due[a]
    <3>1. \A k, l \in 1..Len(queue) : k < l => time_due[queue[k]] <= time_due[queue[l]]
      BY <1>1 DEF QueueSorted, IsSorted
    <3>2. CASE isr.pos = i
      BY <1>1, <2>2, <2>4, <3>2
    <3>3. CASE isr.pos < i
      BY <1>2, <2>2, <2>4, <3>1, <3>3
    <3>4. QED BY <1>1, <1>2, <2>3, <3>2, <3>3
  <2>6. QED BY <1>1, <1>3, <1>4, <2>1, <2>5, SetupCovers
<1>10. ActiveCovered'
  <2>1. \A a \in Alarm : SettingUp(a)' <=> SettingUp(a)
    BY <1>1 DEF SettingUp
  <2>2. QED BY <1>1, <1>5, <1>9, <2>1 DEF ActiveCovered, Off
<1>11. QED BY <1>7, <1>8, <1>10

\* alm_setup_alarm inside alm_start: the timer is moved to an earlier time, or
\* it is left alone because it expires early enough.
LEMMA CoverByThread ==
  ASSUME Timed, NEW t \in Thread, Setup(t)
  PROVE  Handler' /\ TimerSetUp' /\ ActiveCovered'
<1> USE ConstantsAssumption DEF alarmVars, localVars
<1> DEFINE a == what[t]
<1>1. /\ TypeOK /\ Working /\ Locking /\ Inserted /\ QueueFlags
      /\ Handler /\ TimerSetUp /\ ActiveCovered
      /\ time \in Nat /\ next_due \in Nat /\ queue \in Seq(Alarm)
      /\ hw \in Nat \cup {Off}
      /\ \A b \in Alarm : time_due[b] \in Nat
      /\ a \in Alarm /\ ~Running /\ pc[t] = "setup"
      /\ UNCHANGED <<time, isr, queue, time_due, active, what, pending>>
      /\ pc' = [pc EXCEPT ![t] = "unlock"]
      /\ SetupAlarm(time_due[a], FALSE)
  BY Typing DEF Setup, SetupAlarm, Goto, TypeOK
<1>2. Handler'
  BY <1>1 DEF Handler, Running
<1>3. \/ /\ time_due[a] <= next_due
         /\ hw' = time + SetupDelay(time_due[a]) /\ next_due' = hw' /\ hw' \in Nat
      \/ /\ next_due < time_due[a] /\ hw' = hw /\ next_due' = next_due
  <2>1. CASE time_due[a] <= next_due
    <3>1. hw' = time + SetupDelay(time_due[a]) /\ next_due' = hw'
      BY <1>1, <2>1 DEF SetupAlarm
    <3>2. time_due[a] \in Nat /\ time \in Nat
      BY <1>1
    <3>3. hw' \in Nat
      <4>1. SetupDelay(time_due[a]) \in Nat
        BY <3>2, SetupDelayProperties
      <4>2. QED BY <3>1, <3>2, <4>1
    <3>4. QED BY <2>1, <3>1, <3>3
  <2>2. CASE ~(time_due[a] <= next_due)
    BY <1>1, <2>2 DEF SetupAlarm
  <2>3. QED BY <2>1, <2>2
<1>4. TimerSetUp'
  BY <1>1, <1>3 DEF TimerSetUp, Running, Off
<1>5. \A b \in Alarm : b # a /\ SettingUp(b) => SettingUp(b)'
  BY <1>1 DEF SettingUp, TypeOK
\* Which due dates the timer covers from now on.
<1>6. ASSUME NEW later \in Nat, ~pending,
             \/ time_due[a] <= later
             \/ hw # Off /\ (hw <= later \/ hw <= time + MIN_WAIT)
      PROVE  hw' # Off /\ (hw' <= later \/ hw' <= time + MIN_WAIT)
  <2>1. hw \in Nat /\ hw = next_due
    BY <1>1, <1>6 DEF TimerSetUp
  <2>2. CASE /\ time_due[a] <= next_due
             /\ hw' = time + SetupDelay(time_due[a]) /\ hw' \in Nat
    <3>1. hw' <= time_due[a] \/ hw' <= time + MIN_WAIT
      <4>1. time_due[a] \in Nat /\ time \in Nat /\ time_due[a] <= time_due[a]
        BY <1>1
      <4>2. \/ time + SetupDelay(time_due[a]) <= time_due[a]
            \/ time + SetupDelay(time_due[a]) <= time + MIN_WAIT
        BY <4>1, SetupDelayProperties
      <4>3. QED BY <2>2, <4>2
    <3>2. time_due[a] \in Nat /\ time + MIN_WAIT \in Nat
      BY <1>1
    <3>3. hw' # Off
      BY <2>2 DEF Off
    <3>4. QED BY <1>6, <2>1, <2>2, <3>1, <3>2, <3>3
  <2>3. CASE next_due < time_due[a] /\ hw' = hw
    BY <1>1, <1>6, <2>1, <2>3 DEF Off
  <2>4. QED BY <1>3, <2>2, <2>3
<1>7. ActiveCovered'
  <2>1. SUFFICES ASSUME NEW b \in Alarm, active[b], ~(SettingUp(b)'), ~pending
                 PROVE  /\ b \in ToSet(queue)
                        /\ hw' # Off /\ (hw' <= time_due[b] \/ hw' <= time + MIN_WAIT)
    <3>1. active' = active /\ queue' = queue /\ time' = time /\ pending' = pending
          /\ time_due' = time_due
      BY <1>1
    <3>2. ASSUME NEW b \in Alarm, active[b], ~(SettingUp(b)')
          PROVE  b \in ToSet(queue)
      <4>1. CASE b = a
        BY <1>1, <4>1, InQueue DEF Inserted, QueueFlags
      <4>2. CASE b # a
        BY <1>1, <1>5, <3>2, <4>2 DEF ActiveCovered
      <4>3. QED BY <4>1, <4>2
    <3>3. QED BY <2>1, <3>1, <3>2 DEF ActiveCovered
  <2>2. time_due[b] \in Nat
    BY <1>1
  <2>3. CASE b = a
    <3>1. b \in ToSet(queue)
      BY <1>1, <2>3, InQueue DEF Inserted, QueueFlags
    <3>2. time_due[a] <= time_due[b]
      BY <2>2, <2>3
    <3>3. QED BY <1>6, <2>1, <2>2, <3>1, <3>2
  <2>4. CASE b # a
    <3>1. ~SettingUp(b)
      BY <1>5, <2>1, <2>4
    <3>2. b \in ToSet(queue) /\ hw # Off /\ (hw <= time_due[b] \/ hw <= time + MIN_WAIT)
      BY <1>1, <2>1, <3>1 DEF ActiveCovered
    <3>3. QED BY <1>6, <2>1, <2>2, <3>2
  <2>5. QED BY <2>3, <2>4
<1>8. QED BY <1>2, <1>4, <1>7

\* The other steps of alm_start.
LEMMA CoverInStart ==
  ASSUME Timed, NEW t \in Thread, StartStep(t), ~Setup(t)
  PROVE  Handler' /\ TimerSetUp' /\ ActiveCovered'
<1> USE ConstantsAssumption DEF timerVars, alarmVars, localVars
<1>1. /\ TypeOK /\ Working /\ Locking /\ QueueFlags
      /\ queue \in Seq(Alarm) /\ queue' \in Seq(Alarm)
      /\ ActiveCovered
  <2>1. StartStep(t) => Next
    BY DEF Next, ThreadStep
  <2>2. queue' \in Seq(Alarm)
    BY <2>1, TypedNext DEF Timed, Queued, Locked, Typed, TypeOK
  <2>3. QED BY <2>2, Typing DEF TypeOK
<1>2. ~Running /\ UNCHANGED <<time, hw, pending, next_due, isr>>
  BY DEF StartStep, Lock, Purge, PurgeEnd, Remove_, Activate, Insert, Check, Unlock, Goto
<1>3. ASSUME UNCHANGED <<queue, time_due, active>>,
             \A u \in Thread : pc[u] \in {"insert", "check", "setup"} =>
               \/ pc'[u] \in {"insert", "check", "setup"} /\ what'[u] = what[u]
               \/ ~active[what[u]]
      PROVE  Handler' /\ TimerSetUp' /\ ActiveCovered'
  <2>1. \A a \in Alarm : active[a] /\ SettingUp(a) => SettingUp(a)'
    BY <1>3 DEF SettingUp
  <2>2. QED BY <1>2, <1>3, <2>1, CoverKept
<1>4. CASE Lock(t)
  BY <1>1, <1>3, <1>4 DEF Lock, Goto, TypeOK
<1>5. CASE Purge(t)
  BY <1>1, <1>3, <1>5 DEF Purge, Goto, TypeOK
<1>6. CASE PurgeEnd(t)
  <2> DEFINE k == cur[t]
  <2>1. /\ pc[t] = "purge" /\ pc' = [pc EXCEPT ![t] = "remove"]
        /\ queue' = SubSeq(queue, k + 1, Len(queue))
        /\ UNCHANGED <<time_due, active, what>>
    BY <1>6 DEF PurgeEnd, Goto
  <2>2. Len(queue) \in Nat /\ DOMAIN queue = 1..Len(queue)
    BY <1>1, QueueDomain
  <2>3. k \in Nat /\ k <= Len(queue)
    <3>1. k \in Nat
      BY <1>1 DEF TypeOK
    <3>2. k > 0 => k \in DOMAIN queue
      BY <1>1, <3>1 DEF QueueFlags
    <3>3. QED BY <2>2, <3>1, <3>2
  <2>4. \A i \in 1..k : ~active[queue[i]]
    BY <1>1 DEF QueueFlags
  <2> HIDE DEF k
  <2>5. /\ Len(queue') = Len(queue) - k
        /\ \A i \in 1..(Len(queue) - k) : queue'[i] = queue[k + i]
    BY <1>1, <2>1, <2>3, CutProperties
  <2>6. ASSUME NEW a \in Alarm, active[a], a \in ToSet(queue)
        PROVE  a \in ToSet(queue')
    <3>1. PICK j \in DOMAIN queue : queue[j] = a
      BY <1>1, <2>6, InQueue
    <3>2. j - k \in 1..(Len(queue) - k) /\ k + (j - k) = j
      BY <2>2, <2>3, <2>4, <2>6, <3>1
    <3>3. j - k \in DOMAIN queue' /\ queue'[j - k] = a
      BY <1>1, <2>5, <3>1, <3>2, LenProperties
    <3>4. QED BY <1>1, <3>3, InQueue
  <2>7. \A a \in Alarm : SettingUp(a) => SettingUp(a)'
    BY <1>1, <2>1 DEF SettingUp, TypeOK
  <2>8. QED BY <1>2, <2>1, <2>6, <2>7, CoverKept
<1>7. CASE Remove_(t)
  <2>1. /\ pc[t] = "remove" /\ lock = t /\ what[t] \in Alarm
        /\ \A u \in Thread \ {t} : pc'[u] = pc[u]
        /\ RemoveAlarm(what[t])
        /\ active' = [active EXCEPT ![what[t]] = FALSE]
        /\ UNCHANGED <<time_due, what>>
    BY <1>1, <1>7 DEF Remove_, Goto, TypeOK, Working, Locking, InLock, InStart
  <2>2. (\A u \in Thread : cur[u] = 0) /\ (\A i : ~Purging(i)) /\ Queued
    BY <1>1, <2>1, NoPurge DEF Timed, Queued
  <2>3. \A j \in DOMAIN queue :
          queue[j] # what[t] => \E i \in DOMAIN queue' : queue'[i] = queue[j]
    BY <2>1, <2>2, AfterRemove
  <2>4. \A a \in Alarm : active'[a] => active[a] /\ a # what[t]
    BY <1>1, <2>1 DEF TypeOK
  <2>5. \A a \in Alarm : a # what[t] /\ a \in ToSet(queue) => a \in ToSet(queue')
    BY <1>1, <2>3, InQueue
  <2>6. \A a \in Alarm : SettingUp(a) => SettingUp(a)'
    BY <2>1 DEF SettingUp
  <2>7. QED BY <1>2, <2>1, <2>4, <2>5, <2>6, CoverKept
<1>8. CASE Activate(t)
  <2>1. /\ pc[t] = "activate" /\ pc' = [pc EXCEPT ![t] = "insert"]
        /\ UNCHANGED <<queue, what>>
        /\ \A a \in Alarm : a # what[t] =>
             time_due'[a] = time_due[a] /\ active'[a] = active[a]
    BY <1>1, <1>8 DEF Activate, Goto, TypeOK
  <2>2. \A a \in Alarm : SettingUp(a) \/ a = what[t] => SettingUp(a)'
    BY <1>1, <2>1 DEF SettingUp, TypeOK
  <2>3. QED BY <1>2, <2>1, <2>2, CoverKept
<1>9. CASE Insert(t)
  <2>1. /\ pc[t] = "insert" /\ pc' = [pc EXCEPT ![t] = "check"]
        /\ UNCHANGED <<time_due, active, what>>
    BY <1>9 DEF Insert, Goto
  <2>2. \A a \in Alarm : SettingUp(a) => SettingUp(a)'
    BY <1>1, <2>1 DEF SettingUp, TypeOK
  <2>3. \A a \in Alarm : a \in ToSet(queue) => a \in ToSet(queue')
    <3>1. PICK k \in 0..Len(queue) :
            InsertionPoint(what[t], k) /\ queue' = InsertAt(queue, k + 1, what[t])
      BY <1>9 DEF Insert
    <3>2. what[t] \in Alarm /\ \A i \in DOMAIN queue : queue[i] # what[t]
      BY <1>1, <2>1 DEF TypeOK, Working, QueueFlags
    <3>3. \A j \in DOMAIN queue : \E i \in DOMAIN queue' : queue'[i] = queue[j]
      BY <3>1, <3>2, AfterInsert DEF Timed
    <3>4. QED BY <1>1, <3>3, InQueue
  <2>4. QED BY <1>2, <2>1, <2>2, <2>3, CoverKept
<1>10. CASE Check(t)
  BY <1>1, <1>3, <1>10 DEF Check, Goto, TypeOK
<1>11. CASE Unlock(t)
  BY <1>1, <1>3, <1>11 DEF Unlock, Goto, Return, TypeOK
<1>12. QED
  BY <1>4, <1>5, <1>6, <1>7, <1>8, <1>9, <1>10, <1>11 DEF StartStep

\* alm_destroy, and the calls that are one step.
LEMMA CoverInCalls ==
  ASSUME Timed, NEW t \in Thread, DestroyStep(t) \/ Call(t)
  PROVE  Handler' /\ TimerSetUp' /\ ActiveCovered'
<1> USE ConstantsAssumption DEF timerVars, alarmVars, localVars
<1>1. /\ TypeOK /\ Working /\ Locking /\ Handles /\ ActiveCovered
      /\ queue \in Seq(Alarm) /\ queue' \in Seq(Alarm)
  <2>1. DestroyStep(t) \/ Call(t) => Next
    BY DEF Next, ThreadStep
  <2>2. queue' \in Seq(Alarm)
    BY <2>1, TypedNext DEF Timed, Queued, Locked, Typed, TypeOK
  <2>3. QED BY <2>2, Typing DEF TypeOK
<1>2. ~Running /\ UNCHANGED <<time, hw, pending, next_due, isr>>
  BY DEF DestroyStep, DestroyTest, DestroyRemove, Free, Call, Start, Cancel, Create, Destroy, Goto
\* No thread between Activate and Unlock moves.
<1>3. ASSUME \A u \in Thread : pc[u] \in {"insert", "check", "setup"} =>
               pc'[u] = pc[u] /\ what'[u] = what[u],
             \A a \in Alarm : active'[a] =>
               /\ active[a] /\ time_due'[a] = time_due[a]
               /\ a \in ToSet(queue) => a \in ToSet(queue')
      PROVE  Handler' /\ TimerSetUp' /\ ActiveCovered'
  <2>1. \A a \in Alarm : SettingUp(a) => SettingUp(a)'
    BY <1>3 DEF SettingUp
  <2>2. QED BY <1>2, <1>3, <2>1, CoverKept
<1>4. CASE DestroyTest(t)
  BY <1>1, <1>3, <1>4 DEF DestroyTest, Goto, TypeOK
<1>5. CASE DestroyRemove(t)
  <2>1. /\ pc[t] = "extract" /\ lock = NULL /\ RemoveAlarm(what[t])
        /\ what[t] \in Alarm /\ ~active[what[t]]
        /\ pc' = [pc EXCEPT ![t] = "free"] /\ UNCHANGED <<time_due, active, what>>
    BY <1>1, <1>5 DEF DestroyRemove, Goto, TypeOK, Working, Handles, InDestroy
  <2>2. (\A u \in Thread : cur[u] = 0) /\ (\A i : ~Purging(i)) /\ Queued
    BY <1>1, <2>1, NoPurge DEF Timed, Queued
  <2>3. \A j \in DOMAIN queue :
          queue[j] # what[t] => \E i \in DOMAIN queue' : queue'[i] = queue[j]
    BY <2>1, <2>2, AfterRemove
  <2>4. \A a \in Alarm : a # what[t] /\ a \in ToSet(queue) => a \in ToSet(queue')
    BY <1>1, <2>3, InQueue
  <2>5. QED BY <1>1, <1>3, <2>1, <2>4 DEF TypeOK
<1>6. CASE Free(t)
  <2>1. pc[t] = "free" /\ what[t] \in Alarm /\ ~active[what[t]]
    BY <1>1, <1>6 DEF Free, Goto, TypeOK, Working, Handles, InDestroy
  <2>2. QED BY <1>1, <1>3, <1>6, <2>1 DEF Free, Goto, Return, TypeOK
<1>7. ASSUME NEW a \in Alarm, NEW d \in Delay, Start(t, a, d)
      PROVE  Handler' /\ TimerSetUp' /\ ActiveCovered'
  BY <1>1, <1>3, <1>7 DEF Start, Goto, TypeOK
<1>8. ASSUME NEW a \in Alarm, Cancel(t, a)
      PROVE  Handler' /\ TimerSetUp' /\ ActiveCovered'
  BY <1>1, <1>3, <1>8 DEF Cancel, Goto, TypeOK
<1>9. ASSUME NEW a \in Alarm, Create(t, a)
      PROVE  Handler' /\ TimerSetUp' /\ ActiveCovered'
  BY <1>1, <1>3, <1>9 DEF Create, Goto, TypeOK
<1>10. ASSUME NEW a \in Alarm, Destroy(t, a)
       PROVE  Handler' /\ TimerSetUp' /\ ActiveCovered'
  BY <1>1, <1>3, <1>10 DEF Destroy, Goto, TypeOK
<1>11. QED
  BY <1>4, <1>5, <1>6, <1>7, <1>8, <1>9, <1>10 DEF DestroyStep, Call

-----------------------------------------------------------------------------
\* Every step keeps all active alarms covered.
LEMMA TimedNext ==
  ASSUME DestroyRaces = FALSE
  PROVE  Timed /\ [Next]_vars => Timed'
<1> SUFFICES ASSUME Timed, [Next]_vars PROVE Timed'
  OBVIOUS
<1>1. Queued'
  BY QueuedNext DEF Timed
<1>2. Inserted'
  BY InsertedNext
<1>3. CASE UNCHANGED vars
  <2>1. UNCHANGED <<time, hw, pending, next_due, isr, queue, time_due, active, pc, what>>
    BY <1>3 DEF vars, timerVars, alarmVars, localVars
  <2>2. Handler' /\ TimerSetUp' /\ ActiveCovered'
    BY <2>1, Typing DEF Handler, TimerSetUp, ActiveCovered, Running, SettingUp
  <2>3. QED BY <1>1, <1>2, <2>2 DEF Timed
<1>4. CASE Next
  <2>1. CASE \/ Tick \/ TimerExpires \/ HandlerEnter \/ HandlerStep
             \/ \E a \in Alarm : CallbackCancels(a)
    BY <1>1, <1>2, <2>1, CoverBeforeSetup, CoverBySetup DEF HandlerStep, Timed
  <2>2. ASSUME NEW t \in Thread, ThreadStep(t) \/ Call(t)
        PROVE  Timed'
    BY <1>1, <1>2, <2>2, CoverByThread, CoverInStart, CoverInCalls DEF ThreadStep, Timed
  <2>3. QED BY <1>4, <2>1, <2>2 DEF Next
<1>5. QED BY <1>3, <1>4

\* An active alarm is always linked in the queue with an interrupt on its way
\* that comes in time for it, unless alm_start is still busy with it: no order
\* of starts, restarts, cancels, destroys and interrupts loses an alarm.
THEOREM NoAlarmForgotten ==
  ASSUME DestroyRaces = FALSE
  PROVE  Spec => []ActiveCovered
<1>1. Timed => ActiveCovered
  BY DEF Timed
<1>2. QED BY <1>1, TimedInit, TimedNext, PTL DEF Spec

\* The invariant all of the above rests on.
THEOREM InductiveInvariant ==
  ASSUME DestroyRaces = FALSE
  PROVE  Spec => []Inductive
<1>1. Timed => Inductive
  BY DEF Timed, Queued, Locked, Typed, Inductive
<1>2. QED BY <1>1, TimedInit, TimedNext, PTL DEF Spec
=============================================================================
