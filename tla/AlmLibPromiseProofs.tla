------------------------ MODULE AlmLibPromiseProofs ------------------------
(***************************************************************************)
(* AlmLib implements AlarmClock: queue, mutex, timer and handler together  *)
(* keep what almLib.h promises to a client, for every value of the         *)
(* constants.                                                              *)
(***************************************************************************)
EXTENDS MCAlmLib, AlmLibProofs

\* Between alm_cancel and the assignment to `active' inside alm_start nobody
\* activates the alarm, for that takes the mutex; and no delay is too long here.
Cancelled ==
  \A t \in Thread : pc[t] = "activate" => ~active[what[t]] /\ delay[t] < MAX_DELAY

Kept == Timed /\ Cancelled

\* Nobody but the owner of the mutex sets an alarm active.
LEMMA CancelledNext ==
  ASSUME Timed, Cancelled, [Next]_vars
  PROVE  Cancelled'
<1>1. TypeOK /\ Working /\ Locking /\ Handles
  BY Typing
<1>2. \A t \in Thread : pc[t] # "idle" => what[t] \in Alarm
  BY <1>1 DEF TypeOK, Working
<1> USE ConstantsAssumption DEF timerVars, alarmVars, localVars
\* Steps that activate nothing, and lead no thread to "activate".
<1>3. ASSUME \A a \in Alarm : active'[a] => active[a],
             \A t \in Thread : pc'[t] = "activate" =>
               pc[t] = "activate" /\ what'[t] = what[t] /\ delay'[t] = delay[t]
      PROVE  Cancelled'
  BY <1>2, <1>3 DEF Cancelled
<1>4. CASE \/ Tick \/ TimerExpires \/ HandlerEnter \/ HandlerStep \/ UNCHANGED vars
           \/ \E a \in Alarm : CallbackCancels(a)
  BY <1>1, <1>3, <1>4 DEF Tick, TimerExpires, HandlerEnter, HandlerStep, HandlerDue,
                          HandlerSkip, HandlerSetup, CallbackCancels, vars, TypeOK
<1>5. ASSUME NEW t \in Thread, StartStep(t)
      PROVE  Cancelled'
  <2>1. CASE Lock(t)
    BY <1>1, <1>3, <2>1 DEF Lock, Goto, TypeOK
  <2>2. CASE Purge(t)
    BY <1>1, <1>3, <2>2 DEF Purge, Goto, TypeOK
  <2>3. CASE PurgeEnd(t)
    BY <1>1, <1>3, <2>3 DEF PurgeEnd, Goto, TypeOK
  <2>4. CASE Remove_(t)
    BY <1>1, <1>2, <2>4 DEF Remove_, Goto, Cancelled, TypeOK
  <2>5. CASE Activate(t)
    <3>1. \A u \in Thread : pc'[u] # "activate"
      BY <1>1, <2>5 DEF Activate, Goto, TypeOK, Locking, InLock, InStart
    <3>2. QED BY <3>1 DEF Cancelled
  <2>6. CASE Insert(t)
    BY <1>1, <1>3, <2>6 DEF Insert, Goto, TypeOK
  <2>7. CASE Check(t)
    BY <1>1, <1>3, <2>7 DEF Check, Goto, TypeOK
  <2>8. CASE Setup(t)
    BY <1>1, <1>3, <2>8 DEF Setup, Goto, TypeOK
  <2>9. CASE Unlock(t)
    BY <1>1, <1>3, <2>9 DEF Unlock, Goto, Return, TypeOK
  <2>10. QED BY <1>5, <2>1, <2>2, <2>3, <2>4, <2>5, <2>6, <2>7, <2>8, <2>9 DEF StartStep
<1>6. ASSUME NEW t \in Thread, DestroyStep(t)
      PROVE  Cancelled'
  <2>1. CASE DestroyTest(t)
    BY <1>1, <1>3, <2>1 DEF DestroyTest, Goto, TypeOK
  <2>2. CASE DestroyRemove(t)
    BY <1>1, <1>3, <2>2 DEF DestroyRemove, Goto, TypeOK
  <2>3. CASE Free(t)
    BY <1>1, <1>3, <2>3 DEF Free, Goto, Return, TypeOK
  <2>4. QED BY <1>6, <2>1, <2>2, <2>3 DEF DestroyStep
<1>7. ASSUME NEW t \in Thread, Call(t)
      PROVE  Cancelled'
  <2>1. PICK a \in Alarm :
          \/ \E d \in Delay : Start(t, a, d)
          \/ Cancel(t, a) \/ Create(t, a) \/ Destroy(t, a)
    BY <1>7 DEF Call
  <2>2. ASSUME NEW d \in Delay, Start(t, a, d)
        PROVE  Cancelled'
    BY <1>1, <1>3, <2>2 DEF Start, Goto, TypeOK
  <2>3. CASE Cancel(t, a)
    BY <1>1, <1>3, <2>3 DEF Cancel, Goto, TypeOK
  <2>4. CASE Create(t, a)
    BY <1>1, <1>3, <2>4 DEF Create, Goto, TypeOK
  <2>5. CASE Destroy(t, a)
    BY <1>1, <1>3, <2>5 DEF Destroy, Goto, TypeOK
  <2>6. QED BY <2>1, <2>2, <2>3, <2>4, <2>5
<1>8. QED
  BY <1>4, <1>5, <1>6, <1>7 DEF Next, ThreadStep

\* The invariant holds initially.
LEMMA KeptInit == Init => Kept
BY TimedInit DEF Kept, Cancelled, Init

\* Every step keeps the invariant.
LEMMA KeptNext ==
  ASSUME DestroyRaces = FALSE
  PROVE  Kept /\ [Next]_vars => Kept'
BY TimedNext, CancelledNext DEF Kept

-----------------------------------------------------------------------------
(* What the promise looks like from inside. *)

\* A step that leaves dates and requests alone.
LEMMA DueSame ==
  ASSUME \A a \in Alarm : active'[a] = active[a] /\ (active[a] => time_due'[a] = time_due[a])
  PROVE  DueDates' = DueDates
BY DEF DueDates

\* The requests depend on the threads that ask, and on nothing else.
LEMMA RequestsSame ==
  ASSUME \A t \in Thread :
           /\ Asking(t)' <=> Asking(t)
           /\ Asking(t) => what'[t] = what[t] /\ tstart'[t] = tstart[t] /\ delay'[t] = delay[t]
  PROVE  Requests' = Requests
BY DEF Requests

\* One alarm is taken back.
LEMMA DueGone ==
  ASSUME NEW a \in Alarm, ~active'[a],
         \A b \in Alarm \ {a} :
           active'[b] = active[b] /\ (active[b] => time_due'[b] = time_due[b])
  PROVE  DueDates' = [DueDates EXCEPT ![a] = -1]
<1> DEFINE new == [DueDates EXCEPT ![a] = -1]
<1>1. \A b \in Alarm : DueDates'[b] = new[b]
  BY DEF DueDates
<1>2. DOMAIN DueDates' = Alarm /\ DOMAIN new = Alarm
  BY DEF DueDates
<1>3. QED BY <1>1, <1>2 DEF DueDates

\* One request ends.
LEMMA RequestGone ==
  ASSUME NEW t \in Thread, ~(Asking(t)'),
         \A u \in Thread \ {t} :
           /\ Asking(u)' <=> Asking(u)
           /\ Asking(u) => what'[u] = what[u] /\ tstart'[u] = tstart[u] /\ delay'[u] = delay[u]
  PROVE  Requests' = [Requests EXCEPT ![t] = {}]
BY DEF Requests

-----------------------------------------------------------------------------
(* Every step of AlmLib is one of AlarmClock, or changes nothing there. *)

Stutters == UNCHANGED Promise!vars
Follows == Promise!Next \/ Stutters

\* The clock and the timer: a tick of AlarmClock or nothing.
LEMMA FollowsTimer ==
  ASSUME Kept, Tick \/ TimerExpires
  PROVE  Follows
<1> USE DEF timerVars, alarmVars, localVars
<1>1. UNCHANGED <<Running, DueDates, Requests>>
  BY DEF Tick, TimerExpires, Running, DueDates, Requests, Asking
<1>2. CASE Tick
  BY <1>1, <1>2 DEF Tick, Follows, Promise!Next, Promise!Tick
<1>3. CASE TimerExpires
  BY <1>1, <1>3 DEF TimerExpires, Follows, Stutters, Promise!vars
<1>4. QED BY <1>2, <1>3

\* The handler: at an active alarm that is due it rings, else nothing happens.
LEMMA FollowsHandler ==
  ASSUME Kept, HandlerEnter \/ HandlerStep
  PROVE  Follows
<1> USE DEF timerVars, alarmVars, localVars
<1>1. TypeOK /\ Handler /\ isr \in IsrType
  BY Typing DEF Kept, TypeOK, IsrType
<1>2. Requests' = Requests /\ time' = time
  BY DEF HandlerEnter, HandlerStep, HandlerDue, HandlerSkip, HandlerSetup, Requests, Asking
<1>3. CASE HandlerEnter \/ HandlerSetup
  <2>1. DueDates' = DueDates
    BY <1>3 DEF HandlerEnter, HandlerSetup, DueDates
  <2>2. Running' = ~Running
    <3>1. CASE HandlerEnter
      <4>1. isr'.pc = "due" /\ ~Running
        BY <3>1 DEF HandlerEnter
      <4>2. Running'
        BY <4>1 DEF Running
      <4>3. QED BY <4>1, <4>2, Zenon DEF Running
    <3>2. CASE HandlerSetup
      <4>1. isr.pc # "idle" /\ isr'.pc = "idle"
        BY <3>2 DEF HandlerSetup, IsrIdle
      <4>2. QED BY <4>1, Zenon DEF Running
    <3>3. QED BY <1>3, <3>1, <3>2
  <2>3. QED BY <1>2, <2>1, <2>2 DEF Follows, Promise!Next, Promise!Interrupt
<1>4. CASE HandlerSkip
  <2>1. DueDates' = DueDates
    BY <1>4 DEF HandlerSkip, DueDates
  <2>2. Running' = Running
    BY <1>1, <1>4 DEF HandlerSkip, Running, IsrType
  <2>3. QED BY <1>2, <2>1, <2>2 DEF Follows, Stutters, Promise!vars
<1>5. CASE HandlerDue
  <2> DEFINE a == queue[isr.pos]
  <2>1. a \in Alarm
    BY <1>1, <1>5, QueueDomain DEF HandlerDue, AtDue, IsrType
  <2>2. /\ time_due[a] <= time
        /\ time_due' = time_due /\ active' = [active EXCEPT ![a] = FALSE]
    <3>1. time_due[a] <= isr.now
      BY <1>5 DEF HandlerDue, AtDue
    <3>2. isr.now <= time /\ isr.now \in Nat /\ time \in Nat /\ time_due[a] \in Nat
      BY <1>1, <2>1 DEF Handler, TypeOK
    <3>3. QED BY <1>5, <3>1, <3>2 DEF HandlerDue
  <2>3. Running /\ Running' = Running
    BY <1>1, <1>5 DEF HandlerDue, Running, IsrType
  <2>4. CASE active[a]
    <3>1. DueDates' = [DueDates EXCEPT ![a] = -1]
      BY <1>1, <2>1, <2>2, DueGone DEF TypeOK
    <3>2. DueDates[a] = time_due[a] /\ time_due[a] \in Nat
      BY <1>1, <2>1, <2>4 DEF DueDates, TypeOK
    <3>3. Promise!Ring(a)
      BY <1>2, <2>2, <2>3, <3>1, <3>2 DEF Promise!Ring, Promise!Overdue, Promise!Idle
    <3>4. QED BY <2>1, <3>3 DEF Follows, Promise!Next
  <2>5. CASE ~active[a]
    <3>1. active' = active
      BY <1>1, <2>1, <2>2, <2>5 DEF TypeOK
    <3>2. DueDates' = DueDates
      BY <2>2, <3>1 DEF DueDates
    <3>3. QED BY <1>2, <2>3, <3>2 DEF Follows, Stutters, Promise!vars
  <2>6. QED BY <2>4, <2>5
<1>6. QED BY <1>3, <1>4, <1>5 DEF HandlerStep

\* A callback takes another alarm back.
LEMMA FollowsCallback ==
  ASSUME Kept, NEW a \in Alarm, CallbackCancels(a)
  PROVE  Follows
<1> USE DEF timerVars, alarmVars, localVars
<1> DEFINE b == queue[isr.pos]
<1>1. TypeOK /\ Handler /\ isr \in IsrType
  BY Typing DEF Kept, TypeOK, IsrType
<1>2. b \in Alarm \ {a} /\ active[b]
  BY <1>1, QueueDomain DEF CallbackCancels, AtDue, IsrType
<1>3. time_due[b] \in Nat /\ time_due[b] <= time
  <2>1. time_due[b] <= isr.now
    BY DEF CallbackCancels, AtDue
  <2>2. isr.now <= time /\ isr.now \in Nat /\ time \in Nat /\ time_due[b] \in Nat
    BY <1>1, <1>2 DEF Handler, TypeOK
  <2>3. QED BY <2>1, <2>2
<1>4. DueDates[b] = time_due[b]
  BY <1>2 DEF DueDates
<1>5. DueDates' = [DueDates EXCEPT ![a] = -1]
  BY <1>1, DueGone DEF CallbackCancels, TypeOK
<1>6. Requests' = Requests /\ time' = time /\ Running /\ Running' = Running
  BY DEF CallbackCancels, Requests, Asking, Running
<1>7. \E c \in Alarm \ {a} : DueDates[c] # -1 /\ DueDates[c] <= time
  BY <1>2, <1>3, <1>4
<1>8. Promise!TakeBack(a)
  BY <1>5, <1>6, <1>7 DEF Promise!TakeBack, Promise!Overdue, Promise!Idle
<1>9. QED BY <1>8 DEF Follows, Promise!Next

\* A thread inside alm_start.
LEMMA FollowsStart ==
  ASSUME Kept, NEW t \in Thread, StartStep(t)
  PROVE  Follows
<1> USE DEF timerVars, alarmVars, localVars
<1>1. TypeOK /\ Working /\ Cancelled
  BY Typing DEF Kept
<1>2. ~Running /\ time' = time /\ Running' = Running
  BY DEF StartStep, Lock, Purge, PurgeEnd, Remove_, Activate, Insert, Check, Setup, Unlock,
         Goto, Running
<1>3. ASSUME DueDates' = DueDates, Requests' = Requests
      PROVE  Follows
  BY <1>2, <1>3 DEF Follows, Stutters, Promise!vars
<1>4. CASE Lock(t)
  BY <1>1, <1>3, <1>4, DueSame, RequestsSame DEF Lock, Goto, Asking, TypeOK
<1>5. CASE Purge(t)
  BY <1>1, <1>3, <1>5, DueSame, RequestsSame DEF Purge, Goto, Asking, TypeOK
<1>6. CASE PurgeEnd(t)
  BY <1>1, <1>3, <1>6, DueSame, RequestsSame DEF PurgeEnd, Goto, Asking, TypeOK
<1>7. CASE Remove_(t)
  <2>1. what[t] \in Alarm /\ pc[t] = "remove"
    BY <1>1, <1>7 DEF Remove_, Goto, TypeOK, Working
  <2>2. DueDates' = [DueDates EXCEPT ![what[t]] = -1]
    BY <1>1, <1>7, <2>1, DueGone DEF Remove_, TypeOK
  <2>3. CASE delay[t] < MAX_DELAY
    <3>1. Requests' = Requests
      BY <1>1, <1>7, <2>1, <2>3, RequestsSame DEF Remove_, Goto, Asking, TypeOK
    <3>2. Promise!Cancel(what[t])
      BY <1>2, <2>2, <3>1 DEF Promise!Cancel, Promise!Idle
    <3>3. QED BY <2>1, <3>2 DEF Follows, Promise!Next
  <2>4. CASE ~(delay[t] < MAX_DELAY)
    <3>1. Requests' = [Requests EXCEPT ![t] = {}]
      BY <1>1, <1>7, <2>1, <2>4, RequestGone DEF Remove_, Goto, Asking, TypeOK
    <3> DEFINE r == [alm |-> what[t], from |-> tstart[t], delay |-> delay[t]]
    <3>2. Requests[t] = {r}
      BY <2>1 DEF Requests, Asking
    <3>3. delay[t] >= MAX_DELAY
      BY <1>1, <2>4, ConstantsAssumption DEF TypeOK
    <3>4. \E q \in Requests[t] :
            q.delay >= MAX_DELAY /\ DueDates' = [DueDates EXCEPT ![q.alm] = -1]
      <4>1. r \in Requests[t] /\ r.delay = delay[t] /\ r.alm = what[t]
        BY <3>2
      <4>2. QED BY <2>2, <3>3, <4>1
    <3>5. Promise!Refuse(t)
      BY <1>2, <3>1, <3>4 DEF Promise!Refuse, Promise!Idle
    <3>6. QED BY <3>5 DEF Follows, Promise!Next
  <2>5. QED BY <2>3, <2>4
<1>8. CASE Activate(t)
  <2> DEFINE a == what[t]
             r == [alm |-> what[t], from |-> tstart[t], delay |-> delay[t]]
             new == [DueDates EXCEPT ![a] = tstart[t] + delay[t]]
  <2>1. a \in Alarm /\ pc[t] = "activate" /\ ~active[a]
    BY <1>1, <1>8 DEF Activate, Goto, TypeOK, Working, Cancelled
  <2>2. /\ active' = [active EXCEPT ![a] = TRUE]
        /\ time_due' = [time_due EXCEPT ![a] = tstart[t] + delay[t]]
    BY <1>8 DEF Activate
  <2>3. DueDates' = new
    <3>1. \A b \in Alarm : DueDates'[b] = new[b]
      BY <1>1, <2>1, <2>2 DEF DueDates, TypeOK
    <3>2. DOMAIN DueDates' = Alarm /\ DOMAIN new = Alarm
      BY DEF DueDates
    <3>3. QED BY <3>1, <3>2 DEF DueDates
  <2>4. Requests' = [Requests EXCEPT ![t] = {}]
    BY <1>1, <1>8, <2>1, RequestGone DEF Activate, Goto, Asking, TypeOK
  <2>5. Requests[t] = {r} /\ DueDates[a] = -1
    BY <2>1 DEF Requests, Asking, DueDates
  <2>6. delay[t] < MAX_DELAY
    BY <1>1, <2>1 DEF Cancelled
  <2>7. \E q \in Requests[t] :
          /\ q.delay < MAX_DELAY /\ DueDates[q.alm] = -1
          /\ DueDates' = [DueDates EXCEPT ![q.alm] = q.from + q.delay]
    <3>1. /\ r \in Requests[t]
          /\ r.delay = delay[t] /\ r.alm = what[t] /\ r.from = tstart[t]
      BY <2>5
    <3>2. QED BY <2>3, <2>5, <2>6, <3>1
  <2>8. Promise!Arm(t)
    BY <1>2, <2>4, <2>7 DEF Promise!Arm, Promise!Idle
  <2>9. QED BY <2>8 DEF Follows, Promise!Next
<1>9. CASE Insert(t)
  BY <1>1, <1>3, <1>9, DueSame, RequestsSame DEF Insert, Goto, Asking, TypeOK
<1>10. CASE Check(t)
  BY <1>1, <1>3, <1>10, DueSame, RequestsSame DEF Check, Goto, Asking, TypeOK
<1>11. CASE Setup(t)
  BY <1>1, <1>3, <1>11, DueSame, RequestsSame DEF Setup, Goto, Asking, TypeOK
<1>12. CASE Unlock(t)
  BY <1>1, <1>3, <1>12, DueSame, RequestsSame DEF Unlock, Goto, Return, Asking, TypeOK
<1>13. QED
  BY <1>4, <1>5, <1>6, <1>7, <1>8, <1>9, <1>10, <1>11, <1>12 DEF StartStep

\* alm_destroy: nothing, the alarm is not armed.
LEMMA FollowsDestroy ==
  ASSUME Kept, NEW t \in Thread, DestroyStep(t)
  PROVE  Follows
<1> USE DEF timerVars, alarmVars, localVars
<1>1. TypeOK /\ Working /\ Handles
  BY Typing DEF Kept
<1>2. /\ time' = time /\ Running' = Running /\ active' = active
      /\ \A a \in Alarm : active[a] => time_due'[a] = time_due[a]
  BY <1>1 DEF DestroyStep, DestroyTest, DestroyRemove, Free, Goto, Running, Handles, InDestroy,
              TypeOK
<1>3. DueDates' = DueDates
  BY <1>2, DueSame
<1>4. Requests' = Requests
  BY <1>1, RequestsSame
  DEF DestroyStep, DestroyTest, DestroyRemove, Free, Goto, Return, Asking, TypeOK
<1>5. QED BY <1>2, <1>3, <1>4 DEF Follows, Stutters, Promise!vars

\* The first step of each call.
LEMMA FollowsCall ==
  ASSUME Kept, NEW t \in Thread, Call(t)
  PROVE  Follows
<1> USE DEF timerVars, alarmVars, localVars
<1>1. TypeOK
  BY Typing DEF Kept
<1>2. PICK a \in Alarm :
        \/ \E d \in Delay : Start(t, a, d)
        \/ Cancel(t, a) \/ Create(t, a) \/ Destroy(t, a)
  BY DEF Call
<1>3. ~Running /\ time' = time /\ Running' = Running
  BY <1>2 DEF Start, Cancel, Create, Destroy, Goto, Running
<1>4. ASSUME NEW d \in Delay, Start(t, a, d)
      PROVE  Follows
  <2> DEFINE new == [Requests EXCEPT ![t] = {[alm |-> a, from |-> time, delay |-> d]}]
  <2>1. DueDates' = DueDates
    BY <1>4 DEF Start, DueDates
  <2>2. Requests[t] = {}
    BY <1>4 DEF Start, Goto, Requests, Asking
  <2>3. Requests' = new
    <3>1. \A u \in Thread : Requests'[u] = new[u]
      BY <1>1, <1>4 DEF Start, Goto, Requests, Asking, TypeOK
    <3>2. DOMAIN Requests' = Thread /\ DOMAIN new = Thread
      BY DEF Requests
    <3>3. QED BY <3>1, <3>2 DEF Requests
  <2>4. Promise!Ask(t, a, d)
    BY <1>3, <2>1, <2>2, <2>3 DEF Promise!Ask
  <2>5. QED BY <2>4 DEF Follows, Promise!Next
<1>5. CASE Cancel(t, a) \/ Create(t, a) \/ Destroy(t, a)
  <2>1. DueDates' = [DueDates EXCEPT ![a] = -1]
    BY <1>1, <1>5, DueGone DEF Cancel, Create, Destroy, TypeOK
  <2>2. Requests' = Requests
    BY <1>1, <1>5, RequestsSame DEF Cancel, Create, Destroy, Goto, Asking, TypeOK
  <2>3. Promise!Cancel(a)
    BY <1>3, <2>1, <2>2 DEF Promise!Cancel, Promise!Idle
  <2>4. QED BY <2>3 DEF Follows, Promise!Next
<1>6. QED BY <1>2, <1>4, <1>5

\* Every step of AlmLib is one of AlarmClock, or none.
LEMMA FollowsNext ==
  ASSUME Kept, [Next]_vars
  PROVE  Follows
<1>1. CASE UNCHANGED vars
  BY <1>1 DEF vars, timerVars, alarmVars, localVars, Follows, Stutters, Promise!vars, Running,
              DueDates, Requests, Asking
<1>2. CASE Next
  BY <1>2, FollowsTimer, FollowsHandler, FollowsCallback, FollowsStart, FollowsDestroy,
     FollowsCall DEF Next, ThreadStep
<1>3. QED BY <1>1, <1>2

\* No alarm is armed initially.
LEMMA FollowsInit == Init => Promise!Init
<1> SUFFICES ASSUME Init PROVE Promise!Init
  OBVIOUS
<1>1. Running = FALSE
  BY DEF Init, Running, IsrIdle
<1>2. DueDates = [a \in Alarm |-> -1]
  BY DEF Init, DueDates
<1>3. Requests = [c \in Thread |-> {}]
  BY DEF Init, Requests, Asking
<1>4. QED BY <1>1, <1>2, <1>3 DEF Init, Promise!Init, Promise!Idle

\* The queue, the mutex, the timer and the handler together keep the promise of
\* almLib.h: an alarm rings in interrupt context, when it is due and not before,
\* once for each alm_start, and not after a restart or alm_cancel took it back;
\* whatever threads, callbacks and interrupts do in between.
THEOREM PromiseKept ==
  ASSUME DestroyRaces = FALSE
  PROVE  Spec => KeepsPromise
<1>1. Kept /\ [Next]_vars => [Promise!Next]_Promise!vars
  BY FollowsNext DEF Follows, Stutters
<1>2. QED
  BY <1>1, KeptInit, KeptNext, FollowsInit, PTL DEF Spec, KeepsPromise, Promise!Spec
=============================================================================
