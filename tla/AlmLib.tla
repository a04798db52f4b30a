------------------------------- MODULE AlmLib -------------------------------
(***************************************************************************)
(* almLib.c on a target with real interrupts (the vxWorks and RTEMS        *)
(* ports): one CPU, threads that preempt each other at any point, and an   *)
(* interrupt handler that runs between any two thread steps and is not     *)
(* itself interrupted by a thread.  The linked list of alarms is kept as   *)
(* the sequence of alarms reachable from first_alm: every change of the    *)
(* list in the code is one pointer assignment, so it is one step here.     *)
(* The specification starts where alm_init has returned ALM_INIT_OK.       *)
(***************************************************************************)
EXTENDS Integers, SequencesExt

CONSTANTS
  Alarm,        \* addresses malloc can return for an alm_def
  Thread,       \* client threads
  NULL,         \* no thread, no alarm
  Delay,        \* delays clients pass to alm_start
  MAX_DELAY,    \* delays from here on are ignored
  MAX_WAIT,     \* longest and
  MIN_WAIT,     \*   shortest delay handed to the low-level timer
  TimerMax,     \* timer_get_max_delay()
  DestroyRaces, \* TRUE: alm_destroy may test `enqueued' while another thread
                \*   is inside alm_start; FALSE: clients keep the two apart
  LastStart,    \* bound: alm_start is not called after this time
  Horizon       \* bound: last time modelled, it stands for all later times

ASSUME ConstantsAssumption ==
  /\ NULL \notin Alarm \cup Thread
  /\ Delay \subseteq Nat
  /\ MAX_DELAY \in Nat /\ MAX_WAIT \in Nat /\ MIN_WAIT \in Nat /\ TimerMax \in Nat
  /\ MIN_WAIT <= MAX_WAIT /\ MIN_WAIT <= TimerMax
  /\ DestroyRaces \in BOOLEAN
  /\ LastStart \in Nat /\ Horizon \in Nat

VARIABLES
  time,       \* what alm_get_stamp returns now
  hw,         \* stamp at which the low-level timer expires, or Off
  pending,    \* the timer's interrupt is requested and not yet taken
  isr,        \* the interrupt handler: where it is, its cursor, its `now'
  next_due,   \* static of alm_setup_alarm
  queue,      \* alarms reachable from first_alm, in order
  time_due, active, enqueued,   \* fields of each alm_def
  created,    \* alarms allocated and not freed
  lock,       \* owner of the mutex alm_lock
  pc,         \* where each thread is inside the library
  what, delay, tstart,   \* arguments and local of a thread's alm_start
  cur         \* alm_purge: number of alarms already marked dequeued

timerVars  == <<hw, pending, next_due>>
alarmVars  == <<time_due, active, enqueued>>
localVars  == <<what, delay, tstart, cur>>
vars == <<time, timerVars, isr, queue, alarmVars, created, lock, pc, localVars>>

Off == -1
IsrIdle == [pc |-> "idle", pos |-> 1, now |-> 0]
Running == isr.pc # "idle"

\* The handles that clients may use.
Destroying(a) == \E u \in Thread : pc[u] \in {"test", "extract", "free"} /\ what[u] = a
Usable(a) == a \in created /\ ~Destroying(a)

-----------------------------------------------------------------------------
(* The low-level timer and the clock. *)

\* alm_setup_alarm after its test: the delay it hands to timer_setup.
SetupDelay(due) ==
  LET wanted == IF due < time THEN 0 ELSE due - time
      limit  == IF TimerMax < MAX_WAIT THEN TimerMax ELSE MAX_WAIT
      capped == IF wanted > limit THEN limit ELSE wanted
  IN  IF capped < MIN_WAIT THEN MIN_WAIT ELSE capped

\* Mutant: the handler, too, leaves a timer alone that seems to expire earlier.
SetupAlarm_noRearm(due, fromIsr) ==
  /\ IF due <= next_due
     THEN /\ next_due' = time + SetupDelay(due)
          /\ hw' = next_due'
     ELSE UNCHANGED <<next_due, hw>>
  /\ UNCHANGED pending

\* Mutant: the delay is subtracted from the current time.
SetupAlarm_sign(due, fromIsr) ==
  /\ IF fromIsr \/ due <= next_due
     THEN /\ next_due' = time - SetupDelay(due)
          /\ hw' = next_due'
     ELSE UNCHANGED <<next_due, hw>>
  /\ UNCHANGED pending

\* alm_setup_alarm(due, fromIsr), all of it under the interrupt lock.
SetupAlarm(due, fromIsr) ==
  /\ IF fromIsr \/ due <= next_due
     THEN /\ next_due' = time + SetupDelay(due)
          /\ hw' = next_due'
     ELSE UNCHANGED <<next_due, hw>>
  /\ UNCHANGED pending

Tick ==
  /\ time < Horizon
  /\ time' = time + 1
  /\ UNCHANGED <<timerVars, isr, queue, alarmVars, created, lock, pc, localVars>>

\* The one-shot timer requests its interrupt.  It may do so early: ticks per
\* microsecond are truncated, and a request can be left over from before the
\* timer was set up again.
TimerExpires ==
  /\ hw # Off
  /\ pending' = TRUE
  /\ hw' = Off
  /\ UNCHANGED <<time, next_due, isr, queue, alarmVars, created, lock, pc, localVars>>

TimerMustExpire == (time >= hw \/ time = Horizon) /\ TimerExpires

-----------------------------------------------------------------------------
(* alm_int_handler.  Its two loops advance one alarm per step. *)

HandlerEnter ==
  /\ pending /\ ~Running
  /\ pending' = FALSE
  /\ isr' = [pc |-> "due", pos |-> 1, now |-> time]
  /\ UNCHANGED <<time, hw, next_due, queue, alarmVars, created, lock, pc, localVars>>

\* Mutant: alarms due within MIN_WAIT are served in advance.
AtDue_early(i) == i <= Len(queue) /\ time_due[queue[i]] <= isr.now + MIN_WAIT
AtDue(i) == i <= Len(queue) /\ time_due[queue[i]] <= isr.now
AtInactive(i) == i <= Len(queue) /\ ~active[queue[i]]

\* Mutant: the flag is not reset after the callback.
HandlerDue_keepsActive ==
  /\ isr.pc = "due" /\ AtDue(isr.pos)
  /\ isr' = [isr EXCEPT !.pos = @ + 1]
  /\ UNCHANGED <<time, timerVars, queue, alarmVars, created, lock, pc, localVars>>

\* First loop: an alarm that is due; its callback is called if it is active.
HandlerDue ==
  /\ isr.pc = "due" /\ AtDue(isr.pos)
  /\ active' = [active EXCEPT ![queue[isr.pos]] = FALSE]
  /\ isr' = [isr EXCEPT !.pos = @ + 1]
  /\ UNCHANGED <<time, timerVars, queue, time_due, enqueued, created, lock, pc, localVars>>

\* The callback of that alarm calls alm_cancel for another one.
CallbackCancels(a) ==
  /\ isr.pc = "due" /\ AtDue(isr.pos)
  /\ active[queue[isr.pos]] /\ a # queue[isr.pos]
  /\ Usable(a)
  /\ active' = [active EXCEPT ![a] = FALSE]
  /\ UNCHANGED <<time, timerVars, isr, queue, time_due, enqueued, created, lock, pc, localVars>>

\* Second loop: skip inactive alarms.
HandlerSkip ==
  /\ \/ isr.pc = "due" /\ ~AtDue(isr.pos)
     \/ isr.pc = "skip"
  /\ AtInactive(isr.pos)
  /\ isr' = [isr EXCEPT !.pc = "skip", !.pos = @ + 1]
  /\ UNCHANGED <<time, timerVars, queue, alarmVars, created, lock, pc, localVars>>

\* Set up the timer for the alarm found, or for MAX_WAIT from now, and return.
HandlerSetup ==
  /\ \/ isr.pc = "due" /\ ~AtDue(isr.pos)
     \/ isr.pc = "skip"
  /\ ~AtInactive(isr.pos)
  /\ SetupAlarm(IF isr.pos <= Len(queue) THEN time_due[queue[isr.pos]]
                                         ELSE isr.now + MAX_WAIT, TRUE)
  /\ isr' = IsrIdle
  /\ UNCHANGED <<time, queue, alarmVars, created, lock, pc, localVars>>

HandlerStep == HandlerDue \/ HandlerSkip \/ HandlerSetup

-----------------------------------------------------------------------------
(* What clients call.  A thread runs only while the handler does not. *)

Goto(t, from, to) ==
  /\ ~Running
  /\ pc[t] = from
  /\ pc' = [pc EXCEPT ![t] = to]

\* A thread returns from the library; its locals are dead.
Return(t) ==
  /\ what' = [what EXCEPT ![t] = NULL]
  /\ delay' = [delay EXCEPT ![t] = 0]
  /\ tstart' = [tstart EXCEPT ![t] = 0]
  /\ cur' = [cur EXCEPT ![t] = 0]

\* alm_start up to its first line: the stamp is taken before the mutex.
Start(t, a, d) ==
  /\ time <= LastStart /\ Usable(a)
  /\ Goto(t, "idle", "lock")
  /\ what' = [what EXCEPT ![t] = a]
  /\ delay' = [delay EXCEPT ![t] = d]
  /\ tstart' = [tstart EXCEPT ![t] = time]
  /\ UNCHANGED <<time, timerVars, isr, queue, alarmVars, created, lock, cur>>

Lock(t) ==
  /\ Goto(t, "lock", "purge")
  /\ lock = NULL
  /\ lock' = t
  /\ UNCHANGED <<time, timerVars, isr, queue, alarmVars, created, localVars>>

\* alm_purge: mark the inactive alarms at the head one by one, ...
Purge(t) ==
  /\ Goto(t, "purge", "purge")
  /\ AtInactive(cur[t] + 1)
  /\ enqueued' = [enqueued EXCEPT ![queue[cur[t] + 1]] = FALSE]
  /\ cur' = [cur EXCEPT ![t] = @ + 1]
  /\ UNCHANGED <<time, timerVars, isr, queue, time_due, active, created, lock,
                 what, delay, tstart>>

\* ... then cut them off with one assignment to first_alm.
PurgeEnd(t) ==
  /\ Goto(t, "purge", "remove")
  /\ ~AtInactive(cur[t] + 1)
  /\ queue' = SubSeq(queue, cur[t] + 1, Len(queue))
  /\ cur' = [cur EXCEPT ![t] = 0]
  /\ UNCHANGED <<time, timerVars, isr, alarmVars, created, lock, what, delay, tstart>>

\* Mutant: the head of the queue is not unlinked.
RemoveAlarm_keepsHead(a) ==
  IF enqueued[a] /\ queue # <<>>
  THEN /\ enqueued' = [enqueued EXCEPT ![a] = FALSE]
       /\ \/ a \notin ToSet(queue) /\ queue' = queue
          \/ \E i \in DOMAIN queue :
               queue[i] = a /\ queue' = IF i = 1 THEN queue ELSE RemoveAt(queue, i)
  ELSE UNCHANGED <<queue, enqueued>>

\* Mutant: `enqueued' is not reset.
RemoveAlarm_keepsFlag(a) ==
  IF enqueued[a] /\ queue # <<>>
  THEN /\ enqueued' = enqueued
       /\ \/ a \notin ToSet(queue) /\ queue' = queue
          \/ \E i \in DOMAIN queue : queue[i] = a /\ queue' = RemoveAt(queue, i)
  ELSE UNCHANGED <<queue, enqueued>>

\* alm_remove(a): nothing to do if it is not enqueued, or the queue is empty;
\* or else the walk stops at its node, or at the end.
RemoveAlarm(a) ==
  IF enqueued[a] /\ queue # <<>>
  THEN /\ enqueued' = [enqueued EXCEPT ![a] = FALSE]
       /\ \/ a \notin ToSet(queue) /\ queue' = queue
          \/ \E i \in DOMAIN queue : queue[i] = a /\ queue' = RemoveAt(queue, i)
  ELSE UNCHANGED <<queue, enqueued>>

\* alm_cancel and alm_remove inside alm_start; a too long delay ends here.
Remove_(t) ==
  /\ Goto(t, "remove", IF delay[t] < MAX_DELAY THEN "activate" ELSE "unlock")
  /\ active' = [active EXCEPT ![what[t]] = FALSE]
  /\ RemoveAlarm(what[t])
  /\ UNCHANGED <<time, timerVars, isr, time_due, created, lock, localVars>>

Activate(t) ==
  /\ Goto(t, "activate", "insert")
  /\ time_due' = [time_due EXCEPT ![what[t]] = tstart[t] + delay[t]]
  /\ active' = [active EXCEPT ![what[t]] = TRUE]
  /\ UNCHANGED <<time, timerVars, isr, queue, enqueued, created, lock, localVars>>

\* Mutant: the comparison in alm_insert the wrong way round.
InsertionPoint_reversed(a, k) ==
  /\ \A i \in 1..k : time_due[queue[i]] >= time_due[a]
  /\ k < Len(queue) => time_due[queue[k + 1]] < time_due[a]

\* alm_insert: behind every leading alarm that is not due later.
InsertionPoint(a, k) ==
  /\ \A i \in 1..k : time_due[queue[i]] <= time_due[a]
  /\ k < Len(queue) => time_due[queue[k + 1]] > time_due[a]

Insert(t) ==
  /\ Goto(t, "insert", "check")
  /\ \E k \in 0..Len(queue) :
        InsertionPoint(what[t], k) /\ queue' = InsertAt(queue, k + 1, what[t])
  /\ enqueued' = [enqueued EXCEPT ![what[t]] = TRUE]
  /\ UNCHANGED <<time, timerVars, isr, time_due, active, created, lock, localVars>>

Check(t) ==
  /\ Goto(t, "check", IF active[what[t]] THEN "setup" ELSE "unlock")
  /\ UNCHANGED <<time, timerVars, isr, queue, alarmVars, created, lock, localVars>>

Setup(t) ==
  /\ Goto(t, "setup", "unlock")
  /\ SetupAlarm(time_due[what[t]], FALSE)
  /\ UNCHANGED <<time, isr, queue, alarmVars, created, lock, localVars>>

\* Mutant: alm_start returns without epicsMutexUnlock.
Unlock_forgotten(t) ==
  /\ Goto(t, "unlock", "idle")
  /\ Return(t)
  /\ UNCHANGED <<time, timerVars, isr, queue, alarmVars, created, lock>>

Unlock(t) ==
  /\ Goto(t, "unlock", "idle")
  /\ lock' = NULL
  /\ Return(t)
  /\ UNCHANGED <<time, timerVars, isr, queue, alarmVars, created>>

\* alm_cancel: no lock at all.
Cancel(t, a) ==
  /\ Usable(a)
  /\ Goto(t, "idle", "idle")
  /\ active' = [active EXCEPT ![a] = FALSE]
  /\ UNCHANGED <<time, timerVars, isr, queue, time_due, enqueued, created, lock, localVars>>

\* alm_create; malloc may return the address of a freed alarm.
Create(t, a) ==
  /\ Goto(t, "idle", "idle")
  /\ a \notin created
  /\ created' = created \cup {a}
  /\ time_due' = [time_due EXCEPT ![a] = 0]
  /\ active' = [active EXCEPT ![a] = FALSE]
  /\ enqueued' = [enqueued EXCEPT ![a] = FALSE]
  /\ UNCHANGED <<time, timerVars, isr, queue, lock, localVars>>

\* alm_destroy: the caller is the last user of the handle; cancel it, ...
Destroy(t, a) ==
  /\ a \in created /\ \A u \in Thread : what[u] # a
  /\ Goto(t, "idle", "test")
  /\ what' = [what EXCEPT ![t] = a]
  /\ active' = [active EXCEPT ![a] = FALSE]
  /\ UNCHANGED <<time, timerVars, isr, queue, time_due, enqueued, created, lock,
                 delay, tstart, cur>>

\* ... test `enqueued' without the mutex, ...
DestroyTest(t) ==
  /\ Goto(t, "test", IF enqueued[what[t]] THEN "extract" ELSE "free")
  /\ enqueued[what[t]] \/ lock = NULL \/ DestroyRaces
  /\ UNCHANGED <<time, timerVars, isr, queue, alarmVars, created, lock, localVars>>

\* ... take it out of the queue under the mutex, ...
DestroyRemove(t) ==
  /\ Goto(t, "extract", "free")
  /\ lock = NULL
  /\ RemoveAlarm(what[t])
  /\ UNCHANGED <<time, timerVars, isr, time_due, active, created, lock, localVars>>

\* ... and free it: the fields are gone, alm_create initialises them again.
Free(t) ==
  /\ Goto(t, "free", "idle")
  /\ created' = created \ {what[t]}
  /\ time_due' = [time_due EXCEPT ![what[t]] = 0]
  /\ Return(t)
  /\ UNCHANGED <<time, timerVars, isr, queue, active, enqueued, lock>>

-----------------------------------------------------------------------------
StartStep(t) ==
  \/ Lock(t) \/ Purge(t) \/ PurgeEnd(t) \/ Remove_(t) \/ Activate(t)
  \/ Insert(t) \/ Check(t) \/ Setup(t) \/ Unlock(t)

DestroyStep(t) == DestroyTest(t) \/ DestroyRemove(t) \/ Free(t)

ThreadStep(t) == StartStep(t) \/ DestroyStep(t)

Call(t) ==
  \E a \in Alarm :
     \/ \E d \in Delay : Start(t, a, d)
     \/ Cancel(t, a) \/ Create(t, a) \/ Destroy(t, a)

Init ==
  /\ time = 0
  /\ next_due = SetupDelay(MAX_WAIT)
  /\ hw = next_due
  /\ pending = FALSE
  /\ isr = IsrIdle
  /\ queue = <<>>
  /\ time_due = [a \in Alarm |-> 0]
  /\ active = [a \in Alarm |-> FALSE]
  /\ enqueued = [a \in Alarm |-> FALSE]
  /\ created = {}
  /\ lock = NULL
  /\ pc = [t \in Thread |-> "idle"]
  /\ what = [t \in Thread |-> NULL]
  /\ delay = [t \in Thread |-> 0]
  /\ tstart = [t \in Thread |-> 0]
  /\ cur = [t \in Thread |-> 0]

Next ==
  \/ Tick \/ TimerExpires
  \/ HandlerEnter \/ HandlerStep \/ \E a \in Alarm : CallbackCancels(a)
  \/ \E t \in Thread : ThreadStep(t) \/ Call(t)

Spec == Init /\ [][Next]_vars

\* The clock runs, a timer that is due expires, an interrupt is served and the
\* handler returns; a thread inside the library gets the CPU between
\* interrupts again and again, and the mutex in turn.
Fairness ==
  /\ WF_vars(Tick)
  /\ WF_vars(TimerMustExpire)
  /\ WF_vars(HandlerEnter \/ HandlerStep)
  /\ \A t \in Thread : SF_vars(ThreadStep(t))

FairSpec == Spec /\ Fairness
-----------------------------------------------------------------------------
(* Properties. *)

InStart == {"lock", "purge", "remove", "activate", "insert", "check", "setup", "unlock"}
InLock  == InStart \ {"lock"}
InDestroy == {"test", "extract", "free"}

\* The type invariant.
TypeOK ==
  /\ time \in Nat /\ next_due \in Nat
  /\ hw \in Nat \cup {Off} /\ pending \in BOOLEAN
  /\ isr \in [pc : {"idle", "due", "skip"}, pos : Nat \ {0}, now : Nat]
  /\ queue \in Seq(Alarm)
  /\ time_due \in [Alarm -> Nat]
  /\ active \in [Alarm -> BOOLEAN]
  /\ enqueued \in [Alarm -> BOOLEAN]
  /\ created \subseteq Alarm
  /\ lock \in Thread \cup {NULL}
  /\ pc \in [Thread -> {"idle"} \cup InStart \cup InDestroy]
  /\ what \in [Thread -> Alarm \cup {NULL}]
  /\ delay \in [Thread -> Nat]
  /\ tstart \in [Thread -> Nat]
  /\ cur \in [Thread -> Nat]

Purging(i) == \E t \in Thread : pc[t] = "purge" /\ i <= cur[t]

\* The flag `enqueued', which alm_remove, alm_insert and alm_destroy trust, is
\* set exactly on the alarms that can be reached from first_alm, but for those
\* a running alm_purge has marked and not yet cut off; no alarm is linked twice.
EnqueuedIffQueued ==
  /\ \A a \in Alarm : enqueued[a] => a \in ToSet(queue)
  /\ \A i \in DOMAIN queue : enqueued[queue[i]] <=> ~Purging(i)
  /\ IsInjective(queue)

\* The comment at the head of almLib.c, without its "strictly": the queue is
\* sorted by time_due in every state an interrupt can see, although time_due
\* is overwritten in place when an alarm is started again.
QueueSorted ==
  IsSorted(queue, LAMBDA a, b : time_due[a] <= time_due[b])

SettingUp(a) == \E t \in Thread : what[t] = a /\ pc[t] \in {"insert", "check", "setup"}

\* No alarm is forgotten: an active alarm is in the queue and an interrupt is
\* on its way that comes no later than the alarm is due, or within MIN_WAIT
\* from now if that is later; unless the thread that starts it is still on its
\* way to alm_setup_alarm.  Relates the queue, next_due and the timer across
\* restarts, cancels and interrupts between any two steps of alm_start.
ActiveCovered ==
  \A a \in Alarm : active[a] =>
     \/ SettingUp(a)
     \/ /\ a \in ToSet(queue)
        /\ \/ pending \/ Running
           \/ hw # Off /\ (hw <= time_due[a] \/ hw <= time + MIN_WAIT)

\* The assertions in alm_insert and alm_destroy hold: an alarm is not enqueued
\* when it is inserted, and one that is freed is neither active nor enqueued.
AssertionsHold ==
  \A t \in Thread :
    /\ pc[t] = "insert" => ~enqueued[what[t]]
    /\ pc[t] = "free" => ~active[what[t]] /\ ~enqueued[what[t]]

\* What the assertions before free(alm) are there for: no alarm that has been
\* freed can be reached from first_alm, by the handler or by a queue walk.
NoFreedInQueue == ToSet(queue) \subseteq created
-----------------------------------------------------------------------------
(* The inductive invariant: what else holds in every state, so that the      *)
(* safety properties above are preserved by every step.                      *)

\* A thread inside the library works on an alarm.
Working == \A t \in Thread : pc[t] = "idle" <=> what[t] = NULL

\* The mutex excludes; a purge is in progress only at "purge".
Locking ==
  \A t \in Thread :
    /\ pc[t] \in InLock <=> lock = t
    /\ pc[t] # "purge" => cur[t] = 0

\* A thread's alarm exists, and the one that destroys it is alone with it.
Handles ==
  \A t \in Thread :
    /\ pc[t] # "idle" => what[t] \in created
    /\ pc[t] \in InDestroy =>
         /\ ~active[what[t]]
         /\ \A u \in Thread \ {t} : what[u] # what[t]

\* The queue and the flags, while alm_purge or alm_start is under way.
QueueFlags ==
  /\ IsInjective(queue)
  /\ \A i \in DOMAIN queue : queue[i] \in created
  /\ \A a \in Alarm : enqueued[a] => \E i \in DOMAIN queue : queue[i] = a
  /\ \A i \in DOMAIN queue : enqueued[queue[i]] \/ Purging(i)
  /\ \A t \in Thread : \A i \in 1..cur[t] :
       i \in DOMAIN queue /\ ~active[queue[i]] /\ ~enqueued[queue[i]]
  /\ \A t \in Thread : pc[t] \in {"activate", "insert", "free"} =>
       ~enqueued[what[t]] /\ \A i \in DOMAIN queue : queue[i] # what[t]

\* Behind alm_insert and before epicsMutexUnlock the alarm stays linked.
Inserted == \A t \in Thread : pc[t] \in {"check", "setup"} => enqueued[what[t]]

\* The handler has dealt with everything before its cursor.
Handler ==
  /\ isr.now <= time
  /\ Running => \A i \in DOMAIN queue : i < isr.pos => ~active[queue[i]]

\* Unless an interrupt is on its way or being served, the timer is set up for
\* the time alm_setup_alarm remembers.
TimerSetUp == pending \/ Running \/ (hw # Off /\ hw = next_due)

Inductive ==
  /\ TypeOK /\ Working /\ Locking /\ Handles /\ QueueFlags /\ QueueSorted
  /\ Inserted /\ Handler /\ TimerSetUp /\ ActiveCovered
=============================================================================
