----------------------------- MODULE AlmLibPtr -----------------------------
(***************************************************************************)
(* The queue of almLib.c as it is stored: alarms linked by their `next'    *)
(* fields, walked by alm_purge, alm_dump_queue and the interrupt handler   *)
(* with cursors of their own.  On the vxWorks and RTEMS ports the handler  *)
(* runs while no thread does, and this module implements AlmLib.  On Linux *)
(* it is a thread next to the others (timer_Linux.c): only epicsInterrupt- *)
(* Lock, which it holds, keeps them out of alm_get_stamp and               *)
(* alm_setup_alarm.  Memory accesses happen in program order.              *)
(***************************************************************************)
EXTENDS Integers, SequencesExt

CONSTANTS
  Alarm, Thread, NULL, Delay, MAX_DELAY, MAX_WAIT, MIN_WAIT, TimerMax,
  DestroyRaces, LastStart, Horizon,  \* as in AlmLib
  HandlerIsThread,  \* TRUE: the Linux port
  Calls             \* what clients do, other than alm_create and starting
                    \*   alarms that are not in the queue

ASSUME PtrAssumption ==
  /\ NULL \notin Alarm \cup Thread
  /\ IsFiniteSet(Alarm)
  /\ Delay \subseteq Nat
  /\ MAX_DELAY \in Nat /\ MAX_WAIT \in Nat /\ MIN_WAIT \in Nat /\ TimerMax \in Nat
  /\ MIN_WAIT <= MAX_WAIT /\ MIN_WAIT <= TimerMax
  /\ DestroyRaces \in BOOLEAN /\ HandlerIsThread \in BOOLEAN
  /\ LastStart \in Nat /\ Horizon \in Nat
  /\ Calls \subseteq {"restart", "cancel", "destroy", "dump"}

VARIABLES
  time, hw, pending, next_due,         \* as in AlmLib
  isr,        \* the interrupt handler: where it is, its locals alm and now
  first_alm,  \* head of the list
  next, time_due, active, enqueued,    \* fields of each alm_def
  created,    \* alarms allocated and not freed
  lock,       \* owner of the mutex alm_lock
  pc,         \* where each thread is inside the library
  what, delay, tstart,  \* arguments and local of a thread's alm_start
  cur,        \* the thread's cursor, in alm_purge and alm_dump_queue
  was         \* history: time_due before alm_start overwrote it

timerVars == <<hw, pending, next_due>>
listVars  == <<first_alm, next, enqueued>>
localVars == <<what, delay, tstart, cur, was>>
vars == <<time, timerVars, isr, listVars, time_due, active, created, lock, pc, localVars>>

Off == -1
IsrIdle == [pc |-> "idle", alm |-> NULL, now |-> 0]
Running == isr.pc # "idle"

\* The handles that clients may use.
InDestroy == {"test", "extract", "free"}
Usable(a) == a \in created /\ \A u \in Thread : what[u] = a => pc[u] \notin InDestroy

-----------------------------------------------------------------------------
(* The list. *)

\* The node n links away from first_alm.
Node[n \in 0..Cardinality(Alarm)] ==
  IF n = 0 THEN first_alm
  ELSE LET p == Node[n - 1] IN IF p = NULL THEN NULL ELSE next[p]

\* The nodes met on the way, up to NULL.
List == [i \in {j \in 1..(Cardinality(Alarm) + 1) : Node[j - 1] # NULL} |-> Node[i - 1]]

\* Where the walk of alm_remove(a) leaves `prev', if a is linked behind it.
Before(a) == {p \in ToSet(List) : next[p] = a}

\* Mutant: the walk of alm_insert goes on to the end of the list.
Earlier_all(a) == DOMAIN List

\* Where the walk of alm_insert(a) leaves `prev' and `next'.
Earlier(a) ==
  LET list == List
  IN  {i \in DOMAIN list : \A j \in 1..i : time_due[list[j]] <= time_due[a]}
Position(a) == Cardinality(Earlier(a))
Behind(a) == IF Position(a) < Len(List) THEN List[Position(a) + 1] ELSE NULL

\* Mutant: the walk takes the removed alarm for the last one.
RemoveAlarm_cutsTail(a) ==
  IF enqueued[a] /\ first_alm # NULL
  THEN /\ enqueued' = [enqueued EXCEPT ![a] = FALSE]
       /\ first_alm' = IF first_alm = a THEN next[a] ELSE first_alm
       /\ next' = [p \in Alarm |-> IF first_alm # a /\ p \in Before(a) THEN NULL ELSE next[p]]
  ELSE UNCHANGED listVars

\* Mutant: the early return asks for `active', which alm_start has just reset.
RemoveAlarm_ifActive(a) ==
  IF active[a] /\ first_alm # NULL
  THEN /\ enqueued' = [enqueued EXCEPT ![a] = FALSE]
       /\ first_alm' = IF first_alm = a THEN next[a] ELSE first_alm
       /\ next' = [p \in Alarm |-> IF first_alm # a /\ p \in Before(a) THEN next[a] ELSE next[p]]
  ELSE UNCHANGED listVars

\* alm_remove: one assignment, to first_alm or to the field of the node before.
RemoveAlarm(a) ==
  IF enqueued[a] /\ first_alm # NULL
  THEN /\ enqueued' = [enqueued EXCEPT ![a] = FALSE]
       /\ first_alm' = IF first_alm = a THEN next[a] ELSE first_alm
       /\ next' = [p \in Alarm |-> IF first_alm # a /\ p \in Before(a) THEN next[a] ELSE next[p]]
  ELSE UNCHANGED listVars

-----------------------------------------------------------------------------
(* The low-level timer and alm_setup_alarm, as in AlmLib. *)

SetupDelay(due) ==
  LET wanted == IF due < time THEN 0 ELSE due - time
      limit  == IF TimerMax < MAX_WAIT THEN TimerMax ELSE MAX_WAIT
      capped == IF wanted > limit THEN limit ELSE wanted
  IN  IF capped < MIN_WAIT THEN MIN_WAIT ELSE capped

SetupAlarm(due, fromIsr) ==
  /\ IF fromIsr \/ due <= next_due
     THEN /\ next_due' = time + SetupDelay(due)
          /\ hw' = next_due'
     ELSE UNCHANGED <<next_due, hw>>
  /\ UNCHANGED pending

Tick ==
  /\ time < Horizon
  /\ time' = time + 1
  /\ UNCHANGED <<timerVars, isr, listVars, time_due, active, created, lock, pc, localVars>>

TimerExpires ==
  /\ hw # Off
  /\ pending' = TRUE
  /\ hw' = Off
  /\ UNCHANGED <<time, next_due, isr, listVars, time_due, active, created, lock, pc, localVars>>

TimerMustExpire == (time >= hw \/ time = Horizon) /\ TimerExpires

-----------------------------------------------------------------------------
(* alm_int_handler, a step for each access to a field. *)

HandlerOnly == UNCHANGED <<time, pending, listVars, time_due, created, lock, pc, localVars>>

\* On Linux: a notification thread gets the interrupt lock.
HandlerEnter ==
  /\ pending /\ ~Running
  /\ pending' = FALSE
  /\ isr' = [pc |-> "due", alm |-> first_alm, now |-> time]
  /\ UNCHANGED <<time, hw, next_due, listVars, time_due, active, created, lock, pc, localVars>>

\* The handler goes on without changing what others can see.
HandlerGoto(from, to) ==
  /\ isr.pc = from /\ isr' = [isr EXCEPT !.pc = to]
  /\ UNCHANGED <<active, hw, next_due>> /\ HandlerOnly

\* Mutant: alarms due within MIN_WAIT are served in advance.
AtDue_early == isr.alm # NULL /\ time_due[isr.alm] <= isr.now + MIN_WAIT
AtDue == isr.alm # NULL /\ time_due[isr.alm] <= isr.now
AtInactive == isr.alm # NULL /\ ~active[isr.alm]

\* First loop: leave it, or look whether the alarm is active.
HandlerDue == HandlerGoto("due", IF AtDue THEN "ring" ELSE "skip")

\* Call the callback of an active alarm.
HandlerRing == HandlerGoto("ring", IF active[isr.alm] THEN "reset" ELSE "advance")

HandlerReset ==
  /\ isr.pc = "reset" /\ isr' = [isr EXCEPT !.pc = "advance"]
  /\ active' = [active EXCEPT ![isr.alm] = FALSE]
  /\ UNCHANGED <<hw, next_due>> /\ HandlerOnly

\* The callback calls alm_cancel for another alarm.
CallbackCancels(a) ==
  /\ "cancel" \in Calls /\ Usable(a)
  /\ isr.pc = "reset" /\ a # isr.alm
  /\ active' = [active EXCEPT ![a] = FALSE]
  /\ UNCHANGED <<isr, hw, next_due>> /\ HandlerOnly

\* alm = alm->next, in either loop.
HandlerNext(from, to) ==
  /\ isr.pc = from /\ isr' = [isr EXCEPT !.pc = to, !.alm = next[@]]
  /\ UNCHANGED <<active, hw, next_due>> /\ HandlerOnly

HandlerAdvance == HandlerNext("advance", "due")

\* Mutant: the loop that skips inactive alarms is missing.
HandlerSkip_not == HandlerGoto("skip", "assert")

\* Second loop.
HandlerSkip == HandlerGoto("skip", IF AtInactive THEN "pass" ELSE "assert")
HandlerPass == HandlerNext("pass", "skip")

\* If the assertion fails the handler does not go on.
HandlerAssert == ~AtInactive /\ HandlerGoto("assert", "setup")

\* Mutant: no timer without an alarm.
HandlerSetup_ifAlarm ==
  /\ isr.pc = "setup"
  /\ IF isr.alm # NULL THEN SetupAlarm(time_due[isr.alm], TRUE) ELSE UNCHANGED timerVars
  /\ isr' = IsrIdle
  /\ UNCHANGED active /\ HandlerOnly

\* Set up the timer for the alarm found, or for MAX_WAIT from now, and return.
HandlerSetup ==
  /\ isr.pc = "setup"
  /\ SetupAlarm(IF isr.alm # NULL THEN time_due[isr.alm] ELSE isr.now + MAX_WAIT, TRUE)
  /\ isr' = IsrIdle
  /\ UNCHANGED active /\ HandlerOnly

HandlerStep ==
  \/ HandlerDue \/ HandlerRing \/ HandlerReset \/ HandlerAdvance
  \/ HandlerSkip \/ HandlerPass \/ HandlerAssert \/ HandlerSetup

-----------------------------------------------------------------------------
(* What clients call. *)

\* Threads do not run while a real interrupt is being served.
Goto(t, from, to) ==
  /\ Running => HandlerIsThread
  /\ pc[t] = from
  /\ pc' = [pc EXCEPT ![t] = to]

\* A thread returns from the library; its locals are dead.
Return(t) ==
  /\ what' = [what EXCEPT ![t] = NULL]
  /\ delay' = [delay EXCEPT ![t] = 0]
  /\ tstart' = [tstart EXCEPT ![t] = 0]
  /\ UNCHANGED <<cur, was>>

\* Not linked, nor about to be: a new alarm, or one that rang and was purged.
Apart(a) == ~enqueued[a] /\ \A u \in Thread : what[u] # a

\* alm_start; alm_get_stamp needs the interrupt lock.
Start(t, a, d) ==
  /\ time <= LastStart /\ Usable(a) /\ ~Running
  /\ "restart" \in Calls \/ Apart(a)
  /\ Goto(t, "idle", "lock")
  /\ what' = [what EXCEPT ![t] = a]
  /\ delay' = [delay EXCEPT ![t] = d]
  /\ tstart' = [tstart EXCEPT ![t] = time]
  /\ UNCHANGED <<time, timerVars, isr, listVars, time_due, active, created, lock, cur, was>>

Lock(t) ==
  /\ Goto(t, "lock", "purge")
  /\ lock = NULL
  /\ lock' = t
  /\ cur' = [cur EXCEPT ![t] = first_alm]
  /\ UNCHANGED <<time, timerVars, isr, listVars, time_due, active, created, what, delay,
                 tstart, was>>

AtPurge(t) == cur[t] # NULL /\ ~active[cur[t]]

\* alm_purge: mark the inactive alarms at the head, ...
Purge(t) ==
  /\ Goto(t, "purge", "purge") /\ AtPurge(t)
  /\ enqueued' = [enqueued EXCEPT ![cur[t]] = FALSE]
  /\ cur' = [cur EXCEPT ![t] = next[@]]
  /\ UNCHANGED <<time, timerVars, isr, first_alm, next, time_due, active, created, lock,
                 what, delay, tstart, was>>

\* Mutant: the first alarm to stay is cut off as well.
PurgeEnd_tooFar(t) ==
  /\ Goto(t, "purge", "cancel") /\ ~AtPurge(t)
  /\ first_alm' = IF cur[t] = NULL THEN NULL ELSE next[cur[t]]
  /\ cur' = [cur EXCEPT ![t] = NULL]
  /\ UNCHANGED <<time, timerVars, isr, next, enqueued, time_due, active, created, lock,
                 what, delay, tstart, was>>

\* ... then move first_alm.
PurgeEnd(t) ==
  /\ Goto(t, "purge", "cancel") /\ ~AtPurge(t)
  /\ first_alm' = cur[t]
  /\ cur' = [cur EXCEPT ![t] = NULL]
  /\ UNCHANGED <<time, timerVars, isr, next, enqueued, time_due, active, created, lock,
                 what, delay, tstart, was>>

CancelIt(t) ==
  /\ Goto(t, "cancel", "remove")
  /\ active' = [active EXCEPT ![what[t]] = FALSE]
  /\ UNCHANGED <<time, timerVars, isr, listVars, time_due, created, lock, localVars>>

Remove_(t) ==
  /\ Goto(t, "remove", IF delay[t] < MAX_DELAY THEN "due" ELSE "unlock")
  /\ RemoveAlarm(what[t])
  /\ UNCHANGED <<time, timerVars, isr, time_due, active, created, lock, localVars>>

\* Mutant: the delay is subtracted.
SetDue_minus(t) ==
  /\ Goto(t, "due", "activate")
  /\ time_due' = [time_due EXCEPT ![what[t]] = tstart[t] - delay[t]]
  /\ was' = [was EXCEPT ![t] = time_due[what[t]]]
  /\ UNCHANGED <<time, timerVars, isr, listVars, active, created, lock, what, delay,
                 tstart, cur>>

SetDue(t) ==
  /\ Goto(t, "due", "activate")
  /\ time_due' = [time_due EXCEPT ![what[t]] = tstart[t] + delay[t]]
  /\ was' = [was EXCEPT ![t] = time_due[what[t]]]
  /\ UNCHANGED <<time, timerVars, isr, listVars, active, created, lock, what, delay,
                 tstart, cur>>

Activate(t) ==
  /\ Goto(t, "activate", "insert")
  /\ active' = [active EXCEPT ![what[t]] = TRUE]
  /\ was' = [was EXCEPT ![t] = 0]
  /\ UNCHANGED <<time, timerVars, isr, listVars, time_due, created, lock, what, delay,
                 tstart, cur>>

\* alm_insert: first what->next, ...
Insert(t) ==
  /\ Goto(t, "insert", "link")
  /\ next' = [next EXCEPT ![what[t]] = Behind(what[t])]
  /\ UNCHANGED <<time, timerVars, isr, first_alm, enqueued, time_due, active, created,
                 lock, localVars>>

\* Mutant: linked where the successor was, not behind the predecessor.
Link_atHead(t) ==
  /\ Goto(t, "link", "check")
  /\ enqueued' = [enqueued EXCEPT ![what[t]] = TRUE]
  /\ first_alm' = what[t]
  /\ UNCHANGED next
  /\ UNCHANGED <<time, timerVars, isr, time_due, active, created, lock, localVars>>

\* ... then what->enqueued and the pointer that makes it reachable.
Link(t) ==
  /\ Goto(t, "link", "check")
  /\ enqueued' = [enqueued EXCEPT ![what[t]] = TRUE]
  /\ IF Position(what[t]) = 0
     THEN first_alm' = what[t] /\ UNCHANGED next
     ELSE next' = [next EXCEPT ![List[Position(what[t])]] = what[t]] /\ UNCHANGED first_alm
  /\ UNCHANGED <<time, timerVars, isr, time_due, active, created, lock, localVars>>

Check(t) ==
  /\ Goto(t, "check", IF active[what[t]] THEN "setup" ELSE "unlock")
  /\ UNCHANGED <<time, timerVars, isr, listVars, time_due, active, created, lock, localVars>>

\* Mutant: alm_setup_alarm does not wait for the interrupt lock.
Setup_unlocked(t) ==
  /\ Goto(t, "setup", "unlock")
  /\ SetupAlarm(time_due[what[t]], FALSE)
  /\ UNCHANGED <<time, isr, listVars, time_due, active, created, lock, localVars>>

\* alm_setup_alarm, under the interrupt lock.
Setup(t) ==
  /\ ~Running
  /\ Goto(t, "setup", "unlock")
  /\ SetupAlarm(time_due[what[t]], FALSE)
  /\ UNCHANGED <<time, isr, listVars, time_due, active, created, lock, localVars>>

Unlock(t) ==
  /\ Goto(t, "unlock", "idle")
  /\ lock' = NULL
  /\ Return(t)
  /\ UNCHANGED <<time, timerVars, isr, listVars, time_due, active, created>>

Cancel(t, a) ==
  /\ "cancel" \in Calls /\ Usable(a)
  /\ Goto(t, "idle", "idle")
  /\ active' = [active EXCEPT ![a] = FALSE]
  /\ UNCHANGED <<time, timerVars, isr, listVars, time_due, created, lock, localVars>>

Create(t, a) ==
  /\ Goto(t, "idle", "idle")
  /\ a \notin created
  /\ created' = created \cup {a}
  /\ time_due' = [time_due EXCEPT ![a] = 0]
  /\ active' = [active EXCEPT ![a] = FALSE]
  /\ enqueued' = [enqueued EXCEPT ![a] = FALSE]
  /\ next' = [next EXCEPT ![a] = NULL]
  /\ UNCHANGED <<time, timerVars, isr, first_alm, lock, localVars>>

Destroy(t, a) ==
  /\ "destroy" \in Calls
  /\ a \in created /\ \A u \in Thread : what[u] # a
  /\ Goto(t, "idle", "test")
  /\ what' = [what EXCEPT ![t] = a]
  /\ active' = [active EXCEPT ![a] = FALSE]
  /\ UNCHANGED <<time, timerVars, isr, listVars, time_due, created, lock, delay,
                 tstart, cur, was>>

DestroyTest(t) ==
  /\ Goto(t, "test", IF enqueued[what[t]] THEN "extract" ELSE "free")
  /\ enqueued[what[t]] \/ lock = NULL \/ DestroyRaces
  /\ UNCHANGED <<time, timerVars, isr, listVars, time_due, active, created, lock, localVars>>

DestroyRemove(t) ==
  /\ Goto(t, "extract", "free")
  /\ lock = NULL
  /\ RemoveAlarm(what[t])
  /\ UNCHANGED <<time, timerVars, isr, time_due, active, created, lock, localVars>>

Free(t) ==
  /\ Goto(t, "free", "idle")
  /\ created' = created \ {what[t]}
  /\ time_due' = [time_due EXCEPT ![what[t]] = 0]
  /\ Return(t)
  /\ UNCHANGED <<time, timerVars, isr, listVars, active, lock>>

\* alm_dump_queue: the head is read before the mutex is taken, ...
Dump(t) ==
  /\ "dump" \in Calls
  /\ Goto(t, "idle", "dump")
  /\ cur' = [cur EXCEPT ![t] = first_alm]
  /\ UNCHANGED <<time, timerVars, isr, listVars, time_due, active, created, lock, what,
                 delay, tstart, was>>

\* ... an empty queue is noticed under the mutex, ...
DumpLock(t) ==
  /\ Goto(t, "dump", "walk")
  /\ lock = NULL
  /\ lock' = t
  /\ cur' = IF first_alm = NULL THEN [cur EXCEPT ![t] = NULL] ELSE cur
  /\ UNCHANGED <<time, timerVars, isr, listVars, time_due, active, created, what, delay,
                 tstart, was>>

\* ... and the alarms are printed one by one.
DumpAlarm(t) ==
  /\ Goto(t, "walk", "walk")
  /\ cur[t] # NULL
  /\ cur' = [cur EXCEPT ![t] = next[@]]
  /\ UNCHANGED <<time, timerVars, isr, listVars, time_due, active, created, lock, what,
                 delay, tstart, was>>

DumpEnd(t) ==
  /\ Goto(t, "walk", "idle")
  /\ cur[t] = NULL
  /\ lock' = NULL
  /\ UNCHANGED <<time, timerVars, isr, listVars, time_due, active, created, localVars>>

-----------------------------------------------------------------------------
StartStep(t) ==
  \/ Lock(t) \/ Purge(t) \/ PurgeEnd(t) \/ CancelIt(t) \/ Remove_(t) \/ SetDue(t)
  \/ Activate(t) \/ Insert(t) \/ Link(t) \/ Check(t) \/ Setup(t) \/ Unlock(t)

DestroyStep(t) == DestroyTest(t) \/ DestroyRemove(t) \/ Free(t)
DumpStep(t) == DumpLock(t) \/ DumpAlarm(t) \/ DumpEnd(t)
ThreadStep(t) == StartStep(t) \/ DestroyStep(t) \/ DumpStep(t)

Call(t) ==
  \/ Dump(t)
  \/ \E a \in Alarm :
       \/ \E d \in Delay : Start(t, a, d)
       \/ Cancel(t, a) \/ Create(t, a) \/ Destroy(t, a)

Init ==
  /\ time = 0
  /\ next_due = SetupDelay(MAX_WAIT)
  /\ hw = next_due
  /\ pending = FALSE
  /\ isr = IsrIdle
  /\ first_alm = NULL
  /\ next = [a \in Alarm |-> NULL]
  /\ time_due = [a \in Alarm |-> 0]
  /\ active = [a \in Alarm |-> FALSE]
  /\ enqueued = [a \in Alarm |-> FALSE]
  /\ created = {}
  /\ lock = NULL
  /\ pc = [t \in Thread |-> "idle"]
  /\ what = [t \in Thread |-> NULL]
  /\ delay = [t \in Thread |-> 0]
  /\ tstart = [t \in Thread |-> 0]
  /\ cur = [t \in Thread |-> NULL]
  /\ was = [t \in Thread |-> 0]

Next ==
  \/ Tick \/ TimerExpires
  \/ HandlerEnter \/ HandlerStep \/ \E a \in Alarm : CallbackCancels(a)
  \/ \E t \in Thread : ThreadStep(t) \/ Call(t)

Spec == Init /\ [][Next]_vars

\* As in AlmLib; on Linux the handler is a thread that is scheduled like others.
Fairness ==
  /\ WF_vars(Tick)
  /\ WF_vars(TimerMustExpire)
  /\ WF_vars(HandlerEnter \/ HandlerStep)
  /\ \A t \in Thread : SF_vars(ThreadStep(t))

FairSpec == Spec /\ Fairness
-----------------------------------------------------------------------------
(* Properties. *)

InStart == {"lock", "purge", "cancel", "remove", "due", "activate", "insert", "link",
            "check", "setup", "unlock"}

\* The type invariant.
TypeOK ==
  /\ time \in Nat /\ next_due \in Nat
  /\ hw \in Nat \cup {Off} /\ pending \in BOOLEAN
  /\ isr \in [pc : {"idle", "due", "ring", "reset", "advance", "skip", "pass", "assert", "setup"},
              alm : Alarm \cup {NULL}, now : Nat]
  /\ first_alm \in Alarm \cup {NULL}
  /\ next \in [Alarm -> Alarm \cup {NULL}]
  /\ time_due \in [Alarm -> Nat]
  /\ active \in [Alarm -> BOOLEAN] /\ enqueued \in [Alarm -> BOOLEAN]
  /\ created \subseteq Alarm
  /\ lock \in Thread \cup {NULL}
  /\ pc \in [Thread -> {"idle", "dump", "walk"} \cup InStart \cup InDestroy]
  /\ what \in [Thread -> Alarm \cup {NULL}] /\ cur \in [Thread -> Alarm \cup {NULL}]
  /\ delay \in [Thread -> Nat] /\ tstart \in [Thread -> Nat] /\ was \in [Thread -> Nat]

\* The list ends, and is sorted, in every state somebody else can look at it:
\* a walk along `next' from first_alm meets no alarm twice and due dates in order.
ListSound ==
  /\ Node[Cardinality(Alarm)] = NULL
  /\ IsSorted(List, LAMBDA a, b : time_due[a] <= time_due[b])

\* assert(alm->active) in alm_int_handler.
HandlerAsserts == isr.pc = "assert" => ~AtInactive

\* On Linux no alm_start sets the fields of an alarm that the handler has found due
\* and not yet dealt with: its reset of `active' would take the new start back.  A
\* thread that has purged the alarm holds the mutex until it gets the interrupt
\* lock in alm_setup_alarm, and so keeps others from starting it.
NoStartUndone ==
  [][\A t \in Thread :
       Activate(t) => ~(isr.pc \in {"ring", "reset"} /\ isr.alm = what[t])]_vars

SettingUp(a) == \E t \in Thread :
  what[t] = a /\ pc[t] \in {"insert", "link", "check", "setup"}

\* As in AlmLib: an alarm that is active and not just being started has an
\* interrupt on its way that comes in time for it.
ActiveCovered ==
  \A a \in Alarm : active[a] =>
     \/ SettingUp(a)
     \/ /\ a \in ToSet(List)
        /\ \/ pending \/ Running
           \/ hw # Off /\ (hw <= time_due[a] \/ hw <= time + MIN_WAIT)

\* Every active alarm rings (or is taken back).
ActiveRings == \A a \in Alarm : active[a] ~> ~active[a]
-----------------------------------------------------------------------------
(* The inductive invariant: what else holds in every state, so that every    *)
(* step leaves a sound list.                                                 *)

\* A thread inside alm_start or alm_destroy works on an alarm.
Working == \A t \in Thread : pc[t] \in {"idle", "dump", "walk"} <=> what[t] = NULL

\* The mutex excludes; only alm_purge and alm_dump_queue have a cursor.
Locking ==
  \A t \in Thread :
    /\ pc[t] \in (InStart \ {"lock"}) \cup {"walk"} <=> lock = t
    /\ pc[t] \notin {"purge", "dump", "walk"} => cur[t] = NULL

\* A thread's alarm exists, and the one that destroys it is alone with it.
Handles ==
  \A t \in Thread :
    /\ what[t] # NULL => what[t] \in created
    /\ pc[t] \in InDestroy =>
         ~active[what[t]] /\ \A u \in Thread \ {t} : what[u] # what[t]
    /\ pc[t] \in {"remove", "due", "activate"} => ~active[what[t]]

\* What the list s has at place i, and the pointers that make a list of s.
Entry(s, i) == IF i \in DOMAIN s THEN s[i] ELSE NULL
Chain(s) ==
  /\ first_alm = Entry(s, 1)
  /\ \A i \in DOMAIN s : next[s[i]] = Entry(s, i + 1)

\* The node at place i comes before the node p in the list s.
Passes(s, p, i) == i \in DOMAIN s /\ \A j \in DOMAIN s : s[j] = p => i < j

\* The list s and the flags, while alm_purge or alm_start is under way.
Flags(s) ==
  /\ ToSet(s) \subseteq created
  /\ \A a \in Alarm : enqueued[a] => a \in ToSet(s)
  /\ \A i \in DOMAIN s :
       enqueued[s[i]] \/ \E t \in Thread : pc[t] = "purge" /\ Passes(s, cur[t], i)
  /\ \A t \in Thread : pc[t] = "purge" =>
       /\ cur[t] \in ToSet(s) \cup {NULL}
       /\ \A i \in DOMAIN s : Passes(s, cur[t], i) => ~enqueued[s[i]] /\ ~active[s[i]]

\* Where the alarm of alm_start or alm_destroy is.
Places(s) ==
  \A t \in Thread :
    /\ pc[t] \in {"due", "activate", "insert", "link", "free"} => what[t] \notin ToSet(s)
    /\ pc[t] \in {"check", "setup"} => what[t] \in ToSet(s)
    /\ pc[t] = "link" => next[what[t]] = Behind(what[t])

ListInductive ==
  /\ TypeOK /\ Working /\ Locking /\ Handles
  /\ List \in Seq(Alarm) /\ IsInjective(List) /\ Chain(List)
  /\ Flags(List) /\ Places(List)
  /\ IsSorted(List, LAMBDA a, b : time_due[a] <= time_due[b])
  /\ isr.pc \in {"ring", "reset", "advance", "pass"} => isr.alm # NULL
=============================================================================
