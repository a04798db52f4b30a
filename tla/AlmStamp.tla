------------------------------ MODULE AlmStamp ------------------------------
(***************************************************************************)
(* alm_get_stamp: how the 32 bit microsecond count of the low-level timer  *)
(* becomes a 64 bit timestamp, and how the interrupts that alm_setup_alarm *)
(* schedules see to it that no wrap of the count is missed.  AlmLib takes  *)
(* `time' for granted; this module is where it comes from.                 *)
(*                                                                         *)
(* The specification starts with the call of alm_get_stamp in alm_init:    *)
(* `clock' counts microseconds on the scale that call established.         *)
(***************************************************************************)
EXTENDS Integers

CONSTANTS
  Thread, ISR,  \* the callers: threads, the interrupt handler
  NULL,         \* no caller
  WRAP,         \* the timer counts modulo this, 2^32 in the code
  MAX_WAIT, MIN_WAIT,  \* longest and shortest time between interrupts
  Latency,      \* the handler, its callbacks included, has set up the timer
                \*   again at most this long after next_due
  Horizon       \* bound: the clock stops here

ASSUME StampAssumption ==
  /\ ISR \notin Thread /\ NULL \notin Thread \cup {ISR}
  /\ WRAP \in Nat /\ MAX_WAIT \in Nat /\ MIN_WAIT \in Nat /\ Latency \in Nat
  /\ 0 < MIN_WAIT /\ MIN_WAIT <= MAX_WAIT
  /\ MAX_WAIT + Latency < WRAP
  /\ Horizon \in Nat

VARIABLES
  clock,                 \* microseconds, as long as the machine runs
  count,                 \* what timer_get_stamp returns now
  high_word, last_time,  \* statics of alm_get_stamp
  next_due,              \* static of alm_setup_alarm
  ilock,                 \* who has locked interrupts
  pc,                    \* where each caller is
  then,                  \* what each caller wants the stamp for
  now, result,           \* locals of alm_get_stamp
  readAt                 \* history: the clock when each caller read the timer

timerVars == <<clock, count>>
statics   == <<high_word, last_time>>
locals    == <<now, result, readAt>>
vars == <<timerVars, statics, next_due, ilock, pc, then, locals>>

Caller == Thread \cup {ISR}

-----------------------------------------------------------------------------
\* A microsecond passes; the interrupt handler is never held up for long.
Tick ==
  /\ clock < Horizon /\ clock < next_due + Latency
  /\ clock' = clock + 1
  /\ count' = IF count + 1 = WRAP THEN 0 ELSE count + 1
  /\ UNCHANGED <<statics, next_due, ilock, pc, then, locals>>

\* Mutant: interrupts are not locked.
LockInterrupts_not(c, purpose) ==
  /\ pc[c] = "idle"
  /\ pc' = [pc EXCEPT ![c] = "read"]
  /\ then' = [then EXCEPT ![c] = purpose]
  /\ UNCHANGED <<timerVars, statics, next_due, ilock, locals>>

\* epicsInterruptLock, in alm_get_stamp or already in alm_setup_alarm.
LockInterrupts(c, purpose) ==
  /\ pc[c] = "idle" /\ ilock = NULL
  /\ ilock' = c
  /\ pc' = [pc EXCEPT ![c] = "read"]
  /\ then' = [then EXCEPT ![c] = purpose]
  /\ UNCHANGED <<timerVars, statics, next_due, locals>>

\* An interrupt is taken; the handler starts with a stamp for its loops.
HandlerEnter == LockInterrupts(ISR, "now")

ReadTimer(c) ==
  /\ pc[c] = "read"
  /\ now' = [now EXCEPT ![c] = count]
  /\ readAt' = [readAt EXCEPT ![c] = clock]
  /\ pc' = [pc EXCEPT ![c] = "compare"]
  /\ UNCHANGED <<timerVars, statics, next_due, ilock, then, result>>

CompareLast(c) ==
  /\ pc[c] = "compare"
  /\ high_word' = IF now[c] < last_time THEN high_word + WRAP ELSE high_word
  /\ pc' = [pc EXCEPT ![c] = "save"]
  /\ UNCHANGED <<timerVars, last_time, next_due, ilock, then, locals>>

\* Mutant: the 64 bit result is saved, not the count.
SaveLast_result(c) ==
  /\ pc[c] = "save"
  /\ last_time' = high_word + now[c]
  /\ result' = [result EXCEPT ![c] = high_word + now[c]]
  /\ pc' = [pc EXCEPT ![c] = "done"]
  /\ UNCHANGED <<timerVars, high_word, next_due, ilock, then, now, readAt>>

SaveLast(c) ==
  /\ pc[c] = "save"
  /\ last_time' = now[c]
  /\ result' = [result EXCEPT ![c] = high_word + now[c]]
  /\ pc' = [pc EXCEPT ![c] = "done"]
  /\ UNCHANGED <<timerVars, high_word, next_due, ilock, then, now, readAt>>

\* alm_get_stamp returns to a client.
ReturnStamp(c) ==
  /\ pc[c] = "done" /\ then[c] = "stamp"
  /\ ilock' = NULL
  /\ pc' = [pc EXCEPT ![c] = "idle"]
  /\ UNCHANGED <<timerVars, statics, next_due, then, locals>>

\* The handler is through with its loops and calls alm_setup_alarm.
HandlerLoops ==
  /\ pc[ISR] = "done" /\ then[ISR] = "now"
  /\ pc' = [pc EXCEPT ![ISR] = "read"]
  /\ then' = [then EXCEPT ![ISR] = "setup"]
  /\ UNCHANGED <<timerVars, statics, next_due, ilock, locals>>

\* Mutant: the delay is not limited by MAX_WAIT.
SetupAlarm_unlimited(c) ==
  /\ pc[c] = "done" /\ then[c] = "setup"
  /\ \E d \in MIN_WAIT..(WRAP + MAX_WAIT) :
       /\ c = ISR \/ d = MIN_WAIT \/ result[c] + d <= next_due
       /\ next_due' = result[c] + d
  /\ ilock' = NULL
  /\ pc' = [pc EXCEPT ![c] = "idle"]
  /\ UNCHANGED <<timerVars, statics, then, locals>>

\* The rest of alm_setup_alarm: a delay between the limits, and from a thread
\* only for an alarm that is due no later than the interrupt expected next.
SetupAlarm(c) ==
  /\ pc[c] = "done" /\ then[c] = "setup"
  /\ \E d \in MIN_WAIT..MAX_WAIT :
       /\ c = ISR \/ d = MIN_WAIT \/ result[c] + d <= next_due
       /\ next_due' = result[c] + d
  /\ ilock' = NULL
  /\ pc' = [pc EXCEPT ![c] = "idle"]
  /\ UNCHANGED <<timerVars, statics, then, locals>>

-----------------------------------------------------------------------------
Init ==
  /\ last_time \in 0..(WRAP - 1) /\ count = last_time
  /\ high_word = 0
  /\ clock = high_word + last_time
  /\ next_due = clock + MAX_WAIT
  /\ ilock = NULL
  /\ pc = [c \in Caller |-> "idle"]
  /\ then = [c \in Caller |-> "stamp"]
  /\ now = [c \in Caller |-> 0]
  /\ result = [c \in Caller |-> 0]
  /\ readAt = [c \in Caller |-> 0]

GetStamp(c) == ReadTimer(c) \/ CompareLast(c) \/ SaveLast(c)

Next ==
  \/ Tick
  \/ HandlerEnter \/ HandlerLoops
  \/ \E t \in Thread : LockInterrupts(t, "stamp") \/ LockInterrupts(t, "setup")
  \/ \E c \in Caller : GetStamp(c) \/ ReturnStamp(c) \/ SetupAlarm(c)

Spec == Init /\ [][Next]_vars
-----------------------------------------------------------------------------
\* The type invariant.
TypeOK ==
  /\ clock \in Nat /\ count \in 0..(WRAP - 1)
  /\ high_word \in Nat /\ last_time \in 0..(WRAP - 1)
  /\ next_due \in Nat
  /\ ilock \in Caller \cup {NULL}
  /\ pc \in [Caller -> {"idle", "read", "compare", "save", "done"}]
  /\ then \in [Caller -> {"stamp", "setup", "now"}]
  /\ now \in [Caller -> 0..(WRAP - 1)]
  /\ result \in [Caller -> Nat]
  /\ readAt \in [Caller -> Nat]

\* alm_get_stamp returns the time at which the timer was read, to the
\* microsecond, whoever calls it, however calls and interrupts interleave and
\* however often the count has wrapped: none is missed, none counted twice.
StampExact == \A c \in Caller : pc[c] = "done" => result[c] = readAt[c]

\* Outside of alm_get_stamp its two statics denote a moment that is less than
\* one lap of the timer ago, which is what the comment above it asks for.
PolledInTime ==
  ilock = NULL =>
    /\ high_word + last_time <= clock
    /\ clock - (high_word + last_time) < WRAP

\* A stamp is no smaller than any that was handed out before it, to whomever.
NotBefore == \A c, d \in Caller : pc[c] = "save" /\ pc'[c] = "done" => result[d] <= result'[c]

\* Timestamps never run backwards, in whatever order threads and handler ask for them.
StampsAscend == [][NotBefore]_vars

-----------------------------------------------------------------------------
(* The inductive invariant. *)

\* Whoever is inside has locked interrupts.
Excluded == \A c \in Caller : pc[c] # "idle" <=> ilock = c

\* s is a moment at which the count was l, recent enough that the count has
\* wrapped at most once since, and the next interrupt is due in time for it.
Agrees(s, l) ==
  /\ s <= clock /\ clock <= s + MAX_WAIT + Latency
  /\ next_due <= s + MAX_WAIT
  /\ count = l + (clock - s) \/ count = l + (clock - s) - WRAP

\* What the statics mean; between its two assignments alm_get_stamp leaves a
\* new high word next to an old count.
Statics ==
  (\A c \in Caller : pc[c] # "save") => Agrees(high_word + last_time, last_time)

\* What the locals of alm_get_stamp mean.
Locals ==
  \A c \in Caller :
    /\ pc[c] \in {"compare", "save"} => Agrees(readAt[c], now[c])
    /\ pc[c] = "compare" =>
         /\ high_word + last_time <= readAt[c]
         /\ now[c] = readAt[c] - high_word \/ now[c] = readAt[c] - high_word - WRAP
    /\ pc[c] = "save" => readAt[c] = high_word + now[c]
    /\ pc[c] = "done" => result[c] = readAt[c] /\ readAt[c] = high_word + last_time

Inductive == TypeOK /\ Excluded /\ Statics /\ Locals

\* What is left when the count may be set back: no stamp handed out is ahead of
\* the statics, or of those alm_get_stamp is about to leave behind.
Ascending ==
  \/ /\ \A c \in Caller : pc[c] # "save"
     /\ \A d \in Caller : result[d] <= high_word + last_time
  \/ \E c \in Caller :
       pc[c] = "save" /\ \A d \in Caller : result[d] <= high_word + now[c]
=============================================================================
