----------------------------- MODULE TimerLinux -----------------------------
(***************************************************************************)
(* timer_Linux.c: a POSIX timer on the clock of the timestamps.  Each      *)
(* expiry starts a thread that calls the handler as soon as it has got the *)
(* lock that stands for the interrupt lock.  The ticks are nanoseconds,    *)
(* and there are fewer of them than in life.                               *)
(***************************************************************************)
EXTENDS TimerPort

CONSTANTS
  USECS_PER_SEC,  \* 1000000 in the code
  NSECS_PER_USEC  \* 1000 in the code

ULONG_MAX == MAX_WAIT + 1
timer_get_max_delay == ULONG_MAX
timer_get_stamp == ticks \div NSECS_PER_USEC

\* Mutant: the seconds are all of the delay.
ItValue_seconds == (delay \div USECS_PER_SEC) * USECS_PER_SEC * NSECS_PER_USEC

\* its.it_value of timer_setup: seconds, and what is left of the microseconds,
\* taken for nanoseconds.
ItValue ==
  (delay \div USECS_PER_SEC) * USECS_PER_SEC * NSECS_PER_USEC + (delay % USECS_PER_SEC)

\* timer_enable: timer_create may fail, and only prints a message.
EnableInt ==
  /\ InitStep("enable", "init")
  /\ \E created \in BOOLEAN : dev' = [dev EXCEPT !.created = created]
  /\ UNCHANGED handler

\* timer_settime takes the place of the setting before; a value of zero disarms
\* the timer, and without a timer it fails.
SetTime ==
  /\ LastStep("settime")
  /\ dev' = IF dev.created
            THEN [dev EXCEPT !.armed = ItValue > 0, !.left = ItValue]
            ELSE dev

\* A thread that an expiry has started gets the lock; timer_int_ack does nothing.
Enter ==
  /\ pc = "ack" /\ pc' = "handler"
  /\ dev' = [dev EXCEPT !.threads = @ - 1]
  /\ request' = (dev.threads > 1)
  /\ UNCHANGED <<ticks, delay, until, due, spent, initVars>>

Expired == dev.armed /\ dev.left = 0

Tick ==
  /\ Pass
  /\ dev' = [dev EXCEPT !.left = IF dev.armed THEN @ - 1 ELSE @]

Expire ==
  /\ Expired
  /\ dev' = [dev EXCEPT !.armed = FALSE, !.threads = @ + 1]
  /\ request' = TRUE /\ due' = Off
  /\ UNCHANGED <<ticks, pc, delay, until, spent, initVars>>

Init == PortInit /\ dev = [created |-> FALSE, armed |-> FALSE, left |-> 0, threads |-> 0]

\* alm_init has succeeded, and there is no timer.
Unnoticed == ~dev.created /\ init_state = "ok"

Next ==
  \/ Expire
  \/ /\ ~Expired
     /\ \/ Tick
        \/ CallInit("mutex") \/ CreateMutex \/ Installed \/ EnableInt
        \/ CallSetup(timer_get_stamp, timer_get_max_delay, "settime") \/ SetTime
        \/ Interrupt(TRUE) \/ Enter

Spec == Init /\ [][Next]_vars
=============================================================================
