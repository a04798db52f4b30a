---------------------------- MODULE TimerBeatnik ----------------------------
(***************************************************************************)
(* timer_RTEMS-beatnik.c: timer 3 of the Beatnik board by way of its board *)
(* support package, BSP below.  The timer counts faster than the time base *)
(* register; both rates are cut to a whole number of ticks per microsecond.*)
(* The statics are written by timer_init, which alm_get_stamp calls, too,  *)
(* with interrupts open and perhaps before alm_init.                       *)
(***************************************************************************)
EXTENDS TimerPort, Words

CONSTANTS
  Bits,           \* of a register, 32 in the code
  USECS_PER_SEC,  \* in units small enough for TLC
  TimerRate,      \* BSP_timer_clock_get, 133333333 or so
  BaseRate        \* BSP_bus_frequency / 4, of which TimerRate is a multiple

TicksPerBase == TimerRate \div BaseRate

timer_timebase_to_usec(t) == t \div (BaseRate \div USECS_PER_SEC)
timer_get_stamp == timer_timebase_to_usec(ticks \div TicksPerBase)
timer_get_max_delay == dev.alarm_max

alarm_ticks_per_usec == TimerRate \div USECS_PER_SEC

\* Mutant: the register may be loaded with any delay.
AlarmMax_whole == Pow2[Bits] - 1
AlarmMax == ((Pow2[Bits] - 1) * USECS_PER_SEC) \div TimerRate - 1

-----------------------------------------------------------------------------
(* timer_init, statement by statement. *)

Statics(d) == [d EXCEPT !.alarm_timer_no = 3, !.alarm_ticks_per_usec = alarm_ticks_per_usec,
                        !.alarm_max = AlarmMax]

\* A thread asks for a timestamp and finds that it is the first.
FirstStamp ==
  /\ pc = "idle" /\ dev.done = "no"
  /\ dev' = [dev EXCEPT !.done = "set"]

\* It writes the statics, ...
WriteNumber ==
  /\ pc = "idle" /\ dev.done = "set"
  /\ dev' = [dev EXCEPT !.done = "number", !.alarm_timer_no = 3]

WriteRate ==
  /\ pc = "idle" /\ dev.done = "number"
  /\ dev' = [dev EXCEPT !.done = "rate", !.alarm_ticks_per_usec = alarm_ticks_per_usec]

WriteMax ==
  /\ pc = "idle" /\ dev.done = "rate"
  /\ dev' = [dev EXCEPT !.done = "yes", !.alarm_max = AlarmMax]

FirstThread ==
  /\ FirstStamp \/ WriteNumber \/ WriteRate \/ WriteMax
  /\ UNCHANGED <<ticks, request, pc, delay, until, due, spent, initVars>>

\* ... and alm_init takes them as they are if that thread has begun.
TimerInit ==
  /\ InitStep("timer_init", "mutex")
  /\ dev' = IF dev.done = "no" THEN Statics([dev EXCEPT !.done = "yes"])
                               ELSE [dev EXCEPT !.hasty = dev.done # "yes"]
  /\ UNCHANGED handler

-----------------------------------------------------------------------------
\* timer_enable: the BSP takes the handler, unless the number is wrong.
EnableInt ==
  /\ InitStep("enable", "init")
  /\ dev' = [dev EXCEPT !.isr = dev.alarm_timer_no = 3]
  /\ UNCHANGED handler

\* timer_setup: BSP_timer_start loads the count and starts it.
Start ==
  /\ LastStep("start")
  /\ dev' = IF dev.alarm_timer_no = 3
            THEN [dev EXCEPT !.running = TRUE,
                             !.count = (delay * dev.alarm_ticks_per_usec) % Pow2[Bits]]
            ELSE dev

\* The BSP acknowledges the interrupt; timer_int_ack does nothing.
IntAck ==
  /\ pc = "ack" /\ pc' = "handler"
  /\ request' = FALSE
  /\ UNCHANGED <<ticks, dev, delay, until, due, spent, initVars>>

Expired == dev.running /\ dev.count = 0

Tick ==
  /\ Pass
  /\ dev' = [dev EXCEPT !.count = IF dev.running THEN @ - 1 ELSE @]

\* The timer stops.  Without a handler nobody hears of it.
Expire ==
  /\ Expired
  /\ dev' = [dev EXCEPT !.running = FALSE]
  /\ request' = (request \/ dev.isr) /\ due' = Off
  /\ UNCHANGED <<ticks, pc, delay, until, spent, initVars>>

Init ==
  /\ PortInit
  /\ dev = [done |-> "no", alarm_timer_no |-> -1, alarm_ticks_per_usec |-> 1, alarm_max |-> 0,
            isr |-> FALSE, running |-> FALSE, count |-> 0, hasty |-> FALSE]

\* timer_set_int_level does nothing, and timer_install_int_routine cannot fail.
Next ==
  \/ Expire
  \/ /\ ~Expired
     /\ \/ Tick
        \/ FirstThread
        \/ CallInit("timer_init") \/ TimerInit \/ CreateMutex \/ Installed \/ EnableInt
        \/ CallSetup(timer_get_stamp, timer_get_max_delay, "start") \/ Start
        \/ Interrupt(dev.isr) \/ IntAck

Spec == Init /\ [][Next]_vars
=============================================================================
