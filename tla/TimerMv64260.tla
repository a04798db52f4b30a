---------------------------- MODULE TimerMv64260 ----------------------------
(***************************************************************************)
(* timer_RTEMS-mvme5500.c and timer_vxWorks-ppc604_altivec.c: counter 3 of *)
(* the MV64260, which runs at the rate of the time base register.          *)
(***************************************************************************)
EXTENDS TimerPort, Words

CONSTANTS
  Bits,          \* of a register, 32 in the code
  BusTicks,      \* bus frequency / 4 / USECS_PER_SEC, 33 on these boards
  Altivec        \* TRUE: timer_vxWorks-ppc604_altivec.c, FALSE: timer_RTEMS-mvme5500.c

timer_usec_to_timerticks(usec) == (usec * BusTicks) % Pow2[Bits]
timer_timerticks_to_usec(n) == n \div BusTicks

\* The altivec port divides, and returns its argument.
timer_timebase_to_usec(t) == IF Altivec THEN t ELSE t \div BusTicks

timer_get_max_delay == timer_timerticks_to_usec(Pow2[Bits - 1] - 1)
timer_get_stamp == timer_timebase_to_usec(ticks)

\* timer_install_int_routine of the altivec port: intConnect has succeeded, and
\* intEnable fails.
ConnectOnly ==
  /\ Altivec
  /\ InitStep("install", "idle")
  /\ handler' = TRUE
  /\ UNCHANGED dev

\* timer_enable.
EnableInt == InitStep("enable", "init") /\ dev' = [dev EXCEPT !.masked = FALSE] /\ UNCHANGED handler

\* timer_setup: disable the counter, ...
Disable == StopStep("disable", "mode") /\ dev' = [dev EXCEPT !.enabled = FALSE]

\* Mutant: the mode stays as it is.
CounterMode_not == Step("mode", "value") /\ UNCHANGED dev

\* ... let it count down once, ...
CounterMode == Step("mode", "value") /\ dev' = [dev EXCEPT !.periodic = FALSE]

\* ... write the value to count from, ...
WriteValue ==
  /\ Step("value", "start")
  /\ LET n == timer_usec_to_timerticks(delay)
     IN  dev' = [dev EXCEPT !.count = n, !.value = n]

\* ... and start it.
Enable == LastStep("start") /\ dev' = [dev EXCEPT !.enabled = TRUE]

\* timer_int_ack clears the cause; a counter that has been set up goes on.
IntAck ==
  /\ pc = "ack" /\ pc' = "handler"
  /\ request' = FALSE
  /\ UNCHANGED <<ticks, dev, delay, until, due, spent, initVars>>

Expired == dev.enabled /\ dev.count = 0

Tick ==
  /\ Pass
  /\ dev' = [dev EXCEPT !.count = IF dev.enabled THEN @ - 1 ELSE @]

Expire ==
  /\ Expired
  /\ request' = TRUE /\ due' = Off
  /\ dev' = IF dev.periodic THEN [dev EXCEPT !.count = dev.value]
                            ELSE [dev EXCEPT !.enabled = FALSE]
  /\ UNCHANGED <<ticks, pc, delay, until, spent, initVars>>

\* The mode after reset is not known to the port.
Init ==
  /\ PortInit
  /\ \E p \in BOOLEAN :
       dev = [enabled |-> FALSE, periodic |-> p, count |-> 0, value |-> 0, masked |-> TRUE]

\* The device requests the interrupt as soon as it has expired.  The level is
\* fixed: timer_set_int_level does nothing.
Next ==
  \/ Expire
  \/ /\ ~Expired
     /\ \/ Tick
        \/ CallInit("mutex") \/ CreateMutex
        \/ Installed \/ InstallFails \/ ConnectOnly \/ EnableInt
        \/ CallSetup(timer_get_stamp, timer_get_max_delay, "disable")
        \/ Disable \/ CounterMode \/ WriteValue \/ Enable
        \/ Interrupt(~dev.masked) \/ IntAck

Spec == Init /\ [][Next]_vars
=============================================================================
