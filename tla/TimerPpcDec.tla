---------------------------- MODULE TimerPpcDec ----------------------------
(***************************************************************************)
(* alm_ppcDec.c: timer 3 of an OpenPIC, with timestamps from the time base *)
(* register, which counts twice as fast.  The count is reloaded when bit   *)
(* 31 of the base count register goes from high to low, and after every    *)
(* expiry.                                                                 *)
(***************************************************************************)
EXTENDS TimerPort, Words

CONSTANTS
  Bits,      \* of a register, 32 in the code
  TmrTicks   \* TMR_CLK_FREQ / USECS_PER_SEC, 8 in the code

DecTicks == 2 * TmrTicks       \* DEC_CLK_FREQ / USECS_PER_SEC
TIMER_DISABLE == Pow2[Bits - 1]  \* bit 31

timer_usec_to_timerticks(usec) == (usec * TmrTicks) % Pow2[Bits]
timer_timerticks_to_usec(n) == n \div TmrTicks

\* Without the cut to Bits bits: AlmStamp is about timestamps that wrap.
timer_timebase_to_usec(t) == t \div DecTicks

timer_get_max_delay == timer_timerticks_to_usec(Pow2[Bits - 1] - 1)
timer_get_stamp == timer_timebase_to_usec(ticks)

\* A write to the base count register.
BaseCount(value) ==
  LET off == value >= TIMER_DISABLE
      n   == value % TIMER_DISABLE
  IN  [dev EXCEPT !.off = off, !.base = n, !.count = IF dev.off /\ ~off THEN n ELSE @]

\* timer_set_int_level writes the level and the vector, and a zero to the bit
\* that masks the interrupt.
SetIntLevel == InitStep("level", "mutex") /\ dev' = [dev EXCEPT !.masked = FALSE] /\ UNCHANGED handler

\* timer_enable.
EnableInt == InitStep("enable", "init") /\ dev' = [dev EXCEPT !.masked = FALSE] /\ UNCHANGED handler

\* Mutant: the count is not stopped first.
Stop_not == StopStep("stop", "load") /\ UNCHANGED dev

\* timer_setup: stop ...
Stop == StopStep("stop", "load") /\ dev' = BaseCount(TIMER_DISABLE)

\* ... load and start.
Load ==
  /\ LastStep("load")
  /\ dev' = BaseCount(timer_usec_to_timerticks(delay) % TIMER_DISABLE)

\* timer_int_ack stops the count; the CPU's own acknowledge clears the request.
IntAck ==
  /\ pc = "ack" /\ pc' = "handler"
  /\ request' = FALSE
  /\ dev' = BaseCount(TIMER_DISABLE)
  /\ due' = Off
  /\ UNCHANGED <<ticks, delay, until, spent, initVars>>

Expired == ~dev.off /\ dev.count = 0

Tick ==
  /\ Pass
  /\ dev' = [dev EXCEPT !.count = IF ~dev.off /\ ticks' % 2 = 0 THEN @ - 1 ELSE @]

Expire ==
  /\ Expired
  /\ request' = TRUE /\ due' = Off
  /\ dev' = [dev EXCEPT !.count = dev.base]
  /\ UNCHANGED <<ticks, pc, delay, until, spent, initVars>>

Init == PortInit /\ dev = [off |-> TRUE, base |-> 0, count |-> 0, masked |-> TRUE]

\* The device requests the interrupt as soon as it has expired.
Next ==
  \/ Expire
  \/ /\ ~Expired
     /\ \/ Tick
        \/ CallInit("level") \/ SetIntLevel \/ CreateMutex
        \/ Installed \/ InstallFails \/ EnableInt
        \/ CallSetup(timer_get_stamp, timer_get_max_delay, "stop") \/ Stop \/ Load
        \/ Interrupt(~dev.masked) \/ IntAck

Spec == Init /\ [][Next]_vars
=============================================================================
