------------------------------ MODULE TimerMcc ------------------------------
(***************************************************************************)
(* alm_mcc.c: tick timer 4 of the MCchip, a microsecond counter that runs  *)
(* freely and requests an interrupt when it meets the compare register.    *)
(* The counter is the timestamp, too.                                      *)
(***************************************************************************)
EXTENDS TimerPort, Words

CONSTANTS
  Bits,        \* of a register, 32 in the code
  int_inhibit, \* least distance of the compare value
  SetupTicks   \* how many ticks pass, at most, under the interrupt lock of timer_setup;
               \*   fewer than int_inhibit, or the counter passes the value before it
               \*   is written

CNT == ticks % Pow2[Bits]
timer_get_max_delay == Pow2[Bits] - 1

\* Mutant: the delay is taken as it is.
CompareValue_plain == (CNT + delay) % Pow2[Bits]
CompareValue == (CNT + (IF delay > int_inhibit THEN delay ELSE int_inhibit)) % Pow2[Bits]

\* timer_set_int_level changes the level bits only.
SetIntLevel == InitStep("level", "mutex") /\ UNCHANGED <<dev, handler>>

\* Mutant: the bit stays as it is.
EnableInt_not == InitStep("enable", "init") /\ UNCHANGED <<dev, handler>>

\* timer_enable.
EnableInt == InitStep("enable", "init") /\ dev' = [dev EXCEPT !.IEN = TRUE] /\ UNCHANGED handler

\* timer_setup: the counter is read, ...
ReadCnt == Step("read", "compare") 
           /\ dev' = [dev EXCEPT !.value = CompareValue, !.age = 0]

\* ... the compare register written: the last value is gone, ...
WriteCmp == StopStep("compare", "control") /\ dev' = [dev EXCEPT !.cmp = dev.value]

\* ... and the counter enabled: the first time, it starts here.
WriteCtrl == LastStep("control") /\ dev' = [dev EXCEPT !.CEN = TRUE]

\* timer_int_ack; the compare register stays.
IntAck ==
  /\ pc = "ack" /\ pc' = "handler"
  /\ request' = FALSE
  /\ UNCHANGED <<ticks, dev, delay, until, due, spent, initVars>>

\* Between the reading of the counter and the end of timer_setup.
Locked == pc \in {"compare", "control"}

\* The clock that counts is this counter; `age' is how long ago it has been read.
Tick ==
  /\ dev.CEN
  /\ Pass
  /\ Locked => dev.age < SetupTicks
  /\ dev' = [dev EXCEPT !.equal = ticks' % Pow2[Bits] = dev.cmp,
                         !.age = IF Locked THEN @ + 1 ELSE 0]

Expire ==
  /\ dev.equal
  /\ request' = TRUE /\ due' = Off
  /\ dev' = [dev EXCEPT !.equal = FALSE]
  /\ UNCHANGED <<ticks, pc, delay, until, spent, initVars>>

Init ==
  /\ PortInit
  /\ dev = [cmp |-> 0, value |-> 0, age |-> 0, equal |-> FALSE, CEN |-> FALSE, IEN |-> FALSE]

\* The device requests the interrupt as soon as count and register are equal.
Next ==
  \/ Expire
  \/ /\ ~dev.equal
     /\ \/ Tick
        \/ CallInit("level") \/ SetIntLevel \/ CreateMutex
        \/ Installed \/ InstallFails \/ EnableInt
        \/ CallSetup(ticks, timer_get_max_delay, "read") \/ ReadCnt \/ WriteCmp \/ WriteCtrl
        \/ Interrupt(dev.IEN) \/ IntAck

Spec == Init /\ [][Next]_vars
=============================================================================
