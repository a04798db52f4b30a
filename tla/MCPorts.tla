------------------------------ MODULE MCPorts ------------------------------
(***************************************************************************)
(* Small instances of the parts that make up timers and timestamps: the    *)
(* timer ports, the reading of the time base register, the 64 bit division *)
(* and alm_get_stamp on a clock that is set back.  A behaviour runs one of *)
(* them; the others rest.                                                  *)
(***************************************************************************)
EXTENDS TimerPort, Words

CONSTANTS
  Parts,                    \* which of them to check
  Bits, TmrTicks,           \* see TimerPpcDec
  BusTicks, Altivec,        \* see TimerMv64260
  MccBits, int_inhibit, SetupTicks,  \* see TimerMcc
  BspBits, BspUsecs, TimerRate, BaseRate,  \* see TimerBeatnik
  LinuxUsecs, NSECS_PER_USEC,              \* see TimerLinux
  Half, Laps,               \* see TimeBase
  W,                        \* see Div64
  Thread, WRAP, StampWait, Latency, StampHorizon  \* see AlmStamp

VARIABLES
  part,                                          \* the one that runs
  upper, lower, step, dummy, tbl, tbu, value,    \* TimeBase
  dpc, signed, minus, x0, y0, x, y, d, e, res,   \* Div64
  clock, count, high_word, last_time, next_due,  \* AlmStampBack
  ilock, spc, then, now, result, readAt

baseVars == <<upper, lower, step, dummy, tbl, tbu, value>>
divVars  == <<dpc, signed, minus, x0, y0, x, y, d, e, res>>
stampVars ==
  <<clock, count, high_word, last_time, next_due, ilock, spc, then, now, result, readAt>>
allVars  == <<part, vars, baseVars, divVars, stampVars>>

Ppc  == INSTANCE TimerPpcDec
Mcc  == INSTANCE TimerMcc WITH Bits <- MccBits
Mv   == INSTANCE TimerMv64260
Beatnik == INSTANCE TimerBeatnik WITH Bits <- BspBits, USECS_PER_SEC <- BspUsecs
Linux == INSTANCE TimerLinux WITH USECS_PER_SEC <- LinuxUsecs

Base == INSTANCE TimeBase WITH Horizon <- Laps
Div  == INSTANCE Div64 WITH pc <- dpc
Stamp == INSTANCE AlmStampBack WITH
  ISR <- "isr", NULL <- "nobody", MAX_WAIT <- StampWait, Horizon <- StampHorizon, pc <- spc

\* What the ports rely on.  The shortest delay fits into each count register;
\* the MCchip's counter does not meet a compare value while timer_setup has
\* interrupts locked to write it, and counts less than a lap (71 minutes in
\* life) from the request until the handler has written the next one; both
\* rates of the beatnik board are at least one tick per microsecond.
ASSUME PartsAssumption ==
  /\ Bits \in Nat \ {0} /\ TmrTicks \in Nat \ {0} /\ BusTicks \in Nat \ {0}
  /\ MIN_WAIT * TmrTicks < Pow2[Bits - 1] /\ MIN_WAIT * BusTicks < Pow2[Bits - 1]
  /\ MccBits \in Nat /\ int_inhibit \in Nat /\ SetupTicks \in Nat
  /\ SetupTicks < int_inhibit /\ int_inhibit <= Pow2[MccBits] /\ MIN_WAIT < Pow2[MccBits]
  /\ Response + Slack < Pow2[MccBits]
  /\ BspBits \in Nat /\ BspUsecs \in Nat \ {0} /\ TimerRate \in Nat /\ BaseRate \in Nat
  /\ BspUsecs <= BaseRate /\ BaseRate <= TimerRate /\ TimerRate % BaseRate = 0
  /\ MIN_WAIT <= Beatnik!AlarmMax
  /\ LinuxUsecs \in Nat \ {0} /\ NSECS_PER_USEC \in Nat \ {0}
  /\ Half \in Nat /\ W \in Nat \ {0}
  /\ Stamp!StampAssumption

\* What a part's variables are while it rests.
PortRests == PortInit /\ dev = 0
BaseRests ==
  /\ upper = 0 /\ lower = 0 /\ step = "call" /\ dummy = 0 /\ tbl = 0 /\ tbu = 0 /\ value = 0
DivRests ==
  /\ dpc = "done" /\ signed = FALSE /\ minus = FALSE /\ x0 = 0 /\ y0 = 0
  /\ x = 0 /\ y = 0 /\ d = 0 /\ e = 0 /\ res = 0
StampRests == Stamp!Init /\ last_time = 0

MCInit ==
  /\ part \in Parts
  /\ CASE part = "ppcDec"   -> Ppc!Init
       [] part = "mcc"      -> Mcc!Init
       [] part = "mv64260"  -> Mv!Init
       [] part = "beatnik"  -> Beatnik!Init
       [] part = "linux"    -> Linux!Init
       [] OTHER             -> PortRests
  /\ IF part = "timeBase" THEN Base!Init ELSE BaseRests
  /\ IF part = "division" THEN Div!Init ELSE DivRests
  /\ IF part = "stamps" THEN Stamp!Init ELSE StampRests

PortNext ==
  \/ part = "ppcDec" /\ Ppc!Next
  \/ part = "mcc" /\ Mcc!Next
  \/ part = "mv64260" /\ Mv!Next
  \/ part = "beatnik" /\ Beatnik!Next
  \/ part = "linux" /\ Linux!Next

DivStep == part = "division" /\ Div!Next /\ UNCHANGED <<part, vars, baseVars, stampVars>>

MCNext ==
  \/ PortNext /\ UNCHANGED <<part, baseVars, divVars, stampVars>>
  \/ part = "timeBase" /\ Base!Next /\ UNCHANGED <<part, vars, divVars, stampVars>>
  \/ DivStep
  \/ part = "stamps" /\ Stamp!BackNext /\ UNCHANGED <<part, vars, baseVars, divVars>>

MCSpec == MCInit /\ [][MCNext]_allVars

\* The processor goes on with the division.
MCFairSpec == MCSpec /\ WF_allVars(DivStep)
-----------------------------------------------------------------------------
\* The contract of timer.h on each port's own scale of timestamps.  Late is as
\* small as it can be: one less, and TLC finds the step that is late.  It is the
\* Slack before the device is started, rounded up to microseconds, and what the
\* port adds to the delay itself.
RoundedUp(n, unit) == (n + unit - 1) \div unit
MccAdds == IF int_inhibit > MIN_WAIT THEN int_inhibit - MIN_WAIT ELSE 0
BeatnikUnit == Beatnik!TicksPerBase * (BaseRate \div BspUsecs)
BeatnikAdds == Limited(MAX_WAIT, Beatnik!AlarmMax) * (Beatnik!alarm_ticks_per_usec - BeatnikUnit)

PpcShot == INSTANCE OneShot WITH
  Early <- FALSE, Late <- RoundedUp(Slack, Ppc!DecTicks), now <- Ppc!timer_get_stamp
MccShot == INSTANCE OneShot WITH
  Early <- FALSE, Late <- Slack + MccAdds, now <- ticks
MvShot == INSTANCE OneShot WITH
  Early <- FALSE, Late <- RoundedUp(Slack, BusTicks), now <- Mv!timer_get_stamp
BeatnikShot == INSTANCE OneShot WITH
  Early <- FALSE, Late <- RoundedUp(Slack + BeatnikAdds, BeatnikUnit),
  now <- Beatnik!timer_get_stamp
LinuxShot == INSTANCE OneShot WITH
  Early <- TRUE, Late <- RoundedUp(Slack, NSECS_PER_USEC), now <- Linux!timer_get_stamp

\* alm_ppcDec.c: every timer_setup leads to one interrupt in time, and only that,
\* wherever the registers are written in relation to the count.
PpcDecKeeps == [][part = "ppcDec" => PpcShot!Next]_<<PpcShot!vars>>

\* alm_mcc.c: no compare value is ever passed before it is written, across the
\* wrap of the counter.
MccKeeps == [][part = "mcc" => MccShot!Next]_<<MccShot!vars>>

\* timer_RTEMS-mvme5500.c, and timer_vxWorks-ppc604_altivec.c if Altivec: as
\* above, whatever mode the counter was in.
Mv64260Keeps == [][part = "mv64260" => MvShot!Next]_<<MvShot!vars>>

\* timer_RTEMS-beatnik.c: as above, and no count overflows the register, although
\* one rate is cut more than the other; unless alm_init has found statics that
\* another thread was about to write.
BeatnikKeeps == [][part = "beatnik" /\ ~dev.hasty => BeatnikShot!Next]_<<BeatnikShot!vars>>

\* timer_Linux.c: the interrupt may come early, but it does come, one for each
\* timer_setup whose place is not taken by the next; unless there is no timer.
LinuxKeeps ==
  [][part = "linux" /\ ~Linux!Unnoticed => LinuxShot!Next]_<<LinuxShot!vars>>

\* alm_init succeeds if, and only if, the interrupts that drive the library have
\* begun, and they never end; with two exceptions, as above.
InitReported ==
  /\ part = "ppcDec"  => Reported(~dev.masked)
  /\ part = "mcc"     => Reported(dev.IEN)
  /\ part = "mv64260" => Reported(~dev.masked)
  /\ part = "beatnik" => dev.hasty \/ Reported(dev.isr)
  /\ part = "linux"   => Linux!Unnoticed \/ Reported(TRUE)

\* readTimeBaseReg returns a value the register had.
ReadsExact == part = "timeBase" => Base!ReadsExact

\* __udivdi3, __umoddi3 and __divdi3 are exact, and return.
DivisionInvariant == part = "division" => Div!LoopInvariant
DivisionExact == part = "division" => Div!Exact
DivisionSigned == part = "division" => Div!SignedExact
DivisionReturns == <>(part = "division" => dpc = "done")

\* alm_get_stamp: timestamps never run backwards, not even when the clock below
\* it does, and whoever asks in between.
SetBackStampsAscend == Stamp!StampsAscend
=============================================================================
