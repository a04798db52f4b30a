----------------------------- MODULE TimerPort -----------------------------
(***************************************************************************)
(* How almLib.c uses a timer port.  alm_init calls it step by step, and    *)
(* may fail between; afterwards a thread that has locked interrupts, or    *)
(* the handler after timer_int_ack, calls timer_setup.  The port modules   *)
(* extend this one by the registers of their device and one step for each  *)
(* write to a register, between which the device goes on.                  *)
(***************************************************************************)
EXTENDS Integers

CONSTANTS
  MIN_WAIT, MAX_WAIT,  \* limits of the delay in alm_setup_alarm
  Slack,    \* how many ticks pass, at most, from the timestamp of alm_setup_alarm
            \*   to the end of its timer_setup
  Response, \* how many ticks pass, at most, until the handler calls
            \*   alm_setup_alarm, after the request and all callbacks; and until
            \*   alm_init does, or fails
  Horizon,  \* bound: the last tick
  LastInit  \* bound: alm_init is not called after this tick

ASSUME PortAssumption ==
  /\ MIN_WAIT \in Nat \ {0} /\ MAX_WAIT \in Nat /\ MIN_WAIT <= MAX_WAIT
  /\ Slack \in Nat /\ Response \in Nat /\ Horizon \in Nat /\ LastInit \in Nat

VARIABLES
  ticks,    \* the port's free running count, not wrapped
  dev,      \* registers of the device, statics of the port
  request,  \* the interrupt request
  pc,       \* where the driver is; interrupts are locked unless "idle"
  delay,    \* argument of timer_setup
  until,    \* due date that alm_setup_alarm remembers: stamp and delay
  due,      \* history: due date of the last timer_setup to return, until the
            \*   request comes
  spent,    \* ticks since timer_setup has been called, or since the request came
            \*   or alm_init has been called
  init_state,  \* what alm_init_state returns
  handler   \* alm_int_handler is connected to the interrupt

initVars == <<init_state, handler>>
vars == <<ticks, dev, request, pc, delay, until, due, spent, initVars>>

Off == -1

\* Interrupts are locked, or one is about to be served.
Pressed == pc # "idle" \/ request

\* Inside alm_setup_alarm.
SettingUp ==
  pc \notin {"idle", "timer_init", "level", "mutex", "install", "enable", "init", "ack", "handler"}

-----------------------------------------------------------------------------
(* alm_init, under the interrupt lock.  A second call returns at once. *)

\* Until the end the state says that it has failed.  `ready' is the first step.
CallInit(ready) ==
  /\ pc = "idle" /\ init_state = "none" /\ ticks <= LastInit
  /\ init_state' = "failed"
  /\ pc' = ready
  /\ spent' = 0
  /\ UNCHANGED <<ticks, dev, request, delay, until, due, handler>>

\* One step of alm_init that calls the port.
InitStep(from, to) ==
  /\ pc = from /\ pc' = to
  /\ UNCHANGED <<ticks, request, delay, until, due, spent, init_state>>

\* epicsMutexCreate.
CreateMutex ==
  /\ InitStep("mutex", "install") \/ InitStep("mutex", "idle")
  /\ UNCHANGED <<dev, handler>>

\* timer_install_int_routine connects the handler and returns zero, ...
Installed ==
  /\ InitStep("install", "enable")
  /\ handler' = TRUE
  /\ UNCHANGED dev

\* ... or fails and returns something else.
InstallFails ==
  /\ InitStep("install", "idle")
  /\ UNCHANGED <<dev, handler>>

-----------------------------------------------------------------------------
(* alm_setup_alarm and the handler. *)

Least(m, n) == IF m < n THEN m ELSE n

\* alm_setup_alarm limits the delay that it is asked for by what
\* timer_get_max_delay returns, but not below MIN_WAIT.
Limited(asked, max) ==
  LET most == Least(asked, Least(max, MAX_WAIT))
  IN  IF most < MIN_WAIT THEN MIN_WAIT ELSE most

\* alm_init asks for MAX_WAIT after a timestamp that it has taken before.
Asked == IF pc = "init" THEN (MAX_WAIT - spent)..MAX_WAIT ELSE MIN_WAIT..MAX_WAIT

\* alm_setup_alarm calls timer_setup, whose first step is at `first'.
CallSetup(stamp, max, first) ==
  /\ pc \in {"init", "handler"} \/ (pc = "idle" /\ init_state = "ok")
  /\ \E asked \in Asked : delay' = Limited(asked, max)
  /\ until' = stamp + delay'
  /\ pc' = first
  /\ spent' = 0
  /\ UNCHANGED <<ticks, dev, request, due, initVars>>

\* alm_int_handler is entered.
Interrupt(unmasked) ==
  /\ pc = "idle" /\ request /\ unmasked /\ handler
  /\ pc' = "ack"
  /\ UNCHANGED <<ticks, dev, request, delay, until, due, spent, initVars>>

\* The time base advances; what the device does with it is up to the port.
Pass ==
  /\ ticks < Horizon
  /\ ticks' = ticks + 1
  /\ Pressed => spent < (IF SettingUp THEN Slack ELSE Response)
  /\ spent' = IF Pressed THEN spent + 1 ELSE 0
  /\ UNCHANGED <<request, pc, delay, until, due, initVars>>

\* One step of timer_setup, ...
Step(from, to) ==
  /\ pc = from /\ pc' = to
  /\ UNCHANGED <<ticks, request, delay, until, due, spent, initVars>>

\* ... one that stops the device, ...
StopStep(from, to) ==
  /\ pc = from /\ pc' = to
  /\ due' = Off
  /\ UNCHANGED <<ticks, request, delay, until, spent, initVars>>

\* ... and the last one; alm_init returns as well, and has succeeded.
LastStep(from) ==
  /\ pc = from /\ pc' = "idle"
  /\ due' = until
  /\ init_state' = "ok"
  /\ spent' = 0
  /\ UNCHANGED <<ticks, request, delay, until, handler>>

\* The library has been loaded.
PortInit ==
  /\ ticks = 1
  /\ request = FALSE
  /\ pc = "idle" /\ delay = 0 /\ until = 0 /\ due = Off /\ spent = 0
  /\ init_state = "none" /\ handler = FALSE

\* What alm_init reports is true, and stays true: after success an interrupt is
\* always on its way, and it will be served; after failure nothing runs.
Reported(unmasked) ==
  pc = "idle" =>
    /\ init_state = "ok" => handler /\ unmasked /\ (request \/ due # Off)
    /\ init_state # "ok" => ~request /\ due = Off
=============================================================================
