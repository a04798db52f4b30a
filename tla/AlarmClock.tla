----------------------------- MODULE AlarmClock -----------------------------
(***************************************************************************)
(* What almLib.h promises to a client, without queue, mutex or timer.  An  *)
(* alarm that has been started rings in interrupt context, never before    *)
(* `delay' microseconds have passed since alm_start was called, and once;  *)
(* starting it again or cancelling it takes the earlier alarm back.        *)
(***************************************************************************)
EXTENDS Integers

CONSTANTS
  Alarm, Client,
  Delay,     \* delays clients ask for
  MAX_DELAY  \* a longer request arms nothing

VARIABLES
  time,      \* microseconds
  serving,   \* an interrupt is being served
  due,       \* when each alarm rings, or Idle
  ask        \* the request each client has in progress, a set of one or none

vars == <<time, serving, due, ask>>

Idle == -1
Init ==
  /\ time = 0 /\ serving = FALSE
  /\ due = [a \in Alarm |-> Idle]
  /\ ask = [c \in Client |-> {}]

Tick == time' = time + 1 /\ UNCHANGED <<serving, due, ask>>

Interrupt == serving' = ~serving /\ UNCHANGED <<time, due, ask>>

Ask(c, a, d) ==
  /\ ~serving /\ ask[c] = {}
  /\ ask' = [ask EXCEPT ![c] = {[alm |-> a, from |-> time, delay |-> d]}]
  /\ UNCHANGED <<time, serving, due>>

\* alm_cancel, by itself or as the first effect of alm_start.
Cancel(a) ==
  /\ ~serving
  /\ due' = [due EXCEPT ![a] = Idle]
  /\ UNCHANGED <<time, serving, ask>>

Arm(c) ==
  /\ ~serving
  /\ \E r \in ask[c] :
       /\ r.delay < MAX_DELAY /\ due[r.alm] = Idle
       /\ due' = [due EXCEPT ![r.alm] = r.from + r.delay]
  /\ ask' = [ask EXCEPT ![c] = {}]
  /\ UNCHANGED <<time, serving>>

\* A delay that is too long takes the earlier alarm back and arms nothing.
Refuse(c) ==
  /\ ~serving
  /\ \E r \in ask[c] : r.delay >= MAX_DELAY /\ due' = [due EXCEPT ![r.alm] = Idle]
  /\ ask' = [ask EXCEPT ![c] = {}]
  /\ UNCHANGED <<time, serving>>

Overdue(a) == due[a] # Idle /\ due[a] <= time

Ring(a) ==
  /\ serving /\ Overdue(a)
  /\ due' = [due EXCEPT ![a] = Idle]
  /\ UNCHANGED <<time, serving, ask>>

\* A callback, called for an alarm that is still to ring, cancels another one.
TakeBack(a) ==
  /\ serving /\ \E b \in Alarm \ {a} : Overdue(b)
  /\ due' = [due EXCEPT ![a] = Idle]
  /\ UNCHANGED <<time, serving, ask>>

Next ==
  \/ Tick \/ Interrupt
  \/ \E c \in Client : Arm(c) \/ Refuse(c) \/ \E a \in Alarm, d \in Delay : Ask(c, a, d)
  \/ \E a \in Alarm : Cancel(a) \/ Ring(a) \/ TakeBack(a)

Spec == Init /\ [][Next]_vars

\* Every alarm that is armed rings, unless a client takes it back.
EventuallyRings == \A a \in Alarm : due[a] # Idle ~> due[a] = Idle
=============================================================================
