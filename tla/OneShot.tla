------------------------------ MODULE OneShot ------------------------------
(***************************************************************************)
(* What timer.h promises to almLib.c, on the scale of timer_get_stamp: a   *)
(* timer that is set up requests one interrupt, not before the delay has   *)
(* passed, unless Early, and at most Late after.  A new setup takes the    *)
(* place of the one before.  AlmLib is built on an early timer.            *)
(***************************************************************************)
EXTENDS Integers

CONSTANTS
  Early,  \* TRUE: the interrupt may come before its due date
  Late    \* how long it may come after

VARIABLES
  now,      \* timer_get_stamp
  due,      \* when the interrupt has been promised for, or Off
  request   \* the interrupt request line

vars == <<now, due, request>>

Off == -1

Init == now \in Nat /\ due = Off /\ request = FALSE

\* Time does not go past a promise that has not been kept.
Tick ==
  /\ due # Off => now < due + Late
  /\ now' = now + 1
  /\ UNCHANGED <<due, request>>

\* timer_setup may stop the timer first ...
Stop ==
  /\ due' = Off
  /\ UNCHANGED <<now, request>>

\* ... and returns with a new promise.
Setup ==
  /\ due' \in Nat
  /\ UNCHANGED <<now, request>>

Expire ==
  /\ due # Off /\ (Early \/ now >= due)
  /\ request' = TRUE /\ due' = Off
  /\ UNCHANGED now

\* timer_int_ack: a promise may be dropped, the handler will set up a new one.
Ack ==
  /\ request' = FALSE
  /\ due' \in {due, Off}
  /\ UNCHANGED now

Next == Tick \/ Stop \/ Setup \/ Expire \/ Ack

Spec == Init /\ [][Next]_vars
=============================================================================
