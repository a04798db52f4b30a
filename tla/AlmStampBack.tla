---------------------------- MODULE AlmStampBack ----------------------------
(***************************************************************************)
(* alm_get_stamp on Linux, where timer_get_stamp reads CLOCK_REALTIME and  *)
(* somebody may set the time of day back.                                  *)
(***************************************************************************)
EXTENDS AlmStamp

\* The clock is set back by a microsecond, and again, as long as stamps are below
\* the bound.
StepBack ==
  /\ 0 < count /\ 0 < clock
  /\ high_word < Horizon
  /\ clock' = clock - 1
  /\ count' = count - 1
  /\ UNCHANGED <<statics, next_due, ilock, pc, then, locals>>

BackNext == Next \/ StepBack

BackSpec == Init /\ [][BackNext]_vars
=============================================================================
