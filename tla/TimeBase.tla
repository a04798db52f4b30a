------------------------------ MODULE TimeBase ------------------------------
(***************************************************************************)
(* ppc_timebase_reg.c: the time base register counts all the time and is   *)
(* read half by half; the loop starts again when the upper half has        *)
(* changed meanwhile.                                                      *)
(***************************************************************************)
EXTENDS Integers

CONSTANTS
  Half,     \* 2^32: one more than the greatest value of the lower half
  Horizon   \* bound: the upper half does not go beyond

VARIABLES
  upper, lower,     \* the register
  step,             \* next instruction of readTimeBaseReg
  dummy, tbl, tbu,  \* r0 and the results
  value             \* history: the register when its lower half was read

vars == <<upper, lower, step, dummy, tbl, tbu, value>>

Count ==
  /\ IF lower + 1 < Half
     THEN lower' = lower + 1 /\ UNCHANGED upper
     ELSE upper < Horizon /\ lower' = 0 /\ upper' = upper + 1
  /\ UNCHANGED <<step, dummy, tbl, tbu, value>>

\* readTimeBaseReg is called; its caller has set the results to zero.
CallRead ==
  /\ step \in {"call", "done"}
  /\ step' = "upper"
  /\ dummy' = 0 /\ tbl' = 0 /\ tbu' = 0
  /\ UNCHANGED <<upper, lower, value>>

\* mftbu dummy
ReadUpper ==
  /\ step = "upper" /\ step' = "lower"
  /\ dummy' = upper
  /\ UNCHANGED <<upper, lower, tbl, tbu, value>>

\* mftb tbl
ReadLower ==
  /\ step = "lower" /\ step' = "again"
  /\ tbl' = lower
  /\ value' = [upper |-> upper, lower |-> lower]
  /\ UNCHANGED <<upper, lower, dummy, tbu>>

\* mftbu tbu
ReadAgain ==
  /\ step = "again" /\ step' = "compare"
  /\ tbu' = upper
  /\ UNCHANGED <<upper, lower, dummy, tbl, value>>

\* Mutant: the loop is left as soon as the upper half has not decreased.
Compare_less ==
  /\ step = "compare"
  /\ step' = IF tbu >= dummy THEN "done" ELSE "upper"
  /\ UNCHANGED <<upper, lower, dummy, tbl, tbu, value>>

\* cmpw, bne
Compare ==
  /\ step = "compare"
  /\ step' = IF tbu = dummy THEN "done" ELSE "upper"
  /\ UNCHANGED <<upper, lower, dummy, tbl, tbu, value>>

Init ==
  /\ upper = 0 /\ lower = 0
  /\ step = "call" /\ dummy = 0 /\ tbl = 0 /\ tbu = 0
  /\ value = [upper |-> 0, lower |-> 0]

Next == Count \/ CallRead \/ ReadUpper \/ ReadLower \/ ReadAgain \/ Compare

Spec == Init /\ [][Next]_vars
-----------------------------------------------------------------------------
\* The two halves that are returned belong together: the register had this
\* value at a moment while it was being read.
ReadsExact ==
  step = "done" => tbu = value.upper /\ tbl = value.lower
=============================================================================
