------------------------------- MODULE Div64 -------------------------------
(***************************************************************************)
(* div64.c: quotient and remainder of 64 bit numbers by shifting and       *)
(* subtracting, which vxWorks links where the compiler has no such         *)
(* instruction.  Words have W bits here.                                   *)
(***************************************************************************)
EXTENDS Words

CONSTANT W  \* bits of a word, 64 in the code

Word == 0..(Pow2[W] - 1)

\* A word as a signed number, and back; minus the least number is itself.
Signed(w) == IF w < Pow2[W - 1] THEN w ELSE w - Pow2[W]
Minus(w) == (Pow2[W] - w) % Pow2[W]

VARIABLES
  pc,           \* where __udivdi3 or __umoddi3 is
  signed,       \* called by __divdi3
  minus,        \* __divdi3: the result is to be negated
  x0, y0,       \* the arguments of the caller
  x, y, d, e, res  \* parameters and locals

vars == <<pc, signed, minus, x0, y0, x, y, d, e, res>>
args == <<signed, minus, x0, y0>>

-----------------------------------------------------------------------------
\* Mutant: only the dividend decides about the sign.
CallDiv_sign ==
  /\ signed = TRUE /\ pc = "top"
  /\ x = IF Signed(x0) < 0 THEN Minus(x0) ELSE x0
  /\ y = IF Signed(y0) < 0 THEN Minus(y0) ELSE y0
  /\ minus = (Signed(x0) < 0)

\* __divdi3: absolute values, and the sign the result will have.
CallDiv ==
  /\ signed = TRUE /\ pc = "top"
  /\ x = IF Signed(x0) < 0 THEN Minus(x0) ELSE x0
  /\ y = IF Signed(y0) < 0 THEN Minus(y0) ELSE y0
  /\ minus = ((Signed(x0) < 0) # (Signed(y0) < 0))

\* __udivdi3 and __umoddi3 themselves.
CallUnsigned == signed = FALSE /\ minus = FALSE /\ pc = "top" /\ x = x0 /\ y = y0

\* Zero divided by anything is zero; e becomes the highest bit of x.
Top ==
  /\ pc = "top"
  /\ IF x = 0
     THEN pc' = "done" /\ UNCHANGED e
     ELSE IF x < e THEN e' = e \div 2 /\ UNCHANGED pc
                   ELSE pc' = "shift" /\ UNCHANGED e
  /\ UNCHANGED <<args, x, y, d, res>>

\* Mutant: the divisor is shifted once too often.
Shift_tooFar ==
  /\ pc = "shift"
  /\ IF y > 0 /\ y <= e
     THEN y' = (2 * y) % Pow2[W] /\ d' = (2 * d) % Pow2[W] /\ UNCHANGED pc
     ELSE pc' = "subtract" /\ UNCHANGED <<y, d>>
  /\ UNCHANGED <<args, x, e, res>>

\* Mutant: no test for a divisor of zero.
Shift_zero ==
  /\ pc = "shift"
  /\ IF y < e
     THEN y' = (2 * y) % Pow2[W] /\ d' = (2 * d) % Pow2[W] /\ UNCHANGED pc
     ELSE pc' = "subtract" /\ UNCHANGED <<y, d>>
  /\ UNCHANGED <<args, x, e, res>>

\* Line the divisor up with the highest bit of x.
Shift ==
  /\ pc = "shift"
  /\ IF y > 0 /\ y < e
     THEN y' = (2 * y) % Pow2[W] /\ d' = (2 * d) % Pow2[W] /\ UNCHANGED pc
     ELSE pc' = "subtract" /\ UNCHANGED <<y, d>>
  /\ UNCHANGED <<args, x, e, res>>

\* Mutant: a dividend equal to the divisor is not subtracted.
Subtract_strict ==
  /\ pc = "subtract"
  /\ IF x > y THEN x' = x - y /\ res' = (res + d) % Pow2[W] ELSE UNCHANGED <<x, res>>
  /\ y' = y \div 2 /\ d' = d \div 2
  /\ pc' = IF d' = 0 THEN "done" ELSE "subtract"
  /\ UNCHANGED <<args, e>>

Subtract ==
  /\ pc = "subtract"
  /\ IF x >= y THEN x' = x - y /\ res' = (res + d) % Pow2[W] ELSE UNCHANGED <<x, res>>
  /\ y' = y \div 2 /\ d' = d \div 2
  /\ pc' = IF d' = 0 THEN "done" ELSE "subtract"
  /\ UNCHANGED <<args, e>>

Init ==
  /\ x0 \in Word /\ y0 \in Word
  /\ pc = "top" /\ signed \in BOOLEAN /\ minus \in BOOLEAN
  /\ x \in Word /\ y \in Word
  /\ CallDiv \/ CallUnsigned
  /\ d = 1 /\ e = Pow2[W - 1] /\ res = 0

Next == Top \/ Shift \/ Subtract

Spec == Init /\ [][Next]_vars
-----------------------------------------------------------------------------
\* The arguments of the unsigned functions.
Dividend == IF signed /\ Signed(x0) < 0 THEN Minus(x0) ELSE x0
Divisor  == IF signed /\ Signed(y0) < 0 THEN Minus(y0) ELSE y0

\* Nothing is ever shifted out or carried away, and what has been subtracted so
\* far is a multiple of the divisor that leaves a remainder the rest can deal with.
LoopInvariant ==
  /\ y0 # 0 /\ pc \in {"shift", "subtract"} => y = Divisor * d
  /\ x + Divisor * res = Dividend
  /\ pc = "subtract" => x < 2 * y \/ y0 = 0

\* __udivdi3 and __umoddi3 return quotient and remainder.
Exact ==
  pc = "done" /\ y0 # 0 => res = Dividend \div Divisor /\ x = Dividend % Divisor

\* __divdi3 returns the quotient truncated towards zero, as C wants it: times
\* the divisor it differs from the dividend by less than the divisor, towards
\* the same side.
SignedExact ==
  LET q == Signed(IF minus THEN Minus(res) ELSE res)
      r == Signed(x0) - q * Signed(y0)
      overflows == Signed(x0) = -(Pow2[W - 1]) /\ Signed(y0) = -1
  IN  signed /\ pc = "done" /\ y0 # 0 /\ ~overflows =>
        /\ r * r < Signed(y0) * Signed(y0)
        /\ r * Signed(x0) >= 0
=============================================================================
