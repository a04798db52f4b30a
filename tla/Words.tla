------------------------------- MODULE Words -------------------------------
(***************************************************************************)
(* Powers of two, for the widths of registers and words.                   *)
(***************************************************************************)
EXTENDS Integers

\* 2^n, in a form that proofs can take apart.
Pow2[n \in Nat] == IF n = 0 THEN 1 ELSE 2 * Pow2[n - 1]
=============================================================================
