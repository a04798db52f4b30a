----------------------------- MODULE MCAlmTest -----------------------------
(* A small instance of AlmTest for TLC. *)
EXTENDS AlmTest

CONSTANTS t1, t2, t3

\* alm_test_cb with two alarms, then or before with one, next to alm_test_sem.
ThreeTests == t1 :> 2 @@ t2 :> 1 @@ t3 :> 1
=============================================================================
