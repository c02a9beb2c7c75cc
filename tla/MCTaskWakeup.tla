----------------------------- MODULE MCTaskWakeup -----------------------------
(* Model values of the TaskWakeup run. *)
EXTENDS TaskWakeup

CONSTANTS i1, i2, n1
=============================================================================
