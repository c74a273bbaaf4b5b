---------------------------- MODULE MCScheduler -----------------------------
(* The Scheduler on its own, with callers as model values.                 *)
EXTENDS Scheduler

CONSTANTS i1, i2, b1, b2, b3
=============================================================================
