------------------------------- MODULE MCJobs -------------------------------
(* The Job system over the store, the Scheduler and the yield interface.   *)
EXTENDS JobRunner, TLC

CONSTANTS w, i1, b1, k1, k2

\* Idempotency keys are only compared.
Alike == Permutations({k1, k2})
=============================================================================
