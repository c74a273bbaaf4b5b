------------------------------- MODULE MCGate -------------------------------
(* The Gate over the Scheduler, with requests as model values.             *)
EXTENDS Gate, TLC

CONSTANTS i1, b1, b2, b3

\* Requests that differ in nothing the model or its safety properties mention.
Alike == Permutations({b2, b3})
=============================================================================
