------------------------------ MODULE Admission -----------------------------
(***************************************************************************)
(* What the Gate and the Job worker read of the yield controller (the      *)
(* Admission interface of internal/queue/gate.go): whether the GPU is      *)
(* yielded, and the current serve context.  A yield begins and cancels the *)
(* current serve context in one step, and ends in one step with a fresh    *)
(* one.  YieldController is shown to implement this module.                *)
(***************************************************************************)
EXTENDS Naturals

VARIABLES yielding,    \* Yielding()
          serveGen,    \* ServeContext(): the contexts are numbered as they are made
          cancelled    \* the serve contexts that are cancelled

yieldVars == <<yielding, serveGen, cancelled>>

AdmInit == yielding = FALSE /\ serveGen = 0 /\ cancelled = {}

YieldStart ==
  /\ ~yielding
  /\ yielding' = TRUE
  /\ cancelled' = cancelled \cup {serveGen}
  /\ UNCHANGED serveGen

YieldStop ==
  /\ yielding
  /\ yielding' = FALSE
  /\ serveGen' = serveGen + 1
  /\ UNCHANGED cancelled

AdmSpec == AdmInit /\ [][YieldStart \/ YieldStop]_yieldVars

=============================================================================
