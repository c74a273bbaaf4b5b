------------------------------ MODULE MCEvents ------------------------------
(* The events of one Job, with streams and Cancel calls as model values.   *)
EXTENDS JobEvents

CONSTANTS s1, s2, c1
=============================================================================
