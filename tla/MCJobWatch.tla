---------------------------- MODULE MCJobWatch ----------------------------
(* JobWatch for model checking: names of windows. *)
EXTENDS JobWatch

CONSTANTS v1, v2
=============================================================================
