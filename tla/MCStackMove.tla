---------------------------- MODULE MCStackMove ----------------------------
(* Instances of StackMove for TLC. *)
EXTENDS StackMove
=============================================================================
