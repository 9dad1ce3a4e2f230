------------------------------ MODULE MCUpload ------------------------------
(* Instances of Upload for TLC. *)
EXTENDS Upload
CONSTANTS u1, u2, a1, Nil
=============================================================================
