--------------------------- MODULE MCHostInstall ---------------------------
(* Instances of HostInstall for TLC. *)
EXTENDS HostInstall
=============================================================================
