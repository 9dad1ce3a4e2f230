---------------------------- MODULE MCJobManager ----------------------------
(* Instances of JobManager for TLC. *)
EXTENDS JobManager, TLC

CONSTANTS q1, q2, c1

\* Queue keys and callers of Cancel are interchangeable.
Symmetry == Permutations(Queue)
=============================================================================
