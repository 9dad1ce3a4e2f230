--------------------------- MODULE MCConfigWrite ---------------------------
(* Instances of ConfigWrite for TLC: two requests, three texts. *)
EXTENDS ConfigWrite, TLC

CONSTANTS r1, r2,
          a,      \* a text the service accepts
          x,      \* one it refuses
          d,      \* one with which sshd answers nobody
          torn, absent

\* Edits with and without the checksum, applied and not.
MCEdits == {[text |-> a, checks |-> TRUE,  applies |-> TRUE],
            [text |-> x, checks |-> FALSE, applies |-> TRUE],
            [text |-> d, checks |-> FALSE, applies |-> TRUE],
            [text |-> d, checks |-> TRUE,  applies |-> FALSE]}

Symmetry == Permutations(Request)
=============================================================================
