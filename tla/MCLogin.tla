------------------------------ MODULE MCLogin ------------------------------
(* Small instances of Login for TLC. *)
EXTENDS Login, TLC

\* Commands, grants and requests are interchangeable: no definition names
\* one.  Sound for invariants; the liveness run does not use it.
Symmetry ==
    Permutations(Commands) \cup Permutations(Users) \cup Permutations(Grants)
        \cup Permutations(Requests)
=============================================================================
