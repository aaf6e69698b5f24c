------------------------------ MODULE MCProxy ------------------------------
(* Small instances of Proxy for TLC. *)
EXTENDS Proxy, TLC

\* Sessions, backend identities and users are interchangeable: no definition
\* names one.  Sound for invariants; the liveness run does not use it.
Symmetry == Permutations(Sessions) \cup Permutations(Backends) \cup Permutations(Users)
=============================================================================
