----------------------------- MODULE KeySource -----------------------------
(***************************************************************************)
(* What getPublicKey promises to the logins that call it at the same time: *)
(* a growing set of known keys, and to each call one answer, which is the  *)
(* key if it is known when the call returns and an error only if it is     *)
(* not.  How a call learns new keys, and when, is left open.               *)
(***************************************************************************)
CONSTANTS Logins, Kids

VARIABLES
    known,  \* keys any login is given
    state,  \* state[l]: of l's call: none, pending, got, failed
    wants   \* wants[l]: the key it asks for

vars == <<known, state, wants>>

Init ==
    /\ known = {}
    /\ state = [l \in Logins |-> "none"]
    /\ wants \in [Logins -> Kids]

Call(l) ==
    /\ state[l] = "none"
    /\ state' = [state EXCEPT ![l] = "pending"]
    /\ \E k \in Kids : wants' = [wants EXCEPT ![l] = k]
    /\ known' = known

Return(l) ==
    /\ state[l] = "pending"
    /\ known' \in SUBSET Kids
    /\ known \subseteq known'
    /\ state' = [state EXCEPT ![l] = IF wants[l] \in known' THEN "got" ELSE "failed"]
    /\ wants' = wants

Take(l) ==
    /\ state[l] \in {"got", "failed"}
    /\ state' = [state EXCEPT ![l] = "none"]
    /\ \E k \in Kids : wants' = [wants EXCEPT ![l] = k]
    /\ known' = known

Next == \E l \in Logins : Call(l) \/ Return(l) \/ Take(l)

Spec == Init /\ [][Next]_vars
=============================================================================
