------------------------------- MODULE Lease -------------------------------
(***************************************************************************)
(* What the pool manager promises the sessions of the proxy, without the   *)
(* races, failures and messages of the server: a session takes one         *)
(* connection, of the pool it asked for, which nobody else has, and gives  *)
(* it back; no pool is ever larger than its limit; a connection never      *)
(* changes its pool, and one that was closed never comes back.             *)
(***************************************************************************)
EXTENDS Naturals, FiniteSets

CONSTANTS Clients, Conns, Pools, Limit, Nil, Gone

VARIABLES
    want,   \* want[c]: the pool c asked for
    lease,  \* lease[c]: the connection c has
    place   \* place[b]: Nil before b is opened, its pool, Gone after

leaseVars == <<want, lease, place>>

Free(b) == \A c \in Clients : lease[c] # b

Open(a) == {b \in Conns : place[b] = a}

LeaseInit ==
    /\ want = [c \in Clients |-> Nil]
    /\ lease = [c \in Clients |-> Nil]
    /\ place = [b \in Conns |-> Nil]

AskFor(c) ==
    /\ want[c] = Nil
    /\ \E a \in Pools : want' = [want EXCEPT ![c] = a]
    /\ UNCHANGED <<lease, place>>

\* A connection that is open, or one that is opened for it below the limit.
Take(c) ==
    /\ want[c] # Nil
    /\ lease[c] = Nil
    /\ \E b \in Conns :
        /\ Free(b)
        /\ lease' = [lease EXCEPT ![c] = b]
        /\ \/ place[b] = want[c] /\ place' = place
           \/ /\ place[b] = Nil
              /\ Cardinality(Open(want[c])) < Limit
              /\ place' = [place EXCEPT ![b] = want[c]]
    /\ want' = want

\* The pool keeps the connection or closes it.
GiveBack(c) ==
    /\ lease[c] # Nil
    /\ lease' = [lease EXCEPT ![c] = Nil]
    /\ place' \in {place, [place EXCEPT ![lease[c]] = Gone]}
    /\ want' = want

\* The pool closes a connection nobody has.
Drop(b) ==
    /\ place[b] \in Pools
    /\ Free(b)
    /\ place' = [place EXCEPT ![b] = Gone]
    /\ UNCHANGED <<want, lease>>

LeaseNext ==
    \/ \E c \in Clients : AskFor(c) \/ Take(c) \/ GiveBack(c)
    \/ \E b \in Conns : Drop(b)

LeaseSpec == LeaseInit /\ [][LeaseNext]_leaseVars
=============================================================================
