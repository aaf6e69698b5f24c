---------------------------- MODULE BackendPool ----------------------------
(***************************************************************************)
(* The PostgreSQL server processes ("backends") and the pgxpool pools that *)
(* keep connections to them.  Neither is code of this repository: both are *)
(* modelled from how internal/pool/manager.go and internal/proxy use them. *)
(*                                                                         *)
(* A backend is named by its identity, the (PID, secret key) pair it       *)
(* announces when it starts; an identity is never used again.  A pool is   *)
(* named by the session whose call created it (manager.go:63).             *)
(***************************************************************************)
EXTENDS Naturals, FiniteSets

CONSTANTS
    Sessions,   \* client connections accepted by the proxy
    Backends,   \* server processes that may ever be started
    MaxConns,   \* MaxConns of every pool
    None        \* "no value": a nil pointer or an absent map entry

ASSUME PoolAssumption ==
    /\ IsFiniteSet(Sessions)
    /\ IsFiniteSet(Backends)
    /\ MaxConns \in Nat \ {0}
    /\ None \notin Sessions
    /\ None \notin Backends

VARIABLES
    bst,    \* bst[b]: what the pool knows of the connection to b
    bpool,  \* bpool[b]: the pool that opened the connection to b
    dead,   \* backends whose process is gone, noticed or not
    soil,   \* soil[b]: session state left inside b by the statements it ran
    seen,   \* seen[b]: transaction status pgconn cached at its last reply
    skewed, \* connections whose replies are out of step with the requests
    held    \* held[s]: connection session s holds, from Acquire to Release

poolVars == <<bst, bpool, dead, soil, seen, skewed, held>>

\* "tx": a transaction block is open.  "set": SET values, temporary tables,
\* prepared statements: all that DISCARD ALL removes.
Soils == {"tx", "set"}

PoolTypeOK ==
    /\ bst \in [Backends -> {"unborn", "idle", "leased", "closed"}]
    /\ bpool \in [Backends -> Sessions \cup {None}]
    /\ dead \subseteq Backends
    /\ soil \in [Backends -> SUBSET Soils]
    /\ seen \in [Backends -> {"I", "T", "closed"}]
    /\ skewed \subseteq Backends
    /\ held \in [Sessions -> Backends \cup {None}]

PoolInit ==
    /\ bst = [b \in Backends |-> "unborn"]
    /\ bpool = [b \in Backends |-> None]
    /\ dead = {}
    /\ soil = [b \in Backends |-> {}]
    /\ seen = [b \in Backends |-> "I"]
    /\ skewed = {}
    /\ held = [s \in Sessions |-> None]

Live(b) == bst[b] \in {"idle", "leased"}

\* The connections pool p counts against MaxConns.
Resources(p) == {b \in Backends : Live(b) /\ bpool[b] = p}

\* Acquire finds an idle connection in pool p.
TakeIdle(s, p) ==
    \E b \in Backends :
        /\ bst[b] = "idle"
        /\ bpool[b] = p
        /\ bst' = [bst EXCEPT ![b] = "leased"]
        /\ held' = [held EXCEPT ![s] = b]
        /\ UNCHANGED <<bpool, dead, soil, seen, skewed>>

\* Acquire may dial: nothing is idle and the pool is below its limit.
MayOpen(p) ==
    /\ \A b \in Resources(p) : bst[b] # "idle"
    /\ Cardinality(Resources(p)) < MaxConns

\* Acquire opens a new connection, and a new server process with it.
OpenNew(s, p) ==
    /\ MayOpen(p)
    /\ \E b \in Backends :
        /\ bst[b] = "unborn"
        /\ bst' = [bst EXCEPT ![b] = "leased"]
        /\ bpool' = [bpool EXCEPT ![b] = p]
        /\ held' = [held EXCEPT ![s] = b]
    /\ UNCHANGED <<dead, soil, seen, skewed>>

\* The status a backend reports in ReadyForQuery.
TxStatus(x) == IF "tx" \in x THEN "T" ELSE "I"

\* What Exec may do with a statement that takes the state in b to x: the state
\* it leaves, whether it failed, and the status pgconn caches.  A statement can
\* fail by itself (the client's own statement_timeout, the lock table is full)
\* and then leaves the state as it was.  On a skewed connection the reply read
\* is that of an earlier request, so nothing is known of this one.
ExecReplies(b, x) ==
    {r \in [ok : BOOLEAN, left : {soil[b], x}, status : {"I", "T", "closed"}] :
        /\ b \in dead => r = [ok |-> FALSE, left |-> soil[b], status |-> "closed"]
        /\ b \notin dead \cup skewed =>
               /\ r.left = IF r.ok THEN x ELSE soil[b]
               /\ r.status = TxStatus(r.left)}

\* The server process of b is gone, and with it the state it kept.
ProcessEnds(b) ==
    /\ dead' = dead \cup {b}
    /\ soil' = [soil EXCEPT ![b] = {}]
    /\ skewed' = skewed \ {b}

\* Mutant of CloseConn: the cached status is written where the mark belongs.
CloseConnMismarked(b) ==
    /\ bst' = [bst EXCEPT ![b] = seen[b]]
    /\ seen' = [seen EXCEPT ![b] = "closed"]
    /\ ProcessEnds(b)

\* The pool closes its connection to b, which ends the process of b.
CloseConn(b) ==
    /\ bst' = [bst EXCEPT ![b] = "closed"]
    /\ seen' = [seen EXCEPT ![b] = "closed"]
    /\ ProcessEnds(b)

\* Release: the pool destroys a connection that is closed or whose cached
\* status is not idle, and keeps any other.
ReleaseConn(s) ==
    /\ IF seen[held[s]] = "I"
       THEN /\ bst' = [bst EXCEPT ![held[s]] = "idle"]
            /\ UNCHANGED <<dead, soil, seen, skewed>>
       ELSE CloseConn(held[s])
    /\ held' = [held EXCEPT ![s] = None]
    /\ bpool' = bpool

\* The pool's own housekeeping closes an idle connection: lifetime, idle
\* time, health check.
ReapIdle(b) ==
    /\ bst[b] = "idle"
    /\ CloseConn(b)
    /\ UNCHANGED <<bpool, held>>

\* A server process ends, or the network to it fails: the pool does not know.
BackendDies(b) ==
    /\ Live(b)
    /\ b \notin dead
    /\ ProcessEnds(b)
    /\ UNCHANGED <<bst, bpool, seen, held>>
=============================================================================
