------------------------------- MODULE Proxy -------------------------------
(***************************************************************************)
(* The proxy server: the accept loop and its shutdown, the goroutine that  *)
(* serves each client connection from its startup message to its deferred  *)
(* cleanup, the pool manager it leases a database connection from, and the *)
(* registry through which a cancel request finds the connection to cancel. *)
(*                                                                         *)
(* pc[s] is where the goroutine of session s stands.  Steps of different   *)
(* sessions interleave freely; only what the code does under a mutex is    *)
(* one step.                                                               *)
(***************************************************************************)
EXTENDS BackendPool

CONSTANTS
    Users, Databases,   \* what clients put in their StartupMessage
    ClientKinds,        \* first messages clients send
    Messages,           \* requests clients send once they are served
    Cuts,               \* may a client leave with a message read in part?
    Temp                \* a key of the temporary authentication connection

ASSUME ProxyAssumption ==
    /\ ClientKinds \subseteq {"startup", "cancel", "gssenc"}
    /\ Messages \subseteq {"query", "extended"}
    /\ Cuts \in BOOLEAN
    /\ Temp \notin Backends \cup (Users \X Databases)
    /\ Temp # None
    /\ None \notin Users \X Databases

VARIABLES
    srv,         \* the server process: listening, closed (listener), exited, panicked
    pc,          \* pc[s]: control state of the session's goroutine
    ask,         \* ask[s]: <<user, database>> of the StartupMessage
    pool,        \* pool[s]: local variable of AcquireConnection
    key,         \* key[s]: Connection.key
    target,      \* target[s]: the session whose key a cancel request carries
    poolManager, \* the package's map from pool keys to pools
    registry,    \* Server.activeConnections, by backend identity
    packets      \* cancel sessions whose packet is on its way to PostgreSQL

sessVars == <<pc, ask, pool, key, target>>
sharedVars == <<srv, poolManager, registry, packets>>
vars == <<poolVars, sessVars, sharedVars>>

Asks == Users \X Databases

\* Mutant of PoolKey: pools shared by all users of a database.
PoolKeyByDatabase(a) == <<CHOOSE u \in Users : TRUE, a[2]>>

\* The key of poolManager: the user and the database the client asked for.
PoolKey(a) == a

PcValues ==
    {"none", "spawned", "startup", "handshake", "lookup", "forward",
     "getpool", "createpool", "acquire", "ping", "sendkey", "register",
     "serve", "relay", "await",
     "rollback", "discard", "release", "unregister", "done"}

TypeOK ==
    /\ PoolTypeOK
    /\ srv \in {"listening", "closed", "exited", "panicked"}
    /\ pc \in [Sessions -> PcValues]
    /\ ask \in [Sessions -> Asks \cup {None}]
    /\ pool \in [Sessions -> Sessions \cup {None}]
    /\ key \in [Sessions -> Backends \cup {None, Temp}]
    /\ target \in [Sessions -> Sessions \cup {None}]
    /\ poolManager \in [Asks -> Sessions \cup {None}]
    /\ registry \in [Backends -> Sessions \cup {None}]
    /\ packets \subseteq Sessions

Init ==
    /\ PoolInit
    /\ srv = "listening"
    /\ pc = [s \in Sessions |-> "none"]
    /\ ask = [s \in Sessions |-> None]
    /\ pool = [s \in Sessions |-> None]
    /\ key = [s \in Sessions |-> None]
    /\ target = [s \in Sessions |-> None]
    /\ poolManager = [a \in Asks |-> None]
    /\ registry = [b \in Backends |-> None]
    /\ packets = {}

Up == srv \in {"listening", "closed"}

\* The goroutine of s moves from one control state to another.
Goto(s, from, to) ==
    /\ Up
    /\ pc[s] = from
    /\ pc' = [pc EXCEPT ![s] = to]

\* Mutant of Cleanup: the two conditions in the other order.
CleanupKeyFirst(s) ==
    IF key[s] # None THEN "unregister"
    ELSE IF held[s] # None THEN "rollback" ELSE "done"

\* Where the deferred function of handleConnection starts when the handler
\* returns: reset and release if there is a pool connection, unregister if
\* there is a key, nothing otherwise.
Cleanup(s) ==
    IF held[s] # None THEN "rollback"
    ELSE IF key[s] # None THEN "unregister" ELSE "done"

-----------------------------------------------------------------------------
(* Server.Start *)

Accept(s) ==
    /\ srv = "listening"
    /\ Goto(s, "none", "spawned")
    /\ UNCHANGED <<poolVars, ask, pool, key, target, sharedVars>>

\* The goroutine counted by the WaitGroup starts another one and is done.
Launch(s) ==
    /\ Goto(s, "spawned", "startup")
    /\ UNCHANGED <<poolVars, ask, pool, key, target, sharedVars>>

\* The shutdown signal: the listener is closed.
Shutdown ==
    /\ srv = "listening"
    /\ srv' = "closed"
    /\ UNCHANGED <<poolVars, sessVars, poolManager, registry, packets>>

\* Start returns once the WaitGroup is empty, and with it the process ends.
Exit ==
    /\ srv = "closed"
    /\ \A s \in Sessions : pc[s] # "spawned"
    /\ srv' = "exited"
    /\ UNCHANGED <<poolVars, sessVars, poolManager, registry, packets>>

-----------------------------------------------------------------------------
(* handleStartupMessage *)

\* A StartupMessage whose authentication succeeds: the session has the key
\* of the temporary connection and asks the manager for a pool.
StartupMessage(s) ==
    /\ "startup" \in ClientKinds
    /\ Goto(s, "startup", "getpool")
    /\ \E a \in Asks : ask' = [ask EXCEPT ![s] = a]
    /\ key' = [key EXCEPT ![s] = Temp]
    /\ UNCHANGED <<poolVars, pool, target, sharedVars>>

\* SSLRequest: N, and the next message is read; or, if the proxy has a
\* certificate, S and a handshake before that.
SSLRequest(s) ==
    /\ \E next \in {"startup", "handshake"} : Goto(s, "startup", next)
    /\ UNCHANGED <<poolVars, ask, pool, key, target, sharedVars>>

Handshake(s) ==
    /\ \E next \in {"startup", Cleanup(s)} : Goto(s, "handshake", next)
    /\ UNCHANGED <<poolVars, ask, pool, key, target, sharedVars>>

\* Nothing usable arrives, or the authentication fails.
StartupFails(s) ==
    /\ Goto(s, "startup", Cleanup(s))
    /\ UNCHANGED <<poolVars, ask, pool, key, target, sharedVars>>

\* GSSENCRequest has no case in the switch: the session is served without a
\* pool connection.
StartupUnhandled(s) ==
    /\ "gssenc" \in ClientKinds
    /\ Goto(s, "startup", "serve")
    /\ UNCHANGED <<poolVars, ask, pool, key, target, sharedVars>>

\* A CancelRequest for the session of client c, sent while c was connected.
StartupCancel(s) ==
    /\ "cancel" \in ClientKinds
    /\ Goto(s, "startup", "lookup")
    /\ \E c \in Sessions :
        /\ pc[c] \in {"register", "serve", "relay", "await"}
        /\ key[c] # None
        /\ target' = [target EXCEPT ![s] = c]
    /\ UNCHANGED <<poolVars, ask, pool, key, sharedVars>>

\* getConnectionForCancelRequest.
Lookup(s) ==
    /\ Goto(s, "lookup",
            IF registry[key[target[s]]] # None THEN "forward" ELSE Cleanup(s))
    /\ UNCHANGED <<poolVars, ask, pool, key, target, sharedVars>>

\* cancelRequest: dial PostgreSQL and write the 16 bytes, or fail to.
Forward(s) ==
    /\ Goto(s, "forward", Cleanup(s))
    /\ packets' \in {packets, packets \cup {s}}
    /\ UNCHANGED <<poolVars, ask, pool, key, target, srv, poolManager, registry>>

-----------------------------------------------------------------------------
(* connectBackend: AcquireConnection and GetOrCreatePool *)

\* The first look at the map, under the read lock.
FindPool(s) ==
    /\ LET p == poolManager[PoolKey(ask[s])] IN
        /\ Goto(s, "getpool", IF p # None THEN "acquire" ELSE "createpool")
        /\ pool' = [pool EXCEPT ![s] = p]
    /\ UNCHANGED <<poolVars, ask, key, target, sharedVars>>

\* Mutant of CreatePool: no second look under the write lock.
CreatePoolUnchecked(s) ==
    /\ Goto(s, "createpool", "acquire")
    /\ pool' = [pool EXCEPT ![s] = s]
    /\ poolManager' = [poolManager EXCEPT ![PoolKey(ask[s])] = s]
    /\ UNCHANGED <<poolVars, ask, key, target, srv, registry, packets>>

\* Under the write lock: look again, create the pool if it is still missing.
CreatePool(s) ==
    /\ Goto(s, "createpool", "acquire")
    /\ LET k == PoolKey(ask[s])
           p == IF poolManager[k] # None THEN poolManager[k] ELSE s IN
        /\ pool' = [pool EXCEPT ![s] = p]
        /\ poolManager' = [poolManager EXCEPT ![k] = p]
    /\ UNCHANGED <<poolVars, ask, key, target, srv, registry, packets>>

\* The connection string does not parse or the pool cannot be built.
CreatePoolFails(s) ==
    /\ Goto(s, "createpool", Cleanup(s))
    /\ poolManager[PoolKey(ask[s])] = None
    /\ UNCHANGED <<poolVars, ask, pool, key, target, sharedVars>>

\* pool.Acquire with a context that never expires.
Acquire(s) ==
    /\ Goto(s, "acquire", "ping")
    /\ TakeIdle(s, pool[s]) \/ OpenNew(s, pool[s])
    /\ UNCHANGED <<ask, pool, key, target, sharedVars>>

AcquireFails(s) ==
    /\ Goto(s, "acquire", Cleanup(s))
    /\ MayOpen(pool[s])
    /\ UNCHANGED <<poolVars, ask, pool, key, target, sharedVars>>

\* One statement of the proxy's own on the session's pool connection.  after
\* is what it leaves in the backend when it succeeds; an error means Release
\* next.  On a skewed connection this step need never come: see Blocked.
PoolExec(s, from, after, next) ==
    /\ pc[s] = from
    /\ \E r \in ExecReplies(held[s], after) :
        /\ Goto(s, from, IF r.ok THEN next ELSE "release")
        /\ soil' = [soil EXCEPT ![held[s]] = r.left]
        /\ seen' = [seen EXCEPT ![held[s]] = r.status]
    /\ UNCHANGED <<bst, bpool, dead, skewed, held>>
    /\ UNCHANGED <<ask, pool, key, target, sharedVars>>

\* Mutant of Ping: the error path does not release the connection.
PingLeaks(s) ==
    \/ PoolExec(s, "ping", soil[held[s]], "sendkey") /\ pc'[s] = "sendkey"
    \/ /\ Goto(s, "ping", "unregister")
       /\ held[s] \in dead
       /\ UNCHANGED <<poolVars, ask, pool, key, target, sharedVars>>

\* Ping; when it fails the connection goes straight back to the pool.
Ping(s) == PoolExec(s, "ping", soil[held[s]], "sendkey")

-----------------------------------------------------------------------------
(* handleStartupMessage, after connectBackend *)

\* The session takes the pool connection's key and sends it, then
\* ReadyForQuery, to the client.
SendKey(s) ==
    /\ \E sent \in BOOLEAN :
        Goto(s, "sendkey", IF sent THEN "register" ELSE Cleanup(s))
    /\ key' = [key EXCEPT ![s] = held[s]]
    /\ UNCHANGED <<poolVars, ask, pool, target, sharedVars>>

\* registerConnection: the entry is written, then the log statements walk
\* over all entries and use their pool connections; one that has been
\* released is a nil dereference.
Register(s) ==
    /\ pc[s] = "register"
    /\ Up
    /\ registry' = [registry EXCEPT ![key[s]] = s]
    /\ IF \A b \in Backends : registry'[b] # None => held[registry'[b]] # None
       THEN pc' = [pc EXCEPT ![s] = "serve"] /\ srv' = srv
       ELSE srv' = "panicked" /\ pc' = pc
    /\ UNCHANGED <<poolVars, ask, pool, key, target, poolManager, packets>>

-----------------------------------------------------------------------------
(* handleMessage and relayBackendResponse *)

\* The client sends Terminate or closes between two requests.
ClientLeaves(s) ==
    /\ Goto(s, "serve", Cleanup(s))
    /\ UNCHANGED <<poolVars, ask, pool, key, target, sharedVars>>

\* A request that ends with ReadyForQuery is forwarded, or the backend is
\* found gone.
SendQuery(s) ==
    /\ "query" \in Messages
    /\ held[s] # None
    /\ Goto(s, "serve", "relay") \/ (held[s] \in dead /\ Goto(s, "serve", "rollback"))
    /\ UNCHANGED <<poolVars, ask, pool, key, target, sharedVars>>

\* A Parse, Bind, Describe, Execute or Flush is forwarded.  ReadyForQuery
\* comes after Sync only, and Sync is not read before ReadyForQuery.
SendExtended(s) ==
    /\ "extended" \in Messages
    /\ held[s] # None
    /\ Goto(s, "serve", "await")
    /\ UNCHANGED <<poolVars, ask, pool, key, target, sharedVars>>

\* A message of a session that has no pool connection.
MessageWithoutBackend(s) ==
    /\ Up
    /\ pc[s] = "serve"
    /\ held[s] = None
    /\ srv' = "panicked"
    /\ UNCHANGED <<poolVars, sessVars, poolManager, registry, packets>>

\* The backend runs the statement, its response is relayed to the end.
Respond(s) ==
    /\ Goto(s, "relay", "serve")
    /\ held[s] \notin dead
    /\ \E x \in SUBSET Soils : soil' = [soil EXCEPT ![held[s]] = x]
    /\ UNCHANGED <<bst, bpool, dead, seen, skewed, held>>
    /\ UNCHANGED <<ask, pool, key, target, sharedVars>>

\* Mutant of BackendLost: a receive error is retried.
BackendLostRetried(s) ==
    /\ Goto(s, "relay", "relay") \/ Goto(s, "await", "await")
    /\ held[s] \in dead
    /\ UNCHANGED <<poolVars, ask, pool, key, target, sharedVars>>

\* The response cannot be read to its end: the backend is gone, or the reader
\* met the rest of a torn message where a message should begin.
BackendLost(s) ==
    /\ Goto(s, "relay", "rollback") \/ Goto(s, "await", "rollback")
    /\ held[s] \in dead \cup skewed
    /\ UNCHANGED <<poolVars, ask, pool, key, target, sharedVars>>

\* The response cannot be written to the client, or the client leaves when its
\* reader has taken part of a late message (a notification): the rest stays on
\* the backend connection, which is now out of step.
ClientLost(s) ==
    /\ Cuts
    /\ Goto(s, "relay", "rollback") \/ Goto(s, "serve", "rollback")
    /\ held[s] \in Backends \ dead
    /\ \E x \in SUBSET Soils : soil' = [soil EXCEPT ![held[s]] = x]
    /\ skewed' = skewed \cup {held[s]}
    /\ UNCHANGED <<bst, bpool, dead, seen, held>>
    /\ UNCHANGED <<ask, pool, key, target, sharedVars>>

-----------------------------------------------------------------------------
(* The deferred cleanup of handleConnection *)

\* Mutant of Rollback: the connection is released as the client left it.
RollbackSkipped(s) ==
    /\ Goto(s, "rollback", "release")
    /\ UNCHANGED <<poolVars, ask, pool, key, target, sharedVars>>

\* fullResetBeforeRelease, first statement: an error ends the reset.
Rollback(s) == PoolExec(s, "rollback", soil[held[s]] \ {"tx"}, "discard")

\* fullResetBeforeRelease, second statement.
Discard(s) == PoolExec(s, "discard", {}, "release")

\* Mutant of Release: the deferred function ends after it.
ReleaseAndReturn(s) ==
    /\ Goto(s, "release", "done")
    /\ ReleaseConn(s)
    /\ UNCHANGED <<ask, pool, key, target, sharedVars>>

\* Release comes before unregisterConnection.
Release(s) ==
    /\ Goto(s, "release", "unregister")
    /\ ReleaseConn(s)
    /\ UNCHANGED <<ask, pool, key, target, sharedVars>>

\* unregisterConnection deletes the entry at the key, whoever it points to.
Unregister(s) ==
    /\ Goto(s, "unregister", "done")
    /\ registry' = [b \in Backends |-> IF b = key[s] THEN None ELSE registry[b]]
    /\ UNCHANGED <<poolVars, ask, pool, key, target, srv, poolManager, packets>>

-----------------------------------------------------------------------------
(* PostgreSQL and the network *)

\* Where a goroutine waits for the reply to a statement of the proxy's own.
OwnPcs == {"ping", "rollback", "discard"}

\* Session v has a statement running in backend b.
Running(v, b) ==
    /\ held[v] = b
    /\ b \notin dead
    /\ pc[v] = "relay" \/ (pc[v] \in OwnPcs /\ b \notin skewed)

\* A cancel packet reaches the backend while a statement runs: the statement
\* fails.  A relayed one is reported to the client, one of the proxy's own is
\* an error of the call that sent it (on a skewed connection its reply is not
\* the one that is read: CancelMisses).
CancelInterrupts(c, v) ==
    LET b == key[target[c]] IN
    /\ c \in packets
    /\ Running(v, b)
    /\ packets' = packets \ {c}
    /\ IF pc[v] = "relay"
       THEN Goto(v, "relay", "serve") /\ seen' = seen
       ELSE /\ Goto(v, pc[v], "release")
            /\ seen' = [seen EXCEPT ![b] = TxStatus(soil[b])]
    /\ UNCHANGED <<bst, bpool, dead, soil, skewed, held>>
    /\ UNCHANGED <<ask, pool, key, target, srv, poolManager, registry>>

\* The packet is lost, or finds no statement to interrupt.
CancelMisses(c) ==
    /\ Up
    /\ c \in packets
    /\ packets' = packets \ {c}
    /\ UNCHANGED <<poolVars, sessVars, srv, poolManager, registry>>

PoolStep(b) ==
    /\ Up
    /\ ReapIdle(b) \/ BackendDies(b)
    /\ UNCHANGED <<sessVars, sharedVars>>

-----------------------------------------------------------------------------

\* What the proxy's goroutines do by themselves.
Handler(s) ==
    \/ Launch(s) \/ Lookup(s) \/ Forward(s)
    \/ FindPool(s) \/ CreatePool(s) \/ CreatePoolFails(s)
    \/ Acquire(s) \/ AcquireFails(s) \/ Ping(s)
    \/ SendKey(s) \/ Register(s) \/ BackendLost(s)
    \/ Rollback(s) \/ Discard(s) \/ Release(s) \/ Unregister(s)

\* What clients do.
Client(s) ==
    \/ Accept(s) \/ StartupMessage(s) \/ StartupFails(s) \/ StartupUnhandled(s)
    \/ SSLRequest(s) \/ Handshake(s) \/ StartupCancel(s) \/ ClientLeaves(s) \/ SendQuery(s) \/ SendExtended(s)
    \/ MessageWithoutBackend(s) \/ ClientLost(s)

Environment ==
    \/ \E b \in Backends : PoolStep(b)
    \/ \E c \in Sessions : CancelMisses(c)
    \/ \E c, v \in Sessions : CancelInterrupts(c, v)

Next ==
    \/ \E s \in Sessions : Handler(s) \/ Client(s) \/ Respond(s)
    \/ Environment
    \/ Shutdown
    \/ Exit

Spec == Init /\ [][Next]_vars

\* A goroutine that may wait for its backend for ever: on a skewed connection
\* the length read may be that of a torn message, and neither the relay's
\* Receive nor Ping, ROLLBACK and DISCARD ALL (context.Background()) has a
\* deadline.  Only the end of the backend is sure to end the wait.
Blocked(s) == pc[s] = "await" \/ (pc[s] \in OwnPcs \cup {"relay"} /\ held[s] \in skewed)

\* Every goroutine that can take a step takes one, unless it is blocked;
\* PostgreSQL answers every query of a connection in step; a served client
\* leaves in the end.
Fairness ==
    \A s \in Sessions :
        /\ WF_vars((Blocked(s) => held[s] \in dead) /\ Handler(s))
        /\ WF_vars(~Blocked(s) /\ Respond(s))
        /\ SF_vars(ClientLeaves(s))

FairSpec == Spec /\ Fairness

-----------------------------------------------------------------------------
(* Safety *)

\* A connection is marked leased exactly while one session holds it, and two
\* sessions never hold the same one: every path of the handler from Acquire
\* on (ping failure, failed key send, every error of the message loop) gives
\* its connection back before it ends, and once
\* (docs/postgres-proxy-system-explanation.md:588).
ExclusiveLease ==
    /\ \A b \in Backends : bst[b] = "leased" <=> \E s \in Sessions : held[s] = b
    /\ \A s, t \in Sessions : held[s] = held[t] /\ held[s] # None => s = t
    /\ \A s \in Sessions : held[s] # None => pc[s] \notin {"unregister", "done"}

\* No (user, database) ever has more than MaxConns open connections, also
\* when several first clients race to create its pool (manager.go:44-49).
PoolBound ==
    \A a \in Asks :
        Cardinality({b \in Backends : Live(b) /\ ask[bpool[b]] = a}) <= MaxConns

\* A connection the pool may hand to the next client has no transaction left
\* open by the last one, whatever failed in the reset: Release trusts the
\* status of pgconn's last reply (connection.go:123-135).
NoTransactionHandover ==
    \A b \in Backends :
        bst[b] = "idle" /\ b \notin dead \cup skewed => "tx" \notin soil[b]

\* An entry of the registry names a session that announced that key and has
\* not finished; it still holds that connection unless it is about to
\* unregister (connection.go:47-52).
RegistrySound ==
    \A b \in Backends : registry[b] # None /\ Up =>
        LET s == registry[b] IN
        /\ key[s] = b
        /\ pc[s] \notin {"done", "sendkey", "register"}
        /\ held[s] = b \/ pc[s] = "unregister"

\* A cancel request that is late finds its connection held by someone else,
\* but only ever by a client of the same user and database: the identity
\* stays in its pool (server.go:47-67, connection.go:89-121).
LateCancelStaysInPool ==
    \A c, v \in Sessions :
        (c \in packets \/ pc[c] \in {"lookup", "forward"}) /\ held[v] # None
            /\ held[v] = key[target[c]]
        => ask[v] = ask[target[c]]

\* The pool manager as sessions see it: a connection is in the pool of the
\* user and database its pool was created for.
Place(b) ==
    CASE bst[b] = "unborn" -> None
      [] bst[b] = "closed" -> Temp
      [] OTHER -> ask[bpool[b]]

Places == [b \in Backends |-> Place(b)]

Pool == INSTANCE Lease WITH
    Clients <- Sessions, Conns <- Backends, Pools <- Asks, Limit <- MaxConns,
    Nil <- None, Gone <- Temp, want <- ask, lease <- held, place <- Places

\* Whatever fails and in whatever order, sessions get connections of their own
\* pool, one each, within its limit (manager.go:22-91, connection.go:37-54).
ImplementsLease == Pool!LeaseSpec

-----------------------------------------------------------------------------
(* What the documentation says and the code does not guarantee *)

\* docs/cancel-requests.md:111: the map holds the active connections.  A
\* client that is being served can cancel its query.
ActiveSessionCancellable ==
    \A s \in Sessions :
        pc[s] \in {"serve", "relay"} /\ held[s] # None => registry[held[s]] = s

\* docs/cancel-requests.md:732-739: the registry is safe to use from all
\* connections at once.
RegistryNeverPanics == srv # "panicked"

\* docs/cli.md:409-412: after the cleanup the connection is back in the pool,
\* idle and ready for reuse: no session state survives it.
CleanHandover ==
    \A b \in Backends : bst[b] = "idle" /\ b \notin dead => soil[b] = {}

\* server.go:104-106: "waiting for active connections to drain", "all
\* connections drained, shutdown complete".
DrainedExit ==
    srv = "exited" => \A s \in Sessions : pc[s] \in {"none", "done"}

-----------------------------------------------------------------------------
(* Liveness *)

\* Sessions that are blocked hold every connection pool p may have.
Exhausted(p) ==
    Cardinality({b \in Resources(p) : \E t \in Sessions : held[t] = b /\ Blocked(t)}) = MaxConns

\* A client waiting in Acquire gets out of it (with a connection or an error)
\* unless the server goes down or blocked sessions keep the whole pool: no
\* path of the handler loses a connection of the pool (manager.go:79-88).
WaiterServed ==
    \A s \in Sessions :
        pc[s] = "acquire" ~> (pc[s] # "acquire" \/ ~Up \/ Exhausted(pool[s]))

\* A session that is registered or holds a connection ends with neither,
\* unless it blocks; a blocked one does when its backend ends
\* (connection.go:37-54).
SessionCleansUp ==
    \A s \in Sessions :
        pc[s] = "ping" \/ (Blocked(s) /\ held[s] \in dead) ~>
            (~Up \/ (Blocked(s) /\ held[s] \notin dead)
                 \/ (pc[s] = "done" /\ held[s] = None
                     /\ \A b \in Backends : registry[b] # s))
=============================================================================
