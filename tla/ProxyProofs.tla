---------------------------- MODULE ProxyProofs ----------------------------
(***************************************************************************)
(* Machine-checked proofs about Proxy, for any sets of sessions, backends, *)
(* users and databases and any pool limit.                                 *)
(***************************************************************************)
EXTENDS Proxy, TLAPS

-----------------------------------------------------------------------------
(* What the operators return *)

\* The deferred function of handleConnection has three places to start at.
LEMMA CleanupStart ==
    ASSUME NEW s \in Sessions
    PROVE  Cleanup(s) \in {"rollback", "unregister", "done"}
  BY DEF Cleanup

\* A statement of the proxy's own fails on a connection that is gone; on one
\* that is in step it returns the backend's own transaction status, and a
\* statement that succeeded has done its work.
LEMMA ExecOutcome ==
    ASSUME NEW b \in Backends, soil[b] \in SUBSET Soils, NEW x \in SUBSET Soils,
           NEW r \in ExecReplies(b, x)
    PROVE  /\ r.ok \in BOOLEAN
           /\ r.left \in SUBSET Soils
           /\ r.status \in {"I", "T", "closed"}
           /\ b \in dead => r.status = "closed" /\ r.left = soil[b]
           /\ b \notin dead \cup skewed =>
                /\ r.status = TxStatus(r.left)
                /\ r.left = IF r.ok THEN x ELSE soil[b]
  BY DEF ExecReplies, TxStatus

\* A statement of the proxy's own changes the state of its backend, the cached
\* status and where the session stands; in step, the cached status is the
\* backend's, and the session goes on only when the statement has done its work.
LEMMA ExecStep ==
    ASSUME NEW s \in Sessions, held[s] \in Backends, soil[held[s]] \in SUBSET Soils,
           NEW from, NEW next, NEW after \in SUBSET Soils, PoolExec(s, from, after, next)
    PROVE  /\ Up /\ pc[s] = from
           /\ \E to \in {next, "release"}, st \in {"I", "T", "closed"}, left \in SUBSET Soils :
                /\ pc' = [pc EXCEPT ![s] = to]
                /\ seen' = [seen EXCEPT ![held[s]] = st]
                /\ soil' = [soil EXCEPT ![held[s]] = left]
                /\ held[s] \notin dead \cup skewed =>
                     st = TxStatus(left) /\ (left = after \/ to = "release")
                /\ held[s] \in dead => st = "closed" /\ left = soil[held[s]]
           /\ UNCHANGED <<bst, bpool, dead, skewed, held>>
           /\ UNCHANGED <<ask, pool, key, target, sharedVars>>
  <1>1. PICK r \in ExecReplies(held[s], after) :
            /\ Goto(s, from, IF r.ok THEN next ELSE "release")
            /\ soil' = [soil EXCEPT ![held[s]] = r.left]
            /\ seen' = [seen EXCEPT ![held[s]] = r.status]
    BY DEF PoolExec
  <1>2. /\ r.ok \in BOOLEAN
        /\ r.left \in SUBSET Soils
        /\ r.status \in {"I", "T", "closed"}
        /\ held[s] \in dead => r.status = "closed" /\ r.left = soil[held[s]]
        /\ held[s] \notin dead \cup skewed =>
             /\ r.status = TxStatus(r.left)
             /\ r.left = IF r.ok THEN after ELSE soil[held[s]]
    BY <1>1, ExecOutcome
  <1>3. /\ Up /\ pc[s] = from
        /\ pc' = [pc EXCEPT ![s] = IF r.ok THEN next ELSE "release"]
    BY <1>1 DEF Goto
  <1>4. \E to \in {next, "release"}, st \in {"I", "T", "closed"}, left \in SUBSET Soils :
                /\ pc' = [pc EXCEPT ![s] = to]
                /\ seen' = [seen EXCEPT ![held[s]] = st]
                /\ soil' = [soil EXCEPT ![held[s]] = left]
                /\ held[s] \notin dead \cup skewed =>
                     st = TxStatus(left) /\ (left = after \/ to = "release")
                /\ held[s] \in dead => st = "closed" /\ left = soil[held[s]]
    <2>1. CASE r.ok
      BY <2>1, <1>1, <1>2, <1>3
    <2>2. CASE ~r.ok
      BY <2>2, <1>1, <1>2, <1>3
    <2> QED
      BY <2>1, <2>2
  <1> QED
    BY <1>3, <1>4 DEF PoolExec

-----------------------------------------------------------------------------
(* Where a session holds a connection *)

\* Between Acquire and Release the session holds a connection, outside of it
\* it holds none; in the message loop it holds one unless its first message
\* was one handleStartupMessage has no case for.
HoldingPcs == {"ping", "sendkey", "register", "relay", "await",
               "rollback", "discard", "release"}

PcInv ==
    \A s \in Sessions :
        /\ pc[s] \in HoldingPcs => held[s] # None
        /\ pc[s] \notin HoldingPcs \cup {"serve"} => held[s] = None
        /\ pc[s] = "acquire" => pool[s] # None
        /\ pc[s] \in {"getpool", "createpool"} => ask[s] # None
        /\ pc[s] = "register" => key[s] = held[s]

TypeInv == TypeOK /\ PcInv

\* The initial state is typed and nothing is held.
LEMMA TypeInit == Init => TypeInv
  BY PoolAssumption, ProxyAssumption
     DEF Init, PoolInit, TypeInv, TypeOK, PoolTypeOK, PcInv, PcValues, Soils, HoldingPcs

\* Every step of the server keeps the types, and a session's control state
\* agrees with what it holds.
LEMMA TypeStep == TypeInv /\ [Next]_vars => TypeInv'
  <1> SUFFICES ASSUME TypeInv, [Next]_vars PROVE TypeInv'
    OBVIOUS
  <1> USE PoolAssumption, ProxyAssumption
      DEF TypeInv, TypeOK, PoolTypeOK, PcInv, PcValues, HoldingPcs,
          Goto, Up, poolVars, sessVars, sharedVars
  <1>1. ASSUME NEW s \in Sessions, Accept(s) PROVE TypeInv'
    BY <1>1 DEF Accept
  <1>2. ASSUME NEW s \in Sessions, Launch(s) PROVE TypeInv'
    BY <1>2 DEF Launch
  <1>3. ASSUME NEW s \in Sessions, StartupMessage(s) PROVE TypeInv'
    BY <1>3 DEF StartupMessage, Asks
  <1>4. ASSUME NEW s \in Sessions, StartupFails(s) PROVE TypeInv'
    BY <1>4 DEF StartupFails, Cleanup
  <1>5. ASSUME NEW s \in Sessions, StartupUnhandled(s) PROVE TypeInv'
    BY <1>5 DEF StartupUnhandled
  <1>6. ASSUME NEW s \in Sessions, StartupCancel(s) PROVE TypeInv'
    BY <1>6 DEF StartupCancel
  <1>7. ASSUME NEW s \in Sessions, Lookup(s) PROVE TypeInv'
    BY <1>7 DEF Lookup, Cleanup
  <1>8. ASSUME NEW s \in Sessions, Forward(s) PROVE TypeInv'
    BY <1>8 DEF Forward, Cleanup
  <1>9. ASSUME NEW s \in Sessions, FindPool(s) PROVE TypeInv'
    BY <1>9 DEF FindPool, PoolKey
  <1>10. ASSUME NEW s \in Sessions, CreatePool(s) PROVE TypeInv'
    BY <1>10 DEF CreatePool, PoolKey
  <1>11. ASSUME NEW s \in Sessions, CreatePoolFails(s) PROVE TypeInv'
    BY <1>11 DEF CreatePoolFails, Cleanup
  <1>12. ASSUME NEW s \in Sessions, Acquire(s) PROVE TypeInv'
    BY <1>12 DEF Acquire, TakeIdle, OpenNew
  <1>13. ASSUME NEW s \in Sessions, AcquireFails(s) PROVE TypeInv'
    BY <1>13 DEF AcquireFails, Cleanup
  <1>14. ASSUME NEW s \in Sessions, Ping(s) PROVE TypeInv'
    <2>1. held[s] \in Backends /\ soil[held[s]] \in SUBSET Soils
      BY <1>14 DEF Ping, PoolExec
    <2>2. soil[held[s]] \in SUBSET Soils
      BY <2>1
    <2> QED
      BY <1>14, <2>1, <2>2, ExecStep DEF Ping
  <1>15. ASSUME NEW s \in Sessions, SendKey(s) PROVE TypeInv'
    BY <1>15 DEF SendKey, Cleanup
  <1>16. ASSUME NEW s \in Sessions, Register(s) PROVE TypeInv'
    BY <1>16 DEF Register
  <1>17. ASSUME NEW s \in Sessions, ClientLeaves(s) PROVE TypeInv'
    BY <1>17 DEF ClientLeaves, Cleanup
  <1>18. ASSUME NEW s \in Sessions, SendQuery(s) PROVE TypeInv'
    BY <1>18 DEF SendQuery
  <1>19. ASSUME NEW s \in Sessions, SendExtended(s) PROVE TypeInv'
    BY <1>19 DEF SendExtended
  <1>20. ASSUME NEW s \in Sessions, MessageWithoutBackend(s) PROVE TypeInv'
    BY <1>20 DEF MessageWithoutBackend
  <1>21. ASSUME NEW s \in Sessions, Respond(s) PROVE TypeInv'
    BY <1>21 DEF Respond, Soils
  <1>22. ASSUME NEW s \in Sessions, BackendLost(s) PROVE TypeInv'
    BY <1>22 DEF BackendLost
  <1>23. ASSUME NEW s \in Sessions, ClientLost(s) PROVE TypeInv'
    BY <1>23 DEF ClientLost, Soils
  <1>24. ASSUME NEW s \in Sessions, Rollback(s) PROVE TypeInv'
    <2>1. held[s] \in Backends /\ soil[held[s]] \in SUBSET Soils
      BY <1>24 DEF Rollback, PoolExec
    <2>2. soil[held[s]] \ {"tx"} \in SUBSET Soils
      BY <2>1
    <2> QED
      BY <1>24, <2>1, <2>2, ExecStep DEF Rollback
  <1>25. ASSUME NEW s \in Sessions, Discard(s) PROVE TypeInv'
    <2>1. held[s] \in Backends /\ soil[held[s]] \in SUBSET Soils
      BY <1>25 DEF Discard, PoolExec
    <2>2. {} \in SUBSET Soils
      BY <2>1
    <2> QED
      BY <1>25, <2>1, <2>2, ExecStep DEF Discard
  <1>26. ASSUME NEW s \in Sessions, Release(s) PROVE TypeInv'
    BY <1>26 DEF Release, ReleaseConn, CloseConn, ProcessEnds
  <1>27. ASSUME NEW s \in Sessions, Unregister(s) PROVE TypeInv'
    BY <1>27 DEF Unregister
  <1>28. CASE Shutdown
    BY <1>28 DEF Shutdown
  <1>29. CASE Exit
    BY <1>29 DEF Exit
  <1>30. ASSUME NEW c \in Sessions, NEW v \in Sessions, CancelInterrupts(c, v) PROVE TypeInv'
    BY <1>30 DEF CancelInterrupts, Running, OwnPcs, TxStatus
  <1>31. ASSUME NEW c \in Sessions, CancelMisses(c) PROVE TypeInv'
    BY <1>31 DEF CancelMisses
  <1>32. ASSUME NEW b \in Backends, PoolStep(b) PROVE TypeInv'
    BY <1>32 DEF PoolStep, ReapIdle, BackendDies, CloseConn, ProcessEnds
  <1>33. CASE UNCHANGED vars
    BY <1>33 DEF vars
  <1>34. ASSUME NEW s \in Sessions, SSLRequest(s) PROVE TypeInv'
    BY <1>34 DEF SSLRequest
  <1>35. ASSUME NEW s \in Sessions, Handshake(s) PROVE TypeInv'
    BY <1>35 DEF Handshake, Cleanup
  <1> QED
    BY <1>1, <1>2, <1>3, <1>4, <1>5, <1>6, <1>7, <1>8, <1>9, <1>10, <1>11, <1>12, <1>13, <1>14, <1>15, <1>16, <1>17, <1>18, <1>19, <1>20, <1>21, <1>22, <1>23, <1>24, <1>25, <1>26, <1>27, <1>28, <1>29, <1>30, <1>31, <1>32, <1>33, <1>34, <1>35 DEF Next, Handler, Client, Environment

\* The program's state always has the declared types, and where a session
\* stands tells what it holds.
THEOREM TypeCorrect == Spec => []TypeOK
  <1>1. Spec => []TypeInv
    BY TypeInit, TypeStep, PTL DEF Spec
  <1> QED
    BY <1>1, PTL DEF TypeInv

-----------------------------------------------------------------------------
(* Exclusive leases *)

Quiet == UNCHANGED <<bst, held>>

\* The only steps that touch leases: Acquire, Release, and the pool's own.
LEMMA LeaseFrame ==
    ASSUME TypeInv, [Next]_vars, ~Quiet
    PROVE  \/ \E s \in Sessions : Acquire(s) \/ Release(s)
           \/ \E b \in Backends : PoolStep(b)
  <1> USE DEF Quiet, poolVars
  <1>1. ASSUME NEW s \in Sessions, Handler(s) PROVE Acquire(s) \/ Release(s)
    BY <1>1 DEF Handler, Launch, Lookup, Forward, FindPool, CreatePool, CreatePoolFails,
                AcquireFails, Ping, SendKey, Register, BackendLost, Rollback, Discard,
                Unregister, PoolExec
  <1>2. ASSUME NEW s \in Sessions, Client(s) PROVE FALSE
    BY <1>2 DEF Client, Accept, StartupMessage, StartupFails, StartupUnhandled,
                SSLRequest, Handshake, StartupCancel, ClientLeaves, SendQuery, SendExtended,
                MessageWithoutBackend, ClientLost
  <1>3. ASSUME NEW s \in Sessions, Respond(s) PROVE FALSE
    BY <1>3 DEF Respond
  <1>4. ~Shutdown /\ ~Exit /\ vars' # vars
    BY DEF Shutdown, Exit, vars
  <1>5. ASSUME NEW c \in Sessions PROVE ~CancelMisses(c)
    BY DEF CancelMisses
  <1>6. ASSUME NEW c \in Sessions, NEW v \in Sessions PROVE ~CancelInterrupts(c, v)
    BY DEF CancelInterrupts
  <1> QED
    BY <1>1, <1>2, <1>3, <1>4, <1>5, <1>6 DEF Next, Environment

\* Leases and holders correspond one to one; a connection is given back
\* before its session unregisters and ends.
LeaseInv ==
    /\ \A b \in Backends : bst[b] = "leased" <=> \E s \in Sessions : held[s] = b
    /\ \A s, t \in Sessions : held[s] = held[t] /\ held[s] # None => s = t

\* Acquire and Release keep leases and holders in correspondence.
LEMMA LeaseStep == TypeInv /\ LeaseInv /\ [Next]_vars => LeaseInv'
  <1> SUFFICES ASSUME TypeInv, LeaseInv, [Next]_vars PROVE LeaseInv'
    OBVIOUS
  <1> USE PoolAssumption DEF TypeInv, TypeOK, PoolTypeOK, PcInv, HoldingPcs, LeaseInv
  <1>1. CASE Quiet
    BY <1>1 DEF Quiet
  <1>2. ASSUME NEW s \in Sessions, Acquire(s) PROVE LeaseInv'
    <2>1. PICK b \in Backends :
              /\ bst[b] # "leased"
              /\ bst' = [bst EXCEPT ![b] = "leased"]
              /\ held' = [held EXCEPT ![s] = b]
      BY <1>2 DEF Acquire, TakeIdle, OpenNew
    <2>2. held[s] = None
      BY <1>2 DEF Acquire, Goto
    <2>3. \A c \in Backends : (bst'[c] = "leased") <=> \E t \in Sessions : held'[t] = c
      BY <2>1, <2>2
    <2>4. \A t, u \in Sessions : held'[t] = held'[u] /\ held'[t] # None => t = u
      BY <2>1, <2>2
    <2> QED
      BY <2>3, <2>4
  <1>3. ASSUME NEW s \in Sessions, Release(s) PROVE LeaseInv'
    <2>1. /\ held[s] \in Backends
          /\ held' = [held EXCEPT ![s] = None]
          /\ \E mark \in {"idle", "closed"} : bst' = [bst EXCEPT ![held[s]] = mark]
      BY <1>3 DEF Release, ReleaseConn, CloseConn, Goto
    <2>2. \A c \in Backends : (bst'[c] = "leased") <=> \E t \in Sessions : held'[t] = c
      BY <2>1
    <2>3. \A t, u \in Sessions : held'[t] = held'[u] /\ held'[t] # None => t = u
      BY <2>1
    <2> QED
      BY <2>2, <2>3
  <1>4. ASSUME NEW b \in Backends, PoolStep(b) PROVE LeaseInv'
    BY <1>4 DEF PoolStep, ReapIdle, BackendDies, CloseConn
  <1> QED
    BY <1>1, <1>2, <1>3, <1>4, LeaseFrame

\* At any time a pool connection serves one session, which gives it back
\* before it ends (handleConnection, AcquireConnection).
THEOREM LeasesAreExclusive == Spec => []ExclusiveLease
  <1>1. Init => LeaseInv
    BY PoolAssumption DEF Init, PoolInit, LeaseInv
  <1>2. TypeInv /\ LeaseInv => ExclusiveLease
    BY PoolAssumption DEF TypeInv, PcInv, LeaseInv, ExclusiveLease, HoldingPcs
  <1> QED
    BY <1>1, <1>2, TypeInit, TypeStep, LeaseStep, PTL DEF Spec

-----------------------------------------------------------------------------
(* The cancel registry *)

\* Where a registered session may stand.
EntryPcs == {"serve", "relay", "await", "rollback", "discard", "release", "unregister"}

RegistryInv ==
    Up => \A b \in Backends : registry[b] # None =>
        LET s == registry[b] IN
        /\ key[s] = b
        /\ pc[s] \in EntryPcs
        /\ held[s] = b \/ pc[s] = "unregister"

\* Entries are written by registerConnection and disappear with the session.
LEMMA RegistryStep == TypeInv /\ RegistryInv /\ [Next]_vars => RegistryInv'
  <1> SUFFICES ASSUME TypeInv, RegistryInv, [Next]_vars, Up' PROVE RegistryInv'
    BY DEF RegistryInv
  <1> USE PoolAssumption, ProxyAssumption
      DEF TypeInv, TypeOK, PoolTypeOK, PcInv, HoldingPcs, RegistryInv, EntryPcs,
          Goto, Up, poolVars, sessVars, sharedVars
  <1>1. ASSUME NEW s \in Sessions, Accept(s) PROVE RegistryInv'
    BY <1>1 DEF Accept
  <1>2. ASSUME NEW s \in Sessions, Launch(s) PROVE RegistryInv'
    BY <1>2 DEF Launch
  <1>3. ASSUME NEW s \in Sessions, StartupMessage(s) PROVE RegistryInv'
    BY <1>3 DEF StartupMessage
  <1>4. ASSUME NEW s \in Sessions, StartupFails(s) PROVE RegistryInv'
    BY <1>4 DEF StartupFails, Cleanup
  <1>5. ASSUME NEW s \in Sessions, StartupUnhandled(s) PROVE RegistryInv'
    BY <1>5 DEF StartupUnhandled
  <1>6. ASSUME NEW s \in Sessions, StartupCancel(s) PROVE RegistryInv'
    BY <1>6 DEF StartupCancel
  <1>7. ASSUME NEW s \in Sessions, Lookup(s) PROVE RegistryInv'
    BY <1>7 DEF Lookup, Cleanup
  <1>8. ASSUME NEW s \in Sessions, Forward(s) PROVE RegistryInv'
    BY <1>8 DEF Forward, Cleanup
  <1>9. ASSUME NEW s \in Sessions, FindPool(s) PROVE RegistryInv'
    BY <1>9 DEF FindPool
  <1>10. ASSUME NEW s \in Sessions, CreatePool(s) PROVE RegistryInv'
    BY <1>10 DEF CreatePool
  <1>11. ASSUME NEW s \in Sessions, CreatePoolFails(s) PROVE RegistryInv'
    BY <1>11 DEF CreatePoolFails, Cleanup
  <1>12. ASSUME NEW s \in Sessions, Acquire(s) PROVE RegistryInv'
    BY <1>12 DEF Acquire, TakeIdle, OpenNew
  <1>13. ASSUME NEW s \in Sessions, AcquireFails(s) PROVE RegistryInv'
    BY <1>13 DEF AcquireFails, Cleanup
  <1>14. ASSUME NEW s \in Sessions, Ping(s) PROVE RegistryInv'
    BY <1>14 DEF Ping, PoolExec
  <1>15. ASSUME NEW s \in Sessions, SendKey(s) PROVE RegistryInv'
    BY <1>15 DEF SendKey, Cleanup
  <1>16. ASSUME NEW s \in Sessions, Register(s) PROVE RegistryInv'
    BY <1>16 DEF Register
  <1>17. ASSUME NEW s \in Sessions, ClientLeaves(s) PROVE RegistryInv'
    BY <1>17 DEF ClientLeaves, Cleanup
  <1>18. ASSUME NEW s \in Sessions, SendQuery(s) PROVE RegistryInv'
    BY <1>18 DEF SendQuery
  <1>19. ASSUME NEW s \in Sessions, SendExtended(s) PROVE RegistryInv'
    BY <1>19 DEF SendExtended
  <1>20. ASSUME NEW s \in Sessions, MessageWithoutBackend(s) PROVE RegistryInv'
    BY <1>20 DEF MessageWithoutBackend
  <1>21. ASSUME NEW s \in Sessions, Respond(s) PROVE RegistryInv'
    BY <1>21 DEF Respond
  <1>22. ASSUME NEW s \in Sessions, BackendLost(s) PROVE RegistryInv'
    BY <1>22 DEF BackendLost
  <1>23. ASSUME NEW s \in Sessions, ClientLost(s) PROVE RegistryInv'
    BY <1>23 DEF ClientLost
  <1>24. ASSUME NEW s \in Sessions, Rollback(s) PROVE RegistryInv'
    BY <1>24 DEF Rollback, PoolExec
  <1>25. ASSUME NEW s \in Sessions, Discard(s) PROVE RegistryInv'
    BY <1>25 DEF Discard, PoolExec
  <1>26. ASSUME NEW s \in Sessions, Release(s) PROVE RegistryInv'
    BY <1>26 DEF Release, ReleaseConn
  <1>27. ASSUME NEW s \in Sessions, Unregister(s) PROVE RegistryInv'
    BY <1>27 DEF Unregister
  <1>28. CASE Shutdown
    BY <1>28 DEF Shutdown
  <1>29. CASE Exit
    BY <1>29 DEF Exit
  <1>30. ASSUME NEW c \in Sessions, NEW v \in Sessions, CancelInterrupts(c, v)
         PROVE  RegistryInv'
    BY <1>30 DEF CancelInterrupts, Running, OwnPcs
  <1>31. ASSUME NEW c \in Sessions, CancelMisses(c) PROVE RegistryInv'
    BY <1>31 DEF CancelMisses
  <1>32. ASSUME NEW b \in Backends, PoolStep(b) PROVE RegistryInv'
    BY <1>32 DEF PoolStep, ReapIdle, BackendDies
  <1>33. CASE UNCHANGED vars
    BY <1>33 DEF vars
  <1>34. ASSUME NEW s \in Sessions, SSLRequest(s) PROVE RegistryInv'
    BY <1>34 DEF SSLRequest
  <1>35. ASSUME NEW s \in Sessions, Handshake(s) PROVE RegistryInv'
    BY <1>35 DEF Handshake, Cleanup
  <1> QED
    BY <1>1, <1>2, <1>3, <1>4, <1>5, <1>6, <1>7, <1>8, <1>9, <1>10, <1>11, <1>12, <1>13, <1>14, <1>15, <1>16, <1>17, <1>18, <1>19, <1>20, <1>21, <1>22, <1>23, <1>24, <1>25, <1>26, <1>27, <1>28, <1>29, <1>30, <1>31, <1>32, <1>33, <1>34, <1>35 DEF Next, Handler, Client, Environment

\* An entry never outlives its session, and it leads to the session's own
\* connection until the session is about to unregister (server.go:27-67).
THEOREM RegistryIsSound == Spec => []RegistrySound
  <1>1. Init => RegistryInv
    BY DEF Init, RegistryInv
  <1>2. RegistryInv => RegistrySound
    BY DEF RegistryInv, RegistrySound, EntryPcs
  <1> QED
    BY <1>1, <1>2, TypeInit, TypeStep, RegistryStep, PTL DEF Spec

-----------------------------------------------------------------------------
(* No transaction is handed over *)

\* A connection in step is idle, or about to be kept by Release, only when no
\* transaction is open in its backend.
ResetInv ==
    /\ NoTransactionHandover
    /\ \A s \in Sessions :
        pc[s] = "release" /\ held[s] \notin dead \cup skewed /\ seen[held[s]] = "I"
            => "tx" \notin soil[held[s]]

\* Release keeps a connection only after a reply that says it is idle.
LEMMA ResetStep == TypeInv /\ LeaseInv /\ ResetInv /\ [Next]_vars => ResetInv'
  <1> SUFFICES ASSUME TypeInv, LeaseInv, ResetInv, [Next]_vars PROVE ResetInv'
    OBVIOUS
  <1> USE PoolAssumption, ProxyAssumption
      DEF TypeInv, TypeOK, PoolTypeOK, PcInv, HoldingPcs, LeaseInv, ResetInv,
          NoTransactionHandover, Goto, Up, poolVars, sessVars, sharedVars
  <1>1. ASSUME NEW s \in Sessions, Accept(s) PROVE ResetInv'
    BY <1>1 DEF Accept
  <1>2. ASSUME NEW s \in Sessions, Launch(s) PROVE ResetInv'
    BY <1>2 DEF Launch
  <1>3. ASSUME NEW s \in Sessions, StartupMessage(s) PROVE ResetInv'
    BY <1>3 DEF StartupMessage
  <1>4. ASSUME NEW s \in Sessions, StartupFails(s) PROVE ResetInv'
    BY <1>4 DEF StartupFails, Cleanup
  <1>5. ASSUME NEW s \in Sessions, StartupUnhandled(s) PROVE ResetInv'
    BY <1>5 DEF StartupUnhandled
  <1>6. ASSUME NEW s \in Sessions, StartupCancel(s) PROVE ResetInv'
    BY <1>6 DEF StartupCancel
  <1>7. ASSUME NEW s \in Sessions, Lookup(s) PROVE ResetInv'
    BY <1>7 DEF Lookup, Cleanup
  <1>8. ASSUME NEW s \in Sessions, Forward(s) PROVE ResetInv'
    BY <1>8 DEF Forward, Cleanup
  <1>9. ASSUME NEW s \in Sessions, FindPool(s) PROVE ResetInv'
    BY <1>9 DEF FindPool
  <1>10. ASSUME NEW s \in Sessions, CreatePool(s) PROVE ResetInv'
    BY <1>10 DEF CreatePool
  <1>11. ASSUME NEW s \in Sessions, CreatePoolFails(s) PROVE ResetInv'
    BY <1>11 DEF CreatePoolFails, Cleanup
  <1>12. ASSUME NEW s \in Sessions, Acquire(s) PROVE ResetInv'
    BY <1>12 DEF Acquire, TakeIdle, OpenNew
  <1>13. ASSUME NEW s \in Sessions, AcquireFails(s) PROVE ResetInv'
    BY <1>13 DEF AcquireFails, Cleanup
  <1>14. ASSUME NEW s \in Sessions, Ping(s) PROVE ResetInv'
    <2>1. held[s] \in Backends /\ soil[held[s]] \in SUBSET Soils
      BY <1>14 DEF Ping, PoolExec
    <2>2. soil[held[s]] \in SUBSET Soils
      BY <2>1
    <2> QED
      BY <1>14, <2>1, <2>2, ExecStep DEF Ping, TxStatus
  <1>15. ASSUME NEW s \in Sessions, SendKey(s) PROVE ResetInv'
    BY <1>15 DEF SendKey, Cleanup
  <1>16. ASSUME NEW s \in Sessions, Register(s) PROVE ResetInv'
    BY <1>16 DEF Register
  <1>17. ASSUME NEW s \in Sessions, ClientLeaves(s) PROVE ResetInv'
    BY <1>17 DEF ClientLeaves, Cleanup
  <1>18. ASSUME NEW s \in Sessions, SendQuery(s) PROVE ResetInv'
    BY <1>18 DEF SendQuery
  <1>19. ASSUME NEW s \in Sessions, SendExtended(s) PROVE ResetInv'
    BY <1>19 DEF SendExtended
  <1>20. ASSUME NEW s \in Sessions, MessageWithoutBackend(s) PROVE ResetInv'
    BY <1>20 DEF MessageWithoutBackend
  <1>21. ASSUME NEW s \in Sessions, Respond(s) PROVE ResetInv'
    BY <1>21 DEF Respond
  <1>22. ASSUME NEW s \in Sessions, BackendLost(s) PROVE ResetInv'
    BY <1>22 DEF BackendLost
  <1>23. ASSUME NEW s \in Sessions, ClientLost(s) PROVE ResetInv'
    BY <1>23 DEF ClientLost
  <1>24. ASSUME NEW s \in Sessions, Rollback(s) PROVE ResetInv'
    <2>1. held[s] \in Backends /\ soil[held[s]] \in SUBSET Soils
      BY <1>24 DEF Rollback, PoolExec
    <2>2. soil[held[s]] \ {"tx"} \in SUBSET Soils
      BY <2>1
    <2> QED
      BY <1>24, <2>1, <2>2, ExecStep DEF Rollback, TxStatus
  <1>25. ASSUME NEW s \in Sessions, Discard(s) PROVE ResetInv'
    <2>1. held[s] \in Backends /\ soil[held[s]] \in SUBSET Soils
      BY <1>25 DEF Discard, PoolExec
    <2>2. {} \in SUBSET Soils
      BY <2>1
    <2> QED
      BY <1>25, <2>1, <2>2, ExecStep DEF Discard, TxStatus
  <1>26. ASSUME NEW s \in Sessions, Release(s) PROVE ResetInv'
    BY <1>26 DEF Release, ReleaseConn, CloseConn, ProcessEnds
  <1>27. ASSUME NEW s \in Sessions, Unregister(s) PROVE ResetInv'
    BY <1>27 DEF Unregister
  <1>28. CASE Shutdown
    BY <1>28 DEF Shutdown
  <1>29. CASE Exit
    BY <1>29 DEF Exit
  <1>30. ASSUME NEW c \in Sessions, NEW v \in Sessions, CancelInterrupts(c, v)
         PROVE  ResetInv'
    BY <1>30 DEF CancelInterrupts, Running, OwnPcs, TxStatus
  <1>31. ASSUME NEW c \in Sessions, CancelMisses(c) PROVE ResetInv'
    BY <1>31 DEF CancelMisses
  <1>32. ASSUME NEW b \in Backends, PoolStep(b) PROVE ResetInv'
    BY <1>32 DEF PoolStep, ReapIdle, BackendDies, CloseConn, ProcessEnds
  <1>33. CASE UNCHANGED vars
    BY <1>33 DEF vars
  <1>34. ASSUME NEW s \in Sessions, SSLRequest(s) PROVE ResetInv'
    BY <1>34 DEF SSLRequest
  <1>35. ASSUME NEW s \in Sessions, Handshake(s) PROVE ResetInv'
    BY <1>35 DEF Handshake, Cleanup
  <1> QED
    BY <1>1, <1>2, <1>3, <1>4, <1>5, <1>6, <1>7, <1>8, <1>9, <1>10, <1>11, <1>12, <1>13, <1>14, <1>15, <1>16, <1>17, <1>18, <1>19, <1>20, <1>21, <1>22, <1>23, <1>24, <1>25, <1>26, <1>27, <1>28, <1>29, <1>30, <1>31, <1>32, <1>33, <1>34, <1>35 DEF Next, Handler, Client, Environment

\* The reset leaves no open transaction in a connection the pool may hand to
\* the next client, cancelled or not (connection.go:123-135).
THEOREM NoTransactionIsHandedOver == Spec => []NoTransactionHandover
  <1>1. Init => ResetInv
    BY DEF Init, PoolInit, ResetInv, NoTransactionHandover
  <1>2. Init => LeaseInv
    BY PoolAssumption DEF Init, PoolInit, LeaseInv
  <1>3. ResetInv => NoTransactionHandover
    BY DEF ResetInv
  <1> QED
    BY <1>1, <1>2, <1>3, TypeInit, TypeStep, LeaseStep, ResetStep, PTL DEF Spec

-----------------------------------------------------------------------------
(* Connections stay in their pool *)

\* Before its StartupMessage a session is nobody's pool and owns nothing.
EarlyPcs == {"none", "spawned", "startup", "handshake"}

\* Pool p belongs to the user and database of a.
PoolOf(p, a) == p \in Sessions /\ ask[p] = a /\ pc[p] \notin EarlyPcs

\* Backend b was started by the pool of a.
BackendOf(b, a) == bst[b] # "unborn" /\ PoolOf(bpool[b], a)

AffinityInv ==
    /\ \A a \in Asks : poolManager[a] # None => PoolOf(poolManager[a], a)
    /\ \A s \in Sessions :
        /\ pool[s] # None => PoolOf(pool[s], ask[s]) /\ pc[s] \notin EarlyPcs
        /\ held[s] # None => BackendOf(held[s], ask[s]) /\ pc[s] \notin EarlyPcs
        /\ key[s] \in Backends => BackendOf(key[s], ask[s]) /\ pc[s] \notin EarlyPcs
        /\ pc[s] \in {"register", "serve", "relay", "await"} => key[s] # Temp
        /\ pc[s] \in EarlyPcs => key[s] = None
    /\ \A b \in Backends :
        bst[b] # "unborn" => bpool[b] \in Sessions /\ pc[bpool[b]] \notin EarlyPcs
    /\ \A c \in Sessions :
        c \in packets \/ pc[c] \in {"lookup", "forward"}
            => target[c] \in Sessions /\ key[target[c]] \in Backends

\* Every step keeps sessions, pools and backends together.
LEMMA AffinityStep == TypeInv /\ AffinityInv /\ [Next]_vars => AffinityInv'
  <1> SUFFICES ASSUME TypeInv, AffinityInv, [Next]_vars PROVE AffinityInv'
    OBVIOUS
  <1> USE PoolAssumption, ProxyAssumption
      DEF TypeInv, TypeOK, PoolTypeOK, PcInv, HoldingPcs, AffinityInv, EarlyPcs, PoolOf,
          BackendOf, Goto, Up, poolVars, sessVars, sharedVars
  <1>1. ASSUME NEW s \in Sessions, Accept(s) PROVE AffinityInv'
    BY <1>1 DEF Accept
  <1>2. ASSUME NEW s \in Sessions, Launch(s) PROVE AffinityInv'
    BY <1>2 DEF Launch
  <1>3. ASSUME NEW s \in Sessions, StartupMessage(s) PROVE AffinityInv'
    BY <1>3 DEF StartupMessage
  <1>4. ASSUME NEW s \in Sessions, StartupFails(s) PROVE AffinityInv'
    BY <1>4 DEF StartupFails, Cleanup
  <1>5. ASSUME NEW s \in Sessions, StartupUnhandled(s) PROVE AffinityInv'
    BY <1>5 DEF StartupUnhandled
  <1>6. ASSUME NEW s \in Sessions, StartupCancel(s) PROVE AffinityInv'
    BY <1>6 DEF StartupCancel
  <1>7. ASSUME NEW s \in Sessions, Lookup(s) PROVE AffinityInv'
    BY <1>7 DEF Lookup, Cleanup
  <1>8. ASSUME NEW s \in Sessions, Forward(s) PROVE AffinityInv'
    BY <1>8 DEF Forward, Cleanup
  <1>9. ASSUME NEW s \in Sessions, FindPool(s) PROVE AffinityInv'
    BY <1>9 DEF FindPool, PoolKey
  <1>10. ASSUME NEW s \in Sessions, CreatePool(s) PROVE AffinityInv'
    BY <1>10 DEF CreatePool, PoolKey
  <1>11. ASSUME NEW s \in Sessions, CreatePoolFails(s) PROVE AffinityInv'
    BY <1>11 DEF CreatePoolFails, Cleanup
  <1>12. ASSUME NEW s \in Sessions, Acquire(s) PROVE AffinityInv'
    BY <1>12 DEF Acquire, TakeIdle, OpenNew
  <1>13. ASSUME NEW s \in Sessions, AcquireFails(s) PROVE AffinityInv'
    BY <1>13 DEF AcquireFails, Cleanup
  <1>14. ASSUME NEW s \in Sessions, Ping(s) PROVE AffinityInv'
    BY <1>14 DEF Ping, PoolExec
  <1>15. ASSUME NEW s \in Sessions, SendKey(s) PROVE AffinityInv'
    BY <1>15 DEF SendKey, Cleanup
  <1>16. ASSUME NEW s \in Sessions, Register(s) PROVE AffinityInv'
    BY <1>16 DEF Register
  <1>17. ASSUME NEW s \in Sessions, ClientLeaves(s) PROVE AffinityInv'
    BY <1>17 DEF ClientLeaves, Cleanup
  <1>18. ASSUME NEW s \in Sessions, SendQuery(s) PROVE AffinityInv'
    BY <1>18 DEF SendQuery
  <1>19. ASSUME NEW s \in Sessions, SendExtended(s) PROVE AffinityInv'
    BY <1>19 DEF SendExtended
  <1>20. ASSUME NEW s \in Sessions, MessageWithoutBackend(s) PROVE AffinityInv'
    BY <1>20 DEF MessageWithoutBackend
  <1>21. ASSUME NEW s \in Sessions, Respond(s) PROVE AffinityInv'
    BY <1>21 DEF Respond
  <1>22. ASSUME NEW s \in Sessions, BackendLost(s) PROVE AffinityInv'
    BY <1>22 DEF BackendLost
  <1>23. ASSUME NEW s \in Sessions, ClientLost(s) PROVE AffinityInv'
    BY <1>23 DEF ClientLost
  <1>24. ASSUME NEW s \in Sessions, Rollback(s) PROVE AffinityInv'
    BY <1>24 DEF Rollback, PoolExec
  <1>25. ASSUME NEW s \in Sessions, Discard(s) PROVE AffinityInv'
    BY <1>25 DEF Discard, PoolExec
  <1>26. ASSUME NEW s \in Sessions, Release(s) PROVE AffinityInv'
    BY <1>26 DEF Release, ReleaseConn, CloseConn
  <1>27. ASSUME NEW s \in Sessions, Unregister(s) PROVE AffinityInv'
    BY <1>27 DEF Unregister
  <1>28. CASE Shutdown
    BY <1>28 DEF Shutdown
  <1>29. CASE Exit
    BY <1>29 DEF Exit
  <1>30. ASSUME NEW c \in Sessions, NEW v \in Sessions, CancelInterrupts(c, v)
         PROVE  AffinityInv'
    BY <1>30 DEF CancelInterrupts, Running, OwnPcs
  <1>31. ASSUME NEW c \in Sessions, CancelMisses(c) PROVE AffinityInv'
    BY <1>31 DEF CancelMisses
  <1>32. ASSUME NEW b \in Backends, PoolStep(b) PROVE AffinityInv'
    BY <1>32 DEF PoolStep, ReapIdle, BackendDies, CloseConn
  <1>33. CASE UNCHANGED vars
    BY <1>33 DEF vars
  <1>34. ASSUME NEW s \in Sessions, SSLRequest(s) PROVE AffinityInv'
    BY <1>34 DEF SSLRequest
  <1>35. ASSUME NEW s \in Sessions, Handshake(s) PROVE AffinityInv'
    BY <1>35 DEF Handshake, Cleanup
  <1> QED
    BY <1>1, <1>2, <1>3, <1>4, <1>5, <1>6, <1>7, <1>8, <1>9, <1>10, <1>11, <1>12, <1>13, <1>14, <1>15, <1>16, <1>17, <1>18, <1>19, <1>20, <1>21, <1>22, <1>23, <1>24, <1>25, <1>26, <1>27, <1>28, <1>29, <1>30, <1>31, <1>32, <1>33, <1>34, <1>35 DEF Next, Handler, Client, Environment

\* A cancel request, however late, can only meet a client of the same user
\* and database as the client that sent it (server.go:47-67).
THEOREM CancelStaysInPool == Spec => []LateCancelStaysInPool
  <1>1. Init => AffinityInv
    BY PoolAssumption, ProxyAssumption DEF Init, PoolInit, AffinityInv
  <1>2. TypeInv /\ AffinityInv => LateCancelStaysInPool
    BY PoolAssumption DEF AffinityInv, LateCancelStaysInPool, PoolOf, BackendOf
  <1> QED
    BY <1>1, <1>2, TypeInit, TypeStep, AffinityStep, PTL DEF Spec

=============================================================================
