---------------------------- MODULE LeaseProofs ----------------------------
(***************************************************************************)
(* Machine-checked proofs that no pool outgrows its limit and that Proxy   *)
(* implements Lease, for any sets of sessions, backends, users and         *)
(* databases and any pool limit.                                           *)
(***************************************************************************)
EXTENDS ProxyProofs, FiniteSetTheorems

-----------------------------------------------------------------------------
(* Which steps matter *)

Unmoved == UNCHANGED <<bst, bpool, held, ask, pool, poolManager>>

\* Few steps of the server touch requests, pools or connections.
LEMMA PoolFrame ==
    ASSUME [Next]_vars, ~Unmoved
    PROVE  \/ \E s \in Sessions : \/ StartupMessage(s) \/ FindPool(s) \/ CreatePool(s)
                                  \/ Acquire(s) \/ Release(s)
           \/ \E b \in Backends : PoolStep(b)
  <1> USE DEF Unmoved, poolVars, sessVars, sharedVars
  <1>1. ASSUME NEW s \in Sessions, Handler(s)
        PROVE  FindPool(s) \/ CreatePool(s) \/ Acquire(s) \/ Release(s)
    BY <1>1 DEF Handler, Launch, Lookup, Forward, CreatePoolFails, AcquireFails, Ping,
                SendKey, Register, BackendLost, Rollback, Discard, Unregister, PoolExec
  <1>2. ASSUME NEW s \in Sessions, Client(s) PROVE StartupMessage(s)
    BY <1>2 DEF Client, Accept, StartupFails, StartupUnhandled, SSLRequest, Handshake,
                StartupCancel, ClientLeaves, SendQuery, SendExtended,
                MessageWithoutBackend, ClientLost
  <1>3. ASSUME NEW s \in Sessions PROVE ~Respond(s)
    BY DEF Respond
  <1>4. ~Shutdown /\ ~Exit /\ vars' # vars
    BY DEF Shutdown, Exit, vars
  <1>5. ASSUME NEW c \in Sessions PROVE ~CancelMisses(c)
    BY DEF CancelMisses
  <1>6. ASSUME NEW c \in Sessions, NEW v \in Sessions PROVE ~CancelInterrupts(c, v)
    BY DEF CancelInterrupts
  <1> QED
    BY <1>1, <1>2, <1>3, <1>4, <1>5, <1>6 DEF Next, Environment

\* A session past its StartupMessage never comes back before it.
LEMMA NeverEarlyAgain ==
    ASSUME TypeInv, [Next]_vars, NEW s \in Sessions, pc[s] \notin EarlyPcs
    PROVE  pc'[s] \notin EarlyPcs
  <1> USE DEF TypeInv, TypeOK, Goto, EarlyPcs, sessVars
  <1>1. ASSUME NEW t \in Sessions, Handler(t) PROVE pc'[s] \notin EarlyPcs
    <2>1. ASSUME NEW x, NEW after, NEW next, PoolExec(t, x, after, next),
                 next \notin EarlyPcs
          PROVE  pc'[s] \notin EarlyPcs
      BY <2>1 DEF PoolExec
    <2>2. CASE Ping(t) \/ Rollback(t) \/ Discard(t)
      BY <2>1, <2>2 DEF Ping, Rollback, Discard
    <2>3. CASE ~(Ping(t) \/ Rollback(t) \/ Discard(t))
      BY <1>1, <2>3 DEF Handler, Launch, Lookup, Forward, FindPool, CreatePool,
                CreatePoolFails, Acquire, AcquireFails, SendKey, Register, BackendLost,
                Release, Unregister, Cleanup
    <2> QED
      BY <2>2, <2>3
  <1>2. ASSUME NEW t \in Sessions, Client(t) PROVE pc'[s] \notin EarlyPcs
    BY <1>2 DEF Client, Accept, StartupMessage, StartupFails, StartupUnhandled,
                SSLRequest, Handshake, StartupCancel, ClientLeaves, SendQuery, SendExtended,
                MessageWithoutBackend, ClientLost, Cleanup
  <1>3. ASSUME NEW t \in Sessions, Respond(t) PROVE pc'[s] \notin EarlyPcs
    BY <1>3 DEF Respond
  <1>4. CASE Environment
    BY <1>4 DEF Environment, PoolStep, CancelMisses, CancelInterrupts
  <1>5. CASE Shutdown \/ Exit \/ UNCHANGED vars
    BY <1>5 DEF Shutdown, Exit, vars
  <1> QED
    BY <1>1, <1>2, <1>3, <1>4, <1>5 DEF Next

-----------------------------------------------------------------------------
(* One pool for each user and database *)

\* The pool a session uses, and the pool of every connection, is the one the
\* manager has for its user and database.
ManagerInv ==
    /\ \A s \in Sessions :
        /\ pool[s] # None => ask[s] \in Asks /\ pool[s] = poolManager[ask[s]]
        /\ pc[s] \in EarlyPcs => ask[s] = None
    /\ \A b \in Backends : bst[b] # "unborn" =>
        /\ ask[bpool[b]] \in Asks
        /\ bpool[b] = poolManager[ask[bpool[b]]]

Manager == TypeInv /\ LeaseInv /\ AffinityInv /\ ManagerInv

\* The manager creates no second pool for a key, however the first clients
\* race (manager.go:44-49).
LEMMA ManagerStep == Manager /\ [Next]_vars => ManagerInv'
  <1> SUFFICES ASSUME Manager, [Next]_vars PROVE ManagerInv'
    OBVIOUS
  <1>1. \A s \in Sessions : pc'[s] \in EarlyPcs => pc[s] \in EarlyPcs
    BY NeverEarlyAgain DEF Manager
  <1> USE PoolAssumption, ProxyAssumption
      DEF Manager, TypeInv, TypeOK, PoolTypeOK, PcInv, ManagerInv, AffinityInv, Goto,
          poolVars, sessVars, sharedVars
  <1>2. CASE Unmoved
    BY <1>1, <1>2 DEF Unmoved
  <1>3. ASSUME NEW s \in Sessions, StartupMessage(s) PROVE ManagerInv'
    BY <1>1, <1>3 DEF StartupMessage, EarlyPcs, PoolOf
  <1>4. ASSUME NEW s \in Sessions, FindPool(s) PROVE ManagerInv'
    BY <1>1, <1>4 DEF FindPool, PoolKey
  <1>5. ASSUME NEW s \in Sessions, CreatePool(s) PROVE ManagerInv'
    BY <1>1, <1>5 DEF CreatePool, PoolKey
  <1>6. ASSUME NEW s \in Sessions, Acquire(s) PROVE ManagerInv'
    BY <1>1, <1>6 DEF Acquire, TakeIdle, OpenNew, PoolOf
  <1>7. ASSUME NEW s \in Sessions, Release(s) PROVE ManagerInv'
    BY <1>1, <1>7 DEF Release, ReleaseConn, CloseConn, HoldingPcs, LeaseInv
  <1>8. ASSUME NEW b \in Backends, PoolStep(b) PROVE ManagerInv'
    BY <1>1, <1>8 DEF PoolStep, ReapIdle, BackendDies, CloseConn, Live
  <1> QED
    BY <1>2, <1>3, <1>4, <1>5, <1>6, <1>7, <1>8, PoolFrame

\* Nothing is pooled initially.
LEMMA ManagerInit == Init => Manager
  <1> SUFFICES ASSUME Init PROVE Manager
    OBVIOUS
  <1>1. TypeInv
    BY TypeInit
  <1> QED
    BY <1>1, PoolAssumption, ProxyAssumption
       DEF Init, PoolInit, Manager, LeaseInv, AffinityInv, ManagerInv, EarlyPcs

-----------------------------------------------------------------------------
(* The limit *)

CardInv == \A p \in Sessions : Cardinality(Resources(p)) <= MaxConns

\* The connections of a pool are finitely many.
LEMMA ResourcesFinite ==
    ASSUME NEW p PROVE IsFiniteSet(Resources(p)) /\ Cardinality(Resources(p)) \in Nat
  BY FS_Subset, FS_CardinalityType, PoolAssumption DEF Resources

\* A pool grows by one connection at a time, below its limit only.
LEMMA CardStep == Manager /\ CardInv /\ [Next]_vars => CardInv'
  <1> SUFFICES ASSUME Manager, CardInv, [Next]_vars, NEW p \in Sessions
               PROVE  Cardinality(Resources(p)') <= MaxConns
    BY DEF CardInv
  <1> USE PoolAssumption
      DEF Manager, TypeInv, TypeOK, PoolTypeOK, PcInv, CardInv, Goto, poolVars, Live
  <1>0. IsFiniteSet(Resources(p)) /\ Cardinality(Resources(p)) \in Nat
    BY ResourcesFinite
  <1>1. ASSUME Resources(p)' \subseteq Resources(p)
        PROVE  Cardinality(Resources(p)') <= MaxConns
    <2>1. /\ Cardinality(Resources(p)') <= Cardinality(Resources(p))
          /\ Cardinality(Resources(p)') \in Nat
      BY <1>0, <1>1, FS_Subset, FS_CardinalityType
    <2> QED
      BY <1>0, <2>1
  <1>2. CASE Unmoved
    BY <1>1, <1>2 DEF Unmoved, Resources
  <1>3. ASSUME NEW s \in Sessions, StartupMessage(s) \/ FindPool(s) \/ CreatePool(s)
        PROVE  Cardinality(Resources(p)') <= MaxConns
    BY <1>1, <1>3 DEF StartupMessage, FindPool, CreatePool, Resources
  <1>4. ASSUME NEW s \in Sessions, Acquire(s)
        PROVE  Cardinality(Resources(p)') <= MaxConns
    <2>1. CASE TakeIdle(s, pool[s])
      BY <1>1, <2>1 DEF TakeIdle, Resources
    <2>2. CASE OpenNew(s, pool[s])
      <3>1. PICK b \in Backends :
                /\ bst[b] = "unborn"
                /\ bst' = [bst EXCEPT ![b] = "leased"]
                /\ bpool' = [bpool EXCEPT ![b] = pool[s]]
        BY <2>2 DEF OpenNew
      <3>2. CASE p = pool[s]
        <4>1. Resources(p)' = Resources(p) \cup {b} /\ b \notin Resources(p)
          BY <3>1, <3>2 DEF Resources
        <4>2. Cardinality(Resources(p) \cup {b}) = Cardinality(Resources(p)) + 1
          BY ONLY <1>0, <4>1, FS_AddElement
        <4>3. Cardinality(Resources(p)) < MaxConns
          BY <2>2, <3>2 DEF OpenNew, MayOpen
        <4> QED
          BY <1>0, <4>1, <4>2, <4>3
      <3>3. CASE p # pool[s]
        BY <1>1, <3>1, <3>3 DEF Resources
      <3> QED
        BY <3>2, <3>3
    <2> QED
      BY <1>4, <2>1, <2>2 DEF Acquire
  <1>5. ASSUME NEW s \in Sessions, Release(s)
        PROVE  Cardinality(Resources(p)') <= MaxConns
    <2>1. /\ held[s] \in Backends /\ bst[held[s]] = "leased" /\ bpool' = bpool
          /\ \E mark \in {"idle", "closed"} : bst' = [bst EXCEPT ![held[s]] = mark]
      BY <1>5 DEF Release, ReleaseConn, CloseConn, HoldingPcs, LeaseInv
    <2> QED
      BY <1>1, <2>1 DEF Resources
  <1>6. ASSUME NEW b \in Backends, PoolStep(b)
        PROVE  Cardinality(Resources(p)') <= MaxConns
    BY <1>1, <1>6 DEF PoolStep, ReapIdle, BackendDies, CloseConn, Resources
  <1> QED
    BY <1>2, <1>3, <1>4, <1>5, <1>6, PoolFrame

\* All connections opened for a user and a database are of one pool.
LEMMA OnePool ==
    ASSUME Manager, NEW s \in Sessions, pool[s] # None
    PROVE  {b \in Backends : Live(b) /\ ask[bpool[b]] = ask[s]} = Resources(pool[s])
  BY PoolAssumption, ProxyAssumption
     DEF Manager, TypeInv, TypeOK, PoolTypeOK, ManagerInv, AffinityInv, PoolOf, Live,
         Resources

LimitInv == Manager /\ CardInv

\* The invariant of the pool manager.
LEMMA LimitInvariant == Spec => []LimitInv
  <1>1. Init => CardInv
    <2> SUFFICES ASSUME Init, NEW p \in Sessions PROVE Cardinality(Resources(p)) <= MaxConns
      BY DEF CardInv
    <2>1. Resources(p) = {}
      BY DEF Init, PoolInit, Resources, Live
    <2> QED
      BY <2>1, FS_EmptySet, PoolAssumption
  <1>2. Manager /\ [Next]_vars => Manager'
    BY TypeStep, LeaseStep, AffinityStep, ManagerStep DEF Manager
  <1> QED
    BY <1>1, <1>2, ManagerInit, CardStep, PTL DEF Spec, LimitInv

\* No user and database ever has more than MaxConns open connections, also
\* when several first clients race to create its pool (manager.go:44-49).
THEOREM PoolsAreBounded == Spec => []PoolBound
  <1>1. LimitInv => PoolBound
    <2> SUFFICES ASSUME LimitInv, NEW a \in Asks
                 PROVE  Cardinality({b \in Backends : Live(b) /\ ask[bpool[b]] = a})
                            <= MaxConns
      BY DEF PoolBound
    <2> DEFINE Of == {b \in Backends : Live(b) /\ ask[bpool[b]] = a}
    <2>1. CASE Of = {}
      BY <2>1, FS_EmptySet, PoolAssumption
    <2>2. CASE Of # {}
      <3>1. PICK b \in Backends : Live(b) /\ ask[bpool[b]] = a
        BY <2>2
      <3>2. bpool[b] \in Sessions /\ bpool[b] = poolManager[a]
        BY <3>1 DEF LimitInv, Manager, ManagerInv, AffinityInv, Live
      <3>3. ask[poolManager[a]] = a
        BY <3>2, PoolAssumption DEF LimitInv, Manager, AffinityInv, PoolOf
      <3>4. ASSUME NEW c \in Backends, Live(c)
            PROVE  ask[bpool[c]] = a <=> bpool[c] = poolManager[a]
        BY <3>3, <3>4 DEF LimitInv, Manager, ManagerInv, Live
      <3>5. Of = Resources(poolManager[a])
        BY <3>4 DEF Resources
      <3> QED
        BY <3>2, <3>5 DEF LimitInv, CardInv
    <2> QED
      BY <2>1, <2>2
  <1> QED
    BY <1>1, LimitInvariant, PTL

-----------------------------------------------------------------------------
(* Refinement *)

\* The refinement mapping, one backend at a time.
LEMMA PlaceOf ==
    ASSUME Manager, NEW b \in Backends
    PROVE  /\ bst[b] = "unborn" => Place(b) = None
           /\ bst[b] = "closed" => Place(b) = Temp
           /\ Live(b) => Place(b) = ask[bpool[b]] /\ Place(b) \in Asks
           /\ Place(b) = None => bst[b] = "unborn"
           /\ Place(b) \in Asks => Live(b)
  BY ProxyAssumption
     DEF Place, Live, Manager, TypeInv, TypeOK, PoolTypeOK, ManagerInv, Asks

\* A connection is free in Lease when no session of Proxy holds it.
LEMMA FreeUnlessLeased ==
    ASSUME Manager, NEW b \in Backends, bst[b] # "leased"
    PROVE  Pool!Free(b)
  BY DEF Manager, LeaseInv, Pool!Free

\* Steps of Proxy are steps of Lease, or steps that Lease does not see.
LEMMA LeaseStepSimulated ==
    ASSUME LimitInv, LimitInv', [Next]_vars
    PROVE  [Pool!LeaseNext]_<<ask, held, Places>>
  <1> USE PoolAssumption, ProxyAssumption
  <1>0. Manager /\ Manager' /\ TypeInv /\ TypeOK /\ PoolTypeOK /\ ManagerInv /\ AffinityInv
    BY DEF LimitInv, Manager, TypeInv, TypeOK
  <1>1. CASE Unmoved
    BY <1>1 DEF Unmoved, Places, Place
  <1>2. ASSUME NEW s \in Sessions, StartupMessage(s)
        PROVE  [Pool!LeaseNext]_<<ask, held, Places>>
    <2>1. ask[s] = None
      BY <1>0, <1>2 DEF StartupMessage, Goto, ManagerInv, EarlyPcs
    <2>2. /\ \E a \in Asks : ask' = [ask EXCEPT ![s] = a]
          /\ UNCHANGED <<bst, bpool, held>>
      BY <1>2 DEF StartupMessage, poolVars
    <2>3. \A b \in Backends : bst[b] # "unborn" => bpool[b] \in Sessions /\ bpool[b] # s
      BY <1>0, <1>2 DEF StartupMessage, Goto, AffinityInv, EarlyPcs
    <2>4. \A b \in Backends : Place(b)' = Place(b)
      BY <1>0, <2>2, <2>3 DEF Place, TypeOK
    <2>5. UNCHANGED <<held, Places>>
      BY <2>2, <2>4 DEF Places
    <2> QED
      BY <2>1, <2>2, <2>5 DEF Pool!LeaseNext, Pool!AskFor
  <1>3. ASSUME NEW s \in Sessions, FindPool(s) \/ CreatePool(s)
        PROVE  [Pool!LeaseNext]_<<ask, held, Places>>
    BY <1>3 DEF FindPool, CreatePool, Places, Place, poolVars
  <1>4. ASSUME NEW s \in Sessions, Acquire(s)
        PROVE  [Pool!LeaseNext]_<<ask, held, Places>>
    <2>1. /\ pool[s] # None /\ held[s] = None /\ ask[s] # None
          /\ pool[s] \in Sessions /\ ask[pool[s]] = ask[s] /\ ask[s] \in Asks
          /\ ask' = ask
      BY <1>0, <1>4 DEF Acquire, Goto, TypeInv, PcInv, HoldingPcs, AffinityInv, PoolOf,
                        ManagerInv, TypeOK, PoolTypeOK, Asks
    <2>2. CASE TakeIdle(s, pool[s])
      <3>1. PICK b \in Backends :
                /\ bst[b] = "idle" /\ bpool[b] = pool[s]
                /\ bst' = [bst EXCEPT ![b] = "leased"]
                /\ held' = [held EXCEPT ![s] = b]
                /\ bpool' = bpool
        BY <2>2 DEF TakeIdle
      <3>2. Places' = Places
        <4>1. \A c \in Backends : Place(c)' = Place(c)
          BY <1>0, <2>1, <3>1 DEF Place, PoolTypeOK
        <4> QED
          BY <4>1 DEF Places
      <3>3. Pool!Free(b) /\ Place(b) = ask[s]
        BY <1>0, <2>1, <3>1, FreeUnlessLeased, PlaceOf DEF Live
      <3>4. Pool!Take(s)
        BY <2>1, <3>1, <3>2, <3>3 DEF Pool!Take, Places
      <3> QED
        BY <3>4 DEF Pool!LeaseNext
    <2>3. CASE OpenNew(s, pool[s])
      <3>1. PICK b \in Backends :
                /\ bst[b] = "unborn"
                /\ bst' = [bst EXCEPT ![b] = "leased"]
                /\ bpool' = [bpool EXCEPT ![b] = pool[s]]
                /\ held' = [held EXCEPT ![s] = b]
        BY <2>3 DEF OpenNew
      <3>2. Place(b)' = ask[s] /\ \A c \in Backends \ {b} : Place(c)' = Place(c)
        BY <1>0, <2>1, <3>1 DEF Place, PoolTypeOK
      <3>3. Places' = [Places EXCEPT ![b] = ask[s]]
        BY <3>2 DEF Places
      <3>4. Pool!Free(b) /\ Place(b) = None
        BY <1>0, <3>1, FreeUnlessLeased, PlaceOf
      <3>5. {c \in Backends : Place(c) = ask[s]} = Resources(pool[s])
        <4>1. \A c \in Backends : Place(c) = ask[s] <=> Live(c) /\ ask[bpool[c]] = ask[s]
          BY <1>0, <2>1, PlaceOf
        <4> QED
          BY <1>0, <2>1, <4>1, OnePool
      <3>6. Cardinality(Pool!Open(ask[s])) < MaxConns
        <4>1. Pool!Open(ask[s]) = {c \in Backends : Place(c) = ask[s]}
          BY DEF Pool!Open, Places
        <4> QED
          BY <2>3, <3>5, <4>1 DEF OpenNew, MayOpen
      <3>7. /\ Places[b] = None
            /\ held' = [held EXCEPT ![s] = b]
            /\ Places' = [Places EXCEPT ![b] = ask[s]]
        BY <3>1, <3>3, <3>4 DEF Places
      <3>8. Pool!Cardinality(Pool!Open(ask[s])) < MaxConns
        BY ONLY <3>6 DEF Cardinality, Pool!Cardinality
      <3>9. Pool!Take(s)
        BY ONLY <2>1, <3>4, <3>7, <3>8, b \in Backends DEF Pool!Take
      <3> QED
        BY <3>9 DEF Pool!LeaseNext
    <2> QED
      BY <1>4, <2>2, <2>3 DEF Acquire
  <1>5. ASSUME NEW s \in Sessions, Release(s)
        PROVE  [Pool!LeaseNext]_<<ask, held, Places>>
    <2>1. PICK b \in Backends :
              /\ b = held[s] /\ bst[b] = "leased"
              /\ bpool' = bpool /\ ask' = ask
              /\ held' = [held EXCEPT ![s] = None]
      BY <1>0, <1>5 DEF Release, ReleaseConn, Goto, LeaseInv, TypeInv, PcInv, HoldingPcs,
                        PoolTypeOK, Manager
    <2>2. \/ bst' = [bst EXCEPT ![b] = "idle"]
          \/ bst' = [bst EXCEPT ![b] = "closed"]
      BY <1>5, <2>1 DEF Release, ReleaseConn, CloseConn
    <2>3. Places' \in {Places, [Places EXCEPT ![b] = Temp]}
      <3>1. CASE bst' = [bst EXCEPT ![b] = "idle"]
        <4>1. \A c \in Backends : Place(c)' = Place(c)
          BY <1>0, <2>1, <3>1 DEF Place, PoolTypeOK
        <4> QED
          BY <4>1 DEF Places
      <3>2. CASE bst' = [bst EXCEPT ![b] = "closed"]
        <4>1. /\ Place(b)' = Temp
              /\ \A c \in Backends \ {b} : Place(c)' = Place(c)
          BY <1>0, <2>1, <3>2 DEF Place, PoolTypeOK
        <4> QED
          BY <4>1 DEF Places
      <3> QED
        BY <2>2, <3>1, <3>2
    <2>4. Pool!GiveBack(s)
      BY <2>1, <2>3 DEF Pool!GiveBack, Places
    <2> QED
      BY <2>4 DEF Pool!LeaseNext
  <1>6. ASSUME NEW b \in Backends, PoolStep(b)
        PROVE  [Pool!LeaseNext]_<<ask, held, Places>>
    <2>1. CASE BackendDies(b)
      BY <1>6, <2>1 DEF PoolStep, BackendDies, Places, Place, sessVars
    <2>2. CASE ReapIdle(b)
      <3>1. /\ bst[b] = "idle" /\ bst' = [bst EXCEPT ![b] = "closed"]
            /\ UNCHANGED <<bpool, held, ask>>
        BY <1>6, <2>2 DEF PoolStep, ReapIdle, CloseConn, sessVars
      <3>2. Place(b)' = Temp /\ \A c \in Backends \ {b} : Place(c)' = Place(c)
        BY <1>0, <3>1 DEF Place, PoolTypeOK
      <3>3. Places' = [Places EXCEPT ![b] = Temp]
        BY <3>2 DEF Places
      <3>4. Pool!Free(b) /\ Place(b) \in Asks
        BY <1>0, <3>1, FreeUnlessLeased, PlaceOf DEF Live
      <3>5. Pool!Drop(b)
        BY <3>1, <3>3, <3>4 DEF Pool!Drop, Places
      <3> QED
        BY <3>5 DEF Pool!LeaseNext
    <2> QED
      BY <1>6, <2>1, <2>2 DEF PoolStep
  <1> QED
    BY <1>1, <1>2, <1>3, <1>4, <1>5, <1>6, PoolFrame

\* What sessions see of the pool manager is what Lease promises: connections
\* of their own pool, one each, within its limit, whatever fails and however
\* the goroutines interleave (manager.go:22-91, connection.go:37-54).
THEOREM ProxyImplementsLease == Spec => ImplementsLease
  <1>1. Init => Pool!LeaseInit
    BY DEF Init, PoolInit, Pool!LeaseInit, Places, Place
  <1>2. LimitInv /\ LimitInv' /\ [Next]_vars => [Pool!LeaseNext]_(Pool!leaseVars)
    BY LeaseStepSimulated DEF Pool!leaseVars
  <1> QED
    BY <1>1, <1>2, LimitInvariant, PTL DEF Spec, ImplementsLease, Pool!LeaseSpec
=============================================================================
