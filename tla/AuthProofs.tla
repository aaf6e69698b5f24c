----------------------------- MODULE AuthProofs -----------------------------
(***************************************************************************)
(* Machine-checked proofs about the key cache, by itself (JwksSpec) and as *)
(* the logins of Auth use it (Spec), for any sets of logins, keys and      *)
(* documents.                                                              *)
(***************************************************************************)
EXTENDS Auth, TLAPS

-----------------------------------------------------------------------------
(* The steps of the cache *)

\* What the loop of fetchJWKS stores are keys.
LEMMA StoredAreKeys ==
    ASSUME NEW doc \in Documents
    PROVE  Stored(doc) \subseteq Kids
  <1> DEFINE Entries == [kid : Kids, form : {"rsa", "other", "broken"}]
  <1>1. doc \in Seq(Entries)
    BY JwksAssumption
  <1>2. ASSUME NEW n \in 0..Len(doc), NEW i \in 1..n
        PROVE  doc[i].kid \in Kids
    <2>1. Len(doc) \in Nat /\ \A j \in 1..Len(doc) : doc[j] \in Entries
      <3> HIDE DEF Entries
      <3> QED BY <1>1
    <2> QED BY <2>1
  <1> QED BY <1>2 DEF Stored, Loaded

\* The lock is held exactly during a fetch, a fetch is under way only for a
\* key the cache does not have or is not fresh enough to hand out, and a key
\* that was there at the first look is still there.
LockInv == \A l \in Logins : key[l] \in {"fetch", "decode"} => keysMutex = l
FetchInv == \A l \in Logins : key[l] \in {"fetch", "decode"} => ~(fresh /\ Cached(l))
KnewInv == \A l \in Logins : knew[l] /\ key[l] \in {"lock", "fetch", "decode"} => Cached(l)
CacheInv == JwksTypeOK /\ LockInv /\ FetchInv /\ KnewInv /\ KnownKeyServed

LEMMA CacheInit == JwksInit => CacheInv
  <1>1. AnyKid \in Kids
    BY JwksAssumption DEF AnyKid
  <1> QED BY <1>1 DEF JwksInit, CacheInv, JwksTypeOK, KeyStates, LockInv, FetchInv, KnewInv,
                      KnownKeyServed

\* The invariant through one step of a single login.
LEMMA CacheLoginStep ==
    ASSUME CacheInv, NEW l \in Logins, GetPublicKey(l)
    PROVE  CacheInv'
  <1> USE JwksAssumption DEF CacheInv, JwksTypeOK, KeyStates
  <1>1. CASE Look(l)
    <2>1. /\ key' \in [Logins -> KeyStates] /\ key'[l] \in {"got", "lock"}
          /\ \A m \in Logins \ {l} : key'[m] = key[m]
          /\ UNCHANGED <<published, publicKeys, fresh, keysMutex, kid, response>>
      BY <1>1 DEF Look
    <2>2. knew' = [knew EXCEPT ![l] = Cached(l)]
      BY <1>1 DEF Look
    <2>3. Cached(l) \in BOOLEAN /\ knew \in [Logins -> BOOLEAN]
      BY DEF Cached
    <2>4. /\ knew' \in [Logins -> BOOLEAN]
          /\ knew'[l] = Cached(l)
          /\ \A m \in Logins \ {l} : knew'[m] = knew[m]
      BY <2>2, <2>3, Zenon
    <2> QED BY <2>1, <2>4 DEF Cached, LockInv, FetchInv, KnewInv, KnownKeyServed
  <1>2. CASE Recheck(l)
    BY <1>2 DEF Recheck, Hit, Cached, LockInv, FetchInv, KnewInv, KnownKeyServed
  <1>3. CASE Answer(l)
    BY <1>3 DEF Answer, Cached, LockInv, FetchInv, KnewInv, KnownKeyServed
  <1>4. CASE FetchFails(l)
    BY <1>4 DEF FetchFails, Return, Cached, LockInv, FetchInv, KnewInv, KnownKeyServed
  <1>5. CASE Store(l)
    <2> DEFINE keys == publicKeys \cup Stored(response[l])
    <2>1. keys \subseteq Kids
      <3>1. CASE response[l] \in Documents
        BY <3>1, StoredAreKeys
      <3>2. CASE response[l] = <<>>
        BY <3>2 DEF Stored, Loaded
      <3> QED BY <3>1, <3>2
    <2>2. /\ key[l] = "decode"
          /\ publicKeys' = keys
          /\ key' = [key EXCEPT ![l] = IF kid[l] \in keys THEN "got" ELSE "failed"]
          /\ response' = [response EXCEPT ![l] = <<>>]
          /\ keysMutex' = Nobody
          /\ fresh' \in BOOLEAN
          /\ UNCHANGED <<published, kid, knew>>
      BY <1>5 DEF Store, Return
    <2> HIDE DEF keys
    <2>3. publicKeys \subseteq keys
      BY DEF keys
    <2>4. \A m \in Logins \ {l} : key[m] \notin {"fetch", "decode"} /\ key'[m] = key[m]
      BY <2>2 DEF LockInv
    <2>5. key'[l] \in {"got", "failed"} /\ (key'[l] = "failed" => kid[l] \notin keys)
      BY <2>2
    <2> QED BY <2>1, <2>2, <2>3, <2>4, <2>5 DEF Cached, LockInv, FetchInv, KnewInv, KnownKeyServed
  <1> QED BY <1>1, <1>2, <1>3, <1>4, <1>5 DEF GetPublicKey

LEMMA CacheStep ==
    ASSUME CacheInv, [JwksNext]_jwksVars
    PROVE  CacheInv'
  <1> USE DEF CacheInv, JwksTypeOK, KeyStates, LockInv, FetchInv, KnewInv, KnownKeyServed, Cached
  <1>1. ASSUME NEW l \in Logins, GetPublicKey(l)
        PROVE  CacheInv'
    BY <1>1, CacheLoginStep
  <1>2. ASSUME NEW l \in Logins, Answered(l)
        PROVE  CacheInv'
    <2>1. AnyKid \in Kids
      BY JwksAssumption DEF AnyKid
    <2> QED BY <1>2, <2>1 DEF Answered
  <1>3. ASSUME NEW l \in Logins, NEW k \in Kids, Ask(l, k)
        PROVE  CacheInv'
    BY <1>3 DEF Ask
  <1>4. CASE Expire
    BY <1>4 DEF Expire
  <1>5. CASE Rotate
    BY <1>5 DEF Rotate
  <1>6. CASE UNCHANGED jwksVars
    BY <1>6 DEF jwksVars
  <1> QED BY <1>1, <1>2, <1>3, <1>4, <1>5, <1>6 DEF JwksNext

LEMMA CacheInvariant == JwksSpec => []CacheInv
  <1> QED BY CacheInit, CacheStep, PTL DEF JwksSpec

-----------------------------------------------------------------------------
(* The cache does what KeySource promises *)

LEMMA SourceInit == JwksInit => Source!Init
  <1>1. AnyKid \in Kids
    BY JwksAssumption DEF AnyKid
  <1> QED BY <1>1 DEF JwksInit, Source!Init

\* A step of getPublicKey that does not end it is no step of the source; one
\* that ends it is its Return.
LEMMA SourceLoginStep ==
    ASSUME CacheInv, NEW l \in Logins, GetPublicKey(l)
    PROVE  Source!Return(l) \/ UNCHANGED Source!vars
  <1> DEFINE Pending == {"look", "lock", "fetch", "decode"}
             state(m) == IF key[m] \in Pending THEN "pending" ELSE key[m]
  <1> USE DEF CacheInv, JwksTypeOK, KeyStates
  <1>1. ASSUME NEW to \in Pending, key[l] \in Pending, key' = [key EXCEPT ![l] = to],
               UNCHANGED <<publicKeys, kid>>
        PROVE  UNCHANGED Source!vars
    BY <1>1 DEF Source!vars
  <1>2. ASSUME NEW keys \in SUBSET Kids, publicKeys \subseteq keys, publicKeys' = keys,
               key[l] \in Pending, kid' = kid,
               key' = [key EXCEPT ![l] = IF kid[l] \in keys THEN "got" ELSE "failed"]
        PROVE  Source!Return(l)
    BY <1>2 DEF Source!Return
  <1>3. CASE Look(l)
    <2>1. CASE Hit(l)
      BY <1>2, <1>3, <2>1 DEF Look, Hit, Cached
    <2>2. CASE ~Hit(l)
      BY <1>1, <1>3, <2>2 DEF Look
    <2> QED BY <2>1, <2>2
  <1>4. CASE Recheck(l)
    <2>1. CASE Hit(l)
      BY <1>2, <1>4, <2>1 DEF Recheck, Hit, Cached
    <2>2. CASE ~Hit(l)
      BY <1>1, <1>4, <2>2 DEF Recheck
    <2> QED BY <2>1, <2>2
  <1>5. CASE Answer(l)
    BY <1>1, <1>5 DEF Answer
  <1>6. CASE FetchFails(l)
    BY <1>2, <1>6 DEF FetchFails, Return
  <1>7. CASE Store(l)
    <2> DEFINE keys == publicKeys \cup Stored(response[l])
    <2>1. keys \subseteq Kids
      BY StoredAreKeys DEF Stored, Loaded
    <2>2. /\ key[l] = "decode" /\ publicKeys' = keys /\ kid' = kid
          /\ key' = [key EXCEPT ![l] = IF kid[l] \in keys THEN "got" ELSE "failed"]
      BY <1>7 DEF Store, Return
    <2> HIDE DEF keys
    <2>3. publicKeys \subseteq keys
      BY DEF keys
    <2> QED BY <1>2, <2>1, <2>2, <2>3
  <1> QED BY <1>3, <1>4, <1>5, <1>6, <1>7 DEF GetPublicKey

LEMMA SourceStep ==
    ASSUME CacheInv, [JwksNext]_jwksVars
    PROVE  [Source!Next]_(Source!vars)
  <1> USE DEF CacheInv, JwksTypeOK, KeyStates
  <1>1. ASSUME NEW l \in Logins, GetPublicKey(l)
        PROVE  [Source!Next]_(Source!vars)
    BY <1>1, SourceLoginStep DEF Source!Next
  <1>2. ASSUME NEW l \in Logins, Answered(l)
        PROVE  Source!Next
    <2>1. AnyKid \in Kids
      BY JwksAssumption DEF AnyKid
    <2>2. Source!Take(l)
      BY <1>2, <2>1 DEF Answered, Source!Take
    <2> QED BY <2>2 DEF Source!Next
  <1>3. ASSUME NEW l \in Logins, NEW k \in Kids, Ask(l, k)
        PROVE  Source!Next
    <2>1. Source!Call(l)
      BY <1>3 DEF Ask, Source!Call
    <2> QED BY <2>1 DEF Source!Next
  <1>4. CASE Expire
    BY <1>4 DEF Expire, Source!vars
  <1>5. CASE Rotate
    BY <1>5 DEF Rotate, Source!vars
  <1>6. CASE UNCHANGED jwksVars
    BY <1>6 DEF jwksVars, Source!vars
  <1> QED BY <1>1, <1>2, <1>3, <1>4, <1>5, <1>6 DEF JwksNext

LEMMA CacheIsSource == JwksSpec => Source!Spec
  <1> QED BY CacheInvariant, SourceInit, SourceStep, PTL DEF JwksSpec, Source!Spec

-----------------------------------------------------------------------------
(* Logins use the cache by its operations only *)

\* Most steps of a login leave the cache alone.
LEMMA LoginUsesCache ==
    ASSUME NEW l \in Logins, Client(l) \/ Login(l) \/ ConnectBackend(l)
    PROVE  JwksNext \/ UNCHANGED jwksVars
  <1>1. CASE Client(l)
    <2>1. ASSUME NEW o \in Offers, IsToken(o), Ask(l, o.kid)
          PROVE  JwksNext
      <3>1. o.kid \in Kids
        BY <2>1, AuthAssumption DEF IsPassword, IsToken, WellFormed
      <3> QED BY <2>1, <3>1 DEF JwksNext
    <2>2. CASE PresentToken(l)
      BY <2>1, <2>2 DEF PresentToken
    <2> QED BY <1>1, <2>2 DEF Client, ClientLeaves, PasswordFails, PresentPassword, PresentBadHeader
  <1>2. CASE TokenKey(l)
    BY <1>2 DEF TokenKey, JwksNext
  <1>3. CASE ValidateToken(l) \/ RefuseToken(l)
    BY <1>3 DEF ValidateToken, RefuseToken, JwksNext
  <1>4. CASE Dial(l) \/ DialFails(l) \/ SendStartup(l) \/ SendStartupFails(l)
    BY <1>4 DEF Dial, DialFails, SendStartup, SendStartupFails
  <1>5. CASE \/ BackendRefuses(l) \/ BackendLost(l) \/ PassOn(l) \/ ClientGone(l) \/ KeepBack(l)
             \/ SendPassword(l) \/ StartScram(l) \/ ContinueScram(l) \/ FinishScram(l)
             \/ ExchangeFails(l) \/ TempReady(l)
    BY <1>5 DEF BackendRefuses, BackendLost, PassOn, ClientGone, KeepBack, SendPassword,
                StartScram, ContinueScram, FinishScram, ExchangeFails, TempReady, Loop, CloseTemp
  <1>6. CASE Lease(l) \/ LeaseFails(l) \/ LeaseInVain(l)
    BY <1>6 DEF Lease, LeaseFails, LeaseInVain
  <1> QED BY <1>1, <1>2, <1>3, <1>4, <1>5, <1>6 DEF Login, ConnectBackend

LEMMA AuthUsesCache ==
    ASSUME [Next]_vars
    PROVE  [JwksNext]_jwksVars
  <1>1. ASSUME NEW l \in Logins, Postgres(l)
        PROVE  UNCHANGED jwksVars
    BY <1>1 DEF Postgres, PgStartup, PgChallenges, PgVerifies, PgEnds, PgAdmits, PgRejects, PgSends
  <1>2. CASE Issuer
    BY <1>2 DEF Issuer, JwksNext
  <1>3. CASE UNCHANGED vars
    BY <1>3 DEF vars
  <1> QED BY <1>1, <1>2, <1>3, LoginUsesCache DEF Next

LEMMA AuthRunsCache == Spec => JwksSpec
  <1>1. Init => JwksInit
    BY DEF Init
  <1> QED BY <1>1, AuthUsesCache, PTL DEF Spec, JwksSpec

-----------------------------------------------------------------------------
(* Theorems *)

\* Logins never see the mutex, the fetches and the expiry of the key cache
\* (getPublicKey, fetchJWKS): together they do what KeySource promises.
THEOREM CacheImplementsSource == Spec => ImplementsKeySource
  <1> QED BY AuthRunsCache, CacheIsSource, PTL DEF ImplementsKeySource

\* Getting a key never fails for one the cache held at the first look: it is
\* still there when the fetch has failed, since getPublicKey falls back on it
\* and no other login can have removed it.
THEOREM KnownKeysAreServed == Spec => []KnownKeyServed
  <1>1. CacheInv => KnownKeyServed
    BY DEF CacheInv
  <1> QED BY <1>1, AuthRunsCache, CacheInvariant, PTL

\* Every fetch is one the cache needed to the end, because the second look and
\* the fetch are under one write lock (getPublicKey).
THEOREM NoFetchIsUseless == Spec => NoUselessFetch
  <1>1. ASSUME CacheInv
        PROVE  \A l \in Logins :
                 key[l] \in {"fetch", "decode"} /\ key[l]' \notin {"fetch", "decode"} =>
                    ~(fresh /\ Cached(l))
    BY <1>1 DEF CacheInv, FetchInv
  <1>2. CacheInv => [\A l \in Logins :
                 key[l] \in {"fetch", "decode"} /\ key[l]' \notin {"fetch", "decode"} =>
                    ~(fresh /\ Cached(l))]_jwksVars
    BY <1>1
  <1> QED BY <1>2, AuthRunsCache, CacheInvariant, PTL DEF NoUselessFetch

\* Only a document that decoded to its end makes the cache fresh, and all of
\* its keys are in the map by then (fetchJWKS).
THEOREM FreshIsComplete == Spec => FreshMeansComplete
  <1> DEFINE Complete == \E l \in Logins :
                /\ key[l] = "decode"
                /\ Decodes(response[l], Len(response[l]))
                /\ Loaded(response[l], Len(response[l])) \subseteq publicKeys'
  <1>1. ASSUME CacheInv, [JwksNext]_jwksVars, ~fresh, fresh'
        PROVE  Complete
    <2>1. PICK l \in Logins : Store(l)
      BY <1>1 DEF JwksNext, GetPublicKey, Look, Recheck, Answer, FetchFails, Return, Answered, Ask,
                  Expire, Rotate, jwksVars
    <2>2. /\ key[l] = "decode"
          /\ Decodes(response[l], Len(response[l]))
          /\ publicKeys' = publicKeys \cup Stored(response[l])
      BY <1>1, <2>1 DEF Store, Return, CacheInv, JwksTypeOK
    <2>3. Len(response[l]) \in Nat
      BY JwksAssumption, <1>1 DEF CacheInv, JwksTypeOK
    <2>4. Loaded(response[l], Len(response[l])) \subseteq Stored(response[l])
      BY <2>2, <2>3 DEF Stored
    <2> QED BY <2>2, <2>4
  <1>2. CacheInv /\ [JwksNext]_jwksVars => [~fresh /\ fresh' => Complete]_jwksVars
    BY <1>1
  <1> QED BY <1>2, AuthRunsCache, CacheInvariant, PTL DEF FreshMeansComplete, JwksSpec

=============================================================================
