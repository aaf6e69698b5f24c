-------------------------------- MODULE Jwks --------------------------------
(***************************************************************************)
(* The cache of the issuer's public keys that all token logins share: a    *)
(* map guarded by a read-write mutex, valid for an hour after the last     *)
(* complete fetch.  A key is looked up under the read lock; on a miss the  *)
(* goroutine takes the write lock, looks again, and fetches the issuer's   *)
(* document while it holds the lock.                                       *)
(*                                                                         *)
(* A key is identified with its key id.  A document is the sequence of its *)
(* entries, each a signature key ("rsa"), one the loop skips ("other") or  *)
(* one whose modulus or exponent does not decode ("broken").               *)
(***************************************************************************)
EXTENDS Naturals, Sequences

CONSTANTS
    Logins,     \* goroutines that authenticate a client
    Kids,       \* key ids
    Documents,  \* what the issuer may publish
    Nobody      \* not a login

ASSUME JwksAssumption ==
    /\ Documents \subseteq Seq([kid : Kids, form : {"rsa", "other", "broken"}])
    /\ Nobody \notin Logins
    /\ Kids # {}

VARIABLES
    published,   \* the issuer's current document
    publicKeys,  \* key ids in the cache
    fresh,       \* is lastKeysFetch less than keysCacheTTL ago?
    keysMutex,   \* who holds the write lock
    key,         \* key[l]: where login l stands in getPublicKey
    kid,         \* kid[l]: the key id it asks for
    response,    \* response[l]: the body of its HTTP response
    knew         \* history: was kid[l] in the cache when l looked first?

jwksVars == <<published, publicKeys, fresh, keysMutex, key, kid, response, knew>>

KeyStates == {"none", "look", "lock", "fetch", "decode", "got", "failed"}

JwksTypeOK ==
    /\ published \in Documents
    /\ publicKeys \subseteq Kids
    /\ fresh \in BOOLEAN
    /\ keysMutex \in Logins \cup {Nobody}
    /\ key \in [Logins -> KeyStates]
    /\ kid \in [Logins -> Kids]
    /\ response \in [Logins -> Documents \cup {<<>>}]
    /\ knew \in [Logins -> BOOLEAN]

AnyKid == CHOOSE k \in Kids : TRUE

JwksInit ==
    /\ published \in Documents
    /\ publicKeys = {}
    /\ fresh = FALSE
    /\ keysMutex = Nobody
    /\ key = [l \in Logins |-> "none"]
    /\ kid = [l \in Logins |-> AnyKid]
    /\ response = [l \in Logins |-> <<>>]
    /\ knew = [l \in Logins |-> FALSE]

Cached(l) == kid[l] \in publicKeys

\* What both looks at the cache ask.
Hit(l) == Cached(l) /\ fresh

\* ValidateJWT calls getPublicKey with the key id of the token's header.
Ask(l, k) ==
    /\ key[l] = "none"
    /\ key' = [key EXCEPT ![l] = "look"]
    /\ kid' = [kid EXCEPT ![l] = k]
    /\ UNCHANGED <<published, publicKeys, fresh, keysMutex, response, knew>>

\* The caller has the answer.
Answered(l) ==
    /\ key[l] \in {"got", "failed"}
    /\ key' = [key EXCEPT ![l] = "none"]
    /\ kid' = [kid EXCEPT ![l] = AnyKid]
    /\ knew' = [knew EXCEPT ![l] = FALSE]
    /\ UNCHANGED <<published, publicKeys, fresh, keysMutex, response>>

\* The look under the read lock.
Look(l) ==
    /\ key[l] = "look"
    /\ keysMutex = Nobody
    /\ key' = [key EXCEPT ![l] = IF Hit(l) THEN "got" ELSE "lock"]
    /\ knew' = [knew EXCEPT ![l] = Cached(l)]
    /\ UNCHANGED <<published, publicKeys, fresh, keysMutex, kid, response>>

\* Mutant of Recheck: no second look.
RecheckSkipped(l) ==
    /\ key[l] = "lock"
    /\ keysMutex = Nobody
    /\ key' = [key EXCEPT ![l] = "fetch"]
    /\ keysMutex' = l
    /\ UNCHANGED <<published, publicKeys, fresh, kid, response, knew>>

\* Mutant of Recheck: the map is emptied before it is filled again.
RecheckClears(l) ==
    /\ key[l] = "lock"
    /\ keysMutex = Nobody
    /\ \/ Hit(l) /\ key' = [key EXCEPT ![l] = "got"] /\ UNCHANGED <<keysMutex, publicKeys>>
       \/ ~Hit(l) /\ key' = [key EXCEPT ![l] = "fetch"] /\ keysMutex' = l /\ publicKeys' = {}
    /\ UNCHANGED <<published, fresh, kid, response, knew>>

\* The write lock is taken and the cache looked at again: somebody else may
\* have filled it.  A hit releases the lock at once.
Recheck(l) ==
    /\ key[l] = "lock"
    /\ keysMutex = Nobody
    /\ \/ Hit(l) /\ key' = [key EXCEPT ![l] = "got"] /\ keysMutex' = Nobody
       \/ ~Hit(l) /\ key' = [key EXCEPT ![l] = "fetch"] /\ keysMutex' = l
    /\ UNCHANGED <<published, publicKeys, fresh, kid, response, knew>>

\* The issuer answers with the document of this moment.
Answer(l) ==
    /\ key[l] = "fetch"
    /\ key' = [key EXCEPT ![l] = "decode"]
    /\ response' = [response EXCEPT ![l] = published]
    /\ UNCHANGED <<published, publicKeys, fresh, keysMutex, kid, knew>>

\* getPublicKey ends with keys in the cache and the lock released.  After a
\* failed fetch a key in the cache is used all the same.
Return(l, keys) ==
    /\ publicKeys' = keys
    /\ key' = [key EXCEPT ![l] = IF kid[l] \in keys THEN "got" ELSE "failed"]
    /\ response' = [response EXCEPT ![l] = <<>>]
    /\ keysMutex' = Nobody
    /\ UNCHANGED <<published, kid, knew>>

\* Mutant of FetchFails: the error return leaves the mutex locked.
FetchFailsLocked(l) ==
    /\ key[l] = "fetch"
    /\ key' = [key EXCEPT ![l] = IF Cached(l) THEN "got" ELSE "failed"]
    /\ UNCHANGED <<published, publicKeys, fresh, keysMutex, kid, response, knew>>

\* Mutant of FetchFails: no fallback on what the cache holds.
FetchFailsStrict(l) ==
    /\ key[l] = "fetch"
    /\ key' = [key EXCEPT ![l] = "failed"]
    /\ keysMutex' = Nobody
    /\ UNCHANGED <<published, publicKeys, fresh, kid, response, knew>>

\* The request fails, times out after ten seconds, or is not answered by a
\* document.
FetchFails(l) ==
    /\ key[l] = "fetch"
    /\ Return(l, publicKeys)
    /\ UNCHANGED fresh

\* The first n entries of a document decode.
Decodes(doc, n) == \A i \in 1..n : doc[i].form # "broken"

\* The keys among its first n entries.
Loaded(doc, n) == {doc[i].kid : i \in {j \in 1..n : doc[j].form = "rsa"}}

\* The keys the loop stores before it ends or fails.
Stored(doc) == UNION {Loaded(doc, n) : n \in {m \in 0..Len(doc) : Decodes(doc, m)}}

\* Mutant of Store: the time is noted before the entries are decoded.
StoreStampedFirst(l) ==
    /\ key[l] = "decode"
    /\ Return(l, publicKeys \cup Stored(response[l]))
    /\ fresh' = TRUE

\* The entries are added to the map one by one; what it holds stays.  One
\* that does not decode ends the loop, and the time of the fetch is not noted.
Store(l) ==
    /\ key[l] = "decode"
    /\ Return(l, publicKeys \cup Stored(response[l]))
    /\ fresh' = (fresh \/ Decodes(response[l], Len(response[l])))

-----------------------------------------------------------------------------
(* The environment *)

\* An hour passes since the last fetch.
Expire ==
    /\ fresh
    /\ fresh' = FALSE
    /\ UNCHANGED <<published, publicKeys, keysMutex, key, kid, response, knew>>

\* The issuer publishes another document.
Rotate ==
    /\ published' \in Documents \ {published}
    /\ UNCHANGED <<publicKeys, fresh, keysMutex, key, kid, response, knew>>

GetPublicKey(l) ==
    Look(l) \/ Recheck(l) \/ Answer(l) \/ FetchFails(l) \/ Store(l)

\* The cache by itself, with callers that may ask at any time.
JwksNext ==
    \/ \E l \in Logins : GetPublicKey(l) \/ Answered(l) \/ \E k \in Kids : Ask(l, k)
    \/ Expire
    \/ Rotate

JwksSpec == JwksInit /\ [][JwksNext]_jwksVars

-----------------------------------------------------------------------------
(* Properties *)

\* Getting a key does not fail for one the cache held at the first look,
\* whatever becomes of the fetches and however the issuer rotates its keys:
\* getPublicKey falls back on what it has, and fetchJWKS never removes a key.
KnownKeyServed == \A l \in Logins : key[l] = "failed" => ~knew[l]

\* A fetch never ends with a cache that was fresh and had the key: of all the
\* logins that queue for the write lock when the cache expires the first one
\* fetches, and the others are served by their second look.
NoUselessFetch ==
    [][\A l \in Logins :
         key[l] \in {"fetch", "decode"} /\ key[l]' \notin {"fetch", "decode"} =>
            ~(fresh /\ Cached(l))]_jwksVars

\* The cache becomes fresh only with a document that decoded to the end, all
\* of whose keys are then in the map: fetchJWKS notes the time after the loop.
FreshMeansComplete ==
    [][~fresh /\ fresh' =>
         \E l \in Logins :
            /\ key[l] = "decode"
            /\ Decodes(response[l], Len(response[l]))
            /\ Loaded(response[l], Len(response[l])) \subseteq publicKeys']_jwksVars

\* Under its mutex, with its fetches, expiry and fallback, the cache does what
\* KeySource promises: keys are only ever added, and a call fails only for a
\* key that is unknown when it returns.
Source == INSTANCE KeySource WITH
    known <- publicKeys,
    state <- [l \in Logins |->
                IF key[l] \in {"look", "lock", "fetch", "decode"} THEN "pending" ELSE key[l]],
    wants <- kid
ImplementsKeySource == Source!Spec

=============================================================================
