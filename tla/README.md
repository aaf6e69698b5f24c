# gprxy in TLA+

gprxy is a proxy between PostgreSQL clients and one PostgreSQL server. It
authenticates a client against PostgreSQL (with a password, or with an OIDC
token whose roles it maps to an account), leases a connection from a pool for
the client's whole session, relays protocol messages between the two, forwards
cancel requests, and resets and returns the connection when the client is gone.
Its command line obtains the tokens from the issuer, keeps them in a file and
refreshes them.

This directory holds TLA+ models of it, configurations that model-check them
with TLC, and proofs checked by TLAPS. `PROJECT.json` maps every definition to
the source lines it stands for and lists runs, theorems, findings and hazards.

## Inventory

| part | source | state it keeps | operations | what makes it correct |
|---|---|---|---|---|
| server | `internal/proxy/server.go` | `activeConnections` (by PID and secret key) under `connMutex`, listener, `WaitGroup` | accept, register, unregister, look up, shut down | an entry leads to the session that uses the key, and only while it does; a client can cancel its own query and nobody else's; shutdown |
| connection handler | `internal/proxy/connection.go` | `Connection`: client socket, `poolConn`, `bf`, `key`, `user`, `db` | one goroutine per client: startup, message loop, deferred cleanup (close, `ROLLBACK`, `DISCARD ALL`, `Release`, unregister) | every lease returned exactly once, clean; the entry removed |
| startup | `internal/proxy/startup.go` | local | StartupMessage, SSLRequest with the TLS handshake, CancelRequest; others fall through | the client gets the pool connection's key, and only a usable session reaches the message loop |
| relay | `internal/proxy/message.go` | none (buffers of `bf`) | forward one message, relay until ReadyForQuery | the response the client gets answers its request; nobody waits for ever |
| pool manager | `internal/pool/manager.go` | `poolManager` under `poolMutex`, one pgxpool per (user, database) | get or create, acquire, ping | one pool per key, at most MaxConns connections, no lost connection |
| backend authentication | `internal/auth/authenticator.go` | a temporary connection per login | message loop with PostgreSQL | the client is told OK only when PostgreSQL said so |
| JWT and JWKS | `internal/auth/jwt.go` | key cache under `keysMutex`, time of last fetch | validate, get key, fetch | a token is checked with a key the issuer published; concurrent logins and failed fetches |
| roles | `internal/auth/roles.go` | role map, default role | load from the environment, map roles, add | first mapped role wins, the last variable for a role wins, defaults |
| CLI login | `internal/cli/login.go` | local HTTP callback server, channels | PKCE login | only the code of this login is exchanged; the port is freed; the command ends, with credentials or an error |
| CLI credentials | `internal/cli/loginStatus.go`, `connect.go` | `creds` file | load, save, refresh, connect | credentials and their tokens are about one user; a valid refresh token is not lost |
| rest | `config`, `logger`, `tls`, `cli/root.go`, `cli/start.go` | read once | | no behaviour over time (see Not modelled) |

How they interact: `Server.Start` starts a goroutine per client. It calls the
authentication, which opens a temporary connection of its own, then the pool
manager, then PostgreSQL through the pool connection - by two readers on the
same socket, pgconn and `bf`. Two maps are shared by all goroutines
(`activeConnections`, `poolManager`), and so is the JWKS cache. A cancel request
comes in as a connection of its own, goes through the shared registry, and ends
as a packet on a third connection that PostgreSQL relates to a backend by its
key. Because backends outlive sessions, and keys belong to backends, everything
that is late meets the *next* session on the same backend. The commands `login`
and `connect` are processes of their own; they share the credentials file, port
8085 and the issuer's idea of which refresh token is the last.

What is hard here: the order of the steps of the cleanup against the startup of
other sessions; cancel packets that arrive late; the reset that fails half way;
connections whose replies are out of step with the requests, on which a statement
without a deadline may never return; backends that die unnoticed;
pools at their limit; a relay loop whose end depends on a message
the other side may not be going to send; a handler that goes on after it has
reported an error; a token that is used up before its successor is on disk.
`PROJECT.json` lists each at its line.

## Modules

- **`BackendPool`** - external behaviour: PostgreSQL backends and pgxpool. A
  backend is its identity (PID, secret), used once. `bst` is the pool's view of
  a connection, `dead` the truth, `soil` the session state inside the backend,
  `seen` the transaction status pgconn cached (`bf` bypasses pgconn, so it is
  stale except after a statement of the proxy's own), `skewed` the connections
  whose replies are out of step. A statement of the proxy's own may fail by itself
  (`ExecReplies`), also on a live connection in step. Acquire takes an idle connection, opens one
  below MaxConns or waits; Release closes a connection unless `seen` is idle.
- **`Proxy`** (extends it) - server, handler, startup, relay and pool manager.
  `pc[s]` is where goroutine `s` stands; a session is a connection accepted by
  the listener and turns into a client, a cancel request, or one with a first
  message the code has no case for. One action per step another goroutine can
  see between: the two looks at `poolManager`, Acquire, Ping, sending the key,
  registering, each request and response, `ROLLBACK`, `DISCARD ALL`, Release,
  unregister. What happens under a mutex is one step. `Blocked` says which
  goroutines may wait for their backend for ever.
- **`Relay`** - one pool connection below that level: requests, replies made of
  messages, the socket and the two read-ahead buffers, through consecutive
  sessions, with errors, COPY and messages that answer nothing (`Notify`).
  `Proxy` says of a connection that lost a client mid-response only
  that it is skewed, and anything may come back from it; `Relay` says what does.
- **`KeySource`** - abstract: what `getPublicKey` promises to logins that call it
  at the same time - a growing set of keys and one right answer for each call.
- **`Jwks`** - the JWKS cache: map, time of the last fetch, write lock; the two
  looks (`Look`, `Recheck`), the fetch in flight (`Answer`, `FetchFails`), the loop
  that stores a document up to an entry that does not decode (`Store`). The hour
  ends (`Expire`) and the issuer rotates its keys (`Rotate`) at any time.
- **`Lease`** - abstract: what the pool manager promises sessions - one connection
  each, of the pool they asked for, that nobody else has; pools within their limit;
  what was closed does not come back.
- **`Auth`** (extends it) - `AuthenticateUser` for logins that run concurrently:
  what the client presents, token validation and role mapping, and one action
  for each message of PostgreSQL's that `authenticateWithBackend` knows, and
  `ExchangeFails` for its returns without a word to the client. The lease at the
  end (`ConnectBackend`) is one step here and detailed in `Proxy`. `told[l]` is all
  the client has been sent.
- **`Credentials`** - the file `~/.gprxy/credentials`, commands that load (`Load`,
  and once more `Reload`), refresh (`Ask`, `Refused`, `NotAsked`) and save it
  (`Truncate`, `Write`), two of which may overlap, and the issuer, which knows who a grant is about, from
  which login it descends and which refresh tokens it still accepts.
- **`Login`** (extends it) - `gprxy login`: the goroutine with the callback server
  and its select (`Listen`, `Select`, `Return`, `Timeout`), the handlers of callbacks
  (`Callback`, `SendError`, `SendCode`), and the command that waits for a code
  (`TakeCode`, `Exchange`), beside other commands.
- **`MCProxy`, `MCRelay`, `MCAuth`, `MCLogin`** - instances for TLC.
- **`ProxyProofs`, `LeaseProofs`** - theorems about `Proxy`; **`RelayProofs`,
  `RelayLagProofs`** about `Relay`; **`AuthProofs`** about the key cache;
  **`AuthFlowProofs`** about the logins of `Auth`; **`LoginProofs`** about `Login` with `Credentials`.

Definitions named as mutants ("Mutant of X: ...") are never used by a
specification. Each is a plausible bug in the definition X; a property is kept
only if substituting one for X makes TLC find it violated.

### Correspondence and abstractions

- SQL is abstract: a response leaves any combination of `tx` (open transaction)
  and `set` (what `DISCARD ALL` clears) in the backend. An aborted transaction
  is an open one.
- In `Proxy` a response is relayed in one step, or the client is lost in the
  middle of it (`Cuts`), or the backend is. Where a client is lost the connection is
  `skewed`: any reply may come back to Ping, `ROLLBACK` and `DISCARD ALL`, or none
  ever, since they have no deadline (`context.Background()`).
- On a connection in step these three succeed or fail, and pgconn then knows the
  status. They fail by themselves too, by the client's own `statement_timeout` or when
  a lock table is full, and leave what was there.
- In `Proxy` authentication is one step that succeeds or fails; its outcomes are
  those `Auth` ends with (`in`, `out`, `dropped`, `gone`). `SSLRequest` answers N and
  reads the next message, or S and goes on to `Handshake`, which fails or starts the
  startup again. The recursion has no bound in the code, nor has the cycle here.
- `registerConnection` evaluates `v.poolConn.Conn()` for each entry even when
  debug output is off, since Go evaluates arguments first. On a released
  `pgxpool.Conn` that is a nil dereference; an unrecovered panic of a goroutine
  ends the process (`srv = "panicked"`).
- The key of the temporary connection (`Temp`) is never in the registry.
- The backend may fail at any time; PostgreSQL ignores a cancel unless a
  statement runs, including the proxy's own.
- In `Jwks` a key is its key id, and an hour is a bit. In `Auth` a token is the
  key it was signed with, its roles, and why it is to be refused: `header` stands
  for what is checked before the key is looked up, `claims` for signature, issuer,
  audience, email, subject and expiry. A role name has a normal form (`Normal`:
  trimmed, lower case). `Environ` is the sequence of `ROLE_MAPPING_` variables: a name
  and an account, empty if there is no password or no user; `RoleToAccount` is the
  map that results. Names in the variables are taken to have no outer blanks (they
  are put in lower case, those in tokens are trimmed as well). Whether a password is right is PostgreSQL's choice.
  When `AuthenticateUser` returns its local variables are cleared.
- `pgxpool` and PostgreSQL's side of a login are external behaviour. PostgreSQL
  asks for one method, may refuse, fail after AuthenticationOk (no such database)
  or vanish. `gss` stands for a method the switch has no case for.
- `ExchangeFails` is one action for every silent return of the exchange
  (`authenticator.go:178-266`): a name or password SCRAM does not take, a challenge or
  signature that is wrong or comes without a conversation, an answer that cannot be
  sent. The socket is closed; the client is not told (`dropped`).
- In `Relay`, MaxConns, the registry and cancels play no part. `torn` stands for
  a message of which `bf` had read a part when it was dropped. The rest is read as a
  header, which is an error or a length that never comes (`stuck`): `pgconn` closes
  the connection on the error, `bf` returns it and the session goes on to `ROLLBACK`.
- `expects` is what PostgreSQL reads next. After the error of a Parse it skips all
  requests to the next Sync; in a COPY any request ends it with an error.
  `Notify` stands for notifications, parameter changes and notices that come when no
  request is being run. One is unread at a time, and it is numbered like the request
  that follows, since it answers none.
- In `Login` a callback is what its parameters make of it (`Kinds`); `Errors` counts
  the errors the handler sends for it, since only the error parameter makes it
  return. `errChan` has no receiver once `startCallbackServer` has returned, hence no
  action. Requests can arrive before the select of the server waits (`starting`), and
  a code that comes then is dropped by the non-blocking send.
- In `Credentials` a grant of the issuer names all tokens that came with it. The
  life of an access token has three values, told apart by the two tests (30 minutes
  in `connect`, 3 in `login`); a new one is taken to live longer than 30 minutes.
  `os.WriteFile` is two steps, truncate and the last write. `Torn` is a file that does
  not parse, the empty one included, or a field with bytes of two saves. A save that
  fails leaves any part of its bytes. One that overlaps another (`overlap`) may leave
  its own file, the other's, one that does not parse, or one that parses and has
  fields of both (`Mixes`, `Outcomes`). A process that ends has nothing in memory
  (`Forget`).
- `Rotations` says whether the issuer may answer a refresh with a new refresh token.
  If it does the old one is used up, and to use it again revokes its whole family; if
  not, there is none in the answer and the old one stays good. A refresh token may
  also expire or be revoked, which shows when it is used (`Refused`).
  `mishap` is a history variable: a write, an answer or a token was lost, or two
  refreshes or two saves overlapped. A user may kill a command anywhere (`Exit`).

## Runs

| run | question | instance |
|---|---|---|
| `proxy_safety` | types, leases, pool limit, transactions, registry; can a late cancel leave its pool? does the server implement `Lease`? | 3 sessions, 3 identities, MaxConns 2, 2 users; extended messages, cancels, all kinds of first message, backend failures |
| `proxy_live` | is every waiter served, every lease returned, unless somebody is blocked? | 2 sessions, 3 identities, MaxConns 1; clients lost mid-response, extended messages, cancels, backend failures |
| `relay_steps` | request and reply on one connection | 5 sessions, 6 queries in all, up to 3 vanished clients, one notice unread at a time |
| `auth_logins` | do clients learn what happened, and in order? who is let in? is the key cache sound, and does it implement `KeySource`? does every authentication end? | 2 logins, 2 keys, 2 documents (one skips an entry, one breaks off), a password and 4 tokens, 4 methods, 4 variables (one empty, one role twice) |
| `login_commands` | are credentials and tokens about the same user? does refreshing keep the user logged in? which code is exchanged, who holds the port? | 2 commands, 2 users, 3 grants, 2 callbacks in flight, an issuer that rotates refresh tokens or does not, each time |
| `proxy_cancellable`, `proxy_panic`, `proxy_handover`, `relay_cut`, `relay_extended`, `auth_account`, `login_rejected` | a claim of the documentation, refuted | smallest instance that shows it |

Why the bounds are enough: the races of `Proxy` are between two sessions and a
late cancel request, hence three sessions. MaxConns 2 lets two be served by one
pool, two users give two pools, three identities let a pool replace a connection.
MaxConns is 5 in the code (`manager.go:25`); nothing depends on the number but the
limit. Clients lost mid-response skew a connection, which `relay_steps` examines;
in `Proxy` they matter to liveness (`proxy_live`), and the proofs include them.
`proxy_safety` leaves them out (`Cuts = FALSE`), as its state space would not be done
in minutes otherwise.
Three vanished clients is the smallest number with which results reach a client of
another session (`ForeignResults` states exactly that: a fourth cut changes
nothing, and with `cuts >= 4` in its place TLC finds a counterexample).
Logins meet in the key cache only, and there in pairs - the one that fetches and
one that waits; a third would wait like the second (the proofs of the cache's
properties are for any number). Two keys are needed for a document without the
key that is wanted.
Two commands suffice for every overlap on the file and the port. Three grants let
a login be followed by a refresh while another login takes place. Two callbacks
race for the select; more are covered by the proofs.
`CHECK_DEADLOCK` is off because all sessions end, and the server may; commands end
when the grants are used up.

Fairness (`FairSpec`): weak fairness of every goroutine's own steps - the Go
scheduler runs a runnable goroutine - but not of one that is `Blocked`: it waits for a
ReadyForQuery that need not come (a Parse was sent), or uses a skewed connection,
where what it reads may be the rest of a torn message. Nothing in the code ends
that wait; the end of the backend does. Weak fairness of `Respond` on connections in
step - PostgreSQL answers a query. Strong fairness of `ClientLeaves` - a client reads
what it is sent and leaves in the end; the code sets no deadline, so without it
nothing about waiters is true. Sessions are finite in number, which stands in for the
FIFO queue of `Acquire`. So `WaiterServed` promises a connection unless blocked
sessions hold all MaxConns (`Exhausted`), and `SessionCleansUp` promises the cleanup
unless the session is blocked while its backend lives. Without these exceptions TLC
finds both violated: one client that vanishes in the middle of a response can
take a connection, and MaxConns of them a pool, out of service.
For `Auth`: weak fairness of a login's steps, which includes the end of an HTTP
request (ten seconds, `jwt.go:60`), and of PostgreSQL's steps on the temporary
connection, which ends by `authentication_timeout` at the latest. None of
`ConnectBackend`: `pool.Acquire` waits without a deadline for another client to
leave, which is the wait `WaiterServed` is about. Clients that do not present a
password owe nothing. Hence `AuthenticationEnds` goes from the client's answer to the
lease, or to one of the ends.
For `Login`: weak fairness of each command and each handler, which includes the
five-minute timer, the end of an HTTP request, and of a connection to the proxy.

### What the violated claims show

- `proxy_cancellable`: Release comes before unregister. In between the next
  client takes the connection, hence the key, and registers; the old session
  then deletes the new one's entry. The served client cannot cancel any more.
- `proxy_panic`: in the same window any other session that registers walks over
  the old entry and dereferences its released connection.
- `proxy_handover`: a statement of the reset fails, by a cancel that is late by one
  statement or by itself. The error is logged and the connection released with the
  old session state, as "best effort" has it
  (`docs/postgres-proxy-system-explanation.md:763-767`) and a clean session has not.
  (An open transaction is not handed over: `NoTransactionHandover`.)
- `relay_cut`: after a client vanished mid-response the next session's first
  query is answered with the reply to the proxy's own statement, and every later
  query with the response to the one before.
- `relay_extended`: a Parse is never answered, since the Sync behind it is not read.
- `auth_account`: the account a token maps to is used on the temporary connection
  only. The pool is keyed by the name in the client's StartupMessage, and its
  connections log in as the user of the configuration. Two documents describe it so
  (`docs/postgres-proxy-system-explanation.md:494-507`, `docs/architecture.md:218-235`),
  the user guide does not.
- `login_rejected`: a callback with a wrong state makes the callback server return an
  error, into a channel nobody receives from. The login waits until it is killed, or,
  in a binary built without cgo, until the runtime finds that no goroutine can run.

## Proofs

Every theorem holds for all values of the constants that satisfy the named
assumptions of the modules (`PoolAssumption`, `ProxyAssumption`, `RelayAssumption`,
`JwksAssumption`, `AuthAssumption`, `CredentialsAssumption`), which TLC evaluates on
the runs. One, `WaitersAreAnswered`, has an assumption more, stated in it.

`ProxyProofs` - any finite set of sessions and backends, any users, databases, MaxConns:

- `TypeCorrect` - `TypeOK`. The invariant is `TypeInv`: types, and `PcInv`, which
  says at which control states a session holds a connection. It is needed since
  e.g. `Release` is typed only if there is something to release.
- `LeasesAreExclusive` - `ExclusiveLease`. `LeaseFrame` shows that only Acquire,
  Release and the pool's own steps touch leases; `LeaseStep` treats those.
- `RegistryIsSound` - `RegistrySound`, by `RegistryInv`, which adds at which
  control states a registered session may stand.
- `NoTransactionIsHandedOver` - `NoTransactionHandover`, by `ResetInv`: a session
  about to release a connection in step, with cached status idle, has left no
  transaction. It needs `LeaseInv`: nobody else runs statements on it.
- `CancelStaysInPool` - `LateCancelStaysInPool`, by `AffinityInv`: sessions,
  pools, backends and announced keys always belong to the same user and database.

`LeaseProofs` builds on these. `ManagerInv` says that the pool a session uses, and
the pool of every connection, is the one `poolManager` has for its user and
database, so there is one for each (`OnePool`); `CardInv` bounds the connections of
each pool, which `OpenNew` tests and every other step leaves alone or lowers.

- `PoolsAreBounded` - `PoolBound`, from the two.
- `ProxyImplementsLease` - `ImplementsLease`: a StartupMessage is `AskFor`, Acquire is
  `Take`, Release is `GiveBack` with or without closing, a connection the pool closes
  is `Drop`, and every other step stutters, both looks at `poolManager` included
  (`LeaseStepSimulated`).

`RelayProofs` - any number of sessions, requests and vanished clients:

- `RelayTyped` - `TypeOK`.
- `ReadersAreInStep` - `InStep`, by `StepInv`: until a client vanishes, and while the stream is
  intact, at most one request is not answered, the messages of its answer are in the socket or in the
  one buffer that belongs there, and ReadyForQuery is the last of them. So when the
  waiting ends nothing remains but notices.
- `WaitersAreAnswered` - `ReplyOnItsWay`, if clients send simple queries
  (`Requests \subseteq {"query"}`; `relay_extended` shows why), by `ReplyInv`: a
  ReadyForQuery is in the right buffer, in the socket, or owed for a request.

`RelayLagProofs` builds on these, also for any kinds of requests: a Parse, which is
never answered, and a COPY, answered by half, are in. It counts replies: `Unread` is
defined by the cardinality of the positions of ReadyForQuery, so that library
theorems about finite sets apply. Three invariants, each of which TLC checked first
with simple queries only and with all kinds:

- `OrderInv` - responses come in the order of the requests (a notice is numbered like
  the request that follows it), each ends where its
  ReadyForQuery is, and the requests not run yet are the last ones. Hence
  replies from one message on are never more than request numbers from there on
  (`RepliesAreFew`, an injection of the former into the latter).
- `LagInv` - from the oldest unread message, or the oldest request not run, to the
  last request there are at most `Due` requests, less the replies pgconn keeps: one
  for each vanished client, and the one being waited for. It speaks of intact streams; a torn one
  never becomes intact (`TornStays`). Stated about unread
  replies alone it is not inductive: a Parse, or a COPY, adds a request without
  adding a reply, and what a reader takes must be known to make room for what is
  sent next.
- `ApartInv` - between a request of an earlier session that may still be answered and
  the next request of this one lie at least two statements of the proxy's own.

- `LagIsBounded` - `LagBounded`, from the first two.
- `ForeignResultsAreLate` - `ForeignResults`, from all three: to read a result across
  `ROLLBACK` and Ping a client must be three requests behind.

`AuthProofs` - any logins, keys and documents: four theorems about the key cache.
`CacheInv` joins the types with three facts about the write lock: only its holder
fetches (`LockInv`), a fetch is under way only while it is needed (`FetchInv`: nobody
else can make the cache fresh meanwhile), and a key seen at the first look is still
there (`KnewInv`). `AuthUsesCache` shows that every step of a login is a step of the
cache or leaves it alone, so that the results hold for `Auth`:

- `CacheImplementsSource` - `ImplementsKeySource`: a step of `getPublicKey` maps to
  `KeySource`'s `Return` when it ends the call, and to a stutter otherwise.
- `KnownKeysAreServed`, `NoFetchIsUseless`, `FreshIsComplete` - the three
  properties of the same names in `Jwks`.

`AuthFlowProofs` - any logins, offers, roles and methods of PostgreSQL. The
invariant `FlowInv` is about one login at a time: how much its client has been told
at each control state; that the messages PostgreSQL has queued on the temporary
connection continue the startup sequence from where that connection stands (`Fits`),
so that passing them on or swallowing them cannot break it; and whose account the
login has gone on with.

- `AuthTyped`, `OneSequenceIsTold`, `RefusalsAreTold`, `OkIsEarned` - `TypeOK`,
  `OneStartupSequence`, `RefusalIsTold`, `OkMeansAuthenticated`. The second to last says
  that a login ends without a word only if PostgreSQL vanished or the exchange failed
  in the proxy, the latter never behind AuthenticationOk. The last one rests on
  `RoleHasAccount`: the first role of a token that is mapped decides, and the last
  variable for a role.

`LoginProofs` - any commands, users, grants and callbacks:

- `LoginTyped` - `TypeOK`, with `MemoryInv` about what a refresh has in memory.
- `CodesAreGood`, `PortIsFreed` - `AcceptedCodeIsGood`, `PortFreed`, by `FlowInv`: while
  the select of a server waits, a handler still has to send every error of its
  request, and after the first one the select does not wait any more.
- `IdentityIsKept` - `IdentityMatchesToken`, which is inductive with the types. A file
  mixed from two saves is excepted, since its fields are nobody's.
- `LoginIsKept` - `SerialUseKeepsLogin`, for any issuer, by `RotationInv`: of the
  commands that refresh and save at most one asks, and it has a token that nobody else
  is about to save; and by `GrantInv`: a token that is good was granted, and so was the
  login it descends from.

Only model-checked: liveness (`WaiterServed`, `SessionCleansUp`, `AuthenticationEnds`), which
needs fairness and ENABLED, out of the prover's reach. Every other property of a
passing run is a theorem. That the three vanished clients of `ForeignResults` do occur,
and each documented claim that is false, is what TLC shows by a behaviour.

## Not modelled

- Configuration, logger, command registration, reading of certificates
  (`config.go`, `logger.go`, `cli/root.go`, `cli/start.go`, `tls.Load`): read once at the
  start, or output only. The upgrades that use the certificates are modelled.
- `AddRoleMapping` has no caller; roles are loaded before the first login.
- The drain at shutdown: `server.go:122` counts the goroutine that starts a handler,
  not the handler. The documentation calls shutdown best effort
  (`docs/postgres-proxy-system-explanation.md:828`), so no property is violated; the
  model has the server exit under running sessions.
- That a key withdrawn by the issuer stays in the cache, and that the default role is
  looked up as configured: `Jwks` and `Auth` have the behaviour as it is, and no
  document says otherwise.
- What becomes of the user's login is claimed with its exceptions only.
  `SerialUseKeepsLogin` excepts the file without a refresh token, which every refresh
  leaves with an issuer that does not rotate: the empty string replaces the token that
  was still good (`loginStatus.go:244`), and the next refresh ends with "no refresh token
  found", while `docs/cli.md:534` says that a new one is stored "if provided". And
  it excepts, by `mishap`, refreshes and saves that overlap and saves that fail. These
  are in the model and do log the user out; nothing promises that they do not.
- `ActiveSessionCancellable` is about registered sessions. Before `registerConnection`
  a client has its key and cannot cancel yet; that phase is modelled, no property is
  about it.

## What is left

- One composition of `Proxy` with `Auth` instead of the outcome that stands for it;
  the product is beyond TLC with three sessions, so it would be a refinement proof.
- A proof that `Relay` without vanished clients is what `Proxy` says of a connection
  in step; `InStep` is the reason, but no refinement mapping states it.
