-------------------------------- MODULE Auth --------------------------------
(***************************************************************************)
(* AuthenticateUser: the proxy asks the client for a password, and takes   *)
(* what it gets for the password of a PostgreSQL user or for a token that  *)
(* it validates and maps to a service account.  With that it logs in to    *)
(* PostgreSQL on a temporary connection of its own, and passes on to the   *)
(* client what belongs to its login; the caller then leases a pool         *)
(* connection and sends that connection's key and ReadyForQuery.           *)
(*                                                                         *)
(* Many logins run at the same time and share the key cache of Jwks.       *)
(***************************************************************************)
EXTENDS Jwks, SequencesExt

CONSTANTS
    Offers,         \* what clients present as their password
    ClientUser,     \* the user of the client's StartupMessage
    Normal,         \* Normal[r]: role name r trimmed and in lower case
    Environ,        \* the ROLE_MAPPING_ variables of the process, in order: the
                    \* name of a role and of an account, "" if malformed or empty
    DefaultRole,    \* RoleMapper.defaultRole as configured, or ""
    Methods,        \* authentication methods of PostgreSQL's pg_hba.conf
    ServiceUser     \* the user in the connection string of every pool

\* Why a token can be refused: a header without RS256 or key id, before its
\* key is looked up; its signature, issuer, audience, email, subject or
\* expiry, after that.
Flaws == {"none", "header", "claims"}

IsPassword(o) == o.type = "password"
IsToken(o) == o.type = "token"
WellFormed(o) ==
    /\ o.kid \in Kids /\ o.flaw \in Flaws
    /\ {o.role, o.roles} \subseteq Seq(DOMAIN Normal)

NoUser == ""

\* NewRoleMapper fails, and the proxy does not start, without a usable variable.
ASSUME AuthAssumption ==
    /\ \A o \in Offers : IsPassword(o) \/ (IsToken(o) /\ WellFormed(o))
    /\ Environ \in Seq([role : DOMAIN Normal, account : STRING])
    /\ \E i \in DOMAIN Environ : Environ[i].account # NoUser
    /\ DefaultRole \in DOMAIN Normal
    /\ Methods \subseteq {"trust", "cleartext", "md5", "sasl", "gss"}

VARIABLES
    at,        \* at[l]: where login l stands
    offer,     \* offer[l]: what the client presented
    account,   \* account[l]: actualUsername
    scram,     \* scram[l]: is there a conversation (scramConversation # nil)?
    told,      \* told[l]: what the client was sent
    executes,  \* executes[l]: the user of the session's pool connection
    up,        \* up[l]: what the proxy sent PostgreSQL and it has not read
    down,      \* down[l]: what PostgreSQL sent and the proxy has not read
    waits,     \* waits[l]: what PostgreSQL waits for on that connection
    pguser,    \* pguser[l]: the user who logs in on it
    accepted   \* accepted[l]: has PostgreSQL let it in?

pgVars == <<up, down, waits, pguser, accepted>>
authVars == <<at, offer, account, scram, told, executes, pgVars>>
vars == <<jwksVars, authVars>>

Unset == [type |-> "unset"]

\* loadFromEnvironment: each usable variable adds its role, in lower case, or
\* replaces what an earlier one has put there.
Mapped(r) == {i \in DOMAIN Environ :
                Environ[i].account # NoUser /\ Normal[Environ[i].role] = r}
RoleToAccount ==
    [r \in {n \in Range(Normal) : Mapped(n) # {}} |-> Environ[Max(Mapped(r))].account]

PgUsers == {RoleToAccount[r] : r \in DOMAIN RoleToAccount} \cup {ClientUser}

TypeOK ==
    /\ JwksTypeOK
    /\ at \in [Logins -> {"dial", "password", "token", "startup", "backend", "lease",
                          "in", "out", "dropped", "gone"}]
    /\ offer \in [Logins -> Offers \cup {Unset}]
    /\ {account[l] : l \in Logins} \cup {pguser[l] : l \in Logins} \subseteq PgUsers \cup {NoUser}
    /\ scram \in [Logins -> BOOLEAN] /\ accepted \in [Logins -> BOOLEAN]
    /\ \A l \in Logins : told[l] \in Seq({"request", "ok", "param", "key", "ready", "error"})
    /\ executes \in [Logins -> {ServiceUser, NoUser}]
    /\ \A l \in Logins : at[l] # "backend" => waits[l] \in {"closed", "lost"}

Init ==
    /\ JwksInit
    /\ at = [l \in Logins |-> "dial"]
    /\ offer = [l \in Logins |-> Unset]
    /\ account = [l \in Logins |-> NoUser]
    /\ scram = [l \in Logins |-> FALSE]
    /\ told = [l \in Logins |-> <<>>]
    /\ executes = [l \in Logins |-> NoUser]
    /\ up = [l \in Logins |-> Unset]
    /\ down = [l \in Logins |-> <<>>]
    /\ waits = [l \in Logins |-> "closed"]
    /\ pguser = [l \in Logins |-> NoUser]
    /\ accepted = [l \in Logins |-> FALSE]

Goto(l, from, to) == at[l] = from /\ at' = [at EXCEPT ![l] = to]
Tell(l, msgs) == told' = [told EXCEPT ![l] = @ \o msgs]

\* The goroutine returns, and its local variables are gone.
ReturnTo(l, to) ==
    /\ at' = [at EXCEPT ![l] = to]
    /\ offer' = [offer EXCEPT ![l] = Unset]
    /\ account' = [account EXCEPT ![l] = NoUser]
    /\ scram' = [scram EXCEPT ![l] = FALSE]
    /\ pguser' = [pguser EXCEPT ![l] = NoUser]
    /\ accepted' = [accepted EXCEPT ![l] = FALSE]
    /\ executes' = executes

\* sendErrorToClient: the login has failed and its client is told so.
Refuse(l, from) ==
    /\ at[l] = from
    /\ Tell(l, <<"error">>)
    /\ ReturnTo(l, "out")
    /\ UNCHANGED <<up, down, waits>>

\* The login ends because the client does not listen any more.
GiveUp(l, from) ==
    /\ at[l] = from
    /\ ReturnTo(l, "gone")
    /\ UNCHANGED <<told, up, down, waits>>

-----------------------------------------------------------------------------
(* AuthenticateUser up to the startup message *)

\* The temporary connection is opened first; then the client is asked.
Dial(l) ==
    /\ Goto(l, "dial", "password")
    /\ Tell(l, <<"request">>)
    /\ UNCHANGED <<jwksVars, offer, account, scram, executes, pgVars>>

DialFails(l) == Refuse(l, "dial") /\ UNCHANGED jwksVars

\* The client has closed its connection: psql does, to ask its user.
ClientLeaves(l) == GiveUp(l, "password") /\ UNCHANGED jwksVars

\* What the client sends is not a PasswordMessage.
PasswordFails(l) == Refuse(l, "password") /\ UNCHANGED jwksVars

\* A password is taken for that of the user the client named.
PresentPassword(l) ==
    /\ Goto(l, "password", "startup")
    /\ \E o \in Offers : IsPassword(o) /\ offer' = [offer EXCEPT ![l] = o]
    /\ account' = [account EXCEPT ![l] = ClientUser]
    /\ UNCHANGED <<jwksVars, scram, told, executes, pgVars>>

\* A token: jwt.Parse checks its header and asks for the key it names.
PresentToken(l) ==
    \E o \in Offers :
        /\ IsToken(o)
        /\ o.flaw # "header"
        /\ Goto(l, "password", "token")
        /\ offer' = [offer EXCEPT ![l] = o]
        /\ Ask(l, o.kid)
        /\ UNCHANGED <<account, scram, told, executes, pgVars>>

PresentBadHeader(l) ==
    /\ \E o \in Offers : IsToken(o) /\ o.flaw = "header"
    /\ Refuse(l, "password")
    /\ UNCHANGED jwksVars

\* getPublicKey, on behalf of a token login.
TokenKey(l) ==
    /\ GetPublicKey(l)
    /\ UNCHANGED authVars

\* The roles of a token, in the order they are looked at.
ExtractRoles(token) == token.role \o token.roles

\* MapRoleToServiceAccount: the first role that is mapped, or the default.
\* The default role is looked up the way it was configured.
MapRole(roles) ==
    LET i == SelectInSeq(roles, LAMBDA r : Normal[r] \in DOMAIN RoleToAccount) IN
    IF i # 0 THEN RoleToAccount[Normal[roles[i]]]
    ELSE IF DefaultRole \in DOMAIN RoleToAccount \ {""} THEN RoleToAccount[DefaultRole]
    ELSE NoUser

\* The rest of ValidateJWT, and the mapping of the token's roles.
TokenAccount(l) ==
    IF key[l] = "got" /\ offer[l].flaw = "none" THEN MapRole(ExtractRoles(offer[l])) ELSE NoUser

ValidateToken(l) ==
    /\ TokenAccount(l) # NoUser
    /\ Goto(l, "token", "startup")
    /\ account' = [account EXCEPT ![l] = TokenAccount(l)]
    /\ Answered(l)
    /\ UNCHANGED <<offer, scram, told, executes, pgVars>>

RefuseToken(l) ==
    /\ TokenAccount(l) = NoUser
    /\ Refuse(l, "token")
    /\ Answered(l)

\* Mutant of SendStartup: the client's StartupMessage goes out as it came.
SendStartupUnchanged(l) ==
    /\ Goto(l, "startup", "backend")
    /\ up' = [up EXCEPT ![l] = [type |-> "startup", user |-> ClientUser]]
    /\ waits' = [waits EXCEPT ![l] = "startup"]
    /\ UNCHANGED <<jwksVars, offer, account, scram, told, executes, down, pguser, accepted>>

\* The client's StartupMessage goes out with the user replaced.
SendStartup(l) ==
    /\ Goto(l, "startup", "backend")
    /\ up' = [up EXCEPT ![l] = [type |-> "startup", user |-> account[l]]]
    /\ waits' = [waits EXCEPT ![l] = "startup"]
    /\ UNCHANGED <<jwksVars, offer, account, scram, told, executes, down, pguser, accepted>>

SendStartupFails(l) == Refuse(l, "startup") /\ UNCHANGED jwksVars

-----------------------------------------------------------------------------
(* authenticateWithBackend: one action for each kind of message *)

\* The next message of PostgreSQL is m.
Receive(l, m) ==
    /\ at[l] = "backend"
    /\ down[l] # <<>>
    /\ Head(down[l]) = m

Consume(l) == down' = [down EXCEPT ![l] = Tail(@)]

\* A message of the proxy's, with the credentials it is computed from.
Reply(l, type) == up' = [up EXCEPT ![l] = [type |-> type, user |-> account[l]]]

\* The loop goes on, with the message read and possibly answered.
Loop(l) ==
    /\ Consume(l)
    /\ UNCHANGED <<jwksVars, at, offer, account, executes, waits, pguser, accepted>>

\* Mutant of CloseTemp: the deferred call is missing.
CloseTempNot(l) == UNCHANGED <<up, down, waits, jwksVars>>

\* The loop ends, and a deferred call closes the temporary connection; that
\* PostgreSQL had done so before is remembered.
CloseTemp(l) ==
    /\ up' = [up EXCEPT ![l] = Unset]
    /\ down' = [down EXCEPT ![l] = <<>>]
    /\ waits' = [waits EXCEPT ![l] = IF @ = "lost" THEN "lost" ELSE "closed"]
    /\ UNCHANGED jwksVars

\* Mutant of BackendRefuses: the error is kept from the client.
BackendRefusesSilently(l) ==
    /\ Receive(l, "error")
    /\ told' = told
    /\ ReturnTo(l, "out")
    /\ CloseTemp(l)

BackendRefuses(l) ==
    /\ Receive(l, "error")
    /\ Tell(l, <<"error">>)
    /\ ReturnTo(l, "out")
    /\ CloseTemp(l)

BackendLost(l) ==
    /\ Receive(l, "eof")
    /\ told' = told
    /\ ReturnTo(l, "out")
    /\ CloseTemp(l)

\* AuthenticationOk and ParameterStatus are passed on ...
PassOn(l) ==
    \E m \in {"ok", "param"} :
        /\ Receive(l, m)
        /\ Tell(l, <<m>>)
        /\ Loop(l)
        /\ UNCHANGED <<scram, up>>

\* ... unless the client is gone.
ClientGone(l) ==
    /\ Receive(l, "ok") \/ Receive(l, "param")
    /\ told' = told
    /\ ReturnTo(l, "gone")
    /\ CloseTemp(l)

\* The key of the temporary connection is kept from the client, and so is a
\* message the switch has no case for.
KeepBack(l) ==
    /\ Receive(l, "key") \/ Receive(l, "gss")
    /\ Loop(l)
    /\ UNCHANGED <<scram, told, up>>

\* The exchange fails in the proxy: no mechanism of PostgreSQL's that it knows,
\* a name or password that SCRAM does not take, a challenge or a signature of
\* the server's that is wrong or comes without a conversation, an answer that
\* cannot be sent.  The client's connection is closed without a word.
ExchangeFails(l) ==
    /\ \E m \in {"cleartext", "md5", "sasl", "continue", "final"} : Receive(l, m)
    /\ told' = told
    /\ ReturnTo(l, "dropped")
    /\ CloseTemp(l)

SendPassword(l) ==
    \E m \in {"cleartext", "md5"} :
        /\ Receive(l, m)
        /\ Reply(l, m)
        /\ Loop(l)
        /\ UNCHANGED <<scram, told>>

StartScram(l) ==
    /\ Receive(l, "sasl")
    /\ scram' = [scram EXCEPT ![l] = TRUE]
    /\ Reply(l, "initial")
    /\ Loop(l)
    /\ UNCHANGED told

ContinueScram(l) ==
    /\ Receive(l, "continue")
    /\ scram[l]
    /\ Reply(l, "response")
    /\ Loop(l)
    /\ UNCHANGED <<scram, told>>

\* The server's signature is checked; nothing is sent.
FinishScram(l) ==
    /\ Receive(l, "final")
    /\ scram[l]
    /\ Loop(l)
    /\ UNCHANGED <<scram, told, up>>

\* Mutant of TempReady: ReadyForQuery is passed on like the rest.
TempReadyPassedOn(l) ==
    /\ Receive(l, "ready")
    /\ Tell(l, <<"ready">>)
    /\ Goto(l, "backend", "lease")
    /\ CloseTemp(l)
    /\ UNCHANGED <<offer, account, scram, executes, pguser, accepted>>

\* ReadyForQuery ends the loop and is not passed on.
TempReady(l) ==
    /\ Receive(l, "ready")
    /\ told' = told
    /\ Goto(l, "backend", "lease")
    /\ CloseTemp(l)
    /\ UNCHANGED <<offer, account, scram, executes, pguser, accepted>>

-----------------------------------------------------------------------------
(* What handleStartupMessage does next *)

\* connectBackend: a connection of the pool of this user and database, which
\* logged in with the credentials of the configuration.  The pool gives one
\* when it has one to give: that is Proxy's, and no fairness is assumed here.
Lease(l) ==
    /\ Goto(l, "lease", "in")
    /\ executes' = [executes EXCEPT ![l] = ServiceUser]
    /\ Tell(l, <<"key", "ready">>)
    /\ UNCHANGED <<jwksVars, offer, account, scram, pgVars>>

LeaseFails(l) == Refuse(l, "lease") /\ UNCHANGED jwksVars

LeaseInVain(l) == GiveUp(l, "lease") /\ UNCHANGED jwksVars

-----------------------------------------------------------------------------
(* PostgreSQL, on the temporary connection *)

PgSends(l, msgs, next) ==
    /\ down' = [down EXCEPT ![l] = @ \o msgs]
    /\ waits' = [waits EXCEPT ![l] = next]
    /\ up' = [up EXCEPT ![l] = Unset]
    /\ UNCHANGED <<jwksVars, at, offer, account, scram, told, executes>>

PgRejects(l) == PgSends(l, <<"error">>, "refused") /\ accepted' = accepted

\* The user is let in; the session may still fail, for the lack of the
\* database, say.
PgAdmits(l, msgs) ==
    /\ accepted' = [accepted EXCEPT ![l] = TRUE]
    /\ \/ PgSends(l, msgs \o <<"ok", "param", "key", "ready">>, "statement")
       \/ PgSends(l, msgs \o <<"ok", "error">>, "refused")

\* PostgreSQL reads the StartupMessage and looks up the user's method.
PgStartup(l) ==
    /\ waits[l] = "startup"
    /\ pguser' = [pguser EXCEPT ![l] = up[l].user]
    /\ \E m \in Methods :
        IF m = "trust" THEN PgAdmits(l, <<>>)
        ELSE PgSends(l, <<m>>, IF m = "sasl" THEN "initial" ELSE m) /\ accepted' = accepted

\* The first message of a SCRAM exchange.
PgChallenges(l) ==
    /\ waits[l] = "initial"
    /\ up[l].type = "initial"
    /\ PgSends(l, <<"continue">>, "response")
    /\ UNCHANGED <<pguser, accepted>>

\* The answer to the method's request; its password may be right or wrong.
PgVerifies(l) ==
    /\ waits[l] \in {"cleartext", "md5", "response"}
    /\ up[l] # Unset
    /\ \/ /\ up[l] = [type |-> waits[l], user |-> pguser[l]]
          /\ PgAdmits(l, IF waits[l] = "response" THEN <<"final">> ELSE <<>>)
       \/ PgRejects(l)
    /\ pguser' = pguser

\* The connection is lost, or PostgreSQL ends it with an error: at the latest
\* when authentication_timeout is over.
PgEnds(l) ==
    /\ waits[l] \notin {"closed", "lost", "refused"}
    /\ PgRejects(l) \/ (PgSends(l, <<"eof">>, "lost") /\ accepted' = accepted)
    /\ pguser' = pguser

-----------------------------------------------------------------------------

Client(l) ==
    \/ ClientLeaves(l) \/ PasswordFails(l) \/ PresentPassword(l) \/ PresentToken(l)
    \/ PresentBadHeader(l)

Login(l) ==
    \/ Dial(l) \/ DialFails(l)
    \/ TokenKey(l) \/ ValidateToken(l) \/ RefuseToken(l)
    \/ SendStartup(l) \/ SendStartupFails(l)
    \/ BackendRefuses(l) \/ BackendLost(l) \/ PassOn(l) \/ ClientGone(l)
    \/ KeepBack(l) \/ SendPassword(l) \/ StartScram(l) \/ ContinueScram(l)
    \/ FinishScram(l) \/ ExchangeFails(l) \/ TempReady(l)

ConnectBackend(l) == Lease(l) \/ LeaseFails(l) \/ LeaseInVain(l)

Postgres(l) == PgStartup(l) \/ PgChallenges(l) \/ PgVerifies(l) \/ PgEnds(l)

Issuer == (Expire \/ Rotate) /\ UNCHANGED authVars

Next ==
    \/ \E l \in Logins : Client(l) \/ Login(l) \/ ConnectBackend(l) \/ Postgres(l)
    \/ Issuer

Spec == Init /\ [][Next]_vars

\* Goroutines run; a request to the issuer ends after ten seconds, one to
\* PostgreSQL with its authentication_timeout.  Clients owe nothing, and so
\* does the pool, whose Acquire waits for other clients without a deadline.
FairSpec == Spec /\ \A l \in Logins : WF_vars(Login(l)) /\ WF_vars(Postgres(l))

-----------------------------------------------------------------------------
(* Properties *)

\* What a client is sent makes up one startup sequence, in order, cut off
\* anywhere, with an error only at its end and none after ReadyForQuery, in
\* spite of the two connections whose messages it is made of: of the temporary
\* one's, key and ReadyForQuery stay with the proxy.
OneStartupSequence ==
    \A l \in Logins :
        LET n == Len(told[l])
            said == IF n > 0 /\ Last(told[l]) = "error" THEN Front(told[l]) ELSE told[l]
        IN /\ IsPrefix(said, <<"request", "ok", "param", "key", "ready">>)
           /\ "ready" \in ToSet(said) => n = 5

\* A client whose login is refused, by the proxy, the issuer's keys or
\* PostgreSQL, gets an error before its connection is closed; not so if
\* PostgreSQL vanishes, nor if the exchange fails in the proxy, and that is
\* never after the client was told that it is in.
RefusalIsTold ==
    \A l \in Logins :
        /\ at[l] = "out" => Last(told[l]) = "error" \/ waits[l] = "lost"
        /\ at[l] = "dropped" => told[l] = <<"request">>

\* The account of a role, by definition: the last variable that names it has
\* it.  The account of a token's roles is that of the first role that has one,
\* else that of the default role.
Names(a, r) ==
    \E i \in Mapped(r) : a = Environ[i].account /\ \A j \in Mapped(r) : j <= i
IsAccountOf(a, roles) ==
    \/ \E i \in 1..Len(roles) :
        /\ Names(a, Normal[roles[i]])
        /\ \A j \in 1..(i - 1) : Mapped(Normal[roles[j]]) = {}
    \/ /\ \A i \in 1..Len(roles) : Mapped(Normal[roles[i]]) = {}
       /\ DefaultRole # "" /\ Names(a, DefaultRole)

\* A client is told it is in only if PostgreSQL let a user in, on that client's
\* own temporary connection, and the user is the one the client's token maps
\* to, or the one it named together with a password.
OkMeansAuthenticated ==
    \A l \in Logins :
        "ok" \in ToSet(told[l]) /\ at[l] \notin {"out", "gone"} =>
            /\ accepted[l]
            /\ IsPassword(offer[l]) => pguser[l] = ClientUser
            /\ IsToken(offer[l]) => /\ offer[l].flaw = "none"
                                   /\ IsAccountOf(pguser[l], ExtractRoles(offer[l]))

\* README.md:175 "Queries run on pooled connections keyed by (service-user,
\* database)", docs/user-guide.md:146-147 "Roles are mapped to a PostgreSQL
\* service account", "Queries run under that service account via pooling".
QueriesRunUnderAccount ==
    \A l \in Logins : at[l] = "in" /\ IsToken(offer[l]) => executes[l] = account[l]

\* Once its client has answered, a login gets through its authentication or
\* ends: none is held up for ever by another one's fetch, by a mutex, or by a
\* method of PostgreSQL's the proxy does not know.
AuthenticationEnds ==
    \A l \in Logins :
        at[l] \in {"token", "startup", "backend"}
            ~> at[l] \in {"lease", "in", "out", "dropped", "gone"}

=============================================================================
