------------------------------- MODULE Login -------------------------------
(***************************************************************************)
(* gprxy login: the callback server on :8085 that the browser is sent back *)
(* to, the goroutine that runs it, and the login that waits for its code   *)
(* (internal/cli/login.go), on top of the credentials file and next to     *)
(* other commands, which may be logins too.                                *)
(***************************************************************************)
EXTENDS Credentials, Naturals

CONSTANT Requests   \* bound: requests to the callback server at one time

VARIABLES
    port,   \* process whose server listens on :8085
    srv,    \* srv[p]: startCallbackServer: off, starting, select, or what it returned
    got,    \* got[p]: the callback that ended its select
    req     \* req[r]: a request in its handler

serverVars == <<port, srv, got, req>>
vars == <<credVars, serverVars>>

\* What a callback carries.  "good": the code and the state of the login that
\* listens; "foreign": a state of another login, or no code; "nostate": no
\* state; "bare": neither; "denied": the error parameter.
Kinds == {"good", "foreign", "nostate", "bare", "denied"}

\* Mutant of Errors: a wrong state is logged only.
ErrorsLogged(k) ==
    CASE k = "bare" -> 2 [] k \in {"nostate", "denied"} -> 1 [] OTHER -> 0

\* Mutant of Errors: a request without a state counts its code as missing too.
ErrorsCounted(k) ==
    CASE k = "good" -> 0 [] k = "bare" -> 4 [] k = "nostate" -> 3 [] OTHER -> 1

\* How often the handler sends on errChan: once per test that fails, since
\* none of them returns; a missing state is also a wrong one.
Errors(k) ==
    CASE k = "good" -> 0
      [] k = "nostate" -> 2
      [] k = "bare" -> 3
      [] OTHER -> 1

TypeOK ==
    /\ CredTypeOK
    /\ port \in Commands \cup {None}
    /\ srv \in [Commands -> {"off", "starting", "select", "code", "error"}]
    /\ got \in [Commands -> Kinds \cup {None}]
    /\ req \in [Requests -> [on : Commands, kind : Kinds, errs : 0..3] \cup {None}]

Init ==
    /\ CredInit
    /\ port = None
    /\ srv = [p \in Commands |-> "off"]
    /\ got = [p \in Commands |-> None]
    /\ req = [r \in Requests |-> None]

\* The process of p is gone, and with it its server and handlers.
Gone(p) ==
    /\ port' = IF port = p THEN None ELSE port
    /\ srv' = [srv EXCEPT ![p] = "off"]
    /\ got' = [got EXCEPT ![p] = None]
    /\ req' = [r \in Requests |->
                  IF req[r] # None /\ req[r].on = p THEN None ELSE req[r]]

\* What becomes of the server when p takes a step of another kind.
Serves(p) == IF pc'[p] \in Ended THEN Gone(p) ELSE UNCHANGED serverVars

-----------------------------------------------------------------------------
(* startCallbackServer *)

\* AUTH0_TENANT or the client id is missing: buildAuthURL ends the process.
NotConfigured(p) ==
    /\ Goto(p, "listen", "failed")
    /\ UNCHANGED <<cmd, creds, fileVars, tokenVars, mishap, serverVars>>

\* The goroutine starts the server; the port may be taken.
Listen(p) ==
    /\ Goto(p, "listen", "wait")
    /\ srv' = [srv EXCEPT ![p] = IF port = None THEN "starting" ELSE "error"]
    /\ port' = IF port = None THEN p ELSE port
    /\ UNCHANGED <<cmd, creds, fileVars, tokenVars, mishap, got, req>>

\* The server may have requests before its select waits for what they bring.
Select(p) ==
    /\ srv[p] = "starting"
    /\ srv' = [srv EXCEPT ![p] = "select"]
    /\ UNCHANGED <<credVars, port, got, req>>

\* Mutant of Return: an error leaves without Shutdown.
ReturnKeepsPort(p, what) ==
    /\ srv[p] = "select"
    /\ srv' = [srv EXCEPT ![p] = what]
    /\ port' = IF what = "code" THEN None ELSE port

\* The select of p takes one of its cases: Shutdown closes the listener.
Return(p, what) ==
    /\ srv[p] = "select"
    /\ srv' = [srv EXCEPT ![p] = what]
    /\ port' = None

Callback(r) ==
    /\ port # None
    /\ req[r] = None
    /\ \E k \in Kinds :
        req' = [req EXCEPT ![r] = [on |-> port, kind |-> k, errs |-> Errors(k)]]
    /\ UNCHANGED <<credVars, port, srv, got>>

\* The handler sends an error, which the select of the server takes or nobody
\* ever does.  Only after the error parameter does it return.
SendError(r) ==
    /\ req[r] # None
    /\ req[r].errs > 0
    /\ Return(req[r].on, "error")
    /\ got' = [got EXCEPT ![req[r].on] = req[r].kind]
    /\ req' = [req EXCEPT ![r] =
                  IF req[r].kind = "denied" THEN None
                  ELSE [req[r] EXCEPT !.errs = req[r].errs - 1]]
    /\ UNCHANGED credVars

\* The page says "Authentication successful"; the code is handed over if the
\* select waits, and dropped if it does not wait yet or any more.
SendCode(r) ==
    /\ req[r] # None
    /\ req[r].errs = 0
    /\ \/ /\ Return(req[r].on, "code")
          /\ got' = [got EXCEPT ![req[r].on] = req[r].kind]
       \/ srv[req[r].on] # "select" /\ UNCHANGED <<port, srv, got>>
    /\ req' = [req EXCEPT ![r] = None]
    /\ UNCHANGED credVars

\* Nobody finished in the browser for five minutes.
Timeout(p) ==
    /\ Return(p, "error")
    /\ UNCHANGED <<credVars, got, req>>

-----------------------------------------------------------------------------
(* login *)

\* The code arrives on codeChan.  There is no such step for errChan.
TakeCode(p) ==
    /\ Goto(p, "wait", "exchange")
    /\ srv[p] = "code"
    /\ UNCHANGED <<cmd, creds, fileVars, tokenVars, mishap, serverVars>>

\* exchangeCodeForTokens: a code is granted for the verifier of its own login.
Exchange(p) ==
    /\ got[p] = "good"
    /\ Goto(p, "exchange", "save")
    /\ \E g \in Grants, u \in Users, parsed \in BOOLEAN :
        /\ Issue(g, u, g)
        /\ valid' = valid \cup {g}
        /\ Keep(p, [token |-> g, refresh |-> g, user |-> IF parsed THEN u ELSE None])
    /\ UNCHANGED <<cmd, fileVars, mishap, serverVars>>

ExchangeFails(p) ==
    /\ Goto(p, "exchange", "failed")
    /\ Gone(p)
    /\ UNCHANGED <<cmd, creds, fileVars, tokenVars, mishap>>

\* The user stops a process, at any point.
Exit(p) ==
    /\ pc[p] \notin Ended
    /\ pc' = [pc EXCEPT ![p] = "idle"]
    /\ mishap' = (mishap \/ pc[p] \in Busy)
    /\ Keep(p, None)
    /\ Gone(p)
    /\ UNCHANGED <<cmd, fileVars, tokenVars>>

-----------------------------------------------------------------------------

\* What a process does by itself.
Process(p) ==
    \/ CredStep(p) /\ Serves(p)
    \/ NotConfigured(p) \/ Listen(p) \/ Select(p) \/ Timeout(p)
    \/ TakeCode(p) \/ Exchange(p) \/ ExchangeFails(p)

Handler(r) == SendError(r) \/ SendCode(r)

\* Users, browsers and time.
Environment ==
    \/ \E p \in Commands : Start(p) /\ UNCHANGED serverVars
    \/ \E p \in Commands : Exit(p)
    \/ \E r \in Requests : Callback(r)
    \/ Age /\ UNCHANGED serverVars

Next ==
    \/ \E p \in Commands : Process(p)
    \/ \E r \in Requests : Handler(r)
    \/ Environment

Spec == Init /\ [][Next]_vars

\* A process that can take a step takes it, and so does a handler.
Fairness ==
    /\ \A p \in Commands : WF_vars(Process(p))
    /\ \A r \in Requests : WF_vars(Handler(r))

FairSpec == Spec /\ Fairness

-----------------------------------------------------------------------------
(* Properties *)

\* Credentials name the user their tokens were granted to, or nobody, and
\* carry the refresh token that came with the access token, if any, however the
\* loads, refreshes and saves of several commands interleave
\* (loginStatus.go:242-253: new tokens, but the user of the old credentials).
\* Only two saves at once can undo that, and only the file they have written
\* and what is refreshed from it are concerned: a login puts it right.
Matched(c) ==
    Whole(c) /\ c.user # Torn => /\ owner[c.token] # None
                                 /\ c.user \in {owner[c.token], None}
                                 /\ c.refresh \in {c.token, None}
IdentityMatchesToken == Matched(file) /\ \A p \in Commands : Matched(creds[p])

\* As long as neither refreshes nor saves overlap and nothing is lost, the
\* refresh token on disk is one the issuer still accepts, and the user stays
\* logged in (docs/cli.md:554-559), although a refresh may use its token up;
\* or the last refresh was answered without one, and there is none.
SerialUseKeepsLogin ==
    ~mishap /\ Whole(file) /\ (\A p \in Commands : pc[p] \notin Busy) =>
        \/ file.refresh \in valid
        \/ file.refresh = None /\ FALSE \in Rotations /\ root[file.token] # file.token

\* The handler goes on after each error it sends, to the line that hands over
\* the code (login.go:191-235), and other handlers run beside it: the code
\* that reaches the exchange is nevertheless one that passed all tests.
AcceptedCodeIsGood ==
    \A p \in Commands : srv[p] = "code" \/ pc[p] = "exchange" => got[p] = "good"

\* Every way out of the select closes the listener (login.go:250-275): the
\* port is held only by a login a callback can still complete, so the next
\* login is not refused the port by one that failed.
PortFreed == port # None => pc[port] = "wait" /\ srv[port] \in {"starting", "select"}

-----------------------------------------------------------------------------
(* What the documentation says and the code does not do *)

\* docs/postgres-proxy-system-explanation.md:176-182: after a bad callback the
\* callback is rejected and the login fails.
RejectedLoginFails ==
    \A p \in Commands : (srv[p] = "error" /\ got[p] # None) ~> pc[p] \in Ended
=============================================================================
