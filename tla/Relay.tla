------------------------------- MODULE Relay -------------------------------
(***************************************************************************)
(* One pool connection at the level of protocol messages, through the      *)
(* client sessions that lease it one after the other.                      *)
(*                                                                         *)
(* Two readers share its socket: the pgproto3 Frontend bf that startup.go  *)
(* puts on top of it for each session, and pgconn, through which the pool  *)
(* and the proxy run statements of their own (Ping, ROLLBACK, DISCARD ALL).*)
(* Each reads ahead into a buffer of its own.  The buffer of bf is lost    *)
(* when its session ends, whatever was in it; pgconn's is kept.            *)
(***************************************************************************)
EXTENDS Naturals, FiniteSets, Sequences, SequencesExt

CONSTANTS
    MaxSessions,  \* bound: sessions that lease the connection
    MaxQueries,   \* bound: requests clients send
    MaxCuts,      \* bound: clients that vanish in the middle of a response
    Requests      \* kinds of requests clients send

ASSUME RelayAssumption ==
    /\ {MaxSessions, MaxQueries, MaxCuts} \subseteq Nat
    /\ Requests \subseteq {"query", "parse", "copy"}

VARIABLES
    phase,    \* what the session, or the pool, is doing on the connection
    session,  \* number of the session that leases it
    queries,  \* requests clients sent
    sent,     \* requests sent on the connection; the last has this number
    inq,      \* requests PostgreSQL has not run yet
    wire,     \* messages in the socket, sent by PostgreSQL and not read
    bfbuf,    \* messages bf has read ahead
    pgbuf,    \* messages pgconn has read ahead
    failed,   \* pgconn read an ErrorResponse since it sent its statement
    expects,  \* what PostgreSQL reads next: any request, a COPY's data, a Sync
    torn,     \* part of the first message of wire was lost with bf's buffer
    cuts      \* clients that vanished

vars == <<phase, session, queries, sent, inq, expects, wire, bfbuf, pgbuf, failed, torn, cuts>>

\* Statements of the proxy's own, in the phase of the same name.
Own == {"ping", "rollback", "discard"}

Request == [id : 1..sent, by : 1..MaxSessions, kind : Requests \cup Own]

\* A notice answers no request; it is numbered like the one that comes next.
NoRequest == [id : 1..(sent + 1), by : 1..MaxSessions, kind : {"none"}]

Message == [of : Request, what : {"part", "error", "ready"}]
           \cup [of : NoRequest, what : {"notice"}]

TypeOK ==
    /\ phase \in {"idle", "serve", "relay", "stuck", "closed"} \cup Own
    /\ session \in 0..MaxSessions
    /\ queries \in 0..MaxQueries
    /\ sent \in Nat
    /\ inq \in Seq(Request)
    /\ expects \in {"request", "copy", "sync"}
    /\ {wire, bfbuf, pgbuf} \subseteq Seq(Message)
    /\ failed \in BOOLEAN /\ torn \in BOOLEAN
    /\ cuts \in 0..MaxCuts

Init ==
    /\ phase = "idle"
    /\ session = 0 /\ queries = 0 /\ sent = 0 /\ cuts = 0
    /\ inq = <<>> /\ expects = "request"
    /\ wire = <<>> /\ bfbuf = <<>> /\ pgbuf = <<>>
    /\ failed = FALSE /\ torn = FALSE

\* Mutant of Send: the counter is not advanced.
SendUncounted(kind, s) ==
    /\ inq' = Append(inq, [id |-> sent + 1, by |-> s, kind |-> kind])
    /\ sent' = sent

\* A request goes out on the connection, for session s.
Send(kind, s) ==
    /\ sent' = sent + 1
    /\ inq' = Append(inq, [id |-> sent + 1, by |-> s, kind |-> kind])

\* The proxy runs a statement of its own through pgconn.
Exec(stmt, s) ==
    /\ phase' = stmt
    /\ failed' = FALSE
    /\ Send(stmt, s)

-----------------------------------------------------------------------------
(* PostgreSQL *)

\* The responses to a request; a query may fail after its first rows.  Those
\* to a Parse are held back until a Sync or a Flush, but for its error, which
\* is sent at once, and after it nothing is run before a Sync.  A COPY FROM
\* STDIN asks for its data; a request ends it with an error.
Responses(r) ==
    LET Say(what) == [of |-> r, what |-> what] IN
    IF expects = "sync" THEN {<<>>}
    ELSE IF expects = "copy" THEN {<<Say("error"), Say("ready")>>}
    ELSE CASE r.kind = "query" -> {<<Say("part"), Say("ready")>>,
                                    <<Say("part"), Say("error"), Say("ready")>>}
           [] r.kind = "parse" -> {<<>>, <<Say("error")>>}
           [] r.kind = "copy"  -> {<<Say("part")>>, <<Say("error"), Say("ready")>>}
           [] OTHER            -> {<<Say("part"), Say("ready")>>}

\* How a response ends tells what PostgreSQL goes on to read.
ExpectsAfter(answer) ==
    IF answer = <<>> THEN expects
    ELSE CASE Last(answer).what = "ready" -> "request"
           [] Last(answer).what = "error" -> "sync"
           [] OTHER                       -> "copy"

Serve ==
    /\ inq # <<>>
    /\ \E answer \in Responses(Head(inq)) :
        /\ wire' = wire \o answer
        /\ expects' = ExpectsAfter(answer)
    /\ inq' = Tail(inq)
    /\ UNCHANGED <<phase, session, queries, sent, bfbuf, pgbuf, failed, torn, cuts>>

\* What PostgreSQL says of its own accord: a NotificationResponse, a
\* ParameterStatus, a NoticeResponse.
Notice == [of |-> [id |-> sent + 1, by |-> session, kind |-> "none"], what |-> "notice"]

\* Bound: one at a time is unread.
Notify ==
    /\ session > 0
    /\ inq = <<>>
    /\ \A m \in ToSet(wire \o bfbuf \o pgbuf) : m.what # "notice"
    /\ wire' = wire \o <<Notice>>
    /\ UNCHANGED <<phase, session, queries, sent, inq, expects, bfbuf, pgbuf, failed, torn, cuts>>

-----------------------------------------------------------------------------
(* handleMessage and relayBackendResponse *)

\* Mutant of ClientSends: the message is not forwarded, its answer awaited.
ClientSendsNothing ==
    /\ phase = "serve"
    /\ queries < MaxQueries
    /\ phase' = "relay"
    /\ queries' = queries + 1
    /\ UNCHANGED <<session, sent, inq, expects, wire, bfbuf, pgbuf, failed, torn, cuts>>

\* Mutant of ClientSends: the message is sent again.
ClientSendsTwice ==
    /\ phase = "serve"
    /\ queries < MaxQueries
    /\ phase' = "relay"
    /\ queries' = queries + 1
    /\ sent' = sent + 2
    /\ inq' = inq \o [i \in 1..2 |-> [id |-> sent + i, by |-> session, kind |-> "query"]]
    /\ UNCHANGED <<session, expects, wire, bfbuf, pgbuf, failed, torn, cuts>>

\* A client message is forwarded to the backend.
ClientSends ==
    /\ phase = "serve"
    /\ queries < MaxQueries
    /\ phase' = "relay"
    /\ queries' = queries + 1
    /\ \E kind \in Requests : Send(kind, session)
    /\ UNCHANGED <<session, expects, wire, bfbuf, pgbuf, failed, torn, cuts>>

\* bf reads what the socket holds, any number of messages of it.
BfReads ==
    /\ phase = "relay"
    /\ bfbuf = <<>>
    /\ ~torn
    /\ \E n \in 1..Len(wire) :
        /\ bfbuf' = SubSeq(wire, 1, n)
        /\ wire' = SubSeq(wire, n + 1, Len(wire))
    /\ UNCHANGED <<phase, session, queries, sent, inq, expects, pgbuf, failed, torn, cuts>>

\* Mutant of EndsResponse: an ErrorResponse ends it.
EndsResponseOnError(m) == m.what \in {"ready", "error"}

\* What ends relayBackendResponse: ReadyForQuery, and nothing else.
EndsResponse(m) == m.what = "ready"

\* The next message is passed to the client.
RelayMessage ==
    /\ phase = "relay"
    /\ bfbuf # <<>>
    /\ bfbuf' = Tail(bfbuf)
    /\ phase' = IF EndsResponse(Head(bfbuf)) THEN "serve" ELSE "relay"
    /\ UNCHANGED <<session, queries, sent, inq, expects, wire, pgbuf, failed, torn, cuts>>

-----------------------------------------------------------------------------
(* The end of a session *)

\* bf is dropped with what it read, which may end inside a message.
DropFrontend ==
    /\ bfbuf' = <<>>
    /\ torn' \in {torn, torn \/ wire # <<>>}

\* The stream continues inside a message, and Receive of bf takes what it
\* reads for a header: it announces a length that never arrives, or is an
\* error, which ends the session as a lost client does.
BfReadsTorn ==
    /\ phase = "relay"
    /\ bfbuf = <<>>
    /\ torn
    /\ \/ /\ phase' = "stuck"
          /\ UNCHANGED <<sent, inq, failed, bfbuf, torn>>
       \/ Exec("rollback", session) /\ DropFrontend
    /\ UNCHANGED <<session, queries, expects, wire, pgbuf, cuts>>

\* The client terminates between two requests: ROLLBACK.
ClientLeaves ==
    /\ phase = "serve"
    /\ Exec("rollback", session)
    /\ DropFrontend
    /\ UNCHANGED <<session, queries, expects, wire, pgbuf, cuts>>

\* Mutant of ClientLost: the connection is released without a reset.
ClientLostReleases ==
    /\ phase = "relay"
    /\ bfbuf # <<>>
    /\ cuts < MaxCuts
    /\ cuts' = cuts + 1
    /\ phase' = "idle"
    /\ DropFrontend
    /\ UNCHANGED <<session, queries, sent, inq, expects, wire, pgbuf, failed>>

\* The message at hand cannot be written to the client: ROLLBACK at once.
ClientLost ==
    /\ phase = "relay"
    /\ bfbuf # <<>>
    /\ cuts < MaxCuts
    /\ cuts' = cuts + 1
    /\ Exec("rollback", session)
    /\ DropFrontend
    /\ UNCHANGED <<session, queries, expects, wire, pgbuf>>

-----------------------------------------------------------------------------
(* The pool, and pgconn *)

\* A session acquires the connection, which is pinged.
Acquire ==
    /\ phase = "idle"
    /\ session < MaxSessions
    /\ session' = session + 1
    /\ Exec("ping", session + 1)
    /\ UNCHANGED <<queries, expects, wire, bfbuf, pgbuf, torn, cuts>>

PgReads ==
    /\ phase \in Own
    /\ pgbuf = <<>>
    /\ ~torn
    /\ \E n \in 1..Len(wire) :
        /\ pgbuf' = SubSeq(wire, 1, n)
        /\ wire' = SubSeq(wire, n + 1, Len(wire))
    /\ UNCHANGED <<phase, session, queries, sent, inq, expects, bfbuf, failed, torn, cuts>>

\* The stream continues inside a message: what is read as a header is an
\* error, or announces a length that never arrives.
PgReadsTorn ==
    /\ phase \in Own
    /\ pgbuf = <<>>
    /\ torn
    /\ phase' \in {"closed", "stuck"}
    /\ UNCHANGED <<session, queries, sent, inq, expects, wire, bfbuf, pgbuf, failed, torn, cuts>>

\* pgconn skips to the first ReadyForQuery and notes an error on the way.
PgSkips ==
    /\ phase \in Own
    /\ pgbuf # <<>>
    /\ Head(pgbuf).what # "ready"
    /\ failed' = (failed \/ Head(pgbuf).what = "error")
    /\ pgbuf' = Tail(pgbuf)
    /\ UNCHANGED <<phase, session, queries, sent, inq, expects, wire, bfbuf, torn, cuts>>

\* The statement returns.  A failed ping releases the connection; a failed
\* ROLLBACK ends the reset; DISCARD ALL is followed by Release in any case.
PgReturns ==
    /\ phase \in Own
    /\ pgbuf # <<>>
    /\ Head(pgbuf).what = "ready"
    /\ pgbuf' = Tail(pgbuf)
    /\ IF phase = "rollback" /\ ~failed
       THEN Exec("discard", session)
       ELSE /\ phase' = IF phase = "ping" /\ ~failed THEN "serve" ELSE "idle"
            /\ UNCHANGED <<sent, inq, failed>>
    /\ UNCHANGED <<session, queries, expects, wire, bfbuf, torn, cuts>>

\* The pool closes the connection: at Release because of the status pgconn
\* cached, or later.
CloseIdle ==
    /\ phase = "idle"
    /\ phase' = "closed"
    /\ UNCHANGED <<session, queries, sent, inq, expects, wire, bfbuf, pgbuf, failed, torn, cuts>>

Next ==
    \/ Serve \/ Notify
    \/ ClientSends \/ BfReads \/ BfReadsTorn \/ RelayMessage
    \/ ClientLeaves \/ ClientLost
    \/ Acquire \/ PgReads \/ PgReadsTorn \/ PgSkips \/ PgReturns \/ CloseIdle

Spec == Init /\ [][Next]_vars

-----------------------------------------------------------------------------

\* What a session may still be given: what bf has read ahead, then the socket.
Stream == bfbuf \o wire

\* ReadyForQuery messages in a sequence: the ends of responses.
Replies(s) == Cardinality({i \in DOMAIN s : s[i].what = "ready"})

\* Replies to requests, complete or on their way, that nobody has read.
Unread == Len(inq) + Replies(Stream) + Replies(pgbuf)

Waiting == phase \in Own \cup {"relay"}

\* As long as no client vanished, the two readers never see each other's
\* messages: whatever has been read ahead or waits in the socket answers the
\* request the proxy is waiting for, or is something PostgreSQL said of its own
\* accord (message.go:70-95, startup.go:52-55).  A session that ends while bf
\* has such a thing in part leaves a torn stream even so.
InStep ==
    cuts = 0 /\ ~torn =>
        \A m \in ToSet(wire \o bfbuf \o pgbuf) :
            m.what # "notice" => Waiting /\ m.of.id = sent

\* A vanished client leaves at most one reply too many on an intact stream,
\* and no sequence of later sessions adds to it.
LagBounded == phase \notin {"closed", "stuck"} /\ ~torn =>
    Unread <= cuts + (IF Waiting THEN 1 ELSE 0)

\* Whoever waits for ReadyForQuery on an intact stream will read one: a
\* reply kept in the other reader's buffer, or lost with it, is never the one
\* it needs.
ReplyOnItsWay ==
    Waiting /\ ~torn =>
        LET buf == IF phase = "relay" THEN bfbuf ELSE pgbuf IN
        \/ \E m \in ToSet(buf \o wire) : m.what = "ready"
        \/ \E r \in ToSet(inq) : r.kind \notin {"parse", "copy"}

\* The proxy's own statements between two sessions stand between a client
\* and the results of the session before: to be given a message that answers
\* a request of another client takes several vanished clients.
ForeignResults ==
    \A m \in ToSet(bfbuf) :
        m.of.kind \in Requests /\ m.of.by # session => cuts >= 3

\* docs/cli.md:446: the proxy is completely transparent to both sides: the
\* response a client is given is the response to its request.
ReplyMatchesRequest ==
    phase = "relay" /\ bfbuf # <<>> =>
        Head(bfbuf).what = "notice" \/ Head(bfbuf).of.id = sent

\* docs/postgres-proxy-system-explanation.md:607-624: parse, bind, describe
\* and execute messages are relayed like queries: their response comes.
EveryMessageAnswered == ReplyOnItsWay
=============================================================================
