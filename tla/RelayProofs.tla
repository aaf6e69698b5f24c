---------------------------- MODULE RelayProofs ----------------------------
(***************************************************************************)
(* Theorems about Relay, for any number of sessions, requests and clients  *)
(* that vanish: its types, that the two readers of a pool connection are   *)
(* in step until a client vanishes, and that a reader of an intact stream  *)
(* is never left without the ReadyForQuery it waits for.                   *)
(***************************************************************************)
EXTENDS Relay, SequenceTheorems, TLAPS

-----------------------------------------------------------------------------
(* Types *)

\* A connection that is in use is in use by a session.
TypeInv ==
    /\ TypeOK
    /\ phase \in {"serve", "relay"} \cup Own => session \in 1..MaxSessions

\* Requests are numbered upwards: those of before are requests still.
LEMMA NumbersGrow ==
    ASSUME sent \in Nat, sent' \in Nat, sent =< sent'
    PROVE  Seq(Request) \subseteq Seq(Request)' /\ Seq(Message) \subseteq Seq(Message)'
  <1>1. Request \subseteq Request'
    BY DEF Request
  <1>5. NoRequest \subseteq NoRequest'
    BY DEF NoRequest
  <1>2. Message \subseteq Message'
    BY <1>1, <1>5 DEF Message
  <1>3. \A s \in Seq(Request) : s \in Seq(Request)'
    BY <1>1, SeqMonotonic
  <1>4. \A s \in Seq(Message) : s \in Seq(Message)'
    BY <1>2, SeqMonotonic
  <1> QED BY <1>3, <1>4

\* A request that is sent is the last one, under a number of its own.
LEMMA SendAppends ==
    ASSUME TypeOK, NEW kind \in Requests \cup Own, NEW s \in 1..MaxSessions, Send(kind, s)
    PROVE  /\ sent' \in Nat /\ sent' = sent + 1
           /\ inq' \in Seq(Request)' /\ Len(inq') = Len(inq) + 1
           /\ inq'[Len(inq) + 1].id = sent' /\ inq'[Len(inq) + 1].kind = kind
           /\ \A i \in 1..Len(inq) : inq'[i] = inq[i]
           /\ Seq(Request) \subseteq Seq(Request)' /\ Seq(Message) \subseteq Seq(Message)'
  <1> DEFINE r == [id |-> sent + 1, by |-> s, kind |-> kind]
  <1>1. sent \in Nat /\ sent' = sent + 1 /\ inq' = Append(inq, r)
    BY DEF TypeOK, Send
  <1>2. Seq(Request) \subseteq Seq(Request)' /\ Seq(Message) \subseteq Seq(Message)'
    BY <1>1, NumbersGrow
  <1>3. r \in Request' /\ r.id = sent' /\ r.kind = kind
    BY <1>1 DEF Request
  <1>4. inq \in Seq(Request)'
    BY <1>2 DEF TypeOK
  <1> HIDE DEF r
  <1>5. /\ inq' \in Seq(Request)' /\ Len(inq') = Len(inq) + 1 /\ inq'[Len(inq) + 1] = r
        /\ \A i \in 1..Len(inq) : inq'[i] = inq[i]
    BY <1>1, <1>3, <1>4, AppendProperties
  <1> QED BY <1>1, <1>2, <1>3, <1>5

\* What PostgreSQL answers to a request.
LEMMA AnswersAreMessages ==
    ASSUME NEW r \in Request, NEW answer \in Responses(r)
    PROVE  /\ answer \in Seq(Message)
           /\ \A i \in 1..Len(answer) :
                /\ answer[i].of = r /\ answer[i].what # "notice"
                /\ answer[i].what = "ready" => i = Len(answer)
           /\ expects = "request" /\ r.kind \notin {"parse", "copy"} =>
                Len(answer) > 0 /\ answer[Len(answer)].what = "ready"
           /\ ExpectsAfter(answer) \in {expects, "request", "sync", "copy"}
  <1> DEFINE Say(what) == [of |-> r, what |-> what]
             Answered == {<<Say("part"), Say("ready")>>,
                          <<Say("part"), Say("error"), Say("ready")>>}
  <1>1. /\ answer \in Answered \cup {<<Say("error"), Say("ready")>>, <<>>, <<Say("part")>>,
                                     <<Say("error")>>}
        /\ expects = "request" /\ r.kind \notin {"parse", "copy"} => answer \in Answered
    BY DEF Responses
  <1>2. \A what \in {"part", "error", "ready"} :
             Say(what) \in Message /\ Say(what).of = r /\ Say(what).what = what
    BY DEF Message
  <1>e. ExpectsAfter(answer) \in {expects, "request", "sync", "copy"}
    BY DEF ExpectsAfter
  <1> HIDE DEF Say
  <1>3. CASE answer = <<Say("part"), Say("ready")>>
    <2>1. Len(answer) = 2 /\ answer[1] = Say("part") /\ answer[2] = Say("ready")
      BY <1>3
    <2>2. answer \in Seq(Message)
      BY <1>2, <1>3
    <2> QED BY <1>2, <1>e, <2>1, <2>2
  <1>4. CASE answer = <<Say("part"), Say("error"), Say("ready")>>
    <2>1. /\ Len(answer) = 3 /\ answer[1] = Say("part") /\ answer[2] = Say("error")
          /\ answer[3] = Say("ready")
      BY <1>4
    <2>2. answer \in Seq(Message)
      BY <1>2, <1>4
    <2> QED BY <1>2, <1>e, <2>1, <2>2
  <1>5. CASE answer = <<Say("error"), Say("ready")>>
    <2>1. Len(answer) = 2 /\ answer[1] = Say("error") /\ answer[2] = Say("ready")
      BY <1>5
    <2>2. answer \in Seq(Message)
      BY <1>2, <1>5
    <2> QED BY <1>2, <1>e, <2>1, <2>2
  <1>6. CASE answer = <<>>
    <2>1. Len(answer) = 0 /\ answer \in Seq(Message)
      BY <1>6, EmptySeq
    <2>2. answer \notin Answered
      BY <1>6
    <2> QED BY <1>1, <1>e, <2>1, <2>2
  <1>7. ASSUME NEW what \in {"part", "error"}, answer = <<Say(what)>>
        PROVE  /\ answer \in Seq(Message) /\ answer \notin Answered
               /\ \A i \in 1..Len(answer) :
                    /\ answer[i].of = r /\ answer[i].what # "notice"
                    /\ answer[i].what = "ready" => i = Len(answer)
    <2>1. Len(answer) = 1 /\ answer[1] = Say(what) /\ answer \notin Answered
      BY <1>7
    <2>2. answer \in Seq(Message)
      BY <1>2, <1>7
    <2>3. answer[1].of = r /\ answer[1].what \in {"part", "error"}
      BY <1>2, <2>1
    <2>4. \A i \in 1..Len(answer) : i = 1
      BY <2>1
    <2>5. answer[1].what # "notice" /\ answer[1].what # "ready"
      BY <2>3
    <2> QED BY <2>1, <2>2, <2>3, <2>4, <2>5
  <1> QED BY <1>1, <1>e, <1>3, <1>4, <1>5, <1>6, <1>7

\* What a reader takes from the socket, and what it leaves there.
LEMMA ReadsSplit ==
    ASSUME NEW S, NEW s \in Seq(S), NEW n \in 1..Len(s)
    PROVE  LET a == SubSeq(s, 1, n)
               b == SubSeq(s, n + 1, Len(s))
           IN  /\ a \in Seq(S) /\ b \in Seq(S) /\ Len(a) = n /\ Len(b) = Len(s) - n
               /\ \A i \in 1..n : a[i] = s[i]
               /\ \A i \in 1..(Len(s) - n) : b[i] = s[n + i]
  <1>1. Len(s) \in Nat /\ n \in Nat /\ \A i \in 1..Len(s) : s[i] \in S
    OBVIOUS
  <1>2. /\ SubSeq(s, 1, n) \in Seq(S) /\ Len(SubSeq(s, 1, n)) = n
        /\ \A i \in 1..n : SubSeq(s, 1, n)[i] = s[i]
    <2>1. \A i \in 1..n : s[i] \in S
      BY <1>1
    <2>2. 1 \in Int /\ n \in Int /\ 1 =< n
      BY <1>1
    <2>3. /\ SubSeq(s, 1, n) \in Seq(S) /\ Len(SubSeq(s, 1, n)) = n - 1 + 1
          /\ \A i \in 1..(n - 1 + 1) : SubSeq(s, 1, n)[i] = s[1 + i - 1]
      BY <2>1, <2>2, SubSeqProperties
    <2> QED BY <1>1, <2>3
  <1>3. /\ SubSeq(s, n + 1, Len(s)) \in Seq(S) /\ Len(SubSeq(s, n + 1, Len(s))) = Len(s) - n
        /\ \A i \in 1..(Len(s) - n) : SubSeq(s, n + 1, Len(s))[i] = s[n + i]
    <2>1. \A i \in (n + 1)..Len(s) : s[i] \in S
      BY <1>1
    <2>2. n + 1 \in Int /\ Len(s) \in Int
      BY <1>1
    <2>3. /\ SubSeq(s, n + 1, Len(s)) \in Seq(S)
          /\ Len(SubSeq(s, n + 1, Len(s))) =
                IF n + 1 =< Len(s) THEN Len(s) - (n + 1) + 1 ELSE 0
          /\ \A i \in 1..(Len(s) - (n + 1) + 1) :
                SubSeq(s, n + 1, Len(s))[i] = s[(n + 1) + i - 1]
      BY <2>1, <2>2, SubSeqProperties
    <2> QED BY <1>1, <2>3
  <1> QED BY <1>2, <1>3

\* The bounds are numbers.
LEMMA Bounds == MaxSessions \in Nat /\ MaxQueries \in Nat /\ MaxCuts \in Nat
  BY RelayAssumption DEF RelayAssumption

\* No session has come yet.
LEMMA TypeInit == Init => TypeInv
  <1>1. SUFFICES ASSUME Init PROVE TypeInv
    OBVIOUS
  <1>2. <<>> \in Seq(Request) /\ <<>> \in Seq(Message)
    BY EmptySeq
  <1>3. 0 \in 0..MaxSessions /\ 0 \in 0..MaxQueries /\ 0 \in 0..MaxCuts
    BY Bounds
  <1>4. sent = 0 /\ inq = <<>> /\ wire = <<>> /\ bfbuf = <<>> /\ pgbuf = <<>>
    BY <1>1 DEF Init
  <1>5. /\ inq \in Seq(Request) /\ {wire, bfbuf, pgbuf} \subseteq Seq(Message)
        /\ expects = "request"
    BY <1>1, <1>2, <1>4 DEF Init
  <1>6. /\ session \in 0..MaxSessions /\ queries \in 0..MaxQueries /\ cuts \in 0..MaxCuts
        /\ sent \in Nat /\ failed \in BOOLEAN /\ torn \in BOOLEAN
    BY <1>1, <1>3 DEF Init
  <1>7. phase = "idle" /\ phase \notin {"serve", "relay"} \cup Own
    BY <1>1 DEF Init, Own
  <1> QED BY <1>5, <1>6, <1>7 DEF TypeInv, TypeOK

\* The sequences that a step leaves alone keep their type.
LEMMA StillTyped ==
    ASSUME TypeOK, sent' \in Nat, sent =< sent'
    PROVE  /\ \A s \in Seq(Request) : s \in Seq(Request)'
           /\ \A s \in Seq(Message) : s \in Seq(Message)'
  BY NumbersGrow DEF TypeOK

\* A statement of the proxy's own.
LEMMA ExecTyped ==
    ASSUME TypeOK, NEW stmt \in Own, NEW s \in 1..MaxSessions, Exec(stmt, s)
    PROVE  /\ phase' = stmt /\ failed' = FALSE
           /\ sent' \in Nat /\ sent' = sent + 1
           /\ inq' \in Seq(Request)' /\ Len(inq') = Len(inq) + 1
           /\ inq'[Len(inq) + 1].id = sent' /\ inq'[Len(inq) + 1].kind = stmt
           /\ \A i \in 1..Len(inq) : inq'[i] = inq[i]
           /\ \A q \in Seq(Message) : q \in Seq(Message)'
  <1>1. stmt \in Requests \cup Own /\ Send(stmt, s) /\ phase' = stmt /\ failed' = FALSE
    BY DEF Exec
  <1>2. /\ sent' \in Nat /\ sent' = sent + 1
        /\ inq' \in Seq(Request)' /\ Len(inq') = Len(inq) + 1
        /\ inq'[Len(inq) + 1].id = sent' /\ inq'[Len(inq) + 1].kind = stmt
        /\ \A i \in 1..Len(inq) : inq'[i] = inq[i]
        /\ Seq(Request) \subseteq Seq(Request)' /\ Seq(Message) \subseteq Seq(Message)'
    BY <1>1, SendAppends
  <1> QED BY <1>1, <1>2

\* The types as the prover is told them when the numbers of requests stay.
LEMMA SameNumbers ==
    ASSUME UNCHANGED sent
    PROVE  Seq(Request)' = Seq(Request) /\ Seq(Message)' = Seq(Message)
  BY DEF Request, NoRequest, Message

\* What PostgreSQL says of its own accord is a message.
LEMMA NoticeTyped ==
    ASSUME TypeInv, Notify
    PROVE  /\ <<Notice>> \in Seq(Message) /\ Len(<<Notice>>) = 1
           /\ \A i \in 1..Len(<<Notice>>) :
                /\ <<Notice>>[i].what = "notice"
                /\ <<Notice>>[i].of.id = sent + 1 /\ <<Notice>>[i].of.kind = "none"
  <1>1. session \in 1..MaxSessions /\ sent \in Nat
    BY Bounds DEF Notify, TypeInv, TypeOK
  <1>2. /\ Notice \in Message /\ Notice.what = "notice"
        /\ Notice.of.id = sent + 1 /\ Notice.of.kind = "none"
    BY <1>1 DEF Notice, NoRequest, Message
  <1> QED BY <1>2

\* Every step keeps the types; requests get the session that leases the
\* connection, and numbers that are not used yet.
LEMMA TypeStep == TypeInv /\ [Next]_vars => TypeInv'
  <1> SUFFICES ASSUME TypeInv, [Next]_vars PROVE TypeInv'
    OBVIOUS
  <1> USE RelayAssumption DEF Own, RelayAssumption
  <1>1. CASE Serve
    <2>1. PICK answer \in Responses(Head(inq)) :
              wire' = wire \o answer /\ expects' = ExpectsAfter(answer)
      BY <1>1 DEF Serve
    <2>2. Head(inq) \in Request /\ Tail(inq) \in Seq(Request)
      BY <1>1, HeadTailProperties DEF Serve, TypeInv, TypeOK
    <2>3. answer \in Seq(Message) /\ expects' \in {expects, "request", "sync", "copy"}
      BY <2>1, <2>2, AnswersAreMessages
    <2>4. wire' \in Seq(Message)
      BY <2>1, <2>3, ConcatProperties DEF TypeInv, TypeOK
    <2>5. Seq(Request)' = Seq(Request) /\ Seq(Message)' = Seq(Message)
      BY <1>1, SameNumbers DEF Serve
    <2> QED BY <1>1, <2>2, <2>3, <2>4, <2>5 DEF Serve, TypeInv, TypeOK
  <1>2. CASE ClientSends
    <2>1. PICK kind \in Requests : Send(kind, session)
      BY <1>2 DEF ClientSends
    <2>2. session \in 1..MaxSessions /\ TypeOK
      BY <1>2 DEF ClientSends, TypeInv
    <2>3. /\ sent' \in Nat /\ inq' \in Seq(Request)' /\ Seq(Message) \subseteq Seq(Message)'
      BY <2>1, <2>2, SendAppends
    <2> QED BY <1>2, <2>2, <2>3 DEF ClientSends, TypeInv, TypeOK
  <1>3. CASE BfReads
    <2>1. PICK n \in 1..Len(wire) : /\ bfbuf' = SubSeq(wire, 1, n)
                                    /\ wire' = SubSeq(wire, n + 1, Len(wire))
      BY <1>3 DEF BfReads
    <2>2. bfbuf' \in Seq(Message) /\ wire' \in Seq(Message)
      BY <2>1, ReadsSplit DEF TypeInv, TypeOK
    <2>3. Seq(Request)' = Seq(Request) /\ Seq(Message)' = Seq(Message)
      BY <1>3, SameNumbers DEF BfReads
    <2> QED BY <1>3, <2>2, <2>3 DEF BfReads, TypeInv, TypeOK
  <1>4. CASE RelayMessage
    <2>1. Tail(bfbuf) \in Seq(Message)
      BY <1>4, HeadTailProperties DEF RelayMessage, TypeInv, TypeOK
    <2>2. Seq(Request)' = Seq(Request) /\ Seq(Message)' = Seq(Message)
      BY <1>4, SameNumbers DEF RelayMessage
    <2> QED BY <1>4, <2>1, <2>2 DEF RelayMessage, TypeInv, TypeOK
  <1>5. CASE ClientLeaves
    <2>1. TypeOK /\ session \in 1..MaxSessions /\ Exec("rollback", session)
      BY <1>5 DEF ClientLeaves, TypeInv
    <2>2. /\ phase' = "rollback" /\ failed' = FALSE /\ sent' \in Nat /\ inq' \in Seq(Request)'
          /\ \A q \in Seq(Message) : q \in Seq(Message)'
      BY <2>1, ExecTyped
    <2>3. bfbuf' \in Seq(Message)' /\ torn' \in BOOLEAN
      BY <1>5, EmptySeq DEF ClientLeaves, DropFrontend, TypeInv, TypeOK
    <2> QED BY <1>5, <2>1, <2>2, <2>3 DEF ClientLeaves, TypeInv, TypeOK
  <1>6. CASE ClientLost
    <2>1. TypeOK /\ session \in 1..MaxSessions /\ Exec("rollback", session)
      BY <1>6 DEF ClientLost, TypeInv
    <2>2. /\ phase' = "rollback" /\ failed' = FALSE /\ sent' \in Nat /\ inq' \in Seq(Request)'
          /\ \A q \in Seq(Message) : q \in Seq(Message)'
      BY <2>1, ExecTyped
    <2>3. bfbuf' \in Seq(Message)' /\ torn' \in BOOLEAN
      BY <1>6, EmptySeq DEF ClientLost, DropFrontend, TypeInv, TypeOK
    <2>4. cuts' \in 0..MaxCuts
      BY <1>6, Bounds DEF ClientLost, TypeInv, TypeOK
    <2>5. wire' \in Seq(Message)' /\ pgbuf' \in Seq(Message)'
      BY <1>6, <2>2 DEF ClientLost, TypeInv, TypeOK
    <2> QED BY <1>6, <2>1, <2>2, <2>3, <2>4, <2>5 DEF ClientLost, TypeInv, TypeOK
  <1>7. CASE Acquire
    <2>1. TypeOK /\ session + 1 \in 1..MaxSessions /\ Exec("ping", session + 1)
      BY <1>7 DEF Acquire, TypeInv, TypeOK
    <2>2. /\ phase' = "ping" /\ failed' = FALSE /\ sent' \in Nat /\ inq' \in Seq(Request)'
          /\ \A q \in Seq(Message) : q \in Seq(Message)'
      BY <2>1, ExecTyped
    <2>3. session' \in 1..MaxSessions
      BY <1>7, <2>1, Bounds DEF Acquire, TypeInv, TypeOK
    <2>4. wire' \in Seq(Message)' /\ bfbuf' \in Seq(Message)' /\ pgbuf' \in Seq(Message)'
      BY <1>7, <2>2 DEF Acquire, TypeInv, TypeOK
    <2>5. session' \in 0..MaxSessions
      BY <2>3, Bounds
    <2> QED BY <1>7, <2>1, <2>2, <2>3, <2>4, <2>5 DEF Acquire, TypeInv, TypeOK
  <1>8. CASE PgReads
    <2>1. PICK n \in 1..Len(wire) : /\ pgbuf' = SubSeq(wire, 1, n)
                                    /\ wire' = SubSeq(wire, n + 1, Len(wire))
      BY <1>8 DEF PgReads
    <2>2. pgbuf' \in Seq(Message) /\ wire' \in Seq(Message)
      BY <2>1, ReadsSplit DEF TypeInv, TypeOK
    <2>3. Seq(Request)' = Seq(Request) /\ Seq(Message)' = Seq(Message)
      BY <1>8, SameNumbers DEF PgReads
    <2> QED BY <1>8, <2>2, <2>3 DEF PgReads, TypeInv, TypeOK
  <1>9. CASE PgReadsTorn
    <2>1. Seq(Request)' = Seq(Request) /\ Seq(Message)' = Seq(Message)
      BY <1>9, SameNumbers DEF PgReadsTorn
    <2> QED BY <1>9, <2>1 DEF PgReadsTorn, TypeInv, TypeOK
  <1>10. CASE PgSkips
    <2>1. Tail(pgbuf) \in Seq(Message)
      BY <1>10, HeadTailProperties DEF PgSkips, TypeInv, TypeOK
    <2>2. Seq(Request)' = Seq(Request) /\ Seq(Message)' = Seq(Message)
      BY <1>10, SameNumbers DEF PgSkips
    <2>3. failed' \in BOOLEAN
      BY <1>10 DEF PgSkips, TypeInv, TypeOK
    <2> QED BY <1>10, <2>1, <2>2, <2>3 DEF PgSkips, TypeInv, TypeOK
  <1>11. CASE PgReturns
    <2>1. Tail(pgbuf) \in Seq(Message) /\ TypeOK /\ session \in 1..MaxSessions
      BY <1>11, HeadTailProperties DEF PgReturns, TypeInv, TypeOK
    <2>2. CASE phase = "rollback" /\ ~failed
      <3>1. Exec("discard", session)
        BY <1>11, <2>2 DEF PgReturns
      <3>2. /\ phase' = "discard" /\ failed' = FALSE /\ sent' \in Nat
            /\ inq' \in Seq(Request)' /\ \A q \in Seq(Message) : q \in Seq(Message)'
        BY <2>1, <3>1, ExecTyped
      <3> QED BY <1>11, <2>1, <3>2 DEF PgReturns, TypeInv, TypeOK
    <2>3. CASE ~(phase = "rollback" /\ ~failed)
      <3>1. /\ phase' \in {"serve", "idle"}
            /\ UNCHANGED <<sent, inq, failed>>
        BY <1>11, <2>3 DEF PgReturns
      <3>2. Seq(Request)' = Seq(Request) /\ Seq(Message)' = Seq(Message)
        BY <3>1, SameNumbers
      <3> QED BY <1>11, <2>1, <3>1, <3>2 DEF PgReturns, TypeInv, TypeOK
    <2> QED BY <2>2, <2>3
  <1>12. CASE CloseIdle
    <2>1. Seq(Request)' = Seq(Request) /\ Seq(Message)' = Seq(Message)
      BY <1>12, SameNumbers DEF CloseIdle
    <2> QED BY <1>12, <2>1 DEF CloseIdle, TypeInv, TypeOK
  <1>13. CASE UNCHANGED vars
    <2>1. Seq(Request)' = Seq(Request) /\ Seq(Message)' = Seq(Message)
      BY <1>13, SameNumbers DEF vars
    <2> QED BY <1>13, <2>1 DEF vars, TypeInv, TypeOK
  <1>14. CASE Notify
    <2>1. wire' \in Seq(Message)
      BY <1>14, NoticeTyped, ConcatProperties DEF Notify, TypeInv, TypeOK
    <2>2. Seq(Request)' = Seq(Request) /\ Seq(Message)' = Seq(Message)
      BY <1>14, SameNumbers DEF Notify
    <2> QED BY <1>14, <2>1, <2>2 DEF Notify, TypeInv, TypeOK
  <1>15. CASE BfReadsTorn
    <2>1. CASE phase' = "stuck" /\ UNCHANGED <<sent, inq, failed, bfbuf, torn>>
      <3>1. Seq(Request)' = Seq(Request) /\ Seq(Message)' = Seq(Message)
        BY <2>1, SameNumbers
      <3> QED BY <1>15, <2>1, <3>1 DEF BfReadsTorn, TypeInv, TypeOK
    <2>2. CASE Exec("rollback", session) /\ DropFrontend
      <3>1. TypeOK /\ session \in 1..MaxSessions
        BY <1>15 DEF BfReadsTorn, TypeInv
      <3>2. /\ phase' = "rollback" /\ failed' = FALSE /\ sent' \in Nat
            /\ inq' \in Seq(Request)' /\ \A q \in Seq(Message) : q \in Seq(Message)'
        BY <2>2, <3>1, ExecTyped
      <3>3. bfbuf' \in Seq(Message)' /\ torn' \in BOOLEAN
        BY <2>2, EmptySeq DEF DropFrontend, TypeInv, TypeOK
      <3> QED BY <1>15, <3>1, <3>2, <3>3 DEF BfReadsTorn, TypeInv, TypeOK
    <2> QED BY <1>15, <2>1, <2>2 DEF BfReadsTorn
  <1> QED BY <1>1, <1>2, <1>3, <1>4, <1>5, <1>6, <1>7, <1>8, <1>9, <1>10, <1>11, <1>12,
             <1>13, <1>14, <1>15 DEF Next

\* The relay keeps its types: message and request numbers, the session that
\* leases the connection, what the two readers have buffered.
THEOREM RelayTyped == Spec => []TypeOK
  <1>1. Init => TypeInv
    BY TypeInit
  <1>2. TypeInv /\ [Next]_vars => TypeInv'
    BY TypeStep
  <1>3. TypeInv => TypeOK
    BY DEF TypeInv
  <1> QED BY <1>1, <1>2, <1>3, PTL DEF Spec

-----------------------------------------------------------------------------
(* Whoever waits for ReadyForQuery will read one *)

HasReady(s) == \E i \in 1..Len(s) : s[i].what = "ready"

\* One of them is in the buffer of the reader that waits, in the socket, or
\* owed by PostgreSQL.
ReplyInv ==
    Waiting /\ ~torn =>
        \/ HasReady(IF phase = "relay" THEN bfbuf ELSE pgbuf)
        \/ HasReady(wire)
        \/ inq # <<>>

\* A reader that reads ahead loses nothing.
LEMMA ReadKeepsReady ==
    ASSUME NEW s \in Seq(Message), HasReady(s), NEW n \in 1..Len(s)
    PROVE  HasReady(SubSeq(s, 1, n)) \/ HasReady(SubSeq(s, n + 1, Len(s)))
  <1> DEFINE a == SubSeq(s, 1, n)
             b == SubSeq(s, n + 1, Len(s))
  <1>1. /\ Len(a) = n /\ Len(b) = Len(s) - n
        /\ \A i \in 1..n : a[i] = s[i]
        /\ \A i \in 1..(Len(s) - n) : b[i] = s[n + i]
    BY ReadsSplit
  <1>2. PICK i \in 1..Len(s) : s[i].what = "ready"
    BY DEF HasReady
  <1>3. Len(s) \in Nat /\ n \in Nat /\ i \in Nat
    OBVIOUS
  <1> HIDE DEF a, b
  <1>4. CASE i =< n
    <2>1. i \in 1..n
      BY <1>2, <1>3, <1>4
    <2>2. a[i] = s[i] /\ i \in 1..Len(a)
      BY <1>1, <2>1
    <2> QED BY <1>2, <2>2 DEF HasReady, a
  <1>5. CASE ~(i =< n)
    <2>1. i - n \in 1..(Len(s) - n) /\ n + (i - n) = i
      BY <1>2, <1>3, <1>5
    <2>2. b[i - n] = s[i] /\ i - n \in 1..Len(b)
      BY <1>1, <2>1
    <2> QED BY <1>2, <2>2 DEF HasReady, b
  <1> QED BY <1>4, <1>5

\* One that takes a message which is not the one it waits for has it to come.
LEMMA SkipKeepsReady ==
    ASSUME NEW s \in Seq(Message), s # <<>>, s[1].what # "ready", HasReady(s)
    PROVE  HasReady(Tail(s))
  <1>1. PICK i \in 1..Len(s) : s[i].what = "ready"
    BY DEF HasReady
  <1>2. Len(s) \in Nat /\ i \in Nat /\ i # 1
    BY <1>1
  <1>3. Len(Tail(s)) = Len(s) - 1 /\ \A j \in 1..Len(Tail(s)) : Tail(s)[j] = s[j + 1]
    BY HeadTailProperties
  <1>4. i - 1 \in 1..Len(Tail(s)) /\ (i - 1) + 1 = i
    BY <1>1, <1>2, <1>3
  <1>5. Tail(s)[i - 1] = s[i]
    BY <1>3, <1>4
  <1> QED BY <1>1, <1>4, <1>5 DEF HasReady

\* The responses in the socket are followed by the next one.
LEMMA ConcatReady ==
    ASSUME NEW s \in Seq(Message), NEW t \in Seq(Message), HasReady(s) \/ HasReady(t)
    PROVE  HasReady(s \o t)
  <1>1. /\ Len(s \o t) = Len(s) + Len(t)
        /\ \A i \in 1..(Len(s) + Len(t)) :
              (s \o t)[i] = IF i =< Len(s) THEN s[i] ELSE t[i - Len(s)]
        /\ Len(s) \in Nat /\ Len(t) \in Nat
    BY ConcatProperties
  <1>2. CASE HasReady(s)
    <2>1. PICK i \in 1..Len(s) : s[i].what = "ready"
      BY <1>2 DEF HasReady
    <2>2. i \in 1..(Len(s) + Len(t)) /\ i =< Len(s)
      BY <1>1, <2>1
    <2>3. (s \o t)[i] = s[i]
      BY <1>1, <2>2
    <2> QED BY <1>1, <2>1, <2>2, <2>3 DEF HasReady
  <1>3. CASE HasReady(t)
    <2>1. PICK i \in 1..Len(t) : t[i].what = "ready"
      BY <1>3 DEF HasReady
    <2> DEFINE k == Len(s) + i
    <2>2. k \in 1..(Len(s) + Len(t)) /\ ~(k =< Len(s)) /\ k - Len(s) = i
      BY <1>1, <2>1
    <2> HIDE DEF k
    <2>3. (s \o t)[k] = t[i]
      BY <1>1, <2>2
    <2> QED BY <1>1, <2>1, <2>2, <2>3 DEF HasReady
  <1> QED BY <1>2, <1>3

\* A request of the proxy's own is owed an answer.
LEMMA ExecIsOwed ==
    ASSUME TypeOK, NEW stmt \in Own, NEW s \in 1..MaxSessions, Exec(stmt, s)
    PROVE  inq' # <<>>
  <1>1. Len(inq') = Len(inq) + 1 /\ inq' \in Seq(Request)'
    BY ExecTyped
  <1>2. Len(inq) \in Nat
    BY DEF TypeOK
  <1> QED BY <1>1, <1>2, EmptySeq

\* Queries are answered to their end, and never make PostgreSQL wait for data
\* or for a Sync.
LEMMA QueriesEnd ==
    ASSUME Requests \subseteq {"query"}, TypeInv, expects = "request", [Next]_vars
    PROVE  expects' = "request"
  <1>1. CASE Serve
    <2>1. PICK answer \in Responses(Head(inq)) : expects' = ExpectsAfter(answer)
      BY <1>1 DEF Serve
    <2>2. Head(inq) \in Request
      BY <1>1, HeadTailProperties DEF Serve, TypeInv, TypeOK
    <2>3. Head(inq).kind \notin {"parse", "copy"}
      BY <2>2 DEF Request, Own
    <2>4. answer \in Seq(Message) /\ Len(answer) > 0 /\ answer[Len(answer)].what = "ready"
      BY <2>2, <2>3, AnswersAreMessages
    <2>5. answer # <<>> /\ Last(answer).what = "ready"
      BY <2>4 DEF Last
    <2> QED BY <2>1, <2>5 DEF ExpectsAfter
  <1>2. CASE ~Serve
    BY <1>2 DEF Next, Notify, ClientSends, BfReads, BfReadsTorn, RelayMessage, ClientLeaves,
                ClientLost, Acquire, PgReads, PgReadsTorn, PgSkips, PgReturns, CloseIdle, vars
  <1> QED BY <1>1, <1>2

\* A stream that is torn stays so.
LEMMA TornStays ==
    ASSUME torn, torn \in BOOLEAN, [Next]_vars
    PROVE  torn'
  BY DEF Next, Serve, Notify, ClientSends, BfReads, BfReadsTorn, RelayMessage, ClientLeaves,
         ClientLost, DropFrontend, Acquire, PgReads, PgReadsTorn, PgSkips, PgReturns,
         CloseIdle, vars

\* Every step that makes somebody wait sends a request, every answer ends with
\* ReadyForQuery, and only who reads it stops waiting.
LEMMA ReplyStep ==
    ASSUME Requests \subseteq {"query"}
    PROVE  TypeInv /\ expects = "request" /\ ReplyInv /\ [Next]_vars => ReplyInv'
  <1> SUFFICES ASSUME TypeInv, expects = "request", ReplyInv, [Next]_vars PROVE ReplyInv'
    OBVIOUS
  <1> DEFINE buf == IF phase = "relay" THEN bfbuf ELSE pgbuf
  <1>0. TypeOK /\ wire \in Seq(Message) /\ bfbuf \in Seq(Message) /\ pgbuf \in Seq(Message)
    BY DEF TypeInv, TypeOK
  <1>n. ~HasReady(<<>>)
    BY EmptySeq DEF HasReady
  <1>1. CASE Serve
    <2>1. PICK answer \in Responses(Head(inq)) : wire' = wire \o answer
      BY <1>1 DEF Serve
    <2>2. Head(inq) \in Request
      BY <1>1, HeadTailProperties DEF Serve, TypeInv, TypeOK
    <2>3. Head(inq).kind \notin {"parse", "copy"}
      BY <2>2 DEF Request, Own
    <2>4. answer \in Seq(Message) /\ Len(answer) > 0 /\ answer[Len(answer)].what = "ready"
      BY <2>2, <2>3, AnswersAreMessages
    <2>5. HasReady(answer)
      BY <2>4 DEF HasReady
    <2>6. HasReady(wire')
      BY <1>0, <2>1, <2>4, <2>5, ConcatReady
    <2> QED BY <2>6 DEF ReplyInv
  <1>2. CASE ClientSends
    <2>1. PICK kind \in Requests : Send(kind, session)
      BY <1>2 DEF ClientSends
    <2>2. session \in 1..MaxSessions
      BY <1>2 DEF ClientSends, TypeInv
    <2>3. inq' \in Seq(Request)' /\ Len(inq') = Len(inq) + 1 /\ Len(inq) \in Nat
      BY <1>0, <2>1, <2>2, SendAppends DEF TypeOK
    <2>4. inq' # <<>>
      BY <2>3, EmptySeq
    <2> QED BY <2>4 DEF ReplyInv
  <1>3. CASE BfReads
    <2>1. PICK n \in 1..Len(wire) : /\ bfbuf' = SubSeq(wire, 1, n)
                                    /\ wire' = SubSeq(wire, n + 1, Len(wire))
      BY <1>3 DEF BfReads
    <2>2. HasReady(wire) => HasReady(bfbuf') \/ HasReady(wire')
      BY <1>0, <2>1, ReadKeepsReady
    <2>3. HasReady(wire) \/ inq # <<>>
      BY <1>3, <1>n DEF BfReads, ReplyInv, Waiting
    <2> QED BY <1>3, <2>2, <2>3 DEF BfReads, ReplyInv
  <1>4. CASE RelayMessage
    <2>1. CASE bfbuf[1].what = "ready"
      <3>1. phase' = "serve"
        BY <1>4, <2>1 DEF RelayMessage, EndsResponse
      <3> QED BY <3>1 DEF ReplyInv, Waiting, Own
    <2>2. CASE bfbuf[1].what # "ready"
      <3>1. HasReady(bfbuf) => HasReady(bfbuf')
        BY <1>0, <1>4, <2>2, SkipKeepsReady DEF RelayMessage
      <3>2. phase = "relay" /\ phase' = "relay"
        BY <1>4, <2>2 DEF RelayMessage, EndsResponse
      <3> QED BY <1>4, <3>1, <3>2 DEF RelayMessage, ReplyInv, Waiting
    <2> QED BY <2>1, <2>2
  <1>5. CASE ClientLeaves
    <2>1. Exec("rollback", session) /\ session \in 1..MaxSessions
      BY <1>5 DEF ClientLeaves, TypeInv
    <2>2. inq' # <<>>
      BY <1>0, <2>1, ExecIsOwed DEF Own
    <2> QED BY <2>2 DEF ReplyInv
  <1>6. CASE ClientLost
    <2>1. Exec("rollback", session) /\ session \in 1..MaxSessions
      BY <1>6 DEF ClientLost, TypeInv
    <2>2. inq' # <<>>
      BY <1>0, <2>1, ExecIsOwed DEF Own
    <2> QED BY <2>2 DEF ReplyInv
  <1>7. CASE Acquire
    <2>1. Exec("ping", session + 1) /\ session + 1 \in 1..MaxSessions
      BY <1>7, Bounds DEF Acquire, TypeInv, TypeOK
    <2>2. inq' # <<>>
      BY <1>0, <2>1, ExecIsOwed DEF Own
    <2> QED BY <2>2 DEF ReplyInv
  <1>8. CASE PgReads
    <2>1. PICK n \in 1..Len(wire) : /\ pgbuf' = SubSeq(wire, 1, n)
                                    /\ wire' = SubSeq(wire, n + 1, Len(wire))
      BY <1>8 DEF PgReads
    <2>2. HasReady(wire) => HasReady(pgbuf') \/ HasReady(wire')
      BY <1>0, <2>1, ReadKeepsReady
    <2>3. phase # "relay" /\ phase' = phase
      BY <1>8 DEF PgReads, Own
    <2>4. HasReady(wire) \/ inq # <<>>
      BY <1>8, <1>n, <2>3 DEF PgReads, ReplyInv, Waiting
    <2> QED BY <1>8, <2>2, <2>3, <2>4 DEF PgReads, ReplyInv
  <1>9. CASE PgReadsTorn
    BY <1>9 DEF PgReadsTorn, ReplyInv, Waiting, Own
  <1>10. CASE PgSkips
    <2>1. HasReady(pgbuf) => HasReady(pgbuf')
      BY <1>0, <1>10, SkipKeepsReady DEF PgSkips
    <2>2. phase # "relay" /\ phase' = phase
      BY <1>10 DEF PgSkips, Own
    <2> QED BY <1>10, <2>1, <2>2 DEF PgSkips, ReplyInv, Waiting
  <1>11. CASE PgReturns
    <2>1. CASE phase = "rollback" /\ ~failed
      <3>1. Exec("discard", session) /\ session \in 1..MaxSessions
        BY <1>11, <2>1 DEF PgReturns, TypeInv
      <3>2. inq' # <<>>
        BY <1>0, <3>1, ExecIsOwed DEF Own
      <3> QED BY <3>2 DEF ReplyInv
    <2>2. CASE ~(phase = "rollback" /\ ~failed)
      <3>1. phase' \in {"serve", "idle"}
        BY <1>11, <2>2 DEF PgReturns
      <3> QED BY <3>1 DEF ReplyInv, Waiting, Own
    <2> QED BY <2>1, <2>2
  <1>12. CASE CloseIdle
    BY <1>12 DEF CloseIdle, ReplyInv, Waiting, Own
  <1>13. CASE UNCHANGED vars
    BY <1>13 DEF vars, ReplyInv, Waiting
  <1>14. CASE Notify
    <2>1. <<Notice>> \in Seq(Message) /\ wire' = wire \o <<Notice>>
      BY <1>14, NoticeTyped DEF Notify
    <2>2. HasReady(wire) => HasReady(wire')
      BY <1>0, <2>1, ConcatReady
    <2>3. UNCHANGED <<phase, torn, bfbuf, pgbuf, inq>>
      BY <1>14 DEF Notify
    <2> QED BY <2>2, <2>3 DEF ReplyInv, Waiting
  <1>15. CASE BfReadsTorn
    <2>1. torn'
      BY <1>15, TornStays DEF BfReadsTorn, TypeInv, TypeOK
    <2> QED BY <2>1 DEF ReplyInv
  <1> QED BY <1>1, <1>2, <1>3, <1>4, <1>5, <1>6, <1>7, <1>8, <1>9, <1>10, <1>11, <1>12,
             <1>13, <1>14, <1>15 DEF Next

\* The messages of a sequence, those of one that is made of two.
LEMMA ReadyIsIn ==
    ASSUME NEW s \in Seq(Message), NEW t \in Seq(Message), HasReady(s) \/ HasReady(t)
    PROVE  \E m \in ToSet(s \o t) : m.what = "ready"
  <1>1. HasReady(s \o t) /\ s \o t \in Seq(Message)
    BY ConcatReady, ConcatProperties
  <1>2. PICK i \in 1..Len(s \o t) : (s \o t)[i].what = "ready"
    BY <1>1 DEF HasReady
  <1>3. DOMAIN (s \o t) = 1..Len(s \o t)
    BY <1>1
  <1> QED BY <1>2, <1>3 DEF ToSet

\* The invariant in the terms of Relay.
LEMMA ReplyFollows ==
    ASSUME Requests \subseteq {"query"}, TypeInv, ReplyInv
    PROVE  ReplyOnItsWay
  <1> DEFINE buf == IF phase = "relay" THEN bfbuf ELSE pgbuf
  <1>1. SUFFICES ASSUME Waiting, ~torn
                 PROVE  \/ \E m \in ToSet(buf \o wire) : m.what = "ready"
                        \/ \E r \in ToSet(inq) : r.kind \notin {"parse", "copy"}
    BY DEF ReplyOnItsWay
  <1>2. buf \in Seq(Message) /\ wire \in Seq(Message) /\ inq \in Seq(Request)
    BY DEF TypeInv, TypeOK
  <1>3. HasReady(buf) \/ HasReady(wire) \/ inq # <<>>
    BY <1>1 DEF ReplyInv
  <1> HIDE DEF buf
  <1>4. CASE HasReady(buf) \/ HasReady(wire)
    BY <1>2, <1>4, ReadyIsIn
  <1>5. CASE inq # <<>>
    <2>1. Len(inq) \in Nat /\ Len(inq) # 0 /\ DOMAIN inq = 1..Len(inq)
      BY <1>2, <1>5, EmptySeq
    <2>2. 1 \in DOMAIN inq /\ inq[1] \in Request
      BY <1>2, <2>1
    <2>3. inq[1].kind \notin {"parse", "copy"}
      BY <2>2 DEF Request, Own
    <2>4. inq[1] \in ToSet(inq)
      BY <2>2 DEF ToSet
    <2> QED BY <2>3, <2>4
  <1> QED BY <1>3, <1>4, <1>5

\* Whatever clients vanish, and wherever in a response: as long as clients
\* send simple queries, a reader that waits for ReadyForQuery on an intact
\* stream will read one.
THEOREM WaitersAreAnswered ==
    ASSUME Requests \subseteq {"query"}
    PROVE  Spec => []ReplyOnItsWay
  <1> DEFINE Queried == expects = "request"
  <1>1. Init => TypeInv /\ Queried /\ ReplyInv
    BY TypeInit DEF Init, ReplyInv, Waiting, Own
  <1>2. TypeInv /\ Queried /\ ReplyInv /\ [Next]_vars => TypeInv' /\ Queried' /\ ReplyInv'
    BY TypeStep, ReplyStep, QueriesEnd
  <1>3. TypeInv /\ ReplyInv => ReplyOnItsWay
    BY ReplyFollows
  <1> QED BY <1>1, <1>2, <1>3, PTL DEF Spec

-----------------------------------------------------------------------------
(* The readers are in step until a client vanishes *)

\* Nothing but what PostgreSQL said of its own accord.
Quiet(s) == \A i \in 1..Len(s) : s[i].what = "notice"

\* All answers are to the last request, and their end is the last of them.
LastAnswer(s) ==
    \A i \in 1..Len(s) :
        /\ s[i].what # "notice" => s[i].of.id = sent
        /\ s[i].what = "ready" => \A j \in 1..Len(s) : i < j => s[j].what = "notice"

\* No answer is on the connection.
AllQuiet == Quiet(wire) /\ Quiet(bfbuf) /\ Quiet(pgbuf)

\* The statements alternate: the next request goes out when the answer to the
\* one before has been read to its end.
InStepNow ==
    /\ ~Waiting => inq = <<>> /\ AllQuiet
    /\ phase = "relay" => Quiet(pgbuf)
    /\ phase \in Own => Quiet(bfbuf)
    /\ inq # <<>> => Len(inq) = 1 /\ inq[1].id = sent /\ AllQuiet
    /\ LastAnswer(wire) /\ LastAnswer(bfbuf) /\ LastAnswer(pgbuf)
    /\ HasReady(bfbuf) \/ HasReady(pgbuf) => Quiet(wire)

StepInv == cuts = 0 /\ ~torn => InStepNow

\* Where there is no answer, none is out of step.
LEMMA QuietInStep ==
    /\ AllQuiet => /\ LastAnswer(wire) /\ LastAnswer(bfbuf) /\ LastAnswer(pgbuf)
                   /\ ~HasReady(bfbuf) /\ ~HasReady(pgbuf)
    /\ AllQuiet' => /\ LastAnswer(wire)' /\ LastAnswer(bfbuf)' /\ LastAnswer(pgbuf)'
                    /\ ~HasReady(bfbuf)' /\ ~HasReady(pgbuf)'
  BY DEF AllQuiet, Quiet, LastAnswer, HasReady

\* The empty sequence is quiet.
LEMMA NothingIsQuiet == Quiet(<<>>)
  BY EmptySeq DEF Quiet

\* A reader reads ahead.
LEMMA ReadInStep ==
    ASSUME NEW s \in Seq(Message), LastAnswer(s), NEW n \in 1..Len(s)
    PROVE  LET a == SubSeq(s, 1, n)
               b == SubSeq(s, n + 1, Len(s))
           IN  LastAnswer(a) /\ LastAnswer(b) /\ (HasReady(a) => Quiet(b))
  <1> DEFINE a == SubSeq(s, 1, n)
             b == SubSeq(s, n + 1, Len(s))
  <1>1. /\ Len(a) = n /\ Len(b) = Len(s) - n
        /\ \A i \in 1..n : a[i] = s[i]
        /\ \A i \in 1..(Len(s) - n) : b[i] = s[n + i]
    BY ReadsSplit
  <1>2. Len(s) \in Nat /\ n \in Nat /\ n =< Len(s)
    OBVIOUS
  <1> HIDE DEF a, b
  <1>3. \A i \in 1..Len(a) : i \in 1..Len(s) /\ i =< n /\ a[i] = s[i]
    BY <1>1, <1>2
  <1>4. \A i \in 1..Len(b) : n + i \in 1..Len(s) /\ i \in Nat /\ i > 0 /\ b[i] = s[n + i]
    BY <1>1, <1>2
  <1>5. LastAnswer(a)
    BY <1>3 DEF LastAnswer
  <1>6. LastAnswer(b)
    <2>1. ASSUME NEW i \in 1..Len(b)
          PROVE  /\ b[i].what # "notice" => b[i].of.id = sent
                 /\ b[i].what = "ready" =>
                      \A j \in 1..Len(b) : i < j => b[j].what = "notice"
      <3>1. /\ n + i \in 1..Len(s) /\ b[i] = s[n + i] /\ i \in Nat
            /\ \A j \in 1..Len(b) : j \in Nat /\ n + j \in 1..Len(s) /\ b[j] = s[n + j]
        BY <1>4
      <3>2. \A j \in Nat : i < j => n + i < n + j
        BY <1>2, <3>1
      <3>3. /\ s[n + i].what # "notice" => s[n + i].of.id = sent
            /\ s[n + i].what = "ready" =>
                 \A j \in 1..Len(s) : n + i < j => s[j].what = "notice"
        BY <3>1 DEF LastAnswer
      <3> QED BY <3>1, <3>2, <3>3
    <2> QED BY <2>1 DEF LastAnswer
  <1>7. ASSUME HasReady(a) PROVE Quiet(b)
    <2>1. PICK i \in 1..Len(a) : a[i].what = "ready"
      BY <1>7 DEF HasReady
    <2>2. i \in 1..Len(s) /\ i =< n /\ s[i].what = "ready" /\ i \in Nat
      BY <1>3, <2>1
    <2>3. ASSUME NEW j \in 1..Len(b) PROVE b[j].what = "notice"
      <3>1. n + j \in 1..Len(s) /\ i < n + j /\ b[j] = s[n + j]
        BY <1>2, <1>4, <2>2
      <3> QED BY <2>2, <3>1 DEF LastAnswer
    <2> QED BY <2>3 DEF Quiet
  <1> QED BY <1>5, <1>6, <1>7 DEF a, b

\* Where there is no answer, none is read.
LEMMA ReadQuiet ==
    ASSUME NEW s \in Seq(Message), Quiet(s), NEW n \in 1..Len(s)
    PROVE  Quiet(SubSeq(s, 1, n)) /\ Quiet(SubSeq(s, n + 1, Len(s)))
  <1> DEFINE a == SubSeq(s, 1, n)
             b == SubSeq(s, n + 1, Len(s))
  <1>1. /\ Len(a) = n /\ Len(b) = Len(s) - n
        /\ \A i \in 1..n : a[i] = s[i]
        /\ \A i \in 1..(Len(s) - n) : b[i] = s[n + i]
    BY ReadsSplit
  <1>2. Len(s) \in Nat /\ n \in Nat /\ n =< Len(s)
    OBVIOUS
  <1> HIDE DEF a, b
  <1>3. \A i \in 1..Len(a) : i \in 1..Len(s) /\ a[i] = s[i]
    BY <1>1, <1>2
  <1>4. \A i \in 1..Len(b) : n + i \in 1..Len(s) /\ b[i] = s[n + i]
    BY <1>1, <1>2
  <1> QED BY <1>3, <1>4 DEF Quiet, a, b

\* A reader takes a message.
LEMMA SkipInStep ==
    ASSUME NEW s \in Seq(Message), s # <<>>, LastAnswer(s)
    PROVE  /\ LastAnswer(Tail(s)) /\ (HasReady(Tail(s)) => HasReady(s))
           /\ Quiet(s) => Quiet(Tail(s))
           /\ s[1].what = "ready" => Quiet(Tail(s)) /\ HasReady(s)
  <1>1. /\ Len(Tail(s)) = Len(s) - 1 /\ \A j \in 1..Len(Tail(s)) : Tail(s)[j] = s[j + 1]
        /\ Len(s) \in Nat /\ Len(s) # 0
    BY HeadTailProperties, EmptySeq
  <1> DEFINE t == Tail(s)
  <1>2. /\ Len(t) \in Nat /\ 1 \in 1..Len(s)
        /\ \A j \in 1..Len(t) : j \in Nat /\ j > 0 /\ j + 1 \in 1..Len(s) /\ t[j] = s[j + 1]
    BY <1>1
  <1> HIDE DEF t
  <1>3. LastAnswer(t)
    <2>1. ASSUME NEW i \in 1..Len(t)
          PROVE  /\ t[i].what # "notice" => t[i].of.id = sent
                 /\ t[i].what = "ready" =>
                      \A j \in 1..Len(t) : i < j => t[j].what = "notice"
      <3>1. /\ s[i + 1].what # "notice" => s[i + 1].of.id = sent
            /\ s[i + 1].what = "ready" =>
                 \A j \in 1..Len(s) : i + 1 < j => s[j].what = "notice"
        BY <1>2 DEF LastAnswer
      <3>2. \A j \in 1..Len(t) : i < j => i + 1 < j + 1
        BY <1>2
      <3> QED BY <1>2, <3>1, <3>2
    <2> QED BY <2>1 DEF LastAnswer
  <1>4. (HasReady(t) => HasReady(s)) /\ (Quiet(s) => Quiet(t))
    BY <1>2 DEF HasReady, Quiet
  <1>5. ASSUME s[1].what = "ready" PROVE Quiet(t) /\ HasReady(s)
    <2>1. \A j \in 1..Len(s) : 1 < j => s[j].what = "notice"
      BY <1>2, <1>5 DEF LastAnswer
    <2>2. \A j \in 1..Len(t) : 1 < j + 1
      BY <1>2
    <2> QED BY <1>2, <1>5, <2>1, <2>2 DEF Quiet, HasReady
  <1> QED BY <1>3, <1>4, <1>5 DEF t

\* An answer, or what PostgreSQL says of its own accord, goes into the socket.
LEMMA SayInStep ==
    ASSUME NEW s \in Seq(Message), NEW t \in Seq(Message), LastAnswer(s), LastAnswer(t),
           Quiet(s) \/ Quiet(t)
    PROVE  LastAnswer(s \o t) /\ (Quiet(s) /\ Quiet(t) => Quiet(s \o t))
  <1> DEFINE u == s \o t
  <1>1. /\ Len(u) = Len(s) + Len(t)
        /\ \A i \in 1..(Len(s) + Len(t)) : u[i] = IF i =< Len(s) THEN s[i] ELSE t[i - Len(s)]
        /\ Len(s) \in Nat /\ Len(t) \in Nat
    BY ConcatProperties
  <1> HIDE DEF u
  <1>2. ASSUME NEW i \in 1..Len(u)
        PROVE  \/ i \in 1..Len(s) /\ u[i] = s[i]
               \/ i - Len(s) \in 1..Len(t) /\ i > Len(s) /\ u[i] = t[i - Len(s)]
    <2>1. i \in 1..(Len(s) + Len(t)) /\ i \in Nat
      BY <1>1
    <2>2. CASE i =< Len(s)
      BY <1>1, <2>1, <2>2
    <2>3. CASE ~(i =< Len(s))
      BY <1>1, <2>1, <2>3
    <2> QED BY <2>2, <2>3
  <1>3. Quiet(s) /\ Quiet(t) => Quiet(u)
    BY <1>2 DEF Quiet
  <1>4. ASSUME NEW i \in 1..Len(u)
        PROVE  u[i].what # "notice" => u[i].of.id = sent
    BY <1>2 DEF LastAnswer
  <1>5. ASSUME NEW i \in 1..Len(u), NEW j \in 1..Len(u), u[i].what = "ready", i < j
        PROVE  u[j].what = "notice"
    <2>1. CASE i \in 1..Len(s) /\ u[i] = s[i]
      <3>1. ~Quiet(s)
        BY <1>5, <2>1 DEF Quiet
      <3>2. CASE j \in 1..Len(s) /\ u[j] = s[j]
        BY <1>5, <2>1, <3>2 DEF LastAnswer
      <3>3. CASE j - Len(s) \in 1..Len(t) /\ u[j] = t[j - Len(s)]
        BY <3>1, <3>3 DEF Quiet
      <3> QED BY <1>2, <3>2, <3>3
    <2>2. CASE i - Len(s) \in 1..Len(t) /\ i > Len(s) /\ u[i] = t[i - Len(s)]
      <3>1. j - Len(s) \in 1..Len(t) /\ u[j] = t[j - Len(s)] /\ i - Len(s) < j - Len(s)
        <4>1. ~(j \in 1..Len(s)) /\ i - Len(s) < j - Len(s)
          BY <1>1, <1>5, <2>2
        <4> QED BY <1>2, <4>1
      <3> QED BY <1>5, <2>2, <3>1 DEF LastAnswer
    <2> QED BY <1>2, <2>1, <2>2
  <1>6. LastAnswer(u)
    BY <1>4, <1>5 DEF LastAnswer
  <1> QED BY <1>3, <1>6 DEF u

\* A request goes out on a connection on which nothing is unread.
LEMMA SendInStep ==
    ASSUME TypeOK, NEW kind \in Requests \cup Own, NEW s \in 1..MaxSessions, Send(kind, s),
           inq = <<>>
    PROVE  Len(inq') = 1 /\ inq'[1].id = sent'
  <1>1. Len(inq') = Len(inq) + 1 /\ inq'[Len(inq) + 1].id = sent'
    BY SendAppends
  <1>2. Len(inq) = 0
    BY EmptySeq
  <1> QED BY <1>1, <1>2

\* Every step keeps the readers in step.
LEMMA StepStep == TypeInv /\ StepInv /\ [Next]_vars => StepInv'
  <1> SUFFICES ASSUME TypeInv, StepInv, [Next]_vars, cuts' = 0, ~torn' PROVE InStepNow'
    BY DEF StepInv
  <1>0. TypeOK /\ wire \in Seq(Message) /\ bfbuf \in Seq(Message) /\ pgbuf \in Seq(Message)
        /\ cuts \in Nat /\ torn \in BOOLEAN
    BY Bounds DEF TypeInv, TypeOK
  <1>t. ~torn
    BY <1>0, TornStays
  <1>c. ~ClientLost
    BY <1>0 DEF ClientLost
  <1>d. cuts = 0
    BY <1>0, <1>c DEF Next, Serve, Notify, ClientSends, BfReads, BfReadsTorn, RelayMessage,
                      ClientLeaves, Acquire, PgReads, PgReadsTorn, PgSkips, PgReturns,
                      CloseIdle, vars
  <1>n. InStepNow
    BY <1>t, <1>d DEF StepInv
  <1>1. /\ ~Waiting => inq = <<>> /\ AllQuiet
        /\ phase = "relay" => Quiet(pgbuf)
        /\ phase \in Own => Quiet(bfbuf)
        /\ inq # <<>> => Len(inq) = 1 /\ inq[1].id = sent /\ AllQuiet
        /\ LastAnswer(wire) /\ LastAnswer(bfbuf) /\ LastAnswer(pgbuf)
        /\ HasReady(bfbuf) \/ HasReady(pgbuf) => Quiet(wire)
    BY <1>n DEF InStepNow
  <1>2. ASSUME phase' \in Own \cup {"relay"}, Len(inq') = 1, inq'[1].id = sent', AllQuiet'
        PROVE  InStepNow'
    BY <1>2, QuietInStep DEF InStepNow, Waiting, AllQuiet
  <1>3. ASSUME phase' \notin Own \cup {"relay"}, inq' = <<>>, AllQuiet'
        PROVE  InStepNow'
    BY <1>3, QuietInStep DEF InStepNow, Waiting
  <1>4. CASE Serve
    <2>1. PICK answer \in Responses(Head(inq)) : wire' = wire \o answer
      BY <1>4 DEF Serve
    <2>2. Head(inq) \in Request /\ Len(Tail(inq)) = Len(inq) - 1 /\ Tail(inq) \in Seq(Request)
          /\ Head(inq) = inq[1]
      BY <1>4, HeadTailProperties DEF Serve, TypeInv, TypeOK
    <2>3. /\ answer \in Seq(Message)
          /\ \A i \in 1..Len(answer) :
               answer[i].of = Head(inq) /\ (answer[i].what = "ready" => i = Len(answer))
      BY <2>2, AnswersAreMessages
    <2>4. Len(inq) = 1 /\ Head(inq).id = sent /\ AllQuiet /\ Waiting
      BY <1>1, <1>4, <2>2 DEF Serve
    <2>5. LastAnswer(answer)
      BY <2>3, <2>4 DEF LastAnswer
    <2>6. LastAnswer(wire')
      BY <1>0, <1>1, <2>1, <2>3, <2>4, <2>5, SayInStep DEF AllQuiet
    <2>7. inq' = <<>>
      BY <1>4, <2>2, <2>4, EmptySeq DEF Serve
    <2>8. UNCHANGED <<phase, sent, bfbuf, pgbuf>>
      BY <1>4 DEF Serve
    <2>9. LastAnswer(wire)' /\ LastAnswer(bfbuf)' /\ LastAnswer(pgbuf)'
      BY <1>1, <2>6, <2>8 DEF LastAnswer
    <2>10. Quiet(bfbuf)' /\ Quiet(pgbuf)' /\ ~HasReady(bfbuf)' /\ ~HasReady(pgbuf)'
      BY <2>4, <2>8 DEF AllQuiet, Quiet, HasReady
    <2> QED BY <2>4, <2>7, <2>8, <2>9, <2>10 DEF InStepNow, Waiting
  <1>5. CASE Notify
    <2>1. <<Notice>> \in Seq(Message) /\ Quiet(<<Notice>>) /\ wire' = wire \o <<Notice>>
      BY <1>5, NoticeTyped DEF Notify, Quiet
    <2>2. LastAnswer(<<Notice>>)
      BY <2>1 DEF Quiet, LastAnswer
    <2>3. LastAnswer(wire') /\ (Quiet(wire) => Quiet(wire'))
      BY <1>0, <1>1, <2>1, <2>2, SayInStep
    <2>4. UNCHANGED <<phase, sent, inq, bfbuf, pgbuf>> /\ inq = <<>>
      BY <1>5 DEF Notify
    <2>5. LastAnswer(wire)' /\ LastAnswer(bfbuf)' /\ LastAnswer(pgbuf)'
      BY <1>1, <2>3, <2>4 DEF LastAnswer
    <2>6. AllQuiet => AllQuiet'
      BY <2>3, <2>4 DEF AllQuiet, Quiet
    <2>7. /\ HasReady(bfbuf)' <=> HasReady(bfbuf)
          /\ HasReady(pgbuf)' <=> HasReady(pgbuf)
          /\ Quiet(pgbuf)' <=> Quiet(pgbuf)
          /\ Quiet(bfbuf)' <=> Quiet(bfbuf)
          /\ Quiet(wire) => Quiet(wire)'
          /\ Waiting' <=> Waiting
      BY <2>3, <2>4 DEF HasReady, Quiet, Waiting
    <2> QED BY <1>1, <2>4, <2>5, <2>6, <2>7 DEF InStepNow
  <1>6. CASE ClientSends
    <2>1. PICK kind \in Requests : Send(kind, session)
      BY <1>6 DEF ClientSends
    <2>2. inq = <<>> /\ AllQuiet /\ session \in 1..MaxSessions
      BY <1>1, <1>6 DEF ClientSends, Waiting, Own, TypeInv
    <2>3. Len(inq') = 1 /\ inq'[1].id = sent'
      BY <1>0, <2>1, <2>2, SendInStep
    <2>4. AllQuiet' /\ phase' = "relay"
      BY <1>6, <2>2 DEF ClientSends, AllQuiet, Quiet
    <2> QED BY <1>2, <2>3, <2>4
  <1>7. CASE ClientLeaves
    <2>1. inq = <<>> /\ AllQuiet
      BY <1>1, <1>7 DEF ClientLeaves, Waiting, Own
    <2>2. /\ phase' = "rollback" /\ Send("rollback", session) /\ session \in 1..MaxSessions
          /\ "rollback" \in Requests \cup Own
      BY <1>7 DEF ClientLeaves, Exec, TypeInv, Own
    <2>3. Len(inq') = 1 /\ inq'[1].id = sent'
      BY <1>0, <2>1, <2>2, SendInStep
    <2>4. wire' = wire /\ bfbuf' = <<>> /\ pgbuf' = pgbuf
      BY <1>7 DEF ClientLeaves, DropFrontend
    <2>5. AllQuiet'
      BY <2>1, <2>4, NothingIsQuiet DEF AllQuiet, Quiet
    <2> QED BY <1>2, <2>2, <2>3, <2>5 DEF Own
  <1>8. CASE Acquire
    <2>1. inq = <<>> /\ AllQuiet
      BY <1>1, <1>8 DEF Acquire, Waiting, Own
    <2>2. /\ phase' = "ping" /\ Send("ping", session + 1) /\ session + 1 \in 1..MaxSessions
          /\ "ping" \in Requests \cup Own
      BY <1>8, Bounds DEF Acquire, Exec, TypeInv, TypeOK, Own
    <2>3. Len(inq') = 1 /\ inq'[1].id = sent'
      BY <1>0, <2>1, <2>2, SendInStep
    <2>4. AllQuiet'
      BY <1>8, <2>1 DEF Acquire, AllQuiet, Quiet
    <2> QED BY <1>2, <2>2, <2>3, <2>4 DEF Own
  <1>9. CASE BfReads
    <2>1. PICK n \in 1..Len(wire) : /\ bfbuf' = SubSeq(wire, 1, n)
                                    /\ wire' = SubSeq(wire, n + 1, Len(wire))
      BY <1>9 DEF BfReads
    <2>2. LastAnswer(bfbuf') /\ LastAnswer(wire') /\ (HasReady(bfbuf') => Quiet(wire'))
      BY <1>0, <1>1, <2>1, ReadInStep
    <2>3. phase = "relay" /\ UNCHANGED <<phase, sent, inq, pgbuf>>
      BY <1>9 DEF BfReads
    <2>4. LastAnswer(bfbuf)' /\ LastAnswer(wire)' /\ LastAnswer(pgbuf)'
      BY <1>1, <2>2, <2>3 DEF LastAnswer
    <2>5. Quiet(pgbuf)' /\ ~HasReady(pgbuf)' /\ (HasReady(bfbuf)' => Quiet(wire)')
      BY <1>1, <2>2, <2>3 DEF Quiet, HasReady
    <2>6. AllQuiet => AllQuiet'
      BY <1>0, <2>1, <2>3, ReadQuiet DEF AllQuiet, Quiet
    <2> QED BY <1>1, <2>3, <2>4, <2>5, <2>6 DEF InStepNow, Waiting, Own
  <1>10. CASE RelayMessage
    <2>1. /\ LastAnswer(bfbuf') /\ (HasReady(bfbuf') => HasReady(bfbuf))
          /\ Quiet(bfbuf) => Quiet(bfbuf')
          /\ bfbuf[1].what = "ready" => Quiet(bfbuf') /\ HasReady(bfbuf)
      BY <1>0, <1>1, <1>10, SkipInStep DEF RelayMessage
    <2>2. phase = "relay" /\ bfbuf # <<>> /\ UNCHANGED <<sent, inq, wire, pgbuf>>
      BY <1>10 DEF RelayMessage
    <2>3. LastAnswer(bfbuf)' /\ LastAnswer(wire)' /\ LastAnswer(pgbuf)'
      BY <1>1, <2>1, <2>2 DEF LastAnswer
    <2>4. Quiet(pgbuf)' /\ ~HasReady(pgbuf)' /\ (HasReady(bfbuf)' => Quiet(wire)')
      BY <1>1, <2>1, <2>2 DEF Quiet, HasReady
    <2>5. CASE bfbuf[1].what = "ready"
      <3>1. Quiet(bfbuf') /\ Quiet(wire) /\ HasReady(bfbuf)
        BY <1>1, <2>1, <2>5
      <3>2. inq = <<>>
        BY <1>1, <3>1, QuietInStep
      <3>3. phase' = "serve" /\ AllQuiet'
        BY <1>1, <1>10, <2>2, <2>4, <2>5, <3>1 DEF RelayMessage, EndsResponse, AllQuiet, Quiet
      <3> QED BY <1>3, <2>2, <3>2, <3>3 DEF Own
    <2>6. CASE bfbuf[1].what # "ready"
      <3>1. phase' = "relay"
        BY <1>10, <2>6 DEF RelayMessage, EndsResponse
      <3>2. AllQuiet => AllQuiet'
        BY <2>1, <2>2 DEF AllQuiet, Quiet
      <3> QED BY <1>1, <2>2, <2>3, <2>4, <3>1, <3>2 DEF InStepNow, Waiting, Own
    <2> QED BY <2>5, <2>6
  <1>11. CASE PgReads
    <2>1. PICK n \in 1..Len(wire) : /\ pgbuf' = SubSeq(wire, 1, n)
                                    /\ wire' = SubSeq(wire, n + 1, Len(wire))
      BY <1>11 DEF PgReads
    <2>2. LastAnswer(pgbuf') /\ LastAnswer(wire') /\ (HasReady(pgbuf') => Quiet(wire'))
      BY <1>0, <1>1, <2>1, ReadInStep
    <2>3. phase \in Own /\ UNCHANGED <<phase, sent, inq, bfbuf>>
      BY <1>11 DEF PgReads
    <2>4. LastAnswer(bfbuf)' /\ LastAnswer(wire)' /\ LastAnswer(pgbuf)'
      BY <1>1, <2>2, <2>3 DEF LastAnswer
    <2>5. Quiet(bfbuf)' /\ ~HasReady(bfbuf)' /\ (HasReady(pgbuf)' => Quiet(wire)')
      BY <1>1, <2>2, <2>3 DEF Quiet, HasReady
    <2>6. AllQuiet => AllQuiet'
      BY <1>0, <2>1, <2>3, ReadQuiet DEF AllQuiet, Quiet
    <2> QED BY <1>1, <2>3, <2>4, <2>5, <2>6 DEF InStepNow, Waiting, Own
  <1>12. CASE PgSkips
    <2>1. /\ LastAnswer(pgbuf') /\ (HasReady(pgbuf') => HasReady(pgbuf))
          /\ Quiet(pgbuf) => Quiet(pgbuf')
      BY <1>0, <1>1, <1>12, SkipInStep DEF PgSkips
    <2>2. phase \in Own /\ UNCHANGED <<phase, sent, inq, wire, bfbuf>>
      BY <1>12 DEF PgSkips
    <2>3. LastAnswer(bfbuf)' /\ LastAnswer(wire)' /\ LastAnswer(pgbuf)'
      BY <1>1, <2>1, <2>2 DEF LastAnswer
    <2>4. Quiet(bfbuf)' /\ ~HasReady(bfbuf)' /\ (HasReady(pgbuf)' => Quiet(wire)')
      BY <1>1, <2>1, <2>2 DEF Quiet, HasReady
    <2>5. AllQuiet => AllQuiet'
      BY <2>1, <2>2 DEF AllQuiet, Quiet
    <2> QED BY <1>1, <2>2, <2>3, <2>4, <2>5 DEF InStepNow, Waiting, Own
  <1>13. CASE PgReturns
    <2>1. Quiet(pgbuf') /\ HasReady(pgbuf)
      BY <1>0, <1>1, <1>13, SkipInStep DEF PgReturns
    <2>2. phase \in Own /\ UNCHANGED <<wire, bfbuf>>
      BY <1>13 DEF PgReturns
    <2>3. inq = <<>>
      BY <1>1, <2>1, QuietInStep
    <2>4. AllQuiet'
      BY <1>1, <2>1, <2>2 DEF AllQuiet, Quiet
    <2>5. CASE phase = "rollback" /\ ~failed
      <3>1. /\ phase' = "discard" /\ Send("discard", session) /\ session \in 1..MaxSessions
            /\ "discard" \in Requests \cup Own
        BY <1>13, <2>5 DEF PgReturns, Exec, TypeInv, Own
      <3>2. Len(inq') = 1 /\ inq'[1].id = sent'
        BY <1>0, <2>3, <3>1, SendInStep
      <3> QED BY <1>2, <2>4, <3>1, <3>2 DEF Own
    <2>6. CASE ~(phase = "rollback" /\ ~failed)
      <3>1. phase' \in {"serve", "idle"} /\ inq' = <<>>
        BY <1>13, <2>3, <2>6 DEF PgReturns
      <3> QED BY <1>3, <2>4, <3>1 DEF Own
    <2> QED BY <2>5, <2>6
  <1>14. CASE PgReadsTorn \/ BfReadsTorn
    BY <1>t, <1>14 DEF PgReadsTorn, BfReadsTorn
  <1>15. CASE CloseIdle
    <2>1. inq = <<>> /\ AllQuiet /\ phase' = "closed"
      BY <1>1, <1>15 DEF CloseIdle, Waiting, Own
    <2>2. inq' = <<>> /\ AllQuiet'
      BY <1>15, <2>1 DEF CloseIdle, AllQuiet, Quiet
    <2> QED BY <1>3, <2>1, <2>2 DEF Own
  <1>16. CASE UNCHANGED vars
    BY <1>n, <1>16 DEF vars, InStepNow, AllQuiet, Quiet, Waiting, LastAnswer, HasReady
  <1> QED BY <1>c, <1>4, <1>5, <1>6, <1>7, <1>8, <1>9, <1>10, <1>11, <1>12, <1>13, <1>14,
             <1>15, <1>16 DEF Next

\* The messages of three sequences.
LEMMA InOneOfThree ==
    ASSUME NEW a \in Seq(Message), NEW b \in Seq(Message), NEW c \in Seq(Message),
           NEW m \in ToSet(a \o b \o c)
    PROVE  \E s \in {a, b, c} : \E i \in 1..Len(s) : m = s[i]
  <1>1. /\ a \o b \in Seq(Message) /\ Len(a \o b) = Len(a) + Len(b)
        /\ \A i \in 1..(Len(a) + Len(b)) :
              (a \o b)[i] = IF i =< Len(a) THEN a[i] ELSE b[i - Len(a)]
    BY ConcatProperties
  <1>2. /\ Len(a \o b \o c) = Len(a \o b) + Len(c)
        /\ \A i \in 1..(Len(a \o b) + Len(c)) :
              (a \o b \o c)[i] = IF i =< Len(a \o b) THEN (a \o b)[i] ELSE c[i - Len(a \o b)]
        /\ a \o b \o c \in Seq(Message)
    BY <1>1, ConcatProperties
  <1>3. PICK i \in 1..Len(a \o b \o c) : m = (a \o b \o c)[i]
    BY <1>2 DEF ToSet
  <1>4. Len(a) \in Nat /\ Len(b) \in Nat /\ Len(c) \in Nat
    OBVIOUS
  <1>5. CASE i =< Len(a)
    <2>1. i \in 1..Len(a) /\ m = a[i]
      BY <1>1, <1>2, <1>3, <1>4, <1>5
    <2> QED BY <2>1
  <1>6. CASE i > Len(a) /\ i =< Len(a) + Len(b)
    <2>1. i - Len(a) \in 1..Len(b) /\ m = b[i - Len(a)]
      BY <1>1, <1>2, <1>3, <1>4, <1>6
    <2> QED BY <2>1
  <1>7. CASE i > Len(a) + Len(b)
    <2>1. i - (Len(a) + Len(b)) \in 1..Len(c) /\ m = c[i - (Len(a) + Len(b))]
      BY <1>1, <1>2, <1>3, <1>4, <1>7
    <2> QED BY <2>1
  <1>8. Len(a \o b \o c) \in Nat
    BY <1>1, <1>2, <1>4
  <1>9. i =< Len(a) \/ (i > Len(a) /\ i =< Len(a) + Len(b)) \/ i > Len(a) + Len(b)
    BY ONLY <1>4, <1>8, i \in 1..Len(a \o b \o c)
  <1> QED BY ONLY <1>5, <1>6, <1>7, <1>9

\* The invariant in the terms of Relay.
LEMMA InStepFollows == TypeInv /\ StepInv => InStep
  <1> SUFFICES ASSUME TypeInv, StepInv, cuts = 0, ~torn,
                      NEW m \in ToSet(wire \o bfbuf \o pgbuf), m.what # "notice"
               PROVE  Waiting /\ m.of.id = sent
    BY DEF InStep
  <1>1. wire \in Seq(Message) /\ bfbuf \in Seq(Message) /\ pgbuf \in Seq(Message)
    BY DEF TypeInv, TypeOK
  <1>2. PICK s \in {wire, bfbuf, pgbuf} : \E i \in 1..Len(s) : m = s[i]
    BY <1>1, InOneOfThree
  <1>3. InStepNow
    BY DEF StepInv
  <1>4. LastAnswer(s) /\ ~Quiet(s)
    BY <1>2, <1>3 DEF InStepNow, Quiet
  <1>5. m.of.id = sent
    BY <1>2, <1>4 DEF LastAnswer
  <1>6. Waiting
    BY <1>2, <1>3, <1>4 DEF InStepNow, AllQuiet
  <1> QED BY <1>5, <1>6

\* Two readers share the socket, each with a buffer of its own: as long as no
\* client vanishes in the middle of a response, every answer that is unread is
\* to the request that is being waited for, through any number of sessions.
THEOREM ReadersAreInStep == Spec => []InStep
  <1>1. Init => TypeInv /\ StepInv
    <2>1. ASSUME Init PROVE StepInv
      <3>1. AllQuiet /\ inq = <<>> /\ phase = "idle"
        BY <2>1, NothingIsQuiet DEF Init, AllQuiet
      <3> QED BY <3>1, QuietInStep DEF StepInv, InStepNow, Waiting, Own
    <2> QED BY <2>1, TypeInit
  <1>2. TypeInv /\ StepInv /\ [Next]_vars => TypeInv' /\ StepInv'
    BY TypeStep, StepStep
  <1>3. TypeInv /\ StepInv => InStep
    BY InStepFollows
  <1> QED BY <1>1, <1>2, <1>3, PTL DEF Spec
=============================================================================
