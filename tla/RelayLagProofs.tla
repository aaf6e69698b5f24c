--------------------------- MODULE RelayLagProofs ---------------------------
(***************************************************************************)
(* Theorems about Relay when clients do vanish: how many replies too many  *)
(* they leave on the connection, and how many of them it takes before a    *)
(* client is given what another one asked for.  They hold for requests of  *)
(* every kind, those that PostgreSQL does not answer included.             *)
(***************************************************************************)
EXTENDS RelayProofs, FiniteSetTheorems

-----------------------------------------------------------------------------
(* Counting the ends of responses *)

\* Responses come in the order of the requests, each ends where its
\* ReadyForQuery is.
Ordered(s) ==
    \A i, j \in 1..Len(s) : i < j =>
        /\ s[i].of.id =< s[j].of.id
        /\ s[i].what = "ready" => s[i].of.id < s[j].of.id

\* The positions of ReadyForQuery, a finite set.
LEMMA RepliesType ==
    ASSUME NEW s \in Seq(Message)
    PROVE  /\ IsFiniteSet({i \in DOMAIN s : s[i].what = "ready"})
           /\ Replies(s) \in Nat
           /\ DOMAIN s = 1..Len(s) /\ Len(s) \in Nat
  <1>1. DOMAIN s = 1..Len(s) /\ Len(s) \in Nat
    OBVIOUS
  <1> DEFINE R == {i \in DOMAIN s : s[i].what = "ready"}
  <1>2. IsFiniteSet(1..Len(s))
    BY <1>1, FS_Interval
  <1>3. R \in SUBSET (1..Len(s))
    BY <1>1
  <1> HIDE DEF R
  <1>4. IsFiniteSet(R)
    BY <1>2, <1>3, FS_Subset
  <1>5. Cardinality(R) \in Nat
    BY <1>4, FS_CardinalityType
  <1> QED BY <1>1, <1>4, <1>5 DEF Replies, R

\* Nothing has no end.
LEMMA NoReplies == Replies(<<>>) = 0
  <1>1. {i \in DOMAIN <<>> : <<>>[i].what = "ready"} = {}
    OBVIOUS
  <1> QED BY <1>1, FS_EmptySet DEF Replies

\* No two responses answer the same request: there are not more ends than
\* there are numbers.
LEMMA RepliesAreFew ==
    ASSUME NEW s \in Seq(Message), Ordered(s), NEW k \in Nat, NEW h \in Nat, k =< h,
           \A i \in 1..Len(s) : k =< s[i].of.id /\ (s[i].what = "ready" => s[i].of.id < h)
    PROVE  Replies(s) + k =< h
  <1> DEFINE R == {i \in DOMAIN s : s[i].what = "ready"}
             f == [i \in R |-> s[i].of.id]
  <1>1. DOMAIN s = 1..Len(s) /\ Len(s) \in Nat /\ Replies(s) \in Nat
    BY RepliesType
  <1>2. \A i \in R : i \in 1..Len(s) /\ s[i].of.id \in Nat
    <2>1. ASSUME NEW i \in 1..Len(s) PROVE s[i].of.id \in Nat
      <3>1. s[i] \in Message
        OBVIOUS
      <3>2. s[i].of \in Request \cup NoRequest
        BY <3>1 DEF Message
      <3>3. s[i].of.id \in 1..sent \/ s[i].of.id \in 1..(sent + 1)
        BY <3>2 DEF Request, NoRequest
      <3> QED BY <3>3
    <2> QED BY <1>1, <2>1
  <1>3. \A i \in R : s[i].of.id \in k..(h - 1)
    BY <1>2
  <1>4. f \in [R -> k..(h - 1)]
    BY <1>3
  <1>5. ASSUME NEW i \in R, NEW j \in R, i # j
        PROVE  f[i] # f[j]
    <2>1. i \in 1..Len(s) /\ j \in 1..Len(s) /\ s[i].what = "ready" /\ s[j].what = "ready"
      BY <1>2
    <2>2. i < j \/ j < i
      BY <1>1, <1>5, <2>1
    <2>3. s[i].of.id < s[j].of.id \/ s[j].of.id < s[i].of.id
      BY <2>1, <2>2 DEF Ordered
    <2> QED BY <1>2, <2>3
  <1>6. f \in Injection(R, k..(h - 1))
    BY <1>4, <1>5 DEF Injection, IsInjective
  <1> HIDE DEF f, R
  <1>7. IsFiniteSet(k..(h - 1)) /\ Cardinality(k..(h - 1)) = h - k
    <2>1. k \in Int /\ h - 1 \in Int
      OBVIOUS
    <2>2. /\ IsFiniteSet(k..(h - 1))
          /\ Cardinality(k..(h - 1)) = IF k > h - 1 THEN 0 ELSE (h - 1) - k + 1
      BY <2>1, FS_Interval
    <2> QED BY <2>1, <2>2
  <1>8. Cardinality(R) =< h - k
    BY <1>6, <1>7, FS_Injection
  <1>9. Replies(s) = Cardinality(R)
    BY DEF R, Replies
  <1> QED BY <1>1, <1>8, <1>9

\* What is left when a message has been taken.
LEMMA TakenReply ==
    ASSUME NEW s \in Seq(Message), s # <<>>
    PROVE  Replies(s) = Replies(Tail(s)) + (IF s[1].what = "ready" THEN 1 ELSE 0)
  <1> DEFINE t == Tail(s)
             R == {i \in DOMAIN s : s[i].what = "ready"}
             Q == {i \in DOMAIN t : t[i].what = "ready"}
             f == [i \in R \ {1} |-> i - 1]
  <1>1. t \in Seq(Message) /\ Len(t) = Len(s) - 1 /\ \A j \in 1..Len(t) : t[j] = s[j + 1]
    BY HeadTailProperties
  <1>2. /\ DOMAIN s = 1..Len(s) /\ DOMAIN t = 1..Len(t)
        /\ Len(s) \in Nat /\ Len(t) \in Nat
        /\ IsFiniteSet(R) /\ IsFiniteSet(Q)
    BY <1>1, RepliesType
  <1>3. Len(s) # 0
    BY EmptySeq
  <1> HIDE DEF t
  <1>4. \A i \in R \ {1} : i \in Nat /\ i - 1 \in Q
    <2>1. ASSUME NEW i \in R \ {1} PROVE i \in Nat /\ i - 1 \in Q
      <3>1. i \in 1..Len(s) /\ i # 1 /\ s[i].what = "ready"
        BY <1>2
      <3>2. i - 1 \in 1..Len(t) /\ (i - 1) + 1 = i
        BY <1>1, <1>2, <3>1
      <3>3. t[i - 1] = s[i]
        BY <1>1, <3>2
      <3> QED BY <1>2, <3>1, <3>2, <3>3
    <2> QED BY <2>1
  <1>5. \A j \in Q : j + 1 \in R \ {1} /\ j \in Nat
    <2>1. ASSUME NEW j \in Q PROVE j + 1 \in R \ {1} /\ j \in Nat
      <3>1. j \in 1..Len(t) /\ t[j].what = "ready"
        BY <1>2
      <3>2. j + 1 \in 1..Len(s) /\ j + 1 # 1 /\ j \in Nat
        BY <1>1, <1>2, <3>1
      <3>3. s[j + 1].what = "ready"
        BY <1>1, <3>1
      <3> QED BY <1>2, <3>2, <3>3
    <2> QED BY <2>1
  <1> HIDE DEF Q, R
  <1>6. f \in Bijection(R \ {1}, Q)
    <2>1. f \in [R \ {1} -> Q]
      BY <1>4
    <2>2. \A i, j \in R \ {1} : f[i] = f[j] => i = j
      BY <1>4
    <2>3. \A j \in Q : \E i \in R \ {1} : f[i] = j
      <3>1. ASSUME NEW j \in Q PROVE f[j + 1] = j /\ j + 1 \in R \ {1}
        BY <1>5, <3>1
      <3> QED BY <3>1
    <2> HIDE DEF f
    <2>4. f \in Injection(R \ {1}, Q)
      BY <2>1, <2>2 DEF Injection, IsInjective
    <2>5. f \in Surjection(R \ {1}, Q)
      BY <2>1, <2>3 DEF Surjection
    <2> QED BY <2>4, <2>5 DEF Bijection
  <1>7. IsFiniteSet(R \ {1}) /\
        Cardinality(R \ {1}) = IF 1 \in R THEN Cardinality(R) - 1 ELSE Cardinality(R)
    BY <1>2, FS_RemoveElement
  <1>8. Cardinality(Q) = Cardinality(R \ {1})
    BY <1>6, <1>7, FS_Bijection DEF ExistsBijection
  <1>9. 1 \in R <=> s[1].what = "ready"
    BY <1>2, <1>3 DEF R
  <1>10. /\ Replies(s) = Cardinality(R) /\ Replies(Tail(s)) = Cardinality(Q)
         /\ Replies(s) \in Nat
    BY RepliesType DEF Replies, R, Q, t
  <1> QED BY <1>7, <1>8, <1>9, <1>10

-----------------------------------------------------------------------------
(* What a step does to the messages a session may still be given, and to the
   requests PostgreSQL has not run *)

\* t is what is left of s when its first n messages are gone.
Drops(t, s, n) ==
    /\ n \in 0..Len(s)
    /\ Len(t) = Len(s) - n
    /\ \A i \in 1..Len(t) : t[i] = s[n + i]

\* The stream, position by position.
LEMMA StreamType ==
    ASSUME TypeOK
    PROVE  /\ Stream \in Seq(Message) /\ Len(Stream) = Len(bfbuf) + Len(wire)
           /\ Len(Stream) \in Nat /\ Len(bfbuf) \in Nat /\ Len(wire) \in Nat
           /\ \A i \in 1..Len(Stream) :
                 Stream[i] = IF i =< Len(bfbuf) THEN bfbuf[i] ELSE wire[i - Len(bfbuf)]
           /\ bfbuf = <<>> => Stream = wire
  <1>1. bfbuf \in Seq(Message) /\ wire \in Seq(Message)
    BY DEF TypeOK
  <1>2. /\ bfbuf \o wire \in Seq(Message) /\ Len(bfbuf \o wire) = Len(bfbuf) + Len(wire)
        /\ \A i \in 1..(Len(bfbuf) + Len(wire)) :
              (bfbuf \o wire)[i] = IF i =< Len(bfbuf) THEN bfbuf[i] ELSE wire[i - Len(bfbuf)]
    BY <1>1, ConcatProperties
  <1>3. bfbuf = <<>> => bfbuf \o wire = wire
    BY <1>1, ConcatEmptySeq
  <1>4. Len(bfbuf) \in Nat /\ Len(wire) \in Nat
    BY <1>1
  <1> QED BY <1>2, <1>3, <1>4 DEF Stream

\* What the messages and the requests say.
LEMMA KnownAreRequests ==
    ASSUME TypeOK
    PROVE  /\ sent \in Nat /\ Len(inq) \in Nat
           /\ \A i \in 1..Len(inq) :
                 inq[i] \in Request /\ inq[i].id \in Nat /\ inq[i].id =< sent
                 /\ inq[i].by \in Nat
           /\ \A i \in 1..Len(Stream) :
                 /\ Stream[i] \in Message
                 /\ Stream[i].of.id \in Nat /\ Stream[i].of.id =< sent + 1
                 /\ Stream[i].of.by \in Nat
                 /\ Stream[i].of.kind \in Requests => Stream[i].of.id =< sent
  <1>1. Stream \in Seq(Message) /\ inq \in Seq(Request) /\ sent \in Nat
    BY StreamType DEF TypeOK
  <1>2. ASSUME NEW r \in Request
        PROVE  r.id \in Nat /\ r.id =< sent /\ r.id =< sent + 1 /\ r.by \in Nat
    <2>1. r.id \in 1..sent /\ r.by \in 1..MaxSessions
      BY DEF Request
    <2> QED BY <1>1, <2>1, Bounds
  <1>3. ASSUME NEW r \in NoRequest
        PROVE  r.id \in Nat /\ r.id =< sent + 1 /\ r.by \in Nat /\ r.kind \notin Requests
    <2>1. r.id \in 1..(sent + 1) /\ r.by \in 1..MaxSessions /\ r.kind = "none"
      BY DEF NoRequest
    <2>2. "none" \notin Requests
      BY RelayAssumption DEF RelayAssumption
    <2> QED BY <1>1, <2>1, <2>2, Bounds
  <1>4. ASSUME NEW i \in 1..Len(inq) PROVE inq[i] \in Request
    BY <1>1
  <1>5. ASSUME NEW i \in 1..Len(Stream)
        PROVE  Stream[i] \in Message /\ Stream[i].of \in Request \cup NoRequest
    <2>1. Stream[i] \in Message
      BY <1>1
    <2> QED BY <2>1 DEF Message
  <1>6. Len(inq) \in Nat
    BY <1>1
  <1> QED BY <1>1, <1>2, <1>3, <1>4, <1>5, <1>6

\* bf holds messages only while its session sends and is answered, and has
\* read them from an intact stream.
Serving == bfbuf # <<>> => phase \in {"serve", "relay"} /\ ~torn

\* A message is passed to the client.
LEMMA RelayTakes ==
    ASSUME TypeOK, RelayMessage
    PROVE  Drops(Stream', Stream, 1) /\ Stream[1] = bfbuf[1] /\ Len(Stream) > 0
  <1>1. /\ bfbuf \in Seq(Message) /\ wire \in Seq(Message) /\ bfbuf # <<>>
        /\ bfbuf' = Tail(bfbuf) /\ wire' = wire
    BY DEF TypeOK, RelayMessage
  <1>2. /\ bfbuf' \in Seq(Message) /\ Len(bfbuf') = Len(bfbuf) - 1
        /\ \A i \in 1..Len(bfbuf') : bfbuf'[i] = bfbuf[i + 1]
    BY <1>1, HeadTailProperties
  <1>3. Len(bfbuf) \in Nat /\ Len(bfbuf) # 0 /\ Len(wire) \in Nat
    BY <1>1, EmptySeq
  <1>4. /\ Len(Stream') = Len(bfbuf') + Len(wire)
        /\ \A i \in 1..(Len(bfbuf') + Len(wire)) :
              Stream'[i] = IF i =< Len(bfbuf') THEN bfbuf'[i] ELSE wire[i - Len(bfbuf')]
    BY <1>1, <1>2, ConcatProperties DEF Stream
  <1>5. /\ Len(Stream) = Len(bfbuf) + Len(wire)
        /\ \A i \in 1..Len(Stream) :
              Stream[i] = IF i =< Len(bfbuf) THEN bfbuf[i] ELSE wire[i - Len(bfbuf)]
    BY StreamType
  <1>6. ASSUME NEW i \in 1..Len(Stream') PROVE Stream'[i] = Stream[1 + i]
    <2>1. 1 + i \in 1..Len(Stream) /\ i \in Nat /\ i \in 1..(Len(bfbuf') + Len(wire))
      BY <1>2, <1>3, <1>4, <1>5
    <2>2. CASE i =< Len(bfbuf')
      <3>1. i \in 1..Len(bfbuf') /\ 1 + i =< Len(bfbuf) /\ i + 1 = 1 + i
        BY <1>2, <1>3, <2>1, <2>2
      <3>2. Stream'[i] = bfbuf'[i] /\ bfbuf'[i] = bfbuf[i + 1]
        BY <1>2, <1>4, <2>1, <2>2, <3>1
      <3>3. Stream[1 + i] = bfbuf[1 + i]
        BY <1>5, <2>1, <3>1
      <3> QED BY <3>1, <3>2, <3>3
    <2>3. CASE ~(i =< Len(bfbuf'))
      <3>1. ~(1 + i =< Len(bfbuf)) /\ i - Len(bfbuf') = (1 + i) - Len(bfbuf)
        BY <1>2, <1>3, <2>1, <2>3
      <3>2. Stream'[i] = wire[i - Len(bfbuf')]
        BY <1>4, <2>1, <2>3
      <3>3. Stream[1 + i] = wire[(1 + i) - Len(bfbuf)]
        BY <1>5, <2>1, <3>1
      <3> QED BY <3>1, <3>2, <3>3
    <2> QED BY <2>2, <2>3
  <1>7. 1 \in 0..Len(Stream) /\ Len(Stream') = Len(Stream) - 1 /\ Len(Stream) > 0
    BY <1>2, <1>3, <1>4, <1>5
  <1>8. Stream[1] = bfbuf[1]
    BY <1>3, <1>5, <1>7
  <1> QED BY <1>6, <1>7, <1>8 DEF Drops

\* pgconn takes from the socket.
LEMMA PgTakes ==
    ASSUME TypeOK, Serving, PgReads, NEW n \in 1..Len(wire), wire' = SubSeq(wire, n + 1, Len(wire))
    PROVE  Drops(Stream', Stream, n) /\ Stream = wire
  <1>1. /\ wire \in Seq(Message) /\ bfbuf = <<>> /\ bfbuf' = <<>>
        /\ Len(wire) \in Nat
    BY DEF TypeOK, PgReads, Serving, Own
  <1>2. /\ wire' \in Seq(Message) /\ Len(wire') = Len(wire) - n
        /\ \A i \in 1..(Len(wire) - n) : wire'[i] = wire[n + i]
    BY <1>1, ReadsSplit
  <1>3. Stream = wire /\ Stream' = wire'
    BY <1>1, <1>2, ConcatEmptySeq DEF Stream
  <1>4. n \in 0..Len(wire)
    BY <1>1
  <1> QED BY <1>2, <1>3, <1>4 DEF Drops

\* What bf reads ahead stays where it is in the stream.
LEMMA BfTakes ==
    ASSUME TypeOK, BfReads
    PROVE  Stream' = Stream
  <1>1. PICK n \in 1..Len(wire) : /\ bfbuf' = SubSeq(wire, 1, n)
                                  /\ wire' = SubSeq(wire, n + 1, Len(wire))
    BY DEF BfReads
  <1>2. wire \in Seq(Message) /\ bfbuf = <<>> /\ Len(wire) \in Nat
    BY DEF TypeOK, BfReads
  <1>3. Stream = wire
    BY <1>2, StreamType
  <1>4. /\ bfbuf' \in Seq(Message) /\ wire' \in Seq(Message)
        /\ Len(bfbuf') = n /\ Len(wire') = Len(wire) - n
        /\ \A i \in 1..n : bfbuf'[i] = wire[i]
        /\ \A i \in 1..(Len(wire) - n) : wire'[i] = wire[n + i]
    BY <1>1, <1>2, ReadsSplit
  <1>5. /\ Stream' \in Seq(Message) /\ Len(Stream') = Len(bfbuf') + Len(wire')
        /\ \A i \in 1..(Len(bfbuf') + Len(wire')) :
              Stream'[i] = IF i =< Len(bfbuf') THEN bfbuf'[i] ELSE wire'[i - Len(bfbuf')]
    BY <1>4, ConcatProperties DEF Stream
  <1>6. Len(Stream') = Len(wire)
    BY <1>2, <1>4, <1>5
  <1>7. ASSUME NEW i \in 1..Len(wire) PROVE Stream'[i] = wire[i]
    <2>1. i \in 1..(Len(bfbuf') + Len(wire')) /\ n \in Nat /\ i \in Nat
      BY <1>2, <1>4
    <2>2. CASE i =< n
      <3>1. i \in 1..n
        BY <2>1, <2>2
      <3> QED BY <1>4, <1>5, <2>1, <2>2, <3>1
    <2>3. CASE ~(i =< n)
      <3>1. i - n \in 1..(Len(wire) - n) /\ n + (i - n) = i
        BY <1>2, <2>1, <2>3
      <3>2. wire'[i - n] = wire[i]
        BY <1>4, <3>1
      <3> QED BY <1>4, <1>5, <2>1, <2>3, <3>2
    <2> QED BY <2>2, <2>3
  <1> QED BY <1>2, <1>3, <1>5, <1>6, <1>7, SeqEqual

\* bf is dropped with what it has read.
LEMMA DropTakes ==
    ASSUME TypeOK, bfbuf' = <<>>, wire' = wire
    PROVE  Drops(Stream', Stream, Len(bfbuf))
  <1>1. wire \in Seq(Message) /\ Len(wire) \in Nat /\ Len(bfbuf) \in Nat
    BY DEF TypeOK
  <1>2. Stream' = wire
    BY <1>1, ConcatEmptySeq DEF Stream
  <1>3. /\ Len(Stream) = Len(bfbuf) + Len(wire)
        /\ \A i \in 1..Len(Stream) :
              Stream[i] = IF i =< Len(bfbuf) THEN bfbuf[i] ELSE wire[i - Len(bfbuf)]
    BY StreamType
  <1>4. ASSUME NEW i \in 1..Len(wire) PROVE Stream[Len(bfbuf) + i] = wire[i]
    <2>1. /\ Len(bfbuf) + i \in 1..Len(Stream) /\ ~(Len(bfbuf) + i =< Len(bfbuf))
          /\ (Len(bfbuf) + i) - Len(bfbuf) = i
      BY <1>1, <1>3
    <2> QED BY <1>3, <2>1
  <1>5. Len(bfbuf) \in 0..Len(Stream) /\ Len(wire) = Len(Stream) - Len(bfbuf)
    BY <1>1, <1>3
  <1> QED BY <1>2, <1>4, <1>5 DEF Drops

\* Only PostgreSQL adds to the stream.  The readers of the socket, and whoever
\* drops bf, take from its front.
LEMMA StreamShrinks ==
    ASSUME TypeOK, Serving, [Next]_vars, ~Serve, ~Notify
    PROVE  \E n \in Nat : Drops(Stream', Stream, n)
  <1>1. Stream \in Seq(Message) /\ Len(Stream) \in Nat /\ Len(bfbuf) \in Nat
    BY StreamType
  <1>2. ASSUME Stream' = Stream PROVE Drops(Stream', Stream, 0)
    BY <1>1, <1>2 DEF Drops
  <1>3. CASE RelayMessage
    BY <1>3, RelayTakes
  <1>4. CASE PgReads
    <2>1. PICK n \in 1..Len(wire) : wire' = SubSeq(wire, n + 1, Len(wire))
      BY <1>4 DEF PgReads
    <2>2. Drops(Stream', Stream, n) /\ n \in Nat
      BY <1>4, <2>1, PgTakes
    <2> QED BY <2>2
  <1>5. CASE ClientLeaves \/ ClientLost
    <2>1. bfbuf' = <<>> /\ wire' = wire
      BY <1>5 DEF ClientLeaves, ClientLost, DropFrontend
    <2> QED BY <1>1, <2>1, DropTakes
  <1>6. CASE BfReads
    <2>1. Stream' = Stream
      BY <1>6, BfTakes
    <2> QED BY <1>2, <2>1
  <1>7. CASE \/ ClientSends \/ BfReadsTorn \/ Acquire \/ PgReadsTorn \/ PgSkips \/ PgReturns
             \/ CloseIdle \/ UNCHANGED vars
    <2>1. bfbuf' = bfbuf /\ wire' = wire
      BY <1>7 DEF ClientSends, BfReadsTorn, DropFrontend, Acquire, PgReadsTorn, PgSkips,
                  PgReturns, CloseIdle, vars
    <2>2. Stream' = Stream
      BY <2>1 DEF Stream
    <2> QED BY <1>2, <2>2
  <1> QED BY <1>3, <1>4, <1>5, <1>6, <1>7 DEF Next

\* What is written to the socket comes at the end of the stream.
LEMMA StreamExtends ==
    ASSUME TypeOK, NEW t \in Seq(Message), wire' = wire \o t, bfbuf' = bfbuf
    PROVE  /\ Len(Stream') = Len(Stream) + Len(t)
           /\ Len(Stream) \in Nat /\ Len(t) \in Nat
           /\ \A i \in 1..Len(Stream) : Stream'[i] = Stream[i]
           /\ \A i \in 1..Len(Stream') : i > Len(Stream) =>
                 i - Len(Stream) \in 1..Len(t) /\ Stream'[i] = t[i - Len(Stream)]
  <1>1. bfbuf \in Seq(Message) /\ wire \in Seq(Message)
    BY DEF TypeOK
  <1>2. Stream' = Stream \o t
    <2>1. Stream' = bfbuf \o (wire \o t)
      BY DEF Stream
    <2>2. bfbuf \o (wire \o t) = (bfbuf \o wire) \o t
      BY <1>1, ConcatAssociative
    <2>3. Stream = bfbuf \o wire
      BY DEF Stream
    <2> QED BY <2>1, <2>2, <2>3
  <1>3. Stream \in Seq(Message) /\ Len(Stream) \in Nat /\ Len(t) \in Nat
    BY StreamType
  <1>4. /\ Len(Stream') = Len(Stream) + Len(t)
        /\ \A i \in 1..(Len(Stream) + Len(t)) :
              Stream'[i] = IF i =< Len(Stream) THEN Stream[i] ELSE t[i - Len(Stream)]
    BY <1>2, <1>3, ConcatProperties
  <1>5. ASSUME NEW i \in 1..Len(Stream) PROVE Stream'[i] = Stream[i]
    <2>1. i \in 1..(Len(Stream) + Len(t)) /\ i =< Len(Stream)
      BY <1>3
    <2> QED BY <1>4, <2>1
  <1>6. ASSUME NEW i \in 1..Len(Stream'), i > Len(Stream)
        PROVE  i - Len(Stream) \in 1..Len(t) /\ Stream'[i] = t[i - Len(Stream)]
    <2>1. /\ i \in 1..(Len(Stream) + Len(t)) /\ ~(i =< Len(Stream))
          /\ i - Len(Stream) \in 1..Len(t)
      BY <1>3, <1>4, <1>6
    <2> QED BY <1>4, <2>1
  <1> QED BY <1>3, <1>4, <1>5, <1>6

\* PostgreSQL adds the response to the request it runs.
LEMMA StreamGrows ==
    ASSUME TypeOK, Serve
    PROVE  /\ inq # <<>> /\ Len(inq') = Len(inq) - 1
           /\ \A i \in 1..Len(inq') : inq'[i] = inq[i + 1]
           /\ Len(Stream) =< Len(Stream') /\ Len(Stream') \in Nat
           /\ \A i \in 1..Len(Stream) : Stream'[i] = Stream[i]
           /\ \A i \in 1..Len(Stream') : i > Len(Stream) =>
                 /\ Stream'[i].of = inq[1]
                 /\ Stream'[i].what = "ready" => i = Len(Stream')
  <1>1. PICK answer \in Responses(Head(inq)) : wire' = wire \o answer
    BY DEF Serve
  <1>2. inq # <<>> /\ inq \in Seq(Request) /\ inq' = Tail(inq) /\ bfbuf' = bfbuf
    BY DEF Serve, TypeOK
  <1>3. /\ Head(inq) \in Request /\ Head(inq) = inq[1] /\ Len(inq') = Len(inq) - 1
        /\ \A i \in 1..Len(inq') : inq'[i] = inq[i + 1]
    BY <1>2, HeadTailProperties
  <1>4. /\ answer \in Seq(Message)
        /\ \A i \in 1..Len(answer) :
             answer[i].of = inq[1] /\ (answer[i].what = "ready" => i = Len(answer))
    BY <1>3, AnswersAreMessages
  <1>5. /\ Len(Stream') = Len(Stream) + Len(answer)
        /\ Len(Stream) \in Nat /\ Len(answer) \in Nat
        /\ \A i \in 1..Len(Stream) : Stream'[i] = Stream[i]
        /\ \A i \in 1..Len(Stream') : i > Len(Stream) =>
              /\ i - Len(Stream) \in 1..Len(answer)
              /\ Stream'[i] = answer[i - Len(Stream)]
    BY <1>1, <1>2, <1>4, StreamExtends
  <1>6. ASSUME NEW i \in 1..Len(Stream'), i > Len(Stream)
        PROVE  Stream'[i].of = inq[1] /\ (Stream'[i].what = "ready" => i = Len(Stream'))
    <2>1. i - Len(Stream) \in 1..Len(answer) /\ Stream'[i] = answer[i - Len(Stream)]
      BY <1>5, <1>6
    <2>2. /\ answer[i - Len(Stream)].of = inq[1]
          /\ answer[i - Len(Stream)].what = "ready" => i - Len(Stream) = Len(answer)
      BY <1>4, <2>1
    <2>3. i \in Nat
      BY <1>5
    <2> QED BY <1>5, <2>1, <2>2, <2>3
  <1>7. Len(Stream) =< Len(Stream') /\ Len(Stream') \in Nat
    BY <1>5
  <1> QED BY <1>2, <1>3, <1>5, <1>6, <1>7

\* PostgreSQL says something of its own accord, when it has nothing to run.
LEMMA NoticeGrows ==
    ASSUME TypeInv, Notify
    PROVE  /\ inq = <<>> /\ Len(Stream') = Len(Stream) + 1
           /\ UNCHANGED <<phase, session, sent, inq, pgbuf, cuts>>
           /\ \A i \in 1..Len(Stream) : Stream'[i] = Stream[i]
           /\ \A i \in 1..Len(Stream') : i > Len(Stream) =>
                 /\ i = Len(Stream) + 1
                 /\ Stream'[i].what = "notice"
                 /\ Stream'[i].of.id = sent + 1 /\ Stream'[i].of.kind = "none"
  <1>1. /\ inq = <<>> /\ wire' = wire \o <<Notice>> /\ bfbuf' = bfbuf
        /\ UNCHANGED <<phase, session, sent, inq, pgbuf, cuts>>
    BY DEF Notify
  <1>2. /\ <<Notice>> \in Seq(Message) /\ Len(<<Notice>>) = 1
        /\ \A i \in 1..Len(<<Notice>>) :
             /\ <<Notice>>[i].what = "notice"
             /\ <<Notice>>[i].of.id = sent + 1 /\ <<Notice>>[i].of.kind = "none"
    BY NoticeTyped
  <1> DEFINE t == <<Notice>>
  <1> HIDE DEF t
  <1>3. /\ Len(Stream') = Len(Stream) + Len(t)
        /\ Len(Stream) \in Nat
        /\ \A i \in 1..Len(Stream) : Stream'[i] = Stream[i]
        /\ \A i \in 1..Len(Stream') : i > Len(Stream) =>
              i - Len(Stream) \in 1..Len(t) /\ Stream'[i] = t[i - Len(Stream)]
    <2>1. TypeOK /\ t \in Seq(Message) /\ wire' = wire \o t
      BY <1>1, <1>2 DEF TypeInv, t
    <2> QED BY <1>1, <2>1, StreamExtends
  <1>4. /\ Len(t) = 1
        /\ \A i \in 1..Len(t) :
             t[i].what = "notice" /\ t[i].of.id = sent + 1 /\ t[i].of.kind = "none"
    BY <1>2 DEF t
  <1>5. ASSUME NEW i \in 1..Len(Stream'), i > Len(Stream)
        PROVE  /\ i = Len(Stream) + 1
               /\ Stream'[i].what = "notice"
               /\ Stream'[i].of.id = sent + 1 /\ Stream'[i].of.kind = "none"
    <2>1. i \in Nat /\ i =< Len(Stream) + 1
      BY <1>3, <1>4
    <2>2. i = Len(Stream) + 1
      BY <1>3, <1>5, <2>1
    <2> QED BY <1>3, <1>4, <1>5, <2>2
  <1> QED BY <1>1, <1>3, <1>4, <1>5

\* The other side: the requests are as they were, or one follows them.
LEMMA QueueGrows ==
    ASSUME TypeInv, [Next]_vars, ~Serve
    PROVE  \/ UNCHANGED <<sent, inq>>
           \/ /\ sent' = sent + 1 /\ Len(inq') = Len(inq) + 1
              /\ \A i \in 1..Len(inq) : inq'[i] = inq[i]
              /\ inq'[Len(inq) + 1].id = sent'
              /\ \/ inq'[Len(inq) + 1].kind \in Own
                 \/ ClientSends /\ inq'[Len(inq) + 1].by = session
  <1>0. TypeOK /\ inq \in Seq(Request) /\ Len(inq) \in Nat
    BY DEF TypeInv, TypeOK
  <1>1. ASSUME NEW kind, NEW s, Send(kind, s)
        PROVE  /\ sent' = sent + 1 /\ Len(inq') = Len(inq) + 1
               /\ \A i \in 1..Len(inq) : inq'[i] = inq[i]
               /\ inq'[Len(inq) + 1].id = sent'
               /\ inq'[Len(inq) + 1].kind = kind /\ inq'[Len(inq) + 1].by = s
    <2> DEFINE r == [id |-> sent + 1, by |-> s, kind |-> kind]
    <2>1. sent' = sent + 1 /\ inq' = Append(inq, r)
      BY <1>1 DEF Send
    <2>2. r.id = sent' /\ r.kind = kind /\ r.by = s
      BY <2>1
    <2>3. inq \in Seq(Request \cup {r}) /\ r \in Request \cup {r}
      BY <1>0, SeqMonotonic
    <2> HIDE DEF r
    <2>4. /\ Len(inq') = Len(inq) + 1 /\ inq'[Len(inq) + 1] = r
          /\ \A i \in 1..Len(inq) : inq'[i] = inq[i]
      BY <2>1, <2>3, AppendProperties
    <2> QED BY <2>1, <2>2, <2>4
  <1>2. CASE ClientSends
    <2>1. PICK kind \in Requests : Send(kind, session)
      BY <1>2 DEF ClientSends
    <2> QED BY <1>1, <1>2, <2>1
  <1>3. CASE ClientLeaves \/ ClientLost
    <2>1. Send("rollback", session)
      BY <1>3 DEF ClientLeaves, ClientLost, Exec
    <2> QED BY <1>1, <2>1 DEF Own
  <1>4. CASE Acquire
    <2>1. Send("ping", session + 1)
      BY <1>4 DEF Acquire, Exec
    <2> QED BY <1>1, <2>1 DEF Own
  <1>5. CASE PgReturns
    <2>1. Send("discard", session) \/ UNCHANGED <<sent, inq>>
      BY <1>5 DEF PgReturns, Exec
    <2> QED BY <1>1, <2>1 DEF Own
  <1>6. CASE BfReadsTorn
    <2>1. Send("rollback", session) \/ UNCHANGED <<sent, inq>>
      BY <1>6 DEF BfReadsTorn, Exec
    <2> QED BY <1>1, <2>1 DEF Own
  <1>7. CASE \/ Notify \/ BfReads \/ RelayMessage \/ PgReads \/ PgReadsTorn \/ PgSkips
             \/ CloseIdle \/ UNCHANGED vars
    BY <1>7 DEF Notify, BfReads, RelayMessage, PgReads, PgReadsTorn, PgSkips, CloseIdle, vars
  <1> QED BY <1>2, <1>3, <1>4, <1>5, <1>6, <1>7 DEF Next

-----------------------------------------------------------------------------
(* The order of responses and requests *)

\* Responses come in the order of the requests, and before those that are not
\* run yet, which are the last ones; what PostgreSQL says of its own accord
\* comes before the response to the next one.
OrderInv ==
    /\ \A i \in 1..Len(inq) : inq[i].id + Len(inq) = sent + i
    /\ \A i \in 1..Len(Stream) :
          /\ Stream[i].of.id + Len(inq) =< sent + 1
          /\ Stream[i].what # "notice" => Stream[i].of.id + Len(inq) =< sent
    /\ Ordered(Stream)
    /\ Serving

\* bf is empty when a session begins, and dropped when it ends.
LEMMA ServingStep ==
    ASSUME TypeOK, Serving, [Next]_vars
    PROVE  Serving'
  <1>1. CASE BfReads \/ RelayMessage
    BY <1>1 DEF BfReads, RelayMessage, Serving
  <1>2. CASE ClientLeaves \/ ClientLost \/ BfReadsTorn
    BY <1>2 DEF ClientLeaves, ClientLost, BfReadsTorn, DropFrontend, Serving
  <1>3. CASE PgReads \/ PgReadsTorn \/ PgSkips \/ PgReturns \/ Acquire \/ CloseIdle
    <2>1. bfbuf = <<>> /\ bfbuf' = bfbuf
      BY <1>3 DEF PgReads, PgReadsTorn, PgSkips, PgReturns, Acquire, CloseIdle, Serving, Own
    <2> QED BY <2>1 DEF Serving
  <1>4. CASE Serve \/ Notify \/ ClientSends \/ UNCHANGED vars
    BY <1>4 DEF Serve, Notify, ClientSends, vars, Serving
  <1> QED BY <1>1, <1>2, <1>3, <1>4 DEF Next

\* What is left of responses in order is in order.
LEMMA DropsKeepsOrder ==
    ASSUME NEW s, NEW t, NEW n \in Nat, Len(s) \in Nat, Drops(t, s, n), Ordered(s)
    PROVE  /\ Ordered(t)
           /\ \A i \in 1..Len(t) : n + i \in 1..Len(s) /\ t[i] = s[n + i]
  <1>1. Len(t) = Len(s) - n /\ \A i \in 1..Len(t) : t[i] = s[n + i]
    BY DEF Drops
  <1>2. \A i \in 1..Len(t) : n + i \in 1..Len(s) /\ t[i] = s[n + i]
    BY <1>1
  <1>3. ASSUME NEW i \in 1..Len(t), NEW j \in 1..Len(t), i < j
        PROVE  t[i].of.id =< t[j].of.id /\ (t[i].what = "ready" => t[i].of.id < t[j].of.id)
    <2>1. n + i \in 1..Len(s) /\ n + j \in 1..Len(s) /\ n + i < n + j
      BY <1>2, <1>3
    <2>2. /\ s[n + i].of.id =< s[n + j].of.id
          /\ s[n + i].what = "ready" => s[n + i].of.id < s[n + j].of.id
      BY <2>1 DEF Ordered
    <2> QED BY <1>2, <2>2
  <1> QED BY <1>2, <1>3 DEF Ordered

\* Requests are run, and responses read, one after the other.
LEMMA OrderStep ==
    ASSUME TypeInv, OrderInv, [Next]_vars
    PROVE  OrderInv'
  <1>0. TypeOK /\ Serving
    BY DEF TypeInv, OrderInv
  <1>1. /\ sent \in Nat /\ Len(inq) \in Nat
        /\ \A i \in 1..Len(inq) : inq[i].id \in Nat
        /\ \A i \in 1..Len(Stream) : Stream[i].of.id \in Nat
        /\ Len(Stream) \in Nat
    BY <1>0, KnownAreRequests, StreamType
  <1>n. sent \in Nat /\ Len(inq) \in Nat /\ Len(Stream) \in Nat
    BY <1>1
  <1>2. /\ \A i \in 1..Len(inq) : inq[i].id + Len(inq) = sent + i
        /\ \A i \in 1..Len(Stream) :
              /\ Stream[i].of.id + Len(inq) =< sent + 1
              /\ Stream[i].what # "notice" => Stream[i].of.id + Len(inq) =< sent
        /\ Ordered(Stream)
    BY DEF OrderInv
  <1>3. Serving'
    BY <1>0, ServingStep
  <1>4. CASE Serve
    <2>1. /\ inq # <<>> /\ Len(inq') = Len(inq) - 1
          /\ \A i \in 1..Len(inq') : inq'[i] = inq[i + 1]
          /\ Len(Stream) =< Len(Stream') /\ Len(Stream') \in Nat
          /\ \A i \in 1..Len(Stream) : Stream'[i] = Stream[i]
          /\ \A i \in 1..Len(Stream') : i > Len(Stream) =>
                /\ Stream'[i].of = inq[1]
                /\ Stream'[i].what = "ready" => i = Len(Stream')
      BY <1>0, <1>4, StreamGrows
    <2>2. sent' = sent
      BY <1>4 DEF Serve
    <2>3. 1 \in 1..Len(inq) /\ inq[1].id + Len(inq) = sent + 1 /\ inq[1].id \in Nat
      <3>1. Len(inq) # 0
        BY <1>0, <2>1, EmptySeq DEF TypeOK
      <3>2. 1 \in 1..Len(inq)
        BY <1>1, <3>1
      <3> QED BY <1>1, <1>2, <3>2
    <2>4. ASSUME NEW i \in 1..Len(inq') PROVE inq'[i].id + Len(inq') = sent + i
      <3>1. i + 1 \in 1..Len(inq) /\ inq'[i] = inq[i + 1] /\ i \in Nat
        BY <1>1, <2>1
      <3>2. inq[i + 1].id + Len(inq) = sent + (i + 1) /\ inq[i + 1].id \in Nat
        BY <1>1, <1>2, <3>1
      <3>3. inq'[i].id = inq[i + 1].id /\ Len(inq') = Len(inq) - 1
        BY <2>1, <3>1
      <3> QED BY <1>n, <3>1, <3>2, <3>3
    <2>5. ASSUME NEW i \in 1..Len(Stream')
          PROVE  /\ Stream'[i].of.id \in Nat /\ i \in Nat
                 /\ i =< Len(Stream) =>
                       /\ i \in 1..Len(Stream) /\ Stream'[i] = Stream[i]
                       /\ Stream'[i].of.id + Len(inq) =< sent + 1
                       /\ Stream'[i].what # "notice" => Stream'[i].of.id + Len(inq) =< sent
                 /\ i > Len(Stream) =>
                       /\ Stream'[i].of.id + Len(inq) = sent + 1
                       /\ Stream'[i].what = "ready" => i = Len(Stream')
      <3>1. CASE i =< Len(Stream)
        <4>1. i \in 1..Len(Stream)
          BY <1>1, <3>1
        <4> QED BY <1>1, <1>2, <2>1, <3>1, <4>1
      <3>2. CASE i > Len(Stream)
        <4>1. Stream'[i].of = inq[1] /\ (Stream'[i].what = "ready" => i = Len(Stream'))
          BY <2>1, <3>2
        <4> QED BY <1>1, <2>3, <3>2, <4>1
      <3> QED BY <1>1, <2>1, <3>1, <3>2
    <2>6. \A i \in 1..Len(Stream') :
              /\ Stream'[i].of.id + Len(inq') =< sent + 1
              /\ Stream'[i].what # "notice" => Stream'[i].of.id + Len(inq') =< sent
      <3>1. ASSUME NEW i \in 1..Len(Stream')
            PROVE  /\ Stream'[i].of.id + Len(inq') =< sent + 1
                   /\ Stream'[i].of.id + Len(inq') =< sent
        <4>1. /\ Stream'[i].of.id \in Nat
              /\ i =< Len(Stream) \/ i > Len(Stream)
          BY <1>n, <2>5
        <4>2. Stream'[i].of.id + Len(inq) =< sent + 1
          <5>1. CASE i =< Len(Stream)
            BY <2>5, <5>1
          <5>2. CASE i > Len(Stream)
            <6>1. Stream'[i].of.id + Len(inq) = sent + 1
              BY <2>5, <5>2
            <6> QED BY <1>n, <6>1
          <5> QED BY <4>1, <5>1, <5>2
        <4>3. Len(inq') = Len(inq) - 1
          BY <2>1
        <4> QED BY <1>n, <4>1, <4>2, <4>3
      <3> QED BY <3>1
    <2>a. \A x, y \in Nat :
              /\ x + Len(inq) =< sent /\ y + Len(inq) = sent + 1 => x < y
              /\ x + Len(inq) =< sent + 1 /\ y + Len(inq) = sent + 1 => x =< y
      BY <1>n
    <2>b. \A x, y \in Nat : x + Len(inq) = sent + 1 /\ y + Len(inq) = sent + 1 => x =< y
      BY <1>n
    <2>7. ASSUME NEW i \in 1..Len(Stream'), NEW j \in 1..Len(Stream'), i < j
          PROVE  /\ Stream'[i].of.id =< Stream'[j].of.id
                 /\ Stream'[i].what = "ready" => Stream'[i].of.id < Stream'[j].of.id
      <3>1. CASE j =< Len(Stream)
        <4>1. /\ i \in 1..Len(Stream) /\ Stream'[i] = Stream[i]
              /\ j \in 1..Len(Stream) /\ Stream'[j] = Stream[j]
          BY <1>1, <2>5, <2>7, <3>1
        <4>2. /\ Stream[i].of.id =< Stream[j].of.id
              /\ Stream[i].what = "ready" => Stream[i].of.id < Stream[j].of.id
          BY <1>2, <2>7, <4>1 DEF Ordered
        <4> QED BY <4>1, <4>2
      <3>2. CASE j > Len(Stream) /\ i =< Len(Stream)
        <4>1. /\ Stream'[j].of.id + Len(inq) = sent + 1 /\ Stream'[j].of.id \in Nat
              /\ Stream'[i].of.id + Len(inq) =< sent + 1 /\ Stream'[i].of.id \in Nat
              /\ Stream'[i].what = "ready" => Stream'[i].of.id + Len(inq) =< sent
          BY <2>5, <3>2
        <4>2. Stream'[i].what = "ready" => Stream'[i].of.id < Stream'[j].of.id
          BY <4>1, <2>a
        <4>3. Stream'[i].of.id =< Stream'[j].of.id
          BY <4>1, <2>a
        <4> QED BY <4>2, <4>3
      <3>3. CASE j > Len(Stream) /\ i > Len(Stream)
        <4>1. /\ Stream'[j].of.id + Len(inq) = sent + 1 /\ Stream'[j].of.id \in Nat
              /\ Stream'[i].of.id + Len(inq) = sent + 1 /\ Stream'[i].of.id \in Nat
              /\ Stream'[i].what = "ready" => i = Len(Stream')
          BY <2>5, <3>3
        <4>2. i # Len(Stream')
          BY <2>1, <2>7
        <4>3. Stream'[i].of.id =< Stream'[j].of.id
          BY <4>1, <2>b
        <4> QED BY <4>1, <4>2, <4>3
      <3> QED BY <1>1, <2>5, <3>1, <3>2, <3>3
    <2>8. Ordered(Stream')
      BY <2>7 DEF Ordered
    <2>9. Ordered(Stream)' /\ Serving'
      BY <1>3, <2>8 DEF Ordered
    <2> QED BY <2>2, <2>4, <2>6, <2>9 DEF OrderInv
  <1>5. CASE Notify
    <2>1. /\ inq = <<>> /\ Len(Stream') = Len(Stream) + 1
          /\ UNCHANGED <<sent, inq>>
          /\ \A i \in 1..Len(Stream) : Stream'[i] = Stream[i]
          /\ \A i \in 1..Len(Stream') : i > Len(Stream) =>
                /\ i = Len(Stream) + 1
                /\ Stream'[i].what = "notice" /\ Stream'[i].of.id = sent + 1
      BY <1>5, NoticeGrows
    <2>2. Len(inq) = 0
      BY <2>1
    <2>3. ASSUME NEW i \in 1..Len(Stream')
          PROVE  /\ i \in Nat /\ i =< Len(Stream) + 1
                 /\ i =< Len(Stream) => i \in 1..Len(Stream) /\ Stream'[i] = Stream[i]
                 /\ i > Len(Stream) =>
                       /\ i = Len(Stream) + 1
                       /\ Stream'[i].what = "notice" /\ Stream'[i].of.id = sent + 1
      <3>1. i \in Nat /\ i =< Len(Stream) + 1 /\ (i =< Len(Stream) => i \in 1..Len(Stream))
        BY <1>n, <2>1
      <3> QED BY <2>1, <3>1
    <2>4. ASSUME NEW i \in 1..Len(Stream')
          PROVE  /\ Stream'[i].of.id \in Nat
                 /\ Stream'[i].of.id =< sent + 1
                 /\ Stream'[i].what # "notice" => Stream'[i].of.id =< sent
      <3>1. CASE i =< Len(Stream)
        <4>1. i \in 1..Len(Stream) /\ Stream'[i] = Stream[i]
          BY <2>3, <3>1
        <4>2. /\ Stream[i].of.id \in Nat /\ Stream[i].of.id + 0 =< sent + 1
              /\ Stream[i].what # "notice" => Stream[i].of.id + 0 =< sent
          BY <1>1, <1>2, <2>2, <4>1
        <4>3. \A x \in Nat : x + 0 = x
          OBVIOUS
        <4> QED BY <4>1, <4>2, <4>3
      <3>2. CASE i > Len(Stream)
        <4>1. Stream'[i].what = "notice" /\ Stream'[i].of.id = sent + 1
          BY <2>3, <3>2
        <4> QED BY <1>n, <4>1
      <3> QED BY <1>n, <2>3, <3>1, <3>2
    <2>5. ASSUME NEW i \in 1..Len(Stream'), NEW j \in 1..Len(Stream'), i < j
          PROVE  /\ Stream'[i].of.id =< Stream'[j].of.id
                 /\ Stream'[i].what = "ready" => Stream'[i].of.id < Stream'[j].of.id
      <3>1. i \in 1..Len(Stream) /\ Stream'[i] = Stream[i]
        <4>1. i =< Len(Stream)
          BY <1>n, <2>3, <2>5
        <4> QED BY <2>3, <4>1
      <3>2. CASE j =< Len(Stream)
        <4>1. j \in 1..Len(Stream) /\ Stream'[j] = Stream[j]
          BY <2>3, <3>2
        <4> QED BY <1>2, <2>5, <3>1, <4>1 DEF Ordered
      <3>3. CASE j > Len(Stream)
        <4>1. Stream'[j].of.id = sent + 1
          BY <2>3, <3>3
        <4>2. /\ Stream'[i].of.id \in Nat /\ Stream'[i].of.id =< sent + 1
              /\ Stream'[i].what = "ready" => Stream'[i].of.id =< sent
          BY <2>4
        <4>3. \A x \in Nat : x =< sent => x < sent + 1
          BY <1>n
        <4> QED BY <4>1, <4>2, <4>3
      <3> QED BY <1>n, <2>3, <3>2, <3>3
    <2>6. Ordered(Stream)'
      BY <2>5 DEF Ordered
    <2>7. \A i \in 1..Len(Stream') :
              /\ Stream'[i].of.id + Len(inq') =< sent' + 1
              /\ Stream'[i].what # "notice" => Stream'[i].of.id + Len(inq') =< sent'
      <3>1. \A x \in Nat : x + 0 = x
        OBVIOUS
      <3> QED BY <2>1, <2>2, <2>4, <3>1
    <2>8. \A i \in 1..Len(inq') : inq'[i].id + Len(inq') = sent' + i
      BY <1>2, <2>1
    <2> QED BY <1>3, <2>6, <2>7, <2>8 DEF OrderInv
  <1>6. CASE ~Serve /\ ~Notify
    <2>1. PICK n \in Nat : Drops(Stream', Stream, n)
      BY <1>0, <1>6, StreamShrinks
    <2>2. /\ Ordered(Stream')
          /\ \A i \in 1..Len(Stream') : n + i \in 1..Len(Stream) /\ Stream'[i] = Stream[n + i]
      BY <1>1, <1>2, <2>1, DropsKeepsOrder
    <2>3. Ordered(Stream)' /\ Serving'
      BY <1>3, <2>2 DEF Ordered
    <2>4. \A i \in 1..Len(Stream') :
              /\ Stream'[i].of.id \in Nat
              /\ Stream'[i].of.id + Len(inq) =< sent + 1
              /\ Stream'[i].what # "notice" => Stream'[i].of.id + Len(inq) =< sent
      BY <1>1, <1>2, <2>2
    <2>5. CASE UNCHANGED <<sent, inq>>
      BY <1>2, <2>3, <2>4, <2>5 DEF OrderInv
    <2>6. CASE /\ sent' = sent + 1 /\ Len(inq') = Len(inq) + 1
               /\ \A i \in 1..Len(inq) : inq'[i] = inq[i]
               /\ inq'[Len(inq) + 1].id = sent'
      <3>1. ASSUME NEW i \in 1..Len(inq') PROVE inq'[i].id + Len(inq') = sent' + i
        <4>1. CASE i \in 1..Len(inq)
          <5>1. inq'[i] = inq[i] /\ inq[i].id \in Nat /\ inq[i].id + Len(inq) = sent + i
            BY <1>1, <1>2, <2>6, <4>1
          <5>2. sent' = sent + 1 /\ Len(inq') = Len(inq) + 1 /\ i \in Nat
            BY <2>6, <4>1
          <5>3. inq'[i].id + Len(inq') = sent' + i
            BY <1>n, <5>1, <5>2
          <5> QED BY <5>3
        <4>2. CASE i = Len(inq) + 1
          BY <1>1, <2>6, <4>2
        <4> QED BY <1>1, <2>6, <4>1, <4>2
      <3>2. ASSUME NEW i \in 1..Len(Stream')
            PROVE  /\ Stream'[i].of.id + Len(inq') =< sent' + 1
                   /\ Stream'[i].what # "notice" => Stream'[i].of.id + Len(inq') =< sent'
        <4>1. \A x \in Nat :
                  /\ x + Len(inq) =< sent + 1 => x + (Len(inq) + 1) =< (sent + 1) + 1
                  /\ x + Len(inq) =< sent => x + (Len(inq) + 1) =< sent + 1
          BY <1>n
        <4> QED BY <2>4, <2>6, <4>1
      <3> QED BY <2>3, <3>1, <3>2 DEF OrderInv
    <2> QED BY <1>6, <2>5, <2>6, QueueGrows
  <1> QED BY <1>4, <1>5, <1>6

-----------------------------------------------------------------------------
(* Replies too many *)

\* Replies the connection may hold: one for each client that vanished, and the
\* one that is being waited for.
Due == cuts + (IF Waiting THEN 1 ELSE 0)

\* From any unread message on, there are not more requests than that, with the
\* replies in the buffer of pgconn; nor are there of those not run yet.  So it
\* is on an intact stream, and a torn one is never intact again.
LagInv ==
    phase \notin {"closed", "stuck"} /\ ~torn =>
        /\ Replies(pgbuf) + Len(inq) =< Due
        /\ \A i \in 1..Len(Stream) : Replies(pgbuf) + sent + 1 =< Stream[i].of.id + Due

\* How much is due is a number, and changes with the phase.
LEMMA DueType ==
    ASSUME TypeInv
    PROVE  /\ Due \in Nat /\ cuts \in Nat
           /\ Waiting => Due = cuts + 1
           /\ ~Waiting => Due = cuts
  <1>1. cuts \in Nat
    BY Bounds DEF TypeInv, TypeOK
  <1> QED BY <1>1 DEF Due

\* A request goes out: what is due grows with the requests.
LEMMA LagSend ==
    ASSUME TypeInv, OrderInv, LagInv, phase \notin {"closed", "stuck"}, ~torn,
           [Next]_vars, ~Serve, sent' = sent + 1, Len(inq') = Len(inq) + 1,
           pgbuf' = pgbuf, Due' = Due + 1
    PROVE  LagInv'
  <1>1. /\ sent \in Nat /\ Len(inq) \in Nat /\ Len(Stream) \in Nat
        /\ \A i \in 1..Len(Stream) : Stream[i].of.id \in Nat
    BY KnownAreRequests, StreamType DEF TypeInv
  <1>2. Due \in Nat /\ Replies(pgbuf) \in Nat
    BY DueType, RepliesType DEF TypeInv, TypeOK
  <1>3. /\ Replies(pgbuf) + Len(inq) =< Due
        /\ \A i \in 1..Len(Stream) : Replies(pgbuf) + sent + 1 =< Stream[i].of.id + Due
    BY DEF LagInv
  <1>4. PICK n \in Nat : Drops(Stream', Stream, n)
    <2>1. sent' # sent
      BY <1>1
    <2>2. ~Notify
      BY <2>1 DEF Notify
    <2> QED BY <2>2, StreamShrinks DEF TypeInv, OrderInv
  <1>5. \A i \in 1..Len(Stream') : n + i \in 1..Len(Stream) /\ Stream'[i] = Stream[n + i]
    BY <1>1, <1>4, DropsKeepsOrder DEF OrderInv
  <1>6. Replies(pgbuf') + Len(inq') =< Due'
    BY <1>1, <1>2, <1>3
  <1>a. \A k \in Nat : Replies(pgbuf) + sent + 1 =< k + Due
                        => Replies(pgbuf) + (sent + 1) + 1 =< k + (Due + 1)
    BY <1>1, <1>2
  <1>7. ASSUME NEW i \in 1..Len(Stream')
        PROVE  Replies(pgbuf') + sent' + 1 =< Stream'[i].of.id + Due'
    <2>1. Stream'[i] = Stream[n + i] /\ Stream[n + i].of.id \in Nat
          /\ Replies(pgbuf) + sent + 1 =< Stream[n + i].of.id + Due
      BY <1>1, <1>3, <1>5
    <2>2. Replies(pgbuf) + (sent + 1) + 1 =< Stream[n + i].of.id + (Due + 1)
      BY <1>a, <2>1
    <2> QED BY <2>1, <2>2
  <1>8. (Replies(pgbuf))' = Replies(pgbuf')
    BY DEF Replies
  <1> QED BY <1>6, <1>7, <1>8 DEF LagInv

\* What a reader waits for, it reads, and what it reads leaves the connection.
LEMMA LagStep ==
    ASSUME TypeInv, OrderInv, LagInv, [Next]_vars
    PROVE  LagInv'
  <1> SUFFICES ASSUME ~torn, ~torn' PROVE LagInv'
    BY TornStays DEF LagInv
  <1>0. TypeOK /\ Serving /\ pgbuf \in Seq(Message) /\ wire \in Seq(Message)
        /\ bfbuf \in Seq(Message) /\ Ordered(Stream)
    BY DEF TypeInv, TypeOK, OrderInv
  <1>1. /\ sent \in Nat /\ Len(inq) \in Nat /\ Len(Stream) \in Nat
        /\ \A i \in 1..Len(Stream) : Stream[i].of.id \in Nat
    BY <1>0, KnownAreRequests, StreamType
  <1>2. /\ Due \in Nat /\ Replies(pgbuf) \in Nat /\ cuts \in Nat
        /\ Waiting => Due = cuts + 1
        /\ ~Waiting => Due = cuts
    BY <1>0, DueType, RepliesType
  <1>t. Due \in Nat /\ Replies(pgbuf) \in Nat
    BY <1>2
  <1>3. phase \notin {"closed", "stuck"} =>
          /\ Replies(pgbuf) + Len(inq) =< Due
          /\ \A i \in 1..Len(Stream) : Replies(pgbuf) + sent + 1 =< Stream[i].of.id + Due
    BY DEF LagInv
  <1>4. /\ \A i \in 1..Len(inq) : inq[i].id + Len(inq) = sent + i
        /\ \A i \in 1..Len(Stream) :
              /\ Stream[i].of.id + Len(inq) =< sent + 1
              /\ Stream[i].what = "ready" => Stream[i].of.id + Len(inq) =< sent
    BY DEF OrderInv
  <1>r. (Replies(pgbuf))' = Replies(pgbuf')
    BY DEF Replies
  <1>n. sent \in Nat /\ Len(inq) \in Nat /\ Len(Stream) \in Nat
    BY <1>1
  <1>5. CASE Serve
    <2>1. /\ inq # <<>> /\ Len(inq') = Len(inq) - 1
          /\ Len(Stream') \in Nat
          /\ \A i \in 1..Len(Stream) : Stream'[i] = Stream[i]
          /\ \A i \in 1..Len(Stream') : i > Len(Stream) => Stream'[i].of = inq[1]
      BY <1>0, <1>5, StreamGrows
    <2>2. UNCHANGED <<phase, sent, cuts, pgbuf>>
      BY <1>5 DEF Serve
    <2>3. Due' = Due
      BY <2>2 DEF Due, Waiting
    <2>4. SUFFICES ASSUME phase \notin {"closed", "stuck"} PROVE LagInv'
      BY <2>2 DEF LagInv
    <2>5. inq[1].id + Len(inq) = sent + 1 /\ inq[1].id \in Nat
      <3>1. 1 \in 1..Len(inq)
        BY <1>0, <1>1, <2>1, EmptySeq DEF TypeOK
      <3> QED BY <1>0, <1>4, <3>1, KnownAreRequests
    <2>6. Replies(pgbuf) + Len(inq') =< Due
      BY <1>1, <1>2, <1>3, <2>1, <2>4
    <2>a. \A k \in Nat : k + Len(inq) = sent + 1 /\ Replies(pgbuf) + Len(inq) =< Due
                         => Replies(pgbuf) + sent + 1 =< k + Due
      BY <1>n, <1>t
    <2>7. ASSUME NEW i \in 1..Len(Stream')
          PROVE  Replies(pgbuf) + sent + 1 =< Stream'[i].of.id + Due
      <3>1. CASE i =< Len(Stream)
        <4>1. i \in 1..Len(Stream)
          BY <1>n, <3>1
        <4> QED BY <1>3, <2>1, <2>4, <4>1
      <3>2. CASE i > Len(Stream)
        <4>1. Stream'[i].of = inq[1]
          BY <2>1, <3>2
        <4>2. Replies(pgbuf) + Len(inq) =< Due
          BY <1>3, <2>4
        <4>3. Replies(pgbuf) + sent + 1 =< inq[1].id + Due
          BY <2>a, <2>5, <4>2
        <4> QED BY <4>1, <4>3
      <3> QED BY <1>n, <3>1, <3>2
    <2> QED BY <2>2, <2>3, <2>6, <2>7, <1>r DEF LagInv
  <1>6. CASE ClientSends \/ ClientLeaves \/ Acquire
    <2>1. /\ ~Waiting /\ Waiting' /\ cuts' = cuts /\ pgbuf' = pgbuf
          /\ phase \notin {"closed", "stuck"}
      BY <1>6 DEF ClientSends, ClientLeaves, Acquire, Exec, Waiting, Own
    <2>2. Due' = Due + 1
      BY <1>2, <2>1 DEF Due
    <2>3. sent' = sent + 1 /\ ~Serve /\ Len(inq') = Len(inq) + 1
      <3>1. sent' = sent + 1
        BY <1>6 DEF ClientSends, ClientLeaves, Acquire, Exec, Send
      <3>2. ~Serve
        BY <1>n, <3>1 DEF Serve
      <3>3. sent' # sent
        BY <1>n, <3>1
      <3> QED BY <3>1, <3>2, <3>3, QueueGrows
    <2> QED BY <2>1, <2>2, <2>3, LagSend
  <1>7. CASE ClientLost
    <2>1. /\ Waiting /\ Waiting' /\ cuts' = cuts + 1 /\ pgbuf' = pgbuf
          /\ phase \notin {"closed", "stuck"}
      BY <1>7 DEF ClientLost, Exec, Waiting, Own
    <2>2. Due' = Due + 1
      BY <1>2, <2>1 DEF Due
    <2>3. sent' = sent + 1 /\ ~Serve /\ Len(inq') = Len(inq) + 1
      <3>1. sent' = sent + 1
        BY <1>7 DEF ClientLost, Exec, Send
      <3>2. ~Serve
        BY <1>n, <3>1 DEF Serve
      <3>3. sent' # sent
        BY <1>n, <3>1
      <3> QED BY <3>1, <3>2, <3>3, QueueGrows
    <2> QED BY <2>1, <2>2, <2>3, LagSend
  <1>8. CASE BfReads
    <2>1. Stream' = Stream /\ UNCHANGED <<phase, sent, inq, cuts, pgbuf>>
      BY <1>0, <1>8, BfTakes DEF BfReads
    <2>2. Due' = Due /\ (Replies(pgbuf))' = Replies(pgbuf)
      BY <2>1 DEF Due, Waiting, Replies
    <2> QED BY <2>1, <2>2 DEF LagInv
  <1>9. CASE RelayMessage
    <2>1. Drops(Stream', Stream, 1) /\ Stream[1] = bfbuf[1] /\ Len(Stream) > 0
      BY <1>0, <1>9, RelayTakes
    <2>2. /\ UNCHANGED <<sent, inq, cuts, pgbuf>> /\ phase = "relay" /\ Waiting
          /\ phase' = IF bfbuf[1].what = "ready" THEN "serve" ELSE "relay"
      BY <1>9 DEF RelayMessage, EndsResponse, Waiting
    <2>3. \A i \in 1..Len(Stream') : 1 + i \in 1..Len(Stream) /\ Stream'[i] = Stream[1 + i]
      BY <1>0, <1>1, <2>1, DropsKeepsOrder
    <2>4. /\ Replies(pgbuf) + Len(inq) =< Due
          /\ \A i \in 1..Len(Stream) : Replies(pgbuf) + sent + 1 =< Stream[i].of.id + Due
      BY <1>3, <2>2
    <2>5. CASE bfbuf[1].what # "ready"
      <3>1. phase' = "relay" /\ Due' = Due
        BY <2>2, <2>5 DEF Due, Waiting
      <3> QED BY <2>2, <2>3, <2>4, <3>1, <1>r DEF LagInv
    <2>6. CASE bfbuf[1].what = "ready"
      <3>1. Due' \in Nat /\ Due' = Due - 1 /\ phase' = "serve"
        <4>1. ~Waiting' /\ cuts' = cuts /\ phase' = "serve"
          BY <2>2, <2>6 DEF Waiting, Own
        <4> QED BY <1>2, <2>2, <4>1 DEF Due
      <3>2. 1 \in 1..Len(Stream) /\ Stream[1].what = "ready"
        BY <1>n, <2>1, <2>6
      <3>3. /\ Stream[1].of.id \in Nat /\ Stream[1].of.id + Len(inq) =< sent
            /\ Replies(pgbuf) + sent + 1 =< Stream[1].of.id + Due
        BY <1>1, <1>4, <2>4, <3>2
      <3>b. \A k \in Nat : k + Len(inq) =< sent /\ Replies(pgbuf) + sent + 1 =< k + Due
                           => Replies(pgbuf) + Len(inq) =< Due'
        BY <1>n, <1>t, <3>1
      <3>4. Replies(pgbuf) + Len(inq) =< Due'
        BY <3>b, <3>3
      <3>a. \A k, h \in Nat : Replies(pgbuf) + sent + 1 =< k + Due /\ k < h
                              => Replies(pgbuf) + sent + 1 =< h + Due'
        BY <1>n, <1>t, <3>1
      <3>5. ASSUME NEW i \in 1..Len(Stream')
            PROVE  Replies(pgbuf) + sent + 1 =< Stream'[i].of.id + Due'
        <4>1. 1 + i \in 1..Len(Stream) /\ 1 < 1 + i /\ Stream'[i] = Stream[1 + i]
          BY <2>3
        <4>2. Stream[1 + i].of.id \in Nat /\ Stream[1].of.id < Stream[1 + i].of.id
          BY <1>0, <1>1, <3>2, <4>1 DEF Ordered
        <4>3. Replies(pgbuf) + sent + 1 =< Stream[1 + i].of.id + Due'
          BY <3>a, <3>3, <4>2
        <4> QED BY <4>1, <4>3
      <3> QED BY <2>2, <3>1, <3>4, <3>5, <1>r DEF LagInv
    <2> QED BY <2>5, <2>6
  <1>10. CASE PgReads
    <2>1. PICK n \in 1..Len(wire) : /\ pgbuf' = SubSeq(wire, 1, n)
                                    /\ wire' = SubSeq(wire, n + 1, Len(wire))
      BY <1>10 DEF PgReads
    <2>2. /\ UNCHANGED <<phase, sent, inq, cuts>> /\ pgbuf = <<>> /\ phase \in Own
      BY <1>10 DEF PgReads
    <2>3. Due' = Due
      BY <2>2 DEF Due, Waiting
    <2>4. Drops(Stream', Stream, n) /\ Stream = wire
      BY <1>0, <1>10, <2>1, PgTakes
    <2>5. \A i \in 1..Len(Stream') : n + i \in 1..Len(Stream) /\ Stream'[i] = Stream[n + i]
      BY <1>0, <1>1, <2>4, DropsKeepsOrder
    <2>6. /\ pgbuf' \in Seq(Message) /\ Len(pgbuf') = n
          /\ \A i \in 1..n : pgbuf'[i] = wire[i]
      BY <1>0, <2>1, ReadsSplit
    <2>7. /\ Replies(pgbuf) = 0 /\ Len(inq) =< Due
          /\ \A i \in 1..Len(Stream) : sent + 1 =< Stream[i].of.id + Due
      <3>1. Replies(pgbuf) = 0
        BY <2>2, NoReplies
      <3>2. phase \notin {"closed", "stuck"}
        BY <2>2 DEF Own
      <3> QED BY <1>n, <1>t, <1>3, <3>1, <3>2
    <2>8. ASSUME NEW i \in 1..Len(pgbuf')
          PROVE  i \in 1..Len(Stream) /\ i =< n /\ pgbuf'[i] = Stream[i]
      <3>1. i \in 1..n /\ i \in 1..Len(Stream)
        BY <1>n, <2>4, <2>6
      <3> QED BY <2>4, <2>6, <3>1
    <2>9. Ordered(pgbuf')
      BY <1>0, <2>8 DEF Ordered
    <2>10. 1 \in 1..Len(Stream) /\ Stream[1].of.id \in Nat
      BY <1>1, <2>4
    <2>11. ASSUME NEW i \in 1..Len(pgbuf') PROVE Stream[1].of.id =< pgbuf'[i].of.id
      <3>1. i = 1 \/ 1 < i
        OBVIOUS
      <3> QED BY <1>0, <2>8, <2>10, <3>1 DEF Ordered
    <2>12. Replies(pgbuf') \in Nat
      BY <2>6, RepliesType
    <2>b. \A k, h \in Nat : h + Len(inq) =< k + Due /\ Replies(pgbuf') + k =< h
                            => Replies(pgbuf') + Len(inq) =< Due
      BY <1>n, <1>t, <2>12
    <2>13. Replies(pgbuf') + Len(inq) =< Due
      <3> DEFINE h == sent - Len(inq) + 1
      <3>1. /\ Stream[1].of.id + Len(inq) =< sent + 1
            /\ sent + 1 =< Stream[1].of.id + Due
        BY <1>4, <2>7, <2>10
      <3>2. h \in Nat /\ Stream[1].of.id =< h
        BY <1>n, <2>10, <3>1
      <3>3. ASSUME NEW i \in 1..Len(pgbuf'), pgbuf'[i].what = "ready"
            PROVE  pgbuf'[i].of.id < h
        <4>1. Stream[i].of.id + Len(inq) =< sent /\ Stream[i].of.id \in Nat
          BY <1>1, <1>4, <2>8, <3>3
        <4>2. Stream[i].of.id < h
          BY <1>n, <4>1
        <4> QED BY <2>8, <4>2
      <3> HIDE DEF h
      <3>4. Replies(pgbuf') + Stream[1].of.id =< h
        BY <2>6, <2>9, <2>10, <2>11, <3>2, <3>3, RepliesAreFew
      <3>5. h + Len(inq) = sent + 1
        BY <1>n DEF h
      <3>6. h + Len(inq) =< Stream[1].of.id + Due
        BY <3>1, <3>5
      <3> QED BY <2>b, <2>10, <3>2, <3>4, <3>6
    <2>a. \A k, h \in Nat : sent + 1 =< k + Due /\ Replies(pgbuf') + k =< h
                            => Replies(pgbuf') + sent + 1 =< h + Due
      BY <1>n, <1>t, <2>12
    <2>14. ASSUME NEW j \in 1..Len(Stream')
           PROVE  Replies(pgbuf') + sent + 1 =< Stream'[j].of.id + Due
      <3> DEFINE h == Stream[n + j].of.id
      <3>1. n + j \in 1..Len(Stream) /\ Stream'[j] = Stream[n + j] /\ h \in Nat
        BY <1>1, <2>5
      <3>2. ASSUME NEW i \in 1..Len(pgbuf')
            PROVE  pgbuf'[i].of.id =< h /\ (pgbuf'[i].what = "ready" => pgbuf'[i].of.id < h)
        <4>1. i < n + j /\ i \in 1..Len(Stream) /\ pgbuf'[i] = Stream[i]
          BY <2>8
        <4> QED BY <1>0, <3>1, <4>1 DEF Ordered
      <3>3. Stream[1].of.id =< h
        <4>1. 1 \in 1..Len(pgbuf') /\ pgbuf'[1] = Stream[1]
          BY <2>6, <2>8
        <4> QED BY <3>2, <4>1
      <3>n. h \in Nat
        BY <3>1
      <3> HIDE DEF h
      <3>4. Replies(pgbuf') + Stream[1].of.id =< h
        BY <2>6, <2>9, <2>10, <2>11, <3>n, <3>2, <3>3, RepliesAreFew
      <3>6. Replies(pgbuf') + sent + 1 =< h + Due
        BY <2>a, <2>7, <2>10, <3>n, <3>4
      <3> QED BY <3>1, <3>6 DEF h
    <2> QED BY <2>2, <2>3, <2>13, <2>14, <1>r DEF LagInv
  <1>11. CASE PgReadsTorn
    BY <1>11 DEF PgReadsTorn, LagInv
  <1>12. CASE PgSkips \/ PgReturns
    <2>1. /\ bfbuf' = bfbuf /\ wire' = wire /\ pgbuf' = Tail(pgbuf) /\ pgbuf # <<>>
          /\ cuts' = cuts /\ phase \in Own /\ Waiting /\ phase \notin {"closed", "stuck"}
      BY <1>12 DEF PgSkips, PgReturns, Waiting, Own
    <2>2. Stream' = Stream
      BY <2>1 DEF Stream
    <2>3. Replies(pgbuf) = Replies(pgbuf') + (IF pgbuf[1].what = "ready" THEN 1 ELSE 0)
      BY <1>0, <2>1, TakenReply
    <2>4. pgbuf' \in Seq(Message) /\ Replies(pgbuf') \in Nat
      <3>1. pgbuf' \in Seq(Message)
        BY <1>0, <2>1, HeadTailProperties
      <3> QED BY <3>1, RepliesType
    <2>5. /\ Replies(pgbuf) + Len(inq) =< Due
          /\ \A i \in 1..Len(Stream) : Replies(pgbuf) + sent + 1 =< Stream[i].of.id + Due
      BY <1>3, <2>1
    <2>6. CASE PgSkips
      <3>1. pgbuf[1].what # "ready" /\ UNCHANGED <<phase, sent, inq>>
        BY <2>6 DEF PgSkips
      <3>2. Due' = Due /\ Replies(pgbuf') = Replies(pgbuf)
        BY <1>2, <2>1, <2>3, <2>4, <3>1 DEF Due, Waiting
      <3> QED BY <2>2, <2>5, <3>1, <3>2, <1>r DEF LagInv
    <2>7. CASE PgReturns
      <3>1. pgbuf[1].what = "ready" /\ Replies(pgbuf) = Replies(pgbuf') + 1
        BY <2>3, <2>7 DEF PgReturns
      <3>2. CASE phase = "rollback" /\ ~failed
        <4>1. Waiting' /\ sent' = sent + 1
          BY <2>7, <3>2 DEF PgReturns, Exec, Send, Waiting, Own
        <4>2. Due' = Due
          BY <2>1, <4>1 DEF Due
        <4>3. Len(inq') = Len(inq) + 1
          <5>1. sent' # sent /\ ~Serve
            BY <1>n, <4>1 DEF Serve
          <5> QED BY <5>1, QueueGrows
        <4>4. Replies(pgbuf') + Len(inq') =< Due'
          BY <1>n, <1>t, <2>4, <2>5, <3>1, <4>2, <4>3
        <4>5. ASSUME NEW i \in 1..Len(Stream)
              PROVE  Replies(pgbuf') + sent' + 1 =< Stream[i].of.id + Due'
          <5>1. Replies(pgbuf) + sent + 1 =< Stream[i].of.id + Due
            BY <2>5
          <5>2. Stream[i].of.id \in Nat
            BY <1>1
          <5>3. Replies(pgbuf') + (sent + 1) + 1 =< Stream[i].of.id + Due
            BY <1>n, <1>t, <2>4, <3>1, <5>1, <5>2
          <5> QED BY <4>1, <4>2, <5>3
        <4> QED BY <2>2, <4>4, <4>5, <1>r DEF LagInv
      <3>3. CASE ~(phase = "rollback" /\ ~failed)
        <4>1. phase' \in {"serve", "idle"} /\ UNCHANGED <<sent, inq>>
          BY <2>7, <3>3 DEF PgReturns
        <4>2. ~Waiting'
          BY <4>1 DEF Waiting, Own
        <4>3. Due' \in Nat /\ Due' = Due - 1
          BY <1>2, <2>1, <4>2 DEF Due
        <4>4. Replies(pgbuf') + Len(inq) =< Due'
          BY <1>n, <1>t, <2>4, <2>5, <3>1, <4>3
        <4>a. \A k \in Nat : Replies(pgbuf) + sent + 1 =< k + Due
                              => Replies(pgbuf') + sent + 1 =< k + Due'
          BY <1>n, <1>t, <2>4, <3>1, <4>3
        <4>5. ASSUME NEW i \in 1..Len(Stream)
              PROVE  Replies(pgbuf') + sent + 1 =< Stream[i].of.id + Due'
          <5>1. Stream[i].of.id \in Nat /\ Replies(pgbuf) + sent + 1 =< Stream[i].of.id + Due
            BY <1>1, <2>5
          <5> QED BY <4>a, <5>1
        <4> QED BY <2>2, <4>1, <4>4, <4>5, <1>r DEF LagInv
      <3> QED BY <3>2, <3>3
    <2> QED BY <1>12, <2>6, <2>7
  <1>13. CASE CloseIdle
    BY <1>13 DEF CloseIdle, LagInv
  <1>14. CASE UNCHANGED vars
    <2>1. UNCHANGED <<sent, inq, bfbuf, wire, pgbuf, Due>> /\ phase' = phase
      BY <1>14 DEF vars, Due, Waiting
    <2>2. Stream' = Stream /\ (Replies(pgbuf))' = Replies(pgbuf)
      BY <2>1 DEF Stream, Replies
    <2> QED BY <2>1, <2>2 DEF LagInv
  <1>15. CASE BfReadsTorn
    BY <1>15 DEF BfReadsTorn
  <1>16. CASE Notify
    <2>1. /\ inq = <<>> /\ UNCHANGED <<phase, sent, inq, pgbuf, cuts>>
          /\ Len(Stream') = Len(Stream) + 1
          /\ \A i \in 1..Len(Stream) : Stream'[i] = Stream[i]
          /\ \A i \in 1..Len(Stream') : i > Len(Stream) => Stream'[i].of.id = sent + 1
      BY <1>16, NoticeGrows
    <2>2. Due' = Due
      BY <2>1 DEF Due, Waiting
    <2>3. SUFFICES ASSUME phase \notin {"closed", "stuck"} PROVE LagInv'
      BY <2>1 DEF LagInv
    <2>4. Replies(pgbuf) + Len(inq) =< Due /\ Len(inq) = 0
      BY <1>3, <2>1, <2>3
    <2>5. Replies(pgbuf) + sent + 1 =< (sent + 1) + Due
      BY <1>n, <1>t, <2>4
    <2>6. ASSUME NEW i \in 1..Len(Stream')
          PROVE  Replies(pgbuf) + sent + 1 =< Stream'[i].of.id + Due
      <3>1. CASE i =< Len(Stream)
        <4>1. i \in 1..Len(Stream)
          BY <1>n, <3>1
        <4> QED BY <1>3, <2>1, <2>3, <4>1
      <3>2. CASE i > Len(Stream)
        BY <2>1, <2>5, <3>2
      <3> QED BY <1>n, <2>1, <3>1, <3>2
    <2> QED BY <2>1, <2>2, <2>4, <2>6, <1>r DEF LagInv
  <1> QED BY <1>5, <1>6, <1>7, <1>8, <1>9, <1>10, <1>11, <1>12, <1>13, <1>14, <1>15, <1>16
          DEF Next

\* The counts in the terms of Relay.
LEMMA LagFollows == TypeInv /\ OrderInv /\ LagInv => LagBounded
  <1> SUFFICES ASSUME TypeInv, OrderInv, LagInv, phase \notin {"closed", "stuck"},
                      ~torn
               PROVE  Unread =< Due
    BY DEF LagBounded, Due
  <1>1. /\ Stream \in Seq(Message) /\ Len(Stream) \in Nat /\ Ordered(Stream)
        /\ pgbuf \in Seq(Message)
    BY StreamType DEF TypeInv, TypeOK, OrderInv
  <1>2. Due \in Nat /\ Replies(pgbuf) \in Nat /\ Replies(Stream) \in Nat
    BY <1>1, DueType, RepliesType
  <1>n. sent \in Nat /\ Len(inq) \in Nat
    BY KnownAreRequests DEF TypeInv
  <1>3. /\ Replies(pgbuf) + Len(inq) =< Due
        /\ \A i \in 1..Len(Stream) : Replies(pgbuf) + sent + 1 =< Stream[i].of.id + Due
    BY DEF LagInv
  <1>4. CASE Stream = <<>>
    <2>1. Replies(Stream) = 0
      BY <1>4, NoReplies
    <2> QED BY <1>n, <1>2, <1>3, <2>1 DEF Unread
  <1>5. CASE Stream # <<>>
    <2> DEFINE h == sent - Len(inq) + 1
               k == Stream[1].of.id
    <2>1. 1 \in 1..Len(Stream)
      BY <1>1, <1>5, EmptySeq
    <2>2. /\ k \in Nat
          /\ \A i \in 1..Len(Stream) :
                /\ Stream[i].of.id \in Nat
                /\ Stream[i].of.id + Len(inq) =< sent + 1
                /\ Stream[i].what = "ready" => Stream[i].of.id + Len(inq) =< sent
      BY <2>1, KnownAreRequests DEF TypeInv, OrderInv
    <2>3. ASSUME NEW i \in 1..Len(Stream)
          PROVE  k =< Stream[i].of.id /\ (Stream[i].what = "ready" => Stream[i].of.id < h)
      <3>1. \A x \in Nat : x + Len(inq) =< sent => x < h
        BY <1>n
      <3>2. Stream[i].what = "ready" => Stream[i].of.id < h
        BY <2>2, <3>1
      <3>3. i = 1 \/ 1 < i
        OBVIOUS
      <3>4. k =< Stream[i].of.id
        BY <1>1, <2>1, <2>2, <3>3 DEF Ordered
      <3> QED BY <3>2, <3>4
    <2>4. h \in Nat /\ k =< h
      <3>1. k \in Nat /\ k + Len(inq) =< sent + 1
        BY <2>1, <2>2
      <3> QED BY <1>n, <3>1
    <2>5. Replies(pgbuf) + sent + 1 =< k + Due
      BY <1>3, <2>1
    <2>n. k \in Nat
      BY <2>2
    <2> HIDE DEF k
    <2>h. h = sent - Len(inq) + 1
      OBVIOUS
    <2> HIDE DEF h
    <2>6. Replies(Stream) + k =< h
      BY <1>1, <2>3, <2>4, <2>n, RepliesAreFew
    <2>7. Len(inq) + Replies(Stream) + Replies(pgbuf) =< Due
      BY <1>n, <1>2, <2>n, <2>4, <2>5, <2>6, <2>h
    <2> QED BY <2>7 DEF Unread
  <1> QED BY <1>4, <1>5

\* Before the first session nothing has been sent.
LEMMA LagInit == Init => OrderInv /\ LagInv
  <1> SUFFICES ASSUME Init PROVE OrderInv /\ LagInv
    OBVIOUS
  <1>1. /\ inq = <<>> /\ wire = <<>> /\ bfbuf = <<>> /\ pgbuf = <<>> /\ sent = 0
        /\ cuts = 0 /\ phase = "idle"
    BY DEF Init
  <1>2. Stream = <<>>
    BY <1>1, StreamType, TypeInit DEF TypeInv
  <1>3. Len(inq) = 0 /\ Len(Stream) = 0 /\ Replies(pgbuf) = 0
    BY <1>1, <1>2, NoReplies
  <1>4. Due = 0
    BY <1>1 DEF Due, Waiting, Own
  <1>5. OrderInv
    BY <1>1, <1>3 DEF OrderInv, Ordered, Serving
  <1>6. LagInv
    BY <1>3, <1>4 DEF LagInv
  <1> QED BY <1>5, <1>6

\* Clients vanish in the middle of responses, readers leave what they have
\* read ahead or lose it, statements fail: each vanished client leaves at most
\* one reply too many, and sessions that end well add none.
THEOREM LagIsBounded == Spec => []LagBounded
  <1>1. Init => TypeInv /\ OrderInv /\ LagInv
    BY TypeInit, LagInit
  <1>2. TypeInv /\ OrderInv /\ LagInv /\ [Next]_vars => TypeInv' /\ OrderInv' /\ LagInv'
    BY TypeStep, OrderStep, LagStep
  <1>3. TypeInv /\ OrderInv /\ LagInv => LagBounded
    BY LagFollows
  <1> QED BY <1>1, <1>2, <1>3, PTL DEF Spec

-----------------------------------------------------------------------------
(* Between the requests of two clients *)

\* Between a request of an earlier session and the next one of the present
\* session there are at least two statements of the proxy's own.
Apart(x) ==
    x.kind \in Requests =>
        /\ x.by =< session
        /\ x.by # session => x.id + (IF phase = "relay" THEN 3 ELSE 2) =< sent
        /\ phase = "ping" => x.by # session
        /\ phase \in {"rollback", "discard", "idle"} => x.id + 1 =< sent

\* So it is for all requests that somebody may still be given an answer to.
ApartInv ==
    /\ \A i \in 1..Len(inq) : Apart(inq[i])
    /\ \A i \in 1..Len(Stream) : Apart(Stream[i].of)

\* A session is left by ROLLBACK and entered by Ping.
LEMMA StillApart ==
    ASSUME TypeInv, [Next]_vars, NEW x, x.id \in Nat, x.id =< sent, x.by \in Nat,
           Apart(x)
    PROVE  Apart(x)'
  <1> SUFFICES ASSUME x.kind \in Requests PROVE Apart(x)'
    BY DEF Apart
  <1>0. sent \in Nat /\ session \in Nat
    BY Bounds DEF TypeInv, TypeOK
  <1>1. /\ x.by =< session
        /\ x.by # session => x.id + (IF phase = "relay" THEN 3 ELSE 2) =< sent
        /\ phase = "ping" => x.by # session
        /\ phase \in {"rollback", "discard", "idle"} => x.id + 1 =< sent
    BY DEF Apart
  <1>2. CASE ClientSends
    <2>1. phase = "serve" /\ phase' = "relay" /\ session' = session /\ sent' = sent + 1
      BY <1>2 DEF ClientSends, Send
    <2>2. x.by # session => x.id + 3 =< sent + 1
      <3>1. x.by # session => x.id + 2 =< sent
        BY <1>1, <2>1
      <3> QED BY <1>0, <3>1
    <2> QED BY <1>1, <2>1, <2>2 DEF Apart
  <1>3. CASE ClientLeaves \/ ClientLost
    <2>1. /\ phase \in {"serve", "relay"} /\ phase' = "rollback" /\ session' = session
          /\ sent' = sent + 1
      BY <1>3 DEF ClientLeaves, ClientLost, Exec, Send
    <2>2. x.by # session => x.id + 2 =< sent + 1
      <3>1. x.by # session => x.id + 2 =< sent \/ x.id + 3 =< sent
        BY <1>1, <2>1
      <3> QED BY <1>0, <3>1
    <2>3. x.id + 1 =< sent + 1
      BY <1>0
    <2> QED BY <1>1, <2>1, <2>2, <2>3 DEF Apart
  <1>4. CASE Acquire
    <2>1. phase = "idle" /\ phase' = "ping" /\ session' = session + 1 /\ sent' = sent + 1
      BY <1>4 DEF Acquire, Exec, Send
    <2>2. x.id + 2 =< sent + 1
      <3>1. x.id + 1 =< sent
        BY <1>1, <2>1
      <3> QED BY <1>0, <3>1
    <2>3. x.by =< session + 1 /\ x.by # session + 1
      BY <1>0, <1>1
    <2> QED BY <2>1, <2>2, <2>3 DEF Apart
  <1>5. CASE PgReturns
    <2>1. session' = session /\ phase \in Own
      BY <1>5 DEF PgReturns
    <2>2. CASE phase = "rollback" /\ ~failed
      <3>1. phase' = "discard" /\ sent' = sent + 1
        BY <1>5, <2>2 DEF PgReturns, Exec, Send
      <3>2. x.by # session => x.id + 2 =< sent + 1
        <4>1. x.by # session => x.id + 2 =< sent
          BY <1>1, <2>2
        <4> QED BY <1>0, <4>1
      <3>3. x.id + 1 =< sent + 1
        BY <1>0
      <3> QED BY <1>1, <2>1, <3>1, <3>2, <3>3 DEF Apart
    <2>3. CASE ~(phase = "rollback" /\ ~failed)
      <3>1. phase' = (IF phase = "ping" /\ ~failed THEN "serve" ELSE "idle") /\ sent' = sent
        BY <1>5, <2>3 DEF PgReturns
      <3>2. x.by # session => x.id + 2 =< sent
        BY <1>1, <2>1 DEF Own
      <3>3. x.id + 1 =< sent
        <4>1. x.id + 1 =< sent \/ x.id + 2 =< sent
          BY <1>1, <2>1, <3>2 DEF Own
        <4> QED BY <1>0, <4>1
      <3> QED BY <1>1, <2>1, <3>1, <3>2, <3>3 DEF Apart
    <2> QED BY <2>2, <2>3
  <1>6. CASE RelayMessage
    <2>1. phase = "relay" /\ phase' \in {"serve", "relay"} /\ UNCHANGED <<session, sent>>
      BY <1>6 DEF RelayMessage
    <2>2. x.by # session => x.id + 3 =< sent
      BY <1>1, <2>1
    <2>3. x.by # session => x.id + 2 =< sent
      BY <1>0, <2>2
    <2> QED BY <1>1, <2>1, <2>2, <2>3 DEF Apart
  <1>7. CASE PgReadsTorn \/ CloseIdle
    <2>1. /\ phase' \in {"closed", "stuck"} /\ UNCHANGED <<session, sent>>
          /\ phase # "relay"
      BY <1>7 DEF PgReadsTorn, CloseIdle, Own
    <2> QED BY <1>1, <2>1 DEF Apart
  <1>8. CASE Serve \/ Notify \/ BfReads \/ PgReads \/ PgSkips \/ UNCHANGED vars
    <2>1. UNCHANGED <<phase, session, sent>>
      BY <1>8 DEF Serve, Notify, BfReads, PgReads, PgSkips, vars
    <2> QED BY <1>1, <2>1 DEF Apart
  <1>9. CASE BfReadsTorn
    <2>1. phase = "relay" /\ session' = session
      BY <1>9 DEF BfReadsTorn
    <2>2. x.by # session => x.id + 3 =< sent
      BY <1>1, <2>1
    <2>3. /\ x.id + 1 =< sent + 1
          /\ x.by # session => x.id + 2 =< sent /\ x.id + 2 =< sent + 1
      BY <1>0, <2>2
    <2>4. CASE phase' = "stuck" /\ sent' = sent
      BY <1>1, <2>1, <2>3, <2>4 DEF Apart
    <2>5. CASE phase' = "rollback" /\ sent' = sent + 1
      BY <1>1, <2>1, <2>3, <2>5 DEF Apart
    <2> QED BY <1>9, <2>4, <2>5 DEF BfReadsTorn, Exec, Send
  <1> QED BY <1>2, <1>3, <1>4, <1>5, <1>6, <1>7, <1>8, <1>9 DEF Next

\* New requests are those of the session, or the proxy's own.
LEMMA ApartStep ==
    ASSUME TypeInv, OrderInv, ApartInv, [Next]_vars
    PROVE  ApartInv'
  <1>k. \A x : x.kind \in Own \cup {"none"} => x.kind \notin Requests
    BY RelayAssumption DEF RelayAssumption, Own
  <1>0. TypeOK /\ Serving /\ Len(inq) \in Nat /\ Len(Stream) \in Nat
    BY KnownAreRequests, StreamType DEF TypeInv, OrderInv
  <1>1. ASSUME NEW x, NEW i \in 1..Len(inq), x = inq[i] PROVE Apart(x)'
    <2>1. x.id \in Nat /\ x.id =< sent /\ x.by \in Nat
      BY <1>0, <1>1, KnownAreRequests
    <2>2. Apart(x)
      BY <1>1 DEF ApartInv
    <2> QED BY <2>1, <2>2, StillApart
  <1>2. ASSUME NEW x, NEW i \in 1..Len(Stream), x = Stream[i].of PROVE Apart(x)'
    <2>1. CASE x.kind \in Requests
      <3>1. x.id \in Nat /\ x.id =< sent /\ x.by \in Nat
        BY <1>0, <1>2, <2>1, KnownAreRequests
      <3>2. Apart(x)
        BY <1>2 DEF ApartInv
      <3> QED BY <3>1, <3>2, StillApart
    <2>2. CASE x.kind \notin Requests
      BY <2>2 DEF Apart
    <2> QED BY <2>1, <2>2
  <1>3. SUFFICES /\ \A i \in 1..Len(inq') : \A x : x = inq'[i] => Apart(x)'
                 /\ \A i \in 1..Len(Stream') : \A x : x = Stream'[i].of => Apart(x)'
    BY DEF ApartInv, Apart
  <1>4. CASE Serve
    <2>1. /\ inq # <<>> /\ Len(inq') = Len(inq) - 1
          /\ \A i \in 1..Len(inq') : inq'[i] = inq[i + 1]
          /\ \A i \in 1..Len(Stream) : Stream'[i] = Stream[i]
          /\ \A i \in 1..Len(Stream') : i > Len(Stream) => Stream'[i].of = inq[1]
      BY <1>0, <1>4, StreamGrows
    <2>2. ASSUME NEW i \in 1..Len(inq'), NEW x, x = inq'[i] PROVE Apart(x)'
      <3>1. i + 1 \in 1..Len(inq) /\ x = inq[i + 1]
        BY <1>0, <2>1, <2>2
      <3> QED BY <1>1, <3>1
    <2>3. ASSUME NEW i \in 1..Len(Stream'), NEW x, x = Stream'[i].of PROVE Apart(x)'
      <3>1. CASE i =< Len(Stream)
        <4>1. i \in 1..Len(Stream)
          BY <1>0, <3>1
        <4>2. x = Stream[i].of
          BY <2>1, <2>3, <4>1
        <4> QED BY <1>2, <4>1, <4>2
      <3>2. CASE i > Len(Stream)
        <4>1. x = inq[1]
          BY <2>1, <2>3, <3>2
        <4>2. 1 \in 1..Len(inq)
          BY <1>0, <2>1, EmptySeq DEF TypeOK
        <4> QED BY <1>1, <4>1, <4>2
      <3> QED BY <1>0, <3>1, <3>2
    <2> QED BY <2>2, <2>3
  <1>5. CASE Notify
    <2>1. /\ Len(Stream') = Len(Stream) + 1 /\ inq' = inq
          /\ \A i \in 1..Len(Stream) : Stream'[i] = Stream[i]
          /\ \A i \in 1..Len(Stream') : i > Len(Stream) => Stream'[i].of.kind = "none"
      BY <1>5, NoticeGrows DEF TypeInv
    <2>2. ASSUME NEW i \in 1..Len(Stream'), NEW x, x = Stream'[i].of PROVE Apart(x)'
      <3>1. CASE i =< Len(Stream)
        <4>1. i \in 1..Len(Stream)
          BY <1>0, <3>1
        <4>2. x = Stream[i].of
          BY <2>1, <2>2, <4>1
        <4> QED BY <1>2, <4>1, <4>2
      <3>2. CASE i > Len(Stream)
        <4>1. x.kind \notin Requests
          BY <1>k, <2>1, <2>2, <3>2
        <4> QED BY <4>1 DEF Apart
      <3> QED BY <1>0, <2>1, <3>1, <3>2
    <2> QED BY <1>1, <2>1, <2>2
  <1>6. CASE ~Serve /\ ~Notify
    <2>1. PICK n \in Nat : Drops(Stream', Stream, n)
      BY <1>0, <1>6, StreamShrinks
    <2>2. ASSUME NEW i \in 1..Len(Stream'), NEW x, x = Stream'[i].of PROVE Apart(x)'
      <3>1. n + i \in 1..Len(Stream) /\ x = Stream[n + i].of
        BY <1>0, <2>1, <2>2, DropsKeepsOrder DEF OrderInv
      <3> QED BY <1>2, <3>1
    <2>3. ASSUME NEW i \in 1..Len(inq'), NEW x, x = inq'[i] PROVE Apart(x)'
      <3>1. CASE UNCHANGED <<sent, inq>>
        BY <1>1, <2>3, <3>1
      <3>2. CASE /\ Len(inq') = Len(inq) + 1
                 /\ \A j \in 1..Len(inq) : inq'[j] = inq[j]
                 /\ \/ inq'[Len(inq) + 1].kind \in Own
                    \/ ClientSends /\ inq'[Len(inq) + 1].by = session
        <4>1. CASE i \in 1..Len(inq)
          BY <1>1, <2>3, <3>2, <4>1
        <4>2. CASE i = Len(inq) + 1 /\ x.kind \in Own
          BY <1>k, <4>2 DEF Apart
        <4>3. CASE i = Len(inq) + 1 /\ ClientSends /\ x.by = session
          <5>1. session' = session /\ phase' = "relay" /\ session \in Nat
            BY <4>3, <1>0, Bounds DEF ClientSends, TypeOK
          <5> QED BY <4>3, <5>1 DEF Apart
        <4> QED BY <1>0, <2>3, <3>2, <4>1, <4>2, <4>3
      <3> QED BY <1>6, <3>1, <3>2, QueueGrows
    <2> QED BY <2>2, <2>3
  <1> QED BY <1>4, <1>5, <1>6

\* What bf holds is at the front of the stream.
LEMMA ForeignFollows == TypeInv /\ OrderInv /\ LagInv /\ ApartInv => ForeignResults
  <1> SUFFICES ASSUME TypeInv, OrderInv, LagInv, ApartInv, NEW m \in ToSet(bfbuf),
                      m.of.kind \in Requests, m.of.by # session
               PROVE  cuts >= 3
    BY DEF ForeignResults
  <1>1. /\ bfbuf \in Seq(Message) /\ Len(bfbuf) \in Nat /\ Len(wire) \in Nat
        /\ Len(Stream) = Len(bfbuf) + Len(wire)
        /\ \A i \in 1..Len(Stream) :
              Stream[i] = IF i =< Len(bfbuf) THEN bfbuf[i] ELSE wire[i - Len(bfbuf)]
    BY StreamType DEF TypeInv, TypeOK
  <1>2. PICK i \in 1..Len(bfbuf) : m = bfbuf[i]
    BY <1>1 DEF ToSet
  <1>3. i \in 1..Len(Stream) /\ m = Stream[i]
    <2>1. i \in 1..Len(Stream) /\ i =< Len(bfbuf)
      BY <1>1, <1>2
    <2> QED BY <1>1, <1>2, <2>1
  <1>4. phase \in {"serve", "relay"} /\ ~torn
    BY <1>1, <1>2, EmptySeq DEF OrderInv, Serving
  <1>5. m.of.id \in Nat /\ sent \in Nat
    BY <1>3, KnownAreRequests DEF TypeInv
  <1>6. m.of.id + (IF phase = "relay" THEN 3 ELSE 2) =< sent
    BY <1>3 DEF ApartInv, Apart
  <1>7. Replies(pgbuf) + sent + 1 =< m.of.id + Due
    BY <1>3, <1>4 DEF LagInv
  <1>8. Replies(pgbuf) \in Nat /\ cuts \in Nat
    BY DueType, RepliesType DEF TypeInv, TypeOK
  <1>9. CASE phase = "relay"
    <2>1. Due = cuts + 1 /\ m.of.id + 3 =< sent
      BY <1>6, <1>9, DueType DEF Waiting
    <2>2. Replies(pgbuf) + sent + 1 =< m.of.id + (cuts + 1)
      BY <1>7, <2>1
    <2> QED BY <1>5, <1>8, <2>1, <2>2
  <1>10. CASE phase = "serve"
    <2>1. Due = cuts /\ m.of.id + 2 =< sent
      BY <1>6, <1>10, DueType DEF Waiting, Own
    <2>2. Replies(pgbuf) + sent + 1 =< m.of.id + cuts
      BY <1>7, <2>1
    <2> QED BY <1>5, <1>8, <2>1, <2>2
  <1> QED BY <1>4, <1>9, <1>10

\* A client is given a message that answers the request of another client
\* only after three clients vanished on this connection: ROLLBACK and Ping lie
\* between the two, and from an unread message on there are not more requests
\* than vanished clients left replies for.
THEOREM ForeignResultsAreLate == Spec => []ForeignResults
  <1>1. Init => TypeInv /\ OrderInv /\ LagInv /\ ApartInv
    <2>1. ASSUME Init PROVE ApartInv
      <3>1. inq = <<>> /\ Stream = <<>>
        BY <2>1, StreamType, TypeInit DEF Init, TypeInv
      <3> QED BY <3>1 DEF ApartInv
    <2> QED BY <2>1, TypeInit, LagInit
  <1>2. TypeInv /\ OrderInv /\ LagInv /\ ApartInv /\ [Next]_vars
        => TypeInv' /\ OrderInv' /\ LagInv' /\ ApartInv'
    BY TypeStep, OrderStep, LagStep, ApartStep
  <1>3. TypeInv /\ OrderInv /\ LagInv /\ ApartInv => ForeignResults
    BY ForeignFollows
  <1> QED BY <1>1, <1>2, <1>3, PTL DEF Spec
=============================================================================
