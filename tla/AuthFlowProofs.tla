--------------------------- MODULE AuthFlowProofs ---------------------------
(***************************************************************************)
(* Machine-checked proofs about the logins of Auth, for any number of      *)
(* them, any offers, roles and methods: what their clients are told, and   *)
(* whom they are let in as.                                                *)
(***************************************************************************)
EXTENDS AuthProofs, SequenceTheorems, WellFoundedInduction

-----------------------------------------------------------------------------
(* Mapping roles *)

\* Every non-empty set of natural numbers has a least element.
LEMMA LeastExists ==
    ASSUME NEW S \in SUBSET Nat, S # {}
    PROVE  \E x \in S : \A y \in S : x =< y
  <1> DEFINE Less == {p \in Nat \X Nat : p[1] < p[2]}
  <1>1. IsWellFoundedOn(Less, Nat)
    BY NatLessThanWellFounded DEF OpToRel
  <1>2. PICK x \in S : \A y \in S : <<y, x>> \notin Less
    <2> HIDE DEF Less
    <2> QED BY <1>1, WFMin
  <1>3. ASSUME NEW y \in S
        PROVE  x =< y
    <2>1. <<y, x>> \in Nat \X Nat /\ <<y, x>>[1] = y /\ <<y, x>>[2] = x
      OBVIOUS
    <2>2. ~(y < x)
      BY <1>2, <2>1
    <2> QED BY <2>2
  <1> QED BY <1>3

\* ... and one of numbers up to n has a greatest.
LEMMA GreatestExists ==
    ASSUME NEW n \in Nat, NEW S \in SUBSET (1..n), S # {}
    PROVE  \E x \in S : \A y \in S : x >= y
  <1> DEFINE M == {n - x : x \in S}
  <1>1. M \in SUBSET Nat /\ M # {}
    <2>1. ASSUME NEW x \in S
          PROVE  n - x \in Nat
      OBVIOUS
    <2> QED BY <2>1
  <1>2. PICK m \in M : \A y \in M : m =< y
    <2> HIDE DEF M
    <2> QED BY <1>1, LeastExists
  <1>3. PICK x \in S : m = n - x
    BY <1>2
  <1>4. ASSUME NEW y \in S
        PROVE  x >= y
    <2>1. n - x =< n - y
      BY <1>2, <1>3
    <2> QED BY <2>1
  <1> QED BY <1>4

\* SelectInSeq finds the first role that is mapped.
LEMMA FirstSelected ==
    ASSUME NEW R, NEW s \in Seq(R)
    PROVE  LET i == SelectInSeq(s, LAMBDA r : Normal[r] \in DOMAIN RoleToAccount) IN
           /\ i # 0 => i \in 1..Len(s) /\ Normal[s[i]] \in DOMAIN RoleToAccount
           /\ \A j \in 1..Len(s) : (i = 0 \/ j < i) => Normal[s[j]] \notin DOMAIN RoleToAccount
  <1> DEFINE I == {i \in 1..Len(s) : Normal[s[i]] \in DOMAIN RoleToAccount}
             first == SelectInSeq(s, LAMBDA r : Normal[r] \in DOMAIN RoleToAccount)
  <1>1. first = IF I # {} THEN Min(I) ELSE 0
    BY DEF SelectInSeq
  <1>2. I # {} => Min(I) \in I /\ \A y \in I : Min(I) =< y
    <2>1. I \in SUBSET Nat
      OBVIOUS
    <2> HIDE DEF I
    <2> QED BY <2>1, LeastExists DEF Min
  <1>3. first # 0 => first \in 1..Len(s) /\ Normal[s[first]] \in DOMAIN RoleToAccount
    <2> HIDE DEF first
    <2> QED BY <1>1, <1>2
  <1>4. ASSUME NEW j \in 1..Len(s), first = 0 \/ j < first, Normal[s[j]] \in DOMAIN RoleToAccount
        PROVE  FALSE
    <2>1. j \in I
      BY <1>4
    <2> HIDE DEF first, I
    <2>2. Min(I) =< j /\ first = Min(I)
      BY <2>1, <1>1, <1>2
    <2>3. first \in 1..Len(s)
      BY <1>3, <1>2, <2>2, <2>1 DEF I
    <2> QED BY <1>4, <2>2, <2>3
  <1> HIDE DEF first
  <1>5. /\ first # 0 => first \in 1..Len(s) /\ Normal[s[first]] \in DOMAIN RoleToAccount
        /\ \A j \in 1..Len(s) : (first = 0 \/ j < first) => Normal[s[j]] \notin DOMAIN RoleToAccount
    BY <1>3, <1>4
  <1> QED BY <1>5 DEF first

\* A role of the map has the account of the last variable that names it.
LEMMA RoleHasAccount ==
    ASSUME NEW r \in DOMAIN RoleToAccount
    PROVE  Names(RoleToAccount[r], r)
  <1> DEFINE S == Mapped(r)
  <1>1. Len(Environ) \in Nat /\ DOMAIN Environ = 1..Len(Environ)
    BY AuthAssumption
  <1>2. S \in SUBSET (1..Len(Environ)) /\ S # {}
    BY <1>1 DEF Mapped, RoleToAccount
  <1>3. RoleToAccount[r] = Environ[Max(S)].account
    BY DEF RoleToAccount
  <1>4. Max(S) \in S /\ \A y \in S : Max(S) >= y
    <2> HIDE DEF S
    <2> QED BY <1>1, <1>2, GreatestExists DEF Max
  <1>5. \A y \in S : y =< Max(S)
    BY <1>1, <1>2, <1>4
  <1> QED BY <1>3, <1>4, <1>5 DEF Names

\* What MapRoleToServiceAccount returns is by definition the account of the roles.
LEMMA MappedAccount ==
    ASSUME NEW roles \in Seq(DOMAIN Normal), MapRole(roles) # NoUser
    PROVE  /\ IsAccountOf(MapRole(roles), roles)
           /\ MapRole(roles) \in PgUsers
  <1> DEFINE first == SelectInSeq(roles, LAMBDA r : Normal[r] \in DOMAIN RoleToAccount)
  <1>1. /\ first # 0 => first \in 1..Len(roles) /\ Normal[roles[first]] \in DOMAIN RoleToAccount
        /\ \A j \in 1..Len(roles) :
              (first = 0 \/ j < first) => Normal[roles[j]] \notin DOMAIN RoleToAccount
    BY FirstSelected
  <1>2. MapRole(roles) =
            IF first # 0 THEN RoleToAccount[Normal[roles[first]]]
            ELSE IF DefaultRole \in DOMAIN RoleToAccount \ {""} THEN RoleToAccount[DefaultRole]
            ELSE NoUser
    BY DEF MapRole
  <1> HIDE DEF first
  <1>3. ASSUME NEW j \in 1..Len(roles), Normal[roles[j]] \notin DOMAIN RoleToAccount
        PROVE  Mapped(Normal[roles[j]]) = {}
    <2>1. roles[j] \in DOMAIN Normal
      OBVIOUS
    <2> QED BY <1>3, <2>1 DEF RoleToAccount, Range
  <1>4. CASE first # 0
    <2>1. first \in 1..Len(roles) /\ Names(MapRole(roles), Normal[roles[first]])
      BY <1>1, <1>2, <1>4, RoleHasAccount
    <2>2. ASSUME NEW j \in 1..(first - 1)
          PROVE  Mapped(Normal[roles[j]]) = {}
      <3>1. Len(roles) \in Nat
        OBVIOUS
      <3>2. j \in 1..Len(roles) /\ j < first
        BY <2>1, <3>1
      <3> QED BY <1>1, <1>3, <3>2
    <2>3. MapRole(roles) \in PgUsers
      BY <1>1, <1>2, <1>4 DEF PgUsers
    <2> QED BY <2>1, <2>2, <2>3 DEF IsAccountOf
  <1>5. CASE first = 0
    <2>1. /\ DefaultRole \in DOMAIN RoleToAccount /\ DefaultRole # ""
          /\ MapRole(roles) = RoleToAccount[DefaultRole]
      BY <1>2, <1>5
    <2>2. \A j \in 1..Len(roles) : Mapped(Normal[roles[j]]) = {}
      BY <1>1, <1>3, <1>5
    <2> QED BY <2>1, <2>2, RoleHasAccount DEF IsAccountOf, PgUsers
  <1> QED BY <1>4, <1>5

-----------------------------------------------------------------------------
(* The conversation of one login *)

Words == {"request", "ok", "param", "key", "ready", "error"}
PgMessages == {"ok", "param", "key", "ready", "error", "eof", "cleartext", "md5", "sasl", "gss",
               "continue", "final"}
Ends == {"error", "eof"}

Script == <<"request", "ok", "param", "key", "ready">>

\* How much of the script the client has when the proxy reads m, and after that.
Before(m) == CASE m = "param" -> 2 [] m \in {"key", "ready"} -> 3 [] OTHER -> 1
After(m) == CASE m = "ok" -> 2 [] m \in {"param", "key", "ready"} -> 3 [] OTHER -> 1

\* The messages d continue a script of which n parts are said.
Fits(n, d) ==
    /\ d # <<>> /\ d[1] \notin Ends => Before(d[1]) = n
    /\ \A i \in 1..(Len(d) - 1) :
        d[i] \notin Ends /\ (d[i + 1] \notin Ends => Before(d[i + 1]) = After(d[i]))
Reached(n, d) == IF d = <<>> THEN n ELSE After(d[Len(d)])
Has(d, what) == \E i \in 1..Len(d) : d[i] \in what

\* Messages that fit, followed by messages that fit after them, fit.
LEMMA FitsConcat ==
    ASSUME NEW n \in Nat, NEW d \in Seq(PgMessages), NEW e \in Seq(PgMessages),
           ~Has(d, Ends), Fits(n, d), Fits(Reached(n, d), e)
    PROVE  /\ d \o e \in Seq(PgMessages)
           /\ Fits(n, d \o e)
           /\ Reached(n, d \o e) = Reached(Reached(n, d), e)
           /\ \A what : Has(d \o e, what) => Has(d, what) \/ Has(e, what)
  <1> DEFINE f == d \o e
             k == Len(d)
  <1>1. /\ f \in Seq(PgMessages) /\ k \in Nat /\ Len(e) \in Nat /\ Len(f) = k + Len(e)
        /\ \A i \in 1..k : f[i] = d[i]
        /\ \A i \in 1..Len(e) : f[k + i] = e[i]
        /\ d = <<>> <=> k = 0
        /\ e = <<>> <=> Len(e) = 0
        /\ f = <<>> <=> Len(f) = 0
    BY ConcatProperties
  <1> HIDE DEF f, k
  <1>2. ASSUME f # <<>>, f[1] \notin Ends
        PROVE  Before(f[1]) = n
    <2>1. CASE k = 0
      <3>1. f[1] = e[1] /\ e # <<>> /\ Reached(n, d) = n
        BY <1>1, <1>2, <2>1 DEF Reached
      <3> QED BY <3>1, <1>2 DEF Fits
    <2>2. CASE k > 0
      BY <1>1, <1>2, <2>2 DEF Fits
    <2> QED BY <1>1, <2>1, <2>2
  <1>3. ASSUME NEW i \in 1..(Len(f) - 1)
        PROVE  f[i] \notin Ends /\ (f[i + 1] \notin Ends => Before(f[i + 1]) = After(f[i]))
    <2>1. CASE i < k
      <3>1. i \in 1..(Len(d) - 1) /\ f[i] = d[i] /\ f[i + 1] = d[i + 1]
        BY <1>1, <2>1 DEF k
      <3> QED BY <3>1 DEF Fits
    <2>2. CASE i = k
      <3>1. f[i] = d[k] /\ f[i + 1] = e[1] /\ k \in 1..Len(d) /\ d # <<>> /\ e # <<>>
        BY <1>1, <2>2 DEF k
      <3>2. Reached(n, d) = After(d[k])
        BY <3>1 DEF Reached, k
      <3> QED BY <3>1, <3>2 DEF Fits, Has
    <2>3. CASE i > k
      <3>1. PICK j \in 1..(Len(e) - 1) : i = k + j
        <4>1. i - k \in 1..(Len(e) - 1) /\ i = k + (i - k)
          BY <1>1, <2>3
        <4> QED BY <4>1
      <3>2. j \in 1..Len(e) /\ j + 1 \in 1..Len(e) /\ i + 1 = k + (j + 1)
        BY <1>1, <3>1
      <3>3. f[i] = e[j] /\ f[i + 1] = e[j + 1]
        BY <1>1, <3>1, <3>2
      <3> QED BY <3>3 DEF Fits
    <2> QED BY <1>1, <2>1, <2>2, <2>3
  <1>4. Fits(n, f)
    BY <1>2, <1>3 DEF Fits
  <1>5. Reached(n, f) = Reached(Reached(n, d), e)
    <2>1. CASE e = <<>>
      <3>1. Len(f) = k /\ (k > 0 => f[k] = d[k])
        BY <1>1, <2>1
      <3> QED BY <1>1, <2>1, <3>1 DEF Reached, k
    <2>2. CASE e # <<>>
      <3>1. f # <<>> /\ f[Len(f)] = e[Len(e)]
        BY <1>1, <2>2
      <3> QED BY <2>2, <3>1 DEF Reached
    <2> QED BY <2>1, <2>2
  <1>6. ASSUME NEW what, NEW i \in 1..Len(f), f[i] \in what
        PROVE  Has(d, what) \/ Has(e, what)
    <2>1. CASE i =< k
      BY <1>1, <1>6, <2>1 DEF Has, k
    <2>2. CASE i > k
      <3>1. i - k \in 1..Len(e) /\ f[k + (i - k)] = f[i]
        BY <1>1, <2>2
      <3> QED BY <1>1, <1>6, <3>1 DEF Has
    <2> QED BY <1>1, <2>1, <2>2
  <1>7. \A what : Has(f, what) => Has(d, what) \/ Has(e, what)
    BY <1>6 DEF Has
  <1> QED BY <1>1, <1>4, <1>5, <1>7 DEF f

\* What is left when the first message has been read fits.
LEMMA FitsTail ==
    ASSUME NEW n \in Nat, NEW d \in Seq(PgMessages), d # <<>>, Fits(n, d), d[1] \notin Ends
    PROVE  /\ Tail(d) \in Seq(PgMessages)
           /\ Fits(After(d[1]), Tail(d))
           /\ Reached(After(d[1]), Tail(d)) = Reached(n, d)
           /\ \A what : Has(Tail(d), what) => Has(d, what)
  <1> DEFINE t == Tail(d)
  <1>1. /\ t \in Seq(PgMessages) /\ Len(d) \in Nat \ {0} /\ Len(t) = Len(d) - 1
        /\ \A i \in 1..Len(t) : t[i] = d[i + 1]
        /\ t = <<>> <=> Len(t) = 0
    <2>1. t \in Seq(PgMessages) /\ Len(t) = Len(d) - 1 /\ \A i \in 1..Len(t) : t[i] = d[i + 1]
      BY HeadTailProperties
    <2>2. Len(d) \in Nat \ {0}
      BY EmptySeq
    <2>3. t = <<>> <=> Len(t) = 0
      BY <2>1, EmptySeq
    <2> QED BY <2>1, <2>2, <2>3
  <1> HIDE DEF t
  <1>2. ASSUME t # <<>>, t[1] \notin Ends
        PROVE  Before(t[1]) = After(d[1])
    <2>1. 1 \in 1..(Len(d) - 1) /\ t[1] = d[1 + 1]
      BY <1>1, <1>2
    <2> QED BY <1>2, <2>1 DEF Fits
  <1>3. ASSUME NEW i \in 1..(Len(t) - 1)
        PROVE  t[i] \notin Ends /\ (t[i + 1] \notin Ends => Before(t[i + 1]) = After(t[i]))
    <2>1. i + 1 \in 1..(Len(d) - 1) /\ t[i] = d[i + 1] /\ t[i + 1] = d[(i + 1) + 1]
      BY <1>1
    <2> QED BY <2>1 DEF Fits
  <1>4. Fits(After(d[1]), t)
    BY <1>2, <1>3 DEF Fits
  <1>5. Reached(After(d[1]), t) = Reached(n, d)
    <2>1. CASE t = <<>>
      <3>1. Len(d) = 1
        BY <1>1, <2>1
      <3> QED BY <2>1, <3>1 DEF Reached
    <2>2. CASE t # <<>>
      <3>1. t[Len(t)] = d[Len(d)]
        BY <1>1, <2>2
      <3> QED BY <2>2, <3>1 DEF Reached
    <2> QED BY <2>1, <2>2
  <1>6. \A what : Has(t, what) => Has(d, what)
    <2>1. ASSUME NEW what, NEW i \in 1..Len(t), t[i] \in what
          PROVE  Has(d, what)
      <3>1. i + 1 \in 1..Len(d) /\ d[i + 1] \in what
        BY <1>1, <2>1
      <3> QED BY <3>1 DEF Has
    <2> QED BY <2>1 DEF Has
  <1> QED BY <1>1, <1>4, <1>5, <1>6 DEF t

-----------------------------------------------------------------------------
(* The invariant *)

\* PostgreSQL's states in which the client has its request and no more.
Opening == {"startup", "initial", "cleartext", "md5", "gss", "response"}
Sessions == {"backend", "lease", "in"}

Shape ==
    /\ at \in [Logins -> {"dial", "password", "token", "startup", "backend", "lease",
                          "in", "out", "dropped", "gone"}]
    /\ offer \in [Logins -> Offers \cup {Unset}]
    /\ account \in [Logins -> PgUsers \cup {NoUser}]
    /\ scram \in [Logins -> BOOLEAN] /\ accepted \in [Logins -> BOOLEAN]
    /\ told \in [Logins -> Seq(Words)]
    /\ executes \in [Logins -> {ServiceUser, NoUser}]
    /\ DOMAIN up = Logins
    /\ down \in [Logins -> Seq(PgMessages)]
    /\ waits \in [Logins -> Opening \cup {"statement", "refused", "lost", "closed"}]
    /\ pguser \in [Logins -> PgUsers \cup {NoUser}]

\* How much the client has been told at each control state.
SaidInv(l) ==
    LET n == Len(told[l]) IN
    /\ at[l] = "dial" => n = 0
    /\ at[l] \in {"password", "token", "startup"} => n = 1
    /\ at[l] = "backend" => n \in 1..3
    /\ at[l] = "lease" => n = 3
    /\ at[l] = "in" => n = 5
    /\ at[l] = "dropped" => n = 1
    /\ at[l] \in {"out", "gone"} => n =< 4
    /\ \A i \in 1..n :
        told[l][i] = Script[i] \/ (at[l] = "out" /\ i = n /\ told[l][i] = "error")
    /\ at[l] = "out" => (n > 0 /\ told[l][n] = "error") \/ waits[l] = "lost"

\* What PostgreSQL has sent on the temporary connection goes on from there.
QueueInv(l) ==
    /\ at[l] # "backend" => down[l] = <<>> /\ waits[l] \in {"closed", "lost"}
    /\ at[l] = "backend" => Fits(Len(told[l]), down[l])
    /\ at[l] = "backend" /\ waits[l] \in Opening => Reached(Len(told[l]), down[l]) = 1
    /\ Has(down[l], Ends) => waits[l] \in {"refused", "lost"}
    /\ Has(down[l], {"eof"}) => waits[l] = "lost"
    /\ waits[l] = "startup" => down[l] = <<>>

Entitled(o, a) ==
    /\ o \in Offers
    /\ IsPassword(o) => a = ClientUser
    /\ IsToken(o) => o.flaw = "none" /\ IsAccountOf(a, ExtractRoles(o))

\* Whom the client may be, and whom PostgreSQL has let in.
AccountInv(l) ==
    /\ at[l] = "token" => offer[l] \in Offers /\ IsToken(offer[l])
    /\ at[l] \in {"startup"} \cup Sessions => Entitled(offer[l], account[l])
    /\ waits[l] = "startup" => up[l] = [type |-> "startup", user |-> account[l]]
    /\ waits[l] \in Opening \ {"startup"} => pguser[l] = account[l]
    /\ accepted[l] => at[l] \in Sessions /\ pguser[l] = account[l]
    /\ at[l] \in Sessions /\ Len(told[l]) > 1 => accepted[l]
    /\ Has(down[l], {"ok"}) => accepted[l]

LoginInv(l) == SaidInv(l) /\ QueueInv(l) /\ AccountInv(l)
FlowInv == Shape /\ \A l \in Logins : LoginInv(l)

\* Nobody has been told anything.
LEMMA FlowInit == Init => FlowInv
  <1> SUFFICES ASSUME Init PROVE FlowInv
    OBVIOUS
  <1>1. Shape
    BY DEF Init, Shape
  <1>2. ASSUME NEW l \in Logins
        PROVE  LoginInv(l)
    BY <1>2 DEF Init, LoginInv, SaidInv, QueueInv, AccountInv, Has, Sessions, Opening
  <1> QED BY <1>1, <1>2 DEF FlowInv

\* What holds of a login is not disturbed by another one.
Untouched(m) ==
    /\ at'[m] = at[m] /\ told'[m] = told[m] /\ offer'[m] = offer[m]
    /\ account'[m] = account[m] /\ up'[m] = up[m] /\ down'[m] = down[m]
    /\ waits'[m] = waits[m] /\ pguser'[m] = pguser[m] /\ accepted'[m] = accepted[m]

\* Its invariant depends on nothing else.
LEMMA FlowFrame ==
    ASSUME NEW m \in Logins, LoginInv(m), Untouched(m)
    PROVE  LoginInv(m)'
  BY DEF LoginInv, SaidInv, QueueInv, AccountInv, Untouched, Has, Sessions, Fits, Reached

\* One more word to a client.
LEMMA OneMore ==
    ASSUME NEW s \in Seq(Words), NEW w \in Words
    PROVE  /\ s \o <<w>> \in Seq(Words)
           /\ Len(s \o <<w>>) = Len(s) + 1
           /\ \A i \in 1..Len(s) : (s \o <<w>>)[i] = s[i]
           /\ (s \o <<w>>)[Len(s) + 1] = w
  <1>1. <<w>> \in Seq(Words) /\ Len(<<w>>) = 1 /\ <<w>>[1] = w
    OBVIOUS
  <1> QED BY <1>1, ConcatProperties

\* A login that ends with an error to its client.
LEMMA RefuseStep ==
    ASSUME Shape, NEW l \in Logins, LoginInv(l),
           NEW from \in {"dial", "password", "token", "startup", "lease"}, Refuse(l, from)
    PROVE  Shape' /\ LoginInv(l)' /\ \A m \in Logins \ {l} : Untouched(m)
  <1> DEFINE s == told'[l]
  <1>1. /\ at[l] = from /\ at' = [at EXCEPT ![l] = "out"]
        /\ told' = [told EXCEPT ![l] = told[l] \o <<"error">>]
        /\ offer' = [offer EXCEPT ![l] = Unset] /\ account' = [account EXCEPT ![l] = NoUser]
        /\ scram' = [scram EXCEPT ![l] = FALSE] /\ pguser' = [pguser EXCEPT ![l] = NoUser]
        /\ accepted' = [accepted EXCEPT ![l] = FALSE]
        /\ UNCHANGED <<executes, up, down, waits>>
    BY DEF Refuse, ReturnTo, Tell
  <1>2. /\ s \in Seq(Words) /\ Len(s) = Len(told[l]) + 1
        /\ \A i \in 1..Len(told[l]) : s[i] = told[l][i]
        /\ s[Len(told[l]) + 1] = "error"
    <2>1. told[l] \in Seq(Words) /\ "error" \in Words /\ s = told[l] \o <<"error">>
      BY <1>1 DEF Shape, Words
    <2> HIDE DEF s
    <2> QED BY <2>1, OneMore
  <1>3. Shape'
    BY <1>1, <1>2 DEF Shape
  <1>4. /\ at'[l] = "out" /\ down'[l] = down[l] /\ waits'[l] = waits[l]
        /\ Len(told[l]) \in Nat
    BY <1>1 DEF Shape
  <1>5. SaidInv(l)'
    <2>1. Len(told[l]) =< 3 /\ \A i \in 1..Len(told[l]) : told[l][i] = Script[i]
      BY <1>1, <1>4 DEF LoginInv, SaidInv
    <2>2. Len(s) \in Nat /\ Len(s) > 0 /\ Len(s) =< 4 /\ s[Len(s)] = "error"
      BY <1>2, <1>4, <2>1
    <2>3. ASSUME NEW i \in 1..Len(s)
          PROVE  s[i] = Script[i] \/ (i = Len(s) /\ s[i] = "error")
      BY <1>2, <1>4, <2>1
    <2> QED BY <1>4, <2>2, <2>3 DEF SaidInv
  <1>6. QueueInv(l)' /\ AccountInv(l)'
    <2>1. down[l] = <<>> /\ waits[l] \in {"closed", "lost"} /\ ~accepted'[l]
      BY <1>1 DEF Shape, LoginInv, QueueInv
    <2> QED BY <1>4, <2>1 DEF QueueInv, AccountInv, Has, Sessions, Opening
  <1>7. \A m \in Logins \ {l} : Untouched(m)
    BY <1>1 DEF Shape, Untouched
  <1> QED BY <1>3, <1>5, <1>6, <1>7 DEF LoginInv

\* A login whose client is gone.
LEMMA GiveUpStep ==
    ASSUME Shape, NEW l \in Logins, LoginInv(l), NEW from \in {"password", "lease"}, GiveUp(l, from)
    PROVE  Shape' /\ LoginInv(l)' /\ \A m \in Logins \ {l} : Untouched(m)
  <1>1. /\ at[l] = from /\ at' = [at EXCEPT ![l] = "gone"]
        /\ offer' = [offer EXCEPT ![l] = Unset] /\ account' = [account EXCEPT ![l] = NoUser]
        /\ scram' = [scram EXCEPT ![l] = FALSE] /\ pguser' = [pguser EXCEPT ![l] = NoUser]
        /\ accepted' = [accepted EXCEPT ![l] = FALSE]
        /\ UNCHANGED <<executes, told, up, down, waits>>
    BY DEF GiveUp, ReturnTo
  <1>2. Shape'
    BY <1>1 DEF Shape
  <1>3. at'[l] = "gone" /\ down[l] = <<>> /\ waits[l] \in {"closed", "lost"} /\ ~accepted'[l]
    BY <1>1 DEF Shape, LoginInv, QueueInv
  <1>4. SaidInv(l)'
    BY <1>1, <1>3 DEF LoginInv, SaidInv
  <1>5. QueueInv(l)' /\ AccountInv(l)'
    BY <1>1, <1>3 DEF QueueInv, AccountInv, Has, Sessions, Opening
  <1>6. \A m \in Logins \ {l} : Untouched(m)
    BY <1>1 DEF Shape, Untouched
  <1> QED BY <1>2, <1>4, <1>5, <1>6 DEF LoginInv

\* The loop of authenticateWithBackend ends, with or without a last word to
\* the client; the login is over.
LEMMA EndsLoop ==
    ASSUME Shape, NEW l \in Logins, LoginInv(l), at[l] = "backend",
           NEW to \in {"out", "dropped", "gone"}, ReturnTo(l, to), CloseTemp(l),
           to = "dropped" => Len(told[l]) = 1,
           \/ told' = told /\ (to = "out" => waits[l] = "lost")
           \/ to = "out" /\ Tell(l, <<"error">>)
    PROVE  Shape' /\ LoginInv(l)' /\ \A m \in Logins \ {l} : Untouched(m)
  <1> DEFINE s == told'[l]
  <1>1. /\ at' = [at EXCEPT ![l] = to]
        /\ offer' = [offer EXCEPT ![l] = Unset] /\ account' = [account EXCEPT ![l] = NoUser]
        /\ scram' = [scram EXCEPT ![l] = FALSE] /\ pguser' = [pguser EXCEPT ![l] = NoUser]
        /\ accepted' = [accepted EXCEPT ![l] = FALSE]
        /\ up' = [up EXCEPT ![l] = Unset] /\ down' = [down EXCEPT ![l] = <<>>]
        /\ waits' = [waits EXCEPT ![l] = IF waits[l] = "lost" THEN "lost" ELSE "closed"]
        /\ UNCHANGED executes
    BY DEF ReturnTo, CloseTemp
  <1>2. /\ told' \in [Logins -> Seq(Words)]
        /\ \A m \in Logins \ {l} : told'[m] = told[m]
        /\ \A i \in 1..Len(told[l]) : s[i] = told[l][i]
        /\ \/ Len(s) = Len(told[l]) /\ (to = "out" => waits[l] = "lost")
           \/ to = "out" /\ Len(s) = Len(told[l]) + 1 /\ s[Len(s)] = "error"
    <2>1. CASE told' = told /\ (to = "out" => waits[l] = "lost")
      BY <2>1 DEF Shape
    <2>2. CASE to = "out" /\ Tell(l, <<"error">>)
      <3> DEFINE t == told[l] \o <<"error">>
      <3>1. told' = [told EXCEPT ![l] = t]
        BY <2>2 DEF Tell
      <3>2. /\ t \in Seq(Words) /\ Len(t) = Len(told[l]) + 1
            /\ \A i \in 1..Len(told[l]) : t[i] = told[l][i]
            /\ t[Len(told[l]) + 1] = "error"
        <4>1. told[l] \in Seq(Words) /\ "error" \in Words
          BY DEF Shape, Words
        <4> QED BY <4>1, OneMore
      <3> HIDE DEF t
      <3> QED BY <2>2, <3>1, <3>2 DEF Shape
    <2> QED BY <2>1, <2>2
  <1>3. Shape'
    <2>1. /\ at' \in [Logins -> {"dial", "password", "token", "startup", "backend", "lease",
                                 "in", "out", "dropped", "gone"}]
          /\ waits' \in [Logins -> Opening \cup {"statement", "refused", "lost", "closed"}]
      BY <1>1 DEF Shape
    <2> QED BY <1>1, <1>2, <2>1 DEF Shape
  <1>4. /\ at'[l] = to /\ down'[l] = <<>> /\ waits'[l] \in {"closed", "lost"}
        /\ waits[l] = "lost" => waits'[l] = "lost"
        /\ ~accepted'[l]
    BY <1>1 DEF Shape
  <1>5. SaidInv(l)'
    <2>1. /\ Len(told[l]) \in Nat /\ Len(told[l]) > 0 /\ Len(told[l]) =< 3
          /\ \A i \in 1..Len(told[l]) : told[l][i] = Script[i]
      <3>1. SaidInv(l) /\ told[l] \in Seq(Words)
        BY DEF LoginInv, Shape
      <3>2. Len(told[l]) \in 1..3 /\ \A i \in 1..Len(told[l]) : told[l][i] = Script[i]
        BY <3>1 DEF SaidInv
      <3>3. \A k \in 1..3 : k \in Nat /\ k > 0 /\ k =< 3
        OBVIOUS
      <3> QED BY ONLY <3>2, <3>3
    <2>2. Len(s) \in Nat /\ Len(s) > 0 /\ Len(s) =< 4
      BY <1>2, <2>1
    <2>3. ASSUME NEW i \in 1..Len(s)
          PROVE  s[i] = Script[i] \/ (to = "out" /\ i = Len(s) /\ s[i] = "error")
      BY <1>2, <2>1
    <2>4. to = "out" => s[Len(s)] = "error" \/ waits'[l] = "lost"
      BY <1>2, <1>4
    <2>5. to = "dropped" => Len(s) = 1
      BY <1>2
    <2> QED BY <1>4, <2>2, <2>3, <2>4, <2>5 DEF SaidInv
  <1>6. QueueInv(l)' /\ AccountInv(l)'
    BY <1>4 DEF QueueInv, AccountInv, Has, Sessions, Opening
  <1>7. \A m \in Logins \ {l} : Untouched(m)
    BY <1>1, <1>2 DEF Shape, Untouched
  <1> QED BY <1>3, <1>5, <1>6, <1>7 DEF LoginInv

\* ReadyForQuery of the temporary connection.
LEMMA TempReadyStep ==
    ASSUME Shape, NEW l \in Logins, LoginInv(l), TempReady(l)
    PROVE  Shape' /\ LoginInv(l)' /\ \A m \in Logins \ {l} : Untouched(m)
  <1>1. /\ at[l] = "backend" /\ down[l] # <<>> /\ down[l][1] = "ready"
        /\ at' = [at EXCEPT ![l] = "lease"]
        /\ up' = [up EXCEPT ![l] = Unset] /\ down' = [down EXCEPT ![l] = <<>>]
        /\ waits' = [waits EXCEPT ![l] = IF waits[l] = "lost" THEN "lost" ELSE "closed"]
        /\ UNCHANGED <<told, offer, account, scram, executes, pguser, accepted>>
    BY DEF TempReady, Receive, Goto, CloseTemp
  <1>2. Shape'
    BY <1>1 DEF Shape
  <1>3. at'[l] = "lease" /\ down'[l] = <<>> /\ waits'[l] \in {"closed", "lost"}
    BY <1>1 DEF Shape
  <1>4. Len(told[l]) = 3
    BY <1>1 DEF LoginInv, QueueInv, Fits, Before, Ends
  <1>5. SaidInv(l)'
    BY <1>1, <1>3, <1>4 DEF LoginInv, SaidInv
  <1>6. QueueInv(l)' /\ AccountInv(l)'
    BY <1>1, <1>3, <1>4 DEF LoginInv, QueueInv, AccountInv, Has, Sessions, Opening
  <1>7. \A m \in Logins \ {l} : Untouched(m)
    BY <1>1 DEF Shape, Untouched
  <1> QED BY <1>2, <1>5, <1>6, <1>7 DEF LoginInv

\* The loop reads m and goes on; what the client is told is in step with it.
LEMMA LoopStep ==
    ASSUME Shape, NEW l \in Logins, LoginInv(l), NEW m \in PgMessages \ Ends, Receive(l, m),
           Loop(l), scram' \in [Logins -> BOOLEAN], DOMAIN up' = Logins,
           \/ m \in {"ok", "param"} /\ Tell(l, <<m>>)
           \/ m \notin {"ok", "param"} /\ told' = told
    PROVE  Shape' /\ LoginInv(l)' /\ \A k \in Logins \ {l} : Untouched(k) \/ up'[k] # up[k]
  <1> DEFINE s == told'[l]
             n == Len(told[l])
             d == Tail(down[l])
  <1>1. /\ at[l] = "backend" /\ down[l] # <<>> /\ down[l][1] = m
        /\ down' = [down EXCEPT ![l] = d]
        /\ UNCHANGED <<at, offer, account, executes, waits, pguser, accepted>>
    BY DEF Receive, Loop, Consume
  <1>2. /\ n \in 1..3 /\ n = Before(m) /\ Fits(n, down[l])
        /\ \A i \in 1..n : told[l][i] = Script[i]
        /\ told[l] \in Seq(Words) /\ down[l] \in Seq(PgMessages) /\ waits[l] # "startup"
    BY <1>1 DEF Shape, LoginInv, SaidInv, QueueInv, Fits
  <1>3. /\ d \in Seq(PgMessages) /\ Fits(After(m), d)
        /\ Reached(After(m), d) = Reached(n, down[l])
        /\ \A what : Has(d, what) => Has(down[l], what)
    BY <1>1, <1>2, FitsTail
  <1> HIDE DEF d
  <1>4. /\ told' \in [Logins -> Seq(Words)]
        /\ \A k \in Logins \ {l} : told'[k] = told[k]
        /\ \A i \in 1..n : s[i] = told[l][i]
        /\ Len(s) = After(m)
        /\ Len(s) = n \/ (Len(s) = n + 1 /\ s[n + 1] = Script[n + 1])
    <2>1. CASE m \notin {"ok", "param"} /\ told' = told
      BY <1>2, <2>1 DEF Shape, Before, After, PgMessages, Ends
    <2>2. CASE m \in {"ok", "param"} /\ Tell(l, <<m>>)
      <3> DEFINE t == told[l] \o <<m>>
      <3>1. told' = [told EXCEPT ![l] = t]
        BY <2>2 DEF Tell
      <3>2. /\ t \in Seq(Words) /\ Len(t) = n + 1
            /\ \A i \in 1..n : t[i] = told[l][i]
            /\ t[n + 1] = m
        <4>1. m \in Words
          BY <2>2 DEF Words
        <4> QED BY <1>2, <4>1, OneMore
      <3> HIDE DEF t
      <3>3. n + 1 = After(m) /\ m = Script[n + 1]
        BY <1>2, <2>2 DEF Before, After, Script
      <3> QED BY <3>1, <3>2, <3>3 DEF Shape
    <2> QED BY <2>1, <2>2
  <1>5. Shape'
    BY <1>1, <1>3, <1>4 DEF Shape
  <1>6. /\ at'[l] = "backend" /\ down'[l] = d /\ waits'[l] = waits[l]
        /\ offer'[l] = offer[l] /\ account'[l] = account[l] /\ pguser'[l] = pguser[l]
        /\ accepted'[l] = accepted[l]
    BY <1>1 DEF Shape
  <1> DEFINE j == Len(s)
  <1>7. j \in 1..3 /\ \A i \in 1..j : s[i] = Script[i]
    BY <1>2, <1>4 DEF After
  <1>8. SaidInv(l)'
    BY <1>6, <1>7 DEF SaidInv
  <1>9. QueueInv(l)'
    BY <1>1, <1>2, <1>3, <1>4, <1>6 DEF LoginInv, QueueInv
  <1>10. AccountInv(l)'
    <2>1. j > 1 => accepted[l]
      <3>1. CASE n > 1
        BY <1>1, <3>1 DEF LoginInv, AccountInv, Sessions
      <3>2. CASE n = 1 /\ j > 1
        <4>1. m = "ok"
          <5>1. Before(m) = 1 /\ After(m) # 1
            BY <1>2, <1>4, <3>2
          <5> QED BY <5>1 DEF After, Before
        <4>2. 1 \in 1..Len(down[l])
          BY <1>1, <1>2, EmptySeq
        <4> QED BY <1>1, <4>1, <4>2 DEF LoginInv, AccountInv, Has
      <3> QED BY <1>2, <3>1, <3>2
    <2> QED BY <1>1, <1>2, <1>3, <1>6, <2>1 DEF LoginInv, AccountInv, Sessions
  <1>11. \A k \in Logins \ {l} : Untouched(k) \/ up'[k] # up[k]
    BY <1>1, <1>4 DEF Shape, Untouched
  <1> QED BY <1>5, <1>8, <1>9, <1>10, <1>11 DEF LoginInv

-----------------------------------------------------------------------------
(* PostgreSQL's steps *)

\* A single message of PostgreSQL's.
LEMMA OneMessage ==
    ASSUME NEW m \in PgMessages, NEW n \in Nat, m \in Ends \/ Before(m) = n
    PROVE  /\ <<m>> \in Seq(PgMessages) /\ Fits(n, <<m>>) /\ Reached(n, <<m>>) = After(m)
           /\ \A what : Has(<<m>>, what) => m \in what
  <1>1. <<m>> \in Seq(PgMessages) /\ Len(<<m>>) = 1 /\ <<m>>[1] = m /\ <<m>> # <<>>
    OBVIOUS
  <1> QED BY <1>1 DEF Fits, Reached, Has

\* The messages after which the user is in, or nearly so.
LEMMA Admission ==
    ASSUME NEW msgs \in {<<>>, <<"final">>},
           NEW rest \in {<<"ok", "param", "key", "ready">>, <<"ok", "error">>}
    PROVE  /\ msgs \o rest \in Seq(PgMessages) /\ Fits(1, msgs \o rest)
           /\ ~Has(msgs \o rest, {"eof"})
           /\ rest = <<"ok", "param", "key", "ready">> => ~Has(msgs \o rest, Ends)
  <1>1. /\ msgs \in Seq(PgMessages) /\ Fits(1, msgs) /\ Reached(1, msgs) = 1
        /\ ~Has(msgs, Ends)
    <2>1. CASE msgs = <<>>
      <3>1. Len(<<>>) = 0 /\ <<>> \in Seq(PgMessages)
        BY EmptySeq
      <3> QED BY <2>1, <3>1 DEF Fits, Reached, Has
    <2>2. CASE msgs = <<"final">>
      <3>1. /\ "final" \in PgMessages /\ "final" \notin Ends
            /\ Before("final") = 1 /\ After("final") = 1
        BY DEF PgMessages, Ends, Before, After
      <3> QED BY <2>2, <3>1, OneMessage
    <2> QED BY <2>1, <2>2
  <1>2. /\ rest \in Seq(PgMessages) /\ Fits(1, rest) /\ ~Has(rest, {"eof"})
        /\ rest = <<"ok", "param", "key", "ready">> => ~Has(rest, Ends)
    <2>1. CASE rest = <<"ok", "param", "key", "ready">>
      <3>1. /\ rest \in Seq(PgMessages) /\ Len(rest) = 4
            /\ rest[1] = "ok" /\ rest[2] = "param" /\ rest[3] = "key" /\ rest[4] = "ready"
        BY <2>1 DEF PgMessages
      <3>2. \A i \in 1..4 : rest[i] \notin Ends
        BY <3>1 DEF Ends
      <3>3. Fits(1, rest)
        BY <3>1, <3>2 DEF Fits, Before, After
      <3> QED BY <3>1, <3>2, <3>3 DEF Has, Ends
    <2>2. CASE rest = <<"ok", "error">>
      <3>1. /\ rest \in Seq(PgMessages) /\ Len(rest) = 2 /\ rest[1] = "ok" /\ rest[2] = "error"
            /\ rest # <<"ok", "param", "key", "ready">>
        BY <2>2 DEF PgMessages
      <3> QED BY <3>1 DEF Fits, Has, Ends, Before, After
    <2> QED BY <2>1, <2>2
  <1>3. /\ \A what : Has(msgs \o rest, what) => Has(msgs, what) \/ Has(rest, what)
        /\ msgs \o rest \in Seq(PgMessages) /\ Fits(1, msgs \o rest)
    BY <1>1, <1>2, FitsConcat
  <1>4. ~Has(msgs, {"eof"})
    BY <1>1 DEF Has, Ends
  <1> QED BY <1>1, <1>2, <1>3, <1>4

\* PostgreSQL sends messages that continue what it has sent.
LEMMA PgStep ==
    ASSUME Shape, NEW l \in Logins, LoginInv(l), waits[l] \in Opening \cup {"statement"},
           NEW msgs \in Seq(PgMessages),
           NEW next \in Opening \cup {"statement", "refused", "lost"}, next # "startup",
           PgSends(l, msgs, next),
           accepted' \in [Logins -> BOOLEAN],
           \A k \in Logins \ {l} : accepted'[k] = accepted[k],
           NEW u \in PgUsers \cup {NoUser}, pguser' = [pguser EXCEPT ![l] = u],
           Fits(Reached(Len(told[l]), down[l]), msgs),
           next \in Opening => /\ Reached(Reached(Len(told[l]), down[l]), msgs) = 1
                               /\ u = account[l],
           Has(msgs, Ends) => next \in {"refused", "lost"},
           Has(msgs, {"eof"}) => next = "lost",
           Has(msgs, {"ok"}) => accepted'[l],
           accepted[l] => accepted'[l],
           accepted'[l] => u = account[l]
    PROVE  Shape' /\ LoginInv(l)' /\ \A k \in Logins \ {l} : Untouched(k)
  <1> DEFINE n == Len(told[l])
             d == down[l] \o msgs
  <1>1. /\ down' = [down EXCEPT ![l] = d] /\ waits' = [waits EXCEPT ![l] = next]
        /\ up' = [up EXCEPT ![l] = Unset]
        /\ UNCHANGED <<at, offer, account, scram, told, executes>>
    BY DEF PgSends
  <1>2. /\ at[l] = "backend" /\ n \in 1..3 /\ down[l] \in Seq(PgMessages)
        /\ ~Has(down[l], Ends) /\ Fits(n, down[l])
    BY DEF Shape, LoginInv, SaidInv, QueueInv, Opening
  <1>3. /\ d \in Seq(PgMessages) /\ Fits(n, d) /\ Reached(n, d) = Reached(Reached(n, down[l]), msgs)
        /\ \A what : Has(d, what) => Has(down[l], what) \/ Has(msgs, what)
    <2>1. n \in Nat /\ Fits(Reached(n, down[l]), msgs)
      BY <1>2
    <2> HIDE DEF n
    <2> QED BY <1>2, <2>1, FitsConcat
  <1> HIDE DEF d
  <1>4. ~Has(down[l], {"eof"})
    BY <1>2 DEF Has, Ends
  <1>5. Shape'
    BY <1>1, <1>3 DEF Shape
  <1>6. /\ at'[l] = "backend" /\ told'[l] = told[l] /\ down'[l] = d /\ waits'[l] = next
        /\ offer'[l] = offer[l] /\ account'[l] = account[l] /\ pguser'[l] = u
    BY <1>1, <1>2 DEF Shape
  <1>7. SaidInv(l)'
    BY <1>2, <1>6 DEF LoginInv, SaidInv
  <1>8. QueueInv(l)'
    BY <1>2, <1>3, <1>4, <1>6 DEF QueueInv
  <1>9. AccountInv(l)'
    BY <1>2, <1>3, <1>6 DEF LoginInv, AccountInv, Sessions
  <1>10. \A k \in Logins \ {l} : Untouched(k)
    BY <1>1 DEF Shape, Untouched
  <1> QED BY <1>5, <1>7, <1>8, <1>9, <1>10 DEF LoginInv

\* An error or the end of the connection fits anywhere.
LEMMA PgBreaksOff ==
    ASSUME Shape, NEW l \in Logins, LoginInv(l), waits[l] \in Opening \cup {"statement"},
           NEW e \in {"error", "eof"},
           PgSends(l, <<e>>, IF e = "error" THEN "refused" ELSE "lost"),
           UNCHANGED <<pguser, accepted>>
    PROVE  Shape' /\ LoginInv(l)' /\ \A k \in Logins \ {l} : Untouched(k)
  <1> DEFINE n == Reached(Len(told[l]), down[l])
             next == IF e = "error" THEN "refused" ELSE "lost"
  <1>1. at[l] = "backend" /\ Len(told[l]) \in Nat
    BY DEF Shape, LoginInv, QueueInv, Opening
  <1>2. n \in Nat
    BY <1>1 DEF Reached, After
  <1>3. /\ <<e>> \in Seq(PgMessages) /\ Fits(n, <<e>>)
        /\ \A what : Has(<<e>>, what) => e \in what
    <2>1. e \in PgMessages /\ e \in Ends
      BY DEF PgMessages, Ends
    <2> HIDE DEF n
    <2> QED BY <1>2, <2>1, OneMessage
  <1>4. /\ accepted' \in [Logins -> BOOLEAN] /\ pguser[l] \in PgUsers \cup {NoUser}
        /\ pguser' = [pguser EXCEPT ![l] = pguser[l]]
        /\ \A k \in Logins : accepted'[k] = accepted[k]
    BY DEF Shape
  <1>5. accepted[l] => pguser[l] = account[l]
    BY <1>1 DEF LoginInv, AccountInv, Sessions
  <1>6. /\ ~Has(<<e>>, {"ok"})
        /\ Has(<<e>>, {"eof"}) => next = "lost"
        /\ next \in {"refused", "lost"} /\ next \notin Opening
    BY <1>3 DEF Opening
  <1> HIDE DEF n, next
  <1>7. PgSends(l, <<e>>, next)
    BY DEF next
  <1> QED BY <1>3, <1>4, <1>5, <1>6, <1>7, PgStep DEF n

\* Every step of PostgreSQL's on a temporary connection keeps the invariant.
LEMMA PostgresStep ==
    ASSUME Shape, NEW l \in Logins, LoginInv(l), Postgres(l)
    PROVE  Shape' /\ LoginInv(l)' /\ \A k \in Logins \ {l} : Untouched(k)
  <1> DEFINE n == Reached(Len(told[l]), down[l])
             Done == Shape' /\ LoginInv(l)' /\ \A k \in Logins \ {l} : Untouched(k)
  <1>1. ASSUME waits[l] \in Opening
        PROVE  n = 1 /\ at[l] = "backend" /\ account[l] \in PgUsers \cup {NoUser}
    BY <1>1 DEF Shape, LoginInv, QueueInv, Opening
  <1>2. /\ accepted \in [Logins -> BOOLEAN] /\ pguser[l] \in PgUsers \cup {NoUser}
        /\ pguser = [pguser EXCEPT ![l] = pguser[l]]
    BY DEF Shape
  <1> HIDE DEF n
  <1>3. ASSUME NEW u \in PgUsers \cup {NoUser}, u = account[l], waits[l] \in Opening,
               pguser' = [pguser EXCEPT ![l] = u],
               NEW msgs \in {<<>>, <<"final">>}, PgAdmits(l, msgs)
        PROVE  Done
    <2>1. CASE PgSends(l, msgs \o <<"ok", "param", "key", "ready">>, "statement")
      <3> DEFINE e == msgs \o <<"ok", "param", "key", "ready">>
      <3>1. e \in Seq(PgMessages) /\ Fits(1, e) /\ ~Has(e, {"eof"}) /\ ~Has(e, Ends)
        BY Admission
      <3>2. /\ accepted' \in [Logins -> BOOLEAN] /\ accepted'[l]
            /\ \A k \in Logins \ {l} : accepted'[k] = accepted[k]
        BY <1>2, <1>3 DEF PgAdmits
      <3> HIDE DEF e
      <3>3. PgSends(l, e, "statement")
        BY <2>1 DEF e
      <3>4. Fits(n, e) /\ "statement" \notin Opening /\ "statement" # "startup"
        BY <1>1, <1>3, <3>1 DEF Opening
      <3> QED BY <1>3, <3>1, <3>2, <3>3, <3>4, PgStep DEF n
    <2>2. CASE PgSends(l, msgs \o <<"ok", "error">>, "refused")
      <3> DEFINE e == msgs \o <<"ok", "error">>
      <3>1. e \in Seq(PgMessages) /\ Fits(1, e) /\ ~Has(e, {"eof"})
        BY Admission
      <3>2. /\ accepted' \in [Logins -> BOOLEAN] /\ accepted'[l]
            /\ \A k \in Logins \ {l} : accepted'[k] = accepted[k]
        BY <1>2, <1>3 DEF PgAdmits
      <3> HIDE DEF e
      <3>3. PgSends(l, e, "refused")
        BY <2>2 DEF e
      <3>4. Fits(n, e) /\ "refused" \notin Opening /\ "refused" # "startup"
        BY <1>1, <1>3, <3>1 DEF Opening
      <3> QED BY <1>3, <3>1, <3>2, <3>3, <3>4, PgStep DEF n
    <2> QED BY <1>3, <2>1, <2>2 DEF PgAdmits
  <1>4. ASSUME NEW u \in PgUsers \cup {NoUser}, u = account[l], waits[l] \in Opening,
               pguser' = [pguser EXCEPT ![l] = u], accepted' = accepted,
               NEW m \in {"cleartext", "md5", "sasl", "gss", "continue"},
               NEW next \in Opening \ {"startup"}, PgSends(l, <<m>>, next),
               accepted[l] => pguser[l] = u
        PROVE  Done
    <2>1. /\ m \in PgMessages /\ m \notin Ends /\ Before(m) = 1 /\ After(m) = 1
          /\ m # "ok"
      BY DEF PgMessages, Ends, Before, After
    <2>2. /\ <<m>> \in Seq(PgMessages) /\ Fits(1, <<m>>) /\ Reached(1, <<m>>) = 1
          /\ ~Has(<<m>>, Ends) /\ ~Has(<<m>>, {"ok"}) /\ ~Has(<<m>>, {"eof"})
      BY <2>1, OneMessage DEF Ends
    <2>3. /\ accepted' \in [Logins -> BOOLEAN] /\ account[l] = u
          /\ \A k \in Logins : accepted'[k] = accepted[k]
      BY <1>2, <1>4
    <2>4. Fits(n, <<m>>) /\ Reached(n, <<m>>) = 1
      BY <1>1, <1>4, <2>2
    <2> DEFINE e == <<m>>
    <2> HIDE DEF e
    <2>5. /\ e \in Seq(PgMessages) /\ Fits(n, e) /\ Reached(n, e) = 1 /\ PgSends(l, e, next)
          /\ ~Has(e, Ends) /\ ~Has(e, {"ok"}) /\ ~Has(e, {"eof"})
      BY <1>4, <2>2, <2>4 DEF e
    <2> QED BY <1>2, <1>4, <2>3, <2>5, PgStep DEF n
  <1>5. ASSUME waits[l] \in Opening
        PROVE  accepted[l] => pguser[l] = account[l]
    BY <1>1, <1>5 DEF LoginInv, AccountInv, Sessions
  <1>6. CASE PgStartup(l)
    <2>1. waits[l] = "startup" /\ waits[l] \in Opening
      BY <1>6 DEF PgStartup, Opening
    <2>2. up[l].user = account[l]
      BY <2>1 DEF LoginInv, AccountInv
    <2>3. pguser' = [pguser EXCEPT ![l] = account[l]]
      BY <1>6, <2>2 DEF PgStartup
    <2>4. PICK m \in Methods :
            IF m = "trust" THEN PgAdmits(l, <<>>)
            ELSE PgSends(l, <<m>>, IF m = "sasl" THEN "initial" ELSE m) /\ accepted' = accepted
      BY <1>6 DEF PgStartup
    <2>5. CASE m = "trust"
      BY <1>1, <1>3, <2>1, <2>3, <2>4, <2>5
    <2>6. CASE m # "trust"
      <3> DEFINE next == IF m = "sasl" THEN "initial" ELSE m
      <3>1. m \in {"cleartext", "md5", "sasl", "gss"}
        BY <2>6, AuthAssumption
      <3>2. next \in Opening \ {"startup"}
        BY <3>1 DEF Opening
      <3>3. PgSends(l, <<m>>, next) /\ accepted' = accepted
        BY <2>4, <2>6
      <3> HIDE DEF next
      <3> QED BY <1>1, <1>4, <1>5, <2>1, <2>3, <3>1, <3>2, <3>3
    <2> QED BY <2>5, <2>6
  <1>7. CASE PgChallenges(l)
    <2>1. /\ waits[l] = "initial" /\ PgSends(l, <<"continue">>, "response")
          /\ UNCHANGED <<pguser, accepted>>
      BY <1>7 DEF PgChallenges
    <2>2. pguser[l] = account[l]
      BY <2>1 DEF LoginInv, AccountInv, Opening
    <2> QED BY <1>1, <1>2, <1>4, <2>1, <2>2 DEF Opening
  <1>8. CASE PgVerifies(l)
    <2>1. /\ waits[l] \in {"cleartext", "md5", "response"} /\ waits[l] \in Opening
          /\ pguser' = pguser
      BY <1>8 DEF PgVerifies, Opening
    <2>2. pguser[l] = account[l]
      BY <2>1 DEF LoginInv, AccountInv, Opening
    <2>3. CASE PgRejects(l)
      BY <2>1, <2>3, PgBreaksOff DEF PgRejects
    <2>4. CASE PgAdmits(l, IF waits[l] = "response" THEN <<"final">> ELSE <<>>)
      BY <1>1, <1>2, <1>3, <2>1, <2>2, <2>4
    <2> QED BY <1>8, <2>3, <2>4 DEF PgVerifies
  <1>9. CASE PgEnds(l)
    <2>1. waits[l] \in Opening \cup {"statement"} /\ pguser' = pguser
      BY <1>9 DEF PgEnds, Shape
    <2>2. CASE PgRejects(l)
      BY <2>1, <2>2, PgBreaksOff DEF PgRejects
    <2>3. CASE PgSends(l, <<"eof">>, "lost") /\ accepted' = accepted
      BY <2>1, <2>3, PgBreaksOff
    <2> QED BY <1>9, <2>2, <2>3 DEF PgEnds
  <1> QED BY <1>6, <1>7, <1>8, <1>9 DEF Postgres

-----------------------------------------------------------------------------
(* The steps of the proxy that are left *)

\* The account of a token that passed is the one its roles are mapped to.
LEMMA TokenEntitles ==
    ASSUME NEW l \in Logins, offer[l] \in Offers, IsToken(offer[l]), TokenAccount(l) # NoUser
    PROVE  Entitled(offer[l], TokenAccount(l)) /\ TokenAccount(l) \in PgUsers
  <1> DEFINE o == offer[l]
             roles == ExtractRoles(o)
  <1>1. o.flaw = "none" /\ TokenAccount(l) = MapRole(roles)
    BY DEF TokenAccount
  <1>2. o.role \in Seq(DOMAIN Normal) /\ o.roles \in Seq(DOMAIN Normal) /\ ~IsPassword(o)
    BY AuthAssumption DEF IsPassword, IsToken, WellFormed
  <1>3. roles \in Seq(DOMAIN Normal)
    BY <1>2, ConcatProperties DEF ExtractRoles
  <1> HIDE DEF roles
  <1>4. IsAccountOf(MapRole(roles), roles) /\ MapRole(roles) \in PgUsers
    BY <1>1, <1>3, MappedAccount
  <1> QED BY <1>1, <1>2, <1>4 DEF Entitled, roles

\* The client is asked for its password.
LEMMA DialStep ==
    ASSUME Shape, NEW l \in Logins, LoginInv(l), Dial(l)
    PROVE  Shape' /\ LoginInv(l)' /\ \A m \in Logins \ {l} : Untouched(m)
  <1> DEFINE s == told[l] \o <<"request">>
  <1>1. /\ at[l] = "dial" /\ at' = [at EXCEPT ![l] = "password"]
        /\ told' = [told EXCEPT ![l] = s]
        /\ UNCHANGED <<offer, account, scram, executes, up, down, waits, pguser, accepted>>
    BY DEF Dial, Goto, Tell, pgVars
  <1>2. s \in Seq(Words) /\ Len(s) = 1 /\ s[1] = "request"
    <2>1. told[l] \in Seq(Words) /\ "request" \in Words
      BY DEF Shape, Words
    <2>2. Len(told[l]) = 0
      BY <1>1 DEF LoginInv, SaidInv
    <2> QED BY <2>1, <2>2, OneMore
  <1> HIDE DEF s
  <1>3. Shape'
    BY <1>1, <1>2 DEF Shape
  <1>4. /\ at'[l] = "password" /\ told'[l] = s /\ down[l] = <<>> /\ waits[l] \in {"closed", "lost"}
        /\ ~accepted[l]
    BY <1>1 DEF Shape, LoginInv, QueueInv, AccountInv, Sessions
  <1>5. SaidInv(l)'
    <2>1. Script[1] = "request"
      BY DEF Script
    <2>2. \A i \in 1..Len(s) : s[i] = Script[i]
      BY <1>2, <2>1
    <2> QED BY <1>2, <1>4, <2>2 DEF SaidInv
  <1>6. QueueInv(l)' /\ AccountInv(l)'
    BY <1>1, <1>4 DEF QueueInv, AccountInv, Has, Sessions, Opening
  <1>7. \A m \in Logins \ {l} : Untouched(m)
    BY <1>1 DEF Shape, Untouched
  <1> QED BY <1>3, <1>5, <1>6, <1>7 DEF LoginInv

\* The client answers with a password or a token, and a token is validated.
LEMMA PresentStep ==
    ASSUME Shape, NEW l \in Logins, LoginInv(l),
           PresentPassword(l) \/ PresentToken(l) \/ ValidateToken(l)
    PROVE  Shape' /\ LoginInv(l)' /\ \A m \in Logins \ {l} : Untouched(m)
  <1>1. PICK from \in {"password", "token"}, to \in {"token", "startup"},
             o \in Offers, a \in PgUsers \cup {NoUser} :
          /\ at[l] = from /\ at' = [at EXCEPT ![l] = to]
          /\ offer' = [offer EXCEPT ![l] = o] /\ account' = [account EXCEPT ![l] = a]
          /\ to = "token" => IsToken(o)
          /\ to = "startup" => Entitled(o, a)
          /\ UNCHANGED <<scram, told, executes, up, down, waits, pguser, accepted>>
    <2>1. CASE PresentPassword(l)
      <3>1. PICK o \in Offers : IsPassword(o) /\ offer' = [offer EXCEPT ![l] = o]
        BY <2>1 DEF PresentPassword
      <3>2. ClientUser \in PgUsers /\ Entitled(o, ClientUser)
        BY <3>1 DEF PgUsers, Entitled, IsPassword, IsToken
      <3>3. /\ at[l] = "password" /\ at' = [at EXCEPT ![l] = "startup"]
            /\ account' = [account EXCEPT ![l] = ClientUser]
            /\ UNCHANGED <<scram, told, executes, up, down, waits, pguser, accepted>>
        BY <2>1 DEF PresentPassword, Goto, pgVars
      <3> QED BY <3>1, <3>2, <3>3
    <2>2. CASE PresentToken(l)
      <3>1. PICK o \in Offers :
              /\ IsToken(o) /\ at[l] = "password" /\ at' = [at EXCEPT ![l] = "token"]
              /\ offer' = [offer EXCEPT ![l] = o]
              /\ UNCHANGED <<account, scram, told, executes, up, down, waits, pguser, accepted>>
        BY <2>2 DEF PresentToken, Goto, pgVars
      <3>2. account[l] \in PgUsers \cup {NoUser} /\ account' = [account EXCEPT ![l] = account[l]]
        BY <3>1 DEF Shape
      <3> QED BY <3>1, <3>2
    <2>3. CASE ValidateToken(l)
      <3> DEFINE a == TokenAccount(l)
      <3>1. /\ at[l] = "token" /\ at' = [at EXCEPT ![l] = "startup"]
            /\ a # NoUser /\ account' = [account EXCEPT ![l] = a]
            /\ UNCHANGED <<offer, scram, told, executes, up, down, waits, pguser, accepted>>
        BY <2>3 DEF ValidateToken, Goto, pgVars
      <3>2. offer[l] \in Offers /\ IsToken(offer[l])
        BY <3>1 DEF LoginInv, AccountInv
      <3>3. Entitled(offer[l], a) /\ a \in PgUsers
        BY <3>1, <3>2, TokenEntitles
      <3>4. offer' = [offer EXCEPT ![l] = offer[l]]
        BY <3>1 DEF Shape
      <3> HIDE DEF a
      <3> QED BY <3>1, <3>2, <3>3, <3>4
    <2> QED BY <2>1, <2>2, <2>3
  <1>2. Shape'
    BY <1>1 DEF Shape
  <1>3. /\ at'[l] = to /\ offer'[l] = o /\ account'[l] = a
        /\ down[l] = <<>> /\ waits[l] \in {"closed", "lost"} /\ Len(told[l]) = 1
        /\ \A i \in 1..1 : told[l][i] = Script[i]
        /\ ~accepted[l]
    BY <1>1 DEF Shape, LoginInv, SaidInv, QueueInv, AccountInv, Sessions
  <1>4. SaidInv(l)'
    BY <1>1, <1>3 DEF SaidInv
  <1>5. QueueInv(l)' /\ AccountInv(l)'
    BY <1>1, <1>3 DEF QueueInv, AccountInv, Has, Sessions, Opening
  <1>6. \A m \in Logins \ {l} : Untouched(m)
    BY <1>1 DEF Shape, Untouched
  <1> QED BY <1>2, <1>4, <1>5, <1>6 DEF LoginInv

\* The StartupMessage goes out for the account of this login.
LEMMA SendStartupStep ==
    ASSUME Shape, NEW l \in Logins, LoginInv(l), SendStartup(l)
    PROVE  Shape' /\ LoginInv(l)' /\ \A m \in Logins \ {l} : Untouched(m)
  <1>1. /\ at[l] = "startup" /\ at' = [at EXCEPT ![l] = "backend"]
        /\ up' = [up EXCEPT ![l] = [type |-> "startup", user |-> account[l]]]
        /\ waits' = [waits EXCEPT ![l] = "startup"]
        /\ UNCHANGED <<offer, account, scram, told, executes, down, pguser, accepted>>
    BY DEF SendStartup, Goto
  <1>2. Shape'
    BY <1>1 DEF Shape, Opening
  <1>3. /\ at'[l] = "backend" /\ waits'[l] = "startup"
        /\ up'[l] = [type |-> "startup", user |-> account[l]]
        /\ down[l] = <<>> /\ Len(told[l]) = 1 /\ Entitled(offer[l], account[l])
        /\ ~accepted[l]
    BY <1>1 DEF Shape, LoginInv, SaidInv, QueueInv, AccountInv, Sessions
  <1>4. SaidInv(l)'
    BY <1>1, <1>3 DEF LoginInv, SaidInv
  <1>5. QueueInv(l)'
    BY <1>1, <1>3 DEF QueueInv, Has, Fits, Reached
  <1>6. AccountInv(l)'
    BY <1>1, <1>3 DEF AccountInv, Has, Sessions, Opening
  <1>7. \A m \in Logins \ {l} : Untouched(m)
    BY <1>1 DEF Shape, Untouched
  <1> QED BY <1>2, <1>4, <1>5, <1>6, <1>7 DEF LoginInv

\* Where the words of two sequences are when one follows the other.
LEMMA WordsConcat ==
    ASSUME NEW d \in Seq(Words), NEW e \in Seq(Words)
    PROVE  /\ d \o e \in Seq(Words) /\ Len(d \o e) = Len(d) + Len(e)
           /\ \A i \in 1..(Len(d) + Len(e)) :
                (d \o e)[i] = IF i =< Len(d) THEN d[i] ELSE e[i - Len(d)]
  BY ConcatProperties

\* The pool connection's key and ReadyForQuery end the sequence.
LEMMA LeaseTells ==
    ASSUME Shape, NEW l \in Logins, LoginInv(l), Lease(l)
    PROVE  Shape' /\ LoginInv(l)' /\ \A m \in Logins \ {l} : Untouched(m)
  <1> DEFINE s == told[l] \o <<"key", "ready">>
  <1>1. /\ at[l] = "lease" /\ at' = [at EXCEPT ![l] = "in"]
        /\ executes' = [executes EXCEPT ![l] = ServiceUser]
        /\ told' = [told EXCEPT ![l] = s]
        /\ UNCHANGED <<offer, account, scram, up, down, waits, pguser, accepted>>
    BY DEF Lease, Goto, Tell, pgVars
  <1>2. told[l] \in Seq(Words) /\ Len(told[l]) = 3 /\ \A i \in 1..3 : told[l][i] = Script[i]
    BY <1>1 DEF Shape, LoginInv, SaidInv
  <1>3. /\ s \in Seq(Words) /\ Len(s) = 5
        /\ \A i \in 1..3 : s[i] = told[l][i]
        /\ s[4] = "key" /\ s[5] = "ready"
    <2> DEFINE e == <<"key", "ready">>
    <2>1. e \in Seq(Words) /\ Len(e) = 2 /\ e[1] = "key" /\ e[2] = "ready"
      BY DEF Words
    <2> HIDE DEF e
    <2>2. /\ told[l] \o e \in Seq(Words) /\ Len(told[l] \o e) = Len(told[l]) + Len(e)
          /\ \A i \in 1..(Len(told[l]) + Len(e)) :
                (told[l] \o e)[i] = IF i =< Len(told[l]) THEN told[l][i] ELSE e[i - Len(told[l])]
      BY ONLY <1>2, <2>1, WordsConcat
    <2>3. s = told[l] \o e
      BY DEF e
    <2> HIDE DEF s
    <2> QED BY <1>2, <2>1, <2>2, <2>3
  <1> HIDE DEF s
  <1>4. \A i \in 1..5 : s[i] = Script[i]
    <2>1. Script[4] = "key" /\ Script[5] = "ready"
      BY DEF Script
    <2> QED BY <1>2, <1>3, <2>1
  <1>5. Shape'
    BY <1>1, <1>3 DEF Shape
  <1>6. /\ at'[l] = "in" /\ told'[l] = s
        /\ down[l] = <<>> /\ waits[l] \in {"closed", "lost"}
    BY <1>1 DEF Shape, LoginInv, QueueInv
  <1>7. SaidInv(l)'
    BY <1>3, <1>4, <1>6 DEF SaidInv
  <1>8. QueueInv(l)' /\ AccountInv(l)'
    BY <1>1, <1>2, <1>3, <1>6 DEF LoginInv, QueueInv, AccountInv, Has, Sessions, Opening
  <1>9. \A m \in Logins \ {l} : Untouched(m)
    BY <1>1 DEF Shape, Untouched
  <1> QED BY <1>5, <1>7, <1>8, <1>9 DEF LoginInv

\* Every message of PostgreSQL's and what the proxy does with it.
LEMMA BackendStep ==
    ASSUME Shape, NEW l \in Logins, LoginInv(l),
           \/ BackendRefuses(l) \/ BackendLost(l) \/ ClientGone(l) \/ PassOn(l) \/ KeepBack(l)
           \/ SendPassword(l) \/ StartScram(l) \/ ContinueScram(l) \/ FinishScram(l)
           \/ ExchangeFails(l) \/ TempReady(l)
    PROVE  Shape' /\ LoginInv(l)' /\ \A m \in Logins \ {l} : Untouched(m)
  <1>1. CASE BackendRefuses(l)
    BY <1>1, EndsLoop DEF BackendRefuses, Receive
  <1>2. CASE BackendLost(l)
    <2>1. at[l] = "backend" /\ down[l] # <<>> /\ down[l][1] = "eof"
      BY <1>2 DEF BackendLost, Receive
    <2>2. down[l] \in Seq(PgMessages) /\ 1 \in 1..Len(down[l])
      BY <2>1, EmptySeq DEF Shape
    <2>3. waits[l] = "lost"
      BY <2>1, <2>2 DEF LoginInv, QueueInv, Has
    <2> QED BY <1>2, <2>1, <2>3, EndsLoop DEF BackendLost
  <1>3. CASE ClientGone(l)
    BY <1>3, EndsLoop DEF ClientGone, Receive
  <1>4. CASE TempReady(l)
    BY <1>4, TempReadyStep
  <1>5. ASSUME NEW m \in PgMessages \ Ends, Receive(l, m), Loop(l),
               scram' = scram \/ scram' = [scram EXCEPT ![l] = TRUE],
               up' = up \/ (\E type : Reply(l, type)),
               \/ m \in {"ok", "param"} /\ Tell(l, <<m>>)
               \/ m \notin {"ok", "param"} /\ told' = told
        PROVE  Shape' /\ LoginInv(l)' /\ \A k \in Logins \ {l} : Untouched(k)
    <2>1. DOMAIN up' = Logins /\ \A k \in Logins \ {l} : up'[k] = up[k]
      BY <1>5 DEF Reply, Shape
    <2>2. scram' \in [Logins -> BOOLEAN]
      BY <1>5 DEF Shape
    <2> QED BY <1>5, <2>1, <2>2, LoopStep
  <1>6. CASE PassOn(l)
    <2>1. PICK m \in {"ok", "param"} : Receive(l, m) /\ Tell(l, <<m>>)
      BY <1>6 DEF PassOn
    <2>2. Loop(l) /\ scram' = scram /\ up' = up
      BY <1>6 DEF PassOn
    <2> QED BY <1>5, <2>1, <2>2 DEF PgMessages, Ends
  <1>7. CASE KeepBack(l)
    BY <1>5, <1>7 DEF KeepBack, PgMessages, Ends
  <1>8. CASE SendPassword(l)
    <2>1. PICK m \in {"cleartext", "md5"} : Receive(l, m) /\ Reply(l, m)
      BY <1>8 DEF SendPassword
    <2>2. Loop(l) /\ UNCHANGED <<scram, told>>
      BY <1>8 DEF SendPassword
    <2>3. m \in PgMessages \ Ends /\ m \notin {"ok", "param"}
      BY DEF PgMessages, Ends
    <2> QED BY <1>5, <2>1, <2>2, <2>3
  <1>9. CASE StartScram(l)
    <2>1. /\ Receive(l, "sasl") /\ scram' = [scram EXCEPT ![l] = TRUE] /\ Reply(l, "initial")
          /\ Loop(l) /\ told' = told
      BY <1>9 DEF StartScram
    <2>2. "sasl" \in PgMessages \ Ends /\ "sasl" \notin {"ok", "param"}
      BY DEF PgMessages, Ends
    <2> QED BY <1>5, <2>1, <2>2
  <1>10. CASE ContinueScram(l)
    <2>1. Receive(l, "continue") /\ Reply(l, "response") /\ Loop(l) /\ UNCHANGED <<scram, told>>
      BY <1>10 DEF ContinueScram
    <2>2. "continue" \in PgMessages \ Ends /\ "continue" \notin {"ok", "param"}
      BY DEF PgMessages, Ends
    <2> QED BY <1>5, <2>1, <2>2
  <1>11. CASE FinishScram(l)
    BY <1>5, <1>11 DEF FinishScram, PgMessages, Ends
  <1>12. CASE ExchangeFails(l)
    <2>1. PICK m \in {"cleartext", "md5", "sasl", "continue", "final"} : Receive(l, m)
      BY <1>12 DEF ExchangeFails
    <2>2. /\ at[l] = "backend" /\ down[l] # <<>> /\ down[l][1] \notin Ends
          /\ Before(down[l][1]) = 1
      BY <2>1 DEF Receive, Ends, Before
    <2>3. Len(told[l]) = 1
      BY <2>2 DEF LoginInv, QueueInv, Fits
    <2> QED BY <1>12, <2>2, <2>3, EndsLoop DEF ExchangeFails
  <1> QED BY <1>1, <1>2, <1>3, <1>4, <1>6, <1>7, <1>8, <1>9, <1>10, <1>11, <1>12

\* Every step of a client or of its login.
LEMMA LoginStep ==
    ASSUME Shape, NEW l \in Logins, LoginInv(l), Client(l) \/ Login(l) \/ ConnectBackend(l)
    PROVE  \/ Shape' /\ LoginInv(l)' /\ \A m \in Logins \ {l} : Untouched(m)
           \/ UNCHANGED authVars
  <1>1. CASE TokenKey(l)
    BY <1>1 DEF TokenKey
  <1>2. CASE ClientLeaves(l) \/ LeaseInVain(l)
    BY <1>2, GiveUpStep DEF ClientLeaves, LeaseInVain
  <1>3. CASE \/ DialFails(l) \/ PasswordFails(l) \/ PresentBadHeader(l) \/ RefuseToken(l)
             \/ SendStartupFails(l) \/ LeaseFails(l)
    BY <1>3, RefuseStep DEF DialFails, PasswordFails, PresentBadHeader, RefuseToken,
                            SendStartupFails, LeaseFails
  <1>4. CASE Dial(l) \/ PresentPassword(l) \/ PresentToken(l) \/ ValidateToken(l)
    BY <1>4, DialStep, PresentStep
  <1>5. CASE SendStartup(l) \/ Lease(l)
    BY <1>5, SendStartupStep, LeaseTells
  <1>6. CASE \/ BackendRefuses(l) \/ BackendLost(l) \/ ClientGone(l) \/ PassOn(l) \/ KeepBack(l)
             \/ SendPassword(l) \/ StartScram(l) \/ ContinueScram(l) \/ FinishScram(l)
             \/ ExchangeFails(l) \/ TempReady(l)
    BY <1>6, BackendStep
  <1> QED BY <1>1, <1>2, <1>3, <1>4, <1>5, <1>6 DEF Client, Login, ConnectBackend

\* A step of one login leaves the others as they are.
LEMMA FlowStep == FlowInv /\ [Next]_vars => FlowInv'
  <1> SUFFICES ASSUME FlowInv, [Next]_vars PROVE FlowInv'
    OBVIOUS
  <1>1. ASSUME UNCHANGED authVars
        PROVE  FlowInv'
    <2>1. Shape'
      BY <1>1 DEF FlowInv, Shape, authVars, pgVars
    <2>2. \A m \in Logins : Untouched(m)
      BY <1>1 DEF Untouched, authVars, pgVars
    <2> QED BY <2>1, <2>2, FlowFrame DEF FlowInv
  <1>2. ASSUME NEW l \in Logins, Shape', LoginInv(l)', \A m \in Logins \ {l} : Untouched(m)
        PROVE  FlowInv'
    BY <1>2, FlowFrame DEF FlowInv
  <1>3. ASSUME NEW l \in Logins, Client(l) \/ Login(l) \/ ConnectBackend(l) \/ Postgres(l)
        PROVE  FlowInv'
    BY <1>1, <1>2, <1>3, LoginStep, PostgresStep DEF FlowInv
  <1>4. CASE Issuer \/ UNCHANGED vars
    BY <1>1, <1>4 DEF Issuer, vars
  <1> QED BY <1>3, <1>4 DEF Next

\* The invariant holds of all logins.
LEMMA FlowInvariant == Spec => []FlowInv
  <1> QED BY FlowInit, FlowStep, PTL DEF Spec

-----------------------------------------------------------------------------
(* Theorems *)

\* The values of a login's variables are of the declared kinds, and only a
\* login in authenticateWithBackend has a temporary connection that is open
\* (the deferred Close of AuthenticateUser).
THEOREM AuthTyped == Spec => []TypeOK
  <1>1. CacheInv => JwksTypeOK
    BY DEF CacheInv
  <1>2. JwksTypeOK /\ FlowInv => TypeOK
    BY DEF FlowInv, Shape, LoginInv, QueueInv, TypeOK, Words
  <1> QED BY <1>1, <1>2, AuthRunsCache, CacheInvariant, FlowInvariant, PTL

\* Whatever PostgreSQL's messages and the two connections do, the client is
\* sent one startup sequence (authenticateWithBackend, handleStartupMessage).
THEOREM OneSequenceIsTold == Spec => []OneStartupSequence
  <1>1. ASSUME FlowInv, NEW l \in Logins
        PROVE  LET n == Len(told[l])
                   said == IF n > 0 /\ Last(told[l]) = "error" THEN Front(told[l]) ELSE told[l]
               IN  /\ IsPrefix(said, <<"request", "ok", "param", "key", "ready">>)
                   /\ "ready" \in ToSet(said) => n = 5
    <2> DEFINE n == Len(told[l])
               said == IF n > 0 /\ Last(told[l]) = "error" THEN Front(told[l]) ELSE told[l]
               k == Len(said)
    <2>1. /\ told[l] \in Seq(Words) /\ n \in Nat /\ n =< 5
          /\ at[l] = "out" => n =< 4
          /\ at[l] \in {"out", "gone"} \/ n = 5 \/ n =< 3
          /\ \A i \in 1..n : told[l][i] = Script[i] \/ (i = n /\ told[l][i] = "error")
      <3>1. /\ told[l] \in Seq(Words) /\ SaidInv(l)
            /\ at[l] \in {"dial", "password", "token", "startup", "backend", "lease",
                         "in", "out", "dropped", "gone"}
        BY <1>1 DEF FlowInv, Shape, LoginInv
      <3>2. n \in Nat
        BY <3>1
      <3>3. \/ at[l] \in {"dial", "password", "token", "startup", "backend", "lease"} /\ n =< 3
            \/ at[l] = "in" /\ n = 5
            \/ at[l] = "dropped" /\ n = 1
            \/ at[l] \in {"out", "gone"} /\ n =< 4
        BY <3>1 DEF SaidInv
      <3>4. \A i \in 1..n : told[l][i] = Script[i] \/ (i = n /\ told[l][i] = "error")
        BY <3>1 DEF SaidInv
      <3> QED BY <3>1, <3>2, <3>3, <3>4
    <2>2. /\ Len(Script) = 5 /\ Script \in Seq(Words)
          /\ Script[1] = "request" /\ Script[2] = "ok" /\ Script[3] = "param"
          /\ Script[4] = "key" /\ Script[5] = "ready"
      BY DEF Script, Words
    <2>3. /\ said \in Seq(Words) /\ k \in 0..5 /\ (k = n \/ k = n - 1)
          /\ \A i \in 1..k : said[i] = Script[i]
      <3>1. CASE n > 0 /\ Last(told[l]) = "error"
        <4>1. said = SubSeq(told[l], 1, n - 1)
          BY <3>1 DEF Front
        <4>2. \A i \in 1..(n - 1) : told[l][i] \in Words /\ told[l][i] = Script[i]
          BY <2>1
        <4>3. /\ SubSeq(told[l], 1, n - 1) \in Seq(Words)
              /\ Len(SubSeq(told[l], 1, n - 1)) = n - 1
              /\ \A i \in 1..(n - 1) : SubSeq(told[l], 1, n - 1)[i] = told[l][i]
          <5> HIDE DEF n
          <5> QED BY <2>1, <3>1, <4>2, SubSeqProperties
        <4> HIDE DEF said, n
        <4>4. said \in Seq(Words) /\ Len(said) = n - 1 /\ n \in 1..5
          BY <2>1, <3>1, <4>1, <4>3
        <4>5. \A i \in 1..(n - 1) : said[i] = Script[i]
          BY <4>1, <4>2, <4>3
        <4> QED BY <4>4, <4>5
      <3>2. CASE ~(n > 0 /\ Last(told[l]) = "error")
        <4>1. said = told[l]
          BY <3>2
        <4>2. \A i \in 1..n : told[l][i] = Script[i]
          BY <2>1, <3>2 DEF Last
        <4> HIDE DEF said
        <4>3. k = n
          BY <4>1
        <4> HIDE DEF k, n
        <4>4. k \in 0..5
          BY <2>1, <4>3
        <4> QED BY <2>1, <4>1, <4>2, <4>3, <4>4
      <3> QED BY <3>1, <3>2
    <2> HIDE DEF said
    <2>4. SubSeq(said, 1, k) = SubSeq(Script, 1, k)
      <3>1. /\ \A i \in 1..k : said[i] \in Words /\ Script[i] \in Words
            /\ k \in Nat
        BY <2>2, <2>3
      <3> DEFINE a == SubSeq(said, 1, k)
                 b == SubSeq(Script, 1, k)
      <3> HIDE DEF k
      <3>2. /\ a \in Seq(Words) /\ b \in Seq(Words) /\ Len(a) = k /\ Len(b) = k
            /\ \A i \in 1..k : a[i] = said[i] /\ b[i] = Script[i]
        BY <3>1, SubSeqProperties
      <3> HIDE DEF a, b
      <3>3. a = b
        BY <2>3, <3>2, SeqEqual DEF k
      <3> QED BY <3>3 DEF a, b
    <2>5. IsPrefix(said, Script)
      BY <2>2, <2>3, <2>4 DEF IsPrefix
    <2>6. ASSUME "ready" \in ToSet(said)
          PROVE  n = 5
      <3>1. PICK i \in 1..k : said[i] = "ready"
        BY <2>3, <2>6 DEF ToSet
      <3>2. i = 5
        BY <2>2, <2>3, <3>1
      <3> QED BY <2>1, <2>3, <3>1, <3>2
    <2> QED BY <2>5, <2>6 DEF said, Script
  <1>2. FlowInv => OneStartupSequence
    BY <1>1 DEF OneStartupSequence
  <1> QED BY <1>2, FlowInvariant, PTL

\* A refused login ends with an error to its client: no place that refuses
\* forgets it and nothing follows.  Only a login whose exchange fails in the
\* proxy or whose PostgreSQL has vanished ends without, the former before its
\* client was told anything (the returns of authenticateWithBackend).
THEOREM RefusalsAreTold == Spec => []RefusalIsTold
  <1>1. FlowInv => RefusalIsTold
    <2>1. ASSUME FlowInv, NEW l \in Logins
          PROVE  /\ at[l] = "out" => Last(told[l]) = "error" \/ waits[l] = "lost"
                 /\ at[l] = "dropped" => told[l] = <<"request">>
      <3>1. /\ told[l] \in Seq(Words) /\ SaidInv(l)
            /\ Script[1] = "request"
        BY <2>1 DEF FlowInv, LoginInv, Shape, Script
      <3>2. ASSUME at[l] = "dropped"
            PROVE  told[l] = <<"request">>
        <4> DEFINE t == told[l]
        <4>1. Len(t) = 1 /\ t[1] = "request" /\ t \in Seq(Words)
          BY <3>1, <3>2 DEF SaidInv
        <4> HIDE DEF t
        <4> QED BY <4>1 DEF t
      <3> QED BY <3>1, <3>2 DEF SaidInv, Last
    <2> QED BY <2>1 DEF RefusalIsTold
  <1> QED BY <1>1, FlowInvariant, PTL

\* AuthenticationOk reaches a client only when PostgreSQL let in the user its
\* password or the roles of its token stand for.
THEOREM OkIsEarned == Spec => []OkMeansAuthenticated
  <1>1. ASSUME FlowInv, NEW l \in Logins, "ok" \in ToSet(told[l]), at[l] \notin {"out", "gone"}
        PROVE  /\ accepted[l]
               /\ IsPassword(offer[l]) => pguser[l] = ClientUser
               /\ IsToken(offer[l]) => /\ offer[l].flaw = "none"
                                      /\ IsAccountOf(pguser[l], ExtractRoles(offer[l]))
    <2>1. PICK i \in 1..Len(told[l]) : told[l][i] = "ok"
      <3>1. told[l] \in Seq(Words)
        BY <1>1 DEF FlowInv, Shape
      <3>2. DOMAIN told[l] = 1..Len(told[l])
        BY <3>1
      <3> QED BY <1>1, <3>2 DEF ToSet
    <2>2. Script[1] = "request" /\ told[l][i] = Script[i] /\ Len(told[l]) \in Nat
      BY <1>1, <2>1 DEF FlowInv, Shape, LoginInv, SaidInv, Script
    <2>3. Len(told[l]) > 1
      BY <2>1, <2>2
    <2>4. at[l] \in Sessions
      <3>1. /\ SaidInv(l)
            /\ at[l] \in {"dial", "password", "token", "startup", "backend", "lease",
                         "in", "out", "dropped", "gone"}
        BY <1>1 DEF FlowInv, Shape, LoginInv
      <3> QED BY <1>1, <2>3, <3>1 DEF SaidInv, Sessions
    <2> QED BY <1>1, <2>3, <2>4 DEF FlowInv, LoginInv, AccountInv, Entitled
  <1>2. FlowInv => OkMeansAuthenticated
    BY <1>1 DEF OkMeansAuthenticated
  <1> QED BY <1>2, FlowInvariant, PTL

=============================================================================
