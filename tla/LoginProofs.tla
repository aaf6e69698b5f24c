---------------------------- MODULE LoginProofs ----------------------------
(***************************************************************************)
(* Machine-checked proofs about Login and Credentials, for any sets of     *)
(* processes, users, grants and callbacks.                                 *)
(***************************************************************************)
EXTENDS Login, TLAPS

-----------------------------------------------------------------------------
(* Types, and what a process that refreshes or saves has in memory *)

MemoryInv ==
    \A p \in Commands :
        /\ pc[p] = "ask" => /\ creds[p] \in Creds /\ Whole(creds[p])
                            /\ creds[p].refresh # None
        /\ pc[p] \in {"save", "write", "overlap"} => creds[p] \in Creds

TypeInv == TypeOK /\ MemoryInv

\* Nothing runs and nothing is saved.
LEMMA TypeInit == Init => TypeInv
  <1> SUFFICES ASSUME Init PROVE TypeInv
    OBVIOUS
  <1>1. CredTypeOK
    BY DEF Init, CredInit, CredTypeOK, Ended, Lives
  <1>2. MemoryInv
    BY DEF Init, CredInit, MemoryInv
  <1>3. TypeOK
    BY <1>1 DEF Init, TypeOK
  <1> QED
    BY <1>2, <1>3 DEF TypeInv

\* Errors are counted from nought to three.
LEMMA ErrorsBounded ==
    ASSUME NEW k \in Kinds
    PROVE  Errors(k) \in 0..3 /\ (Errors(k) = 0 <=> k = "good")
  BY DEF Errors, Kinds

\* Opening the file moves processes that save, and nobody else.
LEMMA OpeningPcs ==
    ASSUME CredTypeOK, NEW p \in Commands, Truncate(p)
    PROVE  /\ pc' \in [Commands -> Ended \cup Busy \cup
                          {"load", "reload", "present", "listen", "wait", "exchange"}]
           /\ \A q \in Commands : /\ pc'[q] = "ask" <=> pc[q] = "ask"
                                  /\ pc'[q] \in {"save", "write", "overlap"} =>
                                        pc[q] \in {"save", "write", "overlap"}
                                  /\ pc[q] \notin {"save", "write", "overlap"} => pc'[q] = pc[q]
  <1> USE DEF CredTypeOK, Busy, Ended
  <1>1. CASE pc' = [pc EXCEPT ![p] = AfterSave(p, FALSE)] /\ pc[p] = "save"
    <2>1. AfterSave(p, FALSE) \in {"present", "idle", "failed"}
      BY DEF AfterSave, Refreshed
    <2> QED
      BY <1>1, <2>1
  <1>2. ASSUME NEW open, \A q \in open : pc[q] \in {"save", "write", "overlap"},
               pc' = [q \in Commands |-> IF q \notin open THEN pc[q]
                                        ELSE IF open = {p} THEN "write" ELSE "overlap"]
        PROVE  /\ pc' \in [Commands -> Ended \cup Busy \cup
                              {"load", "reload", "present", "listen", "wait", "exchange"}]
               /\ \A q \in Commands : pc'[q] = pc[q] \/
                    (/\ pc[q] \in {"save", "write", "overlap"}
                     /\ pc'[q] \in {"write", "overlap"})
    <2>1. \A q \in Commands :
             pc'[q] = pc[q] \/ (q \in open /\ pc'[q] \in {"write", "overlap"})
      BY <1>2
    <2> QED
      BY <1>2, <2>1
  <1> QED
    BY <1>1, <1>2 DEF Truncate, Goto

\* Every step keeps the types.
LEMMA TypeStep == TypeInv /\ [Next]_vars => TypeInv'
  <1> SUFFICES ASSUME TypeInv, [Next]_vars PROVE TypeInv'
    OBVIOUS
  <1> USE CredentialsAssumption
      DEF TypeInv, TypeOK, CredTypeOK, MemoryInv, Ended, Busy, Goto, Keep, fileVars,
          tokenVars, serverVars, Whole, Serves, Gone
  <1>1. ASSUME NEW p \in Commands, Start(p), UNCHANGED serverVars PROVE TypeInv'
    BY <1>1 DEF Start
  <1>2. ASSUME NEW p \in Commands, Load(p), Serves(p) PROVE TypeInv'
    BY <1>2 DEF Load, Refreshed, RefreshFailed
  <1>3. ASSUME NEW p \in Commands, Reload(p), Serves(p) PROVE TypeInv'
    <2>1. /\ \/ /\ Whole(file) /\ file.refresh # None
                /\ pc' = [pc EXCEPT ![p] = "ask"]
                /\ creds' = [creds EXCEPT ![p] = file]
             \/ /\ pc' = [pc EXCEPT ![p] = RefreshFailed(p)]
                /\ creds' = [creds EXCEPT ![p] = None]
          /\ mishap' \in BOOLEAN
          /\ UNCHANGED <<cmd, file, left, owner, root, valid>>
      BY <1>3 DEF Reload
    <2>2. MemoryInv'
      BY <2>1 DEF RefreshFailed
    <2>3. CredTypeOK'
      BY <2>1 DEF RefreshFailed
    <2> QED
      BY <1>3, <2>2, <2>3
  <1>4. ASSUME NEW p \in Commands, Ask(p), Serves(p) PROVE TypeInv'
    <2>1. PICK g \in Grants, arrives \in BOOLEAN, rotates \in BOOLEAN :
              /\ owner' = [owner EXCEPT ![g] = owner[creds[p].refresh]]
              /\ root' = [root EXCEPT ![g] = root[creds[p].refresh]]
              /\ valid' = IF rotates THEN (valid \ {creds[p].refresh}) \cup {g} ELSE valid
              /\ pc' = [pc EXCEPT ![p] = IF arrives THEN "save" ELSE RefreshFailed(p)]
              /\ creds' = [creds EXCEPT ![p] =
                     IF arrives THEN NewCreds(creds[p], g, rotates) ELSE None]
              /\ mishap' = (mishap \/ ~arrives)
      BY <1>4 DEF Ask, Issue, Rotate
    <2>2. /\ pc[p] = "ask" /\ creds[p] \in Creds /\ creds[p].refresh \in Grants
          /\ UNCHANGED <<cmd, file, left>>
      BY <1>4 DEF Ask
    <2>3. NewCreds(creds[p], g, rotates) \in Creds
      BY <2>2 DEF NewCreds, Creds
    <2>4. /\ owner' \in [Grants -> Users \cup {None}] /\ root' \in [Grants -> Grants]
          /\ valid' \subseteq Grants
      BY <2>1, <2>2
    <2>5. CredTypeOK'
      BY <2>1, <2>2, <2>3, <2>4 DEF RefreshFailed
    <2>6. MemoryInv'
      BY <2>1, <2>2, <2>3 DEF RefreshFailed
    <2> QED
      BY <1>4, <2>5, <2>6
  <1>5. ASSUME NEW p \in Commands, Refused(p), Serves(p) PROVE TypeInv'
    <2>1. /\ pc' = [pc EXCEPT ![p] = RefreshFailed(p)]
          /\ creds' = [creds EXCEPT ![p] = None]
          /\ mishap' \in BOOLEAN
          /\ UNCHANGED <<cmd, file, left, owner, root>>
      BY <1>5 DEF Refused
    <2>2. valid' \subseteq Grants
      BY <1>5 DEF Refused
    <2>3. MemoryInv'
      BY <2>1 DEF RefreshFailed
    <2> QED
      BY <1>5, <2>1, <2>2, <2>3 DEF RefreshFailed
  <1>6. ASSUME NEW p \in Commands, NotAsked(p), Serves(p) PROVE TypeInv'
    BY <1>6 DEF NotAsked, RefreshFailed
  <1>7. ASSUME NEW p \in Commands, Truncate(p), Serves(p) PROVE TypeInv'
    <2>1. /\ pc' \in [Commands -> Ended \cup Busy \cup
                          {"load", "reload", "present", "listen", "wait", "exchange"}]
          /\ \A q \in Commands : /\ pc'[q] = "ask" => pc[q] = "ask"
                                 /\ pc'[q] \in {"save", "write", "overlap"} =>
                                        pc[q] \in {"save", "write", "overlap"}
      BY <1>7, OpeningPcs
    <2>2. /\ creds' \in [Commands -> Creds \cup {None}]
          /\ \A q \in Commands : pc'[q] \notin Ended => creds'[q] = creds[q]
      BY <1>7 DEF Truncate, Forget
    <2>3. MemoryInv'
      BY <2>1, <2>2
    <2>4. file' \in Creds \cup {None, Torn} /\ left' \in Lives /\ mishap' \in BOOLEAN
      BY <1>7 DEF Truncate, Lives
    <2>5. cmd' = cmd /\ UNCHANGED <<owner, root, valid>>
      BY <1>7 DEF Truncate
    <2>6. CredTypeOK'
      BY <2>1, <2>2, <2>4, <2>5
    <2> QED
      BY <1>7, <2>3, <2>6
  <1>8. ASSUME NEW p \in Commands, Write(p), Serves(p) PROVE TypeInv'
    <2>1. PICK ok \in BOOLEAN :
              /\ pc' = [pc EXCEPT ![p] = AfterSave(p, ok)]
              /\ file' \in Outcomes(creds[p], pc[p] = "write", ok)
              /\ mishap' \in BOOLEAN
      BY <1>8 DEF Write
    <2>2. AfterSave(p, ok) \in {"present", "idle", "failed"}
      BY DEF AfterSave, Refreshed
    <2>3. creds[p] \in Creds
      BY <1>8 DEF Write
    <2>4. Whole(file) => Mixes(creds[p], file) \subseteq Creds
      BY <2>3 DEF Mixes, Creds
    <2>5. file' \in Creds \cup {None, Torn}
      BY <2>1, <2>3, <2>4 DEF Outcomes
    <2>6. creds' = [creds EXCEPT ![p] = IF pc'[p] \in Ended THEN None ELSE creds[p]]
      BY <1>8 DEF Write, Forget
    <2>7. MemoryInv'
      BY <2>1, <2>2, <2>6
    <2> QED
      BY <1>8, <2>1, <2>2, <2>5, <2>6, <2>7 DEF Write, Lives
  <1>9. ASSUME NEW p \in Commands, Present(p), Serves(p) PROVE TypeInv'
    BY <1>9 DEF Present, Forget
  <1>10. ASSUME NEW p \in Commands, NotConfigured(p) PROVE TypeInv'
    BY <1>10 DEF NotConfigured
  <1>11. ASSUME NEW p \in Commands, Listen(p) PROVE TypeInv'
    BY <1>11 DEF Listen
  <1>12. ASSUME NEW p \in Commands, Timeout(p) PROVE TypeInv'
    BY <1>12 DEF Timeout, Return, credVars
  <1>13. ASSUME NEW p \in Commands, TakeCode(p) PROVE TypeInv'
    BY <1>13 DEF TakeCode
  <1>14. ASSUME NEW p \in Commands, Exchange(p) PROVE TypeInv'
    BY <1>14 DEF Exchange, Issue, Creds
  <1>15. ASSUME NEW p \in Commands, ExchangeFails(p) PROVE TypeInv'
    BY <1>15 DEF ExchangeFails
  <1>16. ASSUME NEW r \in Requests, SendError(r) PROVE TypeInv'
    BY <1>16 DEF SendError, Return, credVars
  <1>17. ASSUME NEW r \in Requests, SendCode(r) PROVE TypeInv'
    BY <1>17 DEF SendCode, Return, credVars
  <1>18. ASSUME NEW r \in Requests, Callback(r) PROVE TypeInv'
    <2>1. PICK k \in Kinds :
              req' = [req EXCEPT ![r] = [on |-> port, kind |-> k, errs |-> Errors(k)]]
      BY <1>18 DEF Callback
    <2>2. port \in Commands /\ Errors(k) \in 0..3
      BY <1>18, ErrorsBounded DEF Callback
    <2> QED
      BY <1>18, <2>1, <2>2 DEF Callback, credVars
  <1>19. ASSUME NEW p \in Commands, Exit(p) PROVE TypeInv'
    BY <1>19 DEF Exit
  <1>20. CASE Age /\ UNCHANGED serverVars
    BY <1>20 DEF Age, Lives
  <1>21. ASSUME NEW p \in Commands, Select(p) PROVE TypeInv'
    BY <1>21 DEF Select, credVars
  <1>22. CASE UNCHANGED vars
    BY <1>22 DEF vars, credVars
  <1> QED
    BY <1>1, <1>2, <1>3, <1>4, <1>5, <1>6, <1>7, <1>8, <1>9, <1>10, <1>11, <1>12, <1>13,
       <1>14, <1>15, <1>16, <1>17, <1>18, <1>19, <1>20, <1>21, <1>22
       DEF Next, Process, Handler, Environment, CredStep

\* The commands, the credentials file, the issuer and the callback servers
\* always have values of the declared kinds.
THEOREM LoginTyped == Spec => []TypeOK
  <1>1. TypeInv => TypeOK
    BY DEF TypeInv
  <1> QED
    BY <1>1, TypeInit, TypeStep, PTL DEF Spec

-----------------------------------------------------------------------------
(* The callback server *)

\* One process at a time has a server; while its select waits the handlers
\* have still to send every error of their request, and a code is taken from
\* a request without errors.
FlowInv ==
    /\ \A p \in Commands :
        /\ pc[p] \in Ended \cup {"load", "reload", "ask", "listen"} => srv[p] = "off"
        /\ srv[p] \in {"starting", "select"} => port = p /\ pc[p] = "wait"
        /\ srv[p] = "code" => got[p] = "good"
        /\ pc[p] = "exchange" => srv[p] = "code"
    /\ \A r \in Requests : req[r] # None =>
        /\ srv[req[r].on] # "off"
        /\ srv[req[r].on] \in {"starting", "select"} => req[r].errs = Errors(req[r].kind)
    /\ PortFreed

\* Every step keeps servers, handlers and processes together.
LEMMA FlowStep == TypeInv /\ FlowInv /\ [Next]_vars => FlowInv'
  <1> SUFFICES ASSUME TypeInv, FlowInv, [Next]_vars PROVE FlowInv'
    OBVIOUS
  <1> USE CredentialsAssumption, ErrorsBounded
      DEF TypeInv, TypeOK, CredTypeOK, FlowInv, PortFreed, Ended, Busy, Goto, Keep,
          serverVars, Serves, Gone
  <1>1. ASSUME NEW p \in Commands, Start(p), UNCHANGED serverVars PROVE FlowInv'
    BY <1>1 DEF Start
  <1>2. ASSUME NEW p \in Commands, Load(p), Serves(p) PROVE FlowInv'
    BY <1>2 DEF Load, Refreshed, RefreshFailed
  <1>3. ASSUME NEW p \in Commands, Reload(p), Serves(p) PROVE FlowInv'
    BY <1>3 DEF Reload, RefreshFailed
  <1>4. ASSUME NEW p \in Commands, Ask(p), Serves(p) PROVE FlowInv'
    BY <1>4 DEF Ask, RefreshFailed
  <1>5. ASSUME NEW p \in Commands, Refused(p), Serves(p) PROVE FlowInv'
    BY <1>5 DEF Refused, RefreshFailed
  <1>6. ASSUME NEW p \in Commands, NotAsked(p), Serves(p) PROVE FlowInv'
    BY <1>6 DEF NotAsked, RefreshFailed
  <1>7. ASSUME NEW p \in Commands, Truncate(p), Serves(p) PROVE FlowInv'
    BY <1>7 DEF Truncate, Forget, AfterSave, Refreshed
  <1>8. ASSUME NEW p \in Commands, Write(p), Serves(p) PROVE FlowInv'
    BY <1>8 DEF Write, Outcomes, Mixes, Forget, AfterSave, Refreshed
  <1>9. ASSUME NEW p \in Commands, Present(p), Serves(p) PROVE FlowInv'
    BY <1>9 DEF Present, Forget
  <1>10. ASSUME NEW p \in Commands, NotConfigured(p) PROVE FlowInv'
    BY <1>10 DEF NotConfigured
  <1>11. ASSUME NEW p \in Commands, Listen(p) PROVE FlowInv'
    BY <1>11 DEF Listen
  <1>12. ASSUME NEW p \in Commands, Timeout(p) PROVE FlowInv'
    BY <1>12 DEF Timeout, Return, credVars
  <1>13. ASSUME NEW p \in Commands, TakeCode(p) PROVE FlowInv'
    BY <1>13 DEF TakeCode
  <1>14. ASSUME NEW p \in Commands, Exchange(p) PROVE FlowInv'
    BY <1>14 DEF Exchange
  <1>15. ASSUME NEW p \in Commands, ExchangeFails(p) PROVE FlowInv'
    BY <1>15 DEF ExchangeFails
  <1>16. ASSUME NEW r \in Requests, SendError(r) PROVE FlowInv'
    BY <1>16 DEF SendError, Return, credVars
  <1>17. ASSUME NEW r \in Requests, SendCode(r) PROVE FlowInv'
    BY <1>17 DEF SendCode, Return, credVars
  <1>18. ASSUME NEW r \in Requests, Callback(r) PROVE FlowInv'
    BY <1>18 DEF Callback, credVars
  <1>19. ASSUME NEW p \in Commands, Exit(p) PROVE FlowInv'
    BY <1>19 DEF Exit
  <1>20. CASE Age /\ UNCHANGED serverVars
    BY <1>20 DEF Age
  <1>21. ASSUME NEW p \in Commands, Select(p) PROVE FlowInv'
    BY <1>21 DEF Select, credVars
  <1>22. CASE UNCHANGED vars
    BY <1>22 DEF vars, credVars
  <1> QED
    BY <1>1, <1>2, <1>3, <1>4, <1>5, <1>6, <1>7, <1>8, <1>9, <1>10, <1>11, <1>12, <1>13,
       <1>14, <1>15, <1>16, <1>17, <1>18, <1>19, <1>20, <1>21, <1>22
       DEF Next, Process, Handler, Environment, CredStep

\* No server runs before the first login.
LEMMA FlowInit == Init => FlowInv
  BY CredentialsAssumption DEF Init, CredInit, FlowInv, PortFreed

\* The handler goes on after each error to the line that hands over the code
\* (login.go:191-235), beside other handlers: the code the login exchanges has
\* passed all tests.
THEOREM CodesAreGood == Spec => []AcceptedCodeIsGood
  <1>1. TypeInv /\ FlowInv => AcceptedCodeIsGood
    BY DEF FlowInv, AcceptedCodeIsGood
  <1> QED
    BY <1>1, TypeInit, TypeStep, FlowInit, FlowStep, PTL DEF Spec

\* Only a login whose select still waits holds the port (login.go:250-275).
THEOREM PortIsFreed == Spec => []PortFreed
  <1>1. FlowInv => PortFreed
    BY DEF FlowInv
  <1> QED
    BY <1>1, TypeInit, TypeStep, FlowInit, FlowStep, PTL DEF Spec

-----------------------------------------------------------------------------
(* Whose tokens the credentials hold *)

\* A grant is made once, so what is known of it does not change.
LEMMA IdentityStep == TypeInv /\ IdentityMatchesToken /\ [Next]_vars => IdentityMatchesToken'
  <1> SUFFICES ASSUME TypeInv, IdentityMatchesToken, [Next]_vars PROVE IdentityMatchesToken'
    OBVIOUS
  <1> USE CredentialsAssumption
      DEF TypeInv, TypeOK, CredTypeOK, MemoryInv, IdentityMatchesToken, Matched, Whole, Creds,
          Goto, Keep, fileVars, tokenVars
  <1>1. ASSUME NEW p \in Commands, Start(p), UNCHANGED serverVars PROVE IdentityMatchesToken'
    BY <1>1 DEF Start
  <1>2. ASSUME NEW p \in Commands, Load(p), Serves(p) PROVE IdentityMatchesToken'
    BY <1>2 DEF Load
  <1>3. ASSUME NEW p \in Commands, Reload(p), Serves(p) PROVE IdentityMatchesToken'
    BY <1>3 DEF Reload
  <1>4. ASSUME NEW p \in Commands, Ask(p), Serves(p) PROVE IdentityMatchesToken'
    BY <1>4 DEF Ask, Issue, NewCreds
  <1>5. ASSUME NEW p \in Commands, Refused(p), Serves(p) PROVE IdentityMatchesToken'
    BY <1>5 DEF Refused
  <1>6. ASSUME NEW p \in Commands, NotAsked(p), Serves(p) PROVE IdentityMatchesToken'
    BY <1>6 DEF NotAsked
  <1>7. ASSUME NEW p \in Commands, Truncate(p), Serves(p) PROVE IdentityMatchesToken'
    BY <1>7 DEF Truncate, Forget
  <1>8. ASSUME NEW p \in Commands, Write(p), Serves(p) PROVE IdentityMatchesToken'
    BY <1>8 DEF Write, Outcomes, Mixes, Forget
  <1>9. ASSUME NEW p \in Commands, Present(p), Serves(p) PROVE IdentityMatchesToken'
    BY <1>9 DEF Present, Forget
  <1>10. ASSUME NEW p \in Commands, NotConfigured(p) PROVE IdentityMatchesToken'
    BY <1>10 DEF NotConfigured
  <1>11. ASSUME NEW p \in Commands, Listen(p) PROVE IdentityMatchesToken'
    BY <1>11 DEF Listen
  <1>12. ASSUME NEW p \in Commands, Timeout(p) PROVE IdentityMatchesToken'
    BY <1>12 DEF Timeout, credVars
  <1>13. ASSUME NEW p \in Commands, TakeCode(p) PROVE IdentityMatchesToken'
    BY <1>13 DEF TakeCode
  <1>14. ASSUME NEW p \in Commands, Exchange(p) PROVE IdentityMatchesToken'
    BY <1>14 DEF Exchange, Issue
  <1>15. ASSUME NEW p \in Commands, ExchangeFails(p) PROVE IdentityMatchesToken'
    BY <1>15 DEF ExchangeFails
  <1>16. ASSUME NEW r \in Requests, SendError(r) PROVE IdentityMatchesToken'
    BY <1>16 DEF SendError, credVars
  <1>17. ASSUME NEW r \in Requests, SendCode(r) PROVE IdentityMatchesToken'
    BY <1>17 DEF SendCode, credVars
  <1>18. ASSUME NEW r \in Requests, Callback(r) PROVE IdentityMatchesToken'
    BY <1>18 DEF Callback, credVars
  <1>19. ASSUME NEW p \in Commands, Exit(p) PROVE IdentityMatchesToken'
    BY <1>19 DEF Exit
  <1>20. CASE Age /\ UNCHANGED serverVars
    BY <1>20 DEF Age
  <1>21. ASSUME NEW p \in Commands, Select(p) PROVE IdentityMatchesToken'
    BY <1>21 DEF Select, credVars
  <1>22. CASE UNCHANGED vars
    BY <1>22 DEF vars, credVars
  <1> QED
    BY <1>1, <1>2, <1>3, <1>4, <1>5, <1>6, <1>7, <1>8, <1>9, <1>10, <1>11, <1>12, <1>13,
       <1>14, <1>15, <1>16, <1>17, <1>18, <1>19, <1>20, <1>21, <1>22
       DEF Next, Process, Handler, Environment, CredStep

\* Credentials name the user their access token was granted to, and the refresh
\* token, if any, is the one that came with it, however commands interleave
\* (loginStatus.go:242-253).
THEOREM IdentityIsKept == Spec => []IdentityMatchesToken
  <1>1. Init => IdentityMatchesToken
    BY DEF Init, CredInit, IdentityMatchesToken, Matched, Whole
  <1> QED
    BY <1>1, TypeInit, TypeStep, IdentityStep, PTL DEF Spec

-----------------------------------------------------------------------------
(* Rotation of the refresh token *)

\* A token that is good was granted, and a grant descends from one of a login.
GrantInv ==
    /\ \A g \in Grants : owner[g] # None => owner[root[g]] # None
    /\ \A g \in valid : owner[g] # None

\* A grant is made once, and what it descends from does not change.
LEMMA GrantStep == TypeInv /\ GrantInv /\ [Next]_vars => GrantInv'
  <1> SUFFICES ASSUME TypeInv, GrantInv, [Next]_vars PROVE GrantInv'
    OBVIOUS
  <1>1. ASSUME UNCHANGED <<owner, root>>, valid' \subseteq valid
        PROVE  GrantInv'
    BY <1>1 DEF GrantInv
  <1>2. ASSUME NEW g \in Grants, NEW u \in Users, Issue(g, u, g), valid' = valid \cup {g}
        PROVE  GrantInv'
    BY <1>2, CredentialsAssumption DEF TypeInv, TypeOK, CredTypeOK, GrantInv, Issue
  <1>3. ASSUME NEW g \in Grants, NEW r \in valid, NEW rotates \in Rotations,
               Issue(g, owner[r], root[r]), Rotate(r, g, rotates)
        PROVE  GrantInv'
    BY <1>3, CredentialsAssumption DEF TypeInv, TypeOK, CredTypeOK, GrantInv, Issue, Rotate
  <1>4. ASSUME NEW p \in Commands, CredStep(p) PROVE GrantInv'
    BY <1>1, <1>3, <1>4 DEF CredStep, Load, Reload, Ask, Refused, NotAsked, Truncate, Write,
                            Present, tokenVars
  <1>5. ASSUME NEW p \in Commands, Process(p) PROVE GrantInv'
    BY <1>1, <1>2, <1>4, <1>5 DEF Process, NotConfigured, Listen, Select, Timeout, TakeCode,
                                  Exchange, ExchangeFails, tokenVars, credVars
  <1>6. CASE Environment \/ (\E r \in Requests : Handler(r)) \/ UNCHANGED vars
    BY <1>1, <1>6 DEF Environment, Start, Exit, Callback, Age, Handler, SendError, SendCode,
                      tokenVars, credVars, vars
  <1> QED
    BY <1>5, <1>6 DEF Next

\* A process between its grant and the end of its save.
Saving(p) == pc[p] \in {"save", "write", "overlap"}

\* The refresh token of c is accepted, or the refresh brought none.
Kept(c) ==
    \/ c.refresh \in valid
    \/ c.refresh = None /\ FALSE \in Rotations /\ root[c.token] # c.token

\* Until something is lost nothing has the bytes of two saves; a process that
\* asks has a token the issuer accepts, and asks alone; one that saves has one
\* nobody asks with; and unless somebody saves, the one on disk is accepted.
RotationInv == ~mishap =>
    /\ \A p, q \in Commands : pc[p] = "ask" /\ pc[q] = "ask" => p = q
    /\ \A p \in Commands : pc[p] = "ask" => creds[p].refresh \in valid
    /\ \A p \in Commands : Saving(p) => Kept(creds[p])
    /\ \A p, q \in Commands :
        pc[p] = "ask" /\ Saving(q) => creds[p].refresh # creds[q].refresh
    /\ \A p \in Commands : pc[p] = "ask" \/ Saving(p) => creds[p].user # Torn
    /\ Whole(file) => file.user # Torn
    /\ Whole(file) /\ (\A p \in Commands : ~Saving(p)) => Kept(file)

\* What happens to servers, requests and time has no part in it.
LEMMA OutsideRotation ==
    ASSUME RotationInv, UNCHANGED <<pc, creds, file, valid, root, mishap>>
    PROVE  RotationInv'
  BY DEF RotationInv, Kept, Saving, Whole

\* Nor has a process that neither saves, before or after, nor begins to ask.
LEMMA LeavesRotation ==
    ASSUME RotationInv, ~mishap, UNCHANGED <<file, valid, root>>,
           NEW p \in Commands, ~Saving(p), pc'[p] \notin Busy,
           \A q \in Commands \ {p} : pc'[q] = pc[q] /\ creds'[q] = creds[q]
    PROVE  RotationInv'
  <1>1. \A q \in Commands : Saving(q) <=> Saving(q)'
    BY DEF Saving, Busy
  <1>2. \A q \in Commands :
            pc'[q] = "ask" \/ Saving(q)' => creds'[q] = creds[q] /\ (pc'[q] = "ask" => pc[q] = "ask")
    BY <1>1 DEF Saving, Busy
  <1>3. /\ \A q, r \in Commands : pc'[q] = "ask" /\ pc'[r] = "ask" => q = r
        /\ \A q \in Commands : pc'[q] = "ask" => creds'[q].refresh \in valid'
    BY <1>2 DEF RotationInv
  <1>6. ASSUME NEW q \in Commands, Saving(q)'
        PROVE  Kept(creds[q])'
    <2>1. creds'[q] = creds[q] /\ Kept(creds[q])
      BY <1>1, <1>2, <1>6 DEF RotationInv
    <2> QED
      BY <2>1 DEF Kept
  <1>7. \A q \in Commands : pc'[q] = "ask" \/ Saving(q)' => creds'[q].user # Torn
    BY <1>1, <1>2 DEF RotationInv
  <1>4. \A q, r \in Commands :
            pc'[q] = "ask" /\ Saving(r)' => creds'[q].refresh # creds'[r].refresh
    BY <1>1, <1>2 DEF RotationInv
  <1>5. /\ Whole(file)' => file'.user # Torn
        /\ Whole(file)' /\ (\A q \in Commands : ~Saving(q)') => Kept(file)'
    BY <1>1 DEF RotationInv, Whole, Kept
  <1> QED
    BY <1>3, <1>4, <1>5, <1>6, <1>7 DEF RotationInv

\* A refresh begins when nobody else is busy.
LEMMA ReloadRotates ==
    ASSUME TypeInv, RotationInv, ~mishap', NEW p \in Commands, Reload(p)
    PROVE  RotationInv'
  <1>1. /\ ~mishap /\ pc[p] = "reload" /\ UNCHANGED <<file, valid, root>>
        /\ \A q \in Commands \ {p} : pc'[q] = pc[q] /\ creds'[q] = creds[q]
    BY DEF TypeInv, TypeOK, CredTypeOK, Reload, Goto, Keep, fileVars, tokenVars
  <1>2. CASE Whole(file) /\ file.refresh # None
    <2>1. /\ \A q \in Commands : pc[q] \notin Busy
          /\ pc'[p] = "ask" /\ creds'[p] = file
      BY <1>2 DEF Reload, Goto, Keep, TypeInv, TypeOK, CredTypeOK
    <2>2. file.refresh \in valid /\ file.user # Torn
      BY <1>1, <1>2, <2>1 DEF RotationInv, Kept, Saving, Busy
    <2>3. \A q \in Commands : ~Saving(q)' /\ (pc'[q] = "ask" => q = p)
      BY <1>1, <2>1 DEF Saving, Busy
    <2>4. Whole(file)' => file'.user # Torn /\ Kept(file)'
      BY <1>1, <2>2 DEF Kept
    <2> QED
      BY <1>1, <2>1, <2>2, <2>3, <2>4 DEF RotationInv
  <1>3. CASE ~(Whole(file) /\ file.refresh # None)
    <2>1. pc'[p] \notin Busy /\ ~Saving(p)
      BY <1>1, <1>3 DEF Reload, Goto, RefreshFailed, Busy, Saving, TypeInv, TypeOK, CredTypeOK
    <2> QED
      BY <1>1, <2>1, LeavesRotation
  <1> QED
    BY <1>2, <1>3

\* A refresh is granted: its token is gone, or not, and nobody else has it.
LEMMA AskRotates ==
    ASSUME TypeInv, IdentityMatchesToken, GrantInv, RotationInv, ~mishap',
           NEW p \in Commands, Ask(p)
    PROVE  RotationInv'
  <1> USE CredentialsAssumption DEF TypeInv, TypeOK, CredTypeOK
  <1> DEFINE used == creds[p].refresh
  <1>1. PICK g \in Grants, rotates \in Rotations :
            /\ Issue(g, owner[used], root[used])
            /\ Rotate(used, g, rotates)
            /\ pc' = [pc EXCEPT ![p] = "save"]
            /\ creds' = [creds EXCEPT ![p] = NewCreds(creds[p], g, rotates)]
    BY DEF Ask, Goto, Keep
  <1>2. /\ ~mishap /\ pc[p] = "ask" /\ used \in valid /\ file' = file
        /\ rotates \in BOOLEAN /\ creds[p].user # Torn
    BY DEF Ask, fileVars, RotationInv
  <1>3. /\ root' = [root EXCEPT ![g] = root[used]] /\ root'[g] # g
        /\ valid' = IF rotates THEN (valid \ {used}) \cup {g} ELSE valid
    BY <1>1, <1>2 DEF Issue, Rotate, GrantInv
  <1>4. \A q \in Commands \ {p} : pc'[q] = pc[q] /\ creds'[q] = creds[q] /\ pc[q] # "ask"
    BY <1>1, <1>2 DEF RotationInv
  <1>5. /\ pc'[p] = "save" /\ creds'[p].token = g /\ creds'[p].user = creds[p].user
        /\ creds'[p].refresh = IF rotates THEN g ELSE None
    <2>1. creds'[p] = NewCreds(creds[p], g, rotates)
      BY <1>1
    <2> QED
      BY <1>1, <2>1 DEF NewCreds
  <1>6. Kept(creds[p])'
    BY <1>2, <1>3, <1>5 DEF Kept
  <1>7. ASSUME NEW c, Kept(c), c.refresh # used, owner[c.token] # None
        PROVE  c.refresh \in valid' \/ (c.refresh = None /\ FALSE \in Rotations /\ root'[c.token] # c.token)
    <2>1. c.token # g
      BY <1>1, <1>7 DEF Issue
    <2>2. root'[c.token] = root[c.token]
      BY <1>3, <2>1
    <2> QED
      BY <1>3, <1>7, <2>2 DEF Kept
  <1>8. \A q \in Commands \ {p} : Saving(q) => Kept(creds[q])'
    <2>1. ASSUME NEW q \in Commands \ {p}, Saving(q)
          PROVE  Kept(creds[q])'
      <3>1. creds[q] \in Creds /\ Whole(creds[q]) /\ creds[q].user # Torn
        BY <1>2, <2>1 DEF Saving, MemoryInv, RotationInv, Whole
      <3>2. owner[creds[q].token] # None /\ creds[q].refresh # used /\ Kept(creds[q])
        BY <1>2, <2>1, <3>1 DEF IdentityMatchesToken, Matched, RotationInv
      <3> QED
        BY <1>4, <1>7, <3>2 DEF Kept
    <2> QED
      BY <2>1
  <1>9. \A q \in Commands : pc'[q] # "ask" /\ (q # p => (Saving(q)' <=> Saving(q))) /\ Saving(p)'
    BY <1>4, <1>5 DEF Saving
  <1>10. \A q \in Commands : Saving(q)' => Kept(creds[q])' /\ creds'[q].user # Torn
    BY <1>2, <1>4, <1>5, <1>6, <1>8, <1>9 DEF RotationInv
  <1>11. Whole(file)' => file'.user # Torn
    BY <1>2 DEF RotationInv, Whole
  <1> QED
    BY <1>9, <1>10, <1>11 DEF RotationInv

\* A login has a token that nobody had before.
LEMMA ExchangeRotates ==
    ASSUME TypeInv, IdentityMatchesToken, GrantInv, RotationInv, ~mishap',
           NEW p \in Commands, Exchange(p)
    PROVE  RotationInv'
  <1> USE CredentialsAssumption DEF TypeInv, TypeOK, CredTypeOK
  <1>1. PICK g \in Grants, u \in Users, parsed \in BOOLEAN :
            /\ Issue(g, u, g)
            /\ valid' = valid \cup {g}
            /\ creds' = [creds EXCEPT ![p] =
                   [token |-> g, refresh |-> g, user |-> IF parsed THEN u ELSE None]]
    BY DEF Exchange, Keep
  <1>2. ~mishap /\ pc[p] = "exchange" /\ pc' = [pc EXCEPT ![p] = "save"] /\ file' = file
    BY DEF Exchange, Goto, fileVars
  <1>3. owner[g] = None /\ root' = [root EXCEPT ![g] = g]
    BY <1>1 DEF Issue
  <1>4. \A q \in Commands \ {p} : pc'[q] = pc[q] /\ creds'[q] = creds[q]
    BY <1>1, <1>2
  <1>5. pc'[p] = "save" /\ creds'[p].refresh = g /\ creds'[p].user # Torn
    <2>1. creds'[p] = [token |-> g, refresh |-> g, user |-> IF parsed THEN u ELSE None]
      BY <1>1
    <2> QED
      BY <1>2, <2>1
  <1>6. ASSUME NEW c, Kept(c), owner[c.token] # None
        PROVE  \/ c.refresh \in valid'
               \/ c.refresh = None /\ FALSE \in Rotations /\ root'[c.token] # c.token
    <2>1. root'[c.token] = root[c.token]
      BY <1>3, <1>6
    <2> QED
      BY <1>1, <1>6, <2>1 DEF Kept
  <1>7. ASSUME NEW q \in Commands \ {p}, Saving(q)
        PROVE  Kept(creds[q])'
    <2>1. creds[q] \in Creds /\ Whole(creds[q]) /\ creds[q].user # Torn
      BY <1>2, <1>7 DEF Saving, MemoryInv, RotationInv, Whole
    <2>2. owner[creds[q].token] # None /\ Kept(creds[q])
      BY <1>2, <1>7, <2>1 DEF IdentityMatchesToken, Matched, RotationInv
    <2> QED
      BY <1>4, <1>6, <2>2 DEF Kept
  <1>8. \A q \in Commands : Saving(q)' => Kept(creds[q])' /\ creds'[q].user # Torn
    BY <1>1, <1>2, <1>4, <1>5, <1>7 DEF RotationInv, Kept, Saving
  <1>9. ASSUME NEW q \in Commands, pc'[q] = "ask"
        PROVE  /\ pc[q] = "ask" /\ q # p /\ creds'[q] = creds[q] /\ creds'[q].refresh \in valid'
               /\ creds'[q].refresh # g /\ creds'[q].user # Torn
    <2>1. pc[q] = "ask" /\ q # p /\ creds'[q] = creds[q]
      BY <1>2, <1>4, <1>9
    <2>2. creds[q].refresh \in valid /\ creds[q].user # Torn
      BY <1>2, <2>1 DEF RotationInv
    <2> QED
      BY <1>1, <1>3, <2>1, <2>2 DEF GrantInv
  <1>10. \A q, r \in Commands :
            pc'[q] = "ask" /\ Saving(r)' => creds'[q].refresh # creds'[r].refresh
    BY <1>2, <1>4, <1>5, <1>9 DEF RotationInv, Saving
  <1>11. Whole(file)' => file'.user # Torn
    BY <1>2 DEF RotationInv, Whole
  <1>12. \A q, r \in Commands : pc'[q] = "ask" /\ pc'[r] = "ask" => q = r
    BY <1>2, <1>9 DEF RotationInv
  <1>13. Saving(p)'
    BY <1>5 DEF Saving
  <1> QED
    BY <1>8, <1>9, <1>10, <1>11, <1>12, <1>13 DEF RotationInv

\* A file is opened, which nobody reads while somebody saves.
LEMMA TruncateRotates ==
    ASSUME TypeInv, RotationInv, ~mishap', NEW p \in Commands, Truncate(p)
    PROVE  RotationInv'
  <1>1. ~mishap /\ file' = Torn /\ UNCHANGED <<valid, root>>
    <2>1. file' = Torn /\ mishap' = mishap
      BY Zenon DEF Truncate
    <2>2. UNCHANGED tokenVars
      BY Zenon DEF Truncate
    <2> QED
      BY <2>1, <2>2 DEF tokenVars
  <1>2. \A q \in Commands :
            /\ pc'[q] = "ask" => pc[q] = "ask"
            /\ Saving(q)' => Saving(q)
    BY OpeningPcs DEF Saving, TypeInv, TypeOK
  <1>3. \A q \in Commands : pc'[q] = "ask" \/ Saving(q)' => creds'[q] = creds[q]
    BY DEF Truncate, Forget, Keep, Ended, Saving, TypeInv, TypeOK, CredTypeOK
  <1>4. ~Whole(file)'
    BY <1>1 DEF Whole
  <1>5. \A q \in Commands : Saving(q)' => Kept(creds[q])'
    BY <1>1, <1>2, <1>3 DEF RotationInv, Kept, Saving
  <1>6. ASSUME NEW q \in Commands, pc'[q] = "ask" \/ Saving(q)'
        PROVE  /\ (pc[q] = "ask" \/ Saving(q)) /\ creds'[q] = creds[q]
               /\ creds[q].user # Torn
    <2>1. (pc[q] = "ask" \/ Saving(q)) /\ creds'[q] = creds[q]
      BY <1>2, <1>3, <1>6
    <2>2. creds[q].user # Torn
      BY <1>1, <2>1 DEF RotationInv
    <2> QED
      BY <2>1, <2>2
  <1>7. ASSUME NEW q \in Commands, pc'[q] = "ask"
        PROVE  creds'[q].refresh \in valid'
    <2>1. pc[q] = "ask" /\ creds'[q] = creds[q]
      BY <1>2, <1>6, <1>7
    <2>2. creds[q].refresh \in valid
      BY <1>1, <2>1 DEF RotationInv
    <2> QED
      BY <1>1, <2>1, <2>2
  <1>8. ASSUME NEW q \in Commands, NEW r \in Commands, pc'[q] = "ask", pc'[r] = "ask"
        PROVE  q = r
    <2>1. pc[q] = "ask" /\ pc[r] = "ask"
      BY <1>2, <1>8
    <2> QED
      BY <1>1, <2>1 DEF RotationInv
  <1>9. ASSUME NEW q \in Commands, NEW r \in Commands, pc'[q] = "ask", Saving(r)'
        PROVE  creds'[q].refresh # creds'[r].refresh
    <2>1. pc[q] = "ask" /\ Saving(r) /\ creds'[q] = creds[q] /\ creds'[r] = creds[r]
      BY <1>2, <1>6, <1>9
    <2>2. creds[q].refresh # creds[r].refresh
      BY <1>1, <2>1 DEF RotationInv
    <2> QED
      BY <2>1, <2>2
  <1>10. \A q \in Commands : pc'[q] = "ask" \/ Saving(q)' => creds'[q].user # Torn
    BY <1>6
  <1> QED
    BY <1>4, <1>5, <1>7, <1>8, <1>9, <1>10 DEF RotationInv

\* A save by itself leaves in the file what it saved.
LEMMA WriteRotates ==
    ASSUME TypeInv, RotationInv, ~mishap', NEW p \in Commands, Write(p)
    PROVE  RotationInv'
  <1>1. /\ ~mishap /\ Saving(p) /\ file' = creds[p] /\ UNCHANGED <<valid, root>>
        /\ pc' = [pc EXCEPT ![p] = AfterSave(p, TRUE)]
        /\ \A q \in Commands \ {p} : creds'[q] = creds[q]
    BY DEF Write, Outcomes, Forget, Goto, Keep, Saving, tokenVars, TypeInv, TypeOK, CredTypeOK
  <1>2. pc'[p] \in {"present", "idle"}
    BY <1>1 DEF AfterSave, Refreshed, TypeInv, TypeOK, CredTypeOK
  <1>3. \A q \in Commands \ {p} : pc'[q] = pc[q] /\ creds'[q] = creds[q]
    BY <1>1 DEF TypeInv, TypeOK, CredTypeOK
  <1>4. file'.user # Torn /\ Kept(file)'
    BY <1>1 DEF RotationInv, Kept
  <1>5. \A q \in Commands :
            pc'[q] = "ask" \/ Saving(q)' => q # p /\ pc'[q] = pc[q] /\ creds'[q] = creds[q]
    BY <1>2, <1>3 DEF Saving
  <1>6. \A q \in Commands : Saving(q)' => Saving(q) /\ Kept(creds[q])'
    BY <1>1, <1>5 DEF RotationInv, Kept, Saving
  <1>7. ASSUME NEW q \in Commands, NEW r \in Commands, pc'[q] = "ask", Saving(r)'
        PROVE  creds'[q].refresh # creds'[r].refresh
    <2>1. pc[q] = "ask" /\ Saving(r) /\ creds'[q] = creds[q] /\ creds'[r] = creds[r]
      BY <1>5, <1>6, <1>7
    <2>2. creds[q].refresh # creds[r].refresh
      BY <1>1, <2>1 DEF RotationInv
    <2> QED
      BY <2>1, <2>2
  <1>8. \A q, r \in Commands : pc'[q] = "ask" /\ pc'[r] = "ask" => q = r
    BY <1>1, <1>5 DEF RotationInv
  <1>9. \A q \in Commands : pc'[q] = "ask" => creds'[q].refresh \in valid'
    BY <1>1, <1>5 DEF RotationInv
  <1>10. \A q \in Commands : pc'[q] = "ask" \/ Saving(q)' => creds'[q].user # Torn
    BY <1>1, <1>5, <1>6 DEF RotationInv
  <1> QED
    BY <1>4, <1>6, <1>7, <1>8, <1>9, <1>10 DEF RotationInv

\* Every step keeps the login going, or notes a mishap.
LEMMA RotationStep ==
    TypeInv /\ IdentityMatchesToken /\ GrantInv /\ RotationInv /\ [Next]_vars => RotationInv'
  <1> SUFFICES ASSUME TypeInv, IdentityMatchesToken, GrantInv, RotationInv, [Next]_vars, ~mishap'
               PROVE  RotationInv'
    BY DEF RotationInv
  <1>1. ASSUME NEW p \in Commands, UNCHANGED <<file, valid, root, mishap>>, ~Saving(p),
               pc'[p] \notin Busy,
               \A q \in Commands \ {p} : pc'[q] = pc[q] /\ creds'[q] = creds[q]
        PROVE  RotationInv'
    BY <1>1, LeavesRotation
  <1>2. ASSUME NEW p \in Commands, Load(p) \/ NotAsked(p) \/ Present(p) \/ Start(p)
                                 \/ NotConfigured(p) \/ Listen(p) \/ TakeCode(p)
                                 \/ ExchangeFails(p)
        PROVE  RotationInv'
    <2>1. UNCHANGED <<file, valid, root, mishap>>
      BY <1>2 DEF Load, NotAsked, Present, Start, NotConfigured, Listen, TakeCode,
            ExchangeFails, fileVars, tokenVars
    <2>2. \A q \in Commands \ {p} : pc'[q] = pc[q] /\ creds'[q] = creds[q]
      BY <1>2 DEF Load, NotAsked, Present, Start, NotConfigured, Listen, TakeCode,
            ExchangeFails, Forget, Goto, Keep, TypeInv, TypeOK, CredTypeOK
    <2>3. ~Saving(p)
      BY <1>2 DEF Load, NotAsked, Present, Start, NotConfigured, Listen, TakeCode,
            ExchangeFails, Goto, Ended, Saving
    <2>4. pc'[p] \notin Busy
      BY <1>2 DEF Load, NotAsked, Present, Start, NotConfigured, Listen, TakeCode,
            ExchangeFails, Goto, Refreshed, RefreshFailed, Ended, Busy, TypeInv, TypeOK,
            CredTypeOK
    <2> QED
      BY <1>1, <2>1, <2>2, <2>3, <2>4
  <1>3. ASSUME NEW p \in Commands, Refused(p) PROVE FALSE
    BY <1>3 DEF Refused, Goto, RotationInv
  <1>4. ASSUME NEW p \in Commands, Exit(p) PROVE RotationInv'
    <2>1. pc[p] \notin Busy /\ mishap' = mishap /\ UNCHANGED <<file, valid, root>>
      BY <1>4 DEF Exit, fileVars, tokenVars, TypeInv, TypeOK, CredTypeOK
    <2>2. /\ ~Saving(p) /\ pc'[p] \notin Busy
          /\ \A q \in Commands \ {p} : pc'[q] = pc[q] /\ creds'[q] = creds[q]
      BY <1>4, <2>1 DEF Exit, Keep, Busy, Saving, TypeInv, TypeOK, CredTypeOK
    <2> QED
      BY <1>1, <2>1, <2>2
  <1>5. ASSUME NEW p \in Commands, CredStep(p) PROVE RotationInv'
    BY <1>2, <1>3, <1>5, ReloadRotates, AskRotates, TruncateRotates, WriteRotates DEF CredStep
  <1>6. ASSUME NEW p \in Commands, Process(p) PROVE RotationInv'
    BY <1>2, <1>5, <1>6, ExchangeRotates, OutsideRotation
       DEF Process, Select, Timeout, credVars, tokenVars, fileVars
  <1>7. CASE \/ \E r \in Requests : Handler(r) \/ Callback(r)
             \/ Age \/ UNCHANGED vars
    BY <1>7, OutsideRotation
       DEF Handler, SendError, SendCode, Callback, Age, vars, credVars, tokenVars, fileVars
  <1> QED
    BY <1>2, <1>4, <1>6, <1>7 DEF Next, Environment

\* As long as neither refreshes nor saves overlap and no write, answer or token
\* is lost, the refresh token on disk is one the issuer accepts, or there is
\* none because the last refresh brought none (loginStatus.go:173-265).
THEOREM LoginIsKept == Spec => []SerialUseKeepsLogin
  <1>1. Init => IdentityMatchesToken /\ GrantInv /\ RotationInv
    BY CredentialsAssumption
       DEF Init, CredInit, IdentityMatchesToken, Matched, Whole, GrantInv, RotationInv, Saving
  <1>2. RotationInv => SerialUseKeepsLogin
    BY DEF RotationInv, Kept, SerialUseKeepsLogin, Saving, Busy
  <1> QED
    BY <1>1, <1>2, TypeInit, TypeStep, IdentityStep, GrantStep, RotationStep, PTL DEF Spec
=============================================================================
