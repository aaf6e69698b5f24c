---------------------------- MODULE Credentials ----------------------------
(***************************************************************************)
(* The credentials file ~/.gprxy/credentials and the tokens in it, as the  *)
(* gprxy commands a user runs side by side load, refresh and save them     *)
(* (internal/cli/loginStatus.go, connect.go).  No lock protects the file.  *)
(*                                                                         *)
(* The issuer is external.  A grant is one answer of its token endpoint;   *)
(* the access token, the ID token and the refresh token of grant g are all *)
(* named g.  When refresh tokens rotate, one is good for one refresh, and  *)
(* using it again revokes every token that descends from the same login.   *)
(* When they do not, a refresh is answered without a refresh token, and    *)
(* the old one stays good.                                                 *)
(***************************************************************************)
CONSTANTS
    Commands,   \* processes that run gprxy login or gprxy connect
    Users,      \* who logs in
    Grants,     \* bound: answers the issuer may ever give
    Rotations,  \* may a refresh be answered with a new refresh token: yes, no or both
    None,       \* a nil pointer, an empty string, an absent file
    Torn        \* a file that does not parse, or a field with bytes of two saves

\* user is None when the ID token could not be parsed, refresh when it is the
\* empty string.
Creds == [token : Grants \cup {Torn}, refresh : Grants \cup {None, Torn},
          user : Users \cup {None, Torn}]

ASSUME CredentialsAssumption ==
    /\ Rotations \subseteq BOOLEAN
    /\ {None, Torn} \cap Grants = {}
    /\ {None, Torn} \cap Users = {}
    /\ None \notin Commands
    /\ Torn # None
    /\ {None, Torn} \cap Creds = {}

VARIABLES
    pc,     \* pc[p]: control state of the process
    cmd,    \* cmd[p]: the command it runs
    creds,  \* creds[p]: credentials it has in memory
    file,   \* the credentials file: None, Torn (empty or garbled), or credentials
    left,   \* time left to the access token in the file; long if there is none
    owner,  \* owner[g]: user the tokens of g are about; None: not granted yet
    root,   \* root[g]: grant of the login that g descends from
    valid,  \* refresh tokens the issuer accepts, as far as anybody knows
    mishap  \* history: a write, an answer or a token was lost, refreshes or saves overlapped

tokenVars == <<owner, root, valid>>
fileVars == <<file, left>>
credVars == <<pc, cmd, creds, fileVars, tokenVars, mishap>>

\* idle: not started, or exited as it should.  failed: logger.Fatal, or panic.
Ended == {"idle", "failed"}

\* From the load of the refresh token, or the grant of a login, to the save.
Busy == {"ask", "save", "write", "overlap"}

\* long: more than 30 minutes.  over: less than 3, or expired.
Lives == {"long", "short", "over"}

CredTypeOK ==
    /\ pc \in [Commands -> Ended \cup Busy \cup
                           {"load", "reload", "present", "listen", "wait", "exchange"}]
    /\ cmd \in [Commands -> {"login", "connect"}]
    /\ creds \in [Commands -> Creds \cup {None}]
    /\ file \in Creds \cup {None, Torn}
    /\ left \in Lives
    /\ owner \in [Grants -> Users \cup {None}]
    /\ root \in [Grants -> Grants]
    /\ valid \subseteq Grants
    /\ mishap \in BOOLEAN

CredInit ==
    /\ pc = [p \in Commands |-> "idle"]
    /\ cmd = [p \in Commands |-> "login"]
    /\ creds = [p \in Commands |-> None]
    /\ file = None
    /\ left = "long"
    /\ owner = [g \in Grants |-> None]
    /\ root = [g \in Grants |-> g]
    /\ valid = {}
    /\ mishap = FALSE

Whole(f) == f \notin {None, Torn}

Goto(p, from, to) ==
    /\ pc[p] = from
    /\ pc' = [pc EXCEPT ![p] = to]

Keep(p, c) == creds' = [creds EXCEPT ![p] = c]

\* A process that has ended has nothing in memory.
Forget(p) == Keep(p, IF pc'[p] \in Ended THEN None ELSE creds[p])

\* Where the caller of getRefreshToken goes on: getCreds returns the new
\* credentials or the error, login stops or starts the browser flow.
Refreshed(p) == IF cmd[p] = "connect" THEN "present" ELSE "idle"
RefreshFailed(p) == IF cmd[p] = "connect" THEN "failed" ELSE "listen"

Start(p) ==
    /\ pc[p] \in Ended
    /\ pc' = [pc EXCEPT ![p] = "load"]
    /\ \E c \in {"login", "connect"} : cmd' = [cmd EXCEPT ![p] = c]
    /\ Keep(p, None)
    /\ UNCHANGED <<fileVars, tokenVars, mishap>>

-----------------------------------------------------------------------------
(* getCreds and loginStatus *)

\* connect wants 30 minutes, login is content with 3.
Usable(c, l) == l = "long" \/ (c = "login" /\ l = "short")

\* The first load.  loginStatus takes an error for "not logged in"; getCreds
\* logs it and dereferences the nil credentials.
Load(p) ==
    /\ Goto(p, "load",
            IF ~Whole(file) THEN RefreshFailed(p)
            ELSE IF Usable(cmd[p], left) THEN Refreshed(p) ELSE "reload")
    /\ Keep(p, IF Whole(file) /\ pc'[p] \notin Ended THEN file ELSE None)
    /\ UNCHANGED <<cmd, fileVars, tokenVars, mishap>>

-----------------------------------------------------------------------------
(* getRefreshToken *)

\* The second load, and the look at the refresh token.
Reload(p) ==
    /\ LET ok == Whole(file) /\ file.refresh # None IN
        /\ Goto(p, "reload", IF ok THEN "ask" ELSE RefreshFailed(p))
        /\ Keep(p, IF ok THEN file ELSE None)
        /\ mishap' = (mishap \/ (ok /\ \E q \in Commands : pc[q] \in Busy))
    /\ UNCHANGED <<cmd, fileVars, tokenVars>>

\* The issuer grants g to user u, in the family of grant r.
Issue(g, u, r) ==
    /\ owner[g] = None
    /\ owner' = [owner EXCEPT ![g] = u]
    /\ root' = [root EXCEPT ![g] = r]

\* The refresh token that was used is replaced, or nothing happens to it.
Rotate(used, g, rotates) ==
    valid' = IF rotates THEN (valid \ {used}) \cup {g} ELSE valid

\* Mutant of NewCreds: the refresh token stays the one that was used.
NewCredsOldRefresh(old, g, rotates) ==
    [token |-> g, refresh |-> old.refresh, user |-> old.user]

\* The tokens of the answer, an absent one included, the user of the old
\* credentials.
NewCreds(old, g, rotates) ==
    [token |-> g, refresh |-> IF rotates THEN g ELSE None, user |-> old.user]

\* Mutant of Ask: the new tokens are used but not saved.
AskUnsaved(p) ==
    /\ pc[p] = "ask"
    /\ creds[p].refresh \in valid
    /\ \E g \in Grants, rotates \in Rotations :
        /\ Issue(g, owner[creds[p].refresh], root[creds[p].refresh])
        /\ Rotate(creds[p].refresh, g, rotates)
        /\ Goto(p, "ask", Refreshed(p))
        /\ Keep(p, NewCreds(creds[p], g, rotates))
    /\ UNCHANGED <<cmd, fileVars, mishap>>

\* The request is granted; the answer may not arrive, or not be readable.
Ask(p) ==
    /\ pc[p] = "ask"
    /\ creds[p].refresh \in valid
    /\ \E g \in Grants, arrives \in BOOLEAN, rotates \in Rotations :
        /\ Issue(g, owner[creds[p].refresh], root[creds[p].refresh])
        /\ Rotate(creds[p].refresh, g, rotates)
        /\ Goto(p, "ask", IF arrives THEN "save" ELSE RefreshFailed(p))
        /\ Keep(p, IF arrives THEN NewCreds(creds[p], g, rotates) ELSE None)
        /\ mishap' = (mishap \/ ~arrives)
    /\ UNCHANGED <<cmd, fileVars>>

\* The refresh token was used before, or is none; or it has expired or was
\* revoked meanwhile, which does not show before it is used.
Refused(p) ==
    /\ Goto(p, "ask", RefreshFailed(p))
    /\ LET used == creds[p].refresh IN
        /\ valid' = IF used \in valid THEN valid \ {used}
                    ELSE {g \in valid : used = Torn \/ root[g] # root[used]}
        /\ mishap' = (mishap \/ used \in valid)
    /\ Keep(p, None)
    /\ UNCHANGED <<cmd, fileVars, owner, root>>

\* The issuer is not configured or not reached.
NotAsked(p) ==
    /\ Goto(p, "ask", RefreshFailed(p))
    /\ Keep(p, None)
    /\ UNCHANGED <<cmd, fileVars, tokenVars, mishap>>

-----------------------------------------------------------------------------
(* saveCreds *)

\* The caller goes on: a refresh whatever became of the save, a login only if
\* it worked.  A grant that is its own root comes from a login.
AfterSave(p, ok) ==
    IF root[creds[p].token] # creds[p].token THEN Refreshed(p)
    ELSE IF ok THEN "idle" ELSE "failed"

\* os.WriteFile, first half: the file is opened and truncated, or cannot be.
\* In overlap the file has been opened twice.
Truncate(p) ==
    /\ pc[p] = "save"
    /\ \/ /\ LET open == {q \in Commands : pc[q] \in {"write", "overlap"}} \cup {p} IN
              pc' = [q \in Commands |->
                       IF q \notin open THEN pc[q]
                       ELSE IF open = {p} THEN "write" ELSE "overlap"]
          /\ file' = Torn /\ left' = "long"
          /\ mishap' = mishap
       \/ Goto(p, "save", AfterSave(p, FALSE)) /\ UNCHANGED fileVars /\ mishap' = TRUE
    /\ Forget(p)
    /\ UNCHANGED <<cmd, tokenVars>>

\* A file that parses, with some bytes of a and some of b: anything may be in
\* its fields, and a refresh token that works is that of one of them.
Mixes(a, b) == {[token |-> Torn, refresh |-> r, user |-> Torn] : r \in {a.refresh, b.refresh, Torn}}

\* What is in the file when the save of c has made its last write.  One that
\* fails may leave any part of c, and one that is not alone may write over what
\* another save has written, or be written over in part before it ends.
Outcomes(c, alone, ok) ==
    {c} \cup (IF alone /\ ok THEN {} ELSE {Torn, file})
        \cup (IF alone \/ ~Whole(file) THEN {} ELSE Mixes(c, file))

\* Second half: the bytes are written, or some of them, and the file closed.
Write(p) ==
    /\ pc[p] \in {"write", "overlap"}
    /\ \E ok \in BOOLEAN :
        /\ Goto(p, pc[p], AfterSave(p, ok))
        /\ file' \in Outcomes(creds[p], pc[p] = "write", ok)
        /\ mishap' = (mishap \/ ~ok \/ pc[p] = "overlap")
    /\ left' = IF file' = file THEN left ELSE "long"
    /\ Forget(p)
    /\ UNCHANGED <<cmd, tokenVars>>

-----------------------------------------------------------------------------
(* connect, and time *)

\* Dialling the proxy, tls.UpgradeToTLS, then the startup message and the
\* password.  A failed dial is only logged, and the nil connection used.
Present(p) ==
    /\ \E end \in Ended : Goto(p, "present", end)
    /\ Forget(p)
    /\ UNCHANGED <<cmd, fileVars, tokenVars, mishap>>

\* The access token on disk gets older.  It is new when it is written.
Age ==
    /\ Whole(file)
    /\ left # "over"
    /\ left' = IF left = "long" THEN "short" ELSE "over"
    /\ UNCHANGED <<pc, cmd, creds, file, tokenVars, mishap>>

CredStep(p) ==
    \/ Load(p) \/ Reload(p) \/ Ask(p) \/ Refused(p) \/ NotAsked(p)
    \/ Truncate(p) \/ Write(p) \/ Present(p)
=============================================================================
