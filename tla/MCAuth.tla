------------------------------- MODULE MCAuth -------------------------------
(* Small instances of Auth for TLC. *)
EXTENDS Auth

CONSTANTS k1, k2

Entry(k, f) == [kid |-> k, form |-> f]
MCDocuments == {<<Entry(k1, "rsa"), Entry(k2, "other")>>,
                <<Entry(k2, "rsa"), Entry(k1, "broken")>>}

Token(k, flaw, role, roles) ==
    [type |-> "token", kid |-> k, flaw |-> flaw, role |-> role, roles |-> roles]
MCOffers == {[type |-> "password"],
             Token(k1, "none", <<"Guest", "Write">>, <<"read">>),
             Token(k2, "none", <<>>, <<"guest">>),
             Token(k2, "claims", <<>>, <<>>),
             Token(k1, "header", <<>>, <<>>)}

\* ROLE_MAPPING_GUEST has no password, and read is there twice.
MCNormal == [r \in {"Guest", "guest", "Write", "write", "READ", "read", ""} |->
                CASE r = "Guest" -> "guest" [] r = "Write" -> "write"
                  [] r = "READ" -> "read" [] OTHER -> r]
Variable(name, user) == [role |-> name, account |-> user]
MCEnviron == <<Variable("READ", "former"), Variable("write", "writer"),
               Variable("guest", ""), Variable("read", "reader")>>
=============================================================================
