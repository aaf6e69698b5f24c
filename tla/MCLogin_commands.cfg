SPECIFICATION Spec
CONSTANTS
    Commands = {c1, c2}
    Users = {u1, u2}
    Grants = {g1, g2, g3}
    Requests = {r1, r2}
    Rotations = {TRUE, FALSE}
    None = None
    Torn = Torn
SYMMETRY Symmetry
INVARIANTS
    TypeOK
    IdentityMatchesToken
    SerialUseKeepsLogin
    AcceptedCodeIsGood
    PortFreed
CHECK_DEADLOCK FALSE
