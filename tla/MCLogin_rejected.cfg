SPECIFICATION FairSpec
CONSTANTS
    Commands = {c1}
    Users = {u1}
    Grants = {g1, g2}
    Requests = {r1}
    Rotations = {TRUE, FALSE}
    None = None
    Torn = Torn
PROPERTIES
    RejectedLoginFails
CHECK_DEADLOCK FALSE
