SPECIFICATION FairSpec
CONSTANTS
    Sessions = {s1, s2}
    Backends = {b1, b2, b3}
    MaxConns = 1
    None = None
    Users = {u1}
    Databases = {d1}
    ClientKinds = {"startup", "cancel", "gssenc"}
    Messages = {"query", "extended"}
    Cuts = TRUE
    Temp = Temp
PROPERTIES
    WaiterServed
    SessionCleansUp
CHECK_DEADLOCK FALSE
