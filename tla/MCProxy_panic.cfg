SPECIFICATION Spec
CONSTANTS
    Sessions = {s1, s2}
    Backends = {b1, b2}
    MaxConns = 2
    None = None
    Users = {u1}
    Databases = {d1}
    ClientKinds = {"startup"}
    Messages = {"query"}
    Cuts = FALSE
    Temp = Temp
INVARIANTS
    RegistryNeverPanics
CHECK_DEADLOCK FALSE
