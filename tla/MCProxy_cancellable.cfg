SPECIFICATION Spec
CONSTANTS
    Sessions = {s1, s2}
    Backends = {b1, b2}
    MaxConns = 1
    None = None
    Users = {u1}
    Databases = {d1}
    ClientKinds = {"startup", "cancel"}
    Messages = {"query"}
    Cuts = FALSE
    Temp = Temp
INVARIANTS
    ActiveSessionCancellable
CHECK_DEADLOCK FALSE
