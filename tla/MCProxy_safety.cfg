SPECIFICATION Spec
CONSTANTS
    Sessions = {s1, s2, s3}
    Backends = {b1, b2, b3}
    MaxConns = 2
    None = None
    Users = {u1, u2}
    Databases = {d1}
    ClientKinds = {"startup", "cancel", "gssenc"}
    Messages = {"query", "extended"}
    Cuts = FALSE
    Temp = Temp
SYMMETRY Symmetry
INVARIANTS
    TypeOK
    ExclusiveLease
    PoolBound
    NoTransactionHandover
    RegistrySound
    LateCancelStaysInPool
PROPERTIES
    ImplementsLease
CHECK_DEADLOCK FALSE
