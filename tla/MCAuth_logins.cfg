SPECIFICATION FairSpec
CONSTANTS
    k1 = k1
    k2 = k2
    Kids = {k1, k2}
    Logins = {l1, l2}
    Nobody = Nobody
    Documents <- MCDocuments
    Offers <- MCOffers
    ClientUser = "alice"
    Normal <- MCNormal
    Environ <- MCEnviron
    DefaultRole = "read"
    Methods = {"trust", "md5", "sasl", "gss"}
    ServiceUser = "gprxy"
INVARIANTS
    TypeOK
    KnownKeyServed
    OneStartupSequence
    RefusalIsTold
    OkMeansAuthenticated
PROPERTIES
    NoUselessFetch
    FreshMeansComplete
    ImplementsKeySource
    AuthenticationEnds
CHECK_DEADLOCK FALSE
