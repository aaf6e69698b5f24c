SPECIFICATION Spec
CONSTANTS
    k1 = k1
    k2 = k2
    Kids = {k1, k2}
    Logins = {l1}
    Nobody = Nobody
    Documents <- MCDocuments
    Offers <- MCOffers
    ClientUser = "alice"
    Normal <- MCNormal
    Environ <- MCEnviron
    DefaultRole = "read"
    Methods = {"sasl"}
    ServiceUser = "gprxy"
INVARIANTS
    QueriesRunUnderAccount
CHECK_DEADLOCK FALSE
