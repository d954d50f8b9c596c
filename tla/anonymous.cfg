SPECIFICATION FunnelSpec
CONSTANTS
    r1 = r1
    r2 = r2
    r3 = r3
    k1 = k1
    k2 = k2
    t1 = t1
    t2 = t2
    Service = Service
    NoOne = NoOne
    Request = {r1, r2, r3}
    Claim = {k1, k2}
    Token = {t1, t2}
    Caps = {1, 2}
    LastDay = 2
SYMMETRY Symmetry
INVARIANTS CapRespected ClaimedIsRebound
CHECK_DEADLOCK FALSE
