SPECIFICATION Spec
CONSTANTS
    a1 = a1
    a2 = a2
    a3 = a3
    l1 = l1
    l2 = l2
    l3 = l3
    NoKey = NoKey
    Link = {l1, l2, l3}
    Redeem = {a1, a2, a3}
    Engines = {"postgres", "sqlite"}
SYMMETRY Symmetry
INVARIANTS LinkMintsOnce RowsTrackKeys GrantedOnce OneActiveKeyOnSQLite
CHECK_DEADLOCK FALSE
