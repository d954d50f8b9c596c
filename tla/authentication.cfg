SPECIFICATION Spec
CONSTANTS
    k1 = k1
    b1 = b1
    m1 = m1
    m2 = m2
    u1 = u1
    c1 = c1
    c2 = c2
    c3 = c3
    c4 = c4
    Key = {k1, b1, m1, m2}
    User = {u1}
    Call = {c1, c2, c3, c4}
    Action <- Mix
    Issued = {k1, b1}
    OwnerOf <- OneOwner
    Internal = {b1}
    Peppered = {k1, b1}
    Inactive = {}
    Grace = 1
    LastHour = 3
    MinuteCapacity = 2
    MinuteWindow = 3
    DayCapacity = 3
    DayWindow = 4
SYMMETRY Symmetry
INVARIANTS RateBounded RefusedOnlyAtRate RetryAfterSuffices
PROPERTIES OnlyLiveKeysPass
CHECK_DEADLOCK FALSE
