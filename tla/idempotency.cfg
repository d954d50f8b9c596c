SPECIFICATION Spec
CONSTANTS
    c1 = c1
    c2 = c2
    c3 = c3
    c4 = c4
    b1 = b1
    b2 = b2
    NoRow = NoRow
    Call = {c1, c2, c3, c4}
    Body = {b1, b2}
    BodyOf <- MostlySame
SYMMETRY CallSymmetry
INVARIANTS RetryIsReplayed ReplayMatchesBody
PROPERTIES YoungRowIsKept
CHECK_DEADLOCK FALSE
