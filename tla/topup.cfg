SPECIFICATION FairSpec
CONSTANTS
    s1 = s1
    e1 = e1
    e2 = e2
    e3 = e3
    w1 = w1
    w2 = w2
    Checkout = {s1}
    Event = {e1, e2, e3}
    Creditable = {e1, e2}
    Worker = {w1, w2}
    CheckoutOf <- OneSession
    MaxFaults = 3
INVARIANTS CreditedOnce ProcessedIsCredited AckedIsCredited
PROPERTIES ProcessedIsFinal ImplementsTopupPromise
CHECK_DEADLOCK FALSE
