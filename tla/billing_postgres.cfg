SPECIFICATION Spec
CONSTANTS
    r1 = r1
    r2 = r2
    r3 = r3
    k1 = k1
    k2 = k2
    u1 = u1
    p1 = p1
    p2 = p2
    NoCap = NoCap
    Request <- ThreeRequests
    User = {u1}
    Key = {k1, k2}
    Process = {p1, p2}
    KeyOf <- TwoKeys
    OwnerOf <- OneOwner
    ProcessOf <- Spread
    Private = {r2}
    PublicCents = 500
    PrivateCents = 1000
    Postgres = TRUE
    MaxRetries = 3
    FailureCode = {"persist_error", "waf_blocked"}
    Refundable = {"persist_error"}
    OpeningCents = {1000}
    TopUpCents = {}
    MaxDeposit = 1000
    CapCents = {500}
INVARIANTS BalanceNonNegative ContentionUnreachable RowMatchesLedger AnswerMatchesLedger
PROPERTIES SpendCapRespected
