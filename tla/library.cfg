SPECIFICATION FairSpec
CONSTANTS
    c1 = c1
    c2 = c2
    c3 = c3
    NoClass = NoClass
    Asset <- Versions
    FetchedAt <- Fetched
    Public = {1, 2}
    Category = {"buttons", "hero"}
    Template = {"buttons", "hero"}
    ClassOf <- Classes
    Mined = {1}
    Captured <- Captures
    Call = {c1, c2, c3}
    AssetOf <- Subjects
    Seed = {c1, c2}
    BatchSize = 2
    MaxAttempts = 3
    MaxCrashes = 1
INVARIANTS OnePublicPage SeedIsShown
PROPERTIES NeverBlanked JobsEnd
CHECK_DEADLOCK FALSE
