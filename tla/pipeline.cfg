SPECIFICATION Spec
CONSTANTS
    w1 = w1
    w2 = w2
    Worker = {w1, w2}
    Request <- Everything
    Asked <- ByWorker
    What <- Sites
    Configured = TRUE
    Parsed <- Numbers
    MaxCapturedProperties = 2
    VarDepth = 3
    None = None
    CensusDefault <- Census
    SelectorOverrides <- NoOverrides
    WaitOverrides <- NoOverrides
    Skip = Skip
    NoBrand = NoBrand
    MaxDominantColors = 2
    FractionPerMille = 20
    Lab <- LabOf
    CmsPalettes <- Palettes
    TrivialGrayscale = {}
    DefaultFonts <- Stacks
    KeyOrder <- Stored
    MonoHints <- Hints
INVARIANTS EnvironmentKept FailureMatchesCause MissedColoursShown CapturedIsCurrent DefaultsNeverKept ExportsKeepEveryToken ThemeReadable
CHECK_DEADLOCK FALSE
