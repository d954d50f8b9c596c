SPECIFICATION FairSpec
CONSTANTS
    NoHtml = NoHtml
    Corpora <- TheCorpora
    PseudoSystem = {"_shared"}
    LibrarySlug <- Slugs
    SuppressedSlugs = {"shared"}
    Snapshots <- ReportedButtons
    OldTables <- Left
    BatchSize = 2
    MaxRuns = 2
    CurationOverlay <- Overlay
    MineableClasses <- Mineable
    SubstringsOf <- Substrings
    Contract <- TheContract
    StackOf <- Stacks
    Registry <- FontRows
    DefaultFree <- DefaultFont
    GenericFamily <- Generics
    Templates <- TheTemplates
    DefaultOf <- Defaults
    DisplayName <- NoNames
    Preset = {}
    TemplateOverride <- TheOverride
    DrlToPublicCategory <- Aliases
    NameWords <- Names
    ValueWords <- Words
    ColourValue = {"white", "blue", "black", "red"}
    LengthValue = {}
    BrandWords <- OwnWords
    Stopwords = {}
    InternalLabel = {"bootstrap", "mined"}
    AppleSignature <- Signature
    AppleCompleted = {"form-fields", "hero"}
    AppleMinLength = 2
    HexColour = {"white", "blue", "black", "red"}
    RelatedCap = 4
    ReservedBrandSlugs = {"docs", "library"}
    MalformedBrand = {"long-host"}
    MalformedCategory = {"long-category"}
    MalformedLabel = {"long-label"}
INVARIANTS SeededIsWhole ListedResolves
PROPERTIES RefreshedReturns
CHECK_DEADLOCK FALSE
