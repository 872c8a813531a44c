SPECIFICATION ArchiveSpec
CONSTANTS
    p1 = p1
    p2 = p2
    Patches <- TwoPatches
    Fields <- TwoFields
    Extracted <- DateOnly
    Bodies <- AllBodies
    MaxAttempts = 2
    MaxCrashes = 1
    BusyTimeout = TRUE
    Docs <- ThreeDocs
    Distances <- SomeDistances
    Far = 90
    Limits <- SomeLimits
    KeywordTop = 2
    VectorTop = 3
    MaxLimit = 2
    RrfK = 60
    MaxDistance = 65
    SoloMaxDistance = 50
    SoloMargin = 4
    MaxWrites = 1
SYMMETRY Requests
INVARIANTS RowIsExplained FindableAlone 
INVARIANTS AnswersPass TopHitsKept BetterFirst
CHECK_DEADLOCK FALSE
