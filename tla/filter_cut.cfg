SPECIFICATION SearchSpec
CONSTANTS
    Docs <- ThreeDocs
    Distances <- NoDistances
    Far = 90
    Limits <- SomeLimits
    KeywordTop = 2
    VectorTop = 3
    MaxLimit = 2
    RrfK = 60
    MaxDistance = 65
    SoloMaxDistance = 50
    SoloMargin = 4
    MaxWrites = 0
INVARIANTS NothingLost
CHECK_DEADLOCK FALSE
