SPECIFICATION Spec
CONSTANTS
    p1 = p1
    p2 = p2
    Patches <- TwoPatches
    Fields <- TwoFields
    Extracted <- DateOnly
    Bodies <- GoodBodies
    MaxAttempts = 2
    MaxCrashes = 0
    BusyTimeout = FALSE
CHECK_DEADLOCK FALSE
SYMMETRY Requests
INVARIANTS Findable
