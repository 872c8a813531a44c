SPECIFICATION Spec
CONSTANTS
    u1 = u1
    u2 = u2
    r1 = r1
    r2 = r2
    NoUpload = NoUpload
    Uploads <- TwoUploads
    Removals <- TwoRemovals
    MaxPages = 2
    MaxDocs = 2
    MaxJobs = 2
    MaxCrashes = 1
    MaxAttempts = 2
    Suffixes <- JpgOnly
    PollTimer = TRUE
    BusyTimeout = TRUE
    DiskFaults = FALSE
CHECK_DEADLOCK FALSE
SYMMETRY RequestsAlike
INVARIANTS NeverHalfUploaded NoLostWakeup NoStrayOriginals
PROPERTIES FiledUntilCrash
