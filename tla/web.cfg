SPECIFICATION WebSpec
CONSTANTS
    MaxPages = 2
    MaxUploads = 2
    MaxMisses = 1
    MaxRetries = 1
    a = a
    b = b
    NoDoc = NoDoc
    Docs <- TwoDocs
    NumPages = 2
    MaxSearches = 2
    MaxOpens = 2
    MaxEdits = 2
INVARIANTS FiledOnce PagesKept  RemovedIsGone
INVARIANTS DialogIsOfTitle CleanIsStored
PROPERTY TrackingEnds
CHECK_DEADLOCK FALSE
