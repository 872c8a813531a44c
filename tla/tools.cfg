SPECIFICATION Spec
CONSTANTS
    Directories <- SomeDirectories
    References = {"ABC-1234567"}
    Dates <- SomeDates
    TruthFiles <- NoneOrAll
    Keywords <- SomeKeywords
    Conns = {c1}
    Engines = {"apple_vision", "paddleocr"}
    NoReport = NoReport
    Checks = {k1, k2}
    MaxReruns = 2
CHECK_DEADLOCK FALSE
INVARIANTS ReadBack Curated YearsDoNotCount ReportAccounts EgressSeen MergesOnlyGreen
PROPERTIES GateEnds
