SPECIFICATION StoresSpec
CONSTANTS
    n1 = n1
    n2 = n2
    a1 = a1
    a2 = a2
    cli = cli
    Api = Api
    Free = Free
    NoToken = NoToken
    Names <- TwoNames
    Requests <- TwoAndCli
    Clis <- OneCli
    MaxKills = 1
    DiskFaults = TRUE
    c1 = c1
    c2 = c2
    c3 = c3
    d1 = d1
    d2 = d2
    Unlocked = Unlocked
    Conns <- ThreeConns
    Docs <- TwoDocs
    MaxFaults = 1
    MaxCrashes = 1
CHECK_DEADLOCK FALSE
INVARIANTS NeverHalfWritten PairingStands RevokedStays
INVARIANTS NeverBricked RequeuedOnce FailureMeansDone
PROPERTIES NotItself Answers ConnectEnds
