SPECIFICATION FairSpec
CONSTANTS
    c1 = c1
    c2 = c2
    k1 = k1
    k2 = k2
    Conns = {c1, c2}
    Keys = {k1, k2}
    Pids = {p1}
    Addr <- ReuseAddr
    Reverse <- Mirror
    NoInode = NoInode
    ScanMayFail = FALSE
    MaxChanges = 5
INVARIANTS
    FoundWhenQuiet
PROPERTIES
    ClosedPurged
    OpenFoundAgain
