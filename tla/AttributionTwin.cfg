SPECIFICATION Spec
CONSTANTS
    c1 = c1
    c2 = c2
    k1 = k1
    k2 = k2
    Conns = {c1, c2}
    Keys = {k1, k2}
    Pids = {p1, p2}
    Addr <- TwinAddr
    Reverse <- Mirror
    NoInode = NoInode
    ScanMayFail = TRUE
    MaxChanges = 4
SYMMETRY Symmetry
INVARIANTS
    TypeOK
    AttributionSound
    FoundWhenQuiet
