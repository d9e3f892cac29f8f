SPECIFICATION Spec
CONSTANTS
    c1 = c1
    k1 = k1
    k2 = k2
    m1 = m1
    m2 = m2
    m3 = m3
    Conns = {c1}
    Keys = {k1, k2}
    Pids = {p1, p2}
    Addr <- OneAddr
    Reverse <- Mirror
    NoInode = NoInode
    ScanMayFail = TRUE
    Devices = {d1}
    Workers = {w1}
    Packets = {m1, m2}
    PacketAddr <- TwoAddrs
    ChanCap = 1
    defaultQueueSize = 1
    qsize = 1
    MaxChanges = 2
    None = None
SYMMETRY Symmetry
INVARIANTS
    TypeOK
    EachPacketOnce
    ChargedToOwner
    CounterExact
PROPERTIES
    DelayedIsFound
    ImplementsAccount
CHECK_DEADLOCK FALSE
