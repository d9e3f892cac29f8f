SPECIFICATION Spec
CONSTANTS
    c1 = c1
    k1 = k1
    k2 = k2
    m1 = m1
    m2 = m2
    m3 = m3
    Conns = {c1}
    Keys = {k1, k2}
    Pids = {p1}
    Addr <- OneAddr
    Reverse <- Mirror
    NoInode = NoInode
    ScanMayFail = TRUE
    Devices = {d1}
    Workers = {w1}
    Packets = {m1, m2}
    PacketAddr <- TwoAddrs
    ChanCap = 1
    defaultQueueSize = 2
    qsize = 1
    MaxChanges = 2
    None = None
INVARIANTS
    QueueWithinConfigured
CHECK_DEADLOCK FALSE
