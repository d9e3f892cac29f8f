SPECIFICATION Spec
CONSTANTS
    MaxRingSize = 4
    Lengths = {1}
    MaxTime = 4
    MaxBytes = 2
INVARIANTS
    TypeOK
    RingBounded
    RingFaithful
    RecentKept
PROPERTIES
    StatsExact
    StatsNeverInvent

CHECK_DEADLOCK FALSE
