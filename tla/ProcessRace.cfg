SPECIFICATION RaceSpec
CONSTANTS
    Writers = {w1, w2, w3}
    RingSize = 2
    Sizes = {1}
    LastSecond = 1
    MaxCalls = 3
    MaxRoom = 1
SYMMETRY Symmetry
INVARIANTS
    RaceTypeOK
    NothingInvented
    SoloKept
    HarmOnlyByOverlap
CHECK_DEADLOCK FALSE
