SPECIFICATION Spec
CONSTANTS
    Numbers = {0, 1, 3}
    minQueueSize = 2
    defaultQueueSize = 2
    defaultWorkerNum = 1
    defaultSyncInterval = 1
    defaultCaptureTimeout = 2
    MaxOptions = 3
    MaxStops = 2
INVARIANTS
    TypeOK
    StopReleases
PROPERTIES
    StartedIsReleased
CHECK_DEADLOCK FALSE
