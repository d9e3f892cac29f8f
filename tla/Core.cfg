SPECIFICATION Spec
CONSTANTS
    Agents = {"core", "core2"}
    recentSeconds <- Windows
    maxRingSize = 61
    MaxSignals = 3
    MonitorCap = 1
    MaxPackets = 2
INVARIANTS
    TypeOK
    MinuteStamps
    UploadOnce
PROPERTIES
    SignalStopsReports
    LaterSignalExits
    ReportsGoOn
CHECK_DEADLOCK FALSE
