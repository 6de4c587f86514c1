CONSTANTS
    MaxDevices = 2
    MaxReplicas = 1
    MaxConnects = 2
    MaxFaults = 1
SPECIFICATION Spec
INVARIANT
    TypeOK
    ToldOrOwed
PROPERTIES
    Reasserted
    Forgotten
    ToldTruth
    OfflineIsTrue
CHECK_DEADLOCK FALSE
