CONSTANTS
    Spaces = {c1}
    Elsewhere = {c2}
    Devices = {d1}
    MaxSockets = 2
    MaxConnects = 2
    MaxRequests = 2
    MaxTasks = 2
    MaxFaults = 1
    None = None
SPECIFICATION Spec
INVARIANTS
    TypeOK
    NoGhosts
    Followed
    CutOff
PROPERTIES
    ShownOnlyToMembers
    RevokedLeaves
CHECK_DEADLOCK FALSE
