CONSTANTS
    ann = ann
    bob = bob
    annPhone = annPhone
    annLaptop = annLaptop
    bobPhone = bobPhone
    team = team
    club = club
    None = None
    Users = {ann}
    Devices = {annPhone, annLaptop}
    Spaces = {team}
    Keys = {k1, k2}
    DeviceUser <- TwoOnOne
    SpaceOwner <- AnnOwns
    MaxLive = 1
    TombstoneFactor = 2
    MaxBatch = 2
    MaxStamp = 2
    MaxRequests = 3
    MaxNow = 3
SPECIFICATION Spec
SYMMETRY AnnsDevices
INVARIANTS
    LiveRowsCapped
PROPERTIES
    PushNeverRewinds
\* requests run out
CHECK_DEADLOCK FALSE
