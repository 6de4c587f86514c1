CONSTANTS
    ann = ann
    bob = bob
    annPhone = annPhone
    annLaptop = annLaptop
    bobPhone = bobPhone
    team = team
    club = club
    None = None
    Users = {ann, bob}
    Devices = {annPhone, annLaptop, bobPhone}
    Spaces = {team}
    Keys = {k1}
    DeviceUser <- TwoOnOne
    SpaceOwner <- BobOwnsTeam
    MaxLive = 1
    TombstoneFactor = 1
    MaxBatch = 2
    MaxStamp = 2
    MaxRequests = 4
    MaxNow = 3
SPECIFICATION Spec
CONSTRAINT Serial
SYMMETRY AnnsDevices
INVARIANTS
    TypeOK
    OneAuthorPerSpace
    RowNotOlderThanRemoval
PROPERTIES
    MembersOnly
    LeavingIsRecorded
\* requests run out
CHECK_DEADLOCK FALSE
