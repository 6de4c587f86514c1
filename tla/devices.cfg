CONSTANTS
    MaxKeys = 2
    MaxDevices = 1
    MaxRequests = 2
SPECIFICATION Spec
INVARIANTS
    TypeOK
    RestoreEnds
PROPERTIES
    KeysAgree
    RefusedAtLast
    IdentityStands
