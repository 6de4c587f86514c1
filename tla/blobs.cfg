CONSTANTS
    Blobs = {b1, b2}
    Keys = {k1, k2}
    Devices = {phone, laptop}
    Quota = 1
    MaxRequests = 5
    MaxFailures = 1
    None = None
SPECIFICATION Spec
INVARIANTS
    TypeOK
    LiveEntriesKeepBlobs
PROPERTIES
    KeepsLedger
    Reclaimed
\* requests run out
CHECK_DEADLOCK FALSE
