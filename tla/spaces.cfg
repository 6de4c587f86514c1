CONSTANTS
    People = {olga, ann, bob}
    Owner = olga
    Regulars = {ann}
    ShareHistory = FALSE
    Invites = {i1}
    Slots = {s1, s2}
    MaxEvents = 3
    MaxRing = 3
    None = None
SPECIFICATION Spec
INVARIANTS
    TypeOK
    WrapperRecorded
    DepartedCannotRead
    FloorsFollowPolicy
PROPERTIES
    OwnerKeepsRing
    DeclinedStaysOut
    Settles
CHECK_DEADLOCK FALSE
