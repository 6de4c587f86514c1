CONSTANTS
    own = own
    r1 = r1
    r2 = r2
    r3 = r3
    Keys = {own, r1}
    Mine = {own}
    Earlier = {own, r1}
    Writers = {w1}
    Floor = 2
    Limit = 1
    MaxWrites = 4
    MaxLost = 1
    MaxNow = 4
SPECIFICATION Spec
CONSTRAINT InOrder
INVARIANTS
    TypeOK
    CompleteToCursor
PROPERTIES
    Converges
