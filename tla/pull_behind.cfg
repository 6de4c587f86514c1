CONSTANTS
    own = own
    r1 = r1
    r2 = r2
    r3 = r3
    Keys = {own, r1}
    Mine = {own}
    Earlier = {}
    Writers = {w1, w2}
    Floor = 2
    Limit = 1
    MaxWrites = 3
    MaxLost = 0
    MaxNow = 3
SPECIFICATION Spec
INVARIANT CompleteUnlessSkewed
