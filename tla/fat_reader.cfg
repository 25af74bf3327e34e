CONSTANTS
    k1 = k1
    k2 = k2
    a = a
    MaxRev = 3
    MaxVersion = 4
    NodeLoad = 2
    Keys = {k1, k2}
    Data = {a}
    Unset = Unset
    Writes <- ThreeWrites
    ReadKeys = {k1}
SPECIFICATION Spec
INVARIANTS CommittedRead HeadRead
PROPERTIES CountedStays
CHECK_DEADLOCK FALSE
