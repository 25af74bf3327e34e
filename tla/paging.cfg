CONSTANTS
    p = p
    q = q
    f = f
    a1 = a1
    a2 = a2
    Processes = {p, q}
    Files = {f}
    Sizes = {0, 1, 2}
    Addresses = {a1, a2}
    MaxStores = 1
    NULL = NULL
SPECIFICATION Spec
SYMMETRY Symmetry
INVARIANTS HandlesMatch FlushedSurvives RoomAsCreated
