CONSTANTS
    node = node
    Types = {node}
    Node = node
    EditBSize <- NodeSize
    Sized = {}
    Extras = {}
    UIntMod = 65536
    PageLoad = 2
    DirectoryLoad = 2
    PageBSize = 96
    ZoneBSize = 640
    HiAddr = 1400
    VersionHead = 4
    NodeLoad = 3
    Keys = {k1, k2, k3}
    Data = {a}
    RefData = {1}
    Unset = Unset
    Absent = Absent
    DeepMods = 5
    WideMods = 2
    OneKeyMods <- SevenOrFive
SPECIFICATION Spec
CONSTRAINT Bounded
SYMMETRY Symmetry
INVARIANTS TypeOK ModsInOrder AnyRevision ReferencesResolve
PROPERTIES Versioned SetIsSeen
CHECK_DEADLOCK FALSE
