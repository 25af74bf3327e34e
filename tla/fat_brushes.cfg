CONSTANTS
    brush = brush
    Types = {brush}
    Brush = brush
    EditBSize <- BrushSize
    Sized = {}
    Extras = {}
    UIntMod = 65536
    PageLoad = 2
    DirectoryLoad = 2
    PageBSize = 72
    ZoneBSize = 640
    HiAddr = 1900
    VersionHead = 4
    BrushLoad = 3
    IntBits = 3
    Ids = {i1, i2, i3}
    Faces = {f1, f2}
    NoFace = NoFace
    Absent = Absent
    DeepMods = 5
    WideMods = 2
    OneFaceMods = 7
SPECIFICATION Spec
CONSTRAINT Bounded
SYMMETRY Symmetry
INVARIANTS TypeOK BrushChecked MasksReach
PROPERTIES Versioned SetIsRead
CHECK_DEADLOCK FALSE
