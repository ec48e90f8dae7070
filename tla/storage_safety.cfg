SPECIFICATION Spec
CONSTANTS
    p1 = p1
    p2 = p2
    p3 = p3
    a = a
    b = b
    Rows = {m1, m2}
    NoMount = noMount
    Roots <- RootPaths
    Unsteady <- UnsteadyPaths
    Nested <- NestedPaths
    Dirs = {d1, d2}
    v1 = v1
    v2 = v2
    k1 = k1
    Vias = {v1, v2}
    Overlap <- Binds
    Ids = {k1, k2}
    NoDir = noDir
    Calls = {c1, c2}
    NoCall = noCall
    Areas = {a, b}
    Managed = {a}
    Places <- SomePlaces
    Beside <- SafeNames
    MetaPlaces <- Metas
    NoPlace = noPlace
    Data = {d1, d2}
    NoFile = noFile
    Piece = piece
    Items = {i1}
    NoItem = noItem
    Workers = {c1, c2}
SYMMETRY Symmetry
INVARIANTS
    MountTypeOK
    RootsDisjoint
    FilesTypeOK
    TrashWhole
PROPERTIES
    OnlyDriftedUnavailable
    LostOnlyOnPurpose
