\* Two layers, of which one changes, two extents, two jobs at a time: the canvas' own and a cancelled one.
CONSTANTS
    l1 = l1  l2 = l2  e1 = e1  e2 = e2  j1 = j1  j2 = j2
    Layers = {l1, l2}
    Extents = {e1, e2}
    Jobs = {j1, j2}
    Changing = {l1}
    MaxVersion = 1
    NoJob = NoJob  NoExtent = NoExtent  NoImage = NoImage
SPECIFICATION Spec
SYMMETRY Interchangeable
INVARIANTS
    TypeOK
    CacheSound
    EndsWhileRendering
    ShowsMap
CHECK_DEADLOCK FALSE
