\* One layer, two extents, two jobs at a time: requests in any order, and then none.
CONSTANTS
    l1 = l1  l2 = l2  e1 = e1  e2 = e2  j1 = j1  j2 = j2
    Layers = {l1}
    Extents = {e1, e2}
    Jobs = {j1, j2}
    Changing = {l1}
    MaxVersion = 1
    NoJob = NoJob  NoExtent = NoExtent  NoImage = NoImage
SPECIFICATION Spec
PROPERTY ComesToRest
CHECK_DEADLOCK FALSE
