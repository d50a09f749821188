\* Two commits, any stage of which may fail, with edits before, between and after.
CONSTANTS
    g1 = g1  g2 = g2  v1 = v1
    NoGeom = NoGeom  Invalid = Invalid  None = None
    ProviderIds = {1, 2}
    Stored <- OneStored
    Geoms = {g1, g2}
    Vals = {v1}
    CapSets <- AllCaps
    NewFeats <- FeatsAdded
    Selectable <- OneSelectable
    Extents <- NoExtents
    MaxNew = 1
    MaxCmds = 2
    MaxCommits = 2
SPECIFICATION Spec
INVARIANTS
    AssertionsHold
    RollbackEmpties
    SuccessSavesAll
    FeatureCountExact
PROPERTIES
    CommitKeepsView
CHECK_DEADLOCK FALSE
