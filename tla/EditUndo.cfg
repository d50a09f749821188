\* Edits, edit commands, undo, redo, rollback and render jobs; no commit.
CONSTANTS
    g1 = g1  g2 = g2  v1 = v1
    NoGeom = NoGeom  Invalid = Invalid  None = None
    ProviderIds = {1, 2}
    Stored <- OneStored
    Geoms = {g1, g2}
    Vals = {v1}
    CapSets <- NoBulk
    NewFeats <- FeatsAdded
    Selectable <- OneSelectable
    Extents <- WholeExtent
    MaxNew = 1
    MaxCmds = 3
    MaxCommits = 0
SPECIFICATION Spec
INVARIANTS
    TypeOK
    UndoRestores
CHECK_DEADLOCK FALSE
