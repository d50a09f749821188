\* Two layers of up to one feature each, three commits and two synchronisations
\* with two failures.
CONSTANTS
    l1 = l1  l2 = l2
    Layers <- TwoLayers
    Values = {1, 2}
    Unknown <- MinusOne
    MaxRemote = 1
    MaxFid = 3
    MaxEdits = 3
    MaxSyncs = 2
    MaxFaults = 2
SPECIFICATION Spec
SYMMETRY LayerSymmetry
INVARIANTS
    TypeOK
    NothingLost
    LogIsTheDifference
    LookupSound
PROPERTY TheirsKept
