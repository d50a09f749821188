\* One layer of one feature, and a server that is out of reach once.
CONSTANTS
    l1 = l1  l2 = l2
    Layers <- OneLayer
    Values = {1, 2}
    Unknown <- MinusOne
    MaxRemote = 1
    MaxFid = 1
    MaxEdits = 1
    MaxSyncs = 2
    MaxFaults = 1
SPECIFICATION Spec
INVARIANT SynchronizedMeansStored
