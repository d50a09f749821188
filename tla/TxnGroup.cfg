\* Up to three layers; the database may refuse anything; two restarts are pending at most.
CONSTANTS
    l1 = l1  l2 = l2  l3 = l3
    Layers = {l1, l2, l3}
    MaxQueued = 2
SPECIFICATION Spec
INVARIANTS
    TypeOK
    PassthroughInTransaction
    EditTogether
PROPERTIES
    AskedUnlessHidden
    MemberComesBack
CHECK_DEADLOCK FALSE
