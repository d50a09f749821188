\* Two readers, two features, a rectangle with one of them and one with both.
CONSTANTS
    f1 = f1  f2 = f2  r1 = r1  r2 = r2
    Features = {f1, f2}
    Rects <- Nested
    Whole = Whole
    Readers = {r1, r2}
    PageSize = 1
    Requests <- Asked
    MaxGen = 2
    MaxEvents = 1
SPECIFICATION Spec
SYMMETRY ReaderSymmetry
INVARIANTS
    TypeOK
    NothingMissed
    ServedCompletely
    TwiceOnlyInRace
    CountExact
    NobodyWaitsInVain
CHECK_DEADLOCK FALSE
