\* Two workers that nest one acquire in another, on a pool of three.
CONSTANTS
    t1 = t1  t2 = t2  t3 = t3
    c1 = c1  c2 = c2  c3 = c3
    NULL = NULL
    Threads <- TwoThreads
    Main = t3
    Conns <- ThreeConns
    Max = 3
    Expiry = 1
    Day = 2
    MaxHeld = 2
    MaxCalls = 1
SPECIFICATION FairSpec
PROPERTY PermitsComeBack
