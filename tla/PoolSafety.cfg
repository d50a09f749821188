\* Two worker threads and the main thread on a pool of two connections.
CONSTANTS
    t1 = t1  t2 = t2  t3 = t3
    c1 = c1  c2 = c2  c3 = c3
    NULL = NULL
    Threads <- ThreeThreads
    Main = t3
    Conns <- ThreeConns
    Max = 2
    Expiry = 1
    Day = 2
    MaxHeld = 2
    MaxCalls = 2
SPECIFICATION Spec
SYMMETRY Sym
INVARIANTS
    TypeOK
    PermitsAccounted
    OneOwner
    OpenLimit
    InvalidatedNotReused
PROPERTIES
    Contract_Spec
