SPECIFICATION Spec
CONSTANTS
    s1 = s1
    s2 = s2
    f1 = f1
    f2 = f2
    None = None
    Server <- OneServer
    File <- TwoFiles
    MaxTime = 2
    MaxId = 3
    DeleteBatch = 1
    RestoreBatch = 2
    IdsReused = FALSE
INVARIANTS
    TypeOK
    RestoredOnce
PROPERTIES
    ImplementsRowKeeper
