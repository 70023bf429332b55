SPECIFICATION Spec
CONSTANTS
    p1 = p1
    p2 = p2
    t1 = t1
    t2 = t2
    t3 = t3
    d1 = d1
    d2 = d2
    Ids <- TwoIds
    Procs <- TwoProcs
    Threads <- ThreeThreads
    ProcOf <- ThreadsOfProcs
    LastVersion = 2
    NoProc = NoProc
    NoThread = NoThread
SYMMETRY IdSymmetry
INVARIANTS
    AckedIsDurable
    SeenIsDurable
    SchemaConsistent
    OpenMeansMigrated
    NoOrphanTransaction
    RepositoryInv
PROPERTIES
    NothingCommittedIsLost
    ImplementsCatalog
