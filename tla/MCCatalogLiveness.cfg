SPECIFICATION FairSpec
CONSTANTS
    p1 = p1
    p2 = p2
    t1 = t1
    t2 = t2
    t3 = t3
    d1 = d1
    d2 = d2
    Ids <- OneId
    Procs <- TwoProcs
    Threads <- ThreeThreads
    ProcOf <- ThreadsOfProcs
    LastVersion = 1
    NoProc = NoProc
    NoThread = NoThread
PROPERTY LockIsReleased
