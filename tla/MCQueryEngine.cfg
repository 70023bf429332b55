SPECIFICATION FairSpec
CONSTANT Calls = {c1, c2}
INVARIANTS
    ResultNeverInterrupted
    InterruptBlamedOnDeadline
    LimitOnlyAfterDeadline
    NothingLeftBehind
    EngineInv
PROPERTIES
    ImplementsGovernance
    RunningQueryEnds
