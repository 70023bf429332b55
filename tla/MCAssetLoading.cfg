SPECIFICATION Spec
CONSTANTS
    Loads = {l1}
    Chunks = 2
    MaxFiles = 3
    MaxRewrites = 1
INVARIANTS
    TypeOK
    QuiescentLoadAgrees
    OneFilePerRead
    ErrorsHaveCauses
