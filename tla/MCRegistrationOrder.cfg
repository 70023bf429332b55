SPECIFICATION Spec
CONSTANTS
    Procs = {p1, p2}
    Ids = {1, 2}
    MaxTime = 3
    Second = 2
    MaxSetBacks = 1
SYMMETRY Symmetry
INVARIANTS
    ListsAreChronological
    OrderIsStable
    RegistrationOrder
