SPECIFICATION Spec
CONSTANTS
    Procs = {p1, p2}
    Connections = {c1, c2}
    Ids = {i1}
    Assets = {a1}
    Unsupported = {}
    None = None
INVARIANT ListsOwnProcess
