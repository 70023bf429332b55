SPECIFICATION Spec
CONSTANTS
    Runs = {r1, r2}
    Readers = {q1}
    Datasets = {d1, d2}
    Columns = {a, b}
    WholeTable = WholeTable
    Nobody = Nobody
    MaxItems = 2
SYMMETRY Symmetry
INVARIANTS
    RunsAreWhole
    ReadsAreCurrent
PROPERTY HistoryOnlyGrows
