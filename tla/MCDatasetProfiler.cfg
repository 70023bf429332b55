SPECIFICATION Spec
CONSTANTS
    v1 = v1
    v2 = v2
    v3 = v3
    Values <- ThreeValues
    Null = Null
    ReservedNames = {"id"}
    SuffixedNames = {"order_id"}
    OtherNames = {"amount"}
    MaxRows = 3
    MaxCells = 6
    CardinalityLimit = 50
SYMMETRY ValueSymmetry
INVARIANTS
    CountsAgree
    UniquenessMeansNoNulls
    RolesAgree
    EvidenceExplainsRoles
CHECK_DEADLOCK FALSE
