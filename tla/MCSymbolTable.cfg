SPECIFICATION Spec
CONSTANTS
    Names = {"a", "b"}
    Vars = {v1, v2, v3}
    hash <- OneBucket
    MAX_SCOPE_DEPTH = 3
    MaxVersion = 2
SYMMETRY Symmetry
PROPERTY TablesAreScopes
