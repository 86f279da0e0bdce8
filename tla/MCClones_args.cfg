SPECIFICATION Spec
CONSTANTS
    MAX_BITVECTOR_LENGTH = 2
    Programs <- InletArgs
    MaxChildren = 2
INVARIANT
    ReadsFresh
