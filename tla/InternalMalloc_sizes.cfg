SPECIFICATION Spec
CONSTANTS
    Worker = {w0}
    Global = global
    Size = {2, 3}
    Request = {1, 3}
    Batch = 2
    Chunk = 5
    MaxHeld = 3
INVARIANTS
    NoOverlap
