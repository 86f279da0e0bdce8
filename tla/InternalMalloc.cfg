SPECIFICATION FairSpec
CONSTANTS
    Worker = {w0, w1}
    Global = global
    Size = {2}
    Request = {2}
    Batch = 4
    Chunk = 5
    MaxHeld = 3
INVARIANTS
    IInv
    NeverNeedsOwnLock
    BooksBalance
    NoBlowup
PROPERTIES
    Returns
