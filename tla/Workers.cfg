SPECIFICATION FairSpec
CONSTANTS
    Worker = {w0, w1, w2}
    First = w0
    MaxStart = 2
INVARIANTS
    MainAlone
    IInv
PROPERTIES
    ReturnsWhenDone
    CallsReturn
