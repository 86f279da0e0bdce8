SPECIFICATION FairSpec
CONSTANTS
    Worker = {w1, w2, w3}
    Nobody = Nobody
    InOrder = FALSE
    MaxRound = 3
PROPERTIES
    Reusable
CHECK_DEADLOCK FALSE
