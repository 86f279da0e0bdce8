SPECIFICATION FairSpec
CONSTANTS
    Worker = {w1, w2, w3}
    Nobody = Nobody
    InOrder = TRUE
    MaxRound = 3
PROPERTIES
    Rendezvous
    Reusable
CHECK_DEADLOCK FALSE
