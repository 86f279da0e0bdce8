\* Workers are numbers other than None, which is 0.
SPECIFICATION Spec
CONSTANTS
    Worker = {11, 12, 13}
    First = 11
    MaxProc = 4
    MaxAbort = 1
INVARIANTS
    OnePlace
    JoinCountsChildren
    RuleD
    Assertions
    NobodyForgotten
    AbortReaches
    SyncWaits
    DoneIsDone
PROPERTIES
    ResultOnce
