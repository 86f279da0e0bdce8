\* Workers are numbers other than None, which is 0.
SPECIFICATION Spec
CONSTANTS
    Worker = {11, 12}
    First = 11
    MaxProc = 3
    MaxAbort = 0
INVARIANTS
    ReadyHasNoChildren
