\* Workers are numbers other than None, which is 0.
SPECIFICATION FairSpec
CONSTANTS
    Worker = {11, 12}
    First = 11
    MaxProc = 4
    MaxAbort = 2
PROPERTIES
    Completes
