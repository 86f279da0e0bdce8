\* Two thieves, one signaler and a short stack: a thief can steal twice from
\* one stack while the other one and a signaler hold the closure up, and a
\* second closure reuses the stack.
CONSTANTS
    Thief = {t1, t2}
    Signaler = {s1}
    StackDepth = 4
    MaxFrame = 6
SPECIFICATION Spec
INVARIANTS
    IInv
    NoFrameRunTwice
PROPERTIES
    SignalNotLost
    TakenOnce
    DequeSpec
