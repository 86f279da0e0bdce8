CONSTANTS
    Thief = {t1, t2}
    Signaler = {s1}
    StackDepth = 3
    MaxFrame = 5
SPECIFICATION Spec
PROPERTIES
    GiveUpOnlyWhenEmpty
