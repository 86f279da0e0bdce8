SPECIFICATION CheckerSpec
CONSTANTS
    Width <- Bits64
    MaxSpecifiers = 5
    MaxDepth = 2
    MaxWraps = 2
    MaxNodes = 5
INVARIANTS
    FoldedIsC
    DeclaredType
    InitializersMeanTheSame
