SPECIFICATION Spec
CONSTANTS
    MAX_BITVECTOR_LENGTH = 2
    Programs <- AllPrograms
    MaxChildren = 2
INVARIANTS
    ReadsFresh
    ReturnsSynched
    EntryNamesTheSpawn
    AnalysesSettle
