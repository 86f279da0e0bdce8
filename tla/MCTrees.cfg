CONSTANTS
  TypedefNames = {"T"}
  BinaryOps = {"*", "-", "<<", "<", "==", "&", "^", "|", "&&", "||"}
  MaxWraps = 2
  MaxTypeWraps = 3
  MaxMemoryWraps = 4
  MaxPrintedWraps = 3
  Scope <- MCScope
  Fields <- MCFields
SPECIFICATION RewritesSpec
INVARIANTS AllReadBack AllWordsApart PassesKeepMeaning AccessesReported MatchesAreExact
CHECK_DEADLOCK FALSE
