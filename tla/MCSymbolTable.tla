--------------------------- MODULE MCSymbolTable ---------------------------
EXTENDS SymbolTable, TLC
OneBucket(n) == 0
Symmetry == Permutations(Vars)
=============================================================================
