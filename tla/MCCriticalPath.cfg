SPECIFICATION Spec
CONSTANTS
    Workers = {w1, w2, w3}
    Procs <- MCProcs
    Main <- MCMain
    Program <- MCProgram
    Cost <- MCCost
SYMMETRY Symmetry
INVARIANTS MeasuresAreExact
