--------------------------- MODULE MCCriticalPath ---------------------------
EXTENDS CriticalPath, TLC
MCProgram == [invoke_main |-> <<"cilk_main", Sync>>,
              cilk_main |-> <<"a", "b", Sync, "c", Sync>>,
              a |-> <<"d", Sync>>, b |-> <<"e", "f", Sync>>,
              c |-> <<>>, d |-> <<>>, e |-> <<>>, f |-> <<>>]
MCCost == [invoke_main |-> <<1, 0, 1>>, cilk_main |-> <<1, 2, 3, 1, 1, 2>>,
           a |-> <<1, 9, 1>>, b |-> <<1, 1, 0, 5>>, c |-> <<4>>, d |-> <<6>>,
           e |-> <<2>>, f |-> <<7>>]
MCProcs == DOMAIN MCProgram
MCMain == "invoke_main"
Symmetry == Permutations(Workers)
=============================================================================
