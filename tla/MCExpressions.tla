--------------------------- MODULE MCExpressions ---------------------------
(* Two parts of the checker, each on small programs of its own: constant   *)
(* expressions and types, and initializers.                                *)
EXTENDS Expressions, TLC

CONSTANTS MaxWraps, MaxNodes
VARIABLE decl

I == INSTANCE Initializers

Bits64 == [Schar |-> 2, Uchar |-> 2, Sint |-> 3, Uint |-> 3, Slong |-> 5, Ulong |-> 5,
           Slonglong |-> 5, Ulonglong |-> 5]

CheckerInit == Init /\ I!Init
CheckerNext == \/ Next   /\ decl = I!NULL /\ UNCHANGED decl
               \/ I!Next /\ stack = <<>>  /\ UNCHANGED stack
CheckerSpec == CheckerInit /\ [][CheckerNext]_<<stack, decl>>

(* Initializers keep their meaning (SemCheckInitList, SUE_MatchInitList).  *)
InitializersMeanTheSame == I!InitializersMeanTheSame
=============================================================================
