------------------------------ MODULE Scoping ------------------------------
(***************************************************************************)
(* What a symbol table promises its users (src/cilk2c/symbol.h): block     *)
(* structured scopes for the nested table, one scope for the flat one.     *)
(* A declaration belongs to the innermost scope, the first of two in one   *)
(* scope wins, a lookup finds the innermost, and at the end of a scope     *)
(* everything declared in it, the losers included, is reported dead.       *)
(***************************************************************************)
EXTENDS Naturals, Sequences, SequencesExt

CONSTANTS Names, Vars,
          MAX_SCOPE_DEPTH   \* levels are below it

NoVar == "no variable"

VARIABLES scope,    \* the open scopes, outermost first: what each name is
          members,  \* the variables declared in each, losers included
          flat,     \* what each name is in the flat table
          answer    \* the variables the last operation returned or reported

vars == <<scope, members, flat, answer>>

Nothing == [n \in Names |-> NoVar]
Top     == Len(scope)

Init == scope = <<Nothing>> /\ members = <<{}>> /\ flat = Nothing /\ answer = {}

EnterScope ==
    /\ Top < MAX_SCOPE_DEPTH
    /\ scope' = Append(scope, Nothing) /\ members' = Append(members, {})
    /\ answer' = {} /\ UNCHANGED flat

ExitScope ==
    /\ Top > 1
    /\ scope' = Front(scope) /\ members' = Front(members)
    /\ answer' = Last(members) /\ UNCHANGED flat

First(old, new) == IF old = NoVar THEN new ELSE old

Declare(n, v) ==
    /\ scope' = [scope EXCEPT ![Top][n] = First(@, v)]
    /\ members' = IF Top > 1 THEN [members EXCEPT ![Top] = @ \cup {v}] ELSE members
    /\ answer' = {First(scope[Top][n], v)}
    /\ UNCHANGED flat

Visible(n) ==
    LET in == {i \in DOMAIN scope : scope[i][n] /= NoVar}
    IN  IF in = {} THEN NoVar
        ELSE scope[CHOOSE i \in in : \A j \in in : j <= i][n]

Lookup(n) == answer' = {Visible(n)} \ {NoVar} /\ UNCHANGED <<scope, members, flat>>

DeclareFlat(n, v) ==
    /\ flat' = [flat EXCEPT ![n] = First(@, v)]
    /\ answer' = {First(flat[n], v)}
    /\ UNCHANGED <<scope, members>>

LookupFlat(n) == answer' = {flat[n]} \ {NoVar} /\ UNCHANGED <<scope, members, flat>>

Reset ==
    /\ flat' = Nothing
    /\ answer' = {flat[n] : n \in Names} \ {NoVar}
    /\ UNCHANGED <<scope, members>>

Next ==
    \/ EnterScope \/ ExitScope \/ Reset
    \/ \E n \in Names :
          \/ Lookup(n) \/ LookupFlat(n)
          \/ \E v \in Vars : Declare(n, v) \/ DeclareFlat(n, v)

Spec == Init /\ [][Next]_vars
=============================================================================
