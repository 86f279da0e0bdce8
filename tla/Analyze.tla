------------------------------- MODULE Analyze -------------------------------
(***************************************************************************)
(* The analyses of cilk2c (src/cilk2c/analyze.c): live variables, dirty    *)
(* variables, returns and syncs, each an instance of the data-flow         *)
(* framework, as a machine that makes one sweep over the tree in a step.   *)
(*                                                                         *)
(* A flow value holds the numbers of bits, as the code's does, and the     *)
(* number means a variable of the chunk to the first two analyses and a    *)
(* flag to the last two: a confluence point keeps its bits from one        *)
(* analysis to the next and only `undefined' says that they are stale.     *)
(***************************************************************************)
EXTENDS SyntaxTree, Integers

CONSTANTS MAX_BITVECTOR_LENGTH,     \* variables analysed at a time
          Programs                  \* the procedures to compile, as terms

VARIABLES tree,     \* the procedure being compiled
          pass,     \* the analysis under way, an index of Passes(tree)
          sweep     \* the record the sweeps of the analysis work on

analyzeVars == <<tree, pass, sweep>>

-----------------------------------------------------------------------------
(* Bit vectors. *)

REACHABLE            == 0
VALUE_RETURNED       == 1
NOTHING_RETURNED     == 2
CHILDREN_OUTSTANDING == 1

EmptySet == [undefined |-> FALSE, bits |-> {}]
TotalBits == 0 .. MAX_BITVECTOR_LENGTH + 1

SetUnion(v1, v2) ==
    IF v1.undefined THEN v2
    ELSE IF v2.undefined THEN v1
    ELSE [undefined |-> FALSE, bits |-> v1.bits \cup v2.bits]

SetEqual(v1, v2) ==
    /\ v1.undefined <=> v2.undefined
    /\ v1.undefined \/ v1.bits = v2.bits

(* GenKill: an undefined value is taken for the empty set. *)
GenKill(v, gen, kill) ==
    [undefined |-> FALSE,
     bits |-> ((IF v.undefined THEN {} ELSE v.bits) \ kill) \cup gen]

ListFind(vars, x)    == {i - 1 : i \in {j \in DOMAIN vars : vars[j] = x}}
ListSelect(vars, v)  == {vars[b + 1] : b \in {b \in v.bits : b + 1 \in DOMAIN vars}}

RECURSIVE Chunks(_, _)
(* ApplyInChunks: the variables, k at a time. *)
Chunks(vars, k) ==
    IF vars = <<>> THEN <<>>
    ELSE IF Len(vars) <= k THEN <<vars>>
    ELSE <<SubSeq(vars, 1, k)>> \o Chunks(SubSeq(vars, k + 1, Len(vars)), k)

-----------------------------------------------------------------------------
(* The local scalars that may live in registers: not static, not aliased   *)
(* by an &.  Procedures nested in this one are not searched, neither for   *)
(* declarations nor for addresses taken.                                   *)

InNestedProc(T) == UNION {Subtree(T, p) : p \in NestedProcs(T)}

Aliased(T, ns) ==
    {T[T[n].kids[1]].name :
        n \in {m \in ns : T[m].typ = "Unary" /\ T[m].op = "&" /\ IsId(T, T[m].kids[1])}}

RegisterVariables(T) ==
    LET walked == Nodes(T) \ InNestedProc(T)
        decls  == {n \in walked : /\ T[n].typ = "Decl"
                                  /\ T[n].op \in {"", "formal"}
                                  /\ T[n].name \notin Aliased(T, walked)}
    IN  Reverse([i \in DOMAIN SetToSortSeq(decls, <) |-> T[SetToSortSeq(decls, <)[i]].name])

-----------------------------------------------------------------------------
(* Live variables, backwards. *)

AssignmentOps == {"=", "+="}
IncDecOps     == {"++", "--"}

(* The identifiers that an assignment or a spawn only writes. *)
OnlyWritten(T, n) ==
    \E m \in Nodes(T) : /\ T[m].typ \in {"Binop", "Spawn"}
                        /\ T[m].op = "="
                        /\ T[m].kids[1] = n

GenLV(s, n) ==
    IF s.tree[n].typ = "Id" /\ ~OnlyWritten(s.tree, n)
    THEN ListFind(s.vars, s.tree[n].name) ELSE {}

KillLV(s, n) ==
    LET T == s.tree
    IN  CASE T[n].typ = "Decl" -> ListFind(s.vars, T[n].name)
          [] /\ T[n].typ \in {"Binop", "Spawn"}
             /\ T[n].op = "="
             /\ IsId(T, T[n].kids[1]) -> ListFind(s.vars, T[T[n].kids[1]].name)
          [] OTHER -> {}

(* What flows at the end of the inlet's own analysis. *)
InletValues(s, n) == s.conf[<<InletNamed(s.tree, s.tree[n].name), "return">>]

TransLV(n, s, p) ==
    LET typ  == s.tree[n].typ
        live == ListSelect(s.vars, s.v)
        v    == GenKill(s.v, GenLV(s, n), KillLV(s, n))
    IN  IF p = "Entry"
        THEN IF s.final /\ typ = "Return"
             THEN [s EXCEPT !.out.rlive[n] = @ \cup live] ELSE s
        ELSE [s EXCEPT !.out.live[n] = @ \cup (IF s.final THEN live ELSE {}),
                       !.v = IF typ = "InletCall" THEN SetUnion(v, InletValues(s, n)) ELSE v]

-----------------------------------------------------------------------------
(* Dirty variables, forwards: changed since the last spawn saved them. *)

GenDV(s, n) ==
    LET T == s.tree
        Writes == \/ T[n].typ = "Binop" /\ T[n].op \in AssignmentOps
                  \/ T[n].typ = "Unary" /\ T[n].op \in IncDecOps
                  \/ T[n].typ = "Spawn" /\ ~T[n].in_inlet
    IN  CASE T[n].typ = "Decl" /\ T[n].kids[1] /= NULL -> ListFind(s.vars, T[n].name)
          [] Writes /\ IsId(T, T[n].kids[1]) -> ListFind(s.vars, T[T[n].kids[1]].name)
          [] OTHER -> {}

KillDV(s, n) ==
    LET T == s.tree
    IN  IF \/ T[n].typ = "Spawn" /\ ~T[n].in_inlet
           \/ T[n].typ = "InletCall"
        THEN TotalBits ELSE {}

TransDV(n, s, p) ==
    LET typ   == s.tree[n].typ
        dirty == ListSelect(s.vars, s.v)
        v     == GenKill(s.v, GenDV(s, n), KillDV(s, n))
    IN  IF p = "Entry"
        THEN IF s.final /\ typ = "Return"
             THEN [s EXCEPT !.out.rdirty[n] = @ \cup (dirty \cap s.out.rlive[n])] ELSE s
        ELSE [s EXCEPT !.out.dirty[n] =
                            @ \cup (IF s.final THEN dirty \cap s.out.live[n] ELSE {}),
                       !.v = IF typ = "InletCall" THEN SetUnion(v, InletValues(s, n)) ELSE v]

-----------------------------------------------------------------------------
(* Does control reach the end, and is something returned? *)

ExprTypes == {"Const", "Id", "Binop", "Unary", "Comma", "Ternary", "Call", "Asm", "Synched"}

TransRF(n, s, p) ==
    LET typ == s.tree[n].typ
        op  == s.tree[n].op
        flag == IF s.tree[n].kids = <<NULL>> THEN NOTHING_RETURNED ELSE VALUE_RETURNED
    IN  CASE p = "Entry" /\ s.v.undefined /\ typ \in ExprTypes -> [s EXCEPT !.v = EmptySet]
          [] p = "Exit" /\ typ = "Return" ->
                [s EXCEPT !.v.bits = (@ \ {REACHABLE}) \cup {flag}]
          [] p = "Exit" /\ typ = "Proc" /\ s.final /\ REACHABLE \in s.v.bits ->
                [s EXCEPT !.out.needs_return = @ \cup {n}]
          [] OTHER -> s

-----------------------------------------------------------------------------
(* May children be outstanding at a return or at the end? *)

\* mutant: only the end is looked at.
TransSFAtTheEnd(n, s, p) ==
    [s EXCEPT !.out.needs_sync = IF s.final /\ n = 1 /\ p = "Exit" THEN {1} ELSE @]

GenSF(T, n)  == IF T[n].typ \in {"Spawn", "InletCall"} THEN {CHILDREN_OUTSTANDING} ELSE {}
KillSF(T, n) == IF T[n].typ \in {"Sync", "Return"} THEN {CHILDREN_OUTSTANDING} ELSE {}

TransSF(n, s, p) ==
    LET typ   == s.tree[n].typ
        found == s.final /\ CHILDREN_OUTSTANDING \in s.v.bits /\ typ \in {"Return", "Proc"}
    IN  IF p = "Entry" THEN s
        ELSE [s EXCEPT !.out.needs_sync = IF found THEN @ \cup {n} ELSE @,
                       !.v = GenKill(@, GenSF(s.tree, n), KillSF(s.tree, n))]

-----------------------------------------------------------------------------
(* The analyses as instances of the framework. *)

LV == INSTANCE DataFlow WITH Forward <- FALSE, Meet <- SetUnion, Equal <- SetEqual,
                             Trans <- TransLV
DV == INSTANCE DataFlow WITH Forward <- TRUE, Meet <- SetUnion, Equal <- SetEqual,
                             Trans <- TransDV
RF == INSTANCE DataFlow WITH Forward <- TRUE, Meet <- SetUnion, Equal <- SetEqual,
                             Trans <- TransRF
SF == INSTANCE DataFlow WITH Forward <- TRUE, Meet <- SetUnion, Equal <- SetEqual,
                             Trans <- TransSF

DoSweep(analysis, s) ==
    CASE analysis = "LV" -> LV!Sweep(s)
      [] analysis = "DV" -> DV!Sweep(s)
      [] analysis = "RF" -> RF!Sweep(s)
      [] analysis = "SF" -> SF!Sweep(s)

(* AnalyzeProgram, on one procedure: live and dirty variables chunk by     *)
(* chunk, then returns, then syncs.                                        *)
Passes(T, k) ==
    LET chunks == Chunks(RegisterVariables(T), k)
        Over(analysis) == [i \in DOMAIN chunks |-> [analysis |-> analysis, vars |-> chunks[i]]]
    IN  Over("LV") \o Over("DV") \o
        <<[analysis |-> "RF", vars |-> <<>>], [analysis |-> "SF", vars |-> <<>>]>>

Formals(T) == {T[n].name : n \in {m \in OfType(T, "Decl") : T[m].op = "formal"}}

(* The value the procedure starts from. *)
InitialValue(T, ps) ==
    CASE ps.analysis = "DV" ->
            [EmptySet EXCEPT !.bits = UNION {ListFind(ps.vars, x) : x \in Formals(T)}]
      [] ps.analysis = "RF" -> [EmptySet EXCEPT !.bits = {REACHABLE}]
      [] OTHER -> EmptySet

StartPass(s, ps) ==
    LV!InitConfluencePoints([s EXCEPT !.vars = ps.vars, !.final = FALSE,
                                      !.init = InitialValue(s.tree, ps)])

(* The tree as the parser leaves it: no results, and confluence points     *)
(* whose bits are zero.                                                    *)
Fresh(T) ==
    LET none == [n \in Nodes(T) |-> {}]
    IN  [tree |-> T, vars |-> <<>>, init |-> EmptySet, v |-> EmptySet,
         conf |-> [c \in LV!ConfPoints(T) \cup LV!Elsewhere |-> EmptySet],
         changed |-> FALSE, final |-> FALSE,
         out |-> [live |-> none, dirty |-> none, rlive |-> none, rdirty |-> none,
                  needs_return |-> {}, needs_sync |-> {}]]

ThePasses == Passes(tree, MAX_BITVECTOR_LENGTH)
Analyzed  == pass > Len(ThePasses)
out       == sweep.out

InitAnalyze ==
    /\ tree \in {Tree(t) : t \in Programs}
    /\ pass = 1
    /\ sweep = StartPass(Fresh(tree), ThePasses[1])

(* Another sweep: some confluence point moved in the last one. *)
Iterate ==
    /\ ~Analyzed
    /\ sweep.changed
    /\ sweep' = DoSweep(ThePasses[pass].analysis, sweep)
    /\ UNCHANGED <<tree, pass>>

(* The last sweep of an analysis records its results; the next begins. *)
Finish ==
    /\ ~Analyzed
    /\ ~sweep.changed
    /\ LET done == DoSweep(ThePasses[pass].analysis, [sweep EXCEPT !.final = TRUE])
       IN  sweep' = IF pass = Len(ThePasses) THEN done
                    ELSE StartPass(done, ThePasses[pass + 1])
    /\ pass' = pass + 1
    /\ UNCHANGED tree

NextAnalyze == Iterate \/ Finish
=============================================================================
