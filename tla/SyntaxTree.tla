----------------------------- MODULE SyntaxTree -----------------------------
(***************************************************************************)
(* The abstract syntax tree of cilk2c (src/cilk2c/ast.h, ast.c).           *)
(*                                                                         *)
(* A program is written as a nested term and then stored in a heap: a      *)
(* sequence of nodes in preorder, where a child is the index of its node   *)
(* and 0 is NULL.  The index is the node's identity, the address it has in *)
(* the compiler, so the analyses can hang their results on it.             *)
(*                                                                         *)
(* Variables, labels and inlets have distinct names in a tree: scoping is  *)
(* the subject of SymbolTable, and `decl' of an identifier is the name     *)
(* itself.  Types are left out; the variables of a term are scalars.       *)
(***************************************************************************)
EXTENDS Naturals, Sequences, SequencesExt, FiniteSets

NULL == 0
None == [typ |-> "None"]

-----------------------------------------------------------------------------
(* Constructors of terms (MakeConst ... MakeSynched in ast.c).  Every node *)
(* has its type, its operator or flag, the name it declares or uses, and   *)
(* its children in the order of ASTWALK.                                   *)

Term(typ, op, name, kids) == [typ |-> typ, op |-> op, name |-> name, kids |-> kids]

Const             == Term("Const", "", "", <<>>)
Id(x)             == Term("Id", "", x, <<>>)
Unary(op, e)      == Term("Unary", op, "", <<e>>)
Binop(op, l, r)   == Term("Binop", op, "", <<l, r>>)
Comma(es)         == Term("Comma", "", "", es)
Ternary(c, t, f)  == Term("Ternary", "", "", <<c, t, f>>)
Call(args)        == Term("Call", "", "", <<Const>> \o args)
Label(l)          == Term("Label", "", l, <<>>)
Goto(l)           == Term("Goto", "", l, <<>>)
Switch(e, s)      == Term("Switch", "", "", <<e, s>>)
Case              == Term("Case", "", "", <<>>)
Default           == Term("Default", "", "", <<>>)
If(e, s)          == Term("If", "", "", <<e, s>>)
IfElse(e, t, f)   == Term("IfElse", "", "", <<e, t, f>>)
While(e, s)       == Term("While", "", "", <<e, s>>)
Do(s, e)          == Term("Do", "", "", <<s, e>>)
For(i, c, nx, s)  == Term("For", "", "", <<i, c, nx, s>>)
Continue          == Term("Continue", "", "", <<>>)
Break             == Term("Break", "", "", <<>>)
Return(e)         == Term("Return", "", "", <<e>>)
Block(stmts)      == Term("Block", "", "", stmts)
\* op is "" for a scalar, "formal", "array" or "static".
Decl(op, x, init) == Term("Decl", op, x, <<init>>)
\* op is the type the procedure returns; its body is the last child.
Proc(op, f, formals, body) == Term("Proc", op, f, Append(formals, body))
Asm(outputs)      == Term("Asm", "", "", outputs)
Sync              == Term("Sync", "", "", <<>>)
Abort             == Term("Abort", "", "", <<>>)
Synched           == Term("Synched", "", "", <<>>)
\* op is the assignment of the spawn's result: "", "=" or "+=".
Spawn(r, op, args) == Term("Spawn", op, "", <<r, Const>> \o args)
\* name is the inlet's; the first argument is the spawn.
InletCall(i, args) == Term("InletCall", "", i, <<Const>> \o args)

-----------------------------------------------------------------------------
(* Storing a term: the nodes in preorder, with the node that encloses each *)
(* one for `break', `continue', `case' and `return' (AddContainee and      *)
(* PopContainer in container.c; AddReturn).                                *)

Loops == {"While", "Do", "For"}

(* What a node's children see as their containers. *)
Within(n, t, ctx) ==
    CASE t.typ \in Loops  -> [ctx EXCEPT !.brk = n, !.cont = n]
      [] t.typ = "Switch" -> [ctx EXCEPT !.brk = n, !.sw = n]
      [] t.typ = "Proc"   -> [ctx EXCEPT !.proc = n]
      [] t.typ = "InletCall" -> [ctx EXCEPT !.inlet = TRUE]
      [] OTHER            -> ctx

Container(t, ctx) ==
    CASE t.typ = "Break"               -> ctx.brk
      [] t.typ = "Continue"            -> ctx.cont
      [] t.typ \in {"Case", "Default"} -> ctx.sw
      [] t.typ = "Return"              -> ctx.proc
      [] OTHER                         -> NULL

RECURSIVE Store(_, _, _)
(* The heap of term t whose root has index n. *)
Store(t, n, ctx) ==
    LET inside == Within(n, t, ctx)
        Add(acc, kid) ==
            IF kid.typ = "None" THEN [acc EXCEPT !.kids = Append(@, NULL)]
            ELSE LET at == n + Len(acc.heap) + 1
                 IN  [kids |-> Append(acc.kids, at),
                      heap |-> acc.heap \o Store(kid, at, inside)]
        below == FoldLeft(Add, [kids |-> <<>>, heap |-> <<>>], t.kids)
    IN  <<[typ |-> t.typ, op |-> t.op, name |-> t.name, kids |-> below.kids,
           container |-> Container(t, ctx), in_inlet |-> ctx.inlet]>> \o below.heap

Tree(t) == Store(t, 1, [brk |-> NULL, cont |-> NULL, sw |-> NULL, proc |-> NULL,
                        inlet |-> FALSE])

-----------------------------------------------------------------------------
(* Walking a tree (ASTWALK, WalkTree). *)

Nodes(T)     == DOMAIN T
OfType(T, t) == {n \in Nodes(T) : T[n].typ = t}
Kid(T, n, i) == T[n].kids[i]

RECURSIVE Subtree(_, _)
Subtree(T, n) ==
    IF n = NULL THEN {} ELSE {n} \cup UNION {Subtree(T, k) : k \in Range(T[n].kids)}

HasDefault(T, sw) == \E d \in OfType(T, "Default") : T[d].container = sw
LabelNamed(T, l)  == CHOOSE n \in OfType(T, "Label") : T[n].name = l
InletNamed(T, i)  == CHOOSE n \in OfType(T, "Proc") : T[n].name = i
NestedProcs(T)    == OfType(T, "Proc") \ {1}

(* The label a goto points to (BuildLabel, ResolveGoto, label_conflict). A *)
(* goto makes a label if its name has none yet.  When the label itself     *)
(* comes, the gotos so far are turned to it, but the table keeps the first *)
(* one: a later goto points to that, which is nowhere in the tree.         *)
Nowhere == 0
LabelOf(T, goto) ==
    LET l == LabelNamed(T, T[goto].name)
        Before == \E g \in OfType(T, "Goto") : T[g].name = T[goto].name /\ g < l
    IN  IF goto > l /\ Before THEN Nowhere ELSE l

IsId(T, n) == n /= NULL /\ T[n].typ = "Id"
=============================================================================
