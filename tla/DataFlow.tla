------------------------------ MODULE DataFlow ------------------------------
(***************************************************************************)
(* The generic data-flow framework of cilk2c (src/cilk2c/dataflow.c).      *)
(*                                                                         *)
(* The framework pushes a flow value through the syntax tree.  Where paths *)
(* of control meet (a label, the head, the end and the `continue' of a     *)
(* loop, the end and the cases of a switch, the return of a procedure) the *)
(* value is met with the one a confluence point of the tree holds.         *)
(*                                                                         *)
(* Everything a sweep changes is in one record, s, which every operator    *)
(* takes and returns:                                                      *)
(*   tree     the syntax tree;                                             *)
(*   vars     VariableSet, the variables of this chunk;                    *)
(*   init     Init, the value a procedure starts from;                     *)
(*   v        the value that flows, [undefined, bits];                     *)
(*   conf     the confluence points, by node and field;                    *)
(*   changed  Changed: some confluence point has moved in this sweep;      *)
(*   final    Final: this is the sweep that records results;               *)
(*   out      the results the transfer function hangs on the tree.         *)
(* As in the code an undefined value keeps its old bits.                   *)
(***************************************************************************)
EXTENDS SyntaxTree

CONSTANTS
    Forward,            \* Forw: the direction of the flow
    Meet(_, _),         \* the meet of two flow values
    Equal(_, _),        \* when two flow values are the same
    Trans(_, _, _)      \* the transfer function: node, sweep, point

-----------------------------------------------------------------------------
(* The confluence points of each type of node, and where `continue' goes. *)

ConfFields ==
    [Label  |-> {"label"},
     Switch |-> {"switch", "break"},
     While  |-> {"loop", "break"},
     Do     |-> {"loop", "continue", "break"},
     For    |-> {"loop", "continue", "break"},
     Proc   |-> {"return"}]

ConfPoints(T) ==
    UNION {{<<n, f>> : f \in ConfFields[T[n].typ]} :
               n \in {m \in Nodes(T) : T[m].typ \in DOMAIN ConfFields}}

(* The point of a label that is not in the tree. *)
Elsewhere == {<<Nowhere, "label">>}

Undef(v) == [v EXCEPT !.undefined = TRUE]

\* mutant: the `continue' of a loop is forgotten.
InitConfluencePointsButContinue(s) ==
    [s EXCEPT !.conf = [c \in DOMAIN s.conf |->
                           IF c \in ConfPoints(s.tree) /\ c[2] /= "continue"
                           THEN Undef(s.conf[c]) ELSE s.conf[c]],
              !.changed = ConfPoints(s.tree) /= {}]

(* InitConfluencePoints: every point of the tree is undefined, with the    *)
(* bits it had.                                                            *)
InitConfluencePoints(s) ==
    [s EXCEPT !.conf = [c \in DOMAIN s.conf |->
                           IF c \in ConfPoints(s.tree) THEN Undef(s.conf[c]) ELSE s.conf[c]],
              !.changed = ConfPoints(s.tree) /= {}]

ContinuePoint(T, loop) ==
    <<loop, IF T[loop].typ = "While" THEN "loop" ELSE "continue">>

-----------------------------------------------------------------------------
With(s, v) == [s EXCEPT !.v = v]

\* mutant: the value replaces the one of the confluence point.
FlowIntoReplacing(s, c) ==
    IF Equal(s.conf[c], s.v) THEN s ELSE [s EXCEPT !.conf[c] = s.v, !.changed = TRUE]

(* FlowInto: meet the value with confluence point c and carry on with it. *)
FlowInto(s, c) ==
    LET new == Meet(s.conf[c], s.v)
    IN  IF Equal(s.conf[c], new) THEN With(s, new)
        ELSE [s EXCEPT !.conf[c] = new, !.changed = TRUE, !.v = new]

(* Carry on with the value confluence point c holds. *)
From(s, c) == With(s, s.conf[c])

Entry(n, s) == Trans(n, s, "Entry")
Exit(n, s)  == Trans(n, s, "Exit")

RECURSIVE Flow(_, _)

(* DataFlowSerialList, and several children one after the other. *)
FlowList(ns, s) ==
    IF Forward THEN FoldLeft(LAMBDA acc, n : Flow(n, acc), s, ns)
               ELSE FoldRight(LAMBDA n, acc : Flow(n, acc), ns, s)

(* Constants, identifiers, casts, calls, blocks, declarations, spawns,     *)
(* inlet calls and so on: every child in turn, between entry and exit.     *)
FlowSerial(n, kids, s) ==
    IF Forward THEN Exit(n, FlowList(kids, Entry(n, s)))
               ELSE Entry(n, FlowList(kids, Exit(n, s)))

(* DataFlowBranch: a condition and two alternatives, each possibly NULL. *)
FlowBranch(cond, t, f, s) ==
    IF Forward
    THEN LET c  == Flow(cond, s)
             st == Flow(t, c)
             sf == Flow(f, With(st, c.v))
         IN  With(sf, Meet(st.v, sf.v))
    ELSE LET st == Flow(t, s)
             sf == Flow(f, With(st, s.v))
         IN  Flow(cond, With(sf, Meet(st.v, sf.v)))

FlowBranching(n, cond, t, f, s) ==
    IF Forward THEN Exit(n, FlowBranch(cond, t, f, Entry(n, s)))
               ELSE Entry(n, FlowBranch(cond, t, f, Exit(n, s)))

FlowLabel(n, s) ==
    IF Forward THEN Exit(n, Entry(n, FlowInto(s, <<n, "label">>)))
               ELSE FlowInto(Entry(n, Exit(n, s)), <<n, "label">>)

(* Without a default control may go from the expression to the end; it     *)
(* never falls from the expression into the statement.                     *)
FlowSwitch(n, s) ==
    LET brk == <<n, "break">>
        sw  == <<n, "switch">>
        SkipTo(from, to, r) ==
            IF HasDefault(s.tree, n) THEN r ELSE FlowInto(From(r, from), to)
    IN  IF Forward
        THEN LET e    == FlowInto(Flow(Kid(s.tree, n, 1), Entry(n, s)), sw)
                 skip == SkipTo(sw, brk, e)
                 body == Flow(Kid(s.tree, n, 2), With(skip, Undef(s.v)))
             IN  Exit(n, From(FlowInto(body, brk), brk))
        ELSE LET body == Flow(Kid(s.tree, n, 2), FlowInto(Exit(n, s), brk))
                 skip == SkipTo(brk, sw, body)
             IN  Entry(n, Flow(Kid(s.tree, n, 1), From(skip, sw)))

(* `case' and `default'. *)
FlowCase(n, s) ==
    LET sw == <<s.tree[n].container, "switch">>
    IN  IF Forward THEN Exit(n, Entry(n, With(s, Meet(s.v, s.conf[sw]))))
                   ELSE LET r == Entry(n, Exit(n, s))
                        IN  With(FlowInto(r, sw), r.v)

FlowWhile(n, s) ==
    LET cond == Kid(s.tree, n, 1)
        stmt == Kid(s.tree, n, 2)
        loop == <<n, "loop">>
        brk  == <<n, "break">>
    IN  IF Forward
        THEN LET e    == Flow(cond, From(FlowInto(Entry(n, s), loop), loop))
                 body == FlowInto(Flow(stmt, e), loop)
             IN  Exit(n, From(FlowInto(With(body, e.v), brk), brk))
        ELSE LET end  == FlowInto(Exit(n, s), brk)
                 body == Flow(stmt, From(end, loop))
                 c    == Flow(cond, With(body, Meet(body.v, body.conf[brk])))
             IN  Entry(n, From(FlowInto(c, loop), loop))

FlowDo(n, s) ==
    LET stmt == Kid(s.tree, n, 1)
        cond == Kid(s.tree, n, 2)
        loop == <<n, "loop">>
        cont == <<n, "continue">>
        brk  == <<n, "break">>
    IN  IF Forward
        THEN LET head == FlowInto(Entry(n, s), loop)
                 body == FlowInto(Flow(stmt, From(head, loop)), cont)
                 e    == Flow(cond, From(body, cont))
             IN  Exit(n, From(FlowInto(With(FlowInto(e, loop), e.v), brk), brk))
        ELSE LET end  == FlowInto(Exit(n, s), brk)
                 c    == Flow(cond, With(end, Meet(end.conf[brk], end.conf[loop])))
                 body == Flow(stmt, From(FlowInto(c, cont), cont))
             IN  Entry(n, From(FlowInto(body, loop), loop))

(* A `for' without a condition never ends by itself. *)
FlowFor(n, s) ==
    LET init == Kid(s.tree, n, 1)
        cond == Kid(s.tree, n, 2)
        next == Kid(s.tree, n, 3)
        stmt == Kid(s.tree, n, 4)
        loop == <<n, "loop">>
        cont == <<n, "continue">>
        brk  == <<n, "break">>
    IN  IF Forward
        THEN LET head == From(FlowInto(Flow(init, Entry(n, s)), loop), loop)
                 e    == IF cond = NULL THEN head
                         ELSE LET c == Flow(cond, head)
                              IN  With(FlowInto(c, brk), c.v)
                 body == FlowInto(Flow(stmt, e), cont)
                 step == FlowInto(Flow(next, From(body, cont)), loop)
             IN  Exit(n, From(step, brk))
        ELSE LET end  == FlowInto(Exit(n, s), brk)
                 step == FlowInto(Flow(next, From(end, loop)), cont)
                 e    == Flow(stmt, From(step, cont))
                 c    == IF cond = NULL THEN e
                         ELSE Flow(cond, With(e, Meet(e.conf[brk], e.v)))
             IN  Entry(n, Flow(init, From(FlowInto(c, loop), loop)))

(* goto, continue, break: control jumps to confluence point c. *)
FlowJump(n, c, s) ==
    IF Forward THEN With(FlowInto(Exit(n, Entry(n, s)), c), Undef(s.v))
               ELSE Entry(n, Exit(n, From(s, c)))

FlowReturn(n, s) ==
    IF Forward
    THEN With(FlowInto(Exit(n, FlowList(s.tree[n].kids, Entry(n, s))),
                       <<s.tree[n].container, "return">>), Undef(s.v))
    ELSE Entry(n, FlowList(s.tree[n].kids, Exit(n, With(s, s.init))))

(* A procedure, an inlet among the declarations of another one included,   *)
(* is analysed by itself and does nothing where it is declared.            *)
FlowProc(n, s) ==
    LET body == Last(s.tree[n].kids)
        ret  == <<n, "return">>
        r    == IF Forward
                THEN Exit(n, FlowInto(Flow(body, Entry(n, With(s, s.init))), ret))
                ELSE Entry(n, FlowInto(Flow(body, Exit(n, With(s, s.init))), ret))
    IN  With(r, s.v)

Flow(n, s) ==
    IF n = NULL THEN s
    ELSE LET T    == s.tree
             typ  == T[n].typ
             op   == T[n].op
             kids == T[n].kids
         IN  CASE typ = "Binop" /\ op \in {"&&", "||"} ->
                      FlowBranching(n, kids[1], kids[2], NULL, s)
               [] typ = "Unary" /\ op \in {"sizeof", "alignof"} -> FlowSerial(n, <<>>, s)
               [] typ = "If"     -> FlowBranching(n, kids[1], kids[2], NULL, s)
               [] typ \in {"IfElse", "Ternary"} ->
                      FlowBranching(n, kids[1], kids[2], kids[3], s)
               [] typ = "Label"  -> FlowLabel(n, s)
               [] typ = "Switch" -> FlowSwitch(n, s)
               [] typ \in {"Case", "Default"} -> FlowCase(n, s)
               [] typ = "While"  -> FlowWhile(n, s)
               [] typ = "Do"     -> FlowDo(n, s)
               [] typ = "For"    -> FlowFor(n, s)
               [] typ = "Goto"   -> FlowJump(n, <<LabelOf(T, n), "label">>, s)
               [] typ = "Continue" -> FlowJump(n, ContinuePoint(T, T[n].container), s)
               [] typ = "Break"  -> FlowJump(n, <<T[n].container, "break">>, s)
               [] typ = "Return" -> FlowReturn(n, s)
               [] typ = "Proc"   -> FlowProc(n, s)
               [] OTHER          -> FlowSerial(n, kids, s)

(* One sweep of IterateDataFlow over the tree. *)
Sweep(s) == Flow(1, [s EXCEPT !.v = s.init, !.changed = FALSE])
=============================================================================
