------------------------------ MODULE Meaning ------------------------------
(***************************************************************************)
(* What a tree does when it is evaluated, as far as the passes of cilk2c   *)
(* have to keep it: the reference that Passes and Profile are checked      *)
(* against, after the C standard, the GNU extensions and the Cilk manual.  *)
(*                                                                         *)
(* A state of the evaluation has the events so far (stores, calls, jumps,  *)
(* and for a branch or loop the events of each of its parts); a log of the *)
(* accesses to memory and of what the profiler was told; how many acts     *)
(* there were (events that must not happen twice); what the temporary      *)
(* variables of Profile hold; the value or place v of the last expression. *)
(* Values and places are terms; a load is of a place after so many events. *)
(* Operands are evaluated from left to right, the left side of an          *)
(* assignment first.                                                       *)
(***************************************************************************)
EXTENDS Profile

Term(what, of, terms) == Node(what, of, {}, terms)

Start == [ev |-> <<>>, log |-> <<>>, acts |-> 0, temps |-> <<>>, v |-> NULL]

Valued(s, v)    == [s EXCEPT !.v = v]
Effect(s, e)    == [s EXCEPT !.ev = Append(@, e)]
Act(s, e)       == [Effect(s, e) EXCEPT !.acts = @ + 1]
Now(s)          == ToString(Len(s.ev))

TargetOf(v)  == IF v.typ = "address" THEN v.kids[1] ELSE Term("target", "", <<v>>)
PointerTo(p) == IF p.typ = "target" THEN p.kids[1] ELSE Term("address", "", <<p>>)
Plus(v, i)   == IF i.op \in {"0", "0U"} THEN v ELSE Term("+", "", <<v, i>>)
\* Converting twice to one type is converting once.
Conv(type, v) ==
  IF v.typ = "conv" /\ v.kids[1] = type THEN v ELSE Term("conv", "", <<type, v>>)

TemporaryNames ==
  {"__addressAA", "__addressDD", "__addressEE", "__addressFF", "__addressGG", "__addressHH",
   "__addressII"}

\* Registers, temporary structs and functions are not memory.
RECURSIVE InMemory(_)
InMemory(p) ==
  CASE p.typ = "variable" ->
         p.op \in DOMAIN Scope => ~Register(p) /\ Scope[p.op].kids[1].typ # "Fdcl"
    [] p.typ = "field"  -> InMemory(p.kids[1])
    [] p.typ = "target" -> TRUE
    [] p.typ = "temporary" -> FALSE

\* A bit-field has no address: its struct stands for it.
Addressed(place) ==
  IF place.typ = "field" /\ Fields[place.op].kids[3] # NULL THEN place.kids[1] ELSE place

\* What is done at a place, after how many events, by the program or as the
\* profiler is told.
Logged(s, by, what, place) ==
  [s EXCEPT !.log = Append(@, [by |-> by, what |-> what, place |-> Addressed(place), at |-> Len(s.ev)])]

\* An access, when its place is known.
Access(s, what) == IF InMemory(s.v) THEN Logged(s, "program", what, s.v) ELSE s

\* The value at the place s.v.
ValueAt(s) == Valued(s, Term("load", Now(s), <<s.v>>))
Load(s) == ValueAt(Access(s, ReadName))

Store(s, place, v) == Valued(Act(s, Term("store", "", <<place, v>>)), v)

RECURSIVE Evaluate(_, _, _)
ValueOf(n, s) == Evaluate("value", n, s)
PlaceIn(n, s) == Evaluate("place", n, s)

\* The values of several expressions are collected in v.
Values(list, s) ==
  FoldLeft(LAMBDA before, n : LET after == ValueOf(n, before.s)
                              IN [s |-> after, vs |-> Append(before.vs, after.v)],
           [s |-> s, vs |-> <<>>], list)

ActOn(what, of, list, s) ==
  LET r == Values(list, s) IN
  Valued(Act(r.s, Term(what, of, r.vs)), Term("result", Now(r.s), <<>>))

\* Parts of which some may not be evaluated, or more than once: an event, or
\* only a value when nothing happens in an expression's parts.
Parts(n, list, s) ==
  LET part(before, m) ==
        LET after == ValueOf(m, [before EXCEPT !.ev = <<>>]) IN
        [after EXCEPT !.ev = Append(before.ev, Term("part", "", Append(after.ev, after.v)))]
      r == FoldLeft(part, [s EXCEPT !.ev = <<>>], list)
      what == Term(n.typ, n.op, r.ev)
  IN IF IsExpr(n) /\ \A k \in 1 .. Len(list) : Len(r.ev[k].kids) = 1
     THEN [r EXCEPT !.ev = s.ev, !.v = Term("choice", Now(s), <<what>>)]
     ELSE [r EXCEPT !.ev = Append(s.ev, what), !.v = Term("result", Now(s), <<>>)]

-----------------------------------------------------------------------------
(* Places. *)

ElementOf(n, s) ==
  LET name == ValueOf(n.kids[1], s)
      dims == Values(Tail(n.kids), name)
  IN Valued(dims.s, FoldLeft(LAMBDA place, i : TargetOf(Plus(PointerTo(place), i)),
                             TargetOf(name.v), dims.vs))

FieldOf(n, s) == Valued(s, Term("field", n.kids[2].op, <<s.v>>))

PlaceOf(n, s) ==
  LET k == n.kids
      pointer == ValueOf(k[1], s)
      value   == ValueOf(n, s)
  IN CASE n.typ = "Id" -> Valued(s, Term("variable", n.op, <<>>))
       [] n.typ = "Array" -> ElementOf(n, s)
       [] n.typ = "Unary" /\ n.op = "INDIR" -> Valued(pointer, TargetOf(pointer.v))
       [] n.typ = "Binop" /\ n.op = "."  -> FieldOf(n, PlaceIn(k[1], s))
       [] n.typ = "Binop" /\ n.op = "->" -> FieldOf(n, Valued(pointer, TargetOf(pointer.v)))
       [] n.typ \in {"Comma", "Cast"} -> PlaceIn(Last(k), Values(Front(k), s).s)
       [] OTHER -> Valued(value, Term("temporary", "", <<value.v>>))

\* A load through a cast converts, and a store too (GNU's generalized lvalues).
RECURSIVE Through(_, _), Stored(_, _)
Through(n, v) ==
  CASE n.typ = "Cast"  -> Conv(n.kids[1], Through(n.kids[2], v))
    [] n.typ = "Comma" -> Through(Last(n.kids), v)
    [] OTHER -> v
Stored(n, v) ==
  CASE n.typ = "Cast"  -> Stored(n.kids[2], Conv(NodeDataType(n.kids[2]), Conv(n.kids[1], v)))
    [] n.typ = "Comma" -> Stored(Last(n.kids), v)
    [] OTHER -> v

-----------------------------------------------------------------------------
(* Expressions. *)

\* The left side gets what Right gives, or what op makes of the old value and
\* that, which is one access.
Assigned(left, op, Right(_), s) ==
  LET place == Access(PlaceIn(left, s), WriteName)
      old   == ValueAt(place)
      right == Right(IF op = "=" THEN place ELSE old)
      v     == IF op = "=" THEN right.v
               ELSE Term(OpOfAssignmentOp[op], "", <<Through(left, old.v), right.v>>)
      after == Store(right, place.v, Stored(left, v))
  IN [before |-> Valued(after, Through(left, old.v)),
      after  |-> Valued(after, Through(left, after.v))]

IncDec(n, s) ==
  LET one(t) == Valued(t, MakeConstSint("1"))
      r == Assigned(n.kids[1], IF n.op \in {"PREINC", "POSTINC"} THEN "+=" ELSE "-=", one, s)
  IN IF n.op \in {"PREINC", "PREDEC"} THEN r.after ELSE r.before

Assignment(left, op, right, s) ==
  LET value(t) == ValueOf(right, t) IN Assigned(left, op, value, s).after

\* An array or a function stands for its address.
Fetched(n, place) ==
  IF NodeDataType(n).typ \in {"Adcl", "Fdcl"} THEN Valued(place, PointerTo(place.v)) ELSE Load(place)

\* Who reads a field may evaluate twice what names its struct, if that has no
\* side effects: the accesses on the way to it then come again, behind its own.
FieldValue(n, s) ==
  LET place == PlaceIn(n, s)
      way   == IF SideeffectsNode(n) THEN <<>> ELSE SubSeq(place.log, Len(s.log) + 1, Len(place.log))
  IN [Fetched(n, place) EXCEPT !.log = @ \o [k \in DOMAIN way |-> [way[k] EXCEPT !.by = "copy"]]]

UnaryValue(n, s) ==
  LET k == n.kids
      place == PlaceIn(k[1], s)
      value == ValueOf(k[1], s)
  IN CASE n.op \in {"SIZEOF", "ALIGNOF"} ->
            Valued(s, Term(n.op, "", <<IF IsType(k[1]) THEN k[1] ELSE NodeDataType(k[1])>>))
       [] n.op = "ADDRESS" -> Valued(place, PointerTo(place.v))
       [] n.op = "INDIR"   -> Fetched(n, PlaceIn(n, s))
       [] n.op \in IncDecOps -> IncDec(n, s)
       [] OTHER -> Valued(value, Term(n.op, "", <<value.v>>))

\* What the profiler is told is the first of its arguments.
CallValue(n, s) ==
  LET address == ValueOf(n.kids[2].kids[2], s) IN
  IF n.kids[1] \in {MakeId(ReadName), MakeId(WriteName)}
  THEN Valued(Logged(address, "profiler", n.kids[1].op, TargetOf(address.v)), NULL)
  ELSE ActOn("call", "", n.kids, s)

ExpressionValue(n, s) ==
  LET k == n.kids
      r == Values(k, s)
      converted == ValueOf(k[2], s)
  IN CASE n.typ = "Const" -> Valued(s, n)
       [] n.typ = "Id" -> IF n.op \in DOMAIN s.temps THEN Valued(s, s.temps[n.op])
                          ELSE Fetched(n, PlaceIn(n, s))
       [] n.typ = "Unary" -> UnaryValue(n, s)
       [] IsAssignment(n) -> Assignment(k[1], n.op, k[2], s)
       [] n.typ = "Binop" /\ n.op \in {".", "->"} -> FieldValue(n, s)
       [] n.typ = "Array" -> Fetched(n, PlaceIn(n, s))
       [] n.typ = "Cast"  -> Valued(converted, Conv(k[1], converted.v))
       [] n.typ = "Comma" -> r.s
       [] n.typ = "Call"  -> CallValue(n, s)
       [] n.typ = "ImplicitCast" -> r.s
       [] n.typ = "Constructor"  -> Valued(converted, Term("object", "", <<k[1], converted.v>>))
       [] n.typ = "BuiltinVaArg" -> ActOn("va_arg", "", <<k[1]>>, s)
       [] n.typ = "Binop" /\ n.op \in {":", ":="} ->
            Valued(converted, Term(n.op, k[1].op, <<converted.v>>))
       [] n.typ = "Binop" /\ n.op \notin {"&&", "||", ":", ":="} /\ ~IsAssignment(n) ->
            Valued(r.s, Term(n.op, "", r.vs))
       [] n.typ = "Initializer" -> Valued(r.s, Term("list", "", r.vs))

-----------------------------------------------------------------------------
(* Statements; Cilk's by what they do in a serial execution. *)

DeclValue(n, s) ==
  LET init == ValueOf(n.kids[2], s) IN
  CASE n.kids[2] = NULL -> s
    [] n.kids[2] # NULL /\ n.op \in TemporaryNames ->
         [init EXCEPT !.temps = (n.op :> init.v) @@ @]
    [] OTHER -> Effect(init, Term("initialize", n.op, <<init.v>>))

\* Temporaries end with their block.
BlockValue(n, s) ==
  [FoldLeft(LAMBDA before, item : ValueOf(item, before), s, n.kids) EXCEPT !.temps = s.temps]

Called(n) == MakeCall(n.kids[2], SubSeq(n.kids, 3, Len(n.kids)))

StatementValue(n, s) ==
  LET k == n.kids IN
  CASE n.typ \in {"NULL", "Sync", "Abort", "Sdcl", "Udcl", "Edcl", "Prim", "Tdef", "Ptr", "Adcl", "Fdcl"} -> s
    [] n.typ \in {"Block", "XBlock"} -> BlockValue(n, s)
    [] n.typ = "Decl" -> DeclValue(n, s)
    [] n.typ = "Proc" -> ValueOf(k[2], s)
    [] n.typ = "Synched" -> Valued(s, MakeConstSint("1"))
    [] n.typ = "Spawn" -> IF k[1] = NULL THEN ValueOf(Called(n), s)
                          ELSE Assignment(k[1], n.op, Called(n), s)
    [] n.typ = "InletCall" -> ValueOf(MakeCall(k[1], Tail(k)), s)
    [] n.typ = "Asm" -> ActOn("asm", "", k, s)
    [] n.typ \in {"List", "AsmArg"} -> Values(k, s).s
    [] OTHER -> Parts(n, k, s)

Evaluate(what, n, s) ==
  CASE what = "place" -> PlaceOf(n, s)
    [] what = "value" /\ IsExpr(n) /\ n.typ \notin {"Block", "Synched", "AsmArg"}
         /\ ~(n.typ = "Binop" /\ n.op \in {"&&", "||"}) /\ n.typ # "Ternary" -> ExpressionValue(n, s)
    [] OTHER -> StatementValue(n, s)

\* A program as a whole.
Meaning(program) == BlockValue(MakeBlock(<<>>, program), Start)
=============================================================================
