------------------------------- MODULE Passes -------------------------------
(***************************************************************************)
(* Transformations of whole trees (src/cilk2c): elide.c takes Cilk out of  *)
(* a program, simplify.c some constructs of GNU C; sideeffects.c tells     *)
(* which trees may be evaluated twice.                                     *)
(***************************************************************************)
EXTENDS Declarators, TLC

CONSTANTS Scope,  \* The declarations of the variables and functions, by name,
          Fields  \* and of the fields of structs.

\* A node with its children transformed.
WithKids(F(_), n) == [n EXCEPT !.kids = [i \in 1 .. Len(n.kids) |-> F(n.kids[i])]]

SUEs == {"Sdcl", "Udcl", "Edcl"}
IncDecOps == {"PREINC", "PREDEC", "POSTINC", "POSTDEC"}

\* The assignment operators, with the operator that each applies.
OpOfAssignmentOp ==
  ("*=" :> "*") @@ ("/=" :> "/") @@ ("%=" :> "%") @@ ("+=" :> "+") @@ ("-=" :> "-")
  @@ ("<<=" :> "<<") @@ (">>=" :> ">>") @@ ("&=" :> "&") @@ ("^=" :> "^") @@ ("|=" :> "|")
IsAssignment(n) == n.typ = "Binop" /\ n.op \in DOMAIN OpOfAssignmentOp \cup {"="}

-----------------------------------------------------------------------------
(* The types that the checker has annotated the expressions with.          *)

Target(type) == IF type.typ \in {"Ptr", "Adcl"} THEN type.kids[1] ELSE MakePrim({}, "Sint")

RECURSIVE NodeDataType(_)
NodeDataType(n) ==
  LET k == n.kids IN
  CASE n.typ = "Id" /\ n.op \in DOMAIN Scope -> Scope[n.op].kids[1]
    [] n.typ \in {"Cast", "Constructor", "Const"} -> k[1]
    [] n.typ = "Unary" /\ n.op = "ADDRESS" -> MakePtr({}, NodeDataType(k[1]))
    [] n.typ = "Unary" /\ n.op = "INDIR"   -> Target(NodeDataType(k[1]))
    [] (n.typ = "Unary" /\ n.op \in IncDecOps) \/ n.typ = "ImplicitCast" \/ IsAssignment(n) ->
         NodeDataType(k[1])
    [] n.typ = "Binop" /\ n.op \in {".", "->"} /\ k[2].op \in DOMAIN Fields -> Fields[k[2].op].kids[1]
    [] n.typ = "Array" ->
         FoldLeft(LAMBDA type, dim : Target(type), NodeDataType(k[1]), Tail(k))
    [] n.typ = "Call" -> GetShallowBaseType(NodeDataType(k[1]))
    [] n.typ = "Ternary" /\ k[2] # NULL -> NodeDataType(k[2])
    [] n.typ = "BuiltinVaArg" -> k[2]
    [] n.typ \in {"Comma", "Block"} -> NodeDataType(Last(k))
    [] OTHER -> MakePrim({}, "Sint")

-----------------------------------------------------------------------------
(* Elision: what is left of a Cilk program is a C program.                 *)

ElideIsNop == {"NULL", "Const", "Id", "Label", "Case", "Default", "Goto", "Continue", "Break",
               "Prim", "Tdef"}

RECURSIVE ElideNode(_)

\* The fields of a struct have their types visited, not their bit sizes.
ElideSUE(sue) ==
  WithKids(LAMBDA field : [field EXCEPT !.kids[1] = ElideNode(@)], sue)

ElideSpawn(u) ==
  LET call == MakeCall(u.kids[2], SubSeq(u.kids, 3, Len(u.kids))) IN
  IF u.kids[1] = NULL THEN call ELSE MakeBinop(u.op, u.kids[1], call)

ElideProc(proc) ==
  [proc EXCEPT !.kids[1].kids[1].tq = tq_remove_cilk_where_am_i_decl_quals(@) \ {"procedure", "inlet"}]

\* u is n with its children elided.
ElideType(n, u) ==
  CASE n.typ \in SUEs -> ElideSUE(n)
    [] n.typ = "Adcl" -> [u EXCEPT !.tq = u.kids[1].tq]
    [] n.typ = "Fdcl" -> [u EXCEPT !.tq = @ \ {"procedure"}]
    [] OTHER -> u

ElideCilk(n, u) ==
  CASE n.typ = "Spawn" -> ElideSpawn(u)
    [] n.typ = "InletCall" -> MakeCall(u.kids[1], Tail(u.kids))
    [] n.typ \in {"Sync", "Abort"} -> NULL
    [] n.typ = "Synched" -> MakeConstSint("1")
    [] n.typ = "XBlock" -> MakeBlock(<<>>, n.kids)
    [] OTHER -> u

ElideNode(node) ==
  LET n == IF node.typ = "Proc" THEN ElideProc(node) ELSE node
      u == WithKids(ElideNode, n)
  IN CASE n.typ \in ElideIsNop -> n
       [] IsType(n) /\ n.typ \notin ElideIsNop -> ElideType(n, u)
       [] OTHER -> ElideCilk(n, u)

ElideProgram(program) == Concat(LAMBDA n : <<ElideNode(n)>>, program)

-----------------------------------------------------------------------------
(* Whether to evaluate a tree does more than to give its value.            *)

SideeffectsNop ==
  {"NULL", "Id", "Label", "Goto", "Default", "Continue", "Break", "Sync", "Abort", "Synched", "Const",
   "Case", "Prim", "Tdef", "Ptr", "Adcl", "Fdcl", "Sdcl", "Udcl", "Edcl", "Proc"}

RECURSIVE SideeffectsNode(_)
SideeffectsList(list) == \E i \in 1 .. Len(list) : SideeffectsNode(list[i])

SideeffectsUnary(n) ==
  n.op \in IncDecOps \/ (n.op \notin {"SIZEOF", "ALIGNOF"} /\ SideeffectsNode(n.kids[1]))

SideeffectsBinop(n) ==
  CASE n.op \in {":", ":="} -> SideeffectsNode(n.kids[2])
    [] n.op \in {".", "->"} -> SideeffectsNode(n.kids[1])
    [] OTHER -> IsAssignment(n) \/ SideeffectsList(n.kids)

SideeffectsNode(n) ==
  LET k == n.kids IN
  CASE n.typ \in SideeffectsNop -> FALSE
    [] n.typ = "Unary" -> SideeffectsUnary(n)
    [] n.typ = "Binop" -> SideeffectsBinop(n)
    [] n.typ \in {"Call", "Spawn", "InletCall"} -> TRUE
    [] n.typ = "Asm" -> k[2].kids # <<>> \/ SideeffectsList(k[3].kids)
    [] n.typ \in {"AsmArg", "Cast", "Constructor", "Decl"} -> SideeffectsNode(k[2])
    [] n.typ = "BuiltinVaArg" -> SideeffectsNode(k[1])
    [] OTHER -> SideeffectsList(k)

-----------------------------------------------------------------------------
(* Simplification: no `->' is left, no comma or cast on the left of an     *)
(* assignment.                                                             *)

SimplifyIsNop ==
  {"NULL", "Id", "Label", "Goto", "Default", "Continue", "Break", "Prim", "Sync", "Abort",
   "Synched", "AsmArg"}

RECURSIVE SimplifyNode(_)

\* The node moves behind the commas of its operand: (a, b) = c is (a, b = c).
IntoComma(n) ==
  LET comma == n.kids[1] IN
  SimplifyNode([comma EXCEPT !.kids[Len(comma.kids)] = [n EXCEPT !.kids[1] = Last(comma.kids)]])

SimplifyUnary(n) ==
  IF n.op \in IncDecOps \cup {"ADDRESS"} /\ n.kids[1].typ = "Comma" THEN IntoComma(n) ELSE n

\* Mutant of CastAssignment: the value is not converted to the cast's type.
CastAssignmentDropsType(n) ==
  LET T == n.kids[1].kids[1]
      Y == n.kids[1].kids[2]
      value == IF n.op = "=" THEN n.kids[2]
               ELSE MakeBinop(OpOfAssignmentOp[n.op], MakeCast(T, Y), n.kids[2])
  IN SimplifyNode(MakeCast(T, MakeBinop("=", Y, MakeCast(NodeDataType(Y), value))))

\* (T)Y op= Z becomes (T)(Y = (typeof Y)(T)((T)Y op Z)).
CastAssignment(n) ==
  LET T == n.kids[1].kids[1]
      Y == n.kids[1].kids[2]
      Z == n.kids[2]
      value == IF n.op = "=" THEN Z
               ELSE MakeBinop(OpOfAssignmentOp[n.op], MakeCast(T, Y), Z)
  IN SimplifyNode(MakeCast(T, MakeBinop("=", Y, MakeCast(NodeDataType(Y), MakeCast(T, value)))))

SimplifyArrow(n) ==
  LET left == n.kids[1]
      type == NodeDataType(left).typ
      dot(target) == [n EXCEPT !.op = ".", !.kids[1] = target]
      address == left.typ = "Unary" /\ left.op = "ADDRESS"
  IN CASE address -> dot(left.kids[1])
       [] ~address /\ type = "Ptr"  -> dot(MakeUnary("*", left))
       [] ~address /\ type = "Adcl" -> dot(MakeArray(left, <<MakeConstUint("0U")>>))
       [] OTHER -> n

SimplifyBinop(n) ==
  CASE IsAssignment(n) /\ n.kids[1].typ = "Comma" -> IntoComma(n)
    [] IsAssignment(n) /\ n.kids[1].typ = "Cast"  -> CastAssignment(n)
    [] n.op = "->" -> SimplifyArrow(n)
    [] OTHER -> n

\* Of a declaration only the initializer is simplified, of an array type not
\* the size, and not what is spawned.
SimplifyDeclared(n, u) ==
  CASE n.typ = "Adcl" -> [n EXCEPT !.kids[1] = u.kids[1]]
    [] n.typ = "Spawn" -> [u EXCEPT !.kids[2] = n.kids[2]]
    [] n.typ = "InletCall" -> [u EXCEPT !.kids[1] = n.kids[1]]
    [] n.typ \in {"Decl", "Proc"} -> [n EXCEPT !.kids[2] = u.kids[2]]
    [] OTHER -> u

SimplifyNode(n) ==
  LET u == WithKids(SimplifyNode, n) IN
  CASE n.typ \in SimplifyIsNop -> n
    [] n.typ = "Unary" -> SimplifyUnary(u)
    [] n.typ = "Binop" -> SimplifyBinop(u)
    [] OTHER -> SimplifyDeclared(n, u)

SimplifyProgram(program) == Concat(LAMBDA n : <<SimplifyNode(n)>>, program)
=============================================================================
