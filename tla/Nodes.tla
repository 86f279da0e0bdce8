------------------------------- MODULE Nodes -------------------------------
(***************************************************************************)
(* The abstract syntax trees of cilk2c with all their fields: what the     *)
(* parser builds, the transformations rewrite, and the printer prints      *)
(* (src/cilk2c/ast.h, ast.c, typequal.c, verify-parse.c).  `SyntaxTree' is *)
(* the abstraction of these trees that the data-flow analyses need.        *)
(*                                                                         *)
(* A node has its node type, one datum (the operator, the name, the text   *)
(* of a constant, the basic type), its type qualifiers, and its children   *)
(* in the order of ASTWALK, lists flattened.  NULL is a node too.          *)
(* Coordinates, results of analyses and links to declarations are left     *)
(* out; attributes as well.                                                *)
(***************************************************************************)
EXTENDS Naturals, Sequences, SequencesExt, FiniteSetsExt

Node(typ, op, tq, kids) ==
  [typ |-> typ, op |-> op, tq |-> tq, kids |-> kids, parenthesized |-> FALSE, wild |-> ""]

NULL == Node("NULL", "", {}, <<>>)

\* What F makes of the items of a list, one after the other.
Concat(F(_), list) ==
  LET upto[k \in 0 .. Len(list)] == IF k = 0 THEN <<>> ELSE upto[k - 1] \o F(list[k])
  IN upto[Len(list)]

-----------------------------------------------------------------------------
(* Expressions. *)

MakePrim(tq, basic)         == Node("Prim", basic, tq, <<>>)
MakeConstSint(text)         == Node("Const", text, {}, <<MakePrim({}, "Sint")>>)
MakeConstUint(text)         == Node("Const", text, {}, <<MakePrim({}, "Uint")>>)
MakeConstSlong(text)        == Node("Const", text, {}, <<MakePrim({}, "Slong")>>)
MakeConstUlong(text)        == Node("Const", text, {}, <<MakePrim({}, "Ulong")>>)
MakeConstFloat(text)        == Node("Const", text, {}, <<MakePrim({}, "Float")>>)
MakeConstDouble(text)       == Node("Const", text, {}, <<MakePrim({}, "Double")>>)
MakeId(text)                == Node("Id", text, {}, <<>>)
MakeWildcardId(text)        == [MakeId(text) EXCEPT !.wild = "WildcardD"]
MakeWildcardExp(text)       == [MakeId(text) EXCEPT !.wild = "WildcardE"]

\* The unary operators that share their sign with a binary one.
UnaryOp(op) ==
  CASE op = "*" -> "INDIR" [] op = "&" -> "ADDRESS" [] op = "-" -> "UMINUS"
    [] op = "+" -> "UPLUS" [] OTHER -> op

MakeUnary(op, expr)         == Node("Unary", UnaryOp(op), {}, <<expr>>)
MakeBinop(op, left, right)  == Node("Binop", op, {}, <<left, right>>)
MakeCast(type, expr)        == Node("Cast", "", {}, <<type, expr>>)
MakeComma(exprs)            == Node("Comma", "", {}, exprs)
MakeConstructor(type, init) == Node("Constructor", "", {}, <<type, init>>)
MakeTernary(cond, true, false) == Node("Ternary", "", {}, <<cond, true, false>>)
MakeArray(name, dims)       == Node("Array", "", {}, <<name>> \o dims)
MakeCall(name, args)        == Node("Call", "", {}, <<name>> \o args)
MakeInitializer(exprs)      == Node("Initializer", "", {}, exprs)
\* The type is an annotation of the checker; ASTWALK does not visit it.
MakeImplicitCast(expr)      == Node("ImplicitCast", "", {}, <<expr>>)
MakeBuiltinVaArg(expr, type) == Node("BuiltinVaArg", "", {}, <<expr, type>>)

-----------------------------------------------------------------------------
(* Statements. *)

MakeLabel(name)             == Node("Label", name, {}, <<>>)
MakeSwitch(expr, stmt)      == Node("Switch", "", {}, <<expr, stmt>>)
MakeCase(expr)              == Node("Case", "", {}, <<expr>>)
MakeDefault                 == Node("Default", "", {}, <<>>)
MakeIf(expr, stmt)          == Node("If", "", {}, <<expr, stmt>>)
MakeIfElse(expr, true, false) == Node("IfElse", "", {}, <<expr, true, false>>)
MakeWhile(expr, stmt)       == Node("While", "", {}, <<expr, stmt>>)
MakeDo(stmt, expr)          == Node("Do", "", {}, <<stmt, expr>>)
MakeFor(init, cond, next, stmt) == Node("For", "", {}, <<init, cond, next, stmt>>)
MakeGoto(label)             == Node("Goto", label, {}, <<>>)
MakeContinue                == Node("Continue", "", {}, <<>>)
MakeBreak                   == Node("Break", "", {}, <<>>)
MakeReturn(expr)            == Node("Return", "", {}, <<expr>>)
MakeBlock(decl, stmts)      == Node("Block", "", {}, decl \o stmts)
MakeXBlock(decl, stmts)     == Node("XBlock", "", {}, decl \o stmts)
MakeSpawn(receiver, op, name, args) == Node("Spawn", op, {}, <<receiver, name>> \o args)
MakeSync                    == Node("Sync", "", {}, <<>>)
MakeInletCall(name, args)   == Node("InletCall", "", {}, <<name>> \o args)
MakeAbort                   == Node("Abort", "", {}, <<>>)
MakeSynched                 == Node("Synched", "", {}, <<>>)
\* The three lists of an asm keep their bounds.
ListNode(items)             == Node("List", "", {}, items)
MakeAsm(tq, template, output, input, clobbered) ==
  Node("Asm", "", tq, <<template, ListNode(output), ListNode(input), ListNode(clobbered)>>)
MakeAsmArg(constraint, expr) == Node("AsmArg", "", {}, <<constraint, expr>>)

-----------------------------------------------------------------------------
(* Types and declarations. *)

MakeTdef(tq, name)          == Node("Tdef", name, tq, <<>>)
MakeWildcardType(text)      == [MakeTdef({}, text) EXCEPT !.wild = "WildcardT"]
MakePtr(tq, type)           == Node("Ptr", "", tq, <<type>>)
MakeAdcl(tq, type, dim)     == Node("Adcl", "", tq, <<type, dim>>)
MakeFdcl(tq, args, returns) == Node("Fdcl", "", tq, Append(args, returns))
\* op is the tag; with "sue_elaborated" the fields are children, else the
\* tag alone refers to them.
MakeSdcl(tq, tag, fields)   == Node("Sdcl", tag, tq, fields)
MakeUdcl(tq, tag, fields)   == Node("Udcl", tag, tq, fields)
MakeEdcl(tq, tag, fields)   == Node("Edcl", tag, tq, fields)
MakeDecl(name, tq, type, init, bitsize) == Node("Decl", name, tq, <<type, init, bitsize>>)
MakeProc(decl, body)        == Node("Proc", "", {}, <<decl, body>>)
MakeString(text) ==
  Node("Const", text, {}, <<MakeAdcl({}, MakePrim({}, "Char"), MakeConstSint("3"))>>)

-----------------------------------------------------------------------------
(* Sets of qualifiers.  TypeQual is a word of bits; here it is the set of  *)
(* the bits' names.                                                        *)

StorageClasses == {"auto", "extern", "register", "static", "typedef"}
DeclLocations  == {"top_decl", "block_decl", "formal_decl", "su_decl", "enum_decl"}
WhereAmI == {"fast_procedure", "slow_procedure", "fast_inlet", "slow_inlet",
             "standalone_inlet", "c_code"}
DeclQuals == StorageClasses \cup DeclLocations \cup WhereAmI
             \cup {"redundant_extern", "shared", "private", "nooutput", "cilkonly", "cilksafe"}
TypeQuals == {"restrict", "complex", "const", "volatile", "inline", "sue_elaborated",
              "procedure", "inlet"}

tq_remove_cilk_where_am_i_decl_quals(tq) ==
  tq \cap WhereAmI   \* The complement of the mask is what is cleared.

-----------------------------------------------------------------------------
(* Kinds. *)

Expressions ==
  {"Const", "Id", "Binop", "Unary", "Cast", "Comma", "Constructor", "Ternary", "Array",
   "Call", "Initializer", "ImplicitCast"}
\* Block: unless only ANSI C is allowed, a statement expression.
IsExpr(n) == n.typ \in Expressions \cup {"AsmArg", "BuiltinVaArg", "Synched", "Block"}
IsType(n) == n.typ \in {"Prim", "Tdef", "Ptr", "Adcl", "Fdcl", "Sdcl", "Udcl", "Edcl"}
IsDecl(n) == n.typ \in {"Sdcl", "Udcl", "Edcl", "Decl", "Proc", "Text"}
IsStmt(n) ==
  n.typ \in Expressions \cup
    {"Label", "Switch", "Case", "Default", "If", "IfElse", "While", "Do", "For", "Goto",
     "Continue", "Break", "Return", "Block", "Text", "Asm", "Sync", "Spawn", "InletCall",
     "Abort", "Synched", "XBlock"}

-----------------------------------------------------------------------------
(* What the parser promises (VerifyParse): which children each node has.   *)

Opt(P(_), n) == n = NULL \/ P(n)
Id1(n) == n.typ = "Id"
All(P(_), s) == \A i \in 1 .. Len(s) : P(s[i])

VerifyExprNode(n) ==
  LET k == n.kids IN
  CASE n.typ = "Binop" /\ n.op \in {"->", "."} -> IsExpr(k[1]) /\ Id1(k[2])
    [] n.typ = "Binop" /\ n.op = ":="          -> Id1(k[1]) /\ IsExpr(k[2])
    [] n.typ = "Unary" /\ n.op \in {"SIZEOF", "ALIGNOF"} -> IsType(k[1]) \/ IsExpr(k[1])
    [] n.typ \in {"Binop", "Unary", "Array", "AsmArg"} -> All(IsExpr, k)
    [] n.typ = "Call" -> All(LAMBDA e : IsType(e) \/ IsExpr(e), k)
    [] n.typ = "Cast" -> IsType(k[1]) /\ IsExpr(k[2])
    [] n.typ = "Comma" -> k # <<>> /\ All(IsExpr, k)
    [] n.typ = "Constructor" -> IsType(k[1]) /\ k[2].typ = "Initializer"
    [] n.typ = "Ternary" -> IsExpr(k[1]) /\ Opt(IsExpr, k[2]) /\ IsExpr(k[3])
    [] n.typ = "Initializer" -> All(IsExpr, k)
    [] n.typ = "ImplicitCast" -> All(LAMBDA e : Opt(IsExpr, e), k)
    [] n.typ = "BuiltinVaArg" -> IsExpr(k[1]) /\ IsType(k[2])
    [] n.typ \in {"Const", "Id", "Synched"} -> TRUE
    [] OTHER -> FALSE

VerifyStmtNode(n) ==
  LET k == n.kids IN
  CASE n.typ \in {"Switch", "If", "IfElse", "While"} ->
         IsExpr(k[1]) /\ All(LAMBDA s : Opt(IsStmt, s), Tail(k))
    [] n.typ = "Do" -> Opt(IsStmt, k[1]) /\ IsExpr(k[2])
    [] n.typ = "For" -> Opt(IsExpr, k[1]) /\ Opt(IsExpr, k[2]) /\ Opt(IsExpr, k[3])
                        /\ Opt(IsStmt, k[4])
    [] n.typ = "Case" -> IsExpr(k[1])
    [] n.typ = "Return" -> Opt(IsExpr, k[1])
    [] n.typ \in {"Block", "XBlock"} ->
         \E d \in 0 .. Len(k) : /\ All(IsDecl, SubSeq(k, 1, d))
                                /\ All(LAMBDA s : Opt(IsStmt, s), SubSeq(k, d + 1, Len(k)))
    [] n.typ = "Asm" -> IsExpr(k[1]) /\ All(LAMBDA a : a.typ = "AsmArg", k[2].kids \o k[3].kids)
                        /\ All(IsExpr, k[4].kids)
    [] n.typ = "Spawn" -> Opt(IsExpr, k[1]) /\ All(IsExpr, Tail(k))
    [] n.typ = "InletCall" -> Id1(k[1]) /\ All(LAMBDA a : IsExpr(a) \/ a.typ = "Spawn", k)
    [] n.typ \in {"Label", "Default", "Goto", "Continue", "Break", "Sync", "Abort"} -> k = <<>>
    [] OTHER -> FALSE

VerifyTypeNode(n) ==
  LET k == n.kids IN
  CASE n.typ \in {"Prim", "Tdef"} -> n.tq \subseteq TypeQuals
    [] n.typ = "Ptr"  -> n.tq \subseteq TypeQuals /\ IsType(k[1])
    [] n.typ = "Adcl" -> n.tq = {} /\ IsType(k[1]) /\ Opt(IsExpr, k[2])
    [] n.typ = "Fdcl" -> n.tq \subseteq {"inline", "procedure", "inlet"}
                         /\ {"procedure", "inlet"} \cap n.tq # {"procedure", "inlet"}
                         /\ All(LAMBDA a : a.typ = "Decl" \/ IsType(a), k)
                         /\ IsType(Last(k))
    [] n.typ \in {"Sdcl", "Udcl", "Edcl"} -> n.tq \subseteq TypeQuals /\ All(IsDecl, k)
    [] OTHER -> FALSE

VerifyDecl(n) ==
  /\ n.tq \subseteq DeclQuals
  /\ Cardinality(n.tq \cap StorageClasses) =< 1
  /\ IsType(n.kids[1]) /\ Opt(IsExpr, n.kids[2]) /\ Opt(IsExpr, n.kids[3])
  /\ NULL \in {n.kids[2], n.kids[3]}

VerifyNode(n) ==
  CASE n.typ = "NULL" \/ n.typ = "List" -> TRUE
    [] n.typ = "Decl" -> VerifyDecl(n)
    [] n.typ = "Proc" -> /\ n.kids[1].typ = "Decl" /\ n.kids[1].kids[1].typ = "Fdcl"
                         /\ Opt(LAMBDA b : b.typ = "Block", n.kids[2])
    [] IsType(n) -> VerifyTypeNode(n)
    [] OTHER -> VerifyExprNode(n) \/ VerifyStmtNode(n)

RECURSIVE VerifyParse(_)
VerifyParse(n) == VerifyNode(n) /\ All(VerifyParse, n.kids)

-----------------------------------------------------------------------------
(* Operations on trees. *)

\* NodeCopy with depth Subtree: tags that defined their fields only refer to
\* them in the copy; with SubtreeExact nothing changes.
RECURSIVE NodeCopy(_)
NodeCopy(n) ==
  IF n.typ \in {"Sdcl", "Udcl", "Edcl"} /\ "sue_elaborated" \in n.tq
  THEN [n EXCEPT !.tq = @ \ {"sue_elaborated"}, !.kids = <<>>]
  ELSE [n EXCEPT !.kids = [i \in 1 .. Len(n.kids) |-> NodeCopy(n.kids[i])]]

GetNodeName(n) == IF n.typ \in {"Id", "Decl", "Tdef"} THEN n.op ELSE ""

IsWildcard(n) == n.wild # ""
GetWildcardName(n) == IF IsWildcard(n) THEN GetNodeName(n) ELSE ""

\* The nodes of a tree, in preorder (WalkTree).
RECURSIVE WalkTree(_)
WalkTree(n) ==
  <<n>> \o Concat(LAMBDA kid : IF kid = NULL THEN <<>> ELSE WalkTree(kid), n.kids)
=============================================================================
