------------------------------- MODULE Trees -------------------------------
(***************************************************************************)
(* Trees that grow node by node, as the parser and the transformations of  *)
(* cilk2c make them, and what the printer and the parser make of each.     *)
(*                                                                         *)
(* Every action puts the tree into one more node, at each place where the  *)
(* node has a child of its kind; the other children are leaves.            *)
(***************************************************************************)
EXTENDS Parser

CONSTANTS BinaryOps,  \* Binary operators; one of each precedence is enough.
          MaxWraps,   \* Bound: nodes around the first leaf,
          MaxTypeWraps \* or around int.

VARIABLES tree, wraps

vars == <<tree, wraps>>

Roomy == INSTANCE Printer WITH Room <- TRUE
Tight == INSTANCE Printer WITH Room <- FALSE

A == MakeId("a")
B == MakeId("b")
One == MakeConstSint("1")
IntType == MakePrim({}, "Sint")
VoidType == MakePrim({}, "Void")
X(type) == MakeDecl("x", {"block_decl"}, type, NULL, NULL)

IsLvalue(n) ==
  \/ n.typ \in {"Id", "Array"}
  \/ n.typ = "Unary" /\ n.op = "INDIR"
  \/ n.typ = "Binop" /\ n.op \in {".", "->"}

BasicTypes ==
  {"Sint", "Uint", "Sshort", "Ushort", "Slong", "Ulong", "Slonglong", "Ulonglong", "Char", "Schar",
   "Uchar", "Float", "Double", "Longdouble", "Void"}

Init == /\ tree \in {A, One, MakeBreak, MakeGoto("l")}
                  \cup {MakePrim({"const"}, basic) : basic \in BasicTypes}
                  \cup {IntType, MakeTdef({}, "T"), MakeSdcl({}, "s", <<>>)}
        /\ wraps = 0

Becomes(n) == tree' = n /\ wraps' = wraps + 1

\* A tree that stands for a value.  A block does if it ends in one; with its
\* parentheses it is a statement.
Value == /\ wraps < MaxWraps /\ IsExpr(tree) /\ tree.typ # "Initializer"
         /\ tree.typ = "Block" => ~tree.parenthesized /\ IsExpr(Last(tree.kids))
Stmt  == wraps < MaxWraps /\ (IsStmt(tree) \/ tree.typ = "Break")
Type  == /\ IsType(tree)
         /\ wraps < IF GetDeepBaseType(tree) = IntType THEN MaxTypeWraps ELSE MaxWraps

\* What the parser makes of an expression in parentheses.
InParens(n) == [n EXCEPT !.parenthesized = TRUE]
ParenthesesFor(n, kinds) == IF n.typ \in kinds THEN InParens(n) ELSE n

Argument == ParenthesesFor(tree, {"Comma"})
Constant == IF tree.typ = "Binop" /\ tree.op \in AssignmentOperators
            THEN InParens(tree) ELSE Argument
\* What stands before a postfix operator.
Operand  == ParenthesesFor(tree, {"Constructor", "BuiltinVaArg"})

\* An `else' after it would be its own.
RECURSIVE EndsInIf(_)
EndsInIf(n) ==
  n.typ = "If" \/ (n.typ \in {"IfElse", "While", "For"} /\ EndsInIf(Last(n.kids)))

Has(typ) == \E m \in Range(WalkTree(tree)) : m.typ = typ

-----------------------------------------------------------------------------
(* Expressions. *)

Operate == /\ Value
           /\ \E op \in BinaryOps : \/ Becomes(MakeBinop(op, tree, B))
                                    \/ Becomes(MakeBinop(op, B, tree))

Assign == /\ Value
          /\ \E op \in {"=", "-="} : \/ Becomes(MakeBinop(op, B, tree))
                                     \/ IsLvalue(tree) /\ Becomes(MakeBinop(op, tree, B))

Prefix == /\ Value
          /\ \/ \E op \in {"-", "+", "*", "!", "~", "SIZEOF", "ALIGNOF"} : Becomes(MakeUnary(op, tree))
             \/ IsLvalue(tree) /\ \E op \in {"&", "PREINC", "PREDEC"} : Becomes(MakeUnary(op, tree))

Suffix == /\ Value
          /\ \/ IsLvalue(tree) /\ Becomes(MakeUnary("POSTINC", tree))
             \/ \E op \in {".", "->"} : Becomes(MakeBinop(op, Operand, MakeId("x")))

Index == Value /\ (Becomes(ExtendArray(Operand, B)) \/ Becomes(MakeArray(A, <<tree>>)))

Apply == Value /\ (Becomes(MakeCall(Operand, <<B>>)) \/ Becomes(MakeCall(A, <<Argument, B>>)))

Choose == /\ Value
          /\ \/ Becomes(MakeTernary(tree, A, B)) \/ Becomes(MakeTernary(A, tree, B))
             \/ Becomes(MakeTernary(A, B, tree)) \/ Becomes(MakeTernary(tree, NULL, B))

InSequence == Value /\ (Becomes(MakeComma(<<tree, B>>)) \/ Becomes(MakeComma(<<B, Argument>>)))

Convert == /\ Value
           /\ \/ Becomes(MakeCast(MakePtr({}, IntType), tree))
              \/ Becomes(MakeImplicitCast(tree))
              \/ Becomes(MakeBuiltinVaArg(Argument, IntType))

Parenthesize == Value /\ ~tree.parenthesized /\ tree.typ # "Block" /\ Becomes(InParens(tree))

Initialize ==
  /\ Value
  /\ \E item \in {Argument, MakeBinop(":=", MakeId("x"), Argument),
                  MakeBinop("[]=", Argument, One), MakeBinop(":", MakeId("x"), Argument)} :
       LET init == MakeInitializer(<<item, B>>) IN
       \/ Becomes(MakeConstructor(MakeTdef({}, "T"), init))
       \/ Becomes(SetDeclInit(X(MakeAdcl({}, IntType, NULL)), init))

-----------------------------------------------------------------------------
(* Types and declarations. *)

Point == Type /\ \E tq \in {{}, {"const"}} : Becomes(MakePtr(tq, tree))

MakeArrayType == Type /\ tree.typ # "Fdcl" /\ Becomes(MakeAdcl({}, tree, One))

MakeFunctionType ==
  /\ Type
  /\ \/ tree.typ \notin {"Adcl", "Fdcl"} /\ \E args \in {<<>>, <<VoidType>>, <<IntType, MakePrim({}, "Ellipsis")>>} :
          Becomes(MakeFdcl({}, args, tree))
     \/ tree.typ # "Adcl" /\ Becomes(MakeFdcl({}, <<tree>>, IntType))
     \/ Becomes(MakeFdcl({}, <<FormalDecl(MakeDecl("x", {"formal_decl"}, tree, NULL, NULL))>>, IntType))

UseType ==
  Type /\ (\/ Becomes(MakeCast(tree, A)) \/ Becomes(MakeUnary("SIZEOF", tree))
           \/ Becomes(MakeConstructor(tree, MakeInitializer(<<A>>))))

Declare ==
  /\ Type
  /\ \/ \E sc \in {"static", "extern", "register", "typedef"} :
          Becomes(MakeDecl("x", {"block_decl", sc}, tree, NULL, NULL))
     \/ Becomes(SetDeclInit(X(tree), A))

\* Fields, a bit-field the second.
Field ==
  LET d == MakeDecl("x", {"su_decl"}, tree, NULL, NULL)
      e == MakeDecl("b", {"su_decl"}, MakePrim({}, "Uint"), NULL, One)
  IN /\ Type
     /\ \/ Becomes(MakeSdcl({"sue_elaborated"}, "r", <<d, e>>))
        \/ Becomes(MakeUdcl({"sue_elaborated", "volatile"}, "u", <<d>>))

Enumerate ==
  Value /\ ~Has("Block") /\ Becomes(MakeEdcl({"sue_elaborated"}, "e",
                            <<BuildEnumConst("x", Constant), BuildEnumConst("b", NULL)>>))

-----------------------------------------------------------------------------
(* Statements. *)

Test == /\ Value
        /\ \/ Becomes(MakeIf(tree, A)) \/ Becomes(MakeWhile(tree, A)) \/ Becomes(MakeDo(A, tree))
           \/ Becomes(MakeFor(tree, NULL, A, B)) \/ Becomes(MakeFor(NULL, tree, NULL, B))
           \/ Becomes(MakeReturn(tree))
           \/ Becomes(MakeSwitch(tree, MakeBlock(<<>>, <<MakeDefault, A, MakeCase(One), B>>)))
           \/ Becomes(MakeSwitch(A, MakeBlock(<<>>, <<MakeCase(Constant), B>>)))

Control ==
  /\ Stmt
  /\ \/ Becomes(MakeIf(A, tree)) \/ Becomes(MakeIfElse(A, B, tree))
     \/ ~EndsInIf(tree) /\ Becomes(MakeIfElse(A, tree, B))
     \/ Becomes(MakeWhile(A, tree)) \/ Becomes(MakeDo(tree, A)) \/ Becomes(MakeFor(A, A, A, tree))

Enclose ==
  /\ Stmt
  /\ \/ Becomes(MakeBlock(<<X(IntType)>>, <<tree, B>>))
     \/ ~Has("Label") /\ Becomes(MakeBlock(<<>>, <<MakeLabel("l"), tree>>))
     \/ Becomes(MakeXBlock(<<>>, <<tree>>))
     \/ Becomes(MakeSwitch(A, MakeBlock(<<>>, <<MakeCase(One), tree, MakeDefault, NULL>>)))

\* A block as an expression, and that expression as a statement.
EncloseValue ==
  /\ Stmt
  /\ \/ Becomes(MakeBinop("=", B, MakeBlock(<<>>, <<tree, A>>)))
     \/ Becomes(InParens(MakeBlock(<<>>, <<tree, A>>)))

Assemble ==
  /\ Value
  /\ LET s == MakeString("\"s\"")  arg == MakeAsmArg(s, Argument) IN
     \E tq \in {{}, {"volatile"}} :
       \/ Becomes(MakeAsm(tq, s, <<arg>>, <<>>, <<>>))
       \/ Becomes(MakeAsm(tq, s, <<>>, <<arg, MakeAsmArg(s, A)>>, <<s>>))

Block ==
  /\ wraps < MaxWraps /\ IsDecl(tree)
  /\ Becomes(MakeBlock(<<tree>>, <<A>>))

Next == \/ Operate \/ Assign \/ Prefix \/ Suffix \/ Index \/ Apply \/ Choose \/ InSequence
        \/ Convert \/ Parenthesize \/ Initialize
        \/ Point \/ MakeArrayType \/ MakeFunctionType \/ UseType \/ Declare \/ Field \/ Enumerate
        \/ Test \/ Control \/ Enclose \/ EncloseValue \/ Assemble \/ Block

Spec == Init /\ [][Next]_vars

-----------------------------------------------------------------------------
(* A program with the tree in it. *)

Main == MakeDecl("f", {"top_decl"}, MakeFdcl({}, <<VoidType>>, IntType), NULL, NULL)

\* Expressions that are no statements: at the first two, which C allows, the
\* printer gives up.
NoStatement == tree.typ \in {"Constructor", "BuiltinVaArg", "ImplicitCast"}

Program ==
  LET declares == tree.typ = "Decl" \/ (IsDecl(tree) /\ tree.kids # <<>>)
      inner == CASE declares -> MakeBlock(<<tree>>, <<MakeContinue>>)
                 [] NoStatement -> MakeBlock(<<>>, <<MakeReturn(tree)>>)
                 [] OTHER -> MakeBlock(<<>>, <<tree>>)
      end   == IF Has("Label") THEN MakeReturn(A) ELSE MakeLabel("l")
      body  == MakeBlock(<<>>, <<MakeWhile(A, inner), end, NULL>>)
  IN IF IsType(tree) /\ ~declares THEN <<MakeDecl("x", {"top_decl"}, tree, NULL, NULL)>>
     ELSE <<MakeProc(Main, body)>>

\* What a tree means does not depend on parentheses, on the casts that the
\* checker has inserted, nor on how sequences and dimensions are grouped.
RECURSIVE Canon(_)
CanonList(list) == Concat(LAMBDA n : <<Canon(n)>>, list)
Canon(n) ==
  LET kids == CanonList(n.kids)
      flat == Concat(LAMBDA kid : IF kid.typ = "Comma" THEN kid.kids ELSE <<kid>>, kids)
  IN CASE n.typ = "ImplicitCast" -> kids[1]
       [] n.typ = "Comma" -> MakeComma(flat)
       [] n.typ = "Array" /\ kids[1].typ = "Array" -> MakeArray(kids[1].kids[1],
                                                                Tail(kids[1].kids) \o Tail(kids))
       [] n.typ = "Adcl"  -> [n EXCEPT !.kids = kids, !.tq = {}]
       [] OTHER -> [n EXCEPT !.kids = kids, !.tq = @ \ DeclLocations, !.parenthesized = FALSE]

-----------------------------------------------------------------------------
(* What becomes of a program that is printed. *)

\* The parser accepts the text and builds the same tree from it, and the tree
\* has what the passes after the parser take for granted: storage classes on
\* declarations only, no declarator left open.
ReadBack(program) ==
  \E tokens \in {Tokens(Roomy!OutputProgram(program))} : \E read \in {Parse(tokens)} :
    ~Failed(read) /\ All(VerifyParse, read.n.kids) /\ CanonList(read.n.kids) = CanonList(program)

\* The words are the same without white space.
WordsApart(program) ==
  LET words(text) == SelectSeq(Tokens(text), IsWord) IN
  (\E k \in 1 .. Len(program) : \E m \in Range(WalkTree(program[k])) : m.typ \in {"Do", "XBlock"})
    \/ words(Tight!OutputProgram(program)) = words(Roomy!OutputProgram(program))
=============================================================================
