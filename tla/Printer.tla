------------------------------ MODULE Printer ------------------------------
(***************************************************************************)
(* From a tree to the text of a C program (src/cilk2c/output.c and         *)
(* operators.c).                                                           *)
(*                                                                         *)
(* The printer puts each node at the column where its source was, if it    *)
(* has not written beyond that column already.  With Room it never has:    *)
(* there is white space before every node.  Without Room all blanks are    *)
(* those that the printer writes by itself.  Lines, indentation,           *)
(* attributes and pragmas are left out.                                    *)
(***************************************************************************)
EXTENDS Nodes, Lexer

CONSTANT Room  \* A Boolean.

\* SetOutputCoord and SetOutputCoordStmt, at a node that has coordinates.
SetOutputCoord == IF Room THEN <<" ">> ELSE <<>>

-----------------------------------------------------------------------------
(* Operators. *)

Postfix == {"POSTINC", "POSTDEC"}

BinaryPrec(op) ==
  CASE op \in {":", ":=", "[]="}       -> 16
    [] op \in {"->", "."}              -> 15
    [] op \in {"*", "/", "%"}          -> 13
    [] op \in {"+", "-"}               -> 12
    [] op \in {"<<", ">>"}             -> 11
    [] op \in {"<", ">", "<=", ">="}   -> 10
    [] op \in {"==", "!="}             -> 9
    [] op = "&"  -> 8 [] op = "^"  -> 7 [] op = "|" -> 6
    [] op = "&&" -> 5 [] op = "||" -> 4
    [] op \in AssignmentOperators              -> 2

OperatorText(op) ==
  CASE op \in {"POSTINC", "PREINC"} -> "++"
    [] op \in {"POSTDEC", "PREDEC"} -> "--"
    [] op = "ADDRESS" -> "&" [] op = "INDIR"  -> "*"
    [] op = "UPLUS"   -> "+" [] op = "UMINUS" -> "-"
    [] op = "SIZEOF"  -> "sizeof" [] op = "ALIGNOF" -> "__alignof__"
    [] op = ":="      -> "="
    [] OTHER -> op

Precedence(n) ==
  CASE n.typ = "Binop" -> BinaryPrec(n.op)
    [] n.typ \in {"Unary", "Cast"} -> 14
    [] n.typ \in {"Array", "Call"} -> 15
    [] n.typ = "Ternary" -> 3
    [] n.typ = "Comma" -> 1
    [] OTHER -> 20

LeftAssoc(n) ==
  /\ n.typ \notin {"Unary", "Cast", "Ternary"}
  /\ n.typ = "Binop" => n.op \notin AssignmentOperators

\* Mutant of Parenthesize: an operand of the same precedence never needs any.
ParenthesizeLess(n, enclosing, context) ==
  n.typ # "Block" /\ (n.parenthesized \/ Precedence(n) < enclosing)

\* Whether a node needs parentheses within an operator of precedence
\* `enclosing' on whose `context' side it stands.
Parenthesize(n, enclosing, context) ==
  /\ n.typ # "Block"
  /\ \/ n.parenthesized
     \/ Precedence(n) < enclosing
     \/ Precedence(n) = enclosing /\ LeftAssoc(n) = (context = "Right")

-----------------------------------------------------------------------------
(* Expressions and types call each other. *)

\* The text of a part of the program; the operators that follow are recursive
\* through this one.
RECURSIVE Text(_, _, _)
OutputInnerExpr(n, enclosing, context) == Text("InnerExpr", n, <<enclosing, context>>)
OutputPartialType(context, n)          == Text("PartialType", n, context)
OutputStatement(n)                     == Text("Statement", n, <<>>)
OutputDeclList(kind, list)             == Text("DeclList", list, kind)

OutputExpr(n) == OutputInnerExpr(n, 0, "Left")

OutputType(n) == OutputPartialType("Left", n) \o OutputPartialType("Right", n)

\* What Output makes of the items of a list, with commas between them.
CommaSeparated(Output(_), list) ==
  IF list = <<>> THEN <<>>
  ELSE Output(Head(list)) \o Concat(LAMBDA n : <<",">> \o Output(n), Tail(list))

OutputTypeOrExpr(n) == IF IsType(n) THEN OutputType(n) ELSE OutputExpr(n)

OutputCommaList(list) == CommaSeparated(OutputTypeOrExpr, list)

OutputDimensions(dims) ==
  Concat(LAMBDA dim : <<"[">> \o OutputExpr(dim) \o <<"]">>, dims)

OutputBinop(n, prec) ==
  (CASE n.op = ":="  -> SetOutputCoord \o <<".">>
     [] n.op = "[]=" -> SetOutputCoord \o <<"[">>
     [] OTHER -> <<>>)
  \o OutputInnerExpr(n.kids[1], prec, "Left")
  \o SetOutputCoord \o (IF n.op = "[]=" THEN <<"]", "=">> ELSE <<OperatorText(n.op)>>)
  \o OutputInnerExpr(n.kids[2], prec, "Right")

OutputUnary(n, prec) ==
  CASE n.op \in {"SIZEOF", "ALIGNOF"} ->
         SetOutputCoord \o <<OperatorText(n.op), "(">> \o OutputTypeOrExpr(n.kids[1]) \o <<")">>
    [] n.op \in Postfix ->
         OutputInnerExpr(n.kids[1], prec, "Left") \o SetOutputCoord \o <<OperatorText(n.op)>>
    [] OTHER ->
         SetOutputCoord \o <<OperatorText(n.op)>> \o OutputInnerExpr(n.kids[1], prec, "Right")

OutputArray(n, prec) ==
  OutputInnerExpr(n.kids[1], prec, "Left") \o SetOutputCoord \o OutputDimensions(Tail(n.kids))

OutputCall(n, prec) ==
  OutputInnerExpr(n.kids[1], prec, "Left")
  \o SetOutputCoord \o <<"(">> \o OutputCommaList(Tail(n.kids)) \o <<")">>

OutputTernary(n, prec) ==
  OutputInnerExpr(n.kids[1], prec, "Left") \o SetOutputCoord \o <<"?">>
  \o OutputExpr(n.kids[2]) \o SetOutputCoord \o <<":">>
  \o OutputInnerExpr(n.kids[3], prec, "Right")

InnerExpr(n, enclosing, context) ==
  LET prec == Precedence(n)
      k    == n.kids
  IN CASE n.typ = "Block" ->
            SetOutputCoord \o <<"(">>
            \o OutputStatement([n EXCEPT !.parenthesized = FALSE]) \o <<")">>
       [] n.typ = "ImplicitCast" -> OutputInnerExpr(k[1], enclosing, context)
       [] n.typ \in {"Id", "Const"} -> SetOutputCoord \o <<n.op>>
       [] n.typ = "Binop"   -> OutputBinop(n, prec)
       [] n.typ = "Unary"   -> OutputUnary(n, prec)
       [] n.typ = "Ternary" -> OutputTernary(n, prec)
       [] n.typ = "Cast"    -> SetOutputCoord \o <<"(">> \o OutputType(k[1]) \o <<")">>
                               \o OutputInnerExpr(k[2], prec, "Right")
       [] n.typ = "Comma"   -> OutputCommaList(k)
       [] n.typ = "Constructor" -> SetOutputCoord \o <<"(">> \o OutputType(k[1]) \o <<")">>
                                   \o OutputInnerExpr(k[2], 0, "Right")
       [] n.typ = "Array"   -> OutputArray(n, prec)
       [] n.typ = "Call"    -> OutputCall(n, prec)
       [] n.typ = "Initializer" ->
            SetOutputCoord \o <<"{">> \o OutputCommaList(k) \o SetOutputCoord \o <<"}">>
       [] n.typ = "AsmArg"  -> OutputExpr(k[1]) \o SetOutputCoord
                               \o <<"(">> \o OutputExpr(k[2]) \o <<")">>
       [] n.typ = "BuiltinVaArg" ->
            SetOutputCoord \o <<"__builtin_va_arg", "(">> \o OutputExpr(k[1])
            \o <<",">> \o OutputType(k[2]) \o <<")">>

EnclosedExpr(n, enclosing, context) ==
  IF n = NULL THEN <<>>
  ELSE IF Parenthesize(n, enclosing, context)
  THEN SetOutputCoord \o <<"(">> \o InnerExpr(n, enclosing, context) \o <<")">>
  ELSE InnerExpr(n, enclosing, context)

-----------------------------------------------------------------------------
(* Qualifiers, in the order of OutputTQ, each with a blank after it. *)

QualifierText ==
  << <<"typedef", "typedef">>, <<"extern", "extern">>, <<"static", "static">>,
     <<"auto", "auto">>, <<"register", "register">>, <<"shared", "shared">>,
     <<"private", "private">>, <<"inline", "inline">>, <<"const", "const">>,
     <<"volatile", "volatile">>, <<"restrict", "__restrict">>, <<"complex", "__complex__">>,
     <<"procedure", "cilk">>, <<"inlet", "inlet">> >>

OutputTQ(tq) ==
  Concat(LAMBDA q : IF q[1] \in tq THEN <<q[2], " ">> ELSE <<>>, QualifierText)

TypeName(basic) ==
  CASE basic = "Sint"   -> <<"int">>   [] basic = "Uint"   -> <<"unsigned">>
    [] basic = "Sshort" -> <<"short">> [] basic = "Ushort" -> <<"unsigned", " ", "short">>
    [] basic = "Slong"  -> <<"long">>  [] basic = "Ulong"  -> <<"unsigned", " ", "long">>
    [] basic = "Slonglong" -> <<"long", " ", "long">>
    [] basic = "Ulonglong" -> <<"unsigned", " ", "long", " ", "long">>
    [] basic = "Char"   -> <<"char">>  [] basic = "Schar"  -> <<"signed", " ", "char">>
    [] basic = "Uchar"  -> <<"unsigned", " ", "char">>
    [] basic = "Float"  -> <<"float">> [] basic = "Double" -> <<"double">>
    [] basic = "Longdouble" -> <<"long", " ", "double">>
    [] basic = "Void"   -> <<"void">>  [] basic = "Ellipsis" -> <<"...">>

\* A pointer binds weaker than what follows the name.
NeedsParens(pointee) == pointee.typ \in {"Adcl", "Fdcl"}

OutputSUE(n) ==
  <<CASE n.typ = "Sdcl" -> "struct" [] n.typ = "Udcl" -> "union" [] n.typ = "Edcl" -> "enum">>
  \o (IF n.op = "" THEN <<>> ELSE <<" ", n.op>>)
  \o (IF "sue_elaborated" \notin n.tq THEN <<>>
      ELSE SetOutputCoord \o <<"{">>
           \o OutputDeclList(IF n.typ = "Edcl" THEN "EnumConstDecl" ELSE "SUFieldDecl", n.kids)
           \o SetOutputCoord \o <<"}">>)

\* What stands before the declared name.
OutputLeftType(n) ==
  CASE n.typ = "Prim" -> SetOutputCoord \o OutputTQ(n.tq) \o TypeName(n.op)
    [] n.typ = "Tdef" -> SetOutputCoord \o OutputTQ(n.tq) \o <<n.op>>
    [] n.typ \in {"Sdcl", "Udcl", "Edcl"} ->
         SetOutputCoord \o OutputTQ(n.tq \ {"sue_elaborated"}) \o OutputSUE(n)
    [] n.typ = "Ptr" ->
         OutputPartialType("Left", n.kids[1])
         \o (IF NeedsParens(n.kids[1]) THEN <<"(">> ELSE <<>>)
         \o SetOutputCoord \o <<"*">> \o OutputTQ(n.tq \ {"procedure", "inlet"})
    [] n.typ = "Adcl" -> OutputPartialType("Left", n.kids[1])
    [] n.typ = "Fdcl" ->
         OutputTQ(n.tq \ {"procedure", "inlet"}) \o OutputPartialType("Left", Last(n.kids))

\* What stands after it.
OutputRightType(n) ==
  CASE n.typ = "Ptr" -> (IF NeedsParens(n.kids[1]) THEN <<")">> ELSE <<>>)
                        \o OutputPartialType("Right", n.kids[1])
    [] n.typ = "Adcl" -> SetOutputCoord \o <<"[">> \o OutputExpr(n.kids[2]) \o <<"]">>
                         \o OutputPartialType("Right", n.kids[1])
    [] n.typ = "Fdcl" -> SetOutputCoord \o <<"(">> \o OutputDeclList("FormalDecl", Front(n.kids))
                         \o <<")">> \o OutputPartialType("Right", Last(n.kids))
    [] OTHER -> <<>>

-----------------------------------------------------------------------------
(* Declarations. *)

\* Mutant of BlankAfter: it is left to the coordinates.
NoBlankAfter(text) == <<>>

\* A blank, if the last character belongs to a word (out->prev_char).
BlankAfter(text) == IF text # <<>> /\ IsWord(Last(text)) THEN <<" ">> ELSE <<>>

OutputName(n, text) ==
  IF n.op = "" THEN text
  ELSE LET placed == text \o SetOutputCoord IN placed \o BlankAfter(placed) \o <<n.op>>

OutputInit(n) == IF n.kids[2] = NULL THEN <<>> ELSE <<"=">> \o OutputExpr(n.kids[2])

OutputDecl(kind, n) ==
  LET type == n.kids[1]
      declared ==
        IF kind = "EnumConstDecl" THEN SetOutputCoord \o <<n.op>>
        ELSE OutputName(n, SetOutputCoord \o OutputTQ(n.tq \cap StorageClasses)
                           \o OutputPartialType("Left", type))
             \o OutputPartialType("Right", type)
  IN IF "nooutput" \in n.tq THEN <<>>
     ELSE declared \o
          CASE kind = "SUFieldDecl" ->
                 IF n.kids[3] = NULL THEN <<>> ELSE <<":">> \o OutputExpr(n.kids[3])
            [] kind = "FormalDecl" -> <<>>
            [] OTHER -> OutputInit(n)

OutputDeclaration(kind, n) ==
  LET commalist == kind \in {"FormalDecl", "EnumConstDecl"} IN
  CASE n.typ = "Decl" -> LET text == OutputDecl(kind, n) IN
                         IF text = <<>> \/ commalist THEN text ELSE Append(text, ";")
    [] n.typ = "Proc" -> OutputDecl(kind, n.kids[1])
                         \o IF n.kids[2] = NULL THEN <<"{", "}">> ELSE OutputStatement(n.kids[2])
    [] OTHER -> IF kind = "FormalDecl" THEN OutputType(n) ELSE Append(OutputType(n), ";")

Declarations(kind, list) ==
  LET Output(n) == OutputDeclaration(kind, n) IN
  IF kind \in {"FormalDecl", "EnumConstDecl"} THEN CommaSeparated(Output, list)
  ELSE Concat(Output, list)

-----------------------------------------------------------------------------
(* Statements. *)

OutputStatementList(list) == Concat(OutputStatement, list)

Condition(keyword, expr) == <<keyword, " ", "(">> \o OutputExpr(expr) \o <<")", " ">>

OutputBlock(n, begin, end) ==
  LET decls == SelectSeq(n.kids, IsDecl)
      stmts == SelectSeq(n.kids, LAMBDA s : ~IsDecl(s))
  IN SetOutputCoord \o (IF n.parenthesized THEN <<"(">> ELSE <<>>) \o <<begin>>
     \o OutputDeclList("BlockDecl", decls) \o OutputStatementList(stmts)
     \o SetOutputCoord \o <<end>> \o (IF n.parenthesized THEN <<")", ";">> ELSE <<>>)

OutputAsm(n) ==
  LET output == n.kids[2].kids  input == n.kids[3].kids  clobbered == n.kids[4].kids IN
  <<"__asm__">> \o (IF n.tq = {} THEN <<>> ELSE <<" ">> \o OutputTQ(n.tq)) \o <<" ", "(">>
  \o OutputExpr(n.kids[1]) \o <<" ", ":", " ">> \o OutputCommaList(output)
  \o <<" ", ":", " ">> \o OutputCommaList(input)
  \o (IF clobbered = <<>> THEN <<>> ELSE <<" ", ":", " ">> \o OutputCommaList(clobbered))
  \o <<")", ";">>

\* The statements of C; those of Cilk have been translated before, and the
\* printer gives up on them.
OutputControl(n) ==
  LET k == n.kids IN
  CASE n.typ = "Label"    -> <<n.op, ":">>
    [] n.typ = "Switch"   -> Condition("switch", k[1]) \o OutputStatement(k[2])
    [] n.typ = "Case"     -> <<"case", " ">> \o OutputExpr(k[1]) \o <<":", " ">>
    [] n.typ = "Default"  -> <<"default", ":", " ">>
    [] n.typ = "If"       -> Condition("if", k[1]) \o OutputStatement(k[2])
    [] n.typ = "IfElse"   -> Condition("if", k[1]) \o OutputStatement(k[2])
                             \o SetOutputCoord \o <<"else", " ">> \o OutputStatement(k[3])
    [] n.typ = "While"    -> Condition("while", k[1]) \o OutputStatement(k[2])
    [] n.typ = "Do"       -> <<"do">> \o OutputStatement(k[1]) \o SetOutputCoord
                             \o <<"while", " ", "(">> \o OutputExpr(k[2]) \o <<")", ";">>
    [] n.typ = "For"      -> <<"for", " ", "(">> \o OutputExpr(k[1]) \o <<";", " ">>
                             \o OutputExpr(k[2]) \o <<";", " ">> \o OutputExpr(k[3])
                             \o <<")", " ">> \o OutputStatement(k[4])
    [] n.typ = "Goto"     -> <<"goto", " ", n.op, ";">>
    [] n.typ = "Continue" -> <<"continue", ";">>
    [] n.typ = "Break"    -> <<"break", ";">>
    [] n.typ = "Return"   -> IF k[1] = NULL THEN <<"return", ";">>
                             ELSE <<"return", " ">> \o OutputExpr(k[1]) \o <<";">>
    [] n.typ = "Asm"      -> OutputAsm(n)

StatementText(n) ==
  CASE n = NULL           -> <<";">>
    [] n.typ = "Block"    -> OutputBlock(n, "{", "}")
    [] n.typ = "XBlock"   -> OutputBlock(n, "xbegin", "xend")
    [] n.typ \in Expressions -> OutputExpr(n) \o <<";">>
    [] OTHER -> SetOutputCoord \o OutputControl(n)

Text(part, n, how) ==
  CASE part = "InnerExpr"   -> EnclosedExpr(n, how[1], how[2])
    [] part = "PartialType" -> IF how = "Left" THEN OutputLeftType(n) ELSE OutputRightType(n)
    [] part = "Statement"   -> StatementText(n)
    [] part = "DeclList"    -> Declarations(how, n)

OutputProgram(list) == OutputDeclList("TopDecl", list)
=============================================================================
