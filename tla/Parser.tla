------------------------------- MODULE Parser -------------------------------
(***************************************************************************)
(* From the tokens of a C or Cilk program to its trees: the productions of *)
(* the grammar and their actions (src/cilk2c/ANSI-C.c, of ANSI-C.y).       *)
(*                                                                         *)
(* A nonterminal is an operator that takes the tokens and the place where  *)
(* it is to begin, and returns what it has built with the place where it   *)
(* ended, or Fail.  Old-style function definitions, declarators that       *)
(* redeclare a typedef name, attributes, typeof and the error productions  *)
(* are left out.                                                           *)
(***************************************************************************)
EXTENDS Declarators, Lexer

Token(t, i) == IF i \in 1 .. Len(t) THEN t[i] ELSE "end of text"

Got(n, i) == [n |-> n, i |-> i]
Fail      == Got(NULL, 0)
Failed(r) == r.i = 0

\* The result r, if `token' follows it.
Then(t, r, token) == IF ~Failed(r) /\ Token(t, r.i) = token THEN Got(r.n, r.i + 1) ELSE Fail

\* What a nonterminal derives at a place: the rules below, which are recursive
\* through this operator.
RECURSIVE Phrase(_, _, _)
AssignmentExpression(t, i)   == Phrase("AssignmentExpression", t, i)
Expression(t, i)             == Phrase("Expression", t, i)
CastExpression(t, i)         == Phrase("CastExpression", t, i)
ConstantExpression(t, i)     == Phrase("ConstantExpression", t, i)
UnaryExpression(t, i)        == Phrase("UnaryExpression", t, i)
TypeName(t, i)               == Phrase("TypeName", t, i)
Declarator(t, i)             == Phrase("Declarator", t, i)
AbstractDeclarator(t, i)     == Phrase("AbstractDeclarator", t, i)
Initializer(t, i)            == Phrase("Initializer", t, i)
CompoundStatement(t, i)      == Phrase("CompoundStatement", t, i)
Statement(t, i)              == Phrase("Statement", t, i)
Declaration(t, i)            == Phrase("Declaration", t, i)
ParameterDeclaration(t, i)   == Phrase("ParameterDeclaration", t, i)
PostfixExpression(t, i)      == Phrase("PostfixExpression", t, i)
DeclarationSpecifiers(t, i)  == Phrase("DeclarationSpecifiers", t, i)
StructOrUnionOrEnum(t, i)    == Phrase("StructOrUnionOrEnum", t, i)
StructFields(t, i)           == Phrase("StructFields", t, i)
ExternalDefinition(t, i)     == Phrase("ExternalDefinition", t, i)
TranslationUnit(t, i)        == Phrase("TranslationUnit", t, i)

-----------------------------------------------------------------------------
(* Lists whose items a comma separates. *)

Enumerator(t, i) ==
  LET value == IF Token(t, i + 1) = "=" THEN ConstantExpression(t, i + 2) ELSE Got(NULL, i + 1)
  IN IF ~IsIdentifier(Token(t, i)) \/ Failed(value) THEN Fail
     ELSE Got(BuildEnumConst(Token(t, i), value.n), value.i)

StringLiteral(t, i) == IF Token(t, i) \in Strings THEN Got(MakeString(t[i]), i + 1) ELSE Fail

AsmArgument(t, i) ==
  LET constraint == Then(t, StringLiteral(t, i), "(")
      expr == Then(t, AssignmentExpression(t, constraint.i), ")")
  IN IF Failed(constraint) \/ Failed(expr) THEN Fail
     ELSE Got(MakeAsmArg(constraint.n, expr.n), expr.i)

RECURSIVE ListOf(_, _, _, _)
ListOf(kind, t, i, before) ==
  LET item == Phrase(kind, t, i)
      list == Append(before, item.n)
  IN IF Failed(item) THEN Fail
     ELSE IF Token(t, item.i) = "," THEN
            LET more == ListOf(kind, t, item.i + 1, list) IN
            \* A comma may end the list of an initializer or an enum.
            IF Failed(more) /\ Token(t, item.i + 1) = "}" THEN Got(ListNode(list), item.i + 1)
            ELSE more
     ELSE Got(ListNode(list), item.i)

\* A list that may be empty, with its closing token.
OptionalList(kind, t, i, close) ==
  IF Token(t, i) = close THEN Got(ListNode(<<>>), i + 1)
  ELSE Then(t, ListOf(kind, t, i, <<>>), close)

-----------------------------------------------------------------------------
(* Expressions. *)

TypeStarters ==
  TypedefNames \cup (TypeKeywords \ StorageClasses) \cup {"cilk", "inlet", "shared", "private"}
StartsType(t, i) == Token(t, i) \in TypeStarters

StatementExpression(t, i) ==
  LET block == Then(t, CompoundStatement(t, i + 1), ")") IN
  IF Failed(block) \/ (block.n.kids = <<>> \/ IsDecl(Last(block.n.kids))) THEN Fail ELSE block

PrimaryExpression(t, i) ==
  LET token == Token(t, i) IN
  CASE token = "(" /\ Token(t, i + 1) = "{" -> StatementExpression(t, i)
    [] token = "(" /\ Token(t, i + 1) # "{" ->
         LET expr == Then(t, Expression(t, i + 1), ")") IN
         IF Failed(expr) THEN Fail ELSE [expr EXCEPT !.n.parenthesized = TRUE]
    [] token \in DOMAIN Numbers ->
         Got(Node("Const", token, {}, <<MakePrim({}, Numbers[token])>>), i + 1)
    [] token \in Strings  -> StringLiteral(t, i)
    [] token = "SYNCHED"  -> Got(MakeSynched, i + 1)
    [] token # "end of text" /\ IsIdentifier(token) -> Got(MakeId(token), i + 1)
    [] OTHER -> Fail

RECURSIVE PostfixRest(_, _)
PostfixRest(t, r) ==
  LET token == Token(t, r.i)
      name  == Token(t, r.i + 1)
  IN CASE Failed(r) -> Fail
       [] ~Failed(r) /\ token = "[" ->
            LET dim == Then(t, Expression(t, r.i + 1), "]") IN
            IF Failed(dim) THEN Fail ELSE PostfixRest(t, Got(ExtendArray(r.n, dim.n), dim.i))
       [] ~Failed(r) /\ token = "(" ->
            LET args == OptionalList("AssignmentExpression", t, r.i + 1, ")") IN
            IF Failed(args) THEN Fail
            ELSE PostfixRest(t, Got(MakeCall(r.n, args.n.kids), args.i))
       [] ~Failed(r) /\ token \in {".", "->"} ->
            IF IsIdentifier(name) \/ name \in TypedefNames
            THEN PostfixRest(t, Got(MakeBinop(token, r.n, MakeId(name)), r.i + 2)) ELSE Fail
       [] ~Failed(r) /\ token \in {"++", "--"} ->
            PostfixRest(t, Got(MakeUnary(IF token = "++" THEN "POSTINC" ELSE "POSTDEC", r.n),
                               r.i + 1))
       [] OTHER -> r

PostfixExpressionRule(t, i) == PostfixRest(t, PrimaryExpression(t, i))

Prefixed(op, r) == IF Failed(r) THEN Fail ELSE Got(MakeUnary(op, r.n), r.i)

BuiltinVaArg(t, i) ==
  LET expr == IF Token(t, i + 1) = "(" THEN Then(t, AssignmentExpression(t, i + 2), ",") ELSE Fail
      type == Then(t, TypeName(t, expr.i), ")")
  IN IF Failed(expr) \/ Failed(type) THEN Fail ELSE Got(MakeBuiltinVaArg(expr.n, type.n), type.i)

UnaryExpressionRule(t, i) ==
  LET token == Token(t, i) IN
  CASE token = "++" -> Prefixed("PREINC", UnaryExpression(t, i + 1))
    [] token = "--" -> Prefixed("PREDEC", UnaryExpression(t, i + 1))
    [] token \in {"&", "*", "+", "-", "~", "!"} -> Prefixed(token, CastExpression(t, i + 1))
    [] token \in {"sizeof", "__alignof__"} ->
         Prefixed(IF token = "sizeof" THEN "SIZEOF" ELSE "ALIGNOF",
                  IF Token(t, i + 1) = "(" /\ StartsType(t, i + 2)
                  THEN Then(t, TypeName(t, i + 2), ")") ELSE UnaryExpression(t, i + 1))
    [] token = "__builtin_va_arg" -> BuiltinVaArg(t, i)
    [] OTHER -> PostfixExpression(t, i)

BracketedInitializerList(t, i) ==
  LET list == OptionalList("Initializer", t, i + 1, "}") IN
  IF Token(t, i) # "{" \/ Failed(list) THEN Fail ELSE Got(MakeInitializer(list.n.kids), list.i)

CastExpressionRule(t, i) ==
  IF Token(t, i) = "(" /\ StartsType(t, i + 1)
  THEN LET type == Then(t, TypeName(t, i + 1), ")")
           init == BracketedInitializerList(t, type.i)
           expr == CastExpression(t, type.i)
       IN CASE Failed(type) -> Fail
            [] ~Failed(type) /\ Token(t, type.i) = "{" ->
                 IF Failed(init) THEN Fail ELSE Got(MakeConstructor(type.n, init.n), init.i)
            [] OTHER -> IF Failed(expr) THEN Fail ELSE Got(MakeCast(type.n, expr.n), expr.i)
  ELSE UnaryExpression(t, i)

\* The binary operators, from those that bind weakest: the nonterminals from
\* logical.OR.expression to multiplicative.expression.
BinaryOperators ==
  << {"||"}, {"&&"}, {"|"}, {"^"}, {"&"}, {"==", "!="}, {"<", ">", "<=", ">="},
     {"<<", ">>"}, {"+", "-"}, {"*", "/", "%"} >>

\* An expression of this level that begins with the operand r.
RECURSIVE BinaryFrom(_, _, _), BinaryRest(_, _, _)
BinaryFrom(level, t, r) ==
  IF level > Len(BinaryOperators) \/ Failed(r) THEN r
  ELSE BinaryRest(level, t, BinaryFrom(level + 1, t, r))

BinaryRest(level, t, r) ==
  IF Failed(r) \/ Token(t, r.i) \notin BinaryOperators[level] THEN r
  ELSE LET right == BinaryFrom(level + 1, t, CastExpression(t, r.i + 1)) IN
       IF Failed(right) THEN Fail
       ELSE BinaryRest(level, t, Got(MakeBinop(Token(t, r.i), r.n, right.n), right.i))

\* A conditional expression that begins with the operand r.
RECURSIVE ConditionalFrom(_, _)
ConditionalFrom(t, r) ==
  LET cond  == BinaryFrom(1, t, r)
      true  == IF Token(t, cond.i + 1) = ":" THEN Got(NULL, cond.i + 2)
               ELSE Then(t, Expression(t, cond.i + 1), ":")
      false == ConditionalFrom(t, CastExpression(t, true.i))
  IN CASE Failed(cond) -> Fail
       [] ~Failed(cond) /\ Token(t, cond.i) = "?" ->
            IF Failed(true) \/ Failed(false) THEN Fail
            ELSE Got(MakeTernary(cond.n, true.n, false.n), false.i)
       [] OTHER -> cond

ConstantExpressionRule(t, i) == ConditionalFrom(t, CastExpression(t, i))

AssignmentExpressionRule(t, i) ==
  LET left  == CastExpression(t, i)
      right == AssignmentExpression(t, left.i + 1)
  IN IF Failed(left) THEN Fail
     ELSE IF Token(t, left.i) \notin AssignmentOperators THEN ConditionalFrom(t, left)
     ELSE IF Failed(right) THEN Fail
     ELSE Got(MakeBinop(Token(t, left.i), left.n, right.n), right.i)

RECURSIVE CommaRest(_, _)
CommaRest(t, r) ==
  LET next == AssignmentExpression(t, r.i + 1) IN
  IF Failed(r) \/ Token(t, r.i) # "," THEN r
  ELSE IF Failed(next) THEN Fail
  ELSE CommaRest(t, Got(IF r.n.typ = "Comma" THEN [r.n EXCEPT !.kids = Append(@, next.n)]
                        ELSE MakeComma(<<r.n, next.n>>), next.i))

ExpressionRule(t, i) == CommaRest(t, AssignmentExpression(t, i))

ExpressionOpt(t, i, close) ==
  IF Token(t, i) = close THEN Got(NULL, i + 1) ELSE Then(t, Expression(t, i), close)

InitializerRule(t, i) ==
  LET basic(j) == IF Token(t, j) = "{" THEN BracketedInitializerList(t, j)
                  ELSE AssignmentExpression(t, j)
      labeled(op, label, value) ==
        IF Failed(value) THEN Fail ELSE Got(MakeBinop(op, label, value.n), value.i)
      index == Then(t, AssignmentExpression(t, i + 1), "]")
  IN CASE Token(t, i) = "." ->
            IF Token(t, i + 2) # "=" THEN Fail
            ELSE labeled(":=", MakeId(Token(t, i + 1)), basic(i + 3))
       [] Token(t, i) = "[" ->
            IF Failed(index) THEN Fail
            ELSE labeled("[]=", index.n,
                         basic(IF Token(t, index.i) = "=" THEN index.i + 1 ELSE index.i))
       [] IsIdentifier(Token(t, i)) /\ Token(t, i + 1) = ":" ->
            labeled(":", MakeId(Token(t, i)), basic(i + 2))
       [] OTHER -> basic(i)

-----------------------------------------------------------------------------
(* Type specifiers and qualifiers, in any order. *)

Qualifiers ==
  [w \in {"auto", "extern", "register", "static", "typedef", "const", "volatile", "inline",
          "inlet", "shared", "private"} |-> w]
  @@ ("__restrict" :> "restrict") @@ ("__complex__" :> "complex") @@ ("cilk" :> "procedure")

PrimNames == {"void", "char", "int", "float", "double", "signed", "unsigned", "short", "long"}

\* The bit-field after a struct declarator.
BitFieldSizeOpt(t, r) ==
  LET size == ConstantExpression(t, r.i + 1) IN
  IF Failed(r) \/ Token(t, r.i) # ":" THEN r
  ELSE IF Failed(size) THEN Fail ELSE Got(SetDeclBitSize(r.n, size.n), size.i)

\* The declarators after the first of a field list.
RECURSIVE StructDeclarators(_, _, _)
StructDeclarators(t, i, list) ==
  LET next == BitFieldSizeOpt(t, Declarator(t, i + 1)) IN
  CASE Token(t, i) = ";" -> Got(ListNode(list), i + 1)
    [] Token(t, i) = "," /\ ~Failed(next) ->
         StructDeclarators(t, next.i, AppendDecl(list, next.n, "su_decl"))
    [] OTHER -> Fail

\* The fields of a struct or union up to its closing brace.
RECURSIVE StructDeclarationList(_, _, _)
StructDeclarationList(t, i, before) ==
  LET type  == DeclarationSpecifiers(t, i)
      first == BitFieldSizeOpt(t, Declarator(t, type.i))
      list  == StructDeclarators(t, first.i, <<SetDeclType(first.n, type.n, "su_decl")>>)
  IN CASE Token(t, i) = "}" -> Got(ListNode(before), i + 1)
       [] Token(t, i) # "}" /\ (Failed(type) \/ Failed(first)) -> Fail
       [] OTHER -> IF Failed(list) THEN Fail
                   ELSE StructDeclarationList(t, list.i, before \o list.n.kids)

StructOrUnionSpecifier(t, i) ==
  LET tagged == IsIdentifier(Token(t, i + 1)) \/ Token(t, i + 1) \in TypedefNames
      tag    == IF tagged THEN Token(t, i + 1) ELSE ""
      after  == IF tagged THEN i + 2 ELSE i + 1
      fields == StructFields(t, after + 1)
      sudcl  == MakeSudcl(Token(t, i), "")
  IN CASE Token(t, after) = "{" ->
            IF Failed(fields) THEN Fail
            ELSE Got(SetSUdclNameFields(sudcl, tag, fields.n.kids), fields.i)
       [] Token(t, after) # "{" /\ tagged -> Got(SetSUdclName(sudcl, tag), after)
       [] OTHER -> Fail

EnumSpecifier(t, i) ==
  LET tagged == IsIdentifier(Token(t, i + 1)) \/ Token(t, i + 1) \in TypedefNames
      tag    == IF tagged THEN Token(t, i + 1) ELSE ""
      after  == IF tagged THEN i + 2 ELSE i + 1
      values == Then(t, ListOf("Enumerator", t, after + 1, <<>>), "}")
  IN CASE Token(t, after) = "{" ->
            IF Failed(values) THEN Fail ELSE Got(BuildEnum(tag, values.n.kids), values.i)
       [] Token(t, after) # "{" /\ tagged -> Got(BuildEnum(tag, <<>>), after)
       [] OTHER -> Fail

\* What the specifiers have said so far: the qualifiers, the primitive type
\* if one has begun, or else the type.
NoSpecifiers == [tq |-> {}, prim |-> <<>>, type |-> NULL]

NamedType(said) ==
  IF said.type # NULL THEN said.type
  ELSE IF said.prim = <<>> THEN MakeDefaultPrimType({}) ELSE FinishPrimType(said.prim[1])

RECURSIVE Specifiers(_, _, _)
Specifiers(t, i, said) ==
  LET token   == Token(t, i)
      untyped == said.type = NULL /\ said.prim = <<>>
      elaborated == StructOrUnionOrEnum(t, i)
      prim == StartPrimType(token)
  IN CASE token \in DOMAIN Qualifiers ->
            Specifiers(t, i + 1, [said EXCEPT !.tq = MergeTypeQuals(@, {Qualifiers[token]})])
       [] token \in PrimNames /\ said.type = NULL ->
            Specifiers(t, i + 1, [said EXCEPT !.prim =
              IF @ = <<>> THEN <<prim>> ELSE <<MergePrimTypes(@[1], prim)>>])
       [] token \in TypedefNames /\ untyped ->
            Specifiers(t, i + 1, [said EXCEPT !.type = MakeTdef({}, token)])
       [] token \in {"struct", "union", "enum"} /\ untyped ->
            IF Failed(elaborated) THEN Fail
            ELSE Specifiers(t, elaborated.i, [said EXCEPT !.type = elaborated.n])
       [] OTHER -> IF said = NoSpecifiers THEN Fail
                   ELSE Got(TypeQualifyNode(NamedType(said), said.tq), i)

-----------------------------------------------------------------------------
(* Declarators. *)

\* The qualifiers after a `*'.
RECURSIVE PointerQualifiers(_, _, _)
PointerQualifiers(t, i, tq) ==
  IF Token(t, i) \in {"const", "volatile", "__restrict", "cilk", "inlet"}
  THEN PointerQualifiers(t, i + 1, MergeTypeQuals(tq, {Qualifiers[Token(t, i)]}))
  ELSE Got(MakePtr(tq, NULL), i)

RECURSIVE ArrayAbstractDeclarator(_, _, _)
ArrayAbstractDeclarator(t, i, before) ==
  LET dim   == IF Token(t, i + 1) = "]" THEN Got(NULL, i + 2)
               ELSE Then(t, ConstantExpression(t, i + 1), "]")
      array == MakeAdcl({}, NULL, dim.n)
      chain == IF before = NULL THEN array ELSE SetBaseType(before, array)
  IN CASE Failed(dim) -> Fail
       [] ~Failed(dim) /\ Token(t, dim.i) = "[" -> ArrayAbstractDeclarator(t, dim.i, chain)
       [] OTHER -> Got(chain, dim.i)

PostfixingAbstractDeclarator(t, i) ==
  LET params == OptionalList("ParameterDeclaration", t, i + 1, ")") IN
  IF Token(t, i) = "[" THEN ArrayAbstractDeclarator(t, i, NULL)
  ELSE IF Failed(params) THEN Fail
  ELSE Got(DemoteProcArgs(MakeFdcl({}, params.n.kids, NULL)), params.i)

\* A declarator that arrays or one list of parameters follow.
Postfixed(t, r, Modify(_, _)) ==
  IF Failed(r) \/ Token(t, r.i) \notin {"[", "("} THEN r
  ELSE LET mod == PostfixingAbstractDeclarator(t, r.i) IN
       IF Failed(mod) THEN Fail ELSE Got(Modify(r.n, mod.n), mod.i)

DeclaratorRule(t, i) ==
  LET pointer == PointerQualifiers(t, i + 1, {})
      target  == Declarator(t, pointer.i)
  IN CASE Token(t, i) = "*" ->
            IF Failed(target) THEN Fail ELSE Got(ModifyDeclType(target.n, pointer.n), target.i)
       [] Token(t, i) = "(" ->
            Postfixed(t, Then(t, Declarator(t, i + 1), ")"), ModifyDeclType)
       [] i =< Len(t) /\ IsIdentifier(Token(t, i)) ->
            Postfixed(t, Got(MakeDecl(t[i], {}, NULL, NULL, NULL), i + 1), ModifyDeclType)
       [] OTHER -> Fail

StartsParameters(t, i) ==
  Token(t, i) \in {")", "..."} \/ StartsType(t, i) \/ Token(t, i) = "register"

AbstractDeclaratorRule(t, i) ==
  LET pointer == PointerQualifiers(t, i + 1, {})
      target  == AbstractDeclarator(t, pointer.i)
      inner   == Then(t, AbstractDeclarator(t, i + 1), ")")
  IN CASE Token(t, i) = "*" ->
            IF Token(t, pointer.i) \notin {"*", "[", "("} THEN pointer
            ELSE IF Failed(target) THEN Fail ELSE Got(SetBaseType(target.n, pointer.n), target.i)
       [] Token(t, i) = "[" \/ (Token(t, i) = "(" /\ StartsParameters(t, i + 1)) ->
            PostfixingAbstractDeclarator(t, i)
       [] Token(t, i) = "(" /\ ~StartsParameters(t, i + 1) ->
            IF Token(t, i + 1) = "*" THEN Postfixed(t, inner, SetBaseType) ELSE inner
       [] OTHER -> Fail

TypeNameRule(t, i) ==
  LET type == DeclarationSpecifiers(t, i)
      modifier == AbstractDeclarator(t, type.i)
  IN CASE Failed(type) \/ type.n.tq \cap StorageClasses # {} -> Fail
       [] ~Failed(type) /\ Token(t, type.i) \in {"*", "[", "("} ->
            IF Failed(modifier) THEN Fail
            ELSE Got(FinishType(SetBaseType(modifier.n, type.n)), modifier.i)
       [] OTHER -> Got(FinishType(type.n), type.i)

ParameterDeclarationRule(t, i) ==
  LET type  == DeclarationSpecifiers(t, i)
      named == Declarator(t, type.i)
      modifier == AbstractDeclarator(t, type.i)
  IN CASE Token(t, i) = "..." -> Got(MakePrim({}, "Ellipsis"), i + 1)
       [] Token(t, i) # "..." /\ Failed(type) -> Fail
       [] OTHER -> IF ~Failed(named)
                   THEN Got(SetDeclType(named.n, type.n, "formal_decl"), named.i)
                   ELSE IF ~Failed(modifier)
                   THEN Got(SetBaseType(modifier.n, type.n), modifier.i)
                   ELSE type
-----------------------------------------------------------------------------
(* Declarations.  `location' says where one stands. *)

IsSUE(type) == type.typ \in {"Sdcl", "Udcl", "Edcl"}

InitializerOpt(t, r) ==
  LET init == Initializer(t, r.i + 1) IN
  IF Failed(r) \/ Token(t, r.i) # "=" THEN r
  ELSE IF Failed(init) THEN Fail ELSE Got(SetDeclInit(r.n, init.n), init.i)

\* The declarators after the first of a declaration.
RECURSIVE DeclaringList(_, _, _, _)
DeclaringList(t, i, list, location) ==
  LET name == Declarator(t, i + 1)
      decl == Last(AppendDecl(list, name.n, location))
      next == InitializerOpt(t, Got(decl, name.i))
  IN CASE Token(t, i) = ";" -> Got(ListNode(list), i + 1)
       [] Token(t, i) = "," /\ ~Failed(name) /\ ~Failed(next) ->
            DeclaringList(t, next.i, Append(list, next.n), location)
       [] OTHER -> Fail

\* A declaration of any number of names, of a tag, or a function definition.
DeclarationAt(t, i, location) ==
  LET type  == DeclarationSpecifiers(t, i)
      name  == Declarator(t, type.i)
      decl  == SetDeclType(name.n, type.n, location)
      first == InitializerOpt(t, Got(decl, name.i))
      body  == CompoundStatement(t, name.i)
      proc  == SetProcBody(DefineProc(decl, location), body.n)
  IN CASE Failed(type) -> Fail
       [] ~Failed(type) /\ Token(t, type.i) = ";" ->
            IF IsSUE(type.n) THEN Got(ListNode(<<type.n>>), type.i + 1) ELSE Fail
       [] OTHER -> IF Failed(name) THEN Fail
                   ELSE IF Token(t, name.i) = "{"
                   THEN IF Failed(body) THEN Fail ELSE Got(ListNode(<<proc>>), body.i)
                   ELSE IF Failed(first) THEN Fail
                   ELSE DeclaringList(t, first.i, <<first.n>>, location)

DeclarationRule(t, i) == DeclarationAt(t, i, "block_decl")

-----------------------------------------------------------------------------
(* Statements. *)

DeclarationStarters ==
  DOMAIN Qualifiers \cup PrimNames \cup {"struct", "union", "enum"} \cup TypedefNames
StartsDeclaration(t, i) == Token(t, i) \in DeclarationStarters /\ Token(t, i + 1) # ":"

RECURSIVE DeclarationList(_, _, _), StatementList(_, _, _, _)
DeclarationList(t, i, before) ==
  LET decl == Declaration(t, i) IN
  IF ~StartsDeclaration(t, i) THEN Got(ListNode(before), i)
  ELSE IF Failed(decl) THEN Fail ELSE DeclarationList(t, decl.i, before \o decl.n.kids)

StatementList(t, i, before, close) ==
  LET stmt == Statement(t, i) IN
  IF Token(t, i) = close THEN Got(ListNode(before), i + 1)
  ELSE IF Failed(stmt) THEN Fail ELSE StatementList(t, stmt.i, Append(before, stmt.n), close)

\* A label has to be followed by a statement: add the null statement.
MaybeCheckLabelAtEndOfCompoundStatement(stmts) ==
  IF stmts # <<>> /\ Last(stmts).typ \in {"Label", "Default", "Case"}
  THEN Append(stmts, NULL) ELSE stmts

CompoundStatementRule(t, i) ==
  LET close == IF Token(t, i) = "{" THEN "}" ELSE "xend"
      decls == DeclarationList(t, i + 1, <<>>)
      stmts == StatementList(t, decls.i, <<>>, close)
      list  == MaybeCheckLabelAtEndOfCompoundStatement(stmts.n.kids)
  IN CASE Token(t, i) \notin {"{", "xbegin"} -> Fail
       [] Token(t, i) \in {"{", "xbegin"} /\ (Failed(decls) \/ Failed(stmts)) -> Fail
       [] OTHER -> Got(IF close = "}" THEN MakeBlock(decls.n.kids, list)
                       ELSE MakeXBlock(decls.n.kids, list), stmts.i)

LabeledStatement(t, i) ==
  LET value == Then(t, ConstantExpression(t, i + 1), ":") IN
  CASE Token(t, i) = "case"    -> IF Failed(value) THEN Fail ELSE Got(MakeCase(value.n), value.i)
    [] Token(t, i) = "default" -> Then(t, Got(MakeDefault, i + 1), ":")
    [] OTHER -> Got(MakeLabel(Token(t, i)), i + 2)

\* The expression in parentheses after a keyword.
Parenthesized(t, i) ==
  IF Token(t, i) = "(" THEN Then(t, Expression(t, i + 1), ")") ELSE Fail

SelectionStatement(t, i) ==
  LET cond  == Parenthesized(t, i + 1)
      true  == Statement(t, cond.i)
      false == Statement(t, true.i + 1)
  IN CASE Failed(cond) -> Fail
       [] ~Failed(cond) /\ Failed(true) -> Fail
       [] OTHER -> IF Token(t, i) = "switch" THEN Got(MakeSwitch(cond.n, true.n), true.i)
                   ELSE IF Token(t, true.i) # "else" THEN Got(MakeIf(cond.n, true.n), true.i)
                   ELSE IF Failed(false) THEN Fail
                   ELSE Got(MakeIfElse(cond.n, true.n, false.n), false.i)

WhileStatement(t, i) ==
  LET cond == Parenthesized(t, i + 1)
      body == Statement(t, cond.i)
  IN IF Failed(cond) \/ Failed(body) THEN Fail ELSE Got(MakeWhile(cond.n, body.n), body.i)

DoStatement(t, i) ==
  LET body == Then(t, Statement(t, i + 1), "while")
      cond == Then(t, Parenthesized(t, body.i), ";")
  IN IF Failed(body) \/ Failed(cond) THEN Fail ELSE Got(MakeDo(body.n, cond.n), cond.i)

ForStatement(t, i) ==
  LET init == IF Token(t, i + 1) = "(" THEN ExpressionOpt(t, i + 2, ";") ELSE Fail
      cond == ExpressionOpt(t, init.i, ";")
      next == ExpressionOpt(t, cond.i, ")")
      body == Statement(t, next.i)
  IN IF Failed(init) \/ Failed(cond) \/ Failed(next) \/ Failed(body) THEN Fail
     ELSE Got(MakeFor(init.n, cond.n, next.n, body.n), body.i)

JumpStatement(t, i) ==
  LET token == Token(t, i)
      value == ExpressionOpt(t, i + 1, ";")
  IN CASE token = "goto"     -> Then(t, Got(MakeGoto(Token(t, i + 1)), i + 2), ";")
       [] token = "continue" -> Then(t, Got(MakeContinue, i + 1), ";")
       [] token = "break"    -> Then(t, Got(MakeBreak, i + 1), ";")
       [] token = "return"   -> IF Failed(value) THEN Fail ELSE Got(MakeReturn(value.n), value.i)

\* A list of asm arguments after a colon; without the colon there is none.
AsmListOpt(kind, t, i) ==
  IF Token(t, i) # ":" THEN Got(ListNode(<<>>), i)
  ELSE IF Token(t, i + 1) \in {":", ")"} THEN Got(ListNode(<<>>), i + 1)
  ELSE ListOf(kind, t, i + 1, <<>>)

AsmStatement(t, i) ==
  LET qualified == Token(t, i + 1) \in DOMAIN Qualifiers
      open      == IF qualified THEN i + 2 ELSE i + 1
      template  == StringLiteral(t, open + 1)
      output    == AsmListOpt("AsmArgument", t, template.i)
      input     == AsmListOpt("AsmArgument", t, output.i)
      clobbered == AsmListOpt("StringLiteral", t, input.i)
      end       == Then(t, Then(t, clobbered, ")"), ";")
  IN IF Token(t, open) # "(" \/ Failed(template) \/ Failed(output) \/ Failed(input) \/ Failed(end)
     THEN Fail
     ELSE Got(MakeAsm(IF qualified THEN {Qualifiers[Token(t, i + 1)]} ELSE {}, template.n,
                      output.n.kids, input.n.kids, clobbered.n.kids), end.i)

ExpressionStatement(t, i) ==
  LET expr == ExpressionOpt(t, i, ";") IN
  IF Failed(expr) THEN Fail
  \* Remember that this block is an expression, not a compound statement.
  ELSE IF expr.n.typ = "Block" THEN [expr EXCEPT !.n.parenthesized = TRUE]
  ELSE expr

StatementRule(t, i) ==
  LET token == Token(t, i) IN
  CASE token \in {"case", "default"} -> LabeledStatement(t, i)
    [] token \in {"{", "xbegin"} -> CompoundStatement(t, i)
    [] token \in {"if", "switch"} -> SelectionStatement(t, i)
    [] token = "while" -> WhileStatement(t, i)
    [] token = "do"    -> DoStatement(t, i)
    [] token = "for"   -> ForStatement(t, i)
    [] token \in {"goto", "continue", "break", "return"} -> JumpStatement(t, i)
    [] token = "__asm__" -> AsmStatement(t, i)
    [] token = "end of text" -> Fail
    [] OTHER -> IF Token(t, i + 1) = ":" /\ (IsIdentifier(token) \/ token \in TypedefNames)
                THEN LabeledStatement(t, i) ELSE ExpressionStatement(t, i)

-----------------------------------------------------------------------------
(* Programs. *)

RECURSIVE Definitions(_, _, _)
Definitions(t, i, before) ==
  LET definition == ExternalDefinition(t, i) IN
  CASE i > Len(t) -> Got(ListNode(before), i)
    [] i =< Len(t) /\ Token(t, i) = ";" -> Definitions(t, i + 1, before)
    [] OTHER -> IF Failed(definition) THEN Fail
                ELSE Definitions(t, definition.i, before \o definition.n.kids)

Phrase(nonterminal, t, i) ==
  CASE nonterminal = "AssignmentExpression" -> AssignmentExpressionRule(t, i)
    [] nonterminal = "Expression" -> ExpressionRule(t, i)
    [] nonterminal = "CastExpression" -> CastExpressionRule(t, i)
    [] nonterminal = "ConstantExpression" -> ConstantExpressionRule(t, i)
    [] nonterminal = "UnaryExpression" -> UnaryExpressionRule(t, i)
    [] nonterminal = "TypeName" -> TypeNameRule(t, i)
    [] nonterminal = "Declarator" -> DeclaratorRule(t, i)
    [] nonterminal = "AbstractDeclarator" -> AbstractDeclaratorRule(t, i)
    [] nonterminal = "Initializer" -> InitializerRule(t, i)
    [] nonterminal = "CompoundStatement" -> CompoundStatementRule(t, i)
    [] nonterminal = "Statement" -> StatementRule(t, i)
    [] nonterminal = "Declaration" -> DeclarationRule(t, i)
    [] nonterminal = "ParameterDeclaration" -> ParameterDeclarationRule(t, i)
    [] nonterminal = "PostfixExpression" -> PostfixExpressionRule(t, i)
    [] nonterminal = "DeclarationSpecifiers" -> Specifiers(t, i, NoSpecifiers)
    [] nonterminal = "StructOrUnionOrEnum" ->
         IF Token(t, i) = "enum" THEN EnumSpecifier(t, i) ELSE StructOrUnionSpecifier(t, i)
    [] nonterminal = "Enumerator" -> Enumerator(t, i)
    [] nonterminal = "AsmArgument" -> AsmArgument(t, i)
    [] nonterminal = "StringLiteral" -> StringLiteral(t, i)
    [] nonterminal = "StructFields" -> StructDeclarationList(t, i, <<>>)
    [] nonterminal = "ExternalDefinition" -> DeclarationAt(t, i, "top_decl")
    [] nonterminal = "TranslationUnit" -> Definitions(t, i, <<>>)

\* What stays inside a statement of its kind: break and continue within loops,
\* the cases of a switch (AddContainee, with the stack of PushContainer).
RECURSIVE Contained(_, _)
Contained(n, stack) ==
  LET inside == IF n.typ \in {"Switch", "While", "Do", "For"} THEN stack \cup {n.typ} ELSE stack
  IN /\ n.typ = "Break" => stack # {}
     /\ n.typ = "Continue" => stack \ {"Switch"} # {}
     /\ n.typ \in {"Case", "Default"} => "Switch" \in stack
     /\ \A k \in 1 .. Len(n.kids) :
          IF n.typ = "For" /\ k < 4 THEN Contained(n.kids[k], stack)
          ELSE Contained(n.kids[k], inside)

\* The labels of a function are declared once each, and its gotos name them.
LabelsResolved(n) ==
  LET nodes  == WalkTree(n)
      labels == SelectSeq(nodes, LAMBDA m : m.typ = "Label")
  IN /\ \A j, k \in 1 .. Len(labels) : labels[j].op = labels[k].op => j = k
     /\ \A k \in 1 .. Len(nodes) : nodes[k].typ = "Goto" =>
          \E j \in 1 .. Len(labels) : labels[j].op = nodes[k].op

Accepted(unit) ==
  LET nodes == WalkTree(unit.n) IN
  /\ ~Failed(unit) /\ Contained(unit.n, {})
  /\ \A k \in 1 .. Len(nodes) :
       nodes[k] # Error /\ (nodes[k].typ = "Proc" => LabelsResolved(nodes[k]))

ErrorsIn(unit) == IF Accepted(unit) THEN unit ELSE Fail

\* The definitions that are the tokens t, or Fail if there is a syntax error.
Parse(t) == ErrorsIn(TranslationUnit(t, 1))
=============================================================================
