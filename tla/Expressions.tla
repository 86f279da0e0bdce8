---------------------------- MODULE Expressions ----------------------------
(***************************************************************************)
(* Types and constants of expressions in cilk2c: the specifiers of a type  *)
(* (type.c), the constants of the lexer (c4.l), the conversions            *)
(* (conversions.c), and the type and the value the semantic check gives an *)
(* expression (sem-check.c, constexpr.c).                                  *)
(*                                                                         *)
(* The model is the value stack of a parser: a step pushes a constant, a   *)
(* variable or a specifier, or builds an expression from those on top and  *)
(* checks it.  An expression is its type and its constant, of a type of    *)
(* its own, beside the operand c that C says it is: all that the rules     *)
(* look at, so that expressions of any size are reached.                   *)
(*                                                                         *)
(* Integers only: floating types are folded by the same code, pointers are *)
(* not folded.  The guards named Known keep out what cilk2c is known to do *)
(* differently from C.                                                     *)
(***************************************************************************)
EXTENDS CArithmetic, Sequences, SequencesExt, FiniteSetsExt

CONSTANTS MaxSpecifiers,    \* words of a type
          MaxDepth          \* of the stack
ASSUME ExpressionsAssumption == MaxSpecifiers \in Nat /\ MaxDepth \in Nat

VARIABLE stack

-----------------------------------------------------------------------------
(* Partial types: ExplodedType. *)

SpecifierOf(w) ==
    [base   |-> IF w \in {"void", "char", "int", "float", "double"} THEN w ELSE "",
     sign   |-> IF w \in {"signed", "unsigned"} THEN w ELSE "",
     length |-> IF w \in {"short", "long"} THEN w ELSE ""]

First(a, b) == IF a = "" THEN b ELSE a
Both(a, b)  == a /= "" /\ b /= ""

MergeLengths(a, b) == IF a = "long" /\ b = "long" THEN "long long" ELSE First(a, b)
MayHaveSign(base)  == base \in {"", "int", "char"}
\* mutant: any double may be long, and short.
MayHaveAnyLength(base, length) == base \in {"", "int", "double"}
MayHaveLength(base, length) == base \in {"", "int"} \/ (base = "double" /\ length = "long")

(* error: some specifiers conflict. *)
MergePrimTypes(et1, et2) ==
    LET base   == First(et1.base, et2.base)
        sign   == First(et1.sign, et2.sign)
        length == MergeLengths(et1.length, et2.length)
        signed == sign = "" \/ MayHaveSign(base)
        long   == length = "" \/ MayHaveLength(base, length)
    IN  [base |-> base,
         sign |-> IF signed THEN sign ELSE "",
         length |-> IF long THEN length ELSE "",
         error |-> \/ Both(et1.base, et2.base)
                   \/ Both(et1.sign, et2.sign) /\ et1.sign /= et2.sign
                   \/ Both(et1.length, et2.length) /\ <<et1.length, et2.length>> /= <<"long", "long">>
                   \/ ~signed \/ ~long]

FinishPrimType(et) ==
    LET Either(u, s) == IF et.sign = "unsigned" THEN u ELSE s
    IN  CASE et.base \in {"", "int"} ->
                (CASE et.length = "short"     -> Either("Ushort", "Sshort")
                   [] et.length = "long"      -> Either("Ulong", "Slong")
                   [] et.length = "long long" -> Either("Ulonglong", "Slonglong")
                   [] et.length = ""          -> Either("Uint", "Sint"))
          [] et.base = "char"   -> IF et.sign = "" THEN "Char" ELSE Either("Uchar", "Schar")
          [] et.base = "double" -> IF et.length = "long" THEN "Longdouble" ELSE "Double"
          [] et.base = "float"  -> "Float"
          [] et.base = "void"   -> "Void"

-----------------------------------------------------------------------------
(* Constants.  The value of a node is a Const node with a type of its own. *)

NoConst == [type |-> NoType, val |-> 0]
Const(t, v) == [type |-> t, val |-> Convert(v, t)]
IsConstant(e) == e.const /= NoConst

Expr(t, const, c) == [kind |-> "expr", type |-> t, const |-> const, c |-> c]

Narrow == {"Char", "Schar", "Uchar", "Sshort", "Ushort"}
Folded == {"Sint", "Uint", "Slong", "Ulong"}

BasicTypeOfConstantValue(t) == IF t \in Narrow THEN "Sint" ELSE t

(* The types long long have no representation in the compiler. *)
ConstFoldCast(e, t) ==
    [e EXCEPT !.type = t,
              !.const = IF ~IsConstant(e) \/ t \in LongLong THEN NoConst
                        ELSE Const(BasicTypeOfConstantValue(t), e.const.val)]

(* int_constant, of decimal digits. *)
int_constant(v, u, longs) ==
    LET t == CASE longs = 0 /\ ~u /\ v <= Largest("Sint")  -> "Sint"
               [] longs = 0 /\ v <= Largest("Uint")        -> "Uint"
               [] longs = 1 /\ ~u /\ v <= Largest("Slong") -> "Slong"
               [] longs = 1                                -> "Ulong"
               [] longs = 2 -> IF u THEN "Ulonglong" ELSE "Slonglong"
    IN  Expr(t, IF longs = 2 THEN NoConst ELSE Const(t, v), CConstant(v, u, longs))

-----------------------------------------------------------------------------
(* Conversions. *)

ImplicitConversions(e, t) == ConstFoldCast(e, t)

\* UCHAR_TO_INT_OVF and USHORT_TO_INT_OVF are false: int is wider.
UsualUnaryConversions(e) == IF e.type \in Narrow THEN ImplicitConversions(e, "Sint") ELSE e

\* mutant: a long holds every unsigned int, but not every unsigned long.
OrderBySign == <<"Sint", "Uint", "Ulong", "Slong", "Slonglong", "Ulonglong">>
(* The order in which the nested switches convert one operand to the other *)
(* one's type.                                                             *)
Order == <<"Sint", "Uint", "Slong", "Ulong", "Slonglong", "Ulonglong">>
Precedes(t1, t2) ==
    \E i, j \in DOMAIN Order : i < j /\ Order[i] = t1 /\ Order[j] = t2

UsualBinaryConversions(l, r) ==
    CASE Precedes(l.type, r.type) -> <<ImplicitConversions(l, r.type), r>>
      [] Precedes(r.type, l.type) -> <<l, ImplicitConversions(r, l.type)>>
      [] OTHER                    -> <<l, r>>

(* AssignmentConversions to int, of a constant. *)
AssignmentConversions(e) == ImplicitConversions(e, "Sint")

-----------------------------------------------------------------------------
(* SemCheckUnary.  Minus is folded in the type of its operand, without the *)
(* usual conversion.                                                       *)

SetValue(t, foldable, operand, v) ==
    IF IsConstant(operand) /\ foldable THEN Const(t, v) ELSE NoConst

Minus(e) == [e EXCEPT !.const = SetValue(e.type, e.type \in Folded, e, -e.const.val)]
Plus(e)  == e

Negation(e) ==
    LET u == UsualUnaryConversions(e)
    IN  [e EXCEPT !.type = "Sint",
                  !.const = SetValue("Sint", u.type \in Folded, u, Bool(u.const.val = 0))]

Complement(e) ==
    LET u == UsualUnaryConversions(e)
    IN  [e EXCEPT !.type = u.type,
                  !.const = SetValue(u.type, u.type \in Folded, u, -u.const.val - 1)]

SemCheckUnary(op, e) ==
    LET checked == CASE op = "-" -> Minus(e) [] op = "+" -> Plus(e)
                     [] op = "!" -> Negation(e) [] op = "~" -> Complement(e)
    IN  [checked EXCEPT !.c = CUnary(op, e.c)]

-----------------------------------------------------------------------------
(* SemCheckArithmetic and SemCheckComparison, on operands converted.  The  *)
(* value is computed in the type of the left one: an assertion             *)
(* (ConstantsTyped) has it that the right one has the same.                *)

Fold(t, l, r, v) ==
    [type |-> t,
     const |-> IF IsConstant(l) /\ IsConstant(r) /\ l.type \in Folded
               THEN Const(t, v) ELSE NoConst]

Add(l, r)      == Fold(l.type, l, r, l.const.val + r.const.val)
Subtract(l, r) == Fold(l.type, l, r, l.const.val - r.const.val)
Multiply(l, r) == Fold(l.type, l, r, l.const.val * r.const.val)

(* An error message, and no value, if the divisor is 0. *)
Divide(l, r) ==
    IF r.const.val = 0 THEN [type |-> l.type, const |-> NoConst]
    ELSE Fold(l.type, l, r, Quot(l.const.val, r.const.val))

Remainder(l, r) ==
    IF r.const.val = 0 THEN [type |-> l.type, const |-> NoConst]    \* not constants: KnownDivision
    ELSE Fold(l.type, l, r, l.const.val - r.const.val * Quot(l.const.val, r.const.val))

(* The count is NodeConstantIntegralValue: as an unsigned long. *)
Count(r) == Convert(r.const.val, "Ulong") % Width["Ulong"]
ShiftLeft(l, r)  == Fold(l.type, l, r, l.const.val * 2 ^ Count(r))
ShiftRight(l, r) == Fold(l.type, l, r, l.const.val \div 2 ^ Count(r))

AsBits(e) == Bits(e.const.val, "Ulong")
BitAnd(l, r) == Fold(l.type, l, r, AsBits(l) & AsBits(r))
BitXor(l, r) == Fold(l.type, l, r, AsBits(l) ^^ AsBits(r))
BitOr(l, r)  == Fold(l.type, l, r, AsBits(l) | AsBits(r))

IsConstantZero(e) == IsConstant(e) /\ e.const.val = 0

AndAnd(l, r) == [type |-> "Sint",
                 const |-> SetValue("Sint", IsConstant(r), l,
                                    Bool(~IsConstantZero(l) /\ ~IsConstantZero(r)))]
OrOr(l, r)   == [type |-> "Sint",
                 const |-> SetValue("Sint", IsConstant(r), l,
                                    Bool(~IsConstantZero(l) \/ ~IsConstantZero(r)))]

Less(l, r)         == Fold("Sint", l, r, Bool(l.const.val < r.const.val))
LessEqual(l, r)    == Fold("Sint", l, r, Bool(l.const.val <= r.const.val))
Greater(l, r)      == Fold("Sint", l, r, Bool(l.const.val > r.const.val))
GreaterEqual(l, r) == Fold("Sint", l, r, Bool(l.const.val >= r.const.val))
Equal(l, r)        == Fold("Sint", l, r, Bool(l.const.val = r.const.val))
NotEqual(l, r)     == Fold("Sint", l, r, Bool(l.const.val /= r.const.val))

Checked(op, l, r) ==
    CASE op = "+"  -> Add(l, r)          [] op = "-"  -> Subtract(l, r)
      [] op = "*"  -> Multiply(l, r)     [] op = "/"  -> Divide(l, r)
      [] op = "%"  -> Remainder(l, r)
      [] op = "<<" -> ShiftLeft(l, r)    [] op = ">>" -> ShiftRight(l, r)
      [] op = "&"  -> BitAnd(l, r)       [] op = "^"  -> BitXor(l, r)
      [] op = "|"  -> BitOr(l, r)
      [] op = "&&" -> AndAnd(l, r)       [] op = "||" -> OrOr(l, r)
      [] op = "<"  -> Less(l, r)         [] op = "<=" -> LessEqual(l, r)
      [] op = ">"  -> Greater(l, r)      [] op = ">=" -> GreaterEqual(l, r)
      [] op = "==" -> Equal(l, r)        [] op = "!=" -> NotEqual(l, r)

SemCheckBinop(op, left, right) ==
    LET l == UsualUnaryConversions(left)
        r == UsualUnaryConversions(right)
        lr == IF op \in ShiftOps THEN <<l, r>> ELSE UsualBinaryConversions(l, r)
        e == Checked(op, lr[1], lr[2])
    IN  Expr(e.type, e.const, CBinary(op, left.c, right.c))

-----------------------------------------------------------------------------
(* NodeConstantBooleanValue returns an int. *)
NodeConstantBooleanValue(e) == Convert(e.const.val, "Sint") /= 0

ConstFoldTernary(cond, true, false) ==
    IF IsConstant(cond) /\ IsConstant(true) /\ IsConstant(false)
    THEN (IF NodeConstantBooleanValue(cond) THEN true.const ELSE false.const)
    ELSE NoConst

SemCheckTernary(cond, true, false) ==
    LET tf == UsualBinaryConversions(UsualUnaryConversions(true), UsualUnaryConversions(false))
    IN  Expr(tf[1].type, ConstFoldTernary(cond, tf[1], tf[2]), CTernary(cond.c, true.c, false.c))

(* gcc's `cond ?: false'. *)
SemCheckTernaryOmitted(cond, false) ==
    LET cf == UsualBinaryConversions(UsualUnaryConversions(cond), UsualUnaryConversions(false))
    IN  Expr(cf[1].type, ConstFoldTernary(cf[1], cf[1], cf[2]), CTernary(cond.c, cond.c, false.c))

SemCheckCast(t, e) == [ConstFoldCast(e, t) EXCEPT !.c = CCast(t, e.c)]

SemCheckComma(e) == Expr(e.type, NoConst, Variable(e.c.type))

(* AssignEnumValues, SemCheckId: the identifier of an enumerator that is   *)
(* given a value, or comes after one.                                      *)
EnumConst(e, next) ==
    LET value == IF e.type = "Sint" THEN e ELSE AssignmentConversions(e)
    IN  Expr("Sint", Const("Sint", value.const.val + next), CEnumerator(e.c.val + next))

-----------------------------------------------------------------------------
(* What cilk2c does differently. *)

(* A cast to a narrow type keeps what does not fit.  (char)300 is 300. *)
KnownCast(t, e) == t \in Narrow => e.c.kind = "variable" \/ e.c.val \in Values(t)
(* Unary minus and plus leave a narrow type as it is. *)
KnownSign(op, e) == op \in {"-", "+"} => e.type \notin Narrow
(* A long condition is cut to an int. *)
KnownCondition(e) == IsConstant(e) => NodeConstantBooleanValue(e) = (e.const.val /= 0)
(* unsigned long and long long make long long, where C has unsigned.       *)
KnownPair(l, r) == {l.type, r.type} /= {"Ulong", "Slonglong"}
(* The compiler divides by zero itself. *)
KnownDivision(op, l, r) == op = "%" /\ IsConstant(l) /\ IsConstant(r) => r.const.val /= 0
(* An enumerator of a type long or char fails. *)
KnownEnumerator(e) == e.type \in {"Sint", "Uint", "Ulong"}
(* Constants above INT_MAX are unsigned, above UINT_MAX need a suffix. *)
KnownConstant(v, u, longs) ==
    longs = 0 => v <= (IF u THEN Largest("Uint") ELSE Largest("Sint"))

-----------------------------------------------------------------------------
Init == stack = <<>>

Room == Len(stack) < MaxDepth
IsExpr(x)  == x.kind = "expr"
Defined(e) == IsExpr(e) /\ e.c.kind /= "undefined"
NumberOf(given) == MapThenSumSet(LAMBDA w : given[w], Specifiers)

Push(x) == stack' = Append(stack, x)
Replace(n, x) == stack' = Append(SubSeq(stack, 1, Len(stack) - n), x)
Top(n) == stack[Len(stack) - n + 1]     \* the n-th from the top
Operands(n) == Len(stack) >= n /\ \A i \in 1..n : Defined(Top(i))

PushConstant ==
    \E v \in 0 .. Largest("Ulong"), u \in BOOLEAN, longs \in 0..2 :
        /\ Room
        /\ KnownConstant(v, u, longs)
        /\ Push(int_constant(v, u, longs))

PushVariable ==
    \E t \in IntegerTypes : Room /\ Push(Expr(t, NoConst, Variable(t)))

StartPrimType ==
    \E w \in Specifiers :
        /\ stack = <<>>
        /\ Push([kind |-> "spec", et |-> SpecifierOf(w), error |-> FALSE,
                 given |-> [x \in Specifiers |-> Bool(x = w)]])

AddSpecifier ==
    \E w \in Specifiers :
        /\ Len(stack) = 1 /\ Top(1).kind = "spec" /\ ~Top(1).error
        /\ NumberOf(Top(1).given) < MaxSpecifiers
        /\ LET merged == MergePrimTypes(Top(1).et, SpecifierOf(w))
           IN  Replace(1, [kind |-> "spec",
                           et |-> [base |-> merged.base, sign |-> merged.sign,
                                   length |-> merged.length],
                           error |-> merged.error,
                           given |-> [Top(1).given EXCEPT ![w] = @ + 1]])

FinishType ==
    /\ Len(stack) = 1 /\ Top(1).kind = "spec" /\ ~Top(1).error
    /\ FinishPrimType(Top(1).et) \in IntegerTypes
    /\ Replace(1, [kind |-> "type", type |-> FinishPrimType(Top(1).et)])

BuildUnary ==
    \E op \in {"-", "+", "!", "~"} :
        /\ Operands(1) /\ KnownSign(op, Top(1))
        /\ Replace(1, SemCheckUnary(op, Top(1)))

BuildBinop ==
    \E op \in BinaryOps :
        /\ Operands(2) /\ KnownPair(Top(2), Top(1)) /\ KnownDivision(op, Top(2), Top(1))
        /\ Replace(2, SemCheckBinop(op, Top(2), Top(1)))

BuildCast ==
    /\ Len(stack) = 2 /\ Operands(1) /\ Top(2).kind = "type"
    /\ KnownCast(Top(2).type, Top(1))
    /\ Replace(2, SemCheckCast(Top(2).type, Top(1)))

BuildComma == Operands(2) /\ Replace(2, SemCheckComma(Top(1)))

(* The condition is a constant of any type, or a variable. *)
BuildTernary ==
    \E v \in 0 .. 1, longs \in 0 .. 1, constant \in BOOLEAN :
        LET cond == IF constant THEN int_constant(v, FALSE, longs)
                    ELSE Expr("Sint", NoConst, Variable("Sint"))
        IN  /\ Operands(2) /\ KnownPair(Top(2), Top(1))
            /\ Replace(2, SemCheckTernary(cond, Top(2), Top(1)))

BuildTernaryOmitted ==
    /\ Operands(2) /\ KnownPair(Top(2), Top(1)) /\ KnownCondition(Top(2))
    /\ Replace(2, SemCheckTernaryOmitted(Top(2), Top(1)))

BuildEnumConst ==
    \E next \in 0..1 :
        /\ Operands(1) /\ IsConstant(Top(1)) /\ KnownEnumerator(Top(1))
        /\ Replace(1, EnumConst(Top(1), next))

Discard == stack /= <<>> /\ stack' = Front(stack)

Next ==
    \/ PushConstant \/ PushVariable
    \/ StartPrimType \/ AddSpecifier \/ FinishType
    \/ BuildUnary \/ BuildBinop \/ BuildCast \/ BuildComma
    \/ BuildTernary \/ BuildTernaryOmitted \/ BuildEnumConst
    \/ Discard

Spec == Init /\ [][Next]_stack

-----------------------------------------------------------------------------
OnStack(kind) == {stack[i] : i \in {j \in DOMAIN stack : stack[j].kind = kind}}

(* The constant of an expression has the type the expression is folded in, *)
(* which the accessors of constexpr.c assert (NodeConstantSintValue,       *)
(* constexpr.c:137, and so on).                                            *)
ConstantsTyped ==
    \A e \in OnStack("expr") :
        IsConstant(e) => e.const.type = BasicTypeOfConstantValue(e.type)

(* An expression has the type it has in C, and is folded if and only if it *)
(* is a constant, to the value it has in C, whatever conversions were made *)
(* on the way (UsualBinaryConversions, ConstFoldCast, SemCheckArithmetic). *)
FoldedIsC ==
    /\ ConstantsTyped
    /\ \A e \in OnStack("expr") :
          /\ e.type = e.c.type
          /\ e.c.kind = "value" => IsConstant(e) /\ e.const.val = e.c.val
          /\ e.c.kind = "variable" => ~IsConstant(e)

(* In whatever order the specifiers of a type come, the type is the one    *)
(* their words declare in C, and an error is reported exactly if they      *)
(* declare none (MergePrimTypes, FinishPrimType).                          *)
DeclaredType ==
    \A s \in OnStack("spec") :
        /\ s.error <=> CDeclared(s.given) = NoType
        /\ ~s.error => FinishPrimType(s.et) = CDeclared(s.given)
=============================================================================
