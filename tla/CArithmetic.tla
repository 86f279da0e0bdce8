---------------------------- MODULE CArithmetic ----------------------------
(***************************************************************************)
(* What the C language says of integer types and constant expressions:     *)
(* the type a list of specifiers declares, the usual conversions, and the  *)
(* value of each operator.  It says it in the terms of the C standard, by  *)
(* ranks and ranges, where cilk2c has a case for every pair of types; it   *)
(* is the reference Expressions is checked against.                        *)
(*                                                                         *)
(* A C operand is [type, kind, val]: of kind "value", "variable" (not a    *)
(* constant; of long long also what cilk2c does not represent) or          *)
(* "undefined", which C gives no meaning to.                               *)
(***************************************************************************)
EXTENDS Integers, Bitwise

CONSTANT Width      \* the bits of each integer type of the model

IntegerTypes  == DOMAIN Width
UnsignedTypes == {"Uchar", "Ushort", "Uint", "Ulong", "Ulonglong"}
LongLong      == {"Slonglong", "Ulonglong"}

Smallest(t) == IF t \in UnsignedTypes THEN 0 ELSE -(2 ^ (Width[t] - 1))
Largest(t)  == IF t \in UnsignedTypes THEN 2 ^ Width[t] - 1 ELSE 2 ^ (Width[t] - 1) - 1
Values(t)   == Smallest(t) .. Largest(t)

(* Conversion: the value modulo 2^width, as gcc defines it for signed      *)
(* types too.                                                              *)
Convert(v, t) == Smallest(t) + ((v - Smallest(t)) % (2 ^ Width[t]))

-----------------------------------------------------------------------------
(* Declaration specifiers: what each set of words declares. *)

Specifiers == {"void", "char", "int", "float", "double", "signed", "unsigned",
               "short", "long"}
NoType == "no type"

WithOptional(words, optional) == {words \cup o : o \in SUBSET optional}

(* n counts the words.  A repeated sign is only warned about by cilk2c. *)
CDeclared(n) ==
    LET words == {w \in Specifiers : n[w] > 0}
        Long(one, two) == IF n["long"] = 1 THEN one ELSE two
    IN  CASE \/ \E w \in words \ {"signed", "unsigned", "long"} : n[w] > 1
             \/ n["long"] > 2                                           -> NoType
          [] words = {"void"}                                           -> "Void"
          [] words = {"float"}                                          -> "Float"
          [] words = {"double"}                                         -> "Double"
          [] words = {"long", "double"}                     -> Long("Longdouble", NoType)
          [] words = {"char"}                                           -> "Char"
          [] words = {"signed", "char"}                                 -> "Schar"
          [] words = {"unsigned", "char"}                               -> "Uchar"
          [] words \in WithOptional({"short"}, {"signed", "int"})       -> "Sshort"
          [] words \in WithOptional({"unsigned", "short"}, {"int"})     -> "Ushort"
          [] words \in WithOptional({"int"}, {"signed"}) \cup {{"signed"}} -> "Sint"
          [] words \in WithOptional({"unsigned"}, {"int"})              -> "Uint"
          [] words \in WithOptional({"long"}, {"signed", "int"})
                                                            -> Long("Slong", "Slonglong")
          [] words \in WithOptional({"unsigned", "long"}, {"int"})
                                                            -> Long("Ulong", "Ulonglong")
          [] OTHER                                                      -> NoType

-----------------------------------------------------------------------------
(* The usual conversions, by rank and range. *)

RankOf(t) ==
    CASE t \in {"Char", "Schar", "Uchar"}   -> 1
      [] t \in {"Sshort", "Ushort"}         -> 2
      [] t \in {"Sint", "Uint"}             -> 3
      [] t \in {"Slong", "Ulong"}           -> 4
      [] t \in {"Slonglong", "Ulonglong"}   -> 5

Unsigned(t) == CHOOSE u \in UnsignedTypes : RankOf(u) = RankOf(t)

Promote(t) == IF RankOf(t) >= 3 THEN t
              ELSE IF Values(t) \subseteq Values("Sint") THEN "Sint" ELSE "Uint"

Common(t1, t2) ==
    LET p == Promote(t1)
        q == Promote(t2)
        hi == IF RankOf(p) >= RankOf(q) THEN p ELSE q
        lo == IF RankOf(p) >= RankOf(q) THEN q ELSE p
    IN  CASE (hi \in UnsignedTypes) = (lo \in UnsignedTypes) -> hi
          [] hi \in UnsignedTypes                            -> hi
          [] Values(lo) \subseteq Values(hi)                 -> hi
          [] OTHER                                           -> Unsigned(hi)

-----------------------------------------------------------------------------
Value(t, v)  == [type |-> t, kind |-> "value", val |-> v]
Variable(t)  == [type |-> t, kind |-> "variable", val |-> 0]
Undefined(t) == [type |-> t, kind |-> "undefined", val |-> 0]

(* A result in type t: unsigned arithmetic wraps, signed must not. *)
Result(t, v) == IF t \in UnsignedTypes THEN Value(t, Convert(v, t))
                ELSE IF v \in Values(t) THEN Value(t, v) ELSE Undefined(t)

Bool(b) == IF b THEN 1 ELSE 0
Abs(a)  == IF a < 0 THEN -a ELSE a
(* Division truncates. *)
Quot(a, b) == IF (a < 0) = (b < 0) THEN Abs(a) \div Abs(b) ELSE -(Abs(a) \div Abs(b))
Bits(a, t) == a % (2 ^ Width[t])

ArithmeticOps == {"+", "-", "*", "/", "%", "&", "^", "|"}
ShiftOps      == {"<<", ">>"}
ComparisonOps == {"<", "<=", ">", ">=", "==", "!="}
LogicalOps    == {"&&", "||"}
BinaryOps     == ArithmeticOps \cup ShiftOps \cup ComparisonOps \cup LogicalOps

CArithmeticOp(op, t, a, b) ==
    CASE op = "+" -> Result(t, a + b)
      [] op = "-" -> Result(t, a - b)
      [] op = "*" -> Result(t, a * b)
      [] op = "/" -> IF b = 0 THEN Undefined(t) ELSE Result(t, Quot(a, b))
      [] op = "%" -> IF b = 0 \/ Quot(a, b) \notin Values(t) THEN Undefined(t)
                     ELSE Result(t, a - b * Quot(a, b))
      [] op = "&" -> Value(t, Convert(Bits(a, t) & Bits(b, t), t))
      [] op = "^" -> Value(t, Convert(Bits(a, t) ^^ Bits(b, t), t))
      [] op = "|" -> Value(t, Convert(Bits(a, t) | Bits(b, t), t))

CShift(op, t, a, count) ==
    CASE count \notin 0 .. Width[t] - 1 -> Undefined(t)
      [] op = "<<" -> IF a < 0 THEN Undefined(t) ELSE Result(t, a * 2 ^ count)
      [] op = ">>" -> Value(t, a \div 2 ^ count)

CCompare(op, a, b) ==
    CASE op = "<"  -> a < b
      [] op = "<=" -> a <= b
      [] op = ">"  -> a > b
      [] op = ">=" -> a >= b
      [] op = "==" -> a = b
      [] op = "!=" -> a /= b

CTypeOf(op, t1, t2) ==
    CASE op \in ComparisonOps \cup LogicalOps -> "Sint"
      [] op \in ShiftOps                      -> Promote(t1)
      [] OTHER                                -> Common(t1, t2)

CBinary(op, x, y) ==
    LET t == Common(x.type, y.type)
        a == Convert(x.val, t)
        b == Convert(y.val, t)
    IN  IF "variable" \in {x.kind, y.kind} THEN Variable(CTypeOf(op, x.type, y.type))
        ELSE CASE op \in ArithmeticOps -> CArithmeticOp(op, t, a, b)
               [] op \in ShiftOps      -> CShift(op, Promote(x.type), x.val, y.val)
               [] op \in ComparisonOps -> Value("Sint", Bool(CCompare(op, a, b)))
               [] op = "&&" -> Value("Sint", Bool(x.val /= 0 /\ y.val /= 0))
               [] op = "||" -> Value("Sint", Bool(x.val /= 0 \/ y.val /= 0))

CUnary(op, x) ==
    LET t == Promote(x.type)
    IN  CASE x.kind = "variable" -> Variable(IF op = "!" THEN "Sint" ELSE t)
          [] op = "-" -> Result(t, -x.val)
          [] op = "+" -> Value(t, x.val)
          [] op = "~" -> Value(t, Convert(-x.val - 1, t))
          [] op = "!" -> Value("Sint", Bool(x.val = 0))

CCast(t, x) ==
    IF x.kind = "variable" \/ t \in LongLong THEN Variable(t)
    ELSE Value(t, Convert(x.val, t))

CTernary(c, x, y) ==
    LET t == Common(x.type, y.type)
    IN  IF "variable" \in {c.kind, x.kind, y.kind} THEN Variable(t)
        ELSE Value(t, Convert(IF c.val /= 0 THEN x.val ELSE y.val, t))

(* An enumeration constant is an int. *)
CEnumerator(v) == IF v \in Values("Sint") THEN Value("Sint", v) ELSE Undefined("Sint")

(* A decimal constant with its suffixes has the first type that holds it. *)
CConstant(v, u, longs) ==
    CASE longs = 2 -> Variable(IF u THEN "Ulonglong" ELSE "Slonglong")
      [] longs = 1 -> Value(IF u \/ v \notin Values("Slong") THEN "Ulong" ELSE "Slong", v)
      [] u         -> Value(IF v \in Values("Uint") THEN "Uint" ELSE "Ulong", v)
      [] v \in Values("Sint")  -> Value("Sint", v)
      [] v \in Values("Slong") -> Value("Slong", v)
      [] OTHER                 -> Value("Ulong", v)
=============================================================================
