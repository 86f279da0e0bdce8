---------------------------- MODULE Declarators ----------------------------
(***************************************************************************)
(* How the parser puts types and declarations together                     *)
(* (src/cilk2c/complex-types.c, and the parts of type.c, procedure.c and   *)
(* sue.c that the grammar calls).                                          *)
(*                                                                         *)
(* A declarator is read from the name outwards, before or after the base   *)
(* type it modifies is known: a chain of pointers, arrays and functions    *)
(* that ends in NULL and whose end is set later.  The symbol table is left *)
(* out (see `SymbolTable'); a syntax error is the node Error, at which the *)
(* translation stops.                                                      *)
(***************************************************************************)
EXTENDS Nodes

Error == Node("Error", "", {}, <<>>)

-----------------------------------------------------------------------------
(* Primitive types: a base, a sign and a length, each given at most once.  *)

StartPrimType(name) ==
  [base   |-> IF name \in {"void", "char", "int", "float", "double"} THEN name ELSE "",
   sign   |-> IF name \in {"signed", "unsigned"} THEN name ELSE "",
   length |-> IF name \in {"short", "long"} THEN name ELSE "",
   bad    |-> FALSE]

MergeLengths(l, m) == IF l = "long" /\ m = "long" THEN "long long" ELSE l \o m

MergePrimTypes(et1, et2) ==
  LET base   == et1.base \o et2.base
      sign   == IF et1.sign = et2.sign THEN et1.sign ELSE et1.sign \o et2.sign
      length == MergeLengths(et1.length, et2.length)
  IN [base |-> base, sign |-> sign, length |-> length,
      bad |-> \/ et1.bad \/ et2.bad
              \/ et1.base # "" /\ et2.base # ""
              \/ sign \notin {"", "signed", "unsigned"}
              \/ length \notin {"", "short", "long", "long long"}
              \/ sign # "" /\ base \notin {"", "int", "char"}
              \/ length # "" /\ base \notin {"", "int"} /\ ~(base = "double" /\ length = "long")]

\* The length is a prefix of the type's name, and so is the sign.
IntegerType(unsigned, length) ==
  (IF unsigned THEN "U" ELSE "S")
  \o (CASE length = "" -> "int" [] length = "long long" -> "longlong" [] OTHER -> length)

FinishPrimType(et) ==
  CASE et.bad -> Error
    [] et.base \in {"", "int"} ->
         MakePrim({}, IntegerType(et.sign = "unsigned", et.length))
    [] et.base = "char" ->
         MakePrim({}, CASE et.sign = "" -> "Char" [] et.sign = "signed" -> "Schar"
                        [] et.sign = "unsigned" -> "Uchar")
    [] et.base = "double" -> MakePrim({}, IF et.length = "long" THEN "Longdouble" ELSE "Double")
    [] et.base = "float" -> MakePrim({}, "Float")
    [] et.base = "void"  -> MakePrim({}, "Void")

\* No type was named: int.
MakeDefaultPrimType(tq) ==
  [FinishPrimType([base |-> "", sign |-> "", length |-> "", bad |-> FALSE]) EXCEPT !.tq = tq]

\* Two storage classes conflict; any other qualifier may be repeated.
MergeTypeQuals(left, right) == left \cup right
Conflicting(tq) == Cardinality(tq \cap StorageClasses) > 1

TypeQualifyNode(type, tq) ==
  IF Conflicting(MergeTypeQuals(type.tq, tq)) THEN Error
  ELSE [type EXCEPT !.tq = MergeTypeQuals(@, tq)]

-----------------------------------------------------------------------------
(* Chains of pointers, arrays and functions. *)

IsChain(type) == type.typ \in {"Ptr", "Adcl", "Fdcl"}

\* The child that continues the chain.
Link(type) == IF type.typ = "Fdcl" THEN Len(type.kids) ELSE 1

GetShallowBaseType(complex) == IF IsChain(complex) THEN complex.kids[Link(complex)] ELSE complex

RECURSIVE GetDeepBaseType(_), WithDeepBaseType(_, _)
GetDeepBaseType(complex) ==
  IF IsChain(complex) THEN GetDeepBaseType(GetShallowBaseType(complex)) ELSE complex

WithDeepBaseType(complex, base) ==
  IF IsChain(complex)
  THEN [complex EXCEPT !.kids[Link(complex)] = WithDeepBaseType(@, base)]
  ELSE base

DeepBaseTypeIsComplete(complex) == GetDeepBaseType(complex) # NULL

\* The end of the chain has to be open.
SetBaseType(complex, base) ==
  IF GetDeepBaseType(complex) = NULL THEN WithDeepBaseType(complex, base) ELSE Error

ExtendArray(array, dim) ==
  IF array.typ = "Array" THEN [array EXCEPT !.kids = Append(@, dim)]
  ELSE MakeArray(array, <<dim>>)

-----------------------------------------------------------------------------
(* Declarations. *)

DeclType(decl) == decl.kids[1]

ModifyDeclType(decl, mod) ==
  IF DeclType(decl) = NULL THEN [decl EXCEPT !.kids[1] = mod]
  ELSE [decl EXCEPT !.kids[1] = SetBaseType(@, mod)]

\* `inline', `cilk' and `inlet' are written with the type that a function
\* returns and mean the function, or the function pointed to.
FunctionQuals == {"inline", "procedure", "inlet"}

FinishType(type) ==
  LET base  == GetDeepBaseType(type)
      moved == base.tq \cap FunctionQuals
      plain == WithDeepBaseType(type, [base EXCEPT !.tq = @ \ FunctionQuals])
  IN CASE moved = {} -> type
       [] type.typ = "Fdcl" -> [plain EXCEPT !.tq = @ \cup moved]
       [] type.typ = "Ptr" /\ type.kids[1].typ = "Fdcl" ->
            [plain EXCEPT !.kids[1].tq = @ \cup (moved \ {"inline"})]
       [] moved = {"inline"} -> plain
       [] OTHER -> Error

\* The qualifiers of a declaration move from the type to the declaration.
FinishDecl(decl) ==
  LET type == FinishType(DeclType(decl))
      base == GetDeepBaseType(type)
  IN [decl EXCEPT !.kids[1] = WithDeepBaseType(type, [base EXCEPT !.tq = @ \ DeclQuals]),
                  !.tq = @ \cup (base.tq \cap DeclQuals)]

SetDeclLocation(decl, location) == [decl EXCEPT !.tq = (@ \ DeclLocations) \cup {location}]

\* A formal parameter is no array, and its only storage class is register.
FormalDecl(decl) ==
  LET type == DeclType(decl) IN
  IF decl.tq \cap (StorageClasses \ {"register"}) # {} THEN Error
  ELSE IF type.typ = "Adcl"
  THEN [decl EXCEPT !.kids[1] = MakePtr(type.tq, type.kids[1])]
  ELSE decl

\* redeclare: where the declaration stands ("top_decl" or "block_decl" for
\* Redecl, by the level; "su_decl" for SU; "formal_decl" for Formal).
SetDeclType(decl, type, redeclare) ==
  LET set == IF DeclType(decl) = NULL THEN [decl EXCEPT !.kids[1] = type]
             ELSE [decl EXCEPT !.kids[1] = SetBaseType(@, type)]
  IN IF ~DeepBaseTypeIsComplete(type) THEN set
     ELSE LET placed == SetDeclLocation(FinishDecl(set), redeclare) IN
          IF redeclare = "formal_decl" THEN FormalDecl(placed) ELSE placed

SetDeclInit(decl, init)       == [decl EXCEPT !.kids[2] = init]
SetDeclBitSize(decl, bitsize) == [decl EXCEPT !.kids[3] = bitsize]

\* NodeCopy with depth NodeOnly.
CopyBase(base) ==
  IF base.typ \in {"Sdcl", "Udcl", "Edcl"}
  THEN [base EXCEPT !.tq = @ \ {"sue_elaborated"}, !.kids = <<>>] ELSE base

\* One more declarator after a comma: it takes the base type of the first and
\* the qualifiers of its declaration.
AppendDecl(list, decl, redeclare) ==
  LET first == Head(list)
      type  == CopyBase(GetDeepBaseType(DeclType(first)))
  IN Append(list, SetDeclType([decl EXCEPT !.tq = @ \cup first.tq], type, redeclare))

-----------------------------------------------------------------------------
(* Functions. *)

\* An array parameter is a pointer, its qualifiers those of the elements.
DemoteProcArgs(fdcl) ==
  [fdcl EXCEPT !.kids = [i \in 1 .. Len(@) |->
     IF i < Len(@) /\ @[i].typ = "Decl" /\ DeclType(@[i]).typ = "Adcl"
     THEN LET array == DeclType(@[i]) IN
          [@[i] EXCEPT !.kids[1] =
             MakePtr({}, [array.kids[1] EXCEPT !.tq = @ \cup array.tq])]
     ELSE @[i]]]

IsVoid(type)     == type.typ = "Prim" /\ type.op = "Void"
IsEllipsis(type) == type.typ = "Prim" /\ type.op = "Ellipsis"

\* A definition names its parameters; f() is f(void).
DefineProc(decl, location) ==
  LET fdcl  == DemoteProcArgs(DeclType(decl))
      args  == IF Len(fdcl.kids) = 1 THEN <<MakePrim({}, "Void")>> ELSE Front(fdcl.kids)
      named == \A i \in 1 .. Len(args) :
                 \/ args[i].typ = "Decl"
                 \/ IsEllipsis(args[i])
                 \/ IsVoid(args[i]) /\ i = 1
      set   == [decl EXCEPT !.kids[1] = [fdcl EXCEPT !.kids = Append(args, Last(fdcl.kids))]]
  IN IF DeclType(decl).typ # "Fdcl" \/ ~named THEN Error
     ELSE MakeProc(SetDeclLocation(FinishDecl(set), location), NULL)

SetProcBody(proc, block) == [proc EXCEPT !.kids[2] = block]

-----------------------------------------------------------------------------
(* Structures, unions and enumerations. *)

MakeSudcl(keyword, tag) == Node(IF keyword = "struct" THEN "Sdcl" ELSE "Udcl", tag, {}, <<>>)

\* The tag InsertUniqueSymbol gives to a type without one.
UniqueTag == "___sue"

SetSUdclNameFields(sudcl, tag, fields) ==
  [sudcl EXCEPT !.op = IF tag = "" THEN UniqueTag ELSE tag,
                !.tq = @ \cup {"sue_elaborated"}, !.kids = fields]

\* An unnamed field: not even a unique tag.
SetSUdclFields(sudcl, fields) ==
  [sudcl EXCEPT !.tq = @ \cup {"sue_elaborated"}, !.kids = fields]

SetSUdclName(sudcl, tag) == [sudcl EXCEPT !.op = tag, !.tq = @ \ {"sue_elaborated"}]

BuildEnumConst(name, value) ==
  MakeDecl(name, {"enum_decl"}, MakeDefaultPrimType({"const"}), value, NULL)

BuildEnum(tag, values) ==
  MakeEdcl(IF values = <<>> THEN {} ELSE {"sue_elaborated"},
           IF tag = "" THEN UniqueTag ELSE tag, values)
=============================================================================
