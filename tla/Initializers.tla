---------------------------- MODULE Initializers ----------------------------
(***************************************************************************)
(* The initializer of a declaration (src/cilk2c/initializer.c): cilk2c     *)
(* walks it along the type, puts in the braces that C lets one leave out,  *)
(* counts the elements of an array without a length, and converts every    *)
(* value to the type of what it initializes.  The list of an initializer   *)
(* is eaten up by nested calls; what a call leaves of it is part of its    *)
(* result here.                                                            *)
(*                                                                         *)
(* Below it, CInit says what the same text means in C (C99 6.7.8), with a  *)
(* cursor that goes over the scalars of an object.                         *)
(*                                                                         *)
(* Scalars are int and char; values are constants, numbered as they are    *)
(* written, strings, and compound literals.  After an error nothing is     *)
(* printed, so that an error ends the walk.                                *)
(***************************************************************************)
EXTENDS Nodes, TLC

CONSTANTS MaxWraps,   \* types made of other types in the type declared
          MaxNodes    \* nodes of the initializer

VARIABLE decl         \* The declaration, or NULL

Numerals == [text \in {ToString(n) : n \in 0 .. 9} |-> CHOOSE n \in 0 .. 9 : ToString(n) = text]
Sint == MakePrim({}, "Sint")
Char == MakePrim({}, "Char")

Dim(dtype)          == dtype.kids[2]
ArraySubtype(dtype) == dtype.kids[1]
NodeConstantIntegralValue(dim) == Numerals[dim.op]
Fields(sue)         == sue.kids
FieldType(sue, i)   == Fields(sue)[i].kids[1]

IsInitializer(n)        == n.typ = "Initializer"
IsLabeledConstructor(n) == n.typ = "Binop" /\ n.op = ":="
IsStringConstant(n)     == n.typ = "Const" /\ n.kids[1].typ = "Adcl"
IsUnsizedArray(dtype)   == dtype.typ = "Adcl" /\ Dim(dtype) = NULL
IsArrayOfChar(dtype)    == dtype.typ = "Adcl" /\ ArraySubtype(dtype) = Char

-----------------------------------------------------------------------------
(* The walk.                                                               *)

\* n: the initializer made; rest: what is left of the list; type: the type,
\* with the length it got.
Made(n, rest, type) == [ok |-> TRUE, n |-> n, rest |-> rest, type |-> type]
Error == [Made(NULL, <<>>, NULL) EXCEPT !.ok = FALSE]

\* A labelled value has the type of its value; a list has none.
RECURSIVE Unlabelled(_)
Unlabelled(n) == IF n.typ = "Binop" THEN Unlabelled(n.kids[2]) ELSE n

\* A string is assigned to an integer with no more than a warning.  The
\* members of a union are tried in order, and the first to fail is an error.
RECURSIVE IsCoercible(_, _)
IsCoercible(n, dtype) ==
  CASE dtype.typ = "Prim" -> n.typ = "Const" \/ (n.typ = "Constructor" /\ n.kids[1].typ = "Prim")
    [] dtype.typ = "Adcl" -> FALSE
    [] OTHER -> \/ n.typ = "Constructor" /\ n.kids[1] = dtype
                \/ dtype.typ = "Udcl" /\ IsCoercible(n, FieldType(dtype, 1))

AssignmentConversions(n, dtype, rest) ==
  IF IsCoercible(Unlabelled(n), dtype) THEN Made(n, rest, dtype) ELSE Error

ScalarInit(dtype, init, top_p) ==
  IF IsLabeledConstructor(init) THEN AssignmentConversions(init.kids[2], dtype, <<>>)
  ELSE IF ~IsInitializer(init) THEN AssignmentConversions(init, dtype, <<>>)
  ELSE IF \/ init.kids = <<>>          \* An assertion.
          \/ top_p /\ Len(init.kids) > 1
          \/ IsInitializer(Head(init.kids))
       THEN Error
       ELSE AssignmentConversions(Head(init.kids), dtype, Tail(init.kids))

\* mutant: a string is taken for an array only where it stands alone.
StringAlone(dtype, init, top_p) ==
  /\ IsArrayOfChar(dtype)
  /\ \/ IsStringConstant(init)
     \/ IsInitializer(init) /\ Len(init.kids) = 1 /\ IsStringConstant(Head(init.kids))

\* The string that fills the array, in braces of its own, or at its place in
\* the list of an object around the array.
StringFills(dtype, init, top_p) ==
  /\ IsArrayOfChar(dtype)
  /\ \/ IsStringConstant(init)
     \/ /\ IsInitializer(init)
        /\ Len(init.kids) = 1 \/ (Len(init.kids) > 0 /\ ~top_p)
        /\ IsStringConstant(Head(init.kids))

StringLength(string) == Len(string.op)

Sized(dtype, count) ==
  IF Dim(dtype) = NULL THEN [dtype EXCEPT !.kids[2] = MakeConstSint(ToString(count))] ELSE dtype

StringInit(dtype, init) ==
  LET string == IF IsInitializer(init) THEN Head(init.kids) ELSE init
  IN  Made(string, IF IsInitializer(init) THEN Tail(init.kids) ELSE <<>>,
           Sized(dtype, StringLength(string) + 1))

RECURSIVE SemCheckInitList(_, _, _), ArrayInit(_, _, _, _), SUE_MatchInitList(_, _, _, _, _)

\* items: what is left of the list; done: the elements made of it.
ArrayInit(dtype, items, done, top_p) ==
  LET full == Dim(dtype) # NULL /\ Len(done) = NodeConstantIntegralValue(Dim(dtype))
      val  == IF IsInitializer(Head(items))
              THEN [SemCheckInitList(ArraySubtype(dtype), Head(items), TRUE)
                      EXCEPT !.rest = Tail(items)]
              ELSE SemCheckInitList(ArraySubtype(dtype), MakeInitializer(items), FALSE)
  IN  IF full \/ items = <<>>
      THEN IF top_p /\ items # <<>> THEN Error
           ELSE Made(MakeInitializer(done), items, Sized(dtype, Len(done)))
      ELSE IF \/ ~val.ok
              \/ val.rest = items /\ Dim(dtype) = NULL   \* It does not end.
           THEN Error
           ELSE ArrayInit(dtype, val.rest, Append(done, val.n), top_p)

\* A union takes the one value of its list and leaves the list as it was,
\* except with a label: then the walk of the field sees label and list.
UnionInit(dtype, init, top_p) ==
  LET first   == Head(init.kids)
      named   == {i \in DOMAIN Fields(dtype) : Fields(dtype)[i].op = first.kids[1].op}
      labeled == SemCheckInitList(FieldType(dtype, CHOOSE i \in named : TRUE), init, top_p)
      val     == IF IsLabeledConstructor(first) THEN labeled
                 ELSE [SemCheckInitList(FieldType(dtype, 1), first, top_p)
                         EXCEPT !.rest = init.kids]
  IN  IF Len(init.kids) # 1 THEN Error
      ELSE IF IsLabeledConstructor(first) /\ named = {} THEN Error   \* An assertion.
      ELSE IF ~val.ok THEN Error
      ELSE Made(MakeInitializer(<<val.n>>), val.rest, dtype)

\* field: where the walk over the fields is.
SUE_MatchInitList(sue, field, items, done, top_p) ==
  LET item  == Head(items)
      named == {i \in DOMAIN Fields(sue) : Fields(sue)[i].op = item.kids[1].op}
      On(val, at, rest, with) ==
        IF val.ok THEN SUE_MatchInitList(sue, at + 1, rest, Append(done, with), top_p) ELSE Error
  IN  IF items = <<>> THEN Made(MakeInitializer(done), <<>>, sue)
      ELSE IF IsLabeledConstructor(item)
      THEN IF named = {} THEN Error
           ELSE LET at  == CHOOSE i \in named : TRUE
                    val == SemCheckInitList(FieldType(sue, at), item.kids[2], TRUE)
                IN  On(val, at, Tail(items), [item EXCEPT !.kids[2] = val.n])
      ELSE IF field > Len(Fields(sue))
      THEN IF top_p THEN Error ELSE Made(MakeInitializer(done), items, sue)
      ELSE LET ftype == FieldType(sue, field) IN
           CASE IsInitializer(item) ->
                  LET val == SemCheckInitList(ftype, item, TRUE)
                  IN  On(val, field, Tail(items), val.n)
             [] item.typ = "Constructor" ->
                  LET val == SemCheckInitList(ftype, item.kids[2], TRUE)
                  IN  On(val, field, Tail(items), [item EXCEPT !.kids[2] = val.n])
             [] OTHER ->
                  LET val == SemCheckInitList(ftype, MakeInitializer(items), FALSE)
                  IN  On(val, field, val.rest, val.n)

SemCheckInitList(dtype, init, top_p) ==
  IF StringFills(dtype, init, top_p) THEN StringInit(dtype, init)
  ELSE IF dtype.typ # "Prim" /\ ~IsInitializer(init)
  THEN AssignmentConversions(init, dtype, <<>>)
  ELSE CASE dtype.typ = "Prim" -> ScalarInit(dtype, init, top_p)
         [] dtype.typ = "Adcl" -> ArrayInit(dtype, init.kids, <<>>, top_p)
         [] dtype.typ = "Sdcl" -> SUE_MatchInitList(dtype, 1, init.kids, <<>>, top_p)
         [] dtype.typ = "Udcl" -> UnionInit(dtype, init, top_p)

SemCheckDeclInit(d) == SemCheckInitList(d.kids[1], d.kids[2], TRUE)

-----------------------------------------------------------------------------
(* What an initializer means in C.  A scalar of an object is named by its  *)
(* path: indices of elements, from 0, and numbers of fields, from 1.       *)

End == <<-1>>
SubType(dtype, i) == IF dtype.typ = "Adcl" THEN ArraySubtype(dtype) ELSE FieldType(dtype, i)
TypeAt(dtype, path) == FoldLeft(SubType, dtype, path)

RECURSIVE FirstScalar(_), NextScalar(_, _)
FirstScalar(dtype) ==
  CASE dtype.typ = "Prim" -> <<>>
    [] dtype.typ = "Adcl" -> <<0>> \o FirstScalar(ArraySubtype(dtype))
    [] OTHER              -> <<1>> \o FirstScalar(FieldType(dtype, 1))

HasPart(dtype, i) ==
  CASE dtype.typ = "Adcl" -> Dim(dtype) = NULL \/ i < NodeConstantIntegralValue(Dim(dtype))
    [] dtype.typ = "Sdcl" -> i =< Len(Fields(dtype))
    [] OTHER              -> FALSE

\* The scalar after the part of an object at path.
NextScalar(dtype, path) ==
  LET around == TypeAt(dtype, Front(path))
      next   == Append(Front(path), Last(path) + 1)
  IN  IF path = <<>> THEN End
      ELSE IF HasPart(around, Last(path) + 1) THEN next \o FirstScalar(TypeAt(dtype, next))
      ELSE NextScalar(dtype, Front(path))

\* Parts that share memory: one is in the other, or they are in different
\* members of a union.
Overlap(dtype, p, q) ==
  \/ IsPrefix(p, q) \/ IsPrefix(q, p)
  \/ LET k == SelectInSeq([i \in 1 .. (IF Len(p) < Len(q) THEN Len(p) ELSE Len(q)) |-> p[i] # q[i]],
                          LAMBDA differ : differ)
     IN  k > 0 /\ TypeAt(dtype, SubSeq(p, 1, k - 1)).typ = "Udcl"

\* The cursor stands before the scalar `at'; vals are the values so far, and
\* len is how many elements of an array there must be for them.  plain is
\* given up where cilk2c is known to go another way.  within: the last
\* value went to a part of a part that has no braces of its own.
Cursor(at, vals, len) ==
  [ok |-> TRUE, at |-> at, vals |-> vals, len |-> len, plain |-> TRUE, within |-> FALSE]
Refused == [Cursor(End, {}, 0) EXCEPT !.ok = FALSE]
ValueAt(path, is) == [path |-> path, is |-> is]

\* What an object of its own gets becomes what the part at path gets.
Put(dtype, c, path, part) ==
  IF ~part.ok THEN Refused
  ELSE [Cursor(NextScalar(dtype, path),
               {v \in c.vals : ~Overlap(dtype, v.path, path)}
                 \cup {ValueAt(path \o v.path, v.is) : v \in part.vals},
               IF dtype.typ = "Adcl" /\ c.len < path[1] + 1 THEN path[1] + 1 ELSE c.len)
          EXCEPT !.plain = c.plain /\ part.plain, !.within = Len(path) > 1]

\* The parts that begin with the scalar before which the cursor stands.
Beginning(dtype, at) ==
  {p \in {SubSeq(at, 1, k) : k \in 1 .. Len(at)} : p \o FirstScalar(TypeAt(dtype, p)) = at}
Largest(paths) == CHOOSE p \in paths : \A q \in paths : Len(p) =< Len(q)

\* The string and the null behind it, as far as there is room.
CString(dtype, string) ==
  LET size == IF Dim(dtype) = NULL THEN StringLength(string) + 1
              ELSE NodeConstantIntegralValue(Dim(dtype))
  IN  IF StringLength(string) > size THEN Refused
      ELSE Cursor(End, {ValueAt(<<i>>, <<string.op, i>>) :
                              i \in 0 .. (IF size > StringLength(string) THEN StringLength(string)
                                          ELSE size - 1)}, size)

\* Whether an expression is the value of an object of the type.
IsValueFor(dtype, n) ==
  CASE n.typ = "Constructor" -> n.kids[1] = dtype \/ (n.kids[1].typ = "Prim" /\ dtype.typ = "Prim")
    [] IsStringConstant(n)   -> IsArrayOfChar(dtype)
    [] n.typ = "Const"          -> dtype.typ = "Prim"
    [] OTHER -> FALSE

RECURSIVE CInit(_, _)
\* One item of a list for an object of the type.
CItem(dtype, c, item) ==
  LET label  == item.kids[1]
      named  == IF item.op = ":=" /\ dtype.typ \in {"Sdcl", "Udcl"}
                THEN {i \in DOMAIN Fields(dtype) : Fields(dtype)[i].op = label.op}
                ELSE IF item.op = "[]=" /\ dtype.typ = "Adcl"
                THEN {i \in {NodeConstantIntegralValue(label)} : HasPart(dtype, i)} ELSE {}
      labels == item.typ = "Binop"
      at     == IF labels /\ named # {}
                THEN LET i == CHOOSE i \in named : TRUE
                     IN  <<i>> \o FirstScalar(SubType(dtype, i))
                ELSE c.at
      value  == IF labels THEN item.kids[2] ELSE item
      parts  == {p \in Beginning(dtype, at) :
                   IsInitializer(value) \/ IsValueFor(TypeAt(dtype, p), value)}
      bare == /\ Len(Largest(parts)) > 1
              /\ \E k \in 0 .. Len(Largest(parts)) - 1 :
                    TypeAt(dtype, SubSeq(at, 1, k)).typ = "Udcl"
      astray == /\ labels
                /\ \/ c.within
                   \/ dtype.typ # "Sdcl" /\ (IsInitializer(value) \/ SubType(dtype, at[1]).typ # "Prim")
                   \/ Len(Largest(parts)) > 1
      misread == /\ value.typ = "Constructor"
                 /\ \/ Len(Largest(parts)) > 1
                    \/ dtype.typ = "Adcl" /\ ArraySubtype(dtype).typ # "Prim"
  IN  IF ~c.ok \/ (labels /\ named = {}) \/ at = End \/ parts = {} THEN Refused
      ELSE Put(dtype, [c EXCEPT !.plain = @ /\ ~bare /\ ~astray /\ ~misread], Largest(parts),
               CInit(TypeAt(dtype, Largest(parts)), value))

Listable(dtype, items) ==
  /\ dtype.typ = "Udcl" => Len(items) = 1
  /\ dtype.typ = "Adcl" /\ Dim(dtype) # NULL /\ ArraySubtype(dtype).typ = "Prim" =>
       Len(items) =< NodeConstantIntegralValue(Dim(dtype))

CInit(dtype, init) ==
  CASE IsInitializer(init) ->
         IF dtype.typ = "Prim" \/ (IsArrayOfChar(dtype) /\ Len(init.kids) = 1
                                   /\ IsStringConstant(Head(init.kids)))
         THEN IF Len(init.kids) = 1 /\ IsValueFor(dtype, Head(init.kids))
              THEN CInit(dtype, Head(init.kids)) ELSE Refused
         ELSE FoldLeft(LAMBDA c, item : CItem(dtype, c, item),
                       [Cursor(FirstScalar(dtype), {}, 0)
                          EXCEPT !.plain = Listable(dtype, init.kids)], init.kids)
    [] ~IsValueFor(dtype, init)   -> Refused
    [] init.typ = "Constructor"   -> CInit(init.kids[1], init.kids[2])
    [] IsStringConstant(init)     -> CString(dtype, init)
    [] OTHER -> Cursor(End, {ValueAt(<<>>, init.op)}, 0)

-----------------------------------------------------------------------------
(* Declarations that grow: first the type, from the inside, then the list  *)
(* of its initializer, from left to right.                                 *)

Init == decl = NULL

dtype == decl.kids[1]
Items == decl.kids[2].kids

RECURSIVE Size(_)
Size(n) == IF n.typ = "Const" THEN 1
           ELSE FoldLeft(LAMBDA sum, kid : sum + Size(kid), 1, SelectSeq(n.kids, IsExpr))
Wraps(t) == Cardinality({i \in DOMAIN WalkTree(t) : WalkTree(t)[i].typ \in {"Adcl", "Sdcl", "Udcl"}})

Declare(type, items) == decl' = MakeDecl("x", {}, type, MakeInitializer(items), NULL)

DeclareScalar == decl = NULL /\ \E type \in {Sint, Char} : Declare(type, <<>>)

Growing ==
  /\ decl # NULL /\ Items = <<>> /\ Wraps(dtype) < MaxWraps
  /\ dtype.typ = "Adcl" => Dim(dtype) # NULL

DeclareArray ==
  Growing /\ \E dim \in {NULL, MakeConstSint("1"), MakeConstSint("2")} :
               Declare(MakeAdcl({}, dtype, dim), <<>>)

\* The fields are a and b: the type so far and perhaps an int, in any order.
Around(types) ==
  [i \in DOMAIN types |-> MakeDecl(<<"a", "b">>[i], {}, types[i], NULL, NULL)]
FieldTypes == {<<dtype>>, <<dtype, Sint>>, <<Sint, dtype>>}
Tag == "S" \o ToString(Wraps(dtype))

DeclareStruct ==
  Growing /\ \E types \in FieldTypes : Declare(MakeSdcl({}, Tag, Around(types)), <<>>)
DeclareUnion ==
  Growing /\ \E types \in FieldTypes : Declare(MakeUdcl({}, Tag, Around(types)), <<>>)

Room(nodes) == decl # NULL /\ Size(decl.kids[2]) + nodes =< MaxNodes
Listing(items) == Declare(dtype, items)

\* Constants are numbered in the order they are written.
Constants(items) ==
  Cardinality({i \in DOMAIN WalkTree(MakeInitializer(items)) :
                 WalkTree(MakeInitializer(items))[i].typ = "Const"})

AddConstant ==
  Room(1) /\ Listing(Append(Items, MakeConstSint(ToString(Constants(Items) + 1))))
AddString == Room(1) /\ \E text \in {"x", "yz"} : Listing(Append(Items, MakeString(text)))
AddEmpty  == Room(1) /\ Listing(Append(Items, MakeInitializer(<<>>)))

Enclose ==
  Room(1) /\ \E k \in 1 .. Len(Items) :
               LET before == SubSeq(Items, 1, Len(Items) - k)
               IN  Listing(Append(before, MakeInitializer(SubSeq(Items, Len(before) + 1, Len(Items)))))

RelabelLast(item) == Listing(Append(Front(Items), item))

Label ==
  Room(2) /\ Items # <<>>
  /\ \E name \in {"a", "b"} : RelabelLast(MakeBinop(":=", MakeId(name), Last(Items)))
LabelElement ==
  Room(2) /\ Items # <<>>
  /\ \E i \in {"0", "1"} : RelabelLast(MakeBinop("[]=", MakeConstSint(i), Last(Items)))

ObjectTypes == {t \in Range(WalkTree(dtype)) : t.typ \in {"Prim", "Sdcl", "Udcl"}}
Construct ==
  Room(1) /\ Items # <<>> /\ IsInitializer(Last(Items))
  /\ \E t \in ObjectTypes : /\ CInit(t, Last(Items)).ok
                            /\ RelabelLast(MakeConstructor(t, Last(Items)))

Discard == decl # NULL /\ decl' = NULL

Next ==
  \/ DeclareScalar \/ DeclareArray \/ DeclareStruct \/ DeclareUnion
  \/ AddConstant \/ AddString \/ AddEmpty \/ Enclose \/ Label \/ LabelElement \/ Construct
  \/ Discard

Spec == Init /\ [][Next]_decl

-----------------------------------------------------------------------------
\* Nothing but lists of constants.
Simple(n) == \A m \in Range(WalkTree(n)) : m.typ \in {"Initializer", "Const", "Prim"}

(* An initializer that C accepts is accepted and made into one that gives  *)
(* every scalar of the object the value it had before, and an array as     *)
(* many elements as there were; of those made of constants and braces      *)
(* alone, one that C refuses is refused (SemCheckInitList,                 *)
(* SUE_MatchInitList).  Left out are the ways that CItem and Listable say  *)
(* cilk2c goes astray on.                                                  *)
InitializersMeanTheSame ==
  decl # NULL =>
    LET made   == SemCheckDeclInit(decl)
        before == CInit(dtype, decl.kids[2])
        after  == CInit(dtype, made.n)
    IN  /\ before.ok /\ before.plain =>
             /\ made.ok /\ after.ok
             /\ after.vals = before.vals /\ after.len = before.len
             /\ IsUnsizedArray(dtype) /\ (\A item \in Range(Items) : item.typ # "Binop") =>
                  NodeConstantIntegralValue(Dim(made.type)) = before.len
        /\ Simple(decl.kids[2]) /\ ~before.ok => ~made.ok
=============================================================================
