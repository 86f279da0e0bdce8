------------------------------ MODULE Profile ------------------------------
(***************************************************************************)
(* Load and store profiling (src/cilk2c/profile.c): before every access to *)
(* memory the program calls the profiler with its address.  The tree has   *)
(* been simplified.                                                        *)
(*                                                                         *)
(* `readvalue' says whether the value of the node is wanted, or only the   *)
(* place where it is.  The node Error stands where cilk2c gives up.        *)
(* Temporaries are numbered only by the kind of access they serve: they    *)
(* are not used in each other's scope.                                     *)
(***************************************************************************)
EXTENDS Passes

ReadName  == "__c2c_ProfileRead"
WriteName == "__c2c_ProfileWrite"

ConstVoid == MakePtr({"const"}, MakePrim({"const"}, "Void"))

\* The call, with the size of what is accessed and where it is in the source.
BuildProfile(name, addressnode, sized) ==
  MakeCall(MakeId(name), <<MakeCast(ConstVoid, addressnode), MakeUnary("SIZEOF", sized),
                           MakeImplicitCast(MakeString("\"s\"")), MakeConstUint("1U")>>)

BuildProfileRead(addressnode, sized)  == BuildProfile(ReadName, addressnode, sized)
BuildProfileWrite(addressnode, sized) == BuildProfile(WriteName, addressnode, sized)

BuildComma(exprs) == [MakeComma(exprs) EXCEPT !.parenthesized = TRUE]

Deref(n)     == MakeUnary("*", n)
AddressOf(n) == MakeUnary("&", n)

\* A statement expression: the temporary id with the address in it, then the
\* call and the access.
WithTemporary(id, type, address, call, access) ==
  MakeBlock(<<MakeDecl(id.op, {}, type, address, NULL)>>, <<call, access>>)

-----------------------------------------------------------------------------
(* Left sides. *)

Register(n) == "register" \in Scope[n.op].tq
IsAddressable(n) == n.typ = "Unary" /\ n.op = "INDIR"

RECURSIVE lvalue_is_memory(_)
lvalue_is_memory(n) ==
  CASE n.typ = "Id" -> NodeDataType(n).typ # "Adcl" /\ ~Register(n)
    [] n.typ = "Array" \/ IsAddressable(n) \/ (n.typ = "Binop" /\ n.op = ".") -> TRUE
    [] n.typ \in {"Comma", "Cast"} -> lvalue_is_memory(Last(n.kids))
    [] OTHER -> FALSE

\* The nodes at which lvalue_is_memory gives up.
RECURSIVE NoLvalue(_)
NoLvalue(n) ==
  \/ n.typ \in {"Comma", "Cast"} /\ NoLvalue(Last(n.kids))
  \/ n.typ \notin {"Id", "Array", "Call", "Constructor", "Comma", "Cast"}
     /\ ~IsAddressable(n) /\ ~(n.typ = "Binop" /\ n.op = ".")

\* The struct whose bit-field n is, or NULL.
lvalue_is_bitfield(n) ==
  IF /\ n.typ = "Binop" /\ n.op = "." /\ NodeDataType(n.kids[1]).typ = "Sdcl"
     /\ Fields[n.kids[2].op].kids[3] # NULL
  THEN n.kids[1] ELSE NULL

RECURSIVE ProfileNode(_, _)

ProfileList(list, readvalue_elements, readvalue_lastelement) ==
  [i \in 1 .. Len(list) |->
     ProfileNode(list[i], IF i < Len(list) THEN readvalue_elements ELSE readvalue_lastelement)]

ProfileKids(n) == [n EXCEPT !.kids = ProfileList(@, TRUE, TRUE)]

RECURSIVE lvalue_ProfileNode(_)
lvalue_ProfileNode(n) ==
  CASE n.typ \in {"Id", "Constructor"} -> n
    [] n.typ = "Array" \/ IsAddressable(n) -> ProfileKids(n)
    [] n.typ = "Binop" /\ n.op = "." -> [n EXCEPT !.kids[1] = lvalue_ProfileNode(@)]
    [] OTHER -> Error

-----------------------------------------------------------------------------
(* Expressions. *)

ProfileId(n, readvalue) ==
  IF ~readvalue \/ Register(n) \/ NodeDataType(n).typ \in {"Fdcl", "Adcl"} THEN n
  ELSE BuildComma(<<BuildProfileRead(AddressOf(n), n), n>>)

\* Mutant of ProfileAssignment: no temporary where there is no side effect.
ProfileAssignmentByCopy(n) ==
  LET left  == n.kids[1]
      place == lvalue_ProfileNode(left)
      right == ProfileNode(n.kids[2], TRUE)
      DD == MakeId("__addressDD")
  IN CASE ~lvalue_is_memory(left) -> [n EXCEPT !.kids[2] = right]
       [] lvalue_is_memory(left) /\ ~SideeffectsNode(left) ->
            BuildComma(<<BuildProfileWrite(AddressOf(place), left), MakeBinop(n.op, place, right)>>)
       [] OTHER -> WithTemporary(DD, MakePtr({}, NodeDataType(n)), AddressOf(place),
                                 BuildProfileWrite(DD, Deref(DD)), MakeBinop(n.op, Deref(DD), right))

ProfileAssignment(n) ==
  LET left  == n.kids[1]
      right == ProfileNode(n.kids[2], TRUE)
      container == lvalue_is_bitfield(left)
      EE == MakeId("__addressEE")
      DD == MakeId("__addressDD")
  IN CASE container # NULL ->
            WithTemporary(EE, MakePtr({}, NodeCopy(NodeDataType(container))),
                          AddressOf(lvalue_ProfileNode(container)),
                          BuildProfileWrite(EE, Deref(EE)),
                          MakeBinop(n.op, MakeBinop("->", EE, left.kids[2]), right))
       [] container = NULL /\ lvalue_is_memory(left) ->
            WithTemporary(DD, MakePtr({}, NodeCopy(NodeDataType(n))),
                          AddressOf(lvalue_ProfileNode(left)),
                          BuildProfileWrite(DD, Deref(DD)), MakeBinop(n.op, Deref(DD), right))
       [] OTHER -> [n EXCEPT !.kids[2] = right]

\* A bit-field has no address: all of its struct is read.
ReadBitfield(n, left, type, sideeffects) ==
  LET II == MakeId("__addressII") IN
  CASE ~sideeffects /\ IsAddressable(left) -> BuildComma(<<BuildProfileRead(left.kids[1], left), n>>)
    [] ~sideeffects /\ ~IsAddressable(left) -> BuildComma(<<BuildProfileRead(AddressOf(left), left), n>>)
    [] sideeffects -> WithTemporary(II, MakePtr({}, type), AddressOf(left),
                                    BuildProfileRead(II, type), MakeBinop(".", Deref(II), n.kids[2]))

ReadField(n, type, sideeffects) ==
  LET HH == MakeId("__addressHH") IN
  IF sideeffects
  THEN WithTemporary(HH, MakePtr({}, type), AddressOf(n), BuildProfileRead(HH, type), Deref(HH))
  ELSE BuildComma(<<BuildProfileRead(AddressOf(n), n), n>>)

ProfileDot(n, readvalue) ==
  LET node == [n EXCEPT !.kids[1] = ProfileNode(@, FALSE)]
      type == NodeCopy(NodeDataType(n.kids[1]))
  IN CASE NoLvalue(n.kids[1]) -> Error
       [] ~NoLvalue(n.kids[1]) /\ ~lvalue_is_memory(n.kids[1]) -> n
       [] OTHER -> IF ~readvalue THEN node
                   ELSE IF lvalue_is_bitfield(n) # NULL
                   THEN ReadBitfield(node, node.kids[1], type, SideeffectsNode(n))
                   ELSE ReadField(node, NodeCopy(NodeDataType(n)), SideeffectsNode(n))

ProfileBinop(n, readvalue) ==
  CASE n.op \in {"->", "[]="} -> Error
    [] IsAssignment(n) -> IF NoLvalue(n.kids[1]) THEN Error ELSE ProfileAssignment(n)
    [] n.op = "." -> ProfileDot(n, readvalue)
    [] n.op \in {":", ":="} -> [n EXCEPT !.kids[2] = ProfileNode(@, TRUE)]
    [] OTHER -> IF readvalue THEN ProfileKids(n) ELSE Error

ProfileIncDec(n) ==
  LET FF == MakeId("__addressFF") IN
  CASE NoLvalue(n.kids[1]) -> Error
    [] ~NoLvalue(n.kids[1]) /\ ~lvalue_is_memory(n.kids[1]) -> n
    [] OTHER -> WithTemporary(FF, MakePtr({"const"}, NodeCopy(NodeDataType(n))),
                              AddressOf(lvalue_ProfileNode(n.kids[1])),
                              BuildProfileWrite(FF, Deref(FF)), [n EXCEPT !.kids[1] = Deref(FF)])

ProfileUnary(n, readvalue) ==
  LET AA == MakeId("__addressAA")
      node == ProfileKids(n)
  IN CASE n.op = "INDIR" ->
            IF ~readvalue THEN node
            ELSE WithTemporary(AA, MakePtr({"const"}, NodeCopy(NodeDataType(n))), node.kids[1],
                               BuildProfileRead(AA, Deref(AA)), Deref(AA))
       [] n.op \in {"SIZEOF", "ALIGNOF"} -> n
       [] n.op \in IncDecOps -> ProfileIncDec(n)
       [] OTHER -> IF ~readvalue THEN Error
                   ELSE IF n.op = "ADDRESS" THEN [n EXCEPT !.kids[1] = ProfileNode(@, FALSE)]
                   ELSE node

ProfileArray(n, readvalue) ==
  LET GG == MakeId("__addressGG")
      type == TypeQualifyNode(NodeCopy(NodeDataType(n)), NodeDataType(n.kids[1]).tq)
      node == ProfileKids(n)
  IN IF ~readvalue THEN node
     ELSE WithTemporary(GG, MakePtr({}, type), AddressOf(node),
                        BuildProfileRead(GG, Deref(GG)), Deref(GG))

-----------------------------------------------------------------------------
(* Statements and declarations. *)

ProfileIsNop == {"NULL", "Const", "Label", "Default", "Goto", "Continue", "Break", "Asm", "Prim",
                 "Tdef", "Ptr", "Adcl", "Fdcl", "Sdcl", "Udcl", "Edcl"}
HasReads == {"Ternary", "Call", "Switch", "Case", "If", "IfElse", "While", "Do", "For", "Return"}

ProfileDecl(n) ==
  IF n.tq \cap {"top_decl", "static"} # {} THEN n
  ELSE [n EXCEPT !.kids[2] = ProfileNode(@, TRUE)]

ProfileBlock(n, readvalue) ==
  [n EXCEPT !.kids = [i \in 1 .. Len(@) |->
     ProfileNode(@[i], IF IsDecl(@[i]) THEN FALSE ELSE i < Len(@) \/ readvalue)]]

ProfileNode(n, readvalue) ==
  CASE n.typ \in ProfileIsNop -> n
    [] n.typ = "Id"     -> ProfileId(n, readvalue)
    [] n.typ = "Binop"  -> ProfileBinop(n, readvalue)
    [] n.typ = "Unary"  -> ProfileUnary(n, readvalue)
    [] n.typ = "Array"  -> ProfileArray(n, readvalue)
    [] n.typ \in HasReads -> ProfileKids(n)
    [] n.typ = "Cast"   -> IF readvalue THEN ProfileKids(n) ELSE Error
    [] n.typ = "Comma"  -> [n EXCEPT !.kids = ProfileList(@, TRUE, readvalue)]
    [] n.typ = "Initializer" -> [n EXCEPT !.kids = ProfileList(@, readvalue, readvalue)]
    [] n.typ = "ImplicitCast" -> [n EXCEPT !.kids[1] = ProfileNode(@, readvalue)]
    [] n.typ = "BuiltinVaArg" -> [n EXCEPT !.kids[1] = ProfileNode(@, readvalue)]
    [] n.typ = "Constructor"  -> [n EXCEPT !.kids[2] = ProfileNode(@, readvalue)]
    [] n.typ \in {"Block", "XBlock"} -> ProfileBlock(n, readvalue)
    [] n.typ = "Decl"   -> ProfileDecl(n)
    [] n.typ = "Proc"   -> [n EXCEPT !.kids[2] = ProfileNode(@, TRUE)]
    [] OTHER -> Error

\* The declarations of the profiler's two functions come first.
ProfilerDecl(name) ==
  MakeDecl(name, {}, MakeFdcl({}, <<ConstVoid, MakePrim({}, "Uint"),
                                    MakePtr({}, MakePrim({"const"}, "Char")), MakePrim({}, "Uint")>>,
                              MakePrim({}, "Void")), NULL, NULL)

ProfileProgram(program) ==
  <<ProfilerDecl(ReadName), ProfilerDecl(WriteName)>> \o ProfileList(program, FALSE, FALSE)
=============================================================================
