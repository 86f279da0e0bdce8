------------------------------ MODULE MCTrees ------------------------------
EXTENDS Rewrites

\* Two pointers to a struct, one in a register, an array of structs, an int
\* and a function that returns a struct; the struct has a pointer to another
\* and a bit-field.
MCScope ==
  LET var(name, tq, type) == name :> MakeDecl(name, tq, type, NULL, NULL) IN
  var("p", {}, PtrToS) @@ var("r", {"register"}, PtrToS) @@ var("v", {}, MakeAdcl({}, S, One))
  @@ var("i", {}, IntType) @@ var("g", {}, MakeFdcl({}, <<PtrToS>>, S))

MCFields ==
  ("x" :> MakeDecl("x", {"su_decl"}, PtrToS, NULL, NULL))
  @@ ("b" :> MakeDecl("b", {"su_decl"}, MakePrim({}, "Uint"), NULL, One))
=============================================================================
