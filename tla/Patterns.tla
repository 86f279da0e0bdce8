------------------------------ MODULE Patterns ------------------------------
(***************************************************************************)
(* Patterns of trees (src/cilk2c/astEquals.c, astModify.c, astModify.h and *)
(* wildcardTable.c): the transformations write a tree as a string in which *)
(* the wildcards %e1, %t1, %d1 stand for expressions or statements, types  *)
(* and names; a tree is matched with it, or it is filled in.               *)
(*                                                                         *)
(* ImplicitCast, which compares its types by address, is left to the       *)
(* structure of its child.  The table is a function from names to nodes.   *)
(***************************************************************************)
EXTENDS Passes

-----------------------------------------------------------------------------
(* The nodes themselves, without their children. *)

EqualConst(n1, n2) ==
  LET t1 == n1.kids[1]
      t2 == n2.kids[1]
  IN /\ t1.typ = t2.typ /\ n1.op = n2.op
     /\ \/ t1.typ = "Adcl"
        \/ /\ t1 = t2 /\ t1.typ = "Prim"
           /\ t1.op \in {"Sint", "Uint", "Slong", "Ulong", "Float", "Double"}

EqualExprNodes(n1, n2) == n1.typ \in {"Id", "Binop", "Unary"} => n1.op = n2.op
EqualStmtNodes(n1, n2) == n1.typ \in {"Label", "Goto"} => n1.op = n2.op
EqualCilkNodes(n1, n2) == n1.typ = "Spawn" => n1.op = n2.op
EqualDecl(n1, n2) == n1.typ = "Decl" => n1.tq = n2.tq /\ n1.op = n2.op

\* The tag of a struct does not count, nor the kind of its elaboration.
EqualTypes(n1, n2) ==
  /\ IsType(n1) \/ n1.typ = "Asm" => n1.tq = n2.tq
  /\ n1.typ \in {"Prim", "Tdef"} => n1.op = n2.op

EqualNodes(n1, n2) ==
  /\ n1.typ = n2.typ
  /\ n1.typ = "Const" => EqualConst(n1, n2)
  /\ EqualExprNodes(n1, n2) /\ EqualStmtNodes(n1, n2) /\ EqualCilkNodes(n1, n2)
  /\ EqualDecl(n1, n2) /\ EqualTypes(n1, n2)

\* The walk over two lists passes over an item when the other is NULL; only
\* blocks have NULL among their items.
PassedOver(n, kid1, kid2) == n.typ \in {"Block", "XBlock"} /\ NULL \in {kid1, kid2}

RECURSIVE EqualAST(_, _)
EqualAST(n1, n2) ==
  /\ EqualNodes(n1, n2) /\ Len(n1.kids) = Len(n2.kids)
  /\ \A i \in 1 .. Len(n1.kids) :
       PassedOver(n1, n1.kids[i], n2.kids[i]) \/ EqualAST(n1.kids[i], n2.kids[i])

-----------------------------------------------------------------------------
(* Matching.  p is the answer so far, and the table.                       *)

NoTable == <<>>
LookupWildcard(table, name) == IF name \in DOMAIN table THEN table[name] ELSE NULL
InsertWildcard(p, name, value) ==
  IF value = NULL THEN p ELSE [p EXCEPT !.table = (name :> value) @@ @]

RECURSIVE PatternEqualASTHelper(_, _, _)

\* The children in turn, as long as they match.
WalkTwo(original, pattern, kids1, kids2, p) ==
  LET walked ==
        FoldLeft(LAMBDA q, i :
                   IF q.answer /\ ~PassedOver(original, kids1[i], kids2[i])
                   THEN PatternEqualASTHelper(kids1[i], kids2[i], q) ELSE q,
                 p, [i \in 1 .. Min({Len(kids1), Len(kids2)}) |-> i])
  IN [walked EXCEPT !.answer = @ /\ Len(kids1) = Len(kids2)]

\* The result type of a function is looked at even when its arguments do not
\* match.
DualASTWalk(original, pattern, p) ==
  IF original.typ = "Fdcl"
  THEN PatternEqualASTHelper(Last(original.kids), Last(pattern.kids),
         WalkTwo(original, pattern, Front(original.kids), Front(pattern.kids), p))
  ELSE WalkTwo(original, pattern, original.kids, pattern.kids, p)

\* A name: what it stands for is kept as an Id.
MatchName(original, pattern, p) ==
  LET known == LookupWildcard(p.table, GetWildcardName(pattern))
      name  == GetNodeName(original)
      q == IF known = NULL THEN InsertWildcard(p, GetWildcardName(pattern), MakeId(name))
           ELSE [p EXCEPT !.answer = name = GetNodeName(known)]
  IN CASE name = "" -> [p EXCEPT !.answer = FALSE]
       [] name # "" -> IF q.answer THEN DualASTWalk(original, pattern, q) ELSE q

\* Mutant of MatchTree: the latest tree is as good as the first.
MatchTreeAnew(original, pattern, p) == InsertWildcard(p, GetWildcardName(pattern), original)

\* A tree: the first time any will do.
MatchTree(original, pattern, p) ==
  LET known == LookupWildcard(p.table, GetWildcardName(pattern)) IN
  IF known = NULL THEN InsertWildcard(p, GetWildcardName(pattern), original)
  ELSE [p EXCEPT !.answer = EqualAST(original, known)]

PatternEqualASTHelper(original, pattern, p) ==
  CASE pattern.wild = "WildcardD" -> MatchName(original, pattern, p)
    [] pattern.wild \in {"WildcardE", "WildcardT"} -> MatchTree(original, pattern, p)
    [] OTHER -> IF EqualNodes(original, pattern) THEN DualASTWalk(original, pattern, p)
                ELSE [p EXCEPT !.answer = FALSE]

PatternMatch(original, pattern, table) ==
  PatternEqualASTHelper(original, pattern, [answer |-> TRUE, table |-> table])

-----------------------------------------------------------------------------
(* Filling in, and replacing. *)

\* The nodes at which a walk over one tree gives up.
NotWalked == {"Constructor", "BuiltinVaArg"}

RECURSIVE FillWildcardsFromTable(_, _)
FillWildcardsFromTable(n, table) ==
  LET value == LookupWildcard(table, GetWildcardName(n)) IN
  CASE n.typ \in NotWalked -> Error
    [] IsWildcard(n) /\ value = NULL -> n
    [] IsWildcard(n) /\ value # NULL /\ IsDecl(n) ->
         FillWildcardsFromTable([n EXCEPT !.op = value.op, !.wild = ""], table)
    [] IsWildcard(n) /\ value # NULL /\ ~IsDecl(n) -> [value EXCEPT !.wild = ""]
    [] OTHER -> WithKids(LAMBDA kid : FillWildcardsFromTable(kid, table), n)

\* What is left of the pattern when original does not match it is as it was.
MatchReplacePatternTree(original, pattern, replacement) ==
  LET p == PatternMatch(original, pattern, NoTable) IN
  IF p.answer THEN FillWildcardsFromTable(replacement, p.table) ELSE replacement

\* The matches are found before any of them is replaced, and not inside
\* each other.
RECURSIVE ReplaceAllMatchingSubtrees(_, _, _)
ReplaceAllMatchingSubtrees(n, match, replacement) ==
  CASE EqualAST(n, match) -> replacement
    [] ~EqualAST(n, match) /\ n.typ \in NotWalked -> Error
    [] OTHER ->
         WithKids(LAMBDA kid : ReplaceAllMatchingSubtrees(kid, match, replacement), n)
=============================================================================
