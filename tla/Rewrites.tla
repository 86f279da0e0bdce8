------------------------------ MODULE Rewrites ------------------------------
(***************************************************************************)
(* What cilk2c's transformations of whole trees do to the trees of `Trees' *)
(* and to trees that access memory, which know the types of their names.   *)
(***************************************************************************)
EXTENDS Trees, Meaning, Patterns

CONSTANTS MaxMemoryWraps, \* Bound: nodes around the name of a variable,
          MaxPrintedWraps \* and of those trees the ones printed and matched.

S == MakeSdcl({}, "S", <<>>)
PtrToS == MakePtr({}, S)
I == MakeId("i")
P == MakeId("p")

\* The tree accesses memory: it is built from the variables of Scope.
OfMemory == \E m \in Range(WalkTree(tree)) : m.typ = "Id" /\ m.op \in DOMAIN Scope

IsA(typ)  == wraps < MaxMemoryWraps /\ IsExpr(tree) /\ NodeDataType(tree).typ = typ
IsPointer == \/ IsA("Ptr") /\ Target(NodeDataType(tree)) = S
             \/ IsA("Adcl")
Scalar    == IsA("Ptr") \/ IsA("Prim")

\* A field is an lvalue when its struct is one, and in GNU C a comma and a cast
\* are when their last operand is one.
RECURSIVE GnuLvalue(_)
GnuLvalue(n) ==
  \/ IsLvalue(n) /\ ~(n.typ = "Binop" /\ n.op = "." /\ ~GnuLvalue(n.kids[1]))
  \/ n.typ \in {"Comma", "Cast"} /\ GnuLvalue(Last(n.kids))
Assignable == GnuLvalue(tree) /\ ~IsA("Adcl")

IsBitfield(n) ==
  n.typ = "Binop" /\ n.op \in {".", "->"} /\ n.kids[2].op \in DOMAIN Fields /\ Fields[n.kids[2].op].kids[3] # NULL

MemoryInit == /\ tree \in {MakeId(name) : name \in DOMAIN Scope \ {"g"}}
              /\ wraps = 0

FollowPointer ==
  /\ IsPointer
  /\ \/ \E field \in DOMAIN Fields : Becomes(MakeBinop("->", tree, MakeId(field)))
     \/ Becomes(MakeUnary("*", tree)) \/ Becomes(ExtendArray(tree, I))
     \/ Becomes(MakeCall(MakeId("g"), <<tree>>))

SelectField ==
  /\ IsA("Sdcl")
  /\ \E field \in DOMAIN Fields : Becomes(MakeBinop(".", tree, MakeId(field)))

TakeAddress ==
  /\ IsLvalue(tree) /\ IsA("Sdcl") /\ Becomes(MakeUnary("&", tree))

Subscript == IsA("Prim") /\ \E name \in {"v", "p"} : Becomes(MakeArray(MakeId(name), <<tree>>))

Calculate ==
  /\ Scalar
  /\ \/ \E op \in {"-", "&&"} : Becomes(MakeBinop(op, tree, I))
     \/ Becomes(MakeTernary(I, tree, P)) \/ Becomes(InParens(MakeComma(<<I, tree>>)))
     \/ Becomes(InParens(MakeComma(<<tree, P>>)))
     \/ Becomes(MakeCast(MakePrim({}, "Slong"), tree))

Update ==
  /\ Assignable
  /\ \/ IsA("Ptr") /\ \E name \in {"p", "r"} : Becomes(MakeBinop("=", tree, MakeId(name)))
     \/ IsA("Prim") /\ Becomes(MakeBinop("=", tree, I))
     \/ IsA("Sdcl") /\ Becomes(MakeBinop("=", tree, MakeUnary("*", P)))
     \/ Scalar /\ Becomes(MakeBinop("-=", tree, I))
     \/ Scalar /\ \E op \in {"PREINC", "POSTDEC"} : Becomes(MakeUnary(op, ParenthesesFor(tree, {"Cast"})))

MemoryNext == FollowPointer \/ SelectField \/ TakeAddress \/ Subscript \/ Calculate \/ Update

-----------------------------------------------------------------------------
(* Trees with Cilk in them grow into statements only. *)

CilkNodes == {"Spawn", "InletCall", "Sync", "Abort", "Synched"}
OfCilk == \E m \in Range(WalkTree(tree)) : m.typ \in CilkNodes

CilkInit ==
  /\ tree \in {MakeSpawn(NULL, "", A, <<B>>), MakeSpawn(B, "=", A, <<>>), MakeSpawn(B, "+=", A, <<One>>),
               MakeInletCall(A, <<MakeSpawn(NULL, "", B, <<One>>), One>>),
               MakeInletCall(A, <<B>>), MakeSync, MakeAbort, MakeIf(MakeSynched, A),
               MakeBinop("=", B, MakeSynched)}
  /\ wraps = 0

RewritesInit == Init \/ MemoryInit \/ CilkInit
RewritesNext == \/ OfMemory /\ MemoryNext
                \/ OfCilk /\ (Control \/ Enclose)
                \/ ~OfMemory /\ ~OfCilk /\ Next

RewritesSpec == RewritesInit /\ [][RewritesNext]_vars

-----------------------------------------------------------------------------
(* Properties. *)

Source == IF OfMemory THEN <<MakeProc(Main, MakeBlock(<<>>, <<tree>>))>> ELSE Program
Elided     == ElideProgram(Source)
Simplified == SimplifyProgram(Source)

\* Larger trees that access memory are there for the passes only.
Small == wraps <= MaxPrintedWraps

Contents(program) == Range(Concat(WalkTree, program))

\* What Profile does not handle: the increment of a bit-field, whose address it
\* takes; that of a cast and a field of an assigned struct, where it gives up;
\* and the loads among the arguments of a call, when a field of the result is
\* selected.  Also an assignment to a cast: SimplifyBinop gives the new one no
\* type, which Profile asks for.
RECURSIVE CastsOn(_)
CastsOn(n) ==
  CASE n.typ = "Cast"  -> 1 + CastsOn(n.kids[2])
    [] n.typ = "Comma" -> CastsOn(Last(n.kids))
    [] OTHER -> 0

NotProfiled(simplified) ==
  \/ \E m \in Contents(Source) :
       IsAssignment(m) /\ CastsOn(m.kids[1]) > IF m.op = "=" THEN 0 ELSE 1
  \/ \E m \in Contents(simplified) :
       \/ m.typ = "Unary" /\ m.op \in IncDecOps /\ (m.kids[1].typ = "Cast" \/ IsBitfield(m.kids[1]))
       \/ m.typ = "Binop" /\ m.op = "." /\ (m.kids[1].typ = "Call" \/ IsAssignment(m.kids[1]))

\* The printer knows no Cilk: what is left of it in an xbegin block, where
\* elision does not look, is not printed.  And ++(a, (T)b) becomes (a, ++(T)b),
\* which is not in the grammar.
CastIncremented ==
  \E m \in Contents(Simplified) : /\ m.typ = "Unary" /\ m.op \in IncDecOps
                                  /\ m.kids[1].typ = "Cast" /\ ~m.kids[1].parenthesized
Printed ==
  (IF OfCilk THEN {} ELSE {Source})
  \cup (IF OfCilk \/ CastIncremented THEN {} ELSE {Simplified})
  \cup (IF OfCilk /\ Has("XBlock") THEN {} ELSE {Elided})

\* What the printer is given is read back, before a transformation and after
\* it: the printer puts parentheses where precedence and associativity ask for
\* them, winds declarators around the name, and writes every qualifier where the
\* parser moves it back from (OutputInnerExpr, OutputPartialType; SetBaseType,
\* FinishDecl); the trees that simplification and elision build are of a form
\* that the grammar allows.
AllReadBack == Small => \A program \in Printed : ReadBack(program)

\* Words stay apart when there is no room for white space, that is when a line
\* has grown beyond the columns of its source (SetOutputCoord): the blanks that
\* the printer writes by itself are enough for all but `do' and `xbegin'.
AllWordsApart == Small => \A program \in Printed : WordsApart(program)

\* Sideeffects does not take va_arg for one, nor an asm without outputs.
Unnoticed == Has("BuiltinVaArg") \/ Has("Asm")

\* An operator assigns to a cast of what has side effects.  Simplification
\* copies that, RemoveSideEffectsNode is a stub: KeepsCounts is violated.
RECURSIVE AssignedTo(_)
AssignedTo(left) == IF left.typ = "Comma" THEN AssignedTo(Last(left.kids)) ELSE left
CopiesSideeffects ==
  \E m \in Contents(Source) :
    IsAssignment(m) /\ m.op # "=" /\ LET Y == AssignedTo(m.kids[1]) IN Y.typ = "Cast" /\ SideeffectsNode(Y)

\* A transformation of the whole program keeps what it does.  In simplified code,
\* but for CopiesSideeffects, every store and call is there once, in the same
\* order, and stores the same value: the nodes that move into a comma, the casts
\* that move from the left side to the right, and the pointer that `->' is
\* rewritten with (SimplifyUnary, SimplifyBinop).  The elision does what a serial
\* execution of the Cilk program does and has no Cilk in it (ElideSpawn,
\* ElideSync).  And an expression that Sideeffects says can be evaluated twice
\* stores nothing.

PassesKeepMeaning ==
  LET meaning(program) == LET m == Meaning(CanonList(program)) IN <<m.ev, m.v>> IN
  /\ \A program \in ({Elided} \cup IF CopiesSideeffects THEN {} ELSE {Simplified}) \ {Source} :
       meaning(program) = meaning(Source)
  /\ Has("XBlock") \/ \A m \in Contents(Elided) : m.typ \notin CilkNodes /\ "procedure" \notin m.tq
  /\ IsExpr(tree) /\ ~SideeffectsNode(tree) /\ ~Unnoticed => ValueOf(tree, Start).acts = 0

\* Simplified code does as much as the source: the comment at the beginning of
\* simplify.c rewrites an assignment to a cast `without the side effects of doing
\* x twice'.
KeepsCounts == Meaning(Simplified).acts = Meaning(Source).acts

\* What of the log is by one of `whom', without saying by whom.
LogBy(log, whom) ==
  LET mine(e) == e.by \in whom
      part == SelectSeq(log, mine)
  IN [k \in DOMAIN part |-> [part[k] EXCEPT !.by = ""]]

\* Every access is reported, in advance, and every report is of one access; what
\* is reported at once and accessed after another event has another `at'.
Announced(log) ==
  LET same(j, k) == log[j].at = log[k].at /\ log[j].what = log[k].what /\ log[j].place = log[k].place
      upto(n, by, k) == Cardinality({j \in 1 .. n : log[j].by = by /\ same(j, k)})
  IN \A k \in DOMAIN log :
       /\ log[k].by = "program" => upto(k, "profiler", k) >= upto(k, "program", k)
       /\ upto(Len(log), "profiler", k) = upto(Len(log), "program", k)

\* A profiled program stores and calls the same.  The profiler is told of each of
\* its accesses to memory once, before it and with nothing done in between.  And
\* it is told of the accesses of the program that was there before, in their
\* order, each as often as it was made, no register variable and no temporary
\* struct among them; only what names the struct of a field that is read comes
\* twice if it has no side effects.  Whatever has any is evaluated once, its
\* address kept in a temporary (ProfileAssignment, ProfileDot, ProfileIncDec,
\* ProfileUnary, ProfileArray).
AccessesReported ==
  LET simplified == Simplified
      profiled == ProfileProgram(simplified)
      before == Meaning(simplified)
      after  == Meaning(profiled)
  IN OfMemory /\ ~NotProfiled(simplified) =>
       /\ Error \notin Contents(profiled)
       /\ after.ev = before.ev /\ after.v = before.v
       /\ Announced(after.log)
       /\ LogBy(after.log, {"profiler"}) = LogBy(before.log, {"program", "copy"})

\* Every access of the program is one report, those of a.b and a->b too, as the
\* comment at the beginning of profile.c says.
ReportedOnce ==
  LET simplified == Simplified IN
  OfMemory /\ ~NotProfiled(simplified) =>
    LogBy(Meaning(ProfileProgram(simplified)).log, {"profiler"}) = LogBy(Meaning(simplified).log, {"program"})

\* Parentheses are no part of a pattern.
RECURSIVE Bare(_)
Bare(n) == WithKids(Bare, [n EXCEPT !.parenthesized = FALSE])

\* The places of a tree that a pattern may have a wildcard at, as paths.
RECURSIVE Places(_)
Places(n) ==
  UNION {{<<i>>} \cup {<<i>> \o path : path \in Places(n.kids[i])} :
           i \in {k \in DOMAIN n.kids : n.typ # "Const"}}
At(n, path) == FoldLeft(LAMBDA m, i : m.kids[i], n, path)
RECURSIVE Put(_, _, _)
Put(n, path, m) == IF path = <<>> THEN m ELSE [n EXCEPT !.kids[Head(path)] = Put(@, Tail(path), m)]

Wildcards(n) ==
  CASE n.typ \in {"NULL", "List"} -> {}
    [] IsType(n) -> {MakeWildcardType("%t1")}
    [] n.typ = "Decl" -> {[n EXCEPT !.op = "%d1", !.wild = "WildcardD"]}
    [] n.typ = "Id"   -> {MakeWildcardId("%d1"), MakeWildcardExp("%e1")}
    [] OTHER -> {MakeWildcardExp("%e1")}

\* The tree matches a pattern with one wildcard at two of its places just if the
\* same stands at both, and the pattern filled in with what was found is the
\* tree again; so is one made by replacing a part of the tree wherever it
\* occurs (PatternEqualASTHelper, FillWildcardsFromTableHelper,
\* ReplaceAllMatchingSubtrees).
MatchesAreExact ==
  Small =>
  LET walked == \A m \in Range(WalkTree(tree)) : m.typ \notin NotWalked
      places == Places(tree)
  IN /\ \A one, other \in places :
          ~IsPrefix(one, other) /\ ~IsPrefix(other, one) =>
          \A w \in Wildcards(At(tree, one)), v \in Wildcards(At(tree, other)) : w.op = v.op =>
            LET pattern == Put(Put(tree, one, w), other, v)
                match == PatternMatch(tree, pattern, NoTable)
                same == IF w.wild = "WildcardD" THEN At(tree, one).op = At(tree, other).op
                        ELSE Bare(At(tree, one)) = Bare(At(tree, other))
            IN /\ match.answer = same
               /\ match.answer /\ walked =>
                    Bare(FillWildcardsFromTable(pattern, match.table)) = Bare(tree)
     /\ walked => \A m \in Range(WalkTree(tree)) :
          IsExpr(m) =>
            LET pattern == ReplaceAllMatchingSubtrees(tree, m, MakeWildcardExp("%e1"))
            IN Bare(MatchReplacePatternTree(tree, pattern, pattern)) = Bare(tree)
=============================================================================
