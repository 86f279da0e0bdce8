------------------------------ MODULE Transform ------------------------------
(***************************************************************************)
(* What cilk2c makes of a Cilk procedure (src/cilk2c/transform.c): a fast  *)
(* clone that keeps its scalars in registers and copies to the frame, at a *)
(* spawn, what a thief will need; a slow clone that the thief enters at    *)
(* the label of the spawn or sync the frame's entry names; the linkage     *)
(* table that says where a child's result goes; and the inlets.            *)
(*                                                                         *)
(* A clone is a sequence of the accesses the generated C makes, in order:  *)
(*   read, write, undef   a variable, in a register or in the frame;       *)
(*   save, restore        registers to the frame and back;                 *)
(*   entry                frame->header.entry is set;                      *)
(*   call, inlet          the spawned procedure, and its inlet;            *)
(*   sync, return         CILK2C_SYNC and the return of the clone;         *)
(*   label, goto          the control of C, where `goto' may go to any     *)
(*                        label of a set (a condition is a choice).        *)
(***************************************************************************)
EXTENDS Analyze

Instr(do, n, arg) == [do |-> do, node |-> n, arg |-> arg]
Access(do, n, x, loc) == <<Instr(do, n, [var |-> x, loc |-> loc])>>
Concat(seqs) == FlattenSeq(seqs)

-----------------------------------------------------------------------------
(* Where variables live. *)

ReturnTemp == "_tmp"    \* AnalyzeReturnExpressions' temporary

DeclOf(T, x) == CHOOSE n \in OfType(T, "Decl") : T[n].name = x

SideEffected(T, ns) ==
    {T[T[n].kids[1]].name :
        n \in {m \in ns : /\ \/ T[m].typ = "Binop" /\ T[m].op \in AssignmentOps
                             \/ T[m].typ = "Unary" /\ T[m].op \in IncDecOps
                          /\ IsId(T, T[m].kids[1])}}

(* FindSpawnVariables: written by a child's return or by an inlet. *)
SpawnVariables(T) ==
    {T[T[n].kids[1]].name :
        n \in {m \in OfType(T, "Spawn") : ~T[m].in_inlet /\ IsId(T, T[m].kids[1])}}
    \cup SideEffected(T, InNestedProc(T))

(* SetDecl: 1 register, 3 register of the fast clone only, 2 frame only,   *)
(* 4 argument of an inlet, 0 not in the frame at all.                      *)
DeclKind(T, x) ==
    IF x = ReturnTemp THEN 1
    ELSE LET d == DeclOf(T, x)
             nested == d \in InNestedProc(T)
         IN  CASE T[d].op = "static"             -> 0
               [] nested /\ T[d].op = "formal"   -> 4
               [] nested /\ T[d].op /= "formal"  -> 0
               [] x \in Range(RegisterVariables(T)) ->
                      IF x \in SpawnVariables(T) THEN 3 ELSE 1
               [] OTHER -> 2

(* TransformId: where an identifier is read or written. *)
Location(T, x, version) ==
    LET kind == DeclKind(T, x)
    IN  CASE kind \in {0, 4} -> "private"     \* not the procedure's to save
          [] \/ kind = 2
             \/ version = "Slow" /\ kind = 3
             \/ version = "InletProc" -> "frame"
          [] OTHER -> "register"

\* mutant: the fast clone forgets the variables only it has in registers.
CopiedInBoth(T, xs, version) == {x \in xs : DeclKind(T, x) = 1}

(* The variables SaveVariables and RestoreVariables copy. *)
Copied(T, xs, version) ==
    {x \in xs : DeclKind(T, x) = 1 \/ (version = "Fast" /\ DeclKind(T, x) = 3)}

-----------------------------------------------------------------------------
(* Entry numbers: spawns and syncs in the order of the tree, the syncs of  *)
(* returns and the one at the end included.  The fast clone numbers its    *)
(* syncs too, though it does nothing at them.                              *)

\* mutant: the fast clone, which does nothing at a sync, does not count it.
TakesNumberWhereUsed(T, o, version, n) ==
    \/ T[n].typ = "Spawn"
    \/ version /= "Fast" /\ T[n].typ = "Sync"
    \/ version /= "Fast" /\ T[n].typ = "Return" /\ n \in o.needs_sync

TakesNumber(T, o, version, n) ==
    \/ T[n].typ \in {"Spawn", "Sync"}
    \/ T[n].typ = "Return" /\ n \in o.needs_sync

SyncCount(T, o, version, n) ==
    IF n = 1 THEN Cardinality({m \in Nodes(T) : TakesNumber(T, o, version, m)}) + 1
    ELSE Cardinality({m \in 1..n : TakesNumber(T, o, version, m)})

-----------------------------------------------------------------------------
Reads(T, n, x, version) ==
    IF Location(T, x, version) = "private" THEN <<>>
    ELSE Access("read", n, x, Location(T, x, version))
Writes(T, n, x, version) ==
    IF Location(T, x, version) = "private" THEN <<>>
    ELSE Access("write", n, x, Location(T, x, version))

SaveVariables(T, n, xs, version)    == <<Instr("save", n, Copied(T, xs, version))>>
RestoreVariables(T, n, xs, version) == <<Instr("restore", n, Copied(T, xs, version))>>

At(n, l)     == <<Instr("label", n, <<n, l>>)>>
Jump(n, ls)  == <<Instr("goto", n, ls)>>

Maybe(n, part) ==
    Jump(n, {<<n, "then">>, <<n, "end">>}) \o At(n, "then") \o part \o At(n, "end")
Either(n, p, q) ==
    Jump(n, {<<n, "then">>, <<n, "else">>}) \o
    At(n, "then") \o p \o Jump(n, {<<n, "end">>}) \o At(n, "else") \o q \o At(n, "end")

(* if (0) { _sync<k>: <restore>; }: reached only by a thief. *)
EntryPoint(T, n, k, live, version) ==
    Jump(n, {<<n, "past">>}) \o
    <<Instr("label", n, <<k, "sync">>)>> \o RestoreVariables(T, n, live, version) \o
    At(n, "past")

(* TransformSync: a fast clone has no children outside. *)
TransformSync(T, o, n, live, dirty, version) ==
    LET k == SyncCount(T, o, version, n)
    IN  IF version = "Fast" THEN <<>>
        ELSE <<Instr("entry", n, k)>> \o SaveVariables(T, n, dirty, version) \o
             <<Instr("sync", n, k)>> \o EntryPoint(T, n, k, live, version)

(* TransformSpawn2 and what a spawn and an inlet call add to it.  The      *)
(* arguments are evaluated first, then the entry is set, then the dirty    *)
(* variables are saved.                                                    *)
TransformSpawn2(T, o, n, args, version) ==
    args \o
    <<Instr("entry", n, SyncCount(T, o, version, n))>> \o
    SaveVariables(T, n, o.dirty[n], version) \o
    <<Instr("call", n, "")>>

EntryRecovery(T, o, spawn, n, version) ==
    IF version = "Fast" THEN <<>>
    ELSE EntryPoint(T, n, SyncCount(T, o, version, spawn), o.live[n], version)

TransformSpawn(T, o, n, args, version) ==
    LET x == T[T[n].kids[1]].name
        assign == IF ~IsId(T, T[n].kids[1]) THEN <<>>
                  ELSE (IF T[n].op = "=" THEN <<>> ELSE Reads(T, n, x, version))
                       \o Writes(T, n, x, version)
    IN  TransformSpawn2(T, o, n, args, version) \o assign
        \o EntryRecovery(T, o, n, n, version)

(* The inlet is called with the frame; the registers are then reloaded. *)
TransformInletCall(T, o, n, args, spawnargs, version) ==
    LET spawn == T[n].kids[2]
    IN  TransformSpawn2(T, o, spawn, args \o spawnargs, version) \o
        <<Instr("inlet", n, T[n].name)>> \o
        RestoreVariables(T, n, o.live[n], version) \o
        EntryRecovery(T, o, spawn, n, version)

(* TransformReturn.  Where a sync is needed, the expression has gone to a  *)
(* temporary first (AnalyzeReturnExpressions).                             *)
TransformReturn(T, o, n, expr, version) ==
    LET valued == T[n].kids /= <<NULL>>
        live   == IF valued THEN {ReturnTemp} ELSE o.rlive[n]
        dirty  == IF valued THEN {ReturnTemp} ELSE o.rdirty[n]
    IN  CASE version = "InletProc" -> expr
          [] n \in o.needs_sync ->
                expr \o (IF valued THEN Writes(T, n, ReturnTemp, version) ELSE <<>>) \o
                TransformSync(T, o, n, live, dirty, version) \o
                (IF valued THEN Reads(T, n, ReturnTemp, version) ELSE <<>>) \o
                <<Instr("return", n, "")>>
          [] OTHER -> expr \o <<Instr("return", n, "")>>

(* TransformDecl: without a value the variable holds anything. *)
TransformDecl(T, n, init, version) ==
    LET x == T[n].name
    IN  IF Location(T, x, version) = "private" THEN init
        ELSE IF T[n].kids[1] /= NULL THEN init \o Writes(T, n, x, version)
        ELSE Access("undef", n, x, Location(T, x, version))

-----------------------------------------------------------------------------
RECURSIVE Emit(_, _, _, _)

(* An expression of C, its parts transformed in place. *)
EmitExpr(T, n, version, k) ==
    LET typ  == T[n].typ
        op   == T[n].op
        kids == T[n].kids
        x    == T[kids[1]].name
    IN  CASE typ = "Id" -> Reads(T, n, T[n].name, version)
          [] typ = "Unary" /\ op \in {"sizeof", "alignof"} -> <<>>
          [] typ = "Unary" /\ op = "&" /\ IsId(T, kids[1]) ->
                Maybe(n, Writes(T, n, x, version))     \* by whoever gets the address
          [] typ = "Unary" /\ op \in IncDecOps /\ IsId(T, kids[1]) ->
                Reads(T, n, x, version) \o Writes(T, n, x, version)
          [] typ = "Binop" /\ op \in AssignmentOps /\ IsId(T, kids[1]) ->
                (IF op = "=" THEN <<>> ELSE Reads(T, n, x, version)) \o
                k[2] \o Writes(T, n, x, version)
          [] typ = "Binop" /\ op \in {"&&", "||"} -> k[1] \o Maybe(n, k[2])
          [] typ = "Asm" ->
                Concat([i \in DOMAIN kids |-> Writes(T, n, T[kids[i]].name, version)])
          [] typ = "Ternary" -> k[1] \o Either(n, k[2], k[3])
          [] OTHER -> Concat(k)

Control == {"If", "IfElse", "Label", "Goto", "Case", "Default", "Switch", "While", "Do",
            "For", "Break", "Continue"}

(* A statement of C that directs the control, its parts likewise. *)
EmitControl(T, n, k) ==
    LET typ  == T[n].typ
        kids == T[n].kids
        Exits == Jump(n, {<<n, "body">>, <<n, "end">>})
        Cases == {m \in OfType(T, "Case") \cup OfType(T, "Default") : T[m].container = n}
    IN  CASE typ = "If" -> k[1] \o Maybe(n, k[2])
          [] typ = "IfElse" -> k[1] \o Either(n, k[2], k[3])
          [] typ = "Label" -> At(1, T[n].name)
          [] typ = "Goto" -> Jump(n, {<<1, T[n].name>>})
          [] typ \in {"Case", "Default"} -> At(n, "case")
          [] typ = "Switch" ->
                k[1] \o
                Jump(n, {<<c, "case">> : c \in Cases}
                        \cup (IF HasDefault(T, n) THEN {} ELSE {<<n, "end">>})) \o
                k[2] \o At(n, "end")
          [] typ = "While" -> At(n, "continue") \o k[1] \o Exits \o At(n, "body") \o
                k[2] \o Jump(n, {<<n, "continue">>}) \o At(n, "end")
          [] typ = "Do" -> At(n, "body") \o k[1] \o At(n, "continue") \o k[2] \o Exits \o
                At(n, "end")
          [] typ = "For" -> k[1] \o At(n, "loop") \o k[2] \o
                (IF kids[2] = NULL THEN <<>> ELSE Exits) \o At(n, "body") \o k[4] \o
                At(n, "continue") \o k[3] \o Jump(n, {<<n, "loop">>}) \o At(n, "end")
          [] typ = "Break" -> Jump(n, {<<T[n].container, "end">>})
          [] typ = "Continue" -> Jump(n, {<<T[n].container, "continue">>})

(* TransformNode. *)
Emit(T, o, n, version) ==
    LET k == [i \in DOMAIN T[n].kids |-> Emit(T, o, T[n].kids[i], version)]
        After(i) == Concat(SubSeq(k, i + 1, Len(k)))
    IN  IF n = NULL THEN <<>>
        ELSE CASE T[n].typ = "Spawn" -> TransformSpawn(T, o, n, After(2), version)
               [] T[n].typ = "InletCall" ->
                    LET spawn == T[n].kids[2]
                        spawnargs == Concat([j \in 1 .. Len(T[spawn].kids) - 2 |->
                                            Emit(T, o, T[spawn].kids[j + 2], version)])
                    IN  TransformInletCall(T, o, n, After(2), spawnargs, version)
               [] T[n].typ = "Sync" ->
                    TransformSync(T, o, n, o.live[n], o.dirty[n], version)
               [] T[n].typ = "Return" -> TransformReturn(T, o, n, k[1], version)
               [] T[n].typ = "Decl" -> TransformDecl(T, n, k[1], version)
               [] T[n].typ \in {"Abort", "Proc"} -> <<>>     \* a Proc here is an inlet
               [] T[n].typ \in Control -> EmitControl(T, n, k)
               [] OTHER -> EmitExpr(T, n, version, k)

-----------------------------------------------------------------------------
(* TransformCilkProc: the bodies of both clones, with the sync and return  *)
(* at the end if they are needed.                                          *)
Clone(T, o, version) ==
    Emit(T, o, Last(T[1].kids), version) \o
    (IF 1 \in o.needs_sync THEN TransformSync(T, o, 1, {}, {}, version) ELSE <<>>) \o
    (IF 1 \in o.needs_return THEN <<Instr("return", 1, "")>> ELSE <<>>)

(* MakeLinkage: one entry for each number, in the order they are taken.    *)
(* inlet is "" for a plain store, "+=" for the implicit inlet.             *)
Linkage(T, o) ==
    LET numbered == SetToSortSeq({n \in Nodes(T) : TakesNumber(T, o, "Slow", n)}, <)
        LinkOf(n) ==
            CASE T[n].typ /= "Spawn" -> [node |-> n, inlet |-> "", receiver |-> ""]
              [] T[n].in_inlet ->
                    LET call == CHOOSE c \in OfType(T, "InletCall") : T[c].kids[2] = n
                    IN  [node |-> n, inlet |-> T[call].name, receiver |-> ""]
              [] OTHER ->
                    [node |-> n, inlet |-> IF T[n].op = "+=" THEN "+=" ELSE "",
                     receiver |-> IF IsId(T, T[n].kids[1]) THEN T[T[n].kids[1]].name ELSE ""]
    IN  [i \in DOMAIN numbered |-> LinkOf(numbered[i])] \o
        (IF 1 \in o.needs_sync THEN <<[node |-> 1, inlet |-> "", receiver |-> ""]>> ELSE <<>>)

(* MakeInletProc: the inlet on its own works on the frame. *)
StandaloneInlets(T, o) ==
    [i \in {T[p].name : p \in NestedProcs(T)} |->
        Emit(T, o, Last(T[InletNamed(T, i)].kids), "InletProc")]
=============================================================================
