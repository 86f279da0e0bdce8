------------------------------- MODULE Clones -------------------------------
(***************************************************************************)
(* The code cilk2c generates for a Cilk procedure, run under the steals of *)
(* the runtime system (src/cilk2c/transform.c, src/runtime/sched.c and the *)
(* macros of src/runtime/cilk-cilk2c-pre.h).                               *)
(*                                                                         *)
(* A procedure is analysed and translated, then its fast clone runs, or    *)
(* its slow clone from the start.  A thief may take the frame at any spawn *)
(* and run the slow clone from there with registers that hold nothing;     *)
(* the children left behind return when they like, and their results go    *)
(* into the frame at once or at the next poll.                             *)
(*                                                                         *)
(* A variable has two copies, in a register and in the frame.  The model   *)
(* keeps which of them hold the value the variable has in the source       *)
(* program: reading another one is what must never happen.                 *)
(***************************************************************************)
EXTENDS Transform

CONSTANT MaxChildren    \* stolen-from children of the frame at a time

VARIABLES
    code,           \* the clones, the linkage and the inlets, once translated
    status,         \* of the frame's closure
    version,        \* the clone that runs
    pc,             \* its next instruction
    entry,          \* frame->header.entry
    inReg, inFrame, \* the variables whose register, frame copy is current
    outstanding,    \* children not yet returned, by the entry they left from
    complete,       \* those that have, their inlets still to be run
    stale           \* the variables read from a copy that is not current

runVars == <<status, version, pc, entry, inReg, inFrame, outstanding, complete, stale>>
vars    == <<analyzeVars, code, runVars>>

-----------------------------------------------------------------------------
Labels(instrs) ==
    LET at == {i \in DOMAIN instrs : instrs[i].do = "label"}
    IN  [l \in {instrs[i].arg : i \in at} |-> CHOOSE i \in at : instrs[i].arg = l]

Body    == IF version = "Fast" THEN code.fast ELSE code.slow
Op      == Body[pc]
Entries == DOMAIN code.link
Locals(T) == {T[n].name : n \in OfType(T, "Decl")} \cup {ReturnTemp}

Idle ==
    /\ status = "COMPILING" /\ version = "Fast" /\ pc = 1 /\ entry = 0
    /\ inReg = {} /\ inFrame = {} /\ stale = {}
    /\ outstanding = <<>> /\ complete = <<>>

NoCode == [fast |-> <<>>, slow |-> <<>>, link |-> <<>>, inlets |-> <<>>]

Init == InitAnalyze /\ code = NoCode /\ Idle

Analyze == NextAnalyze /\ UNCHANGED <<code, runVars>>

Translate ==
    /\ Analyzed
    /\ status = "COMPILING"
    /\ code' = [fast |-> Clone(tree, out, "Fast"), slow |-> Clone(tree, out, "Slow"),
                link |-> Linkage(tree, out), inlets |-> StandaloneInlets(tree, out)]
    /\ outstanding' = [k \in DOMAIN code'.link |-> 0]
    /\ status' = "READY"
    /\ UNCHANGED <<analyzeVars, version, pc, entry, inReg, inFrame, complete, stale>>

(* AddFastStuff: the formals arrive in registers; those that live in the   *)
(* frame are copied there.                                                 *)
StartFast ==
    /\ status = "READY" /\ pc = 1 /\ inReg = {} /\ inFrame = {}
    /\ status' = "RUNNING" /\ version' = "Fast"
    /\ inReg' = Locals(tree)
    /\ inFrame' = Locals(tree) \ {x \in Formals(tree) : DeclKind(tree, x) /= 2}
    /\ UNCHANGED <<analyzeVars, code, pc, entry, outstanding, complete, stale>>

(* AddSlowStuff, of a frame whose entry is 0: the formals are in the frame *)
(* and the register ones are loaded from it.                               *)
StartSlow ==
    /\ status = "READY" /\ pc = 1 /\ inReg = {} /\ inFrame = {}
    /\ status' = "RUNNING" /\ version' = "Slow"
    /\ inReg' = Locals(tree) \ {x \in Formals(tree) : DeclKind(tree, x) /= 1}
    /\ inFrame' = Locals(tree)
    /\ UNCHANGED <<analyzeVars, code, pc, entry, outstanding, complete, stale>>

-----------------------------------------------------------------------------
(* The effect of an access, or of a copy, on the copies that are current.  *)
(* A value nobody has set is the same in both.                             *)

Copies == [reg |-> inReg, frame |-> inFrame, stale |-> stale]

Effect(c, i) ==
    LET x == i.arg.var
        where == i.arg.loc
        holds == IF where = "frame" THEN c.frame ELSE c.reg
    IN  CASE i.do = "read"  -> [c EXCEPT !.stale = @ \cup ({x} \ holds)]
          [] i.do = "write" -> IF where = "frame"
                               THEN [c EXCEPT !.frame = @ \cup {x}, !.reg = @ \ {x}]
                               ELSE [c EXCEPT !.reg = @ \cup {x}, !.frame = @ \ {x}]
          [] i.do = "undef" -> [c EXCEPT !.reg = @ \cup {x}, !.frame = @ \cup {x}]
          [] i.do = "save"  -> [c EXCEPT !.frame = (@ \ i.arg) \cup (c.reg \cap i.arg)]
          [] i.do = "restore" -> [c EXCEPT !.reg = (@ \ i.arg) \cup (c.frame \cap i.arg)]
          [] OTHER -> c

(* An inlet run on the frame, through all its branches.  A plain spawn     *)
(* stores the result itself; a compound assignment has an inlet of its own *)
(* that adds it.                                                           *)
RunInlet(c, i) ==
    IF i = "" THEN c ELSE FoldLeft(Effect, c, code.inlets[i])

ApplyInlet(c, k) ==
    LET l == code.link[k]
        frame == [var |-> l.receiver, loc |-> "frame"]
        static == l.receiver = "" \/ DeclKind(tree, l.receiver) = 0
    IN  CASE l.inlet \notin {"", "+="} -> RunInlet(c, l.inlet)
          [] static -> c
          [] l.inlet = "+=" -> Effect(Effect(c, Instr("read", l.node, frame)),
                                      Instr("write", l.node, frame))
          [] OTHER -> Effect(c, Instr("write", l.node, frame))

SetCopies(c) == inReg' = c.reg /\ inFrame' = c.frame /\ stale' = c.stale

(* poll_inlets. *)
PollInlets(c) == FoldLeft(ApplyInlet, c, complete)

Waiting == {k \in Entries : outstanding[k] > 0}

-----------------------------------------------------------------------------
Running == status = "RUNNING" /\ pc \in DOMAIN Body

DoAccess ==
    /\ Running
    /\ Op.do \in {"read", "write", "undef", "save", "restore", "label"}
    /\ SetCopies(Effect(Copies, Op))
    /\ pc' = pc + 1
    /\ UNCHANGED <<analyzeVars, code, status, version, entry, outstanding, complete>>

SetEntry ==
    /\ Running /\ Op.do = "entry"
    /\ entry' = Op.arg
    /\ pc' = pc + 1
    /\ UNCHANGED <<analyzeVars, code, status, version, inReg, inFrame, outstanding,
                   complete, stale>>

DoGoto ==
    /\ Running /\ Op.do = "goto"
    /\ \E l \in Op.arg : pc' = Labels(Body)[l]
    /\ UNCHANGED <<analyzeVars, code, status, version, entry, inReg, inFrame,
                   outstanding, complete, stale>>

(* The child is done and nobody took the frame: the parent goes on with    *)
(* the child's result.                                                     *)
ChildIsDone ==
    /\ Running /\ Op.do = "call"
    /\ pc' = pc + 1
    /\ UNCHANGED <<analyzeVars, code, status, version, entry, inReg, inFrame,
                   outstanding, complete, stale>>

(* The inlet of a child that is done, run by the clone. *)
InlineInlet ==
    /\ Running /\ Op.do = "inlet"
    /\ SetCopies(RunInlet(Copies, Op.arg))
    /\ pc' = pc + 1
    /\ UNCHANGED <<analyzeVars, code, status, version, entry, outstanding, complete>>

(* A thief takes the frame while the child runs.  The child becomes one of *)
(* the frame's closure, with the inlet of the entry the frame holds.       *)
Steal ==
    /\ Running /\ Op.do = "call"
    /\ FoldFunction(+, 0, outstanding) + Len(complete) < MaxChildren
    /\ entry \in Entries
    /\ outstanding' = [outstanding EXCEPT ![entry] = @ + 1]
    /\ status' = "READY"
    /\ version' = "Slow"
    /\ inReg' = {}
    /\ UNCHANGED <<analyzeVars, code, pc, entry, inFrame, complete, stale>>

(* setup_for_execution, poll_inlets and the slow clone from its entry, of  *)
(* a frame that was stolen or suspended.                                   *)
Resume ==
    /\ status = "READY" /\ entry \in Entries
    /\ SetCopies([PollInlets(Copies) EXCEPT !.reg = {}])
    /\ complete' = <<>>
    /\ status' = "RUNNING"
    /\ version' = "Slow"
    /\ pc' = Labels(code.slow)[<<entry, "sync">>]
    /\ UNCHANGED <<analyzeVars, code, entry, outstanding>>

(* Closure_return of a child: the inlet of a running parent is left for it *)
(* to run.  The last child of a suspended parent makes it ready.           *)
ChildReturns(k) ==
    /\ status \in {"RUNNING", "READY", "SUSPENDED"}
    /\ k \in Waiting
    /\ outstanding' = [outstanding EXCEPT ![k] = @ - 1]
    /\ IF status = "RUNNING"
       THEN /\ complete' = Append(complete, k)
            /\ UNCHANGED <<inReg, inFrame, stale>>
       ELSE /\ SetCopies(ApplyInlet(PollInlets(Copies), k))
            /\ complete' = <<>>
    /\ status' = IF status = "SUSPENDED" /\ \A j \in Entries : outstanding'[j] = 0
                 THEN "READY" ELSE status
    /\ UNCHANGED <<analyzeVars, code, version, pc, entry>>

(* Cilk_exception_handler at a spawn of the slow clone. *)
Poll ==
    /\ Running /\ version = "Slow" /\ Op.do = "call"
    /\ complete /= <<>>
    /\ SetCopies(PollInlets(Copies))
    /\ complete' = <<>>
    /\ UNCHANGED <<analyzeVars, code, status, version, pc, entry, outstanding>>

(* Cilk_sync runs the inlets and suspends the frame if children are left;  *)
(* otherwise the clone goes on with the registers it has.                  *)
DoSync ==
    /\ Running /\ Op.do = "sync"
    /\ SetCopies(PollInlets(Copies))
    /\ complete' = <<>>
    /\ IF Waiting = {} THEN pc' = pc + 1 /\ UNCHANGED status
                       ELSE status' = "SUSPENDED" /\ UNCHANGED pc
    /\ UNCHANGED <<analyzeVars, code, version, entry, outstanding>>

DoReturn ==
    /\ Running /\ Op.do = "return"
    /\ status' = "RETURNED"
    /\ UNCHANGED <<analyzeVars, code, version, pc, entry, inReg, inFrame, outstanding,
                   complete, stale>>

(* The procedure is over. *)
Over == status = "RETURNED" /\ UNCHANGED vars

Run == \/ StartFast \/ StartSlow
       \/ DoAccess \/ SetEntry \/ DoGoto \/ ChildIsDone \/ InlineInlet
       \/ Steal \/ Resume \/ Poll \/ DoSync \/ DoReturn
       \/ \E k \in Entries : ChildReturns(k)

Next == Analyze \/ Translate \/ Run \/ Over

Spec == Init /\ [][Next]_vars

-----------------------------------------------------------------------------
(* Whatever the steals, a variable is read from a copy that holds its      *)
(* value: live variables are saved if dirty before every spawn and sync    *)
(* and reloaded where a thief comes in, and no save overwrites what a      *)
(* child or an inlet put into the frame (SaveVariables, RestoreVariables). *)
ReadsFresh == stale = {}

(* No clone returns while children of its frame are outside or results of  *)
(* theirs are pending: where the analysis of syncs adds none the procedure *)
(* needs none (AnalyzeSyncsAndFlow and the implicit syncs).                *)
SyncsBeforeReturn ==
    status = "RETURNED" => Waiting = {} /\ complete = <<>>

(* Control never runs off the end of a clone: the implicit return is there *)
(* wherever the end can be reached (AnalyzeReturnFlow).                    *)
NeverFallsOff == status = "RUNNING" => pc \in DOMAIN Body

(* A clone ends in a return, and in one that has synched. *)
ReturnsSynched == NeverFallsOff /\ SyncsBeforeReturn

(* At a spawn the frame's entry names the spawn, in the linkage of the     *)
(* slow clone and in its labels, whichever clone set it: a thief comes in  *)
(* after it, and the child's result goes where it says (sync_count).       *)
EntryNamesTheSpawn ==
    status = "RUNNING" /\ pc \in DOMAIN Body /\ Op.do = "call" =>
        /\ entry \in Entries
        /\ code.link[entry].node = Op.node
        /\ \E i \in DOMAIN code.slow :
              /\ code.slow[i].do = "label" /\ code.slow[i].arg = <<entry, "sync">>
              /\ \E j \in 1 .. i : code.slow[j].do = "call" /\ code.slow[j].node = Op.node

RECURSIVE Solve(_, _, _)
(* All the analyses to the end with k variables at a time. *)
Solve(s, ps, k) ==
    IF ps > Len(Passes(s.tree, k)) THEN s
    ELSE LET now == Passes(s.tree, k)[ps]
         IN  IF s.changed THEN Solve(DoSweep(now.analysis, s), ps, k)
             ELSE LET done == DoSweep(now.analysis, [s EXCEPT !.final = TRUE])
                  IN  Solve(IF ps = Len(Passes(s.tree, k)) THEN done
                            ELSE StartPass(done, Passes(s.tree, k)[ps + 1]), ps + 1, k)

(* What the analyses find does not depend on how many variables fit a bit  *)
(* vector: nothing of a chunk is left in the confluence points when the    *)
(* next one is analysed (ApplyInChunks, InitConfluencePoints).             *)
ChunksDoNotMatter ==
    Analyzed /\ status = "COMPILING" =>
        LET all == Len(RegisterVariables(tree)) + 1
        IN  out = Solve(StartPass(Fresh(tree), Passes(tree, all)[1]), 1, all).out

(* The iteration ends: a sweep that asks for another one has moved a       *)
(* confluence point, and only upwards in a lattice of finite height        *)
(* (FlowInto, IterateDataFlow).                                            *)
SweepsAdd ==
    ~Analyzed /\ sweep.changed =>
        LET next == DoSweep(ThePasses[pass].analysis, sweep)
        IN  next.changed =>
              /\ next.conf /= sweep.conf
              /\ \A c \in DOMAIN sweep.conf :
                    ~sweep.conf[c].undefined =>
                        /\ ~next.conf[c].undefined
                        /\ sweep.conf[c].bits \subseteq next.conf[c].bits

(* Each analysis comes to an end, and to the one answer there is.          *)
AnalysesSettle == ChunksDoNotMatter /\ SweepsAdd
=============================================================================
