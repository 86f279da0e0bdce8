---------------------------- MODULE CriticalPath ----------------------------
(***************************************************************************)
(* The measurement of work and critical path (the _cp hooks of             *)
(* src/runtime/cilk-cilk2c-pre.h that src/cilk2c/transform.c puts around   *)
(* spawns, syncs and returns, and what src/runtime/sched.c adds when a     *)
(* child returns to a parent that was stolen).                             *)
(*                                                                         *)
(* A procedure runs once: strands of its own code, of a known length, with *)
(* a spawn or a sync after each.  Whatever the schedule, the numbers       *)
(* published at the end must be those of the dag of strands.               *)
(*                                                                         *)
(* The deque and the closures are those of Scheduler, each operation one   *)
(* step: here a worker has a stack of frames, and a frame at the bottom of *)
(* a stack, or suspended, has a closure.  No procedure is aborted: a frame *)
(* that is destroyed leaves cp_hack and work_hack of something else behind.*)
(***************************************************************************)
EXTENDS Integers, FiniteSets, Sequences, FiniteSetsExt, SequencesExt

CONSTANTS
    Workers,
    Procs,      \* the procedures called, each once
    Main,       \* the first; it plays invoke_main
    Program,    \* for each, the spawns (a procedure) and syncs it makes
    Cost        \* for each, how long each of its strands runs

Sync == "sync"
Strands(p)  == 1 .. Len(Program[p]) + 1
Children(p) == Range(Program[p]) \ {Sync}

ASSUME ProgramAssumption ==
    /\ Main \in Procs /\ Sync \notin Procs
    /\ \A p \in Procs : /\ Children(p) \subseteq Procs \ {Main}
                        /\ DOMAIN Cost[p] = Strands(p)
                        /\ \A i \in Strands(p) : Cost[p][i] \in Nat
                        /\ Children(p) /= {} => Last(Program[p]) = Sync

VARIABLES
    stack,      \* of each worker, the oldest frame first
    doing,      \* "runs" the newest frame, "returned" from one, "syncs" or "idle"
    elapsed,    \* time since last_cp_time
    cp_hack, work_hack,
    at,         \* of each frame, the strand it runs next
    slow,       \* the frames that run their slow clone
    frame,      \* cp, mycp and work of each frame
    closure,    \* cp, work, children and whether suspended, of each closure
    published,  \* critical_path, total_work
    executed    \* the strands executed

vars == <<stack, doing, elapsed, cp_hack, work_hack, at, slow, frame, closure, published,
          executed>>

NewClosure == [cp |-> 0, work |-> 0, children |-> {}, suspended |-> FALSE]
NoNumbers  == [cp |-> 0, mycp |-> 0, work |-> 0]

(* invoke_main has been picked up and started by some worker. *)
Init ==
    \E first \in Workers :
        /\ stack = [w \in Workers |-> IF w = first THEN <<Main>> ELSE <<>>]
        /\ doing = [w \in Workers |-> IF w = first THEN "runs" ELSE "idle"]
        /\ elapsed = [w \in Workers |-> 0]
        /\ cp_hack = [w \in Workers |-> 0] /\ work_hack = [w \in Workers |-> 0]
        /\ at = [p \in Procs |-> 1]
        /\ slow = {Main}
        /\ frame = [p \in Procs |-> NoNumbers]
        /\ closure = [p \in Procs |-> NewClosure]
        /\ published = <<>> /\ executed = {}

Top(w)  == Last(stack[w])
NextOp(p) == IF at[p] \in DOMAIN Program[p] THEN Program[p][at[p]] ELSE "return"
Larger(a, b) == IF a > b THEN a ELSE b

(* The newest frame of w runs a strand and comes to `op'. *)
Reaches(w, op) == doing[w] = "runs" /\ NextOp(Top(w)) = op

(* Cilk_get_elapsed_time at the end of the strand. *)
Elapsed(w) == elapsed[w] + Cost[Top(w)][at[Top(w)]]

Passed(w) ==
    /\ at' = [at EXCEPT ![Top(w)] = @ + 1]
    /\ executed' = executed \cup {<<Top(w), at[Top(w)]>>}

-----------------------------------------------------------------------------
(* The hooks on the numbers of a frame. *)

BeforeSpawn(f, e) == [f EXCEPT !.mycp = @ + e, !.work = @ + e]

StartThreadFast(hack) == [cp |-> 0, mycp |-> hack, work |-> 0]

AfterSpawn(f, cph, workh) == [f EXCEPT !.cp = Larger(cph, @), !.work = @ + workh]

AtSync(f, e) == [f EXCEPT !.mycp = Larger(f.cp, @ + e), !.work = @ + e]

\* mutant: the path of the children that were away is forgotten.
AfterSyncSlowAlone(f, c) == [f EXCEPT !.work = @ + c.work]
AfterSyncSlow(f, c) == [f EXCEPT !.work = @ + c.work, !.mycp = Larger(c.cp, @)]

\* mutant
AtThreadBoundaryMissing(e) == e
(* AT_THREAD_BOUNDARY_SLOW: what the worker did since does not count. *)
AtThreadBoundary(e) == 0

-----------------------------------------------------------------------------
(* before_spawn, the push of the frame, and the start of the child. *)
Spawn(w, c) ==
    LET p == Top(w)
        f == BeforeSpawn(frame[p], Elapsed(w))
    IN  /\ Reaches(w, c)
        /\ cp_hack' = [cp_hack EXCEPT ![w] = f.mycp]
        /\ frame' = [frame EXCEPT ![p] = f, ![c] = StartThreadFast(f.mycp)]
        /\ elapsed' = [elapsed EXCEPT ![w] = 0]
        /\ stack' = [stack EXCEPT ![w] = Append(@, c)]
        /\ Passed(w)
        /\ UNCHANGED <<doing, work_hack, slow, closure, published>>

(* A fast clone has no children outside its worker. *)
SyncFast(w) ==
    /\ Reaches(w, Sync) /\ Top(w) \notin slow
    /\ frame' = [frame EXCEPT ![Top(w)] = AtSync(@, Elapsed(w))]
    /\ elapsed' = [elapsed EXCEPT ![w] = 0]
    /\ Passed(w)
    /\ UNCHANGED <<stack, doing, cp_hack, work_hack, slow, closure, published>>

BeforeSyncSlow(w) ==
    /\ Reaches(w, Sync) /\ Top(w) \in slow
    /\ frame' = [frame EXCEPT ![Top(w)] = AtSync(@, Elapsed(w))]
    /\ elapsed' = [elapsed EXCEPT ![w] = 0]
    /\ doing' = [doing EXCEPT ![w] = "syncs"]
    /\ Passed(w)
    /\ UNCHANGED <<stack, cp_hack, work_hack, slow, closure, published>>

(* After the sync, by the worker that passed it or the one that resumes.   *)
(* Cilk_after_sync_slow_cp takes the closure's numbers.                    *)
GoOn(w, p, closures) ==
    /\ frame' = [frame EXCEPT ![p] = AfterSyncSlow(@, closures[p])]
    /\ closure' = [closures EXCEPT ![p] = [@ EXCEPT !.cp = 0, !.work = 0, !.suspended = FALSE]]
    /\ elapsed' = [elapsed EXCEPT ![w] = AtThreadBoundary(@ + 1)]
    /\ stack' = [stack EXCEPT ![w] = <<p>>]
    /\ doing' = [doing EXCEPT ![w] = "runs"]

Suspend(w) ==
    /\ closure' = [closure EXCEPT ![Top(w)].suspended = TRUE]
    /\ stack' = [stack EXCEPT ![w] = <<>>]
    /\ doing' = [doing EXCEPT ![w] = "idle"]
    /\ UNCHANGED <<elapsed, frame>>

SyncSlow(w) ==
    /\ doing[w] = "syncs"
    /\ IF closure[Top(w)].children = {} THEN GoOn(w, Top(w), closure) ELSE Suspend(w)
    /\ UNCHANGED <<cp_hack, work_hack, at, slow, published, executed>>

Return(w) ==
    LET p == Top(w)
    IN  /\ Reaches(w, "return") /\ p /= Main
        /\ cp_hack' = [cp_hack EXCEPT ![w] = frame[p].mycp + Elapsed(w)]
        /\ work_hack' = [work_hack EXCEPT ![w] = frame[p].work + Elapsed(w)]
        /\ elapsed' = [elapsed EXCEPT ![w] = 0]
        /\ doing' = [doing EXCEPT ![w] = "returned"]
        /\ Passed(w)
        /\ UNCHANGED <<stack, slow, frame, closure, published>>

(* The parent is still there: after_spawn. *)
PopFrame(w) ==
    LET p == stack[w][Len(stack[w]) - 1]
    IN  /\ doing[w] = "returned" /\ Len(stack[w]) > 1
        /\ frame' = [frame EXCEPT ![p] = AfterSpawn(@, cp_hack[w], work_hack[w])]
        /\ elapsed' = [elapsed EXCEPT ![w] = IF p \in slow THEN AtThreadBoundary(@ + 1) ELSE @]
        /\ stack' = [stack EXCEPT ![w] = Front(@)]
        /\ doing' = [doing EXCEPT ![w] = "runs"]
        /\ UNCHANGED <<cp_hack, work_hack, at, slow, closure, published, executed>>

(* Closure_return: to the closure of a parent that was stolen, whose sync  *)
(* the worker takes over if it waits for no one else.                      *)
Credit(c, child, cph, workh) ==
    [c EXCEPT !.cp = Larger(cph, @), !.work = @ + workh, !.children = @ \ {child}]

ClosureReturn(w, p) ==
    LET child == Top(w)
        closures == [closure EXCEPT ![p] = Credit(@, child, cp_hack[w], work_hack[w])]
    IN  /\ doing[w] = "returned" /\ Len(stack[w]) = 1
        /\ child \in closure[p].children
        /\ IF closures[p].suspended /\ closures[p].children = {}
           THEN GoOn(w, p, closures)
           ELSE /\ closure' = closures
                /\ stack' = [stack EXCEPT ![w] = <<>>]
                /\ doing' = [doing EXCEPT ![w] = "idle"]
                /\ UNCHANGED <<elapsed, frame>>
        /\ UNCHANGED <<cp_hack, work_hack, at, slow, published, executed>>

(* The thief takes the oldest frame with its closure; the next one gets a  *)
(* closure of its own (Closure_create).                                    *)
Steal(w, v) ==
    LET p == stack[v][1]
        child == stack[v][2]
    IN  /\ doing[w] = "idle" /\ Len(stack[v]) > 1
        /\ slow' = slow \cup {p}
        /\ closure' = [closure EXCEPT ![p].children = @ \cup {child}, ![child] = NewClosure]
        /\ stack' = [stack EXCEPT ![w] = <<p>>, ![v] = Tail(@)]
        /\ elapsed' = [elapsed EXCEPT ![w] = AtThreadBoundary(@ + 1)]
        /\ doing' = [doing EXCEPT ![w] = "runs"]
        /\ UNCHANGED <<cp_hack, work_hack, at, frame, published, executed>>

(* invoke_main publishes the numbers and sets done. *)
Publish(w) ==
    /\ Reaches(w, "return") /\ Top(w) = Main
    /\ published' = <<frame[Main].mycp, frame[Main].work>>
    /\ stack' = [stack EXCEPT ![w] = <<>>]
    /\ doing' = [doing EXCEPT ![w] = "idle"]
    /\ Passed(w)
    /\ UNCHANGED <<elapsed, cp_hack, work_hack, slow, frame, closure>>

Over == published /= <<>> /\ UNCHANGED vars

Next ==
    \/ \E w \in Workers :
        \/ \E c \in Procs : Spawn(w, c)
        \/ SyncFast(w) \/ BeforeSyncSlow(w) \/ SyncSlow(w)
        \/ Return(w) \/ PopFrame(w) \/ Publish(w)
        \/ \E p \in Procs : ClosureReturn(w, p)
        \/ \E v \in Workers : Steal(w, v)
    \/ Over

Spec == Init /\ [][Next]_vars

-----------------------------------------------------------------------------
(* The dag: a strand follows the one before it, the first the one that     *)
(* spawned its procedure, and one after a sync the last strands of the     *)
(* children spawned before.                                                *)

Before(p, i) ==
    {<<p, j>> : j \in {i - 1} \ {0}} \cup
    (IF i = 1 THEN {s \in UNION {{<<q, j>> : j \in DOMAIN Program[q]} : q \in Procs} :
                        Program[s[1]][s[2]] = p}
     ELSE IF Program[p][i - 1] = Sync
          THEN {<<Program[p][j], Len(Program[Program[p][j]]) + 1>> :
                    j \in {k \in 1 .. i - 2 : Program[p][k] /= Sync}}
          ELSE {})

RECURSIVE Finish(_, _)
Finish(p, i) ==
    Cost[p][i] + Max({0} \cup {Finish(s[1], s[2]) : s \in Before(p, i)})

(* What is published is the length of the longest path to the last strand  *)
(* of invoke_main: "MYCP is the actual critical path up to that node"      *)
(* (cilk-cilk2c-pre.h:185).  The strand of invoke_main after its sync is   *)
(* not measured.                                                           *)
SpanIsExact ==
    published /= <<>> =>
        published[1] + Last(Cost[Main]) = Finish(Main, Len(Program[Main]) + 1)

(* No strand is counted twice or lost: what has been executed, less what   *)
(* was published without its last strand, is on the live frames, on the    *)
(* closures, and in the work_hack of a worker whose child just returned.   *)
Returned == {w \in Workers : doing[w] = "returned"}
Live == (UNION {Range(stack[w]) : w \in Workers} \cup {p \in Procs : closure[p].suspended})
        \ {Top(w) : w \in Returned}

WorkIsExact ==
    LET booked == MapThenSumSet(LAMBDA p : frame[p].work, Live)
                  + MapThenSumSet(LAMBDA p : closure[p].work, Procs)
                  + MapThenSumSet(LAMBDA w : work_hack[w], Returned)
        done   == MapThenSumSet(LAMBDA s : Cost[s[1]][s[2]], executed)
    IN  IF published = <<>> THEN booked = done
        ELSE published[2] + Last(Cost[Main]) = done

(* Both numbers are those of the dag, whatever the schedule: stolen        *)
(* children that return before and after the sync of their parent are      *)
(* maximised and added once (Closure_return, after_sync).                  *)
MeasuresAreExact == SpanIsExact /\ WorkIsExact
=============================================================================
