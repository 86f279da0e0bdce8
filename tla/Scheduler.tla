----------------------------- MODULE Scheduler -----------------------------
(***************************************************************************)
(* The work-stealing scheduler of runtime/sched.c and invoke-main.c:       *)
(* closures and their tree, ready deques, the locks of both, stealing,     *)
(* returning, syncing, inlets and abort, run by several workers on a       *)
(* nondeterministic Cilk program.                                          *)
(*                                                                         *)
(* A procedure instance is a number; the closure made for it, if any, has  *)
(* the same number (closure->frame names it).  Every step that acquires a  *)
(* lock is an action, so is every step taken while others can interfere.   *)
(* A definition marked mutant is a slip in the one below it; no action     *)
(* uses it.                                                                *)
(* The T/H/E race itself is the subject of THE: here a thief's E++, test   *)
(* and H++ are one step, and E is either H or infinity (signalled).        *)
(***************************************************************************)
EXTENDS Naturals, Sequences, FiniteSets

CONSTANTS
    Worker,         \* the workers
    First,          \* the worker that starts the computation (worker 0)
    MaxProc,        \* bound: procedure instances
    MaxAbort        \* bound: abort statements and Cilk_exits executed

ASSUME WorkerAssumption == First \in Worker /\ 0 \notin Worker
ASSUME BoundAssumption == MaxProc \in Nat \ {0} /\ MaxAbort \in Nat

Proc == 1 .. MaxProc
Root == 1                       \* the invoke_main procedure
None == 0

(* enum AbortStatus, in the order signal_abort compares.                   *)
ABORT_ALL == 0
ALMOST_NO_ABORT == 1
NO_ABORT == 2

VARIABLES
    \* the program
    created, parent,    \* how many procedures exist, and who spawned each
    alive,              \* procedures whose frame is not destroyed
    out,                \* what became of each procedure's result
    aborts,             \* abort statements and Cilk_exits so far
    done,               \* USE_SHARED(done)
    \* closures
    status, join, incomplete, complete, abort, cache, clock,
    \* ready deques (top first) and the pointers of each worker's cache
    deque, dlock, stack, H, signalled,
    \* workers: place in the code, closure in hand, child, victim, abort walk
    pc, cl, child, victim, walk

vars == <<created, parent, alive, out, aborts, done, status, join, incomplete,
          complete, abort, cache, clock, deque, dlock, stack, H, signalled,
          pc, cl, child, victim, walk>>

program == <<created, parent, aborts, done>>
results == <<alive, out>>
tree    == <<join, incomplete, complete>>
state   == <<status, abort, cache>>
locks   == <<clock, dlock>>
caches  == <<stack, H, signalled>>

Bottom(w) == deque[w][Len(deque[w])]
Front(s) == SubSeq(s, 1, Len(s) - 1)
T(w) == Len(stack[w])
Running(w) == stack[w][T(w)]        \* the procedure whose code w executes

AtTopOfStack(c) == H[cache[c]] + 1 = T(cache[c])
HasTwoChildren(c) == join[c] > 1                        \* mutant
HasChildren(c) == join[c] # 0
NotAlmostAborted(c) == abort[c] # ALMOST_NO_ABORT       \* mutant
BeingAborted(c) == abort[c] # NO_ABORT

Min2(a, b) == IF a < b THEN a ELSE b

Goto(w, l) == pc' = [pc EXCEPT ![w] = l]
Hand(w, c) == cl' = [cl EXCEPT ![w] = c]
LockClosure(w, c) == clock[c] = None /\ clock' = [clock EXCEPT ![c] = w]
UnlockClosure(c) == clock' = [clock EXCEPT ![c] = None]
LockDeque(w, v) == dlock[v] = None /\ dlock' = [dlock EXCEPT ![v] = w]
UnlockDeque(v) == dlock' = [dlock EXCEPT ![v] = None]
SetStatus(c, s) == status' = [status EXCEPT ![c] = s]
AddBottom(q, c) == Append(q, c)
XtractBottom(q) == Front(q)
Outcome(f, o) == out' = [g \in Proc |-> IF g = f THEN o ELSE out[g]]

Init ==
    /\ created = 1 /\ parent = [f \in Proc |-> None]
    /\ alive = {Root} /\ out = [f \in Proc |-> "pending"]
    /\ aborts = 0 /\ done = FALSE
    /\ status = [f \in Proc |-> IF f = Root THEN "READY" ELSE "none"]
    /\ join = [f \in Proc |-> 0]
    /\ incomplete = [f \in Proc |-> {}]
    /\ complete = [f \in Proc |-> <<>>]
    /\ abort = [f \in Proc |-> NO_ABORT]
    /\ cache = [f \in Proc |-> None]
    /\ clock = [f \in Proc |-> None]
    /\ deque = [w \in Worker |-> <<>>]
    /\ dlock = [w \in Worker |-> None]
    /\ stack = [w \in Worker |-> <<>>]
    /\ H = [w \in Worker |-> 0]
    /\ signalled = [w \in Worker |-> FALSE]
    /\ pc = [w \in Worker |-> "loop"]
    /\ cl = [w \in Worker |-> IF w = First THEN Root ELSE None]
    /\ child = [w \in Worker |-> None]
    /\ victim = [w \in Worker |-> None]
    /\ walk = [w \in Worker |-> <<>>]

(***************************************************************************)
(* Cilk_scheduler.                                                         *)
(***************************************************************************)
LeaveScheduler(w) ==
    /\ pc[w] \in {"loop", "steal"} /\ done
    /\ Goto(w, "exit")
    /\ UNCHANGED <<program, results, state, tree, locks, deque, caches,
                   cl, child, victim, walk>>

(* Work from the local deque ...                                           *)
TakeOwn(w) ==
    /\ pc[w] = "loop" /\ ~done /\ cl[w] = None
    /\ dlock[w] = None
    /\ IF deque[w] = <<>>
         THEN Goto(w, "steal") /\ UNCHANGED <<deque, cl>>
         ELSE /\ Hand(w, Bottom(w))
              /\ deque' = [deque EXCEPT ![w] = XtractBottom(@)]
              /\ UNCHANGED pc
    /\ UNCHANGED <<program, results, state, tree, locks, caches, child,
                   victim, walk>>

(***************************************************************************)
(* ... or from another worker's: Closure_steal.                            *)
(***************************************************************************)
Peek(w, v) ==
    /\ victim' = [victim EXCEPT ![w] = v]
    /\ Hand(w, IF deque[v] = <<>> THEN None ELSE Head(deque[v]))

StealLockDeque(w) ==
    /\ pc[w] = "steal" /\ ~done
    /\ \E v \in Worker \ {w} : LockDeque(w, v) /\ Peek(w, v)
    /\ Goto(w, "stealDeque")
    /\ UNCHANGED <<program, results, state, tree, clock, deque, caches, child,
                   walk>>

StealLockClosure(w) ==
    /\ pc[w] = "stealDeque" /\ cl[w] # None
    /\ LockClosure(w, cl[w])
    /\ Goto(w, "stealClosure")
    /\ UNCHANGED <<program, results, state, tree, deque, dlock, caches, cl,
                   child, victim, walk>>

Stealable(c) == H[cache[c]] + 1 < T(cache[c])       \* do_dekker_on

(* give_up: the closure is unlocked before the deque (rule D).             *)
StealGiveUp(w) ==
    /\ pc[w] = "stealClosure"
    /\ \/ BeingAborted(cl[w])
       \/ status[cl[w]] = "RETURNING"
       \/ status[cl[w]] = "RUNNING" /\ ~Stealable(cl[w])
    /\ UnlockClosure(cl[w])
    /\ Hand(w, None)
    /\ Goto(w, "stealGiveUp")
    /\ UNCHANGED <<program, results, state, tree, deque, dlock, caches, child,
                   victim, walk>>

StealUnlockDeque(w) ==
    /\ \/ pc[w] = "stealGiveUp"
       \/ pc[w] = "stealDeque" /\ cl[w] = None
    /\ UnlockDeque(victim[w])
    /\ victim' = [victim EXCEPT ![w] = None]
    /\ Goto(w, "steal")
    /\ UNCHANGED <<program, results, state, tree, clock, deque, caches, cl,
                   child, walk>>

StealReady(w) ==
    /\ pc[w] = "stealClosure"
    /\ ~BeingAborted(cl[w]) /\ status[cl[w]] = "READY"
    /\ deque' = [deque EXCEPT ![victim[w]] = Tail(@)]
    /\ UnlockClosure(cl[w])
    /\ UnlockDeque(victim[w])
    /\ victim' = [victim EXCEPT ![w] = None]
    /\ Goto(w, "loop")
    /\ UNCHANGED <<program, results, state, tree, caches, cl, child, walk>>

(* promote_child: the frame above the closure's own becomes a closure,     *)
(* running on the same cache ...                                           *)
Promoted(c) == stack[cache[c]][H[cache[c]] + 2]
HeadStays(c) == UNCHANGED H                             \* mutant
HeadUp(c) == H' = [H EXCEPT ![cache[c]] = @ + 1]

AddChildUncounted(p, k) ==                              \* mutant
    incomplete' = [incomplete EXCEPT ![p] = @ \cup {k}] /\ UNCHANGED join
AddChildUnlisted(p, k) ==                               \* mutant
    join' = [join EXCEPT ![p] = @ + 1] /\ UNCHANGED incomplete
AddChild(p, k) == /\ join' = [join EXCEPT ![p] = @ + 1]
                  /\ incomplete' = [incomplete EXCEPT ![p] = @ \cup {k}]

StealPromote(w) ==
    LET c == cl[w]  k == Promoted(c)  v == victim[w] IN
    /\ pc[w] = "stealClosure"
    /\ ~BeingAborted(c) /\ status[c] = "RUNNING" /\ Stealable(c)
    /\ HeadUp(c)
    /\ SetStatus(k, "RUNNING")
    /\ cache' = [cache EXCEPT ![k] = cache[c]]
    /\ deque' = [deque EXCEPT ![v] = Tail(AddBottom(@, k))]
    /\ UnlockDeque(v)
    /\ child' = [child EXCEPT ![w] = k]
    /\ victim' = [victim EXCEPT ![w] = None]
    /\ Goto(w, "stealFinish")
    /\ UNCHANGED <<program, results, tree, abort, clock, stack, signalled,
                   cl, walk>>

(* ... and finish_promote, after the deque is unlocked.                    *)
StealFinish(w) ==
    LET c == cl[w]  k == child[w] IN
    /\ pc[w] = "stealFinish"
    /\ AddChild(c, k)
    /\ cache' = [cache EXCEPT ![c] = None]
    /\ SetStatus(c, "READY")
    /\ UnlockClosure(c)
    /\ child' = [child EXCEPT ![w] = None]
    /\ Goto(w, "loop")
    /\ UNCHANGED <<program, results, complete, abort, deque, dlock, caches,
                   cl, victim, walk>>

(***************************************************************************)
(* poll_inlets on the closure in hand, at the places that call it.  The    *)
(* code after the poll runs when Polled holds.                             *)
(***************************************************************************)
Polls(w) == \/ pc[w] \in {"setup", "syncPoll", "handlerPoll", "abortPoll", "exitPoll"}
            \/ pc[w] = "return" /\ status[cl[w]] # "RUNNING"

Polled(w) == walk[w] = <<>> /\ (Polls(w) => complete[cl[w]] = <<>>)

(* ALMOST_NO_ABORT is reset when the inlets are done (and by               *)
(* maybe_reset_abort, which spares ABORT_ALL likewise).                    *)
ResetAbort(c) == abort' = [abort EXCEPT ![c] = NO_ABORT] \* mutant
MaybeResetAbort(c) ==
    abort' = [abort EXCEPT ![c] = IF @ = ABORT_ALL THEN @ ELSE NO_ABORT]

(* One visit of recursively_signal_abort, children still to be walked.     *)
SignalImmediate(c) == signalled' = [signalled EXCEPT ![cache[c]] = TRUE]
SignalAbort(c, s) == abort' = [abort EXCEPT ![c] = Min2(@, s)]
Visit(c, s, running) ==
    /\ SignalAbort(c, s)
    /\ IF running THEN SignalImmediate(c) ELSE UNCHANGED signalled

(* apply_inlet on a closure being aborted throws the result away.          *)
InletKilled(w) ==
    LET c == cl[w]  i == Head(complete[c]) IN
    /\ Polls(w) /\ walk[w] = <<>> /\ complete[c] # <<>>
    /\ BeingAborted(c)
    /\ complete' = [complete EXCEPT ![c] = Tail(@)]
    /\ Outcome(i, "discarded")
    /\ UNCHANGED <<program, alive, state, join, incomplete, locks, deque,
                   caches, pc, cl, child, victim, walk>>

InletRuns(w) ==
    LET c == cl[w]  i == Head(complete[c]) IN
    /\ Polls(w) /\ walk[w] = <<>> /\ complete[c] # <<>>
    /\ ~BeingAborted(c)
    /\ i # None
    /\ complete' = [complete EXCEPT ![c] = Tail(@)]
    /\ Outcome(i, "delivered")
    /\ UNCHANGED <<program, alive, state, join, incomplete, locks, deque,
                   caches, pc, cl, child, victim, walk>>

(* The inlet aborts (Cilk_exit's always does): signal_abort_from_inlet.    *)
(* A closure running below the top of the stack is first detached from the *)
(* work that is above it.                                                  *)
InletAborts(w) ==
    LET c == cl[w]  i == Head(complete[c])  k == Promoted(c) IN
    /\ Polls(w) /\ walk[w] = <<>> /\ complete[c] # <<>>
    /\ ~BeingAborted(c)
    /\ i = None \/ aborts < MaxAbort
    /\ aborts' = IF i = None THEN aborts ELSE aborts + 1
    /\ complete' = [complete EXCEPT ![c] = Tail(@)]
    /\ Outcome(i, "delivered")
    /\ IF status[c] = "RUNNING" /\ ~AtTopOfStack(c)
         THEN /\ HeadUp(c)
              /\ status' = [status EXCEPT ![k] = "RUNNING", ![c] = "READY"]
              /\ cache' = [cache EXCEPT ![k] = cache[c], ![c] = None]
              /\ deque' = [deque EXCEPT ![w] = AddBottom(@, k)]
              /\ AddChild(c, k)
         ELSE UNCHANGED <<H, status, cache, deque, join, incomplete>>
    /\ Visit(c, ALMOST_NO_ABORT, status'[c] = "RUNNING")
    /\ walk' = [walk EXCEPT ![w] = <<[at |-> c, rest |-> incomplete'[c]]>>]
    /\ UNCHANGED <<created, parent, done, alive, locks, stack, pc, cl, child,
                   victim>>

(* The walk down the tree: a child is locked while its own are visited.    *)
Descend(q, k) ==
    LET n == Len(q) IN
    Append([q EXCEPT ![n] = [at |-> q[n].at, rest |-> q[n].rest \ {k}]],
           [at |-> k, rest |-> incomplete[k]])
WalkDown(w) ==
    LET here == walk[w][Len(walk[w])] IN
    /\ walk[w] # <<>>
    /\ \E k \in here.rest :
          /\ LockClosure(w, k)
          /\ Visit(k, ABORT_ALL, status[k] = "RUNNING")
          /\ walk' = [walk EXCEPT ![w] = Descend(@, k)]
    /\ UNCHANGED <<program, results, status, cache, tree, dlock, deque,
                   stack, H, pc, cl, child, victim>>

WalkUp(w) ==
    LET here == walk[w][Len(walk[w])] IN
    /\ walk[w] # <<>> /\ here.rest = {}
    /\ IF Len(walk[w]) > 1 THEN UnlockClosure(here.at) ELSE UNCHANGED clock
    /\ walk' = [walk EXCEPT ![w] = Front(@)]
    /\ UNCHANGED <<program, results, state, tree, dlock, deque, caches,
                   pc, cl, child, victim>>

(***************************************************************************)
(* do_what_it_says on the closure in hand.                                 *)
(***************************************************************************)
(* abort_ready_closure.                                                    *)
AbortReadyClosure(w) ==
    LET c == cl[w] IN
    /\ pc[w] = "loop" /\ ~done /\ c # None
    /\ clock[c] = None
    /\ status[c] = "READY" /\ BeingAborted(c)
    /\ IF HasChildren(c)
         THEN /\ SetStatus(c, "SUSPENDED")
              /\ Hand(w, None)
              /\ UNCHANGED results
         ELSE /\ SetStatus(c, "RETURNING")
              /\ alive' = alive \ {c}
              /\ Outcome(c, "discarded")
              /\ UNCHANGED cl
    /\ UNCHANGED <<program, abort, cache, tree, locks, deque, caches, pc,
                   child, victim, walk>>

(* setup_for_execution.                                                    *)
Setup(w) ==
    LET c == cl[w] IN
    /\ pc[w] = "loop" /\ ~done /\ c # None
    /\ status[c] = "READY" /\ ~BeingAborted(c)
    /\ LockClosure(w, c)
    /\ SetStatus(c, "RUNNING")
    /\ cache' = [cache EXCEPT ![c] = w]
    /\ stack' = [stack EXCEPT ![w] = <<c>>]
    /\ H' = [H EXCEPT ![w] = 0]
    /\ signalled' = [signalled EXCEPT ![w] = FALSE]
    /\ Goto(w, "setup")
    /\ UNCHANGED <<program, results, abort, tree, dlock, deque, cl, child,
                   victim, walk>>

(* Rule A: the closure is unlocked before the deque is locked.             *)
SetupDone(w) ==
    /\ pc[w] = "setup" /\ Polled(w)
    /\ MaybeResetAbort(cl[w])
    /\ UnlockClosure(cl[w])
    /\ Goto(w, "add")
    /\ UNCHANGED <<program, results, status, cache, tree, dlock, deque,
                   caches, cl, child, victim, walk>>

Execute(w) ==
    /\ pc[w] = "add"
    /\ dlock[w] = None
    /\ deque' = [deque EXCEPT ![w] = AddBottom(@, cl[w])]
    /\ Hand(w, None)
    /\ Goto(w, "run")
    /\ UNCHANGED <<program, results, state, tree, locks, caches, child,
                   victim, walk>>

(***************************************************************************)
(* Closure_return: the closure in hand is the child; its parent is then    *)
(* taken in hand.                                                          *)
(***************************************************************************)
KeepChild(p, k) == UNCHANGED incomplete                 \* mutant
RemoveChild(p, k) == incomplete' = [incomplete EXCEPT ![p] = @ \ {k}]

ReturnLockParent(w) ==
    LET k == cl[w]  p == parent[k] IN
    /\ pc[w] = "loop" /\ ~done /\ k # None
    /\ clock[k] = None /\ status[k] = "RETURNING"
    /\ LockClosure(w, p)
    /\ RemoveChild(p, k)
    /\ Hand(w, p)
    /\ child' = [child EXCEPT ![w] = k]
    /\ Goto(w, "returnChild")
    /\ UNCHANGED <<program, results, state, join, complete, dlock, deque,
                   caches, victim, walk>>

EnqueueAlways(p, k) ==                                  \* mutant
    complete' = [complete EXCEPT ![p] = <<k>> \o @] /\ UNCHANGED out
EnqueueInlet(p, k) ==
    IF BeingAborted(k)
      THEN Outcome(k, "discarded") /\ UNCHANGED complete
      ELSE complete' = [complete EXCEPT ![p] = <<k>> \o @] /\ UNCHANGED out

(* complete_and_enque_inlet, and word to a running parent.                 *)
ReturnEnqueue(w) ==
    LET k == child[w]  p == cl[w] IN
    /\ pc[w] = "returnChild"
    /\ LockClosure(w, k)
    /\ EnqueueInlet(p, k)
    /\ IF status[p] = "RUNNING" THEN SignalImmediate(p) ELSE UNCHANGED signalled
    /\ Goto(w, "return")
    /\ UNCHANGED <<program, alive, state, join, incomplete, dlock, deque,
                   stack, H, cl, child, victim, walk>>

(* provably_good_steal_maybe: its own poll finds nothing left.             *)
ProvablyGoodBeforeDecrement(p) ==                       \* mutant
    join[p] = 0 /\ status[p] = "SUSPENDED"
ProvablyGood(p) == join[p] = 1 /\ status[p] = "SUSPENDED"

ReturnDone(w) ==
    LET k == child[w]  p == cl[w] IN
    /\ pc[w] = "return" /\ Polled(w)
    /\ IF status[p] = "RUNNING" THEN UNCHANGED abort ELSE MaybeResetAbort(p)
    /\ join' = [join EXCEPT ![p] = @ - 1]
    /\ IF ProvablyGood(p)
         THEN /\ status' = [status EXCEPT ![k] = "freed", ![p] = "READY"]
              /\ cache' = [cache EXCEPT ![p] = None]
              /\ UNCHANGED cl
         ELSE /\ SetStatus(k, "freed")
              /\ Hand(w, None)
              /\ UNCHANGED cache
    /\ clock' = [clock EXCEPT ![p] = None, ![k] = None]
    /\ child' = [child EXCEPT ![w] = None]
    /\ Goto(w, "loop")
    /\ UNCHANGED <<program, results, incomplete, complete, dlock, deque,
                   caches, victim, walk>>

(***************************************************************************)
(* The Cilk program.  A frame at the bottom of a stack (T = 1) is in the   *)
(* slow version of its procedure, every other one in the fast version.     *)
(***************************************************************************)
Spawn(w) ==
    /\ pc[w] \in {"run", "synced"}
    /\ created < MaxProc
    /\ Running(w) = Root => created = 1
    /\ created' = created + 1
    /\ parent' = [parent EXCEPT ![created'] = Running(w)]
    /\ alive' = alive \cup {created'}
    /\ stack' = [stack EXCEPT ![w] = Append(@, created')]
    /\ Goto(w, "run")
    /\ UNCHANGED <<aborts, done, out, state, tree, locks, deque, H, signalled,
                   cl, child, victim, walk>>

(* before_return_fast; what follows is the caller's pop.                   *)
ReturnFast(w) ==
    /\ pc[w] = "run" /\ T(w) > 1
    /\ alive' = alive \ {Running(w)}
    /\ child' = [child EXCEPT ![w] = Running(w)]
    /\ stack' = [stack EXCEPT ![w] = Front(@)]
    /\ Goto(w, "pop")
    /\ UNCHANGED <<program, out, state, tree, locks, deque, H, signalled,
                   cl, victim, walk>>

(* The pop check: E >= T goes to the handler.                              *)
Exception(w) == signalled[w] \/ H[w] >= T(w)

PopResult(w) ==
    /\ pc[w] = "pop" /\ ~Exception(w)
    /\ Outcome(child[w], "delivered")
    /\ child' = [child EXCEPT ![w] = None]
    /\ Goto(w, "run")
    /\ UNCHANGED <<program, alive, state, tree, locks, deque, caches, cl,
                   victim, walk>>

(* The operations that start by locking the worker's own deque: the        *)
(* exception handler, a slow sync, an abort in slow code, a slow return,   *)
(* and invoke_main's end.                                                  *)
SlowAborts(w) == pc[w] = "run" /\ T(w) = 1 /\ Running(w) # Root

LockOwnDeque(w) ==
    /\ LockDeque(w, w)
    /\ \/ pc[w] = "pop" /\ Exception(w) /\ Goto(w, "handler")
          /\ UNCHANGED program
       \/ pc[w] = "run" /\ T(w) = 1 /\ (Running(w) = Root => created > 1)
          /\ Goto(w, "sync") /\ UNCHANGED program
       \/ SlowAborts(w) /\ aborts < MaxAbort /\ aborts' = aborts + 1
          /\ Goto(w, "abort") /\ UNCHANGED <<created, parent, done>>
       \/ pc[w] = "synced" /\ Running(w) # Root /\ Goto(w, "result")
          /\ UNCHANGED program
    /\ UNCHANGED <<results, state, tree, clock, deque, caches, cl, child,
                   victim, walk>>

LockBottom(w) ==
    /\ \/ pc[w] = "handler" /\ Goto(w, "handlerPoll")
       \/ pc[w] = "sync" /\ Goto(w, "syncPoll")
       \/ pc[w] = "abort" /\ Goto(w, "abortPoll")
       \/ pc[w] = "result" /\ Goto(w, "setResult")
    /\ LockClosure(w, Bottom(w))
    /\ Hand(w, Bottom(w))
    /\ IF pc[w] = "abort"
         THEN /\ Visit(Bottom(w), ALMOST_NO_ABORT, TRUE)
              /\ walk' = [walk EXCEPT ![w] =
                             <<[at |-> Bottom(w), rest |-> incomplete[Bottom(w)]]>>]
         ELSE UNCHANGED <<abort, signalled, walk>>
    /\ UNCHANGED <<program, results, status, cache, tree, dlock, deque, stack,
                   H, child, victim>>

UnlockBoth(w) == UnlockClosure(cl[w]) /\ UnlockDeque(w) /\ Hand(w, None)

(* Closure_suspend.                                                        *)
SuspendInPlace(w) == SetStatus(cl[w], "SUSPENDED") /\ UNCHANGED deque  \* mutant
Suspend(w) ==
    /\ SetStatus(cl[w], "SUSPENDED")
    /\ deque' = [deque EXCEPT ![w] = XtractBottom(@)]

(* Cilk_sync.                                                              *)
Sync(w) ==
    /\ pc[w] = "syncPoll" /\ Polled(w)
    /\ MaybeResetAbort(cl[w])
    /\ IF HasChildren(cl[w])
         THEN Suspend(w) /\ stack' = [stack EXCEPT ![w] = <<>>] /\ Goto(w, "loop")
         ELSE UNCHANGED <<status, deque, stack>> /\ Goto(w, "synced")
    /\ UnlockBoth(w)
    /\ UNCHANGED <<program, results, cache, tree, H, signalled, child, victim,
                   walk>>

(* Cilk_abort_slow.                                                        *)
AbortSlow(w) ==
    /\ pc[w] = "abortPoll" /\ Polled(w)
    /\ MaybeResetAbort(cl[w])
    /\ UnlockBoth(w)
    /\ Goto(w, "run")
    /\ UNCHANGED <<program, results, status, cache, tree, deque, caches, child,
                   victim, walk>>

(* Cilk_set_result and the end of the slow version.                        *)
SetResult(w) ==
    /\ pc[w] = "setResult"
    /\ SetStatus(cl[w], "RETURNING")
    /\ alive' = alive \ {cl[w]}
    /\ stack' = [stack EXCEPT ![w] = <<>>]
    /\ UnlockBoth(w)
    /\ Goto(w, "loop")
    /\ UNCHANGED <<program, out, abort, cache, tree, deque, H, signalled,
                   child, victim, walk>>

(* invoke_main_slow, after its sync.                                       *)
BeforeSync(w) == pc[w] = "run" /\ T(w) = 1 /\ created > 1     \* mutant
AfterSync(w) == pc[w] = "synced"

Done(w) ==
    /\ AfterSync(w) /\ Running(w) = Root
    /\ done' = TRUE
    /\ Goto(w, "rootEnd")
    /\ UNCHANGED <<created, parent, aborts, results, state, tree, locks, deque,
                   caches, cl, child, victim, walk>>

RemoveAndFree(w) ==
    /\ pc[w] = "rootEnd"
    /\ dlock[w] = None
    /\ deque' = [deque EXCEPT ![w] = XtractBottom(@)]
    /\ alive' = alive \ {Root}
    /\ SetStatus(Bottom(w), "freed")
    /\ stack' = [stack EXCEPT ![w] = <<>>]
    /\ Goto(w, "loop")
    /\ UNCHANGED <<program, out, abort, cache, tree, locks, H, signalled, cl,
                   child, victim, walk>>

(* Cilk_exit, called by any procedure but invoke_main: an inlet of no      *)
(* child, that aborts.                                                     *)
CilkExit(w) ==
    /\ pc[w] = "run" /\ Running(w) # Root /\ aborts < MaxAbort
    /\ aborts' = aborts + 1
    /\ clock[Root] = None
    /\ complete' = [complete EXCEPT ![Root] = <<None>> \o @]
    /\ IF status[Root] = "RUNNING"
         THEN SignalImmediate(Root) /\ UNCHANGED <<pc, cl, clock>>
         ELSE /\ LockClosure(w, Root) /\ Hand(w, Root)
              /\ Goto(w, "exitPoll")
              /\ UNCHANGED signalled
    /\ UNCHANGED <<created, parent, done, results, state, join, incomplete,
                   dlock, deque, stack, H, child, victim, walk>>

CilkExitDone(w) ==
    /\ pc[w] = "exitPoll" /\ Polled(w)
    /\ MaybeResetAbort(Root)
    /\ UnlockClosure(Root)
    /\ Hand(w, None)
    /\ Goto(w, "run")
    /\ UNCHANGED <<program, results, status, cache, tree, dlock, deque, caches,
                   child, victim, walk>>

(***************************************************************************)
(* Cilk_exception_handler.  The poll may have put another closure at the   *)
(* bottom of the deque: that one is handled.                               *)
(***************************************************************************)
PolledClosure(w) == cl[w]                               \* mutant
BottomNow(w) == Bottom(w)

HandlerPolled(w) ==
    LET t == cl[w]  t1 == BottomNow(w) IN
    /\ pc[w] = "handlerPoll" /\ Polled(w)
    /\ MaybeResetAbort(t)
    /\ IF t1 = t
         THEN Goto(w, "handlerAct") /\ UNCHANGED <<cl, clock>>
         ELSE UnlockClosure(t) /\ Hand(w, t1) /\ Goto(w, "handlerSwap")
    /\ UNCHANGED <<program, results, status, cache, tree, dlock, deque, caches,
                   child, victim, walk>>

HandlerSwap(w) ==
    /\ pc[w] = "handlerSwap"
    /\ LockClosure(w, cl[w])
    /\ Goto(w, "handlerAct")
    /\ UNCHANGED <<program, results, state, tree, dlock, deque, caches, cl,
                   child, victim, walk>>

(* The caller pops its frame too and returns to its own caller, or to the  *)
(* scheduler.                                                              *)
Unwind(w) == /\ stack' = [stack EXCEPT ![w] = Front(@)]
             /\ Goto(w, IF T(w) = 1 THEN "loop" ELSE "pop")

Stolen(w) == H[w] >= T(w)

(* The frame was stolen from under its child: the child's result leaves in *)
(* the child's closure.                                                    *)
HandlerStolen(w) ==
    /\ pc[w] = "handlerAct" /\ Stolen(w)
    /\ signalled' = [signalled EXCEPT ![w] = FALSE]
    /\ IF status[cl[w]] = "RUNNING"
         THEN SetStatus(cl[w], "RETURNING")
         ELSE UNCHANGED status
    /\ child' = [child EXCEPT ![w] = None]
    /\ UnlockBoth(w)
    /\ Unwind(w)
    /\ UNCHANGED <<program, results, abort, cache, tree, deque, H, victim, walk>>

(* The closure is being aborted: the child's result is lost, and so is the *)
(* frame, unless the closure has children to wait for.                     *)
HandlerAbort(w) ==
    LET t == cl[w]
        f == Running(w)
        waits == AtTopOfStack(t) /\ HasChildren(t) IN
    /\ pc[w] = "handlerAct" /\ ~Stolen(w) /\ BeingAborted(t)
    /\ signalled' = [signalled EXCEPT ![w] = TRUE]
    /\ IF waits
         THEN /\ MaybeResetAbort(t)
              /\ Suspend(w)
              /\ Outcome(child[w], "discarded")
              /\ child' = [child EXCEPT ![w] = None]
              /\ UNCHANGED alive
         ELSE /\ IF AtTopOfStack(t) THEN SetStatus(t, "RETURNING")
                                    ELSE UNCHANGED status
              /\ alive' = alive \ {f}
              /\ out' = [g \in Proc |-> IF g \in {f, child[w]} THEN "discarded"
                                        ELSE out[g]]
              /\ child' = [child EXCEPT ![w] = IF T(w) = 1 THEN None ELSE f]
              /\ UNCHANGED <<abort, deque>>
    /\ UnlockBoth(w)
    /\ Unwind(w)
    /\ UNCHANGED <<program, cache, tree, H, victim, walk>>

HandlerResume(w) ==
    /\ pc[w] = "handlerAct" /\ ~Stolen(w) /\ ~BeingAborted(cl[w])
    /\ signalled' = [signalled EXCEPT ![w] = FALSE]
    /\ MaybeResetAbort(cl[w])
    /\ Outcome(child[w], "delivered")
    /\ child' = [child EXCEPT ![w] = None]
    /\ UnlockBoth(w)
    /\ Goto(w, "run")
    /\ UNCHANGED <<program, alive, status, cache, tree, deque, stack, H,
                   victim, walk>>

Step(w) ==
    \/ LeaveScheduler(w) \/ TakeOwn(w)
    \/ StealLockDeque(w) \/ StealLockClosure(w) \/ StealGiveUp(w)
    \/ StealUnlockDeque(w) \/ StealReady(w) \/ StealPromote(w) \/ StealFinish(w)
    \/ InletKilled(w) \/ InletRuns(w) \/ InletAborts(w)
    \/ WalkDown(w) \/ WalkUp(w)
    \/ AbortReadyClosure(w) \/ Setup(w) \/ SetupDone(w) \/ Execute(w)
    \/ ReturnLockParent(w) \/ ReturnEnqueue(w) \/ ReturnDone(w)
    \/ Spawn(w) \/ ReturnFast(w) \/ PopResult(w)
    \/ LockOwnDeque(w) \/ LockBottom(w)
    \/ Sync(w) \/ AbortSlow(w) \/ SetResult(w) \/ Done(w) \/ RemoveAndFree(w)
    \/ CilkExit(w) \/ CilkExitDone(w)
    \/ HandlerPolled(w) \/ HandlerSwap(w) \/ HandlerStolen(w)
    \/ HandlerAbort(w) \/ HandlerResume(w)

(* The computation is over and every worker is out of the scheduler.       *)
Terminated == (\A w \in Worker : pc[w] = "exit") /\ UNCHANGED vars

Next == (\E w \in Worker : Step(w)) \/ Terminated

(* Strong fairness: no worker waits for ever at a spinlock that is         *)
(* released again and again, nor is it starved of a processor.             *)
Spec == Init /\ [][Next]_vars
FairSpec == Spec /\ \A w \in Worker : SF_vars(Step(w))

(***************************************************************************)
(* Properties.                                                             *)
(***************************************************************************)
Status == {"none", "READY", "RUNNING", "SUSPENDED", "RETURNING", "freed"}
PC == {"loop", "exit", "steal", "stealDeque", "stealClosure", "stealGiveUp",
       "stealFinish", "setup", "add", "returnChild", "return", "run", "pop",
       "handler", "sync", "abort", "result", "handlerPoll", "syncPoll",
       "abortPoll", "setResult", "handlerAct", "handlerSwap", "synced",
       "exitPoll", "rootEnd"}

(* Type correctness; the join counter never goes below zero.               *)
TypeOK ==
    /\ created \in Proc /\ parent \in [Proc -> Proc \cup {None}]
    /\ alive \subseteq Proc
    /\ out \in [Proc -> {"pending", "delivered", "discarded"}]
    /\ aborts \in 0 .. MaxAbort /\ done \in BOOLEAN
    /\ status \in [Proc -> Status]
    /\ join \in [Proc -> Nat]
    /\ incomplete \in [Proc -> SUBSET Proc]
    /\ complete \in [Proc -> Seq(Proc \cup {None})]
    /\ abort \in [Proc -> {ABORT_ALL, ALMOST_NO_ABORT, NO_ABORT}]
    /\ cache \in [Proc -> Worker \cup {None}]
    /\ clock \in [Proc -> Worker \cup {None}]
    /\ deque \in [Worker -> Seq(Proc)]
    /\ dlock \in [Worker -> Worker \cup {None}]
    /\ stack \in [Worker -> Seq(Proc)]
    /\ H \in [Worker -> Nat] /\ signalled \in [Worker -> BOOLEAN]
    /\ pc \in [Worker -> PC]
    /\ cl \in [Worker -> Proc \cup {None}]
    /\ child \in [Worker -> Proc \cup {None}]
    /\ victim \in [Worker -> Worker \cup {None}]
    /\ walk \in [Worker -> Seq([at : Proc, rest : SUBSET Proc])]

Unlocked(c) == clock[c] = None
Live(c) == status[c] \notin {"none", "freed"}
Returning(w) == pc[w] \in {"returnChild", "return"}

(* A closure is in one place: one position of one deque, or one worker's   *)
(* hand; a suspended one is in no queue and nobody works on it (PROTOCOLS, *)
(* "meaning of the closure state").                                        *)
Places(c) ==
    (UNION {{<<w, i>> : i \in {j \in 1 .. Len(deque[w]) : deque[w][j] = c}} :
               w \in Worker})
    \cup {<<w, "hand">> : w \in {v \in Worker :
              cl[v] = c /\ pc[v] \in {"loop", "exit", "setup", "add", "stealFinish"}}}
    \cup {<<w, "child">> : w \in {v \in Worker : child[v] = c /\ Returning(v)}}

InOnePlace ==
    \A c \in Proc : Cardinality(Places(c)) =
        IF status[c] \in {"READY", "RUNNING", "RETURNING"} THEN 1 ELSE 0

(* Only ready closures lie above the bottom of a deque: promote_child      *)
(* counts on the closure it splits being last.  A worker's cache belongs   *)
(* to one running closure, whose frame is the one H points at, or has just *)
(* been popped (a thief splits them under lock).                           *)
OneRunningPerCache ==
    /\ \A w \in Worker : \A i \in 1 .. Len(deque[w]) - 1 :
          status[deque[w][i]] = "READY" \/ ~Unlocked(deque[w][i])
    /\ \A c \in Proc : status[c] = "RUNNING" /\ Unlocked(c) =>
          LET v == cache[c] IN
          /\ v # None
          /\ \/ T(v) > H[v] /\ stack[v][H[v] + 1] = c
             \/ T(v) = H[v] /\ child[v] = c
          /\ \A d \in Proc \ {c} : status[d] = "RUNNING" /\ Unlocked(d) => cache[d] # v

(* Where a closure is, and where the one a worker works on is (both are    *)
(* what the deque and status changes under two locks must keep).           *)
OnePlace == InOnePlace /\ OneRunningPerCache

(* The join counter counts the promoted children that have not returned;   *)
(* a child being returned is off the list and still counted.               *)
JoinCountsChildren ==
    \A p \in Proc :
        LET leaving == {w \in Worker : Returning(w) /\ cl[w] = p}
            joining == {w \in Worker : pc[w] = "stealFinish" /\ cl[w] = p} IN
        Live(p) =>
          /\ join[p] = Cardinality(incomplete[p]) + Cardinality(leaving)
          /\ {k \in Proc : parent[k] = p /\ Live(k)} =
               incomplete[p] \cup {child[w] : w \in leaving \cup joining}

(* Rule D of PROTOCOLS: the thread that returns a closure is the only one  *)
(* that can reach it: its lock is free when Closure_return takes it ("the  *)
(* lock is not really necessary"), and nothing refers to it once it is     *)
(* destroyed.                                                              *)
RuleD ==
    /\ \A w \in Worker : pc[w] = "returnChild" => Unlocked(child[w])
    /\ \A c \in Proc : status[c] = "freed" =>
          /\ Unlocked(c)
          /\ \A w \in Worker : /\ cl[w] # c /\ child[w] # c
                               /\ \A i \in 1 .. Len(walk[w]) :
                                      c \notin {walk[w][i].at} \cup walk[w][i].rest
          /\ \A d \in Proc : /\ c \notin incomplete[d]
                             /\ Live(d) => parent[d] # c

(* The assertions of sched.c, and what its types say (no join counter      *)
(* below zero).                                                            *)
Assertions ==
    /\ TypeOK
    /\ \A w \in Worker :
        LET c == cl[w]  l == pc[w] IN
        /\ l = "stealClosure" =>
              /\ status[c] \in {"READY", "RUNNING", "RETURNING"}
              /\ status[c] = "RUNNING" /\ ~BeingAborted(c) /\ Stealable(c) =>
                    Len(deque[victim[w]]) = 1 /\ cache[c] = victim[w]
        /\ Polls(w) /\ status[c] = "RUNNING" /\ ~AtTopOfStack(c) =>
              dlock[w] = w /\ (complete[c] # <<>> => Bottom(w) = c /\ cache[c] = w)
        /\ l = "loop" /\ c # None /\ Unlocked(c) =>
              /\ status[c] \in {"READY", "RETURNING"}
              /\ status[c] = "READY" => abort[c] # ALMOST_NO_ABORT
              /\ status[c] = "RETURNING" =>
                    /\ join[c] = 0 /\ parent[c] # None
                    /\ status[parent[c]] # "RETURNING" /\ parent[c] \in alive
                    /\ Unlocked(parent[c]) => c \in incomplete[parent[c]]
        /\ Returning(w) => join[c] > 0 /\ status[c] # "RETURNING"
        /\ l \in {"sync", "abort", "result", "handler", "rootEnd"} =>
              deque[w] # <<>>
        /\ l \in {"syncPoll", "abortPoll", "setResult"} =>
              status[c] = "RUNNING" /\ AtTopOfStack(c) /\ c \in alive
        /\ l = "setResult" => abort[c] # ALMOST_NO_ABORT
        /\ l = "handlerAct" =>
              /\ status[c] \in {"RUNNING", "RETURNING"}
              /\ ~Stolen(w) => c \in alive
        /\ l = "rootEnd" => Bottom(w) = Root

(* A closure with inlets waiting does not go unnoticed: if it runs, its    *)
(* worker's E is infinity, and if it is suspended another child will come  *)
(* to poll them.  And a suspended closure has a child to wake it up.       *)
NobodyForgotten ==
    \A c \in Proc : Unlocked(c) =>
        /\ complete[c] # <<>> =>
              /\ status[c] = "RUNNING" => signalled[cache[c]]
              /\ status[c] \in {"READY", "RUNNING", "SUSPENDED"} /\ c \in alive
        /\ status[c] = "SUSPENDED" => join[c] > 0

(* An abort reaches the whole subtree, and the worker of each running      *)
(* closure in it; the status of the closure that aborts its children is    *)
(* back to normal before anyone else can see it.                           *)
AbortReaches ==
    \A c \in Proc : Unlocked(c) =>
        /\ abort[c] # ALMOST_NO_ABORT
        /\ abort[c] = ABORT_ALL /\ Live(c) =>
              /\ status[c] = "RUNNING" => signalled[cache[c]] \/ Stolen(cache[c])
              /\ \A k \in incomplete[c] : abort[k] = ABORT_ALL

(* A procedure that passes a sync, or returns, has no child whose result   *)
(* it still waits for.                                                     *)
NoPendingChild(f) == \A k \in Proc : parent[k] = f => out[k] # "pending"

SyncWaits ==
    /\ \A w \in Worker : pc[w] = "synced" => NoPendingChild(Running(w))
    /\ \A f \in 1 .. created : f \notin alive => NoPendingChild(f)

(* A result is delivered or discarded once, and delivered only into a      *)
(* frame that is still there, of a procedure that was not itself           *)
(* discarded.  Without an abort none is discarded, and no closure is seen  *)
(* as being aborted.                                                       *)
ResultOnce ==
    [][\A f \in Proc :
          /\ out'[f] # out[f] =>
                /\ out[f] = "pending"
                /\ out'[f] = "delivered" =>
                      parent[f] \in alive /\ out[parent[f]] = "pending"
          /\ aborts' = 0 => out'[f] # "discarded" /\ abort'[f] = NO_ABORT]_vars

(* When invoke_main sets done, the whole computation is over, and no       *)
(* worker leaves the scheduler with work in hand.                          *)
DoneIsDone ==
    done => /\ \A f \in 2 .. created : out[f] # "pending" /\ ~Live(f) /\ f \notin alive
            /\ \A w \in Worker : cl[w] \in {None, Root} /\ child[w] = None
            /\ \A w \in Worker : pc[w] = "exit" => cl[w] = None /\ stack[w] = <<>>

(* PROTOCOLS, 1): a ready closure is a suspended one whose join counter is *)
(* zero.                                                                   *)
ReadyHasNoChildren ==
    \A c \in Proc : status[c] = "READY" /\ Unlocked(c) => join[c] = 0

(* The computation ends and every worker leaves the scheduler.             *)
Completes == <>[](\A w \in Worker : pc[w] = "exit")
=============================================================================
