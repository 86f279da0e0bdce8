------------------------- MODULE SchedulerInvariant -------------------------
(* The inductive invariant of the scheduler, and the first half of the     *)
(* proof that its steps keep it: what the operations do, as lemmas that    *)
(* say it without the handlers' conditions, then the parts of the          *)
(* invariant about types, locks, walks, marks, the first closure, parents  *)
(* and procedures that no thief has touched.  A status changes only of a   *)
(* closure in a place that the worker holds, of a parent that waits, or of *)
(* a frame that gets its closure; a deque is changed by its owner while    *)
(* nobody else has its lock, or by the thief that has it.                  *)
EXTENDS Scheduler, SequenceTheorems, FiniteSetTheorems, TLAPS

(* Where a worker holds the lock of its own deque (Cilk_exception_handler, *)
(* Cilk_sync, Cilk_abort_slow, Cilk_set_result).                           *)
OwnDequePC == {"handler", "sync", "abort", "result", "handlerPoll", "syncPoll",
               "abortPoll", "setResult", "handlerAct", "handlerSwap"}

(* Where a thief holds the lock of its victim's deque (Closure_steal). *)
VictimPC == {"stealDeque", "stealClosure", "stealGiveUp"}

(* Where a worker has locked the closure it has in hand. *)
LockPC == {"stealClosure", "stealFinish", "setup", "handlerPoll", "handlerAct",
           "syncPoll", "abortPoll", "setResult", "exitPoll", "returnChild",
           "return"}

(* Where it polls the inlets of that closure. *)
PollPC == {"setup", "syncPoll", "handlerPoll", "abortPoll", "exitPoll", "return"}

(* Where the closure in hand is in no deque: the worker carries it from    *)
(* one place to another.                                                   *)
HandPC == {"loop", "exit", "setup", "add", "stealFinish"}

(* Where a worker returns a closure: the parent is in hand, the child      *)
(* beside it.                                                              *)
ReturnPC == {"returnChild", "return"}

(* Where a worker has popped a frame, or handles the exception of that. *)
PopPC == {"pop", "handler", "handlerPoll", "handlerAct", "handlerSwap"}

(* Where it runs the slow clone, or is back from the scheduler in it. *)
SlowPC == {"sync", "abort", "result", "syncPoll", "abortPoll", "setResult",
           "synced", "rootEnd"}

(* Where a worker works on the closure at the bottom of its deque. *)
WorkPC == PopPC \cup SlowPC \cup {"run", "exitPoll"}

(* The length of a sequence, by a name the provers do not take apart. *)
Size(q) == Len(q)

(* The path of closures that the abort signal is on its way down. *)
Walks == Seq([at : Proc, rest : SUBSET Proc])

(* The type invariant, as the provers need it. The number of join is left  *)
(* open: what it counts is the business of other invariants.               *)
Types ==
    /\ created \in Proc /\ parent \in [Proc -> Proc \cup {None}]
    /\ alive \subseteq Proc
    /\ out \in [Proc -> {"pending", "delivered", "discarded"}]
    /\ aborts \in 0 .. MaxAbort /\ done \in BOOLEAN
    /\ status \in [Proc -> Status]
    /\ DOMAIN join = Proc
    /\ incomplete \in [Proc -> SUBSET Proc]
    /\ complete \in [Proc -> Seq(Proc \cup {None})]
    /\ abort \in [Proc -> {ABORT_ALL, ALMOST_NO_ABORT, NO_ABORT}]
    /\ cache \in [Proc -> Worker \cup {None}]
    /\ clock \in [Proc -> Worker \cup {None}]
    /\ deque \in [Worker -> Seq(Proc)]
    /\ dlock \in [Worker -> Worker \cup {None}]
    /\ stack \in [Worker -> Seq(Proc)]
    /\ H \in [Worker -> Nat] /\ signalled \in [Worker -> BOOLEAN]
    /\ pc \in [Worker -> PC]
    /\ cl \in [Worker -> Proc \cup {None}]
    /\ child \in [Worker -> Proc \cup {None}]
    /\ victim \in [Worker -> Worker \cup {None}]
    /\ walk \in [Worker -> Walks]

(* Worker w is at a place in the code where it holds the lock of v's       *)
(* deque.                                                                  *)
HoldsDeque(w, v) ==
    \/ v = w /\ pc[w] \in OwnDequePC
    \/ v = victim[w] /\ pc[w] \in VictimPC

(* A deque is locked by the worker that is where it holds its lock, and by *)
(* no other: deque_lock and deque_unlock pair up in every handler, and a   *)
(* thief's victim is another worker.                                       *)
DequeLocks ==
    /\ \A v, w \in Worker : dlock[v] = w <=> HoldsDeque(w, v)
    /\ \A w \in Worker : victim[w] # w
    /\ \A w \in Worker : victim[w] # None <=> pc[w] \in VictimPC

(* Worker w is at a place in the code where it holds the lock of c: as the *)
(* closure in hand, as the child it returns, or below the first on the     *)
(* path of an abort signal.                                                *)
HoldsClosure(w, c) ==
    \/ c = cl[w] /\ pc[w] \in LockPC
    \/ c = child[w] /\ pc[w] = "return"
    \/ \E i \in 2 .. Size(walk[w]) : walk[w][i].at = c

(* A closure is locked by the worker that is where it holds its lock, and  *)
(* by no other; what is locked is there, and the two closures of a return  *)
(* differ.                                                                 *)
ClosureLocks ==
    /\ \A c \in Proc, w \in Worker : clock[c] = w <=> HoldsClosure(w, c)
    /\ \A w \in Worker : pc[w] \in LockPC => cl[w] # None
    /\ \A w \in Worker : pc[w] \in ReturnPC => child[w] # None /\ child[w] # cl[w]

(* An abort signal walks only while its worker polls; the path begins at   *)
(* the closure polled, visits no closure twice, and never has Root below   *)
(* another.                                                                *)
WalkInv ==
    \A w \in Worker :
      /\ walk[w] # <<>> => /\ pc[w] \in PollPC
                           /\ walk[w][1].at = cl[w]
                           /\ pc[w] = "return" => status[cl[w]] # "RUNNING"
      /\ \A i, j \in 1 .. Size(walk[w]) : walk[w][i].at = walk[w][j].at => i = j
      /\ \A i \in 1 .. Size(walk[w]) :
            /\ pc[w] = "return" => walk[w][i].at # child[w]
            /\ Root \notin walk[w][i].rest

(* The first closure is nobody's child, is never aborted itself, and never *)
(* returns.                                                                *)
RootInv ==
    /\ \A c \in Proc : Root \notin incomplete[c]
    /\ abort[Root] # ABORT_ALL
    /\ status[Root] \notin {"none", "RETURNING"}

(* A closure is marked ALMOST_NO_ABORT only while a worker polls its       *)
(* inlets: each caller of poll_inlets ends with maybe_reset_abort.         *)
AlmostInv ==
    \A c \in Proc : abort[c] = ALMOST_NO_ABORT =>
        \E w \in Worker : /\ cl[w] = c /\ pc[w] \in PollPC
                          /\ pc[w] = "return" => status[c] # "RUNNING"

(* Procedures are numbered as they are spawned, each has an earlier one as *)
(* parent, and those not spawned yet have nothing.                         *)
ParentInv ==
    /\ \A c \in created + 1 .. MaxProc : status[c] = "none" /\ parent[c] = None
    /\ \A c \in 2 .. created : parent[c] \in 1 .. c - 1
    /\ parent[Root] = None

(* A procedure that was never a slow frame: no promoted child, so no join  *)
(* counted and no result waiting.                                          *)
Fresh(c) ==
    /\ c # Root /\ join[c] = 0 /\ complete[c] = <<>>
    /\ \A k \in Proc : parent[k] = c => status[k] = "none"

(* A closure that was not promoted yet is fresh, and so is one whose       *)
(* worker runs frames above it: children are promoted from the bottom      *)
(* frame of a deque only, and only H = 0 is the slow frame.                *)
FreshInv ==
    /\ \A c \in Proc : status[c] = "none" => Fresh(c)
    /\ \A w \in Worker : pc[w] \in WorkPC /\ H[w] >= 1 => Fresh(Bottom(w))

(* The frames on a worker's stack are a chain of children, the ones above  *)
(* the next to promote have no closure yet; a worker in its slow frame has *)
(* that one only; a closure set up is the only frame.                      *)
StackInv ==
    \A w \in Worker :
      /\ \A i \in 1 .. T(w) : stack[w][i] \in 1 .. created
      /\ \A i \in 2 .. T(w) : parent[stack[w][i]] = stack[w][i - 1]
      /\ \A i \in H[w] + 2 .. T(w) : status[stack[w][i]] = "none"
      /\ pc[w] \in WorkPC => T(w) >= 1
      /\ pc[w] \in WorkPC \cup {"setup", "add"} \/ stack[w] = <<>>
      /\ pc[w] \in SlowPC => T(w) = 1 /\ H[w] = 0
      /\ pc[w] \in {"run", "exitPoll"} => H[w] < T(w)
      /\ pc[w] \in {"exitPoll", "result", "setResult"} => Running(w) # Root
      /\ pc[w] = "rootEnd" => Running(w) = Root
      /\ pc[w] \in {"setup", "add"} =>
            /\ T(w) = 1 /\ stack[w][1] = cl[w] /\ H[w] = 0
            /\ cl[w] # None /\ status[cl[w]] = "RUNNING" /\ cache[cl[w]] = w

(* A frame that may be promoted is on one stack, once. *)
StacksApart ==
    \A v, w \in Worker : \A i \in H[v] + 2 .. T(v), j \in H[w] + 2 .. T(w) :
        stack[v][i] = stack[w][j] => v = w /\ i = j

(* The child beside the one in hand: the frame popped last, which has no   *)
(* closure unless a thief took it, or the closure stolen or returned, a    *)
(* child of the one in hand.                                               *)
ChildInv ==
    \A w \in Worker :
      /\ child[w] # None => /\ pc[w] \in PopPC \cup ReturnPC \cup {"stealFinish"}
                            /\ child[w] \in 1 .. created
      /\ pc[w] = "stealFinish" => child[w] # None /\ parent[child[w]] = cl[w]
      /\ pc[w] \in PopPC => child[w] # Root
      /\ pc[w] \in PopPC /\ H[w] < T(w) /\ child[w] # None =>
            status[child[w]] = "none"
      /\ pc[w] \in ReturnPC =>
            status[child[w]] = "RETURNING" /\ parent[child[w]] = cl[w]

(* The frame popped last is no longer one that may be promoted. *)
ChildApart ==
    \A v, w \in Worker : pc[w] \in PopPC /\ H[w] < T(w) /\ child[w] # None =>
        \A i \in H[v] + 2 .. T(v) : stack[v][i] # child[w]

(* A working worker has the closure it works on at the bottom of its       *)
(* deque: RUNNING, cached by it, and that of the frame at its head pointer *)
(* or of the one popped last; or RETURNING, once the worker knows that its *)
(* frames were stolen.                                                     *)
CurrentInv ==
    \A w \in Worker : pc[w] \in WorkPC =>
      LET c == Bottom(w) IN
      /\ deque[w] # <<>>
      /\ \/ /\ status[c] = "RUNNING" /\ cache[c] = w /\ H[w] <= T(w)
            /\ H[w] < T(w) => stack[w][H[w] + 1] = c
            /\ H[w] = T(w) => child[w] = c /\ pc[w] \in PopPC
         \/ /\ status[c] = "RETURNING" /\ H[w] >= T(w)
            /\ pc[w] \in PopPC

(* What a worker has in hand, and in what status: the closure at the       *)
(* bottom of its deque where it handles that one, a ready or returning one *)
(* in the scheduler's loop, a running one just stolen.                     *)
InHandInv ==
    \A w \in Worker :
      /\ cl[w] # None =>
            pc[w] \in LockPC \cup HandPC \cup {"stealDeque", "handlerSwap"}
      /\ pc[w] \in {"handlerAct", "handlerSwap", "syncPoll", "abortPoll",
                    "setResult"} => cl[w] = Bottom(w)
      /\ pc[w] = "handlerPoll" => cl[w] = Bottom(w) \/ status[cl[w]] = "READY"
      /\ pc[w] = "exitPoll" => cl[w] = Root /\ status[Root] # "RUNNING"
      /\ pc[w] \in {"loop", "exit"} /\ cl[w] # None =>
            status[cl[w]] \in {"READY", "RETURNING"}
      /\ pc[w] = "stealFinish" => status[cl[w]] = "RUNNING"

(* All closures of a deque above its bottom are READY. The bottom is what  *)
(* its worker works on, or READY, or RETURNING when the worker is back in  *)
(* its loop; a thief's own deque is empty, and the closure that it looks   *)
(* at is the victim's top.                                                 *)
DequeInv ==
    \A w \in Worker :
      /\ \A i \in 1 .. Size(deque[w]) - 1 : status[deque[w][i]] = "READY"
      /\ \/ pc[w] \in WorkPC \/ deque[w] = <<>>
         \/ status[Bottom(w)] = "READY"
         \/ status[Bottom(w)] = "RETURNING" /\ pc[w] \in {"loop", "exit"}
               /\ cl[w] = None
      /\ pc[w] \in VictimPC \cup {"steal"} => deque[w] = <<>>
      /\ pc[w] \in VictimPC /\ cl[w] # None =>
            deque[victim[w]] # <<>> /\ cl[w] = Head(deque[victim[w]])

(* Where a closure may be: in a deque, in a worker's hand, or beside the   *)
(* hand of a worker that returns it.                                       *)
InDeque(c) == \E w \in Worker : \E i \in 1 .. Size(deque[w]) : deque[w][i] = c
InHand(c) == \E w \in Worker : cl[w] = c /\ pc[w] \in HandPC
InReturn(c) == \E w \in Worker : child[w] = c /\ pc[w] \in ReturnPC

(* No closure is in two places. *)
PlacesApart ==
    /\ \A v, w \in Worker : \A i \in 1 .. Size(deque[v]), j \in 1 .. Size(deque[w]) :
          deque[v][i] = deque[w][j] => v = w /\ i = j
    /\ \A v, w \in Worker :
          pc[v] \in HandPC /\ pc[w] \in HandPC /\ cl[v] = cl[w] /\ cl[w] # None
             => v = w
    /\ \A v, w \in Worker :
          pc[v] \in ReturnPC /\ pc[w] \in ReturnPC /\ child[v] = child[w] => v = w
    /\ \A v, w \in Worker : \A i \in 1 .. Size(deque[v]) :
          /\ pc[w] \in HandPC => deque[v][i] # cl[w]
          /\ pc[w] \in ReturnPC => deque[v][i] # child[w]
    /\ \A v, w \in Worker :
          pc[v] \in HandPC /\ pc[w] \in ReturnPC => cl[v] # child[w]

(* A closure to be run, running or to be returned is in some place. *)
Placed ==
    \A c \in Proc : status[c] \in {"READY", "RUNNING", "RETURNING"} =>
        InDeque(c) \/ InHand(c) \/ InReturn(c)

(* The inductive invariant of the scheduler. *)
IInv == /\ Types /\ DequeLocks /\ ClosureLocks /\ WalkInv /\ RootInv /\ AlmostInv
        /\ ParentInv /\ FreshInv /\ StackInv /\ StacksApart /\ ChildInv
        /\ ChildApart /\ CurrentInv /\ InHandInv /\ DequeInv /\ PlacesApart /\ Placed

(* What the operations on deques, stacks and walks do to a sequence. *)
LEMMA SeqFacts ==
    ASSUME NEW S, NEW q \in Seq(S)
    PROVE  /\ Size(q) \in Nat /\ (q = <<>> <=> Size(q) = 0)
           /\ \A i \in 1 .. Size(q) : q[i] \in S
  BY EmptySeq, LenProperties, ElementOfSeq DEF Size

(* Two sequences of one length with the same elements are one. *)
LEMMA SameSeq ==
    ASSUME NEW S, NEW q \in Seq(S), NEW r \in Seq(S), Size(q) = Size(r),
           \A i \in 1 .. Size(q) : q[i] = r[i]
    PROVE  q = r
  BY SeqEqual DEF Size

(* Front drops the last element and keeps the others where they are. *)
LEMMA FrontFacts ==
    ASSUME NEW S, NEW q \in Seq(S), q # <<>>
    PROVE  /\ Front(q) \in Seq(S) /\ Size(Front(q)) = Size(q) - 1
           /\ \A i \in 1 .. Size(q) - 1 : Front(q)[i] = q[i]
<1> DEFINE n == Len(q) - 1
<1>1. Len(q) \in Nat /\ Len(q) # 0 /\ n \in Nat
  BY SeqFacts DEF Size
<1>2. \A i \in 1 .. n : q[i] \in S
  BY <1>1, ElementOfSeq
<1> DEFINE f == SubSeq(q, 1, n)
<1>3. /\ f \in Seq(S)
      /\ Len(f) = IF 1 <= n THEN n - 1 + 1 ELSE 0
      /\ \A i \in 1 .. n - 1 + 1 : f[i] = q[1 + i - 1]
  BY <1>1, <1>2, SubSeqProperties
<1>4. f = Front(q)
  BY DEF Front
<1> HIDE DEF f
<1>5. \A i \in 1 .. n : f[i] = q[i]
  BY <1>1, <1>3
<1>q. QED
  BY <1>1, <1>3, <1>4, <1>5 DEF Size

(* Head and the last element, and what Tail leaves. *)
LEMMA HeadFacts ==
    ASSUME NEW S, NEW q \in Seq(S), q # <<>>
    PROVE  /\ Head(q) = q[1] /\ Head(q) \in S /\ q[Size(q)] \in S
           /\ Size(q) \in Nat \ {0}
           /\ Tail(q) \in Seq(S) /\ Size(Tail(q)) = Size(q) - 1
           /\ \A i \in 1 .. Size(q) - 1 : Tail(q)[i] = q[i + 1]
<1>1. Len(q) \in Nat /\ Len(q) # 0
  BY SeqFacts DEF Size
<1>q. QED
  BY <1>1, HeadTailProperties, ElementOfSeq DEF Size

(* Append puts an element after the others. *)
LEMMA AppendFacts ==
    ASSUME NEW S, NEW q \in Seq(S), NEW e \in S
    PROVE  /\ Append(q, e) \in Seq(S) /\ Size(Append(q, e)) = Size(q) + 1
           /\ \A i \in 1 .. Size(q) : Append(q, e)[i] = q[i]
           /\ Append(q, e)[Size(q) + 1] = e
  BY AppendProperties DEF Size

(* What a sequence is with an element put before it. *)
LEMMA ConsFacts ==
    ASSUME NEW S, NEW q \in Seq(S), NEW e \in S
    PROVE  /\ <<e>> \o q \in Seq(S) /\ Size(<<e>> \o q) = Size(q) + 1
           /\ (<<e>> \o q)[1] = e
           /\ \A i \in 2 .. Size(q) + 1 : (<<e>> \o q)[i] = q[i - 1]
<1>1. <<e>> \in Seq(S) /\ Len(<<e>>) = 1 /\ Len(q) \in Nat /\ <<e>>[1] = e
  BY SeqFacts DEF Size
<1>q. QED
  BY <1>1, ConcatProperties DEF Size

(* A sequence of one element. *)
LEMMA SingleFacts ==
    ASSUME NEW S, NEW e \in S
    PROVE  <<e>> \in Seq(S) /\ Size(<<e>>) = 1 /\ <<e>>[1] = e /\ <<e>> # <<>>
  BY DEF Size

(* A deque's elements are procedures, and its bottom is its last one. *)
LEMMA DequeFacts ==
    ASSUME Types, NEW w \in Worker
    PROVE  /\ deque[w] \in Seq(Proc) /\ Size(deque[w]) \in Nat
           /\ deque[w] = <<>> <=> Size(deque[w]) = 0
           /\ Bottom(w) = deque[w][Size(deque[w])]
           /\ deque[w] # <<>> => Bottom(w) \in Proc
           /\ \A i \in 1 .. Size(deque[w]) : deque[w][i] \in Proc
<1>1. deque[w] \in Seq(Proc)
  BY DEF Types
<1>q. QED
  BY <1>1, SeqFacts, HeadFacts DEF Bottom, Size

(* A stack's elements are procedures, and T is its length. *)
LEMMA StackFacts ==
    ASSUME Types, NEW w \in Worker
    PROVE  /\ stack[w] \in Seq(Proc) /\ T(w) \in Nat /\ T(w) = Size(stack[w])
           /\ stack[w] = <<>> <=> T(w) = 0
           /\ \A i \in 1 .. T(w) : stack[w][i] \in Proc
           /\ H[w] \in Nat
<1>1. stack[w] \in Seq(Proc) /\ H[w] \in Nat
  BY DEF Types
<1>q. QED
  BY <1>1, SeqFacts DEF T, Size

(* A working worker with a frame above its head pointer: the frame belongs *)
(* to a child of the closure at the bottom of its deque, and has no        *)
(* closure yet.                                                            *)
LEMMA Promotable ==
    ASSUME IInv, NEW v \in Worker, pc[v] \in WorkPC, H[v] + 1 < T(v)
    PROVE  LET c == Bottom(v)  k == stack[v][H[v] + 2] IN
           /\ c \in Proc /\ status[c] = "RUNNING" /\ cache[c] = v
           /\ stack[v][H[v] + 1] = c
           /\ k \in Proc /\ k # c /\ k # Root /\ status[k] = "none"
           /\ parent[k] = c /\ Fresh(k)
<1> DEFINE c == Bottom(v)
<1> DEFINE k == stack[v][H[v] + 2]
<1>1. /\ H[v] \in Nat /\ stack[v] \in Seq(Proc) /\ T(v) \in Nat
      /\ deque[v] # <<>>
  BY StackFacts DEF IInv, CurrentInv
<1>2. c \in Proc
  BY <1>1, DequeFacts DEF IInv
<1>3. status[c] = "RUNNING" /\ cache[c] = v /\ stack[v][H[v] + 1] = c
  BY <1>1 DEF IInv, CurrentInv
<1>4. H[v] + 2 \in 2 .. T(v) /\ H[v] + 2 \in H[v] + 2 .. T(v) /\ H[v] + 2 - 1 = H[v] + 1
  BY <1>1
<1>5. k \in Proc
  BY <1>1, <1>4, StackFacts DEF IInv
<1>6. status[k] = "none" /\ parent[k] = c
  <2>1. \A i \in 2 .. T(v) : parent[stack[v][i]] = stack[v][i - 1]
    BY DEF IInv, StackInv
  <2>2. \A i \in H[v] + 2 .. T(v) : status[stack[v][i]] = "none"
    BY DEF IInv, StackInv
  <2>3. parent[stack[v][H[v] + 2]] = stack[v][H[v] + 2 - 1]
    BY <1>1, <1>4, <2>1
  <2>q. QED
    BY <1>3, <1>4, <2>2, <2>3
<1>7. k # c /\ k # Root /\ Fresh(k)
  BY <1>3, <1>5, <1>6 DEF IInv, RootInv, FreshInv, Root
<1>q. QED
  BY <1>2, <1>3, <1>5, <1>6, <1>7

(* promote_child splits the one closure that the victim runs. *)
StealPromoteDoes(w, v, c, k) ==
    /\ v = victim[w] /\ c = cl[w] /\ k = stack[v][H[v] + 2]
    /\ pc[w] = "stealClosure" /\ deque[v] = <<c>>
    /\ pc[v] \in WorkPC \ OwnDequePC /\ H[v] + 1 < T(v)
    /\ status[c] = "RUNNING" /\ cache[c] = v /\ abort[c] = NO_ABORT
    /\ stack[v][H[v] + 1] = c
    /\ k # c /\ k # Root /\ status[k] = "none" /\ parent[k] = c
    /\ Fresh(k)
    /\ H' = [H EXCEPT ![v] = @ + 1]
    /\ status' = [status EXCEPT ![k] = "RUNNING"]
    /\ cache' = [cache EXCEPT ![k] = v]
    /\ deque' = [deque EXCEPT ![v] = <<k>>]
    /\ dlock' = [dlock EXCEPT ![v] = None]
    /\ child' = [child EXCEPT ![w] = k]
    /\ victim' = [victim EXCEPT ![w] = None]
    /\ pc' = [pc EXCEPT ![w] = "stealFinish"]
    /\ UNCHANGED <<created, parent, alive, out, aborts, done, join,
                   incomplete, complete, abort, clock, stack,
                   signalled, cl, walk>>

(* promote_child, called by Closure_steal (steal 3.9 and 3.10): the frame  *)
(* above the victim's head pointer gets a closure of its own, which takes  *)
(* the place of the one stolen.                                            *)
LEMMA StealPromoteEffect ==
    ASSUME IInv, NEW w \in Worker, StealPromote(w)
    PROVE  \E v \in Worker \ {w}, c \in Proc, k \in Proc : StealPromoteDoes(w, v, c, k)
<1> USE DEF StealPromoteDoes
<1> DEFINE v == victim[w]
<1> DEFINE c == cl[w]
<1> DEFINE k == stack[v][H[v] + 2]
<1> USE DEF IInv
<1>1. /\ pc[w] = "stealClosure" /\ status[c] = "RUNNING" /\ abort[c] = NO_ABORT
      /\ Stealable(c)
  BY DEF StealPromote, BeingAborted
<1>2. /\ v \in Worker /\ v # w /\ dlock[v] = w /\ c # None /\ c \in Proc
      /\ pc[v] \notin OwnDequePC /\ deque[v] # <<>> /\ c = Head(deque[v])
  <2>1. pc[w] \in VictimPC /\ pc[w] \in LockPC
    BY <1>1 DEF VictimPC, LockPC
  <2>2. v # None /\ c # None /\ v # w
    BY <2>1 DEF DequeLocks, ClosureLocks
  <2>3. v \in Worker /\ c \in Proc
    BY <2>2 DEF Types
  <2>4. dlock[v] = w
    BY <2>1, <2>3 DEF DequeLocks, HoldsDeque
  <2>5. pc[v] \notin OwnDequePC
    BY <2>2, <2>3, <2>4 DEF DequeLocks, HoldsDeque
  <2>6. deque[v] # <<>> /\ c = Head(deque[v])
    BY <2>1, <2>2 DEF DequeInv
  <2>q. QED
    BY <2>2, <2>3, <2>4, <2>5, <2>6
<1>3. /\ Size(deque[v]) = 1 /\ c = Bottom(v) /\ pc[v] \in WorkPC
  <2>1. /\ deque[v] \in Seq(Proc) /\ Size(deque[v]) \in Nat \ {0}
        /\ deque[v][1] = c /\ Bottom(v) = deque[v][Size(deque[v])]
    BY <1>2, DequeFacts, HeadFacts
  <2>2. Size(deque[v]) = 1
    <3>1. \A i \in 1 .. Size(deque[v]) - 1 : status[deque[v][i]] = "READY"
      BY <1>2 DEF DequeInv
    <3>2. ~(1 < Size(deque[v]))
      BY <1>1, <2>1, <3>1
    <3>q. QED
      BY <2>1, <3>2
  <2>3. pc[v] \in WorkPC
    BY <1>1, <1>2, <2>1, <2>2 DEF DequeInv
  <2>q. QED
    BY <2>1, <2>2, <2>3
<1>4. deque[v] = <<c>>
  <2>1. deque[v] \in Seq(Proc) /\ deque[v][1] = c
    BY <1>2, HeadFacts DEF Types
  <2>2. <<c>> \in Seq(Proc) /\ Size(<<c>>) = 1 /\ <<c>>[1] = c
    BY <1>2, SingleFacts
  <2>3. ASSUME NEW i \in 1 .. Size(deque[v])
        PROVE  deque[v][i] = <<c>>[i]
    <3>1. i = 1
      BY <1>3
    <3>q. QED
      BY <2>1, <2>2, <3>1
  <2>q. QED
    BY <1>3, <2>1, <2>2, <2>3, SameSeq
<1>5. cache[c] = v
  BY <1>1, <1>2, <1>3 DEF CurrentInv
<1>6. H[v] + 1 < T(v)
  BY <1>1, <1>5 DEF Stealable
<1>7. /\ k \in Proc /\ k # c /\ k # Root /\ status[k] = "none"
      /\ parent[k] = c /\ Fresh(k) /\ stack[v][H[v] + 1] = c
  BY <1>2, <1>3, <1>6, Promotable
<1>8. Promoted(c) = k
  BY <1>5 DEF Promoted
<1>9. deque' = [deque EXCEPT ![v] = <<k>>]
  <2>1. deque' = [deque EXCEPT ![v] = Tail(Append(@, k))]
    BY <1>8 DEF StealPromote, AddBottom
  <2>2. Tail(Append(deque[v], k)) = <<k>>
    <3>1. <<c>> \in Seq(Proc) /\ <<c>> # <<>> /\ Tail(<<c>>) = <<>> /\ Append(<<>>, k) = <<k>>
      BY <1>2
    <3>2. Tail(Append(<<c>>, k)) = Append(Tail(<<c>>), k)
      BY <1>7, <3>1, HeadTailAppend
    <3>q. QED
      BY <1>4, <3>1, <3>2
  <2>q. QED
    BY <2>1, <2>2
<1>10. /\ H' = [H EXCEPT ![v] = @ + 1]
       /\ status' = [status EXCEPT ![k] = "RUNNING"]
       /\ cache' = [cache EXCEPT ![k] = v]
       /\ dlock' = [dlock EXCEPT ![v] = None]
       /\ child' = [child EXCEPT ![w] = k]
       /\ victim' = [victim EXCEPT ![w] = None]
       /\ pc' = [pc EXCEPT ![w] = "stealFinish"]
       /\ UNCHANGED <<created, parent, alive, out, aborts, done, join,
                      incomplete, complete, abort, clock, stack,
                      signalled, cl, walk>>
  BY <1>5, <1>8 DEF StealPromote, HeadUp, SetStatus, UnlockDeque, Goto,
     program, results, tree
<1>q. QED
  BY <1>1, <1>2, <1>3, <1>4, <1>5, <1>6, <1>7, <1>9, <1>10

(* A worker that handles an exception, syncs, aborts or ends its procedure *)
(* has the closure at the bottom of its deque in hand, locked.             *)
LEMMA InHandFacts ==
    ASSUME IInv, NEW w \in Worker,
           pc[w] \in {"handlerAct", "handlerSwap", "syncPoll", "abortPoll",
                      "setResult"}
    PROVE  /\ cl[w] \in Proc /\ cl[w] = Bottom(w) /\ deque[w] # <<>>
           /\ pc[w] \in WorkPC /\ pc[w] \in OwnDequePC
           /\ T(w) \in Nat /\ H[w] \in Nat /\ T(w) >= 1
           /\ pc[w] \notin {"handlerAct", "handlerSwap"} =>
                 /\ T(w) = 1 /\ H[w] = 0 /\ status[cl[w]] = "RUNNING"
                 /\ stack[w][1] = cl[w] /\ cache[cl[w]] = w
<1>1. /\ pc[w] \in WorkPC /\ pc[w] \in OwnDequePC
      /\ pc[w] \notin {"handlerAct", "handlerSwap"} => pc[w] \in SlowPC \ PopPC
  BY DEF WorkPC, OwnDequePC, PopPC, SlowPC
<1>2. deque[w] # <<>> /\ T(w) >= 1
  BY <1>1 DEF IInv, CurrentInv, StackInv
<1>3. cl[w] = Bottom(w) /\ cl[w] \in Proc
  BY <1>2, DequeFacts DEF IInv, InHandInv
<1>4. T(w) \in Nat /\ H[w] \in Nat
  BY StackFacts DEF IInv
<1>5. ASSUME pc[w] \notin {"handlerAct", "handlerSwap"}
      PROVE  /\ T(w) = 1 /\ H[w] = 0 /\ status[cl[w]] = "RUNNING"
             /\ stack[w][1] = cl[w] /\ cache[cl[w]] = w
  <2>1. T(w) = 1 /\ H[w] = 0 /\ ~(H[w] >= T(w)) /\ H[w] < T(w) /\ H[w] + 1 = 1
    BY <1>1, <1>5 DEF IInv, StackInv
  <2>q. QED
    BY <1>1, <1>3, <2>1 DEF IInv, CurrentInv
<1>q. QED
  BY <1>1, <1>2, <1>3, <1>4, <1>5

(* A closure of a procedure that was never its worker's slow frame has no  *)
(* children and no results waiting.                                        *)
LEMMA NotFresh ==
    ASSUME IInv, NEW w \in Worker, pc[w] \in WorkPC,
           NEW c \in Proc, c = Bottom(w), join[c] # 0 \/ complete[c] # <<>>
    PROVE  H[w] = 0
<1>1. H[w] \in Nat
  BY DEF IInv, Types
<1>q. QED
  BY <1>1 DEF IInv, FreshInv, Fresh

(* An inlet that aborts: the closure it belongs to is split from what its  *)
(* worker runs above it, or stays as it is.                                *)
InletSplits(w, c, k) ==
    /\ pc[w] = "handlerPoll" /\ c = Bottom(w) /\ deque[w] # <<>>
    /\ status[c] = "RUNNING" /\ cache[c] = w /\ H[w] = 0 /\ 1 < T(w)
    /\ stack[w][1] = c /\ k = stack[w][2]
    /\ k # c /\ k # Root /\ status[k] = "none" /\ parent[k] = c /\ Fresh(k)
    /\ H' = [H EXCEPT ![w] = 1]
    /\ status' = [status EXCEPT ![k] = "RUNNING", ![c] = "READY"]
    /\ cache' = [cache EXCEPT ![k] = w, ![c] = None]
    /\ deque' = [deque EXCEPT ![w] = Append(@, k)]
    /\ join' = [join EXCEPT ![c] = @ + 1]
    /\ incomplete' = [incomplete EXCEPT ![c] = @ \cup {k}]
    /\ UNCHANGED signalled

(* What an inlet that aborts does in poll_inlets: the abort signal starts  *)
(* at its closure, whose children are to be visited.                       *)
InletAbortsDoes(w, c, r) ==
    /\ c = cl[w] /\ pc[w] \in PollPC
    /\ pc[w] = "return" => status[c] # "RUNNING"
    /\ walk[w] = <<>> /\ complete[c] # <<>> /\ abort[c] = NO_ABORT
    /\ Head(complete[c]) = None \/ aborts < MaxAbort
    /\ aborts' = IF Head(complete[c]) = None THEN aborts ELSE aborts + 1
    /\ complete' = [complete EXCEPT ![c] = Tail(@)]
    /\ Outcome(Head(complete[c]), "delivered")
    /\ \/ \E k \in Proc : InletSplits(w, c, k) /\ r = incomplete[c] \cup {k}
       \/ /\ r = incomplete[c]
          /\ UNCHANGED <<H, status, cache, deque, join, incomplete>>
          /\ signalled' = IF status[c] = "RUNNING"
                            THEN [signalled EXCEPT ![cache[c]] = TRUE]
                            ELSE signalled
    /\ abort' = [abort EXCEPT ![c] = ALMOST_NO_ABORT]
    /\ walk' = [walk EXCEPT ![w] = <<[at |-> c, rest |-> r]>>]
    /\ UNCHANGED <<created, parent, done, alive, clock, dlock, stack,
                   pc, cl, child, victim>>

(* InletAborts does that. *)
LEMMA InletAbortsEffect ==
    ASSUME IInv, NEW w \in Worker, InletAborts(w)
    PROVE  \E c \in Proc, r \in SUBSET Proc : InletAbortsDoes(w, c, r)
<1> USE DEF InletAbortsDoes
<1> DEFINE c == cl[w]
<1> DEFINE k == Promoted(c)
<1> DEFINE split == status[c] = "RUNNING" /\ ~AtTopOfStack(c)
<1>1. /\ Polls(w) /\ walk[w] = <<>> /\ complete[c] # <<>> /\ abort[c] = NO_ABORT
      /\ Head(complete[c]) = None \/ aborts < MaxAbort
      /\ aborts' = IF Head(complete[c]) = None THEN aborts ELSE aborts + 1
      /\ complete' = [complete EXCEPT ![c] = Tail(@)]
      /\ Outcome(Head(complete[c]), "delivered")
      /\ UNCHANGED <<created, parent, done, alive, clock, dlock, stack,
                     pc, cl, child, victim>>
  BY DEF InletAborts, BeingAborted, locks
<1>2. /\ pc[w] \in PollPC
      /\ pc[w] = "return" => status[c] # "RUNNING"
  BY <1>1 DEF Polls, PollPC
<1>3. c \in Proc
  BY <1>2 DEF IInv, ClosureLocks, Types, PollPC, LockPC
<1>4. abort' = [abort EXCEPT ![c] = ALMOST_NO_ABORT]
  <2>1. Min2(abort[c], ALMOST_NO_ABORT) = ALMOST_NO_ABORT
    BY <1>1 DEF Min2, NO_ABORT, ALMOST_NO_ABORT
  <2>q. QED
    BY <2>1 DEF InletAborts, Visit, SignalAbort
<1>5. walk' = [walk EXCEPT ![w] = <<[at |-> c, rest |-> incomplete'[c]]>>]
  BY DEF InletAborts
<1>6. CASE split
  <2>1. pc[w] = "handlerPoll" /\ c = Bottom(w)
    <3>1. pc[w] # "setup"
      BY <1>6 DEF IInv, StackInv, AtTopOfStack
    <3>2. pc[w] \notin {"syncPoll", "abortPoll"}
      BY <1>6, InHandFacts DEF AtTopOfStack
    <3>3. pc[w] # "exitPoll"
      BY <1>6 DEF IInv, InHandInv
    <3>q. QED
      BY <1>2, <1>6, <3>1, <3>2, <3>3 DEF PollPC, IInv, InHandInv
  <2>2. pc[w] \in WorkPC
    BY <2>1 DEF WorkPC, PopPC
  <2>3. H[w] = 0
    BY <1>1, <1>3, <2>1, <2>2, NotFresh
  <2>4. T(w) \in Nat /\ T(w) >= 1 /\ deque[w] # <<>>
    BY <2>2, StackFacts DEF IInv, StackInv, CurrentInv
  <2>5. cache[c] = w
    BY <1>6, <2>1, <2>2 DEF IInv, CurrentInv
  <2>6. 1 < T(w)
    BY <1>6, <2>3, <2>4, <2>5 DEF AtTopOfStack
  <2>7. H[w] + 1 < T(w) /\ H[w] + 1 = 1 /\ H[w] + 2 = 2
    BY <2>3, <2>6
  <2>8. /\ stack[w][1] = c /\ k = stack[w][2] /\ k \in Proc
        /\ k # c /\ k # Root /\ status[k] = "none" /\ parent[k] = c /\ Fresh(k)
    BY <2>1, <2>2, <2>5, <2>7, Promotable DEF Promoted
  <2>9. /\ HeadUp(c)
        /\ status' = [status EXCEPT ![k] = "RUNNING", ![c] = "READY"]
        /\ cache' = [cache EXCEPT ![k] = cache[c], ![c] = None]
        /\ deque' = [deque EXCEPT ![w] = AddBottom(@, k)]
        /\ AddChild(c, k)
    BY <1>6 DEF InletAborts
  <2>10. H' = [H EXCEPT ![w] = 1]
    BY <2>3, <2>5, <2>7, <2>9 DEF HeadUp, IInv, Types
  <2>11. /\ cache' = [cache EXCEPT ![k] = w, ![c] = None]
         /\ deque' = [deque EXCEPT ![w] = Append(@, k)]
         /\ join' = [join EXCEPT ![c] = @ + 1]
         /\ incomplete' = [incomplete EXCEPT ![c] = @ \cup {k}]
    BY <2>5, <2>9 DEF AddBottom, AddChild
  <2>12. status'[c] = "READY"
    BY <1>3, <2>9 DEF IInv, Types
  <2>13. UNCHANGED signalled
    BY <2>12 DEF InletAborts, Visit
  <2>14. InletSplits(w, c, k)
    BY <1>6, <2>1, <2>3, <2>4, <2>5, <2>6, <2>8, <2>9, <2>10, <2>11, <2>13
       DEF InletSplits
  <2>15. incomplete'[c] = incomplete[c] \cup {k} /\ incomplete'[c] \in SUBSET Proc
    BY <1>3, <2>8, <2>11 DEF IInv, Types
  <2>q. QED
    BY <1>1, <1>2, <1>3, <1>4, <1>5, <2>8, <2>14, <2>15
<1>7. CASE ~split
  <2>1. UNCHANGED <<H, status, cache, deque, join, incomplete>>
    BY <1>7 DEF InletAborts
  <2>2. signalled' = IF status[c] = "RUNNING"
                       THEN [signalled EXCEPT ![cache[c]] = TRUE]
                       ELSE signalled
    BY <2>1 DEF InletAborts, Visit, SignalImmediate
  <2>3. incomplete'[c] = incomplete[c] /\ incomplete'[c] \in SUBSET Proc
    BY <1>3, <2>1 DEF IInv, Types
  <2>q. QED
    BY <1>1, <1>2, <1>3, <1>4, <1>5, <2>1, <2>2, <2>3
<1>q. QED
  BY <1>6, <1>7

(* A walk's elements are closures with the children still to visit. *)
LEMMA WalkFacts ==
    ASSUME Types, NEW w \in Worker
    PROVE  /\ walk[w] \in Walks /\ Size(walk[w]) \in Nat
           /\ walk[w] = <<>> <=> Size(walk[w]) = 0
           /\ \A i \in 1 .. Size(walk[w]) : /\ walk[w][i].at \in Proc
                                            /\ walk[w][i].rest \in SUBSET Proc
<1>1. walk[w] \in Seq([at : Proc, rest : SUBSET Proc])
  BY DEF Types, Walks
<1>2. /\ Size(walk[w]) \in Nat /\ (walk[w] = <<>> <=> Size(walk[w]) = 0)
      /\ \A i \in 1 .. Size(walk[w]) :
            walk[w][i] \in [at : Proc, rest : SUBSET Proc]
  BY <1>1, SeqFacts
<1>q. QED
  BY <1>1, <1>2 DEF Walks

(* The walk goes down: a child of the closure walked is locked. *)
WalkDownDoes(w, n, k) ==
    /\ n = Size(walk[w]) /\ k \in walk[w][n].rest
    /\ clock[k] = None /\ k # Root
    /\ \A i \in 1 .. n : walk[w][i].at # k
    /\ clock' = [clock EXCEPT ![k] = w]
    /\ abort' = [abort EXCEPT ![k] = ABORT_ALL]
    /\ signalled' = IF status[k] = "RUNNING"
                      THEN [signalled EXCEPT ![cache[k]] = TRUE]
                      ELSE signalled
    /\ walk' \in [Worker -> Walks]
    /\ \A u \in Worker \ {w} : walk'[u] = walk[u]
    /\ Size(walk'[w]) = n + 1
    /\ \A i \in 1 .. n : walk'[w][i].at = walk[w][i].at
    /\ \A i \in 1 .. n - 1 : walk'[w][i].rest = walk[w][i].rest
    /\ walk'[w][n].rest = walk[w][n].rest \ {k}
    /\ walk'[w][n + 1] = [at |-> k, rest |-> incomplete[k]]
    /\ UNCHANGED <<created, parent, aborts, done, alive, out, status,
                   cache, join, incomplete, complete, dlock, deque,
                   stack, H, pc, cl, child, victim>>

(* WalkDown does that, at a child that is not on the path. *)
LEMMA WalkDownEffect ==
    ASSUME IInv, NEW w \in Worker, WalkDown(w)
    PROVE  \E n \in Nat \ {0}, k \in Proc : WalkDownDoes(w, n, k)
<1> USE DEF WalkDownDoes
<1> DEFINE n == Size(walk[w])
<1>1. walk[w] # <<>> /\ Len(walk[w]) = n
  BY DEF WalkDown, Size
<1>2. PICK k \in walk[w][n].rest :
          /\ LockClosure(w, k)
          /\ Visit(k, ABORT_ALL, status[k] = "RUNNING")
          /\ walk' = [walk EXCEPT ![w] = Descend(walk[w], k)]
  BY <1>1 DEF WalkDown
<1>3. /\ UNCHANGED <<created, parent, aborts, done, alive, out, status,
                     cache, join, incomplete, complete, dlock, deque,
                     stack, H, pc, cl, child, victim>>
  BY DEF WalkDown, program, results, tree
<1>4. /\ walk[w] \in Walks /\ n \in Nat \ {0} /\ n \in 1 .. n
      /\ \A i \in 1 .. n : walk[w][i].at \in Proc /\ walk[w][i].rest \in SUBSET Proc
  BY <1>1, WalkFacts DEF IInv
<1>5. k \in Proc
  BY <1>4
<1>6. k # Root
  BY <1>4 DEF IInv, WalkInv
<1>7. clock[k] = None /\ clock' = [clock EXCEPT ![k] = w]
  BY <1>2 DEF LockClosure
<1>8. ASSUME NEW i \in 1 .. n PROVE walk[w][i].at # k
  <2>1. CASE i = 1
    <3>1. pc[w] \in PollPC /\ walk[w][1].at = cl[w]
      BY <1>1 DEF IInv, WalkInv
    <3>2. pc[w] \in LockPC
      BY <3>1 DEF PollPC, LockPC
    <3>3. cl[w] \in Proc => clock[cl[w]] = w
      BY <3>2 DEF IInv, ClosureLocks, HoldsClosure
    <3>q. QED
      BY <1>5, <1>7, <2>1, <3>1, <3>3, WorkerAssumption DEF None
  <2>2. CASE i # 1
    <3>1. i \in 2 .. n
      BY <1>4, <2>2
    <3>2. walk[w][i].at = k => clock[k] = w
      BY <1>5, <3>1 DEF IInv, ClosureLocks, HoldsClosure
    <3>q. QED
      BY <1>7, <3>2, WorkerAssumption DEF None
  <2>q. QED
    BY <2>1, <2>2
<1>9. abort' = [abort EXCEPT ![k] = ABORT_ALL]
  <2>1. abort[k] \in {ABORT_ALL, ALMOST_NO_ABORT, NO_ABORT}
    BY <1>5 DEF IInv, Types
  <2>2. \A a \in {ABORT_ALL, ALMOST_NO_ABORT, NO_ABORT} : Min2(a, ABORT_ALL) = ABORT_ALL
    BY DEF Min2, ABORT_ALL, ALMOST_NO_ABORT, NO_ABORT
  <2>3. Min2(abort[k], ABORT_ALL) = ABORT_ALL
    BY <2>1, <2>2
  <2>q. QED
    BY <1>2, <2>3 DEF Visit, SignalAbort
<1>10. signalled' = IF status[k] = "RUNNING"
                      THEN [signalled EXCEPT ![cache[k]] = TRUE]
                      ELSE signalled
  BY <1>2 DEF Visit, SignalImmediate
<1> DEFINE e == [at |-> k, rest |-> incomplete[k]]
<1> DEFINE m == [at |-> walk[w][n].at, rest |-> walk[w][n].rest \ {k}]
<1> DEFINE q == [walk[w] EXCEPT ![n] = m]
<1> DEFINE R == [at : Proc, rest : SUBSET Proc]
<1>11. walk' = [walk EXCEPT ![w] = Append(q, e)]
  <2>1. Descend(walk[w], k) = Append(q, e)
    BY DEF Descend, Size
  <2>q. QED
    BY <1>2, <2>1
<1>12. /\ q \in Seq(R) /\ Size(q) = n
       /\ \A i \in 1 .. n : q[i].at = walk[w][i].at
       /\ \A i \in 1 .. n - 1 : q[i].rest = walk[w][i].rest
       /\ q[n].rest = walk[w][n].rest \ {k}
  <2>1. walk[w] \in Seq(R) /\ walk[w][n] \in R
    BY <1>4, SeqFacts DEF Walks
  <2>2. m \in R /\ m.at = walk[w][n].at /\ m.rest = walk[w][n].rest \ {k}
    BY <2>1
  <2>3. q = [walk[w] EXCEPT ![n] = m]
    OBVIOUS
  <2> HIDE DEF m
  <2>4. n \in 1 .. Len(walk[w])
    BY <1>1, <1>4
  <2> DEFINE s == walk[w]
  <2> HIDE DEF R, s
  <2>s. s \in Seq(R) /\ m \in R /\ n \in 1 .. Len(s)
    BY <2>1, <2>2, <2>4 DEF s
  <2>t. LET t == [s EXCEPT ![n] = m] IN
        /\ t \in Seq(R) /\ Len(t) = Len(s)
        /\ \A j \in 1 .. Len(s) : t[j] = IF j = n THEN m ELSE s[j]
    BY <2>s, ExceptSeq
  <2>5. /\ q \in Seq(R) /\ Len(q) = Len(walk[w])
        /\ \A j \in 1 .. Len(walk[w]) :
             q[j] = IF j = n THEN m ELSE walk[w][j]
    BY <2>3, <2>t DEF s
  <2>6. Size(q) = n
    BY <2>5 DEF Size
  <2>7. \A j \in 1 .. n : q[j] = IF j = n THEN m ELSE walk[w][j]
    BY <1>1, <2>5
  <2> HIDE DEF q
  <2>q. QED
    BY <1>4, <2>2, <2>5, <2>6, <2>7
<1>13. e \in R /\ e.at = k /\ e.rest = incomplete[k]
  BY <1>5 DEF IInv, Types
<1> HIDE DEF q, e, R, n
<1>14. /\ Append(q, e) \in Seq(R) /\ Size(Append(q, e)) = n + 1
       /\ \A i \in 1 .. n : Append(q, e)[i] = q[i]
       /\ Append(q, e)[n + 1] = e
  <2>1. q \in Seq(R) /\ e \in R
    BY <1>12, <1>13
  <2>2. /\ Append(q, e) \in Seq(R) /\ Size(Append(q, e)) = Size(q) + 1
        /\ \A i \in 1 .. Size(q) : Append(q, e)[i] = q[i]
        /\ Append(q, e)[Size(q) + 1] = e
    BY <2>1, AppendFacts
  <2>3. Size(q) = n
    BY <1>12
  <2>q. QED
    BY <2>2, <2>3
<1>15. walk'[w] = Append(q, e) /\ \A u \in Worker \ {w} : walk'[u] = walk[u]
  BY <1>11 DEF IInv, Types
<1>16. walk' \in [Worker -> Walks]
  BY <1>11, <1>14 DEF IInv, Types, Walks, R
<1>17. /\ Size(walk'[w]) = n + 1
       /\ \A i \in 1 .. n : walk'[w][i].at = walk[w][i].at
       /\ \A i \in 1 .. n - 1 : walk'[w][i].rest = walk[w][i].rest
       /\ walk'[w][n].rest = walk[w][n].rest \ {k}
       /\ walk'[w][n + 1] = e
  <2> DEFINE r == Append(q, e)
  <2>1. /\ walk'[w] = r /\ Size(r) = n + 1 /\ r[n + 1] = e
        /\ \A i \in 1 .. n : r[i] = q[i]
    BY <1>14, <1>15
  <2> HIDE DEF r
  <2>2. \A i \in 1 .. n : r[i].at = walk[w][i].at
    BY <1>12, <2>1
  <2>3. \A i \in 1 .. n - 1 : i \in 1 .. n
    BY <1>4
  <2>4. \A i \in 1 .. n - 1 : r[i].rest = walk[w][i].rest
    BY <1>12, <2>1, <2>3
  <2>5. r[n].rest = walk[w][n].rest \ {k}
    BY <1>4, <1>12, <2>1
  <2>q. QED
    BY <2>1, <2>2, <2>4, <2>5
<1>18. e = [at |-> k, rest |-> incomplete[k]]
  BY DEF e
<1>q. QED
  BY <1>3, <1>4, <1>5, <1>6, <1>7, <1>8, <1>9, <1>10, <1>15, <1>16, <1>17, <1>18 DEF n

(* The walk goes up again. *)
WalkUpDoes(w, n) ==
    /\ n = Size(walk[w]) /\ walk[w][n].rest = {}
    /\ walk[w][n].at \in Proc
    /\ clock' = IF n > 1 THEN [clock EXCEPT ![walk[w][n].at] = None]
                         ELSE clock
    /\ walk' \in [Worker -> Walks]
    /\ \A u \in Worker \ {w} : walk'[u] = walk[u]
    /\ Size(walk'[w]) = n - 1
    /\ \A i \in 1 .. n - 1 : walk'[w][i] = walk[w][i]
    /\ UNCHANGED <<created, parent, aborts, done, alive, out, status,
                   abort, cache, join, incomplete, complete, dlock,
                   deque, stack, H, signalled, pc, cl, child, victim>>

(* WalkUp does that. *)
LEMMA WalkUpEffect ==
    ASSUME IInv, NEW w \in Worker, WalkUp(w)
    PROVE  \E n \in Nat \ {0} : WalkUpDoes(w, n)
<1> USE DEF WalkUpDoes
<1> DEFINE n == Size(walk[w])
<1>1. /\ walk[w] # <<>> /\ Len(walk[w]) = n /\ walk[w][n].rest = {}
      /\ clock' = IF n > 1 THEN [clock EXCEPT ![walk[w][n].at] = None]
                           ELSE clock
      /\ walk' = [walk EXCEPT ![w] = Front(walk[w])]
      /\ UNCHANGED <<created, parent, aborts, done, alive, out, status,
                     abort, cache, join, incomplete, complete, dlock,
                     deque, stack, H, signalled, pc, cl, child, victim>>
  BY DEF WalkUp, Size, UnlockClosure, program, results, state, tree, caches
<1>2. walk[w] \in Walks /\ n \in Nat \ {0} /\ walk[w][n].at \in Proc
  BY <1>1, WalkFacts DEF IInv
<1>3. /\ Front(walk[w]) \in Walks /\ Size(Front(walk[w])) = n - 1
      /\ \A i \in 1 .. n - 1 : Front(walk[w])[i] = walk[w][i]
  BY <1>1, <1>2, FrontFacts DEF Walks
<1>4. walk'[w] = Front(walk[w]) /\ \A u \in Worker \ {w} : walk'[u] = walk[u]
  BY <1>1 DEF IInv, Types
<1>5. walk' \in [Worker -> Walks]
  BY <1>1, <1>3 DEF IInv, Types
<1>q. QED
  BY <1>1, <1>2, <1>3, <1>4, <1>5

(* A deque or a stack loses its last element, or its first, or gains one. *)
Shortened(f, g, w) ==
    /\ f[w] # <<>> /\ g \in [Worker -> Seq(Proc)]
    /\ \A u \in Worker \ {w} : g[u] = f[u]
    /\ Size(f[w]) \in Nat \ {0} /\ Size(g[w]) = Size(f[w]) - 1
    /\ \A i \in 1 .. Size(f[w]) - 1 : g[w][i] = f[w][i]

(* The same for the first element, and for a new last one. *)
Topped(f, g, w) ==
    /\ f[w] # <<>> /\ g \in [Worker -> Seq(Proc)]
    /\ \A u \in Worker \ {w} : g[u] = f[u]
    /\ Size(f[w]) \in Nat \ {0} /\ Size(g[w]) = Size(f[w]) - 1
    /\ \A i \in 1 .. Size(f[w]) - 1 : g[w][i] = f[w][i + 1]
Extended(f, g, w, e) ==
    /\ g \in [Worker -> Seq(Proc)]
    /\ \A u \in Worker \ {w} : g[u] = f[u]
    /\ Size(f[w]) \in Nat /\ Size(g[w]) = Size(f[w]) + 1 /\ g[w] # <<>>
    /\ \A i \in 1 .. Size(f[w]) : g[w][i] = f[w][i]
    /\ g[w][Size(f[w]) + 1] = e

(* EXCEPT with Front takes the bottom. *)
LEMMA ShortenedFacts ==
    ASSUME NEW f \in [Worker -> Seq(Proc)], NEW w \in Worker, f[w] # <<>>,
           NEW g, g = [f EXCEPT ![w] = Front(@)]
    PROVE  Shortened(f, g, w)
<1>1. f[w] \in Seq(Proc) /\ f[w][Size(f[w])] \in Proc /\ Size(f[w]) \in Nat \ {0}
  BY HeadFacts
<1>2. /\ Front(f[w]) \in Seq(Proc) /\ Size(Front(f[w])) = Size(f[w]) - 1
      /\ \A i \in 1 .. Size(f[w]) - 1 : Front(f[w])[i] = f[w][i]
  BY <1>1, FrontFacts
<1>3. /\ g \in [Worker -> Seq(Proc)] /\ g[w] = Front(f[w])
      /\ \A u \in Worker \ {w} : g[u] = f[u]
  BY <1>2
<1>q. QED
  BY <1>1, <1>2, <1>3 DEF Shortened

(* EXCEPT with Tail takes the top. *)
LEMMA ToppedFacts ==
    ASSUME NEW f \in [Worker -> Seq(Proc)], NEW w \in Worker, f[w] # <<>>,
           NEW g, g = [f EXCEPT ![w] = Tail(@)]
    PROVE  Topped(f, g, w)
<1>1. /\ f[w] \in Seq(Proc) /\ Size(f[w]) \in Nat \ {0}
      /\ Tail(f[w]) \in Seq(Proc) /\ Size(Tail(f[w])) = Size(f[w]) - 1
      /\ \A i \in 1 .. Size(f[w]) - 1 : Tail(f[w])[i] = f[w][i + 1]
  BY HeadFacts
<1>2. /\ g \in [Worker -> Seq(Proc)] /\ g[w] = Tail(f[w])
      /\ \A u \in Worker \ {w} : g[u] = f[u]
  BY <1>1
<1>q. QED
  BY <1>1, <1>2 DEF Topped

(* EXCEPT with Append adds a new bottom. *)
LEMMA ExtendedFacts ==
    ASSUME NEW f \in [Worker -> Seq(Proc)], NEW w \in Worker, NEW e \in Proc,
           NEW g, g = [f EXCEPT ![w] = Append(@, e)]
    PROVE  Extended(f, g, w, e)
<1>1. /\ f[w] \in Seq(Proc) /\ Size(f[w]) \in Nat
      /\ Append(f[w], e) \in Seq(Proc) /\ Size(Append(f[w], e)) = Size(f[w]) + 1
      /\ \A i \in 1 .. Size(f[w]) : Append(f[w], e)[i] = f[w][i]
      /\ Append(f[w], e)[Size(f[w]) + 1] = e
  <2>1. f[w] \in Seq(Proc)
    OBVIOUS
  <2>2. Size(f[w]) \in Nat
    BY <2>1, SeqFacts
  <2>3. ASSUME NEW q \in Seq(Proc)
        PROVE  /\ Append(q, e) \in Seq(Proc) /\ Size(Append(q, e)) = Size(q) + 1
               /\ \A i \in 1 .. Size(q) : Append(q, e)[i] = q[i]
               /\ Append(q, e)[Size(q) + 1] = e
    BY AppendFacts
  <2>q. QED
    BY <2>1, <2>2, <2>3
<1>2. Append(f[w], e) # <<>>
  <2>1. Size(Append(f[w], e)) # 0
    BY <1>1
  <2>q. QED
    BY <1>1, <2>1, SeqFacts
<1>3. /\ g \in [Worker -> Seq(Proc)] /\ g[w] = Append(f[w], e)
      /\ \A u \in Worker \ {w} : g[u] = f[u]
  BY <1>1
<1>q. QED
  BY <1>1, <1>2, <1>3 DEF Extended

(* The worker's own closure, from the bottom of its deque. *)
TakeOwnDoes(w) ==
    /\ pc[w] = "loop" /\ ~done /\ cl[w] = None /\ dlock[w] = None
    /\ \/ /\ deque[w] = <<>> /\ pc' = [pc EXCEPT ![w] = "steal"]
          /\ UNCHANGED <<deque, cl>>
       \/ \E c \in Proc : /\ deque[w] # <<>> /\ c = Bottom(w)
                          /\ c = deque[w][Size(deque[w])]
                          /\ cl' = [cl EXCEPT ![w] = c]
                          /\ Shortened(deque, deque', w)
                          /\ UNCHANGED pc
    /\ UNCHANGED <<created, parent, alive, out, aborts, done, status,
                   join, incomplete, complete, abort, cache, clock,
                   dlock, stack, H, signalled, child, victim, walk>>

(* TakeOwn does that: Cilk_scheduler, before it steals. *)
LEMMA TakeOwnEffect ==
    ASSUME IInv, NEW w \in Worker, TakeOwn(w)
    PROVE  TakeOwnDoes(w)
<1> USE DEF TakeOwnDoes
<1>1. /\ pc[w] = "loop" /\ ~done /\ cl[w] = None /\ dlock[w] = None
      /\ UNCHANGED <<created, parent, alive, out, aborts, done, status,
                     join, incomplete, complete, abort, cache, clock,
                     dlock, stack, H, signalled, child, victim, walk>>
  BY DEF TakeOwn, program, results, state, tree, locks, caches
<1>2. CASE deque[w] = <<>>
  <2>1. pc' = [pc EXCEPT ![w] = "steal"] /\ UNCHANGED <<deque, cl>>
    BY <1>2 DEF TakeOwn, Goto
  <2>q. QED
    BY <1>1, <1>2, <2>1
<1>3. CASE deque[w] # <<>>
  <2>1. /\ cl' = [cl EXCEPT ![w] = Bottom(w)] /\ UNCHANGED pc
        /\ deque' = [deque EXCEPT ![w] = Front(@)]
    BY <1>3 DEF TakeOwn, Hand, XtractBottom
  <2>2. Bottom(w) \in Proc /\ Bottom(w) = deque[w][Size(deque[w])]
    BY <1>3, DequeFacts DEF IInv
  <2>3. Shortened(deque, deque', w)
    BY <1>3, <2>1, ShortenedFacts DEF IInv, Types
  <2>q. QED
    BY <1>1, <1>3, <2>1, <2>2, <2>3
<1>q. QED
  BY <1>2, <1>3

(* A thief holds the deque of its victim and looks at its top closure. *)
LEMMA VictimFacts ==
    ASSUME IInv, NEW w \in Worker, pc[w] \in VictimPC
    PROVE  /\ victim[w] \in Worker /\ victim[w] # w /\ dlock[victim[w]] = w
           /\ pc[victim[w]] \notin OwnDequePC
           /\ cl[w] # None =>
                 /\ deque[victim[w]] # <<>> /\ cl[w] = deque[victim[w]][1]
                 /\ cl[w] \in Proc
           /\ pc[w] = "stealClosure" => cl[w] # None
<1>1. victim[w] \in Worker /\ victim[w] # w
  BY DEF IInv, DequeLocks, Types
<1>2. dlock[victim[w]] = w
  BY <1>1 DEF IInv, DequeLocks, HoldsDeque
<1>3. pc[victim[w]] \notin OwnDequePC
  BY <1>1, <1>2 DEF IInv, DequeLocks, HoldsDeque
<1>4. ASSUME cl[w] # None
      PROVE  /\ deque[victim[w]] # <<>> /\ cl[w] = deque[victim[w]][1]
             /\ cl[w] \in Proc
  <2>1. deque[victim[w]] # <<>> /\ cl[w] = Head(deque[victim[w]])
    BY <1>4 DEF IInv, DequeInv
  <2>2. deque[victim[w]] \in Seq(Proc)
    BY <1>1, DequeFacts DEF IInv
  <2>q. QED
    BY <2>1, <2>2, HeadFacts
<1>5. pc[w] = "stealClosure" => cl[w] # None
  BY DEF IInv, ClosureLocks, LockPC
<1>q. QED
  BY <1>1, <1>2, <1>3, <1>4, <1>5

(* A thief takes a ready closure off the top of its victim's deque         *)
(* (Closure_steal).                                                        *)
StealReadyDoes(w, v, c) ==
    /\ v = victim[w] /\ c = cl[w] /\ c = deque[v][1]
    /\ pc[w] = "stealClosure" /\ pc[v] \notin OwnDequePC
    /\ status[c] = "READY" /\ abort[c] = NO_ABORT
    /\ Topped(deque, deque', v)
    /\ clock' = [clock EXCEPT ![c] = None]
    /\ dlock' = [dlock EXCEPT ![v] = None]
    /\ victim' = [victim EXCEPT ![w] = None]
    /\ pc' = [pc EXCEPT ![w] = "loop"]
    /\ UNCHANGED <<created, parent, alive, out, aborts, done, status,
                   join, incomplete, complete, abort, cache, stack, H,
                   signalled, cl, child, walk>>

(* StealReady does that. *)
LEMMA StealReadyEffect ==
    ASSUME IInv, NEW w \in Worker, StealReady(w)
    PROVE  \E v \in Worker \ {w}, c \in Proc : StealReadyDoes(w, v, c)
<1> USE DEF StealReadyDoes
<1> DEFINE v == victim[w]
<1> DEFINE c == cl[w]
<1>1. /\ pc[w] = "stealClosure" /\ status[c] = "READY" /\ abort[c] = NO_ABORT
      /\ clock' = [clock EXCEPT ![c] = None]
      /\ dlock' = [dlock EXCEPT ![v] = None]
      /\ victim' = [victim EXCEPT ![w] = None]
      /\ pc' = [pc EXCEPT ![w] = "loop"]
      /\ deque' = [deque EXCEPT ![v] = Tail(@)]
      /\ UNCHANGED <<created, parent, alive, out, aborts, done, status,
                     join, incomplete, complete, abort, cache, stack, H,
                     signalled, cl, child, walk>>
  BY DEF StealReady, BeingAborted, UnlockClosure, UnlockDeque, Goto, program,
     results, state, tree, caches
<1>2. /\ v \in Worker \ {w} /\ pc[v] \notin OwnDequePC /\ deque[v] # <<>>
      /\ c = deque[v][1] /\ c \in Proc
  BY <1>1, VictimFacts DEF VictimPC
<1>3. Topped(deque, deque', v)
  BY <1>1, <1>2, ToppedFacts DEF IInv, Types
<1>q. QED
  BY <1>1, <1>2, <1>3

(* The closure set up goes to the bottom of its worker's deque             *)
(* (do_what_it_says).                                                      *)
ExecuteDoes(w, c) ==
    /\ c = cl[w] /\ pc[w] = "add" /\ dlock[w] = None
    /\ status[c] = "RUNNING" /\ cache[c] = w
    /\ T(w) = 1 /\ H[w] = 0 /\ stack[w][1] = c
    /\ Extended(deque, deque', w, c)
    /\ cl' = [cl EXCEPT ![w] = None]
    /\ pc' = [pc EXCEPT ![w] = "run"]
    /\ UNCHANGED <<created, parent, alive, out, aborts, done, status,
                   join, incomplete, complete, abort, cache, clock,
                   dlock, stack, H, signalled, child, victim, walk>>

(* Execute does that. *)
LEMMA ExecuteEffect ==
    ASSUME IInv, NEW w \in Worker, Execute(w)
    PROVE  \E c \in Proc : ExecuteDoes(w, c)
<1> USE DEF ExecuteDoes
<1> DEFINE c == cl[w]
<1>1. /\ pc[w] = "add" /\ dlock[w] = None
      /\ deque' = [deque EXCEPT ![w] = Append(@, c)]
      /\ cl' = [cl EXCEPT ![w] = None]
      /\ pc' = [pc EXCEPT ![w] = "run"]
      /\ UNCHANGED <<created, parent, alive, out, aborts, done, status,
                     join, incomplete, complete, abort, cache, clock,
                     dlock, stack, H, signalled, child, victim, walk>>
  BY DEF Execute, AddBottom, Hand, Goto, program, results, state, tree,
     locks, caches
<1>2. /\ c # None /\ status[c] = "RUNNING" /\ cache[c] = w
      /\ T(w) = 1 /\ H[w] = 0 /\ stack[w][1] = c
  BY <1>1 DEF IInv, StackInv
<1>3. c \in Proc
  BY <1>2 DEF IInv, Types
<1>4. Extended(deque, deque', w, c)
  BY <1>1, <1>3, ExtendedFacts DEF IInv, Types
<1>q. QED
  BY <1>1, <1>2, <1>3, <1>4

(* The closure in hand is to be returned: its parent is another closure. *)
ReturnLockParentDoes(w, k, p) ==
    /\ k = cl[w] /\ p = parent[k] /\ p # k /\ k # Root
    /\ pc[w] = "loop" /\ ~done
    /\ clock[k] = None /\ status[k] = "RETURNING"
    /\ clock[p] = None /\ status[p] # "none"
    /\ clock' = [clock EXCEPT ![p] = w]
    /\ incomplete' = [incomplete EXCEPT ![p] = @ \ {k}]
    /\ cl' = [cl EXCEPT ![w] = p]
    /\ child' = [child EXCEPT ![w] = k]
    /\ pc' = [pc EXCEPT ![w] = "returnChild"]
    /\ UNCHANGED <<created, parent, alive, out, aborts, done, status,
                   join, complete, abort, cache, dlock, deque, stack,
                   H, signalled, victim, walk>>

(* ReturnLockParent does that: Closure_return, whose closure always has a  *)
(* parent because Root never returns.                                      *)
LEMMA ReturnLockParentEffect ==
    ASSUME IInv, NEW w \in Worker, ReturnLockParent(w)
    PROVE  \E k \in Proc, p \in Proc : ReturnLockParentDoes(w, k, p)
<1> USE DEF ReturnLockParentDoes
<1> DEFINE k == cl[w]
<1> DEFINE p == parent[k]
<1>1. /\ pc[w] = "loop" /\ ~done /\ k # None
      /\ clock[k] = None /\ status[k] = "RETURNING"
      /\ clock[p] = None
      /\ clock' = [clock EXCEPT ![p] = w]
      /\ incomplete' = [incomplete EXCEPT ![p] = @ \ {k}]
      /\ cl' = [cl EXCEPT ![w] = p]
      /\ child' = [child EXCEPT ![w] = k]
      /\ pc' = [pc EXCEPT ![w] = "returnChild"]
      /\ UNCHANGED <<created, parent, alive, out, aborts, done, status,
                     join, complete, abort, cache, dlock, deque, stack,
                     H, signalled, victim, walk>>
  BY DEF ReturnLockParent, LockClosure, RemoveChild, Hand, Goto, program,
     results, state, caches
<1>2. k \in Proc /\ k # Root
  BY <1>1 DEF IInv, Types, RootInv
<1>3. k \in 2 .. created
  <2>1. created \in Proc /\ k \notin created + 1 .. MaxProc
    BY <1>1, <1>2 DEF IInv, Types, ParentInv
  <2>q. QED
    BY <1>2, <2>1, BoundAssumption DEF Proc, Root
<1>4. p \in 1 .. k - 1
  BY <1>3 DEF IInv, ParentInv
<1>5. p \in Proc /\ p # k
  BY <1>2, <1>4, BoundAssumption DEF Proc
<1>6. status[p] # "none"
  <2>1. status[p] = "none" => status[k] = "none"
    BY <1>2, <1>5 DEF IInv, FreshInv, Fresh
  <2>q. QED
    BY <1>1, <2>1
<1>q. QED
  BY <1>1, <1>2, <1>5, <1>6

(* Closure_return locks the child again below its parent, and puts its     *)
(* result among the parent's.                                              *)
ReturnEnqueueDoes(w, k, p) ==
    /\ k = child[w] /\ p = cl[w] /\ p # k /\ p = parent[k]
    /\ pc[w] = "returnChild" /\ status[k] = "RETURNING"
    /\ status[p] # "none"
    /\ clock[k] = None /\ clock' = [clock EXCEPT ![k] = w]
    /\ \/ /\ abort[k] # NO_ABORT /\ Outcome(k, "discarded")
          /\ UNCHANGED complete
       \/ /\ abort[k] = NO_ABORT /\ UNCHANGED out
          /\ complete' = [complete EXCEPT ![p] = <<k>> \o @]
    /\ signalled' = IF status[p] = "RUNNING"
                      THEN [signalled EXCEPT ![cache[p]] = TRUE]
                      ELSE signalled
    /\ pc' = [pc EXCEPT ![w] = "return"]
    /\ UNCHANGED <<created, parent, alive, aborts, done, status,
                   join, incomplete, abort, cache, dlock, deque,
                   stack, H, cl, child, victim, walk>>

(* ReturnEnqueue does that. *)
LEMMA ReturnEnqueueEffect ==
    ASSUME IInv, NEW w \in Worker, ReturnEnqueue(w)
    PROVE  \E k \in Proc, p \in Proc : ReturnEnqueueDoes(w, k, p)
<1> USE DEF ReturnEnqueueDoes
<1> DEFINE k == child[w]
<1> DEFINE p == cl[w]
<1>1. /\ pc[w] = "returnChild" /\ clock[k] = None
      /\ clock' = [clock EXCEPT ![k] = w]
      /\ \/ /\ abort[k] # NO_ABORT /\ Outcome(k, "discarded")
            /\ UNCHANGED complete
         \/ /\ abort[k] = NO_ABORT /\ UNCHANGED out
            /\ complete' = [complete EXCEPT ![p] = <<k>> \o @]
      /\ signalled' = IF status[p] = "RUNNING"
                        THEN [signalled EXCEPT ![cache[p]] = TRUE]
                        ELSE signalled
      /\ pc' = [pc EXCEPT ![w] = "return"]
      /\ UNCHANGED <<created, parent, alive, aborts, done, status,
                     join, incomplete, abort, cache, dlock, deque,
                     stack, H, cl, child, victim, walk>>
  BY DEF ReturnEnqueue, LockClosure, EnqueueInlet, BeingAborted,
     SignalImmediate, Goto, program, state
<1>2. /\ k # None /\ k # p /\ p # None
      /\ status[k] = "RETURNING" /\ parent[k] = p
  BY <1>1 DEF IInv, ClosureLocks, ChildInv, ReturnPC, LockPC
<1>3. k \in Proc /\ p \in Proc
  BY <1>2 DEF IInv, Types
<1>4. status[p] # "none"
  <2>1. status[p] = "none" => status[k] = "none"
    BY <1>2, <1>3 DEF IInv, FreshInv, Fresh
  <2>q. QED
    BY <1>2, <2>1
<1>q. QED
  BY <1>1, <1>2, <1>3, <1>4

(* The end of Closure_return: the parent is counted down, and provably     *)
(* good if it waits for nobody else; the child's closure is freed.         *)
ReturnDoneDoes(w, k, p) ==
    /\ k = child[w] /\ p = cl[w] /\ p # k /\ p = parent[k] /\ k # Root
    /\ pc[w] = "return" /\ status[k] = "RETURNING"
    /\ status[p] # "none"
    /\ walk[w] = <<>>
    /\ status[p] = "RUNNING" \/ complete[p] = <<>>
    /\ abort' \in {abort, [abort EXCEPT ![p] = NO_ABORT]}
    /\ status[p] # "RUNNING" => abort'[p] # ALMOST_NO_ABORT
    /\ join' = [join EXCEPT ![p] = @ - 1]
    /\ \/ /\ join[p] = 1 /\ status[p] = "SUSPENDED"
          /\ status' = [status EXCEPT ![k] = "freed", ![p] = "READY"]
          /\ cache' = [cache EXCEPT ![p] = None]
          /\ UNCHANGED cl
       \/ /\ join[p] # 1 \/ status[p] # "SUSPENDED"
          /\ status' = [status EXCEPT ![k] = "freed"]
          /\ cl' = [cl EXCEPT ![w] = None]
          /\ UNCHANGED cache
    /\ clock' = [clock EXCEPT ![p] = None, ![k] = None]
    /\ child' = [child EXCEPT ![w] = None]
    /\ pc' = [pc EXCEPT ![w] = "loop"]
    /\ UNCHANGED <<created, parent, alive, out, aborts, done,
                   incomplete, complete, dlock, deque, stack, H,
                   signalled, victim, walk>>

(* ReturnDone does that. *)
LEMMA ReturnDoneEffect ==
    ASSUME IInv, NEW w \in Worker, ReturnDone(w)
    PROVE  \E k \in Proc, p \in Proc : ReturnDoneDoes(w, k, p)
<1> USE DEF ReturnDoneDoes
<1> DEFINE k == child[w]
<1> DEFINE p == cl[w]
<1>1. /\ pc[w] = "return" /\ walk[w] = <<>>
      /\ join' = [join EXCEPT ![p] = @ - 1]
      /\ \/ /\ join[p] = 1 /\ status[p] = "SUSPENDED"
            /\ status' = [status EXCEPT ![k] = "freed", ![p] = "READY"]
            /\ cache' = [cache EXCEPT ![p] = None]
            /\ UNCHANGED cl
         \/ /\ join[p] # 1 \/ status[p] # "SUSPENDED"
            /\ status' = [status EXCEPT ![k] = "freed"]
            /\ cl' = [cl EXCEPT ![w] = None]
            /\ UNCHANGED cache
      /\ clock' = [clock EXCEPT ![p] = None, ![k] = None]
      /\ child' = [child EXCEPT ![w] = None]
      /\ pc' = [pc EXCEPT ![w] = "loop"]
      /\ UNCHANGED <<created, parent, alive, out, aborts, done,
                     incomplete, complete, dlock, deque, stack, H,
                     signalled, victim, walk>>
  BY DEF ReturnDone, Polled, ProvablyGood, SetStatus, Hand, Goto, program,
     results, caches
<1>2. /\ k # None /\ k # p /\ p # None
      /\ status[k] = "RETURNING" /\ parent[k] = p
  BY <1>1 DEF IInv, ClosureLocks, ChildInv, ReturnPC, LockPC
<1>3. k \in Proc /\ p \in Proc /\ k # Root
  BY <1>2 DEF IInv, Types, RootInv
<1>4. status[p] # "none"
  <2>1. status[p] = "none" => status[k] = "none"
    BY <1>2, <1>3 DEF IInv, FreshInv, Fresh
  <2>q. QED
    BY <1>2, <2>1
<1>5. status[p] = "RUNNING" \/ complete[p] = <<>>
  BY <1>1 DEF ReturnDone, Polled, Polls
<1>6. CASE status[p] = "RUNNING" \/ abort[p] = ABORT_ALL
  <2>1. abort' = abort
    BY <1>3, <1>6 DEF ReturnDone, MaybeResetAbort, IInv, Types
  <2>2. status[p] # "RUNNING" => abort'[p] # ALMOST_NO_ABORT
    BY <1>6, <2>1 DEF ABORT_ALL, ALMOST_NO_ABORT
  <2>q. QED
    BY <1>1, <1>2, <1>3, <1>4, <1>5, <2>1, <2>2
<1>7. CASE ~(status[p] = "RUNNING" \/ abort[p] = ABORT_ALL)
  <2>1. abort' = [abort EXCEPT ![p] = NO_ABORT]
    BY <1>3, <1>7 DEF ReturnDone, MaybeResetAbort, IInv, Types
  <2>2. status[p] # "RUNNING" => abort'[p] # ALMOST_NO_ABORT
    BY <1>3, <2>1 DEF NO_ABORT, ALMOST_NO_ABORT, IInv, Types
  <2>q. QED
    BY <1>1, <1>2, <1>3, <1>4, <1>5, <2>1, <2>2
<1>q. QED
  BY <1>6, <1>7

(* A spawn pushes a frame, of a procedure that has no closure. *)
SpawnDoes(w, c, f) ==
    /\ c = created + 1 /\ created \in Nat /\ f \in 1 .. created
    /\ T(w) >= 1 /\ f = stack[w][T(w)]
    /\ pc[w] \in {"run", "synced"}
    /\ status[c] = "none"
    /\ created' = c
    /\ parent' = [parent EXCEPT ![c] = f]
    /\ alive' = alive \cup {c}
    /\ Extended(stack, stack', w, c)
    /\ pc' = [pc EXCEPT ![w] = "run"]
    /\ UNCHANGED <<aborts, done, out, status, join, incomplete,
                   complete, abort, cache, clock, dlock, deque, H,
                   signalled, cl, child, victim, walk>>

(* Spawn does that. *)
LEMMA SpawnEffect ==
    ASSUME IInv, NEW w \in Worker, Spawn(w)
    PROVE  \E c \in Proc, f \in Proc : SpawnDoes(w, c, f)
<1> USE DEF SpawnDoes
<1> DEFINE c == created + 1
<1> DEFINE f == Running(w)
<1>1. created \in Nat /\ created + 1 <= MaxProc /\ created >= 1 /\ created < MaxProc
  BY BoundAssumption DEF Spawn, IInv, Types, Proc
<1>2. /\ pc[w] \in {"run", "synced"} /\ created' = c
      /\ parent' = [parent EXCEPT ![c] = f] /\ alive' = alive \cup {c}
      /\ stack' = [stack EXCEPT ![w] = Append(@, c)]
      /\ pc' = [pc EXCEPT ![w] = "run"]
      /\ UNCHANGED <<aborts, done, out, status, join, incomplete,
                     complete, abort, cache, clock, dlock, deque, H,
                     signalled, cl, child, victim, walk>>
  BY DEF Spawn, Goto, state, tree, locks
<1>3. c \in Proc /\ c \in created + 1 .. MaxProc
  BY <1>1, BoundAssumption DEF Proc
<1>4. status[c] = "none"
  BY <1>3 DEF IInv, ParentInv
<1>5. T(w) \in Nat /\ T(w) >= 1
  BY <1>2, StackFacts DEF IInv, StackInv, WorkPC, SlowPC
<1>6. f \in 1 .. created /\ f \in Proc /\ f = stack[w][T(w)]
  <2>1. T(w) \in 1 .. T(w)
    BY <1>5
  <2>q. QED
    BY <2>1, StackFacts DEF IInv, StackInv, Running
<1>7. Extended(stack, stack', w, c)
  BY <1>2, <1>3, ExtendedFacts DEF IInv, Types
<1>q. QED
  BY <1>1, <1>2, <1>3, <1>4, <1>5, <1>6, <1>7

(* A spawned procedure returns in the fast clone; Cilk_cilk2c_pop looks at *)
(* H and T next.                                                           *)
ReturnFastDoes(w, f) ==
    /\ f = stack[w][T(w)] /\ T(w) > 1 /\ T(w) \in Nat
    /\ status[f] = "none" \/ H[w] + 1 = T(w)
    /\ pc[w] = "run" /\ f # Root
    /\ alive' = alive \ {f}
    /\ child' = [child EXCEPT ![w] = f]
    /\ Shortened(stack, stack', w)
    /\ pc' = [pc EXCEPT ![w] = "pop"]
    /\ UNCHANGED <<created, parent, aborts, done, out, status, join,
                   incomplete, complete, abort, cache, clock, dlock,
                   deque, H, signalled, cl, victim, walk>>

(* ReturnFast does that. *)
LEMMA ReturnFastEffect ==
    ASSUME IInv, NEW w \in Worker, ReturnFast(w)
    PROVE  \E f \in Proc : ReturnFastDoes(w, f)
<1> USE DEF ReturnFastDoes
<1> DEFINE f == Running(w)
<1>1. /\ pc[w] = "run" /\ T(w) > 1 /\ alive' = alive \ {f}
      /\ child' = [child EXCEPT ![w] = f]
      /\ stack' = [stack EXCEPT ![w] = Front(@)]
      /\ pc' = [pc EXCEPT ![w] = "pop"]
      /\ UNCHANGED <<created, parent, aborts, done, out, status, join,
                     incomplete, complete, abort, cache, clock, dlock,
                     deque, H, signalled, cl, victim, walk>>
  BY DEF ReturnFast, Goto, state, tree, locks, program
<1>2. T(w) \in Nat /\ stack[w] # <<>> /\ H[w] \in Nat /\ H[w] < T(w)
  BY <1>1, StackFacts DEF IInv, StackInv
<1>3. f \in Proc /\ f = stack[w][T(w)]
  <2>1. T(w) \in 1 .. T(w)
    BY <1>1, <1>2
  <2>q. QED
    BY <2>1, StackFacts DEF IInv, Running
<1>4. f # Root
  <2>1. T(w) \in 2 .. T(w) /\ T(w) - 1 \in 1 .. T(w)
    BY <1>1, <1>2
  <2>2. parent[f] = stack[w][T(w) - 1]
    BY <1>3, <2>1 DEF IInv, StackInv
  <2>3. stack[w][T(w) - 1] \in Proc
    BY <2>1, StackFacts DEF IInv
  <2>q. QED
    BY <2>2, <2>3 DEF IInv, ParentInv, Proc, None
<1>5. status[f] = "none" \/ H[w] + 1 = T(w)
  <2>1. ASSUME H[w] + 1 # T(w) PROVE T(w) \in H[w] + 2 .. T(w)
    BY <1>1, <1>2, <2>1
  <2>q. QED
    BY <1>3, <2>1 DEF IInv, StackInv
<1>6. Shortened(stack, stack', w)
  BY <1>1, <1>2, ShortenedFacts DEF IInv, Types
<1>q. QED
  BY <1>1, <1>2, <1>3, <1>4, <1>5, <1>6

(* A worker locks the closure at the bottom of its own deque, its deque    *)
(* already locked.                                                         *)
LockBottomDoes(w, c) ==
    /\ c = Bottom(w) /\ deque[w] # <<>> /\ pc[w] \in WorkPC
    /\ pc[w] \in {"handler", "sync", "abort", "result"}
    /\ pc' = [pc EXCEPT ![w] =
                IF pc[w] = "handler" THEN "handlerPoll"
                ELSE IF pc[w] = "sync" THEN "syncPoll"
                ELSE IF pc[w] = "abort" THEN "abortPoll"
                ELSE "setResult"]
    /\ clock[c] = None /\ clock' = [clock EXCEPT ![c] = w]
    /\ cl' = [cl EXCEPT ![w] = c]
    /\ \/ /\ pc[w] = "abort" /\ status[c] = "RUNNING"
          /\ \E s \in {ABORT_ALL, ALMOST_NO_ABORT} :
                abort' = [abort EXCEPT ![c] = s]
          /\ \A d \in Proc : abort'[d] = ABORT_ALL => abort[d] = ABORT_ALL
          /\ \A d \in Proc : abort[d] = ABORT_ALL => abort'[d] = ABORT_ALL
          /\ signalled' = [signalled EXCEPT ![w] = TRUE]
          /\ walk' = [walk EXCEPT ![w] =
                        <<[at |-> c, rest |-> incomplete[c]]>>]
       \/ /\ pc[w] # "abort" /\ UNCHANGED <<abort, signalled, walk>>
    /\ UNCHANGED <<created, parent, aborts, done, alive, out, status,
                   cache, join, incomplete, complete, dlock, deque,
                   stack, H, child, victim>>

(* LockBottom does that. *)
LEMMA LockBottomEffect ==
    ASSUME IInv, NEW w \in Worker, LockBottom(w)
    PROVE  \E c \in Proc : LockBottomDoes(w, c)
<1> USE DEF LockBottomDoes
<1> DEFINE c == Bottom(w)
<1>1. /\ pc[w] \in {"handler", "sync", "abort", "result"}
      /\ pc' = [pc EXCEPT ![w] =
                  IF pc[w] = "handler" THEN "handlerPoll"
                  ELSE IF pc[w] = "sync" THEN "syncPoll"
                  ELSE IF pc[w] = "abort" THEN "abortPoll"
                  ELSE "setResult"]
  BY DEF LockBottom, Goto
<1>2. /\ clock[c] = None /\ clock' = [clock EXCEPT ![c] = w]
      /\ cl' = [cl EXCEPT ![w] = c]
      /\ UNCHANGED <<created, parent, aborts, done, alive, out, status,
                     cache, join, incomplete, complete, dlock, deque,
                     stack, H, child, victim>>
  BY DEF LockBottom, LockClosure, Hand, program, results, tree
<1>3. pc[w] \in WorkPC /\ deque[w] # <<>> /\ c \in Proc
  <2>1. pc[w] \in WorkPC
    BY <1>1 DEF WorkPC, PopPC, SlowPC
  <2>q. QED
    BY <2>1, DequeFacts DEF IInv, CurrentInv
<1>4. CASE pc[w] # "abort"
  <2>1. UNCHANGED <<abort, signalled, walk>>
    BY <1>4 DEF LockBottom
  <2>q. QED
    BY <1>1, <1>2, <1>3, <1>4, <2>1
<1>5. CASE pc[w] = "abort"
  <2>1. status[c] = "RUNNING" /\ cache[c] = w
    <3>1. H[w] = 0 /\ T(w) = 1 /\ ~(H[w] >= T(w))
      BY <1>5 DEF IInv, StackInv, SlowPC
    <3>q. QED
      BY <1>3, <3>1 DEF IInv, CurrentInv
  <2>2. /\ abort' = [abort EXCEPT ![c] = Min2(@, ALMOST_NO_ABORT)]
        /\ signalled' = [signalled EXCEPT ![cache[c]] = TRUE]
        /\ walk' = [walk EXCEPT ![w] = <<[at |-> c, rest |-> incomplete[c]]>>]
    BY <1>5 DEF LockBottom, Visit, SignalAbort, SignalImmediate
  <2> DEFINE s == Min2(abort[c], ALMOST_NO_ABORT)
  <2>3. /\ s \in {ABORT_ALL, ALMOST_NO_ABORT}
        /\ s = ABORT_ALL <=> abort[c] = ABORT_ALL
    <3>1. abort[c] \in {ABORT_ALL, ALMOST_NO_ABORT, NO_ABORT}
      BY <1>3 DEF IInv, Types
    <3>2. \A a \in {ABORT_ALL, ALMOST_NO_ABORT, NO_ABORT} :
             /\ Min2(a, ALMOST_NO_ABORT) \in {ABORT_ALL, ALMOST_NO_ABORT}
             /\ Min2(a, ALMOST_NO_ABORT) = ABORT_ALL <=> a = ABORT_ALL
      BY DEF Min2, ABORT_ALL, ALMOST_NO_ABORT, NO_ABORT
    <3>q. QED
      BY <3>1, <3>2
  <2>4. abort' = [abort EXCEPT ![c] = s]
    BY <2>2
  <2> HIDE DEF s
  <2>5. \A d \in Proc : abort'[d] = ABORT_ALL <=> abort[d] = ABORT_ALL
    BY <1>3, <2>3, <2>4 DEF IInv, Types
  <2>6. \E t \in {ABORT_ALL, ALMOST_NO_ABORT} : abort' = [abort EXCEPT ![c] = t]
    BY <2>3, <2>4
  <2>q. QED
    BY <1>1, <1>2, <1>3, <1>5, <2>1, <2>2, <2>5, <2>6
<1>q. QED
  BY <1>4, <1>5

(* A mark of abort other than ABORT_ALL is taken back. *)
Unmarked(c) ==
    /\ abort' \in [Proc -> {ABORT_ALL, ALMOST_NO_ABORT, NO_ABORT}]
    /\ abort'[c] # ALMOST_NO_ABORT
    /\ \A d \in Proc \ {c} : abort'[d] = abort[d]
    /\ abort'[c] = ABORT_ALL <=> abort[c] = ABORT_ALL

(* MaybeResetAbort takes the mark of the walk off. *)
LEMMA Unmarks ==
    ASSUME IInv, NEW c \in Proc, MaybeResetAbort(c)
    PROVE  Unmarked(c)
<1>1. abort \in [Proc -> {ABORT_ALL, ALMOST_NO_ABORT, NO_ABORT}]
  BY DEF IInv, Types
<1>2. abort' = [abort EXCEPT ![c] = IF @ = ABORT_ALL THEN @ ELSE NO_ABORT]
  BY DEF MaybeResetAbort
<1>3. ABORT_ALL # ALMOST_NO_ABORT /\ NO_ABORT # ALMOST_NO_ABORT /\ NO_ABORT # ABORT_ALL
  BY DEF ABORT_ALL, ALMOST_NO_ABORT, NO_ABORT
<1>4. abort'[c] = IF abort[c] = ABORT_ALL THEN abort[c] ELSE NO_ABORT
  BY <1>1, <1>2
<1>5. abort' \in [Proc -> {ABORT_ALL, ALMOST_NO_ABORT, NO_ABORT}]
  BY <1>1, <1>2
<1>6. \A d \in Proc \ {c} : abort'[d] = abort[d]
  BY <1>1, <1>2
<1>q. QED
  BY <1>3, <1>4, <1>5, <1>6 DEF Unmarked

(* Cilk_sync, polled: the closure runs on, or waits for its children in no *)
(* deque.                                                                  *)
SyncDoes(w, c) ==
    /\ c = cl[w] /\ c = Bottom(w) /\ c = deque[w][Size(deque[w])]
    /\ pc[w] = "syncPoll" /\ T(w) = 1 /\ H[w] = 0
    /\ status[c] = "RUNNING" /\ stack[w][1] = c /\ cache[c] = w
    /\ walk[w] = <<>> /\ complete[c] = <<>> /\ Unmarked(c)
    /\ \/ /\ join[c] # 0 /\ status' = [status EXCEPT ![c] = "SUSPENDED"]
          /\ Shortened(deque, deque', w)
          /\ stack' = [stack EXCEPT ![w] = <<>>]
          /\ pc' = [pc EXCEPT ![w] = "loop"]
       \/ /\ join[c] = 0 /\ UNCHANGED <<status, deque, stack>>
          /\ pc' = [pc EXCEPT ![w] = "synced"]
    /\ clock' = [clock EXCEPT ![c] = None]
    /\ dlock' = [dlock EXCEPT ![w] = None]
    /\ cl' = [cl EXCEPT ![w] = None]
    /\ UNCHANGED <<created, parent, aborts, done, alive, out, cache,
                   join, incomplete, complete, H, signalled, child,
                   victim, walk>>

(* Sync does that. *)
LEMMA SyncEffect ==
    ASSUME IInv, NEW w \in Worker, Sync(w)
    PROVE  \E c \in Proc : SyncDoes(w, c)
<1> USE DEF SyncDoes
<1> DEFINE c == cl[w]
<1>1. /\ pc[w] = "syncPoll" /\ walk[w] = <<>> /\ complete[c] = <<>>
      /\ MaybeResetAbort(c)
      /\ clock' = [clock EXCEPT ![c] = None]
      /\ dlock' = [dlock EXCEPT ![w] = None]
      /\ cl' = [cl EXCEPT ![w] = None]
      /\ UNCHANGED <<created, parent, aborts, done, alive, out, cache,
                     join, incomplete, complete, H, signalled, child,
                     victim, walk>>
  BY DEF Sync, Polled, Polls, UnlockBoth, UnlockClosure, UnlockDeque, Hand,
     program, results, tree
<1>2. /\ c \in Proc /\ c = Bottom(w) /\ deque[w] # <<>> /\ T(w) = 1 /\ H[w] = 0
      /\ status[c] = "RUNNING" /\ stack[w][1] = c /\ cache[c] = w
  BY <1>1, InHandFacts
<1>3. c = deque[w][Size(deque[w])]
  BY <1>2, DequeFacts DEF IInv
<1>4. Unmarked(c)
  BY <1>1, <1>2, Unmarks
<1>5. CASE join[c] # 0
  <2>1. /\ status' = [status EXCEPT ![c] = "SUSPENDED"]
        /\ deque' = [deque EXCEPT ![w] = Front(@)]
        /\ stack' = [stack EXCEPT ![w] = <<>>]
        /\ pc' = [pc EXCEPT ![w] = "loop"]
    BY <1>5 DEF Sync, HasChildren, Suspend, SetStatus, XtractBottom, Goto
  <2>2. Shortened(deque, deque', w)
    BY <1>2, <2>1, ShortenedFacts DEF IInv, Types
  <2>q. QED
    BY <1>1, <1>2, <1>3, <1>4, <1>5, <2>1, <2>2
<1>6. CASE join[c] = 0
  <2>1. UNCHANGED <<status, deque, stack>> /\ pc' = [pc EXCEPT ![w] = "synced"]
    BY <1>6 DEF Sync, HasChildren, Goto
  <2>q. QED
    BY <1>1, <1>2, <1>3, <1>4, <1>6, <2>1
<1>q. QED
  BY <1>5, <1>6

(* Closure_set_result: the slow frame is popped and its closure is to be   *)
(* returned.                                                               *)
SetResultDoes(w, c) ==
    /\ c = cl[w] /\ c = Bottom(w) /\ c = deque[w][Size(deque[w])]
    /\ pc[w] = "setResult" /\ T(w) = 1 /\ H[w] = 0 /\ c # Root
    /\ deque[w] # <<>> /\ abort[c] # ALMOST_NO_ABORT
    /\ status[c] = "RUNNING" /\ stack[w][1] = c /\ cache[c] = w
    /\ status' = [status EXCEPT ![c] = "RETURNING"]
    /\ alive' = alive \ {c}
    /\ stack' = [stack EXCEPT ![w] = <<>>]
    /\ pc' = [pc EXCEPT ![w] = "loop"]
    /\ clock' = [clock EXCEPT ![c] = None]
    /\ dlock' = [dlock EXCEPT ![w] = None]
    /\ cl' = [cl EXCEPT ![w] = None]
    /\ UNCHANGED <<created, parent, aborts, done, out, abort, cache,
                   join, incomplete, complete, deque, H, signalled,
                   child, victim, walk>>

(* SetResult does that. *)
LEMMA SetResultEffect ==
    ASSUME IInv, NEW w \in Worker, SetResult(w)
    PROVE  \E c \in Proc : SetResultDoes(w, c)
<1> USE DEF SetResultDoes
<1> DEFINE c == cl[w]
<1>1. /\ pc[w] = "setResult"
      /\ status' = [status EXCEPT ![c] = "RETURNING"]
      /\ alive' = alive \ {c}
      /\ stack' = [stack EXCEPT ![w] = <<>>]
      /\ pc' = [pc EXCEPT ![w] = "loop"]
      /\ clock' = [clock EXCEPT ![c] = None]
      /\ dlock' = [dlock EXCEPT ![w] = None]
      /\ cl' = [cl EXCEPT ![w] = None]
      /\ UNCHANGED <<created, parent, aborts, done, out, abort, cache,
                     join, incomplete, complete, deque, H, signalled,
                     child, victim, walk>>
  BY DEF SetResult, UnlockBoth, UnlockClosure, UnlockDeque, SetStatus, Hand,
     Goto, program, tree
<1>2. /\ c \in Proc /\ c = Bottom(w) /\ deque[w] # <<>> /\ T(w) = 1 /\ H[w] = 0
      /\ status[c] = "RUNNING" /\ stack[w][1] = c /\ cache[c] = w
  BY <1>1, InHandFacts
<1>3. c = deque[w][Size(deque[w])]
  BY <1>2, DequeFacts DEF IInv
<1>4. c # Root
  BY <1>1, <1>2 DEF IInv, StackInv, Running
<1>5. abort[c] # ALMOST_NO_ABORT
  <2>1. ASSUME abort[c] = ALMOST_NO_ABORT PROVE FALSE
    <3>1. PICK v \in Worker : cl[v] = c /\ pc[v] \in PollPC
      BY <1>2, <2>1 DEF IInv, AlmostInv
    <3>2. clock[c] = v /\ clock[c] = w
      BY <1>1, <1>2, <3>1 DEF IInv, ClosureLocks, HoldsClosure, LockPC, PollPC
    <3>q. QED
      BY <1>1, <3>1, <3>2 DEF PollPC
  <2>q. QED
    BY <2>1
<1>q. QED
  BY <1>1, <1>2, <1>3, <1>4, <1>5

(* Cilk_remove_and_free_closure: at its end the first procedure takes its  *)
(* closure off its deque and frees it.                                     *)
RemoveAndFreeDoes(w) ==
    /\ Root = Bottom(w) /\ Root = deque[w][Size(deque[w])]
    /\ pc[w] = "rootEnd" /\ dlock[w] = None
    /\ T(w) = 1 /\ H[w] = 0 /\ Root \in Proc
    /\ status[Root] = "RUNNING" /\ cache[Root] = w
    /\ Shortened(deque, deque', w)
    /\ alive' = alive \ {Root}
    /\ status' = [status EXCEPT ![Root] = "freed"]
    /\ stack' = [stack EXCEPT ![w] = <<>>]
    /\ pc' = [pc EXCEPT ![w] = "loop"]
    /\ UNCHANGED <<created, parent, aborts, done, out, abort, cache,
                   join, incomplete, complete, clock, dlock, H,
                   signalled, cl, child, victim, walk>>

(* RemoveAndFree does that. *)
LEMMA RemoveAndFreeEffect ==
    ASSUME IInv, NEW w \in Worker, RemoveAndFree(w)
    PROVE  RemoveAndFreeDoes(w)
<1> USE DEF RemoveAndFreeDoes
<1>1. /\ pc[w] = "rootEnd" /\ dlock[w] = None /\ alive' = alive \ {Root}
      /\ deque' = [deque EXCEPT ![w] = Front(@)]
      /\ status' = [status EXCEPT ![Bottom(w)] = "freed"]
      /\ stack' = [stack EXCEPT ![w] = <<>>]
      /\ pc' = [pc EXCEPT ![w] = "loop"]
      /\ UNCHANGED <<created, parent, aborts, done, out, abort, cache,
                     join, incomplete, complete, clock, dlock, H,
                     signalled, cl, child, victim, walk>>
  BY DEF RemoveAndFree, XtractBottom, SetStatus, Goto, program, tree, locks
<1>2. pc[w] \in WorkPC /\ pc[w] \in SlowPC /\ pc[w] \notin PopPC
  BY <1>1 DEF WorkPC, SlowPC, PopPC
<1>3. T(w) = 1 /\ H[w] = 0 /\ H[w] < T(w) /\ ~(H[w] >= T(w)) /\ H[w] + 1 = 1
  BY <1>2 DEF IInv, StackInv
<1>4. Running(w) = Root /\ stack[w][1] = Root
  BY <1>1, <1>3 DEF IInv, StackInv, Running
<1>5. /\ deque[w] # <<>> /\ Bottom(w) = Root /\ status[Root] = "RUNNING"
      /\ cache[Root] = w
  BY <1>2, <1>3, <1>4 DEF IInv, CurrentInv
<1>6. Root = deque[w][Size(deque[w])] /\ Root \in Proc
  BY <1>5, DequeFacts DEF IInv
<1>7. Shortened(deque, deque', w)
  BY <1>1, <1>5, ShortenedFacts DEF IInv, Types
<1>q. QED
  BY <1>1, <1>3, <1>5, <1>6, <1>7

(* Cilk_exit: the first closure gets an abort of everything; it is polled  *)
(* here if nobody runs it.                                                 *)
CilkExitDoes(w) ==
    /\ pc[w] = "run" /\ Root \in Proc /\ clock[Root] = None
    /\ Running(w) # Root
    /\ aborts < MaxAbort /\ aborts' = aborts + 1
    /\ complete' = [complete EXCEPT ![Root] = <<None>> \o @]
    /\ \/ /\ status[Root] = "RUNNING"
          /\ signalled' = [signalled EXCEPT ![cache[Root]] = TRUE]
          /\ UNCHANGED <<pc, cl, clock>>
       \/ /\ status[Root] # "RUNNING" /\ UNCHANGED signalled
          /\ clock' = [clock EXCEPT ![Root] = w]
          /\ cl' = [cl EXCEPT ![w] = Root]
          /\ pc' = [pc EXCEPT ![w] = "exitPoll"]
    /\ UNCHANGED <<created, parent, done, alive, out, status, abort,
                   cache, join, incomplete, dlock, deque, stack, H,
                   child, victim, walk>>

(* CilkExit does that. *)
LEMMA CilkExitEffect ==
    ASSUME IInv, NEW w \in Worker, CilkExit(w)
    PROVE  CilkExitDoes(w)
<1> USE DEF CilkExitDoes
<1>1. Root \in Proc
  BY BoundAssumption DEF Root, Proc
<1>2. /\ pc[w] = "run" /\ clock[Root] = None /\ Running(w) # Root
      /\ aborts < MaxAbort /\ aborts' = aborts + 1
      /\ complete' = [complete EXCEPT ![Root] = <<None>> \o @]
      /\ UNCHANGED <<created, parent, done, alive, out, status, abort,
                     cache, join, incomplete, dlock, deque, stack, H,
                     child, victim, walk>>
  BY DEF CilkExit, results, state
<1>3. CASE status[Root] = "RUNNING"
  <2>1. /\ signalled' = [signalled EXCEPT ![cache[Root]] = TRUE]
        /\ UNCHANGED <<pc, cl, clock>>
    BY <1>3 DEF CilkExit, SignalImmediate
  <2>q. QED
    BY <1>1, <1>2, <1>3, <2>1
<1>4. CASE status[Root] # "RUNNING"
  <2>1. /\ UNCHANGED signalled
        /\ clock' = [clock EXCEPT ![Root] = w]
        /\ cl' = [cl EXCEPT ![w] = Root]
        /\ pc' = [pc EXCEPT ![w] = "exitPoll"]
    BY <1>4 DEF CilkExit, LockClosure, Hand, Goto
  <2>q. QED
    BY <1>1, <1>2, <1>4, <2>1
<1>q. QED
  BY <1>3, <1>4

(* The exception handler after poll_inlets: an inlet may have split the    *)
(* closure, and then the handler goes on with the one at the bottom.       *)
HandlerPolledDoes(w, t, t1) ==
    /\ t = cl[w] /\ t1 = Bottom(w) /\ pc[w] = "handlerPoll"
    /\ deque[w] # <<>>
    /\ walk[w] = <<>> /\ complete[t] = <<>> /\ Unmarked(t)
    /\ \/ /\ t1 = t /\ pc' = [pc EXCEPT ![w] = "handlerAct"]
          /\ UNCHANGED <<cl, clock>>
       \/ /\ t1 # t /\ status[t] = "READY"
          /\ pc' = [pc EXCEPT ![w] = "handlerSwap"]
          /\ cl' = [cl EXCEPT ![w] = t1]
          /\ clock' = [clock EXCEPT ![t] = None]
    /\ UNCHANGED <<created, parent, aborts, done, alive, out, status,
                   cache, join, incomplete, complete, dlock, deque,
                   stack, H, signalled, child, victim, walk>>

(* HandlerPolled does that. *)
LEMMA HandlerPolledEffect ==
    ASSUME IInv, NEW w \in Worker, HandlerPolled(w)
    PROVE  \E t \in Proc, t1 \in Proc : HandlerPolledDoes(w, t, t1)
<1> USE DEF HandlerPolledDoes
<1> DEFINE t == cl[w]
<1> DEFINE t1 == Bottom(w)
<1>1. /\ pc[w] = "handlerPoll" /\ walk[w] = <<>> /\ complete[t] = <<>>
      /\ MaybeResetAbort(t)
      /\ UNCHANGED <<created, parent, aborts, done, alive, out, status,
                     cache, join, incomplete, complete, dlock, deque,
                     stack, H, signalled, child, victim, walk>>
  BY DEF HandlerPolled, Polled, Polls, program, results, tree, caches
<1>2. pc[w] \in WorkPC /\ pc[w] \in LockPC
  BY <1>1 DEF WorkPC, PopPC, LockPC
<1>3. deque[w] # <<>> /\ t1 \in Proc /\ t \in Proc
  BY <1>2, DequeFacts DEF IInv, CurrentInv, ClosureLocks, Types
<1>4. Unmarked(t)
  BY <1>1, <1>3, Unmarks
<1>5. t1 # t => status[t] = "READY"
  BY <1>1 DEF IInv, InHandInv
<1>6. CASE t1 = t
  <2>1. pc' = [pc EXCEPT ![w] = "handlerAct"] /\ UNCHANGED <<cl, clock>>
    BY <1>6 DEF HandlerPolled, BottomNow, Goto
  <2>q. QED
    BY <1>1, <1>3, <1>4, <1>6, <2>1
<1>7. CASE t1 # t
  <2>1. /\ pc' = [pc EXCEPT ![w] = "handlerSwap"]
        /\ cl' = [cl EXCEPT ![w] = t1]
        /\ clock' = [clock EXCEPT ![t] = None]
    BY <1>7 DEF HandlerPolled, BottomNow, Goto, UnlockClosure, Hand
  <2>q. QED
    BY <1>1, <1>3, <1>4, <1>5, <1>7, <2>1
<1>q. QED
  BY <1>6, <1>7

(* What the exception handler has before it: the frame that runs is the    *)
(* closure's own, or above it, or was stolen.                              *)
LEMMA HandlerFacts ==
    ASSUME IInv, NEW w \in Worker, pc[w] = "handlerAct"
    PROVE  /\ cl[w] \in Proc /\ cl[w] = Bottom(w) /\ deque[w] # <<>>
           /\ cl[w] = deque[w][Size(deque[w])]
           /\ T(w) \in Nat \ {0} /\ H[w] \in Nat /\ stack[w] # <<>>
           /\ pc[w] \in WorkPC /\ pc[w] \in PopPC
           /\ \/ /\ status[cl[w]] = "RUNNING" /\ cache[cl[w]] = w /\ H[w] <= T(w)
                 /\ H[w] < T(w) => stack[w][H[w] + 1] = cl[w]
                 /\ H[w] = T(w) => child[w] = cl[w]
              \/ status[cl[w]] = "RETURNING" /\ H[w] >= T(w)
<1>1. pc[w] \in WorkPC /\ pc[w] \in PopPC
  BY DEF WorkPC, PopPC
<1>2. /\ cl[w] \in Proc /\ cl[w] = Bottom(w) /\ deque[w] # <<>>
      /\ T(w) \in Nat \ {0} /\ H[w] \in Nat
  BY InHandFacts
<1>3. cl[w] = deque[w][Size(deque[w])] /\ stack[w] # <<>>
  BY <1>2, DequeFacts, StackFacts DEF IInv
<1>4. \/ /\ status[cl[w]] = "RUNNING" /\ cache[cl[w]] = w /\ H[w] <= T(w)
         /\ H[w] < T(w) => stack[w][H[w] + 1] = cl[w]
         /\ H[w] = T(w) => child[w] = cl[w]
      \/ status[cl[w]] = "RETURNING" /\ H[w] >= T(w)
  BY <1>1, <1>2 DEF IInv, CurrentInv
<1>q. QED
  BY <1>1, <1>2, <1>3, <1>4

(* The exception of a pop whose frame was stolen: the closure is to be     *)
(* returned.                                                               *)
HandlerStolenDoes(w, c) ==
    /\ c = cl[w] /\ c = Bottom(w) /\ c = deque[w][Size(deque[w])]
    /\ pc[w] = "handlerAct" /\ c # Root /\ deque[w] # <<>>
    /\ T(w) \in Nat \ {0} /\ H[w] \in Nat /\ H[w] >= T(w)
    /\ status[c] = "RUNNING" => child[w] = c /\ cache[c] = w
    /\ status[c] \in {"RUNNING", "RETURNING"}
    /\ status' = [status EXCEPT ![c] = "RETURNING"]
    /\ signalled' = [signalled EXCEPT ![w] = FALSE]
    /\ child' = [child EXCEPT ![w] = None]
    /\ Shortened(stack, stack', w)
    /\ pc' = [pc EXCEPT ![w] = IF T(w) = 1 THEN "loop" ELSE "pop"]
    /\ clock' = [clock EXCEPT ![c] = None]
    /\ dlock' = [dlock EXCEPT ![w] = None]
    /\ cl' = [cl EXCEPT ![w] = None]
    /\ UNCHANGED <<created, parent, aborts, done, alive, out, abort,
                   cache, join, incomplete, complete, deque, H,
                   victim, walk>>

(* HandlerStolen does that. *)
LEMMA HandlerStolenEffect ==
    ASSUME IInv, NEW w \in Worker, HandlerStolen(w)
    PROVE  \E c \in Proc : HandlerStolenDoes(w, c)
<1> USE DEF HandlerStolenDoes
<1> DEFINE c == cl[w]
<1>1. /\ pc[w] = "handlerAct" /\ H[w] >= T(w)
      /\ signalled' = [signalled EXCEPT ![w] = FALSE]
      /\ child' = [child EXCEPT ![w] = None]
      /\ stack' = [stack EXCEPT ![w] = Front(@)]
      /\ pc' = [pc EXCEPT ![w] = IF T(w) = 1 THEN "loop" ELSE "pop"]
      /\ clock' = [clock EXCEPT ![c] = None]
      /\ dlock' = [dlock EXCEPT ![w] = None]
      /\ cl' = [cl EXCEPT ![w] = None]
      /\ UNCHANGED <<created, parent, aborts, done, alive, out, abort,
                     cache, join, incomplete, complete, deque, H,
                     victim, walk>>
  BY DEF HandlerStolen, Stolen, UnlockBoth, UnlockClosure, UnlockDeque, Hand,
     Unwind, Goto, program, results, tree
<1>2. /\ c \in Proc /\ c = Bottom(w) /\ deque[w] # <<>>
      /\ c = deque[w][Size(deque[w])]
      /\ T(w) \in Nat \ {0} /\ H[w] \in Nat /\ stack[w] # <<>>
      /\ pc[w] \in PopPC
      /\ status[c] \in {"RUNNING", "RETURNING"}
      /\ status[c] = "RUNNING" => child[w] = c /\ cache[c] = w
  <2>1. H[w] <= T(w) /\ T(w) \in Nat /\ H[w] \in Nat => H[w] = T(w)
    BY <1>1
  <2>q. QED
    BY <1>1, <2>1, HandlerFacts
<1>3. status' = [status EXCEPT ![c] = "RETURNING"]
  <2>1. status \in [Proc -> Status]
    BY DEF IInv, Types
  <2>2. CASE status[c] = "RUNNING"
    BY <2>2 DEF HandlerStolen, SetStatus
  <2>3. CASE status[c] = "RETURNING"
    <3>1. status' = status
      BY <2>3 DEF HandlerStolen
    <3>q. QED
      BY <1>2, <2>1, <2>3, <3>1
  <2>q. QED
    BY <1>2, <2>2, <2>3
<1>4. c # Root
  BY <1>2 DEF IInv, ChildInv, RootInv
<1>5. Shortened(stack, stack', w)
  BY <1>1, <1>2, ShortenedFacts DEF IInv, Types
<1>q. QED
  BY <1>1, <1>2, <1>3, <1>4, <1>5

(* The three ways to lose a frame to an abort: its closure waits for its   *)
(* children, returns without a result, or stays with the frames below.     *)
AbortWaits(w, c) ==
    /\ T(w) = 1 /\ H[w] = 0 /\ join[c] # 0
    /\ status' = [status EXCEPT ![c] = "SUSPENDED"]
    /\ Shortened(deque, deque', w) /\ Unmarked(c)
    /\ Outcome(child[w], "discarded")
    /\ child' = [child EXCEPT ![w] = None]
    /\ pc' = [pc EXCEPT ![w] = "loop"]
    /\ UNCHANGED alive
AbortReturns(w, c) ==
    /\ H[w] + 1 = T(w) /\ join[c] = 0 /\ c # Root
    /\ status' = [status EXCEPT ![c] = "RETURNING"]
    /\ alive' = alive \ {c}
    /\ child' = [child EXCEPT ![w] = IF T(w) = 1 THEN None ELSE c]
    /\ out' = [g \in Proc |-> IF g \in {c, child[w]} THEN "discarded"
                              ELSE out[g]]
    /\ pc' = [pc EXCEPT ![w] = IF T(w) = 1 THEN "loop" ELSE "pop"]
    /\ UNCHANGED <<abort, deque>>
AbortPops(w, f) ==
    /\ H[w] + 1 < T(w) /\ f = stack[w][T(w)] /\ f # Root /\ status[f] = "none"
    /\ alive' = alive \ {f}
    /\ child' = [child EXCEPT ![w] = f]
    /\ out' = [g \in Proc |-> IF g \in {f, child[w]} THEN "discarded"
                              ELSE out[g]]
    /\ pc' = [pc EXCEPT ![w] = "pop"]
    /\ UNCHANGED <<status, abort, deque>>

(* The exception handler of a closure marked to be aborted: the frame on   *)
(* top is lost.                                                            *)
HandlerAbortDoes(w, c, f) ==
    /\ c = cl[w] /\ c = Bottom(w) /\ c = deque[w][Size(deque[w])]
    /\ pc[w] = "handlerAct" /\ deque[w] # <<>>
    /\ T(w) \in Nat \ {0} /\ H[w] \in Nat /\ H[w] < T(w)
    /\ status[c] = "RUNNING" /\ cache[c] = w /\ abort[c] # NO_ABORT
    /\ stack[w][H[w] + 1] = c
    /\ AbortWaits(w, c) \/ AbortReturns(w, c) \/ AbortPops(w, f)
    /\ signalled' = [signalled EXCEPT ![w] = TRUE]
    /\ Shortened(stack, stack', w)
    /\ clock' = [clock EXCEPT ![c] = None]
    /\ dlock' = [dlock EXCEPT ![w] = None]
    /\ cl' = [cl EXCEPT ![w] = None]
    /\ UNCHANGED <<created, parent, aborts, done, cache, join,
                   incomplete, complete, H, victim, walk>>

(* HandlerAbort does that. *)
LEMMA HandlerAbortEffect ==
    ASSUME IInv, NEW w \in Worker, HandlerAbort(w)
    PROVE  \E c \in Proc, f \in Proc : HandlerAbortDoes(w, c, f)
<1> USE DEF HandlerAbortDoes
<1> DEFINE c == cl[w]
<1> DEFINE f == stack[w][T(w)]
<1>1. /\ pc[w] = "handlerAct" /\ ~(H[w] >= T(w)) /\ abort[c] # NO_ABORT
      /\ signalled' = [signalled EXCEPT ![w] = TRUE]
      /\ stack' = [stack EXCEPT ![w] = Front(@)]
      /\ pc' = [pc EXCEPT ![w] = IF T(w) = 1 THEN "loop" ELSE "pop"]
      /\ clock' = [clock EXCEPT ![c] = None]
      /\ dlock' = [dlock EXCEPT ![w] = None]
      /\ cl' = [cl EXCEPT ![w] = None]
      /\ UNCHANGED <<created, parent, aborts, done, cache, join,
                     incomplete, complete, H, victim, walk>>
  BY DEF HandlerAbort, Stolen, BeingAborted, UnlockBoth, UnlockClosure,
     UnlockDeque, Hand, Unwind, Goto, program, tree
<1>2. /\ c \in Proc /\ c = Bottom(w) /\ deque[w] # <<>>
      /\ c = deque[w][Size(deque[w])]
      /\ T(w) \in Nat \ {0} /\ H[w] \in Nat /\ stack[w] # <<>>
      /\ pc[w] \in WorkPC /\ H[w] < T(w)
      /\ status[c] = "RUNNING" /\ cache[c] = w
      /\ stack[w][H[w] + 1] = c
  BY <1>1, HandlerFacts
<1>3. f \in Proc
  <2>1. T(w) \in 1 .. T(w)
    BY <1>2
  <2>q. QED
    BY <2>1, StackFacts DEF IInv
<1>4. Shortened(stack, stack', w)
  BY <1>1, <1>2, ShortenedFacts DEF IInv, Types
<1> DEFINE top == H[w] + 1 = T(w)
<1>5. AtTopOfStack(c) <=> top
  BY <1>2 DEF AtTopOfStack
<1>6. CASE top /\ join[c] # 0
  <2>1. H[w] = 0
    BY <1>2, <1>6, NotFresh
  <2>2. T(w) = 1
    BY <1>6, <2>1
  <2>3. /\ MaybeResetAbort(c)
        /\ status' = [status EXCEPT ![c] = "SUSPENDED"]
        /\ deque' = [deque EXCEPT ![w] = Front(@)]
        /\ Outcome(child[w], "discarded")
        /\ child' = [child EXCEPT ![w] = None]
        /\ UNCHANGED alive
    BY <1>5, <1>6 DEF HandlerAbort, HasChildren, Suspend, SetStatus, XtractBottom
  <2>4. Shortened(deque, deque', w)
    BY <1>2, <2>3, ShortenedFacts DEF IInv, Types
  <2>5. Unmarked(c)
    BY <1>2, <2>3, Unmarks
  <2>6. pc' = [pc EXCEPT ![w] = "loop"]
    BY <1>1, <2>2
  <2>7. AbortWaits(w, c)
    BY <1>6, <2>1, <2>2, <2>3, <2>4, <2>5, <2>6 DEF AbortWaits
  <2>q. QED
    BY <1>1, <1>2, <1>3, <1>4, <2>7
<1>7. CASE top /\ join[c] = 0
  <2>1. f = c
    BY <1>2, <1>7
  <2>2. /\ status' = [status EXCEPT ![c] = "RETURNING"]
        /\ alive' = alive \ {f}
        /\ out' = [g \in Proc |-> IF g \in {f, child[w]} THEN "discarded"
                                  ELSE out[g]]
        /\ child' = [child EXCEPT ![w] = IF T(w) = 1 THEN None ELSE f]
        /\ UNCHANGED <<abort, deque>>
    BY <1>5, <1>7 DEF HandlerAbort, HasChildren, SetStatus, Running
  <2>3. c # Root
    <3>1. abort[c] = ABORT_ALL \/ abort[c] = ALMOST_NO_ABORT
      BY <1>1, <1>2 DEF IInv, Types
    <3>2. ASSUME c = Root PROVE FALSE
      <4>1. abort[c] = ALMOST_NO_ABORT
        BY <3>1, <3>2 DEF IInv, RootInv
      <4>2. PICK v \in Worker : cl[v] = c /\ pc[v] \in PollPC
        BY <1>2, <4>1 DEF IInv, AlmostInv
      <4>3. clock[c] = v /\ clock[c] = w
        BY <1>1, <1>2, <4>2 DEF IInv, ClosureLocks, HoldsClosure, LockPC, PollPC
      <4>q. QED
        BY <1>1, <4>2, <4>3 DEF PollPC
    <3>q. QED
      BY <3>2
  <2>4. AbortReturns(w, c)
    BY <1>1, <1>7, <2>1, <2>2, <2>3 DEF AbortReturns
  <2>q. QED
    BY <1>1, <1>2, <1>3, <1>4, <2>4
<1>8. CASE ~top
  <2>1. H[w] + 1 < T(w) /\ T(w) # 1
    BY <1>2, <1>8
  <2>2. /\ alive' = alive \ {f}
        /\ out' = [g \in Proc |-> IF g \in {f, child[w]} THEN "discarded"
                                  ELSE out[g]]
        /\ child' = [child EXCEPT ![w] = f]
        /\ UNCHANGED <<status, abort, deque>>
    BY <1>5, <1>8, <2>1 DEF HandlerAbort, Running
  <2>3. T(w) \in H[w] + 2 .. T(w)
    BY <1>2, <2>1
  <2>4. status[f] = "none"
    BY <2>3 DEF IInv, StackInv
  <2>5. f # Root
    BY <2>4 DEF IInv, RootInv
  <2>6. pc' = [pc EXCEPT ![w] = "pop"]
    BY <1>1, <2>1
  <2>7. AbortPops(w, f)
    BY <2>1, <2>2, <2>4, <2>5, <2>6 DEF AbortPops
  <2>q. QED
    BY <1>1, <1>2, <1>3, <1>4, <2>7
<1>q. QED
  BY <1>6, <1>7, <1>8

(* A worker holds the lock of the closure it has in hand at LockPC. *)
LEMMA LockFacts ==
    ASSUME IInv
    PROVE  \A u \in Worker : pc[u] \in LockPC => cl[u] \in Proc /\ clock[cl[u]] = u
  BY DEF IInv, ClosureLocks, HoldsClosure, Types

(* The parent of a closure being returned is locked, and it exists. *)
LEMMA ReturnFacts ==
    ASSUME IInv, NEW u \in Worker, pc[u] \in ReturnPC
    PROVE  /\ cl[u] \in Proc /\ clock[cl[u]] = u /\ status[cl[u]] # "none"
           /\ child[u] \in Proc /\ child[u] # cl[u] /\ status[child[u]] = "RETURNING"
           /\ parent[child[u]] = cl[u]
<1>1. pc[u] \in LockPC
  BY DEF LockPC, ReturnPC
<1>2. cl[u] \in Proc /\ child[u] \in Proc /\ child[u] # cl[u]
  BY <1>1 DEF IInv, Types, ClosureLocks
<1>3. clock[cl[u]] = u
  BY <1>1, <1>2, LockFacts
<1>4. status[child[u]] = "RETURNING" /\ parent[child[u]] = cl[u]
  BY DEF IInv, ChildInv
<1>q. QED
  BY <1>2, <1>3, <1>4 DEF IInv, FreshInv, Fresh

(* A ready closure that a thief takes is above the closure its victim      *)
(* works on.                                                               *)
LEMMA StealReadyBottom ==
    ASSUME IInv, NEW w \in Worker, NEW v \in Worker, NEW c \in Proc,
           StealReadyDoes(w, v, c), pc[v] \in WorkPC
    PROVE  Bottom(v)' = Bottom(v) /\ Size(deque[v]) > 1 /\ deque'[v] # <<>>
<1>1. /\ c = deque[v][1] /\ status[c] = "READY" /\ Topped(deque, deque', v)
  BY DEF StealReadyDoes
<1>2. /\ deque'[v] \in Seq(Proc) /\ Size(deque[v]) \in Nat \ {0}
      /\ Size(deque'[v]) = Size(deque[v]) - 1
      /\ \A i \in 1 .. Size(deque[v]) - 1 : deque'[v][i] = deque[v][i + 1]
  BY <1>1 DEF Topped
<1>3. Bottom(v) = deque[v][Size(deque[v])] /\ Bottom(v)' = deque'[v][Size(deque'[v])]
  BY DEF Bottom, Size
<1>4. status[Bottom(v)] # "READY"
  BY DEF IInv, CurrentInv
<1>5. Size(deque[v]) > 1
  BY <1>1, <1>2, <1>3, <1>4
<1>6. Bottom(v)' = Bottom(v)
  BY <1>2, <1>3, <1>5
<1>7. deque'[v] # <<>>
  BY <1>2, <1>5, SeqFacts
<1>q. QED
  BY <1>5, <1>6, <1>7

(* What StackInv says of one worker: of its stack, and of where it is.     *)
StackShape(w) ==
    /\ \A i \in 1 .. T(w) : stack[w][i] \in 1 .. created
    /\ \A i \in 2 .. T(w) : parent[stack[w][i]] = stack[w][i - 1]
    /\ \A i \in H[w] + 2 .. T(w) : status[stack[w][i]] = "none"

(* What a stack has to do with where its worker is. *)
StackAtPC(w) ==
    /\ pc[w] \in WorkPC => T(w) >= 1
    /\ pc[w] \in WorkPC \cup {"setup", "add"} \/ stack[w] = <<>>
    /\ pc[w] \in SlowPC => T(w) = 1 /\ H[w] = 0
    /\ pc[w] \in {"run", "exitPoll"} => H[w] < T(w)
    /\ pc[w] \in {"exitPoll", "result", "setResult"} => Running(w) # Root
    /\ pc[w] = "rootEnd" => Running(w) = Root
    /\ pc[w] \in {"setup", "add"} =>
          /\ T(w) = 1 /\ stack[w][1] = cl[w] /\ H[w] = 0
          /\ cl[w] # None /\ status[cl[w]] = "RUNNING" /\ cache[cl[w]] = w

(* A closure being set up is in one worker's hand and in no deque.         *)
LEMMA SetupFacts ==
    ASSUME IInv, NEW u \in Worker, pc[u] \in {"setup", "add"}
    PROVE  /\ cl[u] \in Proc /\ status[cl[u]] = "RUNNING" /\ cache[cl[u]] = u
           /\ \A v \in Worker : pc[v] \in WorkPC => Bottom(v) # cl[u]
           /\ \A v \in Worker \ {u} : pc[v] \in HandPC => cl[v] # cl[u]
<1>1. pc[u] \in HandPC
  BY DEF HandPC
<1>2. cl[u] # None /\ status[cl[u]] = "RUNNING" /\ cache[cl[u]] = u
  BY DEF IInv, StackInv
<1>3. cl[u] \in Proc
  BY <1>2 DEF IInv, Types
<1>4. ASSUME NEW v \in Worker, pc[v] \in WorkPC
      PROVE  Bottom(v) # cl[u]
  <2>1. deque[v] # <<>>
    BY <1>4 DEF IInv, CurrentInv
  <2>2. Size(deque[v]) \in 1 .. Size(deque[v]) /\ Bottom(v) = deque[v][Size(deque[v])]
    BY <2>1, DequeFacts DEF IInv
  <2>q. QED
    BY <1>1, <2>2 DEF IInv, PlacesApart
<1>5. \A v \in Worker \ {u} : pc[v] \in HandPC => cl[v] # cl[u]
  BY <1>1, <1>2 DEF IInv, PlacesApart
<1>q. QED
  BY <1>2, <1>3, <1>4, <1>5

(* What ChildInv says of one worker. *)
ChildHere(w) ==
    /\ child[w] # None => /\ pc[w] \in PopPC \cup ReturnPC \cup {"stealFinish"}
                          /\ child[w] \in 1 .. created
    /\ pc[w] = "stealFinish" => child[w] # None /\ parent[child[w]] = cl[w]
    /\ pc[w] \in PopPC => child[w] # Root
    /\ pc[w] \in PopPC /\ H[w] < T(w) /\ child[w] # None =>
          status[child[w]] = "none"
    /\ pc[w] \in ReturnPC =>
          status[child[w]] = "RETURNING" /\ parent[child[w]] = cl[w]

(* What InHandInv says of one worker, and what a step of another worker    *)
(* must leave of it.                                                       *)
HandHere(w) ==
    /\ cl[w] # None =>
          pc[w] \in LockPC \cup HandPC \cup {"stealDeque", "handlerSwap"}
    /\ pc[w] \in {"handlerAct", "handlerSwap", "syncPoll", "abortPoll",
                  "setResult"} => cl[w] = Bottom(w)
    /\ pc[w] = "handlerPoll" => cl[w] = Bottom(w) \/ status[cl[w]] = "READY"
    /\ pc[w] = "exitPoll" => cl[w] = Root /\ status[Root] # "RUNNING"
    /\ pc[w] \in {"loop", "exit"} /\ cl[w] # None =>
          status[cl[w]] \in {"READY", "RETURNING"}
    /\ pc[w] = "stealFinish" => status[cl[w]] = "RUNNING"

(* What the parts of HandHere say of a status, after another worker's      *)
(* step.                                                                   *)
HandKept(w) ==
    /\ pc[w] = "handlerPoll" /\ status[cl[w]] = "READY"
          => status'[cl[w]] = "READY"
    /\ pc[w] = "exitPoll" => status'[Root] # "RUNNING"
    /\ pc[w] \in {"loop", "exit"} /\ cl[w] # None =>
          status'[cl[w]] \in {"READY", "RETURNING"}
    /\ pc[w] = "stealFinish" => status'[cl[w]] = "RUNNING"

(* What DequeInv says of one worker, and what the statuses a step writes   *)
(* must leave of it.                                                       *)
DequeHere(w) ==
    /\ \A i \in 1 .. Size(deque[w]) - 1 : status[deque[w][i]] = "READY"
    /\ \/ pc[w] \in WorkPC \/ deque[w] = <<>>
       \/ status[Bottom(w)] = "READY"
       \/ status[Bottom(w)] = "RETURNING" /\ pc[w] \in {"loop", "exit"}
             /\ cl[w] = None
    /\ pc[w] \in VictimPC \cup {"steal"} => deque[w] = <<>>
    /\ pc[w] \in VictimPC /\ cl[w] # None =>
          deque[victim[w]] # <<>> /\ cl[w] = Head(deque[victim[w]])
DequesKept ==
    \A u \in Worker : \A i \in 1 .. Size(deque[u]) :
        status[deque[u][i]] \in {"READY", "RETURNING"}
           => status'[deque[u][i]] = status[deque[u][i]]

(* What CurrentInv says of one worker; the closures whose status or cache  *)
(* a step of a worker may write, and what it must leave of the others.     *)
CurrentHere(w) ==
    pc[w] \in WorkPC =>
      LET c == Bottom(w) IN
      /\ deque[w] # <<>>
      /\ \/ /\ status[c] = "RUNNING" /\ cache[c] = w /\ H[w] <= T(w)
            /\ H[w] < T(w) => stack[w][H[w] + 1] = c
            /\ H[w] = T(w) => child[w] = c /\ pc[w] \in PopPC
         \/ /\ status[c] = "RETURNING" /\ H[w] >= T(w)
            /\ pc[w] \in PopPC
Mine(w, d) ==
    \/ status[d] \notin {"RUNNING", "RETURNING"}
    \/ pc[w] \in HandPC /\ cl[w] = d
    \/ pc[w] \in ReturnPC /\ child[w] = d
    \/ pc[w] \in WorkPC /\ Bottom(w) = d
BottomsKept(w) ==
    \A u \in Worker \ {w} : pc[u] \in WorkPC =>
        /\ status'[Bottom(u)] = status[Bottom(u)]
        /\ cache'[Bottom(u)] = cache[Bottom(u)]

(* No closure is twice in the deques d; and c is in none of them. *)
DequesApart(d) ==
    \A v, w \in Worker : \A i \in 1 .. Size(d[v]), j \in 1 .. Size(d[w]) :
        d[v][i] = d[w][j] => v = w /\ i = j

(* Closure c is in none of the deques d, and how the changes above keep    *)
(* the deques of d apart.                                                  *)
NotIn(d, c) == \A v \in Worker : \A i \in 1 .. Size(d[v]) : d[v][i] # c

(* Taking the bottom or the top of a deque, or adding a closure that is in *)
(* none, keeps the deques apart.                                           *)
LEMMA ShortenedApart ==
    ASSUME NEW d \in [Worker -> Seq(Proc)], NEW e, NEW w \in Worker,
           Shortened(d, e, w), DequesApart(d)
    PROVE  /\ DequesApart(e) /\ NotIn(e, d[w][Size(d[w])])
           /\ \A c : NotIn(d, c) => NotIn(e, c)
<1>1. \A v \in Worker : \A i \in 1 .. Size(e[v]) :
         /\ i \in 1 .. Size(d[v]) /\ e[v][i] = d[v][i]
         /\ v = w => i # Size(d[w])
  BY DEF Shortened
<1>2. Size(d[w]) \in 1 .. Size(d[w])
  BY DEF Shortened
<1>3. DequesApart(e)
  <2> SUFFICES ASSUME NEW u \in Worker, NEW v \in Worker,
                      NEW i \in 1 .. Size(e[u]), NEW j \in 1 .. Size(e[v]),
                      e[u][i] = e[v][j]
               PROVE  u = v /\ i = j
    BY DEF DequesApart
  <2>1. /\ i \in 1 .. Size(d[u]) /\ j \in 1 .. Size(d[v])
        /\ d[u][i] = d[v][j]
    BY <1>1
  <2>q. QED
    BY <2>1 DEF DequesApart
<1>4. NotIn(e, d[w][Size(d[w])])
  BY <1>1, <1>2 DEF DequesApart, NotIn
<1>5. \A c : NotIn(d, c) => NotIn(e, c)
  BY <1>1 DEF NotIn
<1>q. QED
  BY <1>3, <1>4, <1>5

(* The same for the top. *)
LEMMA ToppedApart ==
    ASSUME NEW d \in [Worker -> Seq(Proc)], NEW e, NEW w \in Worker,
           Topped(d, e, w), DequesApart(d)
    PROVE  /\ DequesApart(e) /\ NotIn(e, d[w][1])
           /\ \A c : NotIn(d, c) => NotIn(e, c)
<1> DEFINE At(v, i) == IF v = w THEN i + 1 ELSE i
<1>1. \A v \in Worker : \A i \in 1 .. Size(e[v]) :
         /\ At(v, i) \in 1 .. Size(d[v]) /\ e[v][i] = d[v][At(v, i)]
         /\ v = w => At(v, i) # 1
  BY DEF Topped
<1>2. 1 \in 1 .. Size(d[w])
  BY DEF Topped
<1>3. DequesApart(e)
  <2> SUFFICES ASSUME NEW u \in Worker, NEW v \in Worker,
                      NEW i \in 1 .. Size(e[u]), NEW j \in 1 .. Size(e[v]),
                      e[u][i] = e[v][j]
               PROVE  u = v /\ i = j
    BY DEF DequesApart
  <2>1. d[u][At(u, i)] = d[v][At(v, j)]
    BY <1>1
  <2>2. u = v /\ At(u, i) = At(v, j)
    BY <1>1, <2>1 DEF DequesApart
  <2>q. QED
    BY <2>2
<1>4. NotIn(e, d[w][1])
  <2> HIDE DEF At
  <2>q. QED
    BY <1>1, <1>2 DEF DequesApart, NotIn
<1>5. \A c : NotIn(d, c) => NotIn(e, c)
  <2> HIDE DEF At
  <2>q. QED
    BY <1>1 DEF NotIn
<1>q. QED
  BY <1>3, <1>4, <1>5

(* The same for a new bottom. *)
LEMMA ExtendedApart ==
    ASSUME NEW d \in [Worker -> Seq(Proc)], NEW e, NEW w \in Worker, NEW k,
           Extended(d, e, w, k), DequesApart(d), NotIn(d, k)
    PROVE  DequesApart(e) /\ \A c : c # k /\ NotIn(d, c) => NotIn(e, c)
<1>1. \A v \in Worker : \A i \in 1 .. Size(e[v]) :
         \/ i \in 1 .. Size(d[v]) /\ e[v][i] = d[v][i]
         \/ v = w /\ i = Size(d[w]) + 1 /\ e[v][i] = k
  <2>1. Size(d[w]) \in Nat
    BY SeqFacts
  <2>2. ASSUME NEW i \in 1 .. Size(e[w])
        PROVE  \/ i \in 1 .. Size(d[w]) /\ e[w][i] = d[w][i]
               \/ i = Size(d[w]) + 1 /\ e[w][i] = k
    <3>1. i \in 1 .. Size(d[w]) + 1
      BY <2>2 DEF Extended
    <3>2. i \in 1 .. Size(d[w]) \/ i = Size(d[w]) + 1
      BY <2>1, <3>1
    <3>q. QED
      BY <3>2 DEF Extended
  <2>3. \A v \in Worker \ {w} : e[v] = d[v]
    BY DEF Extended
  <2>q. QED
    BY <2>2, <2>3
<1>2. DequesApart(e)
  BY <1>1 DEF DequesApart, NotIn
<1>3. \A c : c # k /\ NotIn(d, c) => NotIn(e, c)
  BY <1>1 DEF NotIn
<1>q. QED
  BY <1>2, <1>3

(* A thief leaves a new closure in the place of the one it takes. *)
Replaced(d, e, w, c, k) ==
    d[w] = <<c>> /\ e[w] = <<k>> /\ \A v \in Worker \ {w} : e[v] = d[v]

(* The same for a deque's one closure that another one replaces. *)
LEMMA ReplacedApart ==
    ASSUME NEW d \in [Worker -> Seq(Proc)], NEW e, NEW w \in Worker,
           NEW c \in Proc, NEW k \in Proc, k # c, Replaced(d, e, w, c, k),
           DequesApart(d), NotIn(d, k)
    PROVE  /\ DequesApart(e) /\ NotIn(e, c)
           /\ \A b : b # k /\ NotIn(d, b) => NotIn(e, b)
<1>1. /\ Size(d[w]) = 1 /\ Size(e[w]) = 1 /\ d[w][1] = c /\ e[w][1] = k
      /\ \A v \in Worker \ {w} : e[v] = d[v]
  <2>1. Size(<<k>>) = 1 /\ <<k>>[1] = k /\ Size(<<c>>) = 1 /\ <<c>>[1] = c
    BY SingleFacts
  <2>q. QED
    BY <2>1 DEF Replaced
<1>2. \A v \in Worker : \A i \in 1 .. Size(e[v]) :
         \/ v # w /\ i \in 1 .. Size(d[v]) /\ e[v][i] = d[v][i]
         \/ v = w /\ i = 1 /\ e[v][i] = k
  BY <1>1
<1>3. 1 \in 1 .. Size(d[w])
  BY <1>1
<1>4. DequesApart(e)
  BY <1>2 DEF DequesApart, NotIn
<1>5. NotIn(e, c)
  BY <1>1, <1>2, <1>3 DEF DequesApart, NotIn
<1>6. \A b : b # k /\ NotIn(d, b) => NotIn(e, b)
  BY <1>2 DEF NotIn
<1>q. QED
  BY <1>4, <1>5, <1>6

(* What is in a deque, in a hand or being returned is ready, running or    *)
(* returning.                                                              *)
LEMMA InPlaceStatus ==
    ASSUME IInv
    PROVE  /\ \A w \in Worker : \A i \in 1 .. Size(deque[w]) :
                 status[deque[w][i]] \in {"READY", "RUNNING", "RETURNING"}
           /\ \A w \in Worker : pc[w] \in HandPC /\ cl[w] # None =>
                 status[cl[w]] \in {"READY", "RUNNING", "RETURNING"}
           /\ \A w \in Worker : pc[w] \in ReturnPC =>
                 status[child[w]] = "RETURNING"
<1>1. ASSUME NEW w \in Worker, NEW i \in 1 .. Size(deque[w])
      PROVE  status[deque[w][i]] \in {"READY", "RUNNING", "RETURNING"}
  <2>1. Size(deque[w]) \in Nat /\ Bottom(w) = deque[w][Size(deque[w])]
        /\ deque[w] # <<>>
    BY <1>1, DequeFacts DEF IInv
  <2>2. i \in 1 .. Size(deque[w]) - 1 \/ i = Size(deque[w])
    BY <2>1
  <2>3. status[Bottom(w)] \in {"READY", "RUNNING", "RETURNING"}
    BY <2>1 DEF IInv, DequeInv, CurrentInv
  <2>q. QED
    BY <2>1, <2>2, <2>3 DEF IInv, DequeInv
<1>2. ASSUME NEW w \in Worker, pc[w] \in HandPC, cl[w] # None
      PROVE  status[cl[w]] \in {"READY", "RUNNING", "RETURNING"}
  BY <1>2 DEF IInv, InHandInv, StackInv, HandPC
<1>3. \A w \in Worker : pc[w] \in ReturnPC => status[child[w]] = "RETURNING"
  BY DEF IInv, ChildInv
<1>q. QED
  BY <1>1, <1>2, <1>3

(* Worker w has closure c in hand or is returning it; and no other worker  *)
(* has it, and no deque after the step.                                    *)
Carries(w, c) ==
    \/ pc[w] \in HandPC /\ cl[w] = c
    \/ pc[w] \in ReturnPC /\ child[w] = c

(* No other worker carries what w takes up, and each keeps what it         *)
(* carries, if w's step changes nobody else's pointers.                    *)
Uncarried(w, c) ==
    NotIn(deque', c) /\ \A u \in Worker \ {w} : ~Carries(u, c)
KeptApart ==
    DequesApart(deque') /\ \A c \in Proc : NotIn(deque, c) => NotIn(deque', c)

(* No closure is carried by two workers, or carried and in a deque.        *)
LEMMA CarriedApart ==
    ASSUME IInv
    PROVE  /\ DequesApart(deque)
           /\ \A w \in Worker, c \in Proc : Carries(w, c) =>
                 NotIn(deque, c) /\ \A u \in Worker \ {w} : ~Carries(u, c)
<1>1. DequesApart(deque)
  BY DEF IInv, PlacesApart, DequesApart
<1>2. ASSUME NEW w \in Worker, NEW c \in Proc, Carries(w, c) PROVE NotIn(deque, c)
  BY <1>2 DEF IInv, PlacesApart, NotIn, Carries
<1>3. ASSUME NEW w \in Worker, NEW c \in Proc, Carries(w, c), NEW u \in Worker \ {w}
      PROVE  ~Carries(u, c)
  <2>1. c # None
    BY BoundAssumption DEF Proc, None
  <2>q. QED
    BY <1>3, <2>1 DEF IInv, PlacesApart, Carries
<1>q. QED
  BY <1>1, <1>2, <1>3

(* A closure that is neither ready nor running nor returning is nowhere.   *)
LEMMA NowhereFacts ==
    ASSUME IInv, NEW c \in Proc,
           status[c] \notin {"READY", "RUNNING", "RETURNING"}
    PROVE  NotIn(deque, c) /\ \A u \in Worker : ~Carries(u, c)
<1>1. NotIn(deque, c)
  BY InPlaceStatus DEF NotIn
<1>2. c # None
  BY BoundAssumption DEF Proc, None
<1>3. \A u \in Worker : ~Carries(u, c)
  BY <1>2, InPlaceStatus DEF Carries
<1>q. QED
  BY <1>1, <1>3

(* Closure c is ready, running or returning; and some worker has it or     *)
(* some deque.                                                             *)
InPlay(c) == status[c] \in {"READY", "RUNNING", "RETURNING"}

(* A closure that is in play is in a deque or carried, and how the changes *)
(* above keep it found.                                                    *)
Found(c) == ~NotIn(deque, c) \/ \E w \in Worker : Carries(w, c)

(* What else is in a deque stays in it when the deque loses its bottom or  *)
(* its top, gets a closure, or exchanges its one closure for another.      *)
LEMMA ShortenedKeeps ==
    ASSUME NEW d \in [Worker -> Seq(Proc)], NEW e, NEW w \in Worker,
           Shortened(d, e, w), NEW c, c # d[w][Size(d[w])], ~NotIn(d, c)
    PROVE  ~NotIn(e, c)
<1>1. PICK v \in Worker : \E i \in 1 .. Size(d[v]) : d[v][i] = c
  BY DEF NotIn
<1>2. PICK i \in 1 .. Size(d[v]) : d[v][i] = c
  BY <1>1
<1>3. Size(d[v]) \in Nat
  BY SeqFacts
<1>4. i \in 1 .. Size(e[v]) /\ e[v][i] = c
  BY <1>2, <1>3 DEF Shortened
<1>q. QED
  BY <1>4 DEF NotIn

(* The same for the top. *)
LEMMA ToppedKeeps ==
    ASSUME NEW d \in [Worker -> Seq(Proc)], NEW e, NEW w \in Worker,
           Topped(d, e, w), NEW c, c # d[w][1], ~NotIn(d, c)
    PROVE  ~NotIn(e, c)
<1>1. PICK v \in Worker : \E i \in 1 .. Size(d[v]) : d[v][i] = c
  BY DEF NotIn
<1>2. PICK i \in 1 .. Size(d[v]) : d[v][i] = c
  BY <1>1
<1>3. Size(d[v]) \in Nat
  BY SeqFacts
<1>4. CASE v = w
  <2>1. i - 1 \in 1 .. Size(d[w]) - 1 /\ i - 1 + 1 = i
    BY <1>2, <1>3, <1>4
  <2>2. i - 1 \in 1 .. Size(e[w]) /\ e[w][i - 1] = d[w][i - 1 + 1]
    BY <2>1 DEF Topped
  <2>3. e[w][i - 1] = c
    BY <1>2, <1>4, <2>1, <2>2
  <2>q. QED
    BY <2>2, <2>3 DEF NotIn
<1>5. CASE v # w
  BY <1>2, <1>5 DEF Topped, NotIn
<1>q. QED
  BY <1>4, <1>5

(* The same for a new bottom. *)
LEMMA ExtendedKeeps ==
    ASSUME NEW d \in [Worker -> Seq(Proc)], NEW e, NEW w \in Worker, NEW k,
           Extended(d, e, w, k)
    PROVE  ~NotIn(e, k) /\ \A c : ~NotIn(d, c) => ~NotIn(e, c)
<1>1. Size(d[w]) \in Nat /\ \A v \in Worker : Size(d[v]) \in Nat
  BY SeqFacts
<1>2. ~NotIn(e, k)
  BY <1>1 DEF Extended, NotIn
<1>3. ASSUME NEW c, ~NotIn(d, c) PROVE ~NotIn(e, c)
  <2>1. PICK v \in Worker : \E i \in 1 .. Size(d[v]) : d[v][i] = c
    BY <1>3 DEF NotIn
  <2>2. PICK i \in 1 .. Size(d[v]) : d[v][i] = c
    BY <2>1
  <2>3. i \in 1 .. Size(e[v]) /\ e[v][i] = c
    BY <1>1, <2>2 DEF Extended
  <2>q. QED
    BY <2>3 DEF NotIn
<1>q. QED
  BY <1>2, <1>3

(* The same for a deque's one closure that another one replaces. *)
LEMMA ReplacedKeeps ==
    ASSUME NEW d \in [Worker -> Seq(Proc)], NEW e, NEW w \in Worker,
           NEW c \in Proc, NEW k \in Proc, Replaced(d, e, w, c, k)
    PROVE  ~NotIn(e, k) /\ \A b : b # c /\ ~NotIn(d, b) => ~NotIn(e, b)
<1>1. /\ Size(d[w]) = 1 /\ Size(e[w]) = 1 /\ d[w][1] = c /\ e[w][1] = k
      /\ \A v \in Worker \ {w} : e[v] = d[v]
  <2>1. Size(<<k>>) = 1 /\ <<k>>[1] = k /\ Size(<<c>>) = 1 /\ <<c>>[1] = c
    BY SingleFacts
  <2>q. QED
    BY <2>1 DEF Replaced
<1>2. ~NotIn(e, k)
  BY <1>1 DEF NotIn
<1>3. ASSUME NEW b, b # c, ~NotIn(d, b) PROVE ~NotIn(e, b)
  <2>1. PICK v \in Worker : \E i \in 1 .. Size(d[v]) : d[v][i] = b
    BY <1>3 DEF NotIn
  <2>2. v # w
    BY <1>1, <1>3, <2>1
  <2>q. QED
    BY <1>1, <2>1, <2>2 DEF NotIn
<1>q. QED
  BY <1>2, <1>3

(* Every step keeps the types. *)
LEMMA TypesStep ==
    ASSUME IInv, [Next]_vars
    PROVE  Types'
<1>a. Types
  BY DEF IInv
<1>b. None \notin Proc /\ Root \in Proc
  BY BoundAssumption DEF None, Proc, Root
<1> USE DEF Types
<1>1. ASSUME NEW w \in Worker, LeaveScheduler(w) PROVE Types'
  BY <1>a, <1>b, <1>1, BoundAssumption DEF LeaveScheduler, program, results,
     state, tree, locks, caches, Goto, Hand, LockClosure, UnlockClosure,
     LockDeque, UnlockDeque, UnlockBoth, SetStatus, PC, Status,
     MaybeResetAbort, Outcome, NO_ABORT, ABORT_ALL, ALMOST_NO_ABORT, AddChild
<1>2. ASSUME NEW w \in Worker, TakeOwn(w) PROVE Types'
  <2>1. TakeOwnDoes(w)
    BY <1>2, TakeOwnEffect
  <2>13. cl' \in [Worker -> Proc \cup {None}] /\ child' \in [Worker -> Proc
         \cup {None}]
    <3>1. cl' = cl \/ \E c \in Proc : cl' = [cl EXCEPT ![w] = c]
      BY <2>1 DEF TakeOwnDoes
    <3>2. cl' \in [Worker -> Proc \cup {None}]
      <4>1. CASE cl' = cl
        BY <1>a, <4>1
      <4>2. ASSUME NEW c \in Proc, cl' = [cl EXCEPT ![w] = c]
            PROVE  cl' \in [Worker -> Proc \cup {None}]
        BY <1>a, <4>2
      <4>q. QED
        BY <3>1, <4>1, <4>2
    <3>3. child' \in [Worker -> Proc \cup {None}]
      BY <1>a, <2>1 DEF TakeOwnDoes
    <3>q. QED
      BY <3>2, <3>3
  <2> USE <1>a, <1>b, <2>1, BoundAssumption DEF TakeOwnDoes, Shortened,
          Unmarked, PC, Status, Outcome, NO_ABORT, ABORT_ALL, ALMOST_NO_ABORT,
          AbortWaits, AbortReturns, AbortPops
  <2>2. created' \in Proc /\ parent' \in [Proc -> Proc \cup {None}] /\ alive'
        \subseteq Proc
    OBVIOUS
  <2>3. out' \in [Proc -> {"pending", "delivered", "discarded"}]
    OBVIOUS
  <2>4. aborts' \in 0 .. MaxAbort /\ done' \in BOOLEAN /\ DOMAIN join' = Proc
    OBVIOUS
  <2>5. status' \in [Proc -> Status]
    OBVIOUS
  <2>6. incomplete' \in [Proc -> SUBSET Proc]
    OBVIOUS
  <2>7. complete' \in [Proc -> Seq(Proc \cup {None})]
    OBVIOUS
  <2>8. abort' \in [Proc -> {ABORT_ALL, ALMOST_NO_ABORT, NO_ABORT}]
    OBVIOUS
  <2>9. cache' \in [Proc -> Worker \cup {None}] /\ clock' \in [Proc -> Worker
        \cup {None}]
    OBVIOUS
  <2>10. deque' \in [Worker -> Seq(Proc)] /\ stack' \in [Worker -> Seq(Proc)]
    OBVIOUS
  <2>11. dlock' \in [Worker -> Worker \cup {None}] /\ H' \in [Worker -> Nat] /\
         signalled' \in [Worker -> BOOLEAN]
    OBVIOUS
  <2>12. pc' \in [Worker -> PC] /\ victim' \in [Worker -> Worker \cup {None}]
    OBVIOUS
  <2>14. walk' \in [Worker -> Walks]
    OBVIOUS
  <2>q. QED
    BY <2>2, <2>3, <2>4, <2>5, <2>6, <2>7, <2>8, <2>9, <2>10, <2>11, <2>12,
       <2>13, <2>14
<1>3. ASSUME NEW w \in Worker, StealLockDeque(w) PROVE Types'
  <2> USE <1>a, <1>b, <1>3, BoundAssumption DEF StealLockDeque, program,
          results, state, tree, locks, caches, Goto, Hand, LockClosure,
          UnlockClosure, LockDeque, UnlockDeque, SetStatus, PC, Status,
          MaybeResetAbort, Outcome, AddChild, Peek
  <2>2. created' \in Proc /\ parent' \in [Proc -> Proc \cup {None}] /\ alive'
        \subseteq Proc
    OBVIOUS
  <2>3. out' \in [Proc -> {"pending", "delivered", "discarded"}]
    OBVIOUS
  <2>4. aborts' \in 0 .. MaxAbort /\ done' \in BOOLEAN /\ DOMAIN join' = Proc
    OBVIOUS
  <2>5. status' \in [Proc -> Status]
    OBVIOUS
  <2>6. incomplete' \in [Proc -> SUBSET Proc]
    OBVIOUS
  <2>7. complete' \in [Proc -> Seq(Proc \cup {None})]
    OBVIOUS
  <2>8. abort' \in [Proc -> {ABORT_ALL, ALMOST_NO_ABORT, NO_ABORT}]
    OBVIOUS
  <2>9. cache' \in [Proc -> Worker \cup {None}] /\ clock' \in [Proc -> Worker
        \cup {None}]
    OBVIOUS
  <2>10. deque' \in [Worker -> Seq(Proc)] /\ stack' \in [Worker -> Seq(Proc)]
    OBVIOUS
  <2>11. dlock' \in [Worker -> Worker \cup {None}] /\ H' \in [Worker -> Nat] /\
         signalled' \in [Worker -> BOOLEAN]
    OBVIOUS
  <2>12. pc' \in [Worker -> PC] /\ victim' \in [Worker -> Worker \cup {None}]
    OBVIOUS
  <2>13. cl' \in [Worker -> Proc \cup {None}] /\ child' \in [Worker -> Proc
         \cup {None}]
    OBVIOUS
  <2>14. walk' \in [Worker -> Walks]
    OBVIOUS
  <2>q. QED
    BY <2>2, <2>3, <2>4, <2>5, <2>6, <2>7, <2>8, <2>9, <2>10, <2>11, <2>12,
       <2>13, <2>14
<1>4. ASSUME NEW w \in Worker, StealLockClosure(w) PROVE Types'
  BY <1>a, <1>b, <1>4, BoundAssumption DEF StealLockClosure, program, results,
     state, tree, locks, caches, Goto, Hand, LockClosure, UnlockClosure,
     LockDeque, UnlockDeque, UnlockBoth, SetStatus, PC, Status,
     MaybeResetAbort, Outcome, NO_ABORT, ABORT_ALL, ALMOST_NO_ABORT, AddChild
<1>5. ASSUME NEW w \in Worker, StealGiveUp(w) PROVE Types'
  BY <1>a, <1>b, <1>5, BoundAssumption DEF StealGiveUp, program, results,
     state, tree, locks, caches, Goto, Hand, LockClosure, UnlockClosure,
     LockDeque, UnlockDeque, UnlockBoth, SetStatus, PC, Status,
     MaybeResetAbort, Outcome, NO_ABORT, ABORT_ALL, ALMOST_NO_ABORT, AddChild
<1>6. ASSUME NEW w \in Worker, StealUnlockDeque(w) PROVE Types'
  BY <1>a, <1>b, <1>6, BoundAssumption DEF StealUnlockDeque, program, results,
     state, tree, locks, caches, Goto, Hand, LockClosure, UnlockClosure,
     LockDeque, UnlockDeque, UnlockBoth, SetStatus, PC, Status,
     MaybeResetAbort, Outcome, NO_ABORT, ABORT_ALL, ALMOST_NO_ABORT, AddChild
<1>7. ASSUME NEW w \in Worker, StealReady(w) PROVE Types'
  <2>1. PICK v \in Worker \ {w}, c \in Proc :
          StealReadyDoes(w, v, c)
    BY <1>7, StealReadyEffect
  <2>q. QED
    BY <1>a, <1>b, <2>1, BoundAssumption DEF StealReadyDoes, Shortened, Topped,
       Extended, Unmarked, PC, Status, Outcome, InletSplits, NO_ABORT,
       ABORT_ALL, ALMOST_NO_ABORT, AbortWaits, AbortReturns, AbortPops
<1>8. ASSUME NEW w \in Worker, StealPromote(w) PROVE Types'
  <2>1. PICK v \in Worker \ {w}, c \in Proc, k \in Proc :
          StealPromoteDoes(w, v, c, k)
    BY <1>8, StealPromoteEffect
  <2>10. deque' \in [Worker -> Seq(Proc)] /\ stack' \in [Worker -> Seq(Proc)]
    <3>1. deque' = [deque EXCEPT ![v] = <<k>>] /\ stack' = stack
      BY <2>1 DEF StealPromoteDoes
    <3>2. <<k>> \in Seq(Proc)
      BY SingleFacts
    <3>q. QED
      BY <1>a, <3>1, <3>2
  <2>11. dlock' \in [Worker -> Worker \cup {None}] /\ H' \in [Worker -> Nat] /\
         signalled' \in [Worker -> BOOLEAN]
    <3>1. dlock' = [dlock EXCEPT ![v] = None] /\ H' = [H EXCEPT ![v] = @ + 1]
          /\ signalled' = signalled
      BY <2>1 DEF StealPromoteDoes
    <3>q. QED
      BY <1>a, <1>b, <3>1
  <2> USE <1>a, <1>b, <2>1, BoundAssumption DEF StealPromoteDoes, Shortened,
          Unmarked, PC, Status, Outcome, NO_ABORT, ABORT_ALL, ALMOST_NO_ABORT,
          AbortWaits, AbortReturns, AbortPops
  <2>2. created' \in Proc /\ parent' \in [Proc -> Proc \cup {None}] /\ alive'
        \subseteq Proc
    OBVIOUS
  <2>3. out' \in [Proc -> {"pending", "delivered", "discarded"}]
    OBVIOUS
  <2>4. aborts' \in 0 .. MaxAbort /\ done' \in BOOLEAN /\ DOMAIN join' = Proc
    OBVIOUS
  <2>5. status' \in [Proc -> Status]
    OBVIOUS
  <2>6. incomplete' \in [Proc -> SUBSET Proc]
    OBVIOUS
  <2>7. complete' \in [Proc -> Seq(Proc \cup {None})]
    OBVIOUS
  <2>8. abort' \in [Proc -> {ABORT_ALL, ALMOST_NO_ABORT, NO_ABORT}]
    OBVIOUS
  <2>9. cache' \in [Proc -> Worker \cup {None}] /\ clock' \in [Proc -> Worker
        \cup {None}]
    OBVIOUS
  <2>12. pc' \in [Worker -> PC] /\ victim' \in [Worker -> Worker \cup {None}]
    OBVIOUS
  <2>13. cl' \in [Worker -> Proc \cup {None}] /\ child' \in [Worker -> Proc
         \cup {None}]
    OBVIOUS
  <2>14. walk' \in [Worker -> Walks]
    OBVIOUS
  <2>q. QED
    BY <2>2, <2>3, <2>4, <2>5, <2>6, <2>7, <2>8, <2>9, <2>10, <2>11, <2>12,
       <2>13, <2>14
<1>9. ASSUME NEW w \in Worker, StealFinish(w) PROVE Types'
  <2>6. incomplete' \in [Proc -> SUBSET Proc]
    <3>1. cl[w] \in Proc /\ child[w] \in Proc
      BY <1>a, <1>9 DEF StealFinish, IInv, ClosureLocks, LockPC, ChildInv
    <3>2. incomplete' = [incomplete EXCEPT ![cl[w]] = @ \cup {child[w]}]
      BY <1>9 DEF StealFinish, AddChild
    <3>q. QED
      BY <1>a, <3>1, <3>2
  <2> USE <1>a, <1>b, <1>9, BoundAssumption DEF StealFinish, program, results,
          state, tree, locks, caches, Goto, Hand, LockClosure, UnlockClosure,
          LockDeque, UnlockDeque, SetStatus, PC, Status, MaybeResetAbort,
          Outcome, AddChild, Peek
  <2>2. created' \in Proc /\ parent' \in [Proc -> Proc \cup {None}] /\ alive'
        \subseteq Proc
    OBVIOUS
  <2>3. out' \in [Proc -> {"pending", "delivered", "discarded"}]
    OBVIOUS
  <2>4. aborts' \in 0 .. MaxAbort /\ done' \in BOOLEAN /\ DOMAIN join' = Proc
    OBVIOUS
  <2>5. status' \in [Proc -> Status]
    OBVIOUS
  <2>7. complete' \in [Proc -> Seq(Proc \cup {None})]
    OBVIOUS
  <2>8. abort' \in [Proc -> {ABORT_ALL, ALMOST_NO_ABORT, NO_ABORT}]
    OBVIOUS
  <2>9. cache' \in [Proc -> Worker \cup {None}] /\ clock' \in [Proc -> Worker
        \cup {None}]
    OBVIOUS
  <2>10. deque' \in [Worker -> Seq(Proc)] /\ stack' \in [Worker -> Seq(Proc)]
    OBVIOUS
  <2>11. dlock' \in [Worker -> Worker \cup {None}] /\ H' \in [Worker -> Nat] /\
         signalled' \in [Worker -> BOOLEAN]
    OBVIOUS
  <2>12. pc' \in [Worker -> PC] /\ victim' \in [Worker -> Worker \cup {None}]
    OBVIOUS
  <2>13. cl' \in [Worker -> Proc \cup {None}] /\ child' \in [Worker -> Proc
         \cup {None}]
    OBVIOUS
  <2>14. walk' \in [Worker -> Walks]
    OBVIOUS
  <2>q. QED
    BY <2>2, <2>3, <2>4, <2>5, <2>6, <2>7, <2>8, <2>9, <2>10, <2>11, <2>12,
       <2>13, <2>14
<1>10. ASSUME NEW w \in Worker, InletKilled(w) PROVE Types'
  <2>1. cl[w] \in Proc /\ complete[cl[w]] \in Seq(Proc \cup {None}) /\
        complete[cl[w]] # <<>>
    BY <1>a, <1>b, <1>10 DEF InletKilled, Polls, IInv, ClosureLocks, LockPC
  <2>2. Tail(complete[cl[w]]) \in Seq(Proc \cup {None})
    BY <2>1, HeadFacts
  <2>3. complete' \in [Proc -> Seq(Proc \cup {None})]
    BY <1>a, <1>b, <1>10, <2>1, <2>2 DEF InletKilled
  <2>q. QED
    BY <1>a, <1>b, <1>10, <2>3 DEF InletKilled, Outcome, program, state, locks,
       caches
<1>11. ASSUME NEW w \in Worker, InletRuns(w) PROVE Types'
  <2>1. cl[w] \in Proc /\ complete[cl[w]] \in Seq(Proc \cup {None}) /\
        complete[cl[w]] # <<>>
    BY <1>a, <1>b, <1>11 DEF InletRuns, Polls, IInv, ClosureLocks, LockPC
  <2>2. Tail(complete[cl[w]]) \in Seq(Proc \cup {None})
    BY <2>1, HeadFacts
  <2>3. complete' \in [Proc -> Seq(Proc \cup {None})]
    BY <1>a, <1>b, <1>11, <2>1, <2>2 DEF InletRuns
  <2>q. QED
    BY <1>a, <1>b, <1>11, <2>3 DEF InletRuns, Outcome, program, state, locks,
       caches
<1>12. ASSUME NEW w \in Worker, InletAborts(w) PROVE Types'
  <2>1. PICK c \in Proc, r \in SUBSET Proc :
          InletAbortsDoes(w, c, r)
    BY <1>12, InletAbortsEffect
  <2>4. aborts' \in 0 .. MaxAbort /\ done' \in BOOLEAN /\ DOMAIN join' = Proc
    <3>1. /\ Head(complete[c]) = None \/ aborts < MaxAbort
          /\ aborts' = IF Head(complete[c]) = None THEN aborts ELSE aborts + 1
      BY <2>1 DEF InletAbortsDoes
    <3>2. aborts' \in 0 .. MaxAbort
      BY <1>a, <3>1, BoundAssumption
    <3>3. done' = done /\ (join' = join \/ join' = [join EXCEPT ![c] = @ + 1])
      BY <2>1 DEF InletAbortsDoes, InletSplits
    <3>4. done' \in BOOLEAN /\ DOMAIN join' = Proc
      BY <1>a, <3>3
    <3>q. QED
      BY <3>2, <3>4
  <2>5. status' \in [Proc -> Status]
    <3>1. \/ status' = status
          \/ \E k \in Proc : status' = [status EXCEPT ![k] = "RUNNING", ![c] = "READY"]
      BY <2>1 DEF InletAbortsDoes, InletSplits
    <3>q. QED
      BY <1>a, <1>b, <3>1 DEF Status
  <2>6. incomplete' \in [Proc -> SUBSET Proc]
    <3>1. \/ incomplete' = incomplete
          \/ \E k \in Proc : incomplete' = [incomplete EXCEPT ![c] = @ \cup {k}]
      BY <2>1 DEF InletAbortsDoes, InletSplits
    <3>2. ASSUME NEW k \in Proc, incomplete' = [incomplete EXCEPT ![c] = @ \cup
          {k}]
          PROVE  incomplete' \in [Proc -> SUBSET Proc]
      BY <1>a, <3>2
    <3>q. QED
      BY <1>a, <3>1, <3>2
  <2>7. complete' \in [Proc -> Seq(Proc \cup {None})]
    <3>1. /\ complete[c] \in Seq(Proc \cup {None}) /\ complete[c] # <<>>
          /\ complete' = [complete EXCEPT ![c] = Tail(@)]
      BY <1>a, <2>1 DEF InletAbortsDoes
    <3>2. Tail(complete[c]) \in Seq(Proc \cup {None})
      BY <3>1, HeadFacts
    <3>q. QED
      BY <1>a, <3>1, <3>2
  <2>9. cache' \in [Proc -> Worker \cup {None}] /\ clock' \in [Proc -> Worker
        \cup {None}]
    <3>1. /\ \/ cache' = cache
             \/ \E k \in Proc : cache' = [cache EXCEPT ![k] = w, ![c] = None]
          /\ clock' = clock
      BY <2>1 DEF InletAbortsDoes, InletSplits
    <3>2. ASSUME NEW k \in Proc, cache' = [cache EXCEPT ![k] = w, ![c] = None]
          PROVE  cache' \in [Proc -> Worker \cup {None}]
      BY <1>a, <3>2
    <3>q. QED
      BY <1>a, <3>1, <3>2
  <2>10. deque' \in [Worker -> Seq(Proc)] /\ stack' \in [Worker -> Seq(Proc)]
    <3>1. /\ \/ deque' = deque
             \/ \E k \in Proc : deque' = [deque EXCEPT ![w] = Append(@, k)]
          /\ stack' = stack
      BY <2>1 DEF InletAbortsDoes, InletSplits
    <3>2. \A k \in Proc : deque' = [deque EXCEPT ![w] = Append(@, k)] =>
             deque' \in [Worker -> Seq(Proc)]
      BY <1>a, ExtendedFacts DEF Extended
    <3>q. QED
      BY <1>a, <3>1, <3>2
  <2>11. dlock' \in [Worker -> Worker \cup {None}] /\ H' \in [Worker -> Nat] /\
         signalled' \in [Worker -> BOOLEAN]
    <3>1. /\ H' = H \/ H' = [H EXCEPT ![w] = 1]
          /\ \/ signalled' = signalled
             \/ signalled' = [signalled EXCEPT ![cache[c]] = TRUE]
          /\ dlock' = dlock
      BY <2>1 DEF InletAbortsDoes, InletSplits
    <3>2. H \in [Worker -> Nat] /\ signalled \in [Worker -> BOOLEAN]
      BY <1>a
    <3>3. H' \in [Worker -> Nat]
      BY <3>1, <3>2
    <3>4. signalled' \in [Worker -> BOOLEAN]
      BY <3>1, <3>2
    <3>q. QED
      BY <1>a, <3>1, <3>3, <3>4
  <2>14. walk' \in [Worker -> Walks]
    <3>1. walk' = [walk EXCEPT ![w] = <<[at |-> c, rest |-> r]>>]
      BY <2>1 DEF InletAbortsDoes
    <3>2. <<[at |-> c, rest |-> r]>> \in Walks
      BY SingleFacts DEF Walks
    <3>q. QED
      BY <1>a, <3>1, <3>2
  <2> USE <1>a, <1>b, <2>1, BoundAssumption DEF InletAbortsDoes, Shortened,
          Unmarked, PC, Status, Outcome, NO_ABORT, ABORT_ALL, ALMOST_NO_ABORT,
          AbortWaits, AbortReturns, AbortPops
  <2>2. created' \in Proc /\ parent' \in [Proc -> Proc \cup {None}] /\ alive'
        \subseteq Proc
    OBVIOUS
  <2>3. out' \in [Proc -> {"pending", "delivered", "discarded"}]
    OBVIOUS
  <2>8. abort' \in [Proc -> {ABORT_ALL, ALMOST_NO_ABORT, NO_ABORT}]
    OBVIOUS
  <2>12. pc' \in [Worker -> PC] /\ victim' \in [Worker -> Worker \cup {None}]
    OBVIOUS
  <2>13. cl' \in [Worker -> Proc \cup {None}] /\ child' \in [Worker -> Proc
         \cup {None}]
    OBVIOUS
  <2>q. QED
    BY <2>2, <2>3, <2>4, <2>5, <2>6, <2>7, <2>8, <2>9, <2>10, <2>11, <2>12,
       <2>13, <2>14
<1>13. ASSUME NEW w \in Worker, WalkDown(w) PROVE Types'
  <2>1. PICK n \in Nat \ {0}, k \in Proc :
          WalkDownDoes(w, n, k)
    BY <1>13, WalkDownEffect
  <2>q. QED
    BY <1>a, <1>b, <2>1, BoundAssumption DEF WalkDownDoes, Shortened, Topped,
       Extended, Unmarked, PC, Status, Outcome, InletSplits, NO_ABORT,
       ABORT_ALL, ALMOST_NO_ABORT, AbortWaits, AbortReturns, AbortPops
<1>14. ASSUME NEW w \in Worker, WalkUp(w) PROVE Types'
  <2>1. PICK n \in Nat \ {0} :
          WalkUpDoes(w, n)
    BY <1>14, WalkUpEffect
  <2>q. QED
    BY <1>a, <1>b, <2>1, BoundAssumption DEF WalkUpDoes, Shortened, Topped,
       Extended, Unmarked, PC, Status, Outcome, InletSplits, NO_ABORT,
       ABORT_ALL, ALMOST_NO_ABORT, AbortWaits, AbortReturns, AbortPops
<1>15. ASSUME NEW w \in Worker, AbortReadyClosure(w) PROVE Types'
  <2>1. UNCHANGED <<created, parent, aborts, done, abort, cache, join, incomplete,
                    complete, clock, dlock, stack, H, signalled, deque, pc, child,
                    victim, walk>>
    BY <1>15 DEF AbortReadyClosure, program, tree, locks, caches
  <2>2. \/ status' = [status EXCEPT ![cl[w]] = "SUSPENDED"]
        \/ status' = [status EXCEPT ![cl[w]] = "RETURNING"]
    BY <1>15 DEF AbortReadyClosure, SetStatus
  <2>3. status' \in [Proc -> Status]
    BY <1>a, <2>2 DEF Status
  <2>4. \/ UNCHANGED <<alive, out>>
        \/ /\ alive' = alive \ {cl[w]}
           /\ out' = [g \in Proc |-> IF g = cl[w] THEN "discarded" ELSE out[g]]
    BY <1>15 DEF AbortReadyClosure, results, Outcome
  <2>5. alive' \subseteq Proc /\ out' \in [Proc -> {"pending", "delivered", "discarded"}]
    BY <1>a, <2>4
  <2>6. cl' = cl \/ cl' = [cl EXCEPT ![w] = None]
    BY <1>15 DEF AbortReadyClosure, Hand
  <2>7. cl' \in [Worker -> Proc \cup {None}]
    BY <1>a, <2>6
  <2>q. QED
    BY <1>a, <2>1, <2>3, <2>5, <2>7
<1>16. ASSUME NEW w \in Worker, Setup(w) PROVE Types'
  BY <1>a, <1>b, <1>16, BoundAssumption DEF Setup, program, results, state,
     tree, locks, caches, Goto, Hand, LockClosure, UnlockClosure, LockDeque,
     UnlockDeque, UnlockBoth, SetStatus, PC, Status, MaybeResetAbort, Outcome,
     NO_ABORT, ABORT_ALL, ALMOST_NO_ABORT, AddChild
<1>17. ASSUME NEW w \in Worker, SetupDone(w) PROVE Types'
  BY <1>a, <1>b, <1>17, BoundAssumption DEF SetupDone, program, results, state,
     tree, locks, caches, Goto, Hand, LockClosure, UnlockClosure, LockDeque,
     UnlockDeque, UnlockBoth, SetStatus, PC, Status, MaybeResetAbort, Outcome,
     NO_ABORT, ABORT_ALL, ALMOST_NO_ABORT, AddChild
<1>18. ASSUME NEW w \in Worker, Execute(w) PROVE Types'
  <2>1. PICK c \in Proc :
          ExecuteDoes(w, c)
    BY <1>18, ExecuteEffect
  <2>q. QED
    BY <1>a, <1>b, <2>1, BoundAssumption DEF ExecuteDoes, Shortened, Topped,
       Extended, Unmarked, PC, Status, Outcome, InletSplits, NO_ABORT,
       ABORT_ALL, ALMOST_NO_ABORT, AbortWaits, AbortReturns, AbortPops
<1>19. ASSUME NEW w \in Worker, ReturnLockParent(w) PROVE Types'
  <2>1. PICK k \in Proc, p \in Proc :
          ReturnLockParentDoes(w, k, p)
    BY <1>19, ReturnLockParentEffect
  <2>q. QED
    BY <1>a, <1>b, <2>1, BoundAssumption DEF ReturnLockParentDoes, Shortened,
       Topped, Extended, Unmarked, PC, Status, Outcome, InletSplits, NO_ABORT,
       ABORT_ALL, ALMOST_NO_ABORT, AbortWaits, AbortReturns, AbortPops
<1>20. ASSUME NEW w \in Worker, ReturnEnqueue(w) PROVE Types'
  <2>1. PICK k \in Proc, p \in Proc :
          ReturnEnqueueDoes(w, k, p)
    BY <1>20, ReturnEnqueueEffect
  <2>7. complete' \in [Proc -> Seq(Proc \cup {None})]
    <3>1. complete' = complete \/ complete' = [complete EXCEPT ![p] = <<k>> \o
          @]
      BY <2>1 DEF ReturnEnqueueDoes
    <3>2. complete[p] \in Seq(Proc \cup {None}) /\ k \in Proc \cup {None}
      BY <1>a
    <3>3. <<k>> \o complete[p] \in Seq(Proc \cup {None})
      BY <3>2, ConsFacts
    <3>q. QED
      BY <1>a, <3>1, <3>3
  <2> USE <1>a, <1>b, <2>1, BoundAssumption DEF ReturnEnqueueDoes, Shortened,
          Unmarked, PC, Status, Outcome, NO_ABORT, ABORT_ALL, ALMOST_NO_ABORT,
          AbortWaits, AbortReturns, AbortPops
  <2>2. created' \in Proc /\ parent' \in [Proc -> Proc \cup {None}] /\ alive'
        \subseteq Proc
    OBVIOUS
  <2>3. out' \in [Proc -> {"pending", "delivered", "discarded"}]
    OBVIOUS
  <2>4. aborts' \in 0 .. MaxAbort /\ done' \in BOOLEAN /\ DOMAIN join' = Proc
    OBVIOUS
  <2>5. status' \in [Proc -> Status]
    OBVIOUS
  <2>6. incomplete' \in [Proc -> SUBSET Proc]
    OBVIOUS
  <2>8. abort' \in [Proc -> {ABORT_ALL, ALMOST_NO_ABORT, NO_ABORT}]
    OBVIOUS
  <2>9. cache' \in [Proc -> Worker \cup {None}] /\ clock' \in [Proc -> Worker
        \cup {None}]
    OBVIOUS
  <2>10. deque' \in [Worker -> Seq(Proc)] /\ stack' \in [Worker -> Seq(Proc)]
    OBVIOUS
  <2>11. dlock' \in [Worker -> Worker \cup {None}] /\ H' \in [Worker -> Nat] /\
         signalled' \in [Worker -> BOOLEAN]
    OBVIOUS
  <2>12. pc' \in [Worker -> PC] /\ victim' \in [Worker -> Worker \cup {None}]
    OBVIOUS
  <2>13. cl' \in [Worker -> Proc \cup {None}] /\ child' \in [Worker -> Proc
         \cup {None}]
    OBVIOUS
  <2>14. walk' \in [Worker -> Walks]
    OBVIOUS
  <2>q. QED
    BY <2>2, <2>3, <2>4, <2>5, <2>6, <2>7, <2>8, <2>9, <2>10, <2>11, <2>12,
       <2>13, <2>14
<1>21. ASSUME NEW w \in Worker, ReturnDone(w) PROVE Types'
  <2>1. PICK k \in Proc, p \in Proc :
          ReturnDoneDoes(w, k, p)
    BY <1>21, ReturnDoneEffect
  <2> USE <1>a, <1>b, <2>1, BoundAssumption DEF ReturnDoneDoes, Shortened,
          Unmarked, PC, Status, Outcome, NO_ABORT, ABORT_ALL, ALMOST_NO_ABORT,
          AbortWaits, AbortReturns, AbortPops
  <2>2. created' \in Proc /\ parent' \in [Proc -> Proc \cup {None}] /\ alive'
        \subseteq Proc
    OBVIOUS
  <2>3. out' \in [Proc -> {"pending", "delivered", "discarded"}]
    OBVIOUS
  <2>4. aborts' \in 0 .. MaxAbort /\ done' \in BOOLEAN /\ DOMAIN join' = Proc
    OBVIOUS
  <2>5. status' \in [Proc -> Status]
    OBVIOUS
  <2>6. incomplete' \in [Proc -> SUBSET Proc]
    OBVIOUS
  <2>7. complete' \in [Proc -> Seq(Proc \cup {None})]
    OBVIOUS
  <2>8. abort' \in [Proc -> {ABORT_ALL, ALMOST_NO_ABORT, NO_ABORT}]
    OBVIOUS
  <2>9. cache' \in [Proc -> Worker \cup {None}] /\ clock' \in [Proc -> Worker
        \cup {None}]
    OBVIOUS
  <2>10. deque' \in [Worker -> Seq(Proc)] /\ stack' \in [Worker -> Seq(Proc)]
    OBVIOUS
  <2>11. dlock' \in [Worker -> Worker \cup {None}] /\ H' \in [Worker -> Nat] /\
         signalled' \in [Worker -> BOOLEAN]
    OBVIOUS
  <2>12. pc' \in [Worker -> PC] /\ victim' \in [Worker -> Worker \cup {None}]
    OBVIOUS
  <2>13. cl' \in [Worker -> Proc \cup {None}] /\ child' \in [Worker -> Proc
         \cup {None}]
    OBVIOUS
  <2>14. walk' \in [Worker -> Walks]
    OBVIOUS
  <2>q. QED
    BY <2>2, <2>3, <2>4, <2>5, <2>6, <2>7, <2>8, <2>9, <2>10, <2>11, <2>12,
       <2>13, <2>14
<1>22. ASSUME NEW w \in Worker, Spawn(w) PROVE Types'
  <2>1. PICK c \in Proc, f \in Proc :
          SpawnDoes(w, c, f)
    BY <1>22, SpawnEffect
  <2>q. QED
    BY <1>a, <1>b, <2>1, BoundAssumption DEF SpawnDoes, Shortened, Topped,
       Extended, Unmarked, PC, Status, Outcome, InletSplits, NO_ABORT,
       ABORT_ALL, ALMOST_NO_ABORT, AbortWaits, AbortReturns, AbortPops
<1>23. ASSUME NEW w \in Worker, ReturnFast(w) PROVE Types'
  <2>1. PICK f \in Proc :
          ReturnFastDoes(w, f)
    BY <1>23, ReturnFastEffect
  <2>q. QED
    BY <1>a, <1>b, <2>1, BoundAssumption DEF ReturnFastDoes, Shortened, Topped,
       Extended, Unmarked, PC, Status, Outcome, InletSplits, NO_ABORT,
       ABORT_ALL, ALMOST_NO_ABORT, AbortWaits, AbortReturns, AbortPops
<1>24. ASSUME NEW w \in Worker, PopResult(w) PROVE Types'
  BY <1>a, <1>b, <1>24, BoundAssumption DEF PopResult, program, results, state,
     tree, locks, caches, Goto, Hand, LockClosure, UnlockClosure, LockDeque,
     UnlockDeque, UnlockBoth, SetStatus, PC, Status, MaybeResetAbort, Outcome,
     NO_ABORT, ABORT_ALL, ALMOST_NO_ABORT, AddChild
<1>25. ASSUME NEW w \in Worker, LockOwnDeque(w) PROVE Types'
  <2> USE <1>a, <1>b, <1>25, BoundAssumption DEF LockOwnDeque, program,
          results, state, tree, locks, caches, Goto, Hand, LockClosure,
          UnlockClosure, LockDeque, UnlockDeque, SetStatus, PC, Status,
          MaybeResetAbort, Outcome, AddChild, Peek
  <2>2. created' \in Proc /\ parent' \in [Proc -> Proc \cup {None}] /\ alive'
        \subseteq Proc
    OBVIOUS
  <2>3. out' \in [Proc -> {"pending", "delivered", "discarded"}]
    OBVIOUS
  <2>4. aborts' \in 0 .. MaxAbort /\ done' \in BOOLEAN /\ DOMAIN join' = Proc
    OBVIOUS
  <2>5. status' \in [Proc -> Status]
    OBVIOUS
  <2>6. incomplete' \in [Proc -> SUBSET Proc]
    OBVIOUS
  <2>7. complete' \in [Proc -> Seq(Proc \cup {None})]
    OBVIOUS
  <2>8. abort' \in [Proc -> {ABORT_ALL, ALMOST_NO_ABORT, NO_ABORT}]
    OBVIOUS
  <2>9. cache' \in [Proc -> Worker \cup {None}] /\ clock' \in [Proc -> Worker
        \cup {None}]
    OBVIOUS
  <2>10. deque' \in [Worker -> Seq(Proc)] /\ stack' \in [Worker -> Seq(Proc)]
    OBVIOUS
  <2>11. dlock' \in [Worker -> Worker \cup {None}] /\ H' \in [Worker -> Nat] /\
         signalled' \in [Worker -> BOOLEAN]
    OBVIOUS
  <2>12. pc' \in [Worker -> PC] /\ victim' \in [Worker -> Worker \cup {None}]
    OBVIOUS
  <2>13. cl' \in [Worker -> Proc \cup {None}] /\ child' \in [Worker -> Proc
         \cup {None}]
    OBVIOUS
  <2>14. walk' \in [Worker -> Walks]
    OBVIOUS
  <2>q. QED
    BY <2>2, <2>3, <2>4, <2>5, <2>6, <2>7, <2>8, <2>9, <2>10, <2>11, <2>12,
       <2>13, <2>14
<1>26. ASSUME NEW w \in Worker, LockBottom(w) PROVE Types'
  <2>1. PICK c \in Proc :
          LockBottomDoes(w, c)
    BY <1>26, LockBottomEffect
  <2>14. walk' \in [Worker -> Walks]
    <3>1. walk' = walk \/ walk' = [walk EXCEPT ![w] = <<[at |-> c, rest |->
          incomplete[c]]>>]
      BY <2>1 DEF LockBottomDoes
    <3>2. [at |-> c, rest |-> incomplete[c]] \in [at : Proc, rest : SUBSET
          Proc]
      BY <1>a
    <3>3. <<[at |-> c, rest |-> incomplete[c]]>> \in Walks
      BY <3>2, SingleFacts DEF Walks
    <3>q. QED
      BY <1>a, <3>1, <3>3
  <2> USE <1>a, <1>b, <2>1, BoundAssumption DEF LockBottomDoes, Shortened,
          Unmarked, PC, Status, Outcome, NO_ABORT, ABORT_ALL, ALMOST_NO_ABORT,
          AbortWaits, AbortReturns, AbortPops
  <2>2. created' \in Proc /\ parent' \in [Proc -> Proc \cup {None}] /\ alive'
        \subseteq Proc
    OBVIOUS
  <2>3. out' \in [Proc -> {"pending", "delivered", "discarded"}]
    OBVIOUS
  <2>4. aborts' \in 0 .. MaxAbort /\ done' \in BOOLEAN /\ DOMAIN join' = Proc
    OBVIOUS
  <2>5. status' \in [Proc -> Status]
    OBVIOUS
  <2>6. incomplete' \in [Proc -> SUBSET Proc]
    OBVIOUS
  <2>7. complete' \in [Proc -> Seq(Proc \cup {None})]
    OBVIOUS
  <2>8. abort' \in [Proc -> {ABORT_ALL, ALMOST_NO_ABORT, NO_ABORT}]
    OBVIOUS
  <2>9. cache' \in [Proc -> Worker \cup {None}] /\ clock' \in [Proc -> Worker
        \cup {None}]
    OBVIOUS
  <2>10. deque' \in [Worker -> Seq(Proc)] /\ stack' \in [Worker -> Seq(Proc)]
    OBVIOUS
  <2>11. dlock' \in [Worker -> Worker \cup {None}] /\ H' \in [Worker -> Nat] /\
         signalled' \in [Worker -> BOOLEAN]
    OBVIOUS
  <2>12. pc' \in [Worker -> PC] /\ victim' \in [Worker -> Worker \cup {None}]
    OBVIOUS
  <2>13. cl' \in [Worker -> Proc \cup {None}] /\ child' \in [Worker -> Proc
         \cup {None}]
    OBVIOUS
  <2>q. QED
    BY <2>2, <2>3, <2>4, <2>5, <2>6, <2>7, <2>8, <2>9, <2>10, <2>11, <2>12,
       <2>13, <2>14
<1>27. ASSUME NEW w \in Worker, Sync(w) PROVE Types'
  <2>1. PICK c \in Proc :
          SyncDoes(w, c)
    BY <1>27, SyncEffect
  <2>10. deque' \in [Worker -> Seq(Proc)] /\ stack' \in [Worker -> Seq(Proc)]
    <3>1. /\ deque' = deque \/ deque' \in [Worker -> Seq(Proc)]
          /\ stack' = stack \/ stack' = [stack EXCEPT ![w] = <<>>]
      BY <2>1 DEF SyncDoes, Shortened
    <3>2. <<>> \in Seq(Proc)
      BY EmptySeq
    <3>q. QED
      BY <1>a, <3>1, <3>2
  <2>12. pc' \in [Worker -> PC] /\ victim' \in [Worker -> Worker \cup {None}]
    <3>1. (pc' = [pc EXCEPT ![w] = "loop"] \/ pc' = [pc EXCEPT ![w] =
          "synced"]) /\ victim' = victim
      BY <2>1 DEF SyncDoes
    <3>q. QED
      BY <1>a, <3>1 DEF PC
  <2> USE <1>a, <1>b, <2>1, BoundAssumption DEF SyncDoes, Shortened, Unmarked,
          PC, Status, Outcome, NO_ABORT, ABORT_ALL, ALMOST_NO_ABORT,
          AbortWaits, AbortReturns, AbortPops
  <2>2. created' \in Proc /\ parent' \in [Proc -> Proc \cup {None}] /\ alive'
        \subseteq Proc
    OBVIOUS
  <2>3. out' \in [Proc -> {"pending", "delivered", "discarded"}]
    OBVIOUS
  <2>4. aborts' \in 0 .. MaxAbort /\ done' \in BOOLEAN /\ DOMAIN join' = Proc
    OBVIOUS
  <2>5. status' \in [Proc -> Status]
    OBVIOUS
  <2>6. incomplete' \in [Proc -> SUBSET Proc]
    OBVIOUS
  <2>7. complete' \in [Proc -> Seq(Proc \cup {None})]
    OBVIOUS
  <2>8. abort' \in [Proc -> {ABORT_ALL, ALMOST_NO_ABORT, NO_ABORT}]
    OBVIOUS
  <2>9. cache' \in [Proc -> Worker \cup {None}] /\ clock' \in [Proc -> Worker
        \cup {None}]
    OBVIOUS
  <2>11. dlock' \in [Worker -> Worker \cup {None}] /\ H' \in [Worker -> Nat] /\
         signalled' \in [Worker -> BOOLEAN]
    OBVIOUS
  <2>13. cl' \in [Worker -> Proc \cup {None}] /\ child' \in [Worker -> Proc
         \cup {None}]
    OBVIOUS
  <2>14. walk' \in [Worker -> Walks]
    OBVIOUS
  <2>q. QED
    BY <2>2, <2>3, <2>4, <2>5, <2>6, <2>7, <2>8, <2>9, <2>10, <2>11, <2>12,
       <2>13, <2>14
<1>28. ASSUME NEW w \in Worker, AbortSlow(w) PROVE Types'
  BY <1>a, <1>b, <1>28, BoundAssumption DEF AbortSlow, program, results, state,
     tree, locks, caches, Goto, Hand, LockClosure, UnlockClosure, LockDeque,
     UnlockDeque, UnlockBoth, SetStatus, PC, Status, MaybeResetAbort, Outcome,
     NO_ABORT, ABORT_ALL, ALMOST_NO_ABORT, AddChild
<1>29. ASSUME NEW w \in Worker, SetResult(w) PROVE Types'
  <2>1. PICK c \in Proc :
          SetResultDoes(w, c)
    BY <1>29, SetResultEffect
  <2> USE <1>a, <1>b, <2>1, BoundAssumption DEF SetResultDoes, Shortened,
          Unmarked, PC, Status, Outcome, NO_ABORT, ABORT_ALL, ALMOST_NO_ABORT,
          AbortWaits, AbortReturns, AbortPops
  <2>2. created' \in Proc /\ parent' \in [Proc -> Proc \cup {None}] /\ alive'
        \subseteq Proc
    OBVIOUS
  <2>3. out' \in [Proc -> {"pending", "delivered", "discarded"}]
    OBVIOUS
  <2>4. aborts' \in 0 .. MaxAbort /\ done' \in BOOLEAN /\ DOMAIN join' = Proc
    OBVIOUS
  <2>5. status' \in [Proc -> Status]
    OBVIOUS
  <2>6. incomplete' \in [Proc -> SUBSET Proc]
    OBVIOUS
  <2>7. complete' \in [Proc -> Seq(Proc \cup {None})]
    OBVIOUS
  <2>8. abort' \in [Proc -> {ABORT_ALL, ALMOST_NO_ABORT, NO_ABORT}]
    OBVIOUS
  <2>9. cache' \in [Proc -> Worker \cup {None}] /\ clock' \in [Proc -> Worker
        \cup {None}]
    OBVIOUS
  <2>10. deque' \in [Worker -> Seq(Proc)] /\ stack' \in [Worker -> Seq(Proc)]
    OBVIOUS
  <2>11. dlock' \in [Worker -> Worker \cup {None}] /\ H' \in [Worker -> Nat] /\
         signalled' \in [Worker -> BOOLEAN]
    OBVIOUS
  <2>12. pc' \in [Worker -> PC] /\ victim' \in [Worker -> Worker \cup {None}]
    OBVIOUS
  <2>13. cl' \in [Worker -> Proc \cup {None}] /\ child' \in [Worker -> Proc
         \cup {None}]
    OBVIOUS
  <2>14. walk' \in [Worker -> Walks]
    OBVIOUS
  <2>q. QED
    BY <2>2, <2>3, <2>4, <2>5, <2>6, <2>7, <2>8, <2>9, <2>10, <2>11, <2>12,
       <2>13, <2>14
<1>30. ASSUME NEW w \in Worker, Done(w) PROVE Types'
  BY <1>a, <1>b, <1>30, BoundAssumption DEF Done, program, results, state,
     tree, locks, caches, Goto, Hand, LockClosure, UnlockClosure, LockDeque,
     UnlockDeque, UnlockBoth, SetStatus, PC, Status, MaybeResetAbort, Outcome,
     NO_ABORT, ABORT_ALL, ALMOST_NO_ABORT, AddChild
<1>31. ASSUME NEW w \in Worker, RemoveAndFree(w) PROVE Types'
  <2>1. RemoveAndFreeDoes(w)
    BY <1>31, RemoveAndFreeEffect
  <2>q. QED
    BY <1>a, <1>b, <2>1, BoundAssumption DEF RemoveAndFreeDoes, Shortened,
       Topped, Extended, Unmarked, PC, Status, Outcome, InletSplits, NO_ABORT,
       ABORT_ALL, ALMOST_NO_ABORT, AbortWaits, AbortReturns, AbortPops
<1>32. ASSUME NEW w \in Worker, CilkExit(w) PROVE Types'
  <2>1. CilkExitDoes(w)
    BY <1>32, CilkExitEffect
  <2>7. complete' \in [Proc -> Seq(Proc \cup {None})]
    <3>1. complete' = [complete EXCEPT ![Root] = <<None>> \o @]
      BY <2>1 DEF CilkExitDoes
    <3>2. complete[Root] \in Seq(Proc \cup {None}) /\ None \in Proc \cup {None}
      BY <1>a, <1>b
    <3>3. <<None>> \o complete[Root] \in Seq(Proc \cup {None})
      BY <3>2, ConsFacts
    <3>q. QED
      BY <1>a, <3>1, <3>3
  <2>9. cache' \in [Proc -> Worker \cup {None}] /\ clock' \in [Proc -> Worker
        \cup {None}]
    <3>1. cache' = cache /\ (clock' = clock \/ clock' = [clock EXCEPT ![Root] =
          w])
      BY <2>1 DEF CilkExitDoes
    <3>2. ASSUME clock' = [clock EXCEPT ![Root] = w]
          PROVE  clock' \in [Proc -> Worker \cup {None}]
      BY <1>a, <3>2
    <3>q. QED
      BY <1>a, <3>1, <3>2
  <2>13. cl' \in [Worker -> Proc \cup {None}] /\ child' \in [Worker -> Proc
         \cup {None}]
    <3>1. (cl' = cl \/ cl' = [cl EXCEPT ![w] = Root]) /\ child' = child
      BY <2>1 DEF CilkExitDoes
    <3>2. ASSUME cl' = [cl EXCEPT ![w] = Root]
          PROVE  cl' \in [Worker -> Proc \cup {None}]
      BY <1>a, <1>b, <3>2
    <3>q. QED
      BY <1>a, <3>1, <3>2
  <2> USE <1>a, <1>b, <2>1, BoundAssumption DEF CilkExitDoes, Shortened,
          Unmarked, PC, Status, Outcome, NO_ABORT, ABORT_ALL, ALMOST_NO_ABORT,
          AbortWaits, AbortReturns, AbortPops
  <2>2. created' \in Proc /\ parent' \in [Proc -> Proc \cup {None}] /\ alive'
        \subseteq Proc
    OBVIOUS
  <2>3. out' \in [Proc -> {"pending", "delivered", "discarded"}]
    OBVIOUS
  <2>4. aborts' \in 0 .. MaxAbort /\ done' \in BOOLEAN /\ DOMAIN join' = Proc
    OBVIOUS
  <2>5. status' \in [Proc -> Status]
    OBVIOUS
  <2>6. incomplete' \in [Proc -> SUBSET Proc]
    OBVIOUS
  <2>8. abort' \in [Proc -> {ABORT_ALL, ALMOST_NO_ABORT, NO_ABORT}]
    OBVIOUS
  <2>10. deque' \in [Worker -> Seq(Proc)] /\ stack' \in [Worker -> Seq(Proc)]
    OBVIOUS
  <2>11. dlock' \in [Worker -> Worker \cup {None}] /\ H' \in [Worker -> Nat] /\
         signalled' \in [Worker -> BOOLEAN]
    OBVIOUS
  <2>12. pc' \in [Worker -> PC] /\ victim' \in [Worker -> Worker \cup {None}]
    OBVIOUS
  <2>14. walk' \in [Worker -> Walks]
    OBVIOUS
  <2>q. QED
    BY <2>2, <2>3, <2>4, <2>5, <2>6, <2>7, <2>8, <2>9, <2>10, <2>11, <2>12,
       <2>13, <2>14
<1>33. ASSUME NEW w \in Worker, CilkExitDone(w) PROVE Types'
  BY <1>a, <1>b, <1>33, BoundAssumption DEF CilkExitDone, program, results,
     state, tree, locks, caches, Goto, Hand, LockClosure, UnlockClosure,
     LockDeque, UnlockDeque, UnlockBoth, SetStatus, PC, Status,
     MaybeResetAbort, Outcome, NO_ABORT, ABORT_ALL, ALMOST_NO_ABORT, AddChild
<1>34. ASSUME NEW w \in Worker, HandlerPolled(w) PROVE Types'
  <2>1. PICK t \in Proc, t1 \in Proc :
          HandlerPolledDoes(w, t, t1)
    BY <1>34, HandlerPolledEffect
  <2>13. cl' \in [Worker -> Proc \cup {None}] /\ child' \in [Worker -> Proc
         \cup {None}]
    <3>1. (cl' = cl \/ cl' = [cl EXCEPT ![w] = t1]) /\ child' = child
      BY <2>1 DEF HandlerPolledDoes
    <3>q. QED
      <4>1. cl \in [Worker -> Proc \cup {None}] /\ child \in [Worker -> Proc \cup {None}]
        BY <1>a
      <4>q. QED
        BY <3>1, <4>1
  <2> USE <1>a, <1>b, <2>1, BoundAssumption DEF HandlerPolledDoes, Shortened,
          Unmarked, PC, Status, Outcome, NO_ABORT, ABORT_ALL, ALMOST_NO_ABORT,
          AbortWaits, AbortReturns, AbortPops
  <2>2. created' \in Proc /\ parent' \in [Proc -> Proc \cup {None}] /\ alive'
        \subseteq Proc
    OBVIOUS
  <2>3. out' \in [Proc -> {"pending", "delivered", "discarded"}]
    OBVIOUS
  <2>4. aborts' \in 0 .. MaxAbort /\ done' \in BOOLEAN /\ DOMAIN join' = Proc
    OBVIOUS
  <2>5. status' \in [Proc -> Status]
    OBVIOUS
  <2>6. incomplete' \in [Proc -> SUBSET Proc]
    OBVIOUS
  <2>7. complete' \in [Proc -> Seq(Proc \cup {None})]
    OBVIOUS
  <2>8. abort' \in [Proc -> {ABORT_ALL, ALMOST_NO_ABORT, NO_ABORT}]
    OBVIOUS
  <2>9. cache' \in [Proc -> Worker \cup {None}] /\ clock' \in [Proc -> Worker
        \cup {None}]
    OBVIOUS
  <2>10. deque' \in [Worker -> Seq(Proc)] /\ stack' \in [Worker -> Seq(Proc)]
    OBVIOUS
  <2>11. dlock' \in [Worker -> Worker \cup {None}] /\ H' \in [Worker -> Nat] /\
         signalled' \in [Worker -> BOOLEAN]
    OBVIOUS
  <2>12. pc' \in [Worker -> PC] /\ victim' \in [Worker -> Worker \cup {None}]
    OBVIOUS
  <2>14. walk' \in [Worker -> Walks]
    OBVIOUS
  <2>q. QED
    BY <2>2, <2>3, <2>4, <2>5, <2>6, <2>7, <2>8, <2>9, <2>10, <2>11, <2>12,
       <2>13, <2>14
<1>35. ASSUME NEW w \in Worker, HandlerSwap(w) PROVE Types'
  BY <1>a, <1>b, <1>35, BoundAssumption DEF HandlerSwap, program, results,
     state, tree, locks, caches, Goto, Hand, LockClosure, UnlockClosure,
     LockDeque, UnlockDeque, UnlockBoth, SetStatus, PC, Status,
     MaybeResetAbort, Outcome, NO_ABORT, ABORT_ALL, ALMOST_NO_ABORT, AddChild
<1>36. ASSUME NEW w \in Worker, HandlerStolen(w) PROVE Types'
  <2>1. PICK c \in Proc :
          HandlerStolenDoes(w, c)
    BY <1>36, HandlerStolenEffect
  <2>q. QED
    BY <1>a, <1>b, <2>1, BoundAssumption DEF HandlerStolenDoes, Shortened,
       Topped, Extended, Unmarked, PC, Status, Outcome, InletSplits, NO_ABORT,
       ABORT_ALL, ALMOST_NO_ABORT, AbortWaits, AbortReturns, AbortPops
<1>37. ASSUME NEW w \in Worker, HandlerAbort(w) PROVE Types'
  <2>1. PICK c \in Proc, f \in Proc :
          HandlerAbortDoes(w, c, f)
    BY <1>37, HandlerAbortEffect
  <2>3. out' \in [Proc -> {"pending", "delivered", "discarded"}]
    <3>1. ASSUME AbortWaits(w, c) PROVE out' \in [Proc -> {"pending",
          "delivered", "discarded"}]
      BY <1>a, <3>1 DEF AbortWaits, Outcome
    <3>2. ASSUME AbortReturns(w, c) PROVE out' \in [Proc -> {"pending",
          "delivered", "discarded"}]
      BY <1>a, <3>2 DEF AbortReturns
    <3>3. ASSUME AbortPops(w, f) PROVE out' \in [Proc -> {"pending",
          "delivered", "discarded"}]
      BY <1>a, <3>3 DEF AbortPops
    <3>q. QED
      BY <2>1, <3>1, <3>2, <3>3 DEF HandlerAbortDoes
  <2>12. pc' \in [Worker -> PC] /\ victim' \in [Worker -> Worker \cup {None}]
    <3>1. (pc' = [pc EXCEPT ![w] = "loop"] \/ pc' = [pc EXCEPT ![w] = "pop"])
          /\ victim' = victim
      BY <2>1 DEF HandlerAbortDoes, AbortWaits, AbortReturns, AbortPops
    <3>q. QED
      BY <1>a, <3>1 DEF PC
  <2>13. cl' \in [Worker -> Proc \cup {None}] /\ child' \in [Worker -> Proc
         \cup {None}]
    <3>1. /\ cl' = [cl EXCEPT ![w] = None]
          /\ \E k \in Proc \cup {None} : child' = [child EXCEPT ![w] = k]
      BY <2>1 DEF HandlerAbortDoes, AbortWaits, AbortReturns, AbortPops
    <3>q. QED
      BY <1>a, <1>b, <3>1
  <2>5. status' \in [Proc -> Status]
    <3>1. \/ status' = [status EXCEPT ![c] = "SUSPENDED"]
          \/ status' = [status EXCEPT ![c] = "RETURNING"]
          \/ status' = status
      BY <2>1 DEF HandlerAbortDoes, AbortWaits, AbortReturns, AbortPops
    <3>q. QED
      BY <1>a, <3>1 DEF Status
  <2> USE <1>a, <1>b, <2>1, BoundAssumption DEF HandlerAbortDoes, Shortened,
          Unmarked, PC, Status, Outcome, NO_ABORT, ABORT_ALL, ALMOST_NO_ABORT,
          AbortWaits, AbortReturns, AbortPops
  <2>2. created' \in Proc /\ parent' \in [Proc -> Proc \cup {None}] /\ alive'
        \subseteq Proc
    OBVIOUS
  <2>4. aborts' \in 0 .. MaxAbort /\ done' \in BOOLEAN /\ DOMAIN join' = Proc
    OBVIOUS
  <2>6. incomplete' \in [Proc -> SUBSET Proc]
    OBVIOUS
  <2>7. complete' \in [Proc -> Seq(Proc \cup {None})]
    OBVIOUS
  <2>8. abort' \in [Proc -> {ABORT_ALL, ALMOST_NO_ABORT, NO_ABORT}]
    OBVIOUS
  <2>9. cache' \in [Proc -> Worker \cup {None}] /\ clock' \in [Proc -> Worker
        \cup {None}]
    OBVIOUS
  <2>10. deque' \in [Worker -> Seq(Proc)] /\ stack' \in [Worker -> Seq(Proc)]
    OBVIOUS
  <2>11. dlock' \in [Worker -> Worker \cup {None}] /\ H' \in [Worker -> Nat] /\
         signalled' \in [Worker -> BOOLEAN]
    OBVIOUS
  <2>14. walk' \in [Worker -> Walks]
    OBVIOUS
  <2>q. QED
    BY <2>2, <2>3, <2>4, <2>5, <2>6, <2>7, <2>8, <2>9, <2>10, <2>11, <2>12,
       <2>13, <2>14
<1>38. ASSUME NEW w \in Worker, HandlerResume(w) PROVE Types'
  BY <1>a, <1>b, <1>38, BoundAssumption DEF HandlerResume, program, results,
     state, tree, locks, caches, Goto, Hand, LockClosure, UnlockClosure,
     LockDeque, UnlockDeque, UnlockBoth, SetStatus, PC, Status,
     MaybeResetAbort, Outcome, NO_ABORT, ABORT_ALL, ALMOST_NO_ABORT, AddChild
<1>39. CASE UNCHANGED vars
  BY <1>a, <1>39 DEF vars
<1>q. QED
  BY <1>1, <1>2, <1>3, <1>4, <1>5, <1>6, <1>7, <1>8, <1>9, <1>10, <1>11, <1>12,
     <1>13, <1>14, <1>15, <1>16, <1>17, <1>18, <1>19, <1>20, <1>21, <1>22,
     <1>23, <1>24, <1>25, <1>26, <1>27, <1>28, <1>29, <1>30, <1>31, <1>32,
     <1>33, <1>34, <1>35, <1>36, <1>37, <1>38, <1>39 DEF Next, Step, Terminated

(* A deque's lock is taken when it is free and dropped by its owner, at    *)
(* the places that HoldsDeque names.                                       *)
LEMMA DequeLocksStep ==
    ASSUME IInv, [Next]_vars
    PROVE  DequeLocks'
<1>a. Types /\ DequeLocks
  BY DEF IInv
<1>b. \A w \in Worker : w # None
  BY WorkerAssumption DEF None
<1>f. ASSUME UNCHANGED <<dlock, pc, victim>>
      PROVE  DequeLocks'
  BY <1>a, <1>b, <1>f DEF DequeLocks, HoldsDeque, Types
<1>g. ASSUME NEW w \in Worker, NEW l, pc' = [pc EXCEPT ![w] = l],
             l \in OwnDequePC <=> pc[w] \in OwnDequePC,
             l \in VictimPC <=> pc[w] \in VictimPC,
             UNCHANGED <<dlock, victim>>
      PROVE  DequeLocks'
  <2>1. \A u, v \in Worker : HoldsDeque(u, v)' <=> HoldsDeque(u, v)
    BY <1>a, <1>g DEF HoldsDeque, Types
  <2>2. \A u \in Worker : pc'[u] \in VictimPC <=> pc[u] \in VictimPC
    BY <1>a, <1>g DEF Types
  <2>q. QED
    BY <1>a, <1>g, <2>1, <2>2 DEF DequeLocks
<1>1. ASSUME NEW w \in Worker, LeaveScheduler(w) PROVE DequeLocks'
  BY <1>g, <1>1 DEF LeaveScheduler, program, results, state, tree, locks,
     caches, Goto, OwnDequePC, VictimPC
<1>2. ASSUME NEW w \in Worker, TakeOwn(w) PROVE DequeLocks'
  <2>1. TakeOwnDoes(w)
    BY <1>2, TakeOwnEffect
  <2>q. QED
    BY <1>f, <1>g, <2>1 DEF TakeOwnDoes, OwnDequePC, VictimPC
<1>3. ASSUME NEW w \in Worker, StealLockDeque(w) PROVE DequeLocks'
  <2>2. /\ pc[w] = "steal" /\ pc' = [pc EXCEPT ![w] = "stealDeque"]
    BY <1>3 DEF StealLockDeque, program, results, state, tree, caches, Goto,
       LockDeque, Peek, Hand
  <2>3. /\ "steal" \notin OwnDequePC /\ "steal" \notin VictimPC
        /\ "stealDeque" \notin OwnDequePC /\ "stealDeque" \in VictimPC
    BY <2>2 DEF OwnDequePC, VictimPC
  <2>4. ASSUME NEW v \in Worker \ {w}, dlock[v] = None,
               dlock' = [dlock EXCEPT ![v] = w],
               victim' = [victim EXCEPT ![w] = v]
        PROVE  DequeLocks'
    BY <1>a, <1>b, <2>2, <2>3, <2>4 DEF DequeLocks, HoldsDeque, Types
  <2>q. QED
    BY <1>3, <2>2, <2>4 DEF StealLockDeque, program, results, state, tree,
       caches, Goto, LockDeque, Peek, Hand
<1>4. ASSUME NEW w \in Worker, StealLockClosure(w) PROVE DequeLocks'
  BY <1>g, <1>4 DEF StealLockClosure, program, results, state, tree, caches,
     Goto, LockClosure, OwnDequePC, VictimPC
<1>5. ASSUME NEW w \in Worker, StealGiveUp(w) PROVE DequeLocks'
  BY <1>g, <1>5 DEF StealGiveUp, program, results, state, tree, caches, Goto,
     Hand, UnlockClosure, BeingAborted, OwnDequePC, VictimPC
<1>6. ASSUME NEW w \in Worker, StealUnlockDeque(w) PROVE DequeLocks'
  <2>2. /\ pc[w] \in {"stealGiveUp", "stealDeque"}
        /\ dlock' = [dlock EXCEPT ![victim[w]] = None]
        /\ pc' = [pc EXCEPT ![w] = "steal"]
        /\ victim' = [victim EXCEPT ![w] = None]
    BY <1>6 DEF StealUnlockDeque, program, results, state, tree, caches, Goto,
       UnlockDeque
  <2>3. /\ "stealGiveUp" \notin OwnDequePC /\ "stealGiveUp" \in VictimPC
        /\ "stealDeque" \notin OwnDequePC /\ "stealDeque" \in VictimPC
        /\ "steal" \notin OwnDequePC /\ "steal" \notin VictimPC
        /\ pc[w] \notin OwnDequePC /\ pc[w] \in VictimPC
    BY <2>2 DEF OwnDequePC, VictimPC
  <2>q. QED
    <3>1. /\ pc'[w] = "steal" /\ victim'[w] = None
          /\ \A u \in Worker \ {w} : pc'[u] = pc[u] /\ victim'[u] = victim[u]
      BY <1>a, <2>2 DEF Types
    <3>2. \A u \in Worker : dlock'[u] = IF u = victim[w] THEN None ELSE dlock[u]
      BY <1>a, <2>2 DEF Types
    <3>3. \A u, x \in Worker : HoldsDeque(u, x)' <=> HoldsDeque(u, x) /\ u # w
      BY <1>b, <2>2, <2>3, <3>1 DEF HoldsDeque
    <3>4. \A x \in Worker : HoldsDeque(w, x) <=> x = victim[w]
      BY <2>2, <2>3 DEF HoldsDeque
    <3>q. QED
      BY <1>a, <1>b, <2>2, <2>3, <3>1, <3>2, <3>3, <3>4 DEF DequeLocks
<1>7. ASSUME NEW w \in Worker, StealReady(w) PROVE DequeLocks'
  <2>1. PICK v \in Worker \ {w}, c \in Proc :
          StealReadyDoes(w, v, c)
    BY <1>7, StealReadyEffect
  <2>2. /\ pc[w] = "stealClosure" /\ v = victim[w] /\ pc[v] \notin OwnDequePC
        /\ dlock' = [dlock EXCEPT ![v] = None]
        /\ pc' = [pc EXCEPT ![w] = "loop"]
        /\ victim' = [victim EXCEPT ![w] = None]
    BY <2>1 DEF StealReadyDoes
  <2>3. /\ "stealClosure" \notin OwnDequePC /\ "stealClosure" \in VictimPC
        /\ "loop" \notin OwnDequePC /\ "loop" \notin VictimPC
    BY <2>2 DEF OwnDequePC, VictimPC
  <2>q. QED
    <3>1. /\ pc'[w] = "loop" /\ victim'[w] = None
          /\ \A u \in Worker \ {w} : pc'[u] = pc[u] /\ victim'[u] = victim[u]
      BY <1>a, <2>2 DEF Types
    <3>2. \A u \in Worker : dlock'[u] = IF u = v THEN None ELSE dlock[u]
      BY <1>a, <2>2 DEF Types
    <3>3. \A u, x \in Worker : HoldsDeque(u, x)' <=> HoldsDeque(u, x) /\ u # w
      BY <1>b, <2>2, <2>3, <3>1 DEF HoldsDeque
    <3>4. \A x \in Worker : HoldsDeque(w, x) <=> x = v
      BY <2>2, <2>3 DEF HoldsDeque
    <3>q. QED
      BY <1>a, <1>b, <2>2, <2>3, <3>1, <3>2, <3>3, <3>4 DEF DequeLocks
<1>8. ASSUME NEW w \in Worker, StealPromote(w) PROVE DequeLocks'
  <2>1. PICK v \in Worker \ {w}, c \in Proc, k \in Proc :
          StealPromoteDoes(w, v, c, k)
    BY <1>8, StealPromoteEffect
  <2>2. /\ pc[w] = "stealClosure" /\ v = victim[w]
        /\ pc[v] \in WorkPC \ OwnDequePC /\ k # c /\ k # Root
        /\ dlock' = [dlock EXCEPT ![v] = None]
        /\ pc' = [pc EXCEPT ![w] = "stealFinish"]
        /\ victim' = [victim EXCEPT ![w] = None]
    BY <2>1 DEF StealPromoteDoes
  <2>3. /\ "stealClosure" \notin OwnDequePC /\ "stealClosure" \in VictimPC
        /\ "stealFinish" \notin OwnDequePC /\ "stealFinish" \notin VictimPC
    BY <2>2 DEF OwnDequePC, VictimPC
  <2>q. QED
    <3>1. /\ pc'[w] = "stealFinish" /\ victim'[w] = None
          /\ \A u \in Worker \ {w} : pc'[u] = pc[u] /\ victim'[u] = victim[u]
      BY <1>a, <2>2 DEF Types
    <3>2. \A u \in Worker : dlock'[u] = IF u = v THEN None ELSE dlock[u]
      BY <1>a, <2>2 DEF Types
    <3>3. \A u, x \in Worker : HoldsDeque(u, x)' <=> HoldsDeque(u, x) /\ u # w
      BY <1>b, <2>2, <2>3, <3>1 DEF HoldsDeque
    <3>4. \A x \in Worker : HoldsDeque(w, x) <=> x = v
      BY <2>2, <2>3 DEF HoldsDeque
    <3>q. QED
      BY <1>a, <1>b, <2>2, <2>3, <3>1, <3>2, <3>3, <3>4 DEF DequeLocks
<1>9. ASSUME NEW w \in Worker, StealFinish(w) PROVE DequeLocks'
  BY <1>g, <1>9 DEF StealFinish, program, results, caches, Goto, UnlockClosure,
     SetStatus, AddChild, OwnDequePC, VictimPC
<1>10. ASSUME NEW w \in Worker, InletKilled(w) PROVE DequeLocks'
  BY <1>f, <1>10 DEF InletKilled, program, state, locks, caches, Outcome,
     BeingAborted, Polls
<1>11. ASSUME NEW w \in Worker, InletRuns(w) PROVE DequeLocks'
  BY <1>f, <1>11 DEF InletRuns, program, state, locks, caches, Outcome,
     BeingAborted, Polls
<1>12. ASSUME NEW w \in Worker, InletAborts(w) PROVE DequeLocks'
  <2>1. PICK c \in Proc, r \in SUBSET Proc :
          InletAbortsDoes(w, c, r)
    BY <1>12, InletAbortsEffect
  <2>q. QED
    BY <1>f, <2>1 DEF InletAbortsDoes
<1>13. ASSUME NEW w \in Worker, WalkDown(w) PROVE DequeLocks'
  <2>1. PICK n \in Nat \ {0}, k \in Proc :
          WalkDownDoes(w, n, k)
    BY <1>13, WalkDownEffect
  <2>q. QED
    BY <1>f, <2>1 DEF WalkDownDoes
<1>14. ASSUME NEW w \in Worker, WalkUp(w) PROVE DequeLocks'
  <2>1. PICK n \in Nat \ {0} :
          WalkUpDoes(w, n)
    BY <1>14, WalkUpEffect
  <2>q. QED
    BY <1>f, <2>1 DEF WalkUpDoes
<1>15. ASSUME NEW w \in Worker, AbortReadyClosure(w) PROVE DequeLocks'
  BY <1>f, <1>15 DEF AbortReadyClosure, program, results, tree, locks, caches,
     Hand, SetStatus, Outcome, BeingAborted, HasChildren
<1>16. ASSUME NEW w \in Worker, Setup(w) PROVE DequeLocks'
  BY <1>g, <1>16 DEF Setup, program, results, tree, Goto, LockClosure,
     SetStatus, BeingAborted, OwnDequePC, VictimPC
<1>17. ASSUME NEW w \in Worker, SetupDone(w) PROVE DequeLocks'
  BY <1>g, <1>17 DEF SetupDone, program, results, tree, caches, Goto,
     UnlockClosure, Polled, Polls, OwnDequePC, VictimPC
<1>18. ASSUME NEW w \in Worker, Execute(w) PROVE DequeLocks'
  <2>1. PICK c \in Proc :
          ExecuteDoes(w, c)
    BY <1>18, ExecuteEffect
  <2>q. QED
    BY <1>g, <2>1 DEF ExecuteDoes, OwnDequePC, VictimPC
<1>19. ASSUME NEW w \in Worker, ReturnLockParent(w) PROVE DequeLocks'
  <2>1. PICK k \in Proc, p \in Proc :
          ReturnLockParentDoes(w, k, p)
    BY <1>19, ReturnLockParentEffect
  <2>q. QED
    BY <1>g, <2>1 DEF ReturnLockParentDoes, OwnDequePC, VictimPC
<1>20. ASSUME NEW w \in Worker, ReturnEnqueue(w) PROVE DequeLocks'
  <2>1. PICK k \in Proc, p \in Proc :
          ReturnEnqueueDoes(w, k, p)
    BY <1>20, ReturnEnqueueEffect
  <2>q. QED
    BY <1>g, <2>1 DEF ReturnEnqueueDoes, OwnDequePC, VictimPC
<1>21. ASSUME NEW w \in Worker, ReturnDone(w) PROVE DequeLocks'
  <2>1. PICK k \in Proc, p \in Proc :
          ReturnDoneDoes(w, k, p)
    BY <1>21, ReturnDoneEffect
  <2>q. QED
    BY <1>g, <2>1 DEF ReturnDoneDoes, OwnDequePC, VictimPC
<1>22. ASSUME NEW w \in Worker, Spawn(w) PROVE DequeLocks'
  <2>1. PICK c \in Proc, f \in Proc :
          SpawnDoes(w, c, f)
    BY <1>22, SpawnEffect
  <2>q. QED
    BY <1>g, <2>1 DEF SpawnDoes, OwnDequePC, VictimPC
<1>23. ASSUME NEW w \in Worker, ReturnFast(w) PROVE DequeLocks'
  <2>1. PICK f \in Proc :
          ReturnFastDoes(w, f)
    BY <1>23, ReturnFastEffect
  <2>q. QED
    BY <1>g, <2>1 DEF ReturnFastDoes, OwnDequePC, VictimPC
<1>24. ASSUME NEW w \in Worker, PopResult(w) PROVE DequeLocks'
  BY <1>g, <1>24 DEF PopResult, program, state, tree, locks, caches, Goto,
     Outcome, OwnDequePC, VictimPC
<1>25. ASSUME NEW w \in Worker, LockOwnDeque(w) PROVE DequeLocks'
  <2>2. /\ pc[w] \in {"pop", "run", "synced"} /\ dlock[w] = None
        /\ dlock' = [dlock EXCEPT ![w] = w]
        /\ UNCHANGED <<victim>>
    BY <1>25 DEF LockOwnDeque, program, results, state, tree, caches, Goto,
       LockDeque, SlowAborts
  <2>3. /\ "pop" \notin OwnDequePC /\ "pop" \notin VictimPC
        /\ "run" \notin OwnDequePC /\ "run" \notin VictimPC
        /\ "synced" \notin OwnDequePC /\ "synced" \notin VictimPC
        /\ "handler" \in OwnDequePC /\ "handler" \notin VictimPC
        /\ "sync" \in OwnDequePC /\ "sync" \notin VictimPC
        /\ "abort" \in OwnDequePC /\ "abort" \notin VictimPC
        /\ "result" \in OwnDequePC /\ "result" \notin VictimPC
        /\ pc[w] \notin OwnDequePC /\ pc[w] \notin VictimPC
    BY <2>2 DEF OwnDequePC, VictimPC
  <2>4. ASSUME pc[w] = "pop", pc' = [pc EXCEPT ![w] = "handler"]
        PROVE  DequeLocks'
    BY <1>a, <1>b, <2>2, <2>3, <2>4 DEF DequeLocks, HoldsDeque, Types
  <2>5. ASSUME pc[w] = "run", pc' = [pc EXCEPT ![w] = "sync"]
        PROVE  DequeLocks'
    BY <1>a, <1>b, <2>2, <2>3, <2>5 DEF DequeLocks, HoldsDeque, Types
  <2>6. ASSUME pc[w] = "run", pc' = [pc EXCEPT ![w] = "abort"]
        PROVE  DequeLocks'
    BY <1>a, <1>b, <2>2, <2>3, <2>6 DEF DequeLocks, HoldsDeque, Types
  <2>7. ASSUME pc[w] = "synced", pc' = [pc EXCEPT ![w] = "result"]
        PROVE  DequeLocks'
    BY <1>a, <1>b, <2>2, <2>3, <2>7 DEF DequeLocks, HoldsDeque, Types
  <2>q. QED
    BY <1>25, <2>2, <2>4, <2>5, <2>6, <2>7 DEF LockOwnDeque, program, results,
       state, tree, caches, Goto, LockDeque, SlowAborts
<1>26. ASSUME NEW w \in Worker, LockBottom(w) PROVE DequeLocks'
  <2>1. PICK c \in Proc :
          LockBottomDoes(w, c)
    BY <1>26, LockBottomEffect
  <2>q. QED
    BY <1>g, <2>1 DEF LockBottomDoes, OwnDequePC, VictimPC
<1>27. ASSUME NEW w \in Worker, Sync(w) PROVE DequeLocks'
  <2>1. PICK c \in Proc :
          SyncDoes(w, c)
    BY <1>27, SyncEffect
  <2>2. /\ pc[w] = "syncPoll" /\ dlock' = [dlock EXCEPT ![w] = None]
        /\ UNCHANGED <<victim>>
    BY <2>1 DEF SyncDoes
  <2>3. /\ "syncPoll" \in OwnDequePC /\ "syncPoll" \notin VictimPC
        /\ "loop" \notin OwnDequePC /\ "loop" \notin VictimPC
        /\ "synced" \notin OwnDequePC /\ "synced" \notin VictimPC
    BY <2>2 DEF OwnDequePC, VictimPC
  <2>4. ASSUME pc' = [pc EXCEPT ![w] = "loop"]
        PROVE  DequeLocks'
    BY <1>a, <1>b, <2>2, <2>3, <2>4 DEF DequeLocks, HoldsDeque, Types
  <2>5. ASSUME pc' = [pc EXCEPT ![w] = "synced"]
        PROVE  DequeLocks'
    BY <1>a, <1>b, <2>2, <2>3, <2>5 DEF DequeLocks, HoldsDeque, Types
  <2>q. QED
    BY <2>1, <2>2, <2>4, <2>5 DEF SyncDoes
<1>28. ASSUME NEW w \in Worker, AbortSlow(w) PROVE DequeLocks'
  <2>2. /\ pc[w] = "abortPoll" /\ dlock' = [dlock EXCEPT ![w] = None]
        /\ pc' = [pc EXCEPT ![w] = "run"]
        /\ UNCHANGED <<victim>>
    BY <1>28 DEF AbortSlow, program, results, tree, caches, Goto, UnlockBoth,
       Polled, Hand, UnlockClosure, UnlockDeque, Polls
  <2>3. /\ "abortPoll" \in OwnDequePC /\ "abortPoll" \notin VictimPC
        /\ "run" \notin OwnDequePC /\ "run" \notin VictimPC
    BY <2>2 DEF OwnDequePC, VictimPC
  <2>q. QED
    BY <1>a, <1>b, <2>2, <2>3 DEF DequeLocks, HoldsDeque, Types
<1>29. ASSUME NEW w \in Worker, SetResult(w) PROVE DequeLocks'
  <2>1. PICK c \in Proc :
          SetResultDoes(w, c)
    BY <1>29, SetResultEffect
  <2>2. /\ pc[w] = "setResult" /\ c # Root
        /\ dlock' = [dlock EXCEPT ![w] = None]
        /\ pc' = [pc EXCEPT ![w] = "loop"]
        /\ UNCHANGED <<victim>>
    BY <2>1 DEF SetResultDoes
  <2>3. /\ "setResult" \in OwnDequePC /\ "setResult" \notin VictimPC
        /\ "loop" \notin OwnDequePC /\ "loop" \notin VictimPC
    BY <2>2 DEF OwnDequePC, VictimPC
  <2>q. QED
    BY <1>a, <1>b, <2>2, <2>3 DEF DequeLocks, HoldsDeque, Types
<1>30. ASSUME NEW w \in Worker, Done(w) PROVE DequeLocks'
  BY <1>g, <1>30 DEF Done, results, state, tree, locks, caches, Goto,
     AfterSync, OwnDequePC, VictimPC
<1>31. ASSUME NEW w \in Worker, RemoveAndFree(w) PROVE DequeLocks'
  <2>1. RemoveAndFreeDoes(w)
    BY <1>31, RemoveAndFreeEffect
  <2>q. QED
    BY <1>g, <2>1 DEF RemoveAndFreeDoes, OwnDequePC, VictimPC
<1>32. ASSUME NEW w \in Worker, CilkExit(w) PROVE DequeLocks'
  <2>1. CilkExitDoes(w)
    BY <1>32, CilkExitEffect
  <2>q. QED
    BY <1>f, <1>g, <2>1 DEF CilkExitDoes, OwnDequePC, VictimPC
<1>33. ASSUME NEW w \in Worker, CilkExitDone(w) PROVE DequeLocks'
  BY <1>g, <1>33 DEF CilkExitDone, program, results, tree, caches, Goto, Hand,
     UnlockClosure, Polled, Polls, OwnDequePC, VictimPC
<1>34. ASSUME NEW w \in Worker, HandlerPolled(w) PROVE DequeLocks'
  <2>1. PICK t \in Proc, t1 \in Proc :
          HandlerPolledDoes(w, t, t1)
    BY <1>34, HandlerPolledEffect
  <2>q. QED
    BY <1>g, <2>1 DEF HandlerPolledDoes, OwnDequePC, VictimPC
<1>35. ASSUME NEW w \in Worker, HandlerSwap(w) PROVE DequeLocks'
  BY <1>g, <1>35 DEF HandlerSwap, program, results, state, tree, caches, Goto,
     LockClosure, OwnDequePC, VictimPC
<1>36. ASSUME NEW w \in Worker, HandlerStolen(w) PROVE DequeLocks'
  <2>1. PICK c \in Proc :
          HandlerStolenDoes(w, c)
    BY <1>36, HandlerStolenEffect
  <2>2. /\ pc[w] = "handlerAct" /\ c # Root
        /\ dlock' = [dlock EXCEPT ![w] = None]
        /\ UNCHANGED <<victim>>
    BY <2>1 DEF HandlerStolenDoes
  <2>3. /\ "handlerAct" \in OwnDequePC /\ "handlerAct" \notin VictimPC
        /\ "loop" \notin OwnDequePC /\ "loop" \notin VictimPC
        /\ "pop" \notin OwnDequePC /\ "pop" \notin VictimPC
    BY <2>2 DEF OwnDequePC, VictimPC
  <2>4. ASSUME pc' = [pc EXCEPT ![w] = "loop"]
        PROVE  DequeLocks'
    BY <1>a, <1>b, <2>2, <2>3, <2>4 DEF DequeLocks, HoldsDeque, Types
  <2>5. ASSUME pc' = [pc EXCEPT ![w] = "pop"]
        PROVE  DequeLocks'
    BY <1>a, <1>b, <2>2, <2>3, <2>5 DEF DequeLocks, HoldsDeque, Types
  <2>q. QED
    BY <2>1, <2>2, <2>4, <2>5 DEF HandlerStolenDoes
<1>37. ASSUME NEW w \in Worker, HandlerAbort(w) PROVE DequeLocks'
  <2>1. PICK c \in Proc, f \in Proc :
          HandlerAbortDoes(w, c, f)
    BY <1>37, HandlerAbortEffect
  <2>2. /\ pc[w] = "handlerAct" /\ dlock' = [dlock EXCEPT ![w] = None]
        /\ UNCHANGED <<victim>>
    BY <2>1 DEF HandlerAbortDoes
  <2>3. /\ "handlerAct" \in OwnDequePC /\ "handlerAct" \notin VictimPC
        /\ "loop" \notin OwnDequePC /\ "loop" \notin VictimPC
        /\ "pop" \notin OwnDequePC /\ "pop" \notin VictimPC
    BY <2>2 DEF OwnDequePC, VictimPC
  <2>4. ASSUME pc' = [pc EXCEPT ![w] = "loop"]
        PROVE  DequeLocks'
    BY <1>a, <1>b, <2>2, <2>3, <2>4 DEF DequeLocks, HoldsDeque, Types
  <2>5. ASSUME c # Root, pc' = [pc EXCEPT ![w] = "loop"]
        PROVE  DequeLocks'
    BY <1>a, <1>b, <2>2, <2>3, <2>5 DEF DequeLocks, HoldsDeque, Types
  <2>6. ASSUME c # Root, pc' = [pc EXCEPT ![w] = "pop"]
        PROVE  DequeLocks'
    BY <1>a, <1>b, <2>2, <2>3, <2>6 DEF DequeLocks, HoldsDeque, Types
  <2>7. ASSUME f # Root, pc' = [pc EXCEPT ![w] = "pop"]
        PROVE  DequeLocks'
    BY <1>a, <1>b, <2>2, <2>3, <2>7 DEF DequeLocks, HoldsDeque, Types
  <2>q. QED
    BY <2>1, <2>2, <2>4, <2>5, <2>6, <2>7 DEF HandlerAbortDoes, AbortWaits,
       AbortReturns, AbortPops
<1>38. ASSUME NEW w \in Worker, HandlerResume(w) PROVE DequeLocks'
  <2>2. /\ pc[w] = "handlerAct" /\ dlock' = [dlock EXCEPT ![w] = None]
        /\ pc' = [pc EXCEPT ![w] = "run"]
        /\ UNCHANGED <<victim>>
    BY <1>38 DEF HandlerResume, program, tree, Goto, UnlockBoth, Outcome,
       BeingAborted, Stolen, Hand, UnlockClosure, UnlockDeque
  <2>3. /\ "handlerAct" \in OwnDequePC /\ "handlerAct" \notin VictimPC
        /\ "run" \notin OwnDequePC /\ "run" \notin VictimPC
    BY <2>2 DEF OwnDequePC, VictimPC
  <2>q. QED
    BY <1>a, <1>b, <2>2, <2>3 DEF DequeLocks, HoldsDeque, Types
<1>39. CASE UNCHANGED vars
  BY <1>f, <1>39 DEF vars
<1>q. QED
  BY <1>1, <1>2, <1>3, <1>4, <1>5, <1>6, <1>7, <1>8, <1>9, <1>10, <1>11, <1>12,
     <1>13, <1>14, <1>15, <1>16, <1>17, <1>18, <1>19, <1>20, <1>21, <1>22,
     <1>23, <1>24, <1>25, <1>26, <1>27, <1>28, <1>29, <1>30, <1>31, <1>32,
     <1>33, <1>34, <1>35, <1>36, <1>37, <1>38, <1>39 DEF Next, Step, Terminated

(* A closure's lock is taken when it is free and dropped by its owner, at  *)
(* the places that HoldsClosure names.                                     *)
LEMMA ClosureLocksStep ==
    ASSUME IInv, [Next]_vars
    PROVE  ClosureLocks'
<1>a. Types /\ ClosureLocks
  BY DEF IInv
<1>b. None \notin Worker /\ None \notin Proc
  BY WorkerAssumption DEF None, Proc
<1>c. /\ \A w \in Worker : pc[w] \notin PollPC => walk[w] = <<>>
      /\ Size(<<>>) = 0
  BY DEF IInv, WalkInv, Size
<1>d. \A w \in Worker : pc[w] \in LockPC => cl[w] \in Proc /\ clock[cl[w]] = w
  BY <1>a DEF ClosureLocks, HoldsClosure, Types
<1>l. ASSUME NEW w \in Worker, NEW c \in Proc, clock[c] = None,
             clock' = [clock EXCEPT ![c] = w],
             \A u \in Worker, d \in Proc : HoldsClosure(u, d)'
                <=> HoldsClosure(u, d) \/ (u = w /\ d = c)
      PROVE  \A d \in Proc, u \in Worker : clock'[d] = u <=> HoldsClosure(u, d)'
  BY <1>a, <1>b, <1>l DEF ClosureLocks, Types
<1>u. ASSUME NEW w \in Worker, NEW c \in Proc, clock[c] = w,
             clock' = [clock EXCEPT ![c] = None],
             \A u \in Worker, d \in Proc : HoldsClosure(u, d)'
                <=> HoldsClosure(u, d) /\ ~(u = w /\ d = c)
      PROVE  \A d \in Proc, u \in Worker : clock'[d] = u <=> HoldsClosure(u, d)'
  BY <1>a, <1>b, <1>u DEF ClosureLocks, Types
<1>f. ASSUME UNCHANGED <<clock, pc, cl, child, walk>>
      PROVE  ClosureLocks'
BY <1>f DEF ClosureLocks, HoldsClosure, IInv
<1>g. ASSUME NEW w \in Worker, NEW l, pc' = [pc EXCEPT ![w] = l],
             l \in LockPC <=> pc[w] \in LockPC,
             l \in ReturnPC <=> pc[w] \in ReturnPC,
             l \in PollPC <=> pc[w] \in PollPC,
             l = "return" <=> pc[w] = "return",
             UNCHANGED <<clock, cl, child, walk>>
      PROVE  ClosureLocks'
  BY <1>a, <1>b, <1>c, <1>d, <1>g DEF ClosureLocks, HoldsClosure, Types
<1>1. ASSUME NEW w \in Worker, LeaveScheduler(w) PROVE ClosureLocks'
  BY <1>g, <1>1 DEF LeaveScheduler, program, results, state, tree, locks,
     caches, Goto, LockPC, ReturnPC, PollPC
<1>2. ASSUME NEW w \in Worker, TakeOwn(w) PROVE ClosureLocks'
  <2>1. TakeOwnDoes(w)
    BY <1>2, TakeOwnEffect
  <2>2. /\ pc[w] = "loop" /\ cl[w] = None
        /\ UNCHANGED <<clock, child, walk>>
    BY <2>1 DEF TakeOwnDoes
  <2>3. /\ "loop" \notin LockPC /\ "loop" \notin ReturnPC
        /\ "loop" \notin PollPC /\ "steal" \notin LockPC
        /\ "steal" \notin ReturnPC /\ "steal" \notin PollPC
    BY <2>2 DEF LockPC, ReturnPC, PollPC
  <2>4. ASSUME pc' = [pc EXCEPT ![w] = "steal"],
               UNCHANGED <<cl>>
        PROVE  ClosureLocks'
    BY <1>a, <1>b, <1>c, <1>d, <2>2, <2>3, <2>4 DEF ClosureLocks, HoldsClosure,
       Types
  <2>5. ASSUME NEW c \in Proc, cl' = [cl EXCEPT ![w] = c],
               UNCHANGED <<pc>>
        PROVE  ClosureLocks'
    BY <1>a, <1>b, <1>c, <1>d, <2>2, <2>3, <2>5 DEF ClosureLocks, HoldsClosure,
       Types
  <2>q. QED
    BY <2>1, <2>2, <2>4, <2>5 DEF TakeOwnDoes
<1>3. ASSUME NEW w \in Worker, StealLockDeque(w) PROVE ClosureLocks'
  <2>2. /\ pc[w] = "steal" /\ pc' = [pc EXCEPT ![w] = "stealDeque"]
        /\ UNCHANGED <<clock, child, walk>>
    BY <1>3 DEF StealLockDeque, program, results, state, tree, caches, Goto,
       LockDeque, Peek, Hand
  <2>3. /\ "steal" \notin LockPC /\ "steal" \notin ReturnPC
        /\ "steal" \notin PollPC /\ "stealDeque" \notin LockPC
        /\ "stealDeque" \notin ReturnPC /\ "stealDeque" \notin PollPC
    BY <2>2 DEF LockPC, ReturnPC, PollPC
  <2>4. ASSUME NEW v \in Worker \ {w},
               cl' = [cl EXCEPT ![w] = IF deque[v] = <<>> THEN None ELSE Head(deque[v])]
        PROVE  ClosureLocks'
    BY <1>a, <1>b, <1>c, <1>d, <2>2, <2>3, <2>4 DEF ClosureLocks, HoldsClosure,
       Types
  <2>q. QED
    BY <1>3, <2>2, <2>4 DEF StealLockDeque, program, results, state, tree,
       caches, Goto, LockDeque, Peek, Hand
<1>4. ASSUME NEW w \in Worker, StealLockClosure(w) PROVE ClosureLocks'
  <2>2. /\ pc[w] = "stealDeque" /\ cl[w] # None /\ clock[cl[w]] = None
        /\ clock' = [clock EXCEPT ![cl[w]] = w]
        /\ pc' = [pc EXCEPT ![w] = "stealClosure"]
        /\ UNCHANGED <<cl, child, walk>>
    BY <1>4 DEF StealLockClosure, program, results, state, tree, caches, Goto,
       LockClosure
  <2>3. /\ "stealDeque" \notin LockPC /\ "stealDeque" \notin ReturnPC
        /\ "stealDeque" \notin PollPC /\ "stealClosure" \in LockPC
        /\ "stealClosure" \notin ReturnPC /\ "stealClosure" \notin PollPC
    BY <2>2 DEF LockPC, ReturnPC, PollPC
  <2>q. QED
    BY <1>a, <1>b, <1>c, <1>d, <2>2, <2>3 DEF ClosureLocks, HoldsClosure, Types
<1>5. ASSUME NEW w \in Worker, StealGiveUp(w) PROVE ClosureLocks'
  <2>2. /\ pc[w] = "stealClosure" /\ clock' = [clock EXCEPT ![cl[w]] = None]
        /\ pc' = [pc EXCEPT ![w] = "stealGiveUp"]
        /\ cl' = [cl EXCEPT ![w] = None]
        /\ UNCHANGED <<child, walk>>
    BY <1>5 DEF StealGiveUp, program, results, state, tree, caches, Goto, Hand,
       UnlockClosure, BeingAborted
  <2>3. /\ "stealClosure" \in LockPC /\ "stealClosure" \notin ReturnPC
        /\ "stealClosure" \notin PollPC /\ "stealGiveUp" \notin LockPC
        /\ "stealGiveUp" \notin ReturnPC /\ "stealGiveUp" \notin PollPC
    BY <2>2 DEF LockPC, ReturnPC, PollPC
  <2>q. QED
    BY <1>a, <1>b, <1>c, <1>d, <2>2, <2>3 DEF ClosureLocks, HoldsClosure, Types
<1>6. ASSUME NEW w \in Worker, StealUnlockDeque(w) PROVE ClosureLocks'
  BY <1>g, <1>6 DEF StealUnlockDeque, program, results, state, tree, caches,
     Goto, UnlockDeque, LockPC, ReturnPC, PollPC
<1>7. ASSUME NEW w \in Worker, StealReady(w) PROVE ClosureLocks'
  <2>1. PICK v \in Worker \ {w}, c \in Proc :
          StealReadyDoes(w, v, c)
    BY <1>7, StealReadyEffect
  <2>2. /\ pc[w] = "stealClosure" /\ c = cl[w] /\ pc[v] \notin OwnDequePC
        /\ clock' = [clock EXCEPT ![c] = None]
        /\ pc' = [pc EXCEPT ![w] = "loop"]
        /\ UNCHANGED <<cl, child, walk>>
    BY <2>1 DEF StealReadyDoes
  <2>3. /\ "stealClosure" \in LockPC /\ "stealClosure" \notin ReturnPC
        /\ "stealClosure" \notin PollPC /\ "loop" \notin LockPC
        /\ "loop" \notin ReturnPC /\ "loop" \notin PollPC
    BY <2>2 DEF LockPC, ReturnPC, PollPC
  <2>4. clock[c] = w
    BY <1>d, <2>2, <2>3
  <2>5. \A u \in Worker, d \in Proc : HoldsClosure(u, d)'
           <=> HoldsClosure(u, d) /\ ~(u = w /\ d = c)
    BY <1>a, <1>b, <1>c, <2>2, <2>3 DEF HoldsClosure, Types
  <2>6. \A d \in Proc, u \in Worker : clock'[d] = u <=> HoldsClosure(u, d)'
    <3>1. \A d \in Proc : clock'[d] = IF d = c THEN None ELSE clock[d]
      BY <1>a, <2>2 DEF Types
    <3>2. \A d \in Proc, u \in Worker : clock[d] = u <=> HoldsClosure(u, d)
      BY <1>a DEF ClosureLocks
    <3>q. QED
      BY <1>b, <2>2, <2>4, <2>5, <3>1, <3>2
  <2>7. /\ \A u \in Worker : pc'[u] \in LockPC => cl'[u] # None
        /\ \A u \in Worker : pc'[u] \in ReturnPC => child'[u] # None /\ child'[u] # cl'[u]
    BY <1>a, <1>b, <2>2, <2>3, <2>4 DEF ClosureLocks, Types
  <2>q. QED
    BY <2>6, <2>7 DEF ClosureLocks
<1>8. ASSUME NEW w \in Worker, StealPromote(w) PROVE ClosureLocks'
  <2>1. PICK v \in Worker \ {w}, c \in Proc, k \in Proc :
          StealPromoteDoes(w, v, c, k)
    BY <1>8, StealPromoteEffect
  <2>2. /\ pc[w] = "stealClosure" /\ c = cl[w] /\ pc[v] \in WorkPC \ OwnDequePC
        /\ k # c /\ k # Root /\ pc' = [pc EXCEPT ![w] = "stealFinish"]
        /\ child' = [child EXCEPT ![w] = k]
        /\ UNCHANGED <<clock, cl, walk>>
    BY <2>1 DEF StealPromoteDoes
  <2>3. /\ "stealClosure" \in LockPC /\ "stealClosure" \notin ReturnPC
        /\ "stealClosure" \notin PollPC /\ "stealFinish" \in LockPC
        /\ "stealFinish" \notin ReturnPC /\ "stealFinish" \notin PollPC
    BY <2>2 DEF LockPC, ReturnPC, PollPC
  <2>q. QED
    BY <1>a, <1>b, <1>c, <1>d, <2>2, <2>3 DEF ClosureLocks, HoldsClosure, Types
<1>9. ASSUME NEW w \in Worker, StealFinish(w) PROVE ClosureLocks'
  <2>2. /\ pc[w] = "stealFinish" /\ clock' = [clock EXCEPT ![cl[w]] = None]
        /\ pc' = [pc EXCEPT ![w] = "loop"]
        /\ child' = [child EXCEPT ![w] = None]
        /\ UNCHANGED <<cl, walk>>
    BY <1>9 DEF StealFinish, program, results, caches, Goto, UnlockClosure,
       SetStatus, AddChild
  <2>3. /\ "stealFinish" \in LockPC /\ "stealFinish" \notin ReturnPC
        /\ "stealFinish" \notin PollPC /\ "loop" \notin LockPC
        /\ "loop" \notin ReturnPC /\ "loop" \notin PollPC
    BY <2>2 DEF LockPC, ReturnPC, PollPC
  <2>q. QED
    BY <1>a, <1>b, <1>c, <1>d, <2>2, <2>3 DEF ClosureLocks, HoldsClosure, Types
<1>10. ASSUME NEW w \in Worker, InletKilled(w) PROVE ClosureLocks'
  BY <1>f, <1>10 DEF InletKilled, program, state, locks, caches, Outcome,
     BeingAborted, Polls
<1>11. ASSUME NEW w \in Worker, InletRuns(w) PROVE ClosureLocks'
  BY <1>f, <1>11 DEF InletRuns, program, state, locks, caches, Outcome,
     BeingAborted, Polls
<1>12. ASSUME NEW w \in Worker, InletAborts(w) PROVE ClosureLocks'
  <2>1. PICK c \in Proc, r \in SUBSET Proc :
          InletAbortsDoes(w, c, r)
    BY <1>12, InletAbortsEffect
  <2>2. /\ c = cl[w] /\ pc[w] \in PollPC /\ walk[w] = <<>>
        /\ walk' = [walk EXCEPT ![w] = <<[at |-> c, rest |-> r]>>]
        /\ UNCHANGED <<clock, pc, cl, child>>
    BY <2>1 DEF InletAbortsDoes
  <2>3. walk' = [walk EXCEPT ![w] = <<[at |-> c, rest |-> r]>>]
    BY <2>1 DEF InletAbortsDoes
  <2>4. Size(walk'[w]) = 1 /\ walk[w] = <<>>
    <3>1. walk'[w] = <<[at |-> c, rest |-> r]>>
      BY <1>a, <2>3 DEF Types
    <3>q. QED
      BY <2>2, <3>1, SingleFacts
  <2>5. \A u \in Worker, d \in Proc : HoldsClosure(u, d)' <=> HoldsClosure(u, d)
    BY <1>a, <1>c, <2>2, <2>3, <2>4 DEF HoldsClosure, Types
  <2>q. QED
    BY <1>a, <2>2, <2>5 DEF ClosureLocks
<1>13. ASSUME NEW w \in Worker, WalkDown(w) PROVE ClosureLocks'
  <2>1. PICK n \in Nat \ {0}, k \in Proc :
          WalkDownDoes(w, n, k)
    BY <1>13, WalkDownEffect
  <2>2. /\ n = Size(walk[w]) /\ k \in walk[w][n].rest /\ clock[k] = None
        /\ k # Root
        /\ \A i \in 1 .. n : walk[w][i].at # k
        /\ clock' = [clock EXCEPT ![k] = w]
        /\ walk' \in [Worker -> Walks] /\ \A u \in Worker \ {w} : walk'[u] = walk[u]
        /\ Size(walk'[w]) = n + 1
        /\ \A i \in 1 .. n : walk'[w][i].at = walk[w][i].at
        /\ \A i \in 1 .. n - 1 : walk'[w][i].rest = walk[w][i].rest
        /\ walk'[w][n].rest = walk[w][n].rest \ {k}
        /\ walk'[w][n + 1] = [at |-> k, rest |-> incomplete[k]]
        /\ UNCHANGED <<pc, cl, child>>
    BY <2>1 DEF WalkDownDoes
  <2>3. \A u \in Worker, d \in Proc : HoldsClosure(u, d)'
           <=> HoldsClosure(u, d) \/ (u = w /\ d = k)
    <3>1. ASSUME NEW u \in Worker, NEW d \in Proc, u # w
          PROVE  HoldsClosure(u, d)' <=> HoldsClosure(u, d)
      BY <2>2, <3>1 DEF HoldsClosure
    <3>2. ASSUME NEW d \in Proc
          PROVE  (\E i \in 2 .. n + 1 : walk'[w][i].at = d)
                    <=> (\E i \in 2 .. n : walk[w][i].at = d) \/ d = k
      <4>1. n + 1 \in 2 .. n + 1 /\ walk'[w][n + 1].at = k
        BY <2>2
      <4>2. \A i \in 2 .. n : i \in 1 .. n /\ i \in 2 .. n + 1
        BY <2>2
      <4>3. \A i \in 2 .. n + 1 : i \in 2 .. n \/ i = n + 1
        BY <2>2
      <4>q. QED
        BY <2>2, <4>1, <4>2, <4>3
    <3>3. ASSUME NEW d \in Proc
          PROVE  HoldsClosure(w, d)' <=> HoldsClosure(w, d) \/ d = k
      BY <2>2, <3>2 DEF HoldsClosure
    <3>q. QED
      BY <3>1, <3>3
  <2>4. \A d \in Proc, u \in Worker : clock'[d] = u <=> HoldsClosure(u, d)'
    BY <1>l, <2>2, <2>3
  <2>q. QED
    BY <1>a, <2>2, <2>4 DEF ClosureLocks
<1>14. ASSUME NEW w \in Worker, WalkUp(w) PROVE ClosureLocks'
  <2>1. PICK n \in Nat \ {0} :
          WalkUpDoes(w, n)
    BY <1>14, WalkUpEffect
  <2>2. /\ n = Size(walk[w]) /\ walk[w][n].rest = {} /\ walk[w][n].at \in Proc
        /\ clock' = IF n > 1 THEN [clock EXCEPT ![walk[w][n].at] = None]
                           ELSE clock
        /\ walk' \in [Worker -> Walks] /\ \A u \in Worker \ {w} : walk'[u] = walk[u]
        /\ Size(walk'[w]) = n - 1
        /\ \A i \in 1 .. n - 1 : walk'[w][i] = walk[w][i]
        /\ UNCHANGED <<pc, cl, child>>
    BY <2>1 DEF WalkUpDoes
  <2>3. CASE n > 1
    <3>1. clock[walk[w][n].at] = w
      <4>1. n \in 2 .. n
        BY <2>3
      <4>q. QED
        BY <1>a, <2>2, <4>1 DEF ClosureLocks, HoldsClosure
    <3>2. \A u \in Worker, d \in Proc : HoldsClosure(u, d)'
             <=> HoldsClosure(u, d) /\ ~(u = w /\ d = walk[w][n].at)
      <4>1. ASSUME NEW u \in Worker, NEW d \in Proc, u # w
            PROVE  HoldsClosure(u, d)' <=> HoldsClosure(u, d)
        BY <2>2, <4>1 DEF HoldsClosure
      <4>2. ASSUME NEW d \in Proc
            PROVE  (\E i \in 2 .. n - 1 : walk'[w][i].at = d)
                      <=> (\E i \in 2 .. n : walk[w][i].at = d) /\ d # walk[w][n].at
        <5>1. \A i \in 2 .. n : i \in 2 .. n - 1 \/ i = n
          BY <2>2
        <5>2. \A i \in 2 .. n - 1 : i \in 1 .. n - 1 /\ i \in 1 .. n /\ n \in 1 .. n
                                    /\ i # n /\ i \in 2 .. n
          BY <2>2
        <5>3. \A i, j \in 1 .. n : walk[w][i].at = walk[w][j].at => i = j
          BY <2>2 DEF IInv, WalkInv
        <5>q. QED
          BY <2>2, <5>1, <5>2, <5>3
      <4>3. walk[w][n].at # cl[w] /\ (pc[w] = "return" => walk[w][n].at # child[w])
        <5>1. n \in 1 .. n /\ 1 \in 1 .. n /\ n # 1 /\ walk[w] # <<>>
          BY <1>c, <2>2, <2>3
        <5>q. QED
          BY <2>2, <5>1 DEF IInv, WalkInv
      <4>4. ASSUME NEW d \in Proc
            PROVE  HoldsClosure(w, d)' <=> HoldsClosure(w, d) /\ d # walk[w][n].at
        BY <2>2, <4>2, <4>3 DEF HoldsClosure
      <4>q. QED
        BY <4>1, <4>4
    <3>3. clock' = [clock EXCEPT ![walk[w][n].at] = None]
      BY <2>2, <2>3
    <3>4. \A d \in Proc, u \in Worker : clock'[d] = u <=> HoldsClosure(u, d)'
      BY <1>u, <2>2, <3>1, <3>2, <3>3
    <3>q. QED
      BY <1>a, <2>2, <3>4 DEF ClosureLocks
  <2>4. CASE ~(n > 1)
    <3>1. n = 1
      BY <2>2, <2>4
    <3>2. \A u \in Worker, d \in Proc : HoldsClosure(u, d)' <=> HoldsClosure(u, d)
      <4>1. ASSUME NEW u \in Worker, NEW d \in Proc, u # w
            PROVE  HoldsClosure(u, d)' <=> HoldsClosure(u, d)
        BY <2>2, <4>1 DEF HoldsClosure
      <4>2. ASSUME NEW d \in Proc PROVE HoldsClosure(w, d)' <=> HoldsClosure(w, d)
        BY <2>2, <3>1 DEF HoldsClosure
      <4>q. QED
        BY <4>1, <4>2
    <3>q. QED
      BY <1>a, <2>2, <2>4, <3>2 DEF ClosureLocks
  <2>q. QED
    BY <2>3, <2>4
<1>15. ASSUME NEW w \in Worker, AbortReadyClosure(w) PROVE ClosureLocks'
  <2>2. /\ pc[w] = "loop" /\ cl[w] # None /\ clock[cl[w]] = None
        /\ UNCHANGED <<clock, pc, child, walk>>
    BY <1>15 DEF AbortReadyClosure, program, results, tree, locks, caches,
       Hand, SetStatus, Outcome, BeingAborted, HasChildren
  <2>3. /\ "loop" \notin LockPC /\ "loop" \notin ReturnPC
        /\ "loop" \notin PollPC
    BY <2>2 DEF LockPC, ReturnPC, PollPC
  <2>4. ASSUME cl' = [cl EXCEPT ![w] = None]
        PROVE  ClosureLocks'
    BY <1>a, <1>b, <1>c, <1>d, <2>2, <2>3, <2>4 DEF ClosureLocks, HoldsClosure,
       Types
  <2>5. ASSUME UNCHANGED <<cl>>
        PROVE  ClosureLocks'
    BY <1>a, <1>b, <1>c, <1>d, <2>2, <2>3, <2>5 DEF ClosureLocks, HoldsClosure,
       Types
  <2>q. QED
    BY <1>15, <2>2, <2>4, <2>5 DEF AbortReadyClosure, program, results, tree,
       locks, caches, Hand, SetStatus, Outcome, BeingAborted, HasChildren
<1>16. ASSUME NEW w \in Worker, Setup(w) PROVE ClosureLocks'
  <2>2. /\ pc[w] = "loop" /\ cl[w] # None /\ clock[cl[w]] = None
        /\ clock' = [clock EXCEPT ![cl[w]] = w]
        /\ pc' = [pc EXCEPT ![w] = "setup"]
        /\ UNCHANGED <<cl, child, walk>>
    BY <1>16 DEF Setup, program, results, tree, Goto, LockClosure, SetStatus,
       BeingAborted
  <2>3. /\ "loop" \notin LockPC /\ "loop" \notin ReturnPC
        /\ "loop" \notin PollPC /\ "setup" \in LockPC
        /\ "setup" \notin ReturnPC /\ "setup" \in PollPC
    BY <2>2 DEF LockPC, ReturnPC, PollPC
  <2>q. QED
    BY <1>a, <1>b, <1>c, <1>d, <2>2, <2>3 DEF ClosureLocks, HoldsClosure, Types
<1>17. ASSUME NEW w \in Worker, SetupDone(w) PROVE ClosureLocks'
  <2>2. /\ pc[w] = "setup" /\ walk[w] = <<>>
        /\ clock' = [clock EXCEPT ![cl[w]] = None]
        /\ pc' = [pc EXCEPT ![w] = "add"]
        /\ UNCHANGED <<cl, child, walk>>
    BY <1>17 DEF SetupDone, program, results, tree, caches, Goto,
       UnlockClosure, Polled, Polls
  <2>3. /\ "setup" \in LockPC /\ "setup" \notin ReturnPC /\ "setup" \in PollPC
        /\ "add" \notin LockPC /\ "add" \notin ReturnPC /\ "add" \notin PollPC
    BY <2>2 DEF LockPC, ReturnPC, PollPC
  <2>q. QED
    BY <1>a, <1>b, <1>c, <1>d, <2>2, <2>3 DEF ClosureLocks, HoldsClosure, Types
<1>18. ASSUME NEW w \in Worker, Execute(w) PROVE ClosureLocks'
  <2>1. PICK c \in Proc :
          ExecuteDoes(w, c)
    BY <1>18, ExecuteEffect
  <2>2. /\ pc[w] = "add" /\ c = cl[w] /\ pc' = [pc EXCEPT ![w] = "run"]
        /\ cl' = [cl EXCEPT ![w] = None]
        /\ UNCHANGED <<clock, child, walk>>
    BY <2>1 DEF ExecuteDoes
  <2>3. /\ "add" \notin LockPC /\ "add" \notin ReturnPC /\ "add" \notin PollPC
        /\ "run" \notin LockPC /\ "run" \notin ReturnPC /\ "run" \notin PollPC
    BY <2>2 DEF LockPC, ReturnPC, PollPC
  <2>q. QED
    BY <1>a, <1>b, <1>c, <1>d, <2>2, <2>3 DEF ClosureLocks, HoldsClosure, Types
<1>19. ASSUME NEW w \in Worker, ReturnLockParent(w) PROVE ClosureLocks'
  <2>1. PICK k \in Proc, p \in Proc :
          ReturnLockParentDoes(w, k, p)
    BY <1>19, ReturnLockParentEffect
  <2>2. /\ pc[w] = "loop" /\ k = cl[w] /\ p # k /\ k # Root /\ clock[k] = None
        /\ clock[p] = None /\ clock' = [clock EXCEPT ![p] = w]
        /\ pc' = [pc EXCEPT ![w] = "returnChild"] /\ cl' = [cl EXCEPT ![w] = p]
        /\ child' = [child EXCEPT ![w] = k]
        /\ UNCHANGED <<walk>>
    BY <2>1 DEF ReturnLockParentDoes
  <2>3. /\ "loop" \notin LockPC /\ "loop" \notin ReturnPC
        /\ "loop" \notin PollPC /\ "returnChild" \in LockPC
        /\ "returnChild" \in ReturnPC /\ "returnChild" \notin PollPC
    BY <2>2 DEF LockPC, ReturnPC, PollPC
  <2>q. QED
    BY <1>a, <1>b, <1>c, <1>d, <2>2, <2>3 DEF ClosureLocks, HoldsClosure, Types
<1>20. ASSUME NEW w \in Worker, ReturnEnqueue(w) PROVE ClosureLocks'
  <2>1. PICK k \in Proc, p \in Proc :
          ReturnEnqueueDoes(w, k, p)
    BY <1>20, ReturnEnqueueEffect
  <2>2. /\ pc[w] = "returnChild" /\ k = child[w] /\ p = cl[w] /\ p # k
        /\ clock[k] = None /\ clock' = [clock EXCEPT ![k] = w]
        /\ pc' = [pc EXCEPT ![w] = "return"]
        /\ UNCHANGED <<cl, child, walk>>
    BY <2>1 DEF ReturnEnqueueDoes
  <2>3. /\ "returnChild" \in LockPC /\ "returnChild" \in ReturnPC
        /\ "returnChild" \notin PollPC /\ "return" \in LockPC
        /\ "return" \in ReturnPC /\ "return" \in PollPC
    BY <2>2 DEF LockPC, ReturnPC, PollPC
  <2>q. QED
    BY <1>a, <1>b, <1>c, <1>d, <2>2, <2>3 DEF ClosureLocks, HoldsClosure, Types
<1>21. ASSUME NEW w \in Worker, ReturnDone(w) PROVE ClosureLocks'
  <2>1. PICK k \in Proc, p \in Proc :
          ReturnDoneDoes(w, k, p)
    BY <1>21, ReturnDoneEffect
  <2>2. /\ pc[w] = "return" /\ k = child[w] /\ p = cl[w] /\ p # k /\ k # Root
        /\ walk[w] = <<>> /\ clock' = [clock EXCEPT ![p] = None, ![k] = None]
        /\ pc' = [pc EXCEPT ![w] = "loop"]
        /\ child' = [child EXCEPT ![w] = None]
        /\ UNCHANGED <<walk>>
    BY <2>1 DEF ReturnDoneDoes
  <2>3. /\ "return" \in LockPC /\ "return" \in ReturnPC /\ "return" \in PollPC
        /\ "loop" \notin LockPC /\ "loop" \notin ReturnPC
        /\ "loop" \notin PollPC
    BY <2>2 DEF LockPC, ReturnPC, PollPC
  <2>4. ASSUME UNCHANGED <<cl>>
        PROVE  ClosureLocks'
    BY <1>a, <1>b, <1>c, <1>d, <2>2, <2>3, <2>4 DEF ClosureLocks, HoldsClosure,
       Types
  <2>5. ASSUME cl' = [cl EXCEPT ![w] = None]
        PROVE  ClosureLocks'
    BY <1>a, <1>b, <1>c, <1>d, <2>2, <2>3, <2>5 DEF ClosureLocks, HoldsClosure,
       Types
  <2>q. QED
    BY <2>1, <2>2, <2>4, <2>5 DEF ReturnDoneDoes
<1>22. ASSUME NEW w \in Worker, Spawn(w) PROVE ClosureLocks'
  <2>1. PICK c \in Proc, f \in Proc :
          SpawnDoes(w, c, f)
    BY <1>22, SpawnEffect
  <2>q. QED
    BY <1>g, <2>1 DEF SpawnDoes, LockPC, ReturnPC, PollPC
<1>23. ASSUME NEW w \in Worker, ReturnFast(w) PROVE ClosureLocks'
  <2>1. PICK f \in Proc :
          ReturnFastDoes(w, f)
    BY <1>23, ReturnFastEffect
  <2>2. /\ pc[w] = "run" /\ f # Root /\ pc' = [pc EXCEPT ![w] = "pop"]
        /\ child' = [child EXCEPT ![w] = f]
        /\ UNCHANGED <<clock, cl, walk>>
    BY <2>1 DEF ReturnFastDoes
  <2>3. /\ "run" \notin LockPC /\ "run" \notin ReturnPC /\ "run" \notin PollPC
        /\ "pop" \notin LockPC /\ "pop" \notin ReturnPC /\ "pop" \notin PollPC
    BY <2>2 DEF LockPC, ReturnPC, PollPC
  <2>q. QED
    BY <1>a, <1>b, <1>c, <1>d, <2>2, <2>3 DEF ClosureLocks, HoldsClosure, Types
<1>24. ASSUME NEW w \in Worker, PopResult(w) PROVE ClosureLocks'
  <2>2. /\ pc[w] = "pop" /\ pc' = [pc EXCEPT ![w] = "run"]
        /\ child' = [child EXCEPT ![w] = None]
        /\ UNCHANGED <<clock, cl, walk>>
    BY <1>24 DEF PopResult, program, state, tree, locks, caches, Goto, Outcome
  <2>3. /\ "pop" \notin LockPC /\ "pop" \notin ReturnPC /\ "pop" \notin PollPC
        /\ "run" \notin LockPC /\ "run" \notin ReturnPC /\ "run" \notin PollPC
    BY <2>2 DEF LockPC, ReturnPC, PollPC
  <2>q. QED
    BY <1>a, <1>b, <1>c, <1>d, <2>2, <2>3 DEF ClosureLocks, HoldsClosure, Types
<1>25. ASSUME NEW w \in Worker, LockOwnDeque(w) PROVE ClosureLocks'
  BY <1>g, <1>25 DEF LockOwnDeque, program, results, state, tree, caches, Goto,
     LockDeque, SlowAborts, LockPC, ReturnPC, PollPC
<1>26. ASSUME NEW w \in Worker, LockBottom(w) PROVE ClosureLocks'
  <2>1. PICK c \in Proc :
          LockBottomDoes(w, c)
    BY <1>26, LockBottomEffect
  <2>2. /\ pc[w] \in {"handler", "sync", "abort", "result"} /\ clock[c] = None
        /\ clock' = [clock EXCEPT ![c] = w] /\ cl' = [cl EXCEPT ![w] = c]
        /\ UNCHANGED <<child>>
    BY <2>1 DEF LockBottomDoes
  <2>3. /\ "handler" \notin LockPC /\ "handler" \notin ReturnPC
        /\ "handler" \notin PollPC /\ "sync" \notin LockPC
        /\ "sync" \notin ReturnPC /\ "sync" \notin PollPC
        /\ "abort" \notin LockPC /\ "abort" \notin ReturnPC
        /\ "abort" \notin PollPC /\ "result" \notin LockPC
        /\ "result" \notin ReturnPC /\ "result" \notin PollPC
        /\ "handlerPoll" \in LockPC /\ "handlerPoll" \notin ReturnPC
        /\ "handlerPoll" \in PollPC /\ "syncPoll" \in LockPC
        /\ "syncPoll" \notin ReturnPC /\ "syncPoll" \in PollPC
        /\ "setResult" \in LockPC /\ "setResult" \notin ReturnPC
        /\ "setResult" \notin PollPC /\ "abortPoll" \in LockPC
        /\ "abortPoll" \notin ReturnPC /\ "abortPoll" \in PollPC
        /\ pc[w] \notin LockPC /\ pc[w] \notin ReturnPC /\ pc[w] \notin PollPC
    BY <2>2 DEF LockPC, ReturnPC, PollPC
  <2>4. ASSUME pc[w] = "handler", pc' = [pc EXCEPT ![w] = "handlerPoll"],
               UNCHANGED <<walk>>
        PROVE  ClosureLocks'
    <3>1. \A u \in Worker, d \in Proc : HoldsClosure(u, d)'
             <=> HoldsClosure(u, d) \/ (u = w /\ d = c)
      BY <1>a, <2>2, <2>3, <2>4 DEF HoldsClosure, Types
    <3>2. \A d \in Proc, u \in Worker : clock'[d] = u <=> HoldsClosure(u, d)'
      BY <1>l, <2>2, <3>1
    <3>3. /\ \A u \in Worker : pc'[u] \in LockPC => cl'[u] # None
          /\ \A u \in Worker : pc'[u] \in ReturnPC => child'[u] # None /\ child'[u] # cl'[u]
      BY <1>a, <1>b, <2>2, <2>3, <2>4 DEF ClosureLocks, Types
    <3>q. QED
      BY <3>2, <3>3 DEF ClosureLocks
  <2>5. ASSUME pc[w] = "sync", pc' = [pc EXCEPT ![w] = "syncPoll"],
               UNCHANGED <<walk>>
        PROVE  ClosureLocks'
    <3>1. \A u \in Worker, d \in Proc : HoldsClosure(u, d)'
             <=> HoldsClosure(u, d) \/ (u = w /\ d = c)
      BY <1>a, <2>2, <2>3, <2>5 DEF HoldsClosure, Types
    <3>2. \A d \in Proc, u \in Worker : clock'[d] = u <=> HoldsClosure(u, d)'
      BY <1>l, <2>2, <3>1
    <3>3. /\ \A u \in Worker : pc'[u] \in LockPC => cl'[u] # None
          /\ \A u \in Worker : pc'[u] \in ReturnPC => child'[u] # None /\ child'[u] # cl'[u]
      BY <1>a, <1>b, <2>2, <2>3, <2>5 DEF ClosureLocks, Types
    <3>q. QED
      BY <3>2, <3>3 DEF ClosureLocks
  <2>6. ASSUME pc[w] = "result", pc' = [pc EXCEPT ![w] = "setResult"],
               UNCHANGED <<walk>>
        PROVE  ClosureLocks'
    <3>1. \A u \in Worker, d \in Proc : HoldsClosure(u, d)'
             <=> HoldsClosure(u, d) \/ (u = w /\ d = c)
      BY <1>a, <2>2, <2>3, <2>6 DEF HoldsClosure, Types
    <3>2. \A d \in Proc, u \in Worker : clock'[d] = u <=> HoldsClosure(u, d)'
      BY <1>l, <2>2, <3>1
    <3>3. /\ \A u \in Worker : pc'[u] \in LockPC => cl'[u] # None
          /\ \A u \in Worker : pc'[u] \in ReturnPC => child'[u] # None /\ child'[u] # cl'[u]
      BY <1>a, <1>b, <2>2, <2>3, <2>6 DEF ClosureLocks, Types
    <3>q. QED
      BY <3>2, <3>3 DEF ClosureLocks
  <2>7. ASSUME NEW s \in {ABORT_ALL, ALMOST_NO_ABORT}, pc[w] = "abort",
               pc' = [pc EXCEPT ![w] = "abortPoll"],
               walk' = [walk EXCEPT ![w] = <<[at |-> c, rest |-> incomplete[c]]>>]
        PROVE  ClosureLocks'
    <3>1. walk[w] = <<>> /\ Size(walk'[w]) = 1
      <4>1. walk'[w] = <<[at |-> c, rest |-> incomplete[c]]>>
        BY <1>a, <2>7 DEF Types
      <4>q. QED
        BY <1>c, <2>3, <2>7, <4>1, SingleFacts
    <3>2. \A u \in Worker, d \in Proc : HoldsClosure(u, d)'
             <=> HoldsClosure(u, d) \/ (u = w /\ d = c)
      BY <1>a, <1>c, <2>2, <2>3, <2>7, <3>1 DEF HoldsClosure, Types
    <3>3. \A d \in Proc, u \in Worker : clock'[d] = u <=> HoldsClosure(u, d)'
      BY <1>l, <2>2, <3>2
    <3>4. /\ \A u \in Worker : pc'[u] \in LockPC => cl'[u] # None
          /\ \A u \in Worker : pc'[u] \in ReturnPC => child'[u] # None /\ child'[u] # cl'[u]
      BY <1>a, <1>b, <2>2, <2>3, <2>7 DEF ClosureLocks, Types
    <3>q. QED
      BY <3>3, <3>4 DEF ClosureLocks
  <2>q. QED
    BY <2>1, <2>2, <2>4, <2>5, <2>6, <2>7 DEF LockBottomDoes
<1>27. ASSUME NEW w \in Worker, Sync(w) PROVE ClosureLocks'
  <2>1. PICK c \in Proc :
          SyncDoes(w, c)
    BY <1>27, SyncEffect
  <2>2. /\ pc[w] = "syncPoll" /\ c = cl[w] /\ walk[w] = <<>>
        /\ clock' = [clock EXCEPT ![c] = None] /\ cl' = [cl EXCEPT ![w] = None]
        /\ UNCHANGED <<child, walk>>
    BY <2>1 DEF SyncDoes
  <2>3. /\ "syncPoll" \in LockPC /\ "syncPoll" \notin ReturnPC
        /\ "syncPoll" \in PollPC /\ "loop" \notin LockPC
        /\ "loop" \notin ReturnPC /\ "loop" \notin PollPC
        /\ "synced" \notin LockPC /\ "synced" \notin ReturnPC
        /\ "synced" \notin PollPC
    BY <2>2 DEF LockPC, ReturnPC, PollPC
  <2>4. ASSUME pc' = [pc EXCEPT ![w] = "loop"]
        PROVE  ClosureLocks'
    BY <1>a, <1>b, <1>c, <1>d, <2>2, <2>3, <2>4 DEF ClosureLocks, HoldsClosure,
       Types
  <2>5. ASSUME pc' = [pc EXCEPT ![w] = "synced"]
        PROVE  ClosureLocks'
    BY <1>a, <1>b, <1>c, <1>d, <2>2, <2>3, <2>5 DEF ClosureLocks, HoldsClosure,
       Types
  <2>q. QED
    BY <2>1, <2>2, <2>4, <2>5 DEF SyncDoes
<1>28. ASSUME NEW w \in Worker, AbortSlow(w) PROVE ClosureLocks'
  <2>2. /\ pc[w] = "abortPoll" /\ walk[w] = <<>>
        /\ clock' = [clock EXCEPT ![cl[w]] = None]
        /\ pc' = [pc EXCEPT ![w] = "run"] /\ cl' = [cl EXCEPT ![w] = None]
        /\ UNCHANGED <<child, walk>>
    BY <1>28 DEF AbortSlow, program, results, tree, caches, Goto, UnlockBoth,
       Polled, Hand, UnlockClosure, UnlockDeque, Polls
  <2>3. /\ "abortPoll" \in LockPC /\ "abortPoll" \notin ReturnPC
        /\ "abortPoll" \in PollPC /\ "run" \notin LockPC
        /\ "run" \notin ReturnPC /\ "run" \notin PollPC
    BY <2>2 DEF LockPC, ReturnPC, PollPC
  <2>q. QED
    BY <1>a, <1>b, <1>c, <1>d, <2>2, <2>3 DEF ClosureLocks, HoldsClosure, Types
<1>29. ASSUME NEW w \in Worker, SetResult(w) PROVE ClosureLocks'
  <2>1. PICK c \in Proc :
          SetResultDoes(w, c)
    BY <1>29, SetResultEffect
  <2>2. /\ pc[w] = "setResult" /\ c = cl[w] /\ c # Root
        /\ clock' = [clock EXCEPT ![c] = None]
        /\ pc' = [pc EXCEPT ![w] = "loop"] /\ cl' = [cl EXCEPT ![w] = None]
        /\ UNCHANGED <<child, walk>>
    BY <2>1 DEF SetResultDoes
  <2>3. /\ "setResult" \in LockPC /\ "setResult" \notin ReturnPC
        /\ "setResult" \notin PollPC /\ "loop" \notin LockPC
        /\ "loop" \notin ReturnPC /\ "loop" \notin PollPC
    BY <2>2 DEF LockPC, ReturnPC, PollPC
  <2>q. QED
    BY <1>a, <1>b, <1>c, <1>d, <2>2, <2>3 DEF ClosureLocks, HoldsClosure, Types
<1>30. ASSUME NEW w \in Worker, Done(w) PROVE ClosureLocks'
  BY <1>g, <1>30 DEF Done, results, state, tree, locks, caches, Goto,
     AfterSync, LockPC, ReturnPC, PollPC
<1>31. ASSUME NEW w \in Worker, RemoveAndFree(w) PROVE ClosureLocks'
  <2>1. RemoveAndFreeDoes(w)
    BY <1>31, RemoveAndFreeEffect
  <2>q. QED
    BY <1>g, <2>1 DEF RemoveAndFreeDoes, LockPC, ReturnPC, PollPC
<1>32. ASSUME NEW w \in Worker, CilkExit(w) PROVE ClosureLocks'
  <2>1. CilkExitDoes(w)
    BY <1>32, CilkExitEffect
  <2>2. /\ pc[w] = "run" /\ Root \in Proc /\ clock[Root] = None
        /\ UNCHANGED <<child, walk>>
    BY <2>1 DEF CilkExitDoes
  <2>3. /\ "run" \notin LockPC /\ "run" \notin ReturnPC /\ "run" \notin PollPC
        /\ "exitPoll" \in LockPC /\ "exitPoll" \notin ReturnPC
        /\ "exitPoll" \in PollPC
    BY <2>2 DEF LockPC, ReturnPC, PollPC
  <2>4. ASSUME UNCHANGED <<clock, pc, cl>>
        PROVE  ClosureLocks'
    BY <1>f, <2>2, <2>4
  <2>5. ASSUME clock' = [clock EXCEPT ![Root] = w],
               pc' = [pc EXCEPT ![w] = "exitPoll"],
               cl' = [cl EXCEPT ![w] = Root]
        PROVE  ClosureLocks'
    BY <1>a, <1>b, <1>c, <1>d, <2>2, <2>3, <2>5 DEF ClosureLocks, HoldsClosure,
       Types
  <2>q. QED
    BY <2>1, <2>2, <2>4, <2>5 DEF CilkExitDoes
<1>33. ASSUME NEW w \in Worker, CilkExitDone(w) PROVE ClosureLocks'
  <2>2. /\ pc[w] = "exitPoll" /\ walk[w] = <<>>
        /\ clock' = [clock EXCEPT ![Root] = None]
        /\ pc' = [pc EXCEPT ![w] = "run"] /\ cl' = [cl EXCEPT ![w] = None]
        /\ UNCHANGED <<child, walk>>
    BY <1>33 DEF CilkExitDone, program, results, tree, caches, Goto, Hand,
       UnlockClosure, Polled, Polls
  <2>3. /\ "exitPoll" \in LockPC /\ "exitPoll" \notin ReturnPC
        /\ "exitPoll" \in PollPC /\ "run" \notin LockPC
        /\ "run" \notin ReturnPC /\ "run" \notin PollPC
    BY <2>2 DEF LockPC, ReturnPC, PollPC
  <2>4. cl[w] = Root /\ Root \in Proc /\ clock[Root] = w
    BY <1>d, <2>2, <2>3 DEF IInv, InHandInv
  <2>5. \A u \in Worker, d \in Proc : HoldsClosure(u, d)'
           <=> HoldsClosure(u, d) /\ ~(u = w /\ d = Root)
    BY <1>a, <1>b, <2>2, <2>3, <2>4, <1>c DEF HoldsClosure, Types
  <2>6. \A d \in Proc, u \in Worker : clock'[d] = u <=> HoldsClosure(u, d)'
    BY <1>u, <2>2, <2>4, <2>5
  <2>7. /\ \A u \in Worker : pc'[u] \in LockPC => cl'[u] # None
        /\ \A u \in Worker : pc'[u] \in ReturnPC => child'[u] # None /\ child'[u] # cl'[u]
    BY <1>a, <1>b, <2>2, <2>3, <2>4 DEF ClosureLocks, Types
  <2>q. QED
    BY <2>6, <2>7 DEF ClosureLocks
<1>34. ASSUME NEW w \in Worker, HandlerPolled(w) PROVE ClosureLocks'
  <2>1. PICK t \in Proc, t1 \in Proc :
          HandlerPolledDoes(w, t, t1)
    BY <1>34, HandlerPolledEffect
  <2>2. /\ pc[w] = "handlerPoll" /\ t = cl[w] /\ walk[w] = <<>>
        /\ UNCHANGED <<child, walk>>
    BY <2>1 DEF HandlerPolledDoes
  <2>3. /\ "handlerPoll" \in LockPC /\ "handlerPoll" \notin ReturnPC
        /\ "handlerPoll" \in PollPC /\ "handlerAct" \in LockPC
        /\ "handlerAct" \notin ReturnPC /\ "handlerAct" \notin PollPC
        /\ "handlerSwap" \notin LockPC /\ "handlerSwap" \notin ReturnPC
        /\ "handlerSwap" \notin PollPC
    BY <2>2 DEF LockPC, ReturnPC, PollPC
  <2>4. ASSUME t1 = t, pc' = [pc EXCEPT ![w] = "handlerAct"],
               UNCHANGED <<clock, cl>>
        PROVE  ClosureLocks'
    BY <1>a, <1>b, <1>c, <1>d, <2>2, <2>3, <2>4 DEF ClosureLocks, HoldsClosure,
       Types
  <2>5. ASSUME t1 # t, clock' = [clock EXCEPT ![t] = None],
               pc' = [pc EXCEPT ![w] = "handlerSwap"],
               cl' = [cl EXCEPT ![w] = t1]
        PROVE  ClosureLocks'
    <3>1. clock[t] = w
      BY <1>d, <2>2, <2>3
    <3>2. \A u \in Worker, d \in Proc : HoldsClosure(u, d)'
             <=> HoldsClosure(u, d) /\ ~(u = w /\ d = t)
      BY <1>a, <1>b, <1>c, <2>2, <2>3, <2>5 DEF HoldsClosure, Types
    <3>3. \A d \in Proc, u \in Worker : clock'[d] = u <=> HoldsClosure(u, d)'
      BY <1>u, <2>2, <2>5, <3>1, <3>2
    <3>4. /\ \A u \in Worker : pc'[u] \in LockPC => cl'[u] # None
          /\ \A u \in Worker : pc'[u] \in ReturnPC => child'[u] # None /\ child'[u] # cl'[u]
      BY <1>a, <1>b, <2>2, <2>3, <2>5 DEF ClosureLocks, Types
    <3>q. QED
      BY <3>3, <3>4 DEF ClosureLocks
  <2>q. QED
    BY <2>1, <2>2, <2>4, <2>5 DEF HandlerPolledDoes
<1>35. ASSUME NEW w \in Worker, HandlerSwap(w) PROVE ClosureLocks'
  <2>2. /\ pc[w] = "handlerSwap" /\ clock[cl[w]] = None
        /\ clock' = [clock EXCEPT ![cl[w]] = w]
        /\ pc' = [pc EXCEPT ![w] = "handlerAct"]
        /\ UNCHANGED <<cl, child, walk>>
    BY <1>35 DEF HandlerSwap, program, results, state, tree, caches, Goto,
       LockClosure
  <2>3. /\ "handlerSwap" \notin LockPC /\ "handlerSwap" \notin ReturnPC
        /\ "handlerSwap" \notin PollPC /\ "handlerAct" \in LockPC
        /\ "handlerAct" \notin ReturnPC /\ "handlerAct" \notin PollPC
    BY <2>2 DEF LockPC, ReturnPC, PollPC
  <2>4. cl[w] \in Proc
    BY <2>2, InHandFacts
  <2>5. \A u \in Worker, d \in Proc : HoldsClosure(u, d)'
           <=> HoldsClosure(u, d) \/ (u = w /\ d = cl[w])
    BY <1>a, <2>2, <2>3, <2>4 DEF HoldsClosure, Types
  <2>6. \A d \in Proc, u \in Worker : clock'[d] = u <=> HoldsClosure(u, d)'
    <3>1. \A d \in Proc : clock'[d] = IF d = cl[w] THEN w ELSE clock[d]
      BY <1>a, <2>2 DEF Types
    <3>2. \A d \in Proc, u \in Worker : clock[d] = u <=> HoldsClosure(u, d)
      BY <1>a DEF ClosureLocks
    <3>q. QED
      BY <1>b, <2>2, <2>4, <2>5, <3>1, <3>2
  <2>7. /\ \A u \in Worker : pc'[u] \in LockPC => cl'[u] # None
        /\ \A u \in Worker : pc'[u] \in ReturnPC => child'[u] # None /\ child'[u] # cl'[u]
    BY <1>a, <1>b, <2>2, <2>3, <2>4 DEF ClosureLocks, Types
  <2>q. QED
    BY <2>6, <2>7 DEF ClosureLocks
<1>36. ASSUME NEW w \in Worker, HandlerStolen(w) PROVE ClosureLocks'
  <2>1. PICK c \in Proc :
          HandlerStolenDoes(w, c)
    BY <1>36, HandlerStolenEffect
  <2>2. /\ pc[w] = "handlerAct" /\ c = cl[w] /\ c # Root
        /\ clock' = [clock EXCEPT ![c] = None] /\ cl' = [cl EXCEPT ![w] = None]
        /\ child' = [child EXCEPT ![w] = None]
        /\ UNCHANGED <<walk>>
    BY <2>1 DEF HandlerStolenDoes
  <2>3. /\ "handlerAct" \in LockPC /\ "handlerAct" \notin ReturnPC
        /\ "handlerAct" \notin PollPC /\ "loop" \notin LockPC
        /\ "loop" \notin ReturnPC /\ "loop" \notin PollPC
        /\ "pop" \notin LockPC /\ "pop" \notin ReturnPC /\ "pop" \notin PollPC
    BY <2>2 DEF LockPC, ReturnPC, PollPC
  <2>4. ASSUME pc' = [pc EXCEPT ![w] = "loop"]
        PROVE  ClosureLocks'
    BY <1>a, <1>b, <1>c, <1>d, <2>2, <2>3, <2>4 DEF ClosureLocks, HoldsClosure,
       Types
  <2>5. ASSUME pc' = [pc EXCEPT ![w] = "pop"]
        PROVE  ClosureLocks'
    BY <1>a, <1>b, <1>c, <1>d, <2>2, <2>3, <2>5 DEF ClosureLocks, HoldsClosure,
       Types
  <2>q. QED
    BY <2>1, <2>2, <2>4, <2>5 DEF HandlerStolenDoes
<1>37. ASSUME NEW w \in Worker, HandlerAbort(w) PROVE ClosureLocks'
  <2>1. PICK c \in Proc, f \in Proc :
          HandlerAbortDoes(w, c, f)
    BY <1>37, HandlerAbortEffect
  <2>2. /\ pc[w] = "handlerAct" /\ c = cl[w]
        /\ clock' = [clock EXCEPT ![c] = None] /\ cl' = [cl EXCEPT ![w] = None]
        /\ UNCHANGED <<walk>>
    BY <2>1 DEF HandlerAbortDoes
  <2>3. /\ "handlerAct" \in LockPC /\ "handlerAct" \notin ReturnPC
        /\ "handlerAct" \notin PollPC /\ "loop" \notin LockPC
        /\ "loop" \notin ReturnPC /\ "loop" \notin PollPC
        /\ "pop" \notin LockPC /\ "pop" \notin ReturnPC /\ "pop" \notin PollPC
    BY <2>2 DEF LockPC, ReturnPC, PollPC
  <2>a. clock[c] = w
    BY <1>d, <2>2, <2>3
  <2>4. ASSUME pc' = [pc EXCEPT ![w] = "loop"],
               child' = [child EXCEPT ![w] = None]
        PROVE  ClosureLocks'
    <3>1. \A u \in Worker, d \in Proc : HoldsClosure(u, d)'
             <=> HoldsClosure(u, d) /\ ~(u = w /\ d = c)
      BY <1>a, <1>b, <1>c, <2>2, <2>3, <2>4 DEF HoldsClosure, Types
    <3>2. \A d \in Proc, u \in Worker : clock'[d] = u <=> HoldsClosure(u, d)'
      BY <1>u, <2>2, <2>a, <3>1
    <3>3. /\ \A u \in Worker : pc'[u] \in LockPC => cl'[u] # None
          /\ \A u \in Worker : pc'[u] \in ReturnPC => child'[u] # None /\ child'[u] # cl'[u]
      BY <1>a, <1>b, <2>2, <2>3, <2>4 DEF ClosureLocks, Types
    <3>q. QED
      BY <3>2, <3>3 DEF ClosureLocks
  <2>5. ASSUME c # Root, pc' = [pc EXCEPT ![w] = "loop"],
               child' = [child EXCEPT ![w] = None]
        PROVE  ClosureLocks'
    <3>1. \A u \in Worker, d \in Proc : HoldsClosure(u, d)'
             <=> HoldsClosure(u, d) /\ ~(u = w /\ d = c)
      BY <1>a, <1>b, <1>c, <2>2, <2>3, <2>5 DEF HoldsClosure, Types
    <3>2. \A d \in Proc, u \in Worker : clock'[d] = u <=> HoldsClosure(u, d)'
      BY <1>u, <2>2, <2>a, <3>1
    <3>3. /\ \A u \in Worker : pc'[u] \in LockPC => cl'[u] # None
          /\ \A u \in Worker : pc'[u] \in ReturnPC => child'[u] # None /\ child'[u] # cl'[u]
      BY <1>a, <1>b, <2>2, <2>3, <2>5 DEF ClosureLocks, Types
    <3>q. QED
      BY <3>2, <3>3 DEF ClosureLocks
  <2>6. ASSUME c # Root, pc' = [pc EXCEPT ![w] = "pop"],
               child' = [child EXCEPT ![w] = c]
        PROVE  ClosureLocks'
    <3>1. \A u \in Worker, d \in Proc : HoldsClosure(u, d)'
             <=> HoldsClosure(u, d) /\ ~(u = w /\ d = c)
      BY <1>a, <1>b, <1>c, <2>2, <2>3, <2>6 DEF HoldsClosure, Types
    <3>2. \A d \in Proc, u \in Worker : clock'[d] = u <=> HoldsClosure(u, d)'
      BY <1>u, <2>2, <2>a, <3>1
    <3>3. /\ \A u \in Worker : pc'[u] \in LockPC => cl'[u] # None
          /\ \A u \in Worker : pc'[u] \in ReturnPC => child'[u] # None /\ child'[u] # cl'[u]
      BY <1>a, <1>b, <2>2, <2>3, <2>6 DEF ClosureLocks, Types
    <3>q. QED
      BY <3>2, <3>3 DEF ClosureLocks
  <2>7. ASSUME f # Root, pc' = [pc EXCEPT ![w] = "pop"],
               child' = [child EXCEPT ![w] = f]
        PROVE  ClosureLocks'
    <3>1. \A u \in Worker, d \in Proc : HoldsClosure(u, d)'
             <=> HoldsClosure(u, d) /\ ~(u = w /\ d = c)
      BY <1>a, <1>b, <1>c, <2>2, <2>3, <2>7 DEF HoldsClosure, Types
    <3>2. \A d \in Proc, u \in Worker : clock'[d] = u <=> HoldsClosure(u, d)'
      BY <1>u, <2>2, <2>a, <3>1
    <3>3. /\ \A u \in Worker : pc'[u] \in LockPC => cl'[u] # None
          /\ \A u \in Worker : pc'[u] \in ReturnPC => child'[u] # None /\ child'[u] # cl'[u]
      BY <1>a, <1>b, <2>2, <2>3, <2>7 DEF ClosureLocks, Types
    <3>q. QED
      BY <3>2, <3>3 DEF ClosureLocks
  <2>q. QED
    BY <2>1, <2>2, <2>4, <2>5, <2>6, <2>7 DEF HandlerAbortDoes, AbortWaits,
       AbortReturns, AbortPops
<1>38. ASSUME NEW w \in Worker, HandlerResume(w) PROVE ClosureLocks'
  <2>2. /\ pc[w] = "handlerAct" /\ clock' = [clock EXCEPT ![cl[w]] = None]
        /\ pc' = [pc EXCEPT ![w] = "run"] /\ cl' = [cl EXCEPT ![w] = None]
        /\ child' = [child EXCEPT ![w] = None]
        /\ UNCHANGED <<walk>>
    BY <1>38 DEF HandlerResume, program, tree, Goto, UnlockBoth, Outcome,
       BeingAborted, Stolen, Hand, UnlockClosure, UnlockDeque
  <2>3. /\ "handlerAct" \in LockPC /\ "handlerAct" \notin ReturnPC
        /\ "handlerAct" \notin PollPC /\ "run" \notin LockPC
        /\ "run" \notin ReturnPC /\ "run" \notin PollPC
    BY <2>2 DEF LockPC, ReturnPC, PollPC
  <2>q. QED
    BY <1>a, <1>b, <1>c, <1>d, <2>2, <2>3 DEF ClosureLocks, HoldsClosure, Types
<1>39. CASE UNCHANGED vars
  BY <1>f, <1>39 DEF vars
<1>q. QED
  BY <1>1, <1>2, <1>3, <1>4, <1>5, <1>6, <1>7, <1>8, <1>9, <1>10, <1>11, <1>12,
     <1>13, <1>14, <1>15, <1>16, <1>17, <1>18, <1>19, <1>20, <1>21, <1>22,
     <1>23, <1>24, <1>25, <1>26, <1>27, <1>28, <1>29, <1>30, <1>31, <1>32,
     <1>33, <1>34, <1>35, <1>36, <1>37, <1>38, <1>39 DEF Next, Step, Terminated

(* The signal goes down to a child that nobody has locked, and the         *)
(* closures on the path are locked; it goes up to where it came from.      *)
LEMMA WalkInvStep ==
    ASSUME IInv, [Next]_vars
    PROVE  WalkInv'
<1>a. Types /\ WalkInv
  BY DEF IInv
<1>b. None \notin Worker /\ None \notin Proc
  BY WorkerAssumption DEF None, Proc
<1>c. \A w \in Worker : /\ walk[w] \in Walks /\ Size(walk[w]) \in Nat
                        /\ (walk[w] = <<>> <=> Size(walk[w]) = 0)
  BY <1>a, WalkFacts
<1>d. \A u \in Worker : pc[u] = "return" => /\ cl[u] \in Proc /\ clock[cl[u]] = u
                                             /\ status[cl[u]] # "none"
  <2>1. \A u \in Worker : pc[u] = "return" => pc[u] \in ReturnPC
    BY DEF ReturnPC
  <2>q. QED
    BY <2>1, ReturnFacts
<1>e. \A c \in Proc : Root \notin incomplete[c]
  BY DEF IInv, RootInv
<1>h. ASSUME NEW w \in Worker, walk[w] = <<>>, walk' = walk,
             \A u \in Worker \ {w} : pc'[u] = pc[u] /\ cl'[u] = cl[u] /\ child'[u] = child[u],
             \A u \in Worker \ {w} : pc[u] = "return" /\ status[cl[u]] # "RUNNING"
                                        => status'[cl[u]] # "RUNNING"
      PROVE  WalkInv'
  BY <1>a, <1>c, <1>h DEF WalkInv
<1>f. ASSUME UNCHANGED <<walk, pc, cl, child, status>>
      PROVE  WalkInv'
BY <1>a, <1>b, <1>c, <1>d, <1>e, <1>f DEF WalkInv, Types
<1>g. ASSUME NEW w \in Worker, NEW l, pc' = [pc EXCEPT ![w] = l],
             l \in PollPC <=> pc[w] \in PollPC,
             l = "return" <=> pc[w] = "return",
             UNCHANGED <<walk, cl, child, status>>
      PROVE  WalkInv'
BY <1>a, <1>b, <1>c, <1>d, <1>e, <1>g DEF WalkInv, Types
<1>1. ASSUME NEW w \in Worker, LeaveScheduler(w) PROVE WalkInv'
  BY <1>g, <1>1 DEF LeaveScheduler, program, results, state, tree, locks,
     caches, Goto, PollPC
<1>2. ASSUME NEW w \in Worker, TakeOwn(w) PROVE WalkInv'
  <2>1. TakeOwnDoes(w)
    BY <1>2, TakeOwnEffect
  <2>2. /\ pc[w] = "loop" /\ cl[w] = None
        /\ UNCHANGED <<walk, child, status>>
    BY <2>1 DEF TakeOwnDoes
  <2>3. /\ "loop" \notin PollPC /\ "steal" \notin PollPC
    BY <2>2 DEF PollPC
  <2>4. ASSUME pc' = [pc EXCEPT ![w] = "steal"],
               UNCHANGED <<cl>>
        PROVE  WalkInv'
    <3>1. walk[w] = <<>> /\ walk' = walk
      BY <1>a, <2>2, <2>3, <2>4 DEF WalkInv
    <3>2. \A u \in Worker \ {w} : /\ pc'[u] = pc[u] /\ cl'[u] = cl[u]
                                  /\ child'[u] = child[u]
      BY <1>a, <2>2, <2>3, <2>4 DEF Types
    <3>3. \A u \in Worker \ {w} : pc[u] = "return" /\ status[cl[u]] # "RUNNING"
                                        => status'[cl[u]] # "RUNNING"
      BY <1>a, <1>d, <2>2, <2>3, <2>4 DEF Types
    <3>q. QED
      BY <1>h, <2>2, <3>1, <3>2, <3>3
  <2>5. ASSUME NEW c \in Proc, cl' = [cl EXCEPT ![w] = c],
               UNCHANGED <<pc>>
        PROVE  WalkInv'
    <3>1. walk[w] = <<>> /\ walk' = walk
      BY <1>a, <2>2, <2>3, <2>5 DEF WalkInv
    <3>2. \A u \in Worker \ {w} : /\ pc'[u] = pc[u] /\ cl'[u] = cl[u]
                                  /\ child'[u] = child[u]
      BY <1>a, <2>2, <2>3, <2>5 DEF Types
    <3>3. \A u \in Worker \ {w} : pc[u] = "return" /\ status[cl[u]] # "RUNNING"
                                        => status'[cl[u]] # "RUNNING"
      BY <1>a, <1>d, <2>2, <2>3, <2>5 DEF Types
    <3>q. QED
      BY <1>h, <2>2, <3>1, <3>2, <3>3
  <2>q. QED
    BY <2>1, <2>2, <2>4, <2>5 DEF TakeOwnDoes
<1>3. ASSUME NEW w \in Worker, StealLockDeque(w) PROVE WalkInv'
  <2>2. /\ pc[w] = "steal" /\ pc' = [pc EXCEPT ![w] = "stealDeque"]
        /\ UNCHANGED <<walk, child, status>>
    BY <1>3 DEF StealLockDeque, program, results, state, tree, caches, Goto,
       LockDeque, Peek, Hand
  <2>3. /\ "steal" \notin PollPC /\ "stealDeque" \notin PollPC
    BY <2>2 DEF PollPC
  <2>4. ASSUME NEW v \in Worker \ {w},
               cl' = [cl EXCEPT ![w] = IF deque[v] = <<>> THEN None ELSE Head(deque[v])]
        PROVE  WalkInv'
    <3>1. walk[w] = <<>> /\ walk' = walk
      BY <1>a, <2>2, <2>3, <2>4 DEF WalkInv
    <3>2. \A u \in Worker \ {w} : /\ pc'[u] = pc[u] /\ cl'[u] = cl[u]
                                  /\ child'[u] = child[u]
      BY <1>a, <2>2, <2>3, <2>4 DEF Types
    <3>3. \A u \in Worker \ {w} : pc[u] = "return" /\ status[cl[u]] # "RUNNING"
                                        => status'[cl[u]] # "RUNNING"
      BY <1>a, <1>d, <2>2, <2>3, <2>4 DEF Types
    <3>q. QED
      BY <1>h, <2>2, <3>1, <3>2, <3>3
  <2>q. QED
    BY <1>3, <2>2, <2>4 DEF StealLockDeque, program, results, state, tree,
       caches, Goto, LockDeque, Peek, Hand
<1>4. ASSUME NEW w \in Worker, StealLockClosure(w) PROVE WalkInv'
  BY <1>g, <1>4 DEF StealLockClosure, program, results, state, tree, caches,
     Goto, LockClosure, PollPC
<1>5. ASSUME NEW w \in Worker, StealGiveUp(w) PROVE WalkInv'
  <2>2. /\ pc[w] = "stealClosure" /\ pc' = [pc EXCEPT ![w] = "stealGiveUp"]
        /\ cl' = [cl EXCEPT ![w] = None]
        /\ UNCHANGED <<walk, child, status>>
    BY <1>5 DEF StealGiveUp, program, results, state, tree, caches, Goto, Hand,
       UnlockClosure, BeingAborted
  <2>3. /\ "stealClosure" \notin PollPC /\ "stealGiveUp" \notin PollPC
    BY <2>2 DEF PollPC
  <2>4. walk[w] = <<>> /\ walk' = walk
    BY <1>a, <2>2, <2>3 DEF WalkInv
  <2>5. \A u \in Worker \ {w} : /\ pc'[u] = pc[u] /\ cl'[u] = cl[u]
                                /\ child'[u] = child[u]
    BY <1>a, <2>2, <2>3 DEF Types
  <2>6. \A u \in Worker \ {w} : pc[u] = "return" /\ status[cl[u]] # "RUNNING"
                                      => status'[cl[u]] # "RUNNING"
    BY <1>a, <1>d, <2>2, <2>3 DEF Types
  <2>q. QED
    BY <1>h, <2>2, <2>4, <2>5, <2>6
<1>6. ASSUME NEW w \in Worker, StealUnlockDeque(w) PROVE WalkInv'
  BY <1>g, <1>6 DEF StealUnlockDeque, program, results, state, tree, caches,
     Goto, UnlockDeque, PollPC
<1>7. ASSUME NEW w \in Worker, StealReady(w) PROVE WalkInv'
  <2>1. PICK v \in Worker \ {w}, c \in Proc :
          StealReadyDoes(w, v, c)
    BY <1>7, StealReadyEffect
  <2>q. QED
    BY <1>g, <2>1 DEF StealReadyDoes, PollPC
<1>8. ASSUME NEW w \in Worker, StealPromote(w) PROVE WalkInv'
  <2>1. PICK v \in Worker \ {w}, c \in Proc, k \in Proc :
          StealPromoteDoes(w, v, c, k)
    BY <1>8, StealPromoteEffect
  <2>2. /\ pc[w] = "stealClosure" /\ c = cl[w] /\ pc[v] \in WorkPC \ OwnDequePC
        /\ status[c] = "RUNNING" /\ k # c /\ k # Root /\ status[k] = "none"
        /\ pc' = [pc EXCEPT ![w] = "stealFinish"]
        /\ child' = [child EXCEPT ![w] = k]
        /\ status' = [status EXCEPT ![k] = "RUNNING"]
        /\ UNCHANGED <<walk, cl>>
    BY <2>1 DEF StealPromoteDoes
  <2>3. /\ "stealClosure" \notin PollPC /\ "stealFinish" \notin PollPC
    BY <2>2 DEF PollPC
  <2>4. walk[w] = <<>> /\ walk' = walk
    BY <1>a, <2>2, <2>3 DEF WalkInv
  <2>5. \A u \in Worker \ {w} : /\ pc'[u] = pc[u] /\ cl'[u] = cl[u]
                                /\ child'[u] = child[u]
    BY <1>a, <2>2, <2>3 DEF Types
  <2>6. \A u \in Worker \ {w} : pc[u] = "return" /\ status[cl[u]] # "RUNNING"
                                      => status'[cl[u]] # "RUNNING"
    BY <1>a, <1>d, <2>2, <2>3 DEF Types
  <2>q. QED
    BY <1>h, <2>2, <2>4, <2>5, <2>6
<1>9. ASSUME NEW w \in Worker, StealFinish(w) PROVE WalkInv'
  <2>2. /\ pc[w] = "stealFinish" /\ pc' = [pc EXCEPT ![w] = "loop"]
        /\ child' = [child EXCEPT ![w] = None]
        /\ status' = [status EXCEPT ![cl[w]] = "READY"]
        /\ UNCHANGED <<walk, cl>>
    BY <1>9 DEF StealFinish, program, results, caches, Goto, UnlockClosure,
       SetStatus, AddChild
  <2>3. /\ "stealFinish" \notin PollPC /\ "loop" \notin PollPC
    BY <2>2 DEF PollPC
  <2>4. walk[w] = <<>> /\ walk' = walk
    BY <1>a, <2>2, <2>3 DEF WalkInv
  <2>5. \A u \in Worker \ {w} : /\ pc'[u] = pc[u] /\ cl'[u] = cl[u]
                                /\ child'[u] = child[u]
    BY <1>a, <2>2, <2>3 DEF Types
  <2>6. \A u \in Worker \ {w} : pc[u] = "return" /\ status[cl[u]] # "RUNNING"
                                      => status'[cl[u]] # "RUNNING"
    BY <1>a, <1>d, <2>2, <2>3 DEF Types
  <2>q. QED
    BY <1>h, <2>2, <2>4, <2>5, <2>6
<1>10. ASSUME NEW w \in Worker, InletKilled(w) PROVE WalkInv'
  BY <1>f, <1>10 DEF InletKilled, program, state, locks, caches, Outcome,
     BeingAborted, Polls
<1>11. ASSUME NEW w \in Worker, InletRuns(w) PROVE WalkInv'
  BY <1>f, <1>11 DEF InletRuns, program, state, locks, caches, Outcome,
     BeingAborted, Polls
<1>12. ASSUME NEW w \in Worker, InletAborts(w) PROVE WalkInv'
  <2>1. PICK c \in Proc, r \in SUBSET Proc :
          InletAbortsDoes(w, c, r)
    BY <1>12, InletAbortsEffect
  <2>2. /\ c = cl[w] /\ pc[w] \in PollPC
        /\ pc[w] = "return" => status[c] # "RUNNING"
        /\ walk[w] = <<>>
        /\ walk' = [walk EXCEPT ![w] = <<[at |-> c, rest |-> r]>>]
        /\ UNCHANGED <<pc, cl, child>>
    BY <2>1 DEF InletAbortsDoes
  <2>a. ASSUME Root \notin r, ~(pc[w] = "return" /\ status'[c] = "RUNNING"),
               \A u \in Worker \ {w} : pc[u] = "return" /\ status[cl[u]] # "RUNNING"
                                          => status'[cl[u]] # "RUNNING"
        PROVE  WalkInv'
    <3>1. walk'[w] = <<[at |-> c, rest |-> r]>> /\ \A u \in Worker \ {w} : walk'[u] = walk[u]
      BY <1>a, <2>2 DEF Types
    <3>2. Size(walk'[w]) = 1
      BY <3>1, SingleFacts
    <3>4. walk'[w][1].at = c /\ walk'[w][1].rest = r
      BY <3>1
    <3>3. pc[w] = "return" => c # child[w]
      BY <2>2 DEF IInv, ClosureLocks, ReturnPC
    <3>q. QED
      BY <1>a, <2>2, <2>a, <3>1, <3>2, <3>3, <3>4 DEF WalkInv
  <2>4. ASSUME NEW k \in Proc, pc[w] = "handlerPoll", status[c] = "RUNNING",
               k # c, k # Root, status[k] = "none",
               r = incomplete[c] \cup {k},
               status' = [status EXCEPT ![k] = "RUNNING", ![c] = "READY"]
        PROVE  WalkInv'
    <3>1. Root \notin r
      BY <1>e, <2>4
    <3>q. QED
      BY <1>a, <1>d, <2>2, <2>a, <2>4, <3>1 DEF Types
  <2>5. ASSUME r = incomplete[c],
               UNCHANGED <<status>>
        PROVE  WalkInv'
    BY <1>e, <2>2, <2>a, <2>5
  <2>q. QED
    BY <2>1, <2>2, <2>4, <2>5 DEF InletAbortsDoes, InletSplits
<1>13. ASSUME NEW w \in Worker, WalkDown(w) PROVE WalkInv'
  <2>1. PICK n \in Nat \ {0}, k \in Proc :
          WalkDownDoes(w, n, k)
    BY <1>13, WalkDownEffect
  <2>2. /\ n = Size(walk[w]) /\ k \in walk[w][n].rest /\ clock[k] = None
        /\ k # Root
        /\ \A i \in 1 .. n : walk[w][i].at # k
        /\ walk' \in [Worker -> Walks] /\ \A u \in Worker \ {w} : walk'[u] = walk[u]
        /\ Size(walk'[w]) = n + 1
        /\ \A i \in 1 .. n : walk'[w][i].at = walk[w][i].at
        /\ \A i \in 1 .. n - 1 : walk'[w][i].rest = walk[w][i].rest
        /\ walk'[w][n].rest = walk[w][n].rest \ {k}
        /\ walk'[w][n + 1] = [at |-> k, rest |-> incomplete[k]]
        /\ UNCHANGED <<pc, cl, child, status>>
    BY <2>1 DEF WalkDownDoes
  <2>3. \A i \in 1 .. n + 1 : i \in 1 .. n \/ i = n + 1
    BY <2>2
  <2>4. /\ walk'[w] # <<>> /\ walk[w] # <<>> /\ 1 \in 1 .. n /\ walk'[w][1].at = walk[w][1].at
    <3>1. Size(walk'[w]) # 0 /\ Size(walk[w]) # 0 /\ 1 \in 1 .. n
      BY <2>2
    <3>2. walk'[w] # <<>>
      BY <2>2, <3>1, SeqFacts DEF Walks
    <3>q. QED
      BY <1>c, <2>2, <3>1, <3>2
  <2>5. ASSUME NEW i \in 1 .. n + 1, NEW j \in 1 .. n + 1, walk'[w][i].at = walk'[w][j].at
        PROVE  i = j
    BY <1>a, <2>2, <2>3, <2>5 DEF WalkInv
  <2>6. pc[w] = "return" => k # child[w]
    <3>1. pc[w] = "return" => clock[child[w]] = w
      BY <1>a DEF IInv, ClosureLocks, HoldsClosure, Types, ReturnPC
    <3>q. QED
      BY <1>b, <2>2, <3>1
  <2>7. ASSUME NEW i \in 1 .. n + 1
        PROVE  /\ pc[w] = "return" => walk'[w][i].at # child[w]
               /\ Root \notin walk'[w][i].rest
    <3>1. CASE i = n + 1
      BY <1>e, <2>2, <2>6, <3>1
    <3>2. CASE i = n
      BY <1>a, <2>2, <3>2 DEF WalkInv
    <3>3. CASE i \in 1 .. n - 1
      <4>1. i \in 1 .. n
        BY <3>3, <2>2
      <4>q. QED
        BY <1>a, <2>2, <3>3, <4>1 DEF WalkInv
    <3>q. QED
      BY <2>2, <3>1, <3>2, <3>3
  <2>q. QED
    BY <1>a, <2>2, <2>4, <2>5, <2>7 DEF WalkInv
<1>14. ASSUME NEW w \in Worker, WalkUp(w) PROVE WalkInv'
  <2>1. PICK n \in Nat \ {0} :
          WalkUpDoes(w, n)
    BY <1>14, WalkUpEffect
  <2>2. /\ n = Size(walk[w]) /\ walk[w][n].rest = {} /\ walk[w][n].at \in Proc
        /\ walk' \in [Worker -> Walks] /\ \A u \in Worker \ {w} : walk'[u] = walk[u]
        /\ Size(walk'[w]) = n - 1
        /\ \A i \in 1 .. n - 1 : walk'[w][i] = walk[w][i]
        /\ UNCHANGED <<pc, cl, child, status>>
    BY <2>1 DEF WalkUpDoes
  <2>3. \A i \in 1 .. n - 1 : i \in 1 .. n
    BY <2>2
  <2>4. walk'[w] # <<>> => walk[w] # <<>> /\ 1 \in 1 .. n - 1
    <3>1. walk'[w] # <<>> => n # 1
      BY <2>2, SeqFacts DEF Walks
    <3>q. QED
      BY <1>c, <2>2, <3>1
  <2>q. QED
    BY <1>a, <2>2, <2>3, <2>4 DEF WalkInv
<1>15. ASSUME NEW w \in Worker, AbortReadyClosure(w) PROVE WalkInv'
  <2>2. /\ pc[w] = "loop" /\ cl[w] # None /\ clock[cl[w]] = None
        /\ status[cl[w]] = "READY"
        /\ UNCHANGED <<walk, pc, child>>
    BY <1>15 DEF AbortReadyClosure, program, results, tree, locks, caches,
       Hand, SetStatus, Outcome, BeingAborted, HasChildren
  <2>3. /\ "loop" \notin PollPC
    BY <2>2 DEF PollPC
  <2>4. ASSUME cl' = [cl EXCEPT ![w] = None],
               status' = [status EXCEPT ![cl[w]] = "SUSPENDED"]
        PROVE  WalkInv'
    <3>1. walk[w] = <<>> /\ walk' = walk
      BY <1>a, <2>2, <2>3, <2>4 DEF WalkInv
    <3>2. \A u \in Worker \ {w} : /\ pc'[u] = pc[u] /\ cl'[u] = cl[u]
                                  /\ child'[u] = child[u]
      BY <1>a, <2>2, <2>3, <2>4 DEF Types
    <3>3. \A u \in Worker \ {w} : pc[u] = "return" /\ status[cl[u]] # "RUNNING"
                                        => status'[cl[u]] # "RUNNING"
      BY <1>a, <1>d, <2>2, <2>3, <2>4 DEF Types
    <3>q. QED
      BY <1>h, <2>2, <3>1, <3>2, <3>3
  <2>5. ASSUME status' = [status EXCEPT ![cl[w]] = "RETURNING"],
               UNCHANGED <<cl>>
        PROVE  WalkInv'
    <3>1. walk[w] = <<>> /\ walk' = walk
      BY <1>a, <2>2, <2>3, <2>5 DEF WalkInv
    <3>2. \A u \in Worker \ {w} : /\ pc'[u] = pc[u] /\ cl'[u] = cl[u]
                                  /\ child'[u] = child[u]
      BY <1>a, <2>2, <2>3, <2>5 DEF Types
    <3>3. \A u \in Worker \ {w} : pc[u] = "return" /\ status[cl[u]] # "RUNNING"
                                        => status'[cl[u]] # "RUNNING"
      BY <1>a, <1>d, <2>2, <2>3, <2>5 DEF Types
    <3>q. QED
      BY <1>h, <2>2, <3>1, <3>2, <3>3
  <2>q. QED
    BY <1>15, <2>2, <2>4, <2>5 DEF AbortReadyClosure, program, results, tree,
       locks, caches, Hand, SetStatus, Outcome, BeingAborted, HasChildren
<1>16. ASSUME NEW w \in Worker, Setup(w) PROVE WalkInv'
  <2>2. /\ pc[w] = "loop" /\ cl[w] # None /\ status[cl[w]] = "READY"
        /\ clock[cl[w]] = None /\ pc' = [pc EXCEPT ![w] = "setup"]
        /\ status' = [status EXCEPT ![cl[w]] = "RUNNING"]
        /\ UNCHANGED <<walk, cl, child>>
    BY <1>16 DEF Setup, program, results, tree, Goto, LockClosure, SetStatus,
       BeingAborted
  <2>3. /\ "loop" \notin PollPC /\ "setup" \in PollPC
    BY <2>2 DEF PollPC
  <2>4. walk[w] = <<>> /\ walk' = walk
    BY <1>a, <2>2, <2>3 DEF WalkInv
  <2>5. \A u \in Worker \ {w} : /\ pc'[u] = pc[u] /\ cl'[u] = cl[u]
                                /\ child'[u] = child[u]
    BY <1>a, <2>2, <2>3 DEF Types
  <2>6. \A u \in Worker \ {w} : pc[u] = "return" /\ status[cl[u]] # "RUNNING"
                                      => status'[cl[u]] # "RUNNING"
    <3>1. \A u \in Worker \ {w} : pc[u] = "return" => cl[u] # cl[w]
      BY <1>b, <1>d, <2>2
    <3>2. \A d \in Proc : d # cl[w] => status'[d] = status[d]
      BY <1>a, <2>2 DEF Types
    <3>q. QED
      BY <1>d, <3>1, <3>2
  <2>q. QED
    BY <1>h, <2>2, <2>4, <2>5, <2>6
<1>17. ASSUME NEW w \in Worker, SetupDone(w) PROVE WalkInv'
  <2>2. /\ pc[w] = "setup" /\ walk[w] = <<>> /\ pc' = [pc EXCEPT ![w] = "add"]
        /\ UNCHANGED <<walk, cl, child, status>>
    BY <1>17 DEF SetupDone, program, results, tree, caches, Goto,
       UnlockClosure, Polled, Polls
  <2>3. /\ "setup" \in PollPC /\ "add" \notin PollPC
    BY <2>2 DEF PollPC
  <2>4. walk[w] = <<>> /\ walk' = walk
    BY <1>a, <2>2, <2>3 DEF WalkInv
  <2>5. \A u \in Worker \ {w} : /\ pc'[u] = pc[u] /\ cl'[u] = cl[u]
                                /\ child'[u] = child[u]
    BY <1>a, <2>2, <2>3 DEF Types
  <2>6. \A u \in Worker \ {w} : pc[u] = "return" /\ status[cl[u]] # "RUNNING"
                                      => status'[cl[u]] # "RUNNING"
    BY <1>a, <1>d, <2>2, <2>3 DEF Types
  <2>q. QED
    BY <1>h, <2>2, <2>4, <2>5, <2>6
<1>18. ASSUME NEW w \in Worker, Execute(w) PROVE WalkInv'
  <2>1. PICK c \in Proc :
          ExecuteDoes(w, c)
    BY <1>18, ExecuteEffect
  <2>2. /\ pc[w] = "add" /\ c = cl[w] /\ status[c] = "RUNNING"
        /\ pc' = [pc EXCEPT ![w] = "run"] /\ cl' = [cl EXCEPT ![w] = None]
        /\ UNCHANGED <<walk, child, status>>
    BY <2>1 DEF ExecuteDoes
  <2>3. /\ "add" \notin PollPC /\ "run" \notin PollPC
    BY <2>2 DEF PollPC
  <2>4. walk[w] = <<>> /\ walk' = walk
    BY <1>a, <2>2, <2>3 DEF WalkInv
  <2>5. \A u \in Worker \ {w} : /\ pc'[u] = pc[u] /\ cl'[u] = cl[u]
                                /\ child'[u] = child[u]
    BY <1>a, <2>2, <2>3 DEF Types
  <2>6. \A u \in Worker \ {w} : pc[u] = "return" /\ status[cl[u]] # "RUNNING"
                                      => status'[cl[u]] # "RUNNING"
    BY <1>a, <1>d, <2>2, <2>3 DEF Types
  <2>q. QED
    BY <1>h, <2>2, <2>4, <2>5, <2>6
<1>19. ASSUME NEW w \in Worker, ReturnLockParent(w) PROVE WalkInv'
  <2>1. PICK k \in Proc, p \in Proc :
          ReturnLockParentDoes(w, k, p)
    BY <1>19, ReturnLockParentEffect
  <2>2. /\ pc[w] = "loop" /\ k = cl[w] /\ p # k /\ k # Root /\ clock[k] = None
        /\ status[k] = "RETURNING" /\ clock[p] = None /\ status[p] # "none"
        /\ pc' = [pc EXCEPT ![w] = "returnChild"] /\ cl' = [cl EXCEPT ![w] = p]
        /\ child' = [child EXCEPT ![w] = k]
        /\ UNCHANGED <<walk, status>>
    BY <2>1 DEF ReturnLockParentDoes
  <2>3. /\ "loop" \notin PollPC /\ "returnChild" \notin PollPC
    BY <2>2 DEF PollPC
  <2>4. walk[w] = <<>> /\ walk' = walk
    BY <1>a, <2>2, <2>3 DEF WalkInv
  <2>5. \A u \in Worker \ {w} : /\ pc'[u] = pc[u] /\ cl'[u] = cl[u]
                                /\ child'[u] = child[u]
    BY <1>a, <2>2, <2>3 DEF Types
  <2>6. \A u \in Worker \ {w} : pc[u] = "return" /\ status[cl[u]] # "RUNNING"
                                      => status'[cl[u]] # "RUNNING"
    BY <1>a, <1>d, <2>2, <2>3 DEF Types
  <2>q. QED
    BY <1>h, <2>2, <2>4, <2>5, <2>6
<1>20. ASSUME NEW w \in Worker, ReturnEnqueue(w) PROVE WalkInv'
  <2>1. PICK k \in Proc, p \in Proc :
          ReturnEnqueueDoes(w, k, p)
    BY <1>20, ReturnEnqueueEffect
  <2>2. /\ pc[w] = "returnChild" /\ k = child[w] /\ p = cl[w] /\ p # k
        /\ status[k] = "RETURNING" /\ status[p] # "none" /\ clock[k] = None
        /\ pc' = [pc EXCEPT ![w] = "return"]
        /\ UNCHANGED <<walk, cl, child, status>>
    BY <2>1 DEF ReturnEnqueueDoes
  <2>3. /\ "returnChild" \notin PollPC /\ "return" \in PollPC
    BY <2>2 DEF PollPC
  <2>4. walk[w] = <<>> /\ walk' = walk
    BY <1>a, <2>2, <2>3 DEF WalkInv
  <2>5. \A u \in Worker \ {w} : /\ pc'[u] = pc[u] /\ cl'[u] = cl[u]
                                /\ child'[u] = child[u]
    BY <1>a, <2>2, <2>3 DEF Types
  <2>6. \A u \in Worker \ {w} : pc[u] = "return" /\ status[cl[u]] # "RUNNING"
                                      => status'[cl[u]] # "RUNNING"
    BY <1>a, <1>d, <2>2, <2>3 DEF Types
  <2>q. QED
    BY <1>h, <2>2, <2>4, <2>5, <2>6
<1>21. ASSUME NEW w \in Worker, ReturnDone(w) PROVE WalkInv'
  <2>1. PICK k \in Proc, p \in Proc :
          ReturnDoneDoes(w, k, p)
    BY <1>21, ReturnDoneEffect
  <2>2. /\ pc[w] = "return" /\ k = child[w] /\ p = cl[w] /\ p # k /\ k # Root
        /\ status[k] = "RETURNING" /\ status[p] # "none" /\ walk[w] = <<>>
        /\ pc' = [pc EXCEPT ![w] = "loop"]
        /\ child' = [child EXCEPT ![w] = None]
        /\ UNCHANGED <<walk>>
    BY <2>1 DEF ReturnDoneDoes
  <2>3. /\ "return" \in PollPC /\ "loop" \notin PollPC
    BY <2>2 DEF PollPC
  <2>4. ASSUME status[p] = "SUSPENDED",
               status' = [status EXCEPT ![k] = "freed", ![p] = "READY"],
               UNCHANGED <<cl>>
        PROVE  WalkInv'
    <3>1. walk[w] = <<>> /\ walk' = walk
      BY <1>a, <2>2, <2>3, <2>4 DEF WalkInv
    <3>2. \A u \in Worker \ {w} : /\ pc'[u] = pc[u] /\ cl'[u] = cl[u]
                                  /\ child'[u] = child[u]
      BY <1>a, <2>2, <2>3, <2>4 DEF Types
    <3>3. \A u \in Worker \ {w} : pc[u] = "return" /\ status[cl[u]] # "RUNNING"
                                        => status'[cl[u]] # "RUNNING"
      BY <1>a, <1>d, <2>2, <2>3, <2>4 DEF Types
    <3>q. QED
      BY <1>h, <2>2, <3>1, <3>2, <3>3
  <2>5. ASSUME cl' = [cl EXCEPT ![w] = None],
               status' = [status EXCEPT ![k] = "freed"]
        PROVE  WalkInv'
    <3>1. walk[w] = <<>> /\ walk' = walk
      BY <1>a, <2>2, <2>3, <2>5 DEF WalkInv
    <3>2. \A u \in Worker \ {w} : /\ pc'[u] = pc[u] /\ cl'[u] = cl[u]
                                  /\ child'[u] = child[u]
      BY <1>a, <2>2, <2>3, <2>5 DEF Types
    <3>3. \A u \in Worker \ {w} : pc[u] = "return" /\ status[cl[u]] # "RUNNING"
                                        => status'[cl[u]] # "RUNNING"
      BY <1>a, <1>d, <2>2, <2>3, <2>5 DEF Types
    <3>q. QED
      BY <1>h, <2>2, <3>1, <3>2, <3>3
  <2>q. QED
    BY <2>1, <2>2, <2>4, <2>5 DEF ReturnDoneDoes
<1>22. ASSUME NEW w \in Worker, Spawn(w) PROVE WalkInv'
  <2>1. PICK c \in Proc, f \in Proc :
          SpawnDoes(w, c, f)
    BY <1>22, SpawnEffect
  <2>q. QED
    BY <1>g, <2>1 DEF SpawnDoes, PollPC
<1>23. ASSUME NEW w \in Worker, ReturnFast(w) PROVE WalkInv'
  <2>1. PICK f \in Proc :
          ReturnFastDoes(w, f)
    BY <1>23, ReturnFastEffect
  <2>2. /\ pc[w] = "run" /\ f # Root /\ pc' = [pc EXCEPT ![w] = "pop"]
        /\ child' = [child EXCEPT ![w] = f]
        /\ UNCHANGED <<walk, cl, status>>
    BY <2>1 DEF ReturnFastDoes
  <2>3. /\ "run" \notin PollPC /\ "pop" \notin PollPC
    BY <2>2 DEF PollPC
  <2>4. walk[w] = <<>> /\ walk' = walk
    BY <1>a, <2>2, <2>3 DEF WalkInv
  <2>5. \A u \in Worker \ {w} : /\ pc'[u] = pc[u] /\ cl'[u] = cl[u]
                                /\ child'[u] = child[u]
    BY <1>a, <2>2, <2>3 DEF Types
  <2>6. \A u \in Worker \ {w} : pc[u] = "return" /\ status[cl[u]] # "RUNNING"
                                      => status'[cl[u]] # "RUNNING"
    BY <1>a, <1>d, <2>2, <2>3 DEF Types
  <2>q. QED
    BY <1>h, <2>2, <2>4, <2>5, <2>6
<1>24. ASSUME NEW w \in Worker, PopResult(w) PROVE WalkInv'
  <2>2. /\ pc[w] = "pop" /\ pc' = [pc EXCEPT ![w] = "run"]
        /\ child' = [child EXCEPT ![w] = None]
        /\ UNCHANGED <<walk, cl, status>>
    BY <1>24 DEF PopResult, program, state, tree, locks, caches, Goto, Outcome
  <2>3. /\ "pop" \notin PollPC /\ "run" \notin PollPC
    BY <2>2 DEF PollPC
  <2>4. walk[w] = <<>> /\ walk' = walk
    BY <1>a, <2>2, <2>3 DEF WalkInv
  <2>5. \A u \in Worker \ {w} : /\ pc'[u] = pc[u] /\ cl'[u] = cl[u]
                                /\ child'[u] = child[u]
    BY <1>a, <2>2, <2>3 DEF Types
  <2>6. \A u \in Worker \ {w} : pc[u] = "return" /\ status[cl[u]] # "RUNNING"
                                      => status'[cl[u]] # "RUNNING"
    BY <1>a, <1>d, <2>2, <2>3 DEF Types
  <2>q. QED
    BY <1>h, <2>2, <2>4, <2>5, <2>6
<1>25. ASSUME NEW w \in Worker, LockOwnDeque(w) PROVE WalkInv'
  BY <1>g, <1>25 DEF LockOwnDeque, program, results, state, tree, caches, Goto,
     LockDeque, SlowAborts, PollPC
<1>26. ASSUME NEW w \in Worker, LockBottom(w) PROVE WalkInv'
  <2>1. PICK c \in Proc :
          LockBottomDoes(w, c)
    BY <1>26, LockBottomEffect
  <2>2. /\ pc[w] \in {"handler", "sync", "abort", "result"} /\ clock[c] = None
        /\ cl' = [cl EXCEPT ![w] = c]
        /\ UNCHANGED <<child, status>>
    BY <2>1 DEF LockBottomDoes
  <2>3. /\ "handler" \notin PollPC /\ "sync" \notin PollPC
        /\ "abort" \notin PollPC /\ "result" \notin PollPC
        /\ "handlerPoll" \in PollPC /\ "syncPoll" \in PollPC
        /\ "setResult" \notin PollPC /\ "abortPoll" \in PollPC
        /\ pc[w] \notin PollPC
    BY <2>2 DEF PollPC
  <2>4. ASSUME pc[w] = "handler", pc' = [pc EXCEPT ![w] = "handlerPoll"],
               UNCHANGED <<walk>>
        PROVE  WalkInv'
    <3>1. walk[w] = <<>> /\ walk' = walk
      BY <1>a, <2>2, <2>3, <2>4 DEF WalkInv
    <3>2. \A u \in Worker \ {w} : /\ pc'[u] = pc[u] /\ cl'[u] = cl[u]
                                  /\ child'[u] = child[u]
      BY <1>a, <2>2, <2>3, <2>4 DEF Types
    <3>3. \A u \in Worker \ {w} : pc[u] = "return" /\ status[cl[u]] # "RUNNING"
                                        => status'[cl[u]] # "RUNNING"
      BY <1>a, <1>d, <2>2, <2>3, <2>4 DEF Types
    <3>q. QED
      BY <1>h, <2>2, <3>1, <3>2, <3>3
  <2>5. ASSUME pc[w] = "sync", pc' = [pc EXCEPT ![w] = "syncPoll"],
               UNCHANGED <<walk>>
        PROVE  WalkInv'
    <3>1. walk[w] = <<>> /\ walk' = walk
      BY <1>a, <2>2, <2>3, <2>5 DEF WalkInv
    <3>2. \A u \in Worker \ {w} : /\ pc'[u] = pc[u] /\ cl'[u] = cl[u]
                                  /\ child'[u] = child[u]
      BY <1>a, <2>2, <2>3, <2>5 DEF Types
    <3>3. \A u \in Worker \ {w} : pc[u] = "return" /\ status[cl[u]] # "RUNNING"
                                        => status'[cl[u]] # "RUNNING"
      BY <1>a, <1>d, <2>2, <2>3, <2>5 DEF Types
    <3>q. QED
      BY <1>h, <2>2, <3>1, <3>2, <3>3
  <2>6. ASSUME pc[w] = "result", pc' = [pc EXCEPT ![w] = "setResult"],
               UNCHANGED <<walk>>
        PROVE  WalkInv'
    <3>1. walk[w] = <<>> /\ walk' = walk
      BY <1>a, <2>2, <2>3, <2>6 DEF WalkInv
    <3>2. \A u \in Worker \ {w} : /\ pc'[u] = pc[u] /\ cl'[u] = cl[u]
                                  /\ child'[u] = child[u]
      BY <1>a, <2>2, <2>3, <2>6 DEF Types
    <3>3. \A u \in Worker \ {w} : pc[u] = "return" /\ status[cl[u]] # "RUNNING"
                                        => status'[cl[u]] # "RUNNING"
      BY <1>a, <1>d, <2>2, <2>3, <2>6 DEF Types
    <3>q. QED
      BY <1>h, <2>2, <3>1, <3>2, <3>3
  <2>7. ASSUME NEW s \in {ABORT_ALL, ALMOST_NO_ABORT}, pc[w] = "abort",
               status[c] = "RUNNING",
               walk' = [walk EXCEPT ![w] = <<[at |-> c, rest |-> incomplete[c]]>>],
               pc' = [pc EXCEPT ![w] = "abortPoll"]
        PROVE  WalkInv'
    <3>1. walk'[w] = <<[at |-> c, rest |-> incomplete[c]]>> /\ \A u \in Worker \ {w} : walk'[u] = walk[u]
      BY <1>a, <2>7 DEF Types
    <3>2. Size(walk'[w]) = 1
      BY <3>1, SingleFacts
    <3>3. walk'[w][1].at = c /\ walk'[w][1].rest = incomplete[c]
      BY <3>1
    <3>4. pc'[w] # "return" /\ pc'[w] \in PollPC /\ cl'[w] = c
      BY <1>a, <2>2, <2>3, <2>7 DEF Types
    <3>5. \A u \in Worker \ {w} : pc'[u] = pc[u] /\ cl'[u] = cl[u]
      BY <1>a, <2>2, <2>7 DEF Types
    <3>q. QED
      BY <1>a, <1>e, <2>2, <3>1, <3>2, <3>3, <3>4, <3>5 DEF WalkInv
  <2>q. QED
    BY <2>1, <2>2, <2>4, <2>5, <2>6, <2>7 DEF LockBottomDoes
<1>27. ASSUME NEW w \in Worker, Sync(w) PROVE WalkInv'
  <2>1. PICK c \in Proc :
          SyncDoes(w, c)
    BY <1>27, SyncEffect
  <2>2. /\ pc[w] = "syncPoll" /\ c = cl[w] /\ status[c] = "RUNNING"
        /\ walk[w] = <<>> /\ cl' = [cl EXCEPT ![w] = None]
        /\ UNCHANGED <<walk, child>>
    BY <2>1 DEF SyncDoes
  <2>3. /\ "syncPoll" \in PollPC /\ "loop" \notin PollPC
        /\ "synced" \notin PollPC
    BY <2>2 DEF PollPC
  <2>4. ASSUME pc' = [pc EXCEPT ![w] = "loop"],
               status' = [status EXCEPT ![c] = "SUSPENDED"]
        PROVE  WalkInv'
    <3>1. walk[w] = <<>> /\ walk' = walk
      BY <1>a, <2>2, <2>3, <2>4 DEF WalkInv
    <3>2. \A u \in Worker \ {w} : /\ pc'[u] = pc[u] /\ cl'[u] = cl[u]
                                  /\ child'[u] = child[u]
      BY <1>a, <2>2, <2>3, <2>4 DEF Types
    <3>3. \A u \in Worker \ {w} : pc[u] = "return" /\ status[cl[u]] # "RUNNING"
                                        => status'[cl[u]] # "RUNNING"
      BY <1>a, <1>d, <2>2, <2>3, <2>4 DEF Types
    <3>q. QED
      BY <1>h, <2>2, <3>1, <3>2, <3>3
  <2>5. ASSUME pc' = [pc EXCEPT ![w] = "synced"],
               UNCHANGED <<status>>
        PROVE  WalkInv'
    <3>1. walk[w] = <<>> /\ walk' = walk
      BY <1>a, <2>2, <2>3, <2>5 DEF WalkInv
    <3>2. \A u \in Worker \ {w} : /\ pc'[u] = pc[u] /\ cl'[u] = cl[u]
                                  /\ child'[u] = child[u]
      BY <1>a, <2>2, <2>3, <2>5 DEF Types
    <3>3. \A u \in Worker \ {w} : pc[u] = "return" /\ status[cl[u]] # "RUNNING"
                                        => status'[cl[u]] # "RUNNING"
      BY <1>a, <1>d, <2>2, <2>3, <2>5 DEF Types
    <3>q. QED
      BY <1>h, <2>2, <3>1, <3>2, <3>3
  <2>q. QED
    BY <2>1, <2>2, <2>4, <2>5 DEF SyncDoes
<1>28. ASSUME NEW w \in Worker, AbortSlow(w) PROVE WalkInv'
  <2>2. /\ pc[w] = "abortPoll" /\ walk[w] = <<>>
        /\ pc' = [pc EXCEPT ![w] = "run"] /\ cl' = [cl EXCEPT ![w] = None]
        /\ UNCHANGED <<walk, child, status>>
    BY <1>28 DEF AbortSlow, program, results, tree, caches, Goto, UnlockBoth,
       Polled, Hand, UnlockClosure, UnlockDeque, Polls
  <2>3. /\ "abortPoll" \in PollPC /\ "run" \notin PollPC
    BY <2>2 DEF PollPC
  <2>4. walk[w] = <<>> /\ walk' = walk
    BY <1>a, <2>2, <2>3 DEF WalkInv
  <2>5. \A u \in Worker \ {w} : /\ pc'[u] = pc[u] /\ cl'[u] = cl[u]
                                /\ child'[u] = child[u]
    BY <1>a, <2>2, <2>3 DEF Types
  <2>6. \A u \in Worker \ {w} : pc[u] = "return" /\ status[cl[u]] # "RUNNING"
                                      => status'[cl[u]] # "RUNNING"
    BY <1>a, <1>d, <2>2, <2>3 DEF Types
  <2>q. QED
    BY <1>h, <2>2, <2>4, <2>5, <2>6
<1>29. ASSUME NEW w \in Worker, SetResult(w) PROVE WalkInv'
  <2>1. PICK c \in Proc :
          SetResultDoes(w, c)
    BY <1>29, SetResultEffect
  <2>2. /\ pc[w] = "setResult" /\ c = cl[w] /\ c # Root
        /\ status[c] = "RUNNING" /\ pc' = [pc EXCEPT ![w] = "loop"]
        /\ cl' = [cl EXCEPT ![w] = None]
        /\ status' = [status EXCEPT ![c] = "RETURNING"]
        /\ UNCHANGED <<walk, child>>
    BY <2>1 DEF SetResultDoes
  <2>3. /\ "setResult" \notin PollPC /\ "loop" \notin PollPC
    BY <2>2 DEF PollPC
  <2>4. walk[w] = <<>> /\ walk' = walk
    BY <1>a, <2>2, <2>3 DEF WalkInv
  <2>5. \A u \in Worker \ {w} : /\ pc'[u] = pc[u] /\ cl'[u] = cl[u]
                                /\ child'[u] = child[u]
    BY <1>a, <2>2, <2>3 DEF Types
  <2>6. \A u \in Worker \ {w} : pc[u] = "return" /\ status[cl[u]] # "RUNNING"
                                      => status'[cl[u]] # "RUNNING"
    BY <1>a, <1>d, <2>2, <2>3 DEF Types
  <2>q. QED
    BY <1>h, <2>2, <2>4, <2>5, <2>6
<1>30. ASSUME NEW w \in Worker, Done(w) PROVE WalkInv'
  BY <1>g, <1>30 DEF Done, results, state, tree, locks, caches, Goto,
     AfterSync, PollPC
<1>31. ASSUME NEW w \in Worker, RemoveAndFree(w) PROVE WalkInv'
  <2>1. RemoveAndFreeDoes(w)
    BY <1>31, RemoveAndFreeEffect
  <2>2. /\ pc[w] = "rootEnd" /\ Root \in Proc /\ status[Root] = "RUNNING"
        /\ pc' = [pc EXCEPT ![w] = "loop"]
        /\ status' = [status EXCEPT ![Root] = "freed"]
        /\ UNCHANGED <<walk, cl, child>>
    BY <2>1 DEF RemoveAndFreeDoes
  <2>3. /\ "rootEnd" \notin PollPC /\ "loop" \notin PollPC
    BY <2>2 DEF PollPC
  <2>4. walk[w] = <<>> /\ walk' = walk
    BY <1>a, <2>2, <2>3 DEF WalkInv
  <2>5. \A u \in Worker \ {w} : /\ pc'[u] = pc[u] /\ cl'[u] = cl[u]
                                /\ child'[u] = child[u]
    BY <1>a, <2>2, <2>3 DEF Types
  <2>6. \A u \in Worker \ {w} : pc[u] = "return" /\ status[cl[u]] # "RUNNING"
                                      => status'[cl[u]] # "RUNNING"
    BY <1>a, <1>d, <2>2, <2>3 DEF Types
  <2>q. QED
    BY <1>h, <2>2, <2>4, <2>5, <2>6
<1>32. ASSUME NEW w \in Worker, CilkExit(w) PROVE WalkInv'
  <2>1. CilkExitDoes(w)
    BY <1>32, CilkExitEffect
  <2>2. /\ pc[w] = "run" /\ Root \in Proc /\ clock[Root] = None
        /\ UNCHANGED <<walk, child, status>>
    BY <2>1 DEF CilkExitDoes
  <2>3. /\ "run" \notin PollPC /\ "exitPoll" \in PollPC
    BY <2>2 DEF PollPC
  <2>4. ASSUME status[Root] = "RUNNING",
               UNCHANGED <<pc, cl>>
        PROVE  WalkInv'
    <3>1. walk[w] = <<>> /\ walk' = walk
      BY <1>a, <2>2, <2>3, <2>4 DEF WalkInv
    <3>2. \A u \in Worker \ {w} : /\ pc'[u] = pc[u] /\ cl'[u] = cl[u]
                                  /\ child'[u] = child[u]
      BY <1>a, <2>2, <2>3, <2>4 DEF Types
    <3>3. \A u \in Worker \ {w} : pc[u] = "return" /\ status[cl[u]] # "RUNNING"
                                        => status'[cl[u]] # "RUNNING"
      BY <1>a, <1>d, <2>2, <2>3, <2>4 DEF Types
    <3>q. QED
      BY <1>h, <2>2, <3>1, <3>2, <3>3
  <2>5. ASSUME status[Root] # "RUNNING", pc' = [pc EXCEPT ![w] = "exitPoll"],
               cl' = [cl EXCEPT ![w] = Root]
        PROVE  WalkInv'
    <3>1. walk[w] = <<>> /\ walk' = walk
      BY <1>a, <2>2, <2>3, <2>5 DEF WalkInv
    <3>2. \A u \in Worker \ {w} : /\ pc'[u] = pc[u] /\ cl'[u] = cl[u]
                                  /\ child'[u] = child[u]
      BY <1>a, <2>2, <2>3, <2>5 DEF Types
    <3>3. \A u \in Worker \ {w} : pc[u] = "return" /\ status[cl[u]] # "RUNNING"
                                        => status'[cl[u]] # "RUNNING"
      BY <1>a, <1>d, <2>2, <2>3, <2>5 DEF Types
    <3>q. QED
      BY <1>h, <2>2, <3>1, <3>2, <3>3
  <2>q. QED
    BY <2>1, <2>2, <2>4, <2>5 DEF CilkExitDoes
<1>33. ASSUME NEW w \in Worker, CilkExitDone(w) PROVE WalkInv'
  <2>2. /\ pc[w] = "exitPoll" /\ walk[w] = <<>>
        /\ pc' = [pc EXCEPT ![w] = "run"] /\ cl' = [cl EXCEPT ![w] = None]
        /\ UNCHANGED <<walk, child, status>>
    BY <1>33 DEF CilkExitDone, program, results, tree, caches, Goto, Hand,
       UnlockClosure, Polled, Polls
  <2>3. /\ "exitPoll" \in PollPC /\ "run" \notin PollPC
    BY <2>2 DEF PollPC
  <2>4. walk[w] = <<>> /\ walk' = walk
    BY <1>a, <2>2, <2>3 DEF WalkInv
  <2>5. \A u \in Worker \ {w} : /\ pc'[u] = pc[u] /\ cl'[u] = cl[u]
                                /\ child'[u] = child[u]
    BY <1>a, <2>2, <2>3 DEF Types
  <2>6. \A u \in Worker \ {w} : pc[u] = "return" /\ status[cl[u]] # "RUNNING"
                                      => status'[cl[u]] # "RUNNING"
    BY <1>a, <1>d, <2>2, <2>3 DEF Types
  <2>q. QED
    BY <1>h, <2>2, <2>4, <2>5, <2>6
<1>34. ASSUME NEW w \in Worker, HandlerPolled(w) PROVE WalkInv'
  <2>1. PICK t \in Proc, t1 \in Proc :
          HandlerPolledDoes(w, t, t1)
    BY <1>34, HandlerPolledEffect
  <2>2. /\ pc[w] = "handlerPoll" /\ t = cl[w] /\ walk[w] = <<>>
        /\ UNCHANGED <<walk, child, status>>
    BY <2>1 DEF HandlerPolledDoes
  <2>3. /\ "handlerPoll" \in PollPC /\ "handlerAct" \notin PollPC
        /\ "handlerSwap" \notin PollPC
    BY <2>2 DEF PollPC
  <2>4. ASSUME t1 = t, pc' = [pc EXCEPT ![w] = "handlerAct"],
               UNCHANGED <<cl>>
        PROVE  WalkInv'
    <3>1. walk[w] = <<>> /\ walk' = walk
      BY <1>a, <2>2, <2>3, <2>4 DEF WalkInv
    <3>2. \A u \in Worker \ {w} : /\ pc'[u] = pc[u] /\ cl'[u] = cl[u]
                                  /\ child'[u] = child[u]
      BY <1>a, <2>2, <2>3, <2>4 DEF Types
    <3>3. \A u \in Worker \ {w} : pc[u] = "return" /\ status[cl[u]] # "RUNNING"
                                        => status'[cl[u]] # "RUNNING"
      BY <1>a, <1>d, <2>2, <2>3, <2>4 DEF Types
    <3>q. QED
      BY <1>h, <2>2, <3>1, <3>2, <3>3
  <2>5. ASSUME t1 # t, status[t] = "READY",
               pc' = [pc EXCEPT ![w] = "handlerSwap"],
               cl' = [cl EXCEPT ![w] = t1]
        PROVE  WalkInv'
    <3>1. walk[w] = <<>> /\ walk' = walk
      BY <1>a, <2>2, <2>3, <2>5 DEF WalkInv
    <3>2. \A u \in Worker \ {w} : /\ pc'[u] = pc[u] /\ cl'[u] = cl[u]
                                  /\ child'[u] = child[u]
      BY <1>a, <2>2, <2>3, <2>5 DEF Types
    <3>3. \A u \in Worker \ {w} : pc[u] = "return" /\ status[cl[u]] # "RUNNING"
                                        => status'[cl[u]] # "RUNNING"
      BY <1>a, <1>d, <2>2, <2>3, <2>5 DEF Types
    <3>q. QED
      BY <1>h, <2>2, <3>1, <3>2, <3>3
  <2>q. QED
    BY <2>1, <2>2, <2>4, <2>5 DEF HandlerPolledDoes
<1>35. ASSUME NEW w \in Worker, HandlerSwap(w) PROVE WalkInv'
  BY <1>g, <1>35 DEF HandlerSwap, program, results, state, tree, caches, Goto,
     LockClosure, PollPC
<1>36. ASSUME NEW w \in Worker, HandlerStolen(w) PROVE WalkInv'
  <2>1. PICK c \in Proc :
          HandlerStolenDoes(w, c)
    BY <1>36, HandlerStolenEffect
  <2>2. /\ pc[w] = "handlerAct" /\ c = cl[w] /\ c # Root
        /\ status[c] \in {"RUNNING", "RETURNING"}
        /\ cl' = [cl EXCEPT ![w] = None] /\ child' = [child EXCEPT ![w] = None]
        /\ status' = [status EXCEPT ![c] = "RETURNING"]
        /\ UNCHANGED <<walk>>
    BY <2>1 DEF HandlerStolenDoes
  <2>3. /\ "handlerAct" \notin PollPC /\ "loop" \notin PollPC
        /\ "pop" \notin PollPC
    BY <2>2 DEF PollPC
  <2>4. ASSUME pc' = [pc EXCEPT ![w] = "loop"]
        PROVE  WalkInv'
    <3>1. walk[w] = <<>> /\ walk' = walk
      BY <1>a, <2>2, <2>3, <2>4 DEF WalkInv
    <3>2. \A u \in Worker \ {w} : /\ pc'[u] = pc[u] /\ cl'[u] = cl[u]
                                  /\ child'[u] = child[u]
      BY <1>a, <2>2, <2>3, <2>4 DEF Types
    <3>3. \A u \in Worker \ {w} : pc[u] = "return" /\ status[cl[u]] # "RUNNING"
                                        => status'[cl[u]] # "RUNNING"
      BY <1>a, <1>d, <2>2, <2>3, <2>4 DEF Types
    <3>q. QED
      BY <1>h, <2>2, <3>1, <3>2, <3>3
  <2>5. ASSUME pc' = [pc EXCEPT ![w] = "pop"]
        PROVE  WalkInv'
    <3>1. walk[w] = <<>> /\ walk' = walk
      BY <1>a, <2>2, <2>3, <2>5 DEF WalkInv
    <3>2. \A u \in Worker \ {w} : /\ pc'[u] = pc[u] /\ cl'[u] = cl[u]
                                  /\ child'[u] = child[u]
      BY <1>a, <2>2, <2>3, <2>5 DEF Types
    <3>3. \A u \in Worker \ {w} : pc[u] = "return" /\ status[cl[u]] # "RUNNING"
                                        => status'[cl[u]] # "RUNNING"
      BY <1>a, <1>d, <2>2, <2>3, <2>5 DEF Types
    <3>q. QED
      BY <1>h, <2>2, <3>1, <3>2, <3>3
  <2>q. QED
    BY <2>1, <2>2, <2>4, <2>5 DEF HandlerStolenDoes
<1>37. ASSUME NEW w \in Worker, HandlerAbort(w) PROVE WalkInv'
  <2>1. PICK c \in Proc, f \in Proc :
          HandlerAbortDoes(w, c, f)
    BY <1>37, HandlerAbortEffect
  <2>2. /\ pc[w] = "handlerAct" /\ c = cl[w] /\ status[c] = "RUNNING"
        /\ cl' = [cl EXCEPT ![w] = None]
        /\ UNCHANGED <<walk>>
    BY <2>1 DEF HandlerAbortDoes
  <2>3. /\ "handlerAct" \notin PollPC /\ "loop" \notin PollPC
        /\ "pop" \notin PollPC
    BY <2>2 DEF PollPC
  <2>4. ASSUME pc' = [pc EXCEPT ![w] = "loop"],
               child' = [child EXCEPT ![w] = None],
               status' = [status EXCEPT ![c] = "SUSPENDED"]
        PROVE  WalkInv'
    <3>1. walk[w] = <<>> /\ walk' = walk
      BY <1>a, <2>2, <2>3, <2>4 DEF WalkInv
    <3>2. \A u \in Worker \ {w} : /\ pc'[u] = pc[u] /\ cl'[u] = cl[u]
                                  /\ child'[u] = child[u]
      BY <1>a, <2>2, <2>3, <2>4 DEF Types
    <3>3. \A u \in Worker \ {w} : pc[u] = "return" /\ status[cl[u]] # "RUNNING"
                                        => status'[cl[u]] # "RUNNING"
      BY <1>a, <1>d, <2>2, <2>3, <2>4 DEF Types
    <3>q. QED
      BY <1>h, <2>2, <3>1, <3>2, <3>3
  <2>5. ASSUME c # Root, pc' = [pc EXCEPT ![w] = "loop"],
               child' = [child EXCEPT ![w] = None],
               status' = [status EXCEPT ![c] = "RETURNING"]
        PROVE  WalkInv'
    <3>1. walk[w] = <<>> /\ walk' = walk
      BY <1>a, <2>2, <2>3, <2>5 DEF WalkInv
    <3>2. \A u \in Worker \ {w} : /\ pc'[u] = pc[u] /\ cl'[u] = cl[u]
                                  /\ child'[u] = child[u]
      BY <1>a, <2>2, <2>3, <2>5 DEF Types
    <3>3. \A u \in Worker \ {w} : pc[u] = "return" /\ status[cl[u]] # "RUNNING"
                                        => status'[cl[u]] # "RUNNING"
      BY <1>a, <1>d, <2>2, <2>3, <2>5 DEF Types
    <3>q. QED
      BY <1>h, <2>2, <3>1, <3>2, <3>3
  <2>6. ASSUME c # Root, pc' = [pc EXCEPT ![w] = "pop"],
               child' = [child EXCEPT ![w] = c],
               status' = [status EXCEPT ![c] = "RETURNING"]
        PROVE  WalkInv'
    <3>1. walk[w] = <<>> /\ walk' = walk
      BY <1>a, <2>2, <2>3, <2>6 DEF WalkInv
    <3>2. \A u \in Worker \ {w} : /\ pc'[u] = pc[u] /\ cl'[u] = cl[u]
                                  /\ child'[u] = child[u]
      BY <1>a, <2>2, <2>3, <2>6 DEF Types
    <3>3. \A u \in Worker \ {w} : pc[u] = "return" /\ status[cl[u]] # "RUNNING"
                                        => status'[cl[u]] # "RUNNING"
      BY <1>a, <1>d, <2>2, <2>3, <2>6 DEF Types
    <3>q. QED
      BY <1>h, <2>2, <3>1, <3>2, <3>3
  <2>7. ASSUME f # Root, status[f] = "none", pc' = [pc EXCEPT ![w] = "pop"],
               child' = [child EXCEPT ![w] = f],
               UNCHANGED <<status>>
        PROVE  WalkInv'
    <3>1. walk[w] = <<>> /\ walk' = walk
      BY <1>a, <2>2, <2>3, <2>7 DEF WalkInv
    <3>2. \A u \in Worker \ {w} : /\ pc'[u] = pc[u] /\ cl'[u] = cl[u]
                                  /\ child'[u] = child[u]
      BY <1>a, <2>2, <2>3, <2>7 DEF Types
    <3>3. \A u \in Worker \ {w} : pc[u] = "return" /\ status[cl[u]] # "RUNNING"
                                        => status'[cl[u]] # "RUNNING"
      BY <1>a, <1>d, <2>2, <2>3, <2>7 DEF Types
    <3>q. QED
      BY <1>h, <2>2, <3>1, <3>2, <3>3
  <2>q. QED
    BY <2>1, <2>2, <2>4, <2>5, <2>6, <2>7 DEF HandlerAbortDoes, AbortWaits,
       AbortReturns, AbortPops
<1>38. ASSUME NEW w \in Worker, HandlerResume(w) PROVE WalkInv'
  <2>2. /\ pc[w] = "handlerAct" /\ pc' = [pc EXCEPT ![w] = "run"]
        /\ cl' = [cl EXCEPT ![w] = None] /\ child' = [child EXCEPT ![w] = None]
        /\ UNCHANGED <<walk, status>>
    BY <1>38 DEF HandlerResume, program, tree, Goto, UnlockBoth, Outcome,
       BeingAborted, Stolen, Hand, UnlockClosure, UnlockDeque
  <2>3. /\ "handlerAct" \notin PollPC /\ "run" \notin PollPC
    BY <2>2 DEF PollPC
  <2>4. walk[w] = <<>> /\ walk' = walk
    BY <1>a, <2>2, <2>3 DEF WalkInv
  <2>5. \A u \in Worker \ {w} : /\ pc'[u] = pc[u] /\ cl'[u] = cl[u]
                                /\ child'[u] = child[u]
    BY <1>a, <2>2, <2>3 DEF Types
  <2>6. \A u \in Worker \ {w} : pc[u] = "return" /\ status[cl[u]] # "RUNNING"
                                      => status'[cl[u]] # "RUNNING"
    BY <1>a, <1>d, <2>2, <2>3 DEF Types
  <2>q. QED
    BY <1>h, <2>2, <2>4, <2>5, <2>6
<1>39. CASE UNCHANGED vars
  BY <1>f, <1>39 DEF vars
<1>q. QED
  BY <1>1, <1>2, <1>3, <1>4, <1>5, <1>6, <1>7, <1>8, <1>9, <1>10, <1>11, <1>12,
     <1>13, <1>14, <1>15, <1>16, <1>17, <1>18, <1>19, <1>20, <1>21, <1>22,
     <1>23, <1>24, <1>25, <1>26, <1>27, <1>28, <1>29, <1>30, <1>31, <1>32,
     <1>33, <1>34, <1>35, <1>36, <1>37, <1>38, <1>39 DEF Next, Step, Terminated

(* Root is no frame to promote, has no parent, and sets no result. *)
LEMMA RootInvStep ==
    ASSUME IInv, [Next]_vars
    PROVE  RootInv'
<1>a. Types /\ RootInv
  BY DEF IInv
<1>b. Root \in Proc
  BY BoundAssumption DEF Root, Proc
<1>f. ASSUME UNCHANGED <<incomplete, abort, status>>
      PROVE  RootInv'
  BY <1>a, <1>b, <1>f DEF RootInv, Types, MaybeResetAbort, Unmarked, NO_ABORT,
     ABORT_ALL, ALMOST_NO_ABORT
<1>1. ASSUME NEW w \in Worker, LeaveScheduler(w) PROVE RootInv'
  BY <1>f, <1>1 DEF LeaveScheduler, program, results, state, tree, locks,
     caches, Goto
<1>2. ASSUME NEW w \in Worker, TakeOwn(w) PROVE RootInv'
  <2>1. TakeOwnDoes(w)
    BY <1>2, TakeOwnEffect
  <2>q. QED
    BY <1>f, <2>1 DEF TakeOwnDoes
<1>3. ASSUME NEW w \in Worker, StealLockDeque(w) PROVE RootInv'
  BY <1>f, <1>3 DEF StealLockDeque, program, results, state, tree, caches,
     Goto, LockDeque, Peek, Hand
<1>4. ASSUME NEW w \in Worker, StealLockClosure(w) PROVE RootInv'
  BY <1>f, <1>4 DEF StealLockClosure, program, results, state, tree, caches,
     Goto, LockClosure
<1>5. ASSUME NEW w \in Worker, StealGiveUp(w) PROVE RootInv'
  BY <1>f, <1>5 DEF StealGiveUp, program, results, state, tree, caches, Goto,
     Hand, UnlockClosure, BeingAborted
<1>6. ASSUME NEW w \in Worker, StealUnlockDeque(w) PROVE RootInv'
  BY <1>f, <1>6 DEF StealUnlockDeque, program, results, state, tree, caches,
     Goto, UnlockDeque
<1>7. ASSUME NEW w \in Worker, StealReady(w) PROVE RootInv'
  <2>1. PICK v \in Worker \ {w}, c \in Proc :
          StealReadyDoes(w, v, c)
    BY <1>7, StealReadyEffect
  <2>q. QED
    BY <1>f, <2>1 DEF StealReadyDoes
<1>8. ASSUME NEW w \in Worker, StealPromote(w) PROVE RootInv'
  <2>1. PICK v \in Worker \ {w}, c \in Proc, k \in Proc :
          StealPromoteDoes(w, v, c, k)
    BY <1>8, StealPromoteEffect
  <2>2. /\ c = cl[w] /\ status[c] = "RUNNING" /\ abort[c] = NO_ABORT /\ k # c
        /\ k # Root /\ status[k] = "none"
        /\ status' = [status EXCEPT ![k] = "RUNNING"]
        /\ UNCHANGED <<incomplete, abort>>
    BY <2>1 DEF StealPromoteDoes
  <2>q. QED
    BY <1>a, <1>b, <2>2 DEF RootInv, Types, MaybeResetAbort, Unmarked,
       NO_ABORT, ABORT_ALL, ALMOST_NO_ABORT
<1>9. ASSUME NEW w \in Worker, StealFinish(w) PROVE RootInv'
  <2>2. /\ incomplete' = [incomplete EXCEPT ![cl[w]] = @ \cup {child[w]}]
        /\ status' = [status EXCEPT ![cl[w]] = "READY"]
        /\ UNCHANGED <<abort>>
    BY <1>9 DEF StealFinish, program, results, caches, Goto, UnlockClosure,
       SetStatus, AddChild
  <2>3. pc[w] = "stealFinish"
    BY <1>9 DEF StealFinish
  <2>4. cl[w] # None /\ parent[child[w]] = cl[w] /\ child[w] # None
    BY <2>3, LockFacts, WorkerAssumption DEF IInv, ChildInv, ClosureLocks,
       LockPC
  <2>5. child[w] # Root
    BY <2>4 DEF IInv, ParentInv
  <2>6. \A c \in Proc : incomplete'[c] \subseteq incomplete[c] \cup {child[w]}
    BY <1>a, <2>2 DEF Types
  <2>7. status'[Root] \in {status[Root], "READY"}
    BY <1>a, <1>b, <2>2 DEF Types
  <2>q. QED
    BY <1>a, <2>2, <2>5, <2>6, <2>7 DEF RootInv
<1>10. ASSUME NEW w \in Worker, InletKilled(w) PROVE RootInv'
  BY <1>f, <1>10 DEF InletKilled, program, state, locks, caches, Outcome,
     BeingAborted, Polls
<1>11. ASSUME NEW w \in Worker, InletRuns(w) PROVE RootInv'
  BY <1>f, <1>11 DEF InletRuns, program, state, locks, caches, Outcome,
     BeingAborted, Polls
<1>12. ASSUME NEW w \in Worker, InletAborts(w) PROVE RootInv'
  <2>1. PICK c \in Proc, r \in SUBSET Proc :
          InletAbortsDoes(w, c, r)
    BY <1>12, InletAbortsEffect
  <2>2. /\ c = cl[w] /\ abort[c] = NO_ABORT
        /\ abort' = [abort EXCEPT ![c] = ALMOST_NO_ABORT]
    BY <2>1 DEF InletAbortsDoes
  <2>4. ASSUME NEW k \in Proc, status[c] = "RUNNING", k # c, k # Root,
               status[k] = "none",
               incomplete' = [incomplete EXCEPT ![c] = @ \cup {k}],
               status' = [status EXCEPT ![k] = "RUNNING", ![c] = "READY"]
        PROVE  RootInv'
    BY <1>a, <1>b, <2>2, <2>4 DEF RootInv, Types, MaybeResetAbort, Unmarked,
       NO_ABORT, ABORT_ALL, ALMOST_NO_ABORT
  <2>5. ASSUME UNCHANGED <<incomplete, status>>
        PROVE  RootInv'
    BY <1>a, <1>b, <2>2, <2>5 DEF RootInv, Types, MaybeResetAbort, Unmarked,
       NO_ABORT, ABORT_ALL, ALMOST_NO_ABORT
  <2>q. QED
    BY <2>1, <2>2, <2>4, <2>5 DEF InletAbortsDoes, InletSplits
<1>13. ASSUME NEW w \in Worker, WalkDown(w) PROVE RootInv'
  <2>1. PICK n \in Nat \ {0}, k \in Proc :
          WalkDownDoes(w, n, k)
    BY <1>13, WalkDownEffect
  <2>2. /\ clock[k] = None /\ k # Root
        /\ abort' = [abort EXCEPT ![k] = ABORT_ALL]
        /\ UNCHANGED <<incomplete, status>>
    BY <2>1 DEF WalkDownDoes
  <2>q. QED
    BY <1>a, <1>b, <2>2 DEF RootInv, Types, MaybeResetAbort, Unmarked,
       NO_ABORT, ABORT_ALL, ALMOST_NO_ABORT
<1>14. ASSUME NEW w \in Worker, WalkUp(w) PROVE RootInv'
  <2>1. PICK n \in Nat \ {0} :
          WalkUpDoes(w, n)
    BY <1>14, WalkUpEffect
  <2>q. QED
    BY <1>f, <2>1 DEF WalkUpDoes
<1>15. ASSUME NEW w \in Worker, AbortReadyClosure(w) PROVE RootInv'
  <2>2. /\ cl[w] # None /\ clock[cl[w]] = None /\ status[cl[w]] = "READY"
        /\ abort[cl[w]] # NO_ABORT
        /\ UNCHANGED <<incomplete, abort>>
    BY <1>15 DEF AbortReadyClosure, program, results, tree, locks, caches,
       Hand, SetStatus, Outcome, BeingAborted, HasChildren
  <2>3. cl[w] # Root
    <3>1. ASSUME cl[w] = Root PROVE FALSE
      <4>1. abort[Root] = ALMOST_NO_ABORT
        BY <1>a, <1>b, <2>2, <3>1 DEF RootInv, Types
      <4>2. PICK u \in Worker : cl[u] = Root /\ pc[u] \in PollPC
        BY <1>b, <4>1 DEF IInv, AlmostInv
      <4>3. clock[Root] = u
        BY <4>2, LockFacts DEF PollPC, LockPC
      <4>q. QED
        BY <2>2, <3>1, <4>3, WorkerAssumption DEF None
    <3>q. QED
      BY <3>1
  <2>4. ASSUME status' = [status EXCEPT ![cl[w]] = "SUSPENDED"]
        PROVE  RootInv'
    BY <1>a, <1>b, <2>2, <2>4 DEF RootInv, Types, MaybeResetAbort, Unmarked,
       NO_ABORT, ABORT_ALL, ALMOST_NO_ABORT
  <2>5. ASSUME status' = [status EXCEPT ![cl[w]] = "RETURNING"]
        PROVE  RootInv'
    BY <1>a, <1>b, <2>2, <2>3, <2>5 DEF RootInv, Types, MaybeResetAbort,
       Unmarked, NO_ABORT, ABORT_ALL, ALMOST_NO_ABORT
  <2>q. QED
    BY <1>15, <2>2, <2>4, <2>5 DEF AbortReadyClosure, program, results, tree,
       locks, caches, Hand, SetStatus, Outcome, BeingAborted, HasChildren
<1>16. ASSUME NEW w \in Worker, Setup(w) PROVE RootInv'
  <2>2. /\ cl[w] # None /\ status[cl[w]] = "READY" /\ abort[cl[w]] = NO_ABORT
        /\ clock[cl[w]] = None
        /\ status' = [status EXCEPT ![cl[w]] = "RUNNING"]
        /\ UNCHANGED <<incomplete, abort>>
    BY <1>16 DEF Setup, program, results, tree, Goto, LockClosure, SetStatus,
       BeingAborted
  <2>q. QED
    BY <1>a, <1>b, <2>2 DEF RootInv, Types, MaybeResetAbort, Unmarked,
       NO_ABORT, ABORT_ALL, ALMOST_NO_ABORT
<1>17. ASSUME NEW w \in Worker, SetupDone(w) PROVE RootInv'
  <2>2. /\ MaybeResetAbort(cl[w])
        /\ UNCHANGED <<incomplete, status>>
    BY <1>17 DEF SetupDone, program, results, tree, caches, Goto,
       UnlockClosure, Polled, Polls
  <2>q. QED
    BY <1>a, <1>b, <2>2 DEF RootInv, Types, MaybeResetAbort, Unmarked,
       NO_ABORT, ABORT_ALL, ALMOST_NO_ABORT
<1>18. ASSUME NEW w \in Worker, Execute(w) PROVE RootInv'
  <2>1. PICK c \in Proc :
          ExecuteDoes(w, c)
    BY <1>18, ExecuteEffect
  <2>q. QED
    BY <1>f, <2>1 DEF ExecuteDoes
<1>19. ASSUME NEW w \in Worker, ReturnLockParent(w) PROVE RootInv'
  <2>1. PICK k \in Proc, p \in Proc :
          ReturnLockParentDoes(w, k, p)
    BY <1>19, ReturnLockParentEffect
  <2>2. /\ k = cl[w] /\ p # k /\ k # Root /\ clock[k] = None
        /\ status[k] = "RETURNING" /\ clock[p] = None /\ status[p] # "none"
        /\ incomplete' = [incomplete EXCEPT ![p] = @ \ {k}]
        /\ UNCHANGED <<abort, status>>
    BY <2>1 DEF ReturnLockParentDoes
  <2>q. QED
    BY <1>a, <1>b, <2>2 DEF RootInv, Types, MaybeResetAbort, Unmarked,
       NO_ABORT, ABORT_ALL, ALMOST_NO_ABORT
<1>20. ASSUME NEW w \in Worker, ReturnEnqueue(w) PROVE RootInv'
  <2>1. PICK k \in Proc, p \in Proc :
          ReturnEnqueueDoes(w, k, p)
    BY <1>20, ReturnEnqueueEffect
  <2>q. QED
    BY <1>f, <2>1 DEF ReturnEnqueueDoes
<1>21. ASSUME NEW w \in Worker, ReturnDone(w) PROVE RootInv'
  <2>1. PICK k \in Proc, p \in Proc :
          ReturnDoneDoes(w, k, p)
    BY <1>21, ReturnDoneEffect
  <2>2. /\ k = child[w] /\ p = cl[w] /\ p # k /\ k # Root
        /\ status[k] = "RETURNING" /\ status[p] # "none"
        /\ abort' \in {abort, [abort EXCEPT ![p] = NO_ABORT]}
        /\ status[p] # "RUNNING" => abort'[p] # ALMOST_NO_ABORT
        /\ UNCHANGED <<incomplete>>
    BY <2>1 DEF ReturnDoneDoes
  <2>4. ASSUME status[p] = "SUSPENDED",
               status' = [status EXCEPT ![k] = "freed", ![p] = "READY"]
        PROVE  RootInv'
    BY <1>a, <1>b, <2>2, <2>4 DEF RootInv, Types, MaybeResetAbort, Unmarked,
       NO_ABORT, ABORT_ALL, ALMOST_NO_ABORT
  <2>5. ASSUME status' = [status EXCEPT ![k] = "freed"]
        PROVE  RootInv'
    BY <1>a, <1>b, <2>2, <2>5 DEF RootInv, Types, MaybeResetAbort, Unmarked,
       NO_ABORT, ABORT_ALL, ALMOST_NO_ABORT
  <2>q. QED
    BY <2>1, <2>2, <2>4, <2>5 DEF ReturnDoneDoes
<1>22. ASSUME NEW w \in Worker, Spawn(w) PROVE RootInv'
  <2>1. PICK c \in Proc, f \in Proc :
          SpawnDoes(w, c, f)
    BY <1>22, SpawnEffect
  <2>q. QED
    BY <1>f, <2>1 DEF SpawnDoes
<1>23. ASSUME NEW w \in Worker, ReturnFast(w) PROVE RootInv'
  <2>1. PICK f \in Proc :
          ReturnFastDoes(w, f)
    BY <1>23, ReturnFastEffect
  <2>q. QED
    BY <1>f, <2>1 DEF ReturnFastDoes
<1>24. ASSUME NEW w \in Worker, PopResult(w) PROVE RootInv'
  BY <1>f, <1>24 DEF PopResult, program, state, tree, locks, caches, Goto,
     Outcome
<1>25. ASSUME NEW w \in Worker, LockOwnDeque(w) PROVE RootInv'
  BY <1>f, <1>25 DEF LockOwnDeque, program, results, state, tree, caches, Goto,
     LockDeque, SlowAborts
<1>26. ASSUME NEW w \in Worker, LockBottom(w) PROVE RootInv'
  <2>1. PICK c \in Proc :
          LockBottomDoes(w, c)
    BY <1>26, LockBottomEffect
  <2>2. /\ clock[c] = None
        /\ UNCHANGED <<incomplete, status>>
    BY <2>1 DEF LockBottomDoes
  <2>4. ASSUME UNCHANGED <<abort>>
        PROVE  RootInv'
    BY <1>a, <1>b, <2>2, <2>4 DEF RootInv, Types, MaybeResetAbort, Unmarked,
       NO_ABORT, ABORT_ALL, ALMOST_NO_ABORT
  <2>5. ASSUME UNCHANGED <<abort>>
        PROVE  RootInv'
    BY <1>a, <1>b, <2>2, <2>5 DEF RootInv, Types, MaybeResetAbort, Unmarked,
       NO_ABORT, ABORT_ALL, ALMOST_NO_ABORT
  <2>6. ASSUME UNCHANGED <<abort>>
        PROVE  RootInv'
    BY <1>a, <1>b, <2>2, <2>6 DEF RootInv, Types, MaybeResetAbort, Unmarked,
       NO_ABORT, ABORT_ALL, ALMOST_NO_ABORT
  <2>7. ASSUME NEW s \in {ABORT_ALL, ALMOST_NO_ABORT}, status[c] = "RUNNING",
               abort' = [abort EXCEPT ![c] = s]
                  /\ \A d \in Proc : abort'[d] = ABORT_ALL <=> abort[d] = ABORT_ALL
        PROVE  RootInv'
    BY <1>a, <1>b, <2>2, <2>7 DEF RootInv, Types, MaybeResetAbort, Unmarked,
       NO_ABORT, ABORT_ALL, ALMOST_NO_ABORT
  <2>q. QED
    BY <2>1, <2>2, <2>4, <2>5, <2>6, <2>7 DEF LockBottomDoes
<1>27. ASSUME NEW w \in Worker, Sync(w) PROVE RootInv'
  <2>1. PICK c \in Proc :
          SyncDoes(w, c)
    BY <1>27, SyncEffect
  <2>2. /\ c = cl[w] /\ status[c] = "RUNNING" /\ Unmarked(c)
        /\ UNCHANGED <<incomplete>>
    BY <2>1 DEF SyncDoes
  <2>4. ASSUME status' = [status EXCEPT ![c] = "SUSPENDED"]
        PROVE  RootInv'
    BY <1>a, <1>b, <2>2, <2>4 DEF RootInv, Types, MaybeResetAbort, Unmarked,
       NO_ABORT, ABORT_ALL, ALMOST_NO_ABORT
  <2>5. ASSUME UNCHANGED <<status>>
        PROVE  RootInv'
    BY <1>a, <1>b, <2>2, <2>5 DEF RootInv, Types, MaybeResetAbort, Unmarked,
       NO_ABORT, ABORT_ALL, ALMOST_NO_ABORT
  <2>q. QED
    BY <2>1, <2>2, <2>4, <2>5 DEF SyncDoes
<1>28. ASSUME NEW w \in Worker, AbortSlow(w) PROVE RootInv'
  <2>2. /\ MaybeResetAbort(cl[w])
        /\ UNCHANGED <<incomplete, status>>
    BY <1>28 DEF AbortSlow, program, results, tree, caches, Goto, UnlockBoth,
       Polled, Hand, UnlockClosure, UnlockDeque, Polls
  <2>q. QED
    BY <1>a, <1>b, <2>2 DEF RootInv, Types, MaybeResetAbort, Unmarked,
       NO_ABORT, ABORT_ALL, ALMOST_NO_ABORT
<1>29. ASSUME NEW w \in Worker, SetResult(w) PROVE RootInv'
  <2>1. PICK c \in Proc :
          SetResultDoes(w, c)
    BY <1>29, SetResultEffect
  <2>2. /\ c = cl[w] /\ c # Root /\ abort[c] # ALMOST_NO_ABORT
        /\ status[c] = "RUNNING"
        /\ status' = [status EXCEPT ![c] = "RETURNING"]
        /\ UNCHANGED <<incomplete, abort>>
    BY <2>1 DEF SetResultDoes
  <2>q. QED
    BY <1>a, <1>b, <2>2 DEF RootInv, Types, MaybeResetAbort, Unmarked,
       NO_ABORT, ABORT_ALL, ALMOST_NO_ABORT
<1>30. ASSUME NEW w \in Worker, Done(w) PROVE RootInv'
  BY <1>f, <1>30 DEF Done, results, state, tree, locks, caches, Goto, AfterSync
<1>31. ASSUME NEW w \in Worker, RemoveAndFree(w) PROVE RootInv'
  <2>1. RemoveAndFreeDoes(w)
    BY <1>31, RemoveAndFreeEffect
  <2>2. /\ Root \in Proc /\ status[Root] = "RUNNING"
        /\ status' = [status EXCEPT ![Root] = "freed"]
        /\ UNCHANGED <<incomplete, abort>>
    BY <2>1 DEF RemoveAndFreeDoes
  <2>q. QED
    BY <1>a, <1>b, <2>2 DEF RootInv, Types, MaybeResetAbort, Unmarked,
       NO_ABORT, ABORT_ALL, ALMOST_NO_ABORT
<1>32. ASSUME NEW w \in Worker, CilkExit(w) PROVE RootInv'
  <2>1. CilkExitDoes(w)
    BY <1>32, CilkExitEffect
  <2>q. QED
    BY <1>f, <2>1 DEF CilkExitDoes
<1>33. ASSUME NEW w \in Worker, CilkExitDone(w) PROVE RootInv'
  <2>2. /\ MaybeResetAbort(Root)
        /\ UNCHANGED <<incomplete, status>>
    BY <1>33 DEF CilkExitDone, program, results, tree, caches, Goto, Hand,
       UnlockClosure, Polled, Polls
  <2>q. QED
    BY <1>a, <1>b, <2>2 DEF RootInv, Types, MaybeResetAbort, Unmarked,
       NO_ABORT, ABORT_ALL, ALMOST_NO_ABORT
<1>34. ASSUME NEW w \in Worker, HandlerPolled(w) PROVE RootInv'
  <2>1. PICK t \in Proc, t1 \in Proc :
          HandlerPolledDoes(w, t, t1)
    BY <1>34, HandlerPolledEffect
  <2>2. /\ t = cl[w] /\ Unmarked(t)
        /\ UNCHANGED <<incomplete, status>>
    BY <2>1 DEF HandlerPolledDoes
  <2>q. QED
    BY <1>a, <1>b, <2>2 DEF RootInv, Types, MaybeResetAbort, Unmarked,
       NO_ABORT, ABORT_ALL, ALMOST_NO_ABORT
<1>35. ASSUME NEW w \in Worker, HandlerSwap(w) PROVE RootInv'
  BY <1>f, <1>35 DEF HandlerSwap, program, results, state, tree, caches, Goto,
     LockClosure
<1>36. ASSUME NEW w \in Worker, HandlerStolen(w) PROVE RootInv'
  <2>1. PICK c \in Proc :
          HandlerStolenDoes(w, c)
    BY <1>36, HandlerStolenEffect
  <2>2. /\ c = cl[w] /\ c # Root /\ status[c] \in {"RUNNING", "RETURNING"}
        /\ status' = [status EXCEPT ![c] = "RETURNING"]
        /\ UNCHANGED <<incomplete, abort>>
    BY <2>1 DEF HandlerStolenDoes
  <2>q. QED
    BY <1>a, <1>b, <2>2 DEF RootInv, Types, MaybeResetAbort, Unmarked,
       NO_ABORT, ABORT_ALL, ALMOST_NO_ABORT
<1>37. ASSUME NEW w \in Worker, HandlerAbort(w) PROVE RootInv'
  <2>1. PICK c \in Proc, f \in Proc :
          HandlerAbortDoes(w, c, f)
    BY <1>37, HandlerAbortEffect
  <2>2. /\ c = cl[w] /\ status[c] = "RUNNING" /\ abort[c] # NO_ABORT
        /\ UNCHANGED <<incomplete>>
    BY <2>1 DEF HandlerAbortDoes
  <2>4. ASSUME Unmarked(c), status' = [status EXCEPT ![c] = "SUSPENDED"]
        PROVE  RootInv'
    BY <1>a, <1>b, <2>2, <2>4 DEF RootInv, Types, MaybeResetAbort, Unmarked,
       NO_ABORT, ABORT_ALL, ALMOST_NO_ABORT
  <2>5. ASSUME c # Root, status' = [status EXCEPT ![c] = "RETURNING"],
               UNCHANGED <<abort>>
        PROVE  RootInv'
    BY <1>a, <1>b, <2>2, <2>5 DEF RootInv, Types, MaybeResetAbort, Unmarked,
       NO_ABORT, ABORT_ALL, ALMOST_NO_ABORT
  <2>6. ASSUME c # Root, status' = [status EXCEPT ![c] = "RETURNING"],
               UNCHANGED <<abort>>
        PROVE  RootInv'
    BY <1>a, <1>b, <2>2, <2>6 DEF RootInv, Types, MaybeResetAbort, Unmarked,
       NO_ABORT, ABORT_ALL, ALMOST_NO_ABORT
  <2>7. ASSUME f # Root, status[f] = "none",
               UNCHANGED <<abort, status>>
        PROVE  RootInv'
    BY <1>a, <1>b, <2>2, <2>7 DEF RootInv, Types, MaybeResetAbort, Unmarked,
       NO_ABORT, ABORT_ALL, ALMOST_NO_ABORT
  <2>q. QED
    BY <2>1, <2>2, <2>4, <2>5, <2>6, <2>7 DEF HandlerAbortDoes, AbortWaits,
       AbortReturns, AbortPops
<1>38. ASSUME NEW w \in Worker, HandlerResume(w) PROVE RootInv'
  <2>2. /\ MaybeResetAbort(cl[w])
        /\ UNCHANGED <<incomplete, status>>
    BY <1>38 DEF HandlerResume, program, tree, Goto, UnlockBoth, Outcome,
       BeingAborted, Stolen, Hand, UnlockClosure, UnlockDeque
  <2>q. QED
    BY <1>a, <1>b, <2>2 DEF RootInv, Types, MaybeResetAbort, Unmarked,
       NO_ABORT, ABORT_ALL, ALMOST_NO_ABORT
<1>39. CASE UNCHANGED vars
  BY <1>f, <1>39 DEF vars
<1>q. QED
  BY <1>1, <1>2, <1>3, <1>4, <1>5, <1>6, <1>7, <1>8, <1>9, <1>10, <1>11, <1>12,
     <1>13, <1>14, <1>15, <1>16, <1>17, <1>18, <1>19, <1>20, <1>21, <1>22,
     <1>23, <1>24, <1>25, <1>26, <1>27, <1>28, <1>29, <1>30, <1>31, <1>32,
     <1>33, <1>34, <1>35, <1>36, <1>37, <1>38, <1>39 DEF Next, Step, Terminated

(* Who marks a closure goes on polling it, and every poll ends with its    *)
(* mark off: no step leaves a mark behind.                                 *)
LEMMA AlmostInvStep ==
    ASSUME IInv, [Next]_vars
    PROVE  AlmostInv'
<1>a. Types
  BY DEF IInv
<1>b. None \notin Worker /\ None \notin Proc
  BY WorkerAssumption DEF None, Proc
<1>c. \A u \in Worker : pc[u] \in PollPC => cl[u] \in Proc /\ clock[cl[u]] = u
  BY LockFacts DEF PollPC, LockPC
<1>d. \A u \in Worker : pc[u] = "return" => status[cl[u]] # "none"
  BY ReturnFacts DEF ReturnPC
<1>e. \A u \in Worker : pc[u] = "return" /\ abort[cl[u]] = ALMOST_NO_ABORT
                          => status[cl[u]] # "RUNNING"
  <2> SUFFICES ASSUME NEW u \in Worker, pc[u] = "return",
                      abort[cl[u]] = ALMOST_NO_ABORT
               PROVE  status[cl[u]] # "RUNNING"
    OBVIOUS
  <2>1. cl[u] \in Proc /\ clock[cl[u]] = u
    BY <1>c DEF PollPC
  <2>2. PICK v \in Worker : /\ cl[v] = cl[u] /\ pc[v] \in PollPC
                            /\ pc[v] = "return" => status[cl[u]] # "RUNNING"
    BY <2>1 DEF IInv, AlmostInv
  <2>3. v = u
    BY <1>c, <2>1, <2>2
  <2>q. QED
    BY <2>2, <2>3
<1>h. ASSUME NEW w \in Worker,
             \A u \in Worker \ {w} : pc'[u] = pc[u] /\ cl'[u] = cl[u],
             \A d \in Proc :
                 status[d] \notin {"none", "RUNNING"} /\ clock[d] \in Worker \ {w}
                    => status'[d] # "RUNNING",
             \A d \in Proc : abort'[d] = ALMOST_NO_ABORT =>
                 \/ /\ cl'[w] = d /\ pc'[w] \in PollPC
                    /\ pc'[w] = "return" => status'[d] # "RUNNING"
                 \/ abort[d] = ALMOST_NO_ABORT /\ ~(cl[w] = d /\ pc[w] \in PollPC)
      PROVE  AlmostInv'
  <2>1. ASSUME NEW d \in Proc, abort'[d] = ALMOST_NO_ABORT
        PROVE  \E u \in Worker : /\ cl'[u] = d /\ pc'[u] \in PollPC
                                 /\ pc'[u] = "return" => status'[d] # "RUNNING"
    <3>1. CASE /\ cl'[w] = d /\ pc'[w] \in PollPC
               /\ pc'[w] = "return" => status'[d] # "RUNNING"
      BY <3>1
    <3>2. CASE abort[d] = ALMOST_NO_ABORT /\ ~(cl[w] = d /\ pc[w] \in PollPC)
      <4>1. PICK u \in Worker : /\ cl[u] = d /\ pc[u] \in PollPC
                                /\ pc[u] = "return" => status[d] # "RUNNING"
        BY <3>2 DEF IInv, AlmostInv
      <4>2. u # w /\ clock[d] = u
        BY <1>c, <3>2, <4>1
      <4>3. pc'[u] = pc[u] /\ cl'[u] = cl[u]
        BY <1>h, <4>2
      <4>4. pc'[u] = "return" => status'[d] # "RUNNING"
        BY <1>d, <1>h, <4>1, <4>2, <4>3
      <4>q. QED
        BY <4>1, <4>3, <4>4
    <3>q. QED
      BY <1>h, <2>1, <3>1, <3>2
  <2>q. QED
    BY <2>1 DEF AlmostInv
<1>f. ASSUME UNCHANGED <<abort, cl, pc, status>>
      PROVE  AlmostInv'
BY <1>f DEF IInv, AlmostInv
<1>g. ASSUME NEW w \in Worker, NEW l, pc' = [pc EXCEPT ![w] = l],
             l \in PollPC <=> pc[w] \in PollPC,
             l = "return" <=> pc[w] = "return",
             UNCHANGED <<abort, cl, status>>
      PROVE  AlmostInv'
BY <1>a, <1>e, <1>g, <1>h DEF Types
<1>1. ASSUME NEW w \in Worker, LeaveScheduler(w) PROVE AlmostInv'
  BY <1>g, <1>1 DEF LeaveScheduler, program, results, state, tree, locks,
     caches, Goto, PollPC
<1>2. ASSUME NEW w \in Worker, TakeOwn(w) PROVE AlmostInv'
  <2>1. TakeOwnDoes(w)
    BY <1>2, TakeOwnEffect
  <2>2. /\ pc[w] = "loop" /\ cl[w] = None
        /\ UNCHANGED <<abort, status>>
    BY <2>1 DEF TakeOwnDoes
  <2>3. /\ "loop" \notin PollPC /\ "steal" \notin PollPC
    BY <2>2 DEF PollPC
  <2>4. ASSUME pc' = [pc EXCEPT ![w] = "steal"],
               UNCHANGED <<cl>>
        PROVE  AlmostInv'
    <3>1. \A u \in Worker \ {w} : pc'[u] = pc[u] /\ cl'[u] = cl[u]
      BY <1>a, <2>2, <2>3, <2>4 DEF Types
    <3>2. \A d \in Proc : status[d] \notin {"none", "RUNNING"} /\ clock[d] \in Worker \ {w}
                          => status'[d] # "RUNNING"
      BY <1>a, <1>b, <1>c, <2>2, <2>3, <2>4 DEF Types
    <3>3. \A d \in Proc : abort'[d] = ALMOST_NO_ABORT =>
             \/ /\ cl'[w] = d /\ pc'[w] \in PollPC
                /\ pc'[w] = "return" => status'[d] # "RUNNING"
             \/ abort[d] = ALMOST_NO_ABORT /\ ~(cl[w] = d /\ pc[w] \in PollPC)
      BY <1>a, <1>c, <1>e, <2>2, <2>3, <2>4 DEF Types, MaybeResetAbort,
         Unmarked, NO_ABORT, ABORT_ALL, ALMOST_NO_ABORT
    <3>q. QED
      BY <1>h, <2>2, <3>1, <3>2, <3>3
  <2>5. ASSUME NEW c \in Proc, cl' = [cl EXCEPT ![w] = c],
               UNCHANGED <<pc>>
        PROVE  AlmostInv'
    <3>1. \A u \in Worker \ {w} : pc'[u] = pc[u] /\ cl'[u] = cl[u]
      BY <1>a, <2>2, <2>3, <2>5 DEF Types
    <3>2. \A d \in Proc : status[d] \notin {"none", "RUNNING"} /\ clock[d] \in Worker \ {w}
                          => status'[d] # "RUNNING"
      BY <1>a, <1>b, <1>c, <2>2, <2>3, <2>5 DEF Types
    <3>3. \A d \in Proc : abort'[d] = ALMOST_NO_ABORT =>
             \/ /\ cl'[w] = d /\ pc'[w] \in PollPC
                /\ pc'[w] = "return" => status'[d] # "RUNNING"
             \/ abort[d] = ALMOST_NO_ABORT /\ ~(cl[w] = d /\ pc[w] \in PollPC)
      BY <1>a, <1>c, <1>e, <2>2, <2>3, <2>5 DEF Types, MaybeResetAbort,
         Unmarked, NO_ABORT, ABORT_ALL, ALMOST_NO_ABORT
    <3>q. QED
      BY <1>h, <2>2, <3>1, <3>2, <3>3
  <2>q. QED
    BY <2>1, <2>2, <2>4, <2>5 DEF TakeOwnDoes
<1>3. ASSUME NEW w \in Worker, StealLockDeque(w) PROVE AlmostInv'
  <2>2. /\ pc[w] = "steal" /\ pc' = [pc EXCEPT ![w] = "stealDeque"]
        /\ UNCHANGED <<abort, status>>
    BY <1>3 DEF StealLockDeque, program, results, state, tree, caches, Goto,
       LockDeque, Peek, Hand
  <2>3. /\ "steal" \notin PollPC /\ "stealDeque" \notin PollPC
    BY <2>2 DEF PollPC
  <2>4. ASSUME NEW v \in Worker \ {w},
               cl' = [cl EXCEPT ![w] = IF deque[v] = <<>> THEN None ELSE Head(deque[v])]
        PROVE  AlmostInv'
    <3>1. \A u \in Worker \ {w} : pc'[u] = pc[u] /\ cl'[u] = cl[u]
      BY <1>a, <2>2, <2>3, <2>4 DEF Types
    <3>2. \A d \in Proc : status[d] \notin {"none", "RUNNING"} /\ clock[d] \in Worker \ {w}
                          => status'[d] # "RUNNING"
      BY <1>a, <1>b, <1>c, <2>2, <2>3, <2>4 DEF Types
    <3>3. \A d \in Proc : abort'[d] = ALMOST_NO_ABORT =>
             \/ /\ cl'[w] = d /\ pc'[w] \in PollPC
                /\ pc'[w] = "return" => status'[d] # "RUNNING"
             \/ abort[d] = ALMOST_NO_ABORT /\ ~(cl[w] = d /\ pc[w] \in PollPC)
      BY <1>a, <1>c, <1>e, <2>2, <2>3, <2>4 DEF Types, MaybeResetAbort,
         Unmarked, NO_ABORT, ABORT_ALL, ALMOST_NO_ABORT
    <3>q. QED
      BY <1>h, <2>2, <3>1, <3>2, <3>3
  <2>q. QED
    BY <1>3, <2>2, <2>4 DEF StealLockDeque, program, results, state, tree,
       caches, Goto, LockDeque, Peek, Hand
<1>4. ASSUME NEW w \in Worker, StealLockClosure(w) PROVE AlmostInv'
  BY <1>g, <1>4 DEF StealLockClosure, program, results, state, tree, caches,
     Goto, LockClosure, PollPC
<1>5. ASSUME NEW w \in Worker, StealGiveUp(w) PROVE AlmostInv'
  <2>2. /\ pc[w] = "stealClosure" /\ cl' = [cl EXCEPT ![w] = None]
        /\ pc' = [pc EXCEPT ![w] = "stealGiveUp"]
        /\ UNCHANGED <<abort, status>>
    BY <1>5 DEF StealGiveUp, program, results, state, tree, caches, Goto, Hand,
       UnlockClosure, BeingAborted
  <2>3. /\ "stealClosure" \notin PollPC /\ "stealGiveUp" \notin PollPC
    BY <2>2 DEF PollPC
  <2>4. \A u \in Worker \ {w} : pc'[u] = pc[u] /\ cl'[u] = cl[u]
    BY <1>a, <2>2, <2>3 DEF Types
  <2>5. \A d \in Proc : status[d] \notin {"none", "RUNNING"} /\ clock[d] \in Worker \ {w}
                        => status'[d] # "RUNNING"
    BY <1>a, <1>b, <1>c, <2>2, <2>3 DEF Types
  <2>6. \A d \in Proc : abort'[d] = ALMOST_NO_ABORT =>
           \/ /\ cl'[w] = d /\ pc'[w] \in PollPC
              /\ pc'[w] = "return" => status'[d] # "RUNNING"
           \/ abort[d] = ALMOST_NO_ABORT /\ ~(cl[w] = d /\ pc[w] \in PollPC)
    BY <1>a, <1>c, <1>e, <2>2, <2>3 DEF Types, MaybeResetAbort, Unmarked,
       NO_ABORT, ABORT_ALL, ALMOST_NO_ABORT
  <2>q. QED
    BY <1>h, <2>2, <2>4, <2>5, <2>6
<1>6. ASSUME NEW w \in Worker, StealUnlockDeque(w) PROVE AlmostInv'
  BY <1>g, <1>6 DEF StealUnlockDeque, program, results, state, tree, caches,
     Goto, UnlockDeque, PollPC
<1>7. ASSUME NEW w \in Worker, StealReady(w) PROVE AlmostInv'
  <2>1. PICK v \in Worker \ {w}, c \in Proc :
          StealReadyDoes(w, v, c)
    BY <1>7, StealReadyEffect
  <2>q. QED
    BY <1>g, <2>1 DEF StealReadyDoes, PollPC
<1>8. ASSUME NEW w \in Worker, StealPromote(w) PROVE AlmostInv'
  <2>1. PICK v \in Worker \ {w}, c \in Proc, k \in Proc :
          StealPromoteDoes(w, v, c, k)
    BY <1>8, StealPromoteEffect
  <2>2. /\ pc[w] = "stealClosure" /\ c = cl[w] /\ pc[v] \in WorkPC \ OwnDequePC
        /\ status[c] = "RUNNING" /\ abort[c] = NO_ABORT /\ k # c /\ k # Root
        /\ status[k] = "none" /\ pc' = [pc EXCEPT ![w] = "stealFinish"]
        /\ status' = [status EXCEPT ![k] = "RUNNING"]
        /\ UNCHANGED <<abort, cl>>
    BY <2>1 DEF StealPromoteDoes
  <2>3. /\ "stealClosure" \notin PollPC /\ "stealFinish" \notin PollPC
    BY <2>2 DEF PollPC
  <2>4. \A u \in Worker \ {w} : pc'[u] = pc[u] /\ cl'[u] = cl[u]
    BY <1>a, <2>2, <2>3 DEF Types
  <2>5. \A d \in Proc : status[d] \notin {"none", "RUNNING"} /\ clock[d] \in Worker \ {w}
                        => status'[d] # "RUNNING"
    BY <1>a, <1>b, <1>c, <2>2, <2>3 DEF Types
  <2>6. \A d \in Proc : abort'[d] = ALMOST_NO_ABORT =>
           \/ /\ cl'[w] = d /\ pc'[w] \in PollPC
              /\ pc'[w] = "return" => status'[d] # "RUNNING"
           \/ abort[d] = ALMOST_NO_ABORT /\ ~(cl[w] = d /\ pc[w] \in PollPC)
    BY <1>a, <1>c, <1>e, <2>2, <2>3 DEF Types, MaybeResetAbort, Unmarked,
       NO_ABORT, ABORT_ALL, ALMOST_NO_ABORT
  <2>q. QED
    BY <1>h, <2>2, <2>4, <2>5, <2>6
<1>9. ASSUME NEW w \in Worker, StealFinish(w) PROVE AlmostInv'
  <2>2. /\ pc[w] = "stealFinish" /\ pc' = [pc EXCEPT ![w] = "loop"]
        /\ status' = [status EXCEPT ![cl[w]] = "READY"]
        /\ UNCHANGED <<abort, cl>>
    BY <1>9 DEF StealFinish, program, results, caches, Goto, UnlockClosure,
       SetStatus, AddChild
  <2>3. /\ "stealFinish" \notin PollPC /\ "loop" \notin PollPC
    BY <2>2 DEF PollPC
  <2>4. \A u \in Worker \ {w} : pc'[u] = pc[u] /\ cl'[u] = cl[u]
    BY <1>a, <2>2, <2>3 DEF Types
  <2>5. \A d \in Proc : status[d] \notin {"none", "RUNNING"} /\ clock[d] \in Worker \ {w}
                        => status'[d] # "RUNNING"
    BY <1>a, <1>b, <1>c, <2>2, <2>3 DEF Types
  <2>6. \A d \in Proc : abort'[d] = ALMOST_NO_ABORT =>
           \/ /\ cl'[w] = d /\ pc'[w] \in PollPC
              /\ pc'[w] = "return" => status'[d] # "RUNNING"
           \/ abort[d] = ALMOST_NO_ABORT /\ ~(cl[w] = d /\ pc[w] \in PollPC)
    BY <1>a, <1>c, <1>e, <2>2, <2>3 DEF Types, MaybeResetAbort, Unmarked,
       NO_ABORT, ABORT_ALL, ALMOST_NO_ABORT
  <2>q. QED
    BY <1>h, <2>2, <2>4, <2>5, <2>6
<1>10. ASSUME NEW w \in Worker, InletKilled(w) PROVE AlmostInv'
  BY <1>f, <1>10 DEF InletKilled, program, state, locks, caches, Outcome,
     BeingAborted, Polls
<1>11. ASSUME NEW w \in Worker, InletRuns(w) PROVE AlmostInv'
  BY <1>f, <1>11 DEF InletRuns, program, state, locks, caches, Outcome,
     BeingAborted, Polls
<1>12. ASSUME NEW w \in Worker, InletAborts(w) PROVE AlmostInv'
  <2>1. PICK c \in Proc, r \in SUBSET Proc :
          InletAbortsDoes(w, c, r)
    BY <1>12, InletAbortsEffect
  <2>2. /\ c = cl[w] /\ pc[w] \in PollPC
        /\ pc[w] = "return" => status[c] # "RUNNING"
        /\ abort[c] = NO_ABORT
        /\ abort' = [abort EXCEPT ![c] = ALMOST_NO_ABORT]
        /\ UNCHANGED <<cl, pc>>
    BY <2>1 DEF InletAbortsDoes
  <2>4. ASSUME NEW k \in Proc, pc[w] = "handlerPoll", status[c] = "RUNNING",
               k # c, k # Root, status[k] = "none",
               status' = [status EXCEPT ![k] = "RUNNING", ![c] = "READY"]
        PROVE  AlmostInv'
    <3>1. \A u \in Worker \ {w} : pc'[u] = pc[u] /\ cl'[u] = cl[u]
      BY <1>a, <2>2, <2>4 DEF Types
    <3>2. \A d \in Proc : status[d] \notin {"none", "RUNNING"} /\ clock[d] \in Worker \ {w}
                          => status'[d] # "RUNNING"
      BY <1>a, <1>b, <1>c, <2>2, <2>4 DEF Types
    <3>3. \A d \in Proc : abort'[d] = ALMOST_NO_ABORT =>
             \/ /\ cl'[w] = d /\ pc'[w] \in PollPC
                /\ pc'[w] = "return" => status'[d] # "RUNNING"
             \/ abort[d] = ALMOST_NO_ABORT /\ ~(cl[w] = d /\ pc[w] \in PollPC)
      BY <1>a, <1>c, <1>e, <2>2, <2>4 DEF Types, MaybeResetAbort, Unmarked,
         NO_ABORT, ABORT_ALL, ALMOST_NO_ABORT
    <3>q. QED
      BY <1>h, <2>2, <3>1, <3>2, <3>3
  <2>5. ASSUME UNCHANGED <<status>>
        PROVE  AlmostInv'
    <3>1. \A u \in Worker \ {w} : pc'[u] = pc[u] /\ cl'[u] = cl[u]
      BY <1>a, <2>2, <2>5 DEF Types
    <3>2. \A d \in Proc : status[d] \notin {"none", "RUNNING"} /\ clock[d] \in Worker \ {w}
                          => status'[d] # "RUNNING"
      BY <1>a, <1>b, <1>c, <2>2, <2>5 DEF Types
    <3>3. \A d \in Proc : abort'[d] = ALMOST_NO_ABORT =>
             \/ /\ cl'[w] = d /\ pc'[w] \in PollPC
                /\ pc'[w] = "return" => status'[d] # "RUNNING"
             \/ abort[d] = ALMOST_NO_ABORT /\ ~(cl[w] = d /\ pc[w] \in PollPC)
      BY <1>a, <1>c, <1>e, <2>2, <2>5 DEF Types, MaybeResetAbort, Unmarked,
         NO_ABORT, ABORT_ALL, ALMOST_NO_ABORT
    <3>q. QED
      BY <1>h, <2>2, <3>1, <3>2, <3>3
  <2>q. QED
    BY <2>1, <2>2, <2>4, <2>5 DEF InletAbortsDoes, InletSplits
<1>13. ASSUME NEW w \in Worker, WalkDown(w) PROVE AlmostInv'
  <2>1. PICK n \in Nat \ {0}, k \in Proc :
          WalkDownDoes(w, n, k)
    BY <1>13, WalkDownEffect
  <2>2. /\ clock[k] = None /\ k # Root
        /\ abort' = [abort EXCEPT ![k] = ABORT_ALL]
        /\ UNCHANGED <<cl, pc, status>>
    BY <2>1 DEF WalkDownDoes
  <2>4. \A u \in Worker \ {w} : pc'[u] = pc[u] /\ cl'[u] = cl[u]
    BY <1>a, <2>2 DEF Types
  <2>5. \A d \in Proc : status[d] \notin {"none", "RUNNING"} /\ clock[d] \in Worker \ {w}
                        => status'[d] # "RUNNING"
    BY <1>a, <1>b, <1>c, <2>2 DEF Types
  <2>6. \A d \in Proc : abort'[d] = ALMOST_NO_ABORT =>
           \/ /\ cl'[w] = d /\ pc'[w] \in PollPC
              /\ pc'[w] = "return" => status'[d] # "RUNNING"
           \/ abort[d] = ALMOST_NO_ABORT /\ ~(cl[w] = d /\ pc[w] \in PollPC)
    BY <1>a, <1>c, <1>e, <2>2 DEF Types, MaybeResetAbort, Unmarked, NO_ABORT,
       ABORT_ALL, ALMOST_NO_ABORT
  <2>q. QED
    BY <1>h, <2>2, <2>4, <2>5, <2>6
<1>14. ASSUME NEW w \in Worker, WalkUp(w) PROVE AlmostInv'
  <2>1. PICK n \in Nat \ {0} :
          WalkUpDoes(w, n)
    BY <1>14, WalkUpEffect
  <2>q. QED
    BY <1>f, <2>1 DEF WalkUpDoes
<1>15. ASSUME NEW w \in Worker, AbortReadyClosure(w) PROVE AlmostInv'
  <2>2. /\ pc[w] = "loop" /\ cl[w] # None /\ clock[cl[w]] = None
        /\ status[cl[w]] = "READY" /\ abort[cl[w]] # NO_ABORT
        /\ UNCHANGED <<abort, pc>>
    BY <1>15 DEF AbortReadyClosure, program, results, tree, locks, caches,
       Hand, SetStatus, Outcome, BeingAborted, HasChildren
  <2>3. /\ "loop" \notin PollPC
    BY <2>2 DEF PollPC
  <2>4. ASSUME cl' = [cl EXCEPT ![w] = None],
               status' = [status EXCEPT ![cl[w]] = "SUSPENDED"]
        PROVE  AlmostInv'
    <3>1. \A u \in Worker \ {w} : pc'[u] = pc[u] /\ cl'[u] = cl[u]
      BY <1>a, <2>2, <2>3, <2>4 DEF Types
    <3>2. \A d \in Proc : status[d] \notin {"none", "RUNNING"} /\ clock[d] \in Worker \ {w}
                          => status'[d] # "RUNNING"
      BY <1>a, <1>b, <1>c, <2>2, <2>3, <2>4 DEF Types
    <3>3. \A d \in Proc : abort'[d] = ALMOST_NO_ABORT =>
             \/ /\ cl'[w] = d /\ pc'[w] \in PollPC
                /\ pc'[w] = "return" => status'[d] # "RUNNING"
             \/ abort[d] = ALMOST_NO_ABORT /\ ~(cl[w] = d /\ pc[w] \in PollPC)
      BY <1>a, <1>c, <1>e, <2>2, <2>3, <2>4 DEF Types, MaybeResetAbort,
         Unmarked, NO_ABORT, ABORT_ALL, ALMOST_NO_ABORT
    <3>q. QED
      BY <1>h, <2>2, <3>1, <3>2, <3>3
  <2>5. ASSUME status' = [status EXCEPT ![cl[w]] = "RETURNING"],
               UNCHANGED <<cl>>
        PROVE  AlmostInv'
    <3>1. \A u \in Worker \ {w} : pc'[u] = pc[u] /\ cl'[u] = cl[u]
      BY <1>a, <2>2, <2>3, <2>5 DEF Types
    <3>2. \A d \in Proc : status[d] \notin {"none", "RUNNING"} /\ clock[d] \in Worker \ {w}
                          => status'[d] # "RUNNING"
      BY <1>a, <1>b, <1>c, <2>2, <2>3, <2>5 DEF Types
    <3>3. \A d \in Proc : abort'[d] = ALMOST_NO_ABORT =>
             \/ /\ cl'[w] = d /\ pc'[w] \in PollPC
                /\ pc'[w] = "return" => status'[d] # "RUNNING"
             \/ abort[d] = ALMOST_NO_ABORT /\ ~(cl[w] = d /\ pc[w] \in PollPC)
      BY <1>a, <1>c, <1>e, <2>2, <2>3, <2>5 DEF Types, MaybeResetAbort,
         Unmarked, NO_ABORT, ABORT_ALL, ALMOST_NO_ABORT
    <3>q. QED
      BY <1>h, <2>2, <3>1, <3>2, <3>3
  <2>q. QED
    BY <1>15, <2>2, <2>4, <2>5 DEF AbortReadyClosure, program, results, tree,
       locks, caches, Hand, SetStatus, Outcome, BeingAborted, HasChildren
<1>16. ASSUME NEW w \in Worker, Setup(w) PROVE AlmostInv'
  <2>2. /\ pc[w] = "loop" /\ cl[w] # None /\ status[cl[w]] = "READY"
        /\ abort[cl[w]] = NO_ABORT /\ clock[cl[w]] = None
        /\ pc' = [pc EXCEPT ![w] = "setup"]
        /\ status' = [status EXCEPT ![cl[w]] = "RUNNING"]
        /\ UNCHANGED <<abort, cl>>
    BY <1>16 DEF Setup, program, results, tree, Goto, LockClosure, SetStatus,
       BeingAborted
  <2>3. /\ "loop" \notin PollPC /\ "setup" \in PollPC
    BY <2>2 DEF PollPC
  <2>4. \A u \in Worker \ {w} : pc'[u] = pc[u] /\ cl'[u] = cl[u]
    BY <1>a, <2>2, <2>3 DEF Types
  <2>5. \A d \in Proc : status[d] \notin {"none", "RUNNING"} /\ clock[d] \in Worker \ {w}
                        => status'[d] # "RUNNING"
    BY <1>a, <1>b, <1>c, <2>2, <2>3 DEF Types
  <2>6. \A d \in Proc : abort'[d] = ALMOST_NO_ABORT =>
           \/ /\ cl'[w] = d /\ pc'[w] \in PollPC
              /\ pc'[w] = "return" => status'[d] # "RUNNING"
           \/ abort[d] = ALMOST_NO_ABORT /\ ~(cl[w] = d /\ pc[w] \in PollPC)
    BY <1>a, <1>c, <1>e, <2>2, <2>3 DEF Types, MaybeResetAbort, Unmarked,
       NO_ABORT, ABORT_ALL, ALMOST_NO_ABORT
  <2>q. QED
    BY <1>h, <2>2, <2>4, <2>5, <2>6
<1>17. ASSUME NEW w \in Worker, SetupDone(w) PROVE AlmostInv'
  <2>2. /\ pc[w] = "setup" /\ MaybeResetAbort(cl[w])
        /\ pc' = [pc EXCEPT ![w] = "add"]
        /\ UNCHANGED <<cl, status>>
    BY <1>17 DEF SetupDone, program, results, tree, caches, Goto,
       UnlockClosure, Polled, Polls
  <2>3. /\ "setup" \in PollPC /\ "add" \notin PollPC
    BY <2>2 DEF PollPC
  <2>4. \A u \in Worker \ {w} : pc'[u] = pc[u] /\ cl'[u] = cl[u]
    BY <1>a, <2>2, <2>3 DEF Types
  <2>5. \A d \in Proc : status[d] \notin {"none", "RUNNING"} /\ clock[d] \in Worker \ {w}
                        => status'[d] # "RUNNING"
    BY <1>a, <1>b, <1>c, <2>2, <2>3 DEF Types
  <2>6. \A d \in Proc : abort'[d] = ALMOST_NO_ABORT =>
           \/ /\ cl'[w] = d /\ pc'[w] \in PollPC
              /\ pc'[w] = "return" => status'[d] # "RUNNING"
           \/ abort[d] = ALMOST_NO_ABORT /\ ~(cl[w] = d /\ pc[w] \in PollPC)
    BY <1>a, <1>c, <1>e, <2>2, <2>3 DEF Types, MaybeResetAbort, Unmarked,
       NO_ABORT, ABORT_ALL, ALMOST_NO_ABORT
  <2>q. QED
    BY <1>h, <2>2, <2>4, <2>5, <2>6
<1>18. ASSUME NEW w \in Worker, Execute(w) PROVE AlmostInv'
  <2>1. PICK c \in Proc :
          ExecuteDoes(w, c)
    BY <1>18, ExecuteEffect
  <2>2. /\ pc[w] = "add" /\ c = cl[w] /\ status[c] = "RUNNING"
        /\ cl' = [cl EXCEPT ![w] = None] /\ pc' = [pc EXCEPT ![w] = "run"]
        /\ UNCHANGED <<abort, status>>
    BY <2>1 DEF ExecuteDoes
  <2>3. /\ "add" \notin PollPC /\ "run" \notin PollPC
    BY <2>2 DEF PollPC
  <2>4. \A u \in Worker \ {w} : pc'[u] = pc[u] /\ cl'[u] = cl[u]
    BY <1>a, <2>2, <2>3 DEF Types
  <2>5. \A d \in Proc : status[d] \notin {"none", "RUNNING"} /\ clock[d] \in Worker \ {w}
                        => status'[d] # "RUNNING"
    BY <1>a, <1>b, <1>c, <2>2, <2>3 DEF Types
  <2>6. \A d \in Proc : abort'[d] = ALMOST_NO_ABORT =>
           \/ /\ cl'[w] = d /\ pc'[w] \in PollPC
              /\ pc'[w] = "return" => status'[d] # "RUNNING"
           \/ abort[d] = ALMOST_NO_ABORT /\ ~(cl[w] = d /\ pc[w] \in PollPC)
    BY <1>a, <1>c, <1>e, <2>2, <2>3 DEF Types, MaybeResetAbort, Unmarked,
       NO_ABORT, ABORT_ALL, ALMOST_NO_ABORT
  <2>q. QED
    BY <1>h, <2>2, <2>4, <2>5, <2>6
<1>19. ASSUME NEW w \in Worker, ReturnLockParent(w) PROVE AlmostInv'
  <2>1. PICK k \in Proc, p \in Proc :
          ReturnLockParentDoes(w, k, p)
    BY <1>19, ReturnLockParentEffect
  <2>2. /\ pc[w] = "loop" /\ k = cl[w] /\ p # k /\ k # Root /\ clock[k] = None
        /\ status[k] = "RETURNING" /\ clock[p] = None /\ status[p] # "none"
        /\ cl' = [cl EXCEPT ![w] = p] /\ pc' = [pc EXCEPT ![w] = "returnChild"]
        /\ UNCHANGED <<abort, status>>
    BY <2>1 DEF ReturnLockParentDoes
  <2>3. /\ "loop" \notin PollPC /\ "returnChild" \notin PollPC
    BY <2>2 DEF PollPC
  <2>4. \A u \in Worker \ {w} : pc'[u] = pc[u] /\ cl'[u] = cl[u]
    BY <1>a, <2>2, <2>3 DEF Types
  <2>5. \A d \in Proc : status[d] \notin {"none", "RUNNING"} /\ clock[d] \in Worker \ {w}
                        => status'[d] # "RUNNING"
    BY <1>a, <1>b, <1>c, <2>2, <2>3 DEF Types
  <2>6. \A d \in Proc : abort'[d] = ALMOST_NO_ABORT =>
           \/ /\ cl'[w] = d /\ pc'[w] \in PollPC
              /\ pc'[w] = "return" => status'[d] # "RUNNING"
           \/ abort[d] = ALMOST_NO_ABORT /\ ~(cl[w] = d /\ pc[w] \in PollPC)
    BY <1>a, <1>c, <1>e, <2>2, <2>3 DEF Types, MaybeResetAbort, Unmarked,
       NO_ABORT, ABORT_ALL, ALMOST_NO_ABORT
  <2>q. QED
    BY <1>h, <2>2, <2>4, <2>5, <2>6
<1>20. ASSUME NEW w \in Worker, ReturnEnqueue(w) PROVE AlmostInv'
  <2>1. PICK k \in Proc, p \in Proc :
          ReturnEnqueueDoes(w, k, p)
    BY <1>20, ReturnEnqueueEffect
  <2>2. /\ pc[w] = "returnChild" /\ p = cl[w] /\ p # k
        /\ status[k] = "RETURNING" /\ status[p] # "none" /\ clock[k] = None
        /\ pc' = [pc EXCEPT ![w] = "return"]
        /\ UNCHANGED <<abort, cl, status>>
    BY <2>1 DEF ReturnEnqueueDoes
  <2>3. /\ "returnChild" \notin PollPC /\ "return" \in PollPC
    BY <2>2 DEF PollPC
  <2>4. \A u \in Worker \ {w} : pc'[u] = pc[u] /\ cl'[u] = cl[u]
    BY <1>a, <2>2, <2>3 DEF Types
  <2>5. \A d \in Proc : status[d] \notin {"none", "RUNNING"} /\ clock[d] \in Worker \ {w}
                        => status'[d] # "RUNNING"
    BY <1>a, <1>b, <1>c, <2>2, <2>3 DEF Types
  <2>6. \A d \in Proc : abort'[d] = ALMOST_NO_ABORT =>
           \/ /\ cl'[w] = d /\ pc'[w] \in PollPC
              /\ pc'[w] = "return" => status'[d] # "RUNNING"
           \/ abort[d] = ALMOST_NO_ABORT /\ ~(cl[w] = d /\ pc[w] \in PollPC)
    BY <1>a, <1>c, <1>e, <2>2, <2>3 DEF Types, MaybeResetAbort, Unmarked,
       NO_ABORT, ABORT_ALL, ALMOST_NO_ABORT
  <2>q. QED
    BY <1>h, <2>2, <2>4, <2>5, <2>6
<1>21. ASSUME NEW w \in Worker, ReturnDone(w) PROVE AlmostInv'
  <2>1. PICK k \in Proc, p \in Proc :
          ReturnDoneDoes(w, k, p)
    BY <1>21, ReturnDoneEffect
  <2>2. /\ pc[w] = "return" /\ p = cl[w] /\ p # k /\ k # Root
        /\ status[k] = "RETURNING" /\ status[p] # "none"
        /\ abort' \in {abort, [abort EXCEPT ![p] = NO_ABORT]}
        /\ status[p] # "RUNNING" => abort'[p] # ALMOST_NO_ABORT
        /\ pc' = [pc EXCEPT ![w] = "loop"]
    BY <2>1 DEF ReturnDoneDoes
  <2>3. /\ "return" \in PollPC /\ "loop" \notin PollPC
    BY <2>2 DEF PollPC
  <2>4. ASSUME status[p] = "SUSPENDED",
               status' = [status EXCEPT ![k] = "freed", ![p] = "READY"],
               UNCHANGED <<cl>>
        PROVE  AlmostInv'
    <3>1. \A u \in Worker \ {w} : pc'[u] = pc[u] /\ cl'[u] = cl[u]
      BY <1>a, <2>2, <2>3, <2>4 DEF Types
    <3>2. \A d \in Proc : status[d] \notin {"none", "RUNNING"} /\ clock[d] \in Worker \ {w}
                          => status'[d] # "RUNNING"
      BY <1>a, <1>b, <1>c, <2>2, <2>3, <2>4 DEF Types
    <3>3. \A d \in Proc : abort'[d] = ALMOST_NO_ABORT =>
             \/ /\ cl'[w] = d /\ pc'[w] \in PollPC
                /\ pc'[w] = "return" => status'[d] # "RUNNING"
             \/ abort[d] = ALMOST_NO_ABORT /\ ~(cl[w] = d /\ pc[w] \in PollPC)
      BY <1>a, <1>c, <1>e, <2>2, <2>3, <2>4 DEF Types, MaybeResetAbort,
         Unmarked, NO_ABORT, ABORT_ALL, ALMOST_NO_ABORT
    <3>q. QED
      BY <1>h, <2>2, <3>1, <3>2, <3>3
  <2>5. ASSUME cl' = [cl EXCEPT ![w] = None],
               status' = [status EXCEPT ![k] = "freed"]
        PROVE  AlmostInv'
    <3>1. \A u \in Worker \ {w} : pc'[u] = pc[u] /\ cl'[u] = cl[u]
      BY <1>a, <2>2, <2>3, <2>5 DEF Types
    <3>2. \A d \in Proc : status[d] \notin {"none", "RUNNING"} /\ clock[d] \in Worker \ {w}
                          => status'[d] # "RUNNING"
      BY <1>a, <1>b, <1>c, <2>2, <2>3, <2>5 DEF Types
    <3>3. \A d \in Proc : abort'[d] = ALMOST_NO_ABORT =>
             \/ /\ cl'[w] = d /\ pc'[w] \in PollPC
                /\ pc'[w] = "return" => status'[d] # "RUNNING"
             \/ abort[d] = ALMOST_NO_ABORT /\ ~(cl[w] = d /\ pc[w] \in PollPC)
      BY <1>a, <1>c, <1>e, <2>2, <2>3, <2>5 DEF Types, MaybeResetAbort,
         Unmarked, NO_ABORT, ABORT_ALL, ALMOST_NO_ABORT
    <3>q. QED
      BY <1>h, <2>2, <3>1, <3>2, <3>3
  <2>q. QED
    BY <2>1, <2>2, <2>4, <2>5 DEF ReturnDoneDoes
<1>22. ASSUME NEW w \in Worker, Spawn(w) PROVE AlmostInv'
  <2>1. PICK c \in Proc, f \in Proc :
          SpawnDoes(w, c, f)
    BY <1>22, SpawnEffect
  <2>q. QED
    BY <1>g, <2>1 DEF SpawnDoes, PollPC
<1>23. ASSUME NEW w \in Worker, ReturnFast(w) PROVE AlmostInv'
  <2>1. PICK f \in Proc :
          ReturnFastDoes(w, f)
    BY <1>23, ReturnFastEffect
  <2>q. QED
    BY <1>g, <2>1 DEF ReturnFastDoes, PollPC
<1>24. ASSUME NEW w \in Worker, PopResult(w) PROVE AlmostInv'
  BY <1>g, <1>24 DEF PopResult, program, state, tree, locks, caches, Goto,
     Outcome, PollPC
<1>25. ASSUME NEW w \in Worker, LockOwnDeque(w) PROVE AlmostInv'
  BY <1>g, <1>25 DEF LockOwnDeque, program, results, state, tree, caches, Goto,
     LockDeque, SlowAborts, PollPC
<1>26. ASSUME NEW w \in Worker, LockBottom(w) PROVE AlmostInv'
  <2>1. PICK c \in Proc :
          LockBottomDoes(w, c)
    BY <1>26, LockBottomEffect
  <2>2. /\ pc[w] \in {"handler", "sync", "abort", "result"} /\ clock[c] = None
        /\ cl' = [cl EXCEPT ![w] = c]
        /\ UNCHANGED <<status>>
    BY <2>1 DEF LockBottomDoes
  <2>3. /\ "handler" \notin PollPC /\ "sync" \notin PollPC
        /\ "abort" \notin PollPC /\ "result" \notin PollPC
        /\ "handlerPoll" \in PollPC /\ "syncPoll" \in PollPC
        /\ "setResult" \notin PollPC /\ "abortPoll" \in PollPC
        /\ pc[w] \notin PollPC
    BY <2>2 DEF PollPC
  <2>4. ASSUME pc[w] = "handler", pc' = [pc EXCEPT ![w] = "handlerPoll"],
               UNCHANGED <<abort>>
        PROVE  AlmostInv'
    <3>1. \A u \in Worker \ {w} : pc'[u] = pc[u] /\ cl'[u] = cl[u]
      BY <1>a, <2>2, <2>3, <2>4 DEF Types
    <3>2. \A d \in Proc : status[d] \notin {"none", "RUNNING"} /\ clock[d] \in Worker \ {w}
                          => status'[d] # "RUNNING"
      BY <1>a, <1>b, <1>c, <2>2, <2>3, <2>4 DEF Types
    <3>3. \A d \in Proc : abort'[d] = ALMOST_NO_ABORT =>
             \/ /\ cl'[w] = d /\ pc'[w] \in PollPC
                /\ pc'[w] = "return" => status'[d] # "RUNNING"
             \/ abort[d] = ALMOST_NO_ABORT /\ ~(cl[w] = d /\ pc[w] \in PollPC)
      BY <1>a, <1>c, <1>e, <2>2, <2>3, <2>4 DEF Types, MaybeResetAbort,
         Unmarked, NO_ABORT, ABORT_ALL, ALMOST_NO_ABORT
    <3>q. QED
      BY <1>h, <2>2, <3>1, <3>2, <3>3
  <2>5. ASSUME pc[w] = "sync", pc' = [pc EXCEPT ![w] = "syncPoll"],
               UNCHANGED <<abort>>
        PROVE  AlmostInv'
    <3>1. \A u \in Worker \ {w} : pc'[u] = pc[u] /\ cl'[u] = cl[u]
      BY <1>a, <2>2, <2>3, <2>5 DEF Types
    <3>2. \A d \in Proc : status[d] \notin {"none", "RUNNING"} /\ clock[d] \in Worker \ {w}
                          => status'[d] # "RUNNING"
      BY <1>a, <1>b, <1>c, <2>2, <2>3, <2>5 DEF Types
    <3>3. \A d \in Proc : abort'[d] = ALMOST_NO_ABORT =>
             \/ /\ cl'[w] = d /\ pc'[w] \in PollPC
                /\ pc'[w] = "return" => status'[d] # "RUNNING"
             \/ abort[d] = ALMOST_NO_ABORT /\ ~(cl[w] = d /\ pc[w] \in PollPC)
      BY <1>a, <1>c, <1>e, <2>2, <2>3, <2>5 DEF Types, MaybeResetAbort,
         Unmarked, NO_ABORT, ABORT_ALL, ALMOST_NO_ABORT
    <3>q. QED
      BY <1>h, <2>2, <3>1, <3>2, <3>3
  <2>6. ASSUME pc[w] = "result", pc' = [pc EXCEPT ![w] = "setResult"],
               UNCHANGED <<abort>>
        PROVE  AlmostInv'
    <3>1. \A u \in Worker \ {w} : pc'[u] = pc[u] /\ cl'[u] = cl[u]
      BY <1>a, <2>2, <2>3, <2>6 DEF Types
    <3>2. \A d \in Proc : status[d] \notin {"none", "RUNNING"} /\ clock[d] \in Worker \ {w}
                          => status'[d] # "RUNNING"
      BY <1>a, <1>b, <1>c, <2>2, <2>3, <2>6 DEF Types
    <3>3. \A d \in Proc : abort'[d] = ALMOST_NO_ABORT =>
             \/ /\ cl'[w] = d /\ pc'[w] \in PollPC
                /\ pc'[w] = "return" => status'[d] # "RUNNING"
             \/ abort[d] = ALMOST_NO_ABORT /\ ~(cl[w] = d /\ pc[w] \in PollPC)
      BY <1>a, <1>c, <1>e, <2>2, <2>3, <2>6 DEF Types, MaybeResetAbort,
         Unmarked, NO_ABORT, ABORT_ALL, ALMOST_NO_ABORT
    <3>q. QED
      BY <1>h, <2>2, <3>1, <3>2, <3>3
  <2>7. ASSUME NEW s \in {ABORT_ALL, ALMOST_NO_ABORT}, pc[w] = "abort",
               status[c] = "RUNNING",
               abort' = [abort EXCEPT ![c] = s]
                  /\ \A d \in Proc : abort'[d] = ABORT_ALL <=> abort[d] = ABORT_ALL,
               pc' = [pc EXCEPT ![w] = "abortPoll"]
        PROVE  AlmostInv'
    <3>1. \A u \in Worker \ {w} : pc'[u] = pc[u] /\ cl'[u] = cl[u]
      BY <1>a, <2>2, <2>3, <2>7 DEF Types
    <3>2. \A d \in Proc : status[d] \notin {"none", "RUNNING"} /\ clock[d] \in Worker \ {w}
                          => status'[d] # "RUNNING"
      BY <1>a, <1>b, <1>c, <2>2, <2>3, <2>7 DEF Types
    <3>3. \A d \in Proc : abort'[d] = ALMOST_NO_ABORT =>
             \/ /\ cl'[w] = d /\ pc'[w] \in PollPC
                /\ pc'[w] = "return" => status'[d] # "RUNNING"
             \/ abort[d] = ALMOST_NO_ABORT /\ ~(cl[w] = d /\ pc[w] \in PollPC)
      BY <1>a, <1>c, <1>e, <2>2, <2>3, <2>7 DEF Types, MaybeResetAbort,
         Unmarked, NO_ABORT, ABORT_ALL, ALMOST_NO_ABORT
    <3>q. QED
      BY <1>h, <2>2, <3>1, <3>2, <3>3
  <2>q. QED
    BY <2>1, <2>2, <2>4, <2>5, <2>6, <2>7 DEF LockBottomDoes
<1>27. ASSUME NEW w \in Worker, Sync(w) PROVE AlmostInv'
  <2>1. PICK c \in Proc :
          SyncDoes(w, c)
    BY <1>27, SyncEffect
  <2>2. /\ pc[w] = "syncPoll" /\ c = cl[w] /\ status[c] = "RUNNING"
        /\ Unmarked(c) /\ cl' = [cl EXCEPT ![w] = None]
    BY <2>1 DEF SyncDoes
  <2>3. /\ "syncPoll" \in PollPC /\ "loop" \notin PollPC
        /\ "synced" \notin PollPC
    BY <2>2 DEF PollPC
  <2>4. ASSUME pc' = [pc EXCEPT ![w] = "loop"],
               status' = [status EXCEPT ![c] = "SUSPENDED"]
        PROVE  AlmostInv'
    <3>1. \A u \in Worker \ {w} : pc'[u] = pc[u] /\ cl'[u] = cl[u]
      BY <1>a, <2>2, <2>3, <2>4 DEF Types
    <3>2. \A d \in Proc : status[d] \notin {"none", "RUNNING"} /\ clock[d] \in Worker \ {w}
                          => status'[d] # "RUNNING"
      BY <1>a, <1>b, <1>c, <2>2, <2>3, <2>4 DEF Types
    <3>3. \A d \in Proc : abort'[d] = ALMOST_NO_ABORT =>
             \/ /\ cl'[w] = d /\ pc'[w] \in PollPC
                /\ pc'[w] = "return" => status'[d] # "RUNNING"
             \/ abort[d] = ALMOST_NO_ABORT /\ ~(cl[w] = d /\ pc[w] \in PollPC)
      BY <1>a, <1>c, <1>e, <2>2, <2>3, <2>4 DEF Types, MaybeResetAbort,
         Unmarked, NO_ABORT, ABORT_ALL, ALMOST_NO_ABORT
    <3>q. QED
      BY <1>h, <2>2, <3>1, <3>2, <3>3
  <2>5. ASSUME pc' = [pc EXCEPT ![w] = "synced"],
               UNCHANGED <<status>>
        PROVE  AlmostInv'
    <3>1. \A u \in Worker \ {w} : pc'[u] = pc[u] /\ cl'[u] = cl[u]
      BY <1>a, <2>2, <2>3, <2>5 DEF Types
    <3>2. \A d \in Proc : status[d] \notin {"none", "RUNNING"} /\ clock[d] \in Worker \ {w}
                          => status'[d] # "RUNNING"
      BY <1>a, <1>b, <1>c, <2>2, <2>3, <2>5 DEF Types
    <3>3. \A d \in Proc : abort'[d] = ALMOST_NO_ABORT =>
             \/ /\ cl'[w] = d /\ pc'[w] \in PollPC
                /\ pc'[w] = "return" => status'[d] # "RUNNING"
             \/ abort[d] = ALMOST_NO_ABORT /\ ~(cl[w] = d /\ pc[w] \in PollPC)
      BY <1>a, <1>c, <1>e, <2>2, <2>3, <2>5 DEF Types, MaybeResetAbort,
         Unmarked, NO_ABORT, ABORT_ALL, ALMOST_NO_ABORT
    <3>q. QED
      BY <1>h, <2>2, <3>1, <3>2, <3>3
  <2>q. QED
    BY <2>1, <2>2, <2>4, <2>5 DEF SyncDoes
<1>28. ASSUME NEW w \in Worker, AbortSlow(w) PROVE AlmostInv'
  <2>2. /\ pc[w] = "abortPoll" /\ MaybeResetAbort(cl[w])
        /\ cl' = [cl EXCEPT ![w] = None] /\ pc' = [pc EXCEPT ![w] = "run"]
        /\ UNCHANGED <<status>>
    BY <1>28 DEF AbortSlow, program, results, tree, caches, Goto, UnlockBoth,
       Polled, Hand, UnlockClosure, UnlockDeque, Polls
  <2>3. /\ "abortPoll" \in PollPC /\ "run" \notin PollPC
    BY <2>2 DEF PollPC
  <2>4. \A u \in Worker \ {w} : pc'[u] = pc[u] /\ cl'[u] = cl[u]
    BY <1>a, <2>2, <2>3 DEF Types
  <2>5. \A d \in Proc : status[d] \notin {"none", "RUNNING"} /\ clock[d] \in Worker \ {w}
                        => status'[d] # "RUNNING"
    BY <1>a, <1>b, <1>c, <2>2, <2>3 DEF Types
  <2>6. \A d \in Proc : abort'[d] = ALMOST_NO_ABORT =>
           \/ /\ cl'[w] = d /\ pc'[w] \in PollPC
              /\ pc'[w] = "return" => status'[d] # "RUNNING"
           \/ abort[d] = ALMOST_NO_ABORT /\ ~(cl[w] = d /\ pc[w] \in PollPC)
    BY <1>a, <1>c, <1>e, <2>2, <2>3 DEF Types, MaybeResetAbort, Unmarked,
       NO_ABORT, ABORT_ALL, ALMOST_NO_ABORT
  <2>q. QED
    BY <1>h, <2>2, <2>4, <2>5, <2>6
<1>29. ASSUME NEW w \in Worker, SetResult(w) PROVE AlmostInv'
  <2>1. PICK c \in Proc :
          SetResultDoes(w, c)
    BY <1>29, SetResultEffect
  <2>2. /\ pc[w] = "setResult" /\ c = cl[w] /\ c # Root
        /\ abort[c] # ALMOST_NO_ABORT /\ status[c] = "RUNNING"
        /\ cl' = [cl EXCEPT ![w] = None] /\ pc' = [pc EXCEPT ![w] = "loop"]
        /\ status' = [status EXCEPT ![c] = "RETURNING"]
        /\ UNCHANGED <<abort>>
    BY <2>1 DEF SetResultDoes
  <2>3. /\ "setResult" \notin PollPC /\ "loop" \notin PollPC
    BY <2>2 DEF PollPC
  <2>4. \A u \in Worker \ {w} : pc'[u] = pc[u] /\ cl'[u] = cl[u]
    BY <1>a, <2>2, <2>3 DEF Types
  <2>5. \A d \in Proc : status[d] \notin {"none", "RUNNING"} /\ clock[d] \in Worker \ {w}
                        => status'[d] # "RUNNING"
    BY <1>a, <1>b, <1>c, <2>2, <2>3 DEF Types
  <2>6. \A d \in Proc : abort'[d] = ALMOST_NO_ABORT =>
           \/ /\ cl'[w] = d /\ pc'[w] \in PollPC
              /\ pc'[w] = "return" => status'[d] # "RUNNING"
           \/ abort[d] = ALMOST_NO_ABORT /\ ~(cl[w] = d /\ pc[w] \in PollPC)
    BY <1>a, <1>c, <1>e, <2>2, <2>3 DEF Types, MaybeResetAbort, Unmarked,
       NO_ABORT, ABORT_ALL, ALMOST_NO_ABORT
  <2>q. QED
    BY <1>h, <2>2, <2>4, <2>5, <2>6
<1>30. ASSUME NEW w \in Worker, Done(w) PROVE AlmostInv'
  BY <1>g, <1>30 DEF Done, results, state, tree, locks, caches, Goto,
     AfterSync, PollPC
<1>31. ASSUME NEW w \in Worker, RemoveAndFree(w) PROVE AlmostInv'
  <2>1. RemoveAndFreeDoes(w)
    BY <1>31, RemoveAndFreeEffect
  <2>2. /\ pc[w] = "rootEnd" /\ Root \in Proc /\ status[Root] = "RUNNING"
        /\ pc' = [pc EXCEPT ![w] = "loop"]
        /\ status' = [status EXCEPT ![Root] = "freed"]
        /\ UNCHANGED <<abort, cl>>
    BY <2>1 DEF RemoveAndFreeDoes
  <2>3. /\ "rootEnd" \notin PollPC /\ "loop" \notin PollPC
    BY <2>2 DEF PollPC
  <2>4. \A u \in Worker \ {w} : pc'[u] = pc[u] /\ cl'[u] = cl[u]
    BY <1>a, <2>2, <2>3 DEF Types
  <2>5. \A d \in Proc : status[d] \notin {"none", "RUNNING"} /\ clock[d] \in Worker \ {w}
                        => status'[d] # "RUNNING"
    BY <1>a, <1>b, <1>c, <2>2, <2>3 DEF Types
  <2>6. \A d \in Proc : abort'[d] = ALMOST_NO_ABORT =>
           \/ /\ cl'[w] = d /\ pc'[w] \in PollPC
              /\ pc'[w] = "return" => status'[d] # "RUNNING"
           \/ abort[d] = ALMOST_NO_ABORT /\ ~(cl[w] = d /\ pc[w] \in PollPC)
    BY <1>a, <1>c, <1>e, <2>2, <2>3 DEF Types, MaybeResetAbort, Unmarked,
       NO_ABORT, ABORT_ALL, ALMOST_NO_ABORT
  <2>q. QED
    BY <1>h, <2>2, <2>4, <2>5, <2>6
<1>32. ASSUME NEW w \in Worker, CilkExit(w) PROVE AlmostInv'
  <2>1. CilkExitDoes(w)
    BY <1>32, CilkExitEffect
  <2>2. /\ pc[w] = "run" /\ Root \in Proc /\ clock[Root] = None
        /\ UNCHANGED <<abort, status>>
    BY <2>1 DEF CilkExitDoes
  <2>3. /\ "run" \notin PollPC /\ "exitPoll" \in PollPC
    BY <2>2 DEF PollPC
  <2>4. ASSUME status[Root] = "RUNNING",
               UNCHANGED <<cl, pc>>
        PROVE  AlmostInv'
    <3>1. \A u \in Worker \ {w} : pc'[u] = pc[u] /\ cl'[u] = cl[u]
      BY <1>a, <2>2, <2>3, <2>4 DEF Types
    <3>2. \A d \in Proc : status[d] \notin {"none", "RUNNING"} /\ clock[d] \in Worker \ {w}
                          => status'[d] # "RUNNING"
      BY <1>a, <1>b, <1>c, <2>2, <2>3, <2>4 DEF Types
    <3>3. \A d \in Proc : abort'[d] = ALMOST_NO_ABORT =>
             \/ /\ cl'[w] = d /\ pc'[w] \in PollPC
                /\ pc'[w] = "return" => status'[d] # "RUNNING"
             \/ abort[d] = ALMOST_NO_ABORT /\ ~(cl[w] = d /\ pc[w] \in PollPC)
      BY <1>a, <1>c, <1>e, <2>2, <2>3, <2>4 DEF Types, MaybeResetAbort,
         Unmarked, NO_ABORT, ABORT_ALL, ALMOST_NO_ABORT
    <3>q. QED
      BY <1>h, <2>2, <3>1, <3>2, <3>3
  <2>5. ASSUME status[Root] # "RUNNING", cl' = [cl EXCEPT ![w] = Root],
               pc' = [pc EXCEPT ![w] = "exitPoll"]
        PROVE  AlmostInv'
    <3>1. \A u \in Worker \ {w} : pc'[u] = pc[u] /\ cl'[u] = cl[u]
      BY <1>a, <2>2, <2>3, <2>5 DEF Types
    <3>2. \A d \in Proc : status[d] \notin {"none", "RUNNING"} /\ clock[d] \in Worker \ {w}
                          => status'[d] # "RUNNING"
      BY <1>a, <1>b, <1>c, <2>2, <2>3, <2>5 DEF Types
    <3>3. \A d \in Proc : abort'[d] = ALMOST_NO_ABORT =>
             \/ /\ cl'[w] = d /\ pc'[w] \in PollPC
                /\ pc'[w] = "return" => status'[d] # "RUNNING"
             \/ abort[d] = ALMOST_NO_ABORT /\ ~(cl[w] = d /\ pc[w] \in PollPC)
      BY <1>a, <1>c, <1>e, <2>2, <2>3, <2>5 DEF Types, MaybeResetAbort,
         Unmarked, NO_ABORT, ABORT_ALL, ALMOST_NO_ABORT
    <3>q. QED
      BY <1>h, <2>2, <3>1, <3>2, <3>3
  <2>q. QED
    BY <2>1, <2>2, <2>4, <2>5 DEF CilkExitDoes
<1>33. ASSUME NEW w \in Worker, CilkExitDone(w) PROVE AlmostInv'
  <2>2. /\ pc[w] = "exitPoll" /\ MaybeResetAbort(Root)
        /\ cl' = [cl EXCEPT ![w] = None] /\ pc' = [pc EXCEPT ![w] = "run"]
        /\ UNCHANGED <<status>>
    BY <1>33 DEF CilkExitDone, program, results, tree, caches, Goto, Hand,
       UnlockClosure, Polled, Polls
  <2>3. /\ "exitPoll" \in PollPC /\ "run" \notin PollPC
    BY <2>2 DEF PollPC
  <2>a. cl[w] = Root
    BY <2>2 DEF IInv, InHandInv
  <2>4. \A u \in Worker \ {w} : pc'[u] = pc[u] /\ cl'[u] = cl[u]
    BY <1>a, <2>2, <2>3, <2>a DEF Types
  <2>5. \A d \in Proc : status[d] \notin {"none", "RUNNING"} /\ clock[d] \in Worker \ {w}
                        => status'[d] # "RUNNING"
    BY <1>a, <1>b, <1>c, <2>2, <2>3, <2>a DEF Types
  <2>6. \A d \in Proc : abort'[d] = ALMOST_NO_ABORT =>
           \/ /\ cl'[w] = d /\ pc'[w] \in PollPC
              /\ pc'[w] = "return" => status'[d] # "RUNNING"
           \/ abort[d] = ALMOST_NO_ABORT /\ ~(cl[w] = d /\ pc[w] \in PollPC)
    BY <1>a, <1>c, <1>e, <2>2, <2>3, <2>a DEF Types, MaybeResetAbort, Unmarked,
       NO_ABORT, ABORT_ALL, ALMOST_NO_ABORT
  <2>q. QED
    BY <1>h, <2>2, <2>4, <2>5, <2>6
<1>34. ASSUME NEW w \in Worker, HandlerPolled(w) PROVE AlmostInv'
  <2>1. PICK t \in Proc, t1 \in Proc :
          HandlerPolledDoes(w, t, t1)
    BY <1>34, HandlerPolledEffect
  <2>2. /\ pc[w] = "handlerPoll" /\ t = cl[w] /\ Unmarked(t)
        /\ UNCHANGED <<status>>
    BY <2>1 DEF HandlerPolledDoes
  <2>3. /\ "handlerPoll" \in PollPC /\ "handlerAct" \notin PollPC
        /\ "handlerSwap" \notin PollPC
    BY <2>2 DEF PollPC
  <2>4. ASSUME t1 = t, pc' = [pc EXCEPT ![w] = "handlerAct"],
               UNCHANGED <<cl>>
        PROVE  AlmostInv'
    <3>1. \A u \in Worker \ {w} : pc'[u] = pc[u] /\ cl'[u] = cl[u]
      BY <1>a, <2>2, <2>3, <2>4 DEF Types
    <3>2. \A d \in Proc : status[d] \notin {"none", "RUNNING"} /\ clock[d] \in Worker \ {w}
                          => status'[d] # "RUNNING"
      BY <1>a, <1>b, <1>c, <2>2, <2>3, <2>4 DEF Types
    <3>3. \A d \in Proc : abort'[d] = ALMOST_NO_ABORT =>
             \/ /\ cl'[w] = d /\ pc'[w] \in PollPC
                /\ pc'[w] = "return" => status'[d] # "RUNNING"
             \/ abort[d] = ALMOST_NO_ABORT /\ ~(cl[w] = d /\ pc[w] \in PollPC)
      BY <1>a, <1>c, <1>e, <2>2, <2>3, <2>4 DEF Types, MaybeResetAbort,
         Unmarked, NO_ABORT, ABORT_ALL, ALMOST_NO_ABORT
    <3>q. QED
      BY <1>h, <2>2, <3>1, <3>2, <3>3
  <2>5. ASSUME t1 # t, status[t] = "READY", cl' = [cl EXCEPT ![w] = t1],
               pc' = [pc EXCEPT ![w] = "handlerSwap"]
        PROVE  AlmostInv'
    <3>1. \A u \in Worker \ {w} : pc'[u] = pc[u] /\ cl'[u] = cl[u]
      BY <1>a, <2>2, <2>3, <2>5 DEF Types
    <3>2. \A d \in Proc : status[d] \notin {"none", "RUNNING"} /\ clock[d] \in Worker \ {w}
                          => status'[d] # "RUNNING"
      BY <1>a, <1>b, <1>c, <2>2, <2>3, <2>5 DEF Types
    <3>3. \A d \in Proc : abort'[d] = ALMOST_NO_ABORT =>
             \/ /\ cl'[w] = d /\ pc'[w] \in PollPC
                /\ pc'[w] = "return" => status'[d] # "RUNNING"
             \/ abort[d] = ALMOST_NO_ABORT /\ ~(cl[w] = d /\ pc[w] \in PollPC)
      BY <1>a, <1>c, <1>e, <2>2, <2>3, <2>5 DEF Types, MaybeResetAbort,
         Unmarked, NO_ABORT, ABORT_ALL, ALMOST_NO_ABORT
    <3>q. QED
      BY <1>h, <2>2, <3>1, <3>2, <3>3
  <2>q. QED
    BY <2>1, <2>2, <2>4, <2>5 DEF HandlerPolledDoes
<1>35. ASSUME NEW w \in Worker, HandlerSwap(w) PROVE AlmostInv'
  BY <1>g, <1>35 DEF HandlerSwap, program, results, state, tree, caches, Goto,
     LockClosure, PollPC
<1>36. ASSUME NEW w \in Worker, HandlerStolen(w) PROVE AlmostInv'
  <2>1. PICK c \in Proc :
          HandlerStolenDoes(w, c)
    BY <1>36, HandlerStolenEffect
  <2>2. /\ pc[w] = "handlerAct" /\ c = cl[w] /\ c # Root
        /\ status[c] \in {"RUNNING", "RETURNING"}
        /\ cl' = [cl EXCEPT ![w] = None]
        /\ status' = [status EXCEPT ![c] = "RETURNING"]
        /\ UNCHANGED <<abort>>
    BY <2>1 DEF HandlerStolenDoes
  <2>3. /\ "handlerAct" \notin PollPC /\ "loop" \notin PollPC
        /\ "pop" \notin PollPC
    BY <2>2 DEF PollPC
  <2>4. ASSUME pc' = [pc EXCEPT ![w] = "loop"]
        PROVE  AlmostInv'
    <3>1. \A u \in Worker \ {w} : pc'[u] = pc[u] /\ cl'[u] = cl[u]
      BY <1>a, <2>2, <2>3, <2>4 DEF Types
    <3>2. \A d \in Proc : status[d] \notin {"none", "RUNNING"} /\ clock[d] \in Worker \ {w}
                          => status'[d] # "RUNNING"
      BY <1>a, <1>b, <1>c, <2>2, <2>3, <2>4 DEF Types
    <3>3. \A d \in Proc : abort'[d] = ALMOST_NO_ABORT =>
             \/ /\ cl'[w] = d /\ pc'[w] \in PollPC
                /\ pc'[w] = "return" => status'[d] # "RUNNING"
             \/ abort[d] = ALMOST_NO_ABORT /\ ~(cl[w] = d /\ pc[w] \in PollPC)
      BY <1>a, <1>c, <1>e, <2>2, <2>3, <2>4 DEF Types, MaybeResetAbort,
         Unmarked, NO_ABORT, ABORT_ALL, ALMOST_NO_ABORT
    <3>q. QED
      BY <1>h, <2>2, <3>1, <3>2, <3>3
  <2>5. ASSUME pc' = [pc EXCEPT ![w] = "pop"]
        PROVE  AlmostInv'
    <3>1. \A u \in Worker \ {w} : pc'[u] = pc[u] /\ cl'[u] = cl[u]
      BY <1>a, <2>2, <2>3, <2>5 DEF Types
    <3>2. \A d \in Proc : status[d] \notin {"none", "RUNNING"} /\ clock[d] \in Worker \ {w}
                          => status'[d] # "RUNNING"
      BY <1>a, <1>b, <1>c, <2>2, <2>3, <2>5 DEF Types
    <3>3. \A d \in Proc : abort'[d] = ALMOST_NO_ABORT =>
             \/ /\ cl'[w] = d /\ pc'[w] \in PollPC
                /\ pc'[w] = "return" => status'[d] # "RUNNING"
             \/ abort[d] = ALMOST_NO_ABORT /\ ~(cl[w] = d /\ pc[w] \in PollPC)
      BY <1>a, <1>c, <1>e, <2>2, <2>3, <2>5 DEF Types, MaybeResetAbort,
         Unmarked, NO_ABORT, ABORT_ALL, ALMOST_NO_ABORT
    <3>q. QED
      BY <1>h, <2>2, <3>1, <3>2, <3>3
  <2>q. QED
    BY <2>1, <2>2, <2>4, <2>5 DEF HandlerStolenDoes
<1>37. ASSUME NEW w \in Worker, HandlerAbort(w) PROVE AlmostInv'
  <2>1. PICK c \in Proc, f \in Proc :
          HandlerAbortDoes(w, c, f)
    BY <1>37, HandlerAbortEffect
  <2>2. /\ pc[w] = "handlerAct" /\ c = cl[w] /\ status[c] = "RUNNING"
        /\ abort[c] # NO_ABORT /\ cl' = [cl EXCEPT ![w] = None]
    BY <2>1 DEF HandlerAbortDoes
  <2>3. /\ "handlerAct" \notin PollPC /\ "loop" \notin PollPC
        /\ "pop" \notin PollPC
    BY <2>2 DEF PollPC
  <2>4. ASSUME Unmarked(c), pc' = [pc EXCEPT ![w] = "loop"],
               status' = [status EXCEPT ![c] = "SUSPENDED"]
        PROVE  AlmostInv'
    <3>1. \A u \in Worker \ {w} : pc'[u] = pc[u] /\ cl'[u] = cl[u]
      BY <1>a, <2>2, <2>3, <2>4 DEF Types
    <3>2. \A d \in Proc : status[d] \notin {"none", "RUNNING"} /\ clock[d] \in Worker \ {w}
                          => status'[d] # "RUNNING"
      BY <1>a, <1>b, <1>c, <2>2, <2>3, <2>4 DEF Types
    <3>3. \A d \in Proc : abort'[d] = ALMOST_NO_ABORT =>
             \/ /\ cl'[w] = d /\ pc'[w] \in PollPC
                /\ pc'[w] = "return" => status'[d] # "RUNNING"
             \/ abort[d] = ALMOST_NO_ABORT /\ ~(cl[w] = d /\ pc[w] \in PollPC)
      BY <1>a, <1>c, <1>e, <2>2, <2>3, <2>4 DEF Types, MaybeResetAbort,
         Unmarked, NO_ABORT, ABORT_ALL, ALMOST_NO_ABORT
    <3>q. QED
      BY <1>h, <2>2, <3>1, <3>2, <3>3
  <2>5. ASSUME c # Root, pc' = [pc EXCEPT ![w] = "loop"],
               status' = [status EXCEPT ![c] = "RETURNING"],
               UNCHANGED <<abort>>
        PROVE  AlmostInv'
    <3>1. \A u \in Worker \ {w} : pc'[u] = pc[u] /\ cl'[u] = cl[u]
      BY <1>a, <2>2, <2>3, <2>5 DEF Types
    <3>2. \A d \in Proc : status[d] \notin {"none", "RUNNING"} /\ clock[d] \in Worker \ {w}
                          => status'[d] # "RUNNING"
      BY <1>a, <1>b, <1>c, <2>2, <2>3, <2>5 DEF Types
    <3>3. \A d \in Proc : abort'[d] = ALMOST_NO_ABORT =>
             \/ /\ cl'[w] = d /\ pc'[w] \in PollPC
                /\ pc'[w] = "return" => status'[d] # "RUNNING"
             \/ abort[d] = ALMOST_NO_ABORT /\ ~(cl[w] = d /\ pc[w] \in PollPC)
      BY <1>a, <1>c, <1>e, <2>2, <2>3, <2>5 DEF Types, MaybeResetAbort,
         Unmarked, NO_ABORT, ABORT_ALL, ALMOST_NO_ABORT
    <3>q. QED
      BY <1>h, <2>2, <3>1, <3>2, <3>3
  <2>6. ASSUME c # Root, pc' = [pc EXCEPT ![w] = "pop"],
               status' = [status EXCEPT ![c] = "RETURNING"],
               UNCHANGED <<abort>>
        PROVE  AlmostInv'
    <3>1. \A u \in Worker \ {w} : pc'[u] = pc[u] /\ cl'[u] = cl[u]
      BY <1>a, <2>2, <2>3, <2>6 DEF Types
    <3>2. \A d \in Proc : status[d] \notin {"none", "RUNNING"} /\ clock[d] \in Worker \ {w}
                          => status'[d] # "RUNNING"
      BY <1>a, <1>b, <1>c, <2>2, <2>3, <2>6 DEF Types
    <3>3. \A d \in Proc : abort'[d] = ALMOST_NO_ABORT =>
             \/ /\ cl'[w] = d /\ pc'[w] \in PollPC
                /\ pc'[w] = "return" => status'[d] # "RUNNING"
             \/ abort[d] = ALMOST_NO_ABORT /\ ~(cl[w] = d /\ pc[w] \in PollPC)
      BY <1>a, <1>c, <1>e, <2>2, <2>3, <2>6 DEF Types, MaybeResetAbort,
         Unmarked, NO_ABORT, ABORT_ALL, ALMOST_NO_ABORT
    <3>q. QED
      BY <1>h, <2>2, <3>1, <3>2, <3>3
  <2>7. ASSUME f # Root, status[f] = "none", pc' = [pc EXCEPT ![w] = "pop"],
               UNCHANGED <<abort, status>>
        PROVE  AlmostInv'
    <3>1. \A u \in Worker \ {w} : pc'[u] = pc[u] /\ cl'[u] = cl[u]
      BY <1>a, <2>2, <2>3, <2>7 DEF Types
    <3>2. \A d \in Proc : status[d] \notin {"none", "RUNNING"} /\ clock[d] \in Worker \ {w}
                          => status'[d] # "RUNNING"
      BY <1>a, <1>b, <1>c, <2>2, <2>3, <2>7 DEF Types
    <3>3. \A d \in Proc : abort'[d] = ALMOST_NO_ABORT =>
             \/ /\ cl'[w] = d /\ pc'[w] \in PollPC
                /\ pc'[w] = "return" => status'[d] # "RUNNING"
             \/ abort[d] = ALMOST_NO_ABORT /\ ~(cl[w] = d /\ pc[w] \in PollPC)
      BY <1>a, <1>c, <1>e, <2>2, <2>3, <2>7 DEF Types, MaybeResetAbort,
         Unmarked, NO_ABORT, ABORT_ALL, ALMOST_NO_ABORT
    <3>q. QED
      BY <1>h, <2>2, <3>1, <3>2, <3>3
  <2>q. QED
    BY <2>1, <2>2, <2>4, <2>5, <2>6, <2>7 DEF HandlerAbortDoes, AbortWaits,
       AbortReturns, AbortPops
<1>38. ASSUME NEW w \in Worker, HandlerResume(w) PROVE AlmostInv'
  <2>2. /\ pc[w] = "handlerAct" /\ MaybeResetAbort(cl[w])
        /\ cl' = [cl EXCEPT ![w] = None] /\ pc' = [pc EXCEPT ![w] = "run"]
        /\ UNCHANGED <<status>>
    BY <1>38 DEF HandlerResume, program, tree, Goto, UnlockBoth, Outcome,
       BeingAborted, Stolen, Hand, UnlockClosure, UnlockDeque
  <2>3. /\ "handlerAct" \notin PollPC /\ "run" \notin PollPC
    BY <2>2 DEF PollPC
  <2>4. \A u \in Worker \ {w} : pc'[u] = pc[u] /\ cl'[u] = cl[u]
    BY <1>a, <2>2, <2>3 DEF Types
  <2>5. \A d \in Proc : status[d] \notin {"none", "RUNNING"} /\ clock[d] \in Worker \ {w}
                        => status'[d] # "RUNNING"
    BY <1>a, <1>b, <1>c, <2>2, <2>3 DEF Types
  <2>6. \A d \in Proc : abort'[d] = ALMOST_NO_ABORT =>
           \/ /\ cl'[w] = d /\ pc'[w] \in PollPC
              /\ pc'[w] = "return" => status'[d] # "RUNNING"
           \/ abort[d] = ALMOST_NO_ABORT /\ ~(cl[w] = d /\ pc[w] \in PollPC)
    BY <1>a, <1>c, <1>e, <2>2, <2>3 DEF Types, MaybeResetAbort, Unmarked,
       NO_ABORT, ABORT_ALL, ALMOST_NO_ABORT
  <2>q. QED
    BY <1>h, <2>2, <2>4, <2>5, <2>6
<1>39. CASE UNCHANGED vars
  BY <1>f, <1>39 DEF vars
<1>q. QED
  BY <1>1, <1>2, <1>3, <1>4, <1>5, <1>6, <1>7, <1>8, <1>9, <1>10, <1>11, <1>12,
     <1>13, <1>14, <1>15, <1>16, <1>17, <1>18, <1>19, <1>20, <1>21, <1>22,
     <1>23, <1>24, <1>25, <1>26, <1>27, <1>28, <1>29, <1>30, <1>31, <1>32,
     <1>33, <1>34, <1>35, <1>36, <1>37, <1>38, <1>39 DEF Next, Step, Terminated

(* A spawn takes the next number and a parent with a smaller one. *)
LEMMA ParentInvStep ==
    ASSUME IInv, [Next]_vars
    PROVE  ParentInv'
<1>a. Types /\ ParentInv /\ created \in Nat \ {0}
  BY BoundAssumption DEF IInv, Types, Proc
<1>b. None \notin Proc /\ Proc = 1 .. MaxProc /\ MaxProc \in Nat \ {0} /\ Root = 1 /\ None = 0
  BY BoundAssumption DEF None, Proc, Root
<1>c. \A c \in Proc : status[c] # "none" \/ parent[c] # None => c \in 1 .. created
  BY <1>a, <1>b DEF ParentInv
<1>f. ASSUME UNCHANGED <<created, parent, status>>
      PROVE  ParentInv'
  BY <1>a, <1>b, <1>c, <1>f DEF ParentInv, Types
<1>1. ASSUME NEW w \in Worker, LeaveScheduler(w) PROVE ParentInv'
  BY <1>f, <1>1 DEF LeaveScheduler, program, results, state, tree, locks,
     caches, Goto
<1>2. ASSUME NEW w \in Worker, TakeOwn(w) PROVE ParentInv'
  <2>1. TakeOwnDoes(w)
    BY <1>2, TakeOwnEffect
  <2>q. QED
    BY <1>f, <2>1 DEF TakeOwnDoes
<1>3. ASSUME NEW w \in Worker, StealLockDeque(w) PROVE ParentInv'
  BY <1>f, <1>3 DEF StealLockDeque, program, results, state, tree, caches,
     Goto, LockDeque, Peek, Hand
<1>4. ASSUME NEW w \in Worker, StealLockClosure(w) PROVE ParentInv'
  BY <1>f, <1>4 DEF StealLockClosure, program, results, state, tree, caches,
     Goto, LockClosure
<1>5. ASSUME NEW w \in Worker, StealGiveUp(w) PROVE ParentInv'
  BY <1>f, <1>5 DEF StealGiveUp, program, results, state, tree, caches, Goto,
     Hand, UnlockClosure, BeingAborted
<1>6. ASSUME NEW w \in Worker, StealUnlockDeque(w) PROVE ParentInv'
  BY <1>f, <1>6 DEF StealUnlockDeque, program, results, state, tree, caches,
     Goto, UnlockDeque
<1>7. ASSUME NEW w \in Worker, StealReady(w) PROVE ParentInv'
  <2>1. PICK v \in Worker \ {w}, c \in Proc :
          StealReadyDoes(w, v, c)
    BY <1>7, StealReadyEffect
  <2>q. QED
    BY <1>f, <2>1 DEF StealReadyDoes
<1>8. ASSUME NEW w \in Worker, StealPromote(w) PROVE ParentInv'
  <2>1. PICK v \in Worker \ {w}, c \in Proc, k \in Proc :
          StealPromoteDoes(w, v, c, k)
    BY <1>8, StealPromoteEffect
  <2>2. /\ c = cl[w] /\ status[c] = "RUNNING" /\ k # c /\ k # Root
        /\ status[k] = "none" /\ parent[k] = c
        /\ status' = [status EXCEPT ![k] = "RUNNING"]
        /\ UNCHANGED <<created, parent>>
    BY <2>1 DEF StealPromoteDoes
  <2>q. QED
    BY <1>a, <1>b, <1>c, <2>2 DEF ParentInv, Types
<1>9. ASSUME NEW w \in Worker, StealFinish(w) PROVE ParentInv'
  <2>2. /\ status' = [status EXCEPT ![cl[w]] = "READY"]
        /\ UNCHANGED <<created, parent>>
    BY <1>9 DEF StealFinish, program, results, caches, Goto, UnlockClosure,
       SetStatus, AddChild
  <2>3. pc[w] = "stealFinish"
    BY <1>9 DEF StealFinish
  <2>4. status[cl[w]] = "RUNNING" /\ cl[w] \in Proc
    BY <2>3, LockFacts DEF IInv, InHandInv, LockPC
  <2>q. QED
    BY <1>a, <1>b, <1>c, <2>2, <2>4 DEF ParentInv, Types
<1>10. ASSUME NEW w \in Worker, InletKilled(w) PROVE ParentInv'
  BY <1>f, <1>10 DEF InletKilled, program, state, locks, caches, Outcome,
     BeingAborted, Polls
<1>11. ASSUME NEW w \in Worker, InletRuns(w) PROVE ParentInv'
  BY <1>f, <1>11 DEF InletRuns, program, state, locks, caches, Outcome,
     BeingAborted, Polls
<1>12. ASSUME NEW w \in Worker, InletAborts(w) PROVE ParentInv'
  <2>1. PICK c \in Proc, r \in SUBSET Proc :
          InletAbortsDoes(w, c, r)
    BY <1>12, InletAbortsEffect
  <2>2. /\ c = cl[w]
        /\ UNCHANGED <<created, parent>>
    BY <2>1 DEF InletAbortsDoes
  <2>4. ASSUME NEW k \in Proc, status[c] = "RUNNING", k # c, k # Root,
               status[k] = "none", parent[k] = c,
               status' = [status EXCEPT ![k] = "RUNNING", ![c] = "READY"]
        PROVE  ParentInv'
    BY <1>a, <1>b, <1>c, <2>2, <2>4 DEF ParentInv, Types
  <2>5. ASSUME UNCHANGED <<status>>
        PROVE  ParentInv'
    BY <1>a, <1>b, <1>c, <2>2, <2>5 DEF ParentInv, Types
  <2>q. QED
    BY <2>1, <2>2, <2>4, <2>5 DEF InletAbortsDoes, InletSplits
<1>13. ASSUME NEW w \in Worker, WalkDown(w) PROVE ParentInv'
  <2>1. PICK n \in Nat \ {0}, k \in Proc :
          WalkDownDoes(w, n, k)
    BY <1>13, WalkDownEffect
  <2>q. QED
    BY <1>f, <2>1 DEF WalkDownDoes
<1>14. ASSUME NEW w \in Worker, WalkUp(w) PROVE ParentInv'
  <2>1. PICK n \in Nat \ {0} :
          WalkUpDoes(w, n)
    BY <1>14, WalkUpEffect
  <2>q. QED
    BY <1>f, <2>1 DEF WalkUpDoes
<1>15. ASSUME NEW w \in Worker, AbortReadyClosure(w) PROVE ParentInv'
  <2>2. /\ cl[w] # None /\ status[cl[w]] = "READY"
        /\ UNCHANGED <<created, parent>>
    BY <1>15 DEF AbortReadyClosure, program, results, tree, locks, caches,
       Hand, SetStatus, Outcome, BeingAborted, HasChildren
  <2>4. ASSUME status' = [status EXCEPT ![cl[w]] = "SUSPENDED"]
        PROVE  ParentInv'
    BY <1>a, <1>b, <1>c, <2>2, <2>4 DEF ParentInv, Types
  <2>5. ASSUME status' = [status EXCEPT ![cl[w]] = "RETURNING"]
        PROVE  ParentInv'
    BY <1>a, <1>b, <1>c, <2>2, <2>5 DEF ParentInv, Types
  <2>q. QED
    BY <1>15, <2>2, <2>4, <2>5 DEF AbortReadyClosure, program, results, tree,
       locks, caches, Hand, SetStatus, Outcome, BeingAborted, HasChildren
<1>16. ASSUME NEW w \in Worker, Setup(w) PROVE ParentInv'
  <2>2. /\ cl[w] # None /\ status[cl[w]] = "READY"
        /\ status' = [status EXCEPT ![cl[w]] = "RUNNING"]
        /\ UNCHANGED <<created, parent>>
    BY <1>16 DEF Setup, program, results, tree, Goto, LockClosure, SetStatus,
       BeingAborted
  <2>q. QED
    BY <1>a, <1>b, <1>c, <2>2 DEF ParentInv, Types
<1>17. ASSUME NEW w \in Worker, SetupDone(w) PROVE ParentInv'
  BY <1>f, <1>17 DEF SetupDone, program, results, tree, caches, Goto,
     UnlockClosure, Polled, Polls
<1>18. ASSUME NEW w \in Worker, Execute(w) PROVE ParentInv'
  <2>1. PICK c \in Proc :
          ExecuteDoes(w, c)
    BY <1>18, ExecuteEffect
  <2>q. QED
    BY <1>f, <2>1 DEF ExecuteDoes
<1>19. ASSUME NEW w \in Worker, ReturnLockParent(w) PROVE ParentInv'
  <2>1. PICK k \in Proc, p \in Proc :
          ReturnLockParentDoes(w, k, p)
    BY <1>19, ReturnLockParentEffect
  <2>q. QED
    BY <1>f, <2>1 DEF ReturnLockParentDoes
<1>20. ASSUME NEW w \in Worker, ReturnEnqueue(w) PROVE ParentInv'
  <2>1. PICK k \in Proc, p \in Proc :
          ReturnEnqueueDoes(w, k, p)
    BY <1>20, ReturnEnqueueEffect
  <2>q. QED
    BY <1>f, <2>1 DEF ReturnEnqueueDoes
<1>21. ASSUME NEW w \in Worker, ReturnDone(w) PROVE ParentInv'
  <2>1. PICK k \in Proc, p \in Proc :
          ReturnDoneDoes(w, k, p)
    BY <1>21, ReturnDoneEffect
  <2>2. /\ p = cl[w] /\ p # k /\ p = parent[k] /\ k # Root
        /\ status[k] = "RETURNING" /\ status[p] # "none"
        /\ UNCHANGED <<created, parent>>
    BY <2>1 DEF ReturnDoneDoes
  <2>4. ASSUME status[p] = "SUSPENDED",
               status' = [status EXCEPT ![k] = "freed", ![p] = "READY"]
        PROVE  ParentInv'
    BY <1>a, <1>b, <1>c, <2>2, <2>4 DEF ParentInv, Types
  <2>5. ASSUME status' = [status EXCEPT ![k] = "freed"]
        PROVE  ParentInv'
    BY <1>a, <1>b, <1>c, <2>2, <2>5 DEF ParentInv, Types
  <2>q. QED
    BY <2>1, <2>2, <2>4, <2>5 DEF ReturnDoneDoes
<1>22. ASSUME NEW w \in Worker, Spawn(w) PROVE ParentInv'
  <2>1. PICK c \in Proc, f \in Proc :
          SpawnDoes(w, c, f)
    BY <1>22, SpawnEffect
  <2>2. /\ c = created + 1 /\ created \in Nat /\ f \in 1 .. created
        /\ status[c] = "none" /\ created' = c
        /\ parent' = [parent EXCEPT ![c] = f]
        /\ UNCHANGED <<status>>
    BY <2>1 DEF SpawnDoes
  <2>q. QED
    BY <1>a, <1>b, <1>c, <2>2 DEF ParentInv, Types
<1>23. ASSUME NEW w \in Worker, ReturnFast(w) PROVE ParentInv'
  <2>1. PICK f \in Proc :
          ReturnFastDoes(w, f)
    BY <1>23, ReturnFastEffect
  <2>q. QED
    BY <1>f, <2>1 DEF ReturnFastDoes
<1>24. ASSUME NEW w \in Worker, PopResult(w) PROVE ParentInv'
  BY <1>f, <1>24 DEF PopResult, program, state, tree, locks, caches, Goto,
     Outcome
<1>25. ASSUME NEW w \in Worker, LockOwnDeque(w) PROVE ParentInv'
  BY <1>f, <1>25 DEF LockOwnDeque, program, results, state, tree, caches, Goto,
     LockDeque, SlowAborts
<1>26. ASSUME NEW w \in Worker, LockBottom(w) PROVE ParentInv'
  <2>1. PICK c \in Proc :
          LockBottomDoes(w, c)
    BY <1>26, LockBottomEffect
  <2>q. QED
    BY <1>f, <2>1 DEF LockBottomDoes
<1>27. ASSUME NEW w \in Worker, Sync(w) PROVE ParentInv'
  <2>1. PICK c \in Proc :
          SyncDoes(w, c)
    BY <1>27, SyncEffect
  <2>2. /\ c = cl[w] /\ status[c] = "RUNNING"
        /\ UNCHANGED <<created, parent>>
    BY <2>1 DEF SyncDoes
  <2>4. ASSUME status' = [status EXCEPT ![c] = "SUSPENDED"]
        PROVE  ParentInv'
    BY <1>a, <1>b, <1>c, <2>2, <2>4 DEF ParentInv, Types
  <2>5. ASSUME UNCHANGED <<status>>
        PROVE  ParentInv'
    BY <1>a, <1>b, <1>c, <2>2, <2>5 DEF ParentInv, Types
  <2>q. QED
    BY <2>1, <2>2, <2>4, <2>5 DEF SyncDoes
<1>28. ASSUME NEW w \in Worker, AbortSlow(w) PROVE ParentInv'
  BY <1>f, <1>28 DEF AbortSlow, program, results, tree, caches, Goto,
     UnlockBoth, Polled, Hand, UnlockClosure, UnlockDeque, Polls
<1>29. ASSUME NEW w \in Worker, SetResult(w) PROVE ParentInv'
  <2>1. PICK c \in Proc :
          SetResultDoes(w, c)
    BY <1>29, SetResultEffect
  <2>2. /\ c = cl[w] /\ c # Root /\ status[c] = "RUNNING"
        /\ status' = [status EXCEPT ![c] = "RETURNING"]
        /\ UNCHANGED <<created, parent>>
    BY <2>1 DEF SetResultDoes
  <2>q. QED
    BY <1>a, <1>b, <1>c, <2>2 DEF ParentInv, Types
<1>30. ASSUME NEW w \in Worker, Done(w) PROVE ParentInv'
  BY <1>f, <1>30 DEF Done, results, state, tree, locks, caches, Goto, AfterSync
<1>31. ASSUME NEW w \in Worker, RemoveAndFree(w) PROVE ParentInv'
  <2>1. RemoveAndFreeDoes(w)
    BY <1>31, RemoveAndFreeEffect
  <2>2. /\ Root \in Proc /\ status[Root] = "RUNNING"
        /\ status' = [status EXCEPT ![Root] = "freed"]
        /\ UNCHANGED <<created, parent>>
    BY <2>1 DEF RemoveAndFreeDoes
  <2>q. QED
    BY <1>a, <1>b, <1>c, <2>2 DEF ParentInv, Types
<1>32. ASSUME NEW w \in Worker, CilkExit(w) PROVE ParentInv'
  <2>1. CilkExitDoes(w)
    BY <1>32, CilkExitEffect
  <2>q. QED
    BY <1>f, <2>1 DEF CilkExitDoes
<1>33. ASSUME NEW w \in Worker, CilkExitDone(w) PROVE ParentInv'
  BY <1>f, <1>33 DEF CilkExitDone, program, results, tree, caches, Goto, Hand,
     UnlockClosure, Polled, Polls
<1>34. ASSUME NEW w \in Worker, HandlerPolled(w) PROVE ParentInv'
  <2>1. PICK t \in Proc, t1 \in Proc :
          HandlerPolledDoes(w, t, t1)
    BY <1>34, HandlerPolledEffect
  <2>q. QED
    BY <1>f, <2>1 DEF HandlerPolledDoes
<1>35. ASSUME NEW w \in Worker, HandlerSwap(w) PROVE ParentInv'
  BY <1>f, <1>35 DEF HandlerSwap, program, results, state, tree, caches, Goto,
     LockClosure
<1>36. ASSUME NEW w \in Worker, HandlerStolen(w) PROVE ParentInv'
  <2>1. PICK c \in Proc :
          HandlerStolenDoes(w, c)
    BY <1>36, HandlerStolenEffect
  <2>2. /\ c = cl[w] /\ c # Root /\ status[c] \in {"RUNNING", "RETURNING"}
        /\ status' = [status EXCEPT ![c] = "RETURNING"]
        /\ UNCHANGED <<created, parent>>
    BY <2>1 DEF HandlerStolenDoes
  <2>q. QED
    BY <1>a, <1>b, <1>c, <2>2 DEF ParentInv, Types
<1>37. ASSUME NEW w \in Worker, HandlerAbort(w) PROVE ParentInv'
  <2>1. PICK c \in Proc, f \in Proc :
          HandlerAbortDoes(w, c, f)
    BY <1>37, HandlerAbortEffect
  <2>2. /\ c = cl[w] /\ status[c] = "RUNNING"
        /\ UNCHANGED <<created, parent>>
    BY <2>1 DEF HandlerAbortDoes
  <2>4. ASSUME status' = [status EXCEPT ![c] = "SUSPENDED"]
        PROVE  ParentInv'
    BY <1>a, <1>b, <1>c, <2>2, <2>4 DEF ParentInv, Types
  <2>5. ASSUME c # Root, status' = [status EXCEPT ![c] = "RETURNING"]
        PROVE  ParentInv'
    BY <1>a, <1>b, <1>c, <2>2, <2>5 DEF ParentInv, Types
  <2>6. ASSUME c # Root, status' = [status EXCEPT ![c] = "RETURNING"]
        PROVE  ParentInv'
    BY <1>a, <1>b, <1>c, <2>2, <2>6 DEF ParentInv, Types
  <2>7. ASSUME f # Root, status[f] = "none",
               UNCHANGED <<status>>
        PROVE  ParentInv'
    BY <1>a, <1>b, <1>c, <2>2, <2>7 DEF ParentInv, Types
  <2>q. QED
    BY <2>1, <2>2, <2>4, <2>5, <2>6, <2>7 DEF HandlerAbortDoes, AbortWaits,
       AbortReturns, AbortPops
<1>38. ASSUME NEW w \in Worker, HandlerResume(w) PROVE ParentInv'
  BY <1>f, <1>38 DEF HandlerResume, program, tree, Goto, UnlockBoth, Outcome,
     BeingAborted, Stolen, Hand, UnlockClosure, UnlockDeque
<1>39. CASE UNCHANGED vars
  BY <1>f, <1>39 DEF vars
<1>q. QED
  BY <1>1, <1>2, <1>3, <1>4, <1>5, <1>6, <1>7, <1>8, <1>9, <1>10, <1>11, <1>12,
     <1>13, <1>14, <1>15, <1>16, <1>17, <1>18, <1>19, <1>20, <1>21, <1>22,
     <1>23, <1>24, <1>25, <1>26, <1>27, <1>28, <1>29, <1>30, <1>31, <1>32,
     <1>33, <1>34, <1>35, <1>36, <1>37, <1>38, <1>39 DEF Next, Step, Terminated

(* A promoted child joins the closure at the bottom, which is its worker's *)
(* slow frame when H = 0; the new bottom is a frame that has no closure    *)
(* yet.                                                                    *)
LEMMA FreshInvStep ==
    ASSUME IInv, [Next]_vars
    PROVE  FreshInv'
<1>a. Types /\ FreshInv
  BY DEF IInv
<1>b. Root \in Proc /\ None \notin Proc
  BY BoundAssumption DEF Root, Proc, None
<1>c. \A u \in Worker : /\ Bottom(u) = deque[u][Size(deque[u])]
                        /\ Bottom(u)' = deque'[u][Size(deque'[u])]
  BY DEF Bottom, Size
<1>d. \A u \in Worker : pc[u] \in WorkPC => /\ deque[u] # <<>> /\ Bottom(u) \in Proc
                                            /\ Size(deque[u]) \in 1 .. Size(deque[u])
  <2> SUFFICES ASSUME NEW u \in Worker, pc[u] \in WorkPC
               PROVE  /\ deque[u] # <<>> /\ Bottom(u) \in Proc
                      /\ Size(deque[u]) \in 1 .. Size(deque[u])
    OBVIOUS
  <2>1. deque[u] # <<>>
    BY DEF IInv, CurrentInv
  <2>q. QED
    BY <1>a, <2>1, DequeFacts
<1>h. ASSUME \A d \in Proc : Fresh(d) => Fresh(d)',
             \A d \in Proc : status'[d] = "none" => status[d] = "none",
             \A u \in Worker : pc'[u] \in WorkPC /\ H'[u] >= 1
               => pc[u] \in WorkPC /\ H[u] >= 1 /\ Bottom(u)' = Bottom(u)
      PROVE  FreshInv'
  BY <1>a, <1>d, <1>h DEF FreshInv
<1>k. ASSUME NEW w \in Worker,
             \A u \in Worker \ {w} : deque'[u] = deque[u] /\ pc'[u] = pc[u] /\ H'[u] = H[u],
             pc'[w] \notin WorkPC \/ H'[w] = 0
      PROVE  \A u \in Worker : pc'[u] \in WorkPC /\ H'[u] >= 1
               => pc[u] \in WorkPC /\ H[u] >= 1 /\ Bottom(u)' = Bottom(u)
  BY <1>c, <1>k
<1>s. ASSUME UNCHANGED <<join, complete, parent>>,
             \A k \in Proc : status'[k] = "none" <=> status[k] = "none"
      PROVE  /\ \A d \in Proc : Fresh(d) => Fresh(d)'
             /\ \A d \in Proc : status'[d] = "none" => status[d] = "none"
  BY <1>s DEF Fresh
<1>f. ASSUME UNCHANGED <<status, join, complete, parent, pc, H, deque>>
      PROVE  FreshInv'
BY <1>a, <1>f DEF FreshInv, Fresh, Bottom
<1>g. ASSUME NEW w \in Worker, NEW l, pc' = [pc EXCEPT ![w] = l],
             l \in WorkPC <=> pc[w] \in WorkPC,
             UNCHANGED <<status, join, complete, parent, H, deque>>
      PROVE  FreshInv'
<2>1. \A u \in Worker : pc'[u] \in WorkPC /\ H'[u] >= 1
          => pc[u] \in WorkPC /\ H[u] >= 1 /\ Bottom(u)' = Bottom(u)
    BY <1>a, <1>c, <1>g DEF Types
  <2>q. QED
    BY <1>g, <1>h, <1>s, <2>1
<1>1. ASSUME NEW w \in Worker, LeaveScheduler(w) PROVE FreshInv'
  BY <1>g, <1>1 DEF LeaveScheduler, program, results, state, tree, locks,
     caches, Goto, WorkPC, PopPC, SlowPC
<1>2. ASSUME NEW w \in Worker, TakeOwn(w) PROVE FreshInv'
  <2>1. TakeOwnDoes(w)
    BY <1>2, TakeOwnEffect
  <2>2. /\ pc[w] = "loop" /\ cl[w] = None
        /\ UNCHANGED <<status, join, complete, parent, H>>
    BY <2>1 DEF TakeOwnDoes
  <2>3. /\ "loop" \notin WorkPC /\ "steal" \notin WorkPC
    BY <2>2 DEF WorkPC, PopPC, SlowPC
  <2>4. ASSUME deque[w] = <<>>, pc' = [pc EXCEPT ![w] = "steal"],
               UNCHANGED <<deque>>
        PROVE  FreshInv'
    <3>1. \A d \in Proc : Fresh(d) => Fresh(d)'
      BY <1>a, <1>b, <2>2, <2>3, <2>4 DEF Types, Fresh
    <3>2. \A d \in Proc : status'[d] = "none" => status[d] = "none"
      BY <1>a, <1>b, <2>2, <2>3, <2>4 DEF Types
    <3>3. \A u \in Worker : pc'[u] \in WorkPC /\ H'[u] >= 1
            => pc[u] \in WorkPC /\ H[u] >= 1 /\ Bottom(u)' = Bottom(u)
      BY <1>a, <1>c, <2>2, <2>3, <2>4 DEF Types, Shortened, Extended
    <3>q. QED
      BY <1>h, <2>2, <3>1, <3>2, <3>3
  <2>5. ASSUME NEW c \in Proc, deque[w] # <<>>, c = Bottom(w),
               c = deque[w][Size(deque[w])], Shortened(deque, deque', w),
               UNCHANGED <<pc>>
        PROVE  FreshInv'
    <3>1. \A k \in Proc : status'[k] = "none" <=> status[k] = "none"
      BY <1>a, <2>2, <2>5 DEF Types
    <3>2. \A u \in Worker \ {w} : deque'[u] = deque[u]
      BY <2>5 DEF Shortened
    <3>3. /\ \A u \in Worker \ {w} : pc'[u] = pc[u] /\ H'[u] = H[u]
          /\ pc'[w] \notin WorkPC \/ H'[w] = 0
      BY <1>a, <2>2, <2>3, <2>5 DEF Types
    <3>4. \A u \in Worker : pc'[u] \in WorkPC /\ H'[u] >= 1
            => pc[u] \in WorkPC /\ H[u] >= 1 /\ Bottom(u)' = Bottom(u)
      BY <1>k, <3>2, <3>3
    <3>q. QED
      BY <1>h, <1>s, <2>2, <3>1, <3>4
  <2>q. QED
    BY <2>1, <2>2, <2>4, <2>5 DEF TakeOwnDoes
<1>3. ASSUME NEW w \in Worker, StealLockDeque(w) PROVE FreshInv'
  BY <1>g, <1>3 DEF StealLockDeque, program, results, state, tree, caches,
     Goto, LockDeque, Peek, Hand, WorkPC, PopPC, SlowPC
<1>4. ASSUME NEW w \in Worker, StealLockClosure(w) PROVE FreshInv'
  BY <1>g, <1>4 DEF StealLockClosure, program, results, state, tree, caches,
     Goto, LockClosure, WorkPC, PopPC, SlowPC
<1>5. ASSUME NEW w \in Worker, StealGiveUp(w) PROVE FreshInv'
  BY <1>g, <1>5 DEF StealGiveUp, program, results, state, tree, caches, Goto,
     Hand, UnlockClosure, BeingAborted, WorkPC, PopPC, SlowPC
<1>6. ASSUME NEW w \in Worker, StealUnlockDeque(w) PROVE FreshInv'
  BY <1>g, <1>6 DEF StealUnlockDeque, program, results, state, tree, caches,
     Goto, UnlockDeque, WorkPC, PopPC, SlowPC
<1>7. ASSUME NEW w \in Worker, StealReady(w) PROVE FreshInv'
  <2>1. PICK v \in Worker \ {w}, c \in Proc :
          StealReadyDoes(w, v, c)
    BY <1>7, StealReadyEffect
  <2>2. /\ pc[w] = "stealClosure" /\ c = cl[w] /\ c = deque[v][1]
        /\ pc[v] \notin OwnDequePC /\ status[c] = "READY"
        /\ pc' = [pc EXCEPT ![w] = "loop"] /\ Topped(deque, deque', v)
        /\ UNCHANGED <<status, join, complete, parent, H>>
    BY <2>1 DEF StealReadyDoes
  <2>3. /\ "stealClosure" \notin WorkPC /\ "loop" \notin WorkPC
    BY <2>2 DEF WorkPC, PopPC, SlowPC
  <2>4. pc[v] \in WorkPC => Bottom(v)' = Bottom(v)
    BY <2>1, StealReadyBottom
  <2>5. \A u \in Worker \ {v} : Bottom(u)' = Bottom(u)
    BY <1>c, <2>2 DEF Topped
  <2>6. \A u \in Worker : (pc'[u] \in WorkPC => pc[u] \in WorkPC) /\ H'[u] = H[u]
    BY <1>a, <2>2, <2>3 DEF Types
  <2>7. \A u \in Worker : pc'[u] \in WorkPC /\ H'[u] >= 1
          => pc[u] \in WorkPC /\ H[u] >= 1 /\ Bottom(u)' = Bottom(u)
    BY <2>4, <2>5, <2>6
  <2>q. QED
    BY <1>h, <1>s, <2>2, <2>7
<1>8. ASSUME NEW w \in Worker, StealPromote(w) PROVE FreshInv'
  <2>1. PICK v \in Worker \ {w}, c \in Proc, k \in Proc :
          StealPromoteDoes(w, v, c, k)
    BY <1>8, StealPromoteEffect
  <2>2. /\ pc[w] = "stealClosure" /\ c = cl[w] /\ deque[v] = <<c>>
        /\ pc[v] \in WorkPC \ OwnDequePC /\ status[c] = "RUNNING" /\ k # c
        /\ k # Root /\ status[k] = "none" /\ parent[k] = c /\ Fresh(k)
        /\ status' = [status EXCEPT ![k] = "RUNNING"]
        /\ pc' = [pc EXCEPT ![w] = "stealFinish"]
        /\ H' = [H EXCEPT ![v] = @ + 1] /\ deque' = [deque EXCEPT ![v] = <<k>>]
        /\ UNCHANGED <<join, complete, parent>>
    BY <2>1 DEF StealPromoteDoes
  <2>3. /\ "stealClosure" \notin WorkPC /\ "stealFinish" \notin WorkPC
    BY <2>2 DEF WorkPC, PopPC, SlowPC
  <2>4. \A u \in Worker \ {v} : pc[u] \in WorkPC => Bottom(u) # c
    <3>1. 1 \in 1 .. Size(deque[v]) /\ deque[v][1] = c
      <4>1. deque[v] = <<c>>
        BY <2>2
      <4>q. QED
        BY <4>1, SingleFacts
    <3>q. QED
      BY <1>c, <1>d, <3>1 DEF IInv, PlacesApart
  <2>5. Bottom(v)' = k /\ \A u \in Worker \ {v} : Bottom(u)' = Bottom(u)
    <3>1. deque'[v] = <<k>> /\ \A u \in Worker \ {v} : deque'[u] = deque[u]
      BY <1>a, <2>2 DEF Types
    <3>2. Size(<<k>>) = 1 /\ <<k>>[1] = k
      BY SingleFacts
    <3>q. QED
      BY <1>c, <3>1, <3>2
  <2>6. Fresh(k)'
    <3>1. \A d \in Proc : parent[d] = k => d # k
      BY <2>2
    <3>q. QED
      BY <1>a, <2>2, <3>1 DEF Fresh, Types
  <2>7. \A d \in Proc \ {c} : Fresh(d) => Fresh(d)'
    BY <1>a, <2>2 DEF Fresh, Types
  <2>8. \A d \in Proc : status'[d] = "none" => status[d] = "none" /\ d # c
    BY <1>a, <2>2 DEF Types
  <2>9. \A u \in Worker \ {v} : pc'[u] \in WorkPC /\ H'[u] >= 1
           => pc[u] \in WorkPC /\ H[u] >= 1
    BY <1>a, <2>2, <2>3 DEF Types
  <2>10. ASSUME NEW u \in Worker, pc'[u] \in WorkPC, H'[u] >= 1
         PROVE  Fresh(Bottom(u))'
    <3>1. CASE u = v
      BY <2>5, <2>6, <3>1
    <3>2. CASE u # v
      BY <1>a, <1>d, <2>4, <2>5, <2>7, <2>9, <2>10, <3>2 DEF FreshInv
    <3>q. QED
      BY <3>1, <3>2
  <2>q. QED
    BY <1>a, <2>7, <2>8, <2>10 DEF FreshInv
<1>9. ASSUME NEW w \in Worker, StealFinish(w) PROVE FreshInv'
  <2>2. /\ pc[w] = "stealFinish"
        /\ status' = [status EXCEPT ![cl[w]] = "READY"]
        /\ join' = [join EXCEPT ![cl[w]] = @ + 1]
        /\ pc' = [pc EXCEPT ![w] = "loop"]
        /\ UNCHANGED <<complete, parent, H, deque>>
    BY <1>9 DEF StealFinish, program, results, caches, Goto, UnlockClosure,
       SetStatus, AddChild
  <2>3. /\ "stealFinish" \notin WorkPC /\ "loop" \notin WorkPC
    BY <2>2 DEF WorkPC, PopPC, SlowPC
  <2>4. cl[w] \in Proc /\ status[cl[w]] = "RUNNING" /\ pc[w] \in HandPC
    BY <2>2, LockFacts DEF IInv, InHandInv, LockPC, HandPC
  <2>5. \A u \in Worker : pc[u] \in WorkPC => Bottom(u) # cl[w]
    BY <1>c, <1>d, <2>4 DEF IInv, PlacesApart
  <2>6. \A d \in Proc \ {cl[w]} : Fresh(d) => Fresh(d)'
    BY <1>a, <2>2, <2>4 DEF Fresh, Types
  <2>7. \A d \in Proc : status'[d] = "none" => status[d] = "none" /\ d # cl[w]
    BY <1>a, <2>2, <2>4 DEF Types
  <2>8. \A u \in Worker : Bottom(u)' = Bottom(u)
           /\ (pc'[u] \in WorkPC /\ H'[u] >= 1 => pc[u] \in WorkPC /\ H[u] >= 1)
    BY <1>a, <1>c, <2>2, <2>3 DEF Types
  <2>9. ASSUME NEW u \in Worker, pc'[u] \in WorkPC, H'[u] >= 1
        PROVE  Fresh(Bottom(u))'
    BY <1>a, <1>d, <2>5, <2>6, <2>8, <2>9 DEF FreshInv
  <2>q. QED
    BY <1>a, <2>6, <2>7, <2>9 DEF FreshInv
<1>10. ASSUME NEW w \in Worker, InletKilled(w) PROVE FreshInv'
  <2>2. /\ complete[cl[w]] # <<>>
        /\ complete' = [complete EXCEPT ![cl[w]] = Tail(@)]
        /\ UNCHANGED <<status, join, parent, pc, H, deque>>
    BY <1>10 DEF InletKilled, program, state, locks, caches, Outcome,
       BeingAborted, Polls
  <2>4. \A d \in Proc : Fresh(d) => Fresh(d)'
    BY <1>a, <1>b, <2>2 DEF Types, Fresh
  <2>5. \A d \in Proc : status'[d] = "none" => status[d] = "none"
    BY <1>a, <1>b, <2>2 DEF Types
  <2>6. \A u \in Worker : pc'[u] \in WorkPC /\ H'[u] >= 1
          => pc[u] \in WorkPC /\ H[u] >= 1 /\ Bottom(u)' = Bottom(u)
    BY <1>a, <1>c, <2>2 DEF Types, Shortened, Extended
  <2>q. QED
    BY <1>h, <2>2, <2>4, <2>5, <2>6
<1>11. ASSUME NEW w \in Worker, InletRuns(w) PROVE FreshInv'
  <2>2. /\ complete[cl[w]] # <<>>
        /\ complete' = [complete EXCEPT ![cl[w]] = Tail(@)]
        /\ UNCHANGED <<status, join, parent, pc, H, deque>>
    BY <1>11 DEF InletRuns, program, state, locks, caches, Outcome,
       BeingAborted, Polls
  <2>4. \A d \in Proc : Fresh(d) => Fresh(d)'
    BY <1>a, <1>b, <2>2 DEF Types, Fresh
  <2>5. \A d \in Proc : status'[d] = "none" => status[d] = "none"
    BY <1>a, <1>b, <2>2 DEF Types
  <2>6. \A u \in Worker : pc'[u] \in WorkPC /\ H'[u] >= 1
          => pc[u] \in WorkPC /\ H[u] >= 1 /\ Bottom(u)' = Bottom(u)
    BY <1>a, <1>c, <2>2 DEF Types, Shortened, Extended
  <2>q. QED
    BY <1>h, <2>2, <2>4, <2>5, <2>6
<1>12. ASSUME NEW w \in Worker, InletAborts(w) PROVE FreshInv'
  <2>1. PICK c \in Proc, r \in SUBSET Proc :
          InletAbortsDoes(w, c, r)
    BY <1>12, InletAbortsEffect
  <2>2. /\ c = cl[w] /\ pc[w] \in PollPC
        /\ pc[w] = "return" => status[c] # "RUNNING"
        /\ complete[c] # <<>> /\ complete' = [complete EXCEPT ![c] = Tail(@)]
        /\ UNCHANGED <<parent, pc>>
    BY <2>1 DEF InletAbortsDoes
  <2>a. ~Fresh(c) /\ status[c] # "none"
    BY <1>a, <2>2 DEF Fresh, FreshInv
  <2>4. ASSUME NEW k \in Proc, pc[w] = "handlerPoll", c = Bottom(w),
               deque[w] # <<>>, status[c] = "RUNNING", H[w] = 0, k # c,
               k # Root, status[k] = "none", parent[k] = c, Fresh(k),
               status' = [status EXCEPT ![k] = "RUNNING", ![c] = "READY"],
               join' = [join EXCEPT ![c] = @ + 1], H' = [H EXCEPT ![w] = 1],
               deque' = [deque EXCEPT ![w] = Append(@, k)]
        PROVE  FreshInv'
    <3>1. \A d \in Proc \ {c} : Fresh(d) => Fresh(d)'
      BY <1>a, <2>2, <2>4 DEF Fresh, Types
    <3>2. Fresh(k)'
      <4>1. \A d \in Proc : parent[d] = k => d # k
        BY <2>4
      <4>q. QED
        BY <1>a, <2>2, <2>4, <4>1 DEF Fresh, Types
    <3>3. Bottom(w)' = k /\ \A u \in Worker \ {w} : Bottom(u)' = Bottom(u)
      <4>1. Extended(deque, deque', w, k)
        BY <1>a, <2>4, ExtendedFacts DEF Types
      <4>q. QED
        BY <1>c, <4>1 DEF Extended
    <3>4. \A d \in Proc : status'[d] = "none" => status[d] = "none" /\ d # c
      BY <1>a, <2>4 DEF Types
    <3>5. \A u \in Worker \ {w} : H'[u] = H[u] /\ pc'[u] = pc[u]
      BY <1>a, <2>2, <2>4 DEF Types
    <3>6. ASSUME NEW u \in Worker, pc'[u] \in WorkPC, H'[u] >= 1
          PROVE  Fresh(Bottom(u))'
      <4>1. CASE u = w
        BY <3>2, <3>3, <4>1
      <4>2. CASE u # w
        BY <1>a, <1>d, <2>a, <3>1, <3>3, <3>5, <3>6, <4>2 DEF FreshInv
      <4>q. QED
        BY <4>1, <4>2
    <3>q. QED
      BY <1>a, <2>a, <3>1, <3>4, <3>6 DEF FreshInv
  <2>5. ASSUME UNCHANGED <<status, join, H, deque>>
        PROVE  FreshInv'
    <3>1. \A d \in Proc : Fresh(d) => Fresh(d)'
      BY <1>a, <1>b, <2>2, <2>5 DEF Types, Fresh
    <3>2. \A d \in Proc : status'[d] = "none" => status[d] = "none"
      BY <1>a, <1>b, <2>2, <2>5 DEF Types
    <3>3. \A u \in Worker : pc'[u] \in WorkPC /\ H'[u] >= 1
            => pc[u] \in WorkPC /\ H[u] >= 1 /\ Bottom(u)' = Bottom(u)
      BY <1>a, <1>c, <2>2, <2>5 DEF Types, Shortened, Extended
    <3>q. QED
      BY <1>h, <2>2, <3>1, <3>2, <3>3
  <2>q. QED
    BY <2>1, <2>2, <2>4, <2>5 DEF InletAbortsDoes, InletSplits
<1>13. ASSUME NEW w \in Worker, WalkDown(w) PROVE FreshInv'
  <2>1. PICK n \in Nat \ {0}, k \in Proc :
          WalkDownDoes(w, n, k)
    BY <1>13, WalkDownEffect
  <2>q. QED
    BY <1>f, <2>1 DEF WalkDownDoes
<1>14. ASSUME NEW w \in Worker, WalkUp(w) PROVE FreshInv'
  <2>1. PICK n \in Nat \ {0} :
          WalkUpDoes(w, n)
    BY <1>14, WalkUpEffect
  <2>q. QED
    BY <1>f, <2>1 DEF WalkUpDoes
<1>15. ASSUME NEW w \in Worker, AbortReadyClosure(w) PROVE FreshInv'
  <2>2. /\ pc[w] = "loop" /\ cl[w] # None /\ status[cl[w]] = "READY"
        /\ UNCHANGED <<join, complete, parent, pc, H, deque>>
    BY <1>15 DEF AbortReadyClosure, program, results, tree, locks, caches,
       Hand, SetStatus, Outcome, BeingAborted, HasChildren
  <2>3. /\ "loop" \notin WorkPC
    BY <2>2 DEF WorkPC, PopPC, SlowPC
  <2>4. ASSUME join[cl[w]] # 0,
               status' = [status EXCEPT ![cl[w]] = "SUSPENDED"]
        PROVE  FreshInv'
    <3>1. \A d \in Proc : Fresh(d) => Fresh(d)'
      BY <1>a, <1>b, <2>2, <2>3, <2>4 DEF Types, Fresh
    <3>2. \A d \in Proc : status'[d] = "none" => status[d] = "none"
      BY <1>a, <1>b, <2>2, <2>3, <2>4 DEF Types
    <3>3. \A u \in Worker : pc'[u] \in WorkPC /\ H'[u] >= 1
            => pc[u] \in WorkPC /\ H[u] >= 1 /\ Bottom(u)' = Bottom(u)
      BY <1>a, <1>c, <2>2, <2>3, <2>4 DEF Types, Shortened, Extended
    <3>q. QED
      BY <1>h, <2>2, <3>1, <3>2, <3>3
  <2>5. ASSUME join[cl[w]] = 0,
               status' = [status EXCEPT ![cl[w]] = "RETURNING"]
        PROVE  FreshInv'
    <3>1. \A d \in Proc : Fresh(d) => Fresh(d)'
      BY <1>a, <1>b, <2>2, <2>3, <2>5 DEF Types, Fresh
    <3>2. \A d \in Proc : status'[d] = "none" => status[d] = "none"
      BY <1>a, <1>b, <2>2, <2>3, <2>5 DEF Types
    <3>3. \A u \in Worker : pc'[u] \in WorkPC /\ H'[u] >= 1
            => pc[u] \in WorkPC /\ H[u] >= 1 /\ Bottom(u)' = Bottom(u)
      BY <1>a, <1>c, <2>2, <2>3, <2>5 DEF Types, Shortened, Extended
    <3>q. QED
      BY <1>h, <2>2, <3>1, <3>2, <3>3
  <2>q. QED
    BY <1>15, <2>2, <2>4, <2>5 DEF AbortReadyClosure, program, results, tree,
       locks, caches, Hand, SetStatus, Outcome, BeingAborted, HasChildren
<1>16. ASSUME NEW w \in Worker, Setup(w) PROVE FreshInv'
  <2>2. /\ pc[w] = "loop" /\ cl[w] # None /\ status[cl[w]] = "READY"
        /\ status' = [status EXCEPT ![cl[w]] = "RUNNING"]
        /\ pc' = [pc EXCEPT ![w] = "setup"] /\ H' = [H EXCEPT ![w] = 0]
        /\ UNCHANGED <<join, complete, parent, deque>>
    BY <1>16 DEF Setup, program, results, tree, Goto, LockClosure, SetStatus,
       BeingAborted
  <2>3. /\ "loop" \notin WorkPC /\ "setup" \notin WorkPC
    BY <2>2 DEF WorkPC, PopPC, SlowPC
  <2>4. \A d \in Proc : Fresh(d) => Fresh(d)'
    BY <1>a, <1>b, <2>2, <2>3 DEF Types, Fresh
  <2>5. \A d \in Proc : status'[d] = "none" => status[d] = "none"
    BY <1>a, <1>b, <2>2, <2>3 DEF Types
  <2>6. \A u \in Worker : pc'[u] \in WorkPC /\ H'[u] >= 1
          => pc[u] \in WorkPC /\ H[u] >= 1 /\ Bottom(u)' = Bottom(u)
    BY <1>a, <1>c, <2>2, <2>3 DEF Types, Shortened, Extended
  <2>q. QED
    BY <1>h, <2>2, <2>4, <2>5, <2>6
<1>17. ASSUME NEW w \in Worker, SetupDone(w) PROVE FreshInv'
  BY <1>g, <1>17 DEF SetupDone, program, results, tree, caches, Goto,
     UnlockClosure, Polled, Polls, WorkPC, PopPC, SlowPC
<1>18. ASSUME NEW w \in Worker, Execute(w) PROVE FreshInv'
  <2>1. PICK c \in Proc :
          ExecuteDoes(w, c)
    BY <1>18, ExecuteEffect
  <2>2. /\ pc[w] = "add" /\ c = cl[w] /\ status[c] = "RUNNING" /\ H[w] = 0
        /\ pc' = [pc EXCEPT ![w] = "run"] /\ Extended(deque, deque', w, c)
        /\ UNCHANGED <<status, join, complete, parent, H>>
    BY <2>1 DEF ExecuteDoes
  <2>3. /\ "add" \notin WorkPC /\ "run" \in WorkPC
    BY <2>2 DEF WorkPC, PopPC, SlowPC
  <2>4. \A k \in Proc : status'[k] = "none" <=> status[k] = "none"
    BY <1>a, <2>2 DEF Types
  <2>5. \A u \in Worker \ {w} : deque'[u] = deque[u]
    BY <2>2 DEF Shortened, Extended
  <2>6. /\ \A u \in Worker \ {w} : pc'[u] = pc[u] /\ H'[u] = H[u]
        /\ pc'[w] \notin WorkPC \/ H'[w] = 0
    BY <1>a, <2>2, <2>3 DEF Types
  <2>7. \A u \in Worker : pc'[u] \in WorkPC /\ H'[u] >= 1
          => pc[u] \in WorkPC /\ H[u] >= 1 /\ Bottom(u)' = Bottom(u)
    BY <1>k, <2>5, <2>6
  <2>q. QED
    BY <1>h, <1>s, <2>2, <2>4, <2>7
<1>19. ASSUME NEW w \in Worker, ReturnLockParent(w) PROVE FreshInv'
  <2>1. PICK k \in Proc, p \in Proc :
          ReturnLockParentDoes(w, k, p)
    BY <1>19, ReturnLockParentEffect
  <2>q. QED
    BY <1>g, <2>1 DEF ReturnLockParentDoes, WorkPC, PopPC, SlowPC
<1>20. ASSUME NEW w \in Worker, ReturnEnqueue(w) PROVE FreshInv'
  <2>1. PICK k \in Proc, p \in Proc :
          ReturnEnqueueDoes(w, k, p)
    BY <1>20, ReturnEnqueueEffect
  <2>2. /\ pc[w] = "returnChild" /\ p = cl[w] /\ p # k /\ p = parent[k]
        /\ status[k] = "RETURNING" /\ status[p] # "none"
        /\ pc' = [pc EXCEPT ![w] = "return"]
        /\ UNCHANGED <<status, join, parent, H, deque>>
    BY <2>1 DEF ReturnEnqueueDoes
  <2>3. /\ "returnChild" \notin WorkPC /\ "return" \notin WorkPC
    BY <2>2 DEF WorkPC, PopPC, SlowPC
  <2>4. ASSUME UNCHANGED <<complete>>
        PROVE  FreshInv'
    <3>1. \A d \in Proc : Fresh(d) => Fresh(d)'
      BY <1>a, <1>b, <2>2, <2>3, <2>4 DEF Types, Fresh
    <3>2. \A d \in Proc : status'[d] = "none" => status[d] = "none"
      BY <1>a, <1>b, <2>2, <2>3, <2>4 DEF Types
    <3>3. \A u \in Worker : pc'[u] \in WorkPC /\ H'[u] >= 1
            => pc[u] \in WorkPC /\ H[u] >= 1 /\ Bottom(u)' = Bottom(u)
      BY <1>a, <1>c, <2>2, <2>3, <2>4 DEF Types, Shortened, Extended
    <3>q. QED
      BY <1>h, <2>2, <3>1, <3>2, <3>3
  <2>5. ASSUME complete' = [complete EXCEPT ![p] = <<k>> \o @]
        PROVE  FreshInv'
    <3>1. \A d \in Proc : Fresh(d) => Fresh(d)'
      BY <1>a, <1>b, <2>2, <2>3, <2>5 DEF Types, Fresh
    <3>2. \A d \in Proc : status'[d] = "none" => status[d] = "none"
      BY <1>a, <1>b, <2>2, <2>3, <2>5 DEF Types
    <3>3. \A u \in Worker : pc'[u] \in WorkPC /\ H'[u] >= 1
            => pc[u] \in WorkPC /\ H[u] >= 1 /\ Bottom(u)' = Bottom(u)
      BY <1>a, <1>c, <2>2, <2>3, <2>5 DEF Types, Shortened, Extended
    <3>q. QED
      BY <1>h, <2>2, <3>1, <3>2, <3>3
  <2>q. QED
    BY <2>1, <2>2, <2>4, <2>5 DEF ReturnEnqueueDoes
<1>21. ASSUME NEW w \in Worker, ReturnDone(w) PROVE FreshInv'
  <2>1. PICK k \in Proc, p \in Proc :
          ReturnDoneDoes(w, k, p)
    BY <1>21, ReturnDoneEffect
  <2>2. /\ pc[w] = "return" /\ p = cl[w] /\ p # k /\ p = parent[k] /\ k # Root
        /\ status[k] = "RETURNING" /\ status[p] # "none"
        /\ status[p] = "RUNNING" \/ complete[p] = <<>>
        /\ join' = [join EXCEPT ![p] = @ - 1]
        /\ pc' = [pc EXCEPT ![w] = "loop"]
        /\ UNCHANGED <<complete, parent, H, deque>>
    BY <2>1 DEF ReturnDoneDoes
  <2>3. /\ "return" \notin WorkPC /\ "loop" \notin WorkPC
    BY <2>2 DEF WorkPC, PopPC, SlowPC
  <2>4. ASSUME join[p] = 1, status[p] = "SUSPENDED",
               status' = [status EXCEPT ![k] = "freed", ![p] = "READY"]
        PROVE  FreshInv'
    <3>1. \A d \in Proc : Fresh(d) => Fresh(d)'
      BY <1>a, <1>b, <2>2, <2>3, <2>4 DEF Types, Fresh
    <3>2. \A d \in Proc : status'[d] = "none" => status[d] = "none"
      BY <1>a, <1>b, <2>2, <2>3, <2>4 DEF Types
    <3>3. \A u \in Worker : pc'[u] \in WorkPC /\ H'[u] >= 1
            => pc[u] \in WorkPC /\ H[u] >= 1 /\ Bottom(u)' = Bottom(u)
      BY <1>a, <1>c, <2>2, <2>3, <2>4 DEF Types, Shortened, Extended
    <3>q. QED
      BY <1>h, <2>2, <3>1, <3>2, <3>3
  <2>5. ASSUME join[p] # 1 \/ status[p] # "SUSPENDED",
               status' = [status EXCEPT ![k] = "freed"]
        PROVE  FreshInv'
    <3>1. \A d \in Proc : Fresh(d) => Fresh(d)'
      BY <1>a, <1>b, <2>2, <2>3, <2>5 DEF Types, Fresh
    <3>2. \A d \in Proc : status'[d] = "none" => status[d] = "none"
      BY <1>a, <1>b, <2>2, <2>3, <2>5 DEF Types
    <3>3. \A u \in Worker : pc'[u] \in WorkPC /\ H'[u] >= 1
            => pc[u] \in WorkPC /\ H[u] >= 1 /\ Bottom(u)' = Bottom(u)
      BY <1>a, <1>c, <2>2, <2>3, <2>5 DEF Types, Shortened, Extended
    <3>q. QED
      BY <1>h, <2>2, <3>1, <3>2, <3>3
  <2>q. QED
    BY <2>1, <2>2, <2>4, <2>5 DEF ReturnDoneDoes
<1>22. ASSUME NEW w \in Worker, Spawn(w) PROVE FreshInv'
  <2>1. PICK c \in Proc, f \in Proc :
          SpawnDoes(w, c, f)
    BY <1>22, SpawnEffect
  <2>2. /\ pc[w] \in {"run", "synced"} /\ status[c] = "none"
        /\ parent' = [parent EXCEPT ![c] = f] /\ pc' = [pc EXCEPT ![w] = "run"]
        /\ UNCHANGED <<status, join, complete, H, deque>>
    BY <2>1 DEF SpawnDoes
  <2>3. /\ "run" \in WorkPC /\ "synced" \in WorkPC /\ pc[w] \in WorkPC
    BY <2>2 DEF WorkPC, PopPC, SlowPC
  <2>4. \A d \in Proc : Fresh(d) => Fresh(d)'
    BY <1>a, <1>b, <2>2, <2>3 DEF Types, Fresh
  <2>5. \A d \in Proc : status'[d] = "none" => status[d] = "none"
    BY <1>a, <1>b, <2>2, <2>3 DEF Types
  <2>6. \A u \in Worker : pc'[u] \in WorkPC /\ H'[u] >= 1
          => pc[u] \in WorkPC /\ H[u] >= 1 /\ Bottom(u)' = Bottom(u)
    BY <1>a, <1>c, <2>2, <2>3 DEF Types, Shortened, Extended
  <2>q. QED
    BY <1>h, <2>2, <2>4, <2>5, <2>6
<1>23. ASSUME NEW w \in Worker, ReturnFast(w) PROVE FreshInv'
  <2>1. PICK f \in Proc :
          ReturnFastDoes(w, f)
    BY <1>23, ReturnFastEffect
  <2>q. QED
    BY <1>g, <2>1 DEF ReturnFastDoes, WorkPC, PopPC, SlowPC
<1>24. ASSUME NEW w \in Worker, PopResult(w) PROVE FreshInv'
  BY <1>g, <1>24 DEF PopResult, program, state, tree, locks, caches, Goto,
     Outcome, WorkPC, PopPC, SlowPC
<1>25. ASSUME NEW w \in Worker, LockOwnDeque(w) PROVE FreshInv'
  BY <1>g, <1>25 DEF LockOwnDeque, program, results, state, tree, caches, Goto,
     LockDeque, SlowAborts, WorkPC, PopPC, SlowPC
<1>26. ASSUME NEW w \in Worker, LockBottom(w) PROVE FreshInv'
  <2>1. PICK c \in Proc :
          LockBottomDoes(w, c)
    BY <1>26, LockBottomEffect
  <2>q. QED
    BY <1>g, <2>1 DEF LockBottomDoes, WorkPC, PopPC, SlowPC
<1>27. ASSUME NEW w \in Worker, Sync(w) PROVE FreshInv'
  <2>1. PICK c \in Proc :
          SyncDoes(w, c)
    BY <1>27, SyncEffect
  <2>2. /\ pc[w] = "syncPoll" /\ c = cl[w] /\ c = Bottom(w)
        /\ c = deque[w][Size(deque[w])] /\ H[w] = 0 /\ status[c] = "RUNNING"
        /\ complete[c] = <<>>
        /\ UNCHANGED <<join, complete, parent, H>>
    BY <2>1 DEF SyncDoes
  <2>3. /\ "syncPoll" \in WorkPC /\ "loop" \notin WorkPC /\ "synced" \in WorkPC
    BY <2>2 DEF WorkPC, PopPC, SlowPC
  <2>4. ASSUME join[c] # 0, status' = [status EXCEPT ![c] = "SUSPENDED"],
               pc' = [pc EXCEPT ![w] = "loop"], Shortened(deque, deque', w)
        PROVE  FreshInv'
    <3>1. \A k \in Proc : status'[k] = "none" <=> status[k] = "none"
      BY <1>a, <2>2, <2>4 DEF Types
    <3>2. \A u \in Worker \ {w} : deque'[u] = deque[u]
      BY <2>4 DEF Shortened
    <3>3. /\ \A u \in Worker \ {w} : pc'[u] = pc[u] /\ H'[u] = H[u]
          /\ pc'[w] \notin WorkPC \/ H'[w] = 0
      BY <1>a, <2>2, <2>3, <2>4 DEF Types
    <3>4. \A u \in Worker : pc'[u] \in WorkPC /\ H'[u] >= 1
            => pc[u] \in WorkPC /\ H[u] >= 1 /\ Bottom(u)' = Bottom(u)
      BY <1>k, <3>2, <3>3
    <3>q. QED
      BY <1>h, <1>s, <2>2, <3>1, <3>4
  <2>5. ASSUME join[c] = 0, pc' = [pc EXCEPT ![w] = "synced"],
               UNCHANGED <<status, deque>>
        PROVE  FreshInv'
    <3>1. \A d \in Proc : Fresh(d) => Fresh(d)'
      BY <1>a, <1>b, <2>2, <2>3, <2>5 DEF Types, Fresh
    <3>2. \A d \in Proc : status'[d] = "none" => status[d] = "none"
      BY <1>a, <1>b, <2>2, <2>3, <2>5 DEF Types
    <3>3. \A u \in Worker : pc'[u] \in WorkPC /\ H'[u] >= 1
            => pc[u] \in WorkPC /\ H[u] >= 1 /\ Bottom(u)' = Bottom(u)
      BY <1>a, <1>c, <2>2, <2>3, <2>5 DEF Types, Shortened, Extended
    <3>q. QED
      BY <1>h, <2>2, <3>1, <3>2, <3>3
  <2>q. QED
    BY <2>1, <2>2, <2>4, <2>5 DEF SyncDoes
<1>28. ASSUME NEW w \in Worker, AbortSlow(w) PROVE FreshInv'
  BY <1>g, <1>28 DEF AbortSlow, program, results, tree, caches, Goto,
     UnlockBoth, Polled, Hand, UnlockClosure, UnlockDeque, Polls, WorkPC,
     PopPC, SlowPC
<1>29. ASSUME NEW w \in Worker, SetResult(w) PROVE FreshInv'
  <2>1. PICK c \in Proc :
          SetResultDoes(w, c)
    BY <1>29, SetResultEffect
  <2>2. /\ pc[w] = "setResult" /\ c = cl[w] /\ c = Bottom(w)
        /\ c = deque[w][Size(deque[w])] /\ H[w] = 0 /\ c # Root
        /\ deque[w] # <<>> /\ status[c] = "RUNNING"
        /\ status' = [status EXCEPT ![c] = "RETURNING"]
        /\ pc' = [pc EXCEPT ![w] = "loop"]
        /\ UNCHANGED <<join, complete, parent, H, deque>>
    BY <2>1 DEF SetResultDoes
  <2>3. /\ "setResult" \in WorkPC /\ "loop" \notin WorkPC
    BY <2>2 DEF WorkPC, PopPC, SlowPC
  <2>4. \A d \in Proc : Fresh(d) => Fresh(d)'
    BY <1>a, <1>b, <2>2, <2>3 DEF Types, Fresh
  <2>5. \A d \in Proc : status'[d] = "none" => status[d] = "none"
    BY <1>a, <1>b, <2>2, <2>3 DEF Types
  <2>6. \A u \in Worker : pc'[u] \in WorkPC /\ H'[u] >= 1
          => pc[u] \in WorkPC /\ H[u] >= 1 /\ Bottom(u)' = Bottom(u)
    BY <1>a, <1>c, <2>2, <2>3 DEF Types, Shortened, Extended
  <2>q. QED
    BY <1>h, <2>2, <2>4, <2>5, <2>6
<1>30. ASSUME NEW w \in Worker, Done(w) PROVE FreshInv'
  BY <1>g, <1>30 DEF Done, results, state, tree, locks, caches, Goto,
     AfterSync, WorkPC, PopPC, SlowPC
<1>31. ASSUME NEW w \in Worker, RemoveAndFree(w) PROVE FreshInv'
  <2>1. RemoveAndFreeDoes(w)
    BY <1>31, RemoveAndFreeEffect
  <2>2. /\ pc[w] = "rootEnd" /\ Root = Bottom(w)
        /\ Root = deque[w][Size(deque[w])] /\ H[w] = 0 /\ Root \in Proc
        /\ status[Root] = "RUNNING"
        /\ status' = [status EXCEPT ![Root] = "freed"]
        /\ pc' = [pc EXCEPT ![w] = "loop"] /\ Shortened(deque, deque', w)
        /\ UNCHANGED <<join, complete, parent, H>>
    BY <2>1 DEF RemoveAndFreeDoes
  <2>3. /\ "rootEnd" \in WorkPC /\ "loop" \notin WorkPC
    BY <2>2 DEF WorkPC, PopPC, SlowPC
  <2>4. \A k \in Proc : status'[k] = "none" <=> status[k] = "none"
    BY <1>a, <2>2 DEF Types
  <2>5. \A u \in Worker \ {w} : deque'[u] = deque[u]
    BY <2>2 DEF Shortened, Extended
  <2>6. /\ \A u \in Worker \ {w} : pc'[u] = pc[u] /\ H'[u] = H[u]
        /\ pc'[w] \notin WorkPC \/ H'[w] = 0
    BY <1>a, <2>2, <2>3 DEF Types
  <2>7. \A u \in Worker : pc'[u] \in WorkPC /\ H'[u] >= 1
          => pc[u] \in WorkPC /\ H[u] >= 1 /\ Bottom(u)' = Bottom(u)
    BY <1>k, <2>5, <2>6
  <2>q. QED
    BY <1>h, <1>s, <2>2, <2>4, <2>7
<1>32. ASSUME NEW w \in Worker, CilkExit(w) PROVE FreshInv'
  <2>1. CilkExitDoes(w)
    BY <1>32, CilkExitEffect
  <2>2. /\ pc[w] = "run" /\ Root \in Proc
        /\ complete' = [complete EXCEPT ![Root] = <<None>> \o @]
        /\ UNCHANGED <<status, join, parent, H, deque>>
    BY <2>1 DEF CilkExitDoes
  <2>3. /\ "run" \in WorkPC /\ "exitPoll" \in WorkPC
    BY <2>2 DEF WorkPC, PopPC, SlowPC
  <2>4. ASSUME status[Root] = "RUNNING",
               UNCHANGED <<pc>>
        PROVE  FreshInv'
    <3>1. \A d \in Proc : Fresh(d) => Fresh(d)'
      BY <1>a, <1>b, <2>2, <2>3, <2>4 DEF Types, Fresh
    <3>2. \A d \in Proc : status'[d] = "none" => status[d] = "none"
      BY <1>a, <1>b, <2>2, <2>3, <2>4 DEF Types
    <3>3. \A u \in Worker : pc'[u] \in WorkPC /\ H'[u] >= 1
            => pc[u] \in WorkPC /\ H[u] >= 1 /\ Bottom(u)' = Bottom(u)
      BY <1>a, <1>c, <2>2, <2>3, <2>4 DEF Types, Shortened, Extended
    <3>q. QED
      BY <1>h, <2>2, <3>1, <3>2, <3>3
  <2>5. ASSUME status[Root] # "RUNNING", pc' = [pc EXCEPT ![w] = "exitPoll"]
        PROVE  FreshInv'
    <3>1. \A d \in Proc : Fresh(d) => Fresh(d)'
      BY <1>a, <1>b, <2>2, <2>3, <2>5 DEF Types, Fresh
    <3>2. \A d \in Proc : status'[d] = "none" => status[d] = "none"
      BY <1>a, <1>b, <2>2, <2>3, <2>5 DEF Types
    <3>3. \A u \in Worker : pc'[u] \in WorkPC /\ H'[u] >= 1
            => pc[u] \in WorkPC /\ H[u] >= 1 /\ Bottom(u)' = Bottom(u)
      BY <1>a, <1>c, <2>2, <2>3, <2>5 DEF Types, Shortened, Extended
    <3>q. QED
      BY <1>h, <2>2, <3>1, <3>2, <3>3
  <2>q. QED
    BY <2>1, <2>2, <2>4, <2>5 DEF CilkExitDoes
<1>33. ASSUME NEW w \in Worker, CilkExitDone(w) PROVE FreshInv'
  BY <1>g, <1>33 DEF CilkExitDone, program, results, tree, caches, Goto, Hand,
     UnlockClosure, Polled, Polls, WorkPC, PopPC, SlowPC
<1>34. ASSUME NEW w \in Worker, HandlerPolled(w) PROVE FreshInv'
  <2>1. PICK t \in Proc, t1 \in Proc :
          HandlerPolledDoes(w, t, t1)
    BY <1>34, HandlerPolledEffect
  <2>q. QED
    BY <1>g, <2>1 DEF HandlerPolledDoes, WorkPC, PopPC, SlowPC
<1>35. ASSUME NEW w \in Worker, HandlerSwap(w) PROVE FreshInv'
  BY <1>g, <1>35 DEF HandlerSwap, program, results, state, tree, caches, Goto,
     LockClosure, WorkPC, PopPC, SlowPC
<1>36. ASSUME NEW w \in Worker, HandlerStolen(w) PROVE FreshInv'
  <2>1. PICK c \in Proc :
          HandlerStolenDoes(w, c)
    BY <1>36, HandlerStolenEffect
  <2>2. /\ pc[w] = "handlerAct" /\ c = cl[w] /\ c = Bottom(w)
        /\ c = deque[w][Size(deque[w])] /\ c # Root /\ deque[w] # <<>>
        /\ H[w] \in Nat /\ status[c] \in {"RUNNING", "RETURNING"}
        /\ status' = [status EXCEPT ![c] = "RETURNING"]
        /\ UNCHANGED <<join, complete, parent, H, deque>>
    BY <2>1 DEF HandlerStolenDoes
  <2>3. /\ "handlerAct" \in WorkPC /\ "loop" \notin WorkPC /\ "pop" \in WorkPC
    BY <2>2 DEF WorkPC, PopPC, SlowPC
  <2>4. ASSUME pc' = [pc EXCEPT ![w] = "loop"]
        PROVE  FreshInv'
    <3>1. \A d \in Proc : Fresh(d) => Fresh(d)'
      BY <1>a, <1>b, <2>2, <2>3, <2>4 DEF Types, Fresh
    <3>2. \A d \in Proc : status'[d] = "none" => status[d] = "none"
      BY <1>a, <1>b, <2>2, <2>3, <2>4 DEF Types
    <3>3. \A u \in Worker : pc'[u] \in WorkPC /\ H'[u] >= 1
            => pc[u] \in WorkPC /\ H[u] >= 1 /\ Bottom(u)' = Bottom(u)
      BY <1>a, <1>c, <2>2, <2>3, <2>4 DEF Types, Shortened, Extended
    <3>q. QED
      BY <1>h, <2>2, <3>1, <3>2, <3>3
  <2>5. ASSUME pc' = [pc EXCEPT ![w] = "pop"]
        PROVE  FreshInv'
    <3>1. \A d \in Proc : Fresh(d) => Fresh(d)'
      BY <1>a, <1>b, <2>2, <2>3, <2>5 DEF Types, Fresh
    <3>2. \A d \in Proc : status'[d] = "none" => status[d] = "none"
      BY <1>a, <1>b, <2>2, <2>3, <2>5 DEF Types
    <3>3. \A u \in Worker : pc'[u] \in WorkPC /\ H'[u] >= 1
            => pc[u] \in WorkPC /\ H[u] >= 1 /\ Bottom(u)' = Bottom(u)
      BY <1>a, <1>c, <2>2, <2>3, <2>5 DEF Types, Shortened, Extended
    <3>q. QED
      BY <1>h, <2>2, <3>1, <3>2, <3>3
  <2>q. QED
    BY <2>1, <2>2, <2>4, <2>5 DEF HandlerStolenDoes
<1>37. ASSUME NEW w \in Worker, HandlerAbort(w) PROVE FreshInv'
  <2>1. PICK c \in Proc, f \in Proc :
          HandlerAbortDoes(w, c, f)
    BY <1>37, HandlerAbortEffect
  <2>2. /\ pc[w] = "handlerAct" /\ c = cl[w] /\ c = Bottom(w)
        /\ c = deque[w][Size(deque[w])] /\ deque[w] # <<>> /\ H[w] \in Nat
        /\ status[c] = "RUNNING"
        /\ UNCHANGED <<join, complete, parent, H>>
    BY <2>1 DEF HandlerAbortDoes
  <2>3. /\ "handlerAct" \in WorkPC /\ "loop" \notin WorkPC /\ "pop" \in WorkPC
    BY <2>2 DEF WorkPC, PopPC, SlowPC
  <2>4. ASSUME H[w] = 0, join[c] # 0,
               status' = [status EXCEPT ![c] = "SUSPENDED"],
               pc' = [pc EXCEPT ![w] = "loop"], Shortened(deque, deque', w)
        PROVE  FreshInv'
    <3>1. \A k \in Proc : status'[k] = "none" <=> status[k] = "none"
      BY <1>a, <2>2, <2>4 DEF Types
    <3>2. \A u \in Worker \ {w} : deque'[u] = deque[u]
      BY <2>4 DEF Shortened
    <3>3. /\ \A u \in Worker \ {w} : pc'[u] = pc[u] /\ H'[u] = H[u]
          /\ pc'[w] \notin WorkPC \/ H'[w] = 0
      BY <1>a, <2>2, <2>3, <2>4 DEF Types
    <3>4. \A u \in Worker : pc'[u] \in WorkPC /\ H'[u] >= 1
            => pc[u] \in WorkPC /\ H[u] >= 1 /\ Bottom(u)' = Bottom(u)
      BY <1>k, <3>2, <3>3
    <3>q. QED
      BY <1>h, <1>s, <2>2, <3>1, <3>4
  <2>5. ASSUME H[w] = 0, join[c] = 0, c # Root,
               status' = [status EXCEPT ![c] = "RETURNING"],
               pc' = [pc EXCEPT ![w] = "loop"],
               UNCHANGED <<deque>>
        PROVE  FreshInv'
    <3>1. \A d \in Proc : Fresh(d) => Fresh(d)'
      BY <1>a, <1>b, <2>2, <2>3, <2>5 DEF Types, Fresh
    <3>2. \A d \in Proc : status'[d] = "none" => status[d] = "none"
      BY <1>a, <1>b, <2>2, <2>3, <2>5 DEF Types
    <3>3. \A u \in Worker : pc'[u] \in WorkPC /\ H'[u] >= 1
            => pc[u] \in WorkPC /\ H[u] >= 1 /\ Bottom(u)' = Bottom(u)
      BY <1>a, <1>c, <2>2, <2>3, <2>5 DEF Types, Shortened, Extended
    <3>q. QED
      BY <1>h, <2>2, <3>1, <3>2, <3>3
  <2>6. ASSUME join[c] = 0, c # Root,
               status' = [status EXCEPT ![c] = "RETURNING"],
               pc' = [pc EXCEPT ![w] = "pop"],
               UNCHANGED <<deque>>
        PROVE  FreshInv'
    <3>1. \A d \in Proc : Fresh(d) => Fresh(d)'
      BY <1>a, <1>b, <2>2, <2>3, <2>6 DEF Types, Fresh
    <3>2. \A d \in Proc : status'[d] = "none" => status[d] = "none"
      BY <1>a, <1>b, <2>2, <2>3, <2>6 DEF Types
    <3>3. \A u \in Worker : pc'[u] \in WorkPC /\ H'[u] >= 1
            => pc[u] \in WorkPC /\ H[u] >= 1 /\ Bottom(u)' = Bottom(u)
      BY <1>a, <1>c, <2>2, <2>3, <2>6 DEF Types, Shortened, Extended
    <3>q. QED
      BY <1>h, <2>2, <3>1, <3>2, <3>3
  <2>7. ASSUME f # Root, status[f] = "none", pc' = [pc EXCEPT ![w] = "pop"],
               UNCHANGED <<status, deque>>
        PROVE  FreshInv'
    <3>1. \A d \in Proc : Fresh(d) => Fresh(d)'
      BY <1>a, <1>b, <2>2, <2>3, <2>7 DEF Types, Fresh
    <3>2. \A d \in Proc : status'[d] = "none" => status[d] = "none"
      BY <1>a, <1>b, <2>2, <2>3, <2>7 DEF Types
    <3>3. \A u \in Worker : pc'[u] \in WorkPC /\ H'[u] >= 1
            => pc[u] \in WorkPC /\ H[u] >= 1 /\ Bottom(u)' = Bottom(u)
      BY <1>a, <1>c, <2>2, <2>3, <2>7 DEF Types, Shortened, Extended
    <3>q. QED
      BY <1>h, <2>2, <3>1, <3>2, <3>3
  <2>q. QED
    BY <2>1, <2>2, <2>4, <2>5, <2>6, <2>7 DEF HandlerAbortDoes, AbortWaits,
       AbortReturns, AbortPops
<1>38. ASSUME NEW w \in Worker, HandlerResume(w) PROVE FreshInv'
  BY <1>g, <1>38 DEF HandlerResume, program, tree, Goto, UnlockBoth, Outcome,
     BeingAborted, Stolen, Hand, UnlockClosure, UnlockDeque, WorkPC, PopPC,
     SlowPC
<1>39. CASE UNCHANGED vars
  BY <1>f, <1>39 DEF vars
<1>q. QED
  BY <1>1, <1>2, <1>3, <1>4, <1>5, <1>6, <1>7, <1>8, <1>9, <1>10, <1>11, <1>12,
     <1>13, <1>14, <1>15, <1>16, <1>17, <1>18, <1>19, <1>20, <1>21, <1>22,
     <1>23, <1>24, <1>25, <1>26, <1>27, <1>28, <1>29, <1>30, <1>31, <1>32,
     <1>33, <1>34, <1>35, <1>36, <1>37, <1>38, <1>39 DEF Next, Step, Terminated
=============================================================================
