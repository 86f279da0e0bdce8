--------------------------- MODULE SchedulerTree ---------------------------
(* The tree of closures: what the join counters count, which closures are  *)
(* on their parent's list, who may still reach one that is destroyed, and  *)
(* which frames are still there. A second inductive invariant, kept by the *)
(* steps because the first one is; the join counters, rule D of PROTOCOLS  *)
(* and the assertions of sched.c follow from the two. With a third, on     *)
(* inlets that wait and aborts that go down the tree, nobody is forgotten; *)
(* with a fourth, on the frames and their results, each result is settled  *)
(* once, before its parent passes a sync.                                  *)
EXTENDS SchedulerProofs, WellFoundedInduction

(* Where the child beside the closure in hand is a closure that is not on *)
(* its parent's list: stolen and not on it yet, or off it to be returned. *)
AbsentPC == {"returnChild", "return", "stealFinish"}
Leaves(w, k) == child[w] = k /\ pc[w] \in AbsentPC
Absent(k) == \E w \in Worker : Leaves(w, k)

(* A child of p is being returned: off its list and still counted. *)
Returns(w, p) == cl[w] = p /\ pc[w] \in ReturnPC
Joins(p) == \E w \in Worker : Returns(w, p)

(* Where a worker is past a sync that found no children. *)
SyncedPC == {"synced", "result", "setResult", "rootEnd"}

(* The children on a closure's list are those that live, except the one   *)
(* that comes or goes.                                                    *)
ListInv ==
    /\ \A p, k \in Proc :
          k \in incomplete[p] <=> parent[k] = p /\ Live(k) /\ ~Absent(k)
    /\ \A w \in Worker : pc[w] = "stealFinish" => Live(child[w])

(* The join counter counts the list, and the child that goes. *)
CountInv ==
    /\ join \in [Proc -> Nat]
    /\ \A p \in Proc :
          join[p] = Cardinality(incomplete[p]) + (IF Joins(p) THEN 1 ELSE 0)

(* Nothing is counted for a closure that is to be returned, or was, and    *)
(* one that is suspended waits for a child; a worker past a sync has none. *)
JoinFits(c) ==
    /\ status[c] \in {"none", "RETURNING", "freed"} => join[c] = 0
    /\ status[c] = "SUSPENDED" => join[c] # 0
JoinInv ==
    /\ \A c \in Proc : JoinFits(c)
    /\ \A w \in Worker : pc[w] \in SyncedPC => join[Bottom(w)] = 0

(* The parent of a closure outlives it, and when the first one is         *)
(* destroyed no other is left.                                            *)
ParentLives(k) == status[parent[k]] \notin {"none", "RETURNING", "freed"}
LiveInv ==
    /\ \A k \in Proc \ {Root} : Live(k) => ParentLives(k)
    /\ status[Root] = "freed" => \A k \in Proc : ~Live(k)

(* An abort signal goes down the lists of children, and what it is still  *)
(* to visit is on them: they are locked, so nobody returns from them.     *)
WalkTree ==
    \A w \in Worker :
      /\ \A i \in 1 .. Size(walk[w]) :
            walk[w][i].rest \subseteq incomplete[walk[w][i].at]
      /\ \A i \in 2 .. Size(walk[w]) :
            walk[w][i].at \in incomplete[walk[w][i - 1].at]

(* A worker that has popped its last frame has its closure's, or none. *)
PoppedInv ==
    \A w \in Worker : pc[w] \in PopPC /\ H[w] >= T(w) =>
        child[w] \in {None, Bottom(w)}

(* The frames that are still there: those of closures that are ready or   *)
(* suspended, or that a worker carries to be run, and those on a stack    *)
(* from its head pointer up.                                              *)
AliveInv ==
    /\ \A c \in Proc : status[c] \in {"READY", "SUSPENDED"} => c \in alive
    /\ \A w \in Worker :
          /\ pc[w] \in {"setup", "add", "stealFinish"} => cl[w] \in alive
          /\ pc[w] \in WorkPC /\ H[w] < T(w) => Bottom(w) \in alive
          /\ \A i \in H[w] + 2 .. T(w) : stack[w][i] \in alive

(* The inductive invariant of the tree, beside that of the scheduler. *)
TreeInv == /\ ListInv /\ CountInv /\ JoinInv /\ LiveInv /\ WalkTree /\ PoppedInv
           /\ AliveInv

(* The child that comes or goes is a child of the closure in hand, alive, *)
(* and no other worker has it: it would have the same parent's lock.      *)
LEMMA AbsentFacts ==
    ASSUME IInv, TreeInv, NEW w \in Worker, pc[w] \in AbsentPC
    PROVE  /\ cl[w] \in Proc /\ clock[cl[w]] = w /\ child[w] \in Proc
           /\ parent[child[w]] = cl[w] /\ Live(child[w]) /\ child[w] # Root
           /\ \A u \in Worker \ {w} : ~Leaves(u, child[w])
<1>1. \A u \in Worker : pc[u] \in AbsentPC =>
         /\ pc[u] \in LockPC /\ child[u] # None /\ parent[child[u]] = cl[u]
         /\ Live(child[u])
  <2>1. ASSUME NEW u \in Worker, pc[u] \in ReturnPC
        PROVE  /\ pc[u] \in LockPC /\ child[u] # None
               /\ parent[child[u]] = cl[u] /\ status[child[u]] = "RETURNING"
    BY <2>1 DEF IInv, ChildInv, ClosureLocks, ReturnPC, LockPC
  <2>2. ASSUME NEW u \in Worker, pc[u] = "stealFinish"
        PROVE  /\ pc[u] \in LockPC /\ child[u] # None
               /\ parent[child[u]] = cl[u] /\ Live(child[u])
    BY <2>2 DEF IInv, TreeInv, ListInv, ChildInv, LockPC
  <2>q. QED
    BY <2>1, <2>2 DEF AbsentPC, ReturnPC, Live
<1>2. \A u \in Worker : pc[u] \in AbsentPC => cl[u] \in Proc /\ clock[cl[u]] = u
  BY <1>1, LockFacts
<1>3. child[w] \in Proc /\ cl[w] # None
  BY <1>1, <1>2 DEF IInv, Types, Proc, None
<1>4. child[w] # Root
  BY <1>1, <1>3 DEF IInv, ParentInv
<1>q. QED
  BY <1>1, <1>2, <1>3, <1>4 DEF Leaves

(* A closure whose join counter is zero, and that no thief is about to    *)
(* count a child for, has no child left.                                  *)
LEMMA Childless ==
    ASSUME IInv, TreeInv, NEW c \in Proc, join[c] = 0,
           \A u \in Worker : pc[u] = "stealFinish" => cl[u] # c
    PROVE  \A k \in Proc : parent[k] = c => ~Live(k)
<1>1. incomplete[c] = {} /\ ~Joins(c)
  <2>1. incomplete[c] \in SUBSET Proc
    BY DEF IInv, Types
  <2>2. IsFiniteSet(Proc)
    BY FS_Interval, BoundAssumption DEF Proc
  <2>3. IsFiniteSet(incomplete[c]) /\ Cardinality(incomplete[c]) \in Nat
    BY <2>1, <2>2, FS_Subset, FS_CardinalityType
  <2>4. 0 = Cardinality(incomplete[c]) + (IF Joins(c) THEN 1 ELSE 0)
    BY DEF TreeInv, CountInv
  <2>5. Cardinality(incomplete[c]) = 0 /\ ~Joins(c)
    BY <2>3, <2>4
  <2>q. QED
    BY <2>3, <2>5, FS_EmptySet
<1>2. ASSUME NEW k \in Proc, parent[k] = c, Live(k) PROVE FALSE
  <2>1. Absent(k)
    BY <1>1, <1>2 DEF TreeInv, ListInv
  <2>2. PICK u \in Worker : child[u] = k /\ pc[u] \in AbsentPC
    BY <2>1 DEF Absent, Leaves
  <2>3. cl[u] = c
    BY <1>2, <2>2, AbsentFacts
  <2>q. QED
    BY <1>1, <2>2, <2>3 DEF Joins, Returns, AbsentPC, ReturnPC
<1>q. QED
  BY <1>2

(* No thief has a closure in hand that is in a deque or in another's hand. *)
LEMMA NotStolen ==
    ASSUME IInv, NEW w \in Worker, NEW c \in Proc,
           \/ pc[w] \in WorkPC /\ c = Bottom(w)
           \/ pc[w] = "loop" /\ c = cl[w]
           \/ pc[w] \in ReturnPC /\ c = child[w]
    PROVE  \A u \in Worker : pc[u] = "stealFinish" => cl[u] # c
<1>1. \A u \in Worker, d \in Proc : Carries(u, d) =>
         NotIn(deque, d) /\ \A v \in Worker \ {u} : ~Carries(v, d)
  BY CarriedApart
<1>2. ASSUME NEW u \in Worker, pc[u] = "stealFinish", cl[u] = c PROVE FALSE
  <2>1. Carries(u, c)
    BY <1>2 DEF Carries, HandPC
  <2>2. CASE pc[w] \in WorkPC /\ c = Bottom(w)
    <3>1. deque[w] # <<>>
      BY <2>2 DEF IInv, CurrentInv
    <3>2. c = deque[w][Size(deque[w])] /\ Size(deque[w]) \in Nat \ {0}
      BY <2>2, <3>1, DequeFacts DEF IInv
    <3>q. QED
      BY <1>1, <2>1, <3>2 DEF NotIn
  <2>3. CASE pc[w] = "loop" /\ c = cl[w]
    BY <1>1, <1>2, <2>1, <2>3 DEF Carries, HandPC
  <2>4. CASE pc[w] \in ReturnPC /\ c = child[w]
    BY <1>1, <1>2, <2>1, <2>4 DEF Carries, ReturnPC
  <2>q. QED
    BY <2>2, <2>3, <2>4
<1>q. QED
  BY <1>2

(* Workers that work have different closures at the bottom of their deques *)
LEMMA BottomsApart ==
    ASSUME IInv, NEW w \in Worker, pc[w] \in WorkPC
    PROVE  /\ Bottom(w) \in Proc /\ deque[w] # <<>>
           /\ \A u \in Worker \ {w} : pc[u] \in WorkPC => Bottom(u) # Bottom(w)
<1>1. \A u \in Worker : pc[u] \in WorkPC =>
         /\ Bottom(u) \in Proc /\ deque[u] # <<>>
         /\ Size(deque[u]) \in 1 .. Size(deque[u])
         /\ Bottom(u) = deque[u][Size(deque[u])]
  <2>1. \A u \in Worker : pc[u] \in WorkPC => deque[u] # <<>>
    BY DEF IInv, CurrentInv
  <2>q. QED
    BY <2>1, DequeFacts DEF IInv
<1>2. DequesApart(deque)
  BY CarriedApart
<1>q. QED
  BY <1>1, <1>2 DEF DequesApart

(* The order of the numbers, as a relation. *)
Less == {ss \in Nat \X Nat : ss[1] < ss[2]}

(* Of a set of numbers, one is the least. *)
LEMMA Least ==
    ASSUME NEW S \in SUBSET Nat, S # {}
    PROVE  \E m \in S : \A k \in S : m <= k
<1>1. IsWellFoundedOn(Less, Nat)
  BY NatLessThanWellFounded, Zenon DEF OpToRel, Less
<1>2. PICK m \in S : \A k \in S : ~(<<k, m>> \in Less)
  BY <1>1, WFMin
<1>3. \A k \in S : ~(k < m)
  BY <1>2 DEF Less
<1>q. QED
  BY <1>3

(* A closure that lives and is not the first has a parent, spawned earlier.*)
LEMMA ParentFacts ==
    ASSUME IInv, NEW k \in Proc \ {Root}, Live(k)
    PROVE  parent[k] \in Proc /\ parent[k] < k /\ parent[k] # k
<1>1. created \in Nat /\ created <= MaxProc /\ MaxProc \in Nat /\ k \in Nat
  BY BoundAssumption DEF IInv, Types, Proc
<1>2. k \in 2 .. created
  <2>1. ~(k \in created + 1 .. MaxProc)
    BY DEF IInv, ParentInv, Live
  <2>q. QED
    BY <1>1, <2>1 DEF Proc, Root
<1>3. parent[k] \in 1 .. k - 1
  BY <1>2 DEF IInv, ParentInv
<1>q. QED
  BY <1>1, <1>2, <1>3 DEF Proc

(* When the first closure has no child left, no other closure lives.       *)
LEMMA RootLast ==
    ASSUME IInv, LiveInv, \A k \in Proc : parent[k] = Root => ~Live(k)
    PROVE  \A k \in Proc \ {Root} : ~Live(k)
<1> SUFFICES ASSUME NEW d \in Proc \ {Root}, Live(d) PROVE FALSE
  OBVIOUS
<1> DEFINE S == {k \in Proc \ {Root} : Live(k)}
<1>1. S \in SUBSET Nat /\ S # {}
  BY BoundAssumption DEF Proc
<1>2. PICK m \in S : \A k \in S : m <= k
  BY <1>1, Least
<1>3. m \in Proc \ {Root} /\ Live(m)
  OBVIOUS
<1>4. parent[m] \in Proc /\ parent[m] < m
  BY <1>3, ParentFacts
<1>5. Live(parent[m])
  BY <1>3 DEF LiveInv, ParentLives, Live
<1>6. parent[m] \notin S
  <2>1. m \in Nat /\ parent[m] \in Nat
    BY <1>3, <1>4, BoundAssumption DEF Proc
  <2>q. QED
    BY <1>2, <1>4, <2>1
<1>7. parent[m] = Root
  BY <1>4, <1>5, <1>6
<1>q. QED
  BY <1>3, <1>7

(* A frame that is to be removed, ready and in the scheduler's hand, of     *)
(* the closure a worker works on, or on top of its stack, is nobody else's. *)
LEMMA GoneFacts ==
    ASSUME IInv, NEW w \in Worker, NEW f \in Proc,
           \/ pc[w] = "loop" /\ cl[w] = f /\ status[f] = "READY"
           \/ pc[w] \in WorkPC /\ f = Bottom(w)
           \/ pc[w] \in WorkPC /\ H[w] + 1 < T(w) /\ f = stack[w][T(w)]
    PROVE  /\ \A u \in Worker \ {w} :
                 /\ pc[u] \in {"setup", "add", "stealFinish"} => cl[u] # f
                 /\ pc[u] \in WorkPC => Bottom(u) # f
                 /\ \A i \in H[u] + 2 .. T(u) : stack[u][i] # f
           /\ \A i \in H[w] + 2 .. T(w) - 1 : stack[w][i] # f
<1>1. \A u \in Worker : \A i \in H[u] + 2 .. T(u) : status[stack[u][i]] = "none"
  BY DEF IInv, StackInv
<1>2. \A u \in Worker : /\ H[u] \in Nat /\ T(u) \in Nat
                        /\ H[u] + 2 .. T(u) - 1 \subseteq H[u] + 2 .. T(u)
  <2> SUFFICES ASSUME NEW u \in Worker
               PROVE  /\ H[u] \in Nat /\ T(u) \in Nat
                      /\ H[u] + 2 .. T(u) - 1 \subseteq H[u] + 2 .. T(u)
    OBVIOUS
  <2>1. H[u] \in Nat /\ T(u) \in Nat
    BY StackFacts DEF IInv, Types
  <2>q. QED
    BY <2>1
<1>3. \A u \in Worker : pc[u] \in {"setup", "add", "stealFinish"} =>
         pc[u] \in HandPC /\ cl[u] # None /\ status[cl[u]] = "RUNNING"
  <2>1. \A u \in Worker : pc[u] \in {"setup", "add"} =>
           cl[u] # None /\ status[cl[u]] = "RUNNING"
    BY DEF IInv, StackInv
  <2>2. \A u \in Worker : pc[u] = "stealFinish" =>
           cl[u] # None /\ status[cl[u]] = "RUNNING"
    BY DEF IInv, InHandInv, ClosureLocks, LockPC
  <2>q. QED
    BY <2>1, <2>2 DEF HandPC
<1>4. \A u \in Worker : pc[u] \in WorkPC =>
         /\ status[Bottom(u)] \in {"RUNNING", "RETURNING"}
         /\ \E i \in 1 .. Size(deque[u]) : deque[u][i] = Bottom(u)
  <2> SUFFICES ASSUME NEW u \in Worker, pc[u] \in WorkPC
               PROVE  /\ status[Bottom(u)] \in {"RUNNING", "RETURNING"}
                      /\ \E i \in 1 .. Size(deque[u]) : deque[u][i] = Bottom(u)
    OBVIOUS
  <2>1. status[Bottom(u)] \in {"RUNNING", "RETURNING"} /\ deque[u] # <<>>
    BY DEF IInv, CurrentInv
  <2>2. Size(deque[u]) \in 1 .. Size(deque[u]) /\ deque[u][Size(deque[u])] = Bottom(u)
    BY <2>1, DequeFacts DEF IInv
  <2>q. QED
    BY <2>1, <2>2
<1>5. CASE pc[w] = "loop" /\ cl[w] = f /\ status[f] = "READY"
  <2>1. pc[w] \in HandPC /\ f # None
    BY <1>5, BoundAssumption DEF HandPC, Proc, None
  <2>2. \A u \in Worker : pc[u] \in WorkPC => Bottom(u) # f
    BY <1>4, <1>5
  <2>q. QED
    BY <1>1, <1>2, <1>3, <1>5, <2>2
<1>6. CASE pc[w] \in WorkPC /\ f = Bottom(w)
  <2>1. \A u \in Worker \ {w} : pc[u] \in WorkPC => Bottom(u) # f
    BY <1>6, BottomsApart
  <2>2. status[f] # "none" /\ \E i \in 1 .. Size(deque[w]) : deque[w][i] = f
    BY <1>4, <1>6
  <2>3. \A u \in Worker : pc[u] \in HandPC => cl[u] # f
    BY <2>2 DEF IInv, PlacesApart
  <2>q. QED
    BY <1>1, <1>2, <1>3, <2>1, <2>2, <2>3
<1>7. CASE pc[w] \in WorkPC /\ H[w] + 1 < T(w) /\ f = stack[w][T(w)]
  <2>1. T(w) \in H[w] + 2 .. T(w)
    BY <1>2, <1>7
  <2>2. status[f] = "none"
    BY <1>1, <1>7, <2>1
  <2>3. \A u \in Worker \ {w} : \A i \in H[u] + 2 .. T(u) : stack[u][i] # f
    BY <1>7, <2>1 DEF IInv, StacksApart
  <2>4. ASSUME NEW i \in H[w] + 2 .. T(w) - 1 PROVE stack[w][i] # f
    <3>1. i \in H[w] + 2 .. T(w) /\ i # T(w)
      BY <1>2, <2>4
    <3>q. QED
      BY <1>7, <2>1, <3>1 DEF IInv, StacksApart
  <2>q. QED
    BY <1>3, <1>4, <2>2, <2>3, <2>4
<1>q. QED
  BY <1>5, <1>6, <1>7

(***************************************************************************)
(* The steps, variable by variable: where closures come to be and end, who *)
(* changes a join counter, a stack, the frames that are there, the place   *)
(* of a worker. Most handlers leave most of this alone.                    *)
(***************************************************************************)

(* Where a worker is past the polls of its closure. *)
PolledPC == SyncedPC \cup {"handlerAct"}

(* What the running closure that a worker works on has to do with its     *)
(* stack.                                                                 *)
LEMMA WorkFacts ==
    ASSUME IInv, NEW w \in Worker, pc[w] \in WorkPC
    PROVE  /\ deque[w] # <<>> /\ Bottom(w) \in Proc
           /\ H[w] \in Nat /\ T(w) \in Nat /\ T(w) >= 1
           /\ status[Bottom(w)] \in {"RUNNING", "RETURNING"}
           /\ status[Bottom(w)] = "RUNNING" =>
                 /\ cache[Bottom(w)] = w /\ H[w] <= T(w)
                 /\ H[w] < T(w) => stack[w][H[w] + 1] = Bottom(w)
           /\ H[w] < T(w) => status[Bottom(w)] = "RUNNING"
           /\ pc[w] \in SlowPC =>
                 status[Bottom(w)] = "RUNNING" /\ T(w) = 1 /\ H[w] = 0
<1>1. H[w] \in Nat /\ T(w) \in Nat
  BY StackFacts DEF IInv
<1>2. T(w) >= 1 /\ (pc[w] \in SlowPC => T(w) = 1 /\ H[w] = 0)
  BY DEF IInv, StackInv
<1>3. /\ deque[w] # <<>> /\ Bottom(w) \in Proc
      /\ status[Bottom(w)] \in {"RUNNING", "RETURNING"}
      /\ status[Bottom(w)] = "RUNNING" =>
            /\ cache[Bottom(w)] = w /\ H[w] <= T(w)
            /\ H[w] < T(w) => stack[w][H[w] + 1] = Bottom(w)
      /\ status[Bottom(w)] = "RETURNING" => H[w] >= T(w)
  BY BottomsApart DEF IInv, CurrentInv
<1>4. H[w] < T(w) => status[Bottom(w)] = "RUNNING"
  BY <1>1, <1>3
<1>q. QED
  BY <1>1, <1>2, <1>3, <1>4

(* A step of a worker leaves the others where they are, with what they    *)
(* have in hand, on their stacks and on their walks.                      *)
LEMMA OthersStay ==
    ASSUME Types, NEW w \in Worker, Step(w), NEW u \in Worker \ {w}
    PROVE  /\ pc'[u] = pc[u] /\ cl'[u] = cl[u] /\ child'[u] = child[u]
           /\ stack'[u] = stack[u] /\ walk'[u] = walk[u]
<1> USE DEF Types, Goto, Hand, Suspend, UnlockBoth, Unwind, Peek, program, results, state,
        tree, locks, caches, Visit
<1>1. CASE \/ LeaveScheduler(w) \/ TakeOwn(w) \/ StealLockDeque(w) \/ StealLockClosure(w)
           \/ StealGiveUp(w) \/ StealUnlockDeque(w) \/ StealReady(w) \/ StealPromote(w)
           \/ StealFinish(w)
  BY <1>1 DEF LeaveScheduler, TakeOwn, StealLockDeque, StealLockClosure,
     StealGiveUp, StealUnlockDeque, StealReady, StealPromote, StealFinish
<1>2. CASE \/ InletKilled(w) \/ InletRuns(w) \/ InletAborts(w) \/ WalkDown(w) \/ WalkUp(w)
  BY <1>2 DEF InletKilled, InletRuns, InletAborts, WalkDown, WalkUp
<1>3. CASE \/ AbortReadyClosure(w) \/ Setup(w) \/ SetupDone(w) \/ Execute(w)
           \/ ReturnLockParent(w) \/ ReturnEnqueue(w) \/ ReturnDone(w)
  BY <1>3 DEF AbortReadyClosure, Setup, SetupDone, Execute, ReturnLockParent, ReturnEnqueue,
     ReturnDone
<1>4. CASE \/ Spawn(w) \/ ReturnFast(w) \/ PopResult(w) \/ LockOwnDeque(w)
           \/ LockBottom(w) \/ Sync(w) \/ AbortSlow(w) \/ SetResult(w) \/ Done(w)
           \/ RemoveAndFree(w)
  BY <1>4 DEF Spawn, ReturnFast, PopResult, LockOwnDeque, LockBottom, Sync,
     AbortSlow, SetResult, Done, RemoveAndFree
<1>5. CASE \/ CilkExit(w) \/ CilkExitDone(w) \/ HandlerPolled(w) \/ HandlerSwap(w)
           \/ HandlerStolen(w) \/ HandlerAbort(w) \/ HandlerResume(w)
  BY <1>5 DEF CilkExit, CilkExitDone, HandlerPolled, HandlerSwap, HandlerStolen,
     HandlerAbort, HandlerResume
<1>q. QED
  BY <1>1, <1>2, <1>3, <1>4, <1>5 DEF Step

(* The life of a closure: a frame gets one when it is promoted; a ready   *)
(* one is run, or aborted, by the worker that has it in hand; a running   *)
(* one is stolen by the thief that has it in hand, or waits, returns or   *)
(* ends under the worker that works on it; a suspended one is made ready, *)
(* and a returning one freed, by the return of the one that is freed.     *)
(* None waits for children it does not have, or returns with some.        *)
Lives(w, d) ==
    \/ status'[d] = status[d]
    \/ /\ status[d] = "none" /\ status'[d] = "RUNNING"
       /\ status[parent[d]] = "RUNNING" /\ status'[parent[d]] \in {"RUNNING", "READY"}
       /\ parent[d] \in Proc /\ parent'[d] = parent[d]
    \/ /\ status[d] = "READY" /\ pc[w] = "loop" /\ d = cl[w]
       /\ status'[d] \in {"RUNNING", "SUSPENDED", "RETURNING"}
       /\ status'[d] = "RETURNING" => join[d] = 0
       /\ status'[d] = "SUSPENDED" => join[d] # 0 /\ alive' = alive
    \/ /\ status[d] = "RUNNING" /\ pc[w] = "stealFinish" /\ d = cl[w]
       /\ status'[d] = "READY" /\ join'[d] = join[d] + 1 /\ alive' = alive
    \/ /\ status[d] = "RUNNING" /\ pc[w] \in WorkPC /\ d = Bottom(w)
       /\ status'[d] \in {"READY", "SUSPENDED", "RETURNING", "freed"}
       /\ status'[d] = "READY" => join'[d] = join[d] + 1
       /\ status'[d] = "SUSPENDED" => join[d] # 0
       /\ status'[d] \in {"READY", "SUSPENDED"} => H[w] < T(w) /\ alive' = alive
       /\ status'[d] \in {"RETURNING", "freed"} =>
             /\ pc[w] \in PolledPC
             /\ join[d] = 0 \/ pc[w] \in SyncedPC \/ H[w] >= T(w)
    \/ /\ status[d] = "SUSPENDED" /\ pc[w] = "return" /\ d = cl[w]
       /\ status'[d] = "READY" /\ complete'[d] = <<>> /\ alive' = alive
    \/ status[d] = "RETURNING" /\ pc[w] = "return" /\ d = child[w] /\ status'[d] = "freed"

(* The steps of the scheduler are those of that life.                      *)
LEMMA StatusSteps ==
    ASSUME IInv, NEW w \in Worker, Step(w), NEW d \in Proc
    PROVE  Lives(w, d)
<1>a. status \in [Proc -> Status] /\ Types
  BY DEF IInv, Types
<1> USE DEF Lives
<1>1. CASE \/ LeaveScheduler(w) \/ TakeOwn(w) \/ StealLockDeque(w) \/ StealLockClosure(w)
           \/ StealGiveUp(w) \/ StealUnlockDeque(w) \/ StealReady(w)
           \/ InletKilled(w) \/ InletRuns(w) \/ WalkDown(w) \/ WalkUp(w)
           \/ SetupDone(w) \/ Execute(w) \/ ReturnLockParent(w) \/ ReturnEnqueue(w)
           \/ Spawn(w) \/ ReturnFast(w) \/ PopResult(w) \/ LockOwnDeque(w)
  BY <1>1 DEF LeaveScheduler, TakeOwn, StealLockDeque, StealLockClosure,
     StealGiveUp, StealUnlockDeque, StealReady, InletKilled, InletRuns,
     WalkDown, WalkUp, SetupDone, Execute, ReturnLockParent, ReturnEnqueue, Spawn,
     ReturnFast, PopResult, LockOwnDeque, state
<1>2. CASE \/ LockBottom(w) \/ AbortSlow(w) \/ Done(w) \/ CilkExit(w) \/ CilkExitDone(w)
           \/ HandlerPolled(w) \/ HandlerSwap(w) \/ HandlerResume(w)
  BY <1>2 DEF LockBottom, AbortSlow, Done, CilkExit, CilkExitDone, HandlerPolled,
     HandlerSwap, HandlerResume, state
<1>3. CASE AbortReadyClosure(w) \/ Setup(w) \/ StealFinish(w)
  <2>1. StealFinish(w) => status[cl[w]] = "RUNNING"
    BY DEF StealFinish, IInv, InHandInv
  <2>2. CASE AbortReadyClosure(w)
    BY <1>a, <2>2 DEF AbortReadyClosure, SetStatus, HasChildren, Types, results
  <2>3. CASE Setup(w)
    BY <1>a, <2>3 DEF Setup, SetStatus, Types
  <2>4. CASE StealFinish(w)
    BY <1>a, <2>1, <2>4 DEF StealFinish, SetStatus, AddChild, Types, results
  <2>q. QED
    BY <1>3, <2>2, <2>3, <2>4
<1>4. CASE StealPromote(w)
  <2>1. PICK v \in Worker \ {w}, c \in Proc, k \in Proc : StealPromoteDoes(w, v, c, k)
    BY <1>4, StealPromoteEffect
  <2>q. QED
    BY <1>a, <2>1 DEF StealPromoteDoes
<1>5. CASE InletAborts(w)
  <2>1. PICK c \in Proc, r \in SUBSET Proc : InletAbortsDoes(w, c, r)
    BY <1>5, InletAbortsEffect
  <2>2. ASSUME NEW k \in Proc, InletSplits(w, c, k) PROVE Lives(w, d)
    <3>1. d \notin {c, k} => status'[d] = status[d]
      BY <1>a, <2>2 DEF InletSplits
    <3>2. status[k] = "none" /\ status'[k] = "RUNNING" /\ parent[k] = c
      BY <1>a, <2>2 DEF InletSplits
    <3>3. /\ status[c] = "RUNNING" /\ pc[w] \in WorkPC /\ c = Bottom(w)
          /\ status'[c] = "READY" /\ H[w] < T(w)
      BY <1>a, <2>2, StackFacts DEF InletSplits, WorkPC, PopPC
    <3>4. join'[c] = join[c] + 1
      BY <1>a, <2>2 DEF InletSplits, Types
    <3>5. alive' = alive /\ parent' = parent
      BY <2>1 DEF InletAbortsDoes
    <3>q. QED
      BY <3>1, <3>2, <3>3, <3>4, <3>5
  <2>q. QED
    BY <2>1, <2>2 DEF InletAbortsDoes
<1>6. CASE ReturnDone(w)
  <2>1. PICK k \in Proc, p \in Proc : ReturnDoneDoes(w, k, p)
    BY <1>6, ReturnDoneEffect
  <2>q. QED
    BY <1>a, <2>1 DEF ReturnDoneDoes
<1>7. CASE Sync(w) \/ SetResult(w)
  <2>1. (\E c \in Proc : SyncDoes(w, c)) \/ (\E c \in Proc : SetResultDoes(w, c))
    BY <1>7, SyncEffect, SetResultEffect
  <2>q. QED
    BY <1>a, <2>1 DEF SyncDoes, SetResultDoes, WorkPC, SlowPC, PolledPC, SyncedPC
<1>8. CASE RemoveAndFree(w)
  <2>1. RemoveAndFreeDoes(w)
    BY <1>8, RemoveAndFreeEffect
  <2>q. QED
    BY <1>a, <2>1 DEF RemoveAndFreeDoes, WorkPC, SlowPC, PolledPC, SyncedPC
<1>9. CASE HandlerStolen(w)
  <2>1. PICK c \in Proc : HandlerStolenDoes(w, c)
    BY <1>9, HandlerStolenEffect
  <2>q. QED
    BY <1>a, <2>1 DEF HandlerStolenDoes, WorkPC, PopPC, PolledPC
<1>10. CASE HandlerAbort(w)
  <2>1. PICK c \in Proc, f \in Proc : HandlerAbortDoes(w, c, f)
    BY <1>10, HandlerAbortEffect
  <2>q. QED
    BY <1>a, <2>1 DEF HandlerAbortDoes, AbortWaits, AbortReturns, AbortPops, WorkPC, PopPC,
       PolledPC
<1>q. QED
  BY <1>1, <1>2, <1>3, <1>4, <1>5, <1>6, <1>7, <1>8, <1>9, <1>10 DEF Step

(* A child is counted when its parent is stolen from, which makes the      *)
(* parent ready, and counted off when it has returned: a parent that waits *)
(* for it alone is made ready, with no inlet waiting.                      *)
Counts(w, d) ==
    \/ join'[d] = join[d]
    \/ join'[d] = join[d] + 1 /\ status[d] = "RUNNING" /\ status'[d] = "READY"
    \/ /\ pc[w] = "return" /\ d = cl[w] /\ join'[d] = join[d] - 1
       /\ status[d] = "SUSPENDED" /\ join[d] = 1 => status'[d] = "READY"
       /\ status[d] = "RUNNING" \/ complete'[d] = <<>>
LEMMA CountSteps ==
    ASSUME IInv, NEW w \in Worker, Step(w), NEW d \in Proc
    PROVE  Counts(w, d)
<1>a. Types
  BY DEF IInv
<1> USE DEF Counts, tree
<1>1. CASE \/ LeaveScheduler(w) \/ TakeOwn(w) \/ StealLockDeque(w) \/ StealLockClosure(w)
           \/ StealGiveUp(w) \/ StealUnlockDeque(w) \/ StealReady(w) \/ StealPromote(w)
           \/ InletKilled(w) \/ InletRuns(w) \/ WalkDown(w) \/ WalkUp(w)
           \/ AbortReadyClosure(w) \/ Setup(w)
           \/ SetupDone(w) \/ Execute(w) \/ ReturnLockParent(w) \/ ReturnEnqueue(w)
           \/ Spawn(w) \/ ReturnFast(w) \/ PopResult(w) \/ LockOwnDeque(w)
  BY <1>1 DEF LeaveScheduler, TakeOwn, StealLockDeque, StealLockClosure,
     StealGiveUp, StealUnlockDeque, StealReady, StealPromote, InletKilled, InletRuns,
     WalkDown, WalkUp, AbortReadyClosure, Setup, SetupDone, Execute, ReturnLockParent,
     ReturnEnqueue, Spawn, ReturnFast, PopResult, LockOwnDeque
<1>2. CASE \/ LockBottom(w) \/ Sync(w) \/ AbortSlow(w) \/ SetResult(w) \/ Done(w)
           \/ RemoveAndFree(w) \/ CilkExit(w) \/ CilkExitDone(w) \/ HandlerPolled(w)
           \/ HandlerSwap(w) \/ HandlerStolen(w) \/ HandlerAbort(w) \/ HandlerResume(w)
  BY <1>2 DEF LockBottom, Sync, AbortSlow, SetResult, Done, RemoveAndFree, CilkExit,
     CilkExitDone, HandlerPolled, HandlerSwap, HandlerStolen, HandlerAbort, HandlerResume
<1>3. CASE StealFinish(w)
  <2>1. cl[w] \in Proc /\ status[cl[w]] = "RUNNING"
    BY <1>3, LockFacts DEF StealFinish, IInv, InHandInv, LockPC
  <2>q. QED
    BY <1>a, <1>3, <2>1 DEF StealFinish, AddChild, SetStatus, Types
<1>4. CASE InletAborts(w)
  <2>1. PICK c \in Proc, r \in SUBSET Proc : InletAbortsDoes(w, c, r)
    BY <1>4, InletAbortsEffect
  <2>q. QED
    BY <1>a, <2>1 DEF InletAbortsDoes, InletSplits, Types, Counts
<1>5. CASE ReturnDone(w)
  <2>1. PICK k \in Proc, p \in Proc : ReturnDoneDoes(w, k, p)
    BY <1>5, ReturnDoneEffect
  <2>q. QED
    BY <1>a, <2>1 DEF ReturnDoneDoes, Types
<1>q. QED
  BY <1>1, <1>2, <1>3, <1>4, <1>5 DEF Step

(* What another worker works on is left to it, except that a thief takes  *)
(* its closure when there is a frame above the closure's own.             *)
LEMMA WorkStays ==
    ASSUME IInv, NEW w \in Worker, Step(w), NEW u \in Worker \ {w}, pc[u] \in WorkPC
    PROVE  \/ /\ H'[u] = H[u] /\ Bottom(u)' = Bottom(u)
              /\ status'[Bottom(u)] = status[Bottom(u)]
           \/ \E c \in Proc, k \in Proc : StealPromoteDoes(w, u, c, k)
<1>a. Types
  BY DEF IInv
<1>b. Bottom(u) \in Proc /\ status[Bottom(u)] \in {"RUNNING", "RETURNING"}
  BY WorkFacts
<1>s. status'[Bottom(u)] = status[Bottom(u)]
  <2>1. pc[w] \in WorkPC => Bottom(u) # Bottom(w)
    BY <1>b, BottomsApart
  <2>2. pc[w] = "stealFinish" => Bottom(u) # cl[w]
    BY <1>b, NotStolen
  <2>3. pc[w] = "return" => Bottom(u) # child[w]
    <3>1. Size(deque[u]) \in 1 .. Size(deque[u]) /\ Bottom(u) = deque[u][Size(deque[u])]
      BY <1>a, WorkFacts, DequeFacts
    <3>q. QED
      BY <3>1 DEF IInv, PlacesApart, ReturnPC
  <2>q. QED
    BY <1>b, <2>1, <2>2, <2>3, StatusSteps DEF Lives
<1> SUFFICES \/ H'[u] = H[u] /\ Bottom(u)' = Bottom(u)
             \/ \E c \in Proc, k \in Proc : StealPromoteDoes(w, u, c, k)
  BY <1>s
<1> USE DEF caches, Types
<1>1. CASE \/ LeaveScheduler(w) \/ StealLockDeque(w) \/ StealLockClosure(w)
           \/ StealGiveUp(w) \/ StealUnlockDeque(w) \/ StealFinish(w)
           \/ InletKilled(w) \/ InletRuns(w) \/ WalkDown(w) \/ WalkUp(w)
           \/ AbortReadyClosure(w) \/ Setup(w)
           \/ SetupDone(w) \/ ReturnLockParent(w) \/ ReturnEnqueue(w) \/ ReturnDone(w)
           \/ Spawn(w) \/ ReturnFast(w) \/ PopResult(w) \/ LockOwnDeque(w)
  BY <1>a, <1>1 DEF LeaveScheduler, StealLockDeque, StealLockClosure,
     StealGiveUp, StealUnlockDeque, StealFinish, InletKilled, InletRuns,
     WalkDown, WalkUp, AbortReadyClosure, Setup, SetupDone, ReturnLockParent,
     ReturnEnqueue, ReturnDone, Spawn, ReturnFast, PopResult, LockOwnDeque, Bottom
<1>2. CASE \/ LockBottom(w) \/ AbortSlow(w) \/ SetResult(w) \/ Done(w) \/ CilkExit(w)
           \/ CilkExitDone(w) \/ HandlerPolled(w) \/ HandlerSwap(w) \/ HandlerStolen(w)
           \/ HandlerResume(w)
  BY <1>a, <1>2 DEF LockBottom, AbortSlow, SetResult, Done, CilkExit, CilkExitDone, HandlerPolled,
     HandlerSwap, HandlerStolen, HandlerResume, Bottom
<1>3. CASE TakeOwn(w) \/ Execute(w) \/ Sync(w) \/ RemoveAndFree(w) \/ HandlerAbort(w)
  BY <1>a, <1>3 DEF TakeOwn, Execute, Sync, RemoveAndFree, HandlerAbort, Suspend, Bottom
<1>4. CASE StealReady(w)
  <2>1. PICK v \in Worker \ {w}, c \in Proc : StealReadyDoes(w, v, c)
    BY <1>4, StealReadyEffect
  <2>2. H' = H /\ (u # v => deque'[u] = deque[u])
    BY <2>1 DEF StealReadyDoes, Topped
  <2>3. u # v => Bottom(u)' = Bottom(u)
    BY <2>2 DEF Bottom
  <2>q. QED
    BY <2>1, <2>2, <2>3, StealReadyBottom
<1>5. CASE StealPromote(w)
  <2>1. PICK v \in Worker \ {w}, c \in Proc, k \in Proc : StealPromoteDoes(w, v, c, k)
    BY <1>5, StealPromoteEffect
  <2>q. QED
    BY <1>a, <2>1 DEF StealPromoteDoes, Bottom
<1>6. CASE InletAborts(w)
  <2>1. PICK c \in Proc, r \in SUBSET Proc : InletAbortsDoes(w, c, r)
    BY <1>6, InletAbortsEffect
  <2>2. H'[u] = H[u] /\ deque'[u] = deque[u]
    BY <1>a, <2>1 DEF InletAbortsDoes, InletSplits
  <2>q. QED
    BY <2>2 DEF Bottom
<1>q. QED
  BY <1>1, <1>2, <1>3, <1>4, <1>5, <1>6 DEF Step

(* Where a worker gets past the polls of its closure, and where it leaves *)
(* Cilk_exit.                                                             *)
LEMMA PolledSteps ==
    ASSUME Types, NEW w \in Worker, Step(w)
    PROVE  /\ pc[w] = "exitPoll" => CilkExitDone(w) \/ pc'[w] = "exitPoll"
           /\ pc'[w] \in PolledPC \cup {"handlerSwap", "handlerPoll"} =>
                 \/ LockOwnDeque(w) \/ Done(w) \/ LockBottom(w) \/ Sync(w) \/ HandlerPolled(w)
                 \/ HandlerSwap(w) \/ InletAborts(w)
                 \/ /\ InletKilled(w) \/ InletRuns(w) \/ WalkDown(w) \/ WalkUp(w)
                    /\ UNCHANGED <<pc, cl, deque, H>>
<1> USE DEF Types, Goto, PolledPC, SyncedPC
<1>1. CASE \/ LeaveScheduler(w) \/ TakeOwn(w) \/ StealLockDeque(w) \/ StealLockClosure(w)
           \/ StealGiveUp(w) \/ StealUnlockDeque(w) \/ StealReady(w) \/ StealPromote(w)
           \/ StealFinish(w) \/ AbortReadyClosure(w) \/ Setup(w)
           \/ SetupDone(w) \/ Execute(w) \/ ReturnLockParent(w) \/ ReturnEnqueue(w)
           \/ ReturnDone(w)
  BY <1>1 DEF LeaveScheduler, TakeOwn, StealLockDeque, StealLockClosure,
     StealGiveUp, StealUnlockDeque, StealReady, StealPromote, StealFinish,
     AbortReadyClosure, Setup, SetupDone, Execute, ReturnLockParent,
     ReturnEnqueue, ReturnDone
<1>2. CASE InletKilled(w) \/ InletRuns(w) \/ WalkDown(w) \/ WalkUp(w)
  BY <1>2 DEF InletKilled, InletRuns, WalkDown, WalkUp, caches
<1>3. CASE \/ Spawn(w) \/ ReturnFast(w) \/ PopResult(w)
           \/ AbortSlow(w) \/ SetResult(w) \/ RemoveAndFree(w) \/ CilkExit(w)
           \/ CilkExitDone(w) \/ HandlerStolen(w) \/ HandlerAbort(w) \/ HandlerResume(w)
  BY <1>3 DEF Spawn, ReturnFast, PopResult, AbortSlow, SetResult, RemoveAndFree,
     CilkExit, CilkExitDone, HandlerStolen, HandlerAbort, HandlerResume, Unwind
<1>4. CASE \/ LockOwnDeque(w) \/ Done(w) \/ LockBottom(w) \/ Sync(w) \/ HandlerPolled(w)
           \/ HandlerSwap(w) \/ InletAborts(w)
  <2>1. InletAborts(w) => pc' = pc
    BY DEF InletAborts
  <2>2. ~InletAborts(w) => pc[w] # "exitPoll"
    BY <1>4 DEF LockOwnDeque, SlowAborts, Done, AfterSync, LockBottom, Sync, HandlerPolled,
       HandlerSwap
  <2>q. QED
    BY <1>4, <2>1, <2>2
<1>q. QED
  BY <1>1, <1>2, <1>3, <1>4 DEF Step

(* A closure that is being returned, or was.                               *)
Over(k) == status[k] \in {"RETURNING", "freed"}

(* Most steps have nothing to do with frames and results.                  *)
Still(w) ==
    /\ UNCHANGED <<created, parent, alive, out, complete>>
    /\ \A d \in Proc : Over(d)' => Over(d)
    /\ pc'[w] = "return" => pc[w] = "return"
    /\ \/ aborts' = aborts + 1
       \/ aborts' = aborts /\ (pc'[w] = "abort" => pc[w] = "abort")
    /\ done' = done \/ Done(w)
    /\ pc[w] # "rootEnd"
    /\ \/ pc[w] \notin PopPC /\ pc'[w] \notin PopPC
       \/ /\ pc[w] \in PopPC /\ pc'[w] \in PopPC
          /\ UNCHANGED <<child, stack, H, deque, status>>

(* The others: the poll takes an inlet; a ready closure is given up; a    *)
(* caller receives a result; and those that have a name already.          *)
Takes(w, c) ==
    /\ pc[w] \in PollPC /\ c = cl[w] /\ complete[c] # <<>>
    /\ complete' = [complete EXCEPT ![c] = Tail(@)]
    /\ \/ abort[c] # NO_ABORT /\ Outcome(Head(complete[c]), "discarded")
       \/ Outcome(Head(complete[c]), "delivered")
    /\ \A d \in Proc : Over(d)' <=> Over(d)
    /\ UNCHANGED <<H, deque, status>> \/ \E k \in Proc : abort[c] = NO_ABORT /\ InletSplits(w, c, k)
    /\ aborts' \in {aborts, aborts + 1}
    /\ UNCHANGED <<created, parent, alive, stack, pc, child, done>>
Abandons(w, c) ==
    /\ pc[w] = "loop" /\ c = cl[w] /\ clock[c] = None
    /\ status[c] = "READY" /\ abort[c] # NO_ABORT /\ join[c] = 0
    /\ status' = [status EXCEPT ![c] = "RETURNING"]
    /\ alive' = alive \ {c} /\ Outcome(c, "discarded")
    /\ UNCHANGED <<created, parent, complete, abort, pc, child, stack, aborts, done>>
Receives(w) ==
    /\ pc[w] \in PopPC /\ H[w] < T(w)
    /\ ~signalled[w] \/ abort[Bottom(w)] = NO_ABORT
    /\ Outcome(child[w], "delivered")
    /\ pc' = [pc EXCEPT ![w] = "run"]
    /\ UNCHANGED <<created, parent, alive, complete, status, stack, aborts, done>>
Kind(w) ==
    \/ Still(w) \/ Receives(w) \/ CilkExitDoes(w) \/ RemoveAndFreeDoes(w)
    \/ \E c \in Proc : \/ Takes(w, c) \/ Abandons(w, c) \/ ReturnFastDoes(w, c)
                       \/ SetResultDoes(w, c) \/ HandlerStolenDoes(w, c)
    \/ \E c, f \in Proc : \/ ReturnEnqueueDoes(w, c, f) \/ SpawnDoes(w, c, f)
                          \/ HandlerAbortDoes(w, c, f)

(* An inlet that aborts returns no closure and frees none.                 *)
LEMMA InletOver ==
    ASSUME Types, NEW w \in Worker, NEW c \in Proc, NEW r, InletAbortsDoes(w, c, r),
           NEW e \in Proc
    PROVE  Over(e)' <=> Over(e)
<1>s. status \in [Proc -> Status]
  BY DEF Types
<1>1. CASE status' = status
  BY <1>1 DEF Over
<1>2. ASSUME NEW k \in Proc, InletSplits(w, c, k) PROVE Over(e)' <=> Over(e)
  <2>1. /\ status[c] = "RUNNING" /\ status[k] = "none"
        /\ status' = [status EXCEPT ![k] = "RUNNING", ![c] = "READY"]
    BY <1>2 DEF InletSplits
  <2>q. QED
    BY <1>s, <2>1 DEF Over
<1>q. QED
  BY <1>1, <1>2 DEF InletAbortsDoes

(* There are no other steps.                                               *)
LEMMA Kinds ==
    ASSUME IInv, NEW w \in Worker, Step(w)
    PROVE  Kind(w)
<1>a. Types
  BY DEF IInv
<1> USE DEF Types, Goto, Over, PopPC, program, results, tree, state, caches, locks
<1>1. CASE \/ LeaveScheduler(w) \/ TakeOwn(w) \/ StealLockDeque(w) \/ StealLockClosure(w)
           \/ StealGiveUp(w) \/ StealUnlockDeque(w) \/ StealReady(w) \/ StealFinish(w)
  <2>1. Still(w)
    BY <1>a, <1>1 DEF LeaveScheduler, TakeOwn, StealLockDeque, StealLockClosure,
       StealGiveUp, StealUnlockDeque, StealReady, StealFinish, SetStatus, Still, AddChild
  <2>q. QED
    BY <2>1 DEF Kind
<1>8. CASE Setup(w) \/ SetupDone(w) \/ Execute(w) \/ ReturnLockParent(w)
  <2>1. Still(w)
    BY <1>a, <1>8 DEF Setup, SetupDone, Execute, ReturnLockParent, SetStatus, Still
  <2>q. QED
    BY <2>1 DEF Kind
<1>2. CASE \/ LockOwnDeque(w) \/ LockBottom(w) \/ Sync(w) \/ AbortSlow(w) \/ Done(w)
           \/ CilkExitDone(w) \/ HandlerPolled(w) \/ HandlerSwap(w)
  <2>1. LockOwnDeque(w) => Still(w)
    BY <1>a DEF LockOwnDeque, SlowAborts, Still
  <2>2. LockBottom(w) => Still(w)
    BY <1>a DEF LockBottom, Still
  <2>3. Sync(w) => Still(w)
    BY <1>a DEF Sync, SetStatus, Suspend, Still
  <2>4. AbortSlow(w) \/ Done(w) \/ CilkExitDone(w) => Still(w)
    BY <1>a DEF AbortSlow, Done, AfterSync, CilkExitDone, Still
  <2>5. HandlerPolled(w) \/ HandlerSwap(w) => Still(w)
    BY <1>a DEF HandlerPolled, HandlerSwap, Still
  <2>q. QED
    BY <1>2, <2>1, <2>2, <2>3, <2>4, <2>5 DEF Kind
<1>9. CASE WalkDown(w) \/ WalkUp(w)
  <2>1. Still(w)
    <3>1. pc[w] # "rootEnd"
      BY <1>9 DEF WalkDown, WalkUp, IInv, WalkInv, PollPC
    <3>q. QED
      BY <1>a, <1>9, <3>1 DEF WalkDown, WalkUp, Still
  <2>q. QED
    BY <2>1 DEF Kind
<1>3. CASE StealPromote(w) \/ ReturnDone(w)
  <2>1. \/ \E v \in Worker \ {w}, c \in Proc, k \in Proc : StealPromoteDoes(w, v, c, k)
        \/ \E k \in Proc, p \in Proc : ReturnDoneDoes(w, k, p)
    BY <1>3, StealPromoteEffect, ReturnDoneEffect
  <2>2. Still(w)
    BY <1>a, <2>1 DEF StealPromoteDoes, ReturnDoneDoes, Still
  <2>q. QED
    BY <2>2 DEF Kind
<1>4. CASE InletKilled(w) \/ InletRuns(w) \/ InletAborts(w)
  <2>1. PICK c \in Proc : pc[w] \in PollPC /\ c = cl[w]
    BY <1>4, LockFacts DEF InletKilled, InletRuns, InletAborts, Polls, PollPC, LockPC
  <2>2. ASSUME InletAborts(w) PROVE Takes(w, c)
    <3>1. PICK d \in Proc, r \in SUBSET Proc : InletAbortsDoes(w, d, r)
      BY <2>2, InletAbortsEffect
    <3>2. \A e \in Proc : Over(e)' <=> Over(e)
      BY <1>a, <3>1, InletOver
    <3>q. QED
      BY <2>1, <3>1, <3>2 DEF InletAbortsDoes, Takes
  <2>3. InletKilled(w) \/ InletRuns(w) => Takes(w, c)
    BY <2>1 DEF InletKilled, InletRuns, Takes, BeingAborted
  <2>q. QED
    BY <1>4, <2>2, <2>3 DEF Kind
<1>5. CASE AbortReadyClosure(w)
  <2>1. cl[w] \in Proc
    BY <1>a, <1>5 DEF AbortReadyClosure
  <2>2. Still(w) \/ Abandons(w, cl[w])
    BY <1>a, <1>5 DEF AbortReadyClosure, Still, Abandons, BeingAborted, HasChildren, SetStatus
  <2>q. QED
    BY <2>1, <2>2 DEF Kind
<1>6. CASE PopResult(w) \/ HandlerResume(w)
  <2>1. pc[w] = "handlerAct" => cl[w] = Bottom(w)
    BY DEF IInv, InHandInv
  <2>2. H[w] \in Nat /\ T(w) \in Nat
    BY <1>a, StackFacts
  <2>3. Receives(w)
    BY <1>6, <2>1, <2>2 DEF PopResult, HandlerResume, Exception, Stolen, BeingAborted, Receives
  <2>q. QED
    BY <2>3 DEF Kind
<1>7. CASE \/ ReturnEnqueue(w) \/ Spawn(w) \/ ReturnFast(w) \/ SetResult(w)
           \/ RemoveAndFree(w) \/ CilkExit(w) \/ HandlerStolen(w) \/ HandlerAbort(w)
  BY <1>7, ReturnEnqueueEffect, SpawnEffect, ReturnFastEffect, SetResultEffect,
     RemoveAndFreeEffect, CilkExitEffect, HandlerStolenEffect, HandlerAbortEffect DEF Kind
<1>q. QED
  BY <1>1, <1>2, <1>3, <1>4, <1>5, <1>6, <1>7, <1>8, <1>9 DEF Step

(* Frames come with their spawn, which is the only step that gives a      *)
(* procedure its parent.                                                  *)
LEMMA SpawnSteps ==
    ASSUME IInv, NEW w \in Worker, Step(w)
    PROVE  \/ created' = created /\ parent' = parent /\ alive' \subseteq alive
           \/ \E c, f \in Proc : SpawnDoes(w, c, f)
<1>1. CASE Still(w) \/ Receives(w) \/ CilkExitDoes(w) \/ (\E c \in Proc : Takes(w, c))
  BY <1>1 DEF Still, Receives, CilkExitDoes, Takes
<1>2. CASE \/ RemoveAndFreeDoes(w)
           \/ \E c \in Proc : \/ Abandons(w, c) \/ ReturnFastDoes(w, c) \/ SetResultDoes(w, c)
                              \/ HandlerStolenDoes(w, c)
  BY <1>2 DEF RemoveAndFreeDoes, Abandons, ReturnFastDoes, SetResultDoes, HandlerStolenDoes
<1>3. CASE \E c, f \in Proc : \/ ReturnEnqueueDoes(w, c, f) \/ SpawnDoes(w, c, f)
                              \/ HandlerAbortDoes(w, c, f)
  BY <1>3 DEF ReturnEnqueueDoes, HandlerAbortDoes, AbortWaits, AbortReturns, AbortPops
<1>q. QED
  BY <1>1, <1>2, <1>3, Kinds DEF Kind

(* What has a closure was spawned. *)
LEMMA SpawnedFirst ==
    ASSUME IInv, NEW k \in Proc, status[k] # "none"
    PROVE  k <= created
<1>1. created \in Nat /\ k \in Nat /\ k <= MaxProc /\ MaxProc \in Nat
  BY BoundAssumption DEF IInv, Types, Proc
<1>2. k \in created + 1 .. MaxProc => status[k] = "none"
  BY DEF IInv, ParentInv
<1>q. QED
  BY <1>1, <1>2

(* The parent of a procedure stays the same.                               *)
LEMMA ParentStays ==
    ASSUME IInv, NEW w \in Worker, Step(w), NEW k \in Proc, k <= created
    PROVE  parent'[k] = parent[k]
<1>1. created \in Nat /\ k # created + 1 /\ parent \in [Proc -> Proc \cup {None}]
  BY BoundAssumption DEF IInv, Types, Proc
<1>q. QED
  BY <1>1, SpawnSteps DEF SpawnDoes

(* A worker comes to a pop with the frame it has just removed, or it goes *)
(* on with the one it has.                                                *)
LEMMA PopSteps ==
    ASSUME IInv, NEW w \in Worker, Step(w), pc'[w] \in PopPC
    PROVE  \/ /\ pc[w] \in PopPC /\ child'[w] = child[w] /\ stack'[w] = stack[w]
              /\ UNCHANGED <<H, deque>> \/ \E c, k \in Proc : InletSplits(w, c, k)
           \/ \E c \in Proc : ReturnFastDoes(w, c) /\ child'[w] = c /\ c \notin alive'
           \/ \E c \in Proc : HandlerStolenDoes(w, c) /\ child'[w] = None
           \/ \E c, f \in Proc : /\ HandlerAbortDoes(w, c, f) /\ child'[w] = Running(w)
                                 /\ child'[w] \notin alive' /\ ~AbortWaits(w, c)
<1>a. Types
  BY DEF IInv
<1> USE DEF PopPC
<1>1. CASE Still(w) \/ (\E c \in Proc : Takes(w, c))
  BY <1>1 DEF Still, Takes
<1>2. Receives(w) \/ CilkExitDoes(w) \/ RemoveAndFreeDoes(w) => pc'[w] \notin PopPC
  BY <1>a DEF Receives, CilkExitDoes, RemoveAndFreeDoes, Types
<1>3. ASSUME NEW c \in Proc, NEW f \in Proc
      PROVE  /\ Abandons(w, c) \/ SetResultDoes(w, c) => pc'[w] \notin PopPC
             /\ ReturnEnqueueDoes(w, c, f) \/ SpawnDoes(w, c, f) => pc'[w] \notin PopPC
  <2>1. Abandons(w, c) \/ SetResultDoes(w, c) => pc'[w] \notin PopPC
    BY <1>a DEF Abandons, SetResultDoes, Types
  <2>2. ReturnEnqueueDoes(w, c, f) \/ SpawnDoes(w, c, f) => pc'[w] \notin PopPC
    BY <1>a DEF ReturnEnqueueDoes, SpawnDoes, Types
  <2>q. QED
    BY <2>1, <2>2
<1>4. ASSUME NEW c \in Proc
      PROVE  /\ ReturnFastDoes(w, c) => child'[w] = c /\ c \notin alive'
             /\ HandlerStolenDoes(w, c) => child'[w] = None
  BY <1>a DEF ReturnFastDoes, HandlerStolenDoes, Types
<1>5. ASSUME NEW c \in Proc, NEW f \in Proc, HandlerAbortDoes(w, c, f)
      PROVE  /\ child'[w] = Running(w) /\ child'[w] \notin alive' /\ ~AbortWaits(w, c)
  BY <1>a, <1>5 DEF HandlerAbortDoes, AbortWaits, AbortReturns, AbortPops, Running, Types
<1>q. QED
  BY <1>1, <1>2, <1>3, <1>4, <1>5, Kinds DEF Kind

(* What a step does to its worker's own stack, if the worker works on its  *)
(* closure then: it leaves it alone, or sets it up to run, and the others. *)
OwnSteps(w) ==
    \/ pc'[w] \notin WorkPC /\ T(w)' <= 1
    \/ /\ stack'[w] = stack[w] /\ H'[w] = H[w] /\ (pc'[w] \in WorkPC => pc[w] \in WorkPC)
       /\ pc'[w] \in WorkPC => Bottom(w)' = Bottom(w)
    \/ /\ stack'[w] = stack[w] /\ H'[w] = H[w] /\ T(w) = 1 /\ alive' = alive
       /\ pc[w] = "add" /\ Bottom(w)' = cl[w]
    \/ /\ alive' = alive /\ \E c, k \in Proc : InletSplits(w, c, k)
       /\ stack' = stack
    \/ \E c \in Proc : ReturnFastDoes(w, c) \/ HandlerStolenDoes(w, c)
    \/ \E c, f \in Proc : SpawnDoes(w, c, f) \/ HandlerAbortDoes(w, c, f)
LEMMA OwnStack ==
    ASSUME IInv, NEW w \in Worker, Step(w)
    PROVE  OwnSteps(w)
<1>a. Types
  BY DEF IInv
<1> USE DEF OwnSteps, WorkPC, PopPC, SlowPC, caches, Goto
<1>1. CASE \/ LeaveScheduler(w) \/ TakeOwn(w) \/ StealLockDeque(w) \/ StealLockClosure(w)
           \/ StealGiveUp(w) \/ StealUnlockDeque(w) \/ StealReady(w)
  <2>1. pc \in [Worker -> PC]
    BY <1>a DEF Types
  <2>2. LeaveScheduler(w) \/ TakeOwn(w) => OwnSteps(w)
    BY <2>1 DEF LeaveScheduler, TakeOwn
  <2>3. StealLockDeque(w) \/ StealLockClosure(w) => OwnSteps(w)
    BY <2>1 DEF StealLockDeque, StealLockClosure
  <2>4. StealGiveUp(w) \/ StealUnlockDeque(w) => OwnSteps(w)
    BY <2>1 DEF StealGiveUp, StealUnlockDeque
  <2>5. StealReady(w) => OwnSteps(w)
    BY <2>1 DEF StealReady
  <2>q. QED
    BY <1>1, <2>2, <2>3, <2>4, <2>5
<1>10. CASE \/ StealFinish(w) \/ AbortReadyClosure(w) \/ ReturnLockParent(w)
            \/ ReturnEnqueue(w) \/ ReturnDone(w)
  <2>1. UNCHANGED <<stack, H>>
    BY <1>10 DEF StealFinish, AbortReadyClosure, ReturnLockParent, ReturnEnqueue, ReturnDone
  <2>2. pc'[w] \notin WorkPC
    BY <1>a, <1>10 DEF StealFinish, AbortReadyClosure, ReturnLockParent, ReturnEnqueue,
       ReturnDone, Types
  <2>q. QED
    BY <2>1, <2>2
<1>2. CASE \/ InletKilled(w) \/ InletRuns(w) \/ WalkDown(w) \/ WalkUp(w) \/ PopResult(w)
           \/ LockOwnDeque(w) \/ LockBottom(w) \/ AbortSlow(w) \/ Done(w)
  BY <1>a, <1>2 DEF InletKilled, InletRuns, WalkDown, WalkUp, PopResult, LockOwnDeque,
     SlowAborts, LockBottom, AbortSlow, Done, AfterSync, Exception, Types, Bottom
<1>3. CASE \/ CilkExit(w) \/ CilkExitDone(w) \/ HandlerPolled(w) \/ HandlerSwap(w)
           \/ HandlerResume(w)
  BY <1>a, <1>3 DEF CilkExit, CilkExitDone, HandlerPolled, HandlerSwap, HandlerResume, Types, Bottom
<1>4. CASE StealPromote(w)
  <2>1. PICK v \in Worker \ {w}, c \in Proc, k \in Proc : StealPromoteDoes(w, v, c, k)
    BY <1>4, StealPromoteEffect
  <2>q. QED
    BY <1>a, <2>1 DEF StealPromoteDoes, Types
<1>5. CASE Setup(w) \/ SetupDone(w)
  <2>0. stack'[w] = <<cl[w]>> => T(w)' = 1
    BY DEF T
  <2>1. T(w)' <= 1 \/ UNCHANGED <<stack, H>>
    BY <1>a, <1>5, <2>0 DEF Setup, SetupDone, Types
  <2>2. pc'[w] \notin WorkPC
    BY <1>a, <1>5 DEF Setup, SetupDone, Types
  <2>q. QED
    BY <2>1, <2>2
<1>6. CASE Execute(w)
  <2>1. PICK c \in Proc : ExecuteDoes(w, c)
    BY <1>6, ExecuteEffect
  <2>2. Bottom(w)' = c
    BY <2>1 DEF ExecuteDoes, Extended, Bottom, Size
  <2>q. QED
    BY <2>1, <2>2 DEF ExecuteDoes
<1>7. CASE InletAborts(w)
  <2>1. PICK c \in Proc, r \in SUBSET Proc : InletAbortsDoes(w, c, r)
    BY <1>7, InletAbortsEffect
  <2>q. QED
    BY <2>1 DEF InletAbortsDoes, Bottom
<1>8. CASE Sync(w) \/ SetResult(w) \/ RemoveAndFree(w)
  <2>1. stack'[w] = <<>> => T(w)' = 0
    BY DEF T
  <2>2. ASSUME NEW c \in Proc, SyncDoes(w, c) PROVE OwnSteps(w)
    <3>1. \/ stack'[w] = <<>> /\ pc'[w] = "loop"
          \/ UNCHANGED <<stack, H, deque>>
      BY <1>a, <2>2 DEF SyncDoes, Types
    <3>2. pc[w] \in WorkPC
      BY <2>2 DEF SyncDoes
    <3>3. UNCHANGED <<stack, H, deque>> => Bottom(w)' = Bottom(w)
      BY DEF Bottom
    <3>q. QED
      BY <2>1, <3>1, <3>2, <3>3
  <2>3. ASSUME RemoveAndFreeDoes(w) \/ \E c \in Proc : SetResultDoes(w, c) PROVE OwnSteps(w)
    BY <1>a, <2>1, <2>3 DEF RemoveAndFreeDoes, SetResultDoes, Types
  <2>q. QED
    BY <1>8, <2>2, <2>3, SyncEffect, SetResultEffect, RemoveAndFreeEffect
<1>9. CASE Spawn(w) \/ ReturnFast(w) \/ HandlerStolen(w) \/ HandlerAbort(w)
  BY <1>9, SpawnEffect, ReturnFastEffect, HandlerStolenEffect, HandlerAbortEffect
<1>q. QED
  BY <1>1, <1>2, <1>3, <1>4, <1>5, <1>6, <1>7, <1>8, <1>9, <1>10 DEF Step

(* A frame is removed by the worker that has its closure in hand, ready,  *)
(* or that works on its closure, or on whose stack it is the top.         *)
Removes(w, f) ==
    \/ pc[w] = "loop" /\ cl[w] = f /\ status[f] = "READY"
    \/ pc[w] \in WorkPC /\ f = Bottom(w)
    \/ pc[w] \in WorkPC /\ H[w] + 1 < T(w) /\ f = stack[w][T(w)]
LEMMA GoneSteps ==
    ASSUME IInv, NEW w \in Worker, Step(w), NEW f \in Proc, f \in alive, f \notin alive'
    PROVE  /\ Removes(w, f) /\ status'[f] \notin {"READY", "SUSPENDED"}
           /\ T(w)' <= 1 \/ T(w)' = T(w) - 1
           /\ pc[w] \in WorkPC /\ f = Bottom(w) /\ pc'[w] \in WorkPC => H'[w] >= T(w)'
<1>a. Types
  BY DEF IInv
<1> USE DEF Removes, WorkPC, PopPC, SlowPC
<1>0. H[w] \in Nat /\ T(w) \in Nat
  BY <1>a, StackFacts
<1>1. \/ Abandons(w, f) \/ ReturnFastDoes(w, f) \/ SetResultDoes(w, f)
      \/ RemoveAndFreeDoes(w) /\ f = Root
      \/ \E c, g \in Proc : HandlerAbortDoes(w, c, g)
  <2>1. ~(Still(w) \/ Receives(w) \/ CilkExitDoes(w) \/ (\E c \in Proc : Takes(w, c)))
    BY DEF Still, Receives, CilkExitDoes, Takes
  <2>2. ~(\E c \in Proc : HandlerStolenDoes(w, c))
    BY DEF HandlerStolenDoes
  <2>3. ~(\E c, g \in Proc : ReturnEnqueueDoes(w, c, g) \/ SpawnDoes(w, c, g))
    BY DEF ReturnEnqueueDoes, SpawnDoes
  <2>4. \A c \in Proc : Abandons(w, c) \/ ReturnFastDoes(w, c) \/ SetResultDoes(w, c) => c = f
    BY DEF Abandons, ReturnFastDoes, SetResultDoes
  <2>q. QED
    BY <2>1, <2>2, <2>3, <2>4, Kinds DEF Kind, RemoveAndFreeDoes
<1>2. CASE Abandons(w, f)
  <2>1. T(w)' = T(w) /\ pc[w] = "loop"
    BY <1>2 DEF Abandons, T
  <2>2. T(w)' <= 1
    BY <1>a, <1>0, <2>1, StackFacts DEF IInv, StackInv
  <2>q. QED
    BY <1>a, <1>2, <2>1, <2>2 DEF Abandons, Types
<1>3. CASE ReturnFastDoes(w, f)
  <2>1. /\ f = stack[w][T(w)] /\ T(w) > 1 /\ T(w)' = T(w) - 1 /\ pc[w] = "run"
        /\ UNCHANGED <<H, deque, status>>
    BY <1>3 DEF ReturnFastDoes, Shortened, T, Size
  <2>2. H[w] < T(w) /\ status[Bottom(w)] = "RUNNING"
        /\ stack[w][H[w] + 1] = Bottom(w)
    BY <2>1, WorkFacts DEF IInv, StackInv
  <2>3. H[w] + 1 = T(w) => f = Bottom(w)
    BY <2>1, <2>2
  <2>4. H[w] + 1 # T(w) => H[w] + 1 < T(w) /\ status[f] = "none"
    BY <1>0, <1>3, <2>2 DEF ReturnFastDoes
  <2>5. Bottom(w)' = Bottom(w) /\ H'[w] = H[w]
    BY <2>1 DEF Bottom
  <2>q. QED
    BY <1>0, <2>1, <2>2, <2>3, <2>4, <2>5
<1>4. CASE SetResultDoes(w, f) \/ (RemoveAndFreeDoes(w) /\ f = Root)
  <2>1. T(w)' <= 1
    <3>1. stack'[w] = <<>>
      BY <1>a, <1>4 DEF SetResultDoes, RemoveAndFreeDoes, Types
    <3>q. QED
      BY <3>1 DEF T
  <2>2. /\ pc[w] \in {"setResult", "rootEnd"} /\ f = Bottom(w)
        /\ status'[f] \in {"RETURNING", "freed"} /\ pc'[w] = "loop"
    BY <1>a, <1>4 DEF SetResultDoes, RemoveAndFreeDoes, Types
  <2>q. QED
    BY <2>1, <2>2
<1>5. ASSUME NEW c \in Proc, NEW g \in Proc, HandlerAbortDoes(w, c, g)
      PROVE  /\ Removes(w, f) /\ status'[f] \notin {"READY", "SUSPENDED"}
             /\ T(w)' <= 1 \/ T(w)' = T(w) - 1
             /\ pc[w] \in WorkPC /\ f = Bottom(w) /\ pc'[w] \in WorkPC => H'[w] >= T(w)'
  <2>1. /\ T(w)' = T(w) - 1 /\ H'[w] = H[w] /\ pc[w] = "handlerAct"
        /\ c = Bottom(w) /\ status[c] = "RUNNING"
        /\ AbortWaits(w, c) \/ AbortReturns(w, c) \/ AbortPops(w, g)
    BY <1>5 DEF HandlerAbortDoes, Shortened, T, Size
  <2>2. ~AbortWaits(w, c)
    BY DEF AbortWaits
  <2>3. CASE AbortReturns(w, c)
    BY <1>a, <1>0, <2>1, <2>3 DEF AbortReturns, Types
  <2>4. CASE AbortPops(w, g)
    BY <1>a, <1>0, <2>1, <2>4 DEF AbortPops, Types
  <2>q. QED
    BY <2>1, <2>2, <2>3, <2>4
<1>q. QED
  BY <1>1, <1>2, <1>3, <1>4, <1>5

(* What a worker carries to be run, or to be stolen, was ready, or it is  *)
(* the closure of another that works on it and has a frame above it.      *)
CarryPC == {"setup", "add", "stealFinish"}
LEMMA CarrySteps ==
    ASSUME IInv, NEW w \in Worker, Step(w), pc'[w] \in CarryPC
    PROVE  /\ cl'[w] = cl[w] /\ alive' = alive
           /\ \/ pc[w] \in CarryPC
              \/ pc[w] = "loop" /\ cl[w] \in Proc /\ status[cl[w]] = "READY"
              \/ \E v \in Worker, c, k \in Proc : StealPromoteDoes(w, v, c, k)
<1>a. Types
  BY DEF IInv
<1> USE DEF CarryPC, Types, Goto
<1>1. CASE StealPromote(w)
  <2>1. PICK v \in Worker \ {w}, c \in Proc, k \in Proc : StealPromoteDoes(w, v, c, k)
    BY <1>1, StealPromoteEffect
  <2>q. QED
    BY <2>1 DEF StealPromoteDoes
<1>2. CASE Setup(w) \/ SetupDone(w)
  BY <1>a, <1>2, BoundAssumption DEF Setup, SetupDone, program, results, Proc, None
<1>3. CASE InletKilled(w) \/ InletRuns(w) \/ InletAborts(w) \/ WalkDown(w) \/ WalkUp(w)
  BY <1>3 DEF InletKilled, InletRuns, InletAborts, WalkDown, WalkUp, program, results
<1>4. CASE \/ LeaveScheduler(w) \/ TakeOwn(w) \/ StealLockDeque(w) \/ StealLockClosure(w)
           \/ StealGiveUp(w) \/ StealUnlockDeque(w) \/ StealReady(w) \/ StealFinish(w)
           \/ AbortReadyClosure(w) \/ Execute(w) \/ ReturnLockParent(w)
           \/ ReturnEnqueue(w) \/ ReturnDone(w)
  BY <1>a, <1>4 DEF LeaveScheduler, TakeOwn, StealLockDeque, StealLockClosure, StealGiveUp,
     StealUnlockDeque, StealReady, StealFinish, AbortReadyClosure, Execute, ReturnLockParent,
     ReturnEnqueue, ReturnDone
<1>5. CASE \/ Spawn(w) \/ ReturnFast(w) \/ PopResult(w) \/ LockOwnDeque(w) \/ LockBottom(w)
           \/ Sync(w) \/ AbortSlow(w) \/ SetResult(w) \/ Done(w) \/ RemoveAndFree(w)
  <2>1. pc \in [Worker -> PC]
    BY <1>a
  <2>2. pc'[w] # "setup" /\ pc'[w] # "add" /\ pc'[w] # "stealFinish"
    <3>1. CASE Spawn(w) \/ ReturnFast(w) \/ PopResult(w) \/ LockOwnDeque(w) \/ LockBottom(w)
      BY <2>1, <3>1 DEF Spawn, ReturnFast, PopResult, LockOwnDeque, LockBottom
    <3>2. CASE Sync(w) \/ AbortSlow(w) \/ SetResult(w) \/ Done(w) \/ RemoveAndFree(w)
      BY <2>1, <3>2 DEF Sync, AbortSlow, SetResult, Done, RemoveAndFree
    <3>q. QED
      BY <1>5, <3>1, <3>2
  <2>q. QED
    BY <2>2
<1>6. CASE \/ CilkExit(w) \/ CilkExitDone(w) \/ HandlerPolled(w) \/ HandlerSwap(w)
           \/ HandlerStolen(w) \/ HandlerAbort(w) \/ HandlerResume(w)
  BY <1>a, <1>6 DEF CilkExit, CilkExitDone, HandlerPolled, HandlerSwap, HandlerStolen,
     HandlerAbort, HandlerResume, Unwind
<1>q. QED
  BY <1>1, <1>2, <1>3, <1>4, <1>5, <1>6 DEF Step

(***************************************************************************)
(* The tree's invariant is kept, part by part.                             *)
(***************************************************************************)

(* The lists of children are kept: a child goes on the list when it is    *)
(* promoted, at last, and off when Closure_return has its parent's lock.  *)
LEMMA ListInvStep ==
    ASSUME IInv, TreeInv, [Next]_vars
    PROVE  ListInv'
<1>a. Types /\ Types'
  BY NextIInv DEF IInv
<1>s. /\ \A p, k \in Proc :
            k \in incomplete[p] <=> parent[k] = p /\ Live(k) /\ ~Absent(k)
      /\ \A w \in Worker : pc[w] = "stealFinish" => Live(child[w])
  BY DEF TreeInv, ListInv
<1>h. ASSUME NEW w \in Worker, UNCHANGED <<parent, incomplete>>,
             \A u \in Worker \ {w} : pc'[u] = pc[u] /\ child'[u] = child[u],
             \A d \in Proc : Leaves(w, d)' <=> Leaves(w, d),
             \A d \in Proc : Live(d)' <=> Live(d),
             pc'[w] = "stealFinish" =>
                pc[w] = "stealFinish" /\ child'[w] = child[w]
      PROVE  ListInv'
  <2>1. \A d \in Proc : Absent(d)' <=> Absent(d)
    BY <1>h DEF Absent, Leaves
  <2>2. \A u \in Worker : pc'[u] = "stealFinish" =>
           pc[u] = "stealFinish" /\ child'[u] = child[u]
    BY <1>h
  <2>3. \A u \in Worker : pc[u] = "stealFinish" => child[u] \in Proc
    BY AbsentFacts DEF AbsentPC
  <2>q. QED
    BY <1>h, <1>s, <2>1, <2>2, <2>3 DEF ListInv
<1>m. ASSUME NEW w \in Worker, NEW l, pc' = [pc EXCEPT ![w] = l],
             l \in AbsentPC <=> pc[w] \in AbsentPC,
             l = "stealFinish" <=> pc[w] = "stealFinish",
             UNCHANGED <<child, status, parent, incomplete>>
      PROVE  ListInv'
  <2>1. pc'[w] = l /\ \A u \in Worker \ {w} : pc'[u] = pc[u]
    BY <1>a, <1>m DEF Types
  <2>2. \A d \in Proc : Leaves(w, d)' <=> Leaves(w, d)
    BY <1>m, <2>1 DEF Leaves
  <2>q. QED
    BY <1>h, <1>m, <2>1, <2>2 DEF Live
<1>o. ASSUME NEW w \in Worker, NEW k \in Proc,
             \A u \in Worker \ {w} : pc'[u] = pc[u] /\ child'[u] = child[u],
             \A d \in Proc \ {k} : Leaves(w, d)' <=> Leaves(w, d)
      PROVE  \A d \in Proc \ {k} : Absent(d)' <=> Absent(d)
  BY <1>o DEF Absent, Leaves
<1>f. ASSUME UNCHANGED <<pc, child, status, parent, incomplete>>
      PROVE  ListInv'
BY <1>f DEF TreeInv, ListInv, Absent, Leaves, Live
<1>g. ASSUME NEW w \in Worker, NEW l, pc' = [pc EXCEPT ![w] = l],
             l \in AbsentPC <=> pc[w] \in AbsentPC,
             l = "stealFinish" <=> pc[w] = "stealFinish",
             UNCHANGED <<child, status, parent, incomplete>>
      PROVE  ListInv'
BY <1>g, <1>m
<1>1. ASSUME NEW w \in Worker, LeaveScheduler(w) PROVE ListInv'
  BY <1>g, <1>1 DEF LeaveScheduler, program, results, state, tree, locks,
     caches, Goto, AbsentPC
<1>2. ASSUME NEW w \in Worker, TakeOwn(w) PROVE ListInv'
  <2>1. TakeOwnDoes(w)
    BY <1>2, TakeOwnEffect
  <2>q. QED
    BY <1>f, <1>g, <2>1 DEF TakeOwnDoes, AbsentPC
<1>3. ASSUME NEW w \in Worker, StealLockDeque(w) PROVE ListInv'
  BY <1>g, <1>3 DEF StealLockDeque, program, results, state, tree, caches,
     Goto, LockDeque, Peek, Hand, AbsentPC
<1>4. ASSUME NEW w \in Worker, StealLockClosure(w) PROVE ListInv'
  BY <1>g, <1>4 DEF StealLockClosure, program, results, state, tree, caches,
     Goto, LockClosure, AbsentPC
<1>5. ASSUME NEW w \in Worker, StealGiveUp(w) PROVE ListInv'
  BY <1>g, <1>5 DEF StealGiveUp, program, results, state, tree, caches, Goto,
     Hand, UnlockClosure, BeingAborted, AbsentPC
<1>6. ASSUME NEW w \in Worker, StealUnlockDeque(w) PROVE ListInv'
  BY <1>g, <1>6 DEF StealUnlockDeque, program, results, state, tree, caches,
     Goto, UnlockDeque, AbsentPC
<1>7. ASSUME NEW w \in Worker, StealReady(w) PROVE ListInv'
  <2>1. PICK v \in Worker \ {w}, c \in Proc :
          StealReadyDoes(w, v, c)
    BY <1>7, StealReadyEffect
  <2>q. QED
    BY <1>g, <2>1 DEF StealReadyDoes, AbsentPC
<1>8. ASSUME NEW w \in Worker, StealPromote(w) PROVE ListInv'
  <2>1. PICK v \in Worker \ {w}, c \in Proc, k \in Proc :
          StealPromoteDoes(w, v, c, k)
    BY <1>8, StealPromoteEffect
  <2>2. /\ pc[w] = "stealClosure" /\ v = victim[w] /\ c = cl[w]
        /\ k = stack[v][H[v] + 2] /\ deque[v] = <<c>>
        /\ pc[v] \in WorkPC \ OwnDequePC /\ H[v] + 1 < T(v)
        /\ status[c] = "RUNNING" /\ stack[v][H[v] + 1] = c /\ k # c /\ k # Root
        /\ status[k] = "none" /\ parent[k] = c
        /\ pc' = [pc EXCEPT ![w] = "stealFinish"]
        /\ child' = [child EXCEPT ![w] = k]
        /\ status' = [status EXCEPT ![k] = "RUNNING"]
        /\ UNCHANGED <<parent, incomplete>>
    BY <2>1 DEF StealPromoteDoes
  <2>3. /\ "stealClosure" \notin AbsentPC /\ "stealFinish" \in AbsentPC
    BY <2>2 DEF AbsentPC
  <2>4. pc'[w] = "stealFinish" /\ child'[w] = k
    BY <1>a, <2>2 DEF Types
  <2>5. \A u \in Worker \ {w} : pc'[u] = pc[u] /\ child'[u] = child[u]
    BY <1>a, <2>2 DEF Types
  <2>6. Leaves(w, k)' /\ \A d \in Proc \ {k} : Leaves(w, d)' <=> Leaves(w, d)
    BY <2>2, <2>3, <2>4 DEF Leaves
  <2>7. Absent(k)' /\ \A d \in Proc \ {k} : Absent(d)' <=> Absent(d)
    BY <1>o, <2>5, <2>6 DEF Absent
  <2>8. ~Live(k) /\ Live(k)' /\ \A d \in Proc \ {k} : Live(d)' <=> Live(d)
    BY <1>a, <2>2 DEF Types, Live
  <2>9. ASSUME NEW p \in Proc, NEW d \in Proc
        PROVE  d \in incomplete'[p] <=> parent'[d] = p /\ Live(d)' /\ ~Absent(d)'
    BY <1>s, <2>2, <2>7, <2>8
  <2>10. ASSUME NEW u \in Worker, pc'[u] = "stealFinish"
        PROVE  status'[child'[u]] \notin {"none", "freed"}
    <3>1. CASE u = w
      BY <2>4, <2>8, <3>1 DEF Live
    <3>2. CASE u # w
      <4>1. child'[u] = child[u] /\ pc[u] = "stealFinish"
        BY <2>5, <2>10, <3>2
      <4>2. child[u] \in Proc
        BY <4>1, AbsentFacts DEF AbsentPC
      <4>q. QED
        BY <1>s, <2>8, <4>1, <4>2 DEF Live
    <3>q. QED
      BY <3>1, <3>2
  <2>q. QED
    BY <2>9, <2>10 DEF ListInv, Live
<1>9. ASSUME NEW w \in Worker, StealFinish(w) PROVE ListInv'
  <2>2. /\ pc[w] = "stealFinish" /\ pc' = [pc EXCEPT ![w] = "loop"]
        /\ child' = [child EXCEPT ![w] = None]
        /\ status' = [status EXCEPT ![cl[w]] = "READY"]
        /\ incomplete' = [incomplete EXCEPT ![cl[w]] = @ \cup {child[w]}]
        /\ UNCHANGED <<parent>>
    BY <1>9 DEF StealFinish, program, results, caches, Goto, UnlockClosure,
       SetStatus, AddChild
  <2>3. /\ "stealFinish" \in AbsentPC /\ "loop" \notin AbsentPC
    BY <2>2 DEF AbsentPC
  <2>a. /\ cl[w] \in Proc /\ child[w] \in Proc /\ child[w] # None
        /\ parent[child[w]] = cl[w] /\ Live(child[w]) /\ status[cl[w]] = "RUNNING"
        /\ \A u \in Worker \ {w} : ~Leaves(u, child[w])
    BY <2>2, <2>3, AbsentFacts DEF IInv, InHandInv, ChildInv
  <2>4. pc'[w] = "loop" /\ child'[w] = None
    BY <1>a, <2>2 DEF Types
  <2>5. \A u \in Worker \ {w} : pc'[u] = pc[u] /\ child'[u] = child[u]
    BY <1>a, <2>2 DEF Types
  <2>6. \A d \in Proc : ~Leaves(w, d)' /\ (Leaves(w, d) <=> d = child[w])
    BY <2>2, <2>3, <2>4 DEF Leaves
  <2>7. /\ Absent(child[w]) /\ ~(\E u \in Worker : child'[u] = child[w] /\ pc'[u] \in AbsentPC)
        /\ \A d \in Proc \ {child[w]} : Absent(d)' <=> Absent(d)
    <3>1. ~(\E u \in Worker : child'[u] = child[w] /\ pc'[u] \in AbsentPC)
      BY <2>a, <2>3, <2>4, <2>5 DEF Leaves
    <3>q. QED
      BY <1>o, <2>a, <2>5, <2>6, <3>1 DEF Absent
  <2>8. \A d \in Proc : Live(d)' <=> Live(d)
    BY <1>a, <2>2, <2>a DEF Types, Live
  <2>9. ASSUME NEW p \in Proc, NEW d \in Proc
        PROVE  d \in incomplete'[p] <=> parent'[d] = p /\ Live(d)' /\ ~Absent(d)'
    <3>1. d \in incomplete'[p] <=> d \in incomplete[p] \/ (p = cl[w] /\ d = child[w])
      BY <1>a, <2>2, <2>a DEF Types
    <3>2. CASE d = child[w]
      <4>1. Live(d)' /\ parent'[d] = cl[w]
        BY <2>2, <2>a, <2>8, <3>2
      <4>2. ~Absent(d)'
        BY <2>7, <3>2 DEF Absent, Leaves
      <4>q. QED
        BY <1>s, <2>7, <2>a, <3>1, <3>2, <4>1, <4>2
    <3>3. CASE d # child[w]
      BY <1>s, <2>2, <2>7, <2>8, <3>1, <3>3
    <3>q. QED
      BY <3>2, <3>3
  <2>10. ASSUME NEW u \in Worker, pc'[u] = "stealFinish"
         PROVE  status'[child'[u]] \notin {"none", "freed"}
    <3>1. u # w /\ child'[u] = child[u] /\ pc[u] = "stealFinish"
      BY <2>4, <2>5, <2>10
    <3>2. child[u] \in Proc
      BY <3>1, AbsentFacts DEF AbsentPC
    <3>q. QED
      BY <1>s, <2>8, <3>1, <3>2 DEF Live
  <2>q. QED
    BY <2>9, <2>10 DEF ListInv, Live
<1>10. ASSUME NEW w \in Worker, InletKilled(w) PROVE ListInv'
  BY <1>f, <1>10 DEF InletKilled, program, state, locks, caches, Outcome,
     BeingAborted, Polls
<1>11. ASSUME NEW w \in Worker, InletRuns(w) PROVE ListInv'
  BY <1>f, <1>11 DEF InletRuns, program, state, locks, caches, Outcome,
     BeingAborted, Polls
<1>12. ASSUME NEW w \in Worker, InletAborts(w) PROVE ListInv'
  <2>1. PICK c \in Proc, r \in SUBSET Proc :
          InletAbortsDoes(w, c, r)
    BY <1>12, InletAbortsEffect
  <2>2. /\ c = cl[w] /\ pc[w] \in PollPC
        /\ pc[w] = "return" => status[c] # "RUNNING"
        /\ UNCHANGED <<pc, child, parent>>
    BY <2>1 DEF InletAbortsDoes
  <2>4. ASSUME NEW k \in Proc, pc[w] = "handlerPoll", c = Bottom(w),
               deque[w] # <<>>, status[c] = "RUNNING", H[w] = 0, 1 < T(w),
               stack[w][1] = c, k = stack[w][2], k # c, k # Root,
               status[k] = "none", parent[k] = c,
               status' = [status EXCEPT ![k] = "RUNNING", ![c] = "READY"],
               incomplete' = [incomplete EXCEPT ![c] = @ \cup {k}]
        PROVE  ListInv'
    <3>1. pc' = pc /\ child' = child /\ parent' = parent
      BY <2>2
    <3>2. \A d \in Proc : Absent(d)' <=> Absent(d)
      BY <3>1 DEF Absent, Leaves
    <3>3. c \in Proc /\ ~Live(k) /\ Live(k)' /\ \A d \in Proc \ {k} : Live(d)' <=> Live(d)
      BY <1>a, <2>1, <2>4 DEF Types, Live
    <3>4. ~Absent(k)
      BY <3>3, AbsentFacts DEF Absent, Leaves
    <3>5. ASSUME NEW p \in Proc, NEW d \in Proc
          PROVE  d \in incomplete'[p] <=> parent'[d] = p /\ Live(d)' /\ ~Absent(d)'
      <4>1. d \in incomplete'[p] <=> d \in incomplete[p] \/ (p = c /\ d = k)
        BY <1>a, <2>4, <3>3 DEF Types
      <4>2. parent[k] = c
        BY <2>4
      <4>q. QED
        BY <1>s, <3>1, <3>2, <3>3, <3>4, <4>1, <4>2
    <3>6. ASSUME NEW u \in Worker, pc'[u] = "stealFinish"
          PROVE  status'[child'[u]] \notin {"none", "freed"}
      <4>1. child[u] \in Proc
        BY <3>1, <3>6, AbsentFacts DEF AbsentPC
      <4>q. QED
        BY <1>s, <3>1, <3>3, <3>6, <4>1 DEF Live
    <3>q. QED
      BY <3>5, <3>6 DEF ListInv, Live
  <2>5. ASSUME UNCHANGED <<status, incomplete>>
        PROVE  ListInv'
    BY <1>f, <2>2, <2>5
  <2>q. QED
    BY <2>1, <2>2, <2>4, <2>5 DEF InletAbortsDoes, InletSplits
<1>13. ASSUME NEW w \in Worker, WalkDown(w) PROVE ListInv'
  <2>1. PICK n \in Nat \ {0}, k \in Proc :
          WalkDownDoes(w, n, k)
    BY <1>13, WalkDownEffect
  <2>q. QED
    BY <1>f, <2>1 DEF WalkDownDoes
<1>14. ASSUME NEW w \in Worker, WalkUp(w) PROVE ListInv'
  <2>1. PICK n \in Nat \ {0} :
          WalkUpDoes(w, n)
    BY <1>14, WalkUpEffect
  <2>q. QED
    BY <1>f, <2>1 DEF WalkUpDoes
<1>15. ASSUME NEW w \in Worker, AbortReadyClosure(w) PROVE ListInv'
  <2>2. /\ pc[w] = "loop" /\ cl[w] # None /\ clock[cl[w]] = None
        /\ status[cl[w]] = "READY"
        /\ UNCHANGED <<pc, child, parent, incomplete>>
    BY <1>15 DEF AbortReadyClosure, program, results, tree, locks, caches,
       Hand, SetStatus, Outcome, BeingAborted, HasChildren
  <2>3. /\ "loop" \notin AbsentPC
    BY <2>2 DEF AbsentPC
  <2>a. cl[w] \in Proc
    BY <1>a, <2>2 DEF Types
  <2>4. ASSUME status' = [status EXCEPT ![cl[w]] = "SUSPENDED"]
        PROVE  ListInv'
    <3>1. pc'[w] = pc[w] /\ child'[w] = child[w]
      BY <1>a, <2>2, <2>3, <2>a, <2>4 DEF Types
    <3>2. \A u \in Worker \ {w} : pc'[u] = pc[u] /\ child'[u] = child[u]
      BY <1>a, <2>2, <2>3, <2>a, <2>4 DEF Types
    <3>3. \A d \in Proc : Leaves(w, d)' <=> Leaves(w, d)
      BY <3>1, <2>2, <2>3, <2>a, <2>4 DEF Leaves
    <3>4. \A d \in Proc : Live(d)' <=> Live(d)
      BY <1>a, <2>2, <2>a, <2>4 DEF Types, Live
    <3>5. pc'[w] = "stealFinish" => pc[w] = "stealFinish" /\ child'[w] = child[w]
      BY <3>1, <2>2, <2>3, <2>a, <2>4
    <3>q. QED
      BY <1>h, <2>2, <3>1, <3>2, <3>3, <3>4, <3>5
  <2>5. ASSUME status' = [status EXCEPT ![cl[w]] = "RETURNING"]
        PROVE  ListInv'
    <3>1. pc'[w] = pc[w] /\ child'[w] = child[w]
      BY <1>a, <2>2, <2>3, <2>a, <2>5 DEF Types
    <3>2. \A u \in Worker \ {w} : pc'[u] = pc[u] /\ child'[u] = child[u]
      BY <1>a, <2>2, <2>3, <2>a, <2>5 DEF Types
    <3>3. \A d \in Proc : Leaves(w, d)' <=> Leaves(w, d)
      BY <3>1, <2>2, <2>3, <2>a, <2>5 DEF Leaves
    <3>4. \A d \in Proc : Live(d)' <=> Live(d)
      BY <1>a, <2>2, <2>a, <2>5 DEF Types, Live
    <3>5. pc'[w] = "stealFinish" => pc[w] = "stealFinish" /\ child'[w] = child[w]
      BY <3>1, <2>2, <2>3, <2>a, <2>5
    <3>q. QED
      BY <1>h, <2>2, <3>1, <3>2, <3>3, <3>4, <3>5
  <2>q. QED
    BY <1>15, <2>2, <2>4, <2>5 DEF AbortReadyClosure, program, results, tree,
       locks, caches, Hand, SetStatus, Outcome, BeingAborted, HasChildren
<1>16. ASSUME NEW w \in Worker, Setup(w) PROVE ListInv'
  <2>2. /\ pc[w] = "loop" /\ cl[w] # None /\ status[cl[w]] = "READY"
        /\ clock[cl[w]] = None /\ pc' = [pc EXCEPT ![w] = "setup"]
        /\ status' = [status EXCEPT ![cl[w]] = "RUNNING"]
        /\ UNCHANGED <<child, parent, incomplete>>
    BY <1>16 DEF Setup, program, results, tree, Goto, LockClosure, SetStatus,
       BeingAborted
  <2>3. /\ "loop" \notin AbsentPC /\ "setup" \notin AbsentPC
    BY <2>2 DEF AbsentPC
  <2>4. pc'[w] = "setup" /\ child'[w] = child[w]
    BY <1>a, <2>2, <2>3 DEF Types
  <2>5. \A u \in Worker \ {w} : pc'[u] = pc[u] /\ child'[u] = child[u]
    BY <1>a, <2>2, <2>3 DEF Types
  <2>6. \A d \in Proc : Leaves(w, d)' <=> Leaves(w, d)
    BY <2>4, <2>2, <2>3 DEF Leaves
  <2>7. \A d \in Proc : Live(d)' <=> Live(d)
    BY <1>a, <2>2, <2>3 DEF Types, Live
  <2>8. pc'[w] = "stealFinish" => pc[w] = "stealFinish" /\ child'[w] = child[w]
    BY <2>4, <2>2, <2>3
  <2>q. QED
    BY <1>h, <2>2, <2>4, <2>5, <2>6, <2>7, <2>8
<1>17. ASSUME NEW w \in Worker, SetupDone(w) PROVE ListInv'
  BY <1>g, <1>17 DEF SetupDone, program, results, tree, caches, Goto,
     UnlockClosure, Polled, Polls, AbsentPC
<1>18. ASSUME NEW w \in Worker, Execute(w) PROVE ListInv'
  <2>1. PICK c \in Proc :
          ExecuteDoes(w, c)
    BY <1>18, ExecuteEffect
  <2>q. QED
    BY <1>g, <2>1 DEF ExecuteDoes, AbsentPC
<1>19. ASSUME NEW w \in Worker, ReturnLockParent(w) PROVE ListInv'
  <2>1. PICK k \in Proc, p \in Proc :
          ReturnLockParentDoes(w, k, p)
    BY <1>19, ReturnLockParentEffect
  <2>2. /\ pc[w] = "loop" /\ k = cl[w] /\ p = parent[k] /\ p # k /\ k # Root
        /\ clock[k] = None /\ status[k] = "RETURNING" /\ clock[p] = None
        /\ status[p] # "none" /\ pc' = [pc EXCEPT ![w] = "returnChild"]
        /\ child' = [child EXCEPT ![w] = k]
        /\ incomplete' = [incomplete EXCEPT ![p] = @ \ {k}]
        /\ UNCHANGED <<status, parent>>
    BY <2>1 DEF ReturnLockParentDoes
  <2>3. /\ "loop" \notin AbsentPC /\ "returnChild" \in AbsentPC
    BY <2>2 DEF AbsentPC
  <2>4. pc'[w] = "returnChild" /\ child'[w] = k
    BY <1>a, <2>2 DEF Types
  <2>5. \A u \in Worker \ {w} : pc'[u] = pc[u] /\ child'[u] = child[u]
    BY <1>a, <2>2 DEF Types
  <2>6. Leaves(w, k)' /\ \A d \in Proc \ {k} : Leaves(w, d)' <=> Leaves(w, d)
    BY <2>2, <2>3, <2>4 DEF Leaves
  <2>7. Absent(k)' /\ \A d \in Proc \ {k} : Absent(d)' <=> Absent(d)
    BY <1>o, <2>5, <2>6 DEF Absent
  <2>9. ASSUME NEW q \in Proc, NEW d \in Proc
        PROVE  d \in incomplete'[q] <=> parent'[d] = q /\ Live(d)' /\ ~Absent(d)'
    <3>1. d \in incomplete'[q] <=> d \in incomplete[q] /\ ~(q = p /\ d = k)
      BY <1>a, <2>1, <2>2 DEF Types
    <3>2. Live(d)' <=> Live(d)
      BY <2>2 DEF Live
    <3>q. QED
      BY <1>s, <2>2, <2>7, <3>1, <3>2
  <2>10. ASSUME NEW u \in Worker, pc'[u] = "stealFinish"
         PROVE  status'[child'[u]] \notin {"none", "freed"}
    <3>1. u # w /\ child'[u] = child[u] /\ pc[u] = "stealFinish"
      BY <2>4, <2>5, <2>10
    <3>q. QED
      BY <1>s, <2>2, <3>1 DEF Live
  <2>q. QED
    BY <2>9, <2>10 DEF ListInv, Live
<1>20. ASSUME NEW w \in Worker, ReturnEnqueue(w) PROVE ListInv'
  <2>1. PICK k \in Proc, p \in Proc :
          ReturnEnqueueDoes(w, k, p)
    BY <1>20, ReturnEnqueueEffect
  <2>q. QED
    BY <1>g, <2>1 DEF ReturnEnqueueDoes, AbsentPC
<1>21. ASSUME NEW w \in Worker, ReturnDone(w) PROVE ListInv'
  <2>1. PICK k \in Proc, p \in Proc :
          ReturnDoneDoes(w, k, p)
    BY <1>21, ReturnDoneEffect
  <2>2. /\ pc[w] = "return" /\ k = child[w] /\ p = cl[w] /\ p # k
        /\ p = parent[k] /\ k # Root /\ status[k] = "RETURNING"
        /\ status[p] # "none" /\ pc' = [pc EXCEPT ![w] = "loop"]
        /\ child' = [child EXCEPT ![w] = None]
        /\ UNCHANGED <<parent, incomplete>>
    BY <2>1 DEF ReturnDoneDoes
  <2>3. /\ "return" \in AbsentPC /\ "loop" \notin AbsentPC
    BY <2>2 DEF AbsentPC
  <2>4. pc'[w] = "loop" /\ child'[w] = None
    BY <1>a, <2>2 DEF Types
  <2>5. \A u \in Worker \ {w} : pc'[u] = pc[u] /\ child'[u] = child[u]
    BY <1>a, <2>2 DEF Types
  <2>a. \A u \in Worker \ {w} : ~Leaves(u, k)
    BY <2>2, <2>3, AbsentFacts
  <2>6. \A d \in Proc : ~Leaves(w, d)' /\ (Leaves(w, d) <=> d = k)
    BY <2>2, <2>3, <2>4 DEF Leaves
  <2>7. Absent(k) /\ \A d \in Proc \ {k} : Absent(d)' <=> Absent(d)
    BY <1>o, <2>5, <2>6 DEF Absent
  <2>8. ~Live(k)' /\ \A d \in Proc \ {k} : Live(d)' <=> Live(d)
    <3>1. p \in Proc /\ k \in Proc /\ p # k
      BY <2>1, <2>2
    <3>2. status[p] \in Status
      BY <1>a, <3>1 DEF Types
    <3>3. CASE status' = [status EXCEPT ![k] = "freed", ![p] = "READY"] /\ status[p] = "SUSPENDED"
      BY <1>a, <3>1, <3>3 DEF Types, Live
    <3>4. CASE status' = [status EXCEPT ![k] = "freed"]
      BY <1>a, <3>1, <3>4 DEF Types, Live
    <3>q. QED
      BY <2>1, <3>3, <3>4 DEF ReturnDoneDoes
  <2>9. ASSUME NEW q \in Proc, NEW d \in Proc
        PROVE  d \in incomplete'[q] <=> parent'[d] = q /\ Live(d)' /\ ~Absent(d)'
    <3>1. CASE d = k
      BY <1>s, <2>2, <2>7, <2>8, <3>1
    <3>2. CASE d # k
      BY <1>s, <2>2, <2>7, <2>8, <3>2
    <3>q. QED
      BY <3>1, <3>2
  <2>10. ASSUME NEW u \in Worker, pc'[u] = "stealFinish"
         PROVE  status'[child'[u]] \notin {"none", "freed"}
    <3>1. u # w /\ child'[u] = child[u] /\ pc[u] = "stealFinish"
      BY <2>4, <2>5, <2>10
    <3>2. child[u] \in Proc /\ child[u] # k
      BY <2>a, <3>1, AbsentFacts DEF AbsentPC, Leaves
    <3>q. QED
      BY <1>s, <2>8, <3>1, <3>2 DEF Live
  <2>q. QED
    BY <2>9, <2>10 DEF ListInv, Live
<1>22. ASSUME NEW w \in Worker, Spawn(w) PROVE ListInv'
  <2>1. PICK c \in Proc, f \in Proc :
          SpawnDoes(w, c, f)
    BY <1>22, SpawnEffect
  <2>2. /\ pc[w] \in {"run", "synced"} /\ c = created + 1 /\ created \in Nat
        /\ f \in 1 .. created /\ T(w) >= 1 /\ f = stack[w][T(w)]
        /\ status[c] = "none" /\ pc' = [pc EXCEPT ![w] = "run"]
        /\ parent' = [parent EXCEPT ![c] = f]
        /\ UNCHANGED <<child, status, incomplete>>
    BY <2>1 DEF SpawnDoes
  <2>3. /\ "run" \notin AbsentPC /\ "synced" \notin AbsentPC
        /\ pc[w] \notin AbsentPC
    BY <2>2 DEF AbsentPC
  <2>4. pc'[w] = "run" /\ child' = child
    BY <1>a, <2>2 DEF Types
  <2>5. \A u \in Worker \ {w} : pc'[u] = pc[u]
    BY <1>a, <2>2 DEF Types
  <2>6. \A d \in Proc : Absent(d)' <=> Absent(d)
    BY <2>2, <2>3, <2>4, <2>5 DEF Absent, Leaves
  <2>7. ~Live(c) /\ \A d \in Proc : Live(d)' <=> Live(d)
    BY <2>2 DEF Live
  <2>8. \A d \in Proc \ {c} : parent'[d] = parent[d]
    BY <1>a, <2>2 DEF Types
  <2>9. ASSUME NEW p \in Proc, NEW d \in Proc
        PROVE  d \in incomplete'[p] <=> parent'[d] = p /\ Live(d)' /\ ~Absent(d)'
    <3>1. CASE d = c
      BY <1>s, <2>2, <2>7, <3>1
    <3>2. CASE d # c
      BY <1>s, <2>2, <2>6, <2>7, <2>8, <3>2
    <3>q. QED
      BY <3>1, <3>2
  <2>10. ASSUME NEW u \in Worker, pc'[u] = "stealFinish"
         PROVE  status'[child'[u]] \notin {"none", "freed"}
    <3>1. child'[u] = child[u] /\ pc[u] = "stealFinish"
      BY <2>4, <2>5, <2>10
    <3>q. QED
      BY <1>s, <2>2, <3>1 DEF Live
  <2>q. QED
    BY <2>9, <2>10 DEF ListInv, Live
<1>23. ASSUME NEW w \in Worker, ReturnFast(w) PROVE ListInv'
  <2>1. PICK f \in Proc :
          ReturnFastDoes(w, f)
    BY <1>23, ReturnFastEffect
  <2>2. /\ pc[w] = "run" /\ f = stack[w][T(w)] /\ T(w) > 1 /\ T(w) \in Nat
        /\ status[f] = "none" \/ H[w] + 1 = T(w)
        /\ f # Root /\ pc' = [pc EXCEPT ![w] = "pop"]
        /\ child' = [child EXCEPT ![w] = f]
        /\ UNCHANGED <<status, parent, incomplete>>
    BY <2>1 DEF ReturnFastDoes
  <2>3. /\ "run" \notin AbsentPC /\ "pop" \notin AbsentPC
    BY <2>2 DEF AbsentPC
  <2>4. pc'[w] = "pop" /\ child'[w] = f
    BY <1>a, <2>2, <2>3 DEF Types
  <2>5. \A u \in Worker \ {w} : pc'[u] = pc[u] /\ child'[u] = child[u]
    BY <1>a, <2>2, <2>3 DEF Types
  <2>6. \A d \in Proc : Leaves(w, d)' <=> Leaves(w, d)
    BY <2>4, <2>2, <2>3 DEF Leaves
  <2>7. \A d \in Proc : Live(d)' <=> Live(d)
    BY <1>a, <2>2, <2>3 DEF Types, Live
  <2>8. pc'[w] = "stealFinish" => pc[w] = "stealFinish" /\ child'[w] = child[w]
    BY <2>4, <2>2, <2>3
  <2>q. QED
    BY <1>h, <2>2, <2>4, <2>5, <2>6, <2>7, <2>8
<1>24. ASSUME NEW w \in Worker, PopResult(w) PROVE ListInv'
  <2>2. /\ pc[w] = "pop" /\ pc' = [pc EXCEPT ![w] = "run"]
        /\ child' = [child EXCEPT ![w] = None]
        /\ UNCHANGED <<status, parent, incomplete>>
    BY <1>24 DEF PopResult, program, state, tree, locks, caches, Goto, Outcome
  <2>3. /\ "pop" \notin AbsentPC /\ "run" \notin AbsentPC
    BY <2>2 DEF AbsentPC
  <2>4. pc'[w] = "run" /\ child'[w] = None
    BY <1>a, <2>2, <2>3 DEF Types
  <2>5. \A u \in Worker \ {w} : pc'[u] = pc[u] /\ child'[u] = child[u]
    BY <1>a, <2>2, <2>3 DEF Types
  <2>6. \A d \in Proc : Leaves(w, d)' <=> Leaves(w, d)
    BY <2>4, <2>2, <2>3 DEF Leaves
  <2>7. \A d \in Proc : Live(d)' <=> Live(d)
    BY <1>a, <2>2, <2>3 DEF Types, Live
  <2>8. pc'[w] = "stealFinish" => pc[w] = "stealFinish" /\ child'[w] = child[w]
    BY <2>4, <2>2, <2>3
  <2>q. QED
    BY <1>h, <2>2, <2>4, <2>5, <2>6, <2>7, <2>8
<1>25. ASSUME NEW w \in Worker, LockOwnDeque(w) PROVE ListInv'
  BY <1>g, <1>25 DEF LockOwnDeque, program, results, state, tree, caches, Goto,
     LockDeque, SlowAborts, AbsentPC
<1>26. ASSUME NEW w \in Worker, LockBottom(w) PROVE ListInv'
  <2>1. PICK c \in Proc :
          LockBottomDoes(w, c)
    BY <1>26, LockBottomEffect
  <2>q. QED
    BY <1>g, <2>1 DEF LockBottomDoes, AbsentPC
<1>27. ASSUME NEW w \in Worker, Sync(w) PROVE ListInv'
  <2>1. PICK c \in Proc :
          SyncDoes(w, c)
    BY <1>27, SyncEffect
  <2>2. /\ pc[w] = "syncPoll" /\ c = cl[w] /\ c = Bottom(w)
        /\ c = deque[w][Size(deque[w])] /\ T(w) = 1 /\ H[w] = 0
        /\ status[c] = "RUNNING" /\ stack[w][1] = c
        /\ UNCHANGED <<child, parent, incomplete>>
    BY <2>1 DEF SyncDoes
  <2>3. /\ "syncPoll" \notin AbsentPC /\ "loop" \notin AbsentPC
        /\ "synced" \notin AbsentPC
    BY <2>2 DEF AbsentPC
  <2>4. ASSUME pc' = [pc EXCEPT ![w] = "loop"],
               status' = [status EXCEPT ![c] = "SUSPENDED"]
        PROVE  ListInv'
    <3>1. pc'[w] = "loop" /\ child'[w] = child[w]
      BY <1>a, <2>2, <2>3, <2>4 DEF Types
    <3>2. \A u \in Worker \ {w} : pc'[u] = pc[u] /\ child'[u] = child[u]
      BY <1>a, <2>2, <2>3, <2>4 DEF Types
    <3>3. \A d \in Proc : Leaves(w, d)' <=> Leaves(w, d)
      BY <3>1, <2>2, <2>3, <2>4 DEF Leaves
    <3>4. \A d \in Proc : Live(d)' <=> Live(d)
      BY <1>a, <2>1, <2>2, <2>4 DEF Types, Live
    <3>5. pc'[w] = "stealFinish" => pc[w] = "stealFinish" /\ child'[w] = child[w]
      BY <3>1, <2>2, <2>3, <2>4
    <3>q. QED
      BY <1>h, <2>2, <3>1, <3>2, <3>3, <3>4, <3>5
  <2>5. ASSUME pc' = [pc EXCEPT ![w] = "synced"],
               UNCHANGED <<status>>
        PROVE  ListInv'
    <3>1. pc'[w] = "synced" /\ child'[w] = child[w]
      BY <1>a, <2>2, <2>3, <2>5 DEF Types
    <3>2. \A u \in Worker \ {w} : pc'[u] = pc[u] /\ child'[u] = child[u]
      BY <1>a, <2>2, <2>3, <2>5 DEF Types
    <3>3. \A d \in Proc : Leaves(w, d)' <=> Leaves(w, d)
      BY <3>1, <2>2, <2>3, <2>5 DEF Leaves
    <3>4. \A d \in Proc : Live(d)' <=> Live(d)
      BY <1>a, <2>2, <2>3, <2>5 DEF Types, Live
    <3>5. pc'[w] = "stealFinish" => pc[w] = "stealFinish" /\ child'[w] = child[w]
      BY <3>1, <2>2, <2>3, <2>5
    <3>q. QED
      BY <1>h, <2>2, <3>1, <3>2, <3>3, <3>4, <3>5
  <2>q. QED
    BY <2>1, <2>2, <2>4, <2>5 DEF SyncDoes
<1>28. ASSUME NEW w \in Worker, AbortSlow(w) PROVE ListInv'
  BY <1>g, <1>28 DEF AbortSlow, program, results, tree, caches, Goto,
     UnlockBoth, Polled, Hand, UnlockClosure, UnlockDeque, Polls, AbsentPC
<1>29. ASSUME NEW w \in Worker, SetResult(w) PROVE ListInv'
  <2>1. PICK c \in Proc :
          SetResultDoes(w, c)
    BY <1>29, SetResultEffect
  <2>2. /\ pc[w] = "setResult" /\ c = cl[w] /\ c = Bottom(w)
        /\ c = deque[w][Size(deque[w])] /\ T(w) = 1 /\ H[w] = 0 /\ c # Root
        /\ deque[w] # <<>> /\ status[c] = "RUNNING" /\ stack[w][1] = c
        /\ pc' = [pc EXCEPT ![w] = "loop"]
        /\ status' = [status EXCEPT ![c] = "RETURNING"]
        /\ UNCHANGED <<child, parent, incomplete>>
    BY <2>1 DEF SetResultDoes
  <2>3. /\ "setResult" \notin AbsentPC /\ "loop" \notin AbsentPC
    BY <2>2 DEF AbsentPC
  <2>4. pc'[w] = "loop" /\ child'[w] = child[w]
    BY <1>a, <2>2, <2>3 DEF Types
  <2>5. \A u \in Worker \ {w} : pc'[u] = pc[u] /\ child'[u] = child[u]
    BY <1>a, <2>2, <2>3 DEF Types
  <2>6. \A d \in Proc : Leaves(w, d)' <=> Leaves(w, d)
    BY <2>4, <2>2, <2>3 DEF Leaves
  <2>7. \A d \in Proc : Live(d)' <=> Live(d)
    BY <1>a, <2>1, <2>2 DEF Types, Live
  <2>8. pc'[w] = "stealFinish" => pc[w] = "stealFinish" /\ child'[w] = child[w]
    BY <2>4, <2>2, <2>3
  <2>q. QED
    BY <1>h, <2>2, <2>4, <2>5, <2>6, <2>7, <2>8
<1>30. ASSUME NEW w \in Worker, Done(w) PROVE ListInv'
  BY <1>g, <1>30 DEF Done, results, state, tree, locks, caches, Goto,
     AfterSync, AbsentPC
<1>31. ASSUME NEW w \in Worker, RemoveAndFree(w) PROVE ListInv'
  <2>1. RemoveAndFreeDoes(w)
    BY <1>31, RemoveAndFreeEffect
  <2>2. /\ pc[w] = "rootEnd" /\ Root = Bottom(w)
        /\ Root = deque[w][Size(deque[w])] /\ T(w) = 1 /\ H[w] = 0
        /\ Root \in Proc /\ status[Root] = "RUNNING"
        /\ pc' = [pc EXCEPT ![w] = "loop"]
        /\ status' = [status EXCEPT ![Root] = "freed"]
        /\ UNCHANGED <<child, parent, incomplete>>
    BY <2>1 DEF RemoveAndFreeDoes
  <2>3. /\ "rootEnd" \notin AbsentPC /\ "loop" \notin AbsentPC
    BY <2>2 DEF AbsentPC
  <2>4. pc'[w] = "loop" /\ child' = child
    BY <1>a, <2>2 DEF Types
  <2>5. \A u \in Worker \ {w} : pc'[u] = pc[u]
    BY <1>a, <2>2 DEF Types
  <2>6. \A d \in Proc : Absent(d)' <=> Absent(d)
    BY <2>2, <2>3, <2>4, <2>5 DEF Absent, Leaves
  <2>7. /\ ~Live(Root)' /\ \A d \in Proc \ {Root} : Live(d)' <=> Live(d)
        /\ parent[Root] = None /\ None \notin Proc
    BY <1>a, <2>2 DEF Types, Live, IInv, ParentInv, Proc, None
  <2>9. ASSUME NEW p \in Proc, NEW d \in Proc
        PROVE  d \in incomplete'[p] <=> parent'[d] = p /\ Live(d)' /\ ~Absent(d)'
    <3>1. CASE d = Root
      BY <1>s, <2>2, <2>7, <3>1
    <3>2. CASE d # Root
      BY <1>s, <2>2, <2>6, <2>7, <3>2
    <3>q. QED
      BY <3>1, <3>2
  <2>10. ASSUME NEW u \in Worker, pc'[u] = "stealFinish"
         PROVE  status'[child'[u]] \notin {"none", "freed"}
    <3>1. child'[u] = child[u] /\ pc[u] = "stealFinish"
      BY <2>4, <2>5, <2>10
    <3>2. child[u] \in Proc /\ child[u] # Root
      BY <3>1, AbsentFacts DEF AbsentPC
    <3>q. QED
      BY <1>s, <2>2, <2>7, <3>1, <3>2 DEF Live
  <2>q. QED
    BY <2>9, <2>10 DEF ListInv, Live
<1>32. ASSUME NEW w \in Worker, CilkExit(w) PROVE ListInv'
  <2>1. CilkExitDoes(w)
    BY <1>32, CilkExitEffect
  <2>q. QED
    BY <1>f, <1>g, <2>1 DEF CilkExitDoes, AbsentPC
<1>33. ASSUME NEW w \in Worker, CilkExitDone(w) PROVE ListInv'
  BY <1>g, <1>33 DEF CilkExitDone, program, results, tree, caches, Goto, Hand,
     UnlockClosure, Polled, Polls, AbsentPC
<1>34. ASSUME NEW w \in Worker, HandlerPolled(w) PROVE ListInv'
  <2>1. PICK t \in Proc, t1 \in Proc :
          HandlerPolledDoes(w, t, t1)
    BY <1>34, HandlerPolledEffect
  <2>q. QED
    BY <1>g, <2>1 DEF HandlerPolledDoes, AbsentPC
<1>35. ASSUME NEW w \in Worker, HandlerSwap(w) PROVE ListInv'
  BY <1>g, <1>35 DEF HandlerSwap, program, results, state, tree, caches, Goto,
     LockClosure, AbsentPC
<1>36. ASSUME NEW w \in Worker, HandlerStolen(w) PROVE ListInv'
  <2>1. PICK c \in Proc :
          HandlerStolenDoes(w, c)
    BY <1>36, HandlerStolenEffect
  <2>2. /\ pc[w] = "handlerAct" /\ c = cl[w] /\ c = Bottom(w)
        /\ c = deque[w][Size(deque[w])] /\ c # Root /\ deque[w] # <<>>
        /\ T(w) \in Nat \ {0} /\ H[w] \in Nat /\ H[w] >= T(w)
        /\ status[c] \in {"RUNNING", "RETURNING"}
        /\ child' = [child EXCEPT ![w] = None]
        /\ status' = [status EXCEPT ![c] = "RETURNING"]
        /\ UNCHANGED <<parent, incomplete>>
    BY <2>1 DEF HandlerStolenDoes
  <2>3. /\ "handlerAct" \notin AbsentPC /\ "loop" \notin AbsentPC
        /\ "pop" \notin AbsentPC
    BY <2>2 DEF AbsentPC
  <2>a. \A d \in Proc : Live(d)' <=> Live(d)
    BY <1>a, <2>1, <2>2 DEF Types, Live
  <2>4. ASSUME T(w) = 1, pc' = [pc EXCEPT ![w] = "loop"]
        PROVE  ListInv'
    <3>1. pc'[w] = "loop" /\ child'[w] = None
      BY <1>a, <2>2, <2>3, <2>a, <2>4 DEF Types
    <3>2. \A u \in Worker \ {w} : pc'[u] = pc[u] /\ child'[u] = child[u]
      BY <1>a, <2>2, <2>3, <2>a, <2>4 DEF Types
    <3>3. \A d \in Proc : Leaves(w, d)' <=> Leaves(w, d)
      BY <3>1, <2>2, <2>3, <2>a, <2>4 DEF Leaves
    <3>4. \A d \in Proc : Live(d)' <=> Live(d)
      BY <1>a, <2>2, <2>3, <2>a, <2>4 DEF Types, Live
    <3>5. pc'[w] = "stealFinish" => pc[w] = "stealFinish" /\ child'[w] = child[w]
      BY <3>1, <2>2, <2>3, <2>a, <2>4
    <3>q. QED
      BY <1>h, <2>2, <3>1, <3>2, <3>3, <3>4, <3>5
  <2>5. ASSUME T(w) # 1, pc' = [pc EXCEPT ![w] = "pop"]
        PROVE  ListInv'
    <3>1. pc'[w] = "pop" /\ child'[w] = None
      BY <1>a, <2>2, <2>3, <2>a, <2>5 DEF Types
    <3>2. \A u \in Worker \ {w} : pc'[u] = pc[u] /\ child'[u] = child[u]
      BY <1>a, <2>2, <2>3, <2>a, <2>5 DEF Types
    <3>3. \A d \in Proc : Leaves(w, d)' <=> Leaves(w, d)
      BY <3>1, <2>2, <2>3, <2>a, <2>5 DEF Leaves
    <3>4. \A d \in Proc : Live(d)' <=> Live(d)
      BY <1>a, <2>2, <2>3, <2>a, <2>5 DEF Types, Live
    <3>5. pc'[w] = "stealFinish" => pc[w] = "stealFinish" /\ child'[w] = child[w]
      BY <3>1, <2>2, <2>3, <2>a, <2>5
    <3>q. QED
      BY <1>h, <2>2, <3>1, <3>2, <3>3, <3>4, <3>5
  <2>q. QED
    BY <2>1, <2>2, <2>4, <2>5 DEF HandlerStolenDoes
<1>37. ASSUME NEW w \in Worker, HandlerAbort(w) PROVE ListInv'
  <2>1. PICK c \in Proc, f \in Proc :
          HandlerAbortDoes(w, c, f)
    BY <1>37, HandlerAbortEffect
  <2>2. /\ pc[w] = "handlerAct" /\ c = cl[w] /\ c = Bottom(w)
        /\ c = deque[w][Size(deque[w])] /\ deque[w] # <<>>
        /\ T(w) \in Nat \ {0} /\ H[w] \in Nat /\ H[w] < T(w)
        /\ status[c] = "RUNNING" /\ stack[w][H[w] + 1] = c
        /\ UNCHANGED <<parent, incomplete>>
    BY <2>1 DEF HandlerAbortDoes
  <2>3. /\ "handlerAct" \notin AbsentPC /\ "loop" \notin AbsentPC
        /\ "pop" \notin AbsentPC
    BY <2>2 DEF AbsentPC
  <2>4. ASSUME T(w) = 1, H[w] = 0, pc' = [pc EXCEPT ![w] = "loop"],
               child' = [child EXCEPT ![w] = None],
               status' = [status EXCEPT ![c] = "SUSPENDED"]
        PROVE  ListInv'
    <3>1. pc'[w] = "loop" /\ child'[w] = None
      BY <1>a, <2>2, <2>3, <2>4 DEF Types
    <3>2. \A u \in Worker \ {w} : pc'[u] = pc[u] /\ child'[u] = child[u]
      BY <1>a, <2>2, <2>3, <2>4 DEF Types
    <3>3. \A d \in Proc : Leaves(w, d)' <=> Leaves(w, d)
      BY <3>1, <2>2, <2>3, <2>4 DEF Leaves
    <3>4. \A d \in Proc : Live(d)' <=> Live(d)
      BY <1>a, <2>2, <2>3, <2>4 DEF Types, Live
    <3>5. pc'[w] = "stealFinish" => pc[w] = "stealFinish" /\ child'[w] = child[w]
      BY <3>1, <2>2, <2>3, <2>4
    <3>q. QED
      BY <1>h, <2>2, <3>1, <3>2, <3>3, <3>4, <3>5
  <2>5. ASSUME T(w) = 1, H[w] = 0, c # Root, pc' = [pc EXCEPT ![w] = "loop"],
               child' = [child EXCEPT ![w] = None],
               status' = [status EXCEPT ![c] = "RETURNING"]
        PROVE  ListInv'
    <3>1. pc'[w] = "loop" /\ child'[w] = None
      BY <1>a, <2>2, <2>3, <2>5 DEF Types
    <3>2. \A u \in Worker \ {w} : pc'[u] = pc[u] /\ child'[u] = child[u]
      BY <1>a, <2>2, <2>3, <2>5 DEF Types
    <3>3. \A d \in Proc : Leaves(w, d)' <=> Leaves(w, d)
      BY <3>1, <2>2, <2>3, <2>5 DEF Leaves
    <3>4. \A d \in Proc : Live(d)' <=> Live(d)
      BY <1>a, <2>2, <2>3, <2>5 DEF Types, Live
    <3>5. pc'[w] = "stealFinish" => pc[w] = "stealFinish" /\ child'[w] = child[w]
      BY <3>1, <2>2, <2>3, <2>5
    <3>q. QED
      BY <1>h, <2>2, <3>1, <3>2, <3>3, <3>4, <3>5
  <2>6. ASSUME T(w) # 1, H[w] + 1 = T(w), c # Root,
               pc' = [pc EXCEPT ![w] = "pop"],
               child' = [child EXCEPT ![w] = c],
               status' = [status EXCEPT ![c] = "RETURNING"]
        PROVE  ListInv'
    <3>1. pc'[w] = "pop" /\ child'[w] = c
      BY <1>a, <2>2, <2>3, <2>6 DEF Types
    <3>2. \A u \in Worker \ {w} : pc'[u] = pc[u] /\ child'[u] = child[u]
      BY <1>a, <2>2, <2>3, <2>6 DEF Types
    <3>3. \A d \in Proc : Leaves(w, d)' <=> Leaves(w, d)
      BY <3>1, <2>2, <2>3, <2>6 DEF Leaves
    <3>4. \A d \in Proc : Live(d)' <=> Live(d)
      BY <1>a, <2>2, <2>3, <2>6 DEF Types, Live
    <3>5. pc'[w] = "stealFinish" => pc[w] = "stealFinish" /\ child'[w] = child[w]
      BY <3>1, <2>2, <2>3, <2>6
    <3>q. QED
      BY <1>h, <2>2, <3>1, <3>2, <3>3, <3>4, <3>5
  <2>7. ASSUME H[w] + 1 < T(w), f = stack[w][T(w)], f # Root,
               status[f] = "none", pc' = [pc EXCEPT ![w] = "pop"],
               child' = [child EXCEPT ![w] = f],
               UNCHANGED <<status>>
        PROVE  ListInv'
    <3>1. pc'[w] = "pop" /\ child'[w] = f
      BY <1>a, <2>2, <2>3, <2>7 DEF Types
    <3>2. \A u \in Worker \ {w} : pc'[u] = pc[u] /\ child'[u] = child[u]
      BY <1>a, <2>2, <2>3, <2>7 DEF Types
    <3>3. \A d \in Proc : Leaves(w, d)' <=> Leaves(w, d)
      BY <3>1, <2>2, <2>3, <2>7 DEF Leaves
    <3>4. \A d \in Proc : Live(d)' <=> Live(d)
      BY <1>a, <2>2, <2>3, <2>7 DEF Types, Live
    <3>5. pc'[w] = "stealFinish" => pc[w] = "stealFinish" /\ child'[w] = child[w]
      BY <3>1, <2>2, <2>3, <2>7
    <3>q. QED
      BY <1>h, <2>2, <3>1, <3>2, <3>3, <3>4, <3>5
  <2>q. QED
    BY <2>1, <2>2, <2>4, <2>5, <2>6, <2>7 DEF HandlerAbortDoes, AbortWaits,
       AbortReturns, AbortPops
<1>38. ASSUME NEW w \in Worker, HandlerResume(w) PROVE ListInv'
  <2>2. /\ pc[w] = "handlerAct" /\ ~(H[w] >= T(w))
        /\ pc' = [pc EXCEPT ![w] = "run"]
        /\ child' = [child EXCEPT ![w] = None]
        /\ UNCHANGED <<status, parent, incomplete>>
    BY <1>38 DEF HandlerResume, program, tree, Goto, UnlockBoth, Outcome,
       BeingAborted, Stolen, Hand, UnlockClosure, UnlockDeque
  <2>3. /\ "handlerAct" \notin AbsentPC /\ "run" \notin AbsentPC
    BY <2>2 DEF AbsentPC
  <2>4. pc'[w] = "run" /\ child'[w] = None
    BY <1>a, <2>2, <2>3 DEF Types
  <2>5. \A u \in Worker \ {w} : pc'[u] = pc[u] /\ child'[u] = child[u]
    BY <1>a, <2>2, <2>3 DEF Types
  <2>6. \A d \in Proc : Leaves(w, d)' <=> Leaves(w, d)
    BY <2>4, <2>2, <2>3 DEF Leaves
  <2>7. \A d \in Proc : Live(d)' <=> Live(d)
    BY <1>a, <2>2, <2>3 DEF Types, Live
  <2>8. pc'[w] = "stealFinish" => pc[w] = "stealFinish" /\ child'[w] = child[w]
    BY <2>4, <2>2, <2>3
  <2>q. QED
    BY <1>h, <2>2, <2>4, <2>5, <2>6, <2>7, <2>8
<1>39. CASE UNCHANGED vars
  BY <1>f, <1>39 DEF vars
<1>q. QED
  BY <1>1, <1>2, <1>3, <1>4, <1>5, <1>6, <1>7, <1>8, <1>9, <1>10, <1>11, <1>12,
     <1>13, <1>14, <1>15, <1>16, <1>17, <1>18, <1>19, <1>20, <1>21, <1>22,
     <1>23, <1>24, <1>25, <1>26, <1>27, <1>28, <1>29, <1>30, <1>31, <1>32,
     <1>33, <1>34, <1>35, <1>36, <1>37, <1>38, <1>39 DEF Next, Step, Terminated

(* The join counters are kept: Closure_return takes the child off the list *)
(* first and counts it no more in the end, under its parent's lock.        *)
LEMMA CountInvStep ==
    ASSUME IInv, TreeInv, [Next]_vars
    PROVE  CountInv'
<1>a. Types /\ Types'
  BY NextIInv DEF IInv
<1>s. /\ join \in [Proc -> Nat]
      /\ \A p \in Proc :
            join[p] = Cardinality(incomplete[p]) + (IF Joins(p) THEN 1 ELSE 0)
  BY DEF TreeInv, CountInv
<1>b. \A S \in SUBSET Proc :
        /\ IsFiniteSet(S) /\ Cardinality(S) \in Nat
        /\ \A k : k \notin S => Cardinality(S \cup {k}) = Cardinality(S) + 1
        /\ \A k \in S : Cardinality(S \ {k}) = Cardinality(S) - 1
  <2>1. IsFiniteSet(Proc)
    BY FS_Interval, BoundAssumption DEF Proc
  <2>q. QED
    BY <2>1, FS_Subset, FS_CardinalityType, FS_AddElement, FS_RemoveElement
<1>h. ASSUME NEW w \in Worker, UNCHANGED <<join, incomplete>>,
             \A u \in Worker \ {w} : pc'[u] = pc[u] /\ cl'[u] = cl[u],
             \A d \in Proc : Returns(w, d)' <=> Returns(w, d)
      PROVE  CountInv'
  <2>1. \A d \in Proc : Joins(d)' <=> Joins(d)
    BY <1>h DEF Joins, Returns
  <2>q. QED
    BY <1>h, <1>s, <2>1 DEF CountInv
<1>m. ASSUME NEW w \in Worker, NEW l, pc' = [pc EXCEPT ![w] = l],
             l \in ReturnPC <=> pc[w] \in ReturnPC,
             UNCHANGED <<cl, join, incomplete>>
      PROVE  CountInv'
  <2>1. pc'[w] = l /\ \A u \in Worker \ {w} : pc'[u] = pc[u]
    BY <1>a, <1>m DEF Types
  <2>2. \A d \in Proc : Returns(w, d)' <=> Returns(w, d)
    BY <1>m, <2>1 DEF Returns
  <2>q. QED
    BY <1>h, <1>m, <2>1, <2>2
<1>o. ASSUME NEW w \in Worker, NEW p \in Proc,
             \A u \in Worker \ {w} : pc'[u] = pc[u] /\ cl'[u] = cl[u],
             \A d \in Proc \ {p} : Returns(w, d)' <=> Returns(w, d)
      PROVE  \A d \in Proc \ {p} : Joins(d)' <=> Joins(d)
  BY <1>o DEF Joins, Returns
<1>l. \A u \in Worker, d \in Proc : Returns(u, d) => clock[d] = u
  BY ReturnFacts DEF Returns
<1>f. ASSUME UNCHANGED <<pc, cl, join, incomplete>>
      PROVE  CountInv'
BY <1>f DEF TreeInv, CountInv, Joins, Returns
<1>g. ASSUME NEW w \in Worker, NEW l, pc' = [pc EXCEPT ![w] = l],
             l \in ReturnPC <=> pc[w] \in ReturnPC,
             UNCHANGED <<cl, join, incomplete>>
      PROVE  CountInv'
BY <1>g, <1>m
<1>1. ASSUME NEW w \in Worker, LeaveScheduler(w) PROVE CountInv'
  BY <1>g, <1>1 DEF LeaveScheduler, program, results, state, tree, locks,
     caches, Goto, ReturnPC
<1>2. ASSUME NEW w \in Worker, TakeOwn(w) PROVE CountInv'
  <2>1. TakeOwnDoes(w)
    BY <1>2, TakeOwnEffect
  <2>2. /\ pc[w] = "loop" /\ cl[w] = None
        /\ UNCHANGED <<join, incomplete>>
    BY <2>1 DEF TakeOwnDoes
  <2>3. /\ "loop" \notin ReturnPC /\ "steal" \notin ReturnPC
    BY <2>2 DEF ReturnPC
  <2>4. ASSUME deque[w] = <<>>, pc' = [pc EXCEPT ![w] = "steal"],
               UNCHANGED <<cl>>
        PROVE  CountInv'
    <3>1. pc'[w] = "steal" /\ cl'[w] = cl[w]
      BY <1>a, <2>2, <2>3, <2>4 DEF Types
    <3>2. \A u \in Worker \ {w} : pc'[u] = pc[u] /\ cl'[u] = cl[u]
      BY <1>a, <2>2, <2>3, <2>4 DEF Types
    <3>3. \A d \in Proc : Returns(w, d)' <=> Returns(w, d)
      BY <3>1, <2>2, <2>3, <2>4 DEF Returns
    <3>q. QED
      BY <1>h, <2>2, <3>1, <3>2, <3>3
  <2>5. ASSUME NEW c \in Proc, deque[w] # <<>>, c = Bottom(w),
               c = deque[w][Size(deque[w])], cl' = [cl EXCEPT ![w] = c],
               UNCHANGED <<pc>>
        PROVE  CountInv'
    <3>1. pc'[w] = pc[w] /\ cl'[w] = c
      BY <1>a, <2>2, <2>3, <2>5 DEF Types
    <3>2. \A u \in Worker \ {w} : pc'[u] = pc[u] /\ cl'[u] = cl[u]
      BY <1>a, <2>2, <2>3, <2>5 DEF Types
    <3>3. \A d \in Proc : Returns(w, d)' <=> Returns(w, d)
      BY <3>1, <2>2, <2>3, <2>5 DEF Returns
    <3>q. QED
      BY <1>h, <2>2, <3>1, <3>2, <3>3
  <2>q. QED
    BY <2>1, <2>2, <2>4, <2>5 DEF TakeOwnDoes
<1>3. ASSUME NEW w \in Worker, StealLockDeque(w) PROVE CountInv'
  <2>2. /\ pc[w] = "steal" /\ pc' = [pc EXCEPT ![w] = "stealDeque"]
        /\ UNCHANGED <<join, incomplete>>
    BY <1>3 DEF StealLockDeque, program, results, state, tree, caches, Goto,
       LockDeque, Peek, Hand
  <2>3. /\ "steal" \notin ReturnPC /\ "stealDeque" \notin ReturnPC
    BY <2>2 DEF ReturnPC
  <2>4. ASSUME NEW v \in Worker \ {w},
               cl' = [cl EXCEPT ![w] = IF deque[v] = <<>> THEN None ELSE Head(deque[v])]
        PROVE  CountInv'
    <3>1. pc'[w] = "stealDeque" /\ cl'[w] = (IF deque[v] = <<>> THEN None ELSE Head(deque[v]))
      BY <1>a, <2>2, <2>3, <2>4 DEF Types
    <3>2. \A u \in Worker \ {w} : pc'[u] = pc[u] /\ cl'[u] = cl[u]
      BY <1>a, <2>2, <2>3, <2>4 DEF Types
    <3>3. \A d \in Proc : Returns(w, d)' <=> Returns(w, d)
      BY <3>1, <2>2, <2>3, <2>4 DEF Returns
    <3>q. QED
      BY <1>h, <2>2, <3>1, <3>2, <3>3
  <2>q. QED
    BY <1>3, <2>2, <2>4 DEF StealLockDeque, program, results, state, tree,
       caches, Goto, LockDeque, Peek, Hand
<1>4. ASSUME NEW w \in Worker, StealLockClosure(w) PROVE CountInv'
  BY <1>g, <1>4 DEF StealLockClosure, program, results, state, tree, caches,
     Goto, LockClosure, ReturnPC
<1>5. ASSUME NEW w \in Worker, StealGiveUp(w) PROVE CountInv'
  <2>2. /\ pc[w] = "stealClosure" /\ pc' = [pc EXCEPT ![w] = "stealGiveUp"]
        /\ cl' = [cl EXCEPT ![w] = None]
        /\ UNCHANGED <<join, incomplete>>
    BY <1>5 DEF StealGiveUp, program, results, state, tree, caches, Goto, Hand,
       UnlockClosure, BeingAborted
  <2>3. /\ "stealClosure" \notin ReturnPC /\ "stealGiveUp" \notin ReturnPC
    BY <2>2 DEF ReturnPC
  <2>4. pc'[w] = "stealGiveUp" /\ cl'[w] = None
    BY <1>a, <2>2, <2>3 DEF Types
  <2>5. \A u \in Worker \ {w} : pc'[u] = pc[u] /\ cl'[u] = cl[u]
    BY <1>a, <2>2, <2>3 DEF Types
  <2>6. \A d \in Proc : Returns(w, d)' <=> Returns(w, d)
    BY <2>4, <2>2, <2>3 DEF Returns
  <2>q. QED
    BY <1>h, <2>2, <2>4, <2>5, <2>6
<1>6. ASSUME NEW w \in Worker, StealUnlockDeque(w) PROVE CountInv'
  BY <1>g, <1>6 DEF StealUnlockDeque, program, results, state, tree, caches,
     Goto, UnlockDeque, ReturnPC
<1>7. ASSUME NEW w \in Worker, StealReady(w) PROVE CountInv'
  <2>1. PICK v \in Worker \ {w}, c \in Proc :
          StealReadyDoes(w, v, c)
    BY <1>7, StealReadyEffect
  <2>q. QED
    BY <1>g, <2>1 DEF StealReadyDoes, ReturnPC
<1>8. ASSUME NEW w \in Worker, StealPromote(w) PROVE CountInv'
  <2>1. PICK v \in Worker \ {w}, c \in Proc, k \in Proc :
          StealPromoteDoes(w, v, c, k)
    BY <1>8, StealPromoteEffect
  <2>q. QED
    BY <1>g, <2>1 DEF StealPromoteDoes, ReturnPC
<1>9. ASSUME NEW w \in Worker, StealFinish(w) PROVE CountInv'
  <2>2. /\ pc[w] = "stealFinish" /\ pc' = [pc EXCEPT ![w] = "loop"]
        /\ join' = [join EXCEPT ![cl[w]] = @ + 1]
        /\ incomplete' = [incomplete EXCEPT ![cl[w]] = @ \cup {child[w]}]
        /\ UNCHANGED <<cl>>
    BY <1>9 DEF StealFinish, program, results, caches, Goto, UnlockClosure,
       SetStatus, AddChild
  <2>3. /\ "stealFinish" \notin ReturnPC /\ "loop" \notin ReturnPC
    BY <2>2 DEF ReturnPC
  <2>a. /\ cl[w] \in Proc /\ child[w] \in Proc /\ child[w] \notin incomplete[cl[w]]
    <3>1. cl[w] \in Proc /\ child[w] \in Proc /\ Leaves(w, child[w])
      BY <2>2, AbsentFacts DEF AbsentPC, Leaves
    <3>q. QED
      BY <3>1 DEF TreeInv, ListInv, Absent
  <2>4. /\ \A u \in Worker \ {w} : pc'[u] = pc[u] /\ cl'[u] = cl[u]
        /\ \A d \in Proc : Returns(w, d)' <=> Returns(w, d)
    <3>1. pc'[w] = "loop" /\ cl'[w] = cl[w]
      BY <1>a, <2>2 DEF Types
    <3>2. \A u \in Worker \ {w} : pc'[u] = pc[u] /\ cl'[u] = cl[u]
      BY <1>a, <2>2 DEF Types
    <3>q. QED
      BY <2>2, <2>3, <3>1, <3>2 DEF Returns
  <2>5. \A d \in Proc : Joins(d)' <=> Joins(d)
    BY <2>4 DEF Joins, Returns
  <2>6. /\ join' \in [Proc -> Nat] /\ join'[cl[w]] = join[cl[w]] + 1
        /\ \A d \in Proc \ {cl[w]} : join'[d] = join[d]
    BY <1>s, <2>2, <2>a
  <2>7. /\ incomplete'[cl[w]] = incomplete[cl[w]] \cup {child[w]}
        /\ incomplete[cl[w]] \in SUBSET Proc
        /\ \A d \in Proc \ {cl[w]} : incomplete'[d] = incomplete[d]
    BY <1>a, <2>2, <2>a DEF Types
  <2>8. /\ Cardinality(incomplete'[cl[w]]) = Cardinality(incomplete[cl[w]]) + 1
        /\ Cardinality(incomplete[cl[w]]) \in Nat
    BY <1>b, <2>7, <2>a
  <2>9. join'[cl[w]] = Cardinality(incomplete'[cl[w]]) + (IF Joins(cl[w]) THEN 1 ELSE 0)
    BY <1>s, <2>6, <2>8, <2>a
  <2>10. \A d \in Proc : join'[d] = Cardinality(incomplete'[d]) + (IF Joins(d) THEN 1 ELSE 0)
    BY <1>s, <2>6, <2>7, <2>9
  <2>q. QED
    BY <2>5, <2>6, <2>10 DEF CountInv
<1>10. ASSUME NEW w \in Worker, InletKilled(w) PROVE CountInv'
  BY <1>f, <1>10 DEF InletKilled, program, state, locks, caches, Outcome,
     BeingAborted, Polls
<1>11. ASSUME NEW w \in Worker, InletRuns(w) PROVE CountInv'
  BY <1>f, <1>11 DEF InletRuns, program, state, locks, caches, Outcome,
     BeingAborted, Polls
<1>12. ASSUME NEW w \in Worker, InletAborts(w) PROVE CountInv'
  <2>1. PICK c \in Proc, r \in SUBSET Proc :
          InletAbortsDoes(w, c, r)
    BY <1>12, InletAbortsEffect
  <2>2. /\ c = cl[w] /\ pc[w] \in PollPC
        /\ pc[w] = "return" => status[c] # "RUNNING"
        /\ UNCHANGED <<pc, cl>>
    BY <2>1 DEF InletAbortsDoes
  <2>4. ASSUME NEW k \in Proc, pc[w] = "handlerPoll", c = Bottom(w),
               deque[w] # <<>>, status[c] = "RUNNING", H[w] = 0, 1 < T(w),
               stack[w][1] = c, k = stack[w][2], k # c, k # Root,
               status[k] = "none", parent[k] = c, Fresh(k),
               join' = [join EXCEPT ![c] = @ + 1],
               incomplete' = [incomplete EXCEPT ![c] = @ \cup {k}]
        PROVE  CountInv'
    <3>a. c \in Proc /\ k \in Proc /\ k \notin incomplete[c]
      <4>1. status[k] = "none" /\ c \in Proc /\ k \in Proc
        BY <2>1, <2>4
      <4>q. QED
        BY <4>1 DEF TreeInv, ListInv, Live
    <3>5. \A d \in Proc : Joins(d)' <=> Joins(d)
      BY <2>2, <2>4 DEF Joins, Returns
    <3>6. /\ join' \in [Proc -> Nat] /\ join'[c] = join[c] + 1
          /\ \A d \in Proc \ {c} : join'[d] = join[d]
      BY <1>s, <2>4, <3>a
    <3>7. /\ incomplete'[c] = incomplete[c] \cup {k}
          /\ incomplete[c] \in SUBSET Proc
          /\ \A d \in Proc \ {c} : incomplete'[d] = incomplete[d]
      BY <1>a, <2>4, <3>a DEF Types
    <3>8. /\ Cardinality(incomplete'[c]) = Cardinality(incomplete[c]) + 1
          /\ Cardinality(incomplete[c]) \in Nat
      BY <1>b, <3>7, <3>a
    <3>q. QED
      BY <1>s, <3>5, <3>6, <3>7, <3>8, <3>a DEF CountInv
  <2>5. ASSUME UNCHANGED <<join, incomplete>>
        PROVE  CountInv'
    BY <1>f, <2>2, <2>5
  <2>q. QED
    BY <2>1, <2>2, <2>4, <2>5 DEF InletAbortsDoes, InletSplits
<1>13. ASSUME NEW w \in Worker, WalkDown(w) PROVE CountInv'
  <2>1. PICK n \in Nat \ {0}, k \in Proc :
          WalkDownDoes(w, n, k)
    BY <1>13, WalkDownEffect
  <2>q. QED
    BY <1>f, <2>1 DEF WalkDownDoes
<1>14. ASSUME NEW w \in Worker, WalkUp(w) PROVE CountInv'
  <2>1. PICK n \in Nat \ {0} :
          WalkUpDoes(w, n)
    BY <1>14, WalkUpEffect
  <2>q. QED
    BY <1>f, <2>1 DEF WalkUpDoes
<1>15. ASSUME NEW w \in Worker, AbortReadyClosure(w) PROVE CountInv'
  <2>2. /\ pc[w] = "loop" /\ cl[w] # None /\ clock[cl[w]] = None
        /\ status[cl[w]] = "READY"
        /\ UNCHANGED <<pc, join, incomplete>>
    BY <1>15 DEF AbortReadyClosure, program, results, tree, locks, caches,
       Hand, SetStatus, Outcome, BeingAborted, HasChildren
  <2>3. /\ "loop" \notin ReturnPC
    BY <2>2 DEF ReturnPC
  <2>4. ASSUME join[cl[w]] # 0, cl' = [cl EXCEPT ![w] = None]
        PROVE  CountInv'
    <3>1. pc'[w] = pc[w] /\ cl'[w] = None
      BY <1>a, <2>2, <2>3, <2>4 DEF Types
    <3>2. \A u \in Worker \ {w} : pc'[u] = pc[u] /\ cl'[u] = cl[u]
      BY <1>a, <2>2, <2>3, <2>4 DEF Types
    <3>3. \A d \in Proc : Returns(w, d)' <=> Returns(w, d)
      BY <3>1, <2>2, <2>3, <2>4 DEF Returns
    <3>q. QED
      BY <1>h, <2>2, <3>1, <3>2, <3>3
  <2>5. ASSUME join[cl[w]] = 0,
               UNCHANGED <<cl>>
        PROVE  CountInv'
    <3>1. pc'[w] = pc[w] /\ cl'[w] = cl[w]
      BY <1>a, <2>2, <2>3, <2>5 DEF Types
    <3>2. \A u \in Worker \ {w} : pc'[u] = pc[u] /\ cl'[u] = cl[u]
      BY <1>a, <2>2, <2>3, <2>5 DEF Types
    <3>3. \A d \in Proc : Returns(w, d)' <=> Returns(w, d)
      BY <3>1, <2>2, <2>3, <2>5 DEF Returns
    <3>q. QED
      BY <1>h, <2>2, <3>1, <3>2, <3>3
  <2>q. QED
    BY <1>15, <2>2, <2>4, <2>5 DEF AbortReadyClosure, program, results, tree,
       locks, caches, Hand, SetStatus, Outcome, BeingAborted, HasChildren
<1>16. ASSUME NEW w \in Worker, Setup(w) PROVE CountInv'
  BY <1>g, <1>16 DEF Setup, program, results, tree, Goto, LockClosure,
     SetStatus, BeingAborted, ReturnPC
<1>17. ASSUME NEW w \in Worker, SetupDone(w) PROVE CountInv'
  BY <1>g, <1>17 DEF SetupDone, program, results, tree, caches, Goto,
     UnlockClosure, Polled, Polls, ReturnPC
<1>18. ASSUME NEW w \in Worker, Execute(w) PROVE CountInv'
  <2>1. PICK c \in Proc :
          ExecuteDoes(w, c)
    BY <1>18, ExecuteEffect
  <2>2. /\ pc[w] = "add" /\ c = cl[w] /\ status[c] = "RUNNING" /\ T(w) = 1
        /\ H[w] = 0 /\ stack[w][1] = c /\ pc' = [pc EXCEPT ![w] = "run"]
        /\ cl' = [cl EXCEPT ![w] = None]
        /\ UNCHANGED <<join, incomplete>>
    BY <2>1 DEF ExecuteDoes
  <2>3. /\ "add" \notin ReturnPC /\ "run" \notin ReturnPC
    BY <2>2 DEF ReturnPC
  <2>4. pc'[w] = "run" /\ cl'[w] = None
    BY <1>a, <2>2, <2>3 DEF Types
  <2>5. \A u \in Worker \ {w} : pc'[u] = pc[u] /\ cl'[u] = cl[u]
    BY <1>a, <2>2, <2>3 DEF Types
  <2>6. \A d \in Proc : Returns(w, d)' <=> Returns(w, d)
    BY <2>4, <2>2, <2>3 DEF Returns
  <2>q. QED
    BY <1>h, <2>2, <2>4, <2>5, <2>6
<1>19. ASSUME NEW w \in Worker, ReturnLockParent(w) PROVE CountInv'
  <2>1. PICK k \in Proc, p \in Proc :
          ReturnLockParentDoes(w, k, p)
    BY <1>19, ReturnLockParentEffect
  <2>2. /\ pc[w] = "loop" /\ k = cl[w] /\ p = parent[k] /\ p # k /\ k # Root
        /\ clock[k] = None /\ status[k] = "RETURNING" /\ clock[p] = None
        /\ status[p] # "none" /\ pc' = [pc EXCEPT ![w] = "returnChild"]
        /\ cl' = [cl EXCEPT ![w] = p]
        /\ incomplete' = [incomplete EXCEPT ![p] = @ \ {k}]
        /\ UNCHANGED <<join>>
    BY <2>1 DEF ReturnLockParentDoes
  <2>3. /\ "loop" \notin ReturnPC /\ "returnChild" \in ReturnPC
    BY <2>2 DEF ReturnPC
  <2>a. k \in incomplete[p] /\ k \in Proc /\ p \in Proc /\ ~Joins(p)
    <3>1. k \in Proc /\ p \in Proc /\ status[k] = "RETURNING" /\ p = parent[k] /\ clock[p] = None
      BY <2>1 DEF ReturnLockParentDoes
    <3>2. None \notin Worker
      BY WorkerAssumption DEF None
    <3>3. ~Absent(k)
      BY <3>1, <3>2, AbsentFacts DEF Absent, Leaves
    <3>q. QED
      BY <1>l, <3>1, <3>2, <3>3 DEF TreeInv, ListInv, Live, Joins
  <2>4. /\ \A u \in Worker \ {w} : pc'[u] = pc[u] /\ cl'[u] = cl[u]
        /\ pc'[w] = "returnChild" /\ cl'[w] = p
    BY <1>a, <2>2 DEF Types
  <2>5. Joins(p)' /\ \A d \in Proc \ {p} : Joins(d)' <=> Joins(d)
    <3>1. Returns(w, p)' /\ \A d \in Proc \ {p} : Returns(w, d)' <=> Returns(w, d)
      BY <2>2, <2>3, <2>4 DEF Returns
    <3>q. QED
      BY <1>o, <2>4, <2>a, <3>1 DEF Joins
  <2>7. /\ incomplete'[p] = incomplete[p] \ {k}
        /\ incomplete[p] \in SUBSET Proc
        /\ \A d \in Proc \ {p} : incomplete'[d] = incomplete[d]
    BY <1>a, <2>2, <2>a DEF Types
  <2>8. /\ Cardinality(incomplete'[p]) = Cardinality(incomplete[p]) - 1
        /\ Cardinality(incomplete[p]) \in Nat
    BY <1>b, <2>7, <2>a
  <2>9. join' = join
    BY <2>2
  <2>10. join[p] = Cardinality(incomplete'[p]) + 1
    BY <1>s, <2>8, <2>a
  <2>11. ASSUME NEW d \in Proc
         PROVE  join'[d] = Cardinality(incomplete'[d]) + (IF Joins(d)' THEN 1 ELSE 0)
    <3>1. CASE d = p
      BY <2>5, <2>9, <2>10, <3>1
    <3>2. CASE d # p
      BY <1>s, <2>5, <2>7, <2>9, <3>2
    <3>q. QED
      BY <3>1, <3>2
  <2>q. QED
    BY <1>s, <2>9, <2>11 DEF CountInv
<1>20. ASSUME NEW w \in Worker, ReturnEnqueue(w) PROVE CountInv'
  <2>1. PICK k \in Proc, p \in Proc :
          ReturnEnqueueDoes(w, k, p)
    BY <1>20, ReturnEnqueueEffect
  <2>q. QED
    BY <1>g, <2>1 DEF ReturnEnqueueDoes, ReturnPC
<1>21. ASSUME NEW w \in Worker, ReturnDone(w) PROVE CountInv'
  <2>1. PICK k \in Proc, p \in Proc :
          ReturnDoneDoes(w, k, p)
    BY <1>21, ReturnDoneEffect
  <2>2. /\ pc[w] = "return" /\ k = child[w] /\ p = cl[w] /\ p # k
        /\ p = parent[k] /\ k # Root /\ status[k] = "RETURNING"
        /\ status[p] # "none" /\ pc' = [pc EXCEPT ![w] = "loop"]
        /\ join' = [join EXCEPT ![p] = @ - 1]
        /\ UNCHANGED <<incomplete>>
    BY <2>1 DEF ReturnDoneDoes
  <2>3. /\ "return" \in ReturnPC /\ "loop" \notin ReturnPC
    BY <2>2 DEF ReturnPC
  <2>a. p \in Proc /\ Joins(p)
    BY <2>1, <2>2, <2>3 DEF Joins, Returns
  <2>4. /\ \A u \in Worker \ {w} : pc'[u] = pc[u] /\ cl'[u] = cl[u]
        /\ pc'[w] = "loop"
    <3>1. cl' = cl \/ cl' = [cl EXCEPT ![w] = None]
      BY <2>1 DEF ReturnDoneDoes
    <3>q. QED
      BY <1>a, <2>2, <3>1 DEF Types
  <2>5. ~Joins(p)' /\ \A d \in Proc \ {p} : Joins(d)' <=> Joins(d)
    <3>1. ~Returns(w, p)' /\ \A d \in Proc \ {p} : Returns(w, d)' <=> Returns(w, d)
      BY <2>2, <2>3, <2>4 DEF Returns
    <3>2. clock[p] = w
      BY <1>l, <2>2, <2>3, <2>a DEF Returns
    <3>3. \A u \in Worker \ {w} : ~Returns(u, p)'
      BY <1>l, <2>4, <2>a, <3>2 DEF Returns
    <3>q. QED
      BY <1>o, <2>4, <2>a, <3>1, <3>3 DEF Joins
  <2>6. incomplete' = incomplete /\ join' = [join EXCEPT ![p] = @ - 1]
    BY <2>2
  <2>7. Cardinality(incomplete[p]) \in Nat
    BY <1>a, <1>b, <2>a DEF Types
  <2>8. /\ join' \in [Proc -> Nat] /\ join'[p] = join[p] - 1
        /\ \A d \in Proc \ {p} : join'[d] = join[d]
    BY <1>s, <2>6, <2>7, <2>a
  <2>q. QED
    BY <1>s, <2>5, <2>6, <2>7, <2>8, <2>a DEF CountInv
<1>22. ASSUME NEW w \in Worker, Spawn(w) PROVE CountInv'
  <2>1. PICK c \in Proc, f \in Proc :
          SpawnDoes(w, c, f)
    BY <1>22, SpawnEffect
  <2>q. QED
    BY <1>g, <2>1 DEF SpawnDoes, ReturnPC
<1>23. ASSUME NEW w \in Worker, ReturnFast(w) PROVE CountInv'
  <2>1. PICK f \in Proc :
          ReturnFastDoes(w, f)
    BY <1>23, ReturnFastEffect
  <2>q. QED
    BY <1>g, <2>1 DEF ReturnFastDoes, ReturnPC
<1>24. ASSUME NEW w \in Worker, PopResult(w) PROVE CountInv'
  BY <1>g, <1>24 DEF PopResult, program, state, tree, locks, caches, Goto,
     Outcome, ReturnPC
<1>25. ASSUME NEW w \in Worker, LockOwnDeque(w) PROVE CountInv'
  BY <1>g, <1>25 DEF LockOwnDeque, program, results, state, tree, caches, Goto,
     LockDeque, SlowAborts, ReturnPC
<1>26. ASSUME NEW w \in Worker, LockBottom(w) PROVE CountInv'
  <2>1. PICK c \in Proc :
          LockBottomDoes(w, c)
    BY <1>26, LockBottomEffect
  <2>2. /\ pc[w] \in {"handler", "sync", "abort", "result"} /\ c = Bottom(w)
        /\ deque[w] # <<>> /\ clock[c] = None /\ cl' = [cl EXCEPT ![w] = c]
        /\ UNCHANGED <<join, incomplete>>
    BY <2>1 DEF LockBottomDoes
  <2>3. /\ "handler" \notin ReturnPC /\ "sync" \notin ReturnPC
        /\ "abort" \notin ReturnPC /\ "result" \notin ReturnPC
        /\ "handlerPoll" \notin ReturnPC /\ "syncPoll" \notin ReturnPC
        /\ "setResult" \notin ReturnPC /\ "abortPoll" \notin ReturnPC
        /\ pc[w] \notin ReturnPC
    BY <2>2 DEF ReturnPC
  <2>4. ASSUME pc[w] = "handler", pc' = [pc EXCEPT ![w] = "handlerPoll"]
        PROVE  CountInv'
    <3>1. pc'[w] = "handlerPoll" /\ cl'[w] = c
      BY <1>a, <2>2, <2>3, <2>4 DEF Types
    <3>2. \A u \in Worker \ {w} : pc'[u] = pc[u] /\ cl'[u] = cl[u]
      BY <1>a, <2>2, <2>3, <2>4 DEF Types
    <3>3. \A d \in Proc : Returns(w, d)' <=> Returns(w, d)
      BY <3>1, <2>2, <2>3, <2>4 DEF Returns
    <3>q. QED
      BY <1>h, <2>2, <3>1, <3>2, <3>3
  <2>5. ASSUME pc[w] = "sync", pc' = [pc EXCEPT ![w] = "syncPoll"]
        PROVE  CountInv'
    <3>1. pc'[w] = "syncPoll" /\ cl'[w] = c
      BY <1>a, <2>2, <2>3, <2>5 DEF Types
    <3>2. \A u \in Worker \ {w} : pc'[u] = pc[u] /\ cl'[u] = cl[u]
      BY <1>a, <2>2, <2>3, <2>5 DEF Types
    <3>3. \A d \in Proc : Returns(w, d)' <=> Returns(w, d)
      BY <3>1, <2>2, <2>3, <2>5 DEF Returns
    <3>q. QED
      BY <1>h, <2>2, <3>1, <3>2, <3>3
  <2>6. ASSUME pc[w] = "result", pc' = [pc EXCEPT ![w] = "setResult"]
        PROVE  CountInv'
    <3>1. pc'[w] = "setResult" /\ cl'[w] = c
      BY <1>a, <2>2, <2>3, <2>6 DEF Types
    <3>2. \A u \in Worker \ {w} : pc'[u] = pc[u] /\ cl'[u] = cl[u]
      BY <1>a, <2>2, <2>3, <2>6 DEF Types
    <3>3. \A d \in Proc : Returns(w, d)' <=> Returns(w, d)
      BY <3>1, <2>2, <2>3, <2>6 DEF Returns
    <3>q. QED
      BY <1>h, <2>2, <3>1, <3>2, <3>3
  <2>7. ASSUME NEW s \in {ABORT_ALL, ALMOST_NO_ABORT}, pc[w] = "abort",
               status[c] = "RUNNING", pc' = [pc EXCEPT ![w] = "abortPoll"]
        PROVE  CountInv'
    <3>1. pc'[w] = "abortPoll" /\ cl'[w] = c
      BY <1>a, <2>2, <2>3, <2>7 DEF Types
    <3>2. \A u \in Worker \ {w} : pc'[u] = pc[u] /\ cl'[u] = cl[u]
      BY <1>a, <2>2, <2>3, <2>7 DEF Types
    <3>3. \A d \in Proc : Returns(w, d)' <=> Returns(w, d)
      BY <3>1, <2>2, <2>3, <2>7 DEF Returns
    <3>q. QED
      BY <1>h, <2>2, <3>1, <3>2, <3>3
  <2>q. QED
    BY <2>1, <2>2, <2>4, <2>5, <2>6, <2>7 DEF LockBottomDoes
<1>27. ASSUME NEW w \in Worker, Sync(w) PROVE CountInv'
  <2>1. PICK c \in Proc :
          SyncDoes(w, c)
    BY <1>27, SyncEffect
  <2>2. /\ pc[w] = "syncPoll" /\ c = cl[w] /\ c = Bottom(w)
        /\ c = deque[w][Size(deque[w])] /\ T(w) = 1 /\ H[w] = 0
        /\ status[c] = "RUNNING" /\ stack[w][1] = c
        /\ cl' = [cl EXCEPT ![w] = None]
        /\ UNCHANGED <<join, incomplete>>
    BY <2>1 DEF SyncDoes
  <2>3. /\ "syncPoll" \notin ReturnPC /\ "loop" \notin ReturnPC
        /\ "synced" \notin ReturnPC
    BY <2>2 DEF ReturnPC
  <2>4. ASSUME join[c] # 0, pc' = [pc EXCEPT ![w] = "loop"]
        PROVE  CountInv'
    <3>1. pc'[w] = "loop" /\ cl'[w] = None
      BY <1>a, <2>2, <2>3, <2>4 DEF Types
    <3>2. \A u \in Worker \ {w} : pc'[u] = pc[u] /\ cl'[u] = cl[u]
      BY <1>a, <2>2, <2>3, <2>4 DEF Types
    <3>3. \A d \in Proc : Returns(w, d)' <=> Returns(w, d)
      BY <3>1, <2>2, <2>3, <2>4 DEF Returns
    <3>q. QED
      BY <1>h, <2>2, <3>1, <3>2, <3>3
  <2>5. ASSUME join[c] = 0, pc' = [pc EXCEPT ![w] = "synced"]
        PROVE  CountInv'
    <3>1. pc'[w] = "synced" /\ cl'[w] = None
      BY <1>a, <2>2, <2>3, <2>5 DEF Types
    <3>2. \A u \in Worker \ {w} : pc'[u] = pc[u] /\ cl'[u] = cl[u]
      BY <1>a, <2>2, <2>3, <2>5 DEF Types
    <3>3. \A d \in Proc : Returns(w, d)' <=> Returns(w, d)
      BY <3>1, <2>2, <2>3, <2>5 DEF Returns
    <3>q. QED
      BY <1>h, <2>2, <3>1, <3>2, <3>3
  <2>q. QED
    BY <2>1, <2>2, <2>4, <2>5 DEF SyncDoes
<1>28. ASSUME NEW w \in Worker, AbortSlow(w) PROVE CountInv'
  <2>2. /\ pc[w] = "abortPoll" /\ pc' = [pc EXCEPT ![w] = "run"]
        /\ cl' = [cl EXCEPT ![w] = None]
        /\ UNCHANGED <<join, incomplete>>
    BY <1>28 DEF AbortSlow, program, results, tree, caches, Goto, UnlockBoth,
       Polled, Hand, UnlockClosure, UnlockDeque, Polls
  <2>3. /\ "abortPoll" \notin ReturnPC /\ "run" \notin ReturnPC
    BY <2>2 DEF ReturnPC
  <2>4. pc'[w] = "run" /\ cl'[w] = None
    BY <1>a, <2>2, <2>3 DEF Types
  <2>5. \A u \in Worker \ {w} : pc'[u] = pc[u] /\ cl'[u] = cl[u]
    BY <1>a, <2>2, <2>3 DEF Types
  <2>6. \A d \in Proc : Returns(w, d)' <=> Returns(w, d)
    BY <2>4, <2>2, <2>3 DEF Returns
  <2>q. QED
    BY <1>h, <2>2, <2>4, <2>5, <2>6
<1>29. ASSUME NEW w \in Worker, SetResult(w) PROVE CountInv'
  <2>1. PICK c \in Proc :
          SetResultDoes(w, c)
    BY <1>29, SetResultEffect
  <2>2. /\ pc[w] = "setResult" /\ c = cl[w] /\ c = Bottom(w)
        /\ c = deque[w][Size(deque[w])] /\ T(w) = 1 /\ H[w] = 0 /\ c # Root
        /\ deque[w] # <<>> /\ status[c] = "RUNNING" /\ stack[w][1] = c
        /\ pc' = [pc EXCEPT ![w] = "loop"] /\ cl' = [cl EXCEPT ![w] = None]
        /\ UNCHANGED <<join, incomplete>>
    BY <2>1 DEF SetResultDoes
  <2>3. /\ "setResult" \notin ReturnPC /\ "loop" \notin ReturnPC
    BY <2>2 DEF ReturnPC
  <2>4. pc'[w] = "loop" /\ cl'[w] = None
    BY <1>a, <2>2, <2>3 DEF Types
  <2>5. \A u \in Worker \ {w} : pc'[u] = pc[u] /\ cl'[u] = cl[u]
    BY <1>a, <2>2, <2>3 DEF Types
  <2>6. \A d \in Proc : Returns(w, d)' <=> Returns(w, d)
    BY <2>4, <2>2, <2>3 DEF Returns
  <2>q. QED
    BY <1>h, <2>2, <2>4, <2>5, <2>6
<1>30. ASSUME NEW w \in Worker, Done(w) PROVE CountInv'
  BY <1>g, <1>30 DEF Done, results, state, tree, locks, caches, Goto,
     AfterSync, ReturnPC
<1>31. ASSUME NEW w \in Worker, RemoveAndFree(w) PROVE CountInv'
  <2>1. RemoveAndFreeDoes(w)
    BY <1>31, RemoveAndFreeEffect
  <2>q. QED
    BY <1>g, <2>1 DEF RemoveAndFreeDoes, ReturnPC
<1>32. ASSUME NEW w \in Worker, CilkExit(w) PROVE CountInv'
  <2>1. CilkExitDoes(w)
    BY <1>32, CilkExitEffect
  <2>2. /\ pc[w] = "run" /\ Root \in Proc /\ clock[Root] = None
        /\ Running(w) # Root
        /\ UNCHANGED <<join, incomplete>>
    BY <2>1 DEF CilkExitDoes
  <2>3. /\ "run" \notin ReturnPC /\ "exitPoll" \notin ReturnPC
    BY <2>2 DEF ReturnPC
  <2>4. ASSUME status[Root] = "RUNNING",
               UNCHANGED <<pc, cl>>
        PROVE  CountInv'
    <3>1. pc'[w] = pc[w] /\ cl'[w] = cl[w]
      BY <1>a, <2>2, <2>3, <2>4 DEF Types
    <3>2. \A u \in Worker \ {w} : pc'[u] = pc[u] /\ cl'[u] = cl[u]
      BY <1>a, <2>2, <2>3, <2>4 DEF Types
    <3>3. \A d \in Proc : Returns(w, d)' <=> Returns(w, d)
      BY <3>1, <2>2, <2>3, <2>4 DEF Returns
    <3>q. QED
      BY <1>h, <2>2, <3>1, <3>2, <3>3
  <2>5. ASSUME status[Root] # "RUNNING", pc' = [pc EXCEPT ![w] = "exitPoll"],
               cl' = [cl EXCEPT ![w] = Root]
        PROVE  CountInv'
    <3>1. pc'[w] = "exitPoll" /\ cl'[w] = Root
      BY <1>a, <2>2, <2>3, <2>5 DEF Types
    <3>2. \A u \in Worker \ {w} : pc'[u] = pc[u] /\ cl'[u] = cl[u]
      BY <1>a, <2>2, <2>3, <2>5 DEF Types
    <3>3. \A d \in Proc : Returns(w, d)' <=> Returns(w, d)
      BY <3>1, <2>2, <2>3, <2>5 DEF Returns
    <3>q. QED
      BY <1>h, <2>2, <3>1, <3>2, <3>3
  <2>q. QED
    BY <2>1, <2>2, <2>4, <2>5 DEF CilkExitDoes
<1>33. ASSUME NEW w \in Worker, CilkExitDone(w) PROVE CountInv'
  <2>2. /\ pc[w] = "exitPoll" /\ pc' = [pc EXCEPT ![w] = "run"]
        /\ cl' = [cl EXCEPT ![w] = None]
        /\ UNCHANGED <<join, incomplete>>
    BY <1>33 DEF CilkExitDone, program, results, tree, caches, Goto, Hand,
       UnlockClosure, Polled, Polls
  <2>3. /\ "exitPoll" \notin ReturnPC /\ "run" \notin ReturnPC
    BY <2>2 DEF ReturnPC
  <2>4. pc'[w] = "run" /\ cl'[w] = None
    BY <1>a, <2>2, <2>3 DEF Types
  <2>5. \A u \in Worker \ {w} : pc'[u] = pc[u] /\ cl'[u] = cl[u]
    BY <1>a, <2>2, <2>3 DEF Types
  <2>6. \A d \in Proc : Returns(w, d)' <=> Returns(w, d)
    BY <2>4, <2>2, <2>3 DEF Returns
  <2>q. QED
    BY <1>h, <2>2, <2>4, <2>5, <2>6
<1>34. ASSUME NEW w \in Worker, HandlerPolled(w) PROVE CountInv'
  <2>1. PICK t \in Proc, t1 \in Proc :
          HandlerPolledDoes(w, t, t1)
    BY <1>34, HandlerPolledEffect
  <2>2. /\ pc[w] = "handlerPoll" /\ t = cl[w] /\ t1 = Bottom(w)
        /\ deque[w] # <<>>
        /\ UNCHANGED <<join, incomplete>>
    BY <2>1 DEF HandlerPolledDoes
  <2>3. /\ "handlerPoll" \notin ReturnPC /\ "handlerAct" \notin ReturnPC
        /\ "handlerSwap" \notin ReturnPC
    BY <2>2 DEF ReturnPC
  <2>4. ASSUME t1 = t, pc' = [pc EXCEPT ![w] = "handlerAct"],
               UNCHANGED <<cl>>
        PROVE  CountInv'
    <3>1. pc'[w] = "handlerAct" /\ cl'[w] = cl[w]
      BY <1>a, <2>2, <2>3, <2>4 DEF Types
    <3>2. \A u \in Worker \ {w} : pc'[u] = pc[u] /\ cl'[u] = cl[u]
      BY <1>a, <2>2, <2>3, <2>4 DEF Types
    <3>3. \A d \in Proc : Returns(w, d)' <=> Returns(w, d)
      BY <3>1, <2>2, <2>3, <2>4 DEF Returns
    <3>q. QED
      BY <1>h, <2>2, <3>1, <3>2, <3>3
  <2>5. ASSUME t1 # t, status[t] = "READY",
               pc' = [pc EXCEPT ![w] = "handlerSwap"],
               cl' = [cl EXCEPT ![w] = t1]
        PROVE  CountInv'
    <3>1. pc'[w] = "handlerSwap" /\ cl'[w] = t1
      BY <1>a, <2>2, <2>3, <2>5 DEF Types
    <3>2. \A u \in Worker \ {w} : pc'[u] = pc[u] /\ cl'[u] = cl[u]
      BY <1>a, <2>2, <2>3, <2>5 DEF Types
    <3>3. \A d \in Proc : Returns(w, d)' <=> Returns(w, d)
      BY <3>1, <2>2, <2>3, <2>5 DEF Returns
    <3>q. QED
      BY <1>h, <2>2, <3>1, <3>2, <3>3
  <2>q. QED
    BY <2>1, <2>2, <2>4, <2>5 DEF HandlerPolledDoes
<1>35. ASSUME NEW w \in Worker, HandlerSwap(w) PROVE CountInv'
  BY <1>g, <1>35 DEF HandlerSwap, program, results, state, tree, caches, Goto,
     LockClosure, ReturnPC
<1>36. ASSUME NEW w \in Worker, HandlerStolen(w) PROVE CountInv'
  <2>1. PICK c \in Proc :
          HandlerStolenDoes(w, c)
    BY <1>36, HandlerStolenEffect
  <2>2. /\ pc[w] = "handlerAct" /\ c = cl[w] /\ c = Bottom(w)
        /\ c = deque[w][Size(deque[w])] /\ c # Root /\ deque[w] # <<>>
        /\ T(w) \in Nat \ {0} /\ H[w] \in Nat /\ H[w] >= T(w)
        /\ status[c] \in {"RUNNING", "RETURNING"}
        /\ cl' = [cl EXCEPT ![w] = None]
        /\ UNCHANGED <<join, incomplete>>
    BY <2>1 DEF HandlerStolenDoes
  <2>3. /\ "handlerAct" \notin ReturnPC /\ "loop" \notin ReturnPC
        /\ "pop" \notin ReturnPC
    BY <2>2 DEF ReturnPC
  <2>4. ASSUME T(w) = 1, pc' = [pc EXCEPT ![w] = "loop"]
        PROVE  CountInv'
    <3>1. pc'[w] = "loop" /\ cl'[w] = None
      BY <1>a, <2>2, <2>3, <2>4 DEF Types
    <3>2. \A u \in Worker \ {w} : pc'[u] = pc[u] /\ cl'[u] = cl[u]
      BY <1>a, <2>2, <2>3, <2>4 DEF Types
    <3>3. \A d \in Proc : Returns(w, d)' <=> Returns(w, d)
      BY <3>1, <2>2, <2>3, <2>4 DEF Returns
    <3>q. QED
      BY <1>h, <2>2, <3>1, <3>2, <3>3
  <2>5. ASSUME T(w) # 1, pc' = [pc EXCEPT ![w] = "pop"]
        PROVE  CountInv'
    <3>1. pc'[w] = "pop" /\ cl'[w] = None
      BY <1>a, <2>2, <2>3, <2>5 DEF Types
    <3>2. \A u \in Worker \ {w} : pc'[u] = pc[u] /\ cl'[u] = cl[u]
      BY <1>a, <2>2, <2>3, <2>5 DEF Types
    <3>3. \A d \in Proc : Returns(w, d)' <=> Returns(w, d)
      BY <3>1, <2>2, <2>3, <2>5 DEF Returns
    <3>q. QED
      BY <1>h, <2>2, <3>1, <3>2, <3>3
  <2>q. QED
    BY <2>1, <2>2, <2>4, <2>5 DEF HandlerStolenDoes
<1>37. ASSUME NEW w \in Worker, HandlerAbort(w) PROVE CountInv'
  <2>1. PICK c \in Proc, f \in Proc :
          HandlerAbortDoes(w, c, f)
    BY <1>37, HandlerAbortEffect
  <2>2. /\ pc[w] = "handlerAct" /\ c = cl[w] /\ c = Bottom(w)
        /\ c = deque[w][Size(deque[w])] /\ deque[w] # <<>>
        /\ T(w) \in Nat \ {0} /\ H[w] \in Nat /\ H[w] < T(w)
        /\ status[c] = "RUNNING" /\ stack[w][H[w] + 1] = c
        /\ cl' = [cl EXCEPT ![w] = None]
        /\ UNCHANGED <<join, incomplete>>
    BY <2>1 DEF HandlerAbortDoes
  <2>3. /\ "handlerAct" \notin ReturnPC /\ "loop" \notin ReturnPC
        /\ "pop" \notin ReturnPC
    BY <2>2 DEF ReturnPC
  <2>4. ASSUME T(w) = 1, H[w] = 0, join[c] # 0,
               pc' = [pc EXCEPT ![w] = "loop"]
        PROVE  CountInv'
    <3>1. pc'[w] = "loop" /\ cl'[w] = None
      BY <1>a, <2>2, <2>3, <2>4 DEF Types
    <3>2. \A u \in Worker \ {w} : pc'[u] = pc[u] /\ cl'[u] = cl[u]
      BY <1>a, <2>2, <2>3, <2>4 DEF Types
    <3>3. \A d \in Proc : Returns(w, d)' <=> Returns(w, d)
      BY <3>1, <2>2, <2>3, <2>4 DEF Returns
    <3>q. QED
      BY <1>h, <2>2, <3>1, <3>2, <3>3
  <2>5. ASSUME T(w) = 1, H[w] = 0, join[c] = 0, c # Root,
               pc' = [pc EXCEPT ![w] = "loop"]
        PROVE  CountInv'
    <3>1. pc'[w] = "loop" /\ cl'[w] = None
      BY <1>a, <2>2, <2>3, <2>5 DEF Types
    <3>2. \A u \in Worker \ {w} : pc'[u] = pc[u] /\ cl'[u] = cl[u]
      BY <1>a, <2>2, <2>3, <2>5 DEF Types
    <3>3. \A d \in Proc : Returns(w, d)' <=> Returns(w, d)
      BY <3>1, <2>2, <2>3, <2>5 DEF Returns
    <3>q. QED
      BY <1>h, <2>2, <3>1, <3>2, <3>3
  <2>6. ASSUME T(w) # 1, H[w] + 1 = T(w), join[c] = 0, c # Root,
               pc' = [pc EXCEPT ![w] = "pop"]
        PROVE  CountInv'
    <3>1. pc'[w] = "pop" /\ cl'[w] = None
      BY <1>a, <2>2, <2>3, <2>6 DEF Types
    <3>2. \A u \in Worker \ {w} : pc'[u] = pc[u] /\ cl'[u] = cl[u]
      BY <1>a, <2>2, <2>3, <2>6 DEF Types
    <3>3. \A d \in Proc : Returns(w, d)' <=> Returns(w, d)
      BY <3>1, <2>2, <2>3, <2>6 DEF Returns
    <3>q. QED
      BY <1>h, <2>2, <3>1, <3>2, <3>3
  <2>7. ASSUME H[w] + 1 < T(w), f = stack[w][T(w)], f # Root,
               status[f] = "none", pc' = [pc EXCEPT ![w] = "pop"]
        PROVE  CountInv'
    <3>1. pc'[w] = "pop" /\ cl'[w] = None
      BY <1>a, <2>2, <2>3, <2>7 DEF Types
    <3>2. \A u \in Worker \ {w} : pc'[u] = pc[u] /\ cl'[u] = cl[u]
      BY <1>a, <2>2, <2>3, <2>7 DEF Types
    <3>3. \A d \in Proc : Returns(w, d)' <=> Returns(w, d)
      BY <3>1, <2>2, <2>3, <2>7 DEF Returns
    <3>q. QED
      BY <1>h, <2>2, <3>1, <3>2, <3>3
  <2>q. QED
    BY <2>1, <2>2, <2>4, <2>5, <2>6, <2>7 DEF HandlerAbortDoes, AbortWaits,
       AbortReturns, AbortPops
<1>38. ASSUME NEW w \in Worker, HandlerResume(w) PROVE CountInv'
  <2>2. /\ pc[w] = "handlerAct" /\ ~(H[w] >= T(w))
        /\ pc' = [pc EXCEPT ![w] = "run"] /\ cl' = [cl EXCEPT ![w] = None]
        /\ UNCHANGED <<join, incomplete>>
    BY <1>38 DEF HandlerResume, program, tree, Goto, UnlockBoth, Outcome,
       BeingAborted, Stolen, Hand, UnlockClosure, UnlockDeque
  <2>3. /\ "handlerAct" \notin ReturnPC /\ "run" \notin ReturnPC
    BY <2>2 DEF ReturnPC
  <2>4. pc'[w] = "run" /\ cl'[w] = None
    BY <1>a, <2>2, <2>3 DEF Types
  <2>5. \A u \in Worker \ {w} : pc'[u] = pc[u] /\ cl'[u] = cl[u]
    BY <1>a, <2>2, <2>3 DEF Types
  <2>6. \A d \in Proc : Returns(w, d)' <=> Returns(w, d)
    BY <2>4, <2>2, <2>3 DEF Returns
  <2>q. QED
    BY <1>h, <2>2, <2>4, <2>5, <2>6
<1>39. CASE UNCHANGED vars
  BY <1>f, <1>39 DEF vars
<1>q. QED
  BY <1>1, <1>2, <1>3, <1>4, <1>5, <1>6, <1>7, <1>8, <1>9, <1>10, <1>11, <1>12,
     <1>13, <1>14, <1>15, <1>16, <1>17, <1>18, <1>19, <1>20, <1>21, <1>22,
     <1>23, <1>24, <1>25, <1>26, <1>27, <1>28, <1>29, <1>30, <1>31, <1>32,
     <1>33, <1>34, <1>35, <1>36, <1>37, <1>38, <1>39 DEF Next, Step, Terminated

(* What the join counters are at the statuses is kept: each handler looks *)
(* at the counter before it suspends a closure or returns it.             *)
LEMMA JoinInvStep ==
    ASSUME IInv, TreeInv, [Next]_vars
    PROVE  JoinInv'
<1>a. Types /\ join \in [Proc -> Nat]
  BY DEF IInv, TreeInv, CountInv
<1>s. /\ \A c \in Proc : JoinFits(c)
      /\ \A w \in Worker : pc[w] \in SyncedPC => pc[w] \in WorkPC /\ join[Bottom(w)] = 0
  BY DEF TreeInv, JoinInv, SyncedPC, WorkPC, SlowPC
<1>b. ASSUME NEW w \in Worker, pc[w] = "return"
      PROVE  /\ cl[w] \in Proc /\ join[cl[w]] # 0
             /\ status[cl[w]] \notin {"none", "RETURNING", "freed"}
  <2>1. /\ cl[w] \in Proc /\ parent[child[w]] = cl[w] /\ child[w] \in Proc
        /\ Live(child[w]) /\ child[w] # Root
    BY <1>b, AbsentFacts DEF AbsentPC
  <2>2. IsFiniteSet(Proc) /\ incomplete[cl[w]] \in SUBSET Proc
    BY <1>a, <2>1, FS_Interval, BoundAssumption DEF Proc, Types
  <2>3. Cardinality(incomplete[cl[w]]) \in Nat
    BY <2>2, FS_Subset, FS_CardinalityType
  <2>4. Joins(cl[w])
    BY <1>b DEF Joins, Returns, ReturnPC
  <2>q. QED
    BY <2>1, <2>3, <2>4 DEF TreeInv, CountInv, LiveInv, ParentLives
<1>1. ASSUME NEW w \in Worker, Step(w), NEW d \in Proc PROVE JoinFits(d)'
  <2>1. Lives(w, d) /\ Counts(w, d) /\ JoinFits(d) /\ join[d] \in Nat
    BY <1>1, <1>a, <1>s, StatusSteps, CountSteps
  <2>2. CASE join'[d] = join[d]
    <3>1. pc[w] \in WorkPC /\ d = Bottom(w) /\ H[w] >= T(w) => join[d] = 0
      BY WorkFacts DEF IInv, FreshInv, Fresh
    <3>q. QED
      BY <1>s, <2>1, <2>2, <3>1 DEF Lives, JoinFits
  <2>3. CASE join'[d] = join[d] + 1 /\ status'[d] = "READY"
    BY <2>3 DEF JoinFits
  <2>4. CASE /\ pc[w] = "return" /\ d = cl[w] /\ join'[d] = join[d] - 1
             /\ status[d] = "SUSPENDED" /\ join[d] = 1 => status'[d] = "READY"
    <3>1. status'[d] # "SUSPENDED" \/ status[d] = "SUSPENDED"
      BY <2>1, <2>4 DEF Lives, WorkPC, PopPC, SlowPC
    <3>2. status'[d] \notin {"none", "RETURNING", "freed"}
      BY <1>b, <2>1, <2>4 DEF Lives, WorkPC, PopPC, SlowPC
    <3>q. QED
      BY <1>b, <2>1, <2>4, <3>1, <3>2 DEF JoinFits
  <2>q. QED
    BY <2>1, <2>2, <2>3, <2>4 DEF Counts
<1>2. ASSUME NEW w \in Worker, Step(w), NEW u \in Worker, pc'[u] \in SyncedPC
      PROVE  join'[Bottom(u)'] = 0
  <2>1. CASE u # w
    <3>1. pc[u] \in SyncedPC /\ pc[u] \in SlowPC /\ pc[u] \in WorkPC
      BY <1>2, <1>a, <2>1, OthersStay DEF SyncedPC, SlowPC, WorkPC
    <3>2. Bottom(u) \in Proc /\ join[Bottom(u)] = 0 /\ T(u) = 1 /\ H[u] = 0
      BY <1>s, <3>1, WorkFacts
    <3>3. Bottom(u)' = Bottom(u) /\ status'[Bottom(u)] = status[Bottom(u)]
      BY <1>2, <2>1, <3>1, <3>2, WorkStays DEF StealPromoteDoes
    <3>q. QED
      BY <1>2, <1>b, <3>2, <3>3, CountSteps DEF Counts
  <2>2. CASE u = w
    <3>1. \/ Sync(w)
          \/ /\ \/ LockOwnDeque(w) \/ Done(w) \/ LockBottom(w) \/ HandlerPolled(w)
                \/ HandlerSwap(w) \/ InletKilled(w) \/ InletRuns(w) \/ WalkDown(w) \/ WalkUp(w)
             /\ pc'[w] \in SyncedPC => pc[w] \in SyncedPC
      <4>1. InletAborts(w) => pc'[w] \notin SyncedPC
        BY DEF InletAborts, Polls, PollPC, SyncedPC
      <4>2. ASSUME LockOwnDeque(w) \/ Done(w) \/ LockBottom(w) \/ HandlerPolled(w)
                      \/ HandlerSwap(w)
            PROVE  pc'[w] \in SyncedPC => pc[w] \in SyncedPC
        <5>1. pc \in [Worker -> PC]
          BY <1>a DEF Types
        <5>2. CASE LockOwnDeque(w)
          BY <5>1, <5>2 DEF LockOwnDeque, Goto, SyncedPC
        <5>3. CASE Done(w) \/ LockBottom(w)
          BY <5>1, <5>3 DEF Done, AfterSync, LockBottom, Goto, SyncedPC
        <5>4. CASE HandlerPolled(w) \/ HandlerSwap(w)
          BY <5>1, <5>4 DEF HandlerPolled, HandlerSwap, Goto, SyncedPC
        <5>q. QED
          BY <4>2, <5>2, <5>3, <5>4
      <4>q. QED
        BY <1>2, <1>a, <2>2, <4>1, <4>2, PolledSteps DEF PolledPC
    <3>2. CASE Sync(w)
      <4>1. PICK c \in Proc : SyncDoes(w, c)
        BY <3>2, SyncEffect
      <4>2. c = Bottom(w) /\ join[c] = 0 /\ deque' = deque /\ join' = join
        BY <1>2, <1>a, <2>2, <4>1 DEF SyncDoes, SyncedPC, Types
      <4>q. QED
        BY <2>2, <4>2 DEF Bottom
    <3>3. ASSUME \/ LockOwnDeque(w) \/ Done(w) \/ LockBottom(w) \/ HandlerPolled(w)
                 \/ HandlerSwap(w) \/ InletKilled(w) \/ InletRuns(w) \/ WalkDown(w) \/ WalkUp(w)
          PROVE  join' = join /\ deque' = deque
      BY <3>3 DEF LockOwnDeque, Done, LockBottom, HandlerPolled, HandlerSwap, InletKilled,
         InletRuns, WalkDown, WalkUp, tree
    <3>q. QED
      BY <1>2, <1>s, <2>2, <3>1, <3>2, <3>3 DEF Bottom
  <2>q. QED
    BY <2>1, <2>2
<1>3. ASSUME UNCHANGED vars PROVE JoinInv'
  BY <1>3 DEF TreeInv, JoinInv, JoinFits, vars, Bottom
<1>q. QED
  BY <1>1, <1>2, <1>3 DEF Next, Terminated, JoinInv

(* A closure that returns or ends has no child left, so parents outlive   *)
(* their children.                                                        *)
LEMMA LiveInvStep ==
    ASSUME IInv, TreeInv, [Next]_vars
    PROVE  LiveInv'
<1>a. Types /\ Root \in Proc
  BY BoundAssumption DEF IInv, Proc, Root
<1>1. ASSUME NEW w \in Worker, Step(w) PROVE LiveInv'
  <2>1. ASSUME NEW p \in Proc, status[p] # "none", status'[p] \in {"none", "RETURNING", "freed"}
        PROVE  \/ status[p] \in {"RETURNING", "freed"} /\ p # Root
               \/ status'[p] = status[p]
               \/ \A k \in Proc : parent[k] = p => ~Live(k)
    <3>1. \/ status[p] = "RETURNING" /\ pc[w] = "return" /\ p = child[w]
          \/ status'[p] = status[p]
          \/ /\ (pc[w] \in WorkPC /\ p = Bottom(w)) \/ (pc[w] = "loop" /\ p = cl[w])
             /\ \/ join[p] = 0
                \/ /\ pc[w] \in WorkPC /\ p = Bottom(w)
                   /\ pc[w] \in SyncedPC \/ H[w] >= T(w)
      BY <1>1, <2>1, StatusSteps DEF Lives
    <3>2. pc[w] \in WorkPC /\ p = Bottom(w) /\ (pc[w] \in SyncedPC \/ H[w] >= T(w)) => join[p] = 0
      BY WorkFacts DEF IInv, FreshInv, Fresh, TreeInv, JoinInv
    <3>3. pc[w] = "return" => child[w] # Root
      BY AbsentFacts DEF AbsentPC
    <3>q. QED
      BY <3>1, <3>2, <3>3, NotStolen, Childless
  <2>2. ASSUME NEW k \in Proc, Live(k)'
        PROVE  /\ parent'[k] = parent[k]
               /\ \/ Live(k)
                  \/ /\ status[parent[k]] = "RUNNING" /\ k # Root /\ parent[k] \in Proc
                     /\ status'[parent[k]] \in {"RUNNING", "READY"}
    <3>1. CASE status[k] = "none"
      <4>1. k # Root \/ ~(status[k] = "none")
        BY DEF IInv, RootInv
      <4>q. QED
        BY <1>1, <2>2, <3>1, <4>1, StatusSteps DEF Lives, Live
    <3>2. CASE status[k] # "none"
      <4>1. parent'[k] = parent[k]
        BY <1>1, <3>2, SpawnedFirst, ParentStays
      <4>q. QED
        BY <1>1, <2>2, <3>2, <4>1, StatusSteps DEF Lives, Live
    <3>q. QED
      BY <3>1, <3>2
  <2>3. ASSUME NEW k \in Proc \ {Root}, Live(k)' PROVE ParentLives(k)'
    <3>1. CASE Live(k)
      BY <2>1, <2>2, <2>3, <3>1, ParentFacts DEF TreeInv, LiveInv, ParentLives
    <3>2. CASE ~Live(k)
      BY <2>2, <2>3, <3>2 DEF ParentLives
    <3>q. QED
      BY <3>1, <3>2
  <2>4. ASSUME status'[Root] = "freed", NEW k \in Proc, Live(k)' PROVE FALSE
    <3>1. status[Root] # "none"
      BY DEF IInv, RootInv
    <3>2. \A d \in Proc \ {Root} : ~Live(d)
      BY <1>a, <2>1, <2>4, <3>1, RootLast DEF TreeInv, LiveInv
    <3>q. QED
      BY <1>a, <2>2, <2>4, <3>2 DEF Live
  <2>q. QED
    BY <2>3, <2>4 DEF LiveInv
<1>2. ASSUME UNCHANGED vars PROVE LiveInv'
  BY <1>2 DEF TreeInv, LiveInv, ParentLives, Live, vars
<1>q. QED
  BY <1>1, <1>2 DEF Next, Terminated

(* The lists that an abort signal goes down lose nothing while it is there: *)
(* a child is taken off a list under the lock of the list's closure.        *)
LEMMA WalkTreeStep ==
    ASSUME IInv, TreeInv, [Next]_vars
    PROVE  WalkTree'
<1>a. Types /\ Types'
  BY NextIInv DEF IInv
<1>s. WalkTree
  BY DEF TreeInv
<1>l. \A u \in Worker : \A i \in 1 .. Size(walk[u]) :
         walk[u][i].at \in Proc /\ clock[walk[u][i].at] = u
  <2> SUFFICES ASSUME NEW u \in Worker, NEW i \in 1 .. Size(walk[u])
               PROVE  walk[u][i].at \in Proc /\ clock[walk[u][i].at] = u
    OBVIOUS
  <2>1. walk[u][i].at \in Proc /\ walk[u] # <<>> /\ Size(walk[u]) \in Nat
    BY <1>a, WalkFacts
  <2>2. CASE i = 1
    <3>1. pc[u] \in PollPC /\ walk[u][1].at = cl[u]
      BY <2>1 DEF IInv, WalkInv
    <3>2. pc[u] \in LockPC
      BY <3>1 DEF PollPC, LockPC
    <3>q. QED
      BY <2>1, <2>2, <3>1, <3>2, LockFacts
  <2>3. CASE i # 1
    <3>1. i \in 2 .. Size(walk[u])
      BY <2>1, <2>3
    <3>2. HoldsClosure(u, walk[u][i].at)
      BY <3>1 DEF HoldsClosure
    <3>q. QED
      BY <2>1, <3>2 DEF IInv, ClosureLocks
  <2>q. QED
    BY <2>2, <2>3
<1>h. ASSUME NEW w \in Worker, \A u \in Worker \ {w} : walk'[u] = walk[u],
             \A u \in Worker : \A i \in 1 .. Size(walk[u]) :
                 incomplete[walk[u][i].at] \subseteq incomplete'[walk[u][i].at],
             \A i \in 1 .. Size(walk'[w]) :
                 walk'[w][i].rest \subseteq incomplete'[walk'[w][i].at],
             \A i \in 2 .. Size(walk'[w]) :
                 walk'[w][i].at \in incomplete'[walk'[w][i - 1].at]
      PROVE  WalkTree'
  <2>1. ASSUME NEW u \in Worker, NEW i \in 1 .. Size(walk'[u])
        PROVE  walk'[u][i].rest \subseteq incomplete'[walk'[u][i].at]
    BY <1>h, <1>s, <2>1 DEF WalkTree
  <2>2. ASSUME NEW u \in Worker, NEW i \in 2 .. Size(walk'[u])
        PROVE  walk'[u][i].at \in incomplete'[walk'[u][i - 1].at]
    <3>1. CASE u = w
      BY <1>h, <2>2, <3>1
    <3>2. CASE u # w
      <4>1. walk'[u] = walk[u] /\ Size(walk[u]) \in Nat
        BY <1>a, <1>h, <3>2, WalkFacts
      <4>2. i - 1 \in 1 .. Size(walk[u])
        BY <2>2, <4>1
      <4>3. walk[u][i].at \in incomplete[walk[u][i - 1].at]
        BY <1>s, <2>2, <4>1 DEF WalkTree
      <4>q. QED
        BY <1>h, <4>1, <4>2, <4>3
    <3>q. QED
      BY <3>1, <3>2
  <2>q. QED
    BY <2>1, <2>2 DEF WalkTree
<1>u. ASSUME walk' = walk,
             \A u \in Worker : \A i \in 1 .. Size(walk[u]) :
                 incomplete[walk[u][i].at] \subseteq incomplete'[walk[u][i].at]
      PROVE  WalkTree'
  <2>1. ASSUME NEW u \in Worker, NEW i \in 2 .. Size(walk[u])
        PROVE  i - 1 \in 1 .. Size(walk[u])
    BY <1>a, <2>1, WalkFacts
  <2>q. QED
    BY <1>s, <1>u, <2>1 DEF WalkTree
<1>o. ASSUME NEW w \in Worker, NEW c \in Proc, NEW r \in SUBSET Proc,
             walk' = [walk EXCEPT ![w] = <<[at |-> c, rest |-> r]>>],
             r \subseteq incomplete'[c],
             \A d \in Proc : incomplete[d] \subseteq incomplete'[d]
      PROVE  WalkTree'
  <2> DEFINE e == [at |-> c, rest |-> r]
  <2>1. /\ walk'[w] = <<e>> /\ e.at = c /\ e.rest = r
        /\ \A u \in Worker \ {w} : walk'[u] = walk[u]
    BY <1>a, <1>o DEF Types
  <2>2. e \in [at : Proc, rest : SUBSET Proc]
    BY <1>o
  <2> HIDE DEF e
  <2>3. Size(walk'[w]) = 1 /\ walk'[w][1] = e
    BY <2>1, <2>2, SingleFacts
  <2>4. \A i \in 1 .. Size(walk'[w]) : walk'[w][i].rest \subseteq incomplete'[walk'[w][i].at]
    BY <1>o, <2>1, <2>3
  <2>q. QED
    BY <1>h, <1>l, <1>o, <2>1, <2>3, <2>4
<1>f. ASSUME UNCHANGED <<walk, incomplete>>
      PROVE  WalkTree'
BY <1>f DEF TreeInv, WalkTree
<1>1. ASSUME NEW w \in Worker, LeaveScheduler(w) PROVE WalkTree'
  BY <1>f, <1>1 DEF LeaveScheduler, program, results, state, tree, locks,
     caches, Goto
<1>2. ASSUME NEW w \in Worker, TakeOwn(w) PROVE WalkTree'
  <2>1. TakeOwnDoes(w)
    BY <1>2, TakeOwnEffect
  <2>q. QED
    BY <1>f, <2>1 DEF TakeOwnDoes
<1>3. ASSUME NEW w \in Worker, StealLockDeque(w) PROVE WalkTree'
  BY <1>f, <1>3 DEF StealLockDeque, program, results, state, tree, caches,
     Goto, LockDeque, Peek, Hand
<1>4. ASSUME NEW w \in Worker, StealLockClosure(w) PROVE WalkTree'
  BY <1>f, <1>4 DEF StealLockClosure, program, results, state, tree, caches,
     Goto, LockClosure
<1>5. ASSUME NEW w \in Worker, StealGiveUp(w) PROVE WalkTree'
  BY <1>f, <1>5 DEF StealGiveUp, program, results, state, tree, caches, Goto,
     Hand, UnlockClosure, BeingAborted
<1>6. ASSUME NEW w \in Worker, StealUnlockDeque(w) PROVE WalkTree'
  BY <1>f, <1>6 DEF StealUnlockDeque, program, results, state, tree, caches,
     Goto, UnlockDeque
<1>7. ASSUME NEW w \in Worker, StealReady(w) PROVE WalkTree'
  <2>1. PICK v \in Worker \ {w}, c \in Proc :
          StealReadyDoes(w, v, c)
    BY <1>7, StealReadyEffect
  <2>q. QED
    BY <1>f, <2>1 DEF StealReadyDoes
<1>8. ASSUME NEW w \in Worker, StealPromote(w) PROVE WalkTree'
  <2>1. PICK v \in Worker \ {w}, c \in Proc, k \in Proc :
          StealPromoteDoes(w, v, c, k)
    BY <1>8, StealPromoteEffect
  <2>q. QED
    BY <1>f, <2>1 DEF StealPromoteDoes
<1>9. ASSUME NEW w \in Worker, StealFinish(w) PROVE WalkTree'
  <2>2. /\ incomplete' = [incomplete EXCEPT ![cl[w]] = @ \cup {child[w]}]
        /\ UNCHANGED <<walk>>
    BY <1>9 DEF StealFinish, program, results, caches, Goto, UnlockClosure,
       SetStatus, AddChild
  <2>4. \A d \in Proc : incomplete[d] \subseteq incomplete'[d]
    BY <1>a, <2>2 DEF Types
  <2>q. QED
    BY <1>l, <1>u, <2>2, <2>4
<1>10. ASSUME NEW w \in Worker, InletKilled(w) PROVE WalkTree'
  BY <1>f, <1>10 DEF InletKilled, program, state, locks, caches, Outcome,
     BeingAborted, Polls
<1>11. ASSUME NEW w \in Worker, InletRuns(w) PROVE WalkTree'
  BY <1>f, <1>11 DEF InletRuns, program, state, locks, caches, Outcome,
     BeingAborted, Polls
<1>12. ASSUME NEW w \in Worker, InletAborts(w) PROVE WalkTree'
  <2>1. PICK c \in Proc, r \in SUBSET Proc :
          InletAbortsDoes(w, c, r)
    BY <1>12, InletAbortsEffect
  <2>2. /\ c = cl[w] /\ pc[w] \in PollPC /\ walk[w] = <<>>
        /\ walk' = [walk EXCEPT ![w] = <<[at |-> c, rest |-> r]>>]
    BY <2>1 DEF InletAbortsDoes
  <2>a. c \in Proc
    BY <2>1
  <2>4. ASSUME NEW k \in Proc, pc[w] = "handlerPoll", k # c, k # Root,
               r = incomplete[c] \cup {k},
               incomplete' = [incomplete EXCEPT ![c] = @ \cup {k}]
        PROVE  WalkTree'
    <3>1. \A d \in Proc : incomplete[d] \subseteq incomplete'[d]
      BY <1>a, <2>4 DEF Types
    <3>2. r \subseteq incomplete'[c]
      BY <1>a, <2>a, <2>4 DEF Types
    <3>q. QED
      BY <1>o, <2>1, <2>2, <3>1, <3>2
  <2>5. ASSUME r = incomplete[c],
               UNCHANGED <<incomplete>>
        PROVE  WalkTree'
    BY <1>o, <2>1, <2>2, <2>5
  <2>q. QED
    BY <2>1, <2>2, <2>4, <2>5 DEF InletAbortsDoes, InletSplits
<1>13. ASSUME NEW w \in Worker, WalkDown(w) PROVE WalkTree'
  <2>1. PICK n \in Nat \ {0}, k \in Proc :
          WalkDownDoes(w, n, k)
    BY <1>13, WalkDownEffect
  <2>2. /\ n = Size(walk[w]) /\ k \in walk[w][n].rest /\ clock[k] = None
        /\ k # Root
        /\ \A i \in 1 .. n : walk[w][i].at # k
        /\ walk' \in [Worker -> Walks] /\ \A u \in Worker \ {w} : walk'[u] = walk[u]
        /\ Size(walk'[w]) = n + 1
        /\ \A i \in 1 .. n : walk'[w][i].at = walk[w][i].at
        /\ \A i \in 1 .. n - 1 : walk'[w][i].rest = walk[w][i].rest
        /\ walk'[w][n].rest = walk[w][n].rest \ {k}
        /\ walk'[w][n + 1] = [at |-> k, rest |-> incomplete[k]]
        /\ UNCHANGED <<incomplete>>
    BY <2>1 DEF WalkDownDoes
  <2>4. ASSUME NEW i \in 1 .. Size(walk'[w])
        PROVE  walk'[w][i].rest \subseteq incomplete'[walk'[w][i].at]
    <3>1. CASE i = n + 1
      BY <2>2, <3>1
    <3>2. CASE i = n
      <4>1. n \in 1 .. n
        BY <2>1
      <4>2. walk'[w][n].at = walk[w][n].at
        BY <2>2, <4>1
      <4>3. walk[w][n].rest \subseteq incomplete[walk[w][n].at]
        BY <1>s, <2>2, <4>1 DEF WalkTree
      <4>q. QED
        BY <2>2, <3>2, <4>2, <4>3
    <3>3. CASE i \in 1 .. n - 1
      <4>1. i \in 1 .. n
        BY <2>1, <3>3
      <4>2. walk[w][i].rest \subseteq incomplete[walk[w][i].at]
        BY <1>s, <2>2, <4>1 DEF WalkTree
      <4>q. QED
        BY <2>2, <3>3, <4>1, <4>2
    <3>q. QED
      BY <2>1, <2>2, <3>1, <3>2, <3>3
  <2>5. ASSUME NEW i \in 2 .. Size(walk'[w])
        PROVE  walk'[w][i].at \in incomplete'[walk'[w][i - 1].at]
    <3>1. CASE i = n + 1
      <4>1. n \in 1 .. n /\ i - 1 = n
        BY <2>1, <3>1
      <4>2. walk'[w][i - 1].at = walk[w][n].at
        BY <2>2, <4>1
      <4>3. walk[w][n].rest \subseteq incomplete[walk[w][n].at]
        BY <1>s, <2>2, <4>1 DEF WalkTree
      <4>q. QED
        BY <2>2, <3>1, <4>2, <4>3
    <3>2. CASE i # n + 1
      <4>1. i \in 2 .. n /\ i \in 1 .. n /\ i - 1 \in 1 .. n
        BY <2>1, <2>2, <3>2
      <4>2. walk[w][i].at \in incomplete[walk[w][i - 1].at]
        BY <1>s, <2>2, <4>1 DEF WalkTree
      <4>q. QED
        BY <2>2, <4>1, <4>2
    <3>q. QED
      BY <3>1, <3>2
  <2>q. QED
    BY <1>h, <2>2, <2>4, <2>5
<1>14. ASSUME NEW w \in Worker, WalkUp(w) PROVE WalkTree'
  <2>1. PICK n \in Nat \ {0} :
          WalkUpDoes(w, n)
    BY <1>14, WalkUpEffect
  <2>2. /\ n = Size(walk[w]) /\ walk[w][n].rest = {} /\ walk[w][n].at \in Proc
        /\ walk' \in [Worker -> Walks] /\ \A u \in Worker \ {w} : walk'[u] = walk[u]
        /\ Size(walk'[w]) = n - 1
        /\ \A i \in 1 .. n - 1 : walk'[w][i] = walk[w][i]
        /\ UNCHANGED <<incomplete>>
    BY <2>1 DEF WalkUpDoes
  <2>4. ASSUME NEW i \in 1 .. Size(walk'[w])
        PROVE  i \in 1 .. n /\ walk'[w][i] = walk[w][i]
    BY <2>1, <2>2
  <2>5. ASSUME NEW i \in 2 .. Size(walk'[w])
        PROVE  /\ i \in 2 .. n /\ walk'[w][i] = walk[w][i]
               /\ walk'[w][i - 1] = walk[w][i - 1]
    <3>1. i \in 2 .. n /\ i \in 1 .. n - 1 /\ i - 1 \in 1 .. n - 1
      BY <2>1, <2>2
    <3>q. QED
      BY <2>2, <3>1
  <2>6. \A i \in 1 .. Size(walk'[w]) :
           walk'[w][i].rest \subseteq incomplete'[walk'[w][i].at]
    BY <1>s, <2>2, <2>4 DEF WalkTree
  <2>7. \A i \in 2 .. Size(walk'[w]) :
           walk'[w][i].at \in incomplete'[walk'[w][i - 1].at]
    BY <1>s, <2>2, <2>5 DEF WalkTree
  <2>q. QED
    BY <1>h, <2>2, <2>6, <2>7
<1>15. ASSUME NEW w \in Worker, AbortReadyClosure(w) PROVE WalkTree'
  BY <1>f, <1>15 DEF AbortReadyClosure, program, results, tree, locks, caches,
     Hand, SetStatus, Outcome, BeingAborted, HasChildren
<1>16. ASSUME NEW w \in Worker, Setup(w) PROVE WalkTree'
  BY <1>f, <1>16 DEF Setup, program, results, tree, Goto, LockClosure,
     SetStatus, BeingAborted
<1>17. ASSUME NEW w \in Worker, SetupDone(w) PROVE WalkTree'
  BY <1>f, <1>17 DEF SetupDone, program, results, tree, caches, Goto,
     UnlockClosure, Polled, Polls
<1>18. ASSUME NEW w \in Worker, Execute(w) PROVE WalkTree'
  <2>1. PICK c \in Proc :
          ExecuteDoes(w, c)
    BY <1>18, ExecuteEffect
  <2>q. QED
    BY <1>f, <2>1 DEF ExecuteDoes
<1>19. ASSUME NEW w \in Worker, ReturnLockParent(w) PROVE WalkTree'
  <2>1. PICK k \in Proc, p \in Proc :
          ReturnLockParentDoes(w, k, p)
    BY <1>19, ReturnLockParentEffect
  <2>2. /\ k = cl[w] /\ p # k /\ k # Root /\ clock[k] = None /\ clock[p] = None
        /\ incomplete' = [incomplete EXCEPT ![p] = @ \ {k}]
        /\ UNCHANGED <<walk>>
    BY <2>1 DEF ReturnLockParentDoes
  <2>4. \A u \in Worker : \A i \in 1 .. Size(walk[u]) : walk[u][i].at # p
    BY <1>l, <2>1, <2>2, WorkerAssumption DEF None
  <2>5. \A d \in Proc \ {p} : incomplete'[d] = incomplete[d]
    BY <1>a, <2>2 DEF Types
  <2>q. QED
    BY <1>l, <1>u, <2>2, <2>4, <2>5
<1>20. ASSUME NEW w \in Worker, ReturnEnqueue(w) PROVE WalkTree'
  <2>1. PICK k \in Proc, p \in Proc :
          ReturnEnqueueDoes(w, k, p)
    BY <1>20, ReturnEnqueueEffect
  <2>q. QED
    BY <1>f, <2>1 DEF ReturnEnqueueDoes
<1>21. ASSUME NEW w \in Worker, ReturnDone(w) PROVE WalkTree'
  <2>1. PICK k \in Proc, p \in Proc :
          ReturnDoneDoes(w, k, p)
    BY <1>21, ReturnDoneEffect
  <2>q. QED
    BY <1>f, <2>1 DEF ReturnDoneDoes
<1>22. ASSUME NEW w \in Worker, Spawn(w) PROVE WalkTree'
  <2>1. PICK c \in Proc, f \in Proc :
          SpawnDoes(w, c, f)
    BY <1>22, SpawnEffect
  <2>q. QED
    BY <1>f, <2>1 DEF SpawnDoes
<1>23. ASSUME NEW w \in Worker, ReturnFast(w) PROVE WalkTree'
  <2>1. PICK f \in Proc :
          ReturnFastDoes(w, f)
    BY <1>23, ReturnFastEffect
  <2>q. QED
    BY <1>f, <2>1 DEF ReturnFastDoes
<1>24. ASSUME NEW w \in Worker, PopResult(w) PROVE WalkTree'
  BY <1>f, <1>24 DEF PopResult, program, state, tree, locks, caches, Goto,
     Outcome
<1>25. ASSUME NEW w \in Worker, LockOwnDeque(w) PROVE WalkTree'
  BY <1>f, <1>25 DEF LockOwnDeque, program, results, state, tree, caches, Goto,
     LockDeque, SlowAborts
<1>26. ASSUME NEW w \in Worker, LockBottom(w) PROVE WalkTree'
  <2>1. PICK c \in Proc :
          LockBottomDoes(w, c)
    BY <1>26, LockBottomEffect
  <2>2. /\ clock[c] = None
        /\ UNCHANGED <<incomplete>>
    BY <2>1 DEF LockBottomDoes
  <2>4. ASSUME pc[w] = "handler",
               UNCHANGED <<walk>>
        PROVE  WalkTree'
    BY <1>f, <2>2, <2>4
  <2>5. ASSUME pc[w] = "sync",
               UNCHANGED <<walk>>
        PROVE  WalkTree'
    BY <1>f, <2>2, <2>5
  <2>6. ASSUME pc[w] = "result",
               UNCHANGED <<walk>>
        PROVE  WalkTree'
    BY <1>f, <2>2, <2>6
  <2>7. ASSUME NEW s \in {ABORT_ALL, ALMOST_NO_ABORT}, pc[w] = "abort",
               walk' = [walk EXCEPT ![w] = <<[at |-> c, rest |-> incomplete[c]]>>]
        PROVE  WalkTree'
    <3>1. incomplete[c] \in SUBSET Proc /\ incomplete' = incomplete
      BY <1>a, <2>1, <2>2 DEF Types
    <3>q. QED
      BY <1>o, <2>1, <2>7, <3>1
  <2>q. QED
    BY <2>1, <2>2, <2>4, <2>5, <2>6, <2>7 DEF LockBottomDoes
<1>27. ASSUME NEW w \in Worker, Sync(w) PROVE WalkTree'
  <2>1. PICK c \in Proc :
          SyncDoes(w, c)
    BY <1>27, SyncEffect
  <2>q. QED
    BY <1>f, <2>1 DEF SyncDoes
<1>28. ASSUME NEW w \in Worker, AbortSlow(w) PROVE WalkTree'
  BY <1>f, <1>28 DEF AbortSlow, program, results, tree, caches, Goto,
     UnlockBoth, Polled, Hand, UnlockClosure, UnlockDeque, Polls
<1>29. ASSUME NEW w \in Worker, SetResult(w) PROVE WalkTree'
  <2>1. PICK c \in Proc :
          SetResultDoes(w, c)
    BY <1>29, SetResultEffect
  <2>q. QED
    BY <1>f, <2>1 DEF SetResultDoes
<1>30. ASSUME NEW w \in Worker, Done(w) PROVE WalkTree'
  BY <1>f, <1>30 DEF Done, results, state, tree, locks, caches, Goto, AfterSync
<1>31. ASSUME NEW w \in Worker, RemoveAndFree(w) PROVE WalkTree'
  <2>1. RemoveAndFreeDoes(w)
    BY <1>31, RemoveAndFreeEffect
  <2>q. QED
    BY <1>f, <2>1 DEF RemoveAndFreeDoes
<1>32. ASSUME NEW w \in Worker, CilkExit(w) PROVE WalkTree'
  <2>1. CilkExitDoes(w)
    BY <1>32, CilkExitEffect
  <2>q. QED
    BY <1>f, <2>1 DEF CilkExitDoes
<1>33. ASSUME NEW w \in Worker, CilkExitDone(w) PROVE WalkTree'
  BY <1>f, <1>33 DEF CilkExitDone, program, results, tree, caches, Goto, Hand,
     UnlockClosure, Polled, Polls
<1>34. ASSUME NEW w \in Worker, HandlerPolled(w) PROVE WalkTree'
  <2>1. PICK t \in Proc, t1 \in Proc :
          HandlerPolledDoes(w, t, t1)
    BY <1>34, HandlerPolledEffect
  <2>q. QED
    BY <1>f, <2>1 DEF HandlerPolledDoes
<1>35. ASSUME NEW w \in Worker, HandlerSwap(w) PROVE WalkTree'
  BY <1>f, <1>35 DEF HandlerSwap, program, results, state, tree, caches, Goto,
     LockClosure
<1>36. ASSUME NEW w \in Worker, HandlerStolen(w) PROVE WalkTree'
  <2>1. PICK c \in Proc :
          HandlerStolenDoes(w, c)
    BY <1>36, HandlerStolenEffect
  <2>q. QED
    BY <1>f, <2>1 DEF HandlerStolenDoes
<1>37. ASSUME NEW w \in Worker, HandlerAbort(w) PROVE WalkTree'
  <2>1. PICK c \in Proc, f \in Proc :
          HandlerAbortDoes(w, c, f)
    BY <1>37, HandlerAbortEffect
  <2>q. QED
    BY <1>f, <2>1 DEF HandlerAbortDoes
<1>38. ASSUME NEW w \in Worker, HandlerResume(w) PROVE WalkTree'
  BY <1>f, <1>38 DEF HandlerResume, program, tree, Goto, UnlockBoth, Outcome,
     BeingAborted, Stolen, Hand, UnlockClosure, UnlockDeque
<1>39. CASE UNCHANGED vars
  BY <1>f, <1>39 DEF vars
<1>q. QED
  BY <1>1, <1>2, <1>3, <1>4, <1>5, <1>6, <1>7, <1>8, <1>9, <1>10, <1>11, <1>12,
     <1>13, <1>14, <1>15, <1>16, <1>17, <1>18, <1>19, <1>20, <1>21, <1>22,
     <1>23, <1>24, <1>25, <1>26, <1>27, <1>28, <1>29, <1>30, <1>31, <1>32,
     <1>33, <1>34, <1>35, <1>36, <1>37, <1>38, <1>39 DEF Next, Step, Terminated

(* A frame popped with H at the top is the closure's own: a worker in its *)
(* procedure has its head pointer below the top of its stack.             *)
LEMMA PoppedInvStep ==
    ASSUME IInv, TreeInv, [Next]_vars
    PROVE  PoppedInv'
<1>a. Types
  BY DEF IInv
<1>1. ASSUME NEW w \in Worker, Step(w), NEW u \in Worker, pc'[u] \in PopPC,
             H'[u] >= T(u)'
      PROVE  child'[u] \in {None, Bottom(u)'}
  <2>1. CASE u # w
    <3>1. /\ pc[u] \in PopPC /\ pc[u] \in WorkPC /\ child'[u] = child[u] /\ T(u)' = T(u)
          /\ H[u] \in Nat /\ T(u) \in Nat
      BY <1>a, <1>1, <2>1, OthersStay, StackFacts DEF T, WorkPC
    <3>2. H'[u] = H[u] /\ Bottom(u)' = Bottom(u)
      BY <1>a, <1>1, <2>1, <3>1, WorkStays DEF StealPromoteDoes, Types
    <3>q. QED
      BY <1>1, <3>1, <3>2 DEF TreeInv, PoppedInv
  <2>2. ASSUME u = w, pc[w] \in PopPC, child'[w] = child[w], stack'[w] = stack[w],
               UNCHANGED <<H, deque>> \/ \E c, k \in Proc : InletSplits(w, c, k)
        PROVE  child'[u] \in {None, Bottom(u)'}
    <3>1. ~(\E c, k \in Proc : InletSplits(w, c, k))
      BY <1>a, <1>1, <2>2, StackFacts DEF InletSplits, T, Types
    <3>q. QED
      BY <1>1, <2>2, <3>1 DEF TreeInv, PoppedInv, T, Bottom
  <2>3. ASSUME NEW c \in Proc, u = w, child'[w] = c, T(w) > 1, c = stack[w][T(w)],
               Shortened(stack, stack', w), UNCHANGED <<H, deque>>, H[w] < T(w), pc[w] \in WorkPC
        PROVE  child'[u] \in {None, Bottom(u)'}
    <3>1. H[w] + 1 = T(w)
      BY <1>1, <2>3, WorkFacts DEF Shortened, T, Size
    <3>q. QED
      BY <2>3, <3>1, WorkFacts DEF Bottom
  <2>4. ASSUME NEW c \in Proc, u = w, ReturnFastDoes(w, c), child'[w] = c
        PROVE  child'[u] \in {None, Bottom(u)'}
    BY <2>3, <2>4 DEF ReturnFastDoes, WorkPC, IInv, StackInv
  <2>5. ASSUME NEW c \in Proc, NEW f \in Proc, u = w, HandlerAbortDoes(w, c, f),
               child'[w] = Running(w), ~AbortWaits(w, c)
        PROVE  child'[u] \in {None, Bottom(u)'}
    <3>1. /\ Shortened(stack, stack', w) /\ UNCHANGED <<H, deque>>
          /\ H[w] < T(w) /\ pc[w] \in WorkPC /\ H[w] + 1 <= T(w) /\ T(w) \in Nat \ {0}
      BY <2>5 DEF HandlerAbortDoes, AbortReturns, AbortPops, WorkPC, PopPC
    <3>2. T(w)' = T(w) - 1 /\ T(w) \in Nat /\ H[w] \in Nat
      BY <3>1, <1>a, StackFacts DEF Shortened, T, Size
    <3>3. H[w] + 1 = T(w)
      BY <1>1, <2>5, <3>1, <3>2
    <3>q. QED
      BY <2>5, <3>1, <3>3, WorkFacts DEF Running, Bottom
  <2>q. QED
    BY <1>1, <2>1, <2>2, <2>4, <2>5, PopSteps
<1>2. ASSUME UNCHANGED vars PROVE PoppedInv'
  BY <1>2 DEF TreeInv, PoppedInv, vars, T, Bottom
<1>q. QED
  BY <1>1, <1>2 DEF Next, Terminated, PoppedInv

(* The frames that are needed stay: a frame is removed by the worker whose *)
(* it is, and then nobody comes back to it.                                *)
LEMMA AliveInvStep ==
    ASSUME IInv, TreeInv, [Next]_vars
    PROVE  AliveInv'
<1>a. Types /\ Types'
  BY NextIInv DEF IInv
<1>s. /\ \A c \in Proc : status[c] \in {"READY", "SUSPENDED"} => c \in alive
      /\ \A u \in Worker :
            /\ pc[u] \in CarryPC => cl[u] \in alive
            /\ pc[u] \in WorkPC /\ H[u] < T(u) => Bottom(u) \in alive
            /\ \A i \in H[u] + 2 .. T(u) : stack[u][i] \in alive
  BY DEF TreeInv, AliveInv, CarryPC
<1>1. ASSUME NEW w \in Worker, Step(w) PROVE AliveInv'
  <2>t. \A u \in Worker : H[u] \in Nat /\ H'[u] \in Nat /\ T(u) \in Nat
    BY <1>a, StackFacts DEF Types
  <2>g. ASSUME NEW f \in alive, f \notin alive'
        PROVE  /\ \A u \in Worker \ {w} :
                     /\ pc[u] \in CarryPC => cl[u] # f
                     /\ pc[u] \in WorkPC => Bottom(u) # f
                     /\ \A i \in H[u] + 2 .. T(u) : stack[u][i] # f
               /\ \A i \in H[w] + 2 .. T(w) - 1 : stack[w][i] # f
    BY <1>1, <1>a, <2>g, GoneSteps, GoneFacts DEF Removes, CarryPC, Types
  <2>1. ASSUME NEW d \in Proc, status'[d] \in {"READY", "SUSPENDED"} PROVE d \in alive'
    <3>1. CASE status'[d] = status[d]
      BY <1>1, <1>s, <2>1, <3>1, GoneSteps
    <3>2. CASE status'[d] # status[d]
      BY <1>1, <1>s, <2>1, <3>2, StatusSteps DEF Lives, CarryPC
    <3>q. QED
      BY <3>1, <3>2
  <2>2. ASSUME NEW u \in Worker \ {w}
        PROVE  /\ pc'[u] \in CarryPC => cl'[u] \in alive'
               /\ pc'[u] \in WorkPC /\ H'[u] < T(u)' => Bottom(u)' \in alive'
               /\ \A i \in H'[u] + 2 .. T(u)' : stack'[u][i] \in alive'
    <3>1. /\ pc'[u] = pc[u] /\ cl'[u] = cl[u] /\ stack'[u] = stack[u] /\ T(u)' = T(u)
      BY <1>1, <1>a, OthersStay DEF T
    <3>2. CASE pc[u] \in WorkPC /\ ~(H'[u] = H[u] /\ Bottom(u)' = Bottom(u))
      <4>1. PICK c \in Proc, k \in Proc : StealPromoteDoes(w, u, c, k)
        BY <1>1, <3>2, WorkStays
      <4>2. /\ H'[u] = H[u] + 1 /\ H[u] + 1 < T(u) /\ k = stack[u][H[u] + 2]
            /\ Bottom(u)' = k /\ alive' = alive
        <5>1. /\ H' = [H EXCEPT ![u] = @ + 1] /\ H[u] + 1 < T(u) /\ k = stack[u][H[u] + 2]
              /\ deque' = [deque EXCEPT ![u] = <<k>>] /\ alive' = alive
          BY <4>1 DEF StealPromoteDoes
        <5>2. H'[u] = H[u] + 1 /\ deque'[u] = <<k>>
          BY <1>a, <5>1 DEF Types
        <5>3. Bottom(u)' = k
          BY <5>2 DEF Bottom
        <5>q. QED
          BY <5>1, <5>2, <5>3
      <4>3. /\ H[u] + 2 \in H[u] + 2 .. T(u)
            /\ \A i \in H'[u] + 2 .. T(u) : i \in H[u] + 2 .. T(u)
        BY <2>t, <4>2
      <4>4. k \in alive /\ \A i \in H'[u] + 2 .. T(u) : stack[u][i] \in alive
        BY <1>s, <4>2, <4>3
      <4>q. QED
        BY <1>s, <3>1, <4>2, <4>4
    <3>3. CASE pc[u] \in WorkPC /\ H'[u] = H[u] /\ Bottom(u)' = Bottom(u)
      BY <1>s, <2>g, <3>1, <3>3
    <3>4. CASE pc[u] \notin WorkPC
      <4>1. T(u) <= 1 /\ \A i \in H'[u] + 2 .. T(u) : FALSE
        BY <1>a, <2>t, <3>4, StackFacts DEF IInv, StackInv
      <4>q. QED
        BY <1>s, <2>g, <3>1, <3>4, <4>1
    <3>q. QED
      BY <3>2, <3>3, <3>4
  <2>3. pc'[w] \in CarryPC => cl'[w] \in alive'
    <3>1. ASSUME NEW v \in Worker, NEW c \in Proc, NEW k \in Proc, StealPromoteDoes(w, v, c, k)
          PROVE  cl[w] \in alive
      BY <1>s, <2>t, <3>1, WorkFacts DEF StealPromoteDoes
    <3>q. QED
      BY <1>1, <1>s, <3>1, CarrySteps
  <2>4. /\ pc'[w] \in WorkPC /\ H'[w] < T(w)' => Bottom(w)' \in alive'
        /\ \A i \in H'[w] + 2 .. T(w)' : stack'[w][i] \in alive'
    <3>1. CASE pc'[w] \notin WorkPC /\ T(w)' <= 1
      <4>1. \A i \in H'[w] + 2 .. T(w)' : FALSE
        <5>1. T(w)' \in Nat
          BY <1>a, LenProperties DEF T, Types
        <5>q. QED
          BY <2>t, <3>1, <5>1
      <4>q. QED
        BY <3>1, <4>1
    <3>2. CASE /\ stack'[w] = stack[w] /\ H'[w] = H[w] /\ (pc'[w] \in WorkPC => pc[w] \in WorkPC)
               /\ pc'[w] \in WorkPC => Bottom(w)' = Bottom(w)
      <4>1. T(w)' = T(w)
        BY <3>2 DEF T
      <4>2. ASSUME NEW f \in alive, f \notin alive'
            PROVE  T(w) <= 1 /\ ~(pc'[w] \in WorkPC /\ f = Bottom(w) /\ H[w] < T(w))
        BY <1>1, <1>a, <2>t, <3>2, <4>1, <4>2, GoneSteps DEF Types
      <4>3. ASSUME NEW i \in H[w] + 2 .. T(w) PROVE stack[w][i] \in alive'
        BY <1>s, <2>t, <4>2, <4>3
      <4>q. QED
        BY <1>s, <3>2, <4>1, <4>2, <4>3
    <3>3. CASE /\ stack'[w] = stack[w] /\ H'[w] = H[w] /\ T(w) = 1 /\ alive' = alive
               /\ pc[w] = "add" /\ Bottom(w)' = cl[w]
      <4>1. T(w)' = 1 /\ \A i \in H'[w] + 2 .. T(w)' : FALSE
        BY <2>t, <3>3 DEF T
      <4>q. QED
        BY <1>s, <3>3, <4>1 DEF CarryPC
    <3>4. ASSUME NEW c \in Proc, NEW k \in Proc, InletSplits(w, c, k), alive' = alive,
                 stack' = stack
          PROVE  /\ pc'[w] \in WorkPC /\ H'[w] < T(w)' => Bottom(w)' \in alive'
                 /\ \A i \in H'[w] + 2 .. T(w)' : stack'[w][i] \in alive'
      <4>1. /\ H[w] = 0 /\ H'[w] = 1 /\ k = stack[w][2] /\ T(w)' = T(w) /\ 1 < T(w)
        BY <1>a, <3>4 DEF InletSplits, T, Types
      <4>2. Bottom(w)' = k
        <5>1. Extended(deque, deque', w, k)
          BY <1>a, <3>4, ExtendedFacts DEF InletSplits, Types
        <5>q. QED
          BY <5>1 DEF Extended, Bottom, Size
      <4>3. 2 \in H[w] + 2 .. T(w) /\ \A i \in H'[w] + 2 .. T(w) : i \in H[w] + 2 .. T(w)
        BY <2>t, <4>1
      <4>q. QED
        BY <1>s, <3>4, <4>1, <4>2, <4>3
    <3>5. ASSUME Shortened(stack, stack', w), H' = H, T(w) \in Nat \ {0},
                 pc'[w] \in WorkPC => pc[w] \in WorkPC /\ Bottom(w)' = Bottom(w)
          PROVE  /\ pc'[w] \in WorkPC /\ H'[w] < T(w)' => Bottom(w)' \in alive'
                 /\ \A i \in H'[w] + 2 .. T(w)' : stack'[w][i] \in alive'
      <4>1. T(w)' = T(w) - 1 /\ \A i \in 1 .. T(w) - 1 : stack'[w][i] = stack[w][i]
        BY <3>5 DEF Shortened, T, Size
      <4>2. ASSUME pc'[w] \in WorkPC, H'[w] < T(w)' PROVE Bottom(w)' \in alive'
        <5>1. pc[w] \in WorkPC /\ H[w] < T(w) /\ Bottom(w)' = Bottom(w)
          BY <2>t, <3>5, <4>1, <4>2
        <5>2. Bottom(w) \in alive /\ Bottom(w) \in Proc
          BY <1>s, <5>1, WorkFacts
        <5>3. ~(H'[w] >= T(w)')
          BY <2>t, <3>5, <4>1, <4>2
        <5>q. QED
          BY <1>1, <4>2, <5>1, <5>2, <5>3, GoneSteps
      <4>3. ASSUME NEW i \in H'[w] + 2 .. T(w)' PROVE stack'[w][i] \in alive'
        <5>1. i \in H[w] + 2 .. T(w) - 1 /\ i \in H[w] + 2 .. T(w) /\ i \in 1 .. T(w) - 1
          BY <2>t, <3>5, <4>1, <4>3
        <5>q. QED
          BY <1>s, <2>g, <4>1, <5>1
      <4>q. QED
        BY <4>2, <4>3
    <3>6. ASSUME NEW c \in Proc, ReturnFastDoes(w, c) \/ HandlerStolenDoes(w, c)
          PROVE  /\ pc'[w] \in WorkPC /\ H'[w] < T(w)' => Bottom(w)' \in alive'
                 /\ \A i \in H'[w] + 2 .. T(w)' : stack'[w][i] \in alive'
      BY <3>5, <3>6 DEF ReturnFastDoes, HandlerStolenDoes, Bottom, WorkPC, PopPC
    <3>7. ASSUME NEW c \in Proc, NEW f \in Proc, HandlerAbortDoes(w, c, f)
          PROVE  /\ pc'[w] \in WorkPC /\ H'[w] < T(w)' => Bottom(w)' \in alive'
                 /\ \A i \in H'[w] + 2 .. T(w)' : stack'[w][i] \in alive'
      <4>1. pc'[w] \in WorkPC => Bottom(w)' = Bottom(w)
        <5>1. ASSUME AbortWaits(w, c) PROVE pc'[w] \notin WorkPC
          BY <1>a, <5>1 DEF AbortWaits, Types, WorkPC, PopPC, SlowPC
        <5>2. AbortReturns(w, c) \/ AbortPops(w, f) => deque' = deque
          BY DEF AbortReturns, AbortPops
        <5>q. QED
          BY <3>7, <5>1, <5>2 DEF HandlerAbortDoes, Bottom
      <4>q. QED
        BY <3>5, <3>7, <4>1 DEF HandlerAbortDoes, WorkPC, PopPC
    <3>8. ASSUME NEW c \in Proc, NEW f \in Proc, SpawnDoes(w, c, f)
          PROVE  /\ pc'[w] \in WorkPC /\ H'[w] < T(w)' => Bottom(w)' \in alive'
                 /\ \A i \in H'[w] + 2 .. T(w)' : stack'[w][i] \in alive'
      <4>1. /\ T(w)' = T(w) + 1 /\ \A i \in 1 .. T(w) : stack'[w][i] = stack[w][i]
            /\ stack'[w][T(w) + 1] = c /\ c \in alive' /\ H' = H /\ deque' = deque
            /\ alive \subseteq alive' /\ pc[w] \in {"run", "synced"}
        BY <3>8 DEF SpawnDoes, Extended, T, Size
      <4>2. pc[w] \in WorkPC /\ H[w] < T(w) /\ Bottom(w)' = Bottom(w)
        BY <2>t, <4>1, WorkFacts DEF WorkPC, SlowPC, Bottom, IInv, StackInv
      <4>3. ASSUME NEW i \in H[w] + 2 .. T(w) + 1 PROVE stack'[w][i] \in alive'
        <5>1. i = T(w) + 1 \/ (i \in H[w] + 2 .. T(w) /\ i \in 1 .. T(w))
          BY <2>t, <4>3
        <5>q. QED
          BY <1>s, <4>1, <5>1
      <4>q. QED
        BY <1>s, <4>1, <4>2, <4>3
    <3>q. QED
      BY <1>1, <3>1, <3>2, <3>3, <3>4, <3>6, <3>7, <3>8, OwnStack DEF OwnSteps
  <2>5. ASSUME NEW u \in Worker
        PROVE  /\ pc'[u] \in CarryPC => cl'[u] \in alive'
               /\ pc'[u] \in WorkPC /\ H'[u] < T(u)' => Bottom(u)' \in alive'
               /\ \A i \in H'[u] + 2 .. T(u)' : stack'[u][i] \in alive'
    BY <2>2, <2>3, <2>4
  <2>q. QED
    BY <2>1, <2>5 DEF AliveInv, CarryPC
<1>2. ASSUME UNCHANGED vars PROVE AliveInv'
  BY <1>2 DEF TreeInv, AliveInv, T, Bottom, vars
<1>q. QED
  BY <1>1, <1>2 DEF Next, Terminated

(* In the initial state there is one closure, with nothing below it. *)
LEMMA InitTreeInv == Init => TreeInv
<1> SUFFICES ASSUME Init PROVE TreeInv
  OBVIOUS
<1>a. /\ None \notin Proc /\ Root \in Proc
  BY BoundAssumption DEF Proc, None, Root
<1>e. \A w \in Worker : /\ stack[w] = <<>> /\ walk[w] = <<>> /\ pc[w] = "loop"
  BY DEF Init
<1>p. \A c \in Proc : /\ status[c] = IF c = Root THEN "READY" ELSE "none"
                      /\ parent[c] = None /\ join[c] = 0 /\ incomplete[c] = {}
  BY DEF Init
<1>n. ~\E w \in Worker : pc[w] \in AbsentPC \cup ReturnPC \cup SyncedPC
  BY <1>e DEF AbsentPC, ReturnPC, SyncedPC
<1>1. ListInv
  BY <1>a, <1>e, <1>p DEF ListInv
<1>2. CountInv
  <2>1. join \in [Proc -> Nat]
    BY DEF Init
  <2>2. \A p \in Proc : ~Joins(p)
    BY <1>n DEF Joins, Returns
  <2>q. QED
    BY <1>p, <2>1, <2>2, FS_EmptySet DEF CountInv
<1>3. JoinInv
  BY <1>n, <1>p DEF JoinInv, JoinFits
<1>4. LiveInv
  BY <1>p DEF LiveInv, Live
<1>5. WalkTree
  <2>1. \A w \in Worker : Size(walk[w]) = 0
    BY <1>e DEF Size
  <2>q. QED
    BY <2>1 DEF WalkTree
<1>6. PoppedInv
  BY <1>e DEF PoppedInv, PopPC
<1>7. AliveInv
  <2>1. \A w \in Worker : H[w] + 2 \in Nat /\ T(w) = 0 /\ H[w] = 0
    BY <1>e DEF T, Init
  <2>2. "loop" \notin WorkPC
    BY DEF WorkPC, PopPC, SlowPC
  <2>3. alive = {Root}
    BY DEF Init
  <2>q. QED
    BY <1>e, <1>p, <2>1, <2>2, <2>3 DEF AliveInv
<1>q. QED
  BY <1>1, <1>2, <1>3, <1>4, <1>5, <1>6, <1>7 DEF TreeInv

(* A step that keeps the scheduler's invariant keeps the tree's. *)
LEMMA NextTreeInv ==
    ASSUME IInv, TreeInv, [Next]_vars
    PROVE  TreeInv'
BY ListInvStep, CountInvStep, JoinInvStep, LiveInvStep, WalkTreeStep,
   PoppedInvStep, AliveInvStep DEF TreeInv

(* The invariant of the tree: the lists of children and what the counters *)
(* count, that parents outlive their children, where an abort signal may  *)
(* walk, and which frames are still there.                                *)
THEOREM TreeInvariant == Spec => [](IInv /\ TreeInv)
<1>1. Init => IInv /\ TreeInv
  BY InitIInv, InitTreeInv
<1>2. IInv /\ TreeInv /\ [Next]_vars => (IInv /\ TreeInv)'
  BY NextIInv, NextTreeInv
<1>q. QED
  BY <1>1, <1>2, PTL DEF Spec

(* The types the provers need, and that of the join counters. *)
LEMMA TypesAre == IInv /\ TreeInv => TypeOK
BY DEF IInv, Types, TreeInv, CountInv, TypeOK, Walks

(* Types and join counters: every variable has its type, and no join      *)
(* counter goes below zero.                                               *)
THEOREM TypeCorrect == Spec => []TypeOK
BY TypesAre, TreeInvariant, PTL

(* The workers that return a child of p are one or none: they hold its    *)
(* lock.                                                                  *)
LEMMA LeavingIsOne ==
    ASSUME IInv, NEW p \in Proc
    PROVE  Cardinality({w \in Worker : Returning(w) /\ cl[w] = p})
              = IF Joins(p) THEN 1 ELSE 0
<1> DEFINE leaving == {w \in Worker : Returning(w) /\ cl[w] = p}
<1>1. \A w \in Worker : w \in leaving <=> Returns(w, p)
  BY DEF Returning, Returns, ReturnPC
<1>2. CASE Joins(p)
  <2>1. PICK w \in Worker : Returns(w, p)
    BY <1>2 DEF Joins
  <2>2. \A u \in Worker : Returns(u, p) => clock[p] = u
    BY DEF IInv, ClosureLocks, HoldsClosure, Returns, ReturnPC, LockPC
  <2>3. leaving = {w}
    BY <1>1, <2>1, <2>2
  <2>q. QED
    BY <1>2, <2>3, FS_Singleton
<1>3. CASE ~Joins(p)
  <2>1. leaving = {}
    BY <1>1, <1>3 DEF Joins
  <2>q. QED
    BY <1>3, <2>1, FS_EmptySet
<1>q. QED
  BY <1>2, <1>3

(* The join counter counts the promoted children that have not returned,   *)
(* and these are on the list, or in the hands of who adds or returns them. *)
THEOREM JoinCountsHolds == Spec => []JoinCountsChildren
<1>1. ASSUME IInv, TreeInv PROVE JoinCountsChildren
  <2> DEFINE leaving(p) == {w \in Worker : Returning(w) /\ cl[w] = p}
             joining(p) == {w \in Worker : pc[w] = "stealFinish" /\ cl[w] = p}
             lists(p) == incomplete[p] \cup
                            {child[w] : w \in leaving(p) \cup joining(p)}
  <2>1. ASSUME NEW p \in Proc
        PROVE  join[p] = Cardinality(incomplete[p]) + Cardinality(leaving(p))
    <3>1. Cardinality(leaving(p)) = IF Joins(p) THEN 1 ELSE 0
      BY <1>1, LeavingIsOne
    <3>q. QED
      BY <1>1, <3>1 DEF TreeInv, CountInv
  <2>2. \A w \in Worker : pc[w] \in AbsentPC =>
           child[w] \in Proc /\ parent[child[w]] = cl[w] /\ Live(child[w])
    BY <1>1, AbsentFacts
  <2>3. \A p, k \in Proc :
           k \in incomplete[p] <=> parent[k] = p /\ Live(k) /\ ~Absent(k)
    BY <1>1 DEF TreeInv, ListInv
  <2>4. \A p \in Proc : \A w \in leaving(p) \cup joining(p) :
           w \in Worker /\ pc[w] \in AbsentPC /\ cl[w] = p
    BY DEF Returning, AbsentPC
  <2>5. ASSUME NEW p \in Proc, NEW k \in Proc, parent[k] = p, Live(k)
        PROVE  k \in lists(p)
    <3>1. CASE Absent(k)
      <4>1. PICK w \in Worker : child[w] = k /\ pc[w] \in AbsentPC
        BY <3>1 DEF Absent, Leaves
      <4>2. w \in leaving(p) \cup joining(p)
        BY <2>2, <2>5, <4>1 DEF Returning, AbsentPC
      <4>q. QED
        BY <4>1, <4>2
    <3>2. CASE ~Absent(k)
      BY <2>3, <2>5, <3>2
    <3>q. QED
      BY <3>1, <3>2
  <2>6. ASSUME NEW p \in Proc, NEW k \in lists(p)
        PROVE  k \in Proc /\ parent[k] = p /\ Live(k)
    <3>1. CASE k \in incomplete[p]
      <4>1. incomplete[p] \subseteq Proc
        BY <1>1 DEF IInv, Types
      <4>q. QED
        BY <2>3, <3>1, <4>1
    <3>2. CASE \E w \in leaving(p) \cup joining(p) : k = child[w]
      BY <2>2, <2>4, <3>2
    <3>q. QED
      BY <2>6, <3>1, <3>2
  <2>7. \A p \in Proc : {k \in Proc : parent[k] = p /\ Live(k)} = lists(p)
    BY <2>5, <2>6
  <2>q. QED
    BY <2>1, <2>7 DEF JoinCountsChildren
<1>q. QED
  BY <1>1, TreeInvariant, PTL

(* What a worker has in hand is carried, is in a deque, is a parent that  *)
(* a child returns to, was made ready while its inlets were polled, or is *)
(* the first closure, for Cilk_exit.                                      *)
LEMMA HandCases ==
    ASSUME IInv, NEW w \in Worker, cl[w] # None
    PROVE  \/ pc[w] \in HandPC \cup ReturnPC
           \/ \E v \in Worker : \E i \in 1 .. Size(deque[v]) : deque[v][i] = cl[w]
           \/ pc[w] = "handlerPoll" /\ status[cl[w]] = "READY"
           \/ pc[w] = "exitPoll" /\ cl[w] = Root
<1>a. Types
  BY DEF IInv
<1>1. \A v \in Worker : deque[v] # <<>> =>
         /\ Size(deque[v]) \in Nat /\ Size(deque[v]) # 0
         /\ Bottom(v) = deque[v][Size(deque[v])] /\ Head(deque[v]) = deque[v][1]
  <2> SUFFICES ASSUME NEW v \in Worker, deque[v] # <<>>
               PROVE  /\ Size(deque[v]) \in Nat /\ Size(deque[v]) # 0
                      /\ Bottom(v) = deque[v][Size(deque[v])]
                      /\ Head(deque[v]) = deque[v][1]
    OBVIOUS
  <2>q. QED
    BY <1>a, DequeFacts, HeadFacts
<1>2. CASE pc[w] \in VictimPC
  <2>1. /\ victim[w] \in Worker /\ deque[victim[w]] # <<>>
        /\ cl[w] = Head(deque[victim[w]])
    BY <1>2 DEF IInv, DequeInv, DequeLocks, Types
  <2>2. 1 \in 1 .. Size(deque[victim[w]]) /\ cl[w] = deque[victim[w]][1]
    BY <1>1, <2>1
  <2>q. QED
    BY <2>1, <2>2
<1>3. CASE pc[w] \in WorkPC /\ cl[w] = Bottom(w)
  <2>1. deque[w] # <<>>
    BY <1>3 DEF IInv, CurrentInv
  <2>2. Size(deque[w]) \in 1 .. Size(deque[w])
    BY <1>1, <2>1
  <2>q. QED
    BY <1>1, <1>3, <2>1, <2>2
<1>4. CASE pc[w] \in {"handlerAct", "handlerSwap", "syncPoll", "abortPoll",
                      "setResult", "handlerPoll", "exitPoll"}
  <2>1. pc[w] \in WorkPC
    BY <1>4 DEF WorkPC, PopPC, SlowPC
  <2>q. QED
    BY <1>3, <1>4, <2>1 DEF IInv, InHandInv
<1>q. QED
  <2>1. pc[w] \in LockPC \cup HandPC \cup {"stealDeque", "handlerSwap"}
    BY DEF IInv, InHandInv
  <2>q. QED
    BY <1>2, <1>4, <2>1 DEF LockPC, HandPC, ReturnPC, VictimPC

(* A closure in hand, beside it or on the path of an abort signal lives. *)
LEMMA InHandLives ==
    ASSUME IInv, TreeInv, NEW w \in Worker
    PROVE  /\ cl[w] # None => status[cl[w]] # "freed"
           /\ child[w] # None => status[child[w]] # "freed"
           /\ \A i \in 1 .. Size(walk[w]) :
                 /\ status[walk[w][i].at] # "freed"
                 /\ \A k \in walk[w][i].rest : status[k] # "freed"
<1>a. Types
  BY DEF IInv
<1>b. None \notin Proc /\ Root \in Proc
  BY BoundAssumption DEF Proc, None, Root
<1>c. \A v \in Worker : pc[v] \in WorkPC =>
         Bottom(v) \in Proc /\ status[Bottom(v)] \in {"RUNNING", "RETURNING"}
  BY BottomsApart DEF IInv, CurrentInv
<1>d. \A k \in Proc : (\E p \in Proc : k \in incomplete[p]) => Live(k)
  BY DEF TreeInv, ListInv
<1>e. \A k \in Proc \ {Root} : Live(k) => status[parent[k]] # "freed"
  BY DEF TreeInv, LiveInv, ParentLives
<1>1. ASSUME cl[w] # None PROVE status[cl[w]] # "freed"
  <2>1. CASE pc[w] \in HandPC
    BY <1>1, <2>1, InPlaceStatus
  <2>2. CASE \E v \in Worker : \E i \in 1 .. Size(deque[v]) : deque[v][i] = cl[w]
    BY <2>2, InPlaceStatus
  <2>3. CASE pc[w] \in ReturnPC
    <3>1. /\ child[w] \in Proc /\ status[child[w]] = "RETURNING"
          /\ parent[child[w]] = cl[w]
      BY <2>3, ReturnFacts
    <3>2. child[w] # Root
      BY <3>1 DEF IInv, RootInv
    <3>q. QED
      BY <1>e, <3>1, <3>2 DEF Live
  <2>4. CASE pc[w] = "exitPoll" /\ cl[w] = Root
    <3>1. pc[w] \in WorkPC
      BY <2>4 DEF WorkPC
    <3>q. QED
      BY <1>c, <2>4, <3>1 DEF TreeInv, LiveInv, Live
  <2>q. QED
    BY <1>1, <2>1, <2>2, <2>3, <2>4, HandCases
<1>2. ASSUME child[w] # None PROVE status[child[w]] # "freed"
  <2>1. CASE pc[w] \in ReturnPC
    BY <2>1, InPlaceStatus
  <2>2. CASE pc[w] = "stealFinish"
    BY <2>2 DEF TreeInv, ListInv, Live
  <2>3. CASE pc[w] \in PopPC
    <3>1. H[w] \in Nat /\ T(w) \in Nat
      BY <1>a, StackFacts
    <3>2. CASE H[w] < T(w)
      BY <1>2, <2>3, <3>2 DEF IInv, ChildInv
    <3>3. CASE H[w] >= T(w)
      <4>1. child[w] = Bottom(w)
        BY <1>2, <2>3, <3>3 DEF TreeInv, PoppedInv
      <4>2. pc[w] \in WorkPC
        BY <2>3 DEF WorkPC
      <4>q. QED
        BY <1>c, <4>1, <4>2
    <3>q. QED
      BY <3>1, <3>2, <3>3
  <2>q. QED
    BY <1>2, <2>1, <2>2, <2>3 DEF IInv, ChildInv
<1>3. ASSUME NEW i \in 1 .. Size(walk[w])
      PROVE  /\ status[walk[w][i].at] # "freed"
             /\ \A k \in walk[w][i].rest : status[k] # "freed"
  <2>2. /\ Size(walk[w]) \in Nat /\ (walk[w] = <<>> <=> Size(walk[w]) = 0)
        /\ \A j \in 1 .. Size(walk[w]) :
              walk[w][j].at \in Proc /\ walk[w][j].rest \subseteq Proc
    BY <1>a, WalkFacts
  <2>3. \A k \in walk[w][i].rest : status[k] # "freed"
    <3>1. walk[w][i].rest \subseteq incomplete[walk[w][i].at]
      BY <1>3 DEF TreeInv, WalkTree
    <3>q. QED
      BY <1>3, <1>d, <2>2, <3>1 DEF Live
  <2>4. CASE i = 1
    <3>1. walk[w] # <<>>
      BY <1>3, <2>2
    <3>2. walk[w][1].at = cl[w]
      BY <3>1 DEF IInv, WalkInv
    <3>q. QED
      BY <1>1, <1>3, <1>b, <2>2, <2>3, <2>4, <3>2
  <2>5. CASE i # 1
    <3>1. i \in 2 .. Size(walk[w]) /\ i - 1 \in 1 .. Size(walk[w])
      BY <1>3, <2>2, <2>5
    <3>2. walk[w][i].at \in incomplete[walk[w][i - 1].at]
      BY <3>1 DEF TreeInv, WalkTree
    <3>q. QED
      BY <1>3, <1>d, <2>2, <2>3, <3>1, <3>2 DEF Live
  <2>q. QED
    BY <2>4, <2>5
<1>q. QED
  BY <1>1, <1>2, <1>3

(* Nobody holds the lock of a closure that is destroyed, or of one that is *)
(* to be returned and off its parent's list.                               *)
LEMMA OffTheList ==
    ASSUME IInv, TreeInv, NEW w \in Worker, pc[w] = "returnChild"
    PROVE  Unlocked(child[w])
<1>a. Types
  BY DEF IInv
<1>b. /\ child[w] \in Proc /\ status[child[w]] = "RETURNING" /\ pc[w] \in ReturnPC
      /\ child[w] # None
  BY ReturnFacts, BoundAssumption DEF ReturnPC, Proc, None
<1>c. Carries(w, child[w])
  BY <1>b DEF Carries
<1>d. NotIn(deque, child[w]) /\ \A u \in Worker \ {w} : ~Carries(u, child[w])
  BY <1>b, <1>c, CarriedApart
<1>1. ASSUME NEW u \in Worker, cl[u] = child[w], pc[u] \in LockPC PROVE FALSE
  <2>1. cl[u] # None
    BY <1>1, <1>b
  <2>2. CASE pc[u] \in HandPC
    <3>1. Carries(u, child[w])
      BY <1>1, <2>2 DEF Carries
    <3>2. u = w
      BY <1>d, <3>1
    <3>q. QED
      BY <2>2, <3>2 DEF HandPC
  <2>3. CASE pc[u] \in ReturnPC
    <3>1. /\ child[u] \in Proc /\ status[child[u]] = "RETURNING"
          /\ parent[child[u]] = cl[u]
      BY <2>3, ReturnFacts
    <3>2. child[u] # Root
      BY <3>1 DEF IInv, RootInv
    <3>3. ParentLives(child[u])
      BY <3>1, <3>2 DEF TreeInv, LiveInv, Live
    <3>q. QED
      BY <1>1, <1>b, <3>1, <3>3 DEF ParentLives
  <2>4. CASE \E v \in Worker : \E i \in 1 .. Size(deque[v]) : deque[v][i] = cl[u]
    BY <1>1, <1>d, <2>4 DEF NotIn
  <2>5. CASE pc[u] = "exitPoll" /\ cl[u] = Root
    BY <1>1, <1>b, <2>5 DEF IInv, RootInv
  <2>q. QED
    BY <1>1, <1>b, <2>1, <2>2, <2>3, <2>4, <2>5, HandCases
<1>2. ASSUME NEW u \in Worker, child[u] = child[w], pc[u] = "return" PROVE FALSE
  <2>1. Carries(u, child[w])
    BY <1>2 DEF Carries, ReturnPC
  <2>q. QED
    BY <1>2, <1>d, <2>1
<1>3. ASSUME NEW u \in Worker, NEW i \in 2 .. Size(walk[u]), walk[u][i].at = child[w]
      PROVE  FALSE
  <2>2. Size(walk[u]) \in Nat /\ \A j \in 1 .. Size(walk[u]) : walk[u][j].at \in Proc
    BY <1>a, WalkFacts
  <2>3. i - 1 \in 1 .. Size(walk[u])
    BY <2>2
  <2>4. walk[u][i].at \in incomplete[walk[u][i - 1].at]
    BY DEF TreeInv, WalkTree
  <2>5. ~Absent(child[w])
    BY <1>3, <1>b, <2>2, <2>3, <2>4 DEF TreeInv, ListInv
  <2>q. QED
    BY <2>5 DEF Absent, Leaves, AbsentPC
<1>4. \A u \in Worker : ~HoldsClosure(u, child[w])
  BY <1>1, <1>2, <1>3 DEF HoldsClosure
<1>5. clock[child[w]] \in Worker \cup {None}
  BY <1>a, <1>b DEF Types
<1>q. QED
  BY <1>4, <1>5, <1>b DEF IInv, ClosureLocks, Unlocked

(* Rule D of PROTOCOLS: nobody but the worker that returns a closure has  *)
(* its lock, and a closure that is destroyed is unlocked, in no hand, on  *)
(* no list and the parent of none that lives.                             *)
THEOREM RuleDHolds == Spec => []RuleD
<1>1. ASSUME IInv, TreeInv PROVE RuleD
  <2>a. None \notin Proc
    BY BoundAssumption DEF Proc, None
  <2>1. \A w \in Worker : pc[w] = "returnChild" => Unlocked(child[w])
    BY <1>1, OffTheList
  <2>2. ASSUME NEW c \in Proc, status[c] = "freed", NEW w \in Worker
        PROVE  /\ cl[w] # c /\ child[w] # c
               /\ \A i \in 1 .. Len(walk[w]) :
                      c \notin {walk[w][i].at} \cup walk[w][i].rest
    <3>1. \A i \in 1 .. Size(walk[w]) :
             c \notin {walk[w][i].at} \cup walk[w][i].rest
      BY <1>1, <2>2, InHandLives
    <3>2. cl[w] # c /\ child[w] # c
      BY <1>1, <2>2, <2>a, InHandLives
    <3>q. QED
      BY <3>1, <3>2 DEF Size
  <2>3. ASSUME NEW c \in Proc, status[c] = "freed" PROVE Unlocked(c)
    <3>1. clock[c] \in Worker \cup {None}
      BY <1>1 DEF IInv, Types
    <3>2. ASSUME NEW w \in Worker PROVE ~HoldsClosure(w, c)
      <4>1. \A i \in 1 .. Size(walk[w]) : walk[w][i].at # c
        BY <2>2, <2>3 DEF Size
      <4>2. \A i \in 2 .. Size(walk[w]) : i \in 1 .. Size(walk[w])
        <5>1. Size(walk[w]) \in Nat
          BY <1>1, WalkFacts DEF IInv
        <5>q. QED
          BY <5>1
      <4>q. QED
        BY <2>2, <2>3, <4>1, <4>2 DEF HoldsClosure
    <3>q. QED
      BY <1>1, <3>1, <3>2 DEF IInv, ClosureLocks, Unlocked
  <2>4. ASSUME NEW c \in Proc, status[c] = "freed", NEW d \in Proc
        PROVE  c \notin incomplete[d] /\ (Live(d) => parent[d] # c)
    <3>1. c \notin incomplete[d]
      BY <1>1, <2>4 DEF TreeInv, ListInv, Live
    <3>2. CASE d = Root
      BY <1>1, <2>a, <3>1, <3>2 DEF IInv, ParentInv
    <3>3. CASE d # Root
      BY <1>1, <2>4, <3>1, <3>3 DEF TreeInv, LiveInv, ParentLives
    <3>q. QED
      BY <3>2, <3>3
  <2>q. QED
    BY <2>1, <2>2, <2>3, <2>4 DEF RuleD
<1>q. QED
  BY <1>1, TreeInvariant, PTL

(* A running closure at the top of a deque is all that is in it, and runs *)
(* on the cache of the deque's owner.                                     *)
LEMMA RunningTop ==
    ASSUME IInv, NEW v \in Worker, NEW i \in 1 .. Size(deque[v]),
           status[deque[v][i]] = "RUNNING"
    PROVE  /\ i = Size(deque[v]) /\ deque[v][i] = Bottom(v) /\ pc[v] \in WorkPC
           /\ cache[Bottom(v)] = v
<1>1. Size(deque[v]) \in Nat /\ Bottom(v) = deque[v][Size(deque[v])]
      /\ deque[v] # <<>>
  BY DequeFacts DEF IInv
<1>2. i = Size(deque[v])
  <2>1. ~(i \in 1 .. Size(deque[v]) - 1)
    BY DEF IInv, DequeInv
  <2>q. QED
    BY <1>1, <2>1
<1>3. pc[v] \in WorkPC
  BY <1>1, <1>2 DEF IInv, DequeInv
<1>q. QED
  BY <1>1, <1>2, <1>3, WorkFacts

(* The closure of a child that is not returned yet has its frame still. *)
LEMMA ParentAlive ==
    ASSUME IInv, TreeInv, NEW k \in Proc, status[k] = "RETURNING"
    PROVE  /\ parent[k] \in Proc /\ parent[k] # None
           /\ status[parent[k]] # "RETURNING" /\ parent[k] \in alive
<1> DEFINE p == parent[k]
<1>1. k # Root /\ Live(k)
  BY DEF IInv, RootInv, Live
<1>2. p \in Proc /\ p # None
  BY <1>1, ParentFacts, BoundAssumption DEF Proc, None
<1>3. status[p] \in {"READY", "RUNNING", "SUSPENDED"}
  BY <1>1, <1>2 DEF TreeInv, LiveInv, ParentLives, IInv, Types, Status
<1>4. CASE status[p] = "RUNNING"
  <2>1. ASSUME NEW u \in Worker, cl[u] = p, pc[u] \in HandPC PROVE p \in alive
    <3>1. pc[u] \in {"setup", "add", "stealFinish"}
      BY <1>2, <1>4, <2>1 DEF IInv, InHandInv, HandPC
    <3>q. QED
      BY <2>1, <3>1 DEF TreeInv, AliveInv
  <2>2. ASSUME NEW u \in Worker, NEW i \in 1 .. Size(deque[u]), deque[u][i] = p
        PROVE  p \in alive
    <3>1. pc[u] \in WorkPC /\ p = Bottom(u)
      BY <1>4, <2>2, RunningTop
    <3>2. H[u] \in Nat /\ T(u) \in Nat /\ T(u) >= 1 /\ H[u] <= T(u)
      BY <1>4, <3>1, WorkFacts
    <3>3. CASE H[u] < T(u)
      BY <3>1, <3>3 DEF TreeInv, AliveInv
    <3>4. CASE H[u] = T(u)
      <4>1. pc[u] \in WorkPC /\ H[u] >= 1
        BY <3>1, <3>2, <3>4
      <4>2. Fresh(p)
        BY <3>1, <4>1 DEF IInv, FreshInv
      <4>q. QED
        BY <4>2 DEF Fresh
    <3>q. QED
      BY <3>2, <3>3, <3>4
  <2>3. \A u \in Worker : ~(pc[u] \in ReturnPC /\ child[u] = p)
    BY <1>4, InPlaceStatus
  <2>q. QED
    BY <1>2, <1>3, <1>4, <2>1, <2>2, <2>3
       DEF IInv, Placed, InDeque, InHand, InReturn
<1>5. CASE status[p] # "RUNNING"
  BY <1>2, <1>3, <1>5 DEF TreeInv, AliveInv
<1>q. QED
  BY <1>2, <1>3, <1>4, <1>5

(* The status of a closure that aborts its children is seen by no worker  *)
(* but the one that has it locked and polls its inlets.                   *)
LEMMA AlmostLocked ==
    ASSUME IInv, NEW c \in Proc, abort[c] = ALMOST_NO_ABORT
    PROVE  \E u \in Worker : clock[c] = u /\ cl[u] = c /\ pc[u] \in PollPC
<1>1. PICK u \in Worker : cl[u] = c /\ pc[u] \in PollPC
  BY DEF IInv, AlmostInv
<1>2. pc[u] \in LockPC
  BY <1>1 DEF PollPC, LockPC
<1>q. QED
  BY <1>1, <1>2, LockFacts

(* What sched.c asserts of a closure that it has stolen the locks for. *)
LEMMA StealAsserts ==
    ASSUME IInv, NEW w \in Worker, pc[w] = "stealClosure"
    PROVE  /\ status[cl[w]] \in {"READY", "RUNNING", "RETURNING"}
           /\ status[cl[w]] = "RUNNING" =>
                 Len(deque[victim[w]]) = 1 /\ cache[cl[w]] = victim[w]
<1>1. pc[w] \in VictimPC /\ pc[w] \in LockPC
  BY DEF VictimPC, LockPC
<1>2. /\ victim[w] \in Worker /\ deque[victim[w]] # <<>>
      /\ cl[w] = Head(deque[victim[w]])
  BY <1>1 DEF IInv, DequeInv, DequeLocks, ClosureLocks, Types
<1>3. /\ Size(deque[victim[w]]) \in Nat /\ Size(deque[victim[w]]) # 0
      /\ Head(deque[victim[w]]) = deque[victim[w]][1]
  BY <1>2, DequeFacts, HeadFacts DEF IInv
<1>4. 1 \in 1 .. Size(deque[victim[w]]) /\ cl[w] = deque[victim[w]][1]
  BY <1>2, <1>3
<1>5. status[cl[w]] \in {"READY", "RUNNING", "RETURNING"}
  BY <1>2, <1>4, InPlaceStatus
<1>6. ASSUME status[cl[w]] = "RUNNING"
      PROVE  Len(deque[victim[w]]) = 1 /\ cache[cl[w]] = victim[w]
  BY <1>2, <1>4, <1>6, RunningTop DEF Size
<1>q. QED
  BY <1>5, <1>6

(* What it asserts of a running closure whose inlets are polled. *)
LEMMA PollAsserts ==
    ASSUME IInv, NEW w \in Worker, Polls(w), status[cl[w]] = "RUNNING",
           ~AtTopOfStack(cl[w])
    PROVE  dlock[w] = w /\ Bottom(w) = cl[w] /\ cache[cl[w]] = w
<1>1. pc[w] # "setup"
  <2>1. pc[w] = "setup" => /\ cache[cl[w]] = w /\ T(w) = 1 /\ H[w] = 0
    BY DEF IInv, StackInv
  <2>q. QED
    BY <2>1 DEF AtTopOfStack
<1>2. pc[w] # "exitPoll"
  BY DEF IInv, InHandInv
<1>3. pc[w] \notin {"syncPoll", "abortPoll"}
  <2>1. SUFFICES ASSUME pc[w] \in {"syncPoll", "abortPoll"} PROVE FALSE
    OBVIOUS
  <2>2. pc[w] \in SlowPC /\ pc[w] \in WorkPC /\ cl[w] = Bottom(w)
    BY <2>1 DEF SlowPC, WorkPC, IInv, InHandInv
  <2>3. cache[cl[w]] = w /\ T(w) = 1 /\ H[w] = 0
    BY <2>2, WorkFacts
  <2>q. QED
    BY <2>3 DEF AtTopOfStack
<1>4. pc[w] = "handlerPoll"
  BY <1>1, <1>2, <1>3 DEF Polls
<1>5. cl[w] = Bottom(w) /\ pc[w] \in WorkPC /\ dlock[w] = w
  BY <1>4 DEF IInv, InHandInv, WorkPC, PopPC, DequeLocks, HoldsDeque,
     OwnDequePC
<1>q. QED
  BY <1>5, WorkFacts

(* What it asserts of a closure in the hand of a worker in its loop. *)
LEMMA LoopAsserts ==
    ASSUME IInv, TreeInv, NEW w \in Worker, pc[w] = "loop", cl[w] # None,
           Unlocked(cl[w])
    PROVE  LET c == cl[w] IN
           /\ status[c] \in {"READY", "RETURNING"}
           /\ status[c] = "READY" => abort[c] # ALMOST_NO_ABORT
           /\ status[c] = "RETURNING" =>
                 /\ join[c] = 0 /\ parent[c] # None
                 /\ status[parent[c]] # "RETURNING" /\ parent[c] \in alive
                 /\ Unlocked(parent[c]) => c \in incomplete[parent[c]]
<1> DEFINE c == cl[w]
<1>1. c \in Proc /\ status[c] \in {"READY", "RETURNING"}
  BY DEF IInv, InHandInv, Types
<1>2. abort[c] # ALMOST_NO_ABORT
  BY <1>1, AlmostLocked, WorkerAssumption DEF Unlocked, None
<1>3. ASSUME status[c] = "RETURNING"
      PROVE  /\ join[c] = 0 /\ parent[c] # None
             /\ status[parent[c]] # "RETURNING" /\ parent[c] \in alive
             /\ Unlocked(parent[c]) => c \in incomplete[parent[c]]
  <2>1. join[c] = 0
    BY <1>1, <1>3 DEF TreeInv, JoinInv, JoinFits
  <2>2. /\ parent[c] \in Proc /\ parent[c] # None
        /\ status[parent[c]] # "RETURNING" /\ parent[c] \in alive
    BY <1>1, <1>3, ParentAlive
  <2>3. ASSUME Unlocked(parent[c]) PROVE c \in incomplete[parent[c]]
    <3>1. ASSUME NEW u \in Worker, Leaves(u, c) PROVE FALSE
      <4>1. /\ pc[u] \in AbsentPC /\ child[u] = c
        BY <3>1 DEF Leaves
      <4>2. parent[c] = cl[u] /\ clock[cl[u]] = u
        BY <4>1, AbsentFacts
      <4>q. QED
        BY <2>3, <4>2, WorkerAssumption DEF Unlocked, None
    <3>2. Live(c) /\ ~Absent(c)
      BY <1>3, <3>1 DEF Live, Absent
    <3>q. QED
      BY <1>1, <2>2, <3>2 DEF TreeInv, ListInv
  <2>q. QED
    BY <2>1, <2>2, <2>3
<1>q. QED
  BY <1>1, <1>2, <1>3

(* And of the parent of one that is being returned. *)
LEMMA ReturnAsserts ==
    ASSUME IInv, TreeInv, NEW w \in Worker, Returning(w)
    PROVE  join[cl[w]] > 0 /\ status[cl[w]] # "RETURNING"
<1>1. pc[w] \in ReturnPC
  BY DEF Returning, ReturnPC
<1>2. /\ cl[w] \in Proc /\ child[w] \in Proc /\ status[child[w]] = "RETURNING"
      /\ parent[child[w]] = cl[w]
  BY <1>1, ReturnFacts
<1>3. status[cl[w]] # "RETURNING"
  BY <1>2, ParentAlive
<1>4. Joins(cl[w])
  BY <1>1 DEF Joins, Returns
<1>5. Cardinality(incomplete[cl[w]]) \in Nat
  <2>1. incomplete[cl[w]] \in SUBSET Proc
    BY <1>2 DEF IInv, Types
  <2>2. IsFiniteSet(Proc)
    BY FS_Interval, BoundAssumption DEF Proc
  <2>q. QED
    BY <2>1, <2>2, FS_Subset, FS_CardinalityType
<1>6. join[cl[w]] = Cardinality(incomplete[cl[w]]) + 1
  BY <1>2, <1>4 DEF TreeInv, CountInv
<1>q. QED
  BY <1>3, <1>5, <1>6

(* What it asserts where a worker works on the bottom of its deque. *)
LEMMA WorkAsserts ==
    ASSUME IInv, TreeInv, NEW w \in Worker
    PROVE  LET c == cl[w]  l == pc[w] IN
           /\ l \in {"sync", "abort", "result", "handler", "rootEnd"} =>
                 deque[w] # <<>>
           /\ l \in {"syncPoll", "abortPoll", "setResult"} =>
                 status[c] = "RUNNING" /\ AtTopOfStack(c) /\ c \in alive
           /\ l = "setResult" => abort[c] # ALMOST_NO_ABORT
           /\ l = "handlerAct" =>
                 /\ status[c] \in {"RUNNING", "RETURNING"}
                 /\ ~Stolen(w) => c \in alive
           /\ l = "rootEnd" => Bottom(w) = Root
<1> DEFINE c == cl[w]
<1>a. pc[w] \in WorkPC /\ H[w] < T(w) => Bottom(w) \in alive
  BY DEF TreeInv, AliveInv
<1>1. ASSUME pc[w] \in {"sync", "abort", "result", "handler", "rootEnd"}
      PROVE  deque[w] # <<>>
  BY <1>1, WorkFacts DEF WorkPC, PopPC, SlowPC
<1>2. ASSUME pc[w] \in {"syncPoll", "abortPoll", "setResult"}
      PROVE  status[c] = "RUNNING" /\ AtTopOfStack(c) /\ c \in alive
  <2>1. pc[w] \in SlowPC /\ pc[w] \in WorkPC /\ c = Bottom(w)
    BY <1>2 DEF SlowPC, WorkPC, IInv, InHandInv
  <2>2. status[c] = "RUNNING" /\ cache[c] = w /\ T(w) = 1 /\ H[w] = 0
    BY <2>1, WorkFacts
  <2>q. QED
    BY <1>a, <2>1, <2>2 DEF AtTopOfStack
<1>3. ASSUME pc[w] = "setResult" PROVE abort[c] # ALMOST_NO_ABORT
  <2>1. pc[w] \in LockPC /\ pc[w] \notin PollPC
    BY <1>3 DEF LockPC, PollPC
  <2>2. c \in Proc /\ clock[c] = w
    BY <2>1, LockFacts
  <2>q. QED
    BY <2>1, <2>2, AlmostLocked
<1>4. ASSUME pc[w] = "handlerAct"
      PROVE  /\ status[c] \in {"RUNNING", "RETURNING"}
             /\ ~Stolen(w) => c \in alive
  <2>1. pc[w] \in WorkPC /\ c = Bottom(w)
    BY <1>4 DEF WorkPC, PopPC, IInv, InHandInv
  <2>2. /\ status[c] \in {"RUNNING", "RETURNING"} /\ H[w] \in Nat /\ T(w) \in Nat
    BY <2>1, WorkFacts
  <2>q. QED
    BY <1>a, <2>1, <2>2 DEF Stolen
<1>5. ASSUME pc[w] = "rootEnd" PROVE Bottom(w) = Root
  <2>1. pc[w] \in SlowPC /\ pc[w] \in WorkPC /\ stack[w][T(w)] = Root
    BY <1>5 DEF SlowPC, WorkPC, IInv, StackInv, Running
  <2>2. /\ status[Bottom(w)] = "RUNNING" /\ T(w) = 1 /\ H[w] = 0
        /\ H[w] < T(w) => stack[w][H[w] + 1] = Bottom(w)
    BY <2>1, WorkFacts
  <2>q. QED
    BY <2>1, <2>2
<1>q. QED
  BY <1>1, <1>2, <1>3, <1>4, <1>5

(* No assertion of sched.c fails: the status of what is stolen, returned, *)
(* synced and handled, the deque that promote_child splits, the join      *)
(* counters and lists of Closure_return, and the frames that are run.     *)
THEOREM AssertionsHold == Spec => []Assertions
<1>1. ASSUME IInv, TreeInv PROVE Assertions
  <2>1. TypeOK
    BY <1>1, TypesAre
  <2>2. ASSUME NEW w \in Worker
        PROVE  LET c == cl[w]  l == pc[w] IN
               /\ l = "stealClosure" =>
                     /\ status[c] \in {"READY", "RUNNING", "RETURNING"}
                     /\ status[c] = "RUNNING" /\ ~BeingAborted(c) /\ Stealable(c) =>
                           Len(deque[victim[w]]) = 1 /\ cache[c] = victim[w]
               /\ Polls(w) /\ status[c] = "RUNNING" /\ ~AtTopOfStack(c) =>
                     dlock[w] = w /\ (complete[c] # <<>> => Bottom(w) = c /\ cache[c] = w)
               /\ l = "loop" /\ c # None /\ Unlocked(c) =>
                     /\ status[c] \in {"READY", "RETURNING"}
                     /\ status[c] = "READY" => abort[c] # ALMOST_NO_ABORT
                     /\ status[c] = "RETURNING" =>
                           /\ join[c] = 0 /\ parent[c] # None
                           /\ status[parent[c]] # "RETURNING" /\ parent[c] \in alive
                           /\ Unlocked(parent[c]) => c \in incomplete[parent[c]]
               /\ Returning(w) => join[c] > 0 /\ status[c] # "RETURNING"
    BY <1>1, StealAsserts, PollAsserts, LoopAsserts, ReturnAsserts
  <2>q. QED
    BY <1>1, <2>1, <2>2, WorkAsserts, Zenon DEF Assertions
<1>q. QED
  BY <1>1, TreeInvariant, PTL

(***************************************************************************)
(* Results and aborts. A third inductive invariant: whom an abort still has *)
(* to visit, where inlets wait, and which worker has been told of either.   *)
(***************************************************************************)

(* Where an abort is marked, its children are too, or its walk is still to *)
(* visit them; what has no closure is not marked, nor what a thief or the  *)
(* scheduler has just locked to run it.                                    *)
ToVisit(c, k) == \E w \in Worker : \E i \in 1 .. Size(walk[w]) :
                    walk[w][i].at = c /\ k \in walk[w][i].rest
ReachInv ==
    /\ \A c \in Proc : abort[c] = ABORT_ALL => \A k \in incomplete[c] :
          abort[k] = ABORT_ALL \/ ToVisit(c, k)
    /\ \A c \in Proc : status[c] = "none" => abort[c] = NO_ABORT
    /\ \A w \in Worker : pc[w] \in {"setup", "stealFinish"} => abort[cl[w]] # ABORT_ALL

(* Inlets wait only at a closure that will run or be polled: one past its  *)
(* sync has none, nor has one that the handler has polled, and a ready one *)
(* without children has none unless Cilk_exit polls it.                    *)
ExitPolls == \E w \in Worker : pc[w] = "exitPoll"
Waits(p) ==
    complete[p] # <<>> =>
       /\ status[p] \in {"READY", "RUNNING", "SUSPENDED"}
       /\ status[p] = "READY" /\ join[p] = 0 => p = Root /\ ExitPolls
Swaps(w) == pc[w] = "handlerSwap" \/ (pc[w] = "handlerPoll" /\ cl[w] # Bottom(w))
CompleteInv ==
    /\ \A p \in Proc : Waits(p)
    /\ \A w \in Worker : /\ pc[w] \in PolledPC => complete[Bottom(w)] = <<>>
                         /\ Swaps(w) => H[w] >= 1

(* A worker whose running closure has inlets waiting or is being aborted  *)
(* has been told, or what it runs was stolen.                             *)
Runs(w, c) == /\ status[c] = "RUNNING"
              /\ \/ pc[w] \in WorkPC /\ c = Bottom(w)
                 \/ pc[w] = "add" /\ c = cl[w]
SignalInv ==
    \A w \in Worker, c \in Proc : Runs(w, c) =>
        /\ complete[c] # <<>> => signalled[w]
        /\ abort[c] = ABORT_ALL => signalled[w] \/ H[w] >= T(w)

(* Only a walk down marks a closure to be aborted, and nothing takes that *)
(* mark back.                                                             *)
LEMMA AbortSteps ==
    ASSUME IInv, NEW w \in Worker, Step(w), ~WalkDown(w), ~InletAborts(w), ~LockBottom(w)
    PROVE  \A d \in Proc : /\ abort'[d] \in {abort[d], NO_ABORT}
                           /\ abort'[d] = ABORT_ALL <=> abort[d] = ABORT_ALL
<1> SUFFICES ASSUME NEW d \in Proc
             PROVE  /\ abort'[d] \in {abort[d], NO_ABORT}
                    /\ abort'[d] = ABORT_ALL <=> abort[d] = ABORT_ALL
  OBVIOUS
<1>a. abort \in [Proc -> {ABORT_ALL, ALMOST_NO_ABORT, NO_ABORT}]
  BY DEF IInv, Types
<1> USE DEF MaybeResetAbort, ABORT_ALL, ALMOST_NO_ABORT, NO_ABORT, state, BeingAborted
<1>1. CASE \/ LeaveScheduler(w) \/ TakeOwn(w) \/ StealLockDeque(w) \/ StealLockClosure(w)
           \/ StealGiveUp(w) \/ StealUnlockDeque(w) \/ StealReady(w) \/ StealPromote(w)
           \/ StealFinish(w) \/ InletKilled(w) \/ InletRuns(w) \/ WalkUp(w)
           \/ AbortReadyClosure(w) \/ Setup(w) \/ Execute(w) \/ ReturnLockParent(w)
           \/ ReturnEnqueue(w) \/ Spawn(w) \/ ReturnFast(w) \/ PopResult(w)
           \/ LockOwnDeque(w) \/ SetResult(w) \/ Done(w) \/ RemoveAndFree(w) \/ CilkExit(w)
           \/ HandlerSwap(w) \/ HandlerStolen(w)
  BY <1>1 DEF LeaveScheduler, TakeOwn, StealLockDeque, StealLockClosure,
     StealGiveUp, StealUnlockDeque, StealReady, StealPromote, StealFinish, InletKilled,
     InletRuns, WalkUp, AbortReadyClosure, Setup, Execute, ReturnLockParent, ReturnEnqueue,
     Spawn, ReturnFast, PopResult, LockOwnDeque, SetResult, Done, RemoveAndFree, CilkExit,
     HandlerSwap, HandlerStolen
<1>2. CASE \/ SetupDone(w) \/ ReturnDone(w) \/ Sync(w) \/ AbortSlow(w) \/ CilkExitDone(w)
           \/ HandlerPolled(w) \/ HandlerAbort(w) \/ HandlerResume(w)
  BY <1>a, <1>2 DEF SetupDone, ReturnDone, Sync, AbortSlow, CilkExitDone, HandlerPolled,
     HandlerAbort, HandlerResume
<1>q. QED
  BY <1>1, <1>2 DEF Step

(* Walks begin at a poll or an abort, and children are counted when they  *)
(* are promoted.                                                          *)
LEMMA WalkSteps ==
    ASSUME IInv, NEW w \in Worker, Step(w), ~WalkDown(w), ~WalkUp(w), ~InletAborts(w),
           ~LockBottom(w)
    PROVE  /\ walk' = walk
           /\ ~StealFinish(w) => \A d \in Proc : incomplete'[d] \subseteq incomplete[d]
<1>1. CASE \/ LeaveScheduler(w) \/ TakeOwn(w) \/ StealLockDeque(w) \/ StealLockClosure(w)
           \/ StealGiveUp(w) \/ StealUnlockDeque(w) \/ StealReady(w) \/ StealPromote(w)
           \/ InletKilled(w) \/ InletRuns(w) \/ AbortReadyClosure(w) \/ Setup(w)
           \/ SetupDone(w) \/ Execute(w)
           \/ ReturnEnqueue(w) \/ ReturnDone(w) \/ Spawn(w) \/ ReturnFast(w) \/ PopResult(w)
           \/ LockOwnDeque(w)
  BY <1>1 DEF LeaveScheduler, TakeOwn, StealLockDeque, StealLockClosure,
     StealGiveUp, StealUnlockDeque, StealReady, StealPromote, InletKilled,
     InletRuns, AbortReadyClosure, Setup, SetupDone, Execute,
     ReturnEnqueue, ReturnDone, Spawn, ReturnFast, PopResult, LockOwnDeque, tree
<1>2. CASE \/ Sync(w) \/ AbortSlow(w) \/ SetResult(w) \/ Done(w) \/ RemoveAndFree(w)
           \/ CilkExit(w) \/ CilkExitDone(w) \/ HandlerPolled(w) \/ HandlerSwap(w)
           \/ HandlerStolen(w) \/ HandlerAbort(w) \/ HandlerResume(w)
  BY <1>2 DEF Sync, AbortSlow, SetResult, Done, RemoveAndFree, CilkExit, CilkExitDone,
     HandlerPolled, HandlerSwap, HandlerStolen, HandlerAbort, HandlerResume, tree
<1>3. CASE StealFinish(w)
  BY <1>3 DEF StealFinish
<1>4. CASE ReturnLockParent(w)
  <2>1. walk' = walk /\ incomplete' = [incomplete EXCEPT ![parent[cl[w]]] = @ \ {cl[w]}]
    BY <1>4 DEF ReturnLockParent, RemoveChild
  <2>2. incomplete \in [Proc -> SUBSET Proc]
    BY DEF IInv, Types
  <2>q. QED
    BY <2>1, <2>2
<1>q. QED
  BY <1>1, <1>2, <1>3, <1>4 DEF Step

(* The marks of an abort stay where the walk has put them: a closure gets *)
(* no child while it is being aborted, and a walk leaves none out.        *)
LEMMA ReachInvStep ==
    ASSUME IInv, TreeInv, ReachInv, [Next]_vars
    PROVE  ReachInv'
<1>a. Types /\ Types'
  BY NextIInv DEF IInv
<1>r. /\ \A c \in Proc : abort[c] = ABORT_ALL => \A k \in incomplete[c] :
            abort[k] = ABORT_ALL \/ ToVisit(c, k)
      /\ \A c \in Proc : status[c] = "none" => abort[c] = NO_ABORT
      /\ \A u \in Worker : pc[u] \in {"setup", "stealFinish"} => abort[cl[u]] # ABORT_ALL
  BY DEF ReachInv
<1>i. \A c \in Proc : incomplete[c] \in SUBSET Proc
  BY <1>a DEF Types
<1>c. ABORT_ALL # NO_ABORT /\ ABORT_ALL # ALMOST_NO_ABORT
  BY DEF ABORT_ALL, NO_ABORT, ALMOST_NO_ABORT
<1>h. ASSUME NEW w \in Worker, Step(w),
             \A c \in Proc : abort'[c] = ABORT_ALL => \A k \in incomplete'[c] :
                 abort'[k] = ABORT_ALL \/ ToVisit(c, k)',
             \A c \in Proc : status[c] = "none" /\ status'[c] = "none" => abort'[c] = NO_ABORT,
             \A u \in Worker \ {w} : pc[u] \in {"setup", "stealFinish"} =>
                 abort'[cl[u]] # ABORT_ALL,
             pc'[w] \in {"setup", "stealFinish"} => abort'[cl'[w]] # ABORT_ALL
      PROVE  ReachInv'
  <2>1. \A u \in Worker : pc'[u] \in {"setup", "stealFinish"} => abort'[cl'[u]] # ABORT_ALL
    BY <1>a, <1>h, OthersStay
  <2>2. \A c \in Proc : status'[c] = "none" => abort'[c] = NO_ABORT
    BY <1>h, StatusSteps DEF Lives
  <2>q. QED
    BY <1>h, <2>1, <2>2 DEF ReachInv
<1>1. ASSUME NEW w \in Worker, WalkDown(w) PROVE ReachInv'
  <2>1. PICK n \in Nat \ {0}, k \in Proc : WalkDownDoes(w, n, k)
    BY <1>1, WalkDownEffect
  <2> USE DEF WalkDownDoes
  <2>2. abort'[k] = ABORT_ALL /\ \A d \in Proc \ {k} : abort'[d] = abort[d]
    BY <1>a, <2>1 DEF Types
  <2>3. /\ n \in 1 .. n /\ n + 1 \in 1 .. n + 1
        /\ \A i \in 1 .. n : i # n => i \in 1 .. n - 1
        /\ \A i \in 1 .. n : i \in 1 .. n + 1
    OBVIOUS
  <2>4. /\ walk'[w][n + 1].at = k /\ walk'[w][n + 1].rest = incomplete[k]
        /\ Size(walk'[w]) = n + 1 /\ Size(walk[w]) = n
    BY <2>1
  <2>5. ASSUME NEW c \in Proc, NEW x, ToVisit(c, x), x # k PROVE ToVisit(c, x)'
    <3>1. PICK u \in Worker : \E i \in 1 .. Size(walk[u]) :
                 walk[u][i].at = c /\ x \in walk[u][i].rest
      BY <2>5 DEF ToVisit
    <3>2. CASE u # w
      BY <2>1, <3>1, <3>2 DEF ToVisit
    <3>3. CASE u = w
      <4>1. PICK i \in 1 .. n : walk[w][i].at = c /\ x \in walk[w][i].rest
        BY <2>4, <3>1, <3>3
      <4>2. walk'[w][i].at = c /\ x \in walk'[w][i].rest /\ i \in 1 .. Size(walk'[w])
        BY <2>1, <2>3, <2>4, <2>5, <4>1
      <4>q. QED
        BY <4>2 DEF ToVisit
    <3>q. QED
      BY <3>2, <3>3
  <2>6. \A x \in incomplete[k] : ToVisit(k, x)'
    BY <2>3, <2>4 DEF ToVisit
  <2>7. \A c \in Proc : abort'[c] = ABORT_ALL => \A x \in incomplete'[c] :
           abort'[x] = ABORT_ALL \/ ToVisit(c, x)'
    BY <1>i, <1>r, <2>1, <2>2, <2>5, <2>6
  <2>8. status[k] # "none"
    <3>1. walk[w][n].at \in Proc /\ k \in incomplete[walk[w][n].at]
      BY <1>a, <2>1, <2>3, <2>4, WalkFacts DEF TreeInv, WalkTree
    <3>q. QED
      BY <3>1 DEF TreeInv, ListInv, Live
  <2>9. ASSUME NEW u \in Worker, pc[u] \in {"setup", "stealFinish"}
        PROVE  cl[u] \in Proc /\ cl[u] # k
    <3>1. cl[u] \in Proc /\ clock[cl[u]] = u
      BY <2>9, LockFacts DEF LockPC
    <3>q. QED
      BY <2>1, <3>1, WorkerAssumption DEF None
  <2>q. QED
    BY <1>1, <1>h, <1>r, <2>1, <2>2, <2>7, <2>8, <2>9 DEF Step
<1>2. ASSUME NEW w \in Worker, WalkUp(w) PROVE ReachInv'
  <2>1. PICK n \in Nat \ {0} : WalkUpDoes(w, n)
    BY <1>2, WalkUpEffect
  <2> USE DEF WalkUpDoes
  <2>2. ASSUME NEW c \in Proc, NEW x, ToVisit(c, x) PROVE ToVisit(c, x)'
    <3>1. PICK u \in Worker : \E i \in 1 .. Size(walk[u]) :
                 walk[u][i].at = c /\ x \in walk[u][i].rest
      BY <2>2 DEF ToVisit
    <3>2. CASE u # w
      BY <2>1, <3>1, <3>2 DEF ToVisit
    <3>3. CASE u = w
      <4>1. PICK i \in 1 .. n : walk[w][i].at = c /\ x \in walk[w][i].rest
        BY <2>1, <3>1, <3>3
      <4>2. i \in 1 .. n - 1
        BY <2>1, <4>1
      <4>q. QED
        BY <2>1, <4>1, <4>2 DEF ToVisit
    <3>q. QED
      BY <3>2, <3>3
  <2>q. QED
    BY <1>2, <1>h, <1>i, <1>r, <2>1, <2>2 DEF Step
<1>3. ASSUME NEW w \in Worker, NEW c \in Proc, walk[w] = <<>>,
             Step(w), abort'[c] # NO_ABORT, status[c] # "none",
             \A d \in Proc : abort'[d] = ABORT_ALL <=> abort[d] = ABORT_ALL,
             \A d \in Proc \ {c} : abort'[d] = abort[d] /\ incomplete'[d] = incomplete[d],
             incomplete'[c] # incomplete[c] => abort[c] # ABORT_ALL,
             pc'[w] \in {"setup", "stealFinish"} => pc'[w] = pc[w] /\ cl'[w] = cl[w]
      PROVE  ReachInv'
  <2>1. ASSUME NEW d \in Proc, NEW x, ToVisit(d, x) PROVE ToVisit(d, x)'
    <3>1. PICK u \in Worker : \E i \in 1 .. Size(walk[u]) :
                 walk[u][i].at = d /\ x \in walk[u][i].rest
      BY <2>1 DEF ToVisit
    <3>2. u # w
      BY <1>3, <1>a, <3>1, WalkFacts
    <3>q. QED
      BY <1>3, <1>a, <3>1, <3>2, OthersStay DEF ToVisit
  <2>2. \A d \in Proc : abort'[d] = ABORT_ALL => \A x \in incomplete'[d] :
           abort'[x] = ABORT_ALL \/ ToVisit(d, x)'
    BY <1>3, <1>i, <1>r, <2>1
  <2>3. \A d \in Proc : status[d] = "none" /\ status'[d] = "none" => abort'[d] = NO_ABORT
    BY <1>3, <1>r
  <2>4. \A u \in Worker : pc[u] \in {"setup", "stealFinish"} => cl[u] \in Proc
    BY LockFacts DEF LockPC
  <2>q. QED
    BY <1>3, <1>h, <1>r, <2>2, <2>3, <2>4
<1>4. ASSUME NEW w \in Worker, InletAborts(w) PROVE ReachInv'
  <2>1. PICK c \in Proc, r \in SUBSET Proc : InletAbortsDoes(w, c, r)
    BY <1>4, InletAbortsEffect
  <2>2. /\ abort'[c] = ALMOST_NO_ABORT /\ abort[c] = NO_ABORT /\ complete[c] # <<>>
        /\ walk[w] = <<>> /\ pc' = pc /\ cl' = cl
        /\ \A d \in Proc \ {c} : abort'[d] = abort[d]
    BY <1>a, <2>1 DEF InletAbortsDoes, Types
  <2>3. status[c] # "none"
    BY <2>2 DEF IInv, FreshInv, Fresh
  <2>4. \A d \in Proc \ {c} : incomplete'[d] = incomplete[d]
    BY <1>a, <2>1 DEF InletAbortsDoes, InletSplits, Types
  <2>q. QED
    BY <1>3, <1>4, <1>c, <2>2, <2>3, <2>4 DEF Step, NO_ABORT, ALMOST_NO_ABORT
<1>5. ASSUME NEW w \in Worker, LockBottom(w) PROVE ReachInv'
  <2>1. PICK c \in Proc : LockBottomDoes(w, c)
    BY <1>5, LockBottomEffect
  <2> USE DEF LockBottomDoes
  <2>2. pc'[w] \notin {"setup", "stealFinish"}
    BY <1>a, <2>1 DEF Types
  <2>3. CASE pc[w] = "abort"
    <3>1. walk[w] = <<>>
      BY <2>3 DEF IInv, WalkInv, PollPC
    <3>2. status[c] # "none" /\ incomplete' = incomplete
      BY <2>1, <2>3
    <3>3. abort'[c] # NO_ABORT /\ \A d \in Proc \ {c} : abort'[d] = abort[d]
      BY <1>a, <2>1, <2>3 DEF Types, ABORT_ALL, ALMOST_NO_ABORT, NO_ABORT
    <3>4. \A d \in Proc : abort'[d] = ABORT_ALL <=> abort[d] = ABORT_ALL
      BY <2>1, <2>3
    <3>q. QED
      BY <1>3, <1>5, <2>2, <3>1, <3>2, <3>3, <3>4 DEF Step
  <2>4. CASE pc[w] # "abort"
    <3>1. UNCHANGED <<abort, walk, incomplete>>
      BY <2>1, <2>4
    <3>q. QED
      BY <1>5, <1>h, <1>r, <2>2, <3>1 DEF Step, ToVisit
  <2>q. QED
    BY <2>3, <2>4
<1>6. ASSUME NEW w \in Worker, Step(w), ~WalkDown(w), ~WalkUp(w), ~InletAborts(w),
             ~LockBottom(w)
      PROVE  ReachInv'
  <2>1. \A d \in Proc : /\ abort'[d] \in {abort[d], NO_ABORT}
                        /\ abort'[d] = ABORT_ALL <=> abort[d] = ABORT_ALL
    BY <1>6, AbortSteps
  <2>2. walk' = walk /\ (~StealFinish(w) => \A d \in Proc : incomplete'[d] \subseteq incomplete[d])
    BY <1>6, WalkSteps
  <2>3. \A d \in Proc : abort[d] = ABORT_ALL => incomplete'[d] \subseteq incomplete[d]
    <3>1. CASE StealFinish(w)
      <4>1. pc[w] = "stealFinish" /\ incomplete' = [incomplete EXCEPT ![cl[w]] = @ \cup {child[w]}]
        BY <3>1 DEF StealFinish, AddChild
      <4>q. QED
        BY <1>a, <1>r, <4>1 DEF Types
    <3>q. QED
      BY <2>2, <3>1
  <2>4. pc'[w] \in {"setup", "stealFinish"} => abort[cl'[w]] # ABORT_ALL /\ cl'[w] \in Proc
    <3>1. pc'[w] \in {"setup", "stealFinish"} => \/ Setup(w) \/ StealPromote(w)
                                                 \/ (pc'[w] = pc[w] /\ cl'[w] = cl[w])
      <4>p. pc \in [Worker -> PC]
        BY <1>a DEF Types
      <4>1. CASE LeaveScheduler(w) \/ TakeOwn(w) \/ StealLockDeque(w) \/
                StealLockClosure(w) \/ StealGiveUp(w)
        BY <4>p, <4>1 DEF LeaveScheduler, TakeOwn, StealLockDeque, StealLockClosure,
           StealGiveUp, Goto
      <4>2. CASE StealUnlockDeque(w) \/ StealReady(w) \/ StealFinish(w)
        BY <4>p, <4>2 DEF StealUnlockDeque, StealReady, StealFinish, Goto
      <4>3. CASE InletKilled(w) \/ InletRuns(w) \/ AbortReadyClosure(w)
        BY <4>p, <4>3 DEF InletKilled, InletRuns, AbortReadyClosure, Hand, Goto
      <4>4. CASE SetupDone(w) \/ Execute(w) \/ ReturnLockParent(w) \/ ReturnEnqueue(w) \/
                ReturnDone(w)
        BY <4>p, <4>4 DEF SetupDone, Execute, ReturnLockParent, ReturnEnqueue, ReturnDone,
           Goto
      <4>5. CASE Spawn(w) \/ ReturnFast(w) \/ PopResult(w) \/ LockOwnDeque(w)
        BY <4>p, <4>5 DEF Spawn, ReturnFast, PopResult, LockOwnDeque, Goto
      <4>6. CASE Sync(w) \/ AbortSlow(w) \/ SetResult(w) \/ Done(w) \/ RemoveAndFree(w)
        BY <4>p, <4>6 DEF Sync, AbortSlow, SetResult, Done, RemoveAndFree, Goto
      <4>7. CASE CilkExit(w) \/ CilkExitDone(w)
        BY <4>p, <4>7 DEF CilkExit, CilkExitDone, Goto
      <4>8. CASE HandlerPolled(w) \/ HandlerSwap(w) \/ HandlerResume(w)
        BY <4>p, <4>8 DEF HandlerPolled, HandlerSwap, HandlerResume, Goto
      <4>9. CASE HandlerStolen(w) \/ HandlerAbort(w)
        BY <4>p, <4>9 DEF HandlerStolen, HandlerAbort, Unwind, Goto
      <4>q. QED
        BY <1>6, <4>1, <4>2, <4>3, <4>4, <4>5, <4>6, <4>7, <4>8, <4>9 DEF Step
    <3>2. Setup(w) \/ StealPromote(w) => abort[cl'[w]] = NO_ABORT
      BY DEF Setup, StealPromote, BeingAborted
    <3>3. pc'[w] \in {"setup", "stealFinish"} => cl'[w] \in Proc
      <4>1. IInv'
        BY NextIInv
      <4>q. QED
        BY <4>1, <1>a DEF IInv, ClosureLocks, Types, LockPC, None
    <3>q. QED
      BY <1>c, <1>r, <3>1, <3>2, <3>3
  <2>5. \A u \in Worker : pc[u] \in {"setup", "stealFinish"} => cl[u] \in Proc
    BY LockFacts DEF LockPC
  <2>6. \A c, k : ToVisit(c, k)' <=> ToVisit(c, k)
    BY <2>2 DEF ToVisit
  <2>7. \A c \in Proc : abort'[c] = ABORT_ALL => \A k \in incomplete'[c] :
           abort'[k] = ABORT_ALL \/ ToVisit(c, k)'
    BY <1>i, <1>r, <2>1, <2>3, <2>6
  <2>q. QED
    BY <1>6, <1>h, <1>r, <2>1, <2>4, <2>5, <2>7
<1>7. ASSUME UNCHANGED vars PROVE ReachInv'
  BY <1>7 DEF ReachInv, ToVisit, vars
<1>q. QED
  BY <1>1, <1>2, <1>4, <1>5, <1>6, <1>7 DEF Next, Terminated

(* An inlet comes to wait at the parent of a closure that returns, or by a *)
(* Cilk_exit at the first closure.                                         *)
LEMMA InletSteps ==
    ASSUME IInv, NEW w \in Worker, Step(w), NEW d \in Proc, complete[d] = <<>>,
           ~(ReturnEnqueue(w) /\ d = cl[w]), ~(CilkExit(w) /\ d = Root)
    PROVE  complete'[d] = <<>>
<1>a. complete \in [Proc -> Seq(Proc \cup {None})]
  BY DEF IInv, Types
<1> USE DEF tree
<1>1. CASE \/ LeaveScheduler(w) \/ TakeOwn(w) \/ StealLockDeque(w) \/ StealLockClosure(w)
           \/ StealGiveUp(w) \/ StealUnlockDeque(w) \/ StealReady(w) \/ StealPromote(w)
           \/ StealFinish(w) \/ WalkDown(w) \/ WalkUp(w) \/ AbortReadyClosure(w) \/ Setup(w)
           \/ SetupDone(w) \/ Execute(w) \/ ReturnLockParent(w) \/ ReturnDone(w) \/ Spawn(w)
           \/ ReturnFast(w) \/ PopResult(w) \/ LockOwnDeque(w)
  BY <1>1 DEF LeaveScheduler, TakeOwn, StealLockDeque, StealLockClosure,
     StealGiveUp, StealUnlockDeque, StealReady, StealPromote, StealFinish,
     WalkDown, WalkUp, AbortReadyClosure, Setup, SetupDone, Execute, ReturnLockParent,
     ReturnDone, Spawn, ReturnFast, PopResult, LockOwnDeque
<1>2. CASE \/ LockBottom(w) \/ Sync(w) \/ AbortSlow(w) \/ SetResult(w) \/ Done(w)
           \/ RemoveAndFree(w) \/ CilkExitDone(w) \/ HandlerPolled(w) \/ HandlerSwap(w)
           \/ HandlerStolen(w) \/ HandlerAbort(w) \/ HandlerResume(w)
  BY <1>2 DEF LockBottom, Sync, AbortSlow, SetResult, Done, RemoveAndFree, CilkExitDone,
     HandlerPolled, HandlerSwap, HandlerStolen, HandlerAbort, HandlerResume
<1>3. CASE InletKilled(w) \/ InletRuns(w) \/ InletAborts(w)
  BY <1>a, <1>3 DEF InletKilled, InletRuns, InletAborts
<1>4. CASE ReturnEnqueue(w) \/ CilkExit(w)
  BY <1>a, <1>4 DEF ReturnEnqueue, CilkExit, EnqueueInlet
<1>q. QED
  BY <1>1, <1>2, <1>3, <1>4 DEF Step

(* While a procedure under the first one runs, the first is not past its  *)
(* sync.                                                                  *)
LEMMA UnderRoot ==
    ASSUME IInv, TreeInv, NEW w \in Worker, pc[w] \in WorkPC, Running(w) # Root,
           NEW u \in Worker, pc[u] \in SyncedPC, u # w
    PROVE  Bottom(u) # Root
<1> SUFFICES ASSUME Bottom(u) = Root PROVE FALSE
  OBVIOUS
<1>1. pc[u] \in WorkPC /\ Root \in Proc /\ join[Root] = 0
  BY BottomsApart, BoundAssumption DEF SyncedPC, WorkPC, SlowPC, TreeInv, JoinInv, Root, Proc
<1>2. \A k \in Proc : parent[k] = Root => ~Live(k)
  BY <1>1, NotStolen, Childless
<1>3. \A k \in Proc \ {Root} : ~Live(k)
  BY <1>2, RootLast DEF TreeInv
<1>4. Bottom(w) \in Proc /\ Bottom(w) # Root /\ Live(Bottom(w))
  BY <1>1, BottomsApart, WorkFacts DEF Live
<1>q. QED
  BY <1>3, <1>4

(* Inlets do not come too late: a closure past its sync has no child that *)
(* could return, nor does Cilk_exit find the first closure there, and the *)
(* handler has the closure it has polled locked.                          *)
LEMMA CompleteInvStep ==
    ASSUME IInv, TreeInv, CompleteInv, [Next]_vars
    PROVE  CompleteInv'
<1>a. Types /\ Types' /\ RootInv'
  BY NextIInv DEF IInv
<1>c. /\ \A p \in Proc : Waits(p)
      /\ \A u \in Worker : /\ pc[u] \in PolledPC => complete[Bottom(u)] = <<>>
                           /\ Swaps(u) => H[u] >= 1
  BY DEF CompleteInv
<1>p. \A u \in Worker : pc[u] \in PolledPC \cup {"handlerSwap", "handlerPoll"} =>
         /\ pc[u] \in WorkPC /\ Bottom(u) \in Proc
         /\ pc[u] \in OwnDequePC \/ (T(u) = 1 /\ H[u] = 0)
  BY WorkFacts DEF PolledPC, SyncedPC, WorkPC, PopPC, SlowPC, OwnDequePC
<1>e. ASSUME NEW w \in Worker, ReturnEnqueue(w)
      PROVE  /\ cl[w] \in Proc /\ clock[cl[w]] = w /\ join[cl[w]] # 0
             /\ status[cl[w]] \in {"READY", "RUNNING", "SUSPENDED"}
  <2>1. pc[w] \in ReturnPC /\ Returning(w)
    BY <1>e DEF ReturnEnqueue, ReturnPC, Returning
  <2>2. /\ cl[w] \in Proc /\ clock[cl[w]] = w /\ child[w] \in Proc
        /\ status[child[w]] = "RETURNING" /\ parent[child[w]] = cl[w]
    BY <2>1, ReturnFacts
  <2>3. ParentLives(child[w])
    BY <2>2 DEF TreeInv, LiveInv, Live, IInv, RootInv
  <2>4. join[cl[w]] \in Nat /\ join[cl[w]] > 0
    BY <2>1, <2>2, ReturnAsserts DEF TreeInv, CountInv
  <2>5. status[cl[w]] \in Status /\ status[cl[w]] \notin {"none", "RETURNING", "freed"}
    BY <1>a, <2>2, <2>3 DEF ParentLives, Types
  <2>6. join[cl[w]] # 0
    BY <2>4
  <2>q. QED
    BY <2>2, <2>5, <2>6 DEF Status
<1>x. ASSUME NEW w \in Worker, CilkExit(w)
      PROVE  /\ clock[Root] = None /\ pc[w] \in WorkPC /\ Running(w) # Root
             /\ status' = status /\ status[Root] \in {"READY", "RUNNING", "SUSPENDED"}
             /\ status[Root] # "RUNNING" => pc'[w] = "exitPoll"
  <2>1. /\ clock[Root] = None /\ pc[w] \in WorkPC /\ Running(w) # Root
        /\ status' = status /\ (status[Root] # "RUNNING" => pc'[w] = "exitPoll")
    BY <1>a, <1>x DEF CilkExit, state, Goto, Types, WorkPC
  <2>2. Live(Bottom(w)) /\ Bottom(w) \in Proc
    BY <2>1, WorkFacts DEF Live
  <2>3. status[Root] \notin {"none", "RETURNING", "freed"} /\ Root \in Proc
    BY <2>2, BoundAssumption DEF TreeInv, LiveInv, IInv, RootInv, Root, Proc
  <2>q. QED
    BY <1>a, <2>1, <2>3 DEF Types, Status
<1>1. ASSUME NEW w \in Worker, Step(w), NEW p \in Proc, complete'[p] # <<>>
      PROVE  /\ status'[p] \in {"READY", "RUNNING", "SUSPENDED"}
             /\ status'[p] = "READY" /\ join'[p] = 0 => p = Root /\ ExitPolls'
  <2>1. CASE complete[p] = <<>>
    <3>1. (ReturnEnqueue(w) /\ p = cl[w]) \/ (CilkExit(w) /\ p = Root)
      BY <1>1, <2>1, InletSteps
    <3>2. CASE ReturnEnqueue(w) /\ p = cl[w]
      <4>1. status' = status /\ join' = join
        BY <3>2 DEF ReturnEnqueue, state
      <4>q. QED
        BY <1>e, <3>2, <4>1
    <3>3. CASE CilkExit(w) /\ p = Root
      BY <1>x, <3>3 DEF ExitPolls
    <3>q. QED
      BY <3>1, <3>2, <3>3
  <2>2. CASE complete[p] # <<>>
    <3>1. /\ status[p] \in {"READY", "RUNNING", "SUSPENDED"}
          /\ status[p] = "READY" /\ join[p] = 0 => p = Root /\ ExitPolls
      BY <1>c, <2>2 DEF Waits
    <3>2. status'[Root] # "RETURNING"
      BY <1>a DEF RootInv
    <3>3. join[p] \in Nat
      BY DEF TreeInv, CountInv
    <3>4. ASSUME status[p] = "READY", join[p] = 0, p = Root PROVE ExitPolls'
      <4>1. PICK u \in Worker : pc[u] = "exitPoll"
        BY <3>1, <3>4 DEF ExitPolls
      <4>2. CilkExitDone(w) => complete'[Root] = <<>> \/ pc[w] # "exitPoll" \/ u # w
        <5>1. CilkExitDone(w) => Polled(w) /\ complete' = complete /\ pc[w] = "exitPoll"
          BY DEF CilkExitDone, tree
        <5>2. pc[w] = "exitPoll" => Polls(w) /\ cl[w] = Root
          BY DEF Polls, IInv, InHandInv
        <5>q. QED
          BY <5>1, <5>2 DEF Polled
      <4>3. pc'[u] = "exitPoll"
        <5>1. CASE u = w
          BY <1>1, <1>a, <3>4, <4>1, <4>2, <5>1, PolledSteps
        <5>2. CASE u # w
          BY <1>1, <1>a, <4>1, <5>2, OthersStay
        <5>q. QED
          BY <5>1, <5>2
      <4>q. QED
        BY <4>3 DEF ExitPolls
    <3>5. pc[w] \in PolledPC => p # Bottom(w)
      BY <1>c, <2>2
    <3>6. status[p] = "READY" /\ join'[p] = 0 => join[p] = 0
      BY <1>1, CountSteps DEF Counts
    <3>7. Lives(w, p)
      BY <1>1, StatusSteps
    <3>8. join[p] + 1 # 0
      BY <3>3
    <3>q. QED
      BY <1>1, <3>1, <3>2, <3>4, <3>5, <3>6, <3>7, <3>8 DEF Lives
  <2>q. QED
    BY <2>1, <2>2
<1>2. ASSUME NEW w \in Worker, Step(w), NEW u \in Worker \ {w}, pc'[u] \in PolledPC
      PROVE  complete'[Bottom(u)'] = <<>>
  <2>1. pc[u] \in PolledPC /\ cl'[u] = cl[u]
    BY <1>2, <1>a, OthersStay
  <2>2. Bottom(u)' = Bottom(u) /\ Bottom(u) \in Proc /\ complete[Bottom(u)] = <<>>
    <3>1. ASSUME NEW c \in Proc, NEW k \in Proc, StealPromoteDoes(w, u, c, k) PROVE FALSE
      <4>1. pc[u] \notin OwnDequePC /\ H[u] + 1 < T(u)
        BY <3>1 DEF StealPromoteDoes
      <4>q. QED
        BY <1>p, <2>1, <4>1
    <3>q. QED
      BY <1>2, <1>c, <1>p, <2>1, <3>1, WorkStays
  <2>3. ~(ReturnEnqueue(w) /\ Bottom(u) = cl[w])
    <3>1. SUFFICES ASSUME ReturnEnqueue(w), Bottom(u) = cl[w] PROVE FALSE
      OBVIOUS
    <3>2. clock[Bottom(u)] = w /\ join[Bottom(u)] # 0
      BY <1>e, <3>1
    <3>3. pc[u] \notin SyncedPC
      BY <3>2 DEF TreeInv, JoinInv
    <3>4. clock[Bottom(u)] = u
      BY <2>1, <3>3, LockFacts DEF PolledPC, LockPC, IInv, InHandInv
    <3>q. QED
      BY <3>2, <3>4
  <2>4. ~(CilkExit(w) /\ Bottom(u) = Root)
    <3>1. SUFFICES ASSUME CilkExit(w), Bottom(u) = Root PROVE FALSE
      OBVIOUS
    <3>2. clock[Root] = None /\ pc[u] \notin SyncedPC
      BY <1>x, <3>1, UnderRoot
    <3>3. clock[Root] = u
      BY <2>1, <3>1, <3>2, LockFacts DEF PolledPC, LockPC, IInv, InHandInv
    <3>q. QED
      BY <3>2, <3>3, WorkerAssumption DEF None
  <2>q. QED
    BY <1>2, <2>2, <2>3, <2>4, InletSteps
<1>3. ASSUME NEW w \in Worker, Step(w), NEW u \in Worker \ {w}, Swaps(u)'
      PROVE  H'[u] >= 1
  <2>1. /\ pc[u] \in {"handlerSwap", "handlerPoll"} /\ pc'[u] = pc[u] /\ cl'[u] = cl[u]
    BY <1>3, <1>a, OthersStay DEF Swaps
  <2>2. pc[u] \in WorkPC /\ pc[u] \in OwnDequePC
    BY <2>1 DEF WorkPC, PopPC, OwnDequePC
  <2>3. H'[u] = H[u] /\ Bottom(u)' = Bottom(u)
    BY <1>3, <2>2, WorkStays DEF StealPromoteDoes
  <2>q. QED
    BY <1>3, <1>c, <2>1, <2>3 DEF Swaps
<1>4. ASSUME NEW w \in Worker, Step(w)
      PROVE  /\ pc'[w] \in PolledPC => complete'[Bottom(w)'] = <<>>
             /\ Swaps(w)' => H'[w] >= 1
  <2> SUFFICES ASSUME pc'[w] \in PolledPC \cup {"handlerSwap", "handlerPoll"}
               PROVE  /\ pc'[w] \in PolledPC => complete'[Bottom(w)'] = <<>>
                      /\ Swaps(w)' => H'[w] >= 1
    BY DEF Swaps
  <2>k. "handlerSwap" \notin PolledPC /\ "handlerPoll" \notin PolledPC
    BY DEF PolledPC, SyncedPC
  <2>1. CASE LockOwnDeque(w) \/ Done(w)
    <3>1. /\ pc[w] = "synced" /\ pc'[w] \notin {"handlerSwap", "handlerPoll"}
          /\ UNCHANGED <<complete, deque>>
      BY <1>a, <2>1 DEF LockOwnDeque, SlowAborts, Done, AfterSync, Goto, tree, Types,
         PolledPC, SyncedPC
    <3>q. QED
      BY <1>c, <3>1 DEF Bottom, Swaps, PolledPC, SyncedPC
  <2>2. CASE LockBottom(w)
    <3>1. PICK c \in Proc : LockBottomDoes(w, c)
      BY <2>2, LockBottomEffect
    <3>2. /\ pc'[w] # "handlerSwap" /\ cl'[w] = Bottom(w)
          /\ UNCHANGED <<complete, deque>>
          /\ pc'[w] \in PolledPC => pc[w] = "result"
      BY <1>a, <3>1 DEF LockBottomDoes, Types, PolledPC, SyncedPC
    <3>3. Bottom(w)' = Bottom(w)
      BY <3>2 DEF Bottom
    <3>q. QED
      BY <1>c, <3>2, <3>3 DEF Swaps, PolledPC, SyncedPC
  <2>3. CASE Sync(w)
    <3>1. PICK c \in Proc : SyncDoes(w, c)
      BY <2>3, SyncEffect
    <3>2. /\ pc'[w] = "synced" /\ deque' = deque /\ c = Bottom(w) /\ complete'[c] = <<>>
      BY <1>a, <3>1 DEF SyncDoes, Types, PolledPC, SyncedPC
    <3>q. QED
      BY <3>2 DEF Bottom, Swaps
  <2>4. CASE HandlerPolled(w)
    <3>1. PICK t \in Proc, t1 \in Proc : HandlerPolledDoes(w, t, t1)
      BY <2>4, HandlerPolledEffect
    <3>2. /\ UNCHANGED <<deque, H, complete>> /\ t1 = Bottom(w) /\ t = cl[w]
          /\ pc[w] = "handlerPoll" /\ complete[t] = <<>>
          /\ \/ t1 = t /\ pc'[w] = "handlerAct"
             \/ t1 # t /\ pc'[w] = "handlerSwap"
      <4>1. pc \in [Worker -> PC]
        BY <1>a DEF Types
      <4>2. /\ UNCHANGED <<deque, H, complete>> /\ t1 = Bottom(w) /\ t = cl[w]
            /\ pc[w] = "handlerPoll" /\ complete[t] = <<>>
            /\ \/ t1 = t /\ pc' = [pc EXCEPT ![w] = "handlerAct"]
               \/ t1 # t /\ pc' = [pc EXCEPT ![w] = "handlerSwap"]
        BY <3>1 DEF HandlerPolledDoes
      <4>q. QED
        BY <4>1, <4>2
    <3>q. QED
      BY <1>c, <2>k, <3>2 DEF Bottom, Swaps
  <2>5. CASE HandlerSwap(w)
    <3>1. pc[w] = "handlerSwap" /\ pc'[w] = "handlerAct" /\ UNCHANGED <<deque, complete>>
      BY <1>a, <2>5 DEF HandlerSwap, Goto, tree, Types
    <3>2. Fresh(Bottom(w))
      <4>1. H[w] >= 1 /\ pc[w] \in WorkPC
        BY <1>c, <3>1 DEF Swaps, WorkPC, PopPC
      <4>q. QED
        BY <4>1 DEF IInv, FreshInv
    <3>q. QED
      BY <3>1, <3>2 DEF Fresh, Bottom, Swaps
  <2>6. CASE InletAborts(w)
    <3>1. PICK c \in Proc, r \in SUBSET Proc : InletAbortsDoes(w, c, r)
      BY <2>6, InletAbortsEffect
    <3>2. pc' = pc /\ cl' = cl /\ pc[w] \in PollPC
      BY <3>1 DEF InletAbortsDoes
    <3>3. pc[w] \notin PolledPC /\ pc[w] # "handlerSwap"
      BY <3>2 DEF PollPC, PolledPC, SyncedPC
    <3>4. CASE \E k \in Proc : InletSplits(w, c, k)
      BY <1>a, <3>2, <3>3, <3>4 DEF InletSplits, Types
    <3>5. CASE deque' = deque /\ H' = H
      BY <1>c, <3>2, <3>3, <3>5 DEF Swaps, Bottom
    <3>q. QED
      BY <3>1, <3>4, <3>5 DEF InletAbortsDoes
  <2>7. CASE /\ InletKilled(w) \/ InletRuns(w) \/ WalkDown(w) \/ WalkUp(w)
             /\ UNCHANGED <<pc, cl, deque, H>>
    <3>1. ~ReturnEnqueue(w) /\ ~CilkExit(w)
      BY <1>a, <2>7 DEF ReturnEnqueue, CilkExit, Goto, PolledPC, SyncedPC, Types
    <3>2. pc'[w] \in PolledPC => complete'[Bottom(w)] = <<>>
      BY <1>4, <1>c, <1>p, <2>7, <3>1, InletSteps
    <3>q. QED
      BY <1>c, <2>7, <3>2 DEF Bottom, Swaps
  <2>q. QED
    BY <1>4, <1>a, <2>1, <2>2, <2>3, <2>4, <2>5, <2>6, <2>7, PolledSteps
<1>5. ASSUME NEW w \in Worker, Step(w) PROVE CompleteInv'
  <2>1. \A p \in Proc : Waits(p)'
    BY <1>1, <1>5 DEF Waits
  <2>2. ASSUME NEW u \in Worker
        PROVE  /\ pc'[u] \in PolledPC => complete'[Bottom(u)'] = <<>>
               /\ Swaps(u)' => H'[u] >= 1
    BY <1>2, <1>3, <1>4, <1>5
  <2>q. QED
    BY <2>1, <2>2 DEF CompleteInv
<1>6. ASSUME UNCHANGED vars PROVE CompleteInv'
  BY <1>6 DEF CompleteInv, Waits, ExitPolls, Swaps, Bottom, vars
<1>q. QED
  BY <1>5, <1>6 DEF Next, Terminated

(* A worker is told no more than it was when it sets up a closure, or goes *)
(* on after it has handled the exception.                                  *)
LEMMA SignalSteps ==
    ASSUME IInv, NEW w \in Worker, Step(w), NEW u \in Worker, signalled[u], ~signalled'[u]
    PROVE  u = w /\ (Setup(w) \/ HandlerStolen(w) \/ HandlerResume(w))
<1>a. signalled \in [Worker -> BOOLEAN]
  BY DEF IInv, Types
<1> USE DEF caches
<1>1. CASE \/ LeaveScheduler(w) \/ TakeOwn(w) \/ StealLockDeque(w) \/ StealLockClosure(w)
           \/ StealGiveUp(w) \/ StealUnlockDeque(w) \/ StealReady(w) \/ StealPromote(w)
           \/ StealFinish(w) \/ InletKilled(w) \/ InletRuns(w) \/ WalkUp(w)
           \/ AbortReadyClosure(w) \/ SetupDone(w) \/ Execute(w) \/ ReturnLockParent(w)
           \/ ReturnDone(w) \/ Spawn(w) \/ ReturnFast(w) \/ PopResult(w) \/ LockOwnDeque(w)
  BY <1>1 DEF LeaveScheduler, TakeOwn, StealLockDeque, StealLockClosure,
     StealGiveUp, StealUnlockDeque, StealReady, StealPromote, StealFinish, InletKilled, InletRuns,
     WalkUp, AbortReadyClosure, SetupDone, Execute, ReturnLockParent, ReturnDone, Spawn,
     ReturnFast, PopResult, LockOwnDeque
<1>2. CASE \/ Sync(w) \/ AbortSlow(w) \/ SetResult(w) \/ Done(w) \/ RemoveAndFree(w)
           \/ CilkExitDone(w) \/ HandlerPolled(w) \/ HandlerSwap(w)
  BY <1>2 DEF Sync, AbortSlow, SetResult, Done, RemoveAndFree, CilkExitDone, HandlerPolled,
     HandlerSwap
<1>3. CASE \/ InletAborts(w) \/ WalkDown(w) \/ ReturnEnqueue(w) \/ LockBottom(w)
           \/ CilkExit(w) \/ HandlerAbort(w)
  BY <1>a, <1>3 DEF InletAborts, WalkDown, ReturnEnqueue, LockBottom, CilkExit, HandlerAbort,
     Visit, SignalImmediate
<1>4. CASE Setup(w) \/ HandlerStolen(w) \/ HandlerResume(w)
  BY <1>a, <1>4 DEF Setup, HandlerStolen, HandlerResume
<1>q. QED
  BY <1>1, <1>2, <1>3, <1>4 DEF Step

(* Whoever marks a running closure, or has an inlet for it, tells its     *)
(* worker.                                                                *)
LEMMA Tells ==
    ASSUME IInv, NEW w \in Worker, Step(w), NEW c \in Proc, NEW u \in Worker,
           status[c] = "RUNNING", cache[c] = u,
           \/ complete[c] = <<>> /\ complete'[c] # <<>>
           \/ abort[c] # ABORT_ALL /\ abort'[c] = ABORT_ALL
    PROVE  signalled'[u]
<1>a. /\ signalled \in [Worker -> BOOLEAN]
      /\ abort \in [Proc -> {ABORT_ALL, ALMOST_NO_ABORT, NO_ABORT}]
  BY DEF IInv, Types
<1>1. CASE complete[c] = <<>> /\ complete'[c] # <<>>
  <2>1. (ReturnEnqueue(w) /\ c = cl[w]) \/ (CilkExit(w) /\ c = Root)
    BY <1>1, InletSteps
  <2>q. QED
    BY <1>a, <2>1 DEF ReturnEnqueue, CilkExit, SignalImmediate
<1>2. CASE abort[c] # ABORT_ALL /\ abort'[c] = ABORT_ALL
  <2>1. WalkDown(w) \/ InletAborts(w) \/ LockBottom(w)
    BY <1>2, AbortSteps
  <2>2. ~LockBottom(w)
    BY <1>2, LockBottomEffect DEF LockBottomDoes
  <2>3. ~InletAborts(w)
    <3>1. ASSUME NEW d \in Proc, NEW r, InletAbortsDoes(w, d, r) PROVE FALSE
      BY <1>a, <1>2, <3>1 DEF InletAbortsDoes, ABORT_ALL, ALMOST_NO_ABORT
    <3>q. QED
      BY <3>1, InletAbortsEffect
  <2>4. ASSUME NEW n \in Nat \ {0}, NEW k \in Proc, WalkDownDoes(w, n, k) PROVE signalled'[u]
    BY <1>a, <1>2, <2>4 DEF WalkDownDoes
  <2>q. QED
    BY <2>1, <2>2, <2>3, <2>4, WalkDownEffect
<1>q. QED
  BY <1>1, <1>2

(* Word of an abort or of an inlet is not lost before the worker acts on  *)
(* it: a worker that is not told any more has nothing to be told of.      *)
LEMMA SignalInvStep ==
    ASSUME IInv, TreeInv, ReachInv, CompleteInv, SignalInv, [Next]_vars
    PROVE  SignalInv'
<1>a. Types /\ Types' /\ IInv'
  BY NextIInv DEF IInv
<1>s. \A u \in Worker, c \in Proc : Runs(u, c) =>
         /\ complete[c] # <<>> => signalled[u]
         /\ abort[c] = ABORT_ALL => signalled[u] \/ H[u] >= T(u)
  BY DEF SignalInv
<1>t. \A u \in Worker : pc[u] \in WorkPC \cup {"add"} =>
         /\ H[u] \in Nat /\ T(u) \in Nat
         /\ pc[u] = "add" => T(u) = 1 /\ H[u] = 0
  BY StackFacts DEF IInv, StackInv
<1>k. ASSUME NEW w \in Worker, Step(w), NEW u \in Worker, NEW c \in Proc, Runs(u, c),
             signalled[u] => signalled'[u], H[u] >= T(u) => H'[u] >= T(u)'
      PROVE  /\ complete'[c] # <<>> => signalled'[u]
             /\ abort'[c] = ABORT_ALL => signalled'[u] \/ H'[u] >= T(u)'
  <2>1. status[c] = "RUNNING" /\ cache[c] = u
    BY <1>k, WorkFacts, SetupFacts DEF Runs
  <2>q. QED
    BY <1>k, <1>s, <2>1, Tells
<1>r. ASSUME NEW w \in Worker, Step(w), NEW u \in Worker, NEW c \in Proc,
             status'[c] = "RUNNING",
             (pc[u] \in WorkPC /\ c = Bottom(u)) \/ (pc[u] = "add" /\ c = cl[u])
      PROVE  Runs(u, c)
  <2>1. status[c] \in {"RUNNING", "RETURNING"}
    BY <1>r, WorkFacts, SetupFacts
  <2>q. QED
    BY <1>r, <2>1, StatusSteps DEF Lives, Runs
<1>f. ASSUME NEW c \in Proc, NEW k \in Proc, NEW u \in Worker, Runs(u, c)', c = k,
             status[k] = "none", Fresh(k), complete'[k] = complete[k], abort'[k] = abort[k]
      PROVE  complete'[c] = <<>> /\ abort'[c] # ABORT_ALL
  BY <1>f DEF Fresh, ReachInv, ABORT_ALL, NO_ABORT
<1>1. ASSUME NEW w \in Worker, Step(w), NEW u \in Worker \ {w}, NEW c \in Proc, Runs(u, c)'
      PROVE  /\ complete'[c] # <<>> => signalled'[u]
             /\ abort'[c] = ABORT_ALL => signalled'[u] \/ H'[u] >= T(u)'
  <2>1. pc'[u] = pc[u] /\ cl'[u] = cl[u] /\ T(u)' = T(u)
    BY <1>1, <1>a, OthersStay DEF T
  <2>2. signalled[u] => signalled'[u]
    BY <1>1, SignalSteps
  <2>3. CASE pc[u] = "add"
    <3>1. Runs(u, c) /\ ~(H[u] >= T(u))
      BY <1>1, <1>r, <1>t, <2>1, <2>3 DEF Runs, WorkPC, PopPC, SlowPC
    <3>q. QED
      BY <1>1, <1>k, <2>2, <3>1
  <2>4. CASE pc[u] \in WorkPC
    <3>1. c = Bottom(u)' /\ status'[c] = "RUNNING"
      BY <1>1, <2>1, <2>4 DEF Runs, WorkPC, PopPC, SlowPC
    <3>2. CASE H'[u] = H[u] /\ Bottom(u)' = Bottom(u)
      <4>1. Runs(u, c)
        BY <1>1, <1>r, <2>4, <3>1, <3>2
      <4>q. QED
        BY <1>1, <1>k, <2>1, <2>2, <3>2, <4>1
    <3>3. ASSUME NEW d \in Proc, NEW k \in Proc, StealPromoteDoes(w, u, d, k)
          PROVE  complete'[c] = <<>> /\ abort'[c] # ABORT_ALL
      <4>1. /\ status[k] = "none" /\ Fresh(k) /\ complete' = complete /\ abort' = abort
            /\ deque'[u] = <<k>>
        BY <1>a, <3>3 DEF StealPromoteDoes, Types
      <4>2. c = k
        BY <3>1, <4>1 DEF Bottom
      <4>q. QED
        BY <1>1, <1>f, <4>1, <4>2
    <3>q. QED
      BY <1>1, <2>4, <3>2, <3>3, WorkStays
  <2>q. QED
    BY <1>1, <2>1, <2>3, <2>4 DEF Runs
<1>2. ASSUME NEW w \in Worker, Step(w), NEW c \in Proc, Runs(w, c)'
      PROVE  /\ complete'[c] # <<>> => signalled'[w]
             /\ abort'[c] = ABORT_ALL => signalled'[w] \/ H'[w] >= T(w)'
  <2>s. status'[c] = "RUNNING"
    BY <1>2 DEF Runs
  <2>m. ASSUME (pc[w] \in WorkPC /\ c = Bottom(w)) \/ (pc[w] = "add" /\ c = cl[w]),
               ~HandlerStolen(w), ~HandlerResume(w), H[w] >= T(w) => H'[w] >= T(w)'
        PROVE  /\ complete'[c] # <<>> => signalled'[w]
               /\ abort'[c] = ABORT_ALL => signalled'[w] \/ H'[w] >= T(w)'
    <3>1. ~Setup(w)
      BY <2>m DEF Setup, WorkPC, PopPC, SlowPC
    <3>q. QED
      BY <1>2, <1>k, <1>r, <2>m, <2>s, <3>1, SignalSteps
  <2>1. CASE \/ LeaveScheduler(w) \/ TakeOwn(w) \/ StealLockDeque(w) \/ StealLockClosure(w)
             \/ StealGiveUp(w) \/ StealUnlockDeque(w) \/ StealReady(w) \/ StealPromote(w)
             \/ StealFinish(w) \/ AbortReadyClosure(w) \/ Setup(w) \/ ReturnLockParent(w)
             \/ ReturnEnqueue(w) \/ ReturnDone(w) \/ SetResult(w) \/ RemoveAndFree(w)
    <3>1. pc'[w] \in {"exit", "loop", "steal", "stealDeque", "stealClosure", "stealGiveUp",
                      "stealFinish", "setup", "returnChild", "return"}
      BY <1>a, <2>1 DEF LeaveScheduler, TakeOwn, StealLockDeque, StealLockClosure, StealGiveUp,
         StealUnlockDeque, StealReady, StealPromote, StealFinish, AbortReadyClosure, Setup,
         ReturnLockParent, ReturnEnqueue, ReturnDone, SetResult, RemoveAndFree, Goto, Types
    <3>q. QED
      BY <1>2, <3>1 DEF Runs, WorkPC, PopPC, SlowPC
  <2>2. CASE \/ PopResult(w) \/ LockOwnDeque(w) \/ AbortSlow(w) \/ Done(w) \/ CilkExit(w)
             \/ CilkExitDone(w) \/ HandlerPolled(w) \/ HandlerSwap(w) \/ LockBottom(w)
    <3>1. UNCHANGED <<deque, stack, H>> /\ pc[w] \in WorkPC /\ pc'[w] # "add"
      <4>p. pc \in [Worker -> PC]
        BY <1>a DEF Types
      <4>1. CASE PopResult(w) \/ LockOwnDeque(w) \/ AbortSlow(w)
        BY <4>p, <4>1 DEF PopResult, LockOwnDeque, SlowAborts, AbortSlow, Goto, caches, WorkPC,
           PopPC, SlowPC
      <4>2. CASE Done(w) \/ CilkExit(w) \/ CilkExitDone(w)
        BY <4>p, <4>2 DEF Done, AfterSync, CilkExit, CilkExitDone, Goto, caches, WorkPC,
           PopPC, SlowPC
      <4>3. CASE HandlerPolled(w) \/ HandlerSwap(w) \/ LockBottom(w)
        BY <4>p, <4>3 DEF HandlerPolled, HandlerSwap, LockBottom, Goto, caches, WorkPC,
           PopPC, SlowPC
      <4>q. QED
        BY <2>2, <4>1, <4>2, <4>3
    <3>2. ~HandlerStolen(w) /\ ~HandlerResume(w)
      <4>1. pc[w] # "handlerAct"
        BY <2>2 DEF PopResult, LockOwnDeque, SlowAborts, AbortSlow, Done, AfterSync,
           CilkExit, CilkExitDone, HandlerPolled, HandlerSwap, LockBottom
      <4>q. QED
        BY <4>1 DEF HandlerStolen, HandlerResume
    <3>q. QED
      BY <1>2, <2>m, <3>1, <3>2 DEF Runs, Bottom, T
  <2>3. CASE InletKilled(w) \/ InletRuns(w) \/ WalkDown(w) \/ WalkUp(w)
    <3>1. UNCHANGED <<deque, stack, H, pc, cl>>
      BY <2>3 DEF InletKilled, InletRuns, WalkDown, WalkUp, caches
    <3>2. ~HandlerStolen(w) /\ ~HandlerResume(w)
      BY <1>a, <3>1 DEF HandlerStolen, HandlerResume, Goto, Unwind, Types
    <3>q. QED
      BY <1>2, <2>m, <3>1, <3>2 DEF Runs, Bottom, T
  <2>4. CASE InletAborts(w)
    <3>1. PICK d \in Proc, r \in SUBSET Proc : InletAbortsDoes(w, d, r)
      BY <2>4, InletAbortsEffect
    <3>2. CASE \E k \in Proc : InletSplits(w, d, k)
      <4>1. PICK k \in Proc : InletSplits(w, d, k)
        BY <3>2
      <4>2. /\ pc'[w] \in WorkPC /\ deque'[w] = Append(deque[w], k) /\ pc'[w] # "add"
            /\ status[k] = "none" /\ Fresh(k) /\ k # d
            /\ complete'[k] = complete[k] /\ abort'[k] = abort[k]
        BY <1>a, <3>1, <4>1 DEF InletAbortsDoes, InletSplits, Types, WorkPC, PopPC
      <4>3. c = k
        BY <1>2, <1>a, <4>2, AppendFacts DEF Runs, Bottom, Size, Types
      <4>q. QED
        BY <1>2, <1>f, <4>2, <4>3
    <3>3. CASE deque' = deque /\ H' = H
      <4>1. UNCHANGED <<pc, cl, stack>> /\ pc[w] \in PollPC
        BY <3>1 DEF InletAbortsDoes
      <4>2. ~HandlerStolen(w) /\ ~HandlerResume(w)
        BY <4>1 DEF HandlerStolen, HandlerResume, PollPC
      <4>q. QED
        BY <1>2, <2>m, <3>3, <4>1, <4>2 DEF Runs, Bottom, T
    <3>q. QED
      BY <3>1, <3>2, <3>3 DEF InletAbortsDoes
  <2>5. CASE SetupDone(w)
    <3>1. /\ pc[w] = "setup" /\ pc'[w] = "add" /\ cl' = cl /\ Polled(w) /\ complete' = complete
          /\ abort' = [abort EXCEPT ![cl[w]] = IF @ = ABORT_ALL THEN @ ELSE NO_ABORT]
      BY <1>a, <2>5 DEF SetupDone, MaybeResetAbort, Goto, Types, tree
    <3>2. c = cl[w]
      BY <1>2, <3>1 DEF Runs, WorkPC, PopPC, SlowPC
    <3>3. complete[c] = <<>> /\ abort[c] # ABORT_ALL
      BY <3>1, <3>2 DEF Polled, Polls, ReachInv
    <3>q. QED
      BY <1>a, <3>1, <3>2, <3>3 DEF Types, ABORT_ALL, NO_ABORT
  <2>6. CASE Execute(w)
    <3>1. PICK d \in Proc : ExecuteDoes(w, d)
      BY <2>6, ExecuteEffect
    <3>2. /\ d = cl[w] /\ pc[w] = "add" /\ pc'[w] = "run" /\ H' = H /\ stack' = stack
          /\ deque'[w] \in Seq(Proc) /\ deque'[w] # <<>>
          /\ Size(deque'[w]) = Size(deque[w]) + 1 /\ deque'[w][Size(deque[w]) + 1] = d
      BY <1>a, <3>1 DEF ExecuteDoes, Extended, Types
    <3>3. c = d
      BY <1>2, <3>2 DEF Runs, Bottom, Size
    <3>4. ~HandlerStolen(w) /\ ~HandlerResume(w)
      BY <3>2 DEF HandlerStolen, HandlerResume
    <3>q. QED
      BY <2>m, <3>2, <3>3, <3>4 DEF T
  <2>7. CASE Spawn(w) \/ ReturnFast(w)
    <3>1. /\ pc[w] \in {"run", "synced"} /\ pc'[w] # "add" /\ UNCHANGED <<deque, H>>
      BY <1>a, <2>7 DEF Spawn, ReturnFast, Goto, Types
    <3>2. pc[w] \in WorkPC /\ H[w] < T(w) /\ ~HandlerStolen(w) /\ ~HandlerResume(w)
      BY <3>1, <1>t DEF WorkPC, SlowPC, IInv, StackInv, HandlerStolen, HandlerResume
    <3>q. QED
      BY <1>2, <1>t, <2>m, <3>1, <3>2 DEF Runs, Bottom
  <2>8. CASE Sync(w)
    <3>1. PICK d \in Proc : SyncDoes(w, d)
      BY <2>8, SyncEffect
    <3>2. CASE pc' = [pc EXCEPT ![w] = "loop"]
      BY <1>2, <1>a, <3>2 DEF Runs, Types, WorkPC, PopPC, SlowPC
    <3>3. CASE pc' = [pc EXCEPT ![w] = "synced"] /\ UNCHANGED <<status, deque, stack>>
      <4>1. pc[w] = "syncPoll" /\ pc'[w] = "synced" /\ H' = H
        BY <1>a, <3>1, <3>3 DEF SyncDoes, Types
      <4>2. pc[w] \in WorkPC /\ ~HandlerStolen(w) /\ ~HandlerResume(w)
        BY <4>1 DEF WorkPC, SlowPC, HandlerStolen, HandlerResume
      <4>q. QED
        BY <1>2, <2>m, <3>3, <4>1, <4>2 DEF Runs, Bottom, T
    <3>q. QED
      BY <3>1, <3>2, <3>3 DEF SyncDoes
  <2>9. CASE HandlerStolen(w)
    <3>1. PICK d \in Proc : HandlerStolenDoes(w, d)
      BY <2>9, HandlerStolenEffect
    <3>2. /\ d = Bottom(w) /\ deque' = deque /\ status'[d] = "RETURNING" /\ pc'[w] # "add"
      BY <1>a, <3>1 DEF HandlerStolenDoes, Types
    <3>q. QED
      BY <1>2, <3>2 DEF Runs, Bottom
  <2>10. CASE HandlerAbort(w)
    BY <1>a, <2>10 DEF HandlerAbort, Types
  <2>11. CASE HandlerResume(w)
    <3>1. /\ pc[w] = "handlerAct" /\ pc'[w] # "add" /\ abort[cl[w]] = NO_ABORT /\ cl[w] = Bottom(w)
          /\ UNCHANGED <<deque, complete>>
          /\ abort' = [abort EXCEPT ![cl[w]] = IF @ = ABORT_ALL THEN @ ELSE NO_ABORT]
      BY <1>a, <2>11 DEF HandlerResume, BeingAborted, MaybeResetAbort, Goto, tree, Types, IInv,
         InHandInv
    <3>2. c = cl[w]
      BY <1>2, <3>1 DEF Runs, Bottom
    <3>3. complete[c] = <<>>
      BY <3>1, <3>2 DEF CompleteInv, PolledPC
    <3>q. QED
      BY <1>a, <3>1, <3>2, <3>3 DEF Types, ABORT_ALL, NO_ABORT
  <2>q. QED
    BY <1>2, <2>1, <2>2, <2>3, <2>4, <2>5, <2>6, <2>7, <2>8, <2>9, <2>10, <2>11 DEF Step
<1>3. ASSUME UNCHANGED vars PROVE SignalInv'
  BY <1>3 DEF SignalInv, Runs, Bottom, T, vars
<1>q. QED
  BY <1>1, <1>2, <1>3 DEF Next, Terminated, SignalInv

(* The inductive invariant of results, beside the two others.              *)
ResultInv == ReachInv /\ CompleteInv /\ SignalInv

(* It holds at first, when there are no results.                           *)
LEMMA InitResultInv == Init => ResultInv
<1> SUFFICES ASSUME Init PROVE ResultInv
  OBVIOUS
<1>a. IInv
  BY InitIInv
<1>1. ReachInv
  BY DEF ReachInv, Init, ABORT_ALL, NO_ABORT
<1>2. CompleteInv
  BY DEF CompleteInv, Waits, Swaps, PolledPC, SyncedPC, Init
<1>3. SignalInv
  BY DEF SignalInv, Runs, Init, Root
<1>q. QED
  BY <1>1, <1>2, <1>3 DEF ResultInv

(* And with the two others in every state.                                 *)
THEOREM ResultInvariant == Spec => [](IInv /\ TreeInv /\ ResultInv)
<1>1. IInv /\ TreeInv /\ ResultInv /\ [Next]_vars => ResultInv'
  BY ReachInvStep, CompleteInvStep, SignalInvStep DEF ResultInv
<1>q. QED
  BY <1>1, InitResultInv, TreeInvariant, PTL DEF Spec

(* A running closure that is not locked, and its worker.                   *)
LEMMA RunsSomewhere ==
    ASSUME IInv, NEW c \in Proc, status[c] = "RUNNING", clock[c] = None
    PROVE  \E w \in Worker : Runs(w, c) /\ cache[c] = w
BY RunningFacts DEF Runs

(* A closure with inlets waiting has a frame for them, and a worker that  *)
(* knows of them if it runs; a suspended one is counted for by a child    *)
(* that will come back (complete_and_enque_inlet, Cilk_exit).             *)
THEOREM NobodyForgottenHolds == Spec => []NobodyForgotten
<1>1. ASSUME IInv, TreeInv, ResultInv PROVE NobodyForgotten
  <2> SUFFICES ASSUME NEW c \in Proc, Unlocked(c)
               PROVE  /\ complete[c] # <<>> =>
                            /\ status[c] = "RUNNING" => signalled[cache[c]]
                            /\ status[c] \in {"READY", "RUNNING", "SUSPENDED"} /\ c \in alive
                      /\ status[c] = "SUSPENDED" => join[c] > 0
    BY DEF NobodyForgotten
  <2>1. status[c] = "SUSPENDED" => join[c] > 0
    <3>1. join[c] \in Nat /\ (status[c] = "SUSPENDED" => join[c] # 0)
      BY <1>1 DEF TreeInv, CountInv, JoinInv, JoinFits
    <3>q. QED
      BY <3>1
  <2>2. complete[c] # <<>> => status[c] \in {"READY", "RUNNING", "SUSPENDED"}
    BY <1>1 DEF ResultInv, CompleteInv, Waits
  <2>3. status[c] = "RUNNING" /\ complete[c] # <<>> => signalled[cache[c]]
    BY <1>1, RunsSomewhere DEF Unlocked, ResultInv, SignalInv
  <2>4. ASSUME complete[c] # <<>> PROVE c \in alive
    <3>1. CASE status[c] = "RUNNING"
      <4>1. PICK w \in Worker : Runs(w, c)
        BY <1>1, <3>1, RunsSomewhere DEF Unlocked
      <4>2. CASE pc[w] = "add" /\ c = cl[w]
        BY <1>1, <4>2 DEF TreeInv, AliveInv
      <4>3. CASE pc[w] \in WorkPC /\ c = Bottom(w)
        <5>1. ~(H[w] >= 1)
          BY <1>1, <2>4, <4>3 DEF IInv, FreshInv, Fresh
        <5>2. H[w] < T(w)
          BY <1>1, <4>3, <5>1, WorkFacts
        <5>q. QED
          BY <1>1, <4>3, <5>2 DEF TreeInv, AliveInv
      <4>q. QED
        BY <4>1, <4>2, <4>3 DEF Runs
    <3>2. CASE status[c] \in {"READY", "SUSPENDED"}
      BY <1>1, <3>2 DEF TreeInv, AliveInv
    <3>q. QED
      BY <2>2, <2>4, <3>1, <3>2
  <2>q. QED
    BY <2>1, <2>2, <2>3, <2>4
<1>q. QED
  BY <1>1, ResultInvariant, PTL

(* An abort has reached the children of every closure that is not locked, *)
(* and the worker of each that runs; no mark of the walk is left behind   *)
(* (signal_abort, recursively_signal_abort).                              *)
THEOREM AbortReachesHolds == Spec => []AbortReaches
<1>1. ASSUME IInv, TreeInv, ResultInv PROVE AbortReaches
  <2> SUFFICES ASSUME NEW c \in Proc, Unlocked(c)
               PROVE  /\ abort[c] # ALMOST_NO_ABORT
                      /\ abort[c] = ABORT_ALL /\ Live(c) =>
                            /\ status[c] = "RUNNING" => signalled[cache[c]] \/ Stolen(cache[c])
                            /\ \A k \in incomplete[c] : abort[k] = ABORT_ALL
    BY DEF AbortReaches
  <2>u. \A w \in Worker : clock[c] # w
    BY WorkerAssumption DEF Unlocked, None
  <2>1. abort[c] # ALMOST_NO_ABORT
    BY <1>1, <2>u, AlmostLocked
  <2>2. status[c] = "RUNNING" /\ abort[c] = ABORT_ALL => signalled[cache[c]] \/ Stolen(cache[c])
    BY <1>1, RunsSomewhere DEF Unlocked, ResultInv, SignalInv, Stolen
  <2>3. ASSUME NEW k, ToVisit(c, k) PROVE FALSE
    <3>1. PICK w \in Worker : \E i \in 1 .. Size(walk[w]) : walk[w][i].at = c
      BY <2>3 DEF ToVisit
    <3>2. PICK i \in 1 .. Size(walk[w]) : walk[w][i].at = c
      BY <3>1
    <3>3. walk[w] # <<>> /\ Size(walk[w]) \in Nat
      BY <1>1, WalkFacts DEF IInv
    <3>4. i # 1
      <4>1. walk[w][1].at = cl[w] /\ pc[w] \in LockPC
        BY <1>1, <3>3 DEF IInv, WalkInv, PollPC, LockPC
      <4>q. QED
        BY <1>1, <2>u, <3>2, <4>1, LockFacts
    <3>5. i \in 2 .. Size(walk[w])
      BY <3>3, <3>4
    <3>q. QED
      BY <1>1, <2>u, <3>2, <3>5 DEF IInv, ClosureLocks, HoldsClosure
  <2>4. abort[c] = ABORT_ALL => \A k \in incomplete[c] : abort[k] = ABORT_ALL
    BY <1>1, <2>3 DEF ResultInv, ReachInv
  <2>q. QED
    BY <2>1, <2>2, <2>4
<1>q. QED
  BY <1>1, ResultInvariant, PTL

(***************************************************************************)
(* Outcomes. A fourth inductive invariant: where a frame is, and its result *)
(* from the spawn of the procedure until it is delivered or discarded.      *)
(***************************************************************************)

(* A frame is on a stack above those of closures; a result was popped with *)
(* its frame, or waits for an inlet of the parent; a closure is being      *)
(* returned, or was.                                                       *)
Above(w, f) == \E i \in H[w] + 2 .. T(w) : stack[w][i] = f
Framed(f) == \E w \in Worker : Above(w, f)
Pops(w, k) == pc[w] \in PopPC /\ child[w] = k
Popped(k) == \E w \in Worker : Pops(w, k)
Waiting(p, k) == \E i \in 1 .. Size(complete[p]) : complete[p][i] = k
Once(p, k) == \A i, j \in 1 .. Size(complete[p]) :
                 complete[p][i] = k /\ complete[p][j] = k => i = j
Delivers(w, k) == pc[w] = "return" /\ child[w] = k
Returned(k) == status[k] = "freed" \/ \E w \in Worker : Delivers(w, k)

(* A frame that is there has no result yet; it is that of a closure, or on *)
(* a stack above the frames of closures.                                   *)
FrameInv ==
    /\ \A f \in alive : /\ f <= created /\ out[f] = "pending" /\ ~Over(f)
                        /\ Live(f) \/ Framed(f)
    /\ \A f \in Proc : out[f] # "pending" => f <= created
    /\ \A w \in Worker : pc[w] \in PopPC => child[w] \notin alive

(* The result of a frame that is gone is on its way until it is settled.   *)
PendingInv ==
    /\ \A k \in Proc \ {Root} : k <= created /\ out[k] = "pending" =>
          k \in alive \/ Popped(k) \/ status[k] = "RETURNING" \/ Waiting(parent[k], k)
    /\ \A w \in Worker : pc[w] = "return" =>
          out[child[w]] # "pending" \/ Waiting(cl[w], child[w])

(* What waits for an inlet: results of children that have returned, once.  *)
EntryInv ==
    \A p, k \in Proc : Waiting(p, k) =>
        parent[k] = p /\ out[k] = "pending" /\ Returned(k) /\ Once(p, k)

(* A result on its way goes to the frame that spawned it, and it is not   *)
(* settled, unless it was discarded because its closure is being aborted, *)
(* which its worker will see.                                             *)
Lost(k, c) == out[k] = "discarded" /\ abort[c] = ABORT_ALL
OnWay(w) ==
    /\ pc[w] \in PopPC /\ child[w] # None /\ H[w] < T(w) =>
          /\ parent[child[w]] = Running(w)
          /\ out[child[w]] = "pending" \/ (Lost(child[w], Bottom(w)) /\ signalled[w])
    /\ pc[w] \in PopPC /\ H[w] = T(w) /\ status[Bottom(w)] = "RUNNING" =>
          out[child[w]] = "pending"
WayInv ==
    /\ \A w \in Worker : OnWay(w)
    /\ \A k \in Proc : status[k] = "RETURNING" =>
          out[k] = "pending" \/ Lost(k, k) \/ Returned(k)

(* A frame that is gone waits for no result.                               *)
GoneInv == \A f \in Proc : f <= created /\ f \notin alive => NoPendingChild(f)

(* Without an abort nothing is discarded, marked or visited.               *)
QuietInv ==
    aborts = 0 =>
        /\ \A f \in Proc : /\ out[f] # "discarded" /\ abort[f] = NO_ABORT
                           /\ ~Waiting(f, None)
        /\ \A w \in Worker : walk[w] = <<>> /\ pc[w] # "abort"

(* done is set by the worker that is past the sync of invoke_main.         *)
DoneInv == done => status[Root] = "freed" \/ \E w \in Worker : pc[w] = "rootEnd"

(* The inductive invariant of outcomes, beside the three others.           *)
OutcomeInv == /\ FrameInv /\ PendingInv /\ EntryInv /\ WayInv /\ GoneInv /\ QuietInv
              /\ DoneInv

(* A poll takes the first of the inlets that wait.                         *)
LEMMA TakeFacts ==
    ASSUME Types, NEW c \in Proc, complete[c] # <<>>,
           complete' = [complete EXCEPT ![c] = Tail(@)], NEW p \in Proc, NEW k
    PROVE  /\ Waiting(p, k)' => Waiting(p, k)
           /\ Waiting(p, k) => Waiting(p, k)' \/ (p = c /\ k = Head(complete[c]))
           /\ Once(p, k) => Once(p, k)'
           /\ k = Head(complete[c]) /\ p = c /\ Once(p, k) => ~Waiting(p, k)'
<1>1. CASE p # c
  BY <1>1 DEF Types, Waiting, Once
<1>2. CASE p = c
  <2> DEFINE q == complete[c]  n == Size(q)  r == complete'[c]
  <2>1. q \in Seq(Proc \cup {None}) /\ r = Tail(q) /\ q # <<>>
    BY DEF Types
  <2> HIDE DEF q, r
  <2>2. /\ n \in Nat \ {0} /\ Head(q) = q[1] /\ Size(r) = n - 1
        /\ \A i \in 1 .. n - 1 : r[i] = q[i + 1]
    BY <2>1, HeadFacts
  <2> HIDE DEF n
  <2>3. ASSUME NEW i \in 1 .. Size(r) PROVE r[i] = q[i + 1] /\ i + 1 \in 1 .. n /\ i + 1 # 1
    BY <2>2
  <2>4. ASSUME NEW i \in 1 .. Size(r), r[i] = k PROVE \E j \in 1 .. n : q[j] = k
    BY <2>3, <2>4
  <2>5. ASSUME NEW i \in 1 .. n, q[i] = k
        PROVE  (\E j \in 1 .. Size(r) : r[j] = k) \/ k = Head(q)
    <3>1. CASE i = 1
      BY <2>2, <2>5, <3>1
    <3>2. CASE i # 1
      <4>1. i - 1 \in 1 .. Size(r) /\ i - 1 \in 1 .. n - 1 /\ i - 1 + 1 = i
        BY <2>2, <3>2
      <4>q. QED
        BY <2>2, <2>5, <4>1
    <3>q. QED
      BY <3>1, <3>2
  <2>6. ASSUME \A i, j \in 1 .. n : q[i] = k /\ q[j] = k => i = j,
               NEW i \in 1 .. Size(r), r[i] = k
        PROVE  (\A j \in 1 .. Size(r) : r[j] = k => i = j) /\ k # Head(q)
    <3>1. i + 1 \in 1 .. n /\ q[i + 1] = k /\ i + 1 # 1 /\ 1 \in 1 .. n
      BY <2>2, <2>3, <2>6
    <3>2. ASSUME NEW j \in 1 .. Size(r), r[j] = k PROVE i = j
      <4>1. j + 1 \in 1 .. n /\ q[j + 1] = k
        BY <2>3, <3>2
      <4>2. i + 1 = j + 1
        BY <2>6, <3>1, <4>1
      <4>q. QED
        BY <4>2
    <3>q. QED
      BY <2>2, <2>6, <3>1, <3>2
  <2>q. QED
    BY <1>2, <2>4, <2>5, <2>6 DEF Waiting, Once, q, r, n
<1>q. QED
  BY <1>1, <1>2

(* ConsFacts, with a name for the sequence.                                *)
Cons(e, q) == <<e>> \o q
LEMMA ConsIs ==
    ASSUME NEW S, NEW q \in Seq(S), NEW e \in S
    PROVE  /\ Size(Cons(e, q)) = Size(q) + 1 /\ Cons(e, q)[1] = e
           /\ \A i \in 2 .. Size(q) + 1 : Cons(e, q)[i] = q[i - 1]
<1>1. <<e>> \in Seq(S) /\ Len(<<e>>) = 1 /\ Len(q) \in Nat /\ <<e>>[1] = e
  BY SeqFacts DEF Size
<1>q. QED
  BY <1>1, ConcatProperties DEF Size, Cons

(* What waits, and how often, when e comes to wait at c.                   *)
PutSays(c, e, p, k) ==
    /\ Waiting(p, k)' <=> Waiting(p, k) \/ (p = c /\ k = e)
    /\ Once(p, k) /\ ~(p = c /\ k = e) => Once(p, k)'
    /\ p = c /\ k = e /\ ~Waiting(p, k) => Once(p, k)'

(* One that comes to wait is put before the others.                        *)
LEMMA PutIs ==
    ASSUME Types, NEW c \in Proc, NEW e \in Proc \cup {None},
           NEW x, x = Cons(e, complete[c]), complete' = [complete EXCEPT ![c] = x],
           NEW p \in Proc, NEW k
    PROVE  PutSays(c, e, p, k)
<1>1. CASE p # c
  BY <1>1 DEF Types, PutSays, Waiting, Once
<1>2. CASE p = c
  <2> DEFINE q == complete[c]  n == Size(q)  r == complete'[c]
  <2>1. q \in Seq(Proc \cup {None}) /\ r = Cons(e, q)
    BY DEF Types
  <2> HIDE DEF q, r
  <2>2. /\ n \in Nat /\ Size(r) = n + 1 /\ r[1] = e
        /\ \A i \in 2 .. n + 1 : r[i] = q[i - 1]
    <3> DEFINE S == Proc \cup {None}
    <3>1. q \in Seq(S) /\ e \in S
      BY <2>1
    <3> HIDE DEF S
    <3>2. /\ Size(r) = Size(q) + 1 /\ r[1] = e
          /\ \A i \in 2 .. Size(q) + 1 : r[i] = q[i - 1]
      BY <2>1, <3>1, ConsIs
    <3>3. Size(q) \in Nat
      BY <3>1, SeqFacts
    <3>q. QED
      BY <3>2, <3>3 DEF n
  <2> HIDE DEF n
  <2>3. ASSUME NEW i \in 1 .. Size(r), i # 1 PROVE r[i] = q[i - 1] /\ i - 1 \in 1 .. n
    BY <2>2, <2>3
  <2>4. ASSUME NEW i \in 1 .. Size(r), r[i] = k
        PROVE  (\E j \in 1 .. n : q[j] = k) \/ (k = e /\ i = 1)
    BY <2>2, <2>3, <2>4
  <2>5. ASSUME NEW i \in 1 .. n, q[i] = k PROVE \E j \in 1 .. Size(r) : r[j] = k
    <3>1. i + 1 \in 1 .. Size(r) /\ i + 1 # 1 /\ i + 1 - 1 = i
      BY <2>2
    <3>2. r[i + 1] = q[i + 1 - 1]
      BY <2>3, <3>1
    <3>q. QED
      BY <2>5, <3>1, <3>2
  <2>6. 1 \in 1 .. Size(r) /\ r[1] = e
    BY <2>2
  <2>7. ASSUME \A i, j \in 1 .. n : q[i] = k /\ q[j] = k => i = j, k # e,
               NEW i \in 1 .. Size(r), NEW j \in 1 .. Size(r), r[i] = k, r[j] = k
        PROVE  i = j
    <3>1. i # 1 /\ j # 1
      BY <2>6, <2>7
    <3>2. i - 1 = j - 1
      BY <2>3, <2>7, <3>1
    <3>q. QED
      BY <3>2
  <2>8. Waiting(p, k)' <=> Waiting(p, k) \/ k = e
    BY <1>2, <2>4, <2>5, <2>6 DEF Waiting, q, r, n
  <2>9. Once(p, k) /\ k # e => Once(p, k)'
    <3>1. Once(p, k) => \A i, j \in 1 .. n : q[i] = k /\ q[j] = k => i = j
      BY <1>2 DEF Once, q, n
    <3>2. (\A i, j \in 1 .. Size(r) : r[i] = k /\ r[j] = k => i = j) => Once(p, k)'
      BY <1>2 DEF Once, r
    <3>3. ASSUME Once(p, k), k # e
          PROVE  \A i, j \in 1 .. Size(r) : r[i] = k /\ r[j] = k => i = j
      BY <2>7, <3>1, <3>3
    <3>q. QED
      BY <3>2, <3>3
  <2>10. ~Waiting(p, k) => Once(p, k)'
    <3> SUFFICES ASSUME ~Waiting(p, k) PROVE \A i \in 1 .. Size(r) : r[i] = k => i = 1
      BY <1>2 DEF Once, r
    <3>q. QED
      BY <1>2, <2>4 DEF Waiting, q, n
  <2>q. QED
    BY <1>2, <2>8, <2>9, <2>10 DEF PutSays
<1>q. QED
  BY <1>1, <1>2

(* PutIs, as the actions say it.                                           *)
LEMMA PutFacts ==
    ASSUME Types, NEW c \in Proc, NEW e \in Proc \cup {None},
           complete' = [complete EXCEPT ![c] = <<e>> \o @], NEW p \in Proc, NEW k
    PROVE  /\ Waiting(p, k)' <=> Waiting(p, k) \/ (p = c /\ k = e)
           /\ Once(p, k) /\ ~(p = c /\ k = e) => Once(p, k)'
           /\ p = c /\ k = e /\ ~Waiting(p, k) => Once(p, k)'
<1> DEFINE x == <<e>> \o complete[c]
<1>1. x = Cons(e, complete[c]) /\ complete' = [complete EXCEPT ![c] = x]
  BY Zenon DEF Cons
<1> HIDE DEF x
<1>2. PutSays(c, e, p, k)
  BY <1>1, PutIs, Zenon
<1>q. QED
  BY <1>2, Zenon DEF PutSays

(* A frame above those of closures stays there, or it is promoted, or it  *)
(* is removed, as the top of its stack.                                   *)
LEMMA AboveSteps ==
    ASSUME IInv, TreeInv, NEW w \in Worker, Step(w), NEW u \in Worker, NEW f, Above(u, f)
    PROVE  Above(u, f)' \/ Live(f)' \/ f \notin alive'
<1>a. Types
  BY DEF IInv
<1>1. PICK i \in H[u] + 2 .. T(u) : stack[u][i] = f
  BY DEF Above
<1>2. H[u] \in Nat /\ T(u) \in Nat /\ i \in Nat /\ i <= T(u) /\ i >= H[u] + 2
  BY <1>a, <1>1, StackFacts
<1>3. pc[u] \in WorkPC /\ T(u) > H[u] + 1 /\ ~(T(u) = 1)
  <2>1. T(u) > H[u] + 1 /\ ~(T(u) = 1) /\ stack[u] # <<>>
    BY <1>a, <1>2, StackFacts
  <2>q. QED
    BY <2>1 DEF IInv, StackInv
<1> SUFFICES ASSUME H'[u] = H[u] => ~(i \in H'[u] + 2 .. T(u)' /\ stack'[u][i] = f)
             PROVE  Above(u, f)' \/ Live(f)' \/ f \notin alive'
  BY DEF Above
<1>4. CASE u # w
  <2>1. stack'[u] = stack[u]
    BY <1>a, <1>4, OthersStay
  <2>2. CASE H'[u] = H[u]
    BY <1>1, <2>1, <2>2 DEF T
  <2>3. CASE \E c \in Proc, k \in Proc : StealPromoteDoes(w, u, c, k)
    <3>1. PICK c \in Proc, k \in Proc : StealPromoteDoes(w, u, c, k)
      BY <2>3
    <3>2. H'[u] = H[u] + 1 /\ k = stack[u][H[u] + 2] /\ status'[k] = "RUNNING"
      BY <1>a, <3>1 DEF StealPromoteDoes, Types
    <3>3. i = H[u] + 2 => Live(f)'
      BY <1>1, <3>2 DEF Live
    <3>4. i # H[u] + 2 => i \in H'[u] + 2 .. T(u)
      BY <1>2, <3>2
    <3>q. QED
      BY <1>1, <2>1, <3>3, <3>4 DEF Above, T
  <2>q. QED
    BY <1>3, <1>4, <2>2, <2>3, WorkStays
<1>5. CASE u = w
  <2> USE <1>5 DEF WorkPC, PopPC, SlowPC, caches
  <2>1. CASE \/ LeaveScheduler(w) \/ TakeOwn(w) \/ StealLockDeque(w) \/ StealLockClosure(w)
             \/ StealGiveUp(w) \/ StealUnlockDeque(w) \/ StealReady(w) \/ StealPromote(w)
             \/ StealFinish(w) \/ AbortReadyClosure(w) \/ Setup(w) \/ SetupDone(w)
             \/ Execute(w) \/ ReturnLockParent(w) \/ ReturnEnqueue(w) \/ ReturnDone(w)
    BY <1>3, <2>1 DEF LeaveScheduler, TakeOwn, StealLockDeque, StealLockClosure, StealGiveUp,
       StealUnlockDeque, StealReady, StealPromote, StealFinish, AbortReadyClosure, Setup,
       SetupDone, Execute, ReturnLockParent, ReturnEnqueue, ReturnDone
  <2>2. CASE \/ InletKilled(w) \/ InletRuns(w) \/ WalkDown(w) \/ WalkUp(w) \/ PopResult(w)
             \/ LockOwnDeque(w) \/ LockBottom(w) \/ AbortSlow(w) \/ Done(w) \/ CilkExit(w)
             \/ CilkExitDone(w) \/ HandlerPolled(w) \/ HandlerSwap(w) \/ HandlerResume(w)
    <3>1. stack' = stack /\ H' = H
      BY <2>2 DEF InletKilled, InletRuns, WalkDown, WalkUp, PopResult, LockOwnDeque,
         LockBottom, AbortSlow, Done, CilkExit, CilkExitDone, HandlerPolled, HandlerSwap,
         HandlerResume
    <3>q. QED
      BY <1>1, <3>1 DEF T
  <2>3. CASE InletAborts(w)
    <3>1. PICK c \in Proc, r \in SUBSET Proc : InletAbortsDoes(w, c, r)
      BY <2>3, InletAbortsEffect
    <3>2. CASE H' = H
      BY <1>1, <3>1, <3>2 DEF T, InletAbortsDoes
    <3>3. ASSUME NEW k \in Proc, InletSplits(w, c, k) PROVE Above(u, f)' \/ Live(f)'
      <4>1. H[w] = 0 /\ H'[w] = 1 /\ k = stack[w][2] /\ status'[k] = "RUNNING" /\ stack' = stack
        BY <1>a, <3>1, <3>3 DEF InletSplits, Types, InletAbortsDoes
      <4>2. i = 2 => Live(f)'
        BY <1>1, <4>1 DEF Live
      <4>3. i # 2 => i \in H'[u] + 2 .. T(u)
        BY <1>2, <4>1
      <4>q. QED
        BY <1>1, <4>1, <4>2, <4>3 DEF Above, T
    <3>q. QED
      BY <3>1, <3>2, <3>3 DEF InletAbortsDoes
  <2>4. CASE Spawn(w)
    <3>1. \E c \in Proc, g \in Proc : SpawnDoes(w, c, g)
      BY <2>4, SpawnEffect
    <3>2. H' = H /\ T(w)' = T(w) + 1 /\ \A j \in 1 .. T(w) : stack'[w][j] = stack[w][j]
      BY <3>1 DEF SpawnDoes, Extended, T, Size
    <3>3. i \in 1 .. T(w) /\ i \in H[u] + 2 .. T(u)'
      BY <1>2, <3>2
    <3>q. QED
      BY <1>1, <3>2, <3>3
  <2>5. CASE ReturnFast(w) \/ HandlerAbort(w)
    <3>1. \/ \E g \in Proc : ReturnFastDoes(w, g)
          \/ \E c, g \in Proc : HandlerAbortDoes(w, c, g)
      BY <2>5, ReturnFastEffect, HandlerAbortEffect
    <3>2. H' = H /\ Shortened(stack, stack', w) /\ alive' = alive \ {stack[w][T(w)]}
      BY <1>2, <1>3, <3>1 DEF ReturnFastDoes, HandlerAbortDoes, AbortWaits, AbortReturns, AbortPops
    <3>3. i # T(w) => i \in 1 .. T(w) - 1 /\ i \in H[u] + 2 .. T(w) - 1
      BY <1>2
    <3>q. QED
      BY <1>1, <3>2, <3>3 DEF Shortened, T, Size
  <2>6. CASE \/ Sync(w) \/ SetResult(w) \/ RemoveAndFree(w) \/ HandlerStolen(w)
    BY <1>2, <1>3, <2>6 DEF Sync, SetResult, RemoveAndFree, HandlerStolen, Stolen, IInv, StackInv
  <2>q. QED
    BY <2>1, <2>2, <2>3, <2>4, <2>5, <2>6 DEF Step
<1>q. QED
  BY <1>4, <1>5

(* When a result is settled: by the poll for its inlet, with the frame    *)
(* that is given up or aborted, by the return of a child that is being    *)
(* aborted, or by the caller.                                             *)
Discards(w, d) == /\ pc[w] = "handlerAct" /\ H[w] < T(w) /\ abort[Bottom(w)] # NO_ABORT
                  /\ out'[d] = "discarded"
Settles(w, d) ==
    \/ \E c \in Proc : Takes(w, c) /\ d = Head(complete[c])
    \/ Abandons(w, d)
    \/ /\ pc[w] = "returnChild" /\ d = child[w] /\ pc'[w] = "return" /\ child'[w] = d
       /\ abort[d] # NO_ABORT /\ out'[d] = "discarded"
    \/ Pops(w, d) /\ H[w] < T(w) /\ (Receives(w) \/ Discards(w, d))
    \/ d = Running(w) /\ d \notin alive' /\ Discards(w, d)
LEMMA OutSteps ==
    ASSUME IInv, NEW w \in Worker, Step(w), NEW d \in Proc, out'[d] # out[d]
    PROVE  out'[d] # "pending" /\ Settles(w, d)
<1>a. Types
  BY DEF IInv
<1> USE DEF Outcome, Settles, Discards
<1>1. CASE \/ Still(w) \/ CilkExitDoes(w) \/ RemoveAndFreeDoes(w)
           \/ \E c \in Proc : \/ ReturnFastDoes(w, c) \/ SetResultDoes(w, c)
                              \/ HandlerStolenDoes(w, c)
           \/ \E c, f \in Proc : SpawnDoes(w, c, f)
  BY <1>1 DEF Still, CilkExitDoes, RemoveAndFreeDoes, ReturnFastDoes, SetResultDoes,
     HandlerStolenDoes, SpawnDoes
<1>2. ASSUME NEW c \in Proc, Takes(w, c) PROVE out'[d] # "pending" /\ Settles(w, d)
  <2>1. out'[d] # "pending" /\ d = Head(complete[c])
    BY <1>2 DEF Takes
  <2>q. QED
    BY <1>2, <2>1
<1>3. ASSUME NEW c \in Proc, Abandons(w, c) PROVE out'[d] # "pending" /\ Settles(w, d)
  <2>1. out'[d] # "pending" /\ d = c
    BY <1>3 DEF Abandons
  <2>q. QED
    BY <1>3, <2>1
<1>4. CASE Receives(w)
  BY <1>4 DEF Receives, Pops
<1>5. ASSUME NEW c \in Proc, NEW f \in Proc, ReturnEnqueueDoes(w, c, f)
      PROVE  out'[d] # "pending" /\ Settles(w, d)
  BY <1>a, <1>5 DEF ReturnEnqueueDoes, Types
<1>6. ASSUME NEW c \in Proc, NEW f \in Proc, HandlerAbortDoes(w, c, f)
      PROVE  out'[d] # "pending" /\ Settles(w, d)
  <2>1. /\ pc[w] = "handlerAct" /\ H[w] < T(w) /\ abort[Bottom(w)] # NO_ABORT
        /\ H[w] + 1 = T(w) => c = Running(w)
    BY <1>6 DEF HandlerAbortDoes, Running
  <2>2. out'[d] = "discarded" /\ (d = child[w] \/ (d = Running(w) /\ d \notin alive'))
    BY <1>6, <2>1 DEF HandlerAbortDoes, AbortWaits, AbortReturns, AbortPops, Running
  <2>q. QED
    BY <2>1, <2>2 DEF Pops, PopPC
<1>q. QED
  BY <1>1, <1>2, <1>3, <1>4, <1>5, <1>6, Kinds DEF Kind

(* What comes to be returned, or freed, has lost its frame.                *)
LEMMA FrameSteps ==
    ASSUME IInv, TreeInv, FrameInv, NEW w \in Worker, Step(w)
    PROVE  \A d \in Proc : Over(d)' => Over(d) \/ d \notin alive'
<1>a. Types
  BY DEF IInv
<1>1. CASE Still(w) \/ Receives(w) \/ CilkExitDoes(w) \/ (\E c \in Proc : Takes(w, c))
  BY <1>1 DEF Still, Receives, CilkExitDoes, Takes, Over
<1>2. CASE \/ RemoveAndFreeDoes(w)
           \/ \E c \in Proc : Abandons(w, c) \/ ReturnFastDoes(w, c) \/ SetResultDoes(w, c)
  BY <1>a, <1>2 DEF RemoveAndFreeDoes, Abandons, ReturnFastDoes, SetResultDoes, Over, Types
<1>3. CASE \E c \in Proc : HandlerStolenDoes(w, c)
  BY <1>a, <1>3 DEF HandlerStolenDoes, Over, Types, FrameInv, PopPC
<1>4. CASE \E c, f \in Proc : ReturnEnqueueDoes(w, c, f) \/ SpawnDoes(w, c, f)
  BY <1>4 DEF ReturnEnqueueDoes, SpawnDoes, Over
<1>5. CASE \E c, f \in Proc : HandlerAbortDoes(w, c, f)
  BY <1>a, <1>5 DEF HandlerAbortDoes, AbortWaits, AbortReturns, AbortPops, Over, Types
<1>q. QED
  BY <1>1, <1>2, <1>3, <1>4, <1>5, Kinds DEF Kind

(* What has a closure was spawned, and what has returned is over.          *)
LEMMA OverFacts ==
    ASSUME IInv, NEW k \in Proc
    PROVE  /\ status[k] # "none" => k <= created
           /\ Returned(k) => Over(k)
           /\ Over(k) => status[k] # "none" /\ status[k] # "READY"
<1>1. status[k] # "none" => k <= created
  BY SpawnedFirst
<1>2. Returned(k) => Over(k)
  BY DEF Returned, Delivers, Over, IInv, ChildInv, ReturnPC
<1>q. QED
  BY <1>1, <1>2 DEF Over

(* The first inlet of a poll waits.                                        *)
LEMMA HeadWaits ==
    ASSUME Types, NEW w \in Worker, NEW c \in Proc, Takes(w, c)
    PROVE  Waiting(c, Head(complete[c]))
<1>1. complete[c] \in Seq(Proc \cup {None}) /\ complete[c] # <<>>
  BY DEF Types, Takes
<1>2. 1 \in 1 .. Size(complete[c]) /\ complete[c][1] = Head(complete[c])
  BY <1>1, HeadFacts
<1>q. QED
  BY <1>2 DEF Waiting

(* A frame is removed only when it has no result yet, and is then no more *)
(* a closure's to run; what is popped was removed before.                 *)
LEMMA FrameInvStep ==
    ASSUME IInv, TreeInv, OutcomeInv, [Next]_vars
    PROVE  FrameInv'
<1>a. Types /\ FrameInv /\ EntryInv
  BY DEF IInv, OutcomeInv
<1>1. ASSUME NEW w \in Worker, Step(w) PROVE FrameInv'
  <2>1. ASSUME NEW f \in Proc, out'[f] # out[f], Over(f) => ~(f \in alive /\ f \in alive')
        PROVE  ~(f \in alive /\ f \in alive') /\ f <= created
    <3>1. Settles(w, f)
      BY <1>1, <2>1, OutSteps
    <3>2. CASE \E c \in Proc : Takes(w, c) /\ f = Head(complete[c])
      <4>1. Returned(f)
        BY <1>a, <3>2, HeadWaits DEF EntryInv
      <4>q. QED
        BY <2>1, <4>1, OverFacts
    <3>3. CASE Abandons(w, f)
      BY <3>3, OverFacts DEF Abandons
    <3>4. CASE pc[w] = "returnChild" /\ f = child[w]
      <4>1. Over(f)
        BY <3>4 DEF IInv, ChildInv, ReturnPC, Over
      <4>q. QED
        BY <2>1, <4>1, OverFacts
    <3>5. CASE Pops(w, f)
      <4>1. f \in 1 .. created
        BY <2>1, <3>5, WorkerAssumption, BoundAssumption DEF Pops, IInv, ChildInv, Proc, None
      <4>q. QED
        BY <1>a, <3>5, <4>1 DEF Pops, FrameInv
    <3>6. CASE pc[w] = "handlerAct" /\ f = Running(w) /\ f \notin alive'
      <4>1. T(w) \in 1 .. T(w)
        BY <3>6, WorkFacts DEF WorkPC, PopPC
      <4>2. stack[w][T(w)] \in 1 .. created
        BY <4>1 DEF IInv, StackInv
      <4>q. QED
        BY <3>6, <4>2 DEF Running
    <3>q. QED
      BY <3>1, <3>2, <3>3, <3>4, <3>5, <3>6 DEF Settles, Discards
  <2>2. /\ \/ created' = created /\ parent' = parent /\ alive' \subseteq alive
           \/ \E c, f \in Proc : SpawnDoes(w, c, f)
        /\ \A d \in Proc : Over(d)' => Over(d) \/ d \notin alive'
    BY <1>1, <1>a, FrameSteps, SpawnSteps
  <2>0. alive' \subseteq Proc
    BY <1>a, <2>2 DEF Types, SpawnDoes
  <2>3. created \in Nat /\ created' \in Nat /\ created' >= created
    BY <1>a, <2>2, BoundAssumption DEF Types, Proc, SpawnDoes
  <2>4. ASSUME NEW f \in Proc, f \in alive, f \in alive'
        PROVE  f <= created' /\ out'[f] = "pending" /\ ~Over(f)' /\ (Live(f)' \/ Framed(f)')
    <3>1. f <= created /\ out[f] = "pending" /\ ~Over(f) /\ (Live(f) \/ Framed(f))
      BY <1>a, <2>4 DEF FrameInv
    <3>2. out'[f] = "pending"
      BY <2>1, <2>4, <3>1
    <3>3. ~Over(f)'
      BY <2>2, <2>4, <3>1
    <3>4. Live(f) => Live(f)'
      BY <1>1, <3>3, StatusSteps DEF Lives, Live, Over
    <3>5. Framed(f) => Live(f)' \/ Framed(f)'
      BY <1>1, <2>4, AboveSteps DEF Framed
    <3>6. f <= created'
      BY <2>3, <2>4, <3>1, BoundAssumption DEF Proc
    <3>q. QED
      BY <3>1, <3>2, <3>3, <3>4, <3>5, <3>6
  <2>5. ASSUME NEW f \in alive', f \notin alive
        PROVE  f <= created' /\ out'[f] = "pending" /\ ~Over(f)' /\ (Live(f)' \/ Framed(f)')
    <3>1. PICK g \in Proc : SpawnDoes(w, f, g)
      BY <2>2, <2>5 DEF SpawnDoes
    <3>2. f = created + 1 /\ created' = f /\ out' = out /\ status' = status /\ H' = H
          /\ status[f] = "none" /\ Extended(stack, stack', w, f) /\ pc[w] \in {"run", "synced"}
      BY <3>1 DEF SpawnDoes
    <3>3. out[f] = "pending" /\ f \in Proc
      BY <1>a, <2>2, <2>3, <2>5, <3>2 DEF FrameInv, SpawnDoes
    <3>4. H[w] \in Nat /\ T(w) \in Nat /\ H[w] < T(w)
      BY <3>2, WorkFacts DEF IInv, StackInv, WorkPC, SlowPC
    <3>5. T(w)' = T(w) + 1 /\ stack'[w][T(w) + 1] = f
      BY <3>2 DEF Extended, T, Size
    <3>6. T(w) + 1 \in H'[w] + 2 .. T(w)'
      BY <3>2, <3>4, <3>5
    <3>7. Above(w, f)'
      BY <3>5, <3>6 DEF Above
    <3>q. QED
      BY <2>3, <3>2, <3>3, <3>7 DEF Framed, Over
  <2>6. ASSUME NEW f \in Proc, out'[f] # "pending" PROVE f <= created'
    <3>1. f <= created
      BY <1>a, <2>1, <2>2, <2>6 DEF FrameInv
    <3>q. QED
      BY <2>3, <3>1, BoundAssumption DEF Proc
  <2>7. ASSUME NEW u \in Worker, pc'[u] \in PopPC PROVE child'[u] \notin alive'
    <3>1. ASSUME pc[u] \in PopPC PROVE child[u] \notin alive'
      <4>1. child[u] \notin alive /\ (child[u] = None \/ child[u] \in 1 .. created)
        BY <1>a, <3>1 DEF FrameInv, IInv, ChildInv
      <4>2. child[u] # created + 1
        BY <2>3, <4>1 DEF None
      <4>q. QED
        BY <2>2, <4>1, <4>2 DEF SpawnDoes
    <3>2. CASE u # w
      BY <1>1, <1>a, <2>7, <3>1, <3>2, OthersStay
    <3>3. CASE u = w
      BY <1>1, <2>0, <2>7, <3>1, <3>3, PopSteps, BoundAssumption DEF Proc, None
    <3>q. QED
      BY <3>2, <3>3
  <2>q. QED
    BY <2>0, <2>4, <2>5, <2>6, <2>7 DEF FrameInv
<1>2. ASSUME UNCHANGED vars PROVE FrameInv'
  BY <1>a, <1>2 DEF FrameInv, vars, Over, Live, Framed, Above, T
<1>q. QED
  BY <1>1, <1>2 DEF Next, Terminated

(* The frame that a worker runs is there, and has no closure but the one  *)
(* that its worker works on.                                              *)
LEMMA RunningFrame ==
    ASSUME IInv, TreeInv, NEW w \in Worker, pc[w] \in WorkPC, H[w] < T(w)
    PROVE  /\ Running(w) \in alive /\ Running(w) \in Proc
           /\ \/ H[w] + 1 = T(w) /\ Running(w) = Bottom(w) /\ status[Running(w)] = "RUNNING"
              \/ H[w] + 1 < T(w) /\ Above(w, Running(w)) /\ status[Running(w)] = "none"
<1>1. H[w] \in Nat /\ T(w) \in Nat
  BY WorkFacts
<1>2. CASE H[w] + 1 = T(w)
  BY <1>1, <1>2, WorkFacts DEF TreeInv, AliveInv, Running
<1>3. CASE H[w] + 1 # T(w)
  <2>1. T(w) \in H[w] + 2 .. T(w) /\ H[w] + 1 < T(w)
    BY <1>1, <1>3
  <2>2. stack[w][T(w)] \in alive /\ status[stack[w][T(w)]] = "none"
    BY <2>1 DEF TreeInv, AliveInv, IInv, StackInv
  <2>q. QED
    BY <2>1, <2>2 DEF Above, Running, IInv, Types
<1>q. QED
  BY <1>2, <1>3

(* A return of a closure ends when the closure is freed.                   *)
LEMMA ReturnSteps ==
    ASSUME IInv, NEW w \in Worker, Step(w), NEW u \in Worker, pc[u] = "return"
    PROVE  \/ pc'[u] = "return" /\ cl'[u] = cl[u] /\ child'[u] = child[u]
           \/ /\ u = w /\ pc'[u] = "loop" /\ status'[child[u]] = "freed"
              /\ complete' = complete /\ out' = out
<1>a. Types
  BY DEF IInv
<1>1. CASE u # w
  BY <1>a, <1>1, OthersStay
<1>2. CASE u = w /\ ~ReturnDone(w)
  BY <1>a, <1>2 DEF Step, LeaveScheduler, TakeOwn, StealLockDeque, StealLockClosure,
     StealGiveUp, StealUnlockDeque, StealReady, StealPromote, StealFinish, InletKilled,
     InletRuns, InletAborts, WalkDown, WalkUp, AbortReadyClosure, Setup, SetupDone, Execute,
     ReturnLockParent, ReturnEnqueue, Spawn, ReturnFast, PopResult, LockOwnDeque, SlowAborts,
     LockBottom, Sync, AbortSlow, SetResult, Done, AfterSync, RemoveAndFree, CilkExit,
     CilkExitDone, HandlerPolled, HandlerSwap, HandlerStolen, HandlerAbort, HandlerResume
<1>3. CASE u = w /\ ReturnDone(w)
  <2>1. PICK k \in Proc, p \in Proc : ReturnDoneDoes(w, k, p)
    BY <1>3, ReturnDoneEffect
  <2>q. QED
    BY <1>a, <1>3, <2>1 DEF ReturnDoneDoes, Types
<1>q. QED
  BY <1>1, <1>2, <1>3

(* What has returned stays so, and is not being returned by another.       *)
LEMMA ReturnedStays ==
    ASSUME IInv, NEW w \in Worker, Step(w), NEW k \in Proc, Returned(k)
    PROVE  /\ Returned(k)' /\ ~(pc[w] = "returnChild" /\ child[w] = k)
           /\ k <= created /\ parent'[k] = parent[k]
<1>1. Returned(k)'
  <2>1. status[k] = "freed" => status'[k] = "freed"
    BY StatusSteps DEF Lives
  <2>2. ASSUME NEW u \in Worker, Delivers(u, k) PROVE Returned(k)'
    BY <2>2, ReturnSteps DEF Delivers, Returned
  <2>q. QED
    BY <2>1, <2>2 DEF Returned
<1>2. ~(pc[w] = "returnChild" /\ child[w] = k)
  BY DEF Returned, Delivers, IInv, ChildInv, PlacesApart, ReturnPC
<1>3. k <= created
  BY OverFacts
<1>4. parent'[k] = parent[k]
  BY <1>3, ParentStays
<1>q. QED
  BY <1>1, <1>2, <1>3, <1>4

(* Who puts an inlet or takes one.                                         *)
LEMMA CompleteSteps ==
    ASSUME IInv, NEW w \in Worker, Step(w)
    PROVE  \/ complete' = complete
           \/ \E c \in Proc : Takes(w, c)
           \/ CilkExitDoes(w) /\ complete' = [complete EXCEPT ![Root] = <<None>> \o @] /\ out' = out
           \/ \E k, p \in Proc : /\ ReturnEnqueueDoes(w, k, p) /\ abort[k] = NO_ABORT
                                 /\ complete' = [complete EXCEPT ![p] = <<k>> \o @]
                                 /\ out' = out
<1>1. ASSUME NEW k \in Proc, NEW p \in Proc, ReturnEnqueueDoes(w, k, p)
      PROVE  \/ complete' = complete
             \/ /\ abort[k] = NO_ABORT /\ out' = out
                /\ complete' = [complete EXCEPT ![p] = <<k>> \o @]
  BY <1>1 DEF ReturnEnqueueDoes
<1>q. QED
  BY <1>1, Kinds DEF Kind, Still, Receives, CilkExitDoes, RemoveAndFreeDoes,
     Abandons, ReturnFastDoes, SetResultDoes, HandlerStolenDoes, SpawnDoes, HandlerAbortDoes

(* A result is not settled otherwise while it waits for its inlet.         *)
LEMMA WaitingSettles ==
    ASSUME IInv, TreeInv, OutcomeInv, NEW w \in Worker, NEW k \in Proc, Returned(k),
           Settles(w, k)
    PROVE  \E c \in Proc : Takes(w, c) /\ k = Head(complete[c])
<1>1. Over(k) /\ k # None
  BY OverFacts, BoundAssumption DEF Proc, None
<1>2. ~Abandons(w, k)
  BY <1>1, OverFacts DEF Abandons
<1>3. ~(pc[w] = "returnChild" /\ k = child[w])
  BY <1>1 DEF Returned, Delivers, IInv, ChildInv, PlacesApart, ReturnPC
<1>4. ~(Pops(w, k) /\ H[w] < T(w))
  BY <1>1, OverFacts DEF Pops, IInv, ChildInv
<1>5. ~(pc[w] = "handlerAct" /\ H[w] < T(w) /\ k = Running(w))
  BY <1>1, RunningFrame DEF WorkPC, PopPC, OutcomeInv, FrameInv
<1>q. QED
  BY <1>2, <1>3, <1>4, <1>5 DEF Settles, Discards

(* An inlet waits for a child whose result is not settled, and for each   *)
(* child there is one.                                                    *)
LEMMA EntryInvStep ==
    ASSUME IInv, TreeInv, OutcomeInv, [Next]_vars
    PROVE  EntryInv'
<1>a. Types /\ EntryInv /\ WayInv
  BY DEF IInv, OutcomeInv
<1>1. ASSUME NEW w \in Worker, Step(w), NEW p \in Proc, NEW k \in Proc, Waiting(p, k)'
      PROVE  parent'[k] = p /\ out'[k] = "pending" /\ Returned(k)' /\ Once(p, k)'
  <2>a. k # None /\ Root \in Proc /\ None \in Proc \cup {None}
    BY BoundAssumption DEF Proc, None, Root
  <2>1. CASE Waiting(p, k)
    <3>1. parent[k] = p /\ out[k] = "pending" /\ Returned(k) /\ Once(p, k)
      BY <1>a, <2>1 DEF EntryInv
    <3>2. parent'[k] = p /\ Returned(k)'
      BY <1>1, <3>1, ReturnedStays
    <3>3. CASE complete' = complete \/ \E c \in Proc : Takes(w, c)
      <4>1. Once(p, k)'
        <5>1. CASE complete' = complete
          BY <3>1, <5>1 DEF Once
        <5>2. ASSUME NEW c \in Proc, Takes(w, c) PROVE Once(p, k)'
          BY <1>a, <3>1, <5>2, TakeFacts DEF Takes
        <5>q. QED
          BY <3>3, <5>1, <5>2
      <4>2. ASSUME out'[k] # "pending" PROVE FALSE
        <5>1. PICK c \in Proc : Takes(w, c) /\ k = Head(complete[c])
          BY <1>1, <3>1, <4>2, OutSteps, WaitingSettles
        <5>2. c = p
          BY <1>a, <3>1, <5>1, HeadWaits DEF EntryInv
        <5>q. QED
          BY <1>1, <1>a, <3>1, <5>1, <5>2, TakeFacts DEF Takes
      <4>q. QED
        BY <3>2, <4>1, <4>2
    <3>4. CASE complete' = [complete EXCEPT ![Root] = <<None>> \o @] /\ out' = out
      <4>1. Once(p, k)'
        <5>1. k # None /\ Root \in Proc /\ None \in Proc \cup {None} /\ Types /\ Once(p, k)
          BY <1>a, <2>a, <3>1
        <5>2. complete' = [complete EXCEPT ![Root] = <<None>> \o @]
          BY <3>4
        <5>q. QED
          BY <5>1, <5>2, PutFacts
      <4>q. QED
        BY <3>1, <3>2, <3>4, <4>1
    <3>5. ASSUME NEW e \in Proc, NEW c \in Proc, ReturnEnqueueDoes(w, e, c), out' = out,
                 complete' = [complete EXCEPT ![c] = <<e>> \o @]
          PROVE  out'[k] = "pending" /\ Once(p, k)'
      <4>1. e # k
        BY <1>1, <3>1, <3>5, ReturnedStays DEF ReturnEnqueueDoes
      <4>q. QED
        BY <1>a, <3>1, <3>5, <4>1, PutFacts
    <3>q. QED
      BY <1>1, <3>2, <3>3, <3>4, <3>5, CompleteSteps
  <2>2. CASE ~Waiting(p, k)
    <3>1. ReturnEnqueueDoes(w, k, p) /\ abort[k] = NO_ABORT /\ out' = out
          /\ complete' = [complete EXCEPT ![p] = <<k>> \o @]
      <4>1. complete' # complete
        BY <1>1, <2>2 DEF Waiting
      <4>2. ASSUME NEW c \in Proc, Takes(w, c) PROVE FALSE
        BY <1>1, <1>a, <2>2, <4>2, TakeFacts DEF Takes
      <4>3. complete' # [complete EXCEPT ![Root] = <<None>> \o @]
        BY <1>1, <1>a, <2>a, <2>2, PutFacts
      <4>4. PICK e \in Proc, c \in Proc : /\ ReturnEnqueueDoes(w, e, c) /\ abort[e] = NO_ABORT
                                          /\ complete' = [complete EXCEPT ![c] = <<e>> \o @]
                                          /\ out' = out
        BY <1>1, <4>1, <4>2, <4>3, CompleteSteps
      <4>5. e = k /\ c = p
        BY <1>1, <1>a, <2>2, <4>4, PutFacts
      <4>q. QED
        BY <4>4, <4>5
    <3>2. /\ parent' = parent /\ parent[k] = p /\ child[w] = k /\ status[k] = "RETURNING"
          /\ pc[w] = "returnChild" /\ pc'[w] = "return" /\ child' = child
      BY <1>a, <3>1 DEF ReturnEnqueueDoes, Types
    <3>3. ~Returned(k)
      BY <1>1, <3>2, ReturnedStays
    <3>4. out[k] = "pending"
      BY <1>a, <3>1, <3>2, <3>3 DEF WayInv, Lost, ABORT_ALL, NO_ABORT
    <3>5. Once(p, k)'
      BY <1>a, <2>2, <3>1, PutFacts
    <3>6. Returned(k)'
      BY <3>2 DEF Returned, Delivers
    <3>q. QED
      BY <3>1, <3>2, <3>4, <3>5, <3>6
  <2>q. QED
    BY <2>1, <2>2
<1>2. ASSUME UNCHANGED vars PROVE EntryInv'
  BY <1>a, <1>2 DEF EntryInv, vars, Waiting, Once, Returned, Delivers
<1>q. QED
  BY <1>1, <1>2 DEF Next, Terminated, EntryInv

(* An inlet waits until its result is settled.                             *)
LEMMA WaitingStays ==
    ASSUME IInv, NEW w \in Worker, Step(w), NEW p \in Proc, NEW k \in Proc, Waiting(p, k),
           out'[k] = "pending"
    PROVE  Waiting(p, k)'
<1>a. Types /\ Root \in Proc /\ None \in Proc \cup {None} /\ k # None
  BY BoundAssumption DEF IInv, Proc, Root, None
<1>1. ASSUME NEW c \in Proc, Takes(w, c) PROVE Waiting(p, k)'
  <2>1. k # Head(complete[c])
    BY <1>1, <1>a DEF Takes, Outcome
  <2>q. QED
    BY <1>1, <1>a, <2>1, TakeFacts DEF Takes
<1>2. CASE complete' = complete
  BY <1>2 DEF Waiting
<1>3. ASSUME NEW c \in Proc, NEW e \in Proc \cup {None},
             complete' = [complete EXCEPT ![c] = <<e>> \o @]
      PROVE  Waiting(p, k)'
  BY <1>a, <1>3, PutFacts
<1>q. QED
  BY <1>a, <1>1, <1>2, <1>3, CompleteSteps

(* A frame is removed with its closure or popped, or it is discarded.      *)
LEMMA RemovedSteps ==
    ASSUME IInv, NEW w \in Worker, Step(w), NEW k \in Proc \ {Root}, k \in alive, k \notin alive'
    PROVE  out'[k] = "discarded" \/ status'[k] = "RETURNING" \/ Pops(w, k)'
<1>a. Types
  BY DEF IInv
<1>1. CASE Still(w) \/ Receives(w) \/ CilkExitDoes(w) \/ RemoveAndFreeDoes(w)
           \/ \E c \in Proc : Takes(w, c) \/ HandlerStolenDoes(w, c)
  BY <1>1 DEF Still, Receives, CilkExitDoes, RemoveAndFreeDoes, Takes, HandlerStolenDoes
<1>2. CASE \E c \in Proc : Abandons(w, c) \/ ReturnFastDoes(w, c) \/ SetResultDoes(w, c)
  BY <1>a, <1>2 DEF Abandons, ReturnFastDoes, SetResultDoes, Types, Pops, PopPC, Outcome
<1>3. CASE \E c, f \in Proc : ReturnEnqueueDoes(w, c, f) \/ SpawnDoes(w, c, f)
  BY <1>3 DEF ReturnEnqueueDoes, SpawnDoes
<1>4. CASE \E c, f \in Proc : HandlerAbortDoes(w, c, f)
  BY <1>a, <1>4 DEF HandlerAbortDoes, AbortWaits, AbortReturns, AbortPops
<1>q. QED
  BY <1>1, <1>2, <1>3, <1>4, Kinds DEF Kind

(* A result that was popped is received or discarded by the caller, or    *)
(* leaves in the closure that was stolen.                                 *)
LEMMA PoppedSteps ==
    ASSUME IInv, TreeInv, NEW w \in Worker, Step(w), NEW k \in Proc, NEW u \in Worker, Pops(u, k),
           out'[k] = "pending"
    PROVE  Pops(u, k)' \/ status'[k] = "RETURNING"
<1>a. Types /\ k # None
  BY BoundAssumption DEF IInv, Proc, None
<1> USE DEF Pops, PopPC
<1>1. CASE u # w
  BY <1>a, <1>1, OthersStay
<1>2. CASE u = w /\ (Still(w) \/ \E c \in Proc : Takes(w, c))
  BY <1>2 DEF Still, Takes
<1>3. CASE u = w /\ \/ Receives(w) \/ CilkExitDoes(w) \/ RemoveAndFreeDoes(w)
                    \/ \E c \in Proc : Abandons(w, c) \/ ReturnFastDoes(w, c) \/ SetResultDoes(w, c)
                    \/ \E c, f \in Proc : ReturnEnqueueDoes(w, c, f) \/ SpawnDoes(w, c, f)
  <2>0. u = w /\ pc[w] \in PopPC /\ child[w] = k
    BY <1>3
  <2>1. ~Receives(w)
    BY <2>0 DEF Receives, Outcome
  <2>2. CilkExitDoes(w) => pc[w] = "run"
    BY DEF CilkExitDoes
  <2>3. RemoveAndFreeDoes(w) => pc[w] = "rootEnd"
    BY DEF RemoveAndFreeDoes
  <2>4. \A c \in Proc : /\ Abandons(w, c) => pc[w] = "loop"
                        /\ ReturnFastDoes(w, c) => pc[w] = "run"
                        /\ SetResultDoes(w, c) => pc[w] = "setResult"
    BY DEF Abandons, ReturnFastDoes, SetResultDoes
  <2>5. \A c, f \in Proc : /\ ReturnEnqueueDoes(w, c, f) => pc[w] = "returnChild"
                           /\ SpawnDoes(w, c, f) => pc[w] \in {"run", "synced"}
    BY DEF ReturnEnqueueDoes, SpawnDoes
  <2>q. QED
    BY <1>3, <2>0, <2>1, <2>2, <2>3, <2>4, <2>5
<1>4. ASSUME u = w, NEW c \in Proc, HandlerStolenDoes(w, c) PROVE status'[k] = "RETURNING"
  <2>1. k = c
    BY <1>a, <1>4 DEF HandlerStolenDoes, TreeInv, PoppedInv
  <2>q. QED
    BY <1>a, <1>4, <2>1 DEF HandlerStolenDoes, Types
<1>5. CASE u = w /\ \E c, f \in Proc : HandlerAbortDoes(w, c, f)
  BY <1>a, <1>5 DEF HandlerAbortDoes, AbortWaits, AbortReturns, AbortPops, Outcome
<1>q. QED
  BY <1>1, <1>2, <1>3, <1>4, <1>5, Kinds DEF Kind

(* A result that is not settled goes on: from the frame to the caller, or *)
(* to the closure and from that to an inlet.                              *)
LEMMA PendingInvStep ==
    ASSUME IInv, TreeInv, OutcomeInv, [Next]_vars
    PROVE  PendingInv'
<1>a. Types /\ FrameInv /\ PendingInv
  BY DEF IInv, OutcomeInv
<1>1. ASSUME NEW w \in Worker, Step(w), NEW k \in Proc \ {Root}, k <= created', out'[k] = "pending"
      PROVE  k \in alive' \/ Popped(k)' \/ status'[k] = "RETURNING" \/ Waiting(parent[k], k)'
  <2>0. k \in Nat /\ created \in Nat
    BY <1>a, BoundAssumption DEF Types, Proc
  <2>1. out[k] = "pending"
    BY <1>1, OutSteps
  <2>2. CASE ~(k <= created)
    BY <1>1, <1>a, <2>0, <2>2, SpawnSteps DEF SpawnDoes
  <2>3. CASE k <= created /\ k \in alive
    BY <1>1, <2>3, RemovedSteps DEF Popped
  <2>4. CASE Popped(k)
    BY <1>1, <2>4, PoppedSteps DEF Popped
  <2>5. CASE k <= created /\ Waiting(parent[k], k) /\ k \notin alive
    <3>1. parent[k] \in Proc /\ parent'[k] = parent[k]
      <4>1. k \in 2 .. created
        BY <1>1, <2>0, <2>5, BoundAssumption DEF Proc, Root
      <4>2. parent[k] \in 1 .. k - 1
        BY <4>1 DEF IInv, ParentInv
      <4>q. QED
        BY <1>1, <1>a, <2>0, <2>5, <4>2, ParentStays, BoundAssumption DEF Proc
    <3>2. \A p \in Proc : p = parent[k] => Waiting(p, k)'
      BY <1>1, <2>5, WaitingStays
    <3>q. QED
      BY <3>1, <3>2 DEF Waiting
  <2>6. CASE status[k] = "RETURNING"
    <3>1. CASE status'[k] # "RETURNING"
      <4>1. pc[w] = "return" /\ k = child[w] /\ status'[k] = "freed"
        BY <1>1, <2>6, <3>1, StatusSteps DEF Lives
      <4>2. complete' = complete
        <5>1. pc'[w] = "return" /\ child'[w] = child[w] => status'[child[w]] = "RETURNING"
          BY <1>1, NextIInv DEF Next, IInv, ChildInv, ReturnPC
        <5>q. QED
          BY <1>1, <4>1, <5>1, ReturnSteps
      <4>3. cl[w] = parent[k] /\ Waiting(cl[w], k)
        BY <1>a, <2>1, <4>1, ReturnFacts DEF PendingInv, ReturnPC
      <4>4. parent'[k] = parent[k]
        BY <1>1, <1>a, <2>6, ParentStays, OverFacts
      <4>q. QED
        BY <4>2, <4>3, <4>4 DEF Waiting
    <3>q. QED
      BY <3>1
  <2>q. QED
    BY <1>a, <2>1, <2>2, <2>3, <2>4, <2>5, <2>6 DEF PendingInv
<1>2. ASSUME NEW w \in Worker, Step(w), NEW u \in Worker, pc'[u] = "return"
      PROVE  out'[child'[u]] # "pending" \/ Waiting(cl[u], child[u])'
  <2>1. CASE pc[u] = "return"
    <3>1. child[u] \in Proc /\ cl[u] \in Proc
      BY <2>1, ReturnFacts DEF ReturnPC
    <3>2. out[child[u]] # "pending" => out'[child[u]] # "pending"
      BY <1>2, <3>1, OutSteps
    <3>3. \A p, k \in Proc : Waiting(p, k) => out'[k] # "pending" \/ Waiting(p, k)'
      BY <1>2, WaitingStays
    <3>4. cl'[u] = cl[u] /\ child'[u] = child[u]
      BY <1>2, <2>1, ReturnSteps
    <3>5. CASE Waiting(cl[u], child[u])
      BY <3>1, <3>3, <3>4, <3>5 DEF Waiting
    <3>q. QED
      BY <1>a, <2>1, <3>2, <3>4, <3>5 DEF PendingInv
  <2>2. CASE pc[u] # "return"
    <3>1. u = w
      BY <1>2, <1>a, <2>2, OthersStay
    <3>2. \E c, f \in Proc : ReturnEnqueueDoes(w, c, f)
      <4>1. ~Still(w) /\ ~(\E c \in Proc : Takes(w, c))
        BY <1>2, <2>2, <3>1 DEF Still, Takes
      <4>2. CASE \/ Receives(w) \/ CilkExitDoes(w) \/ RemoveAndFreeDoes(w)
                 \/ \E c \in Proc : \/ Abandons(w, c) \/ ReturnFastDoes(w, c)
                                    \/ SetResultDoes(w, c) \/ HandlerStolenDoes(w, c)
                 \/ \E c, f \in Proc : SpawnDoes(w, c, f)
        BY <1>2, <1>a, <2>2, <3>1, <4>2 DEF Receives, CilkExitDoes, RemoveAndFreeDoes, Abandons,
           ReturnFastDoes, SetResultDoes, HandlerStolenDoes, SpawnDoes, Types
      <4>3. CASE \E c, f \in Proc : HandlerAbortDoes(w, c, f)
        BY <1>2, <1>a, <3>1, <4>3 DEF HandlerAbortDoes, AbortWaits, AbortReturns, AbortPops, Types
      <4>q. QED
        BY <1>2, <4>1, <4>2, <4>3, Kinds DEF Kind
    <3>3. PICK k \in Proc, p \in Proc : ReturnEnqueueDoes(w, k, p)
      BY <3>2
    <3>4. k = child'[w] /\ p = cl'[w]
      BY <3>3 DEF ReturnEnqueueDoes
    <3>5. CASE complete' = [complete EXCEPT ![p] = <<k>> \o @]
      <4>1. Waiting(p, k)'
        BY <1>a, <3>5, PutFacts
      <4>q. QED
        BY <3>1, <3>4, <4>1 DEF Waiting
    <3>q. QED
      BY <3>1, <3>3, <3>4, <3>5 DEF ReturnEnqueueDoes, Outcome
  <2>q. QED
    BY <2>1, <2>2
<1>3. ASSUME UNCHANGED vars PROVE PendingInv'
  BY <1>a, <1>3 DEF PendingInv, vars, Popped, Pops, Waiting
<1>q. QED
  BY <1>1, <1>2, <1>3 DEF Next, Terminated, PendingInv

(* The mark of an abort from above stays.                                  *)
LEMMA AllStays ==
    ASSUME IInv, NEW w \in Worker, Step(w), NEW d \in Proc, abort[d] = ABORT_ALL
    PROVE  abort'[d] = ABORT_ALL
<1>a. abort \in [Proc -> {ABORT_ALL, ALMOST_NO_ABORT, NO_ABORT}]
  BY DEF IInv, Types
<1>1. ASSUME NEW n \in Nat \ {0}, NEW k \in Proc, WalkDownDoes(w, n, k) PROVE abort'[d] = ABORT_ALL
  BY <1>a, <1>1 DEF WalkDownDoes
<1>2. ASSUME NEW c \in Proc, NEW r, InletAbortsDoes(w, c, r) PROVE abort'[d] = ABORT_ALL
  BY <1>a, <1>2 DEF InletAbortsDoes, ABORT_ALL, NO_ABORT
<1>3. ASSUME NEW c \in Proc, LockBottomDoes(w, c) PROVE abort'[d] = ABORT_ALL
  BY <1>a, <1>3 DEF LockBottomDoes
<1>q. QED
  BY <1>1, <1>2, <1>3, AbortSteps, WalkDownEffect, InletAbortsEffect, LockBottomEffect

(* What a worker has locked, or nobody has, and is not polled, is marked  *)
(* by no walk of its own.                                                 *)
LEMMA MarkedAll ==
    ASSUME IInv, NEW c \in Proc, abort[c] # NO_ABORT,
           \/ clock[c] = None
           \/ \E w \in Worker : pc[w] \in LockPC \ PollPC /\ cl[w] = c
    PROVE  abort[c] = ABORT_ALL
<1> SUFFICES ASSUME abort[c] # ABORT_ALL PROVE FALSE
  OBVIOUS
<1>1. PICK u \in Worker : clock[c] = u /\ cl[u] = c /\ pc[u] \in PollPC
  BY AlmostLocked DEF IInv, Types
<1>q. QED
  BY <1>1, LockFacts, WorkerAssumption DEF None

(* Workers run different frames.                                           *)
LEMMA RunningApart ==
    ASSUME IInv, TreeInv, NEW u \in Worker, NEW w \in Worker, u # w,
           pc[u] \in WorkPC, H[u] < T(u), pc[w] \in WorkPC, H[w] < T(w)
    PROVE  Running(u) # Running(w)
<1>1. CASE H[u] + 1 < T(u) /\ H[w] + 1 < T(w)
  <2>1. T(u) \in H[u] + 2 .. T(u) /\ T(w) \in H[w] + 2 .. T(w)
    BY <1>1, WorkFacts
  <2>q. QED
    BY <2>1 DEF IInv, StacksApart, Running
<1>2. CASE H[u] + 1 = T(u) /\ H[w] + 1 = T(w)
  <2>1. Bottom(u) # Bottom(w)
    BY BottomsApart
  <2>2. H[u] \in Nat /\ H[w] \in Nat /\ T(u) \in Nat /\ T(w) \in Nat
    BY WorkFacts
  <2>3. Running(u) = Bottom(u) /\ Running(w) = Bottom(w)
    BY <1>2, <2>2, WorkFacts DEF Running
  <2>q. QED
    BY <2>1, <2>3
<1>q. QED
  BY <1>1, <1>2, RunningFrame

(* What comes to be returned has no result yet, or was discarded with its *)
(* frame in an abort from above.                                          *)
LEMMA ReturningStep ==
    ASSUME IInv, TreeInv, OutcomeInv, NEW w \in Worker, Step(w), NEW k \in Proc,
           status'[k] = "RETURNING"
    PROVE  out'[k] = "pending" \/ Lost(k, k)' \/ Returned(k)'
<1>a. Types /\ FrameInv /\ EntryInv /\ WayInv
  BY DEF IInv, OutcomeInv
<1>1. CASE status[k] = "RETURNING"
  <2>1. CASE out'[k] = out[k]
    BY <1>a, <1>1, <2>1, AllStays, ReturnedStays DEF WayInv, Lost
  <2>2. CASE out'[k] # out[k]
    <3>1. Settles(w, k)
      BY <2>2, OutSteps
    <3>2. CASE \E c \in Proc : Takes(w, c) /\ k = Head(complete[c])
      <4>1. Returned(k)
        BY <1>a, <3>2, HeadWaits DEF EntryInv
      <4>q. QED
        BY <4>1, ReturnedStays
    <3>3. CASE pc[w] = "returnChild" /\ pc'[w] = "return" /\ child'[w] = k
      BY <3>3 DEF Returned, Delivers
    <3>4. ~(Pops(w, k) /\ H[w] < T(w)) /\ ~Abandons(w, k)
      BY <1>1, BoundAssumption DEF Pops, IInv, ChildInv, Abandons, Proc, None
    <3>5. ~(pc[w] = "handlerAct" /\ H[w] < T(w) /\ k = Running(w))
      BY <1>1, RunningFrame DEF WorkPC, PopPC
    <3>q. QED
      BY <3>1, <3>2, <3>3, <3>4, <3>5 DEF Settles, Discards
  <2>q. QED
    BY <2>1, <2>2
<1>2. CASE status[k] # "RETURNING"
  <2>1. CASE \/ Still(w) \/ Receives(w) \/ CilkExitDoes(w) \/ RemoveAndFreeDoes(w)
             \/ \E c \in Proc : Takes(w, c) \/ ReturnFastDoes(w, c)
             \/ \E c, f \in Proc : ReturnEnqueueDoes(w, c, f) \/ SpawnDoes(w, c, f)
    <3>1. Over(k)' => Over(k)
      BY <1>a, <1>2, <2>1 DEF Still, Receives, CilkExitDoes, RemoveAndFreeDoes, Takes, Types,
         ReturnFastDoes, ReturnEnqueueDoes, SpawnDoes, Over
    <3>q. QED
      BY <1>2, <3>1, StatusSteps DEF Over, Lives
  <2>2. ASSUME NEW c \in Proc, Abandons(w, c) PROVE Lost(k, k)'
    <3>1. k = c /\ clock[k] = None /\ abort[k] # NO_ABORT /\ out'[k] = "discarded"
      BY <1>a, <1>2, <2>2 DEF Abandons, Types, Outcome
    <3>2. abort[k] = ABORT_ALL
      BY <3>1, MarkedAll
    <3>q. QED
      BY <3>1, <3>2, AllStays DEF Lost
  <2>3. ASSUME NEW c \in Proc, SetResultDoes(w, c) PROVE out'[k] = "pending"
    <3>1. k = Bottom(w) /\ pc[w] \in WorkPC /\ H[w] < T(w) /\ out' = out
      BY <1>a, <1>2, <2>3 DEF SetResultDoes, Types, WorkPC, SlowPC
    <3>q. QED
      BY <1>a, <3>1 DEF TreeInv, AliveInv, FrameInv
  <2>4. ASSUME NEW c \in Proc, HandlerStolenDoes(w, c) PROVE out'[k] = "pending"
    <3>1. /\ k = Bottom(w) /\ pc[w] \in PopPC /\ H[w] >= T(w) /\ child[w] = k /\ out' = out
          /\ status[k] = "RUNNING" /\ H[w] \in Nat /\ T(w) \in Nat
      BY <1>a, <1>2, <2>4 DEF HandlerStolenDoes, Types, PopPC
    <3>2. H[w] = T(w)
      BY <3>1, WorkFacts DEF WorkPC
    <3>q. QED
      BY <1>a, <3>1, <3>2 DEF WayInv, OnWay
  <2>5. ASSUME NEW c \in Proc, NEW f \in Proc, HandlerAbortDoes(w, c, f) PROVE Lost(k, k)'
    <3>1. /\ k = c /\ c = cl[w] /\ pc[w] = "handlerAct" /\ abort[k] # NO_ABORT
          /\ out'[k] = "discarded"
      BY <1>a, <1>2, <2>5 DEF HandlerAbortDoes, AbortWaits, AbortReturns, AbortPops, Types
    <3>2. abort[k] = ABORT_ALL
      BY <3>1, MarkedAll DEF LockPC, PollPC
    <3>q. QED
      BY <3>1, <3>2, AllStays DEF Lost
  <2>q. QED
    BY <2>1, <2>2, <2>3, <2>4, <2>5, Kinds DEF Kind
<1>q. QED
  BY <1>1, <1>2

(* A result is settled where it is by the worker that has it, and no other.*)
LEMMA PoppedOut ==
    ASSUME IInv, TreeInv, OutcomeInv, NEW w \in Worker, Step(w),
           NEW u \in Worker, pc[u] \in PopPC, NEW k \in Proc, k = child[u],
           H[u] < T(u) \/ (H[u] = T(u) /\ status[Bottom(u)] = "RUNNING"),
           u = w => Still(w) \/ \E c \in Proc : Takes(w, c)
    PROVE  out'[k] = out[k]
<1>a. Types /\ FrameInv /\ EntryInv /\ WayInv
  BY DEF IInv, OutcomeInv
<1>b. k # None /\ H[u] \in Nat /\ T(u) \in Nat /\ pc[u] \in WorkPC
  BY WorkFacts, BoundAssumption DEF Proc, None, WorkPC
<1>c. status[k] \in {"none", "RUNNING"} /\ k \notin alive
  <2>1. H[u] = T(u) /\ status[Bottom(u)] = "RUNNING" => k = Bottom(u)
    BY <1>b DEF IInv, CurrentInv
  <2>q. QED
    BY <1>a, <1>b, <2>1 DEF FrameInv, IInv, ChildInv
<1> SUFFICES ASSUME out'[k] # out[k] PROVE FALSE
  OBVIOUS
<1>1. Settles(w, k)
  BY OutSteps
<1>2. ASSUME NEW c \in Proc, Takes(w, c), k = Head(complete[c]) PROVE FALSE
  <2>1. Returned(k)
    BY <1>2, <1>a, HeadWaits DEF EntryInv
  <2>q. QED
    BY <1>c, <2>1, OverFacts DEF Over
<1>6. u # w
  <2>1. CASE Still(w)
    BY <2>1 DEF Still
  <2>2. ASSUME NEW c \in Proc, Takes(w, c) PROVE FALSE
    <3>1. k = Head(complete[c])
      BY <2>2, <1>a DEF Takes, Outcome
    <3>q. QED
      BY <1>2, <2>2, <3>1
  <2>q. QED
    BY <2>1, <2>2
<1>3. ~Abandons(w, k) /\ ~(pc[w] = "returnChild" /\ k = child[w])
  BY <1>c DEF Abandons, IInv, ChildInv, ReturnPC
<1>4. ASSUME Pops(w, k), H[w] < T(w) PROVE FALSE
  <2>2. parent[k] = Running(w) /\ pc[w] \in WorkPC /\ status[k] = "none"
    BY <1>4, <1>a, <1>b DEF Pops, WorkPC, WayInv, OnWay, IInv, ChildInv
  <2>3. H[u] < T(u)
    BY <1>b, <2>2 DEF IInv, CurrentInv
  <2>4. parent[k] = Running(u)
    BY <1>a, <1>b, <2>3 DEF WayInv, OnWay
  <2>q. QED
    BY <1>4, <1>6, <1>b, <2>2, <2>3, <2>4, RunningApart
<1>5. ~(pc[w] = "handlerAct" /\ H[w] < T(w) /\ k = Running(w))
  BY <1>c, RunningFrame DEF WorkPC, PopPC
<1>q. QED
  BY <1>1, <1>2, <1>3, <1>4, <1>5 DEF Settles, Discards

(* The way of a result that was popped by another worker is left alone.    *)
LEMMA OtherWay ==
    ASSUME IInv, TreeInv, OutcomeInv, NEW w \in Worker, Step(w), NEW u \in Worker \ {w}
    PROVE  OnWay(u)'
<1>a. Types /\ FrameInv /\ WayInv
  BY DEF IInv, OutcomeInv
<1> SUFFICES ASSUME pc'[u] \in PopPC PROVE OnWay(u)'
  BY DEF OnWay
<1>1. /\ pc[u] \in PopPC /\ pc[u] \in WorkPC /\ child'[u] = child[u] /\ stack'[u] = stack[u]
      /\ T(u)' = T(u) /\ Running(u)' = Running(u)
  BY <1>a, OthersStay DEF WorkPC, T, Running
<1>2. H[u] \in Nat /\ T(u) \in Nat /\ Bottom(u) \in Proc
  BY <1>1, WorkFacts
<1>3. child[u] # None => child[u] \in Proc /\ parent'[child[u]] = parent[child[u]]
  <2>1. child[u] # None => child[u] \in Proc /\ child[u] <= created
    BY <1>a, BoundAssumption DEF IInv, ChildInv, Types, Proc
  <2>q. QED
    BY <1>a, <2>1, ParentStays
<1>4. CASE /\ H'[u] = H[u] /\ Bottom(u)' = Bottom(u)
           /\ status'[Bottom(u)] = status[Bottom(u)]
  <2>1. ASSUME child[u] # None, H[u] < T(u)
        PROVE  /\ parent'[child[u]] = Running(u)
               /\ \/ out'[child[u]] = "pending"
                  \/ out'[child[u]] = "discarded" /\ abort'[Bottom(u)] = ABORT_ALL /\ signalled'[u]
    <3>1. out'[child[u]] = out[child[u]]
      BY <1>1, <1>3, <2>1, PoppedOut
    <3>2. signalled[u] => signalled'[u]
      BY SignalSteps
    <3>3. /\ parent[child[u]] = Running(u)
          /\ out[child[u]] = "pending" \/ (Lost(child[u], Bottom(u)) /\ signalled[u])
      BY <1>a, <1>1, <2>1 DEF WayInv, OnWay
    <3>q. QED
      BY <1>2, <1>3, <2>1, <3>1, <3>2, <3>3, AllStays DEF Lost
  <2>2. ASSUME H[u] = T(u), status[Bottom(u)] = "RUNNING" PROVE out'[child[u]] = "pending"
    <3>1. child[u] = Bottom(u)
      BY <1>1, <1>2, <2>2 DEF IInv, CurrentInv
    <3>2. out'[child[u]] = out[child[u]]
      BY <1>1, <1>2, <2>2, <3>1, PoppedOut
    <3>q. QED
      BY <1>a, <1>1, <2>2, <3>2 DEF WayInv, OnWay
  <2>q. QED
    BY <1>1, <1>4, <2>1, <2>2 DEF OnWay, Lost
<1>5. ASSUME NEW c \in Proc, NEW k \in Proc, StealPromoteDoes(w, u, c, k) PROVE OnWay(u)'
  <2>1. /\ H[u] + 1 < T(u) /\ H'[u] = H[u] + 1 /\ c = Bottom(u) /\ abort[c] = NO_ABORT
        /\ out' = out /\ parent' = parent
    BY <1>a, <1>5 DEF StealPromoteDoes, Types, Bottom
  <2>2. child[u] # None => parent[child[u]] = Running(u) /\ out[child[u]] = "pending"
    BY <1>a, <1>1, <1>2, <2>1 DEF WayInv, OnWay, Lost, NO_ABORT, ABORT_ALL
  <2>q. QED
    BY <1>1, <1>2, <2>1, <2>2 DEF OnWay
<1>q. QED
  BY <1>1, <1>4, <1>5, WorkStays

(* A worker pops the frame on top and finds its caller below.              *)
LEMMA Below ==
    ASSUME IInv, NEW w \in Worker, Shortened(stack, stack', w)
    PROVE  /\ T(w)' = T(w) - 1 /\ T(w) \in Nat \ {0}
           /\ T(w) > 1 => parent[Running(w)] = Running(w)'
<1>1. T(w)' = T(w) - 1 /\ T(w) \in Nat \ {0} /\ \A i \in 1 .. T(w) - 1 : stack'[w][i] = stack[w][i]
  BY DEF Shortened, T, Size
<1>2. ASSUME T(w) > 1 PROVE parent[stack[w][T(w)]] = stack'[w][T(w) - 1]
  <2>1. T(w) \in 2 .. T(w) /\ T(w) - 1 \in 1 .. T(w) - 1
    BY <1>1, <1>2
  <2>q. QED
    BY <1>1, <2>1 DEF IInv, StackInv
<1>q. QED
  BY <1>1, <1>2 DEF Running

(* A worker on its way puts the result of its top frame there; what it    *)
(* polls in between leaves it.                                            *)
LEMMA OwnWay ==
    ASSUME IInv, TreeInv, OutcomeInv, NEW w \in Worker, Step(w)
    PROVE  OnWay(w)'
<1>a. Types /\ FrameInv /\ WayInv
  BY DEF IInv, OutcomeInv
<1> SUFFICES ASSUME pc'[w] \in PopPC PROVE OnWay(w)'
  BY DEF OnWay
<1>b. H[w] \in Nat /\ T(w) \in Nat
  BY <1>a, StackFacts
<1>1. ASSUME pc[w] \in PopPC, child'[w] = child[w], stack'[w] = stack[w],
             UNCHANGED <<H, deque, status>>, Still(w) \/ \E c \in Proc : Takes(w, c)
      PROVE  OnWay(w)'
  <2>1. T(w)' = T(w) /\ Running(w)' = Running(w) /\ Bottom(w)' = Bottom(w) /\ pc[w] \in WorkPC
    BY <1>1 DEF T, Running, Bottom, WorkPC
  <2>2. ASSUME child[w] # None, H[w] < T(w)
        PROVE  /\ parent'[child[w]] = Running(w)
               /\ \/ out'[child[w]] = "pending"
                  \/ out'[child[w]] = "discarded" /\ abort'[Bottom(w)] = ABORT_ALL /\ signalled'[w]
    <3>1. child[w] \in Proc /\ Bottom(w) \in Proc
      BY <1>a, <2>1, <2>2, WorkFacts DEF Types
    <3>2. out'[child[w]] = out[child[w]]
      BY <1>1, <2>2, <3>1, PoppedOut
    <3>3. signalled[w] => signalled'[w]
      <4>1. ~Setup(w) /\ ~HandlerResume(w) /\ ~HandlerStolen(w)
        BY <1>a, <1>1, <2>2 DEF Setup, HandlerResume, HandlerStolen, Stolen, PopPC, Goto, Types
      <4>q. QED
        BY <4>1, SignalSteps
    <3>4. parent' = parent
      BY <1>1 DEF Still, Takes
    <3>5. /\ parent[child[w]] = Running(w)
          /\ out[child[w]] = "pending" \/ (Lost(child[w], Bottom(w)) /\ signalled[w])
      BY <1>a, <1>1, <2>2 DEF WayInv, OnWay
    <3>q. QED
      BY <3>1, <3>2, <3>3, <3>4, <3>5, AllStays DEF Lost
  <2>3. ASSUME H[w] = T(w), status[Bottom(w)] = "RUNNING" PROVE out'[child[w]] = "pending"
    <3>1. child[w] = Bottom(w) /\ Bottom(w) \in Proc
      BY <1>b, <2>1, <2>3, WorkFacts DEF IInv, CurrentInv
    <3>2. out'[child[w]] = out[child[w]]
      BY <1>1, <1>b, <2>3, <3>1, PoppedOut
    <3>q. QED
      BY <1>a, <1>1, <2>3, <3>2 DEF WayInv, OnWay
  <2>q. QED
    BY <1>1, <2>1, <2>2, <2>3 DEF OnWay, Lost
<1>2. ASSUME NEW c \in Proc, NEW k \in Proc, Takes(w, c), InletSplits(w, c, k),
             abort[c] = NO_ABORT
      PROVE  OnWay(w)'
  <2>1. /\ H'[w] = 1 /\ H[w] = 0 /\ 1 < T(w) /\ T(w)' = T(w) /\ Running(w)' = Running(w)
        /\ pc[w] \in PopPC /\ child' = child /\ parent' = parent /\ c = Bottom(w)
    BY <1>a, <1>2 DEF InletSplits, Takes, T, Running, PopPC, Types
  <2>3. H[w] < T(w)
    BY <1>b, <2>1
  <2>2. ASSUME child[w] # None PROVE parent[child[w]] = Running(w) /\ out'[child[w]] = "pending"
    <3>1. child[w] \in Proc
      BY <1>a, <2>2 DEF Types
    <3>2. out'[child[w]] = out[child[w]]
      BY <1>2, <2>1, <2>3, <3>1, PoppedOut
    <3>q. QED
      BY <1>a, <1>2, <2>1, <2>2, <2>3, <3>2 DEF WayInv, OnWay, Lost, NO_ABORT, ABORT_ALL
  <2>q. QED
    BY <2>1, <2>2 DEF OnWay
<1>3. ASSUME NEW c \in Proc, ReturnFastDoes(w, c), child'[w] = c PROVE OnWay(w)'
  <2>1. c = Running(w) /\ H[w] < T(w) /\ pc[w] \in WorkPC /\ H' = H /\ T(w) > 1
        /\ out' = out /\ parent' = parent
    BY <1>3 DEF ReturnFastDoes, Running, IInv, StackInv, WorkPC
  <2>2. out[c] = "pending"
    BY <1>a, <2>1, RunningFrame DEF FrameInv
  <2>3. parent[c] = Running(w)'
    BY <1>3, <2>1, Below DEF ReturnFastDoes
  <2>q. QED
    BY <1>3, <2>1, <2>2, <2>3 DEF OnWay
<1>4. ASSUME NEW c \in Proc, HandlerStolenDoes(w, c), child'[w] = None PROVE OnWay(w)'
  <2>1. status'[c] = "RETURNING" /\ Bottom(w)' = c
    BY <1>a, <1>4 DEF HandlerStolenDoes, Types, Bottom
  <2>q. QED
    BY <1>4, <2>1 DEF OnWay
<1>5. ASSUME NEW c \in Proc, NEW f \in Proc, HandlerAbortDoes(w, c, f), child'[w] = Running(w),
             ~AbortWaits(w, c)
      PROVE  OnWay(w)'
  <2>1. /\ T(w)' = T(w) - 1 /\ H' = H /\ parent' = parent
        /\ T(w) > 1 => parent[Running(w)] = Running(w)'
    BY <1>5, Below DEF HandlerAbortDoes
  <2>2. CASE AbortReturns(w, c)
    <3>1. status'[c] = "RETURNING" /\ H[w] + 1 = T(w) /\ Bottom(w)' = c
      BY <1>a, <1>5, <2>2 DEF AbortReturns, HandlerAbortDoes, Types, Bottom
    <3>q. QED
      BY <1>b, <2>1, <3>1 DEF OnWay
  <2>3. CASE AbortPops(w, f)
    <3>1. /\ H[w] + 1 < T(w) /\ f = Running(w) /\ out'[f] = "discarded" /\ Bottom(w)' = c
          /\ abort' = abort /\ signalled'[w] /\ c = cl[w] /\ pc[w] = "handlerAct"
          /\ abort[c] # NO_ABORT
      BY <1>a, <1>5, <2>3 DEF AbortPops, HandlerAbortDoes, Types, Bottom, Running
    <3>2. abort[c] = ABORT_ALL
      BY <3>1, MarkedAll DEF LockPC, PollPC
    <3>q. QED
      BY <1>5, <1>b, <2>1, <3>1, <3>2 DEF OnWay, Lost
  <2>q. QED
    BY <1>5, <2>2, <2>3 DEF HandlerAbortDoes
<1>6. CASE pc[w] \in PopPC /\ child'[w] = child[w] /\ stack'[w] = stack[w]
  <2>1. CASE Still(w)
    BY <1>1, <1>6, <2>1 DEF Still
  <2>2. CASE \E c \in Proc : Takes(w, c)
    BY <1>1, <1>2, <1>6, <2>2 DEF Takes
  <2>3. ASSUME NEW c \in Proc, HandlerStolenDoes(w, c) PROVE FALSE
    BY <1>6, <2>3, Below DEF HandlerStolenDoes, T
  <2>4. ASSUME NEW c \in Proc, NEW f \in Proc, HandlerAbortDoes(w, c, f) PROVE FALSE
    BY <1>6, <2>4, Below DEF HandlerAbortDoes, T
  <2>5. ~ \/ CilkExitDoes(w) \/ RemoveAndFreeDoes(w)
          \/ \E c \in Proc : Abandons(w, c) \/ ReturnFastDoes(w, c) \/ SetResultDoes(w, c)
          \/ \E c, f \in Proc : ReturnEnqueueDoes(w, c, f) \/ SpawnDoes(w, c, f)
    BY <1>6 DEF CilkExitDoes, RemoveAndFreeDoes, Abandons, ReturnFastDoes,
       SetResultDoes, ReturnEnqueueDoes, SpawnDoes, PopPC
  <2>6. ~Receives(w)
    BY <1>a DEF Receives, PopPC, Types
  <2>q. QED
    BY <2>1, <2>2, <2>3, <2>4, <2>5, <2>6, Kinds DEF Kind
<1>q. QED
  BY <1>3, <1>4, <1>5, <1>6, PopSteps

(* So each result on its way is settled once.                              *)
LEMMA WayInvStep ==
    ASSUME IInv, TreeInv, OutcomeInv, [Next]_vars
    PROVE  WayInv'
<1>1. ASSUME NEW w \in Worker, Step(w) PROVE WayInv'
  BY <1>1, OtherWay, OwnWay, ReturningStep DEF WayInv
<1>2. ASSUME UNCHANGED vars PROVE WayInv'
  <2>1. WayInv
    BY DEF OutcomeInv
  <2>q. QED
    BY <1>2, <2>1 DEF WayInv, vars, OnWay, Returned, Delivers, Lost, Running, T, Bottom
<1>q. QED
  BY <1>1, <1>2 DEF Next, Terminated

(* A frame that is run may be removed, and one that is past its sync or is *)
(* given up, when nothing is left below it.                                *)
Leaving(w, f) ==
    \/ pc[w] \in SyncedPC /\ f = Running(w)
    \/ pc[w] = "run" /\ T(w) > 1 /\ f = Running(w)
    \/ /\ pc[w] = "handlerAct" /\ H[w] < T(w) /\ f = Running(w)
       /\ H[w] + 1 < T(w) \/ join[f] = 0
    \/ Abandons(w, f)

(* Its closure has no child then, and no inlet waits.                      *)
LEMMA LeavesNone ==
    ASSUME IInv, TreeInv, ResultInv, NEW w \in Worker, NEW f \in Proc, Leaving(w, f)
    PROVE  /\ \A k \in Proc : parent[k] = f => ~Live(k)
           /\ complete[f] = <<>>
           /\ Abandons(w, f) \/ (pc[w] \in WorkPC /\ H[w] < T(w) /\ f = Running(w))
<1>1. Fresh(f) => (\A k \in Proc : parent[k] = f => ~Live(k)) /\ complete[f] = <<>>
  BY DEF Fresh, Live
<1>2. ASSUME pc[w] \in WorkPC, H[w] < T(w), f = Running(w),
             pc[w] \in SyncedPC \/ (pc[w] = "handlerAct" /\ ~(H[w] + 1 < T(w)) /\ join[f] = 0)
      PROVE  (\A k \in Proc : parent[k] = f => ~Live(k)) /\ complete[f] = <<>>
  <2>1. f = Bottom(w) /\ pc[w] \in PolledPC
    BY <1>2, RunningFrame, WorkFacts DEF PolledPC, SyncedPC, SlowPC
  <2>2. join[f] = 0 /\ complete[f] = <<>>
    BY <1>2, <2>1 DEF TreeInv, JoinInv, ResultInv, CompleteInv
  <2>q. QED
    BY <1>2, <2>1, <2>2, NotStolen, Childless
<1>3. CASE pc[w] \in SyncedPC /\ f = Running(w)
  <2>1. pc[w] \in WorkPC /\ H[w] < T(w)
    BY <1>3, WorkFacts DEF SyncedPC, WorkPC, SlowPC
  <2>q. QED
    BY <1>2, <1>3, <2>1
<1>4. CASE pc[w] = "run" /\ T(w) > 1 /\ f = Running(w)
  <2>1. pc[w] \in WorkPC /\ H[w] < T(w) /\ H[w] \in Nat /\ T(w) \in Nat
    BY <1>4, WorkFacts DEF WorkPC, IInv, StackInv
  <2>2. Fresh(f)
    BY <1>4, <2>1, RunningFrame DEF IInv, FreshInv
  <2>q. QED
    BY <1>1, <1>4, <2>1, <2>2
<1>5. CASE /\ pc[w] = "handlerAct" /\ H[w] < T(w) /\ f = Running(w)
           /\ H[w] + 1 < T(w) \/ join[f] = 0
  <2>1. pc[w] \in WorkPC
    BY <1>5 DEF WorkPC, PopPC
  <2>2. CASE H[w] + 1 < T(w)
    <3>1. Fresh(f)
      BY <1>5, <2>1, <2>2, RunningFrame, WorkFacts DEF IInv, FreshInv
    <3>q. QED
      BY <1>1, <1>5, <2>1, <3>1
  <2>q. QED
    BY <1>2, <1>5, <2>1, <2>2
<1>6. CASE Abandons(w, f)
  <2>1. abort[f] = ABORT_ALL /\ join[f] = 0 /\ status[f] = "READY" /\ pc[w] = "loop" /\ f = cl[w]
    BY <1>6, MarkedAll DEF Abandons
  <2>2. complete[f] = <<>>
    BY <2>1 DEF ResultInv, CompleteInv, Waits, IInv, RootInv
  <2>q. QED
    BY <1>6, <2>1, <2>2, NotStolen, Childless
<1>q. QED
  BY <1>3, <1>4, <1>5, <1>6 DEF Leaving

(* A frame from the head pointer up is the closure's that its worker works *)
(* on, or has none.                                                        *)
LEMMA OnStack ==
    ASSUME IInv, NEW u \in Worker, pc[u] \in WorkPC, NEW i \in H[u] + 1 .. T(u)
    PROVE  \/ i = H[u] + 1 /\ stack[u][i] = Bottom(u) /\ status[stack[u][i]] = "RUNNING"
           \/ i \in H[u] + 2 .. T(u) /\ status[stack[u][i]] = "none"
<1>1. H[u] \in Nat /\ T(u) \in Nat /\ H[u] < T(u) /\ (i = H[u] + 1 \/ i \in H[u] + 2 .. T(u))
  BY WorkFacts
<1>2. CASE i = H[u] + 1
  BY <1>1, <1>2, WorkFacts
<1>3. CASE i \in H[u] + 2 .. T(u)
  BY <1>3 DEF IInv, StackInv
<1>q. QED
  BY <1>1, <1>2, <1>3

(* It is on no stack but on top of its worker's.                           *)
LEMMA LeavesTop ==
    ASSUME IInv, TreeInv, NEW w \in Worker, NEW f \in Proc,
           Abandons(w, f) \/ (pc[w] \in WorkPC /\ H[w] < T(w) /\ f = Running(w)),
           NEW u \in Worker, pc[u] \in WorkPC, NEW i \in H[u] + 1 .. T(u), stack[u][i] = f
    PROVE  u = w /\ i = T(w) /\ ~Abandons(w, f)
<1>1. status[f] \in {"RUNNING", "none"} /\ ~Abandons(w, f)
  BY OnStack DEF Abandons
<1>2. H[w] \in Nat /\ T(w) \in Nat /\ T(w) \in H[w] + 1 .. T(w) /\ stack[w][T(w)] = f
      /\ pc[w] \in WorkPC
  BY <1>1, WorkFacts DEF Running
<1>3. CASE status[f] = "RUNNING"
  <2>1. i = H[u] + 1 /\ f = Bottom(u) /\ T(w) = H[w] + 1 /\ f = Bottom(w)
    BY <1>2, <1>3, OnStack
  <2>q. QED
    BY <1>1, <1>2, <2>1, BottomsApart
<1>4. CASE status[f] = "none"
  <2>1. i \in H[u] + 2 .. T(u) /\ T(w) \in H[w] + 2 .. T(w)
    BY <1>2, <1>4, OnStack
  <2>q. QED
    BY <1>1, <1>2, <2>1 DEF IInv, StacksApart
<1>q. QED
  BY <1>1, <1>3, <1>4

(* So it waits for no result but the one that its worker is to discard.    *)
LEMMA NoneLeft ==
    ASSUME IInv, TreeInv, ResultInv, OutcomeInv, NEW w \in Worker, NEW f \in Proc, Leaving(w, f),
           NEW k \in Proc, parent[k] = f, out[k] = "pending"
    PROVE  pc[w] = "handlerAct" /\ child[w] = k
<1>a. Types /\ FrameInv /\ PendingInv /\ WayInv
  BY DEF IInv, OutcomeInv
<1>b. ~Live(k) /\ complete[f] = <<>>
  BY LeavesNone
<1>c. k # Root /\ k <= created /\ k # None /\ f # None
  <2>1. ~(k \in created + 1 .. MaxProc) /\ created \in Nat /\ k \in 1 .. MaxProc /\ f # None
    BY <1>a, BoundAssumption DEF IInv, ParentInv, Types, Proc, None
  <2>q. QED
    BY <2>1, BoundAssumption DEF IInv, ParentInv, None
<1>1. ASSUME NEW u \in Worker, pc[u] \in WorkPC, NEW i \in H[u] + 1 .. T(u), stack[u][i] = f
      PROVE  u = w /\ i = T(w) /\ ~Abandons(w, f)
  BY <1>1, LeavesNone, LeavesTop
<1>2. ~Waiting(f, k)
  BY <1>b DEF Waiting, Size
<1>3. ASSUME NEW u \in Worker, NEW i \in H[u] + 2 .. T(u), stack[u][i] = k PROVE FALSE
  <2>1. H[u] \in Nat /\ T(u) \in Nat /\ T(u) > H[u] + 1 /\ ~(T(u) = 1)
    BY <1>3, StackFacts DEF IInv
  <2>2. pc[u] \in WorkPC
    <3>1. stack[u] # <<>>
      BY <1>a, <2>1, StackFacts
    <3>q. QED
      BY <2>1, <3>1 DEF IInv, StackInv
  <2>3. i \in 2 .. T(u) /\ i - 1 \in H[u] + 1 .. T(u) /\ i - 1 < T(u)
    BY <1>3, <2>1
  <2>4. stack[u][i - 1] = f
    BY <1>3, <2>3 DEF IInv, StackInv
  <2>5. i - 1 = T(u)
    BY <1>1, <2>2, <2>3, <2>4
  <2>q. QED
    BY <2>1, <2>3, <2>5
<1>4. k \notin alive
  BY <1>3, <1>b, <1>a DEF FrameInv, Framed, Above
<1>5. PICK u \in Worker : pc[u] \in PopPC /\ child[u] = k
  BY <1>a, <1>b, <1>c, <1>2, <1>4 DEF PendingInv, Popped, Pops, Live
<1>6. pc[u] \in WorkPC /\ H[u] \in Nat /\ T(u) \in Nat
  BY <1>5, WorkFacts DEF WorkPC
<1>7. H[u] < T(u)
  <2>1. H[u] >= T(u) => k = Bottom(u)
    BY <1>5, <1>c DEF TreeInv, PoppedInv
  <2>q. QED
    BY <1>b, <1>6, <2>1, WorkFacts DEF Live
<1>8. Running(u) = f /\ T(u) \in H[u] + 1 .. T(u)
  BY <1>a, <1>5, <1>6, <1>7, <1>c DEF WayInv, OnWay
<1>9. u = w /\ ~Abandons(w, f)
  BY <1>1, <1>6, <1>8 DEF Running
<1>q. QED
  BY <1>5, <1>9 DEF Leaving, SyncedPC, PopPC

(* A frame that is removed waits for nothing any more.                     *)
LEMMA GoneInvStep ==
    ASSUME IInv, TreeInv, ResultInv, OutcomeInv, [Next]_vars
    PROVE  GoneInv'
<1>a. Types /\ FrameInv /\ GoneInv
  BY DEF IInv, OutcomeInv
<1>1. ASSUME NEW w \in Worker, Step(w), NEW f \in Proc, f <= created', f \notin alive',
             NEW k \in Proc, parent'[k] = f, out'[k] = "pending"
      PROVE  FALSE
  <2>1. out[k] = "pending"
    BY <1>1, OutSteps
  <2>2. ASSUME NEW c \in Proc, NEW g \in Proc, SpawnDoes(w, c, g) PROVE FALSE
    <3>1. c = created + 1 /\ created' = c /\ created \in Nat /\ c \in alive' /\ f # c
          /\ g = Running(w) /\ pc[w] \in {"run", "synced"} /\ f \in Nat /\ f \notin alive
      BY <1>1, <2>2, BoundAssumption DEF SpawnDoes, Running, Proc
    <3>2. f <= created
      BY <1>1, <3>1
    <3>3. k = c => f = g
      BY <1>1, <1>a, <2>2 DEF SpawnDoes, Types
    <3>4. k # c => parent[k] = f
      BY <1>1, <1>a, <2>2 DEF SpawnDoes, Types
    <3>5. g \in alive
      BY <3>1, RunningFrame, WorkFacts DEF WorkPC, SlowPC, IInv, StackInv
    <3>q. QED
      BY <1>a, <2>1, <3>1, <3>2, <3>3, <3>4, <3>5 DEF GoneInv, NoPendingChild
  <2>3. parent[k] = f /\ f <= created
    BY <1>1, <1>a, <2>2, SpawnSteps
  <2>4. f \in alive
    BY <1>a, <2>1, <2>3 DEF GoneInv, NoPendingChild
  <2>5. ASSUME Leaving(w, f), pc[w] # "handlerAct" PROVE FALSE
    BY <2>1, <2>3, <2>5, NoneLeft
  <2>6. ~ \/ Still(w) \/ Receives(w) \/ CilkExitDoes(w)
          \/ \E c \in Proc : Takes(w, c) \/ HandlerStolenDoes(w, c)
          \/ \E c, g \in Proc : ReturnEnqueueDoes(w, c, g)
    BY <1>1, <2>4 DEF Still, Receives, CilkExitDoes, Takes, HandlerStolenDoes, ReturnEnqueueDoes
  <2>7. ASSUME NEW c \in Proc, Abandons(w, c) PROVE FALSE
    BY <1>1, <2>4, <2>5, <2>7 DEF Abandons, Leaving
  <2>8. ASSUME NEW c \in Proc, ReturnFastDoes(w, c) PROVE FALSE
    BY <1>1, <2>4, <2>5, <2>8 DEF ReturnFastDoes, Leaving, Running
  <2>9. ASSUME NEW c \in Proc, SetResultDoes(w, c) \/ RemoveAndFreeDoes(w) PROVE FALSE
    <3>1. pc[w] \in SyncedPC /\ f = Bottom(w) /\ T(w) = 1 /\ H[w] = 0 /\ pc[w] \in WorkPC
      BY <1>1, <2>4, <2>9 DEF SetResultDoes, RemoveAndFreeDoes, SyncedPC, WorkPC, SlowPC
    <3>2. f = Running(w)
      BY <3>1, WorkFacts DEF Running
    <3>q. QED
      BY <2>5, <3>1, <3>2 DEF Leaving, SyncedPC
  <2>10. ASSUME NEW c \in Proc, NEW g \in Proc, HandlerAbortDoes(w, c, g) PROVE FALSE
    <3>1. /\ pc[w] = "handlerAct" /\ H[w] < T(w) /\ f = Running(w)
          /\ H[w] + 1 < T(w) \/ join[f] = 0
      BY <1>1, <2>4, <2>10 DEF HandlerAbortDoes, AbortWaits, AbortReturns, AbortPops, Running
    <3>2. child[w] = k
      BY <2>1, <2>3, <3>1, NoneLeft DEF Leaving
    <3>3. out'[k] = "discarded"
      BY <1>1, <2>4, <2>10, <3>2 DEF HandlerAbortDoes, AbortWaits, AbortReturns, AbortPops
    <3>q. QED
      BY <1>1, <3>3
  <2>q. QED
    BY <1>1, <2>2, <2>6, <2>7, <2>8, <2>9, <2>10, Kinds DEF Kind
<1>2. ASSUME UNCHANGED vars PROVE GoneInv'
  BY <1>a, <1>2 DEF GoneInv, NoPendingChild, vars
<1>q. QED
  BY <1>1, <1>2 DEF Next, Terminated, GoneInv, NoPendingChild

(* An abort discards, marks and visits only after it was counted.          *)
LEMMA QuietInvStep ==
    ASSUME IInv, TreeInv, OutcomeInv, [Next]_vars
    PROVE  QuietInv'
<1>a. Types /\ QuietInv /\ aborts \in Nat
  BY DEF IInv, OutcomeInv, Types
<1>1. ASSUME NEW w \in Worker, Step(w), aborts' = 0
      PROVE  /\ \A f \in Proc : /\ out'[f] # "discarded" /\ abort'[f] = NO_ABORT
                                /\ ~Waiting(f, None)'
             /\ \A u \in Worker : walk'[u] = <<>> /\ pc'[u] # "abort"
  <2>1. aborts' \in {aborts, aborts + 1}
    <3>1. Still(w) \/ Receives(w) \/ CilkExitDoes(w) \/ RemoveAndFreeDoes(w) => aborts' \in {aborts, aborts + 1}
      BY DEF Still, Receives, CilkExitDoes, RemoveAndFreeDoes
    <3>2. ASSUME NEW c \in Proc, \/ Takes(w, c) \/ Abandons(w, c) \/ ReturnFastDoes(w, c)
                                \/ SetResultDoes(w, c) \/ HandlerStolenDoes(w, c)
          PROVE  aborts' \in {aborts, aborts + 1}
      BY <3>2 DEF Takes, Abandons, ReturnFastDoes, SetResultDoes, HandlerStolenDoes
    <3>3. ASSUME NEW c \in Proc, NEW f \in Proc,
                 ReturnEnqueueDoes(w, c, f) \/ SpawnDoes(w, c, f) \/ HandlerAbortDoes(w, c, f)
          PROVE  aborts' \in {aborts, aborts + 1}
      BY <3>3 DEF ReturnEnqueueDoes, SpawnDoes, HandlerAbortDoes
    <3>q. QED
      BY <1>1, <3>1, <3>2, <3>3, Kinds DEF Kind
  <2>2. aborts = 0 /\ aborts' = aborts
    BY <1>1, <1>a, <2>1
  <2>3. /\ \A f \in Proc : out[f] # "discarded" /\ abort[f] = NO_ABORT /\ ~Waiting(f, None)
        /\ \A u \in Worker : walk[u] = <<>> /\ pc[u] # "abort"
    BY <1>a, <2>2 DEF QuietInv
  <2>4. ~WalkDown(w) /\ ~WalkUp(w)
    BY <2>3 DEF WalkDown, WalkUp
  <2>5. ~InletAborts(w)
    <3>1. ASSUME InletAborts(w) PROVE FALSE
      <4>1. PICK c \in Proc, r \in SUBSET Proc : InletAbortsDoes(w, c, r)
        BY <3>1, InletAbortsEffect
      <4>2. Head(complete[c]) = None
        BY <2>2, <4>1 DEF InletAbortsDoes
      <4>3. Takes(w, c)
        <5>1. \A e \in Proc : Over(e)' <=> Over(e)
          BY <1>a, <4>1, InletOver
        <5>q. QED
          BY <4>1, <5>1 DEF InletAbortsDoes, Takes
      <4>4. Waiting(c, None)
        BY <1>a, <4>2, <4>3, HeadWaits
      <4>q. QED
        BY <2>3, <4>4
    <3>q. QED
      BY <3>1
  <2>6. LockBottom(w) => abort' = abort /\ walk' = walk
    BY <2>3 DEF LockBottom
  <2>7. ASSUME NEW f \in Proc, out'[f] # out[f] PROVE out'[f] # "discarded"
    <3>1. Settles(w, f)
      BY <1>1, <2>7, OutSteps
    <3>2. \A c \in Proc : Takes(w, c) => out'[f] # "discarded"
      BY <1>a, <2>3, <2>7 DEF Takes, Outcome
    <3>3. Receives(w) => out'[f] # "discarded"
      BY <1>a, <2>3, <2>7 DEF Receives, Outcome
    <3>4. ~Abandons(w, f) /\ ~(abort[f] # NO_ABORT)
      BY <2>3 DEF Abandons
    <3>5. ~Discards(w, f)
      BY <2>3, WorkFacts DEF Discards, WorkPC, PopPC
    <3>q. QED
      BY <3>1, <3>2, <3>3, <3>4, <3>5 DEF Settles
  <2>8. ASSUME NEW f \in Proc PROVE abort'[f] = NO_ABORT /\ ~Waiting(f, None)'
    <3>1. abort'[f] = NO_ABORT
      BY <1>1, <2>3, <2>4, <2>5, <2>6, AbortSteps
    <3>2. ASSUME Waiting(f, None)' PROVE FALSE
      <4>1. complete' # complete
        BY <2>3, <3>2 DEF Waiting
      <4>2. \A c \in Proc : ~Takes(w, c)
        BY <1>a, <2>3, <3>2, TakeFacts DEF Takes
      <4>3. ~CilkExitDoes(w)
        BY <2>2, <1>a DEF CilkExitDoes
      <4>4. PICK e \in Proc, c \in Proc : complete' = [complete EXCEPT ![c] = <<e>> \o @]
        BY <1>1, <4>1, <4>2, <4>3, CompleteSteps
      <4>5. None \notin Proc
        BY BoundAssumption DEF Proc, None
      <4>q. QED
        BY <1>a, <2>3, <3>2, <4>4, <4>5, PutFacts
    <3>q. QED
      BY <3>1, <3>2
  <2>9. ASSUME NEW u \in Worker PROVE walk'[u] = <<>> /\ pc'[u] # "abort"
    <3>1. walk' = walk
      BY <1>1, <2>4, <2>5, <2>6, WalkSteps
    <3>2. u # w => pc'[u] # "abort"
      BY <1>1, <1>a, <2>3, OthersStay
    <3>3. pc'[w] # "abort"
      <4>1. Still(w) \/ (\E c \in Proc : Takes(w, c)) => pc'[w] # "abort"
        BY <2>2, <2>3, <1>a DEF Still, Takes
      <4>2. \/ Receives(w) \/ CilkExitDoes(w) \/ RemoveAndFreeDoes(w)
            \/ \E c \in Proc : \/ Abandons(w, c) \/ ReturnFastDoes(w, c)
                               \/ SetResultDoes(w, c) \/ HandlerStolenDoes(w, c)
            => pc'[w] # "abort"
        BY <1>a, <2>3 DEF Receives, CilkExitDoes, RemoveAndFreeDoes, Abandons,
           ReturnFastDoes, SetResultDoes, HandlerStolenDoes, Types
      <4>3. (\E c, f \in Proc : \/ ReturnEnqueueDoes(w, c, f) \/ SpawnDoes(w, c, f)
                                \/ HandlerAbortDoes(w, c, f)) => pc'[w] # "abort"
        BY <1>a, <2>3 DEF ReturnEnqueueDoes, SpawnDoes, HandlerAbortDoes, AbortWaits,
           AbortReturns, AbortPops, Types
      <4>q. QED
        BY <1>1, <4>1, <4>2, <4>3, Kinds DEF Kind
    <3>q. QED
      BY <2>3, <3>1, <3>2, <3>3
  <2>q. QED
    BY <2>3, <2>7, <2>8, <2>9
<1>2. ASSUME UNCHANGED vars PROVE QuietInv'
  BY <1>a, <1>2 DEF QuietInv, vars, Waiting
<1>q. QED
  BY <1>1, <1>2 DEF Next, Terminated, QuietInv

(* The worker that sets done stays where it is until it frees the first   *)
(* closure.                                                               *)
LEMMA DoneInvStep ==
    ASSUME IInv, TreeInv, OutcomeInv, [Next]_vars
    PROVE  DoneInv'
<1>a. Types /\ DoneInv /\ Root \in Proc
  BY BoundAssumption DEF IInv, OutcomeInv, Proc, Root
<1>1. ASSUME NEW w \in Worker, Step(w), done'
      PROVE  status'[Root] = "freed" \/ \E u \in Worker : pc'[u] = "rootEnd"
  <2>1. CASE status[Root] = "freed"
    BY <1>1, <1>a, <2>1, StatusSteps DEF Lives
  <2>2. ASSUME NEW u \in Worker, pc[u] = "rootEnd"
        PROVE  status'[Root] = "freed" \/ pc'[u] = "rootEnd"
    <3>1. CASE u # w
      BY <1>1, <1>a, <2>2, <3>1, OthersStay
    <3>2. CASE u = w
      <4>1. RemoveAndFreeDoes(w) => status'[Root] = "freed"
        BY <1>a DEF RemoveAndFreeDoes, Types
      <4>2. ~Still(w) /\ ~Receives(w) /\ ~CilkExitDoes(w) /\ \A c \in Proc : ~Takes(w, c)
        BY <2>2, <3>2 DEF Still, Receives, CilkExitDoes, Takes, PollPC, PopPC
      <4>3. \A c \in Proc : /\ ~Abandons(w, c) /\ ~ReturnFastDoes(w, c)
                            /\ ~SetResultDoes(w, c) /\ ~HandlerStolenDoes(w, c)
        BY <2>2, <3>2 DEF Abandons, ReturnFastDoes, SetResultDoes, HandlerStolenDoes
      <4>4. \A c, f \in Proc : /\ ~ReturnEnqueueDoes(w, c, f) /\ ~SpawnDoes(w, c, f)
                               /\ ~HandlerAbortDoes(w, c, f)
        BY <2>2, <3>2 DEF ReturnEnqueueDoes, SpawnDoes, HandlerAbortDoes
      <4>q. QED
        BY <1>1, <4>1, <4>2, <4>3, <4>4, Kinds DEF Kind
    <3>q. QED
      BY <3>1, <3>2
  <2>3. CASE ~done
    <3>1. CASE Done(w)
      BY <1>a, <3>1 DEF Done, Goto, Types
    <3>2. done' = done \/ Done(w)
      <4>1. Still(w) \/ Receives(w) \/ CilkExitDoes(w) \/ RemoveAndFreeDoes(w) => done' = done \/ Done(w)
        BY DEF Still, Receives, CilkExitDoes, RemoveAndFreeDoes
      <4>2. ASSUME NEW c \in Proc, \/ Takes(w, c) \/ Abandons(w, c) \/ ReturnFastDoes(w, c)
                                  \/ SetResultDoes(w, c) \/ HandlerStolenDoes(w, c)
            PROVE  done' = done \/ Done(w)
        BY <4>2 DEF Takes, Abandons, ReturnFastDoes, SetResultDoes, HandlerStolenDoes
      <4>3. ASSUME NEW c \in Proc, NEW f \in Proc,
                   ReturnEnqueueDoes(w, c, f) \/ SpawnDoes(w, c, f) \/ HandlerAbortDoes(w, c, f)
            PROVE  done' = done \/ Done(w)
        BY <4>3 DEF ReturnEnqueueDoes, SpawnDoes, HandlerAbortDoes
      <4>q. QED
        BY <1>1, <4>1, <4>2, <4>3, Kinds DEF Kind
    <3>q. QED
      BY <1>1, <2>3, <3>1, <3>2
  <2>q. QED
    BY <1>a, <2>1, <2>2, <2>3 DEF DoneInv
<1>2. ASSUME UNCHANGED vars PROVE DoneInv'
  BY <1>a, <1>2 DEF DoneInv, vars
<1>q. QED
  BY <1>1, <1>2 DEF Next, Terminated, DoneInv

(* It holds at first, when there is the frame of the first closure alone.  *)
LEMMA InitOutcomeInv == Init => OutcomeInv
<1> SUFFICES ASSUME Init PROVE OutcomeInv
  OBVIOUS
<1>a. Types /\ Root \in Proc /\ Root \in Nat /\ Root <= 1
  BY InitIInv, BoundAssumption DEF IInv, Proc, Root
<1>1. \A w \in Worker : pc[w] = "loop"
  BY DEF Init
<1>2. \A p, k \in Proc \cup {None} : p \in Proc => ~Waiting(p, k)
  BY DEF Init, Waiting, Size
<1>3. FrameInv
  BY <1>1, <1>a DEF Init, FrameInv, Over, Live, PopPC
<1>4. PendingInv
  <2>1. \A k \in Proc \ {Root} : ~(k <= created)
    BY BoundAssumption DEF Init, Proc, Root
  <2>q. QED
    BY <1>1, <2>1 DEF PendingInv
<1>5. EntryInv
  BY <1>2 DEF EntryInv
<1>6. WayInv
  BY <1>1 DEF Init, WayInv, OnWay, PopPC
<1>7. GoneInv
  <2>1. \A f \in Proc : f <= created => f \in alive
    BY BoundAssumption DEF Init, Proc, Root
  <2>q. QED
    BY <2>1 DEF GoneInv
<1>8. QuietInv
  BY <1>1, <1>2 DEF Init, QuietInv
<1>9. DoneInv
  BY DEF Init, DoneInv
<1>q. QED
  BY <1>3, <1>4, <1>5, <1>6, <1>7, <1>8, <1>9 DEF OutcomeInv

(* In every state frames and results are as OutcomeInv says: what is not   *)
(* settled is somewhere on its way, beside the three other invariants.     *)
THEOREM OutcomeInvariant == Spec => [](IInv /\ TreeInv /\ ResultInv /\ OutcomeInv)
<1>1. IInv /\ TreeInv /\ ResultInv /\ OutcomeInv /\ [Next]_vars => OutcomeInv'
  BY FrameInvStep, PendingInvStep, EntryInvStep, WayInvStep, GoneInvStep, QuietInvStep,
     DoneInvStep DEF OutcomeInv
<1>q. QED
  BY <1>1, InitOutcomeInv, ResultInvariant, PTL DEF Spec

(* A sync is not passed before the results of all children are settled:   *)
(* the frame that is past it, or gone, waits for none (Scheduler's        *)
(* SyncWaits).                                                            *)
THEOREM SyncWaitsHolds == Spec => []SyncWaits
<1>1. ASSUME IInv, TreeInv, ResultInv, OutcomeInv PROVE SyncWaits
  <2>1. ASSUME NEW w \in Worker, pc[w] = "synced" PROVE NoPendingChild(Running(w))
    <3>1. pc[w] \in SyncedPC /\ pc[w] \in WorkPC /\ H[w] < T(w)
      BY <1>1, <2>1, WorkFacts DEF SyncedPC, WorkPC, SlowPC
    <3>2. Running(w) \in Proc /\ Leaving(w, Running(w))
      BY <1>1, <3>1, RunningFrame DEF Leaving
    <3>q. QED
      BY <1>1, <2>1, <3>2, NoneLeft DEF NoPendingChild
  <2>2. ASSUME NEW f \in 1 .. created, f \notin alive PROVE NoPendingChild(f)
    <3>1. f \in Proc /\ f <= created
      BY <1>1, BoundAssumption DEF IInv, Types, Proc
    <3>q. QED
      BY <1>1, <2>2, <3>1 DEF OutcomeInv, GoneInv
  <2>q. QED
    BY <2>1, <2>2 DEF SyncWaits
<1>q. QED
  BY <1>1, OutcomeInvariant, PTL

(* When invoke_main is past its sync no other closure is left, and no     *)
(* worker is in a procedure but the one that waits there.                 *)
LEMMA DoneAlone ==
    ASSUME IInv, TreeInv, ResultInv, OutcomeInv, done
    PROVE  /\ \A k \in Proc \ {Root} : ~Live(k)
           /\ \A u \in Worker : pc[u] \in WorkPC => pc[u] = "rootEnd"
           /\ \/ status[Root] = "freed"
              \/ status[Root] = "RUNNING" /\ complete[Root] = <<>>
<1>a. Root \in Proc
  BY BoundAssumption DEF Proc, Root
<1>1. ASSUME NEW u \in Worker, pc[u] \in WorkPC PROVE Bottom(u) \in Proc /\ Live(Bottom(u))
  BY <1>1, WorkFacts DEF Live
<1>2. CASE status[Root] = "freed"
  BY <1>a, <1>1, <1>2 DEF TreeInv, LiveInv, Live
<1>3. ASSUME NEW w \in Worker, pc[w] = "rootEnd"
      PROVE  /\ \A k \in Proc \ {Root} : ~Live(k)
             /\ \A u \in Worker : pc[u] \in WorkPC => pc[u] = "rootEnd"
             /\ status[Root] = "RUNNING" /\ complete[Root] = <<>>
  <2>1. /\ pc[w] \in WorkPC /\ pc[w] \in SyncedPC /\ pc[w] \in PolledPC
        /\ T(w) = 1 /\ H[w] = 0 /\ status[Bottom(w)] = "RUNNING"
    BY <1>3, WorkFacts DEF WorkPC, SlowPC, SyncedPC, PolledPC
  <2>2. Bottom(w) = Root
    BY <1>3, <2>1, WorkFacts DEF IInv, StackInv, Running
  <2>3. join[Root] = 0 /\ complete[Root] = <<>>
    BY <2>1, <2>2 DEF TreeInv, JoinInv, ResultInv, CompleteInv
  <2>4. \A k \in Proc \ {Root} : ~Live(k)
    BY <1>a, <2>1, <2>2, <2>3, NotStolen, Childless, RootLast DEF TreeInv
  <2>5. ASSUME NEW u \in Worker, pc[u] \in WorkPC PROVE u = w
    BY <1>1, <2>1, <2>2, <2>4, <2>5, BottomsApart
  <2>q. QED
    BY <1>3, <2>1, <2>2, <2>3, <2>4, <2>5
<1>q. QED
  BY <1>2, <1>3 DEF OutcomeInv, DoneInv, Live

(* So nothing is under way: no frame is left, every result is settled, and *)
(* no worker has a closure in hand.                                        *)
LEMMA DoneClean ==
    ASSUME IInv, TreeInv, ResultInv, OutcomeInv, done
    PROVE  DoneIsDone
<1>a. /\ Types /\ Root \in Proc /\ Root = 1
      /\ \A k \in Proc \ {Root} : ~Live(k)
      /\ \A u \in Worker : pc[u] \in WorkPC => pc[u] = "rootEnd"
      /\ \/ status[Root] = "freed"
         \/ status[Root] = "RUNNING" /\ complete[Root] = <<>>
  BY DoneAlone, BoundAssumption DEF IInv, Proc, Root
<1>b. /\ created \in Nat /\ created <= MaxProc /\ MaxProc \in Nat
      /\ 2 .. created \subseteq Proc \ {Root} /\ None \notin Proc
  BY <1>a, BoundAssumption DEF IInv, Types, Proc, None
<1>1. ASSUME NEW f \in alive PROVE f = Root
  <2>1. f \in Proc /\ (Live(f) \/ Framed(f))
    BY <1>a DEF Types, OutcomeInv, FrameInv
  <2>2. ASSUME NEW u \in Worker, NEW i \in H[u] + 2 .. T(u) PROVE FALSE
    <3>1. T(u) > 1 /\ ~(T(u) = 1) /\ stack[u] # <<>>
      BY <1>a, <2>2, StackFacts
    <3>2. pc[u] = "rootEnd"
      BY <1>a, <3>1 DEF IInv, StackInv
    <3>q. QED
      BY <3>1, <3>2 DEF IInv, StackInv, SlowPC
  <2>q. QED
    BY <1>a, <2>1, <2>2 DEF Framed, Above
<1>2. ASSUME NEW f \in 2 .. created, out[f] = "pending" PROVE FALSE
  <2>1. f \in Proc \ {Root} /\ f <= created /\ ~Live(f) /\ f \notin alive
    BY <1>a, <1>b, <1>1
  <2>2. ~Popped(f)
    BY <1>a DEF Popped, Pops, PopPC, WorkPC
  <2>3. parent[f] \in Proc
    <3>1. parent[f] \in 1 .. f - 1 /\ f \in Nat
      BY DEF IInv, ParentInv
    <3>q. QED
      BY <1>b, <2>1, <3>1 DEF Proc
  <2>4. complete[parent[f]] # <<>>
    BY <1>2, <2>1, <2>2 DEF OutcomeInv, PendingInv, Live, Waiting, Size
  <2>5. Live(parent[f])
    BY <2>3, <2>4 DEF ResultInv, CompleteInv, Waits, Live
  <2>q. QED
    BY <1>a, <2>3, <2>4, <2>5 DEF Live
<1>3. ASSUME NEW w \in Worker PROVE cl[w] \in {None, Root} /\ child[w] = None
  <2>1. ASSUME cl[w] # None PROVE cl[w] = Root
    <3>1. cl[w] \in Proc /\ status[cl[w]] # "freed"
      BY <1>a, <2>1, InHandLives DEF Types
    <3>2. status[cl[w]] # "none" \/ cl[w] = Root
      BY <2>1, HandCases, InPlaceStatus, ReturnFacts
    <3>q. QED
      BY <1>a, <3>1, <3>2 DEF Live
  <2>2. ASSUME child[w] # None PROVE FALSE
    <3>1. pc[w] \in AbsentPC
      BY <1>a, <2>2 DEF IInv, ChildInv, AbsentPC, ReturnPC, PopPC, WorkPC
    <3>q. QED
      BY <1>a, <3>1, AbsentFacts
  <2>q. QED
    BY <2>1, <2>2
<1>4. ASSUME NEW w \in Worker, pc[w] = "exit" PROVE cl[w] = None /\ stack[w] = <<>>
  <2>1. stack[w] = <<>>
    BY <1>4 DEF IInv, StackInv, WorkPC, PopPC, SlowPC
  <2>2. ASSUME cl[w] # None PROVE FALSE
    BY <1>3, <1>4, <1>a, <2>2 DEF IInv, InHandInv, Live
  <2>q. QED
    BY <2>1, <2>2
<1>q. QED
  BY <1>a, <1>b, <1>1, <1>2, <1>3, <1>4 DEF DoneIsDone

(* When done is set every procedure has finished, and no worker that has  *)
(* left the scheduler has anything in hand (Scheduler's DoneIsDone).      *)
THEOREM DoneIsDoneHolds == Spec => []DoneIsDone
<1>1. IInv /\ TreeInv /\ ResultInv /\ OutcomeInv => DoneIsDone
  BY DoneClean DEF DoneIsDone
<1>q. QED
  BY <1>1, OutcomeInvariant, PTL

(* A closure that is polled has its frame: it is ready, or waits, or its  *)
(* worker has it above the head pointer.                                  *)
LEMMA PolledFrame ==
    ASSUME IInv, TreeInv, ResultInv, NEW w \in Worker, NEW c \in Proc, Takes(w, c)
    PROVE  c \in alive
<1>1. c = cl[w] /\ pc[w] \in PollPC /\ complete[c] # <<>>
  BY DEF Takes
<1>2. status[c] \in {"READY", "RUNNING", "SUSPENDED"}
  BY <1>1 DEF ResultInv, CompleteInv, Waits
<1>3. status[c] \in {"READY", "SUSPENDED"} => c \in alive
  BY DEF TreeInv, AliveInv
<1>4. CASE pc[w] = "setup"
  BY <1>1, <1>4 DEF TreeInv, AliveInv
<1>5. CASE pc[w] = "return"
  BY <1>1, <1>5, ReturnFacts, ParentAlive DEF ReturnPC
<1>6. CASE pc[w] = "exitPoll"
  BY <1>1, <1>2, <1>3, <1>6 DEF IInv, InHandInv
<1>7. CASE pc[w] \in {"syncPoll", "abortPoll", "handlerPoll"}
  <2>1. c = Bottom(w) \/ status[c] = "READY"
    BY <1>1, <1>7 DEF IInv, InHandInv
  <2>2. pc[w] \in WorkPC
    BY <1>7 DEF WorkPC, PopPC, SlowPC
  <2>3. CASE c = Bottom(w)
    <3>1. ~(H[w] >= 1)
      BY <1>1, <2>2, <2>3 DEF IInv, FreshInv, Fresh
    <3>2. H[w] < T(w)
      BY <2>2, <3>1, WorkFacts
    <3>q. QED
      BY <2>2, <2>3, <3>2 DEF TreeInv, AliveInv
  <2>q. QED
    BY <1>3, <2>1, <2>3
<1>q. QED
  BY <1>1, <1>4, <1>5, <1>6, <1>7 DEF PollPC

(* A result that is settled was not, and what is delivered goes to a frame *)
(* that is there.                                                          *)
LEMMA SettledOnce ==
    ASSUME IInv, TreeInv, ResultInv, OutcomeInv, NEW w \in Worker, Step(w),
           NEW f \in Proc, out'[f] # out[f]
    PROVE  /\ out[f] = "pending"
           /\ out'[f] = "delivered" => parent[f] \in alive /\ out[parent[f]] = "pending"
<1>a. Types /\ FrameInv /\ EntryInv /\ WayInv
  BY DEF IInv, OutcomeInv
<1>b. Settles(w, f)
  BY OutSteps
<1>1. ASSUME NEW c \in Proc, Takes(w, c), f = Head(complete[c])
      PROVE  out[f] = "pending" /\ parent[f] \in alive /\ out[parent[f]] = "pending"
  <2>1. parent[f] = c /\ out[f] = "pending"
    BY <1>1, <1>a, HeadWaits DEF EntryInv
  <2>q. QED
    BY <1>1, <1>a, <2>1, PolledFrame DEF FrameInv
<1>2. CASE Abandons(w, f)
  <2>1. f \in alive
    BY <1>2 DEF Abandons, TreeInv, AliveInv
  <2>2. out'[f] = "discarded"
    BY <1>2, <1>a DEF Abandons, Outcome, Types
  <2>q. QED
    BY <1>a, <2>1, <2>2 DEF FrameInv
<1>3. CASE pc[w] = "returnChild" /\ f = child[w] /\ out'[f] = "discarded"
  <2>1. ~Returned(f)
    BY <1>3, ReturnedStays
  <2>2. status[f] = "RETURNING"
    BY <1>3 DEF IInv, ChildInv, ReturnPC
  <2>q. QED
    BY <1>3, <1>a, <2>1, <2>2 DEF WayInv, Lost
<1>4. CASE Pops(w, f) /\ H[w] < T(w) /\ (Receives(w) \/ Discards(w, f))
  <2>1. pc[w] \in PopPC /\ pc[w] \in WorkPC /\ child[w] = f /\ f # None /\ H[w] < T(w)
    BY <1>4, BoundAssumption DEF Pops, Proc, None, WorkPC
  <2>2. /\ parent[f] = Running(w)
        /\ out[f] = "pending" \/ (Lost(f, Bottom(w)) /\ signalled[w])
    BY <1>a, <2>1 DEF WayInv, OnWay
  <2>3. parent[f] \in alive /\ out[parent[f]] = "pending"
    BY <1>a, <2>1, <2>2, RunningFrame DEF FrameInv
  <2>4. out[f] = "pending"
    BY <1>4, <2>2 DEF Receives, Discards, Lost, ABORT_ALL, NO_ABORT
  <2>q. QED
    BY <2>3, <2>4
<1>5. CASE f = Running(w) /\ Discards(w, f)
  <2>1. f \in alive
    BY <1>5, RunningFrame DEF Discards, WorkPC, PopPC
  <2>q. QED
    BY <1>5, <1>a, <2>1 DEF FrameInv, Discards
<1>q. QED
  BY <1>b, <1>1, <1>2, <1>3, <1>4, <1>5 DEF Settles

(* A result is delivered or discarded once, it is delivered only to a     *)
(* parent that is still there, and without an abort nothing is discarded  *)
(* (Scheduler's ResultOnce).                                              *)
THEOREM ResultOnceHolds == Spec => ResultOnce
<1>1. ASSUME IInv, TreeInv, ResultInv, OutcomeInv, [Next]_vars
      PROVE  [\A f \in Proc :
                /\ out'[f] # out[f] =>
                      /\ out[f] = "pending"
                      /\ out'[f] = "delivered" =>
                            parent[f] \in alive /\ out[parent[f]] = "pending"
                /\ aborts' = 0 => out'[f] # "discarded" /\ abort'[f] = NO_ABORT]_vars
  <2>1. ASSUME NEW w \in Worker, Step(w), NEW f \in Proc, out'[f] # out[f]
        PROVE  /\ out[f] = "pending"
               /\ out'[f] = "delivered" => parent[f] \in alive /\ out[parent[f]] = "pending"
    BY <1>1, <2>1, SettledOnce
  <2>2. ASSUME NEW f \in Proc, aborts' = 0 PROVE out'[f] # "discarded" /\ abort'[f] = NO_ABORT
    BY <1>1, <2>2, QuietInvStep DEF QuietInv
  <2>q. QED
    BY <1>1, <2>1, <2>2 DEF Next, Terminated, vars
<1>q. QED
  BY <1>1, OutcomeInvariant, PTL DEF Spec, ResultOnce
============================================================================
