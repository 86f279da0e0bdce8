-------------------------- MODULE SchedulerFrames ---------------------------
(* That the scheduler's steps keep the parts of the invariant about frames *)
(* and pointers: the stacks, the child beside the hand, the closure that a *)
(* worker works on, and the one that it has in hand.                       *)
EXTENDS SchedulerInvariant

(* A stack gets a child of its top frame, loses its top, or begins with    *)
(* the closure set up; H moves over one frame, whose child gets a closure. *)
LEMMA StackInvStep ==
    ASSUME IInv, [Next]_vars
    PROVE  StackInv'
<1>a. Types /\ Types'
  BY TypesStep DEF IInv
<1>b. created \in Nat \ {0} /\ created' \in Nat /\ None \notin Proc /\ Root \in Proc
  BY <1>a, BoundAssumption DEF Types, Proc, None, Root
<1>c. \A u \in Worker : pc[u] \in {"setup", "add"} =>
         /\ cl[u] \in Proc /\ status[cl[u]] = "RUNNING" /\ cache[cl[u]] = u
         /\ \A v \in Worker : pc[v] \in WorkPC => Bottom(v) # cl[u]
         /\ \A v \in Worker \ {u} : pc[v] \in HandPC => cl[v] # cl[u]
  BY SetupFacts
<1>s. \A u \in Worker : StackShape(u) /\ StackAtPC(u)
  BY DEF IInv, StackInv, StackShape, StackAtPC
<1>t. \A u \in Worker :
         /\ T(u) = Size(stack[u]) /\ T(u)' = Size(stack'[u])
         /\ T(u) \in Nat /\ T(u)' \in Nat /\ H[u] \in Nat /\ H'[u] \in Nat
         /\ stack[u] = <<>> <=> T(u) = 0
         /\ stack'[u] = <<>> <=> T(u)' = 0
         /\ Running(u) = stack[u][T(u)] /\ Running(u)' = stack'[u][T(u)']
         /\ \A i \in 1 .. T(u) : stack[u][i] \in Proc
  <2> SUFFICES ASSUME NEW u \in Worker
               PROVE  /\ T(u) = Size(stack[u]) /\ T(u)' = Size(stack'[u])
                      /\ T(u) \in Nat /\ T(u)' \in Nat /\ H[u] \in Nat /\ H'[u] \in Nat
                      /\ stack[u] = <<>> <=> T(u) = 0
                      /\ stack'[u] = <<>> <=> T(u)' = 0
                      /\ Running(u) = stack[u][T(u)] /\ Running(u)' = stack'[u][T(u)']
                      /\ \A i \in 1 .. T(u) : stack[u][i] \in Proc
    OBVIOUS
  <2>1. /\ stack[u] \in Seq(Proc) /\ stack'[u] \in Seq(Proc)
        /\ H[u] \in Nat /\ H'[u] \in Nat
    BY <1>a DEF Types
  <2>2. T(u) = Size(stack[u]) /\ T(u)' = Size(stack'[u])
    BY DEF T, Size
  <2>3. Running(u) = stack[u][T(u)] /\ Running(u)' = stack'[u][T(u)']
    BY DEF Running
  <2>q. QED
    BY <2>1, <2>2, <2>3, SeqFacts
<1>h. ASSUME NEW w \in Worker,
             \A u \in Worker \ {w} : /\ stack'[u] = stack[u] /\ H'[u] = H[u]
                                     /\ pc'[u] = pc[u] /\ cl'[u] = cl[u],
             \A d \in Proc : status[d] = "none" => status'[d] = "none",
             \A u \in Worker \ {w} : pc[u] \in {"setup", "add"}
                => status'[cl[u]] = "RUNNING" /\ cache'[cl[u]] = u,
             created' >= created /\ \A d \in 1 .. created : parent'[d] = parent[d],
             StackShape(w)', StackAtPC(w)'
      PROVE  StackInv'
  <2>1. ASSUME NEW u \in Worker, u # w PROVE StackShape(u)'
    <3>1. /\ stack'[u] = stack[u] /\ H'[u] = H[u] /\ T(u)' = T(u) /\ H[u] \in Nat
          /\ T(u) \in Nat
      BY <1>h, <1>t, <2>1
    <3>2. \A i \in 1 .. T(u) : stack[u][i] \in 1 .. created /\ stack[u][i] \in Proc
      BY <1>s, <1>t DEF StackShape
    <3>3. /\ \A i \in 2 .. T(u) : i \in 1 .. T(u)
          /\ \A i \in H[u] + 2 .. T(u) : i \in 1 .. T(u)
      BY <3>1
    <3>4. \A i \in 1 .. T(u) : stack'[u][i] \in 1 .. created'
      BY <1>b, <1>h, <3>1, <3>2
    <3>5. \A i \in 2 .. T(u) : parent'[stack'[u][i]] = stack'[u][i - 1]
      BY <1>h, <1>s, <3>1, <3>2, <3>3 DEF StackShape
    <3>6. \A i \in H[u] + 2 .. T(u) : status'[stack'[u][i]] = "none"
      BY <1>h, <1>s, <3>1, <3>2, <3>3 DEF StackShape
    <3>q. QED
      BY <3>1, <3>4, <3>5, <3>6 DEF StackShape
  <2>2. ASSUME NEW u \in Worker, u # w PROVE StackAtPC(u)'
    <3>1. /\ stack'[u] = stack[u] /\ H'[u] = H[u] /\ T(u)' = T(u)
          /\ pc'[u] = pc[u] /\ cl'[u] = cl[u] /\ Running(u)' = Running(u)
          /\ StackAtPC(u)
      BY <1>h, <1>s, <1>t, <2>2
    <3>2. pc[u] \in {"setup", "add"} => status'[cl[u]] = "RUNNING" /\ cache'[cl[u]] = u
      BY <1>h, <2>2
    <3>q. QED
      BY <3>1, <3>2 DEF StackAtPC
  <2>q. QED
    BY <1>h, <2>1, <2>2 DEF StackInv, StackShape, StackAtPC
<1>x. ASSUME NEW w \in Worker, UNCHANGED <<stack, H>>,
             \A d \in Proc : status[d] = "none" => status'[d] = "none",
             created' >= created /\ \A d \in 1 .. created : parent'[d] = parent[d]
      PROVE  StackShape(w)'
  <2>1. stack'[w] = stack[w] /\ H'[w] = H[w] /\ T(w)' = T(w) /\ H[w] \in Nat /\ T(w) \in Nat
    BY <1>x, <1>t
  <2>2. \A i \in 1 .. T(w) : stack[w][i] \in 1 .. created /\ stack[w][i] \in Proc
    BY <1>s, <1>t DEF StackShape
  <2>3. /\ \A i \in 2 .. T(w) : i \in 1 .. T(w)
        /\ \A i \in H[w] + 2 .. T(w) : i \in 1 .. T(w)
    BY <2>1
  <2>4. \A i \in 1 .. T(w) : stack'[w][i] \in 1 .. created'
    BY <1>b, <1>x, <2>1, <2>2
  <2>5. \A i \in 2 .. T(w) : parent'[stack'[w][i]] = stack'[w][i - 1]
    BY <1>s, <1>x, <2>1, <2>2, <2>3 DEF StackShape
  <2>6. \A i \in H[w] + 2 .. T(w) : status'[stack'[w][i]] = "none"
    BY <1>s, <1>x, <2>1, <2>2, <2>3 DEF StackShape
  <2>q. QED
    BY <2>1, <2>4, <2>5, <2>6 DEF StackShape
<1>y. ASSUME NEW w \in Worker, Shortened(stack, stack', w), UNCHANGED H,
             \A d \in Proc : status[d] = "none" => status'[d] = "none",
             created' >= created /\ \A d \in 1 .. created : parent'[d] = parent[d]
      PROVE  StackShape(w)'
  <2>1. /\ H'[w] = H[w] /\ T(w)' = T(w) - 1 /\ H[w] \in Nat /\ T(w) \in Nat
        /\ T(w)' \in Nat
        /\ \A i \in 1 .. T(w)' : stack'[w][i] = stack[w][i]
    BY <1>y, <1>t DEF Shortened
  <2>2. \A i \in 1 .. T(w) : stack[w][i] \in 1 .. created /\ stack[w][i] \in Proc
    BY <1>s, <1>t DEF StackShape
  <2>3. /\ \A i \in 1 .. T(w)' : i \in 1 .. T(w)
        /\ \A i \in 2 .. T(w)' : i \in 1 .. T(w)' /\ i \in 2 .. T(w) /\ i - 1 \in 1 .. T(w)'
        /\ \A i \in H[w] + 2 .. T(w)' : i \in 1 .. T(w)' /\ i \in H[w] + 2 .. T(w)
    BY <2>1
  <2>4. \A i \in 1 .. T(w)' : stack'[w][i] \in 1 .. created'
    BY <1>b, <1>y, <2>1, <2>2, <2>3
  <2>5. \A i \in 2 .. T(w)' : parent'[stack'[w][i]] = stack'[w][i - 1]
    BY <1>s, <1>y, <2>1, <2>2, <2>3 DEF StackShape
  <2>6. \A i \in H[w] + 2 .. T(w)' : status'[stack'[w][i]] = "none"
    BY <1>s, <1>y, <2>1, <2>2, <2>3 DEF StackShape
  <2>q. QED
    BY <2>1, <2>4, <2>5, <2>6 DEF StackShape
<1>z. ASSUME NEW w \in Worker, stack'[w] = <<>>
      PROVE  StackShape(w)'
  <2>1. T(w)' = 0 /\ H'[w] \in Nat
    BY <1>t, <1>z
  <2>q. QED
    BY <2>1 DEF StackShape
<1>m. ASSUME NEW w \in Worker, NEW l, pc' = [pc EXCEPT ![w] = l],
             l \in WorkPC <=> pc[w] \in WorkPC,
             l \in SlowPC <=> pc[w] \in SlowPC,
             l = "setup" <=> pc[w] = "setup",
             l = "add" <=> pc[w] = "add",
             l = "run" <=> pc[w] = "run",
             l = "exitPoll" <=> pc[w] = "exitPoll",
             l = "result" <=> pc[w] = "result",
             l = "setResult" <=> pc[w] = "setResult",
             l = "rootEnd" <=> pc[w] = "rootEnd",
             UNCHANGED <<stack, H, cl, status, cache, created, parent>>
      PROVE  StackInv'
  <2>1. \A u \in Worker \ {w} : /\ stack'[u] = stack[u] /\ H'[u] = H[u]
                                /\ pc'[u] = pc[u] /\ cl'[u] = cl[u]
    BY <1>a, <1>m DEF Types
  <2>2. \A u \in Worker \ {w} : pc[u] \in {"setup", "add"}
           => status'[cl[u]] = "RUNNING" /\ cache'[cl[u]] = u
    BY <1>c, <1>m
  <2>3. StackShape(w)'
    BY <1>b, <1>m, <1>x
  <2>4. StackAtPC(w)'
    <3>1. /\ stack'[w] = stack[w] /\ H'[w] = H[w] /\ T(w)' = T(w) /\ cl'[w] = cl[w]
          /\ Running(w)' = Running(w) /\ StackAtPC(w) /\ pc'[w] = l
      <4>1. pc'[w] = l
        BY <1>a, <1>m DEF Types
      <4>2. stack'[w] = stack[w] /\ H'[w] = H[w] /\ cl'[w] = cl[w]
        BY <1>m
      <4>q. QED
        BY <1>s, <1>t, <4>1, <4>2
    <3>q. QED
      BY <1>m, <3>1 DEF StackAtPC
  <2>q. QED
    BY <1>b, <1>h, <1>m, <2>1, <2>2, <2>3, <2>4
<1>f. ASSUME UNCHANGED <<stack, H, pc, cl, status, cache, created, parent>>
      PROVE  StackInv'
BY <1>f DEF IInv, StackInv, T, Running
<1>g. ASSUME NEW w \in Worker, NEW l, pc' = [pc EXCEPT ![w] = l],
             l \in WorkPC <=> pc[w] \in WorkPC,
             l \in SlowPC <=> pc[w] \in SlowPC,
             l = "setup" <=> pc[w] = "setup",
             l = "add" <=> pc[w] = "add",
             l = "run" <=> pc[w] = "run",
             l = "exitPoll" <=> pc[w] = "exitPoll",
             l = "result" <=> pc[w] = "result",
             l = "setResult" <=> pc[w] = "setResult",
             l = "rootEnd" <=> pc[w] = "rootEnd",
             UNCHANGED <<stack, H, cl, status, cache, created, parent>>
      PROVE  StackInv'
BY <1>g, <1>m
<1>1. ASSUME NEW w \in Worker, LeaveScheduler(w) PROVE StackInv'
  BY <1>g, <1>1 DEF LeaveScheduler, program, results, state, tree, locks,
     caches, Goto, WorkPC, PopPC, SlowPC
<1>2. ASSUME NEW w \in Worker, TakeOwn(w) PROVE StackInv'
  <2>1. TakeOwnDoes(w)
    BY <1>2, TakeOwnEffect
  <2>2. /\ pc[w] = "loop" /\ cl[w] = None
        /\ UNCHANGED <<stack, H, status, cache, created, parent>>
    BY <2>1 DEF TakeOwnDoes
  <2>3. /\ "loop" \notin WorkPC /\ "loop" \notin SlowPC
        /\ "steal" \notin WorkPC /\ "steal" \notin SlowPC
    BY <2>2 DEF WorkPC, PopPC, SlowPC
  <2>4. ASSUME pc' = [pc EXCEPT ![w] = "steal"],
               UNCHANGED <<cl>>
        PROVE  StackInv'
    <3>1. \A u \in Worker \ {w} : /\ stack'[u] = stack[u] /\ H'[u] = H[u]
                                  /\ pc'[u] = pc[u] /\ cl'[u] = cl[u]
      BY <1>a, <2>2, <2>3, <2>4 DEF Types, Shortened, Extended
    <3>2. \A d \in Proc : status[d] = "none" => status'[d] = "none"
      BY <1>a, <1>b, <2>2, <2>3, <2>4 DEF Types
    <3>3. \A u \in Worker \ {w} : pc[u] \in {"setup", "add"}
             => status'[cl[u]] = "RUNNING" /\ cache'[cl[u]] = u
      BY <1>a, <1>c, <2>2, <2>3, <2>4 DEF Types
    <3>4. created' >= created /\ \A d \in 1 .. created : parent'[d] = parent[d]
      BY <1>a, <1>b, <2>2, <2>3, <2>4 DEF Types
    <3>5. StackShape(w)'
      BY <1>a, <1>x, <1>y, <1>z, <3>2, <3>4, <2>2, <2>3, <2>4 DEF Types
    <3>6. StackAtPC(w)'
      BY <1>a, <1>b, <1>s, <1>t, <2>2, <2>3, <2>4 DEF Types, StackAtPC,
         Shortened, Exception
    <3>q. QED
      BY <1>h, <2>2, <3>1, <3>2, <3>3, <3>4, <3>5, <3>6
  <2>5. ASSUME NEW c \in Proc, cl' = [cl EXCEPT ![w] = c],
               UNCHANGED <<pc>>
        PROVE  StackInv'
    <3>1. \A u \in Worker \ {w} : /\ stack'[u] = stack[u] /\ H'[u] = H[u]
                                  /\ pc'[u] = pc[u] /\ cl'[u] = cl[u]
      BY <1>a, <2>2, <2>3, <2>5 DEF Types, Shortened, Extended
    <3>2. \A d \in Proc : status[d] = "none" => status'[d] = "none"
      BY <1>a, <1>b, <2>2, <2>3, <2>5 DEF Types
    <3>3. \A u \in Worker \ {w} : pc[u] \in {"setup", "add"}
             => status'[cl[u]] = "RUNNING" /\ cache'[cl[u]] = u
      BY <1>a, <1>c, <2>2, <2>3, <2>5 DEF Types
    <3>4. created' >= created /\ \A d \in 1 .. created : parent'[d] = parent[d]
      BY <1>a, <1>b, <2>2, <2>3, <2>5 DEF Types
    <3>5. StackShape(w)'
      BY <1>a, <1>x, <1>y, <1>z, <3>2, <3>4, <2>2, <2>3, <2>5 DEF Types
    <3>6. StackAtPC(w)'
      BY <1>a, <1>b, <1>s, <1>t, <2>2, <2>3, <2>5 DEF Types, StackAtPC,
         Shortened, Exception
    <3>q. QED
      BY <1>h, <2>2, <3>1, <3>2, <3>3, <3>4, <3>5, <3>6
  <2>q. QED
    BY <2>1, <2>2, <2>4, <2>5 DEF TakeOwnDoes
<1>3. ASSUME NEW w \in Worker, StealLockDeque(w) PROVE StackInv'
  <2>2. /\ pc[w] = "steal" /\ pc' = [pc EXCEPT ![w] = "stealDeque"]
        /\ UNCHANGED <<stack, H, status, cache, created, parent>>
    BY <1>3 DEF StealLockDeque, program, results, state, tree, caches, Goto,
       LockDeque, Peek, Hand
  <2>3. /\ "steal" \notin WorkPC /\ "steal" \notin SlowPC
        /\ "stealDeque" \notin WorkPC /\ "stealDeque" \notin SlowPC
    BY <2>2 DEF WorkPC, PopPC, SlowPC
  <2>4. ASSUME NEW v \in Worker \ {w},
               cl' = [cl EXCEPT ![w] = IF deque[v] = <<>> THEN None ELSE Head(deque[v])]
        PROVE  StackInv'
    <3>1. \A u \in Worker \ {w} : /\ stack'[u] = stack[u] /\ H'[u] = H[u]
                                  /\ pc'[u] = pc[u] /\ cl'[u] = cl[u]
      BY <1>a, <2>2, <2>3, <2>4 DEF Types, Shortened, Extended
    <3>2. \A d \in Proc : status[d] = "none" => status'[d] = "none"
      BY <1>a, <1>b, <2>2, <2>3, <2>4 DEF Types
    <3>3. \A u \in Worker \ {w} : pc[u] \in {"setup", "add"}
             => status'[cl[u]] = "RUNNING" /\ cache'[cl[u]] = u
      BY <1>a, <1>c, <2>2, <2>3, <2>4 DEF Types
    <3>4. created' >= created /\ \A d \in 1 .. created : parent'[d] = parent[d]
      BY <1>a, <1>b, <2>2, <2>3, <2>4 DEF Types
    <3>5. StackShape(w)'
      BY <1>a, <1>x, <1>y, <1>z, <3>2, <3>4, <2>2, <2>3, <2>4 DEF Types
    <3>6. StackAtPC(w)'
      <4>1. /\ T(w)' = T(w) /\ Running(w)' = Running(w) /\ stack'[w] = stack[w]
           /\ H'[w] = H[w] /\ StackAtPC(w)
        BY <1>s, <1>t, <2>2, <2>4
      <4>2. pc'[w] = "stealDeque"
        BY <1>a, <2>2, <2>4 DEF Types
      <4>q. QED
        BY <1>b, <1>t, <2>2, <2>3, <4>1, <4>2, <2>4 DEF StackAtPC
    <3>q. QED
      BY <1>h, <2>2, <3>1, <3>2, <3>3, <3>4, <3>5, <3>6
  <2>q. QED
    BY <1>3, <2>2, <2>4 DEF StealLockDeque, program, results, state, tree,
       caches, Goto, LockDeque, Peek, Hand
<1>4. ASSUME NEW w \in Worker, StealLockClosure(w) PROVE StackInv'
  BY <1>g, <1>4 DEF StealLockClosure, program, results, state, tree, caches,
     Goto, LockClosure, WorkPC, PopPC, SlowPC
<1>5. ASSUME NEW w \in Worker, StealGiveUp(w) PROVE StackInv'
  <2>2. /\ pc[w] = "stealClosure" /\ pc' = [pc EXCEPT ![w] = "stealGiveUp"]
        /\ cl' = [cl EXCEPT ![w] = None]
        /\ UNCHANGED <<stack, H, status, cache, created, parent>>
    BY <1>5 DEF StealGiveUp, program, results, state, tree, caches, Goto, Hand,
       UnlockClosure, BeingAborted
  <2>3. /\ "stealClosure" \notin WorkPC /\ "stealClosure" \notin SlowPC
        /\ "stealGiveUp" \notin WorkPC /\ "stealGiveUp" \notin SlowPC
    BY <2>2 DEF WorkPC, PopPC, SlowPC
  <2>4. \A u \in Worker \ {w} : /\ stack'[u] = stack[u] /\ H'[u] = H[u]
                                /\ pc'[u] = pc[u] /\ cl'[u] = cl[u]
    BY <1>a, <2>2, <2>3 DEF Types, Shortened, Extended
  <2>5. \A d \in Proc : status[d] = "none" => status'[d] = "none"
    BY <1>a, <1>b, <2>2, <2>3 DEF Types
  <2>6. \A u \in Worker \ {w} : pc[u] \in {"setup", "add"}
           => status'[cl[u]] = "RUNNING" /\ cache'[cl[u]] = u
    BY <1>a, <1>c, <2>2, <2>3 DEF Types
  <2>7. created' >= created /\ \A d \in 1 .. created : parent'[d] = parent[d]
    BY <1>a, <1>b, <2>2, <2>3 DEF Types
  <2>8. StackShape(w)'
    BY <1>a, <1>x, <1>y, <1>z, <2>5, <2>7, <2>2, <2>3 DEF Types
  <2>9. StackAtPC(w)'
    <3>1. /\ T(w)' = T(w) /\ Running(w)' = Running(w) /\ stack'[w] = stack[w]
         /\ H'[w] = H[w] /\ StackAtPC(w)
      BY <1>s, <1>t, <2>2
    <3>2. pc'[w] = "stealGiveUp"
      BY <1>a, <2>2 DEF Types
    <3>q. QED
      BY <1>b, <1>t, <2>2, <2>3, <3>1, <3>2 DEF StackAtPC
  <2>q. QED
    BY <1>h, <2>2, <2>4, <2>5, <2>6, <2>7, <2>8, <2>9
<1>6. ASSUME NEW w \in Worker, StealUnlockDeque(w) PROVE StackInv'
  BY <1>g, <1>6 DEF StealUnlockDeque, program, results, state, tree, caches,
     Goto, UnlockDeque, WorkPC, PopPC, SlowPC
<1>7. ASSUME NEW w \in Worker, StealReady(w) PROVE StackInv'
  <2>1. PICK v \in Worker \ {w}, c \in Proc :
          StealReadyDoes(w, v, c)
    BY <1>7, StealReadyEffect
  <2>q. QED
    BY <1>g, <2>1 DEF StealReadyDoes, WorkPC, PopPC, SlowPC
<1>8. ASSUME NEW w \in Worker, StealPromote(w) PROVE StackInv'
  <2>1. PICK v \in Worker \ {w}, c \in Proc, k \in Proc :
          StealPromoteDoes(w, v, c, k)
    BY <1>8, StealPromoteEffect
  <2>2. /\ pc[w] = "stealClosure" /\ c = cl[w] /\ k = stack[v][H[v] + 2]
        /\ pc[v] \in WorkPC \ OwnDequePC /\ H[v] + 1 < T(v)
        /\ status[c] = "RUNNING" /\ cache[c] = v /\ stack[v][H[v] + 1] = c
        /\ k # c /\ k # Root /\ status[k] = "none" /\ parent[k] = c /\ Fresh(k)
        /\ H' = [H EXCEPT ![v] = @ + 1]
        /\ pc' = [pc EXCEPT ![w] = "stealFinish"]
        /\ status' = [status EXCEPT ![k] = "RUNNING"]
        /\ cache' = [cache EXCEPT ![k] = v]
        /\ UNCHANGED <<stack, cl, created, parent>>
    BY <2>1 DEF StealPromoteDoes
  <2>3. /\ "stealClosure" \notin WorkPC /\ "stealClosure" \notin SlowPC
        /\ "stealFinish" \notin WorkPC /\ "stealFinish" \notin SlowPC
    BY <2>2 DEF WorkPC, PopPC, SlowPC
  <2>4. \A u \in Worker \ {v} : \A i \in H[u] + 2 .. T(u) : stack[u][i] # k
    <3>1. H[v] + 2 \in H[v] + 2 .. T(v)
      BY <1>t, <2>2
    <3>q. QED
      BY <2>2, <3>1 DEF IInv, StacksApart
  <2>5. \A i \in H[v] + 3 .. T(v) : stack[v][i] # k
    <3>1. H[v] + 2 \in H[v] + 2 .. T(v) /\ \A i \in H[v] + 3 .. T(v) : i \in H[v] + 2 .. T(v) /\ i # H[v] + 2
      BY <1>t, <2>2
    <3>q. QED
      BY <2>2, <3>1 DEF IInv, StacksApart
  <2>6. ASSUME NEW u \in Worker PROVE StackShape(u)'
    <3>1. /\ stack'[u] = stack[u] /\ T(u)' = T(u) /\ H[u] \in Nat /\ T(u) \in Nat
          /\ H'[u] = IF u = v THEN H[u] + 1 ELSE H[u]
      BY <1>a, <1>t, <2>2 DEF Types
    <3>2. ASSUME NEW i \in H'[u] + 2 .. T(u)
          PROVE  status'[stack[u][i]] = "none"
      <4>1. i \in H[u] + 2 .. T(u) /\ i \in 1 .. T(u)
        BY <3>1, <3>2
      <4>2. stack[u][i] \in Proc /\ status[stack[u][i]] = "none"
        BY <1>s, <1>t, <4>1 DEF StackShape
      <4>3. stack[u][i] # k
        BY <2>4, <2>5, <3>1, <3>2, <4>1
      <4>q. QED
        BY <1>a, <2>2, <4>2, <4>3 DEF Types
    <3>q. QED
      BY <1>s, <2>2, <3>1, <3>2 DEF StackShape
  <2>7. ASSUME NEW u \in Worker PROVE StackAtPC(u)'
    <3>a. /\ stack'[u] = stack[u] /\ T(u)' = T(u) /\ H[u] \in Nat /\ T(u) \in Nat
          /\ Running(u)' = Running(u)
      BY <1>t, <2>2
    <3>b. /\ H'[u] = IF u = v THEN H[u] + 1 ELSE H[u]
          /\ pc'[u] = IF u = w THEN "stealFinish" ELSE pc[u]
          /\ cl'[u] = cl[u]
      BY <1>a, <2>2 DEF Types
    <3>1. /\ stack'[u] = stack[u] /\ T(u)' = T(u) /\ H[u] \in Nat /\ T(u) \in Nat
          /\ H'[u] = IF u = v THEN H[u] + 1 ELSE H[u]
          /\ Running(u)' = Running(u) /\ cl'[u] = cl[u]
          /\ pc'[u] = IF u = w THEN "stealFinish" ELSE pc[u]
      BY <3>a, <3>b
    <3>2. CASE u = w
      BY <1>s, <2>3, <3>1, <3>2, <2>2 DEF StackAtPC
    <3>3. CASE u = v
      <4>1. pc[v] \in WorkPC /\ pc[v] \notin {"setup", "add"}
        BY <2>2 DEF WorkPC, PopPC, SlowPC
      <4>2. pc[v] \notin SlowPC
        BY <1>s, <2>2 DEF StackAtPC
      <4>q. QED
        BY <1>s, <2>2, <3>1, <3>3, <4>1, <4>2 DEF StackAtPC
    <3>4. CASE u # w /\ u # v
      <4>1. pc[u] \in {"setup", "add"} => status'[cl[u]] = "RUNNING" /\ cache'[cl[u]] = u
        BY <1>a, <1>c, <2>2 DEF Types
      <4>q. QED
        BY <1>s, <3>1, <3>4, <4>1 DEF StackAtPC
    <3>q. QED
      BY <3>2, <3>3, <3>4
  <2>q. QED
    BY <2>6, <2>7 DEF StackInv, StackShape, StackAtPC
<1>9. ASSUME NEW w \in Worker, StealFinish(w) PROVE StackInv'
  <2>2. /\ pc[w] = "stealFinish" /\ pc' = [pc EXCEPT ![w] = "loop"]
        /\ status' = [status EXCEPT ![cl[w]] = "READY"]
        /\ cache' = [cache EXCEPT ![cl[w]] = None]
        /\ UNCHANGED <<stack, H, cl, created, parent>>
    BY <1>9 DEF StealFinish, program, results, caches, Goto, UnlockClosure,
       SetStatus, AddChild
  <2>3. /\ "stealFinish" \notin WorkPC /\ "stealFinish" \notin SlowPC
        /\ "loop" \notin WorkPC /\ "loop" \notin SlowPC
    BY <2>2 DEF WorkPC, PopPC, SlowPC
  <2>a. cl[w] \in Proc /\ status[cl[w]] = "RUNNING" /\ pc[w] \in HandPC
    BY <2>2, LockFacts DEF IInv, InHandInv, LockPC, HandPC
  <2>4. \A u \in Worker \ {w} : /\ stack'[u] = stack[u] /\ H'[u] = H[u]
                                /\ pc'[u] = pc[u] /\ cl'[u] = cl[u]
    BY <1>a, <2>2, <2>3, <2>a DEF Types, Shortened, Extended
  <2>5. \A d \in Proc : status[d] = "none" => status'[d] = "none"
    BY <1>a, <1>b, <2>2, <2>3, <2>a DEF Types
  <2>6. \A u \in Worker \ {w} : pc[u] \in {"setup", "add"}
           => status'[cl[u]] = "RUNNING" /\ cache'[cl[u]] = u
    BY <1>a, <1>c, <2>2, <2>3, <2>a DEF Types
  <2>7. created' >= created /\ \A d \in 1 .. created : parent'[d] = parent[d]
    BY <1>a, <1>b, <2>2, <2>3, <2>a DEF Types
  <2>8. StackShape(w)'
    BY <1>a, <1>x, <1>y, <1>z, <2>5, <2>7, <2>2, <2>3, <2>a DEF Types
  <2>9. StackAtPC(w)'
    <3>1. /\ T(w)' = T(w) /\ Running(w)' = Running(w) /\ stack'[w] = stack[w]
         /\ H'[w] = H[w] /\ StackAtPC(w)
      BY <1>s, <1>t, <2>2
    <3>2. pc'[w] = "loop"
      BY <1>a, <2>2 DEF Types
    <3>q. QED
      BY <1>b, <1>t, <2>2, <2>3, <3>1, <3>2 DEF StackAtPC
  <2>q. QED
    BY <1>h, <2>2, <2>4, <2>5, <2>6, <2>7, <2>8, <2>9
<1>10. ASSUME NEW w \in Worker, InletKilled(w) PROVE StackInv'
  BY <1>f, <1>10 DEF InletKilled, program, state, locks, caches, Outcome,
     BeingAborted, Polls
<1>11. ASSUME NEW w \in Worker, InletRuns(w) PROVE StackInv'
  BY <1>f, <1>11 DEF InletRuns, program, state, locks, caches, Outcome,
     BeingAborted, Polls
<1>12. ASSUME NEW w \in Worker, InletAborts(w) PROVE StackInv'
  <2>1. PICK c \in Proc, r \in SUBSET Proc :
          InletAbortsDoes(w, c, r)
    BY <1>12, InletAbortsEffect
  <2>2. /\ c = cl[w] /\ pc[w] \in PollPC
        /\ pc[w] = "return" => status[c] # "RUNNING"
        /\ UNCHANGED <<stack, pc, cl, created, parent>>
    BY <2>1 DEF InletAbortsDoes
  <2>4. ASSUME NEW k \in Proc, pc[w] = "handlerPoll", status[c] = "RUNNING",
               cache[c] = w, H[w] = 0, 1 < T(w), stack[w][1] = c,
               k = stack[w][2], k # c, k # Root, status[k] = "none",
               parent[k] = c, Fresh(k), H' = [H EXCEPT ![w] = 1],
               status' = [status EXCEPT ![k] = "RUNNING", ![c] = "READY"],
               cache' = [cache EXCEPT ![k] = w, ![c] = None]
        PROVE  StackInv'
    <3>1. 2 \in H[w] + 2 .. T(w) /\ \A i \in 3 .. T(w) : i \in H[w] + 2 .. T(w) /\ i # 2
      BY <1>t, <2>4
    <3>2. \A u \in Worker \ {w} : \A i \in H[u] + 2 .. T(u) : stack[u][i] # k
      BY <2>4, <3>1 DEF IInv, StacksApart
    <3>3. \A i \in 3 .. T(w) : stack[w][i] # k
      BY <2>4, <3>1 DEF IInv, StacksApart
    <3>4. ASSUME NEW u \in Worker PROVE StackShape(u)'
      <4>1. /\ stack'[u] = stack[u] /\ T(u)' = T(u) /\ H[u] \in Nat /\ T(u) \in Nat
            /\ H'[u] = IF u = w THEN 1 ELSE H[u]
        BY <1>a, <1>t, <2>2, <2>4 DEF Types
      <4>2. ASSUME NEW i \in H'[u] + 2 .. T(u)
            PROVE  status'[stack[u][i]] = "none"
        <5>1. i \in H[u] + 2 .. T(u) /\ i \in 1 .. T(u)
          BY <2>4, <4>1, <4>2
        <5>2. stack[u][i] \in Proc /\ status[stack[u][i]] = "none"
          BY <1>s, <1>t, <5>1 DEF StackShape
        <5>3. stack[u][i] # k
          BY <3>2, <3>3, <4>1, <4>2, <5>1
        <5>q. QED
          BY <1>a, <2>4, <5>2, <5>3 DEF Types
      <4>q. QED
        BY <1>s, <2>2, <4>1, <4>2 DEF StackShape
    <3>5. ASSUME NEW u \in Worker PROVE StackAtPC(u)'
      <4>1. /\ stack'[u] = stack[u] /\ T(u)' = T(u) /\ H[u] \in Nat /\ T(u) \in Nat
            /\ H'[u] = IF u = w THEN 1 ELSE H[u]
            /\ Running(u)' = Running(u) /\ cl'[u] = cl[u] /\ pc'[u] = pc[u]
        <5>1. /\ stack'[u] = stack[u] /\ T(u)' = T(u) /\ H[u] \in Nat /\ T(u) \in Nat
              /\ Running(u)' = Running(u) /\ cl'[u] = cl[u] /\ pc'[u] = pc[u]
          BY <1>t, <2>2
        <5>2. H'[u] = IF u = w THEN 1 ELSE H[u]
          BY <1>a, <2>4 DEF Types
        <5>q. QED
          BY <5>1, <5>2
      <4>2. CASE u = w
        <5>1. pc[w] \in WorkPC /\ pc[w] \notin SlowPC
          BY <2>4 DEF WorkPC, PopPC, SlowPC
        <5>q. QED
          BY <1>s, <2>4, <4>1, <4>2, <5>1 DEF StackAtPC
      <4>3. CASE u # w
        <5>1. pc[w] \in WorkPC
          BY <2>4 DEF WorkPC, PopPC
        <5>2. pc[u] \in {"setup", "add"} => status'[cl[u]] = "RUNNING" /\ cache'[cl[u]] = u
          <6> SUFFICES ASSUME pc[u] \in {"setup", "add"}
                       PROVE  status'[cl[u]] = "RUNNING" /\ cache'[cl[u]] = u
            OBVIOUS
          <6>1. cl[u] \in Proc /\ status[cl[u]] = "RUNNING" /\ cache[cl[u]] = u
            BY <1>c
          <6>2. cl[u] # c /\ cl[u] # k
            BY <1>c, <2>4, <5>1, <6>1
          <6>3. /\ status' = [status EXCEPT ![k] = "RUNNING", ![c] = "READY"]
                /\ cache' = [cache EXCEPT ![k] = w, ![c] = None]
                /\ status \in [Proc -> Status] /\ cache \in [Proc -> Worker \cup {None}]
            BY <1>a, <2>4 DEF Types
          <6>q. QED
            BY <6>1, <6>2, <6>3
        <5>q. QED
          BY <1>s, <4>1, <4>3, <5>2 DEF StackAtPC
      <4>q. QED
        BY <4>2, <4>3
    <3>q. QED
      BY <3>4, <3>5 DEF StackInv, StackShape, StackAtPC
  <2>5. ASSUME UNCHANGED <<H, status, cache>>
        PROVE  StackInv'
    BY <1>f, <2>2, <2>5
  <2>q. QED
    BY <2>1, <2>2, <2>4, <2>5 DEF InletAbortsDoes, InletSplits
<1>13. ASSUME NEW w \in Worker, WalkDown(w) PROVE StackInv'
  <2>1. PICK n \in Nat \ {0}, k \in Proc :
          WalkDownDoes(w, n, k)
    BY <1>13, WalkDownEffect
  <2>q. QED
    BY <1>f, <2>1 DEF WalkDownDoes
<1>14. ASSUME NEW w \in Worker, WalkUp(w) PROVE StackInv'
  <2>1. PICK n \in Nat \ {0} :
          WalkUpDoes(w, n)
    BY <1>14, WalkUpEffect
  <2>q. QED
    BY <1>f, <2>1 DEF WalkUpDoes
<1>15. ASSUME NEW w \in Worker, AbortReadyClosure(w) PROVE StackInv'
  <2>2. /\ pc[w] = "loop" /\ cl[w] # None /\ status[cl[w]] = "READY"
        /\ UNCHANGED <<stack, H, pc, cache, created, parent>>
    BY <1>15 DEF AbortReadyClosure, program, results, tree, locks, caches,
       Hand, SetStatus, Outcome, BeingAborted, HasChildren
  <2>3. /\ "loop" \notin WorkPC /\ "loop" \notin SlowPC
    BY <2>2 DEF WorkPC, PopPC, SlowPC
  <2>4. ASSUME join[cl[w]] # 0, cl' = [cl EXCEPT ![w] = None],
               status' = [status EXCEPT ![cl[w]] = "SUSPENDED"]
        PROVE  StackInv'
    <3>1. \A u \in Worker \ {w} : /\ stack'[u] = stack[u] /\ H'[u] = H[u]
                                  /\ pc'[u] = pc[u] /\ cl'[u] = cl[u]
      BY <1>a, <2>2, <2>3, <2>4 DEF Types, Shortened, Extended
    <3>2. \A d \in Proc : status[d] = "none" => status'[d] = "none"
      BY <1>a, <1>b, <2>2, <2>3, <2>4 DEF Types
    <3>3. \A u \in Worker \ {w} : pc[u] \in {"setup", "add"}
             => status'[cl[u]] = "RUNNING" /\ cache'[cl[u]] = u
      BY <1>a, <1>c, <2>2, <2>3, <2>4 DEF Types
    <3>4. created' >= created /\ \A d \in 1 .. created : parent'[d] = parent[d]
      BY <1>a, <1>b, <2>2, <2>3, <2>4 DEF Types
    <3>5. StackShape(w)'
      BY <1>a, <1>x, <1>y, <1>z, <3>2, <3>4, <2>2, <2>3, <2>4 DEF Types
    <3>6. StackAtPC(w)'
      <4>1. /\ T(w)' = T(w) /\ Running(w)' = Running(w) /\ stack'[w] = stack[w]
           /\ H'[w] = H[w] /\ StackAtPC(w)
        BY <1>s, <1>t, <2>2, <2>4
      <4>2. pc'[w] = "loop"
        BY <1>a, <2>2, <2>4 DEF Types
      <4>q. QED
        BY <1>b, <1>t, <2>2, <2>3, <4>1, <4>2, <2>4 DEF StackAtPC
    <3>q. QED
      BY <1>h, <2>2, <3>1, <3>2, <3>3, <3>4, <3>5, <3>6
  <2>5. ASSUME join[cl[w]] = 0,
               status' = [status EXCEPT ![cl[w]] = "RETURNING"],
               UNCHANGED <<cl>>
        PROVE  StackInv'
    <3>1. \A u \in Worker \ {w} : /\ stack'[u] = stack[u] /\ H'[u] = H[u]
                                  /\ pc'[u] = pc[u] /\ cl'[u] = cl[u]
      BY <1>a, <2>2, <2>3, <2>5 DEF Types, Shortened, Extended
    <3>2. \A d \in Proc : status[d] = "none" => status'[d] = "none"
      BY <1>a, <1>b, <2>2, <2>3, <2>5 DEF Types
    <3>3. \A u \in Worker \ {w} : pc[u] \in {"setup", "add"}
             => status'[cl[u]] = "RUNNING" /\ cache'[cl[u]] = u
      BY <1>a, <1>c, <2>2, <2>3, <2>5 DEF Types
    <3>4. created' >= created /\ \A d \in 1 .. created : parent'[d] = parent[d]
      BY <1>a, <1>b, <2>2, <2>3, <2>5 DEF Types
    <3>5. StackShape(w)'
      BY <1>a, <1>x, <1>y, <1>z, <3>2, <3>4, <2>2, <2>3, <2>5 DEF Types
    <3>6. StackAtPC(w)'
      BY <1>a, <1>b, <1>s, <1>t, <2>2, <2>3, <2>5 DEF Types, StackAtPC,
         Shortened, Exception
    <3>q. QED
      BY <1>h, <2>2, <3>1, <3>2, <3>3, <3>4, <3>5, <3>6
  <2>q. QED
    BY <1>15, <2>2, <2>4, <2>5 DEF AbortReadyClosure, program, results, tree,
       locks, caches, Hand, SetStatus, Outcome, BeingAborted, HasChildren
<1>16. ASSUME NEW w \in Worker, Setup(w) PROVE StackInv'
  <2>2. /\ pc[w] = "loop" /\ cl[w] # None /\ status[cl[w]] = "READY"
        /\ stack' = [stack EXCEPT ![w] = <<cl[w]>>] /\ H' = [H EXCEPT ![w] = 0]
        /\ pc' = [pc EXCEPT ![w] = "setup"]
        /\ status' = [status EXCEPT ![cl[w]] = "RUNNING"]
        /\ cache' = [cache EXCEPT ![cl[w]] = w]
        /\ UNCHANGED <<cl, created, parent>>
    BY <1>16 DEF Setup, program, results, tree, Goto, LockClosure, SetStatus,
       BeingAborted
  <2>3. /\ "loop" \notin WorkPC /\ "loop" \notin SlowPC
        /\ "setup" \notin WorkPC /\ "setup" \notin SlowPC
    BY <2>2 DEF WorkPC, PopPC, SlowPC
  <2>a. cl[w] \in Proc /\ cl[w] \in 1 .. created
    BY <1>a, <1>b, <2>2 DEF Types, IInv, ParentInv, Proc
  <2>b. stack'[w] = <<cl[w]>> /\ H'[w] = 0
    BY <1>a, <2>2 DEF Types
  <2>c. stack'[w][1] = cl[w] /\ T(w)' = 1
    <3>1. stack'[w][1] = cl[w]
      BY <2>b
    <3>2. Size(stack'[w]) = 1
      BY <2>a, <2>b, SingleFacts
    <3>q. QED
      BY <1>t, <3>1, <3>2
  <2>4. \A u \in Worker \ {w} : /\ stack'[u] = stack[u] /\ H'[u] = H[u]
                                /\ pc'[u] = pc[u] /\ cl'[u] = cl[u]
    BY <1>a, <2>2, <2>3, <2>a, <2>b, <2>c DEF Types, Shortened, Extended
  <2>5. \A d \in Proc : status[d] = "none" => status'[d] = "none"
    BY <1>a, <1>b, <2>2, <2>3, <2>a, <2>b, <2>c DEF Types
  <2>6. \A u \in Worker \ {w} : pc[u] \in {"setup", "add"}
           => status'[cl[u]] = "RUNNING" /\ cache'[cl[u]] = u
    BY <1>a, <1>c, <2>2, <2>3, <2>a, <2>b, <2>c DEF Types
  <2>7. created' >= created /\ \A d \in 1 .. created : parent'[d] = parent[d]
    BY <1>a, <1>b, <2>2, <2>3, <2>a, <2>b, <2>c DEF Types
  <2>8. StackShape(w)'
    BY <2>2, <2>a, <2>b, <2>c DEF StackShape
  <2>9. StackAtPC(w)'
    BY <1>a, <1>b, <1>s, <1>t, <2>2, <2>3, <2>a, <2>b, <2>c DEF Types,
       StackAtPC, Shortened, Exception
  <2>q. QED
    BY <1>h, <2>2, <2>4, <2>5, <2>6, <2>7, <2>8, <2>9
<1>17. ASSUME NEW w \in Worker, SetupDone(w) PROVE StackInv'
  <2>2. /\ pc[w] = "setup" /\ pc' = [pc EXCEPT ![w] = "add"]
        /\ UNCHANGED <<stack, H, cl, status, cache, created, parent>>
    BY <1>17 DEF SetupDone, program, results, tree, caches, Goto,
       UnlockClosure, Polled, Polls
  <2>3. /\ "setup" \notin WorkPC /\ "setup" \notin SlowPC
        /\ "add" \notin WorkPC /\ "add" \notin SlowPC
    BY <2>2 DEF WorkPC, PopPC, SlowPC
  <2>4. \A u \in Worker \ {w} : /\ stack'[u] = stack[u] /\ H'[u] = H[u]
                                /\ pc'[u] = pc[u] /\ cl'[u] = cl[u]
    BY <1>a, <2>2, <2>3 DEF Types, Shortened, Extended
  <2>5. \A d \in Proc : status[d] = "none" => status'[d] = "none"
    BY <1>a, <1>b, <2>2, <2>3 DEF Types
  <2>6. \A u \in Worker \ {w} : pc[u] \in {"setup", "add"}
           => status'[cl[u]] = "RUNNING" /\ cache'[cl[u]] = u
    BY <1>a, <1>c, <2>2, <2>3 DEF Types
  <2>7. created' >= created /\ \A d \in 1 .. created : parent'[d] = parent[d]
    BY <1>a, <1>b, <2>2, <2>3 DEF Types
  <2>8. StackShape(w)'
    BY <1>a, <1>x, <1>y, <1>z, <2>5, <2>7, <2>2, <2>3 DEF Types
  <2>9. StackAtPC(w)'
    BY <1>a, <1>b, <1>s, <1>t, <2>2, <2>3 DEF Types, StackAtPC, Shortened,
       Exception
  <2>q. QED
    BY <1>h, <2>2, <2>4, <2>5, <2>6, <2>7, <2>8, <2>9
<1>18. ASSUME NEW w \in Worker, Execute(w) PROVE StackInv'
  <2>1. PICK c \in Proc :
          ExecuteDoes(w, c)
    BY <1>18, ExecuteEffect
  <2>2. /\ pc[w] = "add" /\ c = cl[w] /\ status[c] = "RUNNING" /\ cache[c] = w
        /\ T(w) = 1 /\ H[w] = 0 /\ stack[w][1] = c
        /\ pc' = [pc EXCEPT ![w] = "run"] /\ cl' = [cl EXCEPT ![w] = None]
        /\ UNCHANGED <<stack, H, status, cache, created, parent>>
    BY <2>1 DEF ExecuteDoes
  <2>3. /\ "add" \notin WorkPC /\ "add" \notin SlowPC /\ "run" \in WorkPC
        /\ "run" \notin SlowPC
    BY <2>2 DEF WorkPC, PopPC, SlowPC
  <2>4. \A u \in Worker \ {w} : /\ stack'[u] = stack[u] /\ H'[u] = H[u]
                                /\ pc'[u] = pc[u] /\ cl'[u] = cl[u]
    BY <1>a, <2>2, <2>3 DEF Types, Shortened, Extended
  <2>5. \A d \in Proc : status[d] = "none" => status'[d] = "none"
    BY <1>a, <1>b, <2>2, <2>3 DEF Types
  <2>6. \A u \in Worker \ {w} : pc[u] \in {"setup", "add"}
           => status'[cl[u]] = "RUNNING" /\ cache'[cl[u]] = u
    BY <1>a, <1>c, <2>2, <2>3 DEF Types
  <2>7. created' >= created /\ \A d \in 1 .. created : parent'[d] = parent[d]
    BY <1>a, <1>b, <2>2, <2>3 DEF Types
  <2>8. StackShape(w)'
    BY <1>a, <1>x, <1>y, <1>z, <2>5, <2>7, <2>2, <2>3 DEF Types
  <2>9. StackAtPC(w)'
    <3>1. pc'[w] = "run" /\ cl'[w] = None
      BY <1>a, <2>2 DEF Types
    <3>2. T(w)' = T(w) /\ H'[w] = 0 /\ T(w) = 1 /\ "setup" # "run" /\ "add" # "run"
      BY <2>2 DEF T
    <3>q. QED
      BY <2>3, <3>1, <3>2 DEF StackAtPC
  <2>q. QED
    BY <1>h, <2>2, <2>4, <2>5, <2>6, <2>7, <2>8, <2>9
<1>19. ASSUME NEW w \in Worker, ReturnLockParent(w) PROVE StackInv'
  <2>1. PICK k \in Proc, p \in Proc :
          ReturnLockParentDoes(w, k, p)
    BY <1>19, ReturnLockParentEffect
  <2>2. /\ pc[w] = "loop" /\ k = cl[w] /\ p = parent[k] /\ p # k /\ k # Root
        /\ status[k] = "RETURNING" /\ status[p] # "none"
        /\ pc' = [pc EXCEPT ![w] = "returnChild"] /\ cl' = [cl EXCEPT ![w] = p]
        /\ UNCHANGED <<stack, H, status, cache, created, parent>>
    BY <2>1 DEF ReturnLockParentDoes
  <2>3. /\ "loop" \notin WorkPC /\ "loop" \notin SlowPC
        /\ "returnChild" \notin WorkPC /\ "returnChild" \notin SlowPC
    BY <2>2 DEF WorkPC, PopPC, SlowPC
  <2>4. \A u \in Worker \ {w} : /\ stack'[u] = stack[u] /\ H'[u] = H[u]
                                /\ pc'[u] = pc[u] /\ cl'[u] = cl[u]
    BY <1>a, <2>2, <2>3 DEF Types, Shortened, Extended
  <2>5. \A d \in Proc : status[d] = "none" => status'[d] = "none"
    BY <1>a, <1>b, <2>2, <2>3 DEF Types
  <2>6. \A u \in Worker \ {w} : pc[u] \in {"setup", "add"}
           => status'[cl[u]] = "RUNNING" /\ cache'[cl[u]] = u
    BY <1>a, <1>c, <2>2, <2>3 DEF Types
  <2>7. created' >= created /\ \A d \in 1 .. created : parent'[d] = parent[d]
    BY <1>a, <1>b, <2>2, <2>3 DEF Types
  <2>8. StackShape(w)'
    BY <1>a, <1>x, <1>y, <1>z, <2>5, <2>7, <2>2, <2>3 DEF Types
  <2>9. StackAtPC(w)'
    <3>1. /\ T(w)' = T(w) /\ Running(w)' = Running(w) /\ stack'[w] = stack[w]
         /\ H'[w] = H[w] /\ StackAtPC(w)
      BY <1>s, <1>t, <2>2
    <3>2. pc'[w] = "returnChild"
      BY <1>a, <2>2 DEF Types
    <3>q. QED
      BY <1>b, <1>t, <2>2, <2>3, <3>1, <3>2 DEF StackAtPC
  <2>q. QED
    BY <1>h, <2>2, <2>4, <2>5, <2>6, <2>7, <2>8, <2>9
<1>20. ASSUME NEW w \in Worker, ReturnEnqueue(w) PROVE StackInv'
  <2>1. PICK k \in Proc, p \in Proc :
          ReturnEnqueueDoes(w, k, p)
    BY <1>20, ReturnEnqueueEffect
  <2>q. QED
    BY <1>g, <2>1 DEF ReturnEnqueueDoes, WorkPC, PopPC, SlowPC
<1>21. ASSUME NEW w \in Worker, ReturnDone(w) PROVE StackInv'
  <2>1. PICK k \in Proc, p \in Proc :
          ReturnDoneDoes(w, k, p)
    BY <1>21, ReturnDoneEffect
  <2>2. /\ pc[w] = "return" /\ k = child[w] /\ p = cl[w] /\ p # k
        /\ p = parent[k] /\ k # Root /\ status[k] = "RETURNING"
        /\ status[p] # "none" /\ pc' = [pc EXCEPT ![w] = "loop"]
        /\ UNCHANGED <<stack, H, created, parent>>
    BY <2>1 DEF ReturnDoneDoes
  <2>3. /\ "return" \notin WorkPC /\ "return" \notin SlowPC
        /\ "loop" \notin WorkPC /\ "loop" \notin SlowPC
    BY <2>2 DEF WorkPC, PopPC, SlowPC
  <2>4. ASSUME join[p] = 1, status[p] = "SUSPENDED",
               status' = [status EXCEPT ![k] = "freed", ![p] = "READY"],
               cache' = [cache EXCEPT ![p] = None],
               UNCHANGED <<cl>>
        PROVE  StackInv'
    <3>1. \A u \in Worker \ {w} : /\ stack'[u] = stack[u] /\ H'[u] = H[u]
                                  /\ pc'[u] = pc[u] /\ cl'[u] = cl[u]
      BY <1>a, <2>2, <2>3, <2>4 DEF Types, Shortened, Extended
    <3>2. \A d \in Proc : status[d] = "none" => status'[d] = "none"
      BY <1>a, <1>b, <2>2, <2>3, <2>4 DEF Types
    <3>3. \A u \in Worker \ {w} : pc[u] \in {"setup", "add"}
             => status'[cl[u]] = "RUNNING" /\ cache'[cl[u]] = u
      BY <1>a, <1>c, <2>2, <2>3, <2>4 DEF Types
    <3>4. created' >= created /\ \A d \in 1 .. created : parent'[d] = parent[d]
      BY <1>a, <1>b, <2>2, <2>3, <2>4 DEF Types
    <3>5. StackShape(w)'
      BY <1>a, <1>x, <1>y, <1>z, <3>2, <3>4, <2>2, <2>3, <2>4 DEF Types
    <3>6. StackAtPC(w)'
      <4>1. /\ T(w)' = T(w) /\ Running(w)' = Running(w) /\ stack'[w] = stack[w]
           /\ H'[w] = H[w] /\ StackAtPC(w)
        BY <1>s, <1>t, <2>2, <2>4
      <4>2. pc'[w] = "loop"
        BY <1>a, <2>2, <2>4 DEF Types
      <4>q. QED
        BY <1>b, <1>t, <2>2, <2>3, <4>1, <4>2, <2>4 DEF StackAtPC
    <3>q. QED
      BY <1>h, <2>2, <3>1, <3>2, <3>3, <3>4, <3>5, <3>6
  <2>5. ASSUME join[p] # 1 \/ status[p] # "SUSPENDED",
               cl' = [cl EXCEPT ![w] = None],
               status' = [status EXCEPT ![k] = "freed"],
               UNCHANGED <<cache>>
        PROVE  StackInv'
    <3>1. \A u \in Worker \ {w} : /\ stack'[u] = stack[u] /\ H'[u] = H[u]
                                  /\ pc'[u] = pc[u] /\ cl'[u] = cl[u]
      BY <1>a, <2>2, <2>3, <2>5 DEF Types, Shortened, Extended
    <3>2. \A d \in Proc : status[d] = "none" => status'[d] = "none"
      BY <1>a, <1>b, <2>2, <2>3, <2>5 DEF Types
    <3>3. \A u \in Worker \ {w} : pc[u] \in {"setup", "add"}
             => status'[cl[u]] = "RUNNING" /\ cache'[cl[u]] = u
      BY <1>a, <1>c, <2>2, <2>3, <2>5 DEF Types
    <3>4. created' >= created /\ \A d \in 1 .. created : parent'[d] = parent[d]
      BY <1>a, <1>b, <2>2, <2>3, <2>5 DEF Types
    <3>5. StackShape(w)'
      BY <1>a, <1>x, <1>y, <1>z, <3>2, <3>4, <2>2, <2>3, <2>5 DEF Types
    <3>6. StackAtPC(w)'
      <4>1. /\ T(w)' = T(w) /\ stack'[w] = stack[w] /\ H'[w] = H[w] /\ StackAtPC(w)
            /\ pc'[w] = "loop"
        BY <1>a, <1>s, <1>t, <2>2, <2>5 DEF Types
      <4>q. QED
        BY <2>2, <2>3, <4>1 DEF StackAtPC
    <3>q. QED
      BY <1>h, <2>2, <3>1, <3>2, <3>3, <3>4, <3>5, <3>6
  <2>q. QED
    BY <2>1, <2>2, <2>4, <2>5 DEF ReturnDoneDoes
<1>22. ASSUME NEW w \in Worker, Spawn(w) PROVE StackInv'
  <2>1. PICK c \in Proc, f \in Proc :
          SpawnDoes(w, c, f)
    BY <1>22, SpawnEffect
  <2>2. /\ pc[w] \in {"run", "synced"} /\ c = created + 1 /\ created \in Nat
        /\ f \in 1 .. created /\ T(w) >= 1 /\ f = stack[w][T(w)]
        /\ status[c] = "none" /\ Extended(stack, stack', w, c)
        /\ pc' = [pc EXCEPT ![w] = "run"] /\ created' = c
        /\ parent' = [parent EXCEPT ![c] = f]
        /\ UNCHANGED <<H, cl, status, cache>>
    BY <2>1 DEF SpawnDoes
  <2>3. /\ "run" \in WorkPC /\ "run" \notin SlowPC /\ "synced" \in WorkPC
        /\ "synced" \in SlowPC /\ pc[w] \in WorkPC
    BY <2>2 DEF WorkPC, PopPC, SlowPC
  <2>a. /\ T(w)' = T(w) + 1 /\ stack'[w][T(w) + 1] = c
        /\ \A i \in 1 .. T(w) : stack'[w][i] = stack[w][i]
    BY <1>t, <2>2 DEF Extended
  <2>b. StackShape(w)'
    <3>1. /\ \A i \in 1 .. T(w) : stack[w][i] \in 1 .. created /\ stack[w][i] \in Proc
          /\ H'[w] = H[w] /\ H[w] \in Nat /\ T(w) \in Nat
          /\ \A i \in 2 .. T(w) : i \in 1 .. T(w) /\ i - 1 \in 1 .. T(w)
          /\ \A i \in H[w] + 2 .. T(w) : i \in 1 .. T(w)
      BY <1>s, <1>t, <2>2 DEF StackShape
    <3>2. \A i \in 1 .. T(w) + 1 : i \in 1 .. T(w) \/ i = T(w) + 1
      BY <3>1
    <3>3. \A i \in 1 .. T(w) + 1 : stack'[w][i] \in 1 .. created'
      BY <1>b, <2>2, <2>a, <3>1, <3>2
    <3>4. parent'[c] = f /\ \A d \in 1 .. created : parent'[d] = parent[d]
      BY <1>a, <2>2 DEF Types
    <3>5. ASSUME NEW i \in 2 .. T(w) + 1 PROVE parent'[stack'[w][i]] = stack'[w][i - 1]
      <4>1. CASE i = T(w) + 1
        <5>1. i - 1 = T(w) /\ T(w) \in 1 .. T(w)
          BY <2>2, <3>1, <4>1
        <5>q. QED
          BY <2>2, <2>a, <3>4, <4>1, <5>1
      <4>2. CASE i # T(w) + 1
        <5>1. i \in 2 .. T(w)
          BY <3>1, <3>5, <4>2
        <5>q. QED
          BY <1>s, <2>a, <3>1, <3>4, <5>1 DEF StackShape
      <4>q. QED
        BY <4>1, <4>2
    <3>6. ASSUME NEW i \in H[w] + 2 .. T(w) + 1 PROVE status'[stack'[w][i]] = "none"
      <4>1. CASE i = T(w) + 1
        BY <2>2, <2>a, <4>1
      <4>2. CASE i # T(w) + 1
        <5>1. i \in H[w] + 2 .. T(w)
          BY <3>1, <3>6, <4>2
        <5>q. QED
          BY <1>s, <2>2, <2>a, <3>1, <5>1 DEF StackShape
      <4>q. QED
        BY <4>1, <4>2
    <3>q. QED
      BY <2>a, <3>1, <3>3, <3>5, <3>6 DEF StackShape
  <2>4. \A u \in Worker \ {w} : /\ stack'[u] = stack[u] /\ H'[u] = H[u]
                                /\ pc'[u] = pc[u] /\ cl'[u] = cl[u]
    BY <1>a, <2>2, <2>3, <2>a DEF Types, Shortened, Extended
  <2>5. \A d \in Proc : status[d] = "none" => status'[d] = "none"
    BY <1>a, <1>b, <2>2, <2>3, <2>a DEF Types
  <2>6. \A u \in Worker \ {w} : pc[u] \in {"setup", "add"}
           => status'[cl[u]] = "RUNNING" /\ cache'[cl[u]] = u
    BY <1>a, <1>c, <2>2, <2>3, <2>a DEF Types
  <2>7. created' >= created /\ \A d \in 1 .. created : parent'[d] = parent[d]
    BY <1>a, <1>b, <2>2, <2>3, <2>a DEF Types
  <2>8. StackShape(w)'
    BY <2>b
  <2>9. StackAtPC(w)'
    <3>1. pc'[w] = "run" /\ H'[w] = H[w]
      BY <1>a, <2>2 DEF Types
    <3>2. H[w] \in Nat /\ T(w) \in Nat /\ H[w] <= T(w) /\ T(w)' = T(w) + 1
      BY <1>s, <1>t, <2>2, <2>3, <2>a DEF StackAtPC
    <3>3. stack'[w] # <<>> /\ H'[w] < T(w)' /\ T(w)' >= 1
      BY <1>t, <3>1, <3>2
    <3>q. QED
      BY <2>3, <3>1, <3>3 DEF StackAtPC
  <2>q. QED
    BY <1>h, <2>2, <2>4, <2>5, <2>6, <2>7, <2>8, <2>9
<1>23. ASSUME NEW w \in Worker, ReturnFast(w) PROVE StackInv'
  <2>1. PICK f \in Proc :
          ReturnFastDoes(w, f)
    BY <1>23, ReturnFastEffect
  <2>2. /\ pc[w] = "run" /\ f = stack[w][T(w)] /\ T(w) > 1 /\ T(w) \in Nat
        /\ status[f] = "none" \/ H[w] + 1 = T(w)
        /\ f # Root /\ Shortened(stack, stack', w)
        /\ pc' = [pc EXCEPT ![w] = "pop"]
        /\ UNCHANGED <<H, cl, status, cache, created, parent>>
    BY <2>1 DEF ReturnFastDoes
  <2>3. /\ "run" \in WorkPC /\ "run" \notin SlowPC /\ "pop" \in WorkPC
        /\ "pop" \notin SlowPC
    BY <2>2 DEF WorkPC, PopPC, SlowPC
  <2>4. \A u \in Worker \ {w} : /\ stack'[u] = stack[u] /\ H'[u] = H[u]
                                /\ pc'[u] = pc[u] /\ cl'[u] = cl[u]
    BY <1>a, <2>2, <2>3 DEF Types, Shortened, Extended
  <2>5. \A d \in Proc : status[d] = "none" => status'[d] = "none"
    BY <1>a, <1>b, <2>2, <2>3 DEF Types
  <2>6. \A u \in Worker \ {w} : pc[u] \in {"setup", "add"}
           => status'[cl[u]] = "RUNNING" /\ cache'[cl[u]] = u
    BY <1>a, <1>c, <2>2, <2>3 DEF Types
  <2>7. created' >= created /\ \A d \in 1 .. created : parent'[d] = parent[d]
    BY <1>a, <1>b, <2>2, <2>3 DEF Types
  <2>8. StackShape(w)'
    BY <1>a, <1>x, <1>y, <1>z, <2>5, <2>7, <2>2, <2>3 DEF Types
  <2>9. StackAtPC(w)'
    BY <1>a, <1>b, <1>s, <1>t, <2>2, <2>3 DEF Types, StackAtPC, Shortened,
       Exception
  <2>q. QED
    BY <1>h, <2>2, <2>4, <2>5, <2>6, <2>7, <2>8, <2>9
<1>24. ASSUME NEW w \in Worker, PopResult(w) PROVE StackInv'
  <2>2. /\ pc[w] = "pop" /\ ~Exception(w) /\ pc' = [pc EXCEPT ![w] = "run"]
        /\ UNCHANGED <<stack, H, cl, status, cache, created, parent>>
    BY <1>24 DEF PopResult, program, state, tree, locks, caches, Goto, Outcome
  <2>3. /\ "pop" \in WorkPC /\ "pop" \notin SlowPC /\ "run" \in WorkPC
        /\ "run" \notin SlowPC
    BY <2>2 DEF WorkPC, PopPC, SlowPC
  <2>4. \A u \in Worker \ {w} : /\ stack'[u] = stack[u] /\ H'[u] = H[u]
                                /\ pc'[u] = pc[u] /\ cl'[u] = cl[u]
    BY <1>a, <2>2, <2>3 DEF Types, Shortened, Extended
  <2>5. \A d \in Proc : status[d] = "none" => status'[d] = "none"
    BY <1>a, <1>b, <2>2, <2>3 DEF Types
  <2>6. \A u \in Worker \ {w} : pc[u] \in {"setup", "add"}
           => status'[cl[u]] = "RUNNING" /\ cache'[cl[u]] = u
    BY <1>a, <1>c, <2>2, <2>3 DEF Types
  <2>7. created' >= created /\ \A d \in 1 .. created : parent'[d] = parent[d]
    BY <1>a, <1>b, <2>2, <2>3 DEF Types
  <2>8. StackShape(w)'
    BY <1>a, <1>x, <1>y, <1>z, <2>5, <2>7, <2>2, <2>3 DEF Types
  <2>9. StackAtPC(w)'
    BY <1>a, <1>b, <1>s, <1>t, <2>2, <2>3 DEF Types, StackAtPC, Shortened,
       Exception
  <2>q. QED
    BY <1>h, <2>2, <2>4, <2>5, <2>6, <2>7, <2>8, <2>9
<1>25. ASSUME NEW w \in Worker, LockOwnDeque(w) PROVE StackInv'
  <2>2. /\ pc[w] \in {"pop", "run", "synced"}
        /\ UNCHANGED <<stack, H, cl, status, cache, created, parent>>
    BY <1>25 DEF LockOwnDeque, program, results, state, tree, caches, Goto,
       LockDeque, SlowAborts
  <2>3. /\ "pop" \in WorkPC /\ "pop" \notin SlowPC /\ "run" \in WorkPC
        /\ "run" \notin SlowPC /\ "synced" \in WorkPC /\ "synced" \in SlowPC
        /\ "handler" \in WorkPC /\ "handler" \notin SlowPC /\ "sync" \in WorkPC
        /\ "sync" \in SlowPC /\ "abort" \in WorkPC /\ "abort" \in SlowPC
        /\ "result" \in WorkPC /\ "result" \in SlowPC /\ pc[w] \in WorkPC
    BY <2>2 DEF WorkPC, PopPC, SlowPC
  <2>4. ASSUME pc[w] = "pop", Exception(w),
               pc' = [pc EXCEPT ![w] = "handler"]
        PROVE  StackInv'
    <3>1. \A u \in Worker \ {w} : /\ stack'[u] = stack[u] /\ H'[u] = H[u]
                                  /\ pc'[u] = pc[u] /\ cl'[u] = cl[u]
      BY <1>a, <2>2, <2>3, <2>4 DEF Types, Shortened, Extended
    <3>2. \A d \in Proc : status[d] = "none" => status'[d] = "none"
      BY <1>a, <1>b, <2>2, <2>3, <2>4 DEF Types
    <3>3. \A u \in Worker \ {w} : pc[u] \in {"setup", "add"}
             => status'[cl[u]] = "RUNNING" /\ cache'[cl[u]] = u
      BY <1>a, <1>c, <2>2, <2>3, <2>4 DEF Types
    <3>4. created' >= created /\ \A d \in 1 .. created : parent'[d] = parent[d]
      BY <1>a, <1>b, <2>2, <2>3, <2>4 DEF Types
    <3>5. StackShape(w)'
      BY <1>a, <1>x, <1>y, <1>z, <3>2, <3>4, <2>2, <2>3, <2>4 DEF Types
    <3>6. StackAtPC(w)'
      BY <1>a, <1>b, <1>s, <1>t, <2>2, <2>3, <2>4 DEF Types, StackAtPC,
         Shortened, Exception
    <3>q. QED
      BY <1>h, <2>2, <3>1, <3>2, <3>3, <3>4, <3>5, <3>6
  <2>5. ASSUME pc[w] = "run", T(w) = 1, Running(w) = Root => created > 1,
               pc' = [pc EXCEPT ![w] = "sync"]
        PROVE  StackInv'
    <3>1. \A u \in Worker \ {w} : /\ stack'[u] = stack[u] /\ H'[u] = H[u]
                                  /\ pc'[u] = pc[u] /\ cl'[u] = cl[u]
      BY <1>a, <2>2, <2>3, <2>5 DEF Types, Shortened, Extended
    <3>2. \A d \in Proc : status[d] = "none" => status'[d] = "none"
      BY <1>a, <1>b, <2>2, <2>3, <2>5 DEF Types
    <3>3. \A u \in Worker \ {w} : pc[u] \in {"setup", "add"}
             => status'[cl[u]] = "RUNNING" /\ cache'[cl[u]] = u
      BY <1>a, <1>c, <2>2, <2>3, <2>5 DEF Types
    <3>4. created' >= created /\ \A d \in 1 .. created : parent'[d] = parent[d]
      BY <1>a, <1>b, <2>2, <2>3, <2>5 DEF Types
    <3>5. StackShape(w)'
      BY <1>a, <1>x, <1>y, <1>z, <3>2, <3>4, <2>2, <2>3, <2>5 DEF Types
    <3>6. StackAtPC(w)'
      BY <1>a, <1>b, <1>s, <1>t, <2>2, <2>3, <2>5 DEF Types, StackAtPC,
         Shortened, Exception
    <3>q. QED
      BY <1>h, <2>2, <3>1, <3>2, <3>3, <3>4, <3>5, <3>6
  <2>6. ASSUME pc[w] = "run", T(w) = 1, Running(w) # Root,
               pc' = [pc EXCEPT ![w] = "abort"]
        PROVE  StackInv'
    <3>1. \A u \in Worker \ {w} : /\ stack'[u] = stack[u] /\ H'[u] = H[u]
                                  /\ pc'[u] = pc[u] /\ cl'[u] = cl[u]
      BY <1>a, <2>2, <2>3, <2>6 DEF Types, Shortened, Extended
    <3>2. \A d \in Proc : status[d] = "none" => status'[d] = "none"
      BY <1>a, <1>b, <2>2, <2>3, <2>6 DEF Types
    <3>3. \A u \in Worker \ {w} : pc[u] \in {"setup", "add"}
             => status'[cl[u]] = "RUNNING" /\ cache'[cl[u]] = u
      BY <1>a, <1>c, <2>2, <2>3, <2>6 DEF Types
    <3>4. created' >= created /\ \A d \in 1 .. created : parent'[d] = parent[d]
      BY <1>a, <1>b, <2>2, <2>3, <2>6 DEF Types
    <3>5. StackShape(w)'
      BY <1>a, <1>x, <1>y, <1>z, <3>2, <3>4, <2>2, <2>3, <2>6 DEF Types
    <3>6. StackAtPC(w)'
      BY <1>a, <1>b, <1>s, <1>t, <2>2, <2>3, <2>6 DEF Types, StackAtPC,
         Shortened, Exception
    <3>q. QED
      BY <1>h, <2>2, <3>1, <3>2, <3>3, <3>4, <3>5, <3>6
  <2>7. ASSUME pc[w] = "synced", Running(w) # Root,
               pc' = [pc EXCEPT ![w] = "result"]
        PROVE  StackInv'
    <3>1. \A u \in Worker \ {w} : /\ stack'[u] = stack[u] /\ H'[u] = H[u]
                                  /\ pc'[u] = pc[u] /\ cl'[u] = cl[u]
      BY <1>a, <2>2, <2>3, <2>7 DEF Types, Shortened, Extended
    <3>2. \A d \in Proc : status[d] = "none" => status'[d] = "none"
      BY <1>a, <1>b, <2>2, <2>3, <2>7 DEF Types
    <3>3. \A u \in Worker \ {w} : pc[u] \in {"setup", "add"}
             => status'[cl[u]] = "RUNNING" /\ cache'[cl[u]] = u
      BY <1>a, <1>c, <2>2, <2>3, <2>7 DEF Types
    <3>4. created' >= created /\ \A d \in 1 .. created : parent'[d] = parent[d]
      BY <1>a, <1>b, <2>2, <2>3, <2>7 DEF Types
    <3>5. StackShape(w)'
      BY <1>a, <1>x, <1>y, <1>z, <3>2, <3>4, <2>2, <2>3, <2>7 DEF Types
    <3>6. StackAtPC(w)'
      <4>1. /\ T(w)' = T(w) /\ Running(w)' = Running(w) /\ stack'[w] = stack[w]
           /\ H'[w] = H[w] /\ StackAtPC(w)
        BY <1>s, <1>t, <2>2, <2>7
      <4>2. pc'[w] = "result"
        BY <1>a, <2>2, <2>7 DEF Types
      <4>q. QED
        BY <1>b, <1>t, <2>2, <2>3, <4>1, <4>2, <2>7 DEF StackAtPC
    <3>q. QED
      BY <1>h, <2>2, <3>1, <3>2, <3>3, <3>4, <3>5, <3>6
  <2>q. QED
    BY <1>25, <2>2, <2>4, <2>5, <2>6, <2>7 DEF LockOwnDeque, program, results,
       state, tree, caches, Goto, LockDeque, SlowAborts
<1>26. ASSUME NEW w \in Worker, LockBottom(w) PROVE StackInv'
  <2>1. PICK c \in Proc :
          LockBottomDoes(w, c)
    BY <1>26, LockBottomEffect
  <2>2. /\ pc[w] \in {"handler", "sync", "abort", "result"}
        /\ cl' = [cl EXCEPT ![w] = c]
        /\ UNCHANGED <<stack, H, status, cache, created, parent>>
    BY <2>1 DEF LockBottomDoes
  <2>3. /\ "handler" \in WorkPC /\ "handler" \notin SlowPC /\ "sync" \in WorkPC
        /\ "sync" \in SlowPC /\ "abort" \in WorkPC /\ "abort" \in SlowPC
        /\ "result" \in WorkPC /\ "result" \in SlowPC
        /\ "handlerPoll" \in WorkPC /\ "handlerPoll" \notin SlowPC
        /\ "syncPoll" \in WorkPC /\ "syncPoll" \in SlowPC
        /\ "setResult" \in WorkPC /\ "setResult" \in SlowPC
        /\ "abortPoll" \in WorkPC /\ "abortPoll" \in SlowPC /\ pc[w] \in WorkPC
    BY <2>2 DEF WorkPC, PopPC, SlowPC
  <2>4. ASSUME pc[w] = "handler", pc' = [pc EXCEPT ![w] = "handlerPoll"]
        PROVE  StackInv'
    <3>1. \A u \in Worker \ {w} : /\ stack'[u] = stack[u] /\ H'[u] = H[u]
                                  /\ pc'[u] = pc[u] /\ cl'[u] = cl[u]
      BY <1>a, <2>2, <2>3, <2>4 DEF Types, Shortened, Extended
    <3>2. \A d \in Proc : status[d] = "none" => status'[d] = "none"
      BY <1>a, <1>b, <2>2, <2>3, <2>4 DEF Types
    <3>3. \A u \in Worker \ {w} : pc[u] \in {"setup", "add"}
             => status'[cl[u]] = "RUNNING" /\ cache'[cl[u]] = u
      BY <1>a, <1>c, <2>2, <2>3, <2>4 DEF Types
    <3>4. created' >= created /\ \A d \in 1 .. created : parent'[d] = parent[d]
      BY <1>a, <1>b, <2>2, <2>3, <2>4 DEF Types
    <3>5. StackShape(w)'
      BY <1>a, <1>x, <1>y, <1>z, <3>2, <3>4, <2>2, <2>3, <2>4 DEF Types
    <3>6. StackAtPC(w)'
      BY <1>a, <1>b, <1>s, <1>t, <2>2, <2>3, <2>4 DEF Types, StackAtPC,
         Shortened, Exception
    <3>q. QED
      BY <1>h, <2>2, <3>1, <3>2, <3>3, <3>4, <3>5, <3>6
  <2>5. ASSUME pc[w] = "sync", pc' = [pc EXCEPT ![w] = "syncPoll"]
        PROVE  StackInv'
    <3>1. \A u \in Worker \ {w} : /\ stack'[u] = stack[u] /\ H'[u] = H[u]
                                  /\ pc'[u] = pc[u] /\ cl'[u] = cl[u]
      BY <1>a, <2>2, <2>3, <2>5 DEF Types, Shortened, Extended
    <3>2. \A d \in Proc : status[d] = "none" => status'[d] = "none"
      BY <1>a, <1>b, <2>2, <2>3, <2>5 DEF Types
    <3>3. \A u \in Worker \ {w} : pc[u] \in {"setup", "add"}
             => status'[cl[u]] = "RUNNING" /\ cache'[cl[u]] = u
      BY <1>a, <1>c, <2>2, <2>3, <2>5 DEF Types
    <3>4. created' >= created /\ \A d \in 1 .. created : parent'[d] = parent[d]
      BY <1>a, <1>b, <2>2, <2>3, <2>5 DEF Types
    <3>5. StackShape(w)'
      BY <1>a, <1>x, <1>y, <1>z, <3>2, <3>4, <2>2, <2>3, <2>5 DEF Types
    <3>6. StackAtPC(w)'
      BY <1>a, <1>b, <1>s, <1>t, <2>2, <2>3, <2>5 DEF Types, StackAtPC,
         Shortened, Exception
    <3>q. QED
      BY <1>h, <2>2, <3>1, <3>2, <3>3, <3>4, <3>5, <3>6
  <2>6. ASSUME pc[w] = "result", pc' = [pc EXCEPT ![w] = "setResult"]
        PROVE  StackInv'
    <3>1. \A u \in Worker \ {w} : /\ stack'[u] = stack[u] /\ H'[u] = H[u]
                                  /\ pc'[u] = pc[u] /\ cl'[u] = cl[u]
      BY <1>a, <2>2, <2>3, <2>6 DEF Types, Shortened, Extended
    <3>2. \A d \in Proc : status[d] = "none" => status'[d] = "none"
      BY <1>a, <1>b, <2>2, <2>3, <2>6 DEF Types
    <3>3. \A u \in Worker \ {w} : pc[u] \in {"setup", "add"}
             => status'[cl[u]] = "RUNNING" /\ cache'[cl[u]] = u
      BY <1>a, <1>c, <2>2, <2>3, <2>6 DEF Types
    <3>4. created' >= created /\ \A d \in 1 .. created : parent'[d] = parent[d]
      BY <1>a, <1>b, <2>2, <2>3, <2>6 DEF Types
    <3>5. StackShape(w)'
      BY <1>a, <1>x, <1>y, <1>z, <3>2, <3>4, <2>2, <2>3, <2>6 DEF Types
    <3>6. StackAtPC(w)'
      <4>1. /\ T(w)' = T(w) /\ Running(w)' = Running(w) /\ stack'[w] = stack[w]
           /\ H'[w] = H[w] /\ StackAtPC(w)
        BY <1>s, <1>t, <2>2, <2>6
      <4>2. pc'[w] = "setResult"
        BY <1>a, <2>2, <2>6 DEF Types
      <4>q. QED
        BY <1>b, <1>t, <2>2, <2>3, <4>1, <4>2, <2>6 DEF StackAtPC
    <3>q. QED
      BY <1>h, <2>2, <3>1, <3>2, <3>3, <3>4, <3>5, <3>6
  <2>7. ASSUME NEW s \in {ABORT_ALL, ALMOST_NO_ABORT}, pc[w] = "abort",
               status[c] = "RUNNING", pc' = [pc EXCEPT ![w] = "abortPoll"]
        PROVE  StackInv'
    <3>1. \A u \in Worker \ {w} : /\ stack'[u] = stack[u] /\ H'[u] = H[u]
                                  /\ pc'[u] = pc[u] /\ cl'[u] = cl[u]
      BY <1>a, <2>2, <2>3, <2>7 DEF Types, Shortened, Extended
    <3>2. \A d \in Proc : status[d] = "none" => status'[d] = "none"
      BY <1>a, <1>b, <2>2, <2>3, <2>7 DEF Types
    <3>3. \A u \in Worker \ {w} : pc[u] \in {"setup", "add"}
             => status'[cl[u]] = "RUNNING" /\ cache'[cl[u]] = u
      BY <1>a, <1>c, <2>2, <2>3, <2>7 DEF Types
    <3>4. created' >= created /\ \A d \in 1 .. created : parent'[d] = parent[d]
      BY <1>a, <1>b, <2>2, <2>3, <2>7 DEF Types
    <3>5. StackShape(w)'
      BY <1>a, <1>x, <1>y, <1>z, <3>2, <3>4, <2>2, <2>3, <2>7 DEF Types
    <3>6. StackAtPC(w)'
      BY <1>a, <1>b, <1>s, <1>t, <2>2, <2>3, <2>7 DEF Types, StackAtPC,
         Shortened, Exception
    <3>q. QED
      BY <1>h, <2>2, <3>1, <3>2, <3>3, <3>4, <3>5, <3>6
  <2>q. QED
    BY <2>1, <2>2, <2>4, <2>5, <2>6, <2>7 DEF LockBottomDoes
<1>27. ASSUME NEW w \in Worker, Sync(w) PROVE StackInv'
  <2>1. PICK c \in Proc :
          SyncDoes(w, c)
    BY <1>27, SyncEffect
  <2>2. /\ pc[w] = "syncPoll" /\ c = cl[w] /\ T(w) = 1 /\ H[w] = 0
        /\ status[c] = "RUNNING" /\ stack[w][1] = c /\ cache[c] = w
        /\ cl' = [cl EXCEPT ![w] = None]
        /\ UNCHANGED <<H, cache, created, parent>>
    BY <2>1 DEF SyncDoes
  <2>3. /\ "syncPoll" \in WorkPC /\ "syncPoll" \in SlowPC
        /\ "loop" \notin WorkPC /\ "loop" \notin SlowPC /\ "synced" \in WorkPC
        /\ "synced" \in SlowPC
    BY <2>2 DEF WorkPC, PopPC, SlowPC
  <2>4. ASSUME join[c] # 0, stack' = [stack EXCEPT ![w] = <<>>],
               pc' = [pc EXCEPT ![w] = "loop"],
               status' = [status EXCEPT ![c] = "SUSPENDED"]
        PROVE  StackInv'
    <3>1. \A u \in Worker \ {w} : /\ stack'[u] = stack[u] /\ H'[u] = H[u]
                                  /\ pc'[u] = pc[u] /\ cl'[u] = cl[u]
      BY <1>a, <2>2, <2>3, <2>4 DEF Types, Shortened, Extended
    <3>2. \A d \in Proc : status[d] = "none" => status'[d] = "none"
      BY <1>a, <1>b, <2>2, <2>3, <2>4 DEF Types
    <3>3. \A u \in Worker \ {w} : pc[u] \in {"setup", "add"}
             => status'[cl[u]] = "RUNNING" /\ cache'[cl[u]] = u
      BY <1>a, <1>c, <2>2, <2>3, <2>4 DEF Types
    <3>4. created' >= created /\ \A d \in 1 .. created : parent'[d] = parent[d]
      BY <1>a, <1>b, <2>2, <2>3, <2>4 DEF Types
    <3>5. StackShape(w)'
      BY <1>a, <1>x, <1>y, <1>z, <3>2, <3>4, <2>2, <2>3, <2>4 DEF Types
    <3>6. StackAtPC(w)'
      BY <1>a, <1>b, <1>s, <1>t, <2>2, <2>3, <2>4 DEF Types, StackAtPC,
         Shortened, Exception
    <3>q. QED
      BY <1>h, <2>2, <3>1, <3>2, <3>3, <3>4, <3>5, <3>6
  <2>5. ASSUME join[c] = 0, pc' = [pc EXCEPT ![w] = "synced"],
               UNCHANGED <<stack, status>>
        PROVE  StackInv'
    <3>1. \A u \in Worker \ {w} : /\ stack'[u] = stack[u] /\ H'[u] = H[u]
                                  /\ pc'[u] = pc[u] /\ cl'[u] = cl[u]
      BY <1>a, <2>2, <2>3, <2>5 DEF Types, Shortened, Extended
    <3>2. \A d \in Proc : status[d] = "none" => status'[d] = "none"
      BY <1>a, <1>b, <2>2, <2>3, <2>5 DEF Types
    <3>3. \A u \in Worker \ {w} : pc[u] \in {"setup", "add"}
             => status'[cl[u]] = "RUNNING" /\ cache'[cl[u]] = u
      BY <1>a, <1>c, <2>2, <2>3, <2>5 DEF Types
    <3>4. created' >= created /\ \A d \in 1 .. created : parent'[d] = parent[d]
      BY <1>a, <1>b, <2>2, <2>3, <2>5 DEF Types
    <3>5. StackShape(w)'
      BY <1>a, <1>x, <1>y, <1>z, <3>2, <3>4, <2>2, <2>3, <2>5 DEF Types
    <3>6. StackAtPC(w)'
      BY <1>a, <1>b, <1>s, <1>t, <2>2, <2>3, <2>5 DEF Types, StackAtPC,
         Shortened, Exception
    <3>q. QED
      BY <1>h, <2>2, <3>1, <3>2, <3>3, <3>4, <3>5, <3>6
  <2>q. QED
    BY <2>1, <2>2, <2>4, <2>5 DEF SyncDoes
<1>28. ASSUME NEW w \in Worker, AbortSlow(w) PROVE StackInv'
  <2>2. /\ pc[w] = "abortPoll" /\ pc' = [pc EXCEPT ![w] = "run"]
        /\ cl' = [cl EXCEPT ![w] = None]
        /\ UNCHANGED <<stack, H, status, cache, created, parent>>
    BY <1>28 DEF AbortSlow, program, results, tree, caches, Goto, UnlockBoth,
       Polled, Hand, UnlockClosure, UnlockDeque, Polls
  <2>3. /\ "abortPoll" \in WorkPC /\ "abortPoll" \in SlowPC /\ "run" \in WorkPC
        /\ "run" \notin SlowPC
    BY <2>2 DEF WorkPC, PopPC, SlowPC
  <2>4. \A u \in Worker \ {w} : /\ stack'[u] = stack[u] /\ H'[u] = H[u]
                                /\ pc'[u] = pc[u] /\ cl'[u] = cl[u]
    BY <1>a, <2>2, <2>3 DEF Types, Shortened, Extended
  <2>5. \A d \in Proc : status[d] = "none" => status'[d] = "none"
    BY <1>a, <1>b, <2>2, <2>3 DEF Types
  <2>6. \A u \in Worker \ {w} : pc[u] \in {"setup", "add"}
           => status'[cl[u]] = "RUNNING" /\ cache'[cl[u]] = u
    BY <1>a, <1>c, <2>2, <2>3 DEF Types
  <2>7. created' >= created /\ \A d \in 1 .. created : parent'[d] = parent[d]
    BY <1>a, <1>b, <2>2, <2>3 DEF Types
  <2>8. StackShape(w)'
    BY <1>a, <1>x, <1>y, <1>z, <2>5, <2>7, <2>2, <2>3 DEF Types
  <2>9. StackAtPC(w)'
    BY <1>a, <1>b, <1>s, <1>t, <2>2, <2>3 DEF Types, StackAtPC, Shortened,
       Exception
  <2>q. QED
    BY <1>h, <2>2, <2>4, <2>5, <2>6, <2>7, <2>8, <2>9
<1>29. ASSUME NEW w \in Worker, SetResult(w) PROVE StackInv'
  <2>1. PICK c \in Proc :
          SetResultDoes(w, c)
    BY <1>29, SetResultEffect
  <2>2. /\ pc[w] = "setResult" /\ c = cl[w] /\ T(w) = 1 /\ H[w] = 0 /\ c # Root
        /\ status[c] = "RUNNING" /\ stack[w][1] = c /\ cache[c] = w
        /\ stack' = [stack EXCEPT ![w] = <<>>]
        /\ pc' = [pc EXCEPT ![w] = "loop"] /\ cl' = [cl EXCEPT ![w] = None]
        /\ status' = [status EXCEPT ![c] = "RETURNING"]
        /\ UNCHANGED <<H, cache, created, parent>>
    BY <2>1 DEF SetResultDoes
  <2>3. /\ "setResult" \in WorkPC /\ "setResult" \in SlowPC
        /\ "loop" \notin WorkPC /\ "loop" \notin SlowPC
    BY <2>2 DEF WorkPC, PopPC, SlowPC
  <2>4. \A u \in Worker \ {w} : /\ stack'[u] = stack[u] /\ H'[u] = H[u]
                                /\ pc'[u] = pc[u] /\ cl'[u] = cl[u]
    BY <1>a, <2>2, <2>3 DEF Types, Shortened, Extended
  <2>5. \A d \in Proc : status[d] = "none" => status'[d] = "none"
    BY <1>a, <1>b, <2>2, <2>3 DEF Types
  <2>6. \A u \in Worker \ {w} : pc[u] \in {"setup", "add"}
           => status'[cl[u]] = "RUNNING" /\ cache'[cl[u]] = u
    BY <1>a, <1>c, <2>2, <2>3 DEF Types
  <2>7. created' >= created /\ \A d \in 1 .. created : parent'[d] = parent[d]
    BY <1>a, <1>b, <2>2, <2>3 DEF Types
  <2>8. StackShape(w)'
    BY <1>a, <1>x, <1>y, <1>z, <2>5, <2>7, <2>2, <2>3 DEF Types
  <2>9. StackAtPC(w)'
    BY <1>a, <1>b, <1>s, <1>t, <2>2, <2>3 DEF Types, StackAtPC, Shortened,
       Exception
  <2>q. QED
    BY <1>h, <2>2, <2>4, <2>5, <2>6, <2>7, <2>8, <2>9
<1>30. ASSUME NEW w \in Worker, Done(w) PROVE StackInv'
  <2>2. /\ pc[w] = "synced" /\ Running(w) = Root
        /\ pc' = [pc EXCEPT ![w] = "rootEnd"]
        /\ UNCHANGED <<stack, H, cl, status, cache, created, parent>>
    BY <1>30 DEF Done, results, state, tree, locks, caches, Goto, AfterSync
  <2>3. /\ "synced" \in WorkPC /\ "synced" \in SlowPC /\ "rootEnd" \in WorkPC
        /\ "rootEnd" \in SlowPC
    BY <2>2 DEF WorkPC, PopPC, SlowPC
  <2>4. \A u \in Worker \ {w} : /\ stack'[u] = stack[u] /\ H'[u] = H[u]
                                /\ pc'[u] = pc[u] /\ cl'[u] = cl[u]
    BY <1>a, <2>2, <2>3 DEF Types, Shortened, Extended
  <2>5. \A d \in Proc : status[d] = "none" => status'[d] = "none"
    BY <1>a, <1>b, <2>2, <2>3 DEF Types
  <2>6. \A u \in Worker \ {w} : pc[u] \in {"setup", "add"}
           => status'[cl[u]] = "RUNNING" /\ cache'[cl[u]] = u
    BY <1>a, <1>c, <2>2, <2>3 DEF Types
  <2>7. created' >= created /\ \A d \in 1 .. created : parent'[d] = parent[d]
    BY <1>a, <1>b, <2>2, <2>3 DEF Types
  <2>8. StackShape(w)'
    BY <1>a, <1>x, <1>y, <1>z, <2>5, <2>7, <2>2, <2>3 DEF Types
  <2>9. StackAtPC(w)'
    <3>1. /\ T(w)' = T(w) /\ Running(w)' = Running(w) /\ stack'[w] = stack[w]
         /\ H'[w] = H[w] /\ StackAtPC(w)
      BY <1>s, <1>t, <2>2
    <3>2. pc'[w] = "rootEnd"
      BY <1>a, <2>2 DEF Types
    <3>q. QED
      BY <1>b, <1>t, <2>2, <2>3, <3>1, <3>2 DEF StackAtPC
  <2>q. QED
    BY <1>h, <2>2, <2>4, <2>5, <2>6, <2>7, <2>8, <2>9
<1>31. ASSUME NEW w \in Worker, RemoveAndFree(w) PROVE StackInv'
  <2>1. RemoveAndFreeDoes(w)
    BY <1>31, RemoveAndFreeEffect
  <2>2. /\ pc[w] = "rootEnd" /\ T(w) = 1 /\ H[w] = 0 /\ Root \in Proc
        /\ status[Root] = "RUNNING" /\ cache[Root] = w
        /\ stack' = [stack EXCEPT ![w] = <<>>]
        /\ pc' = [pc EXCEPT ![w] = "loop"]
        /\ status' = [status EXCEPT ![Root] = "freed"]
        /\ UNCHANGED <<H, cl, cache, created, parent>>
    BY <2>1 DEF RemoveAndFreeDoes
  <2>3. /\ "rootEnd" \in WorkPC /\ "rootEnd" \in SlowPC /\ "loop" \notin WorkPC
        /\ "loop" \notin SlowPC
    BY <2>2 DEF WorkPC, PopPC, SlowPC
  <2>4. \A u \in Worker \ {w} : /\ stack'[u] = stack[u] /\ H'[u] = H[u]
                                /\ pc'[u] = pc[u] /\ cl'[u] = cl[u]
    BY <1>a, <2>2, <2>3 DEF Types, Shortened, Extended
  <2>5. \A d \in Proc : status[d] = "none" => status'[d] = "none"
    BY <1>a, <1>b, <2>2, <2>3 DEF Types
  <2>6. \A u \in Worker \ {w} : pc[u] \in {"setup", "add"}
           => status'[cl[u]] = "RUNNING" /\ cache'[cl[u]] = u
    BY <1>a, <1>c, <2>2, <2>3 DEF Types
  <2>7. created' >= created /\ \A d \in 1 .. created : parent'[d] = parent[d]
    BY <1>a, <1>b, <2>2, <2>3 DEF Types
  <2>8. StackShape(w)'
    BY <1>a, <1>x, <1>y, <1>z, <2>5, <2>7, <2>2, <2>3 DEF Types
  <2>9. StackAtPC(w)'
    BY <1>a, <1>b, <1>s, <1>t, <2>2, <2>3 DEF Types, StackAtPC, Shortened,
       Exception
  <2>q. QED
    BY <1>h, <2>2, <2>4, <2>5, <2>6, <2>7, <2>8, <2>9
<1>32. ASSUME NEW w \in Worker, CilkExit(w) PROVE StackInv'
  <2>1. CilkExitDoes(w)
    BY <1>32, CilkExitEffect
  <2>2. /\ pc[w] = "run" /\ Root \in Proc /\ Running(w) # Root
        /\ UNCHANGED <<stack, H, status, cache, created, parent>>
    BY <2>1 DEF CilkExitDoes
  <2>3. /\ "run" \in WorkPC /\ "run" \notin SlowPC /\ "exitPoll" \in WorkPC
        /\ "exitPoll" \notin SlowPC
    BY <2>2 DEF WorkPC, PopPC, SlowPC
  <2>4. ASSUME status[Root] = "RUNNING",
               UNCHANGED <<pc, cl>>
        PROVE  StackInv'
    <3>1. \A u \in Worker \ {w} : /\ stack'[u] = stack[u] /\ H'[u] = H[u]
                                  /\ pc'[u] = pc[u] /\ cl'[u] = cl[u]
      BY <1>a, <2>2, <2>3, <2>4 DEF Types, Shortened, Extended
    <3>2. \A d \in Proc : status[d] = "none" => status'[d] = "none"
      BY <1>a, <1>b, <2>2, <2>3, <2>4 DEF Types
    <3>3. \A u \in Worker \ {w} : pc[u] \in {"setup", "add"}
             => status'[cl[u]] = "RUNNING" /\ cache'[cl[u]] = u
      BY <1>a, <1>c, <2>2, <2>3, <2>4 DEF Types
    <3>4. created' >= created /\ \A d \in 1 .. created : parent'[d] = parent[d]
      BY <1>a, <1>b, <2>2, <2>3, <2>4 DEF Types
    <3>5. StackShape(w)'
      BY <1>a, <1>x, <1>y, <1>z, <3>2, <3>4, <2>2, <2>3, <2>4 DEF Types
    <3>6. StackAtPC(w)'
      BY <1>a, <1>b, <1>s, <1>t, <2>2, <2>3, <2>4 DEF Types, StackAtPC,
         Shortened, Exception
    <3>q. QED
      BY <1>h, <2>2, <3>1, <3>2, <3>3, <3>4, <3>5, <3>6
  <2>5. ASSUME status[Root] # "RUNNING", pc' = [pc EXCEPT ![w] = "exitPoll"],
               cl' = [cl EXCEPT ![w] = Root]
        PROVE  StackInv'
    <3>1. \A u \in Worker \ {w} : /\ stack'[u] = stack[u] /\ H'[u] = H[u]
                                  /\ pc'[u] = pc[u] /\ cl'[u] = cl[u]
      BY <1>a, <2>2, <2>3, <2>5 DEF Types, Shortened, Extended
    <3>2. \A d \in Proc : status[d] = "none" => status'[d] = "none"
      BY <1>a, <1>b, <2>2, <2>3, <2>5 DEF Types
    <3>3. \A u \in Worker \ {w} : pc[u] \in {"setup", "add"}
             => status'[cl[u]] = "RUNNING" /\ cache'[cl[u]] = u
      BY <1>a, <1>c, <2>2, <2>3, <2>5 DEF Types
    <3>4. created' >= created /\ \A d \in 1 .. created : parent'[d] = parent[d]
      BY <1>a, <1>b, <2>2, <2>3, <2>5 DEF Types
    <3>5. StackShape(w)'
      BY <1>a, <1>x, <1>y, <1>z, <3>2, <3>4, <2>2, <2>3, <2>5 DEF Types
    <3>6. StackAtPC(w)'
      <4>1. /\ T(w)' = T(w) /\ Running(w)' = Running(w) /\ stack'[w] = stack[w]
           /\ H'[w] = H[w] /\ StackAtPC(w)
        BY <1>s, <1>t, <2>2, <2>5
      <4>2. pc'[w] = "exitPoll"
        BY <1>a, <2>2, <2>5 DEF Types
      <4>q. QED
        BY <1>b, <1>t, <2>2, <2>3, <4>1, <4>2, <2>5 DEF StackAtPC
    <3>q. QED
      BY <1>h, <2>2, <3>1, <3>2, <3>3, <3>4, <3>5, <3>6
  <2>q. QED
    BY <2>1, <2>2, <2>4, <2>5 DEF CilkExitDoes
<1>33. ASSUME NEW w \in Worker, CilkExitDone(w) PROVE StackInv'
  <2>2. /\ pc[w] = "exitPoll" /\ pc' = [pc EXCEPT ![w] = "run"]
        /\ cl' = [cl EXCEPT ![w] = None]
        /\ UNCHANGED <<stack, H, status, cache, created, parent>>
    BY <1>33 DEF CilkExitDone, program, results, tree, caches, Goto, Hand,
       UnlockClosure, Polled, Polls
  <2>3. /\ "exitPoll" \in WorkPC /\ "exitPoll" \notin SlowPC
        /\ "run" \in WorkPC /\ "run" \notin SlowPC
    BY <2>2 DEF WorkPC, PopPC, SlowPC
  <2>4. \A u \in Worker \ {w} : /\ stack'[u] = stack[u] /\ H'[u] = H[u]
                                /\ pc'[u] = pc[u] /\ cl'[u] = cl[u]
    BY <1>a, <2>2, <2>3 DEF Types, Shortened, Extended
  <2>5. \A d \in Proc : status[d] = "none" => status'[d] = "none"
    BY <1>a, <1>b, <2>2, <2>3 DEF Types
  <2>6. \A u \in Worker \ {w} : pc[u] \in {"setup", "add"}
           => status'[cl[u]] = "RUNNING" /\ cache'[cl[u]] = u
    BY <1>a, <1>c, <2>2, <2>3 DEF Types
  <2>7. created' >= created /\ \A d \in 1 .. created : parent'[d] = parent[d]
    BY <1>a, <1>b, <2>2, <2>3 DEF Types
  <2>8. StackShape(w)'
    BY <1>a, <1>x, <1>y, <1>z, <2>5, <2>7, <2>2, <2>3 DEF Types
  <2>9. StackAtPC(w)'
    BY <1>a, <1>b, <1>s, <1>t, <2>2, <2>3 DEF Types, StackAtPC, Shortened,
       Exception
  <2>q. QED
    BY <1>h, <2>2, <2>4, <2>5, <2>6, <2>7, <2>8, <2>9
<1>34. ASSUME NEW w \in Worker, HandlerPolled(w) PROVE StackInv'
  <2>1. PICK t \in Proc, t1 \in Proc :
          HandlerPolledDoes(w, t, t1)
    BY <1>34, HandlerPolledEffect
  <2>2. /\ pc[w] = "handlerPoll" /\ t = cl[w]
        /\ UNCHANGED <<stack, H, status, cache, created, parent>>
    BY <2>1 DEF HandlerPolledDoes
  <2>3. /\ "handlerPoll" \in WorkPC /\ "handlerPoll" \notin SlowPC
        /\ "handlerAct" \in WorkPC /\ "handlerAct" \notin SlowPC
        /\ "handlerSwap" \in WorkPC /\ "handlerSwap" \notin SlowPC
    BY <2>2 DEF WorkPC, PopPC, SlowPC
  <2>4. ASSUME t1 = t, pc' = [pc EXCEPT ![w] = "handlerAct"],
               UNCHANGED <<cl>>
        PROVE  StackInv'
    <3>1. \A u \in Worker \ {w} : /\ stack'[u] = stack[u] /\ H'[u] = H[u]
                                  /\ pc'[u] = pc[u] /\ cl'[u] = cl[u]
      BY <1>a, <2>2, <2>3, <2>4 DEF Types, Shortened, Extended
    <3>2. \A d \in Proc : status[d] = "none" => status'[d] = "none"
      BY <1>a, <1>b, <2>2, <2>3, <2>4 DEF Types
    <3>3. \A u \in Worker \ {w} : pc[u] \in {"setup", "add"}
             => status'[cl[u]] = "RUNNING" /\ cache'[cl[u]] = u
      BY <1>a, <1>c, <2>2, <2>3, <2>4 DEF Types
    <3>4. created' >= created /\ \A d \in 1 .. created : parent'[d] = parent[d]
      BY <1>a, <1>b, <2>2, <2>3, <2>4 DEF Types
    <3>5. StackShape(w)'
      BY <1>a, <1>x, <1>y, <1>z, <3>2, <3>4, <2>2, <2>3, <2>4 DEF Types
    <3>6. StackAtPC(w)'
      BY <1>a, <1>b, <1>s, <1>t, <2>2, <2>3, <2>4 DEF Types, StackAtPC,
         Shortened, Exception
    <3>q. QED
      BY <1>h, <2>2, <3>1, <3>2, <3>3, <3>4, <3>5, <3>6
  <2>5. ASSUME t1 # t, status[t] = "READY",
               pc' = [pc EXCEPT ![w] = "handlerSwap"],
               cl' = [cl EXCEPT ![w] = t1]
        PROVE  StackInv'
    <3>1. \A u \in Worker \ {w} : /\ stack'[u] = stack[u] /\ H'[u] = H[u]
                                  /\ pc'[u] = pc[u] /\ cl'[u] = cl[u]
      BY <1>a, <2>2, <2>3, <2>5 DEF Types, Shortened, Extended
    <3>2. \A d \in Proc : status[d] = "none" => status'[d] = "none"
      BY <1>a, <1>b, <2>2, <2>3, <2>5 DEF Types
    <3>3. \A u \in Worker \ {w} : pc[u] \in {"setup", "add"}
             => status'[cl[u]] = "RUNNING" /\ cache'[cl[u]] = u
      BY <1>a, <1>c, <2>2, <2>3, <2>5 DEF Types
    <3>4. created' >= created /\ \A d \in 1 .. created : parent'[d] = parent[d]
      BY <1>a, <1>b, <2>2, <2>3, <2>5 DEF Types
    <3>5. StackShape(w)'
      BY <1>a, <1>x, <1>y, <1>z, <3>2, <3>4, <2>2, <2>3, <2>5 DEF Types
    <3>6. StackAtPC(w)'
      BY <1>a, <1>b, <1>s, <1>t, <2>2, <2>3, <2>5 DEF Types, StackAtPC,
         Shortened, Exception
    <3>q. QED
      BY <1>h, <2>2, <3>1, <3>2, <3>3, <3>4, <3>5, <3>6
  <2>q. QED
    BY <2>1, <2>2, <2>4, <2>5 DEF HandlerPolledDoes
<1>35. ASSUME NEW w \in Worker, HandlerSwap(w) PROVE StackInv'
  BY <1>g, <1>35 DEF HandlerSwap, program, results, state, tree, caches, Goto,
     LockClosure, WorkPC, PopPC, SlowPC
<1>36. ASSUME NEW w \in Worker, HandlerStolen(w) PROVE StackInv'
  <2>1. PICK c \in Proc :
          HandlerStolenDoes(w, c)
    BY <1>36, HandlerStolenEffect
  <2>2. /\ pc[w] = "handlerAct" /\ c = cl[w] /\ c # Root /\ T(w) \in Nat \ {0}
        /\ H[w] \in Nat /\ H[w] >= T(w)
        /\ status[c] = "RUNNING" => child[w] = c /\ cache[c] = w
        /\ status[c] \in {"RUNNING", "RETURNING"}
        /\ Shortened(stack, stack', w) /\ cl' = [cl EXCEPT ![w] = None]
        /\ status' = [status EXCEPT ![c] = "RETURNING"]
        /\ UNCHANGED <<H, cache, created, parent>>
    BY <2>1 DEF HandlerStolenDoes
  <2>3. /\ "handlerAct" \in WorkPC /\ "handlerAct" \notin SlowPC
        /\ "loop" \notin WorkPC /\ "loop" \notin SlowPC /\ "pop" \in WorkPC
        /\ "pop" \notin SlowPC
    BY <2>2 DEF WorkPC, PopPC, SlowPC
  <2>4. ASSUME T(w) = 1, pc' = [pc EXCEPT ![w] = "loop"]
        PROVE  StackInv'
    <3>1. \A u \in Worker \ {w} : /\ stack'[u] = stack[u] /\ H'[u] = H[u]
                                  /\ pc'[u] = pc[u] /\ cl'[u] = cl[u]
      BY <1>a, <2>2, <2>3, <2>4 DEF Types, Shortened, Extended
    <3>2. \A d \in Proc : status[d] = "none" => status'[d] = "none"
      BY <1>a, <1>b, <2>2, <2>3, <2>4 DEF Types
    <3>3. \A u \in Worker \ {w} : pc[u] \in {"setup", "add"}
             => status'[cl[u]] = "RUNNING" /\ cache'[cl[u]] = u
      BY <1>a, <1>c, <2>2, <2>3, <2>4 DEF Types
    <3>4. created' >= created /\ \A d \in 1 .. created : parent'[d] = parent[d]
      BY <1>a, <1>b, <2>2, <2>3, <2>4 DEF Types
    <3>5. StackShape(w)'
      BY <1>a, <1>x, <1>y, <1>z, <3>2, <3>4, <2>2, <2>3, <2>4 DEF Types
    <3>6. StackAtPC(w)'
      BY <1>a, <1>b, <1>s, <1>t, <2>2, <2>3, <2>4 DEF Types, StackAtPC,
         Shortened, Exception
    <3>q. QED
      BY <1>h, <2>2, <3>1, <3>2, <3>3, <3>4, <3>5, <3>6
  <2>5. ASSUME T(w) # 1, pc' = [pc EXCEPT ![w] = "pop"]
        PROVE  StackInv'
    <3>1. \A u \in Worker \ {w} : /\ stack'[u] = stack[u] /\ H'[u] = H[u]
                                  /\ pc'[u] = pc[u] /\ cl'[u] = cl[u]
      BY <1>a, <2>2, <2>3, <2>5 DEF Types, Shortened, Extended
    <3>2. \A d \in Proc : status[d] = "none" => status'[d] = "none"
      BY <1>a, <1>b, <2>2, <2>3, <2>5 DEF Types
    <3>3. \A u \in Worker \ {w} : pc[u] \in {"setup", "add"}
             => status'[cl[u]] = "RUNNING" /\ cache'[cl[u]] = u
      <4>1. \A u \in Worker \ {w} : pc[u] \in {"setup", "add"}
               => cl[u] \in Proc /\ cl[u] # c /\ status[cl[u]] = "RUNNING"
                  /\ cache[cl[u]] = u
        BY <1>c, <2>2
      <4>2. \A d \in Proc : d # c => status'[d] = status[d] /\ cache'[d] = cache[d]
        BY <1>a, <2>2, <2>5 DEF Types
      <4>q. QED
        BY <4>1, <4>2
    <3>4. created' >= created /\ \A d \in 1 .. created : parent'[d] = parent[d]
      BY <1>a, <1>b, <2>2, <2>3, <2>5 DEF Types
    <3>5. StackShape(w)'
      BY <1>a, <1>x, <1>y, <1>z, <3>2, <3>4, <2>2, <2>3, <2>5 DEF Types
    <3>6. StackAtPC(w)'
      BY <1>a, <1>b, <1>s, <1>t, <2>2, <2>3, <2>5 DEF Types, StackAtPC,
         Shortened, Exception
    <3>q. QED
      BY <1>h, <2>2, <3>1, <3>2, <3>3, <3>4, <3>5, <3>6
  <2>q. QED
    BY <2>1, <2>2, <2>4, <2>5 DEF HandlerStolenDoes
<1>37. ASSUME NEW w \in Worker, HandlerAbort(w) PROVE StackInv'
  <2>1. PICK c \in Proc, f \in Proc :
          HandlerAbortDoes(w, c, f)
    BY <1>37, HandlerAbortEffect
  <2>2. /\ pc[w] = "handlerAct" /\ c = cl[w] /\ T(w) \in Nat \ {0}
        /\ H[w] \in Nat /\ H[w] < T(w) /\ status[c] = "RUNNING" /\ cache[c] = w
        /\ stack[w][H[w] + 1] = c /\ Shortened(stack, stack', w)
        /\ cl' = [cl EXCEPT ![w] = None]
        /\ UNCHANGED <<H, cache, created, parent>>
    BY <2>1 DEF HandlerAbortDoes
  <2>3. /\ "handlerAct" \in WorkPC /\ "handlerAct" \notin SlowPC
        /\ "loop" \notin WorkPC /\ "loop" \notin SlowPC /\ "pop" \in WorkPC
        /\ "pop" \notin SlowPC
    BY <2>2 DEF WorkPC, PopPC, SlowPC
  <2>4. ASSUME T(w) = 1, H[w] = 0, join[c] # 0,
               pc' = [pc EXCEPT ![w] = "loop"],
               status' = [status EXCEPT ![c] = "SUSPENDED"]
        PROVE  StackInv'
    <3>1. \A u \in Worker \ {w} : /\ stack'[u] = stack[u] /\ H'[u] = H[u]
                                  /\ pc'[u] = pc[u] /\ cl'[u] = cl[u]
      BY <1>a, <2>2, <2>3, <2>4 DEF Types, Shortened, Extended
    <3>2. \A d \in Proc : status[d] = "none" => status'[d] = "none"
      BY <1>a, <1>b, <2>2, <2>3, <2>4 DEF Types
    <3>3. \A u \in Worker \ {w} : pc[u] \in {"setup", "add"}
             => status'[cl[u]] = "RUNNING" /\ cache'[cl[u]] = u
      <4>1. \A u \in Worker \ {w} : pc[u] \in {"setup", "add"}
               => cl[u] \in Proc /\ cl[u] # c /\ status[cl[u]] = "RUNNING"
                  /\ cache[cl[u]] = u
        BY <1>c, <2>2
      <4>2. \A d \in Proc : d # c => status'[d] = status[d] /\ cache'[d] = cache[d]
        BY <1>a, <2>2, <2>4 DEF Types
      <4>q. QED
        BY <4>1, <4>2
    <3>4. created' >= created /\ \A d \in 1 .. created : parent'[d] = parent[d]
      BY <1>a, <1>b, <2>2, <2>3, <2>4 DEF Types
    <3>5. StackShape(w)'
      BY <1>a, <1>x, <1>y, <1>z, <3>2, <3>4, <2>2, <2>3, <2>4 DEF Types
    <3>6. StackAtPC(w)'
      BY <1>a, <1>b, <1>s, <1>t, <2>2, <2>3, <2>4 DEF Types, StackAtPC,
         Shortened, Exception
    <3>q. QED
      BY <1>h, <2>2, <3>1, <3>2, <3>3, <3>4, <3>5, <3>6
  <2>5. ASSUME T(w) = 1, H[w] = 0, join[c] = 0, c # Root,
               pc' = [pc EXCEPT ![w] = "loop"],
               status' = [status EXCEPT ![c] = "RETURNING"]
        PROVE  StackInv'
    <3>1. \A u \in Worker \ {w} : /\ stack'[u] = stack[u] /\ H'[u] = H[u]
                                  /\ pc'[u] = pc[u] /\ cl'[u] = cl[u]
      BY <1>a, <2>2, <2>3, <2>5 DEF Types, Shortened, Extended
    <3>2. \A d \in Proc : status[d] = "none" => status'[d] = "none"
      BY <1>a, <1>b, <2>2, <2>3, <2>5 DEF Types
    <3>3. \A u \in Worker \ {w} : pc[u] \in {"setup", "add"}
             => status'[cl[u]] = "RUNNING" /\ cache'[cl[u]] = u
      <4>1. \A u \in Worker \ {w} : pc[u] \in {"setup", "add"}
               => cl[u] \in Proc /\ cl[u] # c /\ status[cl[u]] = "RUNNING"
                  /\ cache[cl[u]] = u
        BY <1>c, <2>2
      <4>2. \A d \in Proc : d # c => status'[d] = status[d] /\ cache'[d] = cache[d]
        BY <1>a, <2>2, <2>5 DEF Types
      <4>q. QED
        BY <4>1, <4>2
    <3>4. created' >= created /\ \A d \in 1 .. created : parent'[d] = parent[d]
      BY <1>a, <1>b, <2>2, <2>3, <2>5 DEF Types
    <3>5. StackShape(w)'
      BY <1>a, <1>x, <1>y, <1>z, <3>2, <3>4, <2>2, <2>3, <2>5 DEF Types
    <3>6. StackAtPC(w)'
      BY <1>a, <1>b, <1>s, <1>t, <2>2, <2>3, <2>5 DEF Types, StackAtPC,
         Shortened, Exception
    <3>q. QED
      BY <1>h, <2>2, <3>1, <3>2, <3>3, <3>4, <3>5, <3>6
  <2>6. ASSUME T(w) # 1, H[w] + 1 = T(w), join[c] = 0, c # Root,
               pc' = [pc EXCEPT ![w] = "pop"],
               status' = [status EXCEPT ![c] = "RETURNING"]
        PROVE  StackInv'
    <3>1. \A u \in Worker \ {w} : /\ stack'[u] = stack[u] /\ H'[u] = H[u]
                                  /\ pc'[u] = pc[u] /\ cl'[u] = cl[u]
      BY <1>a, <2>2, <2>3, <2>6 DEF Types, Shortened, Extended
    <3>2. \A d \in Proc : status[d] = "none" => status'[d] = "none"
      BY <1>a, <1>b, <2>2, <2>3, <2>6 DEF Types
    <3>3. \A u \in Worker \ {w} : pc[u] \in {"setup", "add"}
             => status'[cl[u]] = "RUNNING" /\ cache'[cl[u]] = u
      <4>1. \A u \in Worker \ {w} : pc[u] \in {"setup", "add"}
               => cl[u] \in Proc /\ cl[u] # c /\ status[cl[u]] = "RUNNING"
                  /\ cache[cl[u]] = u
        BY <1>c, <2>2
      <4>2. \A d \in Proc : d # c => status'[d] = status[d] /\ cache'[d] = cache[d]
        BY <1>a, <2>2, <2>6 DEF Types
      <4>q. QED
        BY <4>1, <4>2
    <3>4. created' >= created /\ \A d \in 1 .. created : parent'[d] = parent[d]
      BY <1>a, <1>b, <2>2, <2>3, <2>6 DEF Types
    <3>5. StackShape(w)'
      BY <1>a, <1>x, <1>y, <1>z, <3>2, <3>4, <2>2, <2>3, <2>6 DEF Types
    <3>6. StackAtPC(w)'
      BY <1>a, <1>b, <1>s, <1>t, <2>2, <2>3, <2>6 DEF Types, StackAtPC,
         Shortened, Exception
    <3>q. QED
      BY <1>h, <2>2, <3>1, <3>2, <3>3, <3>4, <3>5, <3>6
  <2>7. ASSUME H[w] + 1 < T(w), f = stack[w][T(w)], f # Root,
               status[f] = "none", pc' = [pc EXCEPT ![w] = "pop"],
               UNCHANGED <<status>>
        PROVE  StackInv'
    <3>1. \A u \in Worker \ {w} : /\ stack'[u] = stack[u] /\ H'[u] = H[u]
                                  /\ pc'[u] = pc[u] /\ cl'[u] = cl[u]
      BY <1>a, <2>2, <2>3, <2>7 DEF Types, Shortened, Extended
    <3>2. \A d \in Proc : status[d] = "none" => status'[d] = "none"
      BY <1>a, <1>b, <2>2, <2>3, <2>7 DEF Types
    <3>3. \A u \in Worker \ {w} : pc[u] \in {"setup", "add"}
             => status'[cl[u]] = "RUNNING" /\ cache'[cl[u]] = u
      BY <1>a, <1>c, <2>2, <2>3, <2>7 DEF Types
    <3>4. created' >= created /\ \A d \in 1 .. created : parent'[d] = parent[d]
      BY <1>a, <1>b, <2>2, <2>3, <2>7 DEF Types
    <3>5. StackShape(w)'
      BY <1>a, <1>x, <1>y, <1>z, <3>2, <3>4, <2>2, <2>3, <2>7 DEF Types
    <3>6. StackAtPC(w)'
      <4>1. /\ pc'[w] = "pop" /\ T(w)' = T(w) - 1 /\ T(w) \in Nat /\ H'[w] = H[w]
            /\ stack'[w] = <<>> <=> T(w)' = 0
        BY <1>a, <1>t, <2>2, <2>7 DEF Types, Shortened
      <4>q. QED
        BY <1>t, <2>2, <2>3, <2>7, <4>1 DEF StackAtPC
    <3>q. QED
      BY <1>h, <2>2, <3>1, <3>2, <3>3, <3>4, <3>5, <3>6
  <2>q. QED
    BY <2>1, <2>2, <2>4, <2>5, <2>6, <2>7 DEF HandlerAbortDoes, AbortWaits,
       AbortReturns, AbortPops
<1>38. ASSUME NEW w \in Worker, HandlerResume(w) PROVE StackInv'
  <2>2. /\ pc[w] = "handlerAct" /\ ~(H[w] >= T(w))
        /\ pc' = [pc EXCEPT ![w] = "run"] /\ cl' = [cl EXCEPT ![w] = None]
        /\ UNCHANGED <<stack, H, status, cache, created, parent>>
    BY <1>38 DEF HandlerResume, program, tree, Goto, UnlockBoth, Outcome,
       BeingAborted, Stolen, Hand, UnlockClosure, UnlockDeque
  <2>3. /\ "handlerAct" \in WorkPC /\ "handlerAct" \notin SlowPC
        /\ "run" \in WorkPC /\ "run" \notin SlowPC
    BY <2>2 DEF WorkPC, PopPC, SlowPC
  <2>4. \A u \in Worker \ {w} : /\ stack'[u] = stack[u] /\ H'[u] = H[u]
                                /\ pc'[u] = pc[u] /\ cl'[u] = cl[u]
    BY <1>a, <2>2, <2>3 DEF Types, Shortened, Extended
  <2>5. \A d \in Proc : status[d] = "none" => status'[d] = "none"
    BY <1>a, <1>b, <2>2, <2>3 DEF Types
  <2>6. \A u \in Worker \ {w} : pc[u] \in {"setup", "add"}
           => status'[cl[u]] = "RUNNING" /\ cache'[cl[u]] = u
    BY <1>a, <1>c, <2>2, <2>3 DEF Types
  <2>7. created' >= created /\ \A d \in 1 .. created : parent'[d] = parent[d]
    BY <1>a, <1>b, <2>2, <2>3 DEF Types
  <2>8. StackShape(w)'
    BY <1>a, <1>x, <1>y, <1>z, <2>5, <2>7, <2>2, <2>3 DEF Types
  <2>9. StackAtPC(w)'
    BY <1>a, <1>b, <1>s, <1>t, <2>2, <2>3 DEF Types, StackAtPC, Shortened,
       Exception
  <2>q. QED
    BY <1>h, <2>2, <2>4, <2>5, <2>6, <2>7, <2>8, <2>9
<1>39. CASE UNCHANGED vars
  BY <1>f, <1>39 DEF vars
<1>q. QED
  BY <1>1, <1>2, <1>3, <1>4, <1>5, <1>6, <1>7, <1>8, <1>9, <1>10, <1>11, <1>12,
     <1>13, <1>14, <1>15, <1>16, <1>17, <1>18, <1>19, <1>20, <1>21, <1>22,
     <1>23, <1>24, <1>25, <1>26, <1>27, <1>28, <1>29, <1>30, <1>31, <1>32,
     <1>33, <1>34, <1>35, <1>36, <1>37, <1>38, <1>39 DEF Next, Step, Terminated

(* A frame pushed is a new procedure, and a stack that begins has no frame *)
(* to promote.                                                             *)
LEMMA StacksApartStep ==
    ASSUME IInv, [Next]_vars
    PROVE  StacksApart'
<1>a. Types /\ Types'
  BY TypesStep DEF IInv
<1>b. created \in Nat \ {0} /\ created' \in Nat /\ None \notin Proc /\ Root \in Proc
  BY <1>a, BoundAssumption DEF Types, Proc, None, Root
<1>t. \A u \in Worker :
         /\ T(u) = Size(stack[u]) /\ T(u)' = Size(stack'[u])
         /\ T(u) \in Nat /\ T(u)' \in Nat /\ H[u] \in Nat /\ H'[u] \in Nat
         /\ stack[u] = <<>> <=> T(u) = 0
         /\ stack'[u] = <<>> <=> T(u)' = 0
         /\ Running(u) = stack[u][T(u)] /\ Running(u)' = stack'[u][T(u)']
         /\ \A i \in 1 .. T(u) : stack[u][i] \in Proc
  <2> SUFFICES ASSUME NEW u \in Worker
               PROVE  /\ T(u) = Size(stack[u]) /\ T(u)' = Size(stack'[u])
                      /\ T(u) \in Nat /\ T(u)' \in Nat /\ H[u] \in Nat /\ H'[u] \in Nat
                      /\ stack[u] = <<>> <=> T(u) = 0
                      /\ stack'[u] = <<>> <=> T(u)' = 0
                      /\ Running(u) = stack[u][T(u)] /\ Running(u)' = stack'[u][T(u)']
                      /\ \A i \in 1 .. T(u) : stack[u][i] \in Proc
    OBVIOUS
  <2>1. /\ stack[u] \in Seq(Proc) /\ stack'[u] \in Seq(Proc)
        /\ H[u] \in Nat /\ H'[u] \in Nat
    BY <1>a DEF Types
  <2>2. T(u) = Size(stack[u]) /\ T(u)' = Size(stack'[u])
    BY DEF T, Size
  <2>3. Running(u) = stack[u][T(u)] /\ Running(u)' = stack'[u][T(u)']
    BY DEF Running
  <2>q. QED
    BY <2>1, <2>2, <2>3, SeqFacts
<1>h. ASSUME NEW w \in Worker,
             \A i \in H'[w] + 2 .. T(w)' : i \in H[w] + 2 .. T(w)
                /\ stack'[w][i] = stack[w][i],
             \A u \in Worker \ {w} : stack'[u] = stack[u] /\ H'[u] = H[u]
      PROVE  StacksApart'
  <2>1. \A u \in Worker : \A i \in H'[u] + 2 .. T(u)' :
           i \in H[u] + 2 .. T(u) /\ stack'[u][i] = stack[u][i]
    BY <1>h, <1>t
  <2>q. QED
    BY <2>1 DEF IInv, StacksApart
<1>f. ASSUME UNCHANGED <<stack, H>>
      PROVE  StacksApart'
BY <1>f DEF IInv, StacksApart, T
<1>1. ASSUME NEW w \in Worker, LeaveScheduler(w) PROVE StacksApart'
  BY <1>f, <1>1 DEF LeaveScheduler, program, results, state, tree, locks,
     caches, Goto
<1>2. ASSUME NEW w \in Worker, TakeOwn(w) PROVE StacksApart'
  <2>1. TakeOwnDoes(w)
    BY <1>2, TakeOwnEffect
  <2>q. QED
    BY <1>f, <2>1 DEF TakeOwnDoes
<1>3. ASSUME NEW w \in Worker, StealLockDeque(w) PROVE StacksApart'
  BY <1>f, <1>3 DEF StealLockDeque, program, results, state, tree, caches,
     Goto, LockDeque, Peek, Hand
<1>4. ASSUME NEW w \in Worker, StealLockClosure(w) PROVE StacksApart'
  BY <1>f, <1>4 DEF StealLockClosure, program, results, state, tree, caches,
     Goto, LockClosure
<1>5. ASSUME NEW w \in Worker, StealGiveUp(w) PROVE StacksApart'
  BY <1>f, <1>5 DEF StealGiveUp, program, results, state, tree, caches, Goto,
     Hand, UnlockClosure, BeingAborted
<1>6. ASSUME NEW w \in Worker, StealUnlockDeque(w) PROVE StacksApart'
  BY <1>f, <1>6 DEF StealUnlockDeque, program, results, state, tree, caches,
     Goto, UnlockDeque
<1>7. ASSUME NEW w \in Worker, StealReady(w) PROVE StacksApart'
  <2>1. PICK v \in Worker \ {w}, c \in Proc :
          StealReadyDoes(w, v, c)
    BY <1>7, StealReadyEffect
  <2>q. QED
    BY <1>f, <2>1 DEF StealReadyDoes
<1>8. ASSUME NEW w \in Worker, StealPromote(w) PROVE StacksApart'
  <2>1. PICK v \in Worker \ {w}, c \in Proc, k \in Proc :
          StealPromoteDoes(w, v, c, k)
    BY <1>8, StealPromoteEffect
  <2>2. /\ c = cl[w] /\ k = stack[v][H[v] + 2] /\ H[v] + 1 < T(v)
        /\ stack[v][H[v] + 1] = c /\ k # c /\ k # Root
        /\ H' = [H EXCEPT ![v] = @ + 1]
        /\ UNCHANGED <<stack>>
    BY <2>1 DEF StealPromoteDoes
  <2>4. \A u \in Worker : \A i \in H'[u] + 2 .. T(u)' :
           i \in H[u] + 2 .. T(u) /\ stack'[u][i] = stack[u][i]
    <3> SUFFICES ASSUME NEW u \in Worker, NEW i \in H'[u] + 2 .. T(u)'
                 PROVE  i \in H[u] + 2 .. T(u) /\ stack'[u][i] = stack[u][i]
      OBVIOUS
    <3>1. stack' = stack /\ T(u)' = T(u) /\ H[u] \in Nat
      BY <1>t, <2>2
    <3>2. H'[u] = H[u] \/ H'[u] = H[u] + 1
      BY <1>a, <2>2 DEF Types
    <3>q. QED
      BY <3>1, <3>2
  <2>q. QED
    BY <2>4 DEF IInv, StacksApart
<1>9. ASSUME NEW w \in Worker, StealFinish(w) PROVE StacksApart'
  BY <1>f, <1>9 DEF StealFinish, program, results, caches, Goto, UnlockClosure,
     SetStatus, AddChild
<1>10. ASSUME NEW w \in Worker, InletKilled(w) PROVE StacksApart'
  BY <1>f, <1>10 DEF InletKilled, program, state, locks, caches, Outcome,
     BeingAborted, Polls
<1>11. ASSUME NEW w \in Worker, InletRuns(w) PROVE StacksApart'
  BY <1>f, <1>11 DEF InletRuns, program, state, locks, caches, Outcome,
     BeingAborted, Polls
<1>12. ASSUME NEW w \in Worker, InletAborts(w) PROVE StacksApart'
  <2>1. PICK c \in Proc, r \in SUBSET Proc :
          InletAbortsDoes(w, c, r)
    BY <1>12, InletAbortsEffect
  <2>2. /\ c = cl[w]
        /\ UNCHANGED <<stack>>
    BY <2>1 DEF InletAbortsDoes
  <2>4. ASSUME NEW k \in Proc, H[w] = 0, 1 < T(w), stack[w][1] = c,
               k = stack[w][2], k # c, k # Root, H' = [H EXCEPT ![w] = 1]
        PROVE  StacksApart'
    <3>1. \A i \in H'[w] + 2 .. T(w)' : i \in H[w] + 2 .. T(w)
               /\ stack'[w][i] = stack[w][i]
      BY <1>t, <2>2, <2>4 DEF Shortened
    <3>2. \A u \in Worker \ {w} : stack'[u] = stack[u] /\ H'[u] = H[u]
      BY <1>a, <2>2, <2>4 DEF Types, Shortened
    <3>q. QED
      BY <1>h, <2>2, <3>1, <3>2
  <2>5. ASSUME UNCHANGED <<H>>
        PROVE  StacksApart'
    <3>1. \A i \in H'[w] + 2 .. T(w)' : i \in H[w] + 2 .. T(w)
               /\ stack'[w][i] = stack[w][i]
      BY <1>t, <2>2, <2>5 DEF Shortened
    <3>2. \A u \in Worker \ {w} : stack'[u] = stack[u] /\ H'[u] = H[u]
      BY <1>a, <2>2, <2>5 DEF Types, Shortened
    <3>q. QED
      BY <1>h, <2>2, <3>1, <3>2
  <2>q. QED
    BY <2>1, <2>2, <2>4, <2>5 DEF InletAbortsDoes, InletSplits
<1>13. ASSUME NEW w \in Worker, WalkDown(w) PROVE StacksApart'
  <2>1. PICK n \in Nat \ {0}, k \in Proc :
          WalkDownDoes(w, n, k)
    BY <1>13, WalkDownEffect
  <2>q. QED
    BY <1>f, <2>1 DEF WalkDownDoes
<1>14. ASSUME NEW w \in Worker, WalkUp(w) PROVE StacksApart'
  <2>1. PICK n \in Nat \ {0} :
          WalkUpDoes(w, n)
    BY <1>14, WalkUpEffect
  <2>q. QED
    BY <1>f, <2>1 DEF WalkUpDoes
<1>15. ASSUME NEW w \in Worker, AbortReadyClosure(w) PROVE StacksApart'
  BY <1>f, <1>15 DEF AbortReadyClosure, program, results, tree, locks, caches,
     Hand, SetStatus, Outcome, BeingAborted, HasChildren
<1>16. ASSUME NEW w \in Worker, Setup(w) PROVE StacksApart'
  <2>2. /\ cl[w] # None /\ stack' = [stack EXCEPT ![w] = <<cl[w]>>]
        /\ H' = [H EXCEPT ![w] = 0]
    BY <1>16 DEF Setup, program, results, tree, Goto, LockClosure, SetStatus,
       BeingAborted
  <2>a. stack'[w] = <<cl[w]>> /\ H'[w] = 0 /\ cl[w] \in Proc
    BY <1>a, <2>2 DEF Types
  <2>b. T(w)' = 1
    <3>1. Size(stack'[w]) = 1
      BY <2>a, SingleFacts
    <3>q. QED
      BY <1>t, <3>1
  <2>4. \A i \in H'[w] + 2 .. T(w)' : i \in H[w] + 2 .. T(w)
             /\ stack'[w][i] = stack[w][i]
    BY <1>t, <2>2, <2>a, <2>b DEF Shortened
  <2>5. \A u \in Worker \ {w} : stack'[u] = stack[u] /\ H'[u] = H[u]
    BY <1>a, <2>2, <2>a, <2>b DEF Types, Shortened
  <2>q. QED
    BY <1>h, <2>2, <2>4, <2>5
<1>17. ASSUME NEW w \in Worker, SetupDone(w) PROVE StacksApart'
  BY <1>f, <1>17 DEF SetupDone, program, results, tree, caches, Goto,
     UnlockClosure, Polled, Polls
<1>18. ASSUME NEW w \in Worker, Execute(w) PROVE StacksApart'
  <2>1. PICK c \in Proc :
          ExecuteDoes(w, c)
    BY <1>18, ExecuteEffect
  <2>q. QED
    BY <1>f, <2>1 DEF ExecuteDoes
<1>19. ASSUME NEW w \in Worker, ReturnLockParent(w) PROVE StacksApart'
  <2>1. PICK k \in Proc, p \in Proc :
          ReturnLockParentDoes(w, k, p)
    BY <1>19, ReturnLockParentEffect
  <2>q. QED
    BY <1>f, <2>1 DEF ReturnLockParentDoes
<1>20. ASSUME NEW w \in Worker, ReturnEnqueue(w) PROVE StacksApart'
  <2>1. PICK k \in Proc, p \in Proc :
          ReturnEnqueueDoes(w, k, p)
    BY <1>20, ReturnEnqueueEffect
  <2>q. QED
    BY <1>f, <2>1 DEF ReturnEnqueueDoes
<1>21. ASSUME NEW w \in Worker, ReturnDone(w) PROVE StacksApart'
  <2>1. PICK k \in Proc, p \in Proc :
          ReturnDoneDoes(w, k, p)
    BY <1>21, ReturnDoneEffect
  <2>q. QED
    BY <1>f, <2>1 DEF ReturnDoneDoes
<1>22. ASSUME NEW w \in Worker, Spawn(w) PROVE StacksApart'
  <2>1. PICK c \in Proc, f \in Proc :
          SpawnDoes(w, c, f)
    BY <1>22, SpawnEffect
  <2>2. /\ c = created + 1 /\ created \in Nat /\ f \in 1 .. created
        /\ T(w) >= 1 /\ f = stack[w][T(w)] /\ Extended(stack, stack', w, c)
        /\ UNCHANGED <<H>>
    BY <2>1 DEF SpawnDoes
  <2>4. /\ T(w)' = T(w) + 1 /\ stack'[w][T(w) + 1] = c
        /\ \A i \in 1 .. T(w) : stack'[w][i] = stack[w][i]
        /\ \A u \in Worker \ {w} : stack'[u] = stack[u]
    BY <1>t, <2>2 DEF Extended
  <2>5. \A u \in Worker : \A i \in 1 .. T(u) : stack[u][i] # c
    BY <2>2 DEF IInv, StackInv
  <2>6. \A u \in Worker : \A i \in H'[u] + 2 .. T(u)' :
           \/ i \in H[u] + 2 .. T(u) /\ i \in 1 .. T(u) /\ stack'[u][i] = stack[u][i]
           \/ u = w /\ i = T(w) + 1 /\ stack'[u][i] = c
    <3> SUFFICES ASSUME NEW u \in Worker, NEW i \in H'[u] + 2 .. T(u)'
                 PROVE  \/ /\ i \in H[u] + 2 .. T(u) /\ i \in 1 .. T(u)
                           /\ stack'[u][i] = stack[u][i]
                        \/ u = w /\ i = T(w) + 1 /\ stack'[u][i] = c
      OBVIOUS
    <3>1. H'[u] = H[u] /\ H[u] \in Nat /\ T(u) \in Nat
      BY <1>t, <2>2
    <3>2. CASE u # w
      BY <1>t, <2>4, <3>1, <3>2
    <3>3. CASE u = w
      BY <2>4, <3>1, <3>3
    <3>q. QED
      BY <3>2, <3>3
  <2>7. ASSUME NEW u \in Worker, NEW v \in Worker,
               NEW i \in H'[u] + 2 .. T(u)', NEW j \in H'[v] + 2 .. T(v)',
               stack'[u][i] = stack'[v][j]
        PROVE  u = v /\ i = j
    <3>1. CASE i \in H[u] + 2 .. T(u) /\ i \in 1 .. T(u) /\ stack'[u][i] = stack[u][i]
      <4>1. stack'[u][i] # c
        BY <2>5, <3>1
      <4>2. j \in H[v] + 2 .. T(v) /\ stack'[v][j] = stack[v][j]
        BY <2>6, <2>7, <4>1
      <4>3. stack[u][i] = stack[v][j]
        BY <2>7, <3>1, <4>2
      <4>q. QED
        BY <3>1, <4>2, <4>3 DEF IInv, StacksApart
    <3>2. CASE u = w /\ i = T(w) + 1 /\ stack'[u][i] = c
      <4>1. v = w /\ j = T(w) + 1
        BY <2>5, <2>6, <2>7, <3>2
      <4>q. QED
        BY <3>2, <4>1
    <3>q. QED
      BY <2>6, <3>1, <3>2
  <2>q. QED
    BY <2>7 DEF StacksApart
<1>23. ASSUME NEW w \in Worker, ReturnFast(w) PROVE StacksApart'
  <2>1. PICK f \in Proc :
          ReturnFastDoes(w, f)
    BY <1>23, ReturnFastEffect
  <2>2. /\ f = stack[w][T(w)] /\ T(w) > 1 /\ T(w) \in Nat /\ f # Root
        /\ Shortened(stack, stack', w)
        /\ UNCHANGED <<H>>
    BY <2>1 DEF ReturnFastDoes
  <2>4. \A i \in H'[w] + 2 .. T(w)' : i \in H[w] + 2 .. T(w)
             /\ stack'[w][i] = stack[w][i]
    BY <1>t, <2>2 DEF Shortened
  <2>5. \A u \in Worker \ {w} : stack'[u] = stack[u] /\ H'[u] = H[u]
    BY <1>a, <2>2 DEF Types, Shortened
  <2>q. QED
    BY <1>h, <2>2, <2>4, <2>5
<1>24. ASSUME NEW w \in Worker, PopResult(w) PROVE StacksApart'
  BY <1>f, <1>24 DEF PopResult, program, state, tree, locks, caches, Goto,
     Outcome
<1>25. ASSUME NEW w \in Worker, LockOwnDeque(w) PROVE StacksApart'
  BY <1>f, <1>25 DEF LockOwnDeque, program, results, state, tree, caches, Goto,
     LockDeque, SlowAborts
<1>26. ASSUME NEW w \in Worker, LockBottom(w) PROVE StacksApart'
  <2>1. PICK c \in Proc :
          LockBottomDoes(w, c)
    BY <1>26, LockBottomEffect
  <2>q. QED
    BY <1>f, <2>1 DEF LockBottomDoes
<1>27. ASSUME NEW w \in Worker, Sync(w) PROVE StacksApart'
  <2>1. PICK c \in Proc :
          SyncDoes(w, c)
    BY <1>27, SyncEffect
  <2>2. /\ c = cl[w] /\ T(w) = 1 /\ H[w] = 0 /\ stack[w][1] = c
        /\ UNCHANGED <<H>>
    BY <2>1 DEF SyncDoes
  <2>4. ASSUME join[c] # 0, stack' = [stack EXCEPT ![w] = <<>>]
        PROVE  StacksApart'
    <3>1. \A i \in H'[w] + 2 .. T(w)' : i \in H[w] + 2 .. T(w)
               /\ stack'[w][i] = stack[w][i]
      BY <1>t, <2>2, <2>4
    <3>2. \A u \in Worker \ {w} : stack'[u] = stack[u] /\ H'[u] = H[u]
      BY <1>a, <2>2, <2>4 DEF Types, Shortened
    <3>q. QED
      BY <1>h, <2>2, <3>1, <3>2
  <2>5. ASSUME join[c] = 0,
               UNCHANGED <<stack>>
        PROVE  StacksApart'
    <3>1. \A i \in H'[w] + 2 .. T(w)' : i \in H[w] + 2 .. T(w)
               /\ stack'[w][i] = stack[w][i]
      BY <1>t, <2>2, <2>5
    <3>2. \A u \in Worker \ {w} : stack'[u] = stack[u] /\ H'[u] = H[u]
      BY <1>a, <2>2, <2>5 DEF Types, Shortened
    <3>q. QED
      BY <1>h, <2>2, <3>1, <3>2
  <2>q. QED
    BY <2>1, <2>2, <2>4, <2>5 DEF SyncDoes
<1>28. ASSUME NEW w \in Worker, AbortSlow(w) PROVE StacksApart'
  BY <1>f, <1>28 DEF AbortSlow, program, results, tree, caches, Goto,
     UnlockBoth, Polled, Hand, UnlockClosure, UnlockDeque, Polls
<1>29. ASSUME NEW w \in Worker, SetResult(w) PROVE StacksApart'
  <2>1. PICK c \in Proc :
          SetResultDoes(w, c)
    BY <1>29, SetResultEffect
  <2>2. /\ c = cl[w] /\ T(w) = 1 /\ H[w] = 0 /\ c # Root /\ stack[w][1] = c
        /\ stack' = [stack EXCEPT ![w] = <<>>]
        /\ UNCHANGED <<H>>
    BY <2>1 DEF SetResultDoes
  <2>4. \A i \in H'[w] + 2 .. T(w)' : i \in H[w] + 2 .. T(w)
             /\ stack'[w][i] = stack[w][i]
    BY <1>t, <2>2 DEF Shortened
  <2>5. \A u \in Worker \ {w} : stack'[u] = stack[u] /\ H'[u] = H[u]
    BY <1>a, <2>2 DEF Types, Shortened
  <2>q. QED
    BY <1>h, <2>2, <2>4, <2>5
<1>30. ASSUME NEW w \in Worker, Done(w) PROVE StacksApart'
  BY <1>f, <1>30 DEF Done, results, state, tree, locks, caches, Goto, AfterSync
<1>31. ASSUME NEW w \in Worker, RemoveAndFree(w) PROVE StacksApart'
  <2>1. RemoveAndFreeDoes(w)
    BY <1>31, RemoveAndFreeEffect
  <2>2. /\ T(w) = 1 /\ H[w] = 0 /\ Root \in Proc
        /\ stack' = [stack EXCEPT ![w] = <<>>]
        /\ UNCHANGED <<H>>
    BY <2>1 DEF RemoveAndFreeDoes
  <2>4. \A i \in H'[w] + 2 .. T(w)' : i \in H[w] + 2 .. T(w)
             /\ stack'[w][i] = stack[w][i]
    BY <1>t, <2>2 DEF Shortened
  <2>5. \A u \in Worker \ {w} : stack'[u] = stack[u] /\ H'[u] = H[u]
    BY <1>a, <2>2 DEF Types, Shortened
  <2>q. QED
    BY <1>h, <2>2, <2>4, <2>5
<1>32. ASSUME NEW w \in Worker, CilkExit(w) PROVE StacksApart'
  <2>1. CilkExitDoes(w)
    BY <1>32, CilkExitEffect
  <2>q. QED
    BY <1>f, <2>1 DEF CilkExitDoes
<1>33. ASSUME NEW w \in Worker, CilkExitDone(w) PROVE StacksApart'
  BY <1>f, <1>33 DEF CilkExitDone, program, results, tree, caches, Goto, Hand,
     UnlockClosure, Polled, Polls
<1>34. ASSUME NEW w \in Worker, HandlerPolled(w) PROVE StacksApart'
  <2>1. PICK t \in Proc, t1 \in Proc :
          HandlerPolledDoes(w, t, t1)
    BY <1>34, HandlerPolledEffect
  <2>q. QED
    BY <1>f, <2>1 DEF HandlerPolledDoes
<1>35. ASSUME NEW w \in Worker, HandlerSwap(w) PROVE StacksApart'
  BY <1>f, <1>35 DEF HandlerSwap, program, results, state, tree, caches, Goto,
     LockClosure
<1>36. ASSUME NEW w \in Worker, HandlerStolen(w) PROVE StacksApart'
  <2>1. PICK c \in Proc :
          HandlerStolenDoes(w, c)
    BY <1>36, HandlerStolenEffect
  <2>2. /\ c = cl[w] /\ c # Root /\ T(w) \in Nat \ {0} /\ H[w] \in Nat
        /\ H[w] >= T(w) /\ Shortened(stack, stack', w)
        /\ UNCHANGED <<H>>
    BY <2>1 DEF HandlerStolenDoes
  <2>4. \A i \in H'[w] + 2 .. T(w)' : i \in H[w] + 2 .. T(w)
             /\ stack'[w][i] = stack[w][i]
    BY <1>t, <2>2 DEF Shortened
  <2>5. \A u \in Worker \ {w} : stack'[u] = stack[u] /\ H'[u] = H[u]
    BY <1>a, <2>2 DEF Types, Shortened
  <2>q. QED
    BY <1>h, <2>2, <2>4, <2>5
<1>37. ASSUME NEW w \in Worker, HandlerAbort(w) PROVE StacksApart'
  <2>1. PICK c \in Proc, f \in Proc :
          HandlerAbortDoes(w, c, f)
    BY <1>37, HandlerAbortEffect
  <2>2. /\ c = cl[w] /\ T(w) \in Nat \ {0} /\ H[w] \in Nat /\ H[w] < T(w)
        /\ stack[w][H[w] + 1] = c /\ Shortened(stack, stack', w)
        /\ UNCHANGED <<H>>
    BY <2>1 DEF HandlerAbortDoes
  <2>4. \A i \in H'[w] + 2 .. T(w)' : i \in H[w] + 2 .. T(w)
             /\ stack'[w][i] = stack[w][i]
    BY <1>t, <2>2 DEF Shortened
  <2>5. \A u \in Worker \ {w} : stack'[u] = stack[u] /\ H'[u] = H[u]
    BY <1>a, <2>2 DEF Types, Shortened
  <2>q. QED
    BY <1>h, <2>2, <2>4, <2>5
<1>38. ASSUME NEW w \in Worker, HandlerResume(w) PROVE StacksApart'
  BY <1>f, <1>38 DEF HandlerResume, program, tree, Goto, UnlockBoth, Outcome,
     BeingAborted, Stolen, Hand, UnlockClosure, UnlockDeque
<1>39. CASE UNCHANGED vars
  BY <1>f, <1>39 DEF vars
<1>q. QED
  BY <1>1, <1>2, <1>3, <1>4, <1>5, <1>6, <1>7, <1>8, <1>9, <1>10, <1>11, <1>12,
     <1>13, <1>14, <1>15, <1>16, <1>17, <1>18, <1>19, <1>20, <1>21, <1>22,
     <1>23, <1>24, <1>25, <1>26, <1>27, <1>28, <1>29, <1>30, <1>31, <1>32,
     <1>33, <1>34, <1>35, <1>36, <1>37, <1>38, <1>39 DEF Next, Step, Terminated

(* A thief promotes the frame popped last only when H = T, and a closure   *)
(* returned stays RETURNING until it is freed.                             *)
LEMMA ChildInvStep ==
    ASSUME IInv, [Next]_vars
    PROVE  ChildInv'
<1>a. Types /\ Types'
  BY TypesStep DEF IInv
<1>b. created \in Nat \ {0} /\ created' \in Nat /\ None \notin Proc /\ Root \in Proc
  BY <1>a, BoundAssumption DEF Types, Proc, None, Root
<1>t. \A u \in Worker :
         /\ T(u) = Size(stack[u]) /\ T(u)' = Size(stack'[u])
         /\ T(u) \in Nat /\ T(u)' \in Nat /\ H[u] \in Nat /\ H'[u] \in Nat
         /\ stack[u] = <<>> <=> T(u) = 0
         /\ stack'[u] = <<>> <=> T(u)' = 0
         /\ Running(u) = stack[u][T(u)] /\ Running(u)' = stack'[u][T(u)']
         /\ \A i \in 1 .. T(u) : stack[u][i] \in Proc
  <2> SUFFICES ASSUME NEW u \in Worker
               PROVE  /\ T(u) = Size(stack[u]) /\ T(u)' = Size(stack'[u])
                      /\ T(u) \in Nat /\ T(u)' \in Nat /\ H[u] \in Nat /\ H'[u] \in Nat
                      /\ stack[u] = <<>> <=> T(u) = 0
                      /\ stack'[u] = <<>> <=> T(u)' = 0
                      /\ Running(u) = stack[u][T(u)] /\ Running(u)' = stack'[u][T(u)']
                      /\ \A i \in 1 .. T(u) : stack[u][i] \in Proc
    OBVIOUS
  <2>1. /\ stack[u] \in Seq(Proc) /\ stack'[u] \in Seq(Proc)
        /\ H[u] \in Nat /\ H'[u] \in Nat
    BY <1>a DEF Types
  <2>2. T(u) = Size(stack[u]) /\ T(u)' = Size(stack'[u])
    BY DEF T, Size
  <2>3. Running(u) = stack[u][T(u)] /\ Running(u)' = stack'[u][T(u)']
    BY DEF Running
  <2>q. QED
    BY <2>1, <2>2, <2>3, SeqFacts
<1>c. \A u \in Worker : pc[u] \in ReturnPC =>
         child[u] \in Proc /\ status[child[u]] = "RETURNING"
  BY ReturnFacts
<1>s. \A u \in Worker : ChildHere(u)
  BY DEF IInv, ChildInv, ChildHere
<1>h. ASSUME NEW w \in Worker,
             \A u \in Worker \ {w} : /\ T(u)' = T(u) /\ H'[u] >= H[u]
                                     /\ pc'[u] = pc[u] /\ cl'[u] = cl[u]
                                     /\ child'[u] = child[u],
             \A d \in Proc : status[d] = "none" => status'[d] = "none",
             \A u \in Worker \ {w} : pc[u] \in ReturnPC
                => status'[child[u]] = "RETURNING",
             created' >= created, \A d \in 1 .. created : parent'[d] = parent[d],
             ChildHere(w)'
      PROVE  ChildInv'
  <2>1. ASSUME NEW u \in Worker, u # w PROVE ChildHere(u)'
    <3>1. /\ T(u)' = T(u) /\ H'[u] >= H[u] /\ pc'[u] = pc[u] /\ cl'[u] = cl[u]
          /\ child'[u] = child[u] /\ H[u] \in Nat /\ H'[u] \in Nat /\ T(u) \in Nat
      BY <1>h, <1>t, <2>1
    <3>2. H'[u] < T(u)' => H[u] < T(u)
      BY <3>1
    <3>3. child[u] # None => child[u] \in 1 .. created /\ child[u] \in Proc
      BY <1>a, <1>s DEF ChildHere, Types
    <3>4. child[u] # None => child[u] \in 1 .. created' /\ parent'[child[u]] = parent[child[u]]
      BY <1>b, <1>h, <3>3
    <3>5. pc[u] \in ReturnPC => status'[child[u]] = "RETURNING" /\ child[u] # None
      BY <1>c, <1>b, <1>h, <2>1
    <3>6. pc[u] \in PopPC /\ H'[u] < T(u)' /\ child[u] # None => status'[child[u]] = "none"
      BY <1>h, <1>s, <3>2, <3>3 DEF ChildHere
    <3>q. QED
      BY <1>s, <3>1, <3>4, <3>5, <3>6 DEF ChildHere
  <2>q. QED
    BY <1>h, <2>1 DEF ChildInv, ChildHere
<1>m. ASSUME NEW w \in Worker, NEW l, pc' = [pc EXCEPT ![w] = l],
             l \in PopPC <=> pc[w] \in PopPC,
             l \in ReturnPC <=> pc[w] \in ReturnPC,
             l = "stealFinish" <=> pc[w] = "stealFinish",
             UNCHANGED <<child, cl, H, stack, status, parent, created>>
      PROVE  ChildInv'
  <2>1. \A u \in Worker : /\ T(u)' = T(u) /\ H'[u] = H[u] /\ cl'[u] = cl[u]
                          /\ child'[u] = child[u]
                          /\ pc'[u] = IF u = w THEN l ELSE pc[u]
    BY <1>a, <1>m, <1>t DEF Types
  <2>2. ASSUME NEW u \in Worker PROVE ChildHere(u)'
    BY <1>m, <1>s, <2>1 DEF ChildHere
  <2>q. QED
    BY <2>2 DEF ChildInv, ChildHere
<1>f. ASSUME UNCHANGED <<pc, child, cl, H, stack, status, parent, created>>
      PROVE  ChildInv'
BY <1>f DEF IInv, ChildInv, T
<1>g. ASSUME NEW w \in Worker, NEW l, pc' = [pc EXCEPT ![w] = l],
             l \in PopPC <=> pc[w] \in PopPC,
             l \in ReturnPC <=> pc[w] \in ReturnPC,
             l = "stealFinish" <=> pc[w] = "stealFinish",
             UNCHANGED <<child, cl, H, stack, status, parent, created>>
      PROVE  ChildInv'
BY <1>g, <1>m
<1>1. ASSUME NEW w \in Worker, LeaveScheduler(w) PROVE ChildInv'
  BY <1>g, <1>1 DEF LeaveScheduler, program, results, state, tree, locks,
     caches, Goto, PopPC, ReturnPC
<1>2. ASSUME NEW w \in Worker, TakeOwn(w) PROVE ChildInv'
  <2>1. TakeOwnDoes(w)
    BY <1>2, TakeOwnEffect
  <2>2. /\ pc[w] = "loop" /\ cl[w] = None
        /\ UNCHANGED <<child, H, stack, status, parent, created>>
    BY <2>1 DEF TakeOwnDoes
  <2>3. /\ "loop" \notin PopPC /\ "loop" \notin ReturnPC
        /\ "steal" \notin PopPC /\ "steal" \notin ReturnPC
    BY <2>2 DEF PopPC, ReturnPC
  <2>4. ASSUME deque[w] = <<>>, pc' = [pc EXCEPT ![w] = "steal"],
               UNCHANGED <<cl>>
        PROVE  ChildInv'
    <3>1. \A u \in Worker \ {w} : /\ T(u)' = T(u) /\ H'[u] >= H[u]
                                  /\ pc'[u] = pc[u] /\ cl'[u] = cl[u]
                                  /\ child'[u] = child[u]
      BY <1>a, <1>t, <2>2, <2>3, <2>4 DEF Types, Shortened, Extended
    <3>2. \A d \in Proc : status[d] = "none" => status'[d] = "none"
      BY <1>a, <1>b, <2>2, <2>3, <2>4 DEF Types
    <3>3. \A u \in Worker \ {w} : pc[u] \in ReturnPC
             => status'[child[u]] = "RETURNING"
      BY <1>a, <1>c, <2>2, <2>2, <2>3, <2>4 DEF Types
    <3>4. created' >= created /\ \A d \in 1 .. created : parent'[d] = parent[d]
      BY <1>a, <1>b, <2>2, <2>3, <2>4 DEF Types
    <3>5. ChildHere(w)'
      BY <1>a, <1>b, <1>s, <1>t, <2>2, <2>3, <2>4 DEF Types, ChildHere,
         Shortened
    <3>q. QED
      BY <1>h, <2>2, <3>1, <3>2, <3>3, <3>4, <3>5
  <2>5. ASSUME NEW c \in Proc, deque[w] # <<>>, c = Bottom(w),
               c = deque[w][Size(deque[w])], cl' = [cl EXCEPT ![w] = c],
               UNCHANGED <<pc>>
        PROVE  ChildInv'
    <3>1. \A u \in Worker \ {w} : /\ T(u)' = T(u) /\ H'[u] >= H[u]
                                  /\ pc'[u] = pc[u] /\ cl'[u] = cl[u]
                                  /\ child'[u] = child[u]
      BY <1>a, <1>t, <2>2, <2>3, <2>5 DEF Types, Shortened, Extended
    <3>2. \A d \in Proc : status[d] = "none" => status'[d] = "none"
      BY <1>a, <1>b, <2>2, <2>3, <2>5 DEF Types
    <3>3. \A u \in Worker \ {w} : pc[u] \in ReturnPC
             => status'[child[u]] = "RETURNING"
      BY <1>a, <1>c, <2>2, <2>2, <2>3, <2>5 DEF Types
    <3>4. created' >= created /\ \A d \in 1 .. created : parent'[d] = parent[d]
      BY <1>a, <1>b, <2>2, <2>3, <2>5 DEF Types
    <3>5. ChildHere(w)'
      BY <1>a, <1>b, <1>s, <1>t, <2>2, <2>3, <2>5 DEF Types, ChildHere,
         Shortened
    <3>q. QED
      BY <1>h, <2>2, <3>1, <3>2, <3>3, <3>4, <3>5
  <2>q. QED
    BY <2>1, <2>2, <2>4, <2>5 DEF TakeOwnDoes
<1>3. ASSUME NEW w \in Worker, StealLockDeque(w) PROVE ChildInv'
  <2>2. /\ pc[w] = "steal" /\ pc' = [pc EXCEPT ![w] = "stealDeque"]
        /\ UNCHANGED <<child, H, stack, status, parent, created>>
    BY <1>3 DEF StealLockDeque, program, results, state, tree, caches, Goto,
       LockDeque, Peek, Hand
  <2>3. /\ "steal" \notin PopPC /\ "steal" \notin ReturnPC
        /\ "stealDeque" \notin PopPC /\ "stealDeque" \notin ReturnPC
    BY <2>2 DEF PopPC, ReturnPC
  <2>4. ASSUME NEW v \in Worker \ {w},
               cl' = [cl EXCEPT ![w] = IF deque[v] = <<>> THEN None ELSE Head(deque[v])]
        PROVE  ChildInv'
    <3>1. \A u \in Worker \ {w} : /\ T(u)' = T(u) /\ H'[u] >= H[u]
                                  /\ pc'[u] = pc[u] /\ cl'[u] = cl[u]
                                  /\ child'[u] = child[u]
      BY <1>a, <1>t, <2>2, <2>3, <2>4 DEF Types, Shortened, Extended
    <3>2. \A d \in Proc : status[d] = "none" => status'[d] = "none"
      BY <1>a, <1>b, <2>2, <2>3, <2>4 DEF Types
    <3>3. \A u \in Worker \ {w} : pc[u] \in ReturnPC
             => status'[child[u]] = "RETURNING"
      BY <1>a, <1>c, <2>2, <2>2, <2>3, <2>4 DEF Types
    <3>4. created' >= created /\ \A d \in 1 .. created : parent'[d] = parent[d]
      BY <1>a, <1>b, <2>2, <2>3, <2>4 DEF Types
    <3>5. ChildHere(w)'
      BY <1>a, <1>b, <1>s, <1>t, <2>2, <2>3, <2>4 DEF Types, ChildHere,
         Shortened
    <3>q. QED
      BY <1>h, <2>2, <3>1, <3>2, <3>3, <3>4, <3>5
  <2>q. QED
    BY <1>3, <2>2, <2>4 DEF StealLockDeque, program, results, state, tree,
       caches, Goto, LockDeque, Peek, Hand
<1>4. ASSUME NEW w \in Worker, StealLockClosure(w) PROVE ChildInv'
  BY <1>g, <1>4 DEF StealLockClosure, program, results, state, tree, caches,
     Goto, LockClosure, PopPC, ReturnPC
<1>5. ASSUME NEW w \in Worker, StealGiveUp(w) PROVE ChildInv'
  <2>2. /\ pc[w] = "stealClosure" /\ pc' = [pc EXCEPT ![w] = "stealGiveUp"]
        /\ cl' = [cl EXCEPT ![w] = None]
        /\ UNCHANGED <<child, H, stack, status, parent, created>>
    BY <1>5 DEF StealGiveUp, program, results, state, tree, caches, Goto, Hand,
       UnlockClosure, BeingAborted
  <2>3. /\ "stealClosure" \notin PopPC /\ "stealClosure" \notin ReturnPC
        /\ "stealGiveUp" \notin PopPC /\ "stealGiveUp" \notin ReturnPC
    BY <2>2 DEF PopPC, ReturnPC
  <2>4. \A u \in Worker \ {w} : /\ T(u)' = T(u) /\ H'[u] >= H[u]
                                /\ pc'[u] = pc[u] /\ cl'[u] = cl[u]
                                /\ child'[u] = child[u]
    BY <1>a, <1>t, <2>2, <2>3 DEF Types, Shortened, Extended
  <2>5. \A d \in Proc : status[d] = "none" => status'[d] = "none"
    BY <1>a, <1>b, <2>2, <2>3 DEF Types
  <2>6. \A u \in Worker \ {w} : pc[u] \in ReturnPC
           => status'[child[u]] = "RETURNING"
    BY <1>a, <1>c, <2>2, <2>2, <2>3 DEF Types
  <2>7. created' >= created /\ \A d \in 1 .. created : parent'[d] = parent[d]
    BY <1>a, <1>b, <2>2, <2>3 DEF Types
  <2>8. ChildHere(w)'
    BY <1>a, <1>b, <1>s, <1>t, <2>2, <2>3 DEF Types, ChildHere, Shortened
  <2>q. QED
    BY <1>h, <2>2, <2>4, <2>5, <2>6, <2>7, <2>8
<1>6. ASSUME NEW w \in Worker, StealUnlockDeque(w) PROVE ChildInv'
  BY <1>g, <1>6 DEF StealUnlockDeque, program, results, state, tree, caches,
     Goto, UnlockDeque, PopPC, ReturnPC
<1>7. ASSUME NEW w \in Worker, StealReady(w) PROVE ChildInv'
  <2>1. PICK v \in Worker \ {w}, c \in Proc :
          StealReadyDoes(w, v, c)
    BY <1>7, StealReadyEffect
  <2>q. QED
    BY <1>g, <2>1 DEF StealReadyDoes, PopPC, ReturnPC
<1>8. ASSUME NEW w \in Worker, StealPromote(w) PROVE ChildInv'
  <2>1. PICK v \in Worker \ {w}, c \in Proc, k \in Proc :
          StealPromoteDoes(w, v, c, k)
    BY <1>8, StealPromoteEffect
  <2>2. /\ pc[w] = "stealClosure" /\ c = cl[w] /\ k = stack[v][H[v] + 2]
        /\ deque[v] = <<c>> /\ pc[v] \in WorkPC \ OwnDequePC /\ H[v] + 1 < T(v)
        /\ status[c] = "RUNNING" /\ cache[c] = v /\ stack[v][H[v] + 1] = c
        /\ k # c /\ k # Root /\ status[k] = "none" /\ parent[k] = c /\ Fresh(k)
        /\ pc' = [pc EXCEPT ![w] = "stealFinish"]
        /\ child' = [child EXCEPT ![w] = k] /\ H' = [H EXCEPT ![v] = @ + 1]
        /\ status' = [status EXCEPT ![k] = "RUNNING"]
        /\ UNCHANGED <<cl, stack, parent, created>>
    BY <2>1 DEF StealPromoteDoes
  <2>3. /\ "stealClosure" \notin PopPC /\ "stealClosure" \notin ReturnPC
        /\ "stealFinish" \notin PopPC /\ "stealFinish" \notin ReturnPC
    BY <2>2 DEF PopPC, ReturnPC
  <2>4. ASSUME NEW u \in Worker PROVE ChildHere(u)'
    <3>1. /\ T(u)' = T(u) /\ H[u] \in Nat /\ H'[u] \in Nat /\ T(u) \in Nat
          /\ cl'[u] = cl[u]
      BY <1>t, <2>2
    <3>2. /\ H'[u] = IF u = v THEN H[u] + 1 ELSE H[u]
          /\ pc'[u] = IF u = w THEN "stealFinish" ELSE pc[u]
          /\ child'[u] = IF u = w THEN k ELSE child[u]
      BY <1>a, <2>2 DEF Types
    <3>3. CASE u = w
      <4>1. k # None /\ k \in 1 .. created
        <5>1. stack[v][H[v] + 2] \in 1 .. created
          BY <1>t, <2>2 DEF IInv, StackInv
        <5>q. QED
          BY <1>b, <2>2, <5>1
      <4>2. cl[w] = c /\ parent[k] = c
        BY <2>2
      <4>q. QED
        BY <2>2, <2>3, <3>1, <3>2, <3>3, <4>1, <4>2 DEF ChildHere
    <3>4. CASE u # w
      <4>1. H'[u] < T(u)' => H[u] < T(u)
        BY <3>1, <3>2
      <4>2. pc[u] \in PopPC /\ H'[u] < T(u)' /\ child[u] # None => child[u] # k
        <5>1. H[v] + 2 \in H[v] + 2 .. T(v)
          BY <1>t, <2>2
        <5>q. QED
          BY <2>2, <4>1, <5>1 DEF IInv, ChildApart
      <4>5. pc[u] \in PopPC /\ H'[u] < T(u)' /\ child[u] # None =>
               /\ child[u] \in Proc /\ status[child[u]] = "none"
        BY <1>a, <1>s, <4>1 DEF Types, ChildHere
      <4>3. pc[u] \in PopPC /\ H'[u] < T(u)' /\ child[u] # None => status'[child[u]] = "none"
        BY <1>a, <2>2, <4>2, <4>5 DEF Types
      <4>4. pc[u] \in ReturnPC => status'[child[u]] = "RETURNING"
        BY <1>a, <1>c, <2>2 DEF Types
      <4>q. QED
        BY <1>s, <2>2, <3>1, <3>2, <3>4, <4>3, <4>4 DEF ChildHere
    <3>q. QED
      BY <3>3, <3>4
  <2>q. QED
    BY <2>4 DEF ChildInv, ChildHere
<1>9. ASSUME NEW w \in Worker, StealFinish(w) PROVE ChildInv'
  <2>2. /\ pc[w] = "stealFinish" /\ pc' = [pc EXCEPT ![w] = "loop"]
        /\ child' = [child EXCEPT ![w] = None]
        /\ status' = [status EXCEPT ![cl[w]] = "READY"]
        /\ UNCHANGED <<cl, H, stack, parent, created>>
    BY <1>9 DEF StealFinish, program, results, caches, Goto, UnlockClosure,
       SetStatus, AddChild
  <2>3. /\ "stealFinish" \notin PopPC /\ "stealFinish" \notin ReturnPC
        /\ "loop" \notin PopPC /\ "loop" \notin ReturnPC
    BY <2>2 DEF PopPC, ReturnPC
  <2>a. cl[w] \in Proc /\ status[cl[w]] = "RUNNING"
    BY <2>2, LockFacts DEF IInv, InHandInv, LockPC
  <2>4. \A u \in Worker \ {w} : /\ T(u)' = T(u) /\ H'[u] >= H[u]
                                /\ pc'[u] = pc[u] /\ cl'[u] = cl[u]
                                /\ child'[u] = child[u]
    BY <1>a, <1>t, <2>2, <2>3, <2>a DEF Types, Shortened, Extended
  <2>5. \A d \in Proc : status[d] = "none" => status'[d] = "none"
    BY <1>a, <1>b, <2>2, <2>3, <2>a DEF Types
  <2>6. \A u \in Worker \ {w} : pc[u] \in ReturnPC
           => status'[child[u]] = "RETURNING"
    BY <1>a, <1>c, <2>2, <2>2, <2>3, <2>a DEF Types
  <2>7. created' >= created /\ \A d \in 1 .. created : parent'[d] = parent[d]
    BY <1>a, <1>b, <2>2, <2>3, <2>a DEF Types
  <2>8. ChildHere(w)'
    BY <1>a, <1>b, <1>s, <1>t, <2>2, <2>3, <2>a DEF Types, ChildHere, Shortened
  <2>q. QED
    BY <1>h, <2>2, <2>4, <2>5, <2>6, <2>7, <2>8
<1>10. ASSUME NEW w \in Worker, InletKilled(w) PROVE ChildInv'
  BY <1>f, <1>10 DEF InletKilled, program, state, locks, caches, Outcome,
     BeingAborted, Polls
<1>11. ASSUME NEW w \in Worker, InletRuns(w) PROVE ChildInv'
  BY <1>f, <1>11 DEF InletRuns, program, state, locks, caches, Outcome,
     BeingAborted, Polls
<1>12. ASSUME NEW w \in Worker, InletAborts(w) PROVE ChildInv'
  <2>1. PICK c \in Proc, r \in SUBSET Proc :
          InletAbortsDoes(w, c, r)
    BY <1>12, InletAbortsEffect
  <2>2. /\ c = cl[w] /\ pc[w] \in PollPC
        /\ pc[w] = "return" => status[c] # "RUNNING"
        /\ UNCHANGED <<pc, child, cl, stack, parent, created>>
    BY <2>1 DEF InletAbortsDoes
  <2>4. ASSUME NEW k \in Proc, pc[w] = "handlerPoll", c = Bottom(w),
               deque[w] # <<>>, status[c] = "RUNNING", cache[c] = w, H[w] = 0,
               1 < T(w), stack[w][1] = c, k = stack[w][2], k # c, k # Root,
               status[k] = "none", parent[k] = c, Fresh(k),
               H' = [H EXCEPT ![w] = 1],
               status' = [status EXCEPT ![k] = "RUNNING", ![c] = "READY"]
        PROVE  ChildInv'
    <3>1. pc' = pc /\ cl' = cl /\ child' = child /\ stack' = stack
      BY <2>2
    <3>2. ASSUME NEW u \in Worker PROVE ChildHere(u)'
      <4>1. /\ T(u)' = T(u) /\ H[u] \in Nat /\ H'[u] \in Nat /\ T(u) \in Nat
            /\ H'[u] >= H[u]
        <5>1. T(u)' = T(u) /\ H[u] \in Nat /\ H'[u] \in Nat /\ T(u) \in Nat
          BY <1>t, <2>2
        <5>2. H'[u] = IF u = w THEN 1 ELSE H[u]
          BY <1>a, <2>4 DEF Types
        <5>q. QED
          BY <2>4, <5>1, <5>2
      <4>2. H'[u] < T(u)' => H[u] < T(u)
        BY <4>1
      <4>3. pc[u] \in PopPC /\ H'[u] < T(u)' /\ child[u] # None => child[u] # k
        <5>1. 2 \in H[w] + 2 .. T(w)
          BY <1>t, <2>4
        <5>q. QED
          BY <2>4, <4>2, <5>1 DEF IInv, ChildApart
      <4>4. pc[u] \in PopPC /\ H'[u] < T(u)' /\ child[u] # None =>
               /\ child[u] \in Proc /\ status[child[u]] = "none"
        BY <1>a, <1>s, <4>2 DEF Types, ChildHere
      <4>5. pc[u] \in PopPC /\ H'[u] < T(u)' /\ child[u] # None => status'[child[u]] = "none"
        BY <1>a, <2>4, <4>3, <4>4 DEF Types
      <4>6. pc[u] \in ReturnPC => status'[child[u]] = "RETURNING"
        BY <1>a, <1>c, <2>4 DEF Types
      <4>q. QED
        BY <1>s, <2>2, <3>1, <4>1, <4>5, <4>6 DEF ChildHere
    <3>q. QED
      BY <3>2 DEF ChildInv, ChildHere
  <2>5. ASSUME UNCHANGED <<H, status>>
        PROVE  ChildInv'
    BY <1>f, <2>2, <2>5
  <2>q. QED
    BY <2>1, <2>2, <2>4, <2>5 DEF InletAbortsDoes, InletSplits
<1>13. ASSUME NEW w \in Worker, WalkDown(w) PROVE ChildInv'
  <2>1. PICK n \in Nat \ {0}, k \in Proc :
          WalkDownDoes(w, n, k)
    BY <1>13, WalkDownEffect
  <2>q. QED
    BY <1>f, <2>1 DEF WalkDownDoes
<1>14. ASSUME NEW w \in Worker, WalkUp(w) PROVE ChildInv'
  <2>1. PICK n \in Nat \ {0} :
          WalkUpDoes(w, n)
    BY <1>14, WalkUpEffect
  <2>q. QED
    BY <1>f, <2>1 DEF WalkUpDoes
<1>15. ASSUME NEW w \in Worker, AbortReadyClosure(w) PROVE ChildInv'
  <2>2. /\ pc[w] = "loop" /\ cl[w] # None /\ status[cl[w]] = "READY"
        /\ UNCHANGED <<pc, child, H, stack, parent, created>>
    BY <1>15 DEF AbortReadyClosure, program, results, tree, locks, caches,
       Hand, SetStatus, Outcome, BeingAborted, HasChildren
  <2>3. /\ "loop" \notin PopPC /\ "loop" \notin ReturnPC
    BY <2>2 DEF PopPC, ReturnPC
  <2>4. ASSUME join[cl[w]] # 0, cl' = [cl EXCEPT ![w] = None],
               status' = [status EXCEPT ![cl[w]] = "SUSPENDED"]
        PROVE  ChildInv'
    <3>1. \A u \in Worker \ {w} : /\ T(u)' = T(u) /\ H'[u] >= H[u]
                                  /\ pc'[u] = pc[u] /\ cl'[u] = cl[u]
                                  /\ child'[u] = child[u]
      BY <1>a, <1>t, <2>2, <2>3, <2>4 DEF Types, Shortened, Extended
    <3>2. \A d \in Proc : status[d] = "none" => status'[d] = "none"
      BY <1>a, <1>b, <2>2, <2>3, <2>4 DEF Types
    <3>3. \A u \in Worker \ {w} : pc[u] \in ReturnPC
             => status'[child[u]] = "RETURNING"
      BY <1>a, <1>c, <2>2, <2>2, <2>3, <2>4 DEF Types
    <3>4. created' >= created /\ \A d \in 1 .. created : parent'[d] = parent[d]
      BY <1>a, <1>b, <2>2, <2>3, <2>4 DEF Types
    <3>5. ChildHere(w)'
      BY <1>a, <1>b, <1>s, <1>t, <2>2, <2>3, <2>4 DEF Types, ChildHere,
         Shortened
    <3>q. QED
      BY <1>h, <2>2, <3>1, <3>2, <3>3, <3>4, <3>5
  <2>5. ASSUME join[cl[w]] = 0,
               status' = [status EXCEPT ![cl[w]] = "RETURNING"],
               UNCHANGED <<cl>>
        PROVE  ChildInv'
    <3>1. \A u \in Worker \ {w} : /\ T(u)' = T(u) /\ H'[u] >= H[u]
                                  /\ pc'[u] = pc[u] /\ cl'[u] = cl[u]
                                  /\ child'[u] = child[u]
      BY <1>a, <1>t, <2>2, <2>3, <2>5 DEF Types, Shortened, Extended
    <3>2. \A d \in Proc : status[d] = "none" => status'[d] = "none"
      BY <1>a, <1>b, <2>2, <2>3, <2>5 DEF Types
    <3>3. \A u \in Worker \ {w} : pc[u] \in ReturnPC
             => status'[child[u]] = "RETURNING"
      BY <1>a, <1>c, <2>2, <2>2, <2>3, <2>5 DEF Types
    <3>4. created' >= created /\ \A d \in 1 .. created : parent'[d] = parent[d]
      BY <1>a, <1>b, <2>2, <2>3, <2>5 DEF Types
    <3>5. ChildHere(w)'
      BY <1>a, <1>b, <1>s, <1>t, <2>2, <2>3, <2>5 DEF Types, ChildHere,
         Shortened
    <3>q. QED
      BY <1>h, <2>2, <3>1, <3>2, <3>3, <3>4, <3>5
  <2>q. QED
    BY <1>15, <2>2, <2>4, <2>5 DEF AbortReadyClosure, program, results, tree,
       locks, caches, Hand, SetStatus, Outcome, BeingAborted, HasChildren
<1>16. ASSUME NEW w \in Worker, Setup(w) PROVE ChildInv'
  <2>2. /\ pc[w] = "loop" /\ cl[w] # None /\ status[cl[w]] = "READY"
        /\ pc' = [pc EXCEPT ![w] = "setup"] /\ H' = [H EXCEPT ![w] = 0]
        /\ stack' = [stack EXCEPT ![w] = <<cl[w]>>]
        /\ status' = [status EXCEPT ![cl[w]] = "RUNNING"]
        /\ UNCHANGED <<child, cl, parent, created>>
    BY <1>16 DEF Setup, program, results, tree, Goto, LockClosure, SetStatus,
       BeingAborted
  <2>3. /\ "loop" \notin PopPC /\ "loop" \notin ReturnPC
        /\ "setup" \notin PopPC /\ "setup" \notin ReturnPC
    BY <2>2 DEF PopPC, ReturnPC
  <2>4. \A u \in Worker \ {w} : /\ T(u)' = T(u) /\ H'[u] >= H[u]
                                /\ pc'[u] = pc[u] /\ cl'[u] = cl[u]
                                /\ child'[u] = child[u]
    BY <1>a, <1>t, <2>2, <2>3 DEF Types, Shortened, Extended
  <2>5. \A d \in Proc : status[d] = "none" => status'[d] = "none"
    BY <1>a, <1>b, <2>2, <2>3 DEF Types
  <2>6. \A u \in Worker \ {w} : pc[u] \in ReturnPC
           => status'[child[u]] = "RETURNING"
    BY <1>a, <1>c, <2>2, <2>2, <2>3 DEF Types
  <2>7. created' >= created /\ \A d \in 1 .. created : parent'[d] = parent[d]
    BY <1>a, <1>b, <2>2, <2>3 DEF Types
  <2>8. ChildHere(w)'
    BY <1>a, <1>b, <1>s, <1>t, <2>2, <2>3 DEF Types, ChildHere, Shortened
  <2>q. QED
    BY <1>h, <2>2, <2>4, <2>5, <2>6, <2>7, <2>8
<1>17. ASSUME NEW w \in Worker, SetupDone(w) PROVE ChildInv'
  BY <1>g, <1>17 DEF SetupDone, program, results, tree, caches, Goto,
     UnlockClosure, Polled, Polls, PopPC, ReturnPC
<1>18. ASSUME NEW w \in Worker, Execute(w) PROVE ChildInv'
  <2>1. PICK c \in Proc :
          ExecuteDoes(w, c)
    BY <1>18, ExecuteEffect
  <2>2. /\ pc[w] = "add" /\ c = cl[w] /\ status[c] = "RUNNING" /\ cache[c] = w
        /\ T(w) = 1 /\ H[w] = 0 /\ stack[w][1] = c
        /\ pc' = [pc EXCEPT ![w] = "run"] /\ cl' = [cl EXCEPT ![w] = None]
        /\ UNCHANGED <<child, H, stack, status, parent, created>>
    BY <2>1 DEF ExecuteDoes
  <2>3. /\ "add" \notin PopPC /\ "add" \notin ReturnPC /\ "run" \notin PopPC
        /\ "run" \notin ReturnPC
    BY <2>2 DEF PopPC, ReturnPC
  <2>4. \A u \in Worker \ {w} : /\ T(u)' = T(u) /\ H'[u] >= H[u]
                                /\ pc'[u] = pc[u] /\ cl'[u] = cl[u]
                                /\ child'[u] = child[u]
    BY <1>a, <1>t, <2>2, <2>3 DEF Types, Shortened, Extended
  <2>5. \A d \in Proc : status[d] = "none" => status'[d] = "none"
    BY <1>a, <1>b, <2>2, <2>3 DEF Types
  <2>6. \A u \in Worker \ {w} : pc[u] \in ReturnPC
           => status'[child[u]] = "RETURNING"
    BY <1>a, <1>c, <2>2, <2>2, <2>3 DEF Types
  <2>7. created' >= created /\ \A d \in 1 .. created : parent'[d] = parent[d]
    BY <1>a, <1>b, <2>2, <2>3 DEF Types
  <2>8. ChildHere(w)'
    BY <1>a, <1>b, <1>s, <1>t, <2>2, <2>3 DEF Types, ChildHere, Shortened
  <2>q. QED
    BY <1>h, <2>2, <2>4, <2>5, <2>6, <2>7, <2>8
<1>19. ASSUME NEW w \in Worker, ReturnLockParent(w) PROVE ChildInv'
  <2>1. PICK k \in Proc, p \in Proc :
          ReturnLockParentDoes(w, k, p)
    BY <1>19, ReturnLockParentEffect
  <2>2. /\ pc[w] = "loop" /\ k = cl[w] /\ p = parent[k] /\ p # k /\ k # Root
        /\ status[k] = "RETURNING" /\ status[p] # "none"
        /\ pc' = [pc EXCEPT ![w] = "returnChild"]
        /\ child' = [child EXCEPT ![w] = k] /\ cl' = [cl EXCEPT ![w] = p]
        /\ UNCHANGED <<H, stack, status, parent, created>>
    BY <2>1 DEF ReturnLockParentDoes
  <2>3. /\ "loop" \notin PopPC /\ "loop" \notin ReturnPC
        /\ "returnChild" \notin PopPC /\ "returnChild" \in ReturnPC
    BY <2>2 DEF PopPC, ReturnPC
  <2>a. k # None /\ k \in 1 .. created /\ child'[w] = k /\ cl'[w] = p /\ pc'[w] = "returnChild"
    <3>1. k \in 1 .. created
      BY <1>b, <2>2 DEF IInv, ParentInv, Proc
    <3>q. QED
      BY <1>a, <1>b, <2>2, <3>1 DEF Types
  <2>4. \A u \in Worker \ {w} : /\ T(u)' = T(u) /\ H'[u] >= H[u]
                                /\ pc'[u] = pc[u] /\ cl'[u] = cl[u]
                                /\ child'[u] = child[u]
    BY <1>a, <1>t, <2>2, <2>3, <2>a DEF Types, Shortened, Extended
  <2>5. \A d \in Proc : status[d] = "none" => status'[d] = "none"
    BY <1>a, <1>b, <2>2, <2>3, <2>a DEF Types
  <2>6. \A u \in Worker \ {w} : pc[u] \in ReturnPC
           => status'[child[u]] = "RETURNING"
    BY <1>a, <1>c, <2>2, <2>2, <2>3, <2>a DEF Types
  <2>7. created' >= created /\ \A d \in 1 .. created : parent'[d] = parent[d]
    BY <1>a, <1>b, <2>2, <2>3, <2>a DEF Types
  <2>8. ChildHere(w)'
    BY <2>2, <2>3, <2>a DEF ChildHere
  <2>q. QED
    BY <1>h, <2>2, <2>4, <2>5, <2>6, <2>7, <2>8
<1>20. ASSUME NEW w \in Worker, ReturnEnqueue(w) PROVE ChildInv'
  <2>1. PICK k \in Proc, p \in Proc :
          ReturnEnqueueDoes(w, k, p)
    BY <1>20, ReturnEnqueueEffect
  <2>q. QED
    BY <1>g, <2>1 DEF ReturnEnqueueDoes, PopPC, ReturnPC
<1>21. ASSUME NEW w \in Worker, ReturnDone(w) PROVE ChildInv'
  <2>1. PICK k \in Proc, p \in Proc :
          ReturnDoneDoes(w, k, p)
    BY <1>21, ReturnDoneEffect
  <2>2. /\ pc[w] = "return" /\ k = child[w] /\ p = cl[w] /\ p # k
        /\ p = parent[k] /\ k # Root /\ status[k] = "RETURNING"
        /\ status[p] # "none" /\ pc' = [pc EXCEPT ![w] = "loop"]
        /\ child' = [child EXCEPT ![w] = None]
        /\ UNCHANGED <<H, stack, parent, created>>
    BY <2>1 DEF ReturnDoneDoes
  <2>3. /\ "return" \notin PopPC /\ "return" \in ReturnPC
        /\ "loop" \notin PopPC /\ "loop" \notin ReturnPC
    BY <2>2 DEF PopPC, ReturnPC
  <2>a. \A u \in Worker \ {w} : pc[u] \in ReturnPC => child[u] # k
    BY <2>2, <2>3 DEF IInv, PlacesApart
  <2>4. ASSUME join[p] = 1, status[p] = "SUSPENDED",
               status' = [status EXCEPT ![k] = "freed", ![p] = "READY"],
               UNCHANGED <<cl>>
        PROVE  ChildInv'
    <3>1. \A u \in Worker \ {w} : /\ T(u)' = T(u) /\ H'[u] >= H[u]
                                  /\ pc'[u] = pc[u] /\ cl'[u] = cl[u]
                                  /\ child'[u] = child[u]
      BY <1>a, <1>t, <2>2, <2>3, <2>a, <2>4 DEF Types, Shortened, Extended
    <3>2. \A d \in Proc : status[d] = "none" => status'[d] = "none"
      BY <1>a, <1>b, <2>2, <2>3, <2>a, <2>4 DEF Types
    <3>3. \A u \in Worker \ {w} : pc[u] \in ReturnPC
             => status'[child[u]] = "RETURNING"
      BY <1>a, <1>c, <2>2, <2>2, <2>3, <2>a, <2>4 DEF Types
    <3>4. created' >= created /\ \A d \in 1 .. created : parent'[d] = parent[d]
      BY <1>a, <1>b, <2>2, <2>3, <2>a, <2>4 DEF Types
    <3>5. ChildHere(w)'
      BY <1>a, <1>b, <1>s, <1>t, <2>2, <2>3, <2>a, <2>4 DEF Types, ChildHere,
         Shortened
    <3>q. QED
      BY <1>h, <2>2, <3>1, <3>2, <3>3, <3>4, <3>5
  <2>5. ASSUME join[p] # 1 \/ status[p] # "SUSPENDED",
               cl' = [cl EXCEPT ![w] = None],
               status' = [status EXCEPT ![k] = "freed"]
        PROVE  ChildInv'
    <3>1. \A u \in Worker \ {w} : /\ T(u)' = T(u) /\ H'[u] >= H[u]
                                  /\ pc'[u] = pc[u] /\ cl'[u] = cl[u]
                                  /\ child'[u] = child[u]
      BY <1>a, <1>t, <2>2, <2>3, <2>a, <2>5 DEF Types, Shortened, Extended
    <3>2. \A d \in Proc : status[d] = "none" => status'[d] = "none"
      BY <1>a, <1>b, <2>2, <2>3, <2>a, <2>5 DEF Types
    <3>3. \A u \in Worker \ {w} : pc[u] \in ReturnPC
             => status'[child[u]] = "RETURNING"
      BY <1>a, <1>c, <2>2, <2>2, <2>3, <2>a, <2>5 DEF Types
    <3>4. created' >= created /\ \A d \in 1 .. created : parent'[d] = parent[d]
      BY <1>a, <1>b, <2>2, <2>3, <2>a, <2>5 DEF Types
    <3>5. ChildHere(w)'
      BY <1>a, <1>b, <1>s, <1>t, <2>2, <2>3, <2>a, <2>5 DEF Types, ChildHere,
         Shortened
    <3>q. QED
      BY <1>h, <2>2, <3>1, <3>2, <3>3, <3>4, <3>5
  <2>q. QED
    BY <2>1, <2>2, <2>4, <2>5 DEF ReturnDoneDoes
<1>22. ASSUME NEW w \in Worker, Spawn(w) PROVE ChildInv'
  <2>1. PICK c \in Proc, f \in Proc :
          SpawnDoes(w, c, f)
    BY <1>22, SpawnEffect
  <2>2. /\ pc[w] \in {"run", "synced"} /\ c = created + 1 /\ created \in Nat
        /\ f \in 1 .. created /\ T(w) >= 1 /\ f = stack[w][T(w)]
        /\ status[c] = "none" /\ pc' = [pc EXCEPT ![w] = "run"]
        /\ Extended(stack, stack', w, c) /\ parent' = [parent EXCEPT ![c] = f]
        /\ created' = c
        /\ UNCHANGED <<child, cl, H, status>>
    BY <2>1 DEF SpawnDoes
  <2>3. /\ "run" \notin PopPC /\ "run" \notin ReturnPC /\ "synced" \notin PopPC
        /\ "synced" \notin ReturnPC /\ pc[w] \notin PopPC
        /\ pc[w] \notin ReturnPC
    BY <2>2 DEF PopPC, ReturnPC
  <2>a. /\ c \notin 1 .. created /\ created \in Nat /\ created' = created + 1
        /\ \A d \in 1 .. created : d \in Proc /\ d # c
    <3>1. created \in Nat /\ c = created + 1 /\ c <= MaxProc /\ MaxProc \in Nat
      BY <1>b, <2>2, BoundAssumption DEF Proc
    <3>q. QED
      BY <2>2, <3>1 DEF Proc
  <2>b. child[w] = None /\ child'[w] = None /\ pc'[w] = "run"
    <3>1. pc'[w] = "run" /\ child' = child
      BY <1>a, <2>2 DEF Types
    <3>2. child[w] = None
      BY <1>s, <2>2, <2>3 DEF ChildHere
    <3>q. QED
      BY <3>1, <3>2
  <2>4. \A u \in Worker \ {w} : /\ T(u)' = T(u) /\ H'[u] >= H[u]
                                /\ pc'[u] = pc[u] /\ cl'[u] = cl[u]
                                /\ child'[u] = child[u]
    BY <1>a, <1>t, <2>2, <2>3 DEF Types, Shortened, Extended
  <2>5. \A d \in Proc : status[d] = "none" => status'[d] = "none"
    BY <1>a, <1>b, <2>2, <2>3 DEF Types
  <2>6. \A u \in Worker \ {w} : pc[u] \in ReturnPC
           => status'[child[u]] = "RETURNING"
    BY <1>a, <1>c, <2>2, <2>2, <2>3 DEF Types
  <2>7. created' >= created /\ \A d \in 1 .. created : parent'[d] = parent[d]
    <3>1. parent' = [parent EXCEPT ![c] = f] /\ parent \in [Proc -> Proc \cup {None}]
      BY <1>a, <2>2 DEF Types
    <3>q. QED
      BY <2>a, <3>1
  <2>8. ChildHere(w)'
    BY <2>3, <2>b DEF ChildHere
  <2>q. QED
    BY <1>h, <2>2, <2>4, <2>5, <2>6, <2>7, <2>8
<1>23. ASSUME NEW w \in Worker, ReturnFast(w) PROVE ChildInv'
  <2>1. PICK f \in Proc :
          ReturnFastDoes(w, f)
    BY <1>23, ReturnFastEffect
  <2>2. /\ pc[w] = "run" /\ f = stack[w][T(w)] /\ T(w) > 1 /\ T(w) \in Nat
        /\ status[f] = "none" \/ H[w] + 1 = T(w)
        /\ f # Root /\ pc' = [pc EXCEPT ![w] = "pop"]
        /\ child' = [child EXCEPT ![w] = f] /\ Shortened(stack, stack', w)
        /\ UNCHANGED <<cl, H, status, parent, created>>
    BY <2>1 DEF ReturnFastDoes
  <2>3. /\ "run" \notin PopPC /\ "run" \notin ReturnPC /\ "pop" \in PopPC
        /\ "pop" \notin ReturnPC
    BY <2>2 DEF PopPC, ReturnPC
  <2>a. /\ f # None /\ f \in 1 .. created /\ child'[w] = f /\ pc'[w] = "pop"
        /\ created' = created
    <3>1. f \in 1 .. created
      BY <1>t, <2>2 DEF IInv, StackInv
    <3>q. QED
      BY <1>a, <1>b, <2>2, <3>1 DEF Types
  <2>b. H'[w] < T(w)' => status'[f] = "none"
    <3>1. T(w)' = T(w) - 1 /\ H'[w] = H[w] /\ status' = status
      BY <1>t, <2>2 DEF Shortened
    <3>q. QED
      BY <1>t, <2>2, <3>1
  <2>4. \A u \in Worker \ {w} : /\ T(u)' = T(u) /\ H'[u] >= H[u]
                                /\ pc'[u] = pc[u] /\ cl'[u] = cl[u]
                                /\ child'[u] = child[u]
    BY <1>a, <1>t, <2>2, <2>3 DEF Types, Shortened, Extended
  <2>5. \A d \in Proc : status[d] = "none" => status'[d] = "none"
    BY <1>a, <1>b, <2>2, <2>3 DEF Types
  <2>6. \A u \in Worker \ {w} : pc[u] \in ReturnPC
           => status'[child[u]] = "RETURNING"
    BY <1>a, <1>c, <2>2, <2>2, <2>3 DEF Types
  <2>7. created' >= created /\ \A d \in 1 .. created : parent'[d] = parent[d]
    BY <1>a, <1>b, <2>2, <2>3 DEF Types
  <2>8. ChildHere(w)'
    BY <2>2, <2>3, <2>a, <2>b DEF ChildHere
  <2>q. QED
    BY <1>h, <2>2, <2>4, <2>5, <2>6, <2>7, <2>8
<1>24. ASSUME NEW w \in Worker, PopResult(w) PROVE ChildInv'
  <2>2. /\ pc[w] = "pop" /\ pc' = [pc EXCEPT ![w] = "run"]
        /\ child' = [child EXCEPT ![w] = None]
        /\ UNCHANGED <<cl, H, stack, status, parent, created>>
    BY <1>24 DEF PopResult, program, state, tree, locks, caches, Goto, Outcome
  <2>3. /\ "pop" \in PopPC /\ "pop" \notin ReturnPC /\ "run" \notin PopPC
        /\ "run" \notin ReturnPC
    BY <2>2 DEF PopPC, ReturnPC
  <2>4. \A u \in Worker \ {w} : /\ T(u)' = T(u) /\ H'[u] >= H[u]
                                /\ pc'[u] = pc[u] /\ cl'[u] = cl[u]
                                /\ child'[u] = child[u]
    BY <1>a, <1>t, <2>2, <2>3 DEF Types, Shortened, Extended
  <2>5. \A d \in Proc : status[d] = "none" => status'[d] = "none"
    BY <1>a, <1>b, <2>2, <2>3 DEF Types
  <2>6. \A u \in Worker \ {w} : pc[u] \in ReturnPC
           => status'[child[u]] = "RETURNING"
    BY <1>a, <1>c, <2>2, <2>2, <2>3 DEF Types
  <2>7. created' >= created /\ \A d \in 1 .. created : parent'[d] = parent[d]
    BY <1>a, <1>b, <2>2, <2>3 DEF Types
  <2>8. ChildHere(w)'
    BY <1>a, <1>b, <1>s, <1>t, <2>2, <2>3 DEF Types, ChildHere, Shortened
  <2>q. QED
    BY <1>h, <2>2, <2>4, <2>5, <2>6, <2>7, <2>8
<1>25. ASSUME NEW w \in Worker, LockOwnDeque(w) PROVE ChildInv'
  <2>2. /\ pc[w] \in {"pop", "run", "synced"}
        /\ UNCHANGED <<child, cl, H, stack, status, parent, created>>
    BY <1>25 DEF LockOwnDeque, program, results, state, tree, caches, Goto,
       LockDeque, SlowAborts
  <2>3. /\ "pop" \in PopPC /\ "pop" \notin ReturnPC /\ "run" \notin PopPC
        /\ "run" \notin ReturnPC /\ "synced" \notin PopPC
        /\ "synced" \notin ReturnPC /\ "handler" \in PopPC
        /\ "handler" \notin ReturnPC /\ "sync" \notin PopPC
        /\ "sync" \notin ReturnPC /\ "abort" \notin PopPC
        /\ "abort" \notin ReturnPC /\ "result" \notin PopPC
        /\ "result" \notin ReturnPC /\ pc[w] \notin ReturnPC
    BY <2>2 DEF PopPC, ReturnPC
  <2>4. ASSUME pc[w] = "pop", pc' = [pc EXCEPT ![w] = "handler"]
        PROVE  ChildInv'
    <3>1. \A u \in Worker \ {w} : /\ T(u)' = T(u) /\ H'[u] >= H[u]
                                  /\ pc'[u] = pc[u] /\ cl'[u] = cl[u]
                                  /\ child'[u] = child[u]
      BY <1>a, <1>t, <2>2, <2>3, <2>4 DEF Types, Shortened, Extended
    <3>2. \A d \in Proc : status[d] = "none" => status'[d] = "none"
      BY <1>a, <1>b, <2>2, <2>3, <2>4 DEF Types
    <3>3. \A u \in Worker \ {w} : pc[u] \in ReturnPC
             => status'[child[u]] = "RETURNING"
      BY <1>a, <1>c, <2>2, <2>2, <2>3, <2>4 DEF Types
    <3>4. created' >= created /\ \A d \in 1 .. created : parent'[d] = parent[d]
      BY <1>a, <1>b, <2>2, <2>3, <2>4 DEF Types
    <3>5. ChildHere(w)'
      BY <1>a, <1>b, <1>s, <1>t, <2>2, <2>3, <2>4 DEF Types, ChildHere,
         Shortened
    <3>q. QED
      BY <1>h, <2>2, <3>1, <3>2, <3>3, <3>4, <3>5
  <2>5. ASSUME pc[w] = "run", T(w) = 1, Running(w) = Root => created > 1,
               pc' = [pc EXCEPT ![w] = "sync"]
        PROVE  ChildInv'
    <3>1. \A u \in Worker \ {w} : /\ T(u)' = T(u) /\ H'[u] >= H[u]
                                  /\ pc'[u] = pc[u] /\ cl'[u] = cl[u]
                                  /\ child'[u] = child[u]
      BY <1>a, <1>t, <2>2, <2>3, <2>5 DEF Types, Shortened, Extended
    <3>2. \A d \in Proc : status[d] = "none" => status'[d] = "none"
      BY <1>a, <1>b, <2>2, <2>3, <2>5 DEF Types
    <3>3. \A u \in Worker \ {w} : pc[u] \in ReturnPC
             => status'[child[u]] = "RETURNING"
      BY <1>a, <1>c, <2>2, <2>2, <2>3, <2>5 DEF Types
    <3>4. created' >= created /\ \A d \in 1 .. created : parent'[d] = parent[d]
      BY <1>a, <1>b, <2>2, <2>3, <2>5 DEF Types
    <3>5. ChildHere(w)'
      BY <1>a, <1>b, <1>s, <1>t, <2>2, <2>3, <2>5 DEF Types, ChildHere,
         Shortened
    <3>q. QED
      BY <1>h, <2>2, <3>1, <3>2, <3>3, <3>4, <3>5
  <2>6. ASSUME pc[w] = "run", T(w) = 1, Running(w) # Root,
               pc' = [pc EXCEPT ![w] = "abort"]
        PROVE  ChildInv'
    <3>1. \A u \in Worker \ {w} : /\ T(u)' = T(u) /\ H'[u] >= H[u]
                                  /\ pc'[u] = pc[u] /\ cl'[u] = cl[u]
                                  /\ child'[u] = child[u]
      BY <1>a, <1>t, <2>2, <2>3, <2>6 DEF Types, Shortened, Extended
    <3>2. \A d \in Proc : status[d] = "none" => status'[d] = "none"
      BY <1>a, <1>b, <2>2, <2>3, <2>6 DEF Types
    <3>3. \A u \in Worker \ {w} : pc[u] \in ReturnPC
             => status'[child[u]] = "RETURNING"
      BY <1>a, <1>c, <2>2, <2>2, <2>3, <2>6 DEF Types
    <3>4. created' >= created /\ \A d \in 1 .. created : parent'[d] = parent[d]
      BY <1>a, <1>b, <2>2, <2>3, <2>6 DEF Types
    <3>5. ChildHere(w)'
      BY <1>a, <1>b, <1>s, <1>t, <2>2, <2>3, <2>6 DEF Types, ChildHere,
         Shortened
    <3>q. QED
      BY <1>h, <2>2, <3>1, <3>2, <3>3, <3>4, <3>5
  <2>7. ASSUME pc[w] = "synced", Running(w) # Root,
               pc' = [pc EXCEPT ![w] = "result"]
        PROVE  ChildInv'
    <3>1. \A u \in Worker \ {w} : /\ T(u)' = T(u) /\ H'[u] >= H[u]
                                  /\ pc'[u] = pc[u] /\ cl'[u] = cl[u]
                                  /\ child'[u] = child[u]
      BY <1>a, <1>t, <2>2, <2>3, <2>7 DEF Types, Shortened, Extended
    <3>2. \A d \in Proc : status[d] = "none" => status'[d] = "none"
      BY <1>a, <1>b, <2>2, <2>3, <2>7 DEF Types
    <3>3. \A u \in Worker \ {w} : pc[u] \in ReturnPC
             => status'[child[u]] = "RETURNING"
      BY <1>a, <1>c, <2>2, <2>2, <2>3, <2>7 DEF Types
    <3>4. created' >= created /\ \A d \in 1 .. created : parent'[d] = parent[d]
      BY <1>a, <1>b, <2>2, <2>3, <2>7 DEF Types
    <3>5. ChildHere(w)'
      BY <1>a, <1>b, <1>s, <1>t, <2>2, <2>3, <2>7 DEF Types, ChildHere,
         Shortened
    <3>q. QED
      BY <1>h, <2>2, <3>1, <3>2, <3>3, <3>4, <3>5
  <2>q. QED
    BY <1>25, <2>2, <2>4, <2>5, <2>6, <2>7 DEF LockOwnDeque, program, results,
       state, tree, caches, Goto, LockDeque, SlowAborts
<1>26. ASSUME NEW w \in Worker, LockBottom(w) PROVE ChildInv'
  <2>1. PICK c \in Proc :
          LockBottomDoes(w, c)
    BY <1>26, LockBottomEffect
  <2>2. /\ pc[w] \in {"handler", "sync", "abort", "result"} /\ c = Bottom(w)
        /\ deque[w] # <<>> /\ cl' = [cl EXCEPT ![w] = c]
        /\ UNCHANGED <<child, H, stack, status, parent, created>>
    BY <2>1 DEF LockBottomDoes
  <2>3. /\ "handler" \in PopPC /\ "handler" \notin ReturnPC
        /\ "sync" \notin PopPC /\ "sync" \notin ReturnPC
        /\ "abort" \notin PopPC /\ "abort" \notin ReturnPC
        /\ "result" \notin PopPC /\ "result" \notin ReturnPC
        /\ "handlerPoll" \in PopPC /\ "handlerPoll" \notin ReturnPC
        /\ "syncPoll" \notin PopPC /\ "syncPoll" \notin ReturnPC
        /\ "setResult" \notin PopPC /\ "setResult" \notin ReturnPC
        /\ "abortPoll" \notin PopPC /\ "abortPoll" \notin ReturnPC
        /\ pc[w] \notin ReturnPC
    BY <2>2 DEF PopPC, ReturnPC
  <2>4. ASSUME pc[w] = "handler", pc' = [pc EXCEPT ![w] = "handlerPoll"]
        PROVE  ChildInv'
    <3>1. \A u \in Worker \ {w} : /\ T(u)' = T(u) /\ H'[u] >= H[u]
                                  /\ pc'[u] = pc[u] /\ cl'[u] = cl[u]
                                  /\ child'[u] = child[u]
      BY <1>a, <1>t, <2>2, <2>3, <2>4 DEF Types, Shortened, Extended
    <3>2. \A d \in Proc : status[d] = "none" => status'[d] = "none"
      BY <1>a, <1>b, <2>2, <2>3, <2>4 DEF Types
    <3>3. \A u \in Worker \ {w} : pc[u] \in ReturnPC
             => status'[child[u]] = "RETURNING"
      BY <1>a, <1>c, <2>2, <2>2, <2>3, <2>4 DEF Types
    <3>4. created' >= created /\ \A d \in 1 .. created : parent'[d] = parent[d]
      BY <1>a, <1>b, <2>2, <2>3, <2>4 DEF Types
    <3>5. ChildHere(w)'
      BY <1>a, <1>b, <1>s, <1>t, <2>2, <2>3, <2>4 DEF Types, ChildHere,
         Shortened
    <3>q. QED
      BY <1>h, <2>2, <3>1, <3>2, <3>3, <3>4, <3>5
  <2>5. ASSUME pc[w] = "sync", pc' = [pc EXCEPT ![w] = "syncPoll"]
        PROVE  ChildInv'
    <3>1. \A u \in Worker \ {w} : /\ T(u)' = T(u) /\ H'[u] >= H[u]
                                  /\ pc'[u] = pc[u] /\ cl'[u] = cl[u]
                                  /\ child'[u] = child[u]
      BY <1>a, <1>t, <2>2, <2>3, <2>5 DEF Types, Shortened, Extended
    <3>2. \A d \in Proc : status[d] = "none" => status'[d] = "none"
      BY <1>a, <1>b, <2>2, <2>3, <2>5 DEF Types
    <3>3. \A u \in Worker \ {w} : pc[u] \in ReturnPC
             => status'[child[u]] = "RETURNING"
      BY <1>a, <1>c, <2>2, <2>2, <2>3, <2>5 DEF Types
    <3>4. created' >= created /\ \A d \in 1 .. created : parent'[d] = parent[d]
      BY <1>a, <1>b, <2>2, <2>3, <2>5 DEF Types
    <3>5. ChildHere(w)'
      BY <1>a, <1>b, <1>s, <1>t, <2>2, <2>3, <2>5 DEF Types, ChildHere,
         Shortened
    <3>q. QED
      BY <1>h, <2>2, <3>1, <3>2, <3>3, <3>4, <3>5
  <2>6. ASSUME pc[w] = "result", pc' = [pc EXCEPT ![w] = "setResult"]
        PROVE  ChildInv'
    <3>1. \A u \in Worker \ {w} : /\ T(u)' = T(u) /\ H'[u] >= H[u]
                                  /\ pc'[u] = pc[u] /\ cl'[u] = cl[u]
                                  /\ child'[u] = child[u]
      BY <1>a, <1>t, <2>2, <2>3, <2>6 DEF Types, Shortened, Extended
    <3>2. \A d \in Proc : status[d] = "none" => status'[d] = "none"
      BY <1>a, <1>b, <2>2, <2>3, <2>6 DEF Types
    <3>3. \A u \in Worker \ {w} : pc[u] \in ReturnPC
             => status'[child[u]] = "RETURNING"
      BY <1>a, <1>c, <2>2, <2>2, <2>3, <2>6 DEF Types
    <3>4. created' >= created /\ \A d \in 1 .. created : parent'[d] = parent[d]
      BY <1>a, <1>b, <2>2, <2>3, <2>6 DEF Types
    <3>5. ChildHere(w)'
      BY <1>a, <1>b, <1>s, <1>t, <2>2, <2>3, <2>6 DEF Types, ChildHere,
         Shortened
    <3>q. QED
      BY <1>h, <2>2, <3>1, <3>2, <3>3, <3>4, <3>5
  <2>7. ASSUME NEW s \in {ABORT_ALL, ALMOST_NO_ABORT}, pc[w] = "abort",
               status[c] = "RUNNING", pc' = [pc EXCEPT ![w] = "abortPoll"]
        PROVE  ChildInv'
    <3>1. \A u \in Worker \ {w} : /\ T(u)' = T(u) /\ H'[u] >= H[u]
                                  /\ pc'[u] = pc[u] /\ cl'[u] = cl[u]
                                  /\ child'[u] = child[u]
      BY <1>a, <1>t, <2>2, <2>3, <2>7 DEF Types, Shortened, Extended
    <3>2. \A d \in Proc : status[d] = "none" => status'[d] = "none"
      BY <1>a, <1>b, <2>2, <2>3, <2>7 DEF Types
    <3>3. \A u \in Worker \ {w} : pc[u] \in ReturnPC
             => status'[child[u]] = "RETURNING"
      BY <1>a, <1>c, <2>2, <2>2, <2>3, <2>7 DEF Types
    <3>4. created' >= created /\ \A d \in 1 .. created : parent'[d] = parent[d]
      BY <1>a, <1>b, <2>2, <2>3, <2>7 DEF Types
    <3>5. ChildHere(w)'
      BY <1>a, <1>b, <1>s, <1>t, <2>2, <2>3, <2>7 DEF Types, ChildHere,
         Shortened
    <3>q. QED
      BY <1>h, <2>2, <3>1, <3>2, <3>3, <3>4, <3>5
  <2>q. QED
    BY <2>1, <2>2, <2>4, <2>5, <2>6, <2>7 DEF LockBottomDoes
<1>27. ASSUME NEW w \in Worker, Sync(w) PROVE ChildInv'
  <2>1. PICK c \in Proc :
          SyncDoes(w, c)
    BY <1>27, SyncEffect
  <2>2. /\ pc[w] = "syncPoll" /\ c = cl[w] /\ c = Bottom(w)
        /\ c = deque[w][Size(deque[w])] /\ T(w) = 1 /\ H[w] = 0
        /\ status[c] = "RUNNING" /\ stack[w][1] = c /\ cache[c] = w
        /\ cl' = [cl EXCEPT ![w] = None]
        /\ UNCHANGED <<child, H, parent, created>>
    BY <2>1 DEF SyncDoes
  <2>3. /\ "syncPoll" \notin PopPC /\ "syncPoll" \notin ReturnPC
        /\ "loop" \notin PopPC /\ "loop" \notin ReturnPC
        /\ "synced" \notin PopPC /\ "synced" \notin ReturnPC
    BY <2>2 DEF PopPC, ReturnPC
  <2>4. ASSUME join[c] # 0, pc' = [pc EXCEPT ![w] = "loop"],
               stack' = [stack EXCEPT ![w] = <<>>],
               status' = [status EXCEPT ![c] = "SUSPENDED"]
        PROVE  ChildInv'
    <3>1. \A u \in Worker \ {w} : /\ T(u)' = T(u) /\ H'[u] >= H[u]
                                  /\ pc'[u] = pc[u] /\ cl'[u] = cl[u]
                                  /\ child'[u] = child[u]
      BY <1>a, <1>t, <2>2, <2>3, <2>4 DEF Types, Shortened, Extended
    <3>2. \A d \in Proc : status[d] = "none" => status'[d] = "none"
      BY <1>a, <1>b, <2>2, <2>3, <2>4 DEF Types
    <3>3. \A u \in Worker \ {w} : pc[u] \in ReturnPC
             => status'[child[u]] = "RETURNING"
      BY <1>a, <1>c, <2>2, <2>2, <2>3, <2>4 DEF Types
    <3>4. created' >= created /\ \A d \in 1 .. created : parent'[d] = parent[d]
      BY <1>a, <1>b, <2>2, <2>3, <2>4 DEF Types
    <3>5. ChildHere(w)'
      BY <1>a, <1>b, <1>s, <1>t, <2>2, <2>3, <2>4 DEF Types, ChildHere,
         Shortened
    <3>q. QED
      BY <1>h, <2>2, <3>1, <3>2, <3>3, <3>4, <3>5
  <2>5. ASSUME join[c] = 0, pc' = [pc EXCEPT ![w] = "synced"],
               UNCHANGED <<stack, status>>
        PROVE  ChildInv'
    <3>1. \A u \in Worker \ {w} : /\ T(u)' = T(u) /\ H'[u] >= H[u]
                                  /\ pc'[u] = pc[u] /\ cl'[u] = cl[u]
                                  /\ child'[u] = child[u]
      BY <1>a, <1>t, <2>2, <2>3, <2>5 DEF Types, Shortened, Extended
    <3>2. \A d \in Proc : status[d] = "none" => status'[d] = "none"
      BY <1>a, <1>b, <2>2, <2>3, <2>5 DEF Types
    <3>3. \A u \in Worker \ {w} : pc[u] \in ReturnPC
             => status'[child[u]] = "RETURNING"
      BY <1>a, <1>c, <2>2, <2>2, <2>3, <2>5 DEF Types
    <3>4. created' >= created /\ \A d \in 1 .. created : parent'[d] = parent[d]
      BY <1>a, <1>b, <2>2, <2>3, <2>5 DEF Types
    <3>5. ChildHere(w)'
      BY <1>a, <1>b, <1>s, <1>t, <2>2, <2>3, <2>5 DEF Types, ChildHere,
         Shortened
    <3>q. QED
      BY <1>h, <2>2, <3>1, <3>2, <3>3, <3>4, <3>5
  <2>q. QED
    BY <2>1, <2>2, <2>4, <2>5 DEF SyncDoes
<1>28. ASSUME NEW w \in Worker, AbortSlow(w) PROVE ChildInv'
  <2>2. /\ pc[w] = "abortPoll" /\ pc' = [pc EXCEPT ![w] = "run"]
        /\ cl' = [cl EXCEPT ![w] = None]
        /\ UNCHANGED <<child, H, stack, status, parent, created>>
    BY <1>28 DEF AbortSlow, program, results, tree, caches, Goto, UnlockBoth,
       Polled, Hand, UnlockClosure, UnlockDeque, Polls
  <2>3. /\ "abortPoll" \notin PopPC /\ "abortPoll" \notin ReturnPC
        /\ "run" \notin PopPC /\ "run" \notin ReturnPC
    BY <2>2 DEF PopPC, ReturnPC
  <2>4. \A u \in Worker \ {w} : /\ T(u)' = T(u) /\ H'[u] >= H[u]
                                /\ pc'[u] = pc[u] /\ cl'[u] = cl[u]
                                /\ child'[u] = child[u]
    BY <1>a, <1>t, <2>2, <2>3 DEF Types, Shortened, Extended
  <2>5. \A d \in Proc : status[d] = "none" => status'[d] = "none"
    BY <1>a, <1>b, <2>2, <2>3 DEF Types
  <2>6. \A u \in Worker \ {w} : pc[u] \in ReturnPC
           => status'[child[u]] = "RETURNING"
    BY <1>a, <1>c, <2>2, <2>2, <2>3 DEF Types
  <2>7. created' >= created /\ \A d \in 1 .. created : parent'[d] = parent[d]
    BY <1>a, <1>b, <2>2, <2>3 DEF Types
  <2>8. ChildHere(w)'
    BY <1>a, <1>b, <1>s, <1>t, <2>2, <2>3 DEF Types, ChildHere, Shortened
  <2>q. QED
    BY <1>h, <2>2, <2>4, <2>5, <2>6, <2>7, <2>8
<1>29. ASSUME NEW w \in Worker, SetResult(w) PROVE ChildInv'
  <2>1. PICK c \in Proc :
          SetResultDoes(w, c)
    BY <1>29, SetResultEffect
  <2>2. /\ pc[w] = "setResult" /\ c = cl[w] /\ c = Bottom(w)
        /\ c = deque[w][Size(deque[w])] /\ T(w) = 1 /\ H[w] = 0 /\ c # Root
        /\ deque[w] # <<>> /\ status[c] = "RUNNING" /\ stack[w][1] = c
        /\ cache[c] = w /\ pc' = [pc EXCEPT ![w] = "loop"]
        /\ cl' = [cl EXCEPT ![w] = None] /\ stack' = [stack EXCEPT ![w] = <<>>]
        /\ status' = [status EXCEPT ![c] = "RETURNING"]
        /\ UNCHANGED <<child, H, parent, created>>
    BY <2>1 DEF SetResultDoes
  <2>3. /\ "setResult" \notin PopPC /\ "setResult" \notin ReturnPC
        /\ "loop" \notin PopPC /\ "loop" \notin ReturnPC
    BY <2>2 DEF PopPC, ReturnPC
  <2>4. \A u \in Worker \ {w} : /\ T(u)' = T(u) /\ H'[u] >= H[u]
                                /\ pc'[u] = pc[u] /\ cl'[u] = cl[u]
                                /\ child'[u] = child[u]
    BY <1>a, <1>t, <2>2, <2>3 DEF Types, Shortened, Extended
  <2>5. \A d \in Proc : status[d] = "none" => status'[d] = "none"
    BY <1>a, <1>b, <2>2, <2>3 DEF Types
  <2>6. \A u \in Worker \ {w} : pc[u] \in ReturnPC
           => status'[child[u]] = "RETURNING"
    BY <1>a, <1>c, <2>2, <2>2, <2>3 DEF Types
  <2>7. created' >= created /\ \A d \in 1 .. created : parent'[d] = parent[d]
    BY <1>a, <1>b, <2>2, <2>3 DEF Types
  <2>8. ChildHere(w)'
    BY <1>a, <1>b, <1>s, <1>t, <2>2, <2>3 DEF Types, ChildHere, Shortened
  <2>q. QED
    BY <1>h, <2>2, <2>4, <2>5, <2>6, <2>7, <2>8
<1>30. ASSUME NEW w \in Worker, Done(w) PROVE ChildInv'
  BY <1>g, <1>30 DEF Done, results, state, tree, locks, caches, Goto,
     AfterSync, PopPC, ReturnPC
<1>31. ASSUME NEW w \in Worker, RemoveAndFree(w) PROVE ChildInv'
  <2>1. RemoveAndFreeDoes(w)
    BY <1>31, RemoveAndFreeEffect
  <2>2. /\ pc[w] = "rootEnd" /\ Root = Bottom(w)
        /\ Root = deque[w][Size(deque[w])] /\ T(w) = 1 /\ H[w] = 0
        /\ Root \in Proc /\ status[Root] = "RUNNING" /\ cache[Root] = w
        /\ pc' = [pc EXCEPT ![w] = "loop"]
        /\ stack' = [stack EXCEPT ![w] = <<>>]
        /\ status' = [status EXCEPT ![Root] = "freed"]
        /\ UNCHANGED <<child, cl, H, parent, created>>
    BY <2>1 DEF RemoveAndFreeDoes
  <2>3. /\ "rootEnd" \notin PopPC /\ "rootEnd" \notin ReturnPC
        /\ "loop" \notin PopPC /\ "loop" \notin ReturnPC
    BY <2>2 DEF PopPC, ReturnPC
  <2>4. \A u \in Worker \ {w} : /\ T(u)' = T(u) /\ H'[u] >= H[u]
                                /\ pc'[u] = pc[u] /\ cl'[u] = cl[u]
                                /\ child'[u] = child[u]
    BY <1>a, <1>t, <2>2, <2>3 DEF Types, Shortened, Extended
  <2>5. \A d \in Proc : status[d] = "none" => status'[d] = "none"
    BY <1>a, <1>b, <2>2, <2>3 DEF Types
  <2>6. \A u \in Worker \ {w} : pc[u] \in ReturnPC
           => status'[child[u]] = "RETURNING"
    BY <1>a, <1>c, <2>2, <2>2, <2>3 DEF Types
  <2>7. created' >= created /\ \A d \in 1 .. created : parent'[d] = parent[d]
    BY <1>a, <1>b, <2>2, <2>3 DEF Types
  <2>8. ChildHere(w)'
    BY <1>a, <1>b, <1>s, <1>t, <2>2, <2>3 DEF Types, ChildHere, Shortened
  <2>q. QED
    BY <1>h, <2>2, <2>4, <2>5, <2>6, <2>7, <2>8
<1>32. ASSUME NEW w \in Worker, CilkExit(w) PROVE ChildInv'
  <2>1. CilkExitDoes(w)
    BY <1>32, CilkExitEffect
  <2>2. /\ pc[w] = "run" /\ Root \in Proc /\ Running(w) # Root
        /\ UNCHANGED <<child, H, stack, status, parent, created>>
    BY <2>1 DEF CilkExitDoes
  <2>3. /\ "run" \notin PopPC /\ "run" \notin ReturnPC
        /\ "exitPoll" \notin PopPC /\ "exitPoll" \notin ReturnPC
    BY <2>2 DEF PopPC, ReturnPC
  <2>4. ASSUME status[Root] = "RUNNING",
               UNCHANGED <<pc, cl>>
        PROVE  ChildInv'
    <3>1. \A u \in Worker \ {w} : /\ T(u)' = T(u) /\ H'[u] >= H[u]
                                  /\ pc'[u] = pc[u] /\ cl'[u] = cl[u]
                                  /\ child'[u] = child[u]
      BY <1>a, <1>t, <2>2, <2>3, <2>4 DEF Types, Shortened, Extended
    <3>2. \A d \in Proc : status[d] = "none" => status'[d] = "none"
      BY <1>a, <1>b, <2>2, <2>3, <2>4 DEF Types
    <3>3. \A u \in Worker \ {w} : pc[u] \in ReturnPC
             => status'[child[u]] = "RETURNING"
      BY <1>a, <1>c, <2>2, <2>2, <2>3, <2>4 DEF Types
    <3>4. created' >= created /\ \A d \in 1 .. created : parent'[d] = parent[d]
      BY <1>a, <1>b, <2>2, <2>3, <2>4 DEF Types
    <3>5. ChildHere(w)'
      BY <1>a, <1>b, <1>s, <1>t, <2>2, <2>3, <2>4 DEF Types, ChildHere,
         Shortened
    <3>q. QED
      BY <1>h, <2>2, <3>1, <3>2, <3>3, <3>4, <3>5
  <2>5. ASSUME status[Root] # "RUNNING", pc' = [pc EXCEPT ![w] = "exitPoll"],
               cl' = [cl EXCEPT ![w] = Root]
        PROVE  ChildInv'
    <3>1. \A u \in Worker \ {w} : /\ T(u)' = T(u) /\ H'[u] >= H[u]
                                  /\ pc'[u] = pc[u] /\ cl'[u] = cl[u]
                                  /\ child'[u] = child[u]
      BY <1>a, <1>t, <2>2, <2>3, <2>5 DEF Types, Shortened, Extended
    <3>2. \A d \in Proc : status[d] = "none" => status'[d] = "none"
      BY <1>a, <1>b, <2>2, <2>3, <2>5 DEF Types
    <3>3. \A u \in Worker \ {w} : pc[u] \in ReturnPC
             => status'[child[u]] = "RETURNING"
      BY <1>a, <1>c, <2>2, <2>2, <2>3, <2>5 DEF Types
    <3>4. created' >= created /\ \A d \in 1 .. created : parent'[d] = parent[d]
      BY <1>a, <1>b, <2>2, <2>3, <2>5 DEF Types
    <3>5. ChildHere(w)'
      BY <1>a, <1>b, <1>s, <1>t, <2>2, <2>3, <2>5 DEF Types, ChildHere,
         Shortened
    <3>q. QED
      BY <1>h, <2>2, <3>1, <3>2, <3>3, <3>4, <3>5
  <2>q. QED
    BY <2>1, <2>2, <2>4, <2>5 DEF CilkExitDoes
<1>33. ASSUME NEW w \in Worker, CilkExitDone(w) PROVE ChildInv'
  <2>2. /\ pc[w] = "exitPoll" /\ pc' = [pc EXCEPT ![w] = "run"]
        /\ cl' = [cl EXCEPT ![w] = None]
        /\ UNCHANGED <<child, H, stack, status, parent, created>>
    BY <1>33 DEF CilkExitDone, program, results, tree, caches, Goto, Hand,
       UnlockClosure, Polled, Polls
  <2>3. /\ "exitPoll" \notin PopPC /\ "exitPoll" \notin ReturnPC
        /\ "run" \notin PopPC /\ "run" \notin ReturnPC
    BY <2>2 DEF PopPC, ReturnPC
  <2>4. \A u \in Worker \ {w} : /\ T(u)' = T(u) /\ H'[u] >= H[u]
                                /\ pc'[u] = pc[u] /\ cl'[u] = cl[u]
                                /\ child'[u] = child[u]
    BY <1>a, <1>t, <2>2, <2>3 DEF Types, Shortened, Extended
  <2>5. \A d \in Proc : status[d] = "none" => status'[d] = "none"
    BY <1>a, <1>b, <2>2, <2>3 DEF Types
  <2>6. \A u \in Worker \ {w} : pc[u] \in ReturnPC
           => status'[child[u]] = "RETURNING"
    BY <1>a, <1>c, <2>2, <2>2, <2>3 DEF Types
  <2>7. created' >= created /\ \A d \in 1 .. created : parent'[d] = parent[d]
    BY <1>a, <1>b, <2>2, <2>3 DEF Types
  <2>8. ChildHere(w)'
    BY <1>a, <1>b, <1>s, <1>t, <2>2, <2>3 DEF Types, ChildHere, Shortened
  <2>q. QED
    BY <1>h, <2>2, <2>4, <2>5, <2>6, <2>7, <2>8
<1>34. ASSUME NEW w \in Worker, HandlerPolled(w) PROVE ChildInv'
  <2>1. PICK t \in Proc, t1 \in Proc :
          HandlerPolledDoes(w, t, t1)
    BY <1>34, HandlerPolledEffect
  <2>2. /\ pc[w] = "handlerPoll" /\ t = cl[w] /\ t1 = Bottom(w)
        /\ deque[w] # <<>>
        /\ UNCHANGED <<child, H, stack, status, parent, created>>
    BY <2>1 DEF HandlerPolledDoes
  <2>3. /\ "handlerPoll" \in PopPC /\ "handlerPoll" \notin ReturnPC
        /\ "handlerAct" \in PopPC /\ "handlerAct" \notin ReturnPC
        /\ "handlerSwap" \in PopPC /\ "handlerSwap" \notin ReturnPC
    BY <2>2 DEF PopPC, ReturnPC
  <2>4. ASSUME t1 = t, pc' = [pc EXCEPT ![w] = "handlerAct"],
               UNCHANGED <<cl>>
        PROVE  ChildInv'
    <3>1. \A u \in Worker \ {w} : /\ T(u)' = T(u) /\ H'[u] >= H[u]
                                  /\ pc'[u] = pc[u] /\ cl'[u] = cl[u]
                                  /\ child'[u] = child[u]
      BY <1>a, <1>t, <2>2, <2>3, <2>4 DEF Types, Shortened, Extended
    <3>2. \A d \in Proc : status[d] = "none" => status'[d] = "none"
      BY <1>a, <1>b, <2>2, <2>3, <2>4 DEF Types
    <3>3. \A u \in Worker \ {w} : pc[u] \in ReturnPC
             => status'[child[u]] = "RETURNING"
      BY <1>a, <1>c, <2>2, <2>2, <2>3, <2>4 DEF Types
    <3>4. created' >= created /\ \A d \in 1 .. created : parent'[d] = parent[d]
      BY <1>a, <1>b, <2>2, <2>3, <2>4 DEF Types
    <3>5. ChildHere(w)'
      <4>1. /\ pc'[w] = "handlerAct" /\ child'[w] = child[w] /\ T(w)' = T(w)
            /\ H'[w] = H[w] /\ cl'[w] = cl[w] /\ "handlerAct" # "stealFinish"
        BY <1>a, <2>2, <2>4 DEF Types, T
      <4>2. /\ child[w] # None => child[w] \in 1 .. created
            /\ child[w] # Root
            /\ H[w] < T(w) /\ child[w] # None => status[child[w]] = "none"
        BY <1>s, <2>2, <2>3 DEF ChildHere
      <4>q. QED
        BY <2>2, <2>3, <4>1, <4>2 DEF ChildHere
    <3>q. QED
      BY <1>h, <2>2, <3>1, <3>2, <3>3, <3>4, <3>5
  <2>5. ASSUME t1 # t, status[t] = "READY",
               pc' = [pc EXCEPT ![w] = "handlerSwap"],
               cl' = [cl EXCEPT ![w] = t1]
        PROVE  ChildInv'
    <3>1. \A u \in Worker \ {w} : /\ T(u)' = T(u) /\ H'[u] >= H[u]
                                  /\ pc'[u] = pc[u] /\ cl'[u] = cl[u]
                                  /\ child'[u] = child[u]
      BY <1>a, <1>t, <2>2, <2>3, <2>5 DEF Types, Shortened, Extended
    <3>2. \A d \in Proc : status[d] = "none" => status'[d] = "none"
      BY <1>a, <1>b, <2>2, <2>3, <2>5 DEF Types
    <3>3. \A u \in Worker \ {w} : pc[u] \in ReturnPC
             => status'[child[u]] = "RETURNING"
      BY <1>a, <1>c, <2>2, <2>2, <2>3, <2>5 DEF Types
    <3>4. created' >= created /\ \A d \in 1 .. created : parent'[d] = parent[d]
      BY <1>a, <1>b, <2>2, <2>3, <2>5 DEF Types
    <3>5. ChildHere(w)'
      <4>1. /\ pc'[w] = "handlerSwap" /\ pc[w] \in PopPC /\ ChildHere(w)
            /\ child'[w] = child[w] /\ H'[w] = H[w] /\ T(w)' = T(w)
        BY <1>a, <1>s, <1>t, <2>2, <2>3, <2>5 DEF Types
      <4>2. status' = status /\ created' = created
        BY <2>2
      <4>q. QED
        BY <2>3, <4>1, <4>2 DEF ChildHere
    <3>q. QED
      BY <1>h, <2>2, <3>1, <3>2, <3>3, <3>4, <3>5
  <2>q. QED
    BY <2>1, <2>2, <2>4, <2>5 DEF HandlerPolledDoes
<1>35. ASSUME NEW w \in Worker, HandlerSwap(w) PROVE ChildInv'
  BY <1>g, <1>35 DEF HandlerSwap, program, results, state, tree, caches, Goto,
     LockClosure, PopPC, ReturnPC
<1>36. ASSUME NEW w \in Worker, HandlerStolen(w) PROVE ChildInv'
  <2>1. PICK c \in Proc :
          HandlerStolenDoes(w, c)
    BY <1>36, HandlerStolenEffect
  <2>2. /\ pc[w] = "handlerAct" /\ c = cl[w] /\ c = Bottom(w)
        /\ c = deque[w][Size(deque[w])] /\ c # Root /\ deque[w] # <<>>
        /\ T(w) \in Nat \ {0} /\ H[w] \in Nat /\ H[w] >= T(w)
        /\ status[c] = "RUNNING" => child[w] = c /\ cache[c] = w
        /\ status[c] \in {"RUNNING", "RETURNING"}
        /\ child' = [child EXCEPT ![w] = None] /\ cl' = [cl EXCEPT ![w] = None]
        /\ Shortened(stack, stack', w)
        /\ status' = [status EXCEPT ![c] = "RETURNING"]
        /\ UNCHANGED <<H, parent, created>>
    BY <2>1 DEF HandlerStolenDoes
  <2>3. /\ "handlerAct" \in PopPC /\ "handlerAct" \notin ReturnPC
        /\ "loop" \notin PopPC /\ "loop" \notin ReturnPC /\ "pop" \in PopPC
        /\ "pop" \notin ReturnPC
    BY <2>2 DEF PopPC, ReturnPC
  <2>4. ASSUME T(w) = 1, pc' = [pc EXCEPT ![w] = "loop"]
        PROVE  ChildInv'
    <3>1. \A u \in Worker \ {w} : /\ T(u)' = T(u) /\ H'[u] >= H[u]
                                  /\ pc'[u] = pc[u] /\ cl'[u] = cl[u]
                                  /\ child'[u] = child[u]
      BY <1>a, <1>t, <2>2, <2>3, <2>4 DEF Types, Shortened, Extended
    <3>2. \A d \in Proc : status[d] = "none" => status'[d] = "none"
      BY <1>a, <1>b, <2>2, <2>3, <2>4 DEF Types
    <3>3. \A u \in Worker \ {w} : pc[u] \in ReturnPC
             => status'[child[u]] = "RETURNING"
      BY <1>a, <1>c, <2>2, <2>2, <2>3, <2>4 DEF Types
    <3>4. created' >= created /\ \A d \in 1 .. created : parent'[d] = parent[d]
      BY <1>a, <1>b, <2>2, <2>3, <2>4 DEF Types
    <3>5. ChildHere(w)'
      BY <1>a, <1>b, <1>s, <1>t, <2>2, <2>3, <2>4 DEF Types, ChildHere,
         Shortened
    <3>q. QED
      BY <1>h, <2>2, <3>1, <3>2, <3>3, <3>4, <3>5
  <2>5. ASSUME T(w) # 1, pc' = [pc EXCEPT ![w] = "pop"]
        PROVE  ChildInv'
    <3>1. \A u \in Worker \ {w} : /\ T(u)' = T(u) /\ H'[u] >= H[u]
                                  /\ pc'[u] = pc[u] /\ cl'[u] = cl[u]
                                  /\ child'[u] = child[u]
      BY <1>a, <1>t, <2>2, <2>3, <2>5 DEF Types, Shortened, Extended
    <3>2. \A d \in Proc : status[d] = "none" => status'[d] = "none"
      BY <1>a, <1>b, <2>2, <2>3, <2>5 DEF Types
    <3>3. \A u \in Worker \ {w} : pc[u] \in ReturnPC
             => status'[child[u]] = "RETURNING"
      BY <1>a, <1>c, <2>2, <2>2, <2>3, <2>5 DEF Types
    <3>4. created' >= created /\ \A d \in 1 .. created : parent'[d] = parent[d]
      BY <1>a, <1>b, <2>2, <2>3, <2>5 DEF Types
    <3>5. ChildHere(w)'
      BY <1>a, <1>b, <1>s, <1>t, <2>2, <2>3, <2>5 DEF Types, ChildHere,
         Shortened
    <3>q. QED
      BY <1>h, <2>2, <3>1, <3>2, <3>3, <3>4, <3>5
  <2>q. QED
    BY <2>1, <2>2, <2>4, <2>5 DEF HandlerStolenDoes
<1>37. ASSUME NEW w \in Worker, HandlerAbort(w) PROVE ChildInv'
  <2>1. PICK c \in Proc, f \in Proc :
          HandlerAbortDoes(w, c, f)
    BY <1>37, HandlerAbortEffect
  <2>2. /\ pc[w] = "handlerAct" /\ c = cl[w] /\ c = Bottom(w)
        /\ c = deque[w][Size(deque[w])] /\ deque[w] # <<>>
        /\ T(w) \in Nat \ {0} /\ H[w] \in Nat /\ H[w] < T(w)
        /\ status[c] = "RUNNING" /\ cache[c] = w /\ stack[w][H[w] + 1] = c
        /\ cl' = [cl EXCEPT ![w] = None] /\ Shortened(stack, stack', w)
        /\ UNCHANGED <<H, parent, created>>
    BY <2>1 DEF HandlerAbortDoes
  <2>3. /\ "handlerAct" \in PopPC /\ "handlerAct" \notin ReturnPC
        /\ "loop" \notin PopPC /\ "loop" \notin ReturnPC /\ "pop" \in PopPC
        /\ "pop" \notin ReturnPC
    BY <2>2 DEF PopPC, ReturnPC
  <2>4. ASSUME T(w) = 1, H[w] = 0, join[c] # 0,
               pc' = [pc EXCEPT ![w] = "loop"],
               child' = [child EXCEPT ![w] = None],
               status' = [status EXCEPT ![c] = "SUSPENDED"]
        PROVE  ChildInv'
    <3>1. \A u \in Worker \ {w} : /\ T(u)' = T(u) /\ H'[u] >= H[u]
                                  /\ pc'[u] = pc[u] /\ cl'[u] = cl[u]
                                  /\ child'[u] = child[u]
      BY <1>a, <1>t, <2>2, <2>3, <2>4 DEF Types, Shortened, Extended
    <3>2. \A d \in Proc : status[d] = "none" => status'[d] = "none"
      BY <1>a, <1>b, <2>2, <2>3, <2>4 DEF Types
    <3>3. \A u \in Worker \ {w} : pc[u] \in ReturnPC
             => status'[child[u]] = "RETURNING"
      BY <1>a, <1>c, <2>2, <2>2, <2>3, <2>4 DEF Types
    <3>4. created' >= created /\ \A d \in 1 .. created : parent'[d] = parent[d]
      BY <1>a, <1>b, <2>2, <2>3, <2>4 DEF Types
    <3>5. ChildHere(w)'
      BY <1>a, <1>b, <1>s, <1>t, <2>2, <2>3, <2>4 DEF Types, ChildHere,
         Shortened
    <3>q. QED
      BY <1>h, <2>2, <3>1, <3>2, <3>3, <3>4, <3>5
  <2>5. ASSUME T(w) = 1, H[w] = 0, join[c] = 0, c # Root,
               pc' = [pc EXCEPT ![w] = "loop"],
               child' = [child EXCEPT ![w] = None],
               status' = [status EXCEPT ![c] = "RETURNING"]
        PROVE  ChildInv'
    <3>1. \A u \in Worker \ {w} : /\ T(u)' = T(u) /\ H'[u] >= H[u]
                                  /\ pc'[u] = pc[u] /\ cl'[u] = cl[u]
                                  /\ child'[u] = child[u]
      BY <1>a, <1>t, <2>2, <2>3, <2>5 DEF Types, Shortened, Extended
    <3>2. \A d \in Proc : status[d] = "none" => status'[d] = "none"
      BY <1>a, <1>b, <2>2, <2>3, <2>5 DEF Types
    <3>3. \A u \in Worker \ {w} : pc[u] \in ReturnPC
             => status'[child[u]] = "RETURNING"
      BY <1>a, <1>c, <2>2, <2>2, <2>3, <2>5 DEF Types
    <3>4. created' >= created /\ \A d \in 1 .. created : parent'[d] = parent[d]
      BY <1>a, <1>b, <2>2, <2>3, <2>5 DEF Types
    <3>5. ChildHere(w)'
      BY <1>a, <1>b, <1>s, <1>t, <2>2, <2>3, <2>5 DEF Types, ChildHere,
         Shortened
    <3>q. QED
      BY <1>h, <2>2, <3>1, <3>2, <3>3, <3>4, <3>5
  <2>6. ASSUME T(w) # 1, H[w] + 1 = T(w), join[c] = 0, c # Root,
               pc' = [pc EXCEPT ![w] = "pop"],
               child' = [child EXCEPT ![w] = c],
               status' = [status EXCEPT ![c] = "RETURNING"]
        PROVE  ChildInv'
    <3>1. \A u \in Worker \ {w} : /\ T(u)' = T(u) /\ H'[u] >= H[u]
                                  /\ pc'[u] = pc[u] /\ cl'[u] = cl[u]
                                  /\ child'[u] = child[u]
      BY <1>a, <1>t, <2>2, <2>3, <2>6 DEF Types, Shortened, Extended
    <3>2. \A d \in Proc : status[d] = "none" => status'[d] = "none"
      BY <1>a, <1>b, <2>2, <2>3, <2>6 DEF Types
    <3>3. \A u \in Worker \ {w} : pc[u] \in ReturnPC
             => status'[child[u]] = "RETURNING"
      BY <1>a, <1>c, <2>2, <2>2, <2>3, <2>6 DEF Types
    <3>4. created' >= created /\ \A d \in 1 .. created : parent'[d] = parent[d]
      BY <1>a, <1>b, <2>2, <2>3, <2>6 DEF Types
    <3>5. ChildHere(w)'
      <4>1. child'[w] = c /\ pc'[w] = "pop" /\ H'[w] = H[w]
        BY <1>a, <2>2, <2>6 DEF Types
      <4>2. T(w)' = T(w) - 1
        BY <1>t, <2>2, <2>6 DEF Shortened
      <4>3. c \in 1 .. created' /\ c # None /\ c # Root
        BY <1>b, <2>2, <2>6 DEF IInv, ParentInv, Proc
      <4>4. ~(H'[w] < T(w)')
        BY <1>t, <2>2, <2>6, <4>1, <4>2
      <4>q. QED
        BY <2>3, <4>1, <4>3, <4>4 DEF ChildHere
    <3>q. QED
      BY <1>h, <2>2, <3>1, <3>2, <3>3, <3>4, <3>5
  <2>7. ASSUME H[w] + 1 < T(w), f = stack[w][T(w)], f # Root,
               status[f] = "none", pc' = [pc EXCEPT ![w] = "pop"],
               child' = [child EXCEPT ![w] = f],
               UNCHANGED <<status>>
        PROVE  ChildInv'
    <3>1. \A u \in Worker \ {w} : /\ T(u)' = T(u) /\ H'[u] >= H[u]
                                  /\ pc'[u] = pc[u] /\ cl'[u] = cl[u]
                                  /\ child'[u] = child[u]
      BY <1>a, <1>t, <2>2, <2>3, <2>7 DEF Types, Shortened, Extended
    <3>2. \A d \in Proc : status[d] = "none" => status'[d] = "none"
      BY <1>a, <1>b, <2>2, <2>3, <2>7 DEF Types
    <3>3. \A u \in Worker \ {w} : pc[u] \in ReturnPC
             => status'[child[u]] = "RETURNING"
      BY <1>a, <1>c, <2>2, <2>2, <2>3, <2>7 DEF Types
    <3>4. created' >= created /\ \A d \in 1 .. created : parent'[d] = parent[d]
      BY <1>a, <1>b, <2>2, <2>3, <2>7 DEF Types
    <3>5. ChildHere(w)'
      <4>1. T(w) \in 1 .. T(w)
        BY <1>t, <2>2, <2>7
      <4>2. f \in 1 .. created
        BY <2>7, <4>1 DEF IInv, StackInv
      <4>3. child'[w] = f /\ pc'[w] = "pop" /\ created' = created /\ status'[f] = "none"
        BY <1>a, <2>2, <2>7 DEF Types
      <4>q. QED
        BY <1>b, <2>3, <2>7, <4>2, <4>3 DEF ChildHere
    <3>q. QED
      BY <1>h, <2>2, <3>1, <3>2, <3>3, <3>4, <3>5
  <2>q. QED
    BY <2>1, <2>2, <2>4, <2>5, <2>6, <2>7 DEF HandlerAbortDoes, AbortWaits,
       AbortReturns, AbortPops
<1>38. ASSUME NEW w \in Worker, HandlerResume(w) PROVE ChildInv'
  <2>2. /\ pc[w] = "handlerAct" /\ ~(H[w] >= T(w))
        /\ pc' = [pc EXCEPT ![w] = "run"]
        /\ child' = [child EXCEPT ![w] = None] /\ cl' = [cl EXCEPT ![w] = None]
        /\ UNCHANGED <<H, stack, status, parent, created>>
    BY <1>38 DEF HandlerResume, program, tree, Goto, UnlockBoth, Outcome,
       BeingAborted, Stolen, Hand, UnlockClosure, UnlockDeque
  <2>3. /\ "handlerAct" \in PopPC /\ "handlerAct" \notin ReturnPC
        /\ "run" \notin PopPC /\ "run" \notin ReturnPC
    BY <2>2 DEF PopPC, ReturnPC
  <2>4. \A u \in Worker \ {w} : /\ T(u)' = T(u) /\ H'[u] >= H[u]
                                /\ pc'[u] = pc[u] /\ cl'[u] = cl[u]
                                /\ child'[u] = child[u]
    BY <1>a, <1>t, <2>2, <2>3 DEF Types, Shortened, Extended
  <2>5. \A d \in Proc : status[d] = "none" => status'[d] = "none"
    BY <1>a, <1>b, <2>2, <2>3 DEF Types
  <2>6. \A u \in Worker \ {w} : pc[u] \in ReturnPC
           => status'[child[u]] = "RETURNING"
    BY <1>a, <1>c, <2>2, <2>2, <2>3 DEF Types
  <2>7. created' >= created /\ \A d \in 1 .. created : parent'[d] = parent[d]
    BY <1>a, <1>b, <2>2, <2>3 DEF Types
  <2>8. ChildHere(w)'
    BY <1>a, <1>b, <1>s, <1>t, <2>2, <2>3 DEF Types, ChildHere, Shortened
  <2>q. QED
    BY <1>h, <2>2, <2>4, <2>5, <2>6, <2>7, <2>8
<1>39. CASE UNCHANGED vars
  BY <1>f, <1>39 DEF vars
<1>q. QED
  BY <1>1, <1>2, <1>3, <1>4, <1>5, <1>6, <1>7, <1>8, <1>9, <1>10, <1>11, <1>12,
     <1>13, <1>14, <1>15, <1>16, <1>17, <1>18, <1>19, <1>20, <1>21, <1>22,
     <1>23, <1>24, <1>25, <1>26, <1>27, <1>28, <1>29, <1>30, <1>31, <1>32,
     <1>33, <1>34, <1>35, <1>36, <1>37, <1>38, <1>39 DEF Next, Step, Terminated

(* A frame popped is off its stack, and no stack gets it again; spawned    *)
(* procedures are new.                                                     *)
LEMMA ChildApartStep ==
    ASSUME IInv, [Next]_vars
    PROVE  ChildApart'
<1>a. Types /\ Types'
  BY TypesStep DEF IInv
<1>b. created \in Nat \ {0} /\ created' \in Nat /\ None \notin Proc /\ Root \in Proc
  BY <1>a, BoundAssumption DEF Types, Proc, None, Root
<1>t. \A u \in Worker :
         /\ T(u) = Size(stack[u]) /\ T(u)' = Size(stack'[u])
         /\ T(u) \in Nat /\ T(u)' \in Nat /\ H[u] \in Nat /\ H'[u] \in Nat
         /\ stack[u] = <<>> <=> T(u) = 0
         /\ stack'[u] = <<>> <=> T(u)' = 0
         /\ Running(u) = stack[u][T(u)] /\ Running(u)' = stack'[u][T(u)']
         /\ \A i \in 1 .. T(u) : stack[u][i] \in Proc
  <2> SUFFICES ASSUME NEW u \in Worker
               PROVE  /\ T(u) = Size(stack[u]) /\ T(u)' = Size(stack'[u])
                      /\ T(u) \in Nat /\ T(u)' \in Nat /\ H[u] \in Nat /\ H'[u] \in Nat
                      /\ stack[u] = <<>> <=> T(u) = 0
                      /\ stack'[u] = <<>> <=> T(u)' = 0
                      /\ Running(u) = stack[u][T(u)] /\ Running(u)' = stack'[u][T(u)']
                      /\ \A i \in 1 .. T(u) : stack[u][i] \in Proc
    OBVIOUS
  <2>1. /\ stack[u] \in Seq(Proc) /\ stack'[u] \in Seq(Proc)
        /\ H[u] \in Nat /\ H'[u] \in Nat
    BY <1>a DEF Types
  <2>2. T(u) = Size(stack[u]) /\ T(u)' = Size(stack'[u])
    BY DEF T, Size
  <2>3. Running(u) = stack[u][T(u)] /\ Running(u)' = stack'[u][T(u)']
    BY DEF Running
  <2>q. QED
    BY <2>1, <2>2, <2>3, SeqFacts
<1>h. ASSUME NEW w \in Worker,
             \A u \in Worker \ {w} : /\ stack'[u] = stack[u] /\ H'[u] >= H[u]
                                     /\ pc'[u] = pc[u] /\ child'[u] = child[u],
             \A i \in H'[w] + 2 .. T(w)' : i \in H[w] + 2 .. T(w)
                /\ stack'[w][i] = stack[w][i],
             pc'[w] \in PopPC /\ H'[w] < T(w)' /\ child'[w] # None =>
                \/ pc[w] \in PopPC /\ H[w] < T(w) /\ child'[w] = child[w]
                \/ \A v \in Worker : \A i \in H'[v] + 2 .. T(v)' : stack'[v][i] # child'[w]
      PROVE  ChildApart'
  <2>1. \A u \in Worker : \A i \in H'[u] + 2 .. T(u)' :
           i \in H[u] + 2 .. T(u) /\ stack'[u][i] = stack[u][i]
    <3> SUFFICES ASSUME NEW u \in Worker, NEW i \in H'[u] + 2 .. T(u)'
                 PROVE  i \in H[u] + 2 .. T(u) /\ stack'[u][i] = stack[u][i]
      OBVIOUS
    <3>1. CASE u = w
      BY <1>h, <3>1
    <3>2. CASE u # w
      <4>1. stack'[u] = stack[u] /\ H'[u] >= H[u] /\ T(u)' = T(u)
        BY <1>h, <1>t, <3>2
      <4>2. H[u] \in Nat /\ H'[u] \in Nat /\ T(u) \in Nat
        BY <1>t
      <4>q. QED
        BY <4>1, <4>2
    <3>q. QED
      BY <3>1, <3>2
  <2>2. ASSUME NEW u \in Worker, pc'[u] \in PopPC, H'[u] < T(u)', child'[u] # None
        PROVE  \A v \in Worker : \A i \in H'[v] + 2 .. T(v)' : stack'[v][i] # child'[u]
    <3>1. ASSUME pc[u] \in PopPC, H[u] < T(u), child'[u] = child[u]
          PROVE  \A v \in Worker : \A i \in H'[v] + 2 .. T(v)' : stack'[v][i] # child'[u]
      BY <2>1, <2>2, <3>1 DEF IInv, ChildApart
    <3>2. CASE u = w
      BY <1>h, <2>2, <3>1, <3>2
    <3>3. CASE u # w
      <4>1. stack'[u] = stack[u] /\ H'[u] >= H[u] /\ T(u)' = T(u)
            /\ pc'[u] = pc[u] /\ child'[u] = child[u]
        BY <1>h, <1>t, <3>3
      <4>2. H[u] \in Nat /\ H'[u] \in Nat /\ T(u) \in Nat
        BY <1>t
      <4>3. H[u] < T(u)
        BY <2>2, <4>1, <4>2
      <4>q. QED
        BY <2>2, <3>1, <4>1, <4>3
    <3>q. QED
      BY <3>2, <3>3
  <2>q. QED
    BY <2>2 DEF ChildApart
<1>m. ASSUME NEW w \in Worker, NEW l, pc' = [pc EXCEPT ![w] = l],
             l \in PopPC <=> pc[w] \in PopPC,
             UNCHANGED <<child, H, stack>>
      PROVE  ChildApart'
  <2>1. \A u \in Worker : T(u)' = T(u)
    BY <1>m, <1>t
  <2>2. \A u \in Worker : pc'[u] \in PopPC <=> pc[u] \in PopPC
    BY <1>a, <1>m DEF Types
  <2>q. QED
    BY <1>m, <2>1, <2>2 DEF IInv, ChildApart
<1>f. ASSUME UNCHANGED <<pc, child, H, stack>>
      PROVE  ChildApart'
BY <1>f DEF IInv, ChildApart, T
<1>g. ASSUME NEW w \in Worker, NEW l, pc' = [pc EXCEPT ![w] = l],
             l \in PopPC <=> pc[w] \in PopPC,
             UNCHANGED <<child, H, stack>>
      PROVE  ChildApart'
BY <1>g, <1>m
<1>1. ASSUME NEW w \in Worker, LeaveScheduler(w) PROVE ChildApart'
  BY <1>g, <1>1 DEF LeaveScheduler, program, results, state, tree, locks,
     caches, Goto, PopPC
<1>2. ASSUME NEW w \in Worker, TakeOwn(w) PROVE ChildApart'
  <2>1. TakeOwnDoes(w)
    BY <1>2, TakeOwnEffect
  <2>q. QED
    BY <1>f, <1>g, <2>1 DEF TakeOwnDoes, PopPC
<1>3. ASSUME NEW w \in Worker, StealLockDeque(w) PROVE ChildApart'
  BY <1>g, <1>3 DEF StealLockDeque, program, results, state, tree, caches,
     Goto, LockDeque, Peek, Hand, PopPC
<1>4. ASSUME NEW w \in Worker, StealLockClosure(w) PROVE ChildApart'
  BY <1>g, <1>4 DEF StealLockClosure, program, results, state, tree, caches,
     Goto, LockClosure, PopPC
<1>5. ASSUME NEW w \in Worker, StealGiveUp(w) PROVE ChildApart'
  BY <1>g, <1>5 DEF StealGiveUp, program, results, state, tree, caches, Goto,
     Hand, UnlockClosure, BeingAborted, PopPC
<1>6. ASSUME NEW w \in Worker, StealUnlockDeque(w) PROVE ChildApart'
  BY <1>g, <1>6 DEF StealUnlockDeque, program, results, state, tree, caches,
     Goto, UnlockDeque, PopPC
<1>7. ASSUME NEW w \in Worker, StealReady(w) PROVE ChildApart'
  <2>1. PICK v \in Worker \ {w}, c \in Proc :
          StealReadyDoes(w, v, c)
    BY <1>7, StealReadyEffect
  <2>q. QED
    BY <1>g, <2>1 DEF StealReadyDoes, PopPC
<1>8. ASSUME NEW w \in Worker, StealPromote(w) PROVE ChildApart'
  <2>1. PICK v \in Worker \ {w}, c \in Proc, k \in Proc :
          StealPromoteDoes(w, v, c, k)
    BY <1>8, StealPromoteEffect
  <2>2. /\ pc[w] = "stealClosure" /\ c = cl[w] /\ k = stack[v][H[v] + 2]
        /\ deque[v] = <<c>> /\ pc[v] \in WorkPC \ OwnDequePC /\ H[v] + 1 < T(v)
        /\ status[c] = "RUNNING" /\ cache[c] = v /\ stack[v][H[v] + 1] = c
        /\ k # c /\ k # Root /\ status[k] = "none"
        /\ pc' = [pc EXCEPT ![w] = "stealFinish"]
        /\ child' = [child EXCEPT ![w] = k] /\ H' = [H EXCEPT ![v] = @ + 1]
        /\ UNCHANGED <<stack>>
    BY <2>1 DEF StealPromoteDoes
  <2>3. /\ "stealClosure" \notin PopPC /\ "stealFinish" \notin PopPC
    BY <2>2 DEF PopPC
  <2>4. /\ stack' = stack /\ \A u \in Worker : T(u)' = T(u)
        /\ \A u \in Worker : H'[u] \in Nat /\ H[u] \in Nat /\ H'[u] >= H[u]
    <3>1. stack' = stack /\ \A u \in Worker : T(u)' = T(u)
      BY <1>t, <2>2
    <3>2. \A u \in Worker : H'[u] = IF u = v THEN H[u] + 1 ELSE H[u]
      BY <1>a, <2>2 DEF Types
    <3>q. QED
      BY <1>t, <3>1, <3>2
  <2>5. \A u \in Worker \ {w} : pc'[u] = pc[u] /\ child'[u] = child[u]
    BY <1>a, <2>2 DEF Types
  <2>6. pc'[w] \notin PopPC
    BY <1>a, <2>2, <2>3 DEF Types
  <2>7. \A i \in H'[w] + 2 .. T(w)' : i \in H[w] + 2 .. T(w)
    BY <1>t, <2>4
  <2>q. QED
    BY <1>h, <2>4, <2>5, <2>6, <2>7
<1>9. ASSUME NEW w \in Worker, StealFinish(w) PROVE ChildApart'
  <2>2. /\ pc[w] = "stealFinish" /\ pc' = [pc EXCEPT ![w] = "loop"]
        /\ child' = [child EXCEPT ![w] = None]
        /\ UNCHANGED <<H, stack>>
    BY <1>9 DEF StealFinish, program, results, caches, Goto, UnlockClosure,
       SetStatus, AddChild
  <2>3. /\ "stealFinish" \notin PopPC /\ "loop" \notin PopPC
    BY <2>2 DEF PopPC
  <2>4. \A u \in Worker \ {w} : /\ stack'[u] = stack[u] /\ H'[u] >= H[u]
                                /\ pc'[u] = pc[u] /\ child'[u] = child[u]
    BY <1>a, <1>t, <2>2, <2>3 DEF Types, Shortened
  <2>5. \A i \in H'[w] + 2 .. T(w)' : i \in H[w] + 2 .. T(w)
             /\ stack'[w][i] = stack[w][i]
    BY <1>t, <2>2, <2>3 DEF Types, Shortened
  <2>6. pc'[w] \in PopPC /\ H'[w] < T(w)' /\ child'[w] # None
           => pc[w] \in PopPC /\ H[w] < T(w) /\ child'[w] = child[w]
    BY <1>a, <1>t, <2>2, <2>3 DEF Types, Shortened
  <2>q. QED
    BY <1>h, <2>2, <2>4, <2>5, <2>6
<1>10. ASSUME NEW w \in Worker, InletKilled(w) PROVE ChildApart'
  BY <1>f, <1>10 DEF InletKilled, program, state, locks, caches, Outcome,
     BeingAborted, Polls
<1>11. ASSUME NEW w \in Worker, InletRuns(w) PROVE ChildApart'
  BY <1>f, <1>11 DEF InletRuns, program, state, locks, caches, Outcome,
     BeingAborted, Polls
<1>12. ASSUME NEW w \in Worker, InletAborts(w) PROVE ChildApart'
  <2>1. PICK c \in Proc, r \in SUBSET Proc :
          InletAbortsDoes(w, c, r)
    BY <1>12, InletAbortsEffect
  <2>2. /\ c = cl[w] /\ pc[w] \in PollPC
        /\ pc[w] = "return" => status[c] # "RUNNING"
        /\ UNCHANGED <<pc, child, stack>>
    BY <2>1 DEF InletAbortsDoes
  <2>4. ASSUME NEW k \in Proc, pc[w] = "handlerPoll", c = Bottom(w),
               deque[w] # <<>>, status[c] = "RUNNING", cache[c] = w, H[w] = 0,
               1 < T(w), stack[w][1] = c, k = stack[w][2], k # c, k # Root,
               status[k] = "none", H' = [H EXCEPT ![w] = 1]
        PROVE  ChildApart'
    <3>1. \A u \in Worker \ {w} : /\ stack'[u] = stack[u] /\ H'[u] >= H[u]
                                  /\ pc'[u] = pc[u] /\ child'[u] = child[u]
      BY <1>a, <1>t, <2>2, <2>4 DEF Types, Shortened
    <3>2. \A i \in H'[w] + 2 .. T(w)' : i \in H[w] + 2 .. T(w)
               /\ stack'[w][i] = stack[w][i]
      BY <1>t, <2>2, <2>4 DEF Types, Shortened
    <3>3. pc'[w] \in PopPC /\ H'[w] < T(w)' /\ child'[w] # None
             => pc[w] \in PopPC /\ H[w] < T(w) /\ child'[w] = child[w]
      BY <1>a, <1>t, <2>2, <2>4 DEF Types, Shortened
    <3>q. QED
      BY <1>h, <2>2, <3>1, <3>2, <3>3
  <2>5. ASSUME UNCHANGED <<H>>
        PROVE  ChildApart'
    <3>1. \A u \in Worker \ {w} : /\ stack'[u] = stack[u] /\ H'[u] >= H[u]
                                  /\ pc'[u] = pc[u] /\ child'[u] = child[u]
      BY <1>a, <1>t, <2>2, <2>5 DEF Types, Shortened
    <3>2. \A i \in H'[w] + 2 .. T(w)' : i \in H[w] + 2 .. T(w)
               /\ stack'[w][i] = stack[w][i]
      BY <1>t, <2>2, <2>5 DEF Types, Shortened
    <3>3. pc'[w] \in PopPC /\ H'[w] < T(w)' /\ child'[w] # None
             => pc[w] \in PopPC /\ H[w] < T(w) /\ child'[w] = child[w]
      BY <1>a, <1>t, <2>2, <2>5 DEF Types, Shortened
    <3>q. QED
      BY <1>h, <2>2, <3>1, <3>2, <3>3
  <2>q. QED
    BY <2>1, <2>2, <2>4, <2>5 DEF InletAbortsDoes, InletSplits
<1>13. ASSUME NEW w \in Worker, WalkDown(w) PROVE ChildApart'
  <2>1. PICK n \in Nat \ {0}, k \in Proc :
          WalkDownDoes(w, n, k)
    BY <1>13, WalkDownEffect
  <2>q. QED
    BY <1>f, <2>1 DEF WalkDownDoes
<1>14. ASSUME NEW w \in Worker, WalkUp(w) PROVE ChildApart'
  <2>1. PICK n \in Nat \ {0} :
          WalkUpDoes(w, n)
    BY <1>14, WalkUpEffect
  <2>q. QED
    BY <1>f, <2>1 DEF WalkUpDoes
<1>15. ASSUME NEW w \in Worker, AbortReadyClosure(w) PROVE ChildApart'
  BY <1>f, <1>15 DEF AbortReadyClosure, program, results, tree, locks, caches,
     Hand, SetStatus, Outcome, BeingAborted, HasChildren
<1>16. ASSUME NEW w \in Worker, Setup(w) PROVE ChildApart'
  <2>2. /\ pc[w] = "loop" /\ cl[w] # None /\ status[cl[w]] = "READY"
        /\ pc' = [pc EXCEPT ![w] = "setup"] /\ H' = [H EXCEPT ![w] = 0]
        /\ stack' = [stack EXCEPT ![w] = <<cl[w]>>]
        /\ UNCHANGED <<child>>
    BY <1>16 DEF Setup, program, results, tree, Goto, LockClosure, SetStatus,
       BeingAborted
  <2>3. /\ "loop" \notin PopPC /\ "setup" \notin PopPC
    BY <2>2 DEF PopPC
  <2>a. stack'[w] = <<cl[w]>> /\ H'[w] = 0 /\ cl[w] \in Proc
    BY <1>a, <2>2 DEF Types
  <2>b. T(w)' = 1
    <3>1. Size(stack'[w]) = 1
      BY <2>a, SingleFacts
    <3>q. QED
      BY <1>t, <3>1
  <2>4. \A u \in Worker \ {w} : /\ stack'[u] = stack[u] /\ H'[u] >= H[u]
                                /\ pc'[u] = pc[u] /\ child'[u] = child[u]
    BY <1>a, <1>t, <2>2, <2>3, <2>a, <2>b DEF Types, Shortened
  <2>5. \A i \in H'[w] + 2 .. T(w)' : i \in H[w] + 2 .. T(w)
             /\ stack'[w][i] = stack[w][i]
    BY <1>t, <2>2, <2>3, <2>a, <2>b DEF Types, Shortened
  <2>6. pc'[w] \in PopPC /\ H'[w] < T(w)' /\ child'[w] # None
           => pc[w] \in PopPC /\ H[w] < T(w) /\ child'[w] = child[w]
    BY <1>a, <1>t, <2>2, <2>3, <2>a, <2>b DEF Types, Shortened
  <2>q. QED
    BY <1>h, <2>2, <2>4, <2>5, <2>6
<1>17. ASSUME NEW w \in Worker, SetupDone(w) PROVE ChildApart'
  BY <1>g, <1>17 DEF SetupDone, program, results, tree, caches, Goto,
     UnlockClosure, Polled, Polls, PopPC
<1>18. ASSUME NEW w \in Worker, Execute(w) PROVE ChildApart'
  <2>1. PICK c \in Proc :
          ExecuteDoes(w, c)
    BY <1>18, ExecuteEffect
  <2>q. QED
    BY <1>g, <2>1 DEF ExecuteDoes, PopPC
<1>19. ASSUME NEW w \in Worker, ReturnLockParent(w) PROVE ChildApart'
  <2>1. PICK k \in Proc, p \in Proc :
          ReturnLockParentDoes(w, k, p)
    BY <1>19, ReturnLockParentEffect
  <2>2. /\ pc[w] = "loop" /\ k = cl[w] /\ p # k /\ k # Root
        /\ status[k] = "RETURNING" /\ status[p] # "none"
        /\ pc' = [pc EXCEPT ![w] = "returnChild"]
        /\ child' = [child EXCEPT ![w] = k]
        /\ UNCHANGED <<H, stack>>
    BY <2>1 DEF ReturnLockParentDoes
  <2>3. /\ "loop" \notin PopPC /\ "returnChild" \notin PopPC
    BY <2>2 DEF PopPC
  <2>4. \A u \in Worker \ {w} : /\ stack'[u] = stack[u] /\ H'[u] >= H[u]
                                /\ pc'[u] = pc[u] /\ child'[u] = child[u]
    BY <1>a, <1>t, <2>2, <2>3 DEF Types, Shortened
  <2>5. \A i \in H'[w] + 2 .. T(w)' : i \in H[w] + 2 .. T(w)
             /\ stack'[w][i] = stack[w][i]
    BY <1>t, <2>2, <2>3 DEF Types, Shortened
  <2>6. pc'[w] \in PopPC /\ H'[w] < T(w)' /\ child'[w] # None
           => pc[w] \in PopPC /\ H[w] < T(w) /\ child'[w] = child[w]
    BY <1>a, <1>t, <2>2, <2>3 DEF Types, Shortened
  <2>q. QED
    BY <1>h, <2>2, <2>4, <2>5, <2>6
<1>20. ASSUME NEW w \in Worker, ReturnEnqueue(w) PROVE ChildApart'
  <2>1. PICK k \in Proc, p \in Proc :
          ReturnEnqueueDoes(w, k, p)
    BY <1>20, ReturnEnqueueEffect
  <2>q. QED
    BY <1>g, <2>1 DEF ReturnEnqueueDoes, PopPC
<1>21. ASSUME NEW w \in Worker, ReturnDone(w) PROVE ChildApart'
  <2>1. PICK k \in Proc, p \in Proc :
          ReturnDoneDoes(w, k, p)
    BY <1>21, ReturnDoneEffect
  <2>2. /\ pc[w] = "return" /\ k = child[w] /\ p = cl[w] /\ p # k /\ k # Root
        /\ status[k] = "RETURNING" /\ status[p] # "none"
        /\ pc' = [pc EXCEPT ![w] = "loop"]
        /\ child' = [child EXCEPT ![w] = None]
        /\ UNCHANGED <<H, stack>>
    BY <2>1 DEF ReturnDoneDoes
  <2>3. /\ "return" \notin PopPC /\ "loop" \notin PopPC
    BY <2>2 DEF PopPC
  <2>4. \A u \in Worker \ {w} : /\ stack'[u] = stack[u] /\ H'[u] >= H[u]
                                /\ pc'[u] = pc[u] /\ child'[u] = child[u]
    BY <1>a, <1>t, <2>2, <2>3 DEF Types, Shortened
  <2>5. \A i \in H'[w] + 2 .. T(w)' : i \in H[w] + 2 .. T(w)
             /\ stack'[w][i] = stack[w][i]
    BY <1>t, <2>2, <2>3 DEF Types, Shortened
  <2>6. pc'[w] \in PopPC /\ H'[w] < T(w)' /\ child'[w] # None
           => pc[w] \in PopPC /\ H[w] < T(w) /\ child'[w] = child[w]
    BY <1>a, <1>t, <2>2, <2>3 DEF Types, Shortened
  <2>q. QED
    BY <1>h, <2>2, <2>4, <2>5, <2>6
<1>22. ASSUME NEW w \in Worker, Spawn(w) PROVE ChildApart'
  <2>1. PICK c \in Proc, f \in Proc :
          SpawnDoes(w, c, f)
    BY <1>22, SpawnEffect
  <2>2. /\ pc[w] \in {"run", "synced"} /\ c = created + 1 /\ created \in Nat
        /\ f \in 1 .. created /\ T(w) >= 1 /\ f = stack[w][T(w)]
        /\ status[c] = "none" /\ pc' = [pc EXCEPT ![w] = "run"]
        /\ Extended(stack, stack', w, c)
        /\ UNCHANGED <<child, H>>
    BY <2>1 DEF SpawnDoes
  <2>3. /\ "run" \notin PopPC /\ "synced" \notin PopPC /\ pc[w] \notin PopPC
    BY <2>2 DEF PopPC
  <2>4. pc'[w] = "run" /\ \A u \in Worker \ {w} : pc'[u] = pc[u]
    BY <1>a, <2>2 DEF Types
  <2>5. ASSUME NEW u \in Worker, pc'[u] \in PopPC, H'[u] < T(u)', child'[u] # None,
               NEW v \in Worker, NEW i \in H'[v] + 2 .. T(v)'
        PROVE  stack'[v][i] # child'[u]
    <3>1. u # w /\ child'[u] = child[u] /\ H'[u] = H[u] /\ pc[u] = pc'[u]
          /\ H'[v] = H[v]
      BY <2>2, <2>3, <2>4, <2>5
    <3>2. T(u)' = T(u)
      BY <1>t, <2>2, <3>1 DEF Extended
    <3>3. child[u] \in 1 .. created /\ child[u] # c
      <4>1. child[u] \in 1 .. created
        BY <2>5, <3>1 DEF IInv, ChildInv
      <4>q. QED
        BY <2>2, <4>1
    <3>4. CASE v = w /\ i = T(w) + 1
      BY <2>2, <3>1, <3>3, <3>4, <1>t DEF Extended
    <3>5. CASE ~(v = w /\ i = T(w) + 1)
      <4>1. i \in H[v] + 2 .. T(v) /\ i \in 1 .. T(v) /\ H[v] \in Nat
        <5>1. v = w => T(v)' = T(v) + 1
          BY <1>t, <2>2 DEF Extended
        <5>2. v # w => T(v)' = T(v)
          <6>1. v # w => stack'[v] = stack[v]
            BY <2>2 DEF Extended
          <6>q. QED
            BY <1>t, <6>1
        <5>q. QED
          BY <1>t, <3>1, <3>5, <2>5, <5>1, <5>2
      <4>2. stack'[v][i] = stack[v][i]
        BY <1>t, <2>2, <4>1 DEF Extended
      <4>q. QED
        BY <2>5, <3>1, <3>2, <4>1, <4>2 DEF IInv, ChildApart
    <3>q. QED
      BY <3>4, <3>5
  <2>q. QED
    BY <2>5 DEF ChildApart
<1>23. ASSUME NEW w \in Worker, ReturnFast(w) PROVE ChildApart'
  <2>1. PICK f \in Proc :
          ReturnFastDoes(w, f)
    BY <1>23, ReturnFastEffect
  <2>2. /\ pc[w] = "run" /\ f = stack[w][T(w)] /\ T(w) > 1 /\ T(w) \in Nat
        /\ status[f] = "none" \/ H[w] + 1 = T(w)
        /\ f # Root /\ pc' = [pc EXCEPT ![w] = "pop"]
        /\ child' = [child EXCEPT ![w] = f] /\ Shortened(stack, stack', w)
        /\ UNCHANGED <<H>>
    BY <2>1 DEF ReturnFastDoes
  <2>3. /\ "run" \notin PopPC /\ "pop" \in PopPC
    BY <2>2 DEF PopPC
  <2>4. /\ \A u \in Worker \ {w} : stack'[u] = stack[u] /\ H'[u] = H[u] /\ T(u)' = T(u)
        /\ H'[w] = H[w] /\ T(w)' = T(w) - 1
        /\ \A i \in 1 .. T(w)' : stack'[w][i] = stack[w][i]
    BY <1>t, <2>2 DEF Shortened
  <2>5. child'[w] = f /\ \A u \in Worker \ {w} : child'[u] = child[u] /\ pc'[u] = pc[u]
    BY <1>a, <2>2 DEF Types
  <2>6. ASSUME H'[w] < T(w)', NEW v \in Worker, NEW i \in H'[v] + 2 .. T(v)'
        PROVE  stack'[v][i] # child'[w]
    <3>1. T(w) \in H[w] + 2 .. T(w) /\ H[w] \in Nat /\ T(w) \in Nat /\ H[v] \in Nat
      BY <1>t, <2>4, <2>6
    <3>2. i \in H[v] + 2 .. T(v) /\ ~(v = w /\ i = T(w)) /\ stack'[v][i] = stack[v][i]
      BY <2>4, <2>6, <3>1
    <3>q. QED
      BY <2>2, <2>5, <3>1, <3>2 DEF IInv, StacksApart
  <2>7. \A i \in H'[w] + 2 .. T(w)' : i \in H[w] + 2 .. T(w) /\ stack'[w][i] = stack[w][i]
    BY <1>t, <2>4
  <2>8. \A u \in Worker \ {w} : H'[u] >= H[u]
    BY <1>t, <2>4
  <2>q. QED
    BY <1>h, <2>4, <2>5, <2>6, <2>7, <2>8
<1>24. ASSUME NEW w \in Worker, PopResult(w) PROVE ChildApart'
  <2>2. /\ pc[w] = "pop" /\ pc' = [pc EXCEPT ![w] = "run"]
        /\ child' = [child EXCEPT ![w] = None]
        /\ UNCHANGED <<H, stack>>
    BY <1>24 DEF PopResult, program, state, tree, locks, caches, Goto, Outcome
  <2>3. /\ "pop" \in PopPC /\ "run" \notin PopPC
    BY <2>2 DEF PopPC
  <2>4. \A u \in Worker \ {w} : /\ stack'[u] = stack[u] /\ H'[u] >= H[u]
                                /\ pc'[u] = pc[u] /\ child'[u] = child[u]
    BY <1>a, <1>t, <2>2, <2>3 DEF Types, Shortened
  <2>5. \A i \in H'[w] + 2 .. T(w)' : i \in H[w] + 2 .. T(w)
             /\ stack'[w][i] = stack[w][i]
    BY <1>t, <2>2, <2>3 DEF Types, Shortened
  <2>6. pc'[w] \in PopPC /\ H'[w] < T(w)' /\ child'[w] # None
           => pc[w] \in PopPC /\ H[w] < T(w) /\ child'[w] = child[w]
    BY <1>a, <1>t, <2>2, <2>3 DEF Types, Shortened
  <2>q. QED
    BY <1>h, <2>2, <2>4, <2>5, <2>6
<1>25. ASSUME NEW w \in Worker, LockOwnDeque(w) PROVE ChildApart'
  <2>2. /\ pc[w] \in {"pop", "run", "synced"}
        /\ UNCHANGED <<child, H, stack>>
    BY <1>25 DEF LockOwnDeque, program, results, state, tree, caches, Goto,
       LockDeque, SlowAborts
  <2>3. /\ "pop" \in PopPC /\ "run" \notin PopPC /\ "synced" \notin PopPC
        /\ "handler" \in PopPC /\ "sync" \notin PopPC /\ "abort" \notin PopPC
        /\ "result" \notin PopPC
    BY <2>2 DEF PopPC
  <2>4. ASSUME pc[w] = "pop", pc' = [pc EXCEPT ![w] = "handler"]
        PROVE  ChildApart'
    <3>1. \A u \in Worker \ {w} : /\ stack'[u] = stack[u] /\ H'[u] >= H[u]
                                  /\ pc'[u] = pc[u] /\ child'[u] = child[u]
      BY <1>a, <1>t, <2>2, <2>3, <2>4 DEF Types, Shortened
    <3>2. \A i \in H'[w] + 2 .. T(w)' : i \in H[w] + 2 .. T(w)
               /\ stack'[w][i] = stack[w][i]
      BY <1>t, <2>2, <2>3, <2>4 DEF Types, Shortened
    <3>3. pc'[w] \in PopPC /\ H'[w] < T(w)' /\ child'[w] # None
             => pc[w] \in PopPC /\ H[w] < T(w) /\ child'[w] = child[w]
      BY <1>a, <1>t, <2>2, <2>3, <2>4 DEF Types, Shortened
    <3>q. QED
      BY <1>h, <2>2, <3>1, <3>2, <3>3
  <2>5. ASSUME pc[w] = "run", T(w) = 1, Running(w) = Root => created > 1,
               pc' = [pc EXCEPT ![w] = "sync"]
        PROVE  ChildApart'
    <3>1. \A u \in Worker \ {w} : /\ stack'[u] = stack[u] /\ H'[u] >= H[u]
                                  /\ pc'[u] = pc[u] /\ child'[u] = child[u]
      BY <1>a, <1>t, <2>2, <2>3, <2>5 DEF Types, Shortened
    <3>2. \A i \in H'[w] + 2 .. T(w)' : i \in H[w] + 2 .. T(w)
               /\ stack'[w][i] = stack[w][i]
      BY <1>t, <2>2, <2>3, <2>5 DEF Types, Shortened
    <3>3. pc'[w] \in PopPC /\ H'[w] < T(w)' /\ child'[w] # None
             => pc[w] \in PopPC /\ H[w] < T(w) /\ child'[w] = child[w]
      BY <1>a, <1>t, <2>2, <2>3, <2>5 DEF Types, Shortened
    <3>q. QED
      BY <1>h, <2>2, <3>1, <3>2, <3>3
  <2>6. ASSUME pc[w] = "run", T(w) = 1, Running(w) # Root,
               pc' = [pc EXCEPT ![w] = "abort"]
        PROVE  ChildApart'
    <3>1. \A u \in Worker \ {w} : /\ stack'[u] = stack[u] /\ H'[u] >= H[u]
                                  /\ pc'[u] = pc[u] /\ child'[u] = child[u]
      BY <1>a, <1>t, <2>2, <2>3, <2>6 DEF Types, Shortened
    <3>2. \A i \in H'[w] + 2 .. T(w)' : i \in H[w] + 2 .. T(w)
               /\ stack'[w][i] = stack[w][i]
      BY <1>t, <2>2, <2>3, <2>6 DEF Types, Shortened
    <3>3. pc'[w] \in PopPC /\ H'[w] < T(w)' /\ child'[w] # None
             => pc[w] \in PopPC /\ H[w] < T(w) /\ child'[w] = child[w]
      BY <1>a, <1>t, <2>2, <2>3, <2>6 DEF Types, Shortened
    <3>q. QED
      BY <1>h, <2>2, <3>1, <3>2, <3>3
  <2>7. ASSUME pc[w] = "synced", Running(w) # Root,
               pc' = [pc EXCEPT ![w] = "result"]
        PROVE  ChildApart'
    <3>1. \A u \in Worker \ {w} : /\ stack'[u] = stack[u] /\ H'[u] >= H[u]
                                  /\ pc'[u] = pc[u] /\ child'[u] = child[u]
      BY <1>a, <1>t, <2>2, <2>3, <2>7 DEF Types, Shortened
    <3>2. \A i \in H'[w] + 2 .. T(w)' : i \in H[w] + 2 .. T(w)
               /\ stack'[w][i] = stack[w][i]
      BY <1>t, <2>2, <2>3, <2>7 DEF Types, Shortened
    <3>3. pc'[w] \in PopPC /\ H'[w] < T(w)' /\ child'[w] # None
             => pc[w] \in PopPC /\ H[w] < T(w) /\ child'[w] = child[w]
      BY <1>a, <1>t, <2>2, <2>3, <2>7 DEF Types, Shortened
    <3>q. QED
      BY <1>h, <2>2, <3>1, <3>2, <3>3
  <2>q. QED
    BY <1>25, <2>2, <2>4, <2>5, <2>6, <2>7 DEF LockOwnDeque, program, results,
       state, tree, caches, Goto, LockDeque, SlowAborts
<1>26. ASSUME NEW w \in Worker, LockBottom(w) PROVE ChildApart'
  <2>1. PICK c \in Proc :
          LockBottomDoes(w, c)
    BY <1>26, LockBottomEffect
  <2>2. /\ pc[w] \in {"handler", "sync", "abort", "result"} /\ c = Bottom(w)
        /\ deque[w] # <<>>
        /\ UNCHANGED <<child, H, stack>>
    BY <2>1 DEF LockBottomDoes
  <2>3. /\ "handler" \in PopPC /\ "sync" \notin PopPC /\ "abort" \notin PopPC
        /\ "result" \notin PopPC /\ "handlerPoll" \in PopPC
        /\ "syncPoll" \notin PopPC /\ "setResult" \notin PopPC
        /\ "abortPoll" \notin PopPC
    BY <2>2 DEF PopPC
  <2>4. ASSUME pc[w] = "handler", pc' = [pc EXCEPT ![w] = "handlerPoll"]
        PROVE  ChildApart'
    <3>1. \A u \in Worker \ {w} : /\ stack'[u] = stack[u] /\ H'[u] >= H[u]
                                  /\ pc'[u] = pc[u] /\ child'[u] = child[u]
      BY <1>a, <1>t, <2>2, <2>3, <2>4 DEF Types, Shortened
    <3>2. \A i \in H'[w] + 2 .. T(w)' : i \in H[w] + 2 .. T(w)
               /\ stack'[w][i] = stack[w][i]
      BY <1>t, <2>2, <2>3, <2>4 DEF Types, Shortened
    <3>3. pc'[w] \in PopPC /\ H'[w] < T(w)' /\ child'[w] # None
             => pc[w] \in PopPC /\ H[w] < T(w) /\ child'[w] = child[w]
      BY <1>a, <1>t, <2>2, <2>3, <2>4 DEF Types, Shortened
    <3>q. QED
      BY <1>h, <2>2, <3>1, <3>2, <3>3
  <2>5. ASSUME pc[w] = "sync", pc' = [pc EXCEPT ![w] = "syncPoll"]
        PROVE  ChildApart'
    <3>1. \A u \in Worker \ {w} : /\ stack'[u] = stack[u] /\ H'[u] >= H[u]
                                  /\ pc'[u] = pc[u] /\ child'[u] = child[u]
      BY <1>a, <1>t, <2>2, <2>3, <2>5 DEF Types, Shortened
    <3>2. \A i \in H'[w] + 2 .. T(w)' : i \in H[w] + 2 .. T(w)
               /\ stack'[w][i] = stack[w][i]
      BY <1>t, <2>2, <2>3, <2>5 DEF Types, Shortened
    <3>3. pc'[w] \in PopPC /\ H'[w] < T(w)' /\ child'[w] # None
             => pc[w] \in PopPC /\ H[w] < T(w) /\ child'[w] = child[w]
      BY <1>a, <1>t, <2>2, <2>3, <2>5 DEF Types, Shortened
    <3>q. QED
      BY <1>h, <2>2, <3>1, <3>2, <3>3
  <2>6. ASSUME pc[w] = "result", pc' = [pc EXCEPT ![w] = "setResult"]
        PROVE  ChildApart'
    <3>1. \A u \in Worker \ {w} : /\ stack'[u] = stack[u] /\ H'[u] >= H[u]
                                  /\ pc'[u] = pc[u] /\ child'[u] = child[u]
      BY <1>a, <1>t, <2>2, <2>3, <2>6 DEF Types, Shortened
    <3>2. \A i \in H'[w] + 2 .. T(w)' : i \in H[w] + 2 .. T(w)
               /\ stack'[w][i] = stack[w][i]
      BY <1>t, <2>2, <2>3, <2>6 DEF Types, Shortened
    <3>3. pc'[w] \in PopPC /\ H'[w] < T(w)' /\ child'[w] # None
             => pc[w] \in PopPC /\ H[w] < T(w) /\ child'[w] = child[w]
      BY <1>a, <1>t, <2>2, <2>3, <2>6 DEF Types, Shortened
    <3>q. QED
      BY <1>h, <2>2, <3>1, <3>2, <3>3
  <2>7. ASSUME NEW s \in {ABORT_ALL, ALMOST_NO_ABORT}, pc[w] = "abort",
               status[c] = "RUNNING", pc' = [pc EXCEPT ![w] = "abortPoll"]
        PROVE  ChildApart'
    <3>1. \A u \in Worker \ {w} : /\ stack'[u] = stack[u] /\ H'[u] >= H[u]
                                  /\ pc'[u] = pc[u] /\ child'[u] = child[u]
      BY <1>a, <1>t, <2>2, <2>3, <2>7 DEF Types, Shortened
    <3>2. \A i \in H'[w] + 2 .. T(w)' : i \in H[w] + 2 .. T(w)
               /\ stack'[w][i] = stack[w][i]
      BY <1>t, <2>2, <2>3, <2>7 DEF Types, Shortened
    <3>3. pc'[w] \in PopPC /\ H'[w] < T(w)' /\ child'[w] # None
             => pc[w] \in PopPC /\ H[w] < T(w) /\ child'[w] = child[w]
      BY <1>a, <1>t, <2>2, <2>3, <2>7 DEF Types, Shortened
    <3>q. QED
      BY <1>h, <2>2, <3>1, <3>2, <3>3
  <2>q. QED
    BY <2>1, <2>2, <2>4, <2>5, <2>6, <2>7 DEF LockBottomDoes
<1>27. ASSUME NEW w \in Worker, Sync(w) PROVE ChildApart'
  <2>1. PICK c \in Proc :
          SyncDoes(w, c)
    BY <1>27, SyncEffect
  <2>2. /\ pc[w] = "syncPoll" /\ c = cl[w] /\ c = Bottom(w)
        /\ c = deque[w][Size(deque[w])] /\ T(w) = 1 /\ H[w] = 0
        /\ status[c] = "RUNNING" /\ stack[w][1] = c /\ cache[c] = w
        /\ UNCHANGED <<child, H>>
    BY <2>1 DEF SyncDoes
  <2>3. /\ "syncPoll" \notin PopPC /\ "loop" \notin PopPC
        /\ "synced" \notin PopPC
    BY <2>2 DEF PopPC
  <2>4. ASSUME join[c] # 0, pc' = [pc EXCEPT ![w] = "loop"],
               stack' = [stack EXCEPT ![w] = <<>>]
        PROVE  ChildApart'
    <3>1. \A u \in Worker \ {w} : /\ stack'[u] = stack[u] /\ H'[u] >= H[u]
                                  /\ pc'[u] = pc[u] /\ child'[u] = child[u]
      BY <1>a, <1>t, <2>2, <2>3, <2>4 DEF Types, Shortened
    <3>2. \A i \in H'[w] + 2 .. T(w)' : i \in H[w] + 2 .. T(w)
               /\ stack'[w][i] = stack[w][i]
      BY <1>t, <2>2, <2>3, <2>4 DEF Types, Shortened
    <3>3. pc'[w] \in PopPC /\ H'[w] < T(w)' /\ child'[w] # None
             => pc[w] \in PopPC /\ H[w] < T(w) /\ child'[w] = child[w]
      BY <1>a, <1>t, <2>2, <2>3, <2>4 DEF Types, Shortened
    <3>q. QED
      BY <1>h, <2>2, <3>1, <3>2, <3>3
  <2>5. ASSUME join[c] = 0, pc' = [pc EXCEPT ![w] = "synced"],
               UNCHANGED <<stack>>
        PROVE  ChildApart'
    <3>1. \A u \in Worker \ {w} : /\ stack'[u] = stack[u] /\ H'[u] >= H[u]
                                  /\ pc'[u] = pc[u] /\ child'[u] = child[u]
      BY <1>a, <1>t, <2>2, <2>3, <2>5 DEF Types, Shortened
    <3>2. \A i \in H'[w] + 2 .. T(w)' : i \in H[w] + 2 .. T(w)
               /\ stack'[w][i] = stack[w][i]
      BY <1>t, <2>2, <2>3, <2>5 DEF Types, Shortened
    <3>3. pc'[w] \in PopPC /\ H'[w] < T(w)' /\ child'[w] # None
             => pc[w] \in PopPC /\ H[w] < T(w) /\ child'[w] = child[w]
      BY <1>a, <1>t, <2>2, <2>3, <2>5 DEF Types, Shortened
    <3>q. QED
      BY <1>h, <2>2, <3>1, <3>2, <3>3
  <2>q. QED
    BY <2>1, <2>2, <2>4, <2>5 DEF SyncDoes
<1>28. ASSUME NEW w \in Worker, AbortSlow(w) PROVE ChildApart'
  BY <1>g, <1>28 DEF AbortSlow, program, results, tree, caches, Goto,
     UnlockBoth, Polled, Hand, UnlockClosure, UnlockDeque, Polls, PopPC
<1>29. ASSUME NEW w \in Worker, SetResult(w) PROVE ChildApart'
  <2>1. PICK c \in Proc :
          SetResultDoes(w, c)
    BY <1>29, SetResultEffect
  <2>2. /\ pc[w] = "setResult" /\ c = cl[w] /\ c = Bottom(w)
        /\ c = deque[w][Size(deque[w])] /\ T(w) = 1 /\ H[w] = 0 /\ c # Root
        /\ deque[w] # <<>> /\ status[c] = "RUNNING" /\ stack[w][1] = c
        /\ cache[c] = w /\ pc' = [pc EXCEPT ![w] = "loop"]
        /\ stack' = [stack EXCEPT ![w] = <<>>]
        /\ UNCHANGED <<child, H>>
    BY <2>1 DEF SetResultDoes
  <2>3. /\ "setResult" \notin PopPC /\ "loop" \notin PopPC
    BY <2>2 DEF PopPC
  <2>4. \A u \in Worker \ {w} : /\ stack'[u] = stack[u] /\ H'[u] >= H[u]
                                /\ pc'[u] = pc[u] /\ child'[u] = child[u]
    BY <1>a, <1>t, <2>2, <2>3 DEF Types, Shortened
  <2>5. \A i \in H'[w] + 2 .. T(w)' : i \in H[w] + 2 .. T(w)
             /\ stack'[w][i] = stack[w][i]
    BY <1>t, <2>2, <2>3 DEF Types, Shortened
  <2>6. pc'[w] \in PopPC /\ H'[w] < T(w)' /\ child'[w] # None
           => pc[w] \in PopPC /\ H[w] < T(w) /\ child'[w] = child[w]
    BY <1>a, <1>t, <2>2, <2>3 DEF Types, Shortened
  <2>q. QED
    BY <1>h, <2>2, <2>4, <2>5, <2>6
<1>30. ASSUME NEW w \in Worker, Done(w) PROVE ChildApart'
  BY <1>g, <1>30 DEF Done, results, state, tree, locks, caches, Goto,
     AfterSync, PopPC
<1>31. ASSUME NEW w \in Worker, RemoveAndFree(w) PROVE ChildApart'
  <2>1. RemoveAndFreeDoes(w)
    BY <1>31, RemoveAndFreeEffect
  <2>2. /\ pc[w] = "rootEnd" /\ Root = Bottom(w)
        /\ Root = deque[w][Size(deque[w])] /\ T(w) = 1 /\ H[w] = 0
        /\ Root \in Proc /\ status[Root] = "RUNNING" /\ cache[Root] = w
        /\ pc' = [pc EXCEPT ![w] = "loop"]
        /\ stack' = [stack EXCEPT ![w] = <<>>]
        /\ UNCHANGED <<child, H>>
    BY <2>1 DEF RemoveAndFreeDoes
  <2>3. /\ "rootEnd" \notin PopPC /\ "loop" \notin PopPC
    BY <2>2 DEF PopPC
  <2>4. \A u \in Worker \ {w} : /\ stack'[u] = stack[u] /\ H'[u] >= H[u]
                                /\ pc'[u] = pc[u] /\ child'[u] = child[u]
    BY <1>a, <1>t, <2>2, <2>3 DEF Types, Shortened
  <2>5. \A i \in H'[w] + 2 .. T(w)' : i \in H[w] + 2 .. T(w)
             /\ stack'[w][i] = stack[w][i]
    BY <1>t, <2>2, <2>3 DEF Types, Shortened
  <2>6. pc'[w] \in PopPC /\ H'[w] < T(w)' /\ child'[w] # None
           => pc[w] \in PopPC /\ H[w] < T(w) /\ child'[w] = child[w]
    BY <1>a, <1>t, <2>2, <2>3 DEF Types, Shortened
  <2>q. QED
    BY <1>h, <2>2, <2>4, <2>5, <2>6
<1>32. ASSUME NEW w \in Worker, CilkExit(w) PROVE ChildApart'
  <2>1. CilkExitDoes(w)
    BY <1>32, CilkExitEffect
  <2>q. QED
    BY <1>f, <1>g, <2>1 DEF CilkExitDoes, PopPC
<1>33. ASSUME NEW w \in Worker, CilkExitDone(w) PROVE ChildApart'
  BY <1>g, <1>33 DEF CilkExitDone, program, results, tree, caches, Goto, Hand,
     UnlockClosure, Polled, Polls, PopPC
<1>34. ASSUME NEW w \in Worker, HandlerPolled(w) PROVE ChildApart'
  <2>1. PICK t \in Proc, t1 \in Proc :
          HandlerPolledDoes(w, t, t1)
    BY <1>34, HandlerPolledEffect
  <2>q. QED
    BY <1>g, <2>1 DEF HandlerPolledDoes, PopPC
<1>35. ASSUME NEW w \in Worker, HandlerSwap(w) PROVE ChildApart'
  BY <1>g, <1>35 DEF HandlerSwap, program, results, state, tree, caches, Goto,
     LockClosure, PopPC
<1>36. ASSUME NEW w \in Worker, HandlerStolen(w) PROVE ChildApart'
  <2>1. PICK c \in Proc :
          HandlerStolenDoes(w, c)
    BY <1>36, HandlerStolenEffect
  <2>2. /\ pc[w] = "handlerAct" /\ c = cl[w] /\ c = Bottom(w)
        /\ c = deque[w][Size(deque[w])] /\ c # Root /\ deque[w] # <<>>
        /\ T(w) \in Nat \ {0} /\ H[w] \in Nat /\ H[w] >= T(w)
        /\ status[c] = "RUNNING" => child[w] = c /\ cache[c] = w
        /\ status[c] \in {"RUNNING", "RETURNING"}
        /\ child' = [child EXCEPT ![w] = None] /\ Shortened(stack, stack', w)
        /\ UNCHANGED <<H>>
    BY <2>1 DEF HandlerStolenDoes
  <2>3. /\ "handlerAct" \in PopPC /\ "loop" \notin PopPC /\ "pop" \in PopPC
    BY <2>2 DEF PopPC
  <2>4. ASSUME T(w) = 1, pc' = [pc EXCEPT ![w] = "loop"]
        PROVE  ChildApart'
    <3>1. \A u \in Worker \ {w} : /\ stack'[u] = stack[u] /\ H'[u] >= H[u]
                                  /\ pc'[u] = pc[u] /\ child'[u] = child[u]
      BY <1>a, <1>t, <2>2, <2>3, <2>4 DEF Types, Shortened
    <3>2. \A i \in H'[w] + 2 .. T(w)' : i \in H[w] + 2 .. T(w)
               /\ stack'[w][i] = stack[w][i]
      BY <1>t, <2>2, <2>3, <2>4 DEF Types, Shortened
    <3>3. pc'[w] \in PopPC /\ H'[w] < T(w)' /\ child'[w] # None
             => pc[w] \in PopPC /\ H[w] < T(w) /\ child'[w] = child[w]
      BY <1>a, <1>t, <2>2, <2>3, <2>4 DEF Types, Shortened
    <3>q. QED
      BY <1>h, <2>2, <3>1, <3>2, <3>3
  <2>5. ASSUME T(w) # 1, pc' = [pc EXCEPT ![w] = "pop"]
        PROVE  ChildApart'
    <3>1. \A u \in Worker \ {w} : /\ stack'[u] = stack[u] /\ H'[u] >= H[u]
                                  /\ pc'[u] = pc[u] /\ child'[u] = child[u]
      BY <1>a, <1>t, <2>2, <2>3, <2>5 DEF Types, Shortened
    <3>2. \A i \in H'[w] + 2 .. T(w)' : i \in H[w] + 2 .. T(w)
               /\ stack'[w][i] = stack[w][i]
      BY <1>t, <2>2, <2>3, <2>5 DEF Types, Shortened
    <3>3. pc'[w] \in PopPC /\ H'[w] < T(w)' /\ child'[w] # None
             => pc[w] \in PopPC /\ H[w] < T(w) /\ child'[w] = child[w]
      BY <1>a, <1>t, <2>2, <2>3, <2>5 DEF Types, Shortened
    <3>q. QED
      BY <1>h, <2>2, <3>1, <3>2, <3>3
  <2>q. QED
    BY <2>1, <2>2, <2>4, <2>5 DEF HandlerStolenDoes
<1>37. ASSUME NEW w \in Worker, HandlerAbort(w) PROVE ChildApart'
  <2>1. PICK c \in Proc, f \in Proc :
          HandlerAbortDoes(w, c, f)
    BY <1>37, HandlerAbortEffect
  <2>2. /\ pc[w] = "handlerAct" /\ c = cl[w] /\ c = Bottom(w)
        /\ c = deque[w][Size(deque[w])] /\ deque[w] # <<>>
        /\ T(w) \in Nat \ {0} /\ H[w] \in Nat /\ H[w] < T(w)
        /\ status[c] = "RUNNING" /\ cache[c] = w /\ stack[w][H[w] + 1] = c
        /\ Shortened(stack, stack', w)
        /\ UNCHANGED <<H>>
    BY <2>1 DEF HandlerAbortDoes
  <2>3. /\ "handlerAct" \in PopPC /\ "loop" \notin PopPC /\ "pop" \in PopPC
    BY <2>2 DEF PopPC
  <2>4. ASSUME T(w) = 1, H[w] = 0, join[c] # 0,
               pc' = [pc EXCEPT ![w] = "loop"],
               child' = [child EXCEPT ![w] = None]
        PROVE  ChildApart'
    <3>1. \A u \in Worker \ {w} : /\ stack'[u] = stack[u] /\ H'[u] >= H[u]
                                  /\ pc'[u] = pc[u] /\ child'[u] = child[u]
      BY <1>a, <1>t, <2>2, <2>3, <2>4 DEF Types, Shortened
    <3>2. \A i \in H'[w] + 2 .. T(w)' : i \in H[w] + 2 .. T(w)
               /\ stack'[w][i] = stack[w][i]
      BY <1>t, <2>2, <2>3, <2>4 DEF Types, Shortened
    <3>3. pc'[w] \in PopPC /\ H'[w] < T(w)' /\ child'[w] # None
             => pc[w] \in PopPC /\ H[w] < T(w) /\ child'[w] = child[w]
      BY <1>a, <1>t, <2>2, <2>3, <2>4 DEF Types, Shortened
    <3>q. QED
      BY <1>h, <2>2, <3>1, <3>2, <3>3
  <2>5. ASSUME T(w) = 1, H[w] = 0, join[c] = 0, c # Root,
               pc' = [pc EXCEPT ![w] = "loop"],
               child' = [child EXCEPT ![w] = None]
        PROVE  ChildApart'
    <3>1. \A u \in Worker \ {w} : /\ stack'[u] = stack[u] /\ H'[u] >= H[u]
                                  /\ pc'[u] = pc[u] /\ child'[u] = child[u]
      BY <1>a, <1>t, <2>2, <2>3, <2>5 DEF Types, Shortened
    <3>2. \A i \in H'[w] + 2 .. T(w)' : i \in H[w] + 2 .. T(w)
               /\ stack'[w][i] = stack[w][i]
      BY <1>t, <2>2, <2>3, <2>5 DEF Types, Shortened
    <3>3. pc'[w] \in PopPC /\ H'[w] < T(w)' /\ child'[w] # None
             => pc[w] \in PopPC /\ H[w] < T(w) /\ child'[w] = child[w]
      BY <1>a, <1>t, <2>2, <2>3, <2>5 DEF Types, Shortened
    <3>q. QED
      BY <1>h, <2>2, <3>1, <3>2, <3>3
  <2>6. ASSUME T(w) # 1, H[w] + 1 = T(w), join[c] = 0, c # Root,
               pc' = [pc EXCEPT ![w] = "pop"],
               child' = [child EXCEPT ![w] = c]
        PROVE  ChildApart'
    <3>1. \A u \in Worker \ {w} : /\ stack'[u] = stack[u] /\ H'[u] >= H[u]
                                  /\ pc'[u] = pc[u] /\ child'[u] = child[u]
      BY <1>a, <1>t, <2>2, <2>3, <2>6 DEF Types, Shortened
    <3>2. \A i \in H'[w] + 2 .. T(w)' : i \in H[w] + 2 .. T(w)
               /\ stack'[w][i] = stack[w][i]
      BY <1>t, <2>2, <2>3, <2>6 DEF Types, Shortened
    <3>3. pc'[w] \in PopPC /\ H'[w] < T(w)' /\ child'[w] # None
             => pc[w] \in PopPC /\ H[w] < T(w) /\ child'[w] = child[w]
      BY <1>a, <1>t, <2>2, <2>3, <2>6 DEF Types, Shortened
    <3>q. QED
      BY <1>h, <2>2, <3>1, <3>2, <3>3
  <2>7. ASSUME H[w] + 1 < T(w), f = stack[w][T(w)], f # Root,
               status[f] = "none", pc' = [pc EXCEPT ![w] = "pop"],
               child' = [child EXCEPT ![w] = f]
        PROVE  ChildApart'
    <3>4. /\ \A u \in Worker \ {w} : stack'[u] = stack[u] /\ H'[u] = H[u] /\ T(u)' = T(u)
          /\ H'[w] = H[w] /\ T(w)' = T(w) - 1
          /\ \A i \in 1 .. T(w)' : stack'[w][i] = stack[w][i]
      BY <1>t, <2>2, <2>7 DEF Shortened
    <3>5. child'[w] = f /\ \A u \in Worker \ {w} : child'[u] = child[u] /\ pc'[u] = pc[u]
      BY <1>a, <2>2, <2>7 DEF Types
    <3>6. ASSUME NEW v \in Worker, NEW i \in H'[v] + 2 .. T(v)'
          PROVE  stack'[v][i] # child'[w]
      <4>1. T(w) \in H[w] + 2 .. T(w) /\ H[w] \in Nat /\ T(w) \in Nat /\ H[v] \in Nat
        BY <1>t, <2>7, <3>4
      <4>2. i \in H[v] + 2 .. T(v) /\ ~(v = w /\ i = T(w)) /\ stack'[v][i] = stack[v][i]
        BY <3>4, <3>6, <4>1
      <4>q. QED
        BY <2>7, <3>5, <4>1, <4>2 DEF IInv, StacksApart
    <3>7. \A i \in H'[w] + 2 .. T(w)' : i \in H[w] + 2 .. T(w) /\ stack'[w][i] = stack[w][i]
      BY <1>t, <3>4
    <3>8. \A u \in Worker \ {w} : H'[u] >= H[u]
      BY <1>t, <3>4
    <3>q. QED
      BY <1>h, <3>4, <3>5, <3>6, <3>7, <3>8
  <2>q. QED
    BY <2>1, <2>2, <2>4, <2>5, <2>6, <2>7 DEF HandlerAbortDoes, AbortWaits,
       AbortReturns, AbortPops
<1>38. ASSUME NEW w \in Worker, HandlerResume(w) PROVE ChildApart'
  <2>2. /\ pc[w] = "handlerAct" /\ ~(H[w] >= T(w))
        /\ pc' = [pc EXCEPT ![w] = "run"]
        /\ child' = [child EXCEPT ![w] = None]
        /\ UNCHANGED <<H, stack>>
    BY <1>38 DEF HandlerResume, program, tree, Goto, UnlockBoth, Outcome,
       BeingAborted, Stolen, Hand, UnlockClosure, UnlockDeque
  <2>3. /\ "handlerAct" \in PopPC /\ "run" \notin PopPC
    BY <2>2 DEF PopPC
  <2>4. \A u \in Worker \ {w} : /\ stack'[u] = stack[u] /\ H'[u] >= H[u]
                                /\ pc'[u] = pc[u] /\ child'[u] = child[u]
    BY <1>a, <1>t, <2>2, <2>3 DEF Types, Shortened
  <2>5. \A i \in H'[w] + 2 .. T(w)' : i \in H[w] + 2 .. T(w)
             /\ stack'[w][i] = stack[w][i]
    BY <1>t, <2>2, <2>3 DEF Types, Shortened
  <2>6. pc'[w] \in PopPC /\ H'[w] < T(w)' /\ child'[w] # None
           => pc[w] \in PopPC /\ H[w] < T(w) /\ child'[w] = child[w]
    BY <1>a, <1>t, <2>2, <2>3 DEF Types, Shortened
  <2>q. QED
    BY <1>h, <2>2, <2>4, <2>5, <2>6
<1>39. CASE UNCHANGED vars
  BY <1>f, <1>39 DEF vars
<1>q. QED
  BY <1>1, <1>2, <1>3, <1>4, <1>5, <1>6, <1>7, <1>8, <1>9, <1>10, <1>11, <1>12,
     <1>13, <1>14, <1>15, <1>16, <1>17, <1>18, <1>19, <1>20, <1>21, <1>22,
     <1>23, <1>24, <1>25, <1>26, <1>27, <1>28, <1>29, <1>30, <1>31, <1>32,
     <1>33, <1>34, <1>35, <1>36, <1>37, <1>38, <1>39 DEF Next, Step, Terminated

(* Only its own worker changes the status of the closure at the bottom of  *)
(* a deque, except the thief that takes it, which puts the one of the next *)
(* frame in its place and moves H with it.                                 *)
LEMMA CurrentInvStep ==
    ASSUME IInv, [Next]_vars
    PROVE  CurrentInv'
<1>a. Types /\ Types'
  BY TypesStep DEF IInv
<1>b. created \in Nat \ {0} /\ created' \in Nat /\ None \notin Proc /\ Root \in Proc
  BY <1>a, BoundAssumption DEF Types, Proc, None, Root
<1>t. \A u \in Worker :
         /\ T(u) = Size(stack[u]) /\ T(u)' = Size(stack'[u])
         /\ T(u) \in Nat /\ T(u)' \in Nat /\ H[u] \in Nat /\ H'[u] \in Nat
         /\ stack[u] = <<>> <=> T(u) = 0
         /\ stack'[u] = <<>> <=> T(u)' = 0
         /\ Running(u) = stack[u][T(u)] /\ Running(u)' = stack'[u][T(u)']
         /\ \A i \in 1 .. T(u) : stack[u][i] \in Proc
  <2> SUFFICES ASSUME NEW u \in Worker
               PROVE  /\ T(u) = Size(stack[u]) /\ T(u)' = Size(stack'[u])
                      /\ T(u) \in Nat /\ T(u)' \in Nat /\ H[u] \in Nat /\ H'[u] \in Nat
                      /\ stack[u] = <<>> <=> T(u) = 0
                      /\ stack'[u] = <<>> <=> T(u)' = 0
                      /\ Running(u) = stack[u][T(u)] /\ Running(u)' = stack'[u][T(u)']
                      /\ \A i \in 1 .. T(u) : stack[u][i] \in Proc
    OBVIOUS
  <2>1. /\ stack[u] \in Seq(Proc) /\ stack'[u] \in Seq(Proc)
        /\ H[u] \in Nat /\ H'[u] \in Nat
    BY <1>a DEF Types
  <2>2. T(u) = Size(stack[u]) /\ T(u)' = Size(stack'[u])
    BY DEF T, Size
  <2>3. Running(u) = stack[u][T(u)] /\ Running(u)' = stack'[u][T(u)']
    BY DEF Running
  <2>q. QED
    BY <2>1, <2>2, <2>3, SeqFacts
<1>d. \A u \in Worker :
         /\ Size(deque[u]) \in Nat /\ Size(deque'[u]) \in Nat
         /\ deque[u] = <<>> <=> Size(deque[u]) = 0
         /\ deque'[u] = <<>> <=> Size(deque'[u]) = 0
         /\ \A i \in 1 .. Size(deque[u]) : deque[u][i] \in Proc
         /\ Bottom(u) = deque[u][Size(deque[u])]
         /\ Bottom(u)' = deque'[u][Size(deque'[u])]
  <2>1. \A u \in Worker : deque[u] \in Seq(Proc) /\ deque'[u] \in Seq(Proc)
    BY <1>a DEF Types
  <2>2. \A u \in Worker : /\ Bottom(u) = deque[u][Size(deque[u])]
                          /\ Bottom(u)' = deque'[u][Size(deque'[u])]
    BY DEF Bottom, Size
  <2>q. QED
    BY <2>1, <2>2, SeqFacts
<1>s. \A u \in Worker : CurrentHere(u)
  BY DEF IInv, CurrentInv, CurrentHere
<1>e. \A u \in Worker : pc[u] \in WorkPC =>
         /\ Bottom(u) \in Proc /\ Size(deque[u]) \in 1 .. Size(deque[u])
         /\ Bottom(u) = deque[u][Size(deque[u])]
         /\ status[Bottom(u)] \in {"RUNNING", "RETURNING"}
  BY <1>d, <1>s DEF CurrentHere
<1>k. ASSUME NEW w \in Worker, UNCHANGED <<status, cache>> PROVE BottomsKept(w)
  BY <1>k DEF BottomsKept
<1>p. ASSUME NEW w \in Worker,
             \A d \in Proc : status'[d] # status[d] \/ cache'[d] # cache[d] => Mine(w, d)
      PROVE  BottomsKept(w)
  <2> SUFFICES ASSUME NEW u \in Worker \ {w}, pc[u] \in WorkPC
               PROVE  ~Mine(w, Bottom(u))
    BY <1>e, <1>p DEF BottomsKept
  <2>1. ~(pc[w] \in HandPC /\ cl[w] = Bottom(u))
    BY <1>e DEF IInv, PlacesApart
  <2>2. ~(pc[w] \in ReturnPC /\ child[w] = Bottom(u))
    BY <1>e DEF IInv, PlacesApart
  <2>3. ~(pc[w] \in WorkPC /\ Bottom(w) = Bottom(u))
    BY <1>e DEF IInv, PlacesApart
  <2>q. QED
    BY <1>e, <2>1, <2>2, <2>3 DEF Mine
<1>h. ASSUME NEW w \in Worker,
             \A u \in Worker \ {w} : /\ pc'[u] = pc[u] /\ child'[u] = child[u]
                                     /\ H'[u] = H[u],
             \A u \in Worker \ {w} : stack'[u] = stack[u],
             \A u \in Worker \ {w} : deque'[u] = deque[u],
             BottomsKept(w), CurrentHere(w)'
      PROVE  CurrentInv'
  <2>1. ASSUME NEW u \in Worker, u # w PROVE CurrentHere(u)'
    <3>1. /\ deque'[u] = deque[u] /\ pc'[u] = pc[u] /\ child'[u] = child[u]
          /\ H'[u] = H[u] /\ stack'[u] = stack[u] /\ CurrentHere(u)
          /\ T(u)' = T(u) /\ Bottom(u)' = Bottom(u)
      BY <1>d, <1>h, <1>s, <1>t, <2>1
    <3>2. pc[u] \in WorkPC => /\ status'[Bottom(u)] = status[Bottom(u)]
                              /\ cache'[Bottom(u)] = cache[Bottom(u)]
      BY <1>h, <2>1 DEF BottomsKept
    <3>q. QED
      BY <3>1, <3>2 DEF CurrentHere
  <2>q. QED
    BY <1>h, <2>1 DEF CurrentInv, CurrentHere
<1>m. ASSUME NEW w \in Worker, NEW l, pc' = [pc EXCEPT ![w] = l],
             l \in WorkPC <=> pc[w] \in WorkPC,
             l \in PopPC <=> pc[w] \in PopPC,
             UNCHANGED <<deque, status, cache, stack, H, child>>
      PROVE  CurrentInv'
  <2>1. \A u \in Worker : Bottom(u)' = Bottom(u) /\ T(u)' = T(u)
    BY <1>d, <1>m, <1>t
  <2>2. \A u \in Worker : pc'[u] = IF u = w THEN l ELSE pc[u]
    BY <1>a, <1>m DEF Types
  <2>3. ASSUME NEW u \in Worker PROVE CurrentHere(u)'
    BY <1>m, <1>s, <2>1, <2>2 DEF CurrentHere
  <2>q. QED
    BY <2>3 DEF CurrentInv, CurrentHere
<1>f. ASSUME UNCHANGED <<pc, deque, status, cache, stack, H, child>>
      PROVE  CurrentInv'
BY <1>f DEF IInv, CurrentInv, Bottom, T
<1>g. ASSUME NEW w \in Worker, NEW l, pc' = [pc EXCEPT ![w] = l],
             l \in WorkPC <=> pc[w] \in WorkPC,
             l \in PopPC <=> pc[w] \in PopPC,
             UNCHANGED <<deque, status, cache, stack, H, child>>
      PROVE  CurrentInv'
BY <1>g, <1>m
<1>1. ASSUME NEW w \in Worker, LeaveScheduler(w) PROVE CurrentInv'
  BY <1>g, <1>1 DEF LeaveScheduler, program, results, state, tree, locks,
     caches, Goto, WorkPC, PopPC, SlowPC
<1>2. ASSUME NEW w \in Worker, TakeOwn(w) PROVE CurrentInv'
  <2>1. TakeOwnDoes(w)
    BY <1>2, TakeOwnEffect
  <2>2. /\ pc[w] = "loop" /\ cl[w] = None /\ dlock[w] = None
        /\ UNCHANGED <<status, cache, stack, H, child>>
    BY <2>1 DEF TakeOwnDoes
  <2>3. /\ "loop" \notin WorkPC /\ "loop" \notin PopPC /\ "steal" \notin WorkPC
        /\ "steal" \notin PopPC
    BY <2>2 DEF WorkPC, PopPC, SlowPC
  <2>4. ASSUME deque[w] = <<>>, pc' = [pc EXCEPT ![w] = "steal"],
               UNCHANGED <<deque>>
        PROVE  CurrentInv'
    <3>1. pc'[w] = "steal" /\ child'[w] = child[w] /\ H'[w] = H[w]
      BY <1>a, <2>2, <2>3, <2>4 DEF Types
    <3>2. \A u \in Worker \ {w} : /\ pc'[u] = pc[u] /\ child'[u] = child[u]
                                  /\ H'[u] = H[u]
      BY <1>a, <2>2, <2>3, <2>4 DEF Types
    <3>3. \A u \in Worker \ {w} : stack'[u] = stack[u]
      BY <1>a, <2>2, <2>3, <2>4 DEF Types, Shortened, Extended
    <3>4. \A u \in Worker \ {w} : deque'[u] = deque[u]
      BY <1>a, <2>2, <2>3, <2>4 DEF Types, Shortened, Extended
    <3>5. BottomsKept(w)
      BY <1>k, <2>2, <2>3, <2>4
    <3>6. CurrentHere(w)'
      BY <1>d, <1>s, <1>t, <3>1, <2>2, <2>3, <2>4 DEF CurrentHere
    <3>q. QED
      BY <1>h, <2>2, <3>1, <3>2, <3>3, <3>4, <3>5, <3>6
  <2>5. ASSUME NEW c \in Proc, deque[w] # <<>>, c = Bottom(w),
               c = deque[w][Size(deque[w])], Shortened(deque, deque', w),
               UNCHANGED <<pc>>
        PROVE  CurrentInv'
    <3>1. pc'[w] = pc[w] /\ child'[w] = child[w] /\ H'[w] = H[w]
      BY <1>a, <2>2, <2>3, <2>5 DEF Types
    <3>2. \A u \in Worker \ {w} : /\ pc'[u] = pc[u] /\ child'[u] = child[u]
                                  /\ H'[u] = H[u]
      BY <1>a, <2>2, <2>3, <2>5 DEF Types
    <3>3. \A u \in Worker \ {w} : stack'[u] = stack[u]
      BY <1>a, <2>2, <2>3, <2>5 DEF Types, Shortened, Extended
    <3>4. \A u \in Worker \ {w} : deque'[u] = deque[u]
      BY <1>a, <2>2, <2>3, <2>5 DEF Types, Shortened, Extended
    <3>5. BottomsKept(w)
      BY <1>k, <2>2, <2>3, <2>5
    <3>6. CurrentHere(w)'
      BY <1>d, <1>s, <1>t, <3>1, <2>2, <2>3, <2>5 DEF CurrentHere
    <3>q. QED
      BY <1>h, <2>2, <3>1, <3>2, <3>3, <3>4, <3>5, <3>6
  <2>q. QED
    BY <2>1, <2>2, <2>4, <2>5 DEF TakeOwnDoes
<1>3. ASSUME NEW w \in Worker, StealLockDeque(w) PROVE CurrentInv'
  BY <1>g, <1>3 DEF StealLockDeque, program, results, state, tree, caches,
     Goto, LockDeque, Peek, Hand, WorkPC, PopPC, SlowPC
<1>4. ASSUME NEW w \in Worker, StealLockClosure(w) PROVE CurrentInv'
  BY <1>g, <1>4 DEF StealLockClosure, program, results, state, tree, caches,
     Goto, LockClosure, WorkPC, PopPC, SlowPC
<1>5. ASSUME NEW w \in Worker, StealGiveUp(w) PROVE CurrentInv'
  BY <1>g, <1>5 DEF StealGiveUp, program, results, state, tree, caches, Goto,
     Hand, UnlockClosure, BeingAborted, WorkPC, PopPC, SlowPC
<1>6. ASSUME NEW w \in Worker, StealUnlockDeque(w) PROVE CurrentInv'
  BY <1>g, <1>6 DEF StealUnlockDeque, program, results, state, tree, caches,
     Goto, UnlockDeque, WorkPC, PopPC, SlowPC
<1>7. ASSUME NEW w \in Worker, StealReady(w) PROVE CurrentInv'
  <2>1. PICK v \in Worker \ {w}, c \in Proc :
          StealReadyDoes(w, v, c)
    BY <1>7, StealReadyEffect
  <2>2. /\ pc[w] = "stealClosure" /\ c = cl[w] /\ c = deque[v][1]
        /\ pc[v] \notin OwnDequePC /\ status[c] = "READY"
        /\ pc' = [pc EXCEPT ![w] = "loop"] /\ Topped(deque, deque', v)
        /\ UNCHANGED <<status, cache, stack, H, child>>
    BY <2>1 DEF StealReadyDoes
  <2>3. /\ "stealClosure" \notin WorkPC /\ "stealClosure" \notin PopPC
        /\ "loop" \notin WorkPC /\ "loop" \notin PopPC
    BY <2>2 DEF WorkPC, PopPC, SlowPC
  <2>4. \A u \in Worker \ {v} : deque'[u] = deque[u]
    BY <2>2 DEF Topped
  <2>5. /\ pc'[w] = "loop" /\ \A u \in Worker \ {w} : pc'[u] = pc[u]
    BY <1>a, <2>2 DEF Types
  <2>6. ASSUME NEW u \in Worker, u # w PROVE CurrentHere(u)'
    <3>1. /\ pc'[u] = pc[u] /\ child'[u] = child[u] /\ H'[u] = H[u]
          /\ stack'[u] = stack[u] /\ CurrentHere(u) /\ T(u)' = T(u)
          /\ status' = status /\ cache' = cache
      BY <1>s, <1>t, <2>2, <2>5, <2>6
    <3>2. pc[u] \in WorkPC => Bottom(u)' = Bottom(u) /\ deque'[u] # <<>>
      <4>1. CASE u = v
        BY <2>1, <4>1, StealReadyBottom
      <4>2. CASE u # v
        BY <1>d, <1>s, <2>4, <4>2 DEF CurrentHere
      <4>q. QED
        BY <4>1, <4>2
    <3>q. QED
      BY <3>1, <3>2 DEF CurrentHere
  <2>7. CurrentHere(w)'
    BY <2>3, <2>5 DEF CurrentHere
  <2>q. QED
    BY <2>6, <2>7 DEF CurrentInv, CurrentHere
<1>8. ASSUME NEW w \in Worker, StealPromote(w) PROVE CurrentInv'
  <2>1. PICK v \in Worker \ {w}, c \in Proc, k \in Proc :
          StealPromoteDoes(w, v, c, k)
    BY <1>8, StealPromoteEffect
  <2>2. /\ pc[w] = "stealClosure" /\ c = cl[w] /\ k = stack[v][H[v] + 2]
        /\ deque[v] = <<c>> /\ pc[v] \in WorkPC \ OwnDequePC /\ H[v] + 1 < T(v)
        /\ status[c] = "RUNNING" /\ cache[c] = v /\ stack[v][H[v] + 1] = c
        /\ k # c /\ k # Root /\ status[k] = "none" /\ parent[k] = c /\ Fresh(k)
        /\ pc' = [pc EXCEPT ![w] = "stealFinish"]
        /\ deque' = [deque EXCEPT ![v] = <<k>>]
        /\ status' = [status EXCEPT ![k] = "RUNNING"]
        /\ cache' = [cache EXCEPT ![k] = v] /\ H' = [H EXCEPT ![v] = @ + 1]
        /\ child' = [child EXCEPT ![w] = k]
        /\ UNCHANGED <<stack>>
    BY <2>1 DEF StealPromoteDoes
  <2>3. /\ "stealClosure" \notin WorkPC /\ "stealClosure" \notin PopPC
        /\ "stealFinish" \notin WorkPC /\ "stealFinish" \notin PopPC
    BY <2>2 DEF WorkPC, PopPC, SlowPC
  <2>4. \A u \in Worker \ {v} : deque'[u] = deque[u] /\ H'[u] = H[u]
    BY <1>a, <2>2 DEF Types
  <2>5. /\ pc'[w] = "stealFinish" /\ stack' = stack
        /\ \A u \in Worker \ {w} : pc'[u] = pc[u] /\ child'[u] = child[u]
    BY <1>a, <2>2 DEF Types
  <2>6. BottomsKept(w)
    <3>1. Mine(w, k)
      BY <2>2 DEF Mine
    <3>2. \A d \in Proc \ {k} : status'[d] = status[d] /\ cache'[d] = cache[d]
      BY <1>a, <2>2 DEF Types
    <3>q. QED
      BY <1>p, <3>1, <3>2
  <2>7. ASSUME NEW u \in Worker, u # w, u # v PROVE CurrentHere(u)'
    <3>1. /\ deque'[u] = deque[u] /\ pc'[u] = pc[u] /\ child'[u] = child[u]
          /\ H'[u] = H[u] /\ stack'[u] = stack[u] /\ CurrentHere(u)
          /\ T(u)' = T(u) /\ Bottom(u)' = Bottom(u)
      BY <1>d, <1>s, <1>t, <2>4, <2>5, <2>7
    <3>2. pc[u] \in WorkPC => /\ status'[Bottom(u)] = status[Bottom(u)]
                              /\ cache'[Bottom(u)] = cache[Bottom(u)]
      BY <2>6, <2>7 DEF BottomsKept
    <3>q. QED
      BY <3>1, <3>2 DEF CurrentHere
  <2>8. CurrentHere(w)'
    BY <2>3, <2>5 DEF CurrentHere
  <2>9. CurrentHere(v)'
    <3>1. H'[v] = H[v] + 1 /\ deque'[v] = <<k>> /\ status'[k] = "RUNNING" /\ cache'[k] = v
      BY <1>a, <2>2 DEF Types
    <3>2. H'[v] < T(v)' /\ stack'[v][H'[v] + 1] = k
      BY <1>t, <2>2, <3>1
    <3>3. Bottom(v)' = k /\ deque'[v] # <<>>
      <4>1. Size(<<k>>) = 1 /\ <<k>>[1] = k /\ <<k>> # <<>>
        BY SingleFacts
      <4>q. QED
        BY <1>d, <3>1, <4>1
    <3>q. QED
      BY <1>t, <3>1, <3>2, <3>3 DEF CurrentHere
  <2>q. QED
    BY <2>7, <2>8, <2>9 DEF CurrentInv, CurrentHere
<1>9. ASSUME NEW w \in Worker, StealFinish(w) PROVE CurrentInv'
  <2>2. /\ pc[w] = "stealFinish" /\ pc' = [pc EXCEPT ![w] = "loop"]
        /\ status' = [status EXCEPT ![cl[w]] = "READY"]
        /\ cache' = [cache EXCEPT ![cl[w]] = None]
        /\ child' = [child EXCEPT ![w] = None]
        /\ UNCHANGED <<deque, stack, H>>
    BY <1>9 DEF StealFinish, program, results, caches, Goto, UnlockClosure,
       SetStatus, AddChild
  <2>3. /\ "stealFinish" \notin WorkPC /\ "stealFinish" \notin PopPC
        /\ "loop" \notin WorkPC /\ "loop" \notin PopPC
    BY <2>2 DEF WorkPC, PopPC, SlowPC
  <2>a. cl[w] \in Proc /\ Mine(w, cl[w])
    BY <2>2, LockFacts DEF Mine, HandPC, LockPC
  <2>b. \A d \in Proc \ {cl[w]} : status'[d] = status[d] /\ cache'[d] = cache[d]
    BY <1>a, <2>2, <2>a DEF Types
  <2>4. pc'[w] = "loop" /\ child'[w] = None /\ H'[w] = H[w]
    BY <1>a, <2>2, <2>3 DEF Types
  <2>5. \A u \in Worker \ {w} : /\ pc'[u] = pc[u] /\ child'[u] = child[u]
                                /\ H'[u] = H[u]
    BY <1>a, <2>2, <2>3 DEF Types
  <2>6. \A u \in Worker \ {w} : stack'[u] = stack[u]
    BY <1>a, <2>2, <2>3 DEF Types, Shortened, Extended
  <2>7. \A u \in Worker \ {w} : deque'[u] = deque[u]
    BY <1>a, <2>2, <2>3 DEF Types, Shortened, Extended
  <2>8. BottomsKept(w)
    BY <1>p, <2>a, <2>b
  <2>9. CurrentHere(w)'
    BY <1>d, <1>s, <1>t, <2>4, <2>2, <2>3 DEF CurrentHere
  <2>q. QED
    BY <1>h, <2>2, <2>4, <2>5, <2>6, <2>7, <2>8, <2>9
<1>10. ASSUME NEW w \in Worker, InletKilled(w) PROVE CurrentInv'
  BY <1>f, <1>10 DEF InletKilled, program, state, locks, caches, Outcome,
     BeingAborted, Polls
<1>11. ASSUME NEW w \in Worker, InletRuns(w) PROVE CurrentInv'
  BY <1>f, <1>11 DEF InletRuns, program, state, locks, caches, Outcome,
     BeingAborted, Polls
<1>12. ASSUME NEW w \in Worker, InletAborts(w) PROVE CurrentInv'
  <2>1. PICK c \in Proc, r \in SUBSET Proc :
          InletAbortsDoes(w, c, r)
    BY <1>12, InletAbortsEffect
  <2>2. /\ c = cl[w] /\ pc[w] \in PollPC
        /\ pc[w] = "return" => status[c] # "RUNNING"
        /\ complete[c] # <<>>
        /\ UNCHANGED <<pc, stack, child>>
    BY <2>1 DEF InletAbortsDoes
  <2>4. ASSUME NEW k \in Proc, pc[w] = "handlerPoll", c = Bottom(w),
               deque[w] # <<>>, status[c] = "RUNNING", cache[c] = w, H[w] = 0,
               1 < T(w), stack[w][1] = c, k = stack[w][2], k # c, k # Root,
               status[k] = "none", parent[k] = c, Fresh(k),
               deque' = [deque EXCEPT ![w] = Append(@, k)],
               status' = [status EXCEPT ![k] = "RUNNING", ![c] = "READY"],
               cache' = [cache EXCEPT ![k] = w, ![c] = None],
               H' = [H EXCEPT ![w] = 1]
        PROVE  CurrentInv'
    <3>1. pc' = pc /\ child' = child /\ stack' = stack
      BY <2>2
    <3>2. /\ deque' = [deque EXCEPT ![w] = Append(@, k)]
          /\ status' = [status EXCEPT ![k] = "RUNNING", ![c] = "READY"]
          /\ cache' = [cache EXCEPT ![k] = w, ![c] = None]
          /\ k # c /\ status[k] = "none" /\ H' = [H EXCEPT ![w] = 1]
          /\ c = Bottom(w) /\ pc[w] = "handlerPoll" /\ 1 < T(w) /\ k = stack[w][2]
      BY <2>4
    <3>3. \A d \in Proc \ {k, c} : status'[d] = status[d] /\ cache'[d] = cache[d]
      BY <1>a, <3>2 DEF Types
    <3>4. BottomsKept(w)
      <4>1. Mine(w, k)
        BY <3>2 DEF Mine
      <4>2. Mine(w, c)
        BY <3>2 DEF Mine, WorkPC, PopPC
      <4>q. QED
        BY <1>p, <3>3, <4>1, <4>2
    <3>5. Extended(deque, deque', w, k)
      BY <1>a, <3>2, ExtendedFacts DEF Types
    <3>6. \A u \in Worker \ {w} : deque'[u] = deque[u] /\ H'[u] = H[u]
      BY <1>a, <3>2, <3>5 DEF Types, Extended
    <3>7. CurrentHere(w)'
      <4>1. H'[w] = 1 /\ status'[k] = "RUNNING" /\ cache'[k] = w
        BY <1>a, <3>2 DEF Types
      <4>2. H'[w] < T(w)' /\ stack'[w][H'[w] + 1] = k
        BY <1>t, <3>1, <3>2, <4>1
      <4>3. Bottom(w)' = k /\ deque'[w] # <<>>
        BY <1>d, <3>5 DEF Extended
      <4>q. QED
        BY <1>t, <4>1, <4>2, <4>3 DEF CurrentHere
    <3>q. QED
      BY <1>h, <3>1, <3>4, <3>6, <3>7
  <2>5. ASSUME UNCHANGED <<deque, status, cache, H>>
        PROVE  CurrentInv'
    BY <1>f, <2>2, <2>5
  <2>q. QED
    BY <2>1, <2>2, <2>4, <2>5 DEF InletAbortsDoes, InletSplits
<1>13. ASSUME NEW w \in Worker, WalkDown(w) PROVE CurrentInv'
  <2>1. PICK n \in Nat \ {0}, k \in Proc :
          WalkDownDoes(w, n, k)
    BY <1>13, WalkDownEffect
  <2>q. QED
    BY <1>f, <2>1 DEF WalkDownDoes
<1>14. ASSUME NEW w \in Worker, WalkUp(w) PROVE CurrentInv'
  <2>1. PICK n \in Nat \ {0} :
          WalkUpDoes(w, n)
    BY <1>14, WalkUpEffect
  <2>q. QED
    BY <1>f, <2>1 DEF WalkUpDoes
<1>15. ASSUME NEW w \in Worker, AbortReadyClosure(w) PROVE CurrentInv'
  <2>2. /\ pc[w] = "loop" /\ cl[w] # None /\ clock[cl[w]] = None
        /\ status[cl[w]] = "READY"
        /\ UNCHANGED <<pc, deque, cache, stack, H, child>>
    BY <1>15 DEF AbortReadyClosure, program, results, tree, locks, caches,
       Hand, SetStatus, Outcome, BeingAborted, HasChildren
  <2>3. /\ "loop" \notin WorkPC /\ "loop" \notin PopPC
    BY <2>2 DEF WorkPC, PopPC, SlowPC
  <2>a. cl[w] \in Proc /\ Mine(w, cl[w])
    BY <1>a, <2>2 DEF Types, Mine, HandPC
  <2>4. ASSUME join[cl[w]] # 0,
               status' = [status EXCEPT ![cl[w]] = "SUSPENDED"]
        PROVE  CurrentInv'
    <3>1. pc'[w] = pc[w] /\ child'[w] = child[w] /\ H'[w] = H[w]
      BY <1>a, <2>2, <2>3, <2>4 DEF Types
    <3>2. \A u \in Worker \ {w} : /\ pc'[u] = pc[u] /\ child'[u] = child[u]
                                  /\ H'[u] = H[u]
      BY <1>a, <2>2, <2>3, <2>4 DEF Types
    <3>3. \A u \in Worker \ {w} : stack'[u] = stack[u]
      BY <1>a, <2>2, <2>3, <2>4 DEF Types, Shortened, Extended
    <3>4. \A u \in Worker \ {w} : deque'[u] = deque[u]
      BY <1>a, <2>2, <2>3, <2>4 DEF Types, Shortened, Extended
    <3>5. BottomsKept(w)
      <4>1. \A d \in Proc \ {cl[w]} : status'[d] = status[d] /\ cache'[d] = cache[d]
        BY <1>a, <2>2, <2>a, <2>4 DEF Types
      <4>q. QED
        BY <1>p, <2>a, <4>1
    <3>6. CurrentHere(w)'
      BY <1>d, <1>s, <1>t, <3>1, <2>2, <2>3, <2>4 DEF CurrentHere
    <3>q. QED
      BY <1>h, <2>2, <3>1, <3>2, <3>3, <3>4, <3>5, <3>6
  <2>5. ASSUME join[cl[w]] = 0,
               status' = [status EXCEPT ![cl[w]] = "RETURNING"]
        PROVE  CurrentInv'
    <3>1. pc'[w] = pc[w] /\ child'[w] = child[w] /\ H'[w] = H[w]
      BY <1>a, <2>2, <2>3, <2>5 DEF Types
    <3>2. \A u \in Worker \ {w} : /\ pc'[u] = pc[u] /\ child'[u] = child[u]
                                  /\ H'[u] = H[u]
      BY <1>a, <2>2, <2>3, <2>5 DEF Types
    <3>3. \A u \in Worker \ {w} : stack'[u] = stack[u]
      BY <1>a, <2>2, <2>3, <2>5 DEF Types, Shortened, Extended
    <3>4. \A u \in Worker \ {w} : deque'[u] = deque[u]
      BY <1>a, <2>2, <2>3, <2>5 DEF Types, Shortened, Extended
    <3>5. BottomsKept(w)
      <4>1. \A d \in Proc \ {cl[w]} : status'[d] = status[d] /\ cache'[d] = cache[d]
        BY <1>a, <2>2, <2>a, <2>5 DEF Types
      <4>q. QED
        BY <1>p, <2>a, <4>1
    <3>6. CurrentHere(w)'
      BY <1>d, <1>s, <1>t, <3>1, <2>2, <2>3, <2>5 DEF CurrentHere
    <3>q. QED
      BY <1>h, <2>2, <3>1, <3>2, <3>3, <3>4, <3>5, <3>6
  <2>q. QED
    BY <1>15, <2>2, <2>4, <2>5 DEF AbortReadyClosure, program, results, tree,
       locks, caches, Hand, SetStatus, Outcome, BeingAborted, HasChildren
<1>16. ASSUME NEW w \in Worker, Setup(w) PROVE CurrentInv'
  <2>2. /\ pc[w] = "loop" /\ cl[w] # None /\ status[cl[w]] = "READY"
        /\ clock[cl[w]] = None /\ pc' = [pc EXCEPT ![w] = "setup"]
        /\ status' = [status EXCEPT ![cl[w]] = "RUNNING"]
        /\ cache' = [cache EXCEPT ![cl[w]] = w]
        /\ stack' = [stack EXCEPT ![w] = <<cl[w]>>] /\ H' = [H EXCEPT ![w] = 0]
        /\ UNCHANGED <<deque, child>>
    BY <1>16 DEF Setup, program, results, tree, Goto, LockClosure, SetStatus,
       BeingAborted
  <2>3. /\ "loop" \notin WorkPC /\ "loop" \notin PopPC /\ "setup" \notin WorkPC
        /\ "setup" \notin PopPC
    BY <2>2 DEF WorkPC, PopPC, SlowPC
  <2>a. cl[w] \in Proc /\ Mine(w, cl[w])
    BY <1>a, <2>2 DEF Types, Mine, HandPC
  <2>b. \A d \in Proc \ {cl[w]} : status'[d] = status[d] /\ cache'[d] = cache[d]
    BY <1>a, <2>2, <2>a DEF Types
  <2>4. pc'[w] = "setup" /\ child'[w] = child[w] /\ H'[w] = 0
    BY <1>a, <2>2, <2>3 DEF Types
  <2>5. \A u \in Worker \ {w} : /\ pc'[u] = pc[u] /\ child'[u] = child[u]
                                /\ H'[u] = H[u]
    BY <1>a, <2>2, <2>3 DEF Types
  <2>6. \A u \in Worker \ {w} : stack'[u] = stack[u]
    BY <1>a, <2>2, <2>3 DEF Types, Shortened, Extended
  <2>7. \A u \in Worker \ {w} : deque'[u] = deque[u]
    BY <1>a, <2>2, <2>3 DEF Types, Shortened, Extended
  <2>8. BottomsKept(w)
    BY <1>p, <2>a, <2>b
  <2>9. CurrentHere(w)'
    BY <1>d, <1>s, <1>t, <2>4, <2>2, <2>3 DEF CurrentHere
  <2>q. QED
    BY <1>h, <2>2, <2>4, <2>5, <2>6, <2>7, <2>8, <2>9
<1>17. ASSUME NEW w \in Worker, SetupDone(w) PROVE CurrentInv'
  BY <1>g, <1>17 DEF SetupDone, program, results, tree, caches, Goto,
     UnlockClosure, Polled, Polls, WorkPC, PopPC, SlowPC
<1>18. ASSUME NEW w \in Worker, Execute(w) PROVE CurrentInv'
  <2>1. PICK c \in Proc :
          ExecuteDoes(w, c)
    BY <1>18, ExecuteEffect
  <2>2. /\ pc[w] = "add" /\ c = cl[w] /\ dlock[w] = None
        /\ status[c] = "RUNNING" /\ cache[c] = w /\ T(w) = 1 /\ H[w] = 0
        /\ stack[w][1] = c /\ pc' = [pc EXCEPT ![w] = "run"]
        /\ Extended(deque, deque', w, c)
        /\ UNCHANGED <<status, cache, stack, H, child>>
    BY <2>1 DEF ExecuteDoes
  <2>3. /\ "add" \notin WorkPC /\ "add" \notin PopPC /\ "run" \in WorkPC
        /\ "run" \notin PopPC
    BY <2>2 DEF WorkPC, PopPC, SlowPC
  <2>4. pc'[w] = "run" /\ child'[w] = child[w] /\ H'[w] = H[w]
    BY <1>a, <2>2, <2>3 DEF Types
  <2>5. \A u \in Worker \ {w} : /\ pc'[u] = pc[u] /\ child'[u] = child[u]
                                /\ H'[u] = H[u]
    BY <1>a, <2>2, <2>3 DEF Types
  <2>6. \A u \in Worker \ {w} : stack'[u] = stack[u]
    BY <1>a, <2>2, <2>3 DEF Types, Shortened, Extended
  <2>7. \A u \in Worker \ {w} : deque'[u] = deque[u]
    BY <1>a, <2>2, <2>3 DEF Types, Shortened, Extended
  <2>8. BottomsKept(w)
    BY <1>k, <2>2, <2>3
  <2>9. CurrentHere(w)'
    <3>1. Bottom(w)' = c /\ deque'[w] # <<>>
      BY <1>d, <2>2 DEF Extended
    <3>2. stack' = stack /\ H' = H /\ status' = status /\ cache' = cache /\ T(w)' = T(w)
      BY <1>t, <2>2
    <3>q. QED
      BY <2>2, <3>1, <3>2 DEF CurrentHere
  <2>q. QED
    BY <1>h, <2>2, <2>4, <2>5, <2>6, <2>7, <2>8, <2>9
<1>19. ASSUME NEW w \in Worker, ReturnLockParent(w) PROVE CurrentInv'
  <2>1. PICK k \in Proc, p \in Proc :
          ReturnLockParentDoes(w, k, p)
    BY <1>19, ReturnLockParentEffect
  <2>2. /\ pc[w] = "loop" /\ k = cl[w] /\ p = parent[k] /\ p # k /\ k # Root
        /\ clock[k] = None /\ status[k] = "RETURNING" /\ clock[p] = None
        /\ status[p] # "none" /\ pc' = [pc EXCEPT ![w] = "returnChild"]
        /\ child' = [child EXCEPT ![w] = k]
        /\ UNCHANGED <<deque, status, cache, stack, H>>
    BY <2>1 DEF ReturnLockParentDoes
  <2>3. /\ "loop" \notin WorkPC /\ "loop" \notin PopPC
        /\ "returnChild" \notin WorkPC /\ "returnChild" \notin PopPC
    BY <2>2 DEF WorkPC, PopPC, SlowPC
  <2>4. pc'[w] = "returnChild" /\ child'[w] = k /\ H'[w] = H[w]
    BY <1>a, <2>2, <2>3 DEF Types
  <2>5. \A u \in Worker \ {w} : /\ pc'[u] = pc[u] /\ child'[u] = child[u]
                                /\ H'[u] = H[u]
    BY <1>a, <2>2, <2>3 DEF Types
  <2>6. \A u \in Worker \ {w} : stack'[u] = stack[u]
    BY <1>a, <2>2, <2>3 DEF Types, Shortened, Extended
  <2>7. \A u \in Worker \ {w} : deque'[u] = deque[u]
    BY <1>a, <2>2, <2>3 DEF Types, Shortened, Extended
  <2>8. BottomsKept(w)
    BY <1>k, <2>2, <2>3
  <2>9. CurrentHere(w)'
    BY <1>d, <1>s, <1>t, <2>4, <2>2, <2>3 DEF CurrentHere
  <2>q. QED
    BY <1>h, <2>2, <2>4, <2>5, <2>6, <2>7, <2>8, <2>9
<1>20. ASSUME NEW w \in Worker, ReturnEnqueue(w) PROVE CurrentInv'
  <2>1. PICK k \in Proc, p \in Proc :
          ReturnEnqueueDoes(w, k, p)
    BY <1>20, ReturnEnqueueEffect
  <2>q. QED
    BY <1>g, <2>1 DEF ReturnEnqueueDoes, WorkPC, PopPC, SlowPC
<1>21. ASSUME NEW w \in Worker, ReturnDone(w) PROVE CurrentInv'
  <2>1. PICK k \in Proc, p \in Proc :
          ReturnDoneDoes(w, k, p)
    BY <1>21, ReturnDoneEffect
  <2>2. /\ pc[w] = "return" /\ k = child[w] /\ p = cl[w] /\ p # k
        /\ p = parent[k] /\ k # Root /\ status[k] = "RETURNING"
        /\ status[p] # "none"
        /\ status[p] = "RUNNING" \/ complete[p] = <<>>
        /\ pc' = [pc EXCEPT ![w] = "loop"]
        /\ child' = [child EXCEPT ![w] = None]
        /\ UNCHANGED <<deque, stack, H>>
    BY <2>1 DEF ReturnDoneDoes
  <2>3. /\ "return" \notin WorkPC /\ "return" \notin PopPC
        /\ "loop" \notin WorkPC /\ "loop" \notin PopPC
    BY <2>2 DEF WorkPC, PopPC, SlowPC
  <2>a. Mine(w, k)
    BY <2>2 DEF Mine, ReturnPC
  <2>4. ASSUME join[p] = 1, status[p] = "SUSPENDED",
               status' = [status EXCEPT ![k] = "freed", ![p] = "READY"],
               cache' = [cache EXCEPT ![p] = None]
        PROVE  CurrentInv'
    <3>1. pc'[w] = "loop" /\ child'[w] = None /\ H'[w] = H[w]
      BY <1>a, <2>2, <2>3, <2>4 DEF Types
    <3>2. \A u \in Worker \ {w} : /\ pc'[u] = pc[u] /\ child'[u] = child[u]
                                  /\ H'[u] = H[u]
      BY <1>a, <2>2, <2>3, <2>4 DEF Types
    <3>3. \A u \in Worker \ {w} : stack'[u] = stack[u]
      BY <1>a, <2>2, <2>3, <2>4 DEF Types, Shortened, Extended
    <3>4. \A u \in Worker \ {w} : deque'[u] = deque[u]
      BY <1>a, <2>2, <2>3, <2>4 DEF Types, Shortened, Extended
    <3>5. BottomsKept(w)
      <4>1. Mine(w, p)
        BY <2>4 DEF Mine
      <4>2. \A d \in Proc \ {k, p} : status'[d] = status[d] /\ cache'[d] = cache[d]
        BY <1>a, <2>2, <2>4 DEF Types
      <4>q. QED
        BY <1>p, <2>a, <4>1, <4>2
    <3>6. CurrentHere(w)'
      BY <1>d, <1>s, <1>t, <3>1, <2>2, <2>3, <2>4 DEF CurrentHere
    <3>q. QED
      BY <1>h, <2>2, <3>1, <3>2, <3>3, <3>4, <3>5, <3>6
  <2>5. ASSUME join[p] # 1 \/ status[p] # "SUSPENDED",
               status' = [status EXCEPT ![k] = "freed"],
               UNCHANGED <<cache>>
        PROVE  CurrentInv'
    <3>1. pc'[w] = "loop" /\ child'[w] = None /\ H'[w] = H[w]
      BY <1>a, <2>2, <2>3, <2>5 DEF Types
    <3>2. \A u \in Worker \ {w} : /\ pc'[u] = pc[u] /\ child'[u] = child[u]
                                  /\ H'[u] = H[u]
      BY <1>a, <2>2, <2>3, <2>5 DEF Types
    <3>3. \A u \in Worker \ {w} : stack'[u] = stack[u]
      BY <1>a, <2>2, <2>3, <2>5 DEF Types, Shortened, Extended
    <3>4. \A u \in Worker \ {w} : deque'[u] = deque[u]
      BY <1>a, <2>2, <2>3, <2>5 DEF Types, Shortened, Extended
    <3>5. BottomsKept(w)
      <4>1. \A d \in Proc \ {k} : status'[d] = status[d] /\ cache'[d] = cache[d]
        BY <1>a, <2>2, <2>5 DEF Types
      <4>q. QED
        BY <1>p, <2>a, <4>1
    <3>6. CurrentHere(w)'
      BY <1>d, <1>s, <1>t, <3>1, <2>2, <2>3, <2>5 DEF CurrentHere
    <3>q. QED
      BY <1>h, <2>2, <3>1, <3>2, <3>3, <3>4, <3>5, <3>6
  <2>q. QED
    BY <2>1, <2>2, <2>4, <2>5 DEF ReturnDoneDoes
<1>22. ASSUME NEW w \in Worker, Spawn(w) PROVE CurrentInv'
  <2>1. PICK c \in Proc, f \in Proc :
          SpawnDoes(w, c, f)
    BY <1>22, SpawnEffect
  <2>2. /\ pc[w] \in {"run", "synced"} /\ T(w) >= 1 /\ f = stack[w][T(w)]
        /\ status[c] = "none" /\ pc' = [pc EXCEPT ![w] = "run"]
        /\ Extended(stack, stack', w, c)
        /\ UNCHANGED <<deque, status, cache, H, child>>
    BY <2>1 DEF SpawnDoes
  <2>3. /\ "run" \in WorkPC /\ "run" \notin PopPC /\ "synced" \in WorkPC
        /\ "synced" \notin PopPC /\ pc[w] \in WorkPC /\ pc[w] \notin PopPC
    BY <2>2 DEF WorkPC, PopPC, SlowPC
  <2>4. pc'[w] = "run" /\ child'[w] = child[w] /\ H'[w] = H[w]
    BY <1>a, <2>2, <2>3 DEF Types
  <2>5. \A u \in Worker \ {w} : /\ pc'[u] = pc[u] /\ child'[u] = child[u]
                                /\ H'[u] = H[u]
    BY <1>a, <2>2, <2>3 DEF Types
  <2>6. \A u \in Worker \ {w} : stack'[u] = stack[u]
    BY <1>a, <2>2, <2>3 DEF Types, Shortened, Extended
  <2>7. \A u \in Worker \ {w} : deque'[u] = deque[u]
    BY <1>a, <2>2, <2>3 DEF Types, Shortened, Extended
  <2>8. BottomsKept(w)
    BY <1>k, <2>2, <2>3
  <2>9. CurrentHere(w)'
    <3>1. /\ H[w] < T(w) /\ H[w] \in Nat /\ T(w) \in Nat /\ pc[w] \notin PopPC
      <5>1. pc[w] \notin PopPC /\ pc[w] \in WorkPC
        BY <2>3
      <5>2. pc[w] = "synced" => pc[w] \in SlowPC
        BY DEF SlowPC
      <5>q. QED
        BY <1>t, <2>2, <5>1, <5>2 DEF IInv, StackInv
    <3>2. /\ deque[w] # <<>> /\ status[Bottom(w)] = "RUNNING" /\ cache[Bottom(w)] = w
         /\ stack[w][H[w] + 1] = Bottom(w)
      BY <1>s, <2>3, <3>1 DEF CurrentHere
    <3>3. T(w)' = T(w) + 1 /\ stack'[w][H[w] + 1] = stack[w][H[w] + 1]
      <5>1. H[w] + 1 \in 1 .. T(w)
        BY <3>1
      <5>q. QED
        BY <1>t, <2>2, <5>1 DEF Extended
    <3>4. Bottom(w)' = Bottom(w) /\ deque'[w] = deque[w] /\ H'[w] = H[w]
      BY <1>d, <2>2
    <3>q. QED
      BY <2>2, <3>1, <3>2, <3>3, <3>4 DEF CurrentHere
  <2>q. QED
    BY <1>h, <2>2, <2>4, <2>5, <2>6, <2>7, <2>8, <2>9
<1>23. ASSUME NEW w \in Worker, ReturnFast(w) PROVE CurrentInv'
  <2>1. PICK f \in Proc :
          ReturnFastDoes(w, f)
    BY <1>23, ReturnFastEffect
  <2>2. /\ pc[w] = "run" /\ f = stack[w][T(w)] /\ T(w) > 1 /\ T(w) \in Nat
        /\ status[f] = "none" \/ H[w] + 1 = T(w)
        /\ f # Root /\ pc' = [pc EXCEPT ![w] = "pop"]
        /\ Shortened(stack, stack', w) /\ child' = [child EXCEPT ![w] = f]
        /\ UNCHANGED <<deque, status, cache, H>>
    BY <2>1 DEF ReturnFastDoes
  <2>3. /\ "run" \in WorkPC /\ "run" \notin PopPC /\ "pop" \in WorkPC
        /\ "pop" \in PopPC
    BY <2>2 DEF WorkPC, PopPC, SlowPC
  <2>4. pc'[w] = "pop" /\ child'[w] = f /\ H'[w] = H[w]
    BY <1>a, <2>2, <2>3 DEF Types
  <2>5. \A u \in Worker \ {w} : /\ pc'[u] = pc[u] /\ child'[u] = child[u]
                                /\ H'[u] = H[u]
    BY <1>a, <2>2, <2>3 DEF Types
  <2>6. \A u \in Worker \ {w} : stack'[u] = stack[u]
    BY <1>a, <2>2, <2>3 DEF Types, Shortened, Extended
  <2>7. \A u \in Worker \ {w} : deque'[u] = deque[u]
    BY <1>a, <2>2, <2>3 DEF Types, Shortened, Extended
  <2>8. BottomsKept(w)
    BY <1>k, <2>2, <2>3
  <2>9. CurrentHere(w)'
    <3>1. /\ H[w] < T(w) /\ H[w] \in Nat /\ T(w) \in Nat /\ pc[w] \notin PopPC
      BY <1>t, <2>2, <2>3 DEF IInv, StackInv
    <3>2. /\ deque[w] # <<>> /\ status[Bottom(w)] = "RUNNING" /\ cache[Bottom(w)] = w
         /\ stack[w][H[w] + 1] = Bottom(w)
      BY <1>s, <2>2, <2>3, <3>1 DEF CurrentHere
    <3>3. T(w)' = T(w) - 1 /\ (H[w] < T(w)' => stack'[w][H[w] + 1] = stack[w][H[w] + 1])
      <5>1. H[w] < T(w) - 1 => H[w] + 1 \in 1 .. T(w) - 1
        BY <3>1
      <5>q. QED
        BY <1>t, <2>2, <5>1 DEF Shortened
    <3>4. Bottom(w)' = Bottom(w) /\ deque'[w] = deque[w] /\ H'[w] = H[w]
      BY <1>d, <2>2
    <3>5. H'[w] = T(w)' => child'[w] = Bottom(w)'
      BY <2>2, <2>4, <3>1, <3>2, <3>3, <3>4
    <3>6. "pop" \in PopPC /\ H'[w] <= T(w)'
      BY <2>3, <3>1, <3>3, <3>4
    <3>q. QED
      BY <2>2, <2>4, <3>1, <3>2, <3>3, <3>4, <3>5, <3>6 DEF CurrentHere
  <2>q. QED
    BY <1>h, <2>2, <2>4, <2>5, <2>6, <2>7, <2>8, <2>9
<1>24. ASSUME NEW w \in Worker, PopResult(w) PROVE CurrentInv'
  <2>2. /\ pc[w] = "pop" /\ ~Exception(w) /\ pc' = [pc EXCEPT ![w] = "run"]
        /\ child' = [child EXCEPT ![w] = None]
        /\ UNCHANGED <<deque, status, cache, stack, H>>
    BY <1>24 DEF PopResult, program, state, tree, locks, caches, Goto, Outcome
  <2>3. /\ "pop" \in WorkPC /\ "pop" \in PopPC /\ "run" \in WorkPC
        /\ "run" \notin PopPC
    BY <2>2 DEF WorkPC, PopPC, SlowPC
  <2>4. pc'[w] = "run" /\ child'[w] = None /\ H'[w] = H[w]
    BY <1>a, <2>2, <2>3 DEF Types
  <2>5. \A u \in Worker \ {w} : /\ pc'[u] = pc[u] /\ child'[u] = child[u]
                                /\ H'[u] = H[u]
    BY <1>a, <2>2, <2>3 DEF Types
  <2>6. \A u \in Worker \ {w} : stack'[u] = stack[u]
    BY <1>a, <2>2, <2>3 DEF Types, Shortened, Extended
  <2>7. \A u \in Worker \ {w} : deque'[u] = deque[u]
    BY <1>a, <2>2, <2>3 DEF Types, Shortened, Extended
  <2>8. BottomsKept(w)
    BY <1>k, <2>2, <2>3
  <2>9. CurrentHere(w)'
    <3>1. H[w] < T(w)
      BY <1>t, <2>2 DEF Exception
    <3>2. Bottom(w)' = Bottom(w) /\ deque'[w] = deque[w] /\ H'[w] = H[w] /\ T(w)' = T(w)
      BY <1>d, <1>t, <2>2
    <3>q. QED
      BY <1>s, <1>t, <2>2, <2>3, <3>1, <3>2 DEF CurrentHere
  <2>q. QED
    BY <1>h, <2>2, <2>4, <2>5, <2>6, <2>7, <2>8, <2>9
<1>25. ASSUME NEW w \in Worker, LockOwnDeque(w) PROVE CurrentInv'
  <2>2. /\ pc[w] \in {"pop", "run", "synced"} /\ dlock[w] = None
        /\ UNCHANGED <<deque, status, cache, stack, H, child>>
    BY <1>25 DEF LockOwnDeque, program, results, state, tree, caches, Goto,
       LockDeque, SlowAborts
  <2>3. /\ "pop" \in WorkPC /\ "pop" \in PopPC /\ "run" \in WorkPC
        /\ "run" \notin PopPC /\ "synced" \in WorkPC /\ "synced" \notin PopPC
        /\ "handler" \in WorkPC /\ "handler" \in PopPC /\ "sync" \in WorkPC
        /\ "sync" \notin PopPC /\ "abort" \in WorkPC /\ "abort" \notin PopPC
        /\ "result" \in WorkPC /\ "result" \notin PopPC /\ pc[w] \in WorkPC
    BY <2>2 DEF WorkPC, PopPC, SlowPC
  <2>4. ASSUME pc[w] = "pop", Exception(w),
               pc' = [pc EXCEPT ![w] = "handler"]
        PROVE  CurrentInv'
    <3>1. pc'[w] = "handler" /\ child'[w] = child[w] /\ H'[w] = H[w]
      BY <1>a, <2>2, <2>3, <2>4 DEF Types
    <3>2. \A u \in Worker \ {w} : /\ pc'[u] = pc[u] /\ child'[u] = child[u]
                                  /\ H'[u] = H[u]
      BY <1>a, <2>2, <2>3, <2>4 DEF Types
    <3>3. \A u \in Worker \ {w} : stack'[u] = stack[u]
      BY <1>a, <2>2, <2>3, <2>4 DEF Types, Shortened, Extended
    <3>4. \A u \in Worker \ {w} : deque'[u] = deque[u]
      BY <1>a, <2>2, <2>3, <2>4 DEF Types, Shortened, Extended
    <3>5. BottomsKept(w)
      BY <1>k, <2>2, <2>3, <2>4
    <3>6. CurrentHere(w)'
      BY <1>d, <1>s, <1>t, <3>1, <2>2, <2>3, <2>4 DEF CurrentHere
    <3>q. QED
      BY <1>h, <2>2, <3>1, <3>2, <3>3, <3>4, <3>5, <3>6
  <2>5. ASSUME pc[w] = "run", T(w) = 1, pc' = [pc EXCEPT ![w] = "sync"]
        PROVE  CurrentInv'
    <3>1. pc'[w] = "sync" /\ child'[w] = child[w] /\ H'[w] = H[w]
      BY <1>a, <2>2, <2>3, <2>5 DEF Types
    <3>2. \A u \in Worker \ {w} : /\ pc'[u] = pc[u] /\ child'[u] = child[u]
                                  /\ H'[u] = H[u]
      BY <1>a, <2>2, <2>3, <2>5 DEF Types
    <3>3. \A u \in Worker \ {w} : stack'[u] = stack[u]
      BY <1>a, <2>2, <2>3, <2>5 DEF Types, Shortened, Extended
    <3>4. \A u \in Worker \ {w} : deque'[u] = deque[u]
      BY <1>a, <2>2, <2>3, <2>5 DEF Types, Shortened, Extended
    <3>5. BottomsKept(w)
      BY <1>k, <2>2, <2>3, <2>5
    <3>6. CurrentHere(w)'
      BY <1>d, <1>s, <1>t, <3>1, <2>2, <2>3, <2>5 DEF CurrentHere
    <3>q. QED
      BY <1>h, <2>2, <3>1, <3>2, <3>3, <3>4, <3>5, <3>6
  <2>6. ASSUME pc[w] = "run", T(w) = 1, Running(w) # Root,
               pc' = [pc EXCEPT ![w] = "abort"]
        PROVE  CurrentInv'
    <3>1. pc'[w] = "abort" /\ child'[w] = child[w] /\ H'[w] = H[w]
      BY <1>a, <2>2, <2>3, <2>6 DEF Types
    <3>2. \A u \in Worker \ {w} : /\ pc'[u] = pc[u] /\ child'[u] = child[u]
                                  /\ H'[u] = H[u]
      BY <1>a, <2>2, <2>3, <2>6 DEF Types
    <3>3. \A u \in Worker \ {w} : stack'[u] = stack[u]
      BY <1>a, <2>2, <2>3, <2>6 DEF Types, Shortened, Extended
    <3>4. \A u \in Worker \ {w} : deque'[u] = deque[u]
      BY <1>a, <2>2, <2>3, <2>6 DEF Types, Shortened, Extended
    <3>5. BottomsKept(w)
      BY <1>k, <2>2, <2>3, <2>6
    <3>6. CurrentHere(w)'
      BY <1>d, <1>s, <1>t, <3>1, <2>2, <2>3, <2>6 DEF CurrentHere
    <3>q. QED
      BY <1>h, <2>2, <3>1, <3>2, <3>3, <3>4, <3>5, <3>6
  <2>7. ASSUME pc[w] = "synced", Running(w) # Root,
               pc' = [pc EXCEPT ![w] = "result"]
        PROVE  CurrentInv'
    <3>1. pc'[w] = "result" /\ child'[w] = child[w] /\ H'[w] = H[w]
      BY <1>a, <2>2, <2>3, <2>7 DEF Types
    <3>2. \A u \in Worker \ {w} : /\ pc'[u] = pc[u] /\ child'[u] = child[u]
                                  /\ H'[u] = H[u]
      BY <1>a, <2>2, <2>3, <2>7 DEF Types
    <3>3. \A u \in Worker \ {w} : stack'[u] = stack[u]
      BY <1>a, <2>2, <2>3, <2>7 DEF Types, Shortened, Extended
    <3>4. \A u \in Worker \ {w} : deque'[u] = deque[u]
      BY <1>a, <2>2, <2>3, <2>7 DEF Types, Shortened, Extended
    <3>5. BottomsKept(w)
      BY <1>k, <2>2, <2>3, <2>7
    <3>6. CurrentHere(w)'
      BY <1>d, <1>s, <1>t, <3>1, <2>2, <2>3, <2>7 DEF CurrentHere
    <3>q. QED
      BY <1>h, <2>2, <3>1, <3>2, <3>3, <3>4, <3>5, <3>6
  <2>q. QED
    BY <1>25, <2>2, <2>4, <2>5, <2>6, <2>7 DEF LockOwnDeque, program, results,
       state, tree, caches, Goto, LockDeque, SlowAborts
<1>26. ASSUME NEW w \in Worker, LockBottom(w) PROVE CurrentInv'
  <2>1. PICK c \in Proc :
          LockBottomDoes(w, c)
    BY <1>26, LockBottomEffect
  <2>2. /\ pc[w] \in {"handler", "sync", "abort", "result"} /\ c = Bottom(w)
        /\ deque[w] # <<>> /\ clock[c] = None
        /\ UNCHANGED <<deque, status, cache, stack, H, child>>
    BY <2>1 DEF LockBottomDoes
  <2>3. /\ "handler" \in WorkPC /\ "handler" \in PopPC /\ "sync" \in WorkPC
        /\ "sync" \notin PopPC /\ "abort" \in WorkPC /\ "abort" \notin PopPC
        /\ "result" \in WorkPC /\ "result" \notin PopPC
        /\ "handlerPoll" \in WorkPC /\ "handlerPoll" \in PopPC
        /\ "syncPoll" \in WorkPC /\ "syncPoll" \notin PopPC
        /\ "setResult" \in WorkPC /\ "setResult" \notin PopPC
        /\ "abortPoll" \in WorkPC /\ "abortPoll" \notin PopPC
        /\ pc[w] \in WorkPC
    BY <2>2 DEF WorkPC, PopPC, SlowPC
  <2>4. ASSUME pc[w] = "handler", pc' = [pc EXCEPT ![w] = "handlerPoll"]
        PROVE  CurrentInv'
    <3>1. pc'[w] = "handlerPoll" /\ child'[w] = child[w] /\ H'[w] = H[w]
      BY <1>a, <2>2, <2>3, <2>4 DEF Types
    <3>2. \A u \in Worker \ {w} : /\ pc'[u] = pc[u] /\ child'[u] = child[u]
                                  /\ H'[u] = H[u]
      BY <1>a, <2>2, <2>3, <2>4 DEF Types
    <3>3. \A u \in Worker \ {w} : stack'[u] = stack[u]
      BY <1>a, <2>2, <2>3, <2>4 DEF Types, Shortened, Extended
    <3>4. \A u \in Worker \ {w} : deque'[u] = deque[u]
      BY <1>a, <2>2, <2>3, <2>4 DEF Types, Shortened, Extended
    <3>5. BottomsKept(w)
      BY <1>k, <2>2, <2>3, <2>4
    <3>6. CurrentHere(w)'
      BY <1>d, <1>s, <1>t, <3>1, <2>2, <2>3, <2>4 DEF CurrentHere
    <3>q. QED
      BY <1>h, <2>2, <3>1, <3>2, <3>3, <3>4, <3>5, <3>6
  <2>5. ASSUME pc[w] = "sync", pc' = [pc EXCEPT ![w] = "syncPoll"]
        PROVE  CurrentInv'
    <3>1. pc'[w] = "syncPoll" /\ child'[w] = child[w] /\ H'[w] = H[w]
      BY <1>a, <2>2, <2>3, <2>5 DEF Types
    <3>2. \A u \in Worker \ {w} : /\ pc'[u] = pc[u] /\ child'[u] = child[u]
                                  /\ H'[u] = H[u]
      BY <1>a, <2>2, <2>3, <2>5 DEF Types
    <3>3. \A u \in Worker \ {w} : stack'[u] = stack[u]
      BY <1>a, <2>2, <2>3, <2>5 DEF Types, Shortened, Extended
    <3>4. \A u \in Worker \ {w} : deque'[u] = deque[u]
      BY <1>a, <2>2, <2>3, <2>5 DEF Types, Shortened, Extended
    <3>5. BottomsKept(w)
      BY <1>k, <2>2, <2>3, <2>5
    <3>6. CurrentHere(w)'
      BY <1>d, <1>s, <1>t, <3>1, <2>2, <2>3, <2>5 DEF CurrentHere
    <3>q. QED
      BY <1>h, <2>2, <3>1, <3>2, <3>3, <3>4, <3>5, <3>6
  <2>6. ASSUME pc[w] = "result", pc' = [pc EXCEPT ![w] = "setResult"]
        PROVE  CurrentInv'
    <3>1. pc'[w] = "setResult" /\ child'[w] = child[w] /\ H'[w] = H[w]
      BY <1>a, <2>2, <2>3, <2>6 DEF Types
    <3>2. \A u \in Worker \ {w} : /\ pc'[u] = pc[u] /\ child'[u] = child[u]
                                  /\ H'[u] = H[u]
      BY <1>a, <2>2, <2>3, <2>6 DEF Types
    <3>3. \A u \in Worker \ {w} : stack'[u] = stack[u]
      BY <1>a, <2>2, <2>3, <2>6 DEF Types, Shortened, Extended
    <3>4. \A u \in Worker \ {w} : deque'[u] = deque[u]
      BY <1>a, <2>2, <2>3, <2>6 DEF Types, Shortened, Extended
    <3>5. BottomsKept(w)
      BY <1>k, <2>2, <2>3, <2>6
    <3>6. CurrentHere(w)'
      BY <1>d, <1>s, <1>t, <3>1, <2>2, <2>3, <2>6 DEF CurrentHere
    <3>q. QED
      BY <1>h, <2>2, <3>1, <3>2, <3>3, <3>4, <3>5, <3>6
  <2>7. ASSUME NEW s \in {ABORT_ALL, ALMOST_NO_ABORT}, pc[w] = "abort",
               status[c] = "RUNNING", pc' = [pc EXCEPT ![w] = "abortPoll"]
        PROVE  CurrentInv'
    <3>1. pc'[w] = "abortPoll" /\ child'[w] = child[w] /\ H'[w] = H[w]
      BY <1>a, <2>2, <2>3, <2>7 DEF Types
    <3>2. \A u \in Worker \ {w} : /\ pc'[u] = pc[u] /\ child'[u] = child[u]
                                  /\ H'[u] = H[u]
      BY <1>a, <2>2, <2>3, <2>7 DEF Types
    <3>3. \A u \in Worker \ {w} : stack'[u] = stack[u]
      BY <1>a, <2>2, <2>3, <2>7 DEF Types, Shortened, Extended
    <3>4. \A u \in Worker \ {w} : deque'[u] = deque[u]
      BY <1>a, <2>2, <2>3, <2>7 DEF Types, Shortened, Extended
    <3>5. BottomsKept(w)
      BY <1>k, <2>2, <2>3, <2>7
    <3>6. CurrentHere(w)'
      BY <1>d, <1>s, <1>t, <3>1, <2>2, <2>3, <2>7 DEF CurrentHere
    <3>q. QED
      BY <1>h, <2>2, <3>1, <3>2, <3>3, <3>4, <3>5, <3>6
  <2>q. QED
    BY <2>1, <2>2, <2>4, <2>5, <2>6, <2>7 DEF LockBottomDoes
<1>27. ASSUME NEW w \in Worker, Sync(w) PROVE CurrentInv'
  <2>1. PICK c \in Proc :
          SyncDoes(w, c)
    BY <1>27, SyncEffect
  <2>2. /\ pc[w] = "syncPoll" /\ c = cl[w] /\ c = Bottom(w)
        /\ c = deque[w][Size(deque[w])] /\ T(w) = 1 /\ H[w] = 0
        /\ status[c] = "RUNNING" /\ stack[w][1] = c /\ cache[c] = w
        /\ complete[c] = <<>>
        /\ UNCHANGED <<cache, H, child>>
    BY <2>1 DEF SyncDoes
  <2>3. /\ "syncPoll" \in WorkPC /\ "syncPoll" \notin PopPC
        /\ "loop" \notin WorkPC /\ "loop" \notin PopPC /\ "synced" \in WorkPC
        /\ "synced" \notin PopPC
    BY <2>2 DEF WorkPC, PopPC, SlowPC
  <2>a. Mine(w, c)
    BY <2>2, <2>3 DEF Mine
  <2>4. ASSUME join[c] # 0, pc' = [pc EXCEPT ![w] = "loop"],
               Shortened(deque, deque', w),
               status' = [status EXCEPT ![c] = "SUSPENDED"],
               stack' = [stack EXCEPT ![w] = <<>>]
        PROVE  CurrentInv'
    <3>1. pc'[w] = "loop" /\ child'[w] = child[w] /\ H'[w] = H[w]
      BY <1>a, <2>2, <2>3, <2>4 DEF Types
    <3>2. \A u \in Worker \ {w} : /\ pc'[u] = pc[u] /\ child'[u] = child[u]
                                  /\ H'[u] = H[u]
      BY <1>a, <2>2, <2>3, <2>4 DEF Types
    <3>3. \A u \in Worker \ {w} : stack'[u] = stack[u]
      BY <1>a, <2>2, <2>3, <2>4 DEF Types, Shortened, Extended
    <3>4. \A u \in Worker \ {w} : deque'[u] = deque[u]
      BY <1>a, <2>2, <2>3, <2>4 DEF Types, Shortened, Extended
    <3>5. BottomsKept(w)
      <4>1. \A d \in Proc \ {c} : status'[d] = status[d] /\ cache'[d] = cache[d]
        BY <1>a, <2>2, <2>4 DEF Types
      <4>q. QED
        BY <1>p, <2>a, <4>1
    <3>6. CurrentHere(w)'
      BY <1>d, <1>s, <1>t, <3>1, <2>2, <2>3, <2>4 DEF CurrentHere
    <3>q. QED
      BY <1>h, <2>2, <3>1, <3>2, <3>3, <3>4, <3>5, <3>6
  <2>5. ASSUME join[c] = 0, pc' = [pc EXCEPT ![w] = "synced"],
               UNCHANGED <<deque, status, stack>>
        PROVE  CurrentInv'
    <3>1. pc'[w] = "synced" /\ child'[w] = child[w] /\ H'[w] = H[w]
      BY <1>a, <2>2, <2>3, <2>5 DEF Types
    <3>2. \A u \in Worker \ {w} : /\ pc'[u] = pc[u] /\ child'[u] = child[u]
                                  /\ H'[u] = H[u]
      BY <1>a, <2>2, <2>3, <2>5 DEF Types
    <3>3. \A u \in Worker \ {w} : stack'[u] = stack[u]
      BY <1>a, <2>2, <2>3, <2>5 DEF Types, Shortened, Extended
    <3>4. \A u \in Worker \ {w} : deque'[u] = deque[u]
      BY <1>a, <2>2, <2>3, <2>5 DEF Types, Shortened, Extended
    <3>5. BottomsKept(w)
      BY <1>k, <2>2, <2>3, <2>5
    <3>6. CurrentHere(w)'
      BY <1>d, <1>s, <1>t, <3>1, <2>2, <2>3, <2>5 DEF CurrentHere
    <3>q. QED
      BY <1>h, <2>2, <3>1, <3>2, <3>3, <3>4, <3>5, <3>6
  <2>q. QED
    BY <2>1, <2>2, <2>4, <2>5 DEF SyncDoes
<1>28. ASSUME NEW w \in Worker, AbortSlow(w) PROVE CurrentInv'
  BY <1>g, <1>28 DEF AbortSlow, program, results, tree, caches, Goto,
     UnlockBoth, Polled, Hand, UnlockClosure, UnlockDeque, Polls, WorkPC,
     PopPC, SlowPC
<1>29. ASSUME NEW w \in Worker, SetResult(w) PROVE CurrentInv'
  <2>1. PICK c \in Proc :
          SetResultDoes(w, c)
    BY <1>29, SetResultEffect
  <2>2. /\ pc[w] = "setResult" /\ c = cl[w] /\ c = Bottom(w)
        /\ c = deque[w][Size(deque[w])] /\ T(w) = 1 /\ H[w] = 0 /\ c # Root
        /\ deque[w] # <<>> /\ status[c] = "RUNNING" /\ stack[w][1] = c
        /\ cache[c] = w /\ pc' = [pc EXCEPT ![w] = "loop"]
        /\ status' = [status EXCEPT ![c] = "RETURNING"]
        /\ stack' = [stack EXCEPT ![w] = <<>>]
        /\ UNCHANGED <<deque, cache, H, child>>
    BY <2>1 DEF SetResultDoes
  <2>3. /\ "setResult" \in WorkPC /\ "setResult" \notin PopPC
        /\ "loop" \notin WorkPC /\ "loop" \notin PopPC
    BY <2>2 DEF WorkPC, PopPC, SlowPC
  <2>a. Mine(w, c)
    BY <2>2, <2>3 DEF Mine
  <2>b. \A d \in Proc \ {c} : status'[d] = status[d] /\ cache'[d] = cache[d]
    BY <1>a, <2>2 DEF Types
  <2>4. pc'[w] = "loop" /\ child'[w] = child[w] /\ H'[w] = H[w]
    BY <1>a, <2>2, <2>3 DEF Types
  <2>5. \A u \in Worker \ {w} : /\ pc'[u] = pc[u] /\ child'[u] = child[u]
                                /\ H'[u] = H[u]
    BY <1>a, <2>2, <2>3 DEF Types
  <2>6. \A u \in Worker \ {w} : stack'[u] = stack[u]
    BY <1>a, <2>2, <2>3 DEF Types, Shortened, Extended
  <2>7. \A u \in Worker \ {w} : deque'[u] = deque[u]
    BY <1>a, <2>2, <2>3 DEF Types, Shortened, Extended
  <2>8. BottomsKept(w)
    BY <1>p, <2>a, <2>b
  <2>9. CurrentHere(w)'
    BY <1>d, <1>s, <1>t, <2>4, <2>2, <2>3 DEF CurrentHere
  <2>q. QED
    BY <1>h, <2>2, <2>4, <2>5, <2>6, <2>7, <2>8, <2>9
<1>30. ASSUME NEW w \in Worker, Done(w) PROVE CurrentInv'
  BY <1>g, <1>30 DEF Done, results, state, tree, locks, caches, Goto,
     AfterSync, WorkPC, PopPC, SlowPC
<1>31. ASSUME NEW w \in Worker, RemoveAndFree(w) PROVE CurrentInv'
  <2>1. RemoveAndFreeDoes(w)
    BY <1>31, RemoveAndFreeEffect
  <2>2. /\ pc[w] = "rootEnd" /\ Root = Bottom(w)
        /\ Root = deque[w][Size(deque[w])] /\ dlock[w] = None /\ T(w) = 1
        /\ H[w] = 0 /\ Root \in Proc /\ status[Root] = "RUNNING"
        /\ cache[Root] = w /\ pc' = [pc EXCEPT ![w] = "loop"]
        /\ Shortened(deque, deque', w)
        /\ status' = [status EXCEPT ![Root] = "freed"]
        /\ stack' = [stack EXCEPT ![w] = <<>>]
        /\ UNCHANGED <<cache, H, child>>
    BY <2>1 DEF RemoveAndFreeDoes
  <2>3. /\ "rootEnd" \in WorkPC /\ "rootEnd" \notin PopPC
        /\ "loop" \notin WorkPC /\ "loop" \notin PopPC
    BY <2>2 DEF WorkPC, PopPC, SlowPC
  <2>a. Mine(w, Root)
    BY <2>2, <2>3 DEF Mine
  <2>b. \A d \in Proc \ {Root} : status'[d] = status[d] /\ cache'[d] = cache[d]
    BY <1>a, <2>2 DEF Types
  <2>4. pc'[w] = "loop" /\ child'[w] = child[w] /\ H'[w] = H[w]
    BY <1>a, <2>2, <2>3 DEF Types
  <2>5. \A u \in Worker \ {w} : /\ pc'[u] = pc[u] /\ child'[u] = child[u]
                                /\ H'[u] = H[u]
    BY <1>a, <2>2, <2>3 DEF Types
  <2>6. \A u \in Worker \ {w} : stack'[u] = stack[u]
    BY <1>a, <2>2, <2>3 DEF Types, Shortened, Extended
  <2>7. \A u \in Worker \ {w} : deque'[u] = deque[u]
    BY <1>a, <2>2, <2>3 DEF Types, Shortened, Extended
  <2>8. BottomsKept(w)
    BY <1>p, <2>a, <2>b
  <2>9. CurrentHere(w)'
    BY <1>d, <1>s, <1>t, <2>4, <2>2, <2>3 DEF CurrentHere
  <2>q. QED
    BY <1>h, <2>2, <2>4, <2>5, <2>6, <2>7, <2>8, <2>9
<1>32. ASSUME NEW w \in Worker, CilkExit(w) PROVE CurrentInv'
  <2>1. CilkExitDoes(w)
    BY <1>32, CilkExitEffect
  <2>q. QED
    BY <1>f, <1>g, <2>1 DEF CilkExitDoes, WorkPC, PopPC, SlowPC
<1>33. ASSUME NEW w \in Worker, CilkExitDone(w) PROVE CurrentInv'
  BY <1>g, <1>33 DEF CilkExitDone, program, results, tree, caches, Goto, Hand,
     UnlockClosure, Polled, Polls, WorkPC, PopPC, SlowPC
<1>34. ASSUME NEW w \in Worker, HandlerPolled(w) PROVE CurrentInv'
  <2>1. PICK t \in Proc, t1 \in Proc :
          HandlerPolledDoes(w, t, t1)
    BY <1>34, HandlerPolledEffect
  <2>q. QED
    BY <1>g, <2>1 DEF HandlerPolledDoes, WorkPC, PopPC, SlowPC
<1>35. ASSUME NEW w \in Worker, HandlerSwap(w) PROVE CurrentInv'
  BY <1>g, <1>35 DEF HandlerSwap, program, results, state, tree, caches, Goto,
     LockClosure, WorkPC, PopPC, SlowPC
<1>36. ASSUME NEW w \in Worker, HandlerStolen(w) PROVE CurrentInv'
  <2>1. PICK c \in Proc :
          HandlerStolenDoes(w, c)
    BY <1>36, HandlerStolenEffect
  <2>2. /\ pc[w] = "handlerAct" /\ c = cl[w] /\ c = Bottom(w)
        /\ c = deque[w][Size(deque[w])] /\ c # Root /\ deque[w] # <<>>
        /\ T(w) \in Nat \ {0} /\ H[w] \in Nat /\ H[w] >= T(w)
        /\ status[c] = "RUNNING" => child[w] = c /\ cache[c] = w
        /\ status[c] \in {"RUNNING", "RETURNING"}
        /\ status' = [status EXCEPT ![c] = "RETURNING"]
        /\ Shortened(stack, stack', w) /\ child' = [child EXCEPT ![w] = None]
        /\ UNCHANGED <<deque, cache, H>>
    BY <2>1 DEF HandlerStolenDoes
  <2>3. /\ "handlerAct" \in WorkPC /\ "handlerAct" \in PopPC
        /\ "loop" \notin WorkPC /\ "loop" \notin PopPC /\ "pop" \in WorkPC
        /\ "pop" \in PopPC
    BY <2>2 DEF WorkPC, PopPC, SlowPC
  <2>a. Mine(w, c)
    BY <2>2, <2>3 DEF Mine
  <2>b. \A d \in Proc \ {c} : status'[d] = status[d] /\ cache'[d] = cache[d]
    BY <1>a, <2>2 DEF Types
  <2>4. ASSUME T(w) = 1, pc' = [pc EXCEPT ![w] = "loop"]
        PROVE  CurrentInv'
    <3>1. pc'[w] = "loop" /\ child'[w] = None /\ H'[w] = H[w]
      BY <1>a, <2>2, <2>3, <2>4 DEF Types
    <3>2. \A u \in Worker \ {w} : /\ pc'[u] = pc[u] /\ child'[u] = child[u]
                                  /\ H'[u] = H[u]
      BY <1>a, <2>2, <2>3, <2>4 DEF Types
    <3>3. \A u \in Worker \ {w} : stack'[u] = stack[u]
      BY <1>a, <2>2, <2>3, <2>4 DEF Types, Shortened, Extended
    <3>4. \A u \in Worker \ {w} : deque'[u] = deque[u]
      BY <1>a, <2>2, <2>3, <2>4 DEF Types, Shortened, Extended
    <3>5. BottomsKept(w)
      BY <1>p, <2>a, <2>b
    <3>6. CurrentHere(w)'
      BY <1>d, <1>s, <1>t, <3>1, <2>2, <2>3, <2>4 DEF CurrentHere
    <3>q. QED
      BY <1>h, <2>2, <3>1, <3>2, <3>3, <3>4, <3>5, <3>6
  <2>5. ASSUME T(w) # 1, pc' = [pc EXCEPT ![w] = "pop"]
        PROVE  CurrentInv'
    <3>1. pc'[w] = "pop" /\ child'[w] = None /\ H'[w] = H[w]
      BY <1>a, <2>2, <2>3, <2>5 DEF Types
    <3>2. \A u \in Worker \ {w} : /\ pc'[u] = pc[u] /\ child'[u] = child[u]
                                  /\ H'[u] = H[u]
      BY <1>a, <2>2, <2>3, <2>5 DEF Types
    <3>3. \A u \in Worker \ {w} : stack'[u] = stack[u]
      BY <1>a, <2>2, <2>3, <2>5 DEF Types, Shortened, Extended
    <3>4. \A u \in Worker \ {w} : deque'[u] = deque[u]
      BY <1>a, <2>2, <2>3, <2>5 DEF Types, Shortened, Extended
    <3>5. BottomsKept(w)
      BY <1>p, <2>a, <2>b
    <3>6. CurrentHere(w)'
      <4>1. T(w)' = T(w) - 1 /\ H'[w] >= T(w)'
        BY <1>t, <2>2 DEF Shortened
      <4>2. status'[c] = "RETURNING"
        BY <1>a, <2>2 DEF Types
      <4>3. Bottom(w)' = c /\ deque'[w] # <<>>
        BY <1>d, <2>2
      <4>q. QED
        BY <2>3, <2>5, <3>1, <4>1, <4>2, <4>3 DEF CurrentHere
    <3>q. QED
      BY <1>h, <2>2, <3>1, <3>2, <3>3, <3>4, <3>5, <3>6
  <2>q. QED
    BY <2>1, <2>2, <2>4, <2>5 DEF HandlerStolenDoes
<1>37. ASSUME NEW w \in Worker, HandlerAbort(w) PROVE CurrentInv'
  <2>1. PICK c \in Proc, f \in Proc :
          HandlerAbortDoes(w, c, f)
    BY <1>37, HandlerAbortEffect
  <2>2. /\ pc[w] = "handlerAct" /\ c = cl[w] /\ c = Bottom(w)
        /\ c = deque[w][Size(deque[w])] /\ deque[w] # <<>>
        /\ T(w) \in Nat \ {0} /\ H[w] \in Nat /\ H[w] < T(w)
        /\ status[c] = "RUNNING" /\ cache[c] = w /\ stack[w][H[w] + 1] = c
        /\ Shortened(stack, stack', w)
        /\ UNCHANGED <<cache, H>>
    BY <2>1 DEF HandlerAbortDoes
  <2>3. /\ "handlerAct" \in WorkPC /\ "handlerAct" \in PopPC
        /\ "loop" \notin WorkPC /\ "loop" \notin PopPC /\ "pop" \in WorkPC
        /\ "pop" \in PopPC
    BY <2>2 DEF WorkPC, PopPC, SlowPC
  <2>a. Mine(w, c)
    BY <2>2, <2>3 DEF Mine
  <2>4. ASSUME T(w) = 1, H[w] = 0, join[c] # 0,
               pc' = [pc EXCEPT ![w] = "loop"], Shortened(deque, deque', w),
               status' = [status EXCEPT ![c] = "SUSPENDED"],
               child' = [child EXCEPT ![w] = None]
        PROVE  CurrentInv'
    <3>1. pc'[w] = "loop" /\ child'[w] = None /\ H'[w] = H[w]
      BY <1>a, <2>2, <2>3, <2>4 DEF Types
    <3>2. \A u \in Worker \ {w} : /\ pc'[u] = pc[u] /\ child'[u] = child[u]
                                  /\ H'[u] = H[u]
      BY <1>a, <2>2, <2>3, <2>4 DEF Types
    <3>3. \A u \in Worker \ {w} : stack'[u] = stack[u]
      BY <1>a, <2>2, <2>3, <2>4 DEF Types, Shortened, Extended
    <3>4. \A u \in Worker \ {w} : deque'[u] = deque[u]
      BY <1>a, <2>2, <2>3, <2>4 DEF Types, Shortened, Extended
    <3>5. BottomsKept(w)
      <4>1. \A d \in Proc \ {c} : status'[d] = status[d] /\ cache'[d] = cache[d]
        BY <1>a, <2>2, <2>4 DEF Types
      <4>q. QED
        BY <1>p, <2>a, <4>1
    <3>6. CurrentHere(w)'
      BY <1>d, <1>s, <1>t, <3>1, <2>2, <2>3, <2>4 DEF CurrentHere
    <3>q. QED
      BY <1>h, <2>2, <3>1, <3>2, <3>3, <3>4, <3>5, <3>6
  <2>5. ASSUME T(w) = 1, H[w] = 0, join[c] = 0, c # Root,
               pc' = [pc EXCEPT ![w] = "loop"],
               status' = [status EXCEPT ![c] = "RETURNING"],
               child' = [child EXCEPT ![w] = None],
               UNCHANGED <<deque>>
        PROVE  CurrentInv'
    <3>1. pc'[w] = "loop" /\ child'[w] = None /\ H'[w] = H[w]
      BY <1>a, <2>2, <2>3, <2>5 DEF Types
    <3>2. \A u \in Worker \ {w} : /\ pc'[u] = pc[u] /\ child'[u] = child[u]
                                  /\ H'[u] = H[u]
      BY <1>a, <2>2, <2>3, <2>5 DEF Types
    <3>3. \A u \in Worker \ {w} : stack'[u] = stack[u]
      BY <1>a, <2>2, <2>3, <2>5 DEF Types, Shortened, Extended
    <3>4. \A u \in Worker \ {w} : deque'[u] = deque[u]
      BY <1>a, <2>2, <2>3, <2>5 DEF Types, Shortened, Extended
    <3>5. BottomsKept(w)
      <4>1. \A d \in Proc \ {c} : status'[d] = status[d] /\ cache'[d] = cache[d]
        BY <1>a, <2>2, <2>5 DEF Types
      <4>q. QED
        BY <1>p, <2>a, <4>1
    <3>6. CurrentHere(w)'
      BY <1>d, <1>s, <1>t, <3>1, <2>2, <2>3, <2>5 DEF CurrentHere
    <3>q. QED
      BY <1>h, <2>2, <3>1, <3>2, <3>3, <3>4, <3>5, <3>6
  <2>6. ASSUME T(w) # 1, H[w] + 1 = T(w), join[c] = 0, c # Root,
               pc' = [pc EXCEPT ![w] = "pop"],
               status' = [status EXCEPT ![c] = "RETURNING"],
               child' = [child EXCEPT ![w] = c],
               UNCHANGED <<deque>>
        PROVE  CurrentInv'
    <3>1. pc'[w] = "pop" /\ child'[w] = c /\ H'[w] = H[w]
      BY <1>a, <2>2, <2>3, <2>6 DEF Types
    <3>2. \A u \in Worker \ {w} : /\ pc'[u] = pc[u] /\ child'[u] = child[u]
                                  /\ H'[u] = H[u]
      BY <1>a, <2>2, <2>3, <2>6 DEF Types
    <3>3. \A u \in Worker \ {w} : stack'[u] = stack[u]
      BY <1>a, <2>2, <2>3, <2>6 DEF Types, Shortened, Extended
    <3>4. \A u \in Worker \ {w} : deque'[u] = deque[u]
      BY <1>a, <2>2, <2>3, <2>6 DEF Types, Shortened, Extended
    <3>5. BottomsKept(w)
      <4>1. \A d \in Proc \ {c} : status'[d] = status[d] /\ cache'[d] = cache[d]
        BY <1>a, <2>2, <2>6 DEF Types
      <4>q. QED
        BY <1>p, <2>a, <4>1
    <3>6. CurrentHere(w)'
      <4>1. T(w)' = T(w) - 1 /\ H'[w] >= T(w)'
        BY <1>t, <2>2, <2>6 DEF Shortened
      <4>2. status'[c] = "RETURNING"
        BY <1>a, <2>2, <2>6 DEF Types
      <4>3. Bottom(w)' = c /\ deque'[w] # <<>>
        BY <1>d, <2>2, <2>6
      <4>q. QED
        BY <2>3, <2>6, <3>1, <4>1, <4>2, <4>3 DEF CurrentHere
    <3>q. QED
      BY <1>h, <2>2, <3>1, <3>2, <3>3, <3>4, <3>5, <3>6
  <2>7. ASSUME H[w] + 1 < T(w), f = stack[w][T(w)], f # Root,
               status[f] = "none", pc' = [pc EXCEPT ![w] = "pop"],
               child' = [child EXCEPT ![w] = f],
               UNCHANGED <<deque, status>>
        PROVE  CurrentInv'
    <3>1. pc'[w] = "pop" /\ child'[w] = f /\ H'[w] = H[w]
      BY <1>a, <2>2, <2>3, <2>7 DEF Types
    <3>2. \A u \in Worker \ {w} : /\ pc'[u] = pc[u] /\ child'[u] = child[u]
                                  /\ H'[u] = H[u]
      BY <1>a, <2>2, <2>3, <2>7 DEF Types
    <3>3. \A u \in Worker \ {w} : stack'[u] = stack[u]
      BY <1>a, <2>2, <2>3, <2>7 DEF Types, Shortened, Extended
    <3>4. \A u \in Worker \ {w} : deque'[u] = deque[u]
      BY <1>a, <2>2, <2>3, <2>7 DEF Types, Shortened, Extended
    <3>5. BottomsKept(w)
      BY <1>k, <2>2, <2>3, <2>7
    <3>6. CurrentHere(w)'
      <4>1. T(w)' = T(w) - 1 /\ H'[w] < T(w)' /\ H'[w] = H[w]
        BY <1>t, <2>2, <2>7 DEF Shortened
      <4>2. H[w] + 1 \in 1 .. T(w) - 1
        BY <1>t, <2>7, <4>1
      <4>5. stack'[w][H[w] + 1] = c
        BY <1>t, <2>2, <2>7, <4>2 DEF Shortened
      <4>3. Bottom(w)' = c /\ deque'[w] # <<>> /\ status'[c] = "RUNNING" /\ cache'[c] = w
        BY <1>d, <2>2, <2>7
      <4>q. QED
        BY <1>t, <2>3, <2>7, <3>1, <4>1, <4>5, <4>3 DEF CurrentHere
    <3>q. QED
      BY <1>h, <2>2, <3>1, <3>2, <3>3, <3>4, <3>5, <3>6
  <2>q. QED
    BY <2>1, <2>2, <2>4, <2>5, <2>6, <2>7 DEF HandlerAbortDoes, AbortWaits,
       AbortReturns, AbortPops
<1>38. ASSUME NEW w \in Worker, HandlerResume(w) PROVE CurrentInv'
  <2>2. /\ pc[w] = "handlerAct" /\ ~(H[w] >= T(w))
        /\ pc' = [pc EXCEPT ![w] = "run"]
        /\ child' = [child EXCEPT ![w] = None]
        /\ UNCHANGED <<deque, status, cache, stack, H>>
    BY <1>38 DEF HandlerResume, program, tree, Goto, UnlockBoth, Outcome,
       BeingAborted, Stolen, Hand, UnlockClosure, UnlockDeque
  <2>3. /\ "handlerAct" \in WorkPC /\ "handlerAct" \in PopPC
        /\ "run" \in WorkPC /\ "run" \notin PopPC
    BY <2>2 DEF WorkPC, PopPC, SlowPC
  <2>4. pc'[w] = "run" /\ child'[w] = None /\ H'[w] = H[w]
    BY <1>a, <2>2, <2>3 DEF Types
  <2>5. \A u \in Worker \ {w} : /\ pc'[u] = pc[u] /\ child'[u] = child[u]
                                /\ H'[u] = H[u]
    BY <1>a, <2>2, <2>3 DEF Types
  <2>6. \A u \in Worker \ {w} : stack'[u] = stack[u]
    BY <1>a, <2>2, <2>3 DEF Types, Shortened, Extended
  <2>7. \A u \in Worker \ {w} : deque'[u] = deque[u]
    BY <1>a, <2>2, <2>3 DEF Types, Shortened, Extended
  <2>8. BottomsKept(w)
    BY <1>k, <2>2, <2>3
  <2>9. CurrentHere(w)'
    BY <1>d, <1>s, <1>t, <2>4, <2>2, <2>3 DEF CurrentHere
  <2>q. QED
    BY <1>h, <2>2, <2>4, <2>5, <2>6, <2>7, <2>8, <2>9
<1>39. CASE UNCHANGED vars
  BY <1>f, <1>39 DEF vars
<1>q. QED
  BY <1>1, <1>2, <1>3, <1>4, <1>5, <1>6, <1>7, <1>8, <1>9, <1>10, <1>11, <1>12,
     <1>13, <1>14, <1>15, <1>16, <1>17, <1>18, <1>19, <1>20, <1>21, <1>22,
     <1>23, <1>24, <1>25, <1>26, <1>27, <1>28, <1>29, <1>30, <1>31, <1>32,
     <1>33, <1>34, <1>35, <1>36, <1>37, <1>38, <1>39 DEF Next, Step, Terminated

(* No other worker changes the status of what one has in hand, and what is *)
(* locked stays as it was found.                                           *)
LEMMA InHandInvStep ==
    ASSUME IInv, [Next]_vars
    PROVE  InHandInv'
<1>a. Types /\ Types'
  BY TypesStep DEF IInv
<1>b. created \in Nat \ {0} /\ created' \in Nat /\ None \notin Proc /\ Root \in Proc
  BY <1>a, BoundAssumption DEF Types, Proc, None, Root
<1>e. \A u \in Worker : /\ Bottom(u) = deque[u][Size(deque[u])]
                         /\ Bottom(u)' = deque'[u][Size(deque'[u])]
  BY DEF Bottom, Size
<1>l. \A u \in Worker : pc[u] \in LockPC => cl[u] \in Proc /\ clock[cl[u]] = u
  BY LockFacts
<1>s. \A u \in Worker : HandHere(u)
  BY DEF IInv, InHandInv, HandHere
<1>c. \A u \in Worker :
         /\ pc[u] \in {"handlerPoll", "exitPoll", "stealFinish"}
               => cl[u] \in Proc /\ clock[cl[u]] = u
         /\ pc[u] \in {"loop", "exit"} /\ cl[u] # None
               => cl[u] \in Proc /\ status[cl[u]] \in {"READY", "RETURNING"}
         /\ pc[u] = "exitPoll" => cl[u] = Root /\ status[Root] # "RUNNING"
         /\ pc[u] = "stealFinish" => status[cl[u]] = "RUNNING"
  <2>1. \A u \in Worker : pc[u] \in {"handlerPoll", "exitPoll", "stealFinish"} => pc[u] \in LockPC
    BY DEF LockPC
  <2>q. QED
    BY <1>a, <1>l, <1>s, <2>1 DEF Types, HandHere
<1>o. ASSUME NEW w \in Worker, NEW c \in Proc, clock[c] \in {w, None},
             \/ status[c] \notin {"READY", "RETURNING"}
             \/ pc[w] \in HandPC /\ cl[w] = c
             \/ pc[w] \in ReturnPC /\ child[w] = c
      PROVE  \A u \in Worker \ {w} :
                pc[u] \in {"handlerPoll", "exitPoll", "stealFinish", "loop", "exit"}
                   => cl[u] # c
  <2>1. \A u \in Worker \ {w} :
           pc[u] \in {"handlerPoll", "exitPoll", "stealFinish"} => cl[u] # c
    BY <1>c, <1>o, WorkerAssumption DEF None
  <2>2. \A u \in Worker \ {w} : pc[u] \in {"loop", "exit"} => cl[u] # c
    <3>1. \A u \in Worker : pc[u] \in {"loop", "exit"} => pc[u] \in HandPC
      BY DEF HandPC
    <3>2. c # None
      BY <1>b
    <3>q. QED
      BY <1>c, <1>o, <3>1, <3>2 DEF IInv, PlacesApart
  <2>q. QED
    BY <2>1, <2>2
<1>k. ASSUME NEW w \in Worker, UNCHANGED status
      PROVE  \A u \in Worker \ {w} : HandKept(u)
  BY <1>c, <1>k DEF HandKept
<1>p. ASSUME NEW w \in Worker, NEW c \in Proc, NEW s,
             status' = [status EXCEPT ![c] = s], clock[c] \in {w, None},
             \/ status[c] \notin {"READY", "RETURNING"}
             \/ pc[w] \in HandPC /\ cl[w] = c
             \/ pc[w] \in ReturnPC /\ child[w] = c
      PROVE  \A u \in Worker \ {w} : HandKept(u)
  <2>1. \A u \in Worker \ {w} :
           pc[u] \in {"handlerPoll", "exitPoll", "stealFinish", "loop", "exit"}
              => cl[u] # c
    BY <1>o, <1>p
  <2>2. \A d \in Proc \ {c} : status'[d] = status[d]
    BY <1>a, <1>p DEF Types
  <2>q. QED
    BY <1>b, <1>c, <2>1, <2>2 DEF HandKept
<1>h. ASSUME NEW w \in Worker,
             \A u \in Worker \ {w} : /\ pc'[u] = pc[u] /\ cl'[u] = cl[u]
                                     /\ pc[u] \in OwnDequePC => deque'[u] = deque[u],
             \A u \in Worker \ {w} : HandKept(u),
             HandHere(w)'
      PROVE  InHandInv'
  <2>1. ASSUME NEW u \in Worker, u # w PROVE HandHere(u)'
    <3>1. /\ pc'[u] = pc[u] /\ cl'[u] = cl[u] /\ HandKept(u)
          /\ pc[u] \in OwnDequePC => Bottom(u)' = Bottom(u)
      BY <1>e, <1>h, <2>1
    <3>2. pc[u] \in {"handlerAct", "handlerSwap", "syncPoll", "abortPoll",
                     "setResult", "handlerPoll"} => pc[u] \in OwnDequePC
      BY DEF OwnDequePC
    <3>q. QED
      BY <1>s, <3>1, <3>2 DEF HandHere, HandKept
  <2>q. QED
    BY <1>h, <2>1 DEF InHandInv, HandHere
<1>m. ASSUME NEW w \in Worker, NEW l, pc' = [pc EXCEPT ![w] = l],
             l \in LockPC <=> pc[w] \in LockPC,
             l \in HandPC <=> pc[w] \in HandPC,
             l = "stealDeque" <=> pc[w] = "stealDeque",
             l = "handlerAct" <=> pc[w] = "handlerAct",
             l = "handlerSwap" <=> pc[w] = "handlerSwap",
             l = "syncPoll" <=> pc[w] = "syncPoll",
             l = "abortPoll" <=> pc[w] = "abortPoll",
             l = "setResult" <=> pc[w] = "setResult",
             l = "handlerPoll" <=> pc[w] = "handlerPoll",
             l = "exitPoll" <=> pc[w] = "exitPoll",
             l = "loop" <=> pc[w] = "loop",
             l = "exit" <=> pc[w] = "exit",
             l = "stealFinish" <=> pc[w] = "stealFinish",
             UNCHANGED <<cl, deque, status>>
      PROVE  InHandInv'
  <2>1. \A u \in Worker : Bottom(u)' = Bottom(u)
    BY <1>e, <1>m
  <2>2. \A u \in Worker : pc'[u] = IF u = w THEN l ELSE pc[u]
    BY <1>a, <1>m DEF Types
  <2>3. ASSUME NEW u \in Worker PROVE HandHere(u)'
    BY <1>m, <1>s, <2>1, <2>2 DEF HandHere
  <2>q. QED
    BY <2>3 DEF InHandInv, HandHere
<1>f. ASSUME UNCHANGED <<pc, cl, deque, status>>
      PROVE  InHandInv'
BY <1>f DEF IInv, InHandInv, Bottom
<1>g. ASSUME NEW w \in Worker, NEW l, pc' = [pc EXCEPT ![w] = l],
             l \in LockPC <=> pc[w] \in LockPC,
             l \in HandPC <=> pc[w] \in HandPC,
             l \in OwnDequePC <=> pc[w] \in OwnDequePC,
             l = "stealDeque" <=> pc[w] = "stealDeque",
             l = "handlerAct" <=> pc[w] = "handlerAct",
             l = "handlerSwap" <=> pc[w] = "handlerSwap",
             l = "syncPoll" <=> pc[w] = "syncPoll",
             l = "abortPoll" <=> pc[w] = "abortPoll",
             l = "setResult" <=> pc[w] = "setResult",
             l = "handlerPoll" <=> pc[w] = "handlerPoll",
             l = "exitPoll" <=> pc[w] = "exitPoll",
             l = "loop" <=> pc[w] = "loop",
             l = "exit" <=> pc[w] = "exit",
             l = "stealFinish" <=> pc[w] = "stealFinish",
             UNCHANGED <<cl, deque, status>>
      PROVE  InHandInv'
BY <1>g, <1>m
<1>1. ASSUME NEW w \in Worker, LeaveScheduler(w) PROVE InHandInv'
  <2>2. /\ pc[w] \in {"loop", "steal"} /\ pc' = [pc EXCEPT ![w] = "exit"]
        /\ UNCHANGED <<cl, deque, status>>
    BY <1>1 DEF LeaveScheduler, program, results, state, tree, locks, caches,
       Goto
  <2>3. /\ "loop" \notin LockPC /\ "loop" \in HandPC
        /\ "loop" \notin OwnDequePC /\ "steal" \notin LockPC
        /\ "steal" \notin HandPC /\ "steal" \notin OwnDequePC
        /\ "exit" \notin LockPC /\ "exit" \in HandPC
        /\ "exit" \notin OwnDequePC /\ pc[w] \notin LockPC
        /\ pc[w] \notin OwnDequePC
    BY <2>2 DEF LockPC, HandPC, OwnDequePC
  <2>4. pc'[w] = "exit" /\ cl'[w] = cl[w]
    BY <1>a, <2>2, <2>3 DEF Types
  <2>5. \A u \in Worker \ {w} : pc'[u] = pc[u] /\ cl'[u] = cl[u]
    BY <1>a, <2>2, <2>3 DEF Types
  <2>6. \A u \in Worker \ {w} : pc[u] \in OwnDequePC => deque'[u] = deque[u]
    BY <1>a, <2>2, <2>3 DEF Types, Shortened, Extended, Topped
  <2>7. \A u \in Worker \ {w} : HandKept(u)
    BY <1>k, <2>2, <2>3
  <2>8. HandHere(w)'
    BY <1>b, <1>s, <2>4, <2>2, <2>3 DEF HandHere
  <2>q. QED
    BY <1>h, <2>2, <2>4, <2>5, <2>6, <2>7, <2>8
<1>2. ASSUME NEW w \in Worker, TakeOwn(w) PROVE InHandInv'
  <2>1. TakeOwnDoes(w)
    BY <1>2, TakeOwnEffect
  <2>2. /\ pc[w] = "loop" /\ cl[w] = None
        /\ UNCHANGED <<status>>
    BY <2>1 DEF TakeOwnDoes
  <2>3. /\ "loop" \notin LockPC /\ "loop" \in HandPC
        /\ "loop" \notin OwnDequePC /\ "steal" \notin LockPC
        /\ "steal" \notin HandPC /\ "steal" \notin OwnDequePC
    BY <2>2 DEF LockPC, HandPC, OwnDequePC
  <2>a. cl[w] = None /\ (deque[w] = <<>> \/ status[Bottom(w)] \in {"READY", "RETURNING"})
    BY <2>2, <2>3 DEF IInv, DequeInv, WorkPC, PopPC, SlowPC
  <2>4. ASSUME deque[w] = <<>>, pc' = [pc EXCEPT ![w] = "steal"],
               UNCHANGED <<cl, deque>>
        PROVE  InHandInv'
    <3>1. pc'[w] = "steal" /\ cl'[w] = cl[w]
      BY <1>a, <2>2, <2>3, <2>a, <2>4 DEF Types
    <3>2. \A u \in Worker \ {w} : pc'[u] = pc[u] /\ cl'[u] = cl[u]
      BY <1>a, <2>2, <2>3, <2>a, <2>4 DEF Types
    <3>3. \A u \in Worker \ {w} : pc[u] \in OwnDequePC => deque'[u] = deque[u]
      BY <1>a, <2>2, <2>3, <2>a, <2>4 DEF Types, Shortened, Extended, Topped
    <3>4. \A u \in Worker \ {w} : HandKept(u)
      BY <1>k, <2>2, <2>3, <2>a, <2>4
    <3>5. HandHere(w)'
      BY <1>b, <1>s, <3>1, <2>2, <2>3, <2>a, <2>4 DEF HandHere
    <3>q. QED
      BY <1>h, <2>2, <3>1, <3>2, <3>3, <3>4, <3>5
  <2>5. ASSUME NEW c \in Proc, deque[w] # <<>>, c = Bottom(w),
               c = deque[w][Size(deque[w])], cl' = [cl EXCEPT ![w] = c],
               Shortened(deque, deque', w),
               UNCHANGED <<pc>>
        PROVE  InHandInv'
    <3>1. pc'[w] = pc[w] /\ cl'[w] = c
      BY <1>a, <2>2, <2>3, <2>a, <2>5 DEF Types
    <3>2. \A u \in Worker \ {w} : pc'[u] = pc[u] /\ cl'[u] = cl[u]
      BY <1>a, <2>2, <2>3, <2>a, <2>5 DEF Types
    <3>3. \A u \in Worker \ {w} : pc[u] \in OwnDequePC => deque'[u] = deque[u]
      BY <1>a, <2>2, <2>3, <2>a, <2>5 DEF Types, Shortened, Extended, Topped
    <3>4. \A u \in Worker \ {w} : HandKept(u)
      BY <1>k, <2>2, <2>3, <2>a, <2>5
    <3>5. HandHere(w)'
      <4>1. cl'[w] = c /\ pc'[w] = "loop" /\ status' = status /\ c # None
        BY <1>b, <2>2, <2>5, <3>1
      <4>2. status[c] \in {"READY", "RETURNING"}
        BY <2>a, <2>5, DequeFacts DEF IInv
      <4>q. QED
        BY <2>3, <4>1, <4>2 DEF HandHere
    <3>q. QED
      BY <1>h, <2>2, <3>1, <3>2, <3>3, <3>4, <3>5
  <2>q. QED
    BY <2>1, <2>2, <2>4, <2>5 DEF TakeOwnDoes
<1>3. ASSUME NEW w \in Worker, StealLockDeque(w) PROVE InHandInv'
  <2>2. /\ pc[w] = "steal" /\ pc' = [pc EXCEPT ![w] = "stealDeque"]
        /\ UNCHANGED <<deque, status>>
    BY <1>3 DEF StealLockDeque, program, results, state, tree, caches, Goto,
       LockDeque, Peek, Hand
  <2>3. /\ "steal" \notin LockPC /\ "steal" \notin HandPC
        /\ "steal" \notin OwnDequePC /\ "stealDeque" \notin LockPC
        /\ "stealDeque" \notin HandPC /\ "stealDeque" \notin OwnDequePC
    BY <2>2 DEF LockPC, HandPC, OwnDequePC
  <2>4. ASSUME NEW v \in Worker \ {w},
               cl' = [cl EXCEPT ![w] = IF deque[v] = <<>> THEN None ELSE Head(deque[v])]
        PROVE  InHandInv'
    <3>1. pc'[w] = "stealDeque" /\ cl'[w] = (IF deque[v] = <<>> THEN None ELSE Head(deque[v]))
      BY <1>a, <2>2, <2>3, <2>4 DEF Types
    <3>2. \A u \in Worker \ {w} : pc'[u] = pc[u] /\ cl'[u] = cl[u]
      BY <1>a, <2>2, <2>3, <2>4 DEF Types
    <3>3. \A u \in Worker \ {w} : pc[u] \in OwnDequePC => deque'[u] = deque[u]
      BY <1>a, <2>2, <2>3, <2>4 DEF Types, Shortened, Extended, Topped
    <3>4. \A u \in Worker \ {w} : HandKept(u)
      BY <1>k, <2>2, <2>3, <2>4
    <3>5. HandHere(w)'
      BY <1>b, <1>s, <3>1, <2>2, <2>3, <2>4 DEF HandHere
    <3>q. QED
      BY <1>h, <2>2, <3>1, <3>2, <3>3, <3>4, <3>5
  <2>q. QED
    BY <1>3, <2>2, <2>4 DEF StealLockDeque, program, results, state, tree,
       caches, Goto, LockDeque, Peek, Hand
<1>4. ASSUME NEW w \in Worker, StealLockClosure(w) PROVE InHandInv'
  <2>2. /\ pc[w] = "stealDeque" /\ cl[w] # None /\ clock[cl[w]] = None
        /\ pc' = [pc EXCEPT ![w] = "stealClosure"]
        /\ UNCHANGED <<cl, deque, status>>
    BY <1>4 DEF StealLockClosure, program, results, state, tree, caches, Goto,
       LockClosure
  <2>3. /\ "stealDeque" \notin LockPC /\ "stealDeque" \notin HandPC
        /\ "stealDeque" \notin OwnDequePC /\ "stealClosure" \in LockPC
        /\ "stealClosure" \notin HandPC /\ "stealClosure" \notin OwnDequePC
    BY <2>2 DEF LockPC, HandPC, OwnDequePC
  <2>4. pc'[w] = "stealClosure" /\ cl'[w] = cl[w]
    BY <1>a, <2>2, <2>3 DEF Types
  <2>5. \A u \in Worker \ {w} : pc'[u] = pc[u] /\ cl'[u] = cl[u]
    BY <1>a, <2>2, <2>3 DEF Types
  <2>6. \A u \in Worker \ {w} : pc[u] \in OwnDequePC => deque'[u] = deque[u]
    BY <1>a, <2>2, <2>3 DEF Types, Shortened, Extended, Topped
  <2>7. \A u \in Worker \ {w} : HandKept(u)
    BY <1>k, <2>2, <2>3
  <2>8. HandHere(w)'
    BY <1>b, <1>s, <2>4, <2>2, <2>3 DEF HandHere
  <2>q. QED
    BY <1>h, <2>2, <2>4, <2>5, <2>6, <2>7, <2>8
<1>5. ASSUME NEW w \in Worker, StealGiveUp(w) PROVE InHandInv'
  <2>2. /\ pc[w] = "stealClosure" /\ pc' = [pc EXCEPT ![w] = "stealGiveUp"]
        /\ cl' = [cl EXCEPT ![w] = None]
        /\ UNCHANGED <<deque, status>>
    BY <1>5 DEF StealGiveUp, program, results, state, tree, caches, Goto, Hand,
       UnlockClosure, BeingAborted
  <2>3. /\ "stealClosure" \in LockPC /\ "stealClosure" \notin HandPC
        /\ "stealClosure" \notin OwnDequePC /\ "stealGiveUp" \notin LockPC
        /\ "stealGiveUp" \notin HandPC /\ "stealGiveUp" \notin OwnDequePC
    BY <2>2 DEF LockPC, HandPC, OwnDequePC
  <2>4. pc'[w] = "stealGiveUp" /\ cl'[w] = None
    BY <1>a, <2>2, <2>3 DEF Types
  <2>5. \A u \in Worker \ {w} : pc'[u] = pc[u] /\ cl'[u] = cl[u]
    BY <1>a, <2>2, <2>3 DEF Types
  <2>6. \A u \in Worker \ {w} : pc[u] \in OwnDequePC => deque'[u] = deque[u]
    BY <1>a, <2>2, <2>3 DEF Types, Shortened, Extended, Topped
  <2>7. \A u \in Worker \ {w} : HandKept(u)
    BY <1>k, <2>2, <2>3
  <2>8. HandHere(w)'
    BY <1>b, <1>s, <2>4, <2>2, <2>3 DEF HandHere
  <2>q. QED
    BY <1>h, <2>2, <2>4, <2>5, <2>6, <2>7, <2>8
<1>6. ASSUME NEW w \in Worker, StealUnlockDeque(w) PROVE InHandInv'
  <2>2. /\ pc[w] \in {"stealGiveUp", "stealDeque"}
        /\ pc[w] = "stealGiveUp" \/ cl[w] = None
        /\ pc' = [pc EXCEPT ![w] = "steal"]
        /\ UNCHANGED <<cl, deque, status>>
    BY <1>6 DEF StealUnlockDeque, program, results, state, tree, caches, Goto,
       UnlockDeque
  <2>3. /\ "stealGiveUp" \notin LockPC /\ "stealGiveUp" \notin HandPC
        /\ "stealGiveUp" \notin OwnDequePC /\ "stealDeque" \notin LockPC
        /\ "stealDeque" \notin HandPC /\ "stealDeque" \notin OwnDequePC
        /\ "steal" \notin LockPC /\ "steal" \notin HandPC
        /\ "steal" \notin OwnDequePC /\ pc[w] \notin LockPC
        /\ pc[w] \notin HandPC /\ pc[w] \notin OwnDequePC
    BY <2>2 DEF LockPC, HandPC, OwnDequePC
  <2>4. pc'[w] = "steal" /\ cl'[w] = cl[w]
    BY <1>a, <2>2, <2>3 DEF Types
  <2>5. \A u \in Worker \ {w} : pc'[u] = pc[u] /\ cl'[u] = cl[u]
    BY <1>a, <2>2, <2>3 DEF Types
  <2>6. \A u \in Worker \ {w} : pc[u] \in OwnDequePC => deque'[u] = deque[u]
    BY <1>a, <2>2, <2>3 DEF Types, Shortened, Extended, Topped
  <2>7. \A u \in Worker \ {w} : HandKept(u)
    BY <1>k, <2>2, <2>3
  <2>8. HandHere(w)'
    BY <1>b, <1>s, <2>4, <2>2, <2>3 DEF HandHere
  <2>q. QED
    BY <1>h, <2>2, <2>4, <2>5, <2>6, <2>7, <2>8
<1>7. ASSUME NEW w \in Worker, StealReady(w) PROVE InHandInv'
  <2>1. PICK v \in Worker \ {w}, c \in Proc :
          StealReadyDoes(w, v, c)
    BY <1>7, StealReadyEffect
  <2>2. /\ pc[w] = "stealClosure" /\ c = cl[w] /\ c = deque[v][1]
        /\ pc[v] \notin OwnDequePC /\ status[c] = "READY"
        /\ pc' = [pc EXCEPT ![w] = "loop"] /\ Topped(deque, deque', v)
        /\ UNCHANGED <<cl, status>>
    BY <2>1 DEF StealReadyDoes
  <2>3. /\ "stealClosure" \in LockPC /\ "stealClosure" \notin HandPC
        /\ "stealClosure" \notin OwnDequePC /\ "loop" \notin LockPC
        /\ "loop" \in HandPC /\ "loop" \notin OwnDequePC
    BY <2>2 DEF LockPC, HandPC, OwnDequePC
  <2>a. cl'[w] = c /\ status'[c] = "READY"
    BY <2>2
  <2>4. pc'[w] = "loop" /\ cl'[w] = cl[w]
    BY <1>a, <2>2, <2>3, <2>a DEF Types
  <2>5. \A u \in Worker \ {w} : pc'[u] = pc[u] /\ cl'[u] = cl[u]
    BY <1>a, <2>2, <2>3, <2>a DEF Types
  <2>6. \A u \in Worker \ {w} : pc[u] \in OwnDequePC => deque'[u] = deque[u]
    BY <1>a, <2>2, <2>3, <2>a DEF Types, Shortened, Extended, Topped
  <2>7. \A u \in Worker \ {w} : HandKept(u)
    BY <1>k, <2>2, <2>3, <2>a
  <2>8. HandHere(w)'
    BY <1>b, <1>s, <2>4, <2>2, <2>3, <2>a DEF HandHere
  <2>q. QED
    BY <1>h, <2>2, <2>4, <2>5, <2>6, <2>7, <2>8
<1>8. ASSUME NEW w \in Worker, StealPromote(w) PROVE InHandInv'
  <2>1. PICK v \in Worker \ {w}, c \in Proc, k \in Proc :
          StealPromoteDoes(w, v, c, k)
    BY <1>8, StealPromoteEffect
  <2>2. /\ pc[w] = "stealClosure" /\ c = cl[w] /\ k = stack[v][H[v] + 2]
        /\ deque[v] = <<c>> /\ pc[v] \in WorkPC \ OwnDequePC /\ H[v] + 1 < T(v)
        /\ status[c] = "RUNNING" /\ cache[c] = v /\ stack[v][H[v] + 1] = c
        /\ k # c /\ k # Root /\ status[k] = "none" /\ parent[k] = c /\ Fresh(k)
        /\ pc' = [pc EXCEPT ![w] = "stealFinish"]
        /\ deque' = [deque EXCEPT ![v] = <<k>>]
        /\ status' = [status EXCEPT ![k] = "RUNNING"]
        /\ UNCHANGED <<cl>>
    BY <2>1 DEF StealPromoteDoes
  <2>3. /\ "stealClosure" \in LockPC /\ "stealClosure" \notin HandPC
        /\ "stealClosure" \notin OwnDequePC /\ "stealFinish" \in LockPC
        /\ "stealFinish" \in HandPC /\ "stealFinish" \notin OwnDequePC
    BY <2>2 DEF LockPC, HandPC, OwnDequePC
  <2>a. \A u \in Worker \ {w} : /\ pc'[u] = pc[u] /\ cl'[u] = cl[u]
                                /\ pc[u] \in OwnDequePC => deque'[u] = deque[u]
    <3>1. v \in Worker /\ pc[v] \notin OwnDequePC
      BY <2>2
    <3>q. QED
      BY <1>a, <2>2, <3>1 DEF Types
  <2>b. \A u \in Worker \ {w} : HandKept(u)
    <3>1. \A u \in Worker \ {w} :
             pc[u] \in {"handlerPoll", "stealFinish", "loop", "exit"}
                /\ status[cl[u]] \in {"READY", "RUNNING", "RETURNING"} => cl[u] # k
      BY <2>2
    <3>2. \A d \in Proc \ {k} : status'[d] = status[d]
      BY <1>a, <2>2 DEF Types
    <3>q. QED
      BY <1>b, <1>c, <2>2, <3>1, <3>2 DEF HandKept
  <2>c. HandHere(w)'
    <3>1. pc'[w] = "stealFinish" /\ cl'[w] = c /\ status'[c] = "RUNNING"
      BY <1>a, <2>2 DEF Types
    <3>q. QED
      BY <2>3, <3>1 DEF HandHere
  <2>q. QED
    BY <1>h, <2>a, <2>b, <2>c
<1>9. ASSUME NEW w \in Worker, StealFinish(w) PROVE InHandInv'
  <2>2. /\ pc[w] = "stealFinish" /\ pc' = [pc EXCEPT ![w] = "loop"]
        /\ status' = [status EXCEPT ![cl[w]] = "READY"]
        /\ UNCHANGED <<cl, deque>>
    BY <1>9 DEF StealFinish, program, results, caches, Goto, UnlockClosure,
       SetStatus, AddChild
  <2>3. /\ "stealFinish" \in LockPC /\ "stealFinish" \in HandPC
        /\ "stealFinish" \notin OwnDequePC /\ "loop" \notin LockPC
        /\ "loop" \in HandPC /\ "loop" \notin OwnDequePC
    BY <2>2 DEF LockPC, HandPC, OwnDequePC
  <2>a. cl[w] \in Proc /\ status[cl[w]] = "RUNNING" /\ clock[cl[w]] = w
    BY <1>c, <2>2
  <2>b. cl'[w] = cl[w] /\ status'[cl[w]] = "READY"
    BY <1>a, <2>2, <2>a DEF Types
  <2>4. pc'[w] = "loop" /\ cl'[w] = cl[w]
    BY <1>a, <2>2, <2>3, <2>a, <2>b DEF Types
  <2>5. \A u \in Worker \ {w} : pc'[u] = pc[u] /\ cl'[u] = cl[u]
    BY <1>a, <2>2, <2>3, <2>a, <2>b DEF Types
  <2>6. \A u \in Worker \ {w} : pc[u] \in OwnDequePC => deque'[u] = deque[u]
    BY <1>a, <2>2, <2>3, <2>a, <2>b DEF Types, Shortened, Extended, Topped
  <2>7. \A u \in Worker \ {w} : HandKept(u)
    BY <1>p, <2>2, <2>a
  <2>8. HandHere(w)'
    BY <1>b, <1>s, <2>4, <2>2, <2>3, <2>a, <2>b DEF HandHere
  <2>q. QED
    BY <1>h, <2>2, <2>4, <2>5, <2>6, <2>7, <2>8
<1>10. ASSUME NEW w \in Worker, InletKilled(w) PROVE InHandInv'
  BY <1>f, <1>10 DEF InletKilled, program, state, locks, caches, Outcome,
     BeingAborted, Polls
<1>11. ASSUME NEW w \in Worker, InletRuns(w) PROVE InHandInv'
  BY <1>f, <1>11 DEF InletRuns, program, state, locks, caches, Outcome,
     BeingAborted, Polls
<1>12. ASSUME NEW w \in Worker, InletAborts(w) PROVE InHandInv'
  <2>1. PICK c \in Proc, r \in SUBSET Proc :
          InletAbortsDoes(w, c, r)
    BY <1>12, InletAbortsEffect
  <2>2. /\ c = cl[w] /\ pc[w] \in PollPC
        /\ pc[w] = "return" => status[c] # "RUNNING"
        /\ complete[c] # <<>>
        /\ UNCHANGED <<pc, cl>>
    BY <2>1 DEF InletAbortsDoes
  <2>a. clock[c] = w
    <3>1. pc[w] \in LockPC
      BY <2>2 DEF LockPC, PollPC
    <3>q. QED
      BY <1>l, <2>2, <3>1
  <2>4. ASSUME NEW k \in Proc, pc[w] = "handlerPoll", c = Bottom(w),
               deque[w] # <<>>, status[c] = "RUNNING", cache[c] = w, H[w] = 0,
               1 < T(w), stack[w][1] = c, k = stack[w][2], k # c, k # Root,
               status[k] = "none", parent[k] = c, Fresh(k),
               deque' = [deque EXCEPT ![w] = Append(@, k)],
               status' = [status EXCEPT ![k] = "RUNNING", ![c] = "READY"]
        PROVE  InHandInv'
    <3>1. pc' = pc /\ cl' = cl /\ \A u \in Worker \ {w} : deque'[u] = deque[u]
      BY <1>a, <2>2, <2>4 DEF Types
    <3>2. \A d \in Proc \ {k, c} : status'[d] = status[d]
      BY <1>a, <2>4 DEF Types
    <3>3. \A u \in Worker \ {w} :
             pc[u] \in {"handlerPoll", "exitPoll", "stealFinish", "loop", "exit"}
                => cl[u] # c
      BY <1>o, <2>4, <2>a
    <3>4. \A u \in Worker \ {w} : HandKept(u)
      <4>1. status[k] = "none" /\ k # Root
        BY <2>4
      <4>2. \A u \in Worker \ {w} :
               pc[u] \in {"handlerPoll", "stealFinish", "loop", "exit"}
                  /\ status[cl[u]] \in {"READY", "RUNNING", "RETURNING"} => cl[u] # k
        BY <4>1
      <4>3. \A u \in Worker \ {w} : pc[u] = "exitPoll" => status'[Root] = status[Root]
        BY <1>b, <1>c, <3>2, <3>3, <4>1
      <4>q. QED
        BY <1>c, <3>2, <3>3, <4>2, <4>3 DEF HandKept
    <3>5. status'[c] = "READY" /\ cl'[w] = c /\ pc'[w] = "handlerPoll"
      BY <1>a, <2>2, <2>4 DEF Types
    <3>6. HandHere(w)'
      <4>1. "handlerPoll" \in LockPC
        BY DEF LockPC
      <4>q. QED
        BY <3>5, <4>1 DEF HandHere
    <3>q. QED
      BY <1>h, <3>1, <3>4, <3>6
  <2>5. ASSUME UNCHANGED <<deque, status>>
        PROVE  InHandInv'
    BY <1>f, <2>2, <2>5
  <2>q. QED
    BY <2>1, <2>2, <2>4, <2>5 DEF InletAbortsDoes, InletSplits
<1>13. ASSUME NEW w \in Worker, WalkDown(w) PROVE InHandInv'
  <2>1. PICK n \in Nat \ {0}, k \in Proc :
          WalkDownDoes(w, n, k)
    BY <1>13, WalkDownEffect
  <2>q. QED
    BY <1>f, <2>1 DEF WalkDownDoes
<1>14. ASSUME NEW w \in Worker, WalkUp(w) PROVE InHandInv'
  <2>1. PICK n \in Nat \ {0} :
          WalkUpDoes(w, n)
    BY <1>14, WalkUpEffect
  <2>q. QED
    BY <1>f, <2>1 DEF WalkUpDoes
<1>15. ASSUME NEW w \in Worker, AbortReadyClosure(w) PROVE InHandInv'
  <2>2. /\ pc[w] = "loop" /\ cl[w] # None /\ clock[cl[w]] = None
        /\ status[cl[w]] = "READY"
        /\ UNCHANGED <<pc, deque>>
    BY <1>15 DEF AbortReadyClosure, program, results, tree, locks, caches,
       Hand, SetStatus, Outcome, BeingAborted, HasChildren
  <2>3. /\ "loop" \notin LockPC /\ "loop" \in HandPC
        /\ "loop" \notin OwnDequePC
    BY <2>2 DEF LockPC, HandPC, OwnDequePC
  <2>a. cl[w] \in Proc
    BY <1>a, <2>2 DEF Types
  <2>4. ASSUME join[cl[w]] # 0, cl' = [cl EXCEPT ![w] = None],
               status' = [status EXCEPT ![cl[w]] = "SUSPENDED"]
        PROVE  InHandInv'
    <3>1. pc'[w] = pc[w] /\ cl'[w] = None
      BY <1>a, <2>2, <2>3, <2>a, <2>4 DEF Types
    <3>2. \A u \in Worker \ {w} : pc'[u] = pc[u] /\ cl'[u] = cl[u]
      BY <1>a, <2>2, <2>3, <2>a, <2>4 DEF Types
    <3>3. \A u \in Worker \ {w} : pc[u] \in OwnDequePC => deque'[u] = deque[u]
      BY <1>a, <2>2, <2>3, <2>a, <2>4 DEF Types, Shortened, Extended, Topped
    <3>4. \A u \in Worker \ {w} : HandKept(u)
      BY <1>p, <2>2, <2>3, <2>a, <2>4
    <3>5. HandHere(w)'
      BY <1>b, <1>s, <3>1, <2>2, <2>3, <2>a, <2>4 DEF HandHere
    <3>q. QED
      BY <1>h, <2>2, <3>1, <3>2, <3>3, <3>4, <3>5
  <2>5. ASSUME join[cl[w]] = 0,
               status' = [status EXCEPT ![cl[w]] = "RETURNING"],
               UNCHANGED <<cl>>
        PROVE  InHandInv'
    <3>1. pc'[w] = pc[w] /\ cl'[w] = cl[w]
      BY <1>a, <2>2, <2>3, <2>a, <2>5 DEF Types
    <3>2. \A u \in Worker \ {w} : pc'[u] = pc[u] /\ cl'[u] = cl[u]
      BY <1>a, <2>2, <2>3, <2>a, <2>5 DEF Types
    <3>3. \A u \in Worker \ {w} : pc[u] \in OwnDequePC => deque'[u] = deque[u]
      BY <1>a, <2>2, <2>3, <2>a, <2>5 DEF Types, Shortened, Extended, Topped
    <3>4. \A u \in Worker \ {w} : HandKept(u)
      BY <1>p, <2>2, <2>3, <2>a, <2>5
    <3>5. HandHere(w)'
      <4>1. cl'[w] = cl[w] /\ status'[cl[w]] = "RETURNING"
        BY <1>a, <2>2, <2>a, <2>5 DEF Types
      <4>q. QED
        BY <1>b, <2>2, <2>3, <3>1, <4>1 DEF HandHere
    <3>q. QED
      BY <1>h, <2>2, <3>1, <3>2, <3>3, <3>4, <3>5
  <2>q. QED
    BY <1>15, <2>2, <2>4, <2>5 DEF AbortReadyClosure, program, results, tree,
       locks, caches, Hand, SetStatus, Outcome, BeingAborted, HasChildren
<1>16. ASSUME NEW w \in Worker, Setup(w) PROVE InHandInv'
  <2>2. /\ pc[w] = "loop" /\ cl[w] # None /\ status[cl[w]] = "READY"
        /\ clock[cl[w]] = None /\ pc' = [pc EXCEPT ![w] = "setup"]
        /\ status' = [status EXCEPT ![cl[w]] = "RUNNING"]
        /\ UNCHANGED <<cl, deque>>
    BY <1>16 DEF Setup, program, results, tree, Goto, LockClosure, SetStatus,
       BeingAborted
  <2>3. /\ "loop" \notin LockPC /\ "loop" \in HandPC
        /\ "loop" \notin OwnDequePC /\ "setup" \in LockPC /\ "setup" \in HandPC
        /\ "setup" \notin OwnDequePC
    BY <2>2 DEF LockPC, HandPC, OwnDequePC
  <2>a. cl[w] \in Proc
    BY <1>a, <2>2 DEF Types
  <2>4. pc'[w] = "setup" /\ cl'[w] = cl[w]
    BY <1>a, <2>2, <2>3, <2>a DEF Types
  <2>5. \A u \in Worker \ {w} : pc'[u] = pc[u] /\ cl'[u] = cl[u]
    BY <1>a, <2>2, <2>3, <2>a DEF Types
  <2>6. \A u \in Worker \ {w} : pc[u] \in OwnDequePC => deque'[u] = deque[u]
    BY <1>a, <2>2, <2>3, <2>a DEF Types, Shortened, Extended, Topped
  <2>7. \A u \in Worker \ {w} : HandKept(u)
    BY <1>p, <2>2, <2>3, <2>a
  <2>8. HandHere(w)'
    BY <1>b, <1>s, <2>4, <2>2, <2>3, <2>a DEF HandHere
  <2>q. QED
    BY <1>h, <2>2, <2>4, <2>5, <2>6, <2>7, <2>8
<1>17. ASSUME NEW w \in Worker, SetupDone(w) PROVE InHandInv'
  <2>2. /\ pc[w] = "setup" /\ complete[cl[w]] = <<>>
        /\ pc' = [pc EXCEPT ![w] = "add"]
        /\ UNCHANGED <<cl, deque, status>>
    BY <1>17 DEF SetupDone, program, results, tree, caches, Goto,
       UnlockClosure, Polled, Polls
  <2>3. /\ "setup" \in LockPC /\ "setup" \in HandPC
        /\ "setup" \notin OwnDequePC /\ "add" \notin LockPC /\ "add" \in HandPC
        /\ "add" \notin OwnDequePC
    BY <2>2 DEF LockPC, HandPC, OwnDequePC
  <2>4. pc'[w] = "add" /\ cl'[w] = cl[w]
    BY <1>a, <2>2, <2>3 DEF Types
  <2>5. \A u \in Worker \ {w} : pc'[u] = pc[u] /\ cl'[u] = cl[u]
    BY <1>a, <2>2, <2>3 DEF Types
  <2>6. \A u \in Worker \ {w} : pc[u] \in OwnDequePC => deque'[u] = deque[u]
    BY <1>a, <2>2, <2>3 DEF Types, Shortened, Extended, Topped
  <2>7. \A u \in Worker \ {w} : HandKept(u)
    BY <1>k, <2>2, <2>3
  <2>8. HandHere(w)'
    BY <1>b, <1>s, <2>4, <2>2, <2>3 DEF HandHere
  <2>q. QED
    BY <1>h, <2>2, <2>4, <2>5, <2>6, <2>7, <2>8
<1>18. ASSUME NEW w \in Worker, Execute(w) PROVE InHandInv'
  <2>1. PICK c \in Proc :
          ExecuteDoes(w, c)
    BY <1>18, ExecuteEffect
  <2>2. /\ pc[w] = "add" /\ c = cl[w] /\ status[c] = "RUNNING" /\ cache[c] = w
        /\ T(w) = 1 /\ H[w] = 0 /\ stack[w][1] = c
        /\ pc' = [pc EXCEPT ![w] = "run"] /\ cl' = [cl EXCEPT ![w] = None]
        /\ Extended(deque, deque', w, c)
        /\ UNCHANGED <<status>>
    BY <2>1 DEF ExecuteDoes
  <2>3. /\ "add" \notin LockPC /\ "add" \in HandPC /\ "add" \notin OwnDequePC
        /\ "run" \notin LockPC /\ "run" \notin HandPC
        /\ "run" \notin OwnDequePC
    BY <2>2 DEF LockPC, HandPC, OwnDequePC
  <2>4. pc'[w] = "run" /\ cl'[w] = None
    BY <1>a, <2>2, <2>3 DEF Types
  <2>5. \A u \in Worker \ {w} : pc'[u] = pc[u] /\ cl'[u] = cl[u]
    BY <1>a, <2>2, <2>3 DEF Types
  <2>6. \A u \in Worker \ {w} : pc[u] \in OwnDequePC => deque'[u] = deque[u]
    BY <1>a, <2>2, <2>3 DEF Types, Shortened, Extended, Topped
  <2>7. \A u \in Worker \ {w} : HandKept(u)
    BY <1>k, <2>2, <2>3
  <2>8. HandHere(w)'
    BY <1>b, <1>s, <2>4, <2>2, <2>3 DEF HandHere
  <2>q. QED
    BY <1>h, <2>2, <2>4, <2>5, <2>6, <2>7, <2>8
<1>19. ASSUME NEW w \in Worker, ReturnLockParent(w) PROVE InHandInv'
  <2>1. PICK k \in Proc, p \in Proc :
          ReturnLockParentDoes(w, k, p)
    BY <1>19, ReturnLockParentEffect
  <2>2. /\ pc[w] = "loop" /\ k = cl[w] /\ p = parent[k] /\ p # k /\ k # Root
        /\ clock[k] = None /\ status[k] = "RETURNING" /\ clock[p] = None
        /\ status[p] # "none" /\ pc' = [pc EXCEPT ![w] = "returnChild"]
        /\ cl' = [cl EXCEPT ![w] = p]
        /\ UNCHANGED <<deque, status>>
    BY <2>1 DEF ReturnLockParentDoes
  <2>3. /\ "loop" \notin LockPC /\ "loop" \in HandPC
        /\ "loop" \notin OwnDequePC /\ "returnChild" \in LockPC
        /\ "returnChild" \notin HandPC /\ "returnChild" \notin OwnDequePC
    BY <2>2 DEF LockPC, HandPC, OwnDequePC
  <2>4. pc'[w] = "returnChild" /\ cl'[w] = p
    BY <1>a, <2>2, <2>3 DEF Types
  <2>5. \A u \in Worker \ {w} : pc'[u] = pc[u] /\ cl'[u] = cl[u]
    BY <1>a, <2>2, <2>3 DEF Types
  <2>6. \A u \in Worker \ {w} : pc[u] \in OwnDequePC => deque'[u] = deque[u]
    BY <1>a, <2>2, <2>3 DEF Types, Shortened, Extended, Topped
  <2>7. \A u \in Worker \ {w} : HandKept(u)
    BY <1>k, <2>2, <2>3
  <2>8. HandHere(w)'
    BY <1>b, <1>s, <2>4, <2>2, <2>3 DEF HandHere
  <2>q. QED
    BY <1>h, <2>2, <2>4, <2>5, <2>6, <2>7, <2>8
<1>20. ASSUME NEW w \in Worker, ReturnEnqueue(w) PROVE InHandInv'
  <2>1. PICK k \in Proc, p \in Proc :
          ReturnEnqueueDoes(w, k, p)
    BY <1>20, ReturnEnqueueEffect
  <2>q. QED
    BY <1>g, <2>1 DEF ReturnEnqueueDoes, LockPC, HandPC, OwnDequePC
<1>21. ASSUME NEW w \in Worker, ReturnDone(w) PROVE InHandInv'
  <2>1. PICK k \in Proc, p \in Proc :
          ReturnDoneDoes(w, k, p)
    BY <1>21, ReturnDoneEffect
  <2>2. /\ pc[w] = "return" /\ k = child[w] /\ p = cl[w] /\ p # k
        /\ p = parent[k] /\ k # Root /\ status[k] = "RETURNING"
        /\ status[p] # "none"
        /\ status[p] = "RUNNING" \/ complete[p] = <<>>
        /\ pc' = [pc EXCEPT ![w] = "loop"]
        /\ UNCHANGED <<deque>>
    BY <2>1 DEF ReturnDoneDoes
  <2>3. /\ "return" \in LockPC /\ "return" \notin HandPC
        /\ "return" \notin OwnDequePC /\ "loop" \notin LockPC
        /\ "loop" \in HandPC /\ "loop" \notin OwnDequePC
    BY <2>2 DEF LockPC, HandPC, OwnDequePC
  <2>r. pc[w] \in ReturnPC
    BY <2>2 DEF ReturnPC
  <2>a. cl[w] = p /\ clock[p] = w /\ clock[k] = w
    BY <1>l, <2>2, <2>3 DEF IInv, ClosureLocks, HoldsClosure
  <2>b. \A u \in Worker \ {w} :
            pc[u] \in {"handlerPoll", "exitPoll", "stealFinish", "loop", "exit"}
               => cl[u] # k
    BY <1>o, <2>2, <2>3, <2>a, <2>r
  <2>4. ASSUME join[p] = 1, status[p] = "SUSPENDED",
               status' = [status EXCEPT ![k] = "freed", ![p] = "READY"],
               UNCHANGED <<cl>>
        PROVE  InHandInv'
    <3>1. pc'[w] = "loop" /\ cl'[w] = cl[w]
      BY <1>a, <2>2, <2>3, <2>a, <2>b, <2>4 DEF Types
    <3>2. \A u \in Worker \ {w} : pc'[u] = pc[u] /\ cl'[u] = cl[u]
      BY <1>a, <2>2, <2>3, <2>a, <2>b, <2>4 DEF Types
    <3>3. \A u \in Worker \ {w} : pc[u] \in OwnDequePC => deque'[u] = deque[u]
      BY <1>a, <2>2, <2>3, <2>a, <2>b, <2>4 DEF Types, Shortened, Extended,
         Topped
    <3>4. \A u \in Worker \ {w} : HandKept(u)
      <4>1. \A u \in Worker \ {w} :
               pc[u] \in {"handlerPoll", "exitPoll", "stealFinish", "loop", "exit"}
                  => cl[u] # p
        BY <1>o, <2>2, <2>a, <2>4
      <4>2. \A d \in Proc \ {k, p} : status'[d] = status[d]
        BY <1>a, <2>4 DEF Types
      <4>q. QED
        BY <1>b, <1>c, <2>b, <4>1, <4>2 DEF HandKept
    <3>5. HandHere(w)'
      <4>1. cl'[w] = p /\ status'[p] = "READY"
        BY <1>a, <2>2, <2>a, <2>4 DEF Types
      <4>q. QED
        BY <2>2, <2>3, <3>1, <4>1 DEF HandHere
    <3>q. QED
      BY <1>h, <2>2, <3>1, <3>2, <3>3, <3>4, <3>5
  <2>5. ASSUME join[p] # 1 \/ status[p] # "SUSPENDED",
               cl' = [cl EXCEPT ![w] = None],
               status' = [status EXCEPT ![k] = "freed"]
        PROVE  InHandInv'
    <3>1. pc'[w] = "loop" /\ cl'[w] = None
      BY <1>a, <2>2, <2>3, <2>a, <2>b, <2>5 DEF Types
    <3>2. \A u \in Worker \ {w} : pc'[u] = pc[u] /\ cl'[u] = cl[u]
      BY <1>a, <2>2, <2>3, <2>a, <2>b, <2>5 DEF Types
    <3>3. \A u \in Worker \ {w} : pc[u] \in OwnDequePC => deque'[u] = deque[u]
      BY <1>a, <2>2, <2>3, <2>a, <2>b, <2>5 DEF Types, Shortened, Extended,
         Topped
    <3>4. \A u \in Worker \ {w} : HandKept(u)
      BY <1>p, <2>2, <2>a, <2>r, <2>5
    <3>5. HandHere(w)'
      BY <1>b, <1>s, <3>1, <2>2, <2>3, <2>a, <2>b, <2>5 DEF HandHere
    <3>q. QED
      BY <1>h, <2>2, <3>1, <3>2, <3>3, <3>4, <3>5
  <2>q. QED
    BY <2>1, <2>2, <2>4, <2>5 DEF ReturnDoneDoes
<1>22. ASSUME NEW w \in Worker, Spawn(w) PROVE InHandInv'
  <2>1. PICK c \in Proc, f \in Proc :
          SpawnDoes(w, c, f)
    BY <1>22, SpawnEffect
  <2>q. QED
    BY <1>g, <2>1 DEF SpawnDoes, LockPC, HandPC, OwnDequePC
<1>23. ASSUME NEW w \in Worker, ReturnFast(w) PROVE InHandInv'
  <2>1. PICK f \in Proc :
          ReturnFastDoes(w, f)
    BY <1>23, ReturnFastEffect
  <2>q. QED
    BY <1>g, <2>1 DEF ReturnFastDoes, LockPC, HandPC, OwnDequePC
<1>24. ASSUME NEW w \in Worker, PopResult(w) PROVE InHandInv'
  BY <1>g, <1>24 DEF PopResult, program, state, tree, locks, caches, Goto,
     Outcome, LockPC, HandPC, OwnDequePC
<1>25. ASSUME NEW w \in Worker, LockOwnDeque(w) PROVE InHandInv'
  <2>2. /\ pc[w] \in {"pop", "run", "synced"}
        /\ UNCHANGED <<cl, deque, status>>
    BY <1>25 DEF LockOwnDeque, program, results, state, tree, caches, Goto,
       LockDeque, SlowAborts
  <2>3. /\ "pop" \notin LockPC /\ "pop" \notin HandPC
        /\ "pop" \notin OwnDequePC /\ "run" \notin LockPC
        /\ "run" \notin HandPC /\ "run" \notin OwnDequePC
        /\ "synced" \notin LockPC /\ "synced" \notin HandPC
        /\ "synced" \notin OwnDequePC /\ "handler" \notin LockPC
        /\ "handler" \notin HandPC /\ "handler" \in OwnDequePC
        /\ "sync" \notin LockPC /\ "sync" \notin HandPC
        /\ "sync" \in OwnDequePC /\ "abort" \notin LockPC
        /\ "abort" \notin HandPC /\ "abort" \in OwnDequePC
        /\ "result" \notin LockPC /\ "result" \notin HandPC
        /\ "result" \in OwnDequePC /\ pc[w] \notin LockPC
        /\ pc[w] \notin HandPC /\ pc[w] \notin OwnDequePC
    BY <2>2 DEF LockPC, HandPC, OwnDequePC
  <2>4. ASSUME pc[w] = "pop", pc' = [pc EXCEPT ![w] = "handler"]
        PROVE  InHandInv'
    <3>1. pc'[w] = "handler" /\ cl'[w] = cl[w]
      BY <1>a, <2>2, <2>3, <2>4 DEF Types
    <3>2. \A u \in Worker \ {w} : pc'[u] = pc[u] /\ cl'[u] = cl[u]
      BY <1>a, <2>2, <2>3, <2>4 DEF Types
    <3>3. \A u \in Worker \ {w} : pc[u] \in OwnDequePC => deque'[u] = deque[u]
      BY <1>a, <2>2, <2>3, <2>4 DEF Types, Shortened, Extended, Topped
    <3>4. \A u \in Worker \ {w} : HandKept(u)
      BY <1>k, <2>2, <2>3, <2>4
    <3>5. HandHere(w)'
      BY <1>b, <1>s, <3>1, <2>2, <2>3, <2>4 DEF HandHere
    <3>q. QED
      BY <1>h, <2>2, <3>1, <3>2, <3>3, <3>4, <3>5
  <2>5. ASSUME pc[w] = "run", T(w) = 1, pc' = [pc EXCEPT ![w] = "sync"]
        PROVE  InHandInv'
    <3>1. pc'[w] = "sync" /\ cl'[w] = cl[w]
      BY <1>a, <2>2, <2>3, <2>5 DEF Types
    <3>2. \A u \in Worker \ {w} : pc'[u] = pc[u] /\ cl'[u] = cl[u]
      BY <1>a, <2>2, <2>3, <2>5 DEF Types
    <3>3. \A u \in Worker \ {w} : pc[u] \in OwnDequePC => deque'[u] = deque[u]
      BY <1>a, <2>2, <2>3, <2>5 DEF Types, Shortened, Extended, Topped
    <3>4. \A u \in Worker \ {w} : HandKept(u)
      BY <1>k, <2>2, <2>3, <2>5
    <3>5. HandHere(w)'
      BY <1>b, <1>s, <3>1, <2>2, <2>3, <2>5 DEF HandHere
    <3>q. QED
      BY <1>h, <2>2, <3>1, <3>2, <3>3, <3>4, <3>5
  <2>6. ASSUME pc[w] = "run", T(w) = 1, Running(w) # Root,
               pc' = [pc EXCEPT ![w] = "abort"]
        PROVE  InHandInv'
    <3>1. pc'[w] = "abort" /\ cl'[w] = cl[w]
      BY <1>a, <2>2, <2>3, <2>6 DEF Types
    <3>2. \A u \in Worker \ {w} : pc'[u] = pc[u] /\ cl'[u] = cl[u]
      BY <1>a, <2>2, <2>3, <2>6 DEF Types
    <3>3. \A u \in Worker \ {w} : pc[u] \in OwnDequePC => deque'[u] = deque[u]
      BY <1>a, <2>2, <2>3, <2>6 DEF Types, Shortened, Extended, Topped
    <3>4. \A u \in Worker \ {w} : HandKept(u)
      BY <1>k, <2>2, <2>3, <2>6
    <3>5. HandHere(w)'
      BY <1>b, <1>s, <3>1, <2>2, <2>3, <2>6 DEF HandHere
    <3>q. QED
      BY <1>h, <2>2, <3>1, <3>2, <3>3, <3>4, <3>5
  <2>7. ASSUME pc[w] = "synced", Running(w) # Root,
               pc' = [pc EXCEPT ![w] = "result"]
        PROVE  InHandInv'
    <3>1. pc'[w] = "result" /\ cl'[w] = cl[w]
      BY <1>a, <2>2, <2>3, <2>7 DEF Types
    <3>2. \A u \in Worker \ {w} : pc'[u] = pc[u] /\ cl'[u] = cl[u]
      BY <1>a, <2>2, <2>3, <2>7 DEF Types
    <3>3. \A u \in Worker \ {w} : pc[u] \in OwnDequePC => deque'[u] = deque[u]
      BY <1>a, <2>2, <2>3, <2>7 DEF Types, Shortened, Extended, Topped
    <3>4. \A u \in Worker \ {w} : HandKept(u)
      BY <1>k, <2>2, <2>3, <2>7
    <3>5. HandHere(w)'
      BY <1>b, <1>s, <3>1, <2>2, <2>3, <2>7 DEF HandHere
    <3>q. QED
      BY <1>h, <2>2, <3>1, <3>2, <3>3, <3>4, <3>5
  <2>q. QED
    BY <1>25, <2>2, <2>4, <2>5, <2>6, <2>7 DEF LockOwnDeque, program, results,
       state, tree, caches, Goto, LockDeque, SlowAborts
<1>26. ASSUME NEW w \in Worker, LockBottom(w) PROVE InHandInv'
  <2>1. PICK c \in Proc :
          LockBottomDoes(w, c)
    BY <1>26, LockBottomEffect
  <2>2. /\ pc[w] \in {"handler", "sync", "abort", "result"} /\ c = Bottom(w)
        /\ deque[w] # <<>> /\ clock[c] = None /\ cl' = [cl EXCEPT ![w] = c]
        /\ UNCHANGED <<deque, status>>
    BY <2>1 DEF LockBottomDoes
  <2>3. /\ "handler" \notin LockPC /\ "handler" \notin HandPC
        /\ "handler" \in OwnDequePC /\ "sync" \notin LockPC
        /\ "sync" \notin HandPC /\ "sync" \in OwnDequePC
        /\ "abort" \notin LockPC /\ "abort" \notin HandPC
        /\ "abort" \in OwnDequePC /\ "result" \notin LockPC
        /\ "result" \notin HandPC /\ "result" \in OwnDequePC
        /\ "handlerPoll" \in LockPC /\ "handlerPoll" \notin HandPC
        /\ "handlerPoll" \in OwnDequePC /\ "syncPoll" \in LockPC
        /\ "syncPoll" \notin HandPC /\ "syncPoll" \in OwnDequePC
        /\ "setResult" \in LockPC /\ "setResult" \notin HandPC
        /\ "setResult" \in OwnDequePC /\ "abortPoll" \in LockPC
        /\ "abortPoll" \notin HandPC /\ "abortPoll" \in OwnDequePC
        /\ pc[w] \notin LockPC /\ pc[w] \notin HandPC /\ pc[w] \in OwnDequePC
    BY <2>2 DEF LockPC, HandPC, OwnDequePC
  <2>a. Bottom(w)' = Bottom(w)
    BY <1>e, <2>2
  <2>4. ASSUME pc[w] = "handler", pc' = [pc EXCEPT ![w] = "handlerPoll"]
        PROVE  InHandInv'
    <3>1. pc'[w] = "handlerPoll" /\ cl'[w] = c
      BY <1>a, <2>2, <2>3, <2>a, <2>4 DEF Types
    <3>2. \A u \in Worker \ {w} : pc'[u] = pc[u] /\ cl'[u] = cl[u]
      BY <1>a, <2>2, <2>3, <2>a, <2>4 DEF Types
    <3>3. \A u \in Worker \ {w} : pc[u] \in OwnDequePC => deque'[u] = deque[u]
      BY <1>a, <2>2, <2>3, <2>a, <2>4 DEF Types, Shortened, Extended, Topped
    <3>4. \A u \in Worker \ {w} : HandKept(u)
      BY <1>k, <2>2, <2>3, <2>a, <2>4
    <3>5. HandHere(w)'
      BY <1>b, <1>s, <3>1, <2>2, <2>3, <2>a, <2>4 DEF HandHere
    <3>q. QED
      BY <1>h, <2>2, <3>1, <3>2, <3>3, <3>4, <3>5
  <2>5. ASSUME pc[w] = "sync", pc' = [pc EXCEPT ![w] = "syncPoll"]
        PROVE  InHandInv'
    <3>1. pc'[w] = "syncPoll" /\ cl'[w] = c
      BY <1>a, <2>2, <2>3, <2>a, <2>5 DEF Types
    <3>2. \A u \in Worker \ {w} : pc'[u] = pc[u] /\ cl'[u] = cl[u]
      BY <1>a, <2>2, <2>3, <2>a, <2>5 DEF Types
    <3>3. \A u \in Worker \ {w} : pc[u] \in OwnDequePC => deque'[u] = deque[u]
      BY <1>a, <2>2, <2>3, <2>a, <2>5 DEF Types, Shortened, Extended, Topped
    <3>4. \A u \in Worker \ {w} : HandKept(u)
      BY <1>k, <2>2, <2>3, <2>a, <2>5
    <3>5. HandHere(w)'
      BY <1>b, <1>s, <3>1, <2>2, <2>3, <2>a, <2>5 DEF HandHere
    <3>q. QED
      BY <1>h, <2>2, <3>1, <3>2, <3>3, <3>4, <3>5
  <2>6. ASSUME pc[w] = "result", pc' = [pc EXCEPT ![w] = "setResult"]
        PROVE  InHandInv'
    <3>1. pc'[w] = "setResult" /\ cl'[w] = c
      BY <1>a, <2>2, <2>3, <2>a, <2>6 DEF Types
    <3>2. \A u \in Worker \ {w} : pc'[u] = pc[u] /\ cl'[u] = cl[u]
      BY <1>a, <2>2, <2>3, <2>a, <2>6 DEF Types
    <3>3. \A u \in Worker \ {w} : pc[u] \in OwnDequePC => deque'[u] = deque[u]
      BY <1>a, <2>2, <2>3, <2>a, <2>6 DEF Types, Shortened, Extended, Topped
    <3>4. \A u \in Worker \ {w} : HandKept(u)
      BY <1>k, <2>2, <2>3, <2>a, <2>6
    <3>5. HandHere(w)'
      BY <1>b, <1>s, <3>1, <2>2, <2>3, <2>a, <2>6 DEF HandHere
    <3>q. QED
      BY <1>h, <2>2, <3>1, <3>2, <3>3, <3>4, <3>5
  <2>7. ASSUME NEW s \in {ABORT_ALL, ALMOST_NO_ABORT}, pc[w] = "abort",
               status[c] = "RUNNING", pc' = [pc EXCEPT ![w] = "abortPoll"]
        PROVE  InHandInv'
    <3>1. pc'[w] = "abortPoll" /\ cl'[w] = c
      BY <1>a, <2>2, <2>3, <2>a, <2>7 DEF Types
    <3>2. \A u \in Worker \ {w} : pc'[u] = pc[u] /\ cl'[u] = cl[u]
      BY <1>a, <2>2, <2>3, <2>a, <2>7 DEF Types
    <3>3. \A u \in Worker \ {w} : pc[u] \in OwnDequePC => deque'[u] = deque[u]
      BY <1>a, <2>2, <2>3, <2>a, <2>7 DEF Types, Shortened, Extended, Topped
    <3>4. \A u \in Worker \ {w} : HandKept(u)
      BY <1>k, <2>2, <2>3, <2>a, <2>7
    <3>5. HandHere(w)'
      BY <1>b, <1>s, <3>1, <2>2, <2>3, <2>a, <2>7 DEF HandHere
    <3>q. QED
      BY <1>h, <2>2, <3>1, <3>2, <3>3, <3>4, <3>5
  <2>q. QED
    BY <2>1, <2>2, <2>4, <2>5, <2>6, <2>7 DEF LockBottomDoes
<1>27. ASSUME NEW w \in Worker, Sync(w) PROVE InHandInv'
  <2>1. PICK c \in Proc :
          SyncDoes(w, c)
    BY <1>27, SyncEffect
  <2>2. /\ pc[w] = "syncPoll" /\ c = cl[w] /\ c = Bottom(w)
        /\ c = deque[w][Size(deque[w])] /\ T(w) = 1 /\ H[w] = 0
        /\ status[c] = "RUNNING" /\ stack[w][1] = c /\ cache[c] = w
        /\ complete[c] = <<>> /\ cl' = [cl EXCEPT ![w] = None]
    BY <2>1 DEF SyncDoes
  <2>3. /\ "syncPoll" \in LockPC /\ "syncPoll" \notin HandPC
        /\ "syncPoll" \in OwnDequePC /\ "loop" \notin LockPC
        /\ "loop" \in HandPC /\ "loop" \notin OwnDequePC
        /\ "synced" \notin LockPC /\ "synced" \notin HandPC
        /\ "synced" \notin OwnDequePC
    BY <2>2 DEF LockPC, HandPC, OwnDequePC
  <2>a. clock[c] = w
    BY <1>l, <2>2, <2>3
  <2>4. ASSUME join[c] # 0, pc' = [pc EXCEPT ![w] = "loop"],
               Shortened(deque, deque', w),
               status' = [status EXCEPT ![c] = "SUSPENDED"]
        PROVE  InHandInv'
    <3>1. pc'[w] = "loop" /\ cl'[w] = None
      BY <1>a, <2>2, <2>3, <2>a, <2>4 DEF Types
    <3>2. \A u \in Worker \ {w} : pc'[u] = pc[u] /\ cl'[u] = cl[u]
      BY <1>a, <2>2, <2>3, <2>a, <2>4 DEF Types
    <3>3. \A u \in Worker \ {w} : pc[u] \in OwnDequePC => deque'[u] = deque[u]
      BY <1>a, <2>2, <2>3, <2>a, <2>4 DEF Types, Shortened, Extended, Topped
    <3>4. \A u \in Worker \ {w} : HandKept(u)
      BY <1>p, <2>2, <2>a, <2>4
    <3>5. HandHere(w)'
      BY <1>b, <1>s, <3>1, <2>2, <2>3, <2>a, <2>4 DEF HandHere
    <3>q. QED
      BY <1>h, <2>2, <3>1, <3>2, <3>3, <3>4, <3>5
  <2>5. ASSUME join[c] = 0, pc' = [pc EXCEPT ![w] = "synced"],
               UNCHANGED <<deque, status>>
        PROVE  InHandInv'
    <3>1. pc'[w] = "synced" /\ cl'[w] = None
      BY <1>a, <2>2, <2>3, <2>a, <2>5 DEF Types
    <3>2. \A u \in Worker \ {w} : pc'[u] = pc[u] /\ cl'[u] = cl[u]
      BY <1>a, <2>2, <2>3, <2>a, <2>5 DEF Types
    <3>3. \A u \in Worker \ {w} : pc[u] \in OwnDequePC => deque'[u] = deque[u]
      BY <1>a, <2>2, <2>3, <2>a, <2>5 DEF Types, Shortened, Extended, Topped
    <3>4. \A u \in Worker \ {w} : HandKept(u)
      BY <1>k, <2>2, <2>3, <2>a, <2>5
    <3>5. HandHere(w)'
      BY <1>b, <1>s, <3>1, <2>2, <2>3, <2>a, <2>5 DEF HandHere
    <3>q. QED
      BY <1>h, <2>2, <3>1, <3>2, <3>3, <3>4, <3>5
  <2>q. QED
    BY <2>1, <2>2, <2>4, <2>5 DEF SyncDoes
<1>28. ASSUME NEW w \in Worker, AbortSlow(w) PROVE InHandInv'
  <2>2. /\ pc[w] = "abortPoll" /\ complete[cl[w]] = <<>>
        /\ pc' = [pc EXCEPT ![w] = "run"] /\ cl' = [cl EXCEPT ![w] = None]
        /\ UNCHANGED <<deque, status>>
    BY <1>28 DEF AbortSlow, program, results, tree, caches, Goto, UnlockBoth,
       Polled, Hand, UnlockClosure, UnlockDeque, Polls
  <2>3. /\ "abortPoll" \in LockPC /\ "abortPoll" \notin HandPC
        /\ "abortPoll" \in OwnDequePC /\ "run" \notin LockPC
        /\ "run" \notin HandPC /\ "run" \notin OwnDequePC
    BY <2>2 DEF LockPC, HandPC, OwnDequePC
  <2>4. pc'[w] = "run" /\ cl'[w] = None
    BY <1>a, <2>2, <2>3 DEF Types
  <2>5. \A u \in Worker \ {w} : pc'[u] = pc[u] /\ cl'[u] = cl[u]
    BY <1>a, <2>2, <2>3 DEF Types
  <2>6. \A u \in Worker \ {w} : pc[u] \in OwnDequePC => deque'[u] = deque[u]
    BY <1>a, <2>2, <2>3 DEF Types, Shortened, Extended, Topped
  <2>7. \A u \in Worker \ {w} : HandKept(u)
    BY <1>k, <2>2, <2>3
  <2>8. HandHere(w)'
    BY <1>b, <1>s, <2>4, <2>2, <2>3 DEF HandHere
  <2>q. QED
    BY <1>h, <2>2, <2>4, <2>5, <2>6, <2>7, <2>8
<1>29. ASSUME NEW w \in Worker, SetResult(w) PROVE InHandInv'
  <2>1. PICK c \in Proc :
          SetResultDoes(w, c)
    BY <1>29, SetResultEffect
  <2>2. /\ pc[w] = "setResult" /\ c = cl[w] /\ c = Bottom(w)
        /\ c = deque[w][Size(deque[w])] /\ T(w) = 1 /\ H[w] = 0 /\ c # Root
        /\ deque[w] # <<>> /\ status[c] = "RUNNING" /\ stack[w][1] = c
        /\ cache[c] = w /\ pc' = [pc EXCEPT ![w] = "loop"]
        /\ cl' = [cl EXCEPT ![w] = None]
        /\ status' = [status EXCEPT ![c] = "RETURNING"]
        /\ UNCHANGED <<deque>>
    BY <2>1 DEF SetResultDoes
  <2>3. /\ "setResult" \in LockPC /\ "setResult" \notin HandPC
        /\ "setResult" \in OwnDequePC /\ "loop" \notin LockPC
        /\ "loop" \in HandPC /\ "loop" \notin OwnDequePC
    BY <2>2 DEF LockPC, HandPC, OwnDequePC
  <2>a. clock[c] = w
    BY <1>l, <2>2, <2>3
  <2>4. pc'[w] = "loop" /\ cl'[w] = None
    BY <1>a, <2>2, <2>3, <2>a DEF Types
  <2>5. \A u \in Worker \ {w} : pc'[u] = pc[u] /\ cl'[u] = cl[u]
    BY <1>a, <2>2, <2>3, <2>a DEF Types
  <2>6. \A u \in Worker \ {w} : pc[u] \in OwnDequePC => deque'[u] = deque[u]
    BY <1>a, <2>2, <2>3, <2>a DEF Types, Shortened, Extended, Topped
  <2>7. \A u \in Worker \ {w} : HandKept(u)
    BY <1>p, <2>2, <2>a
  <2>8. HandHere(w)'
    BY <1>b, <1>s, <2>4, <2>2, <2>3, <2>a DEF HandHere
  <2>q. QED
    BY <1>h, <2>2, <2>4, <2>5, <2>6, <2>7, <2>8
<1>30. ASSUME NEW w \in Worker, Done(w) PROVE InHandInv'
  BY <1>g, <1>30 DEF Done, results, state, tree, locks, caches, Goto,
     AfterSync, LockPC, HandPC, OwnDequePC
<1>31. ASSUME NEW w \in Worker, RemoveAndFree(w) PROVE InHandInv'
  <2>1. RemoveAndFreeDoes(w)
    BY <1>31, RemoveAndFreeEffect
  <2>2. /\ pc[w] = "rootEnd" /\ Root = Bottom(w)
        /\ Root = deque[w][Size(deque[w])] /\ T(w) = 1 /\ H[w] = 0
        /\ Root \in Proc /\ status[Root] = "RUNNING" /\ cache[Root] = w
        /\ pc' = [pc EXCEPT ![w] = "loop"] /\ Shortened(deque, deque', w)
        /\ status' = [status EXCEPT ![Root] = "freed"]
        /\ UNCHANGED <<cl>>
    BY <2>1 DEF RemoveAndFreeDoes
  <2>3. /\ "rootEnd" \notin LockPC /\ "rootEnd" \notin HandPC
        /\ "rootEnd" \notin OwnDequePC /\ "loop" \notin LockPC
        /\ "loop" \in HandPC /\ "loop" \notin OwnDequePC
    BY <2>2 DEF LockPC, HandPC, OwnDequePC
  <2>a. \A u \in Worker : pc[u] \in {"stealFinish", "loop", "exit"} => cl[u] # Root
    <3>1. \A u \in Worker : pc[u] \in {"stealFinish", "loop", "exit"} => pc[u] \in HandPC
      BY DEF HandPC
    <3>2. Size(deque[w]) \in 1 .. Size(deque[w])
      BY <2>2, DequeFacts DEF IInv, CurrentInv, WorkPC, SlowPC
    <3>q. QED
      BY <2>2, <3>1, <3>2 DEF IInv, PlacesApart
  <2>4. pc'[w] = "loop" /\ cl'[w] = cl[w]
    BY <1>a, <2>2, <2>3, <2>a DEF Types
  <2>5. \A u \in Worker \ {w} : pc'[u] = pc[u] /\ cl'[u] = cl[u]
    BY <1>a, <2>2, <2>3, <2>a DEF Types
  <2>6. \A u \in Worker \ {w} : pc[u] \in OwnDequePC => deque'[u] = deque[u]
    BY <1>a, <2>2, <2>3, <2>a DEF Types, Shortened, Extended, Topped
  <2>7. \A u \in Worker \ {w} : HandKept(u)
    <3>1. \A d \in Proc \ {Root} : status'[d] = status[d]
      BY <1>a, <2>2 DEF Types
    <3>q. QED
      BY <1>b, <1>c, <2>2, <2>a, <3>1 DEF HandKept
  <2>8. HandHere(w)'
    BY <1>b, <1>s, <2>4, <2>2, <2>3, <2>a DEF HandHere
  <2>q. QED
    BY <1>h, <2>2, <2>4, <2>5, <2>6, <2>7, <2>8
<1>32. ASSUME NEW w \in Worker, CilkExit(w) PROVE InHandInv'
  <2>1. CilkExitDoes(w)
    BY <1>32, CilkExitEffect
  <2>2. /\ pc[w] = "run" /\ Root \in Proc /\ clock[Root] = None
        /\ Running(w) # Root
        /\ UNCHANGED <<deque, status>>
    BY <2>1 DEF CilkExitDoes
  <2>3. /\ "run" \notin LockPC /\ "run" \notin HandPC
        /\ "run" \notin OwnDequePC /\ "exitPoll" \in LockPC
        /\ "exitPoll" \notin HandPC /\ "exitPoll" \notin OwnDequePC
    BY <2>2 DEF LockPC, HandPC, OwnDequePC
  <2>4. ASSUME status[Root] = "RUNNING",
               UNCHANGED <<pc, cl>>
        PROVE  InHandInv'
    <3>1. pc'[w] = pc[w] /\ cl'[w] = cl[w]
      BY <1>a, <2>2, <2>3, <2>4 DEF Types
    <3>2. \A u \in Worker \ {w} : pc'[u] = pc[u] /\ cl'[u] = cl[u]
      BY <1>a, <2>2, <2>3, <2>4 DEF Types
    <3>3. \A u \in Worker \ {w} : pc[u] \in OwnDequePC => deque'[u] = deque[u]
      BY <1>a, <2>2, <2>3, <2>4 DEF Types, Shortened, Extended, Topped
    <3>4. \A u \in Worker \ {w} : HandKept(u)
      BY <1>k, <2>2, <2>3, <2>4
    <3>5. HandHere(w)'
      BY <1>b, <1>s, <3>1, <2>2, <2>3, <2>4 DEF HandHere
    <3>q. QED
      BY <1>h, <2>2, <3>1, <3>2, <3>3, <3>4, <3>5
  <2>5. ASSUME status[Root] # "RUNNING", pc' = [pc EXCEPT ![w] = "exitPoll"],
               cl' = [cl EXCEPT ![w] = Root]
        PROVE  InHandInv'
    <3>1. pc'[w] = "exitPoll" /\ cl'[w] = Root
      BY <1>a, <2>2, <2>3, <2>5 DEF Types
    <3>2. \A u \in Worker \ {w} : pc'[u] = pc[u] /\ cl'[u] = cl[u]
      BY <1>a, <2>2, <2>3, <2>5 DEF Types
    <3>3. \A u \in Worker \ {w} : pc[u] \in OwnDequePC => deque'[u] = deque[u]
      BY <1>a, <2>2, <2>3, <2>5 DEF Types, Shortened, Extended, Topped
    <3>4. \A u \in Worker \ {w} : HandKept(u)
      BY <1>k, <2>2, <2>3, <2>5
    <3>5. HandHere(w)'
      BY <1>b, <1>s, <3>1, <2>2, <2>3, <2>5 DEF HandHere
    <3>q. QED
      BY <1>h, <2>2, <3>1, <3>2, <3>3, <3>4, <3>5
  <2>q. QED
    BY <2>1, <2>2, <2>4, <2>5 DEF CilkExitDoes
<1>33. ASSUME NEW w \in Worker, CilkExitDone(w) PROVE InHandInv'
  <2>2. /\ pc[w] = "exitPoll" /\ complete[cl[w]] = <<>>
        /\ pc' = [pc EXCEPT ![w] = "run"] /\ cl' = [cl EXCEPT ![w] = None]
        /\ UNCHANGED <<deque, status>>
    BY <1>33 DEF CilkExitDone, program, results, tree, caches, Goto, Hand,
       UnlockClosure, Polled, Polls
  <2>3. /\ "exitPoll" \in LockPC /\ "exitPoll" \notin HandPC
        /\ "exitPoll" \notin OwnDequePC /\ "run" \notin LockPC
        /\ "run" \notin HandPC /\ "run" \notin OwnDequePC
    BY <2>2 DEF LockPC, HandPC, OwnDequePC
  <2>4. pc'[w] = "run" /\ cl'[w] = None
    BY <1>a, <2>2, <2>3 DEF Types
  <2>5. \A u \in Worker \ {w} : pc'[u] = pc[u] /\ cl'[u] = cl[u]
    BY <1>a, <2>2, <2>3 DEF Types
  <2>6. \A u \in Worker \ {w} : pc[u] \in OwnDequePC => deque'[u] = deque[u]
    BY <1>a, <2>2, <2>3 DEF Types, Shortened, Extended, Topped
  <2>7. \A u \in Worker \ {w} : HandKept(u)
    BY <1>k, <2>2, <2>3
  <2>8. HandHere(w)'
    BY <1>b, <1>s, <2>4, <2>2, <2>3 DEF HandHere
  <2>q. QED
    BY <1>h, <2>2, <2>4, <2>5, <2>6, <2>7, <2>8
<1>34. ASSUME NEW w \in Worker, HandlerPolled(w) PROVE InHandInv'
  <2>1. PICK t \in Proc, t1 \in Proc :
          HandlerPolledDoes(w, t, t1)
    BY <1>34, HandlerPolledEffect
  <2>2. /\ pc[w] = "handlerPoll" /\ t = cl[w] /\ t1 = Bottom(w)
        /\ deque[w] # <<>> /\ complete[t] = <<>>
        /\ UNCHANGED <<deque, status>>
    BY <2>1 DEF HandlerPolledDoes
  <2>3. /\ "handlerPoll" \in LockPC /\ "handlerPoll" \notin HandPC
        /\ "handlerPoll" \in OwnDequePC /\ "handlerAct" \in LockPC
        /\ "handlerAct" \notin HandPC /\ "handlerAct" \in OwnDequePC
        /\ "handlerSwap" \notin LockPC /\ "handlerSwap" \notin HandPC
        /\ "handlerSwap" \in OwnDequePC
    BY <2>2 DEF LockPC, HandPC, OwnDequePC
  <2>a. Bottom(w)' = Bottom(w)
    BY <1>e, <2>2
  <2>4. ASSUME t1 = t, pc' = [pc EXCEPT ![w] = "handlerAct"],
               UNCHANGED <<cl>>
        PROVE  InHandInv'
    <3>1. pc'[w] = "handlerAct" /\ cl'[w] = cl[w]
      BY <1>a, <2>2, <2>3, <2>a, <2>4 DEF Types
    <3>2. \A u \in Worker \ {w} : pc'[u] = pc[u] /\ cl'[u] = cl[u]
      BY <1>a, <2>2, <2>3, <2>a, <2>4 DEF Types
    <3>3. \A u \in Worker \ {w} : pc[u] \in OwnDequePC => deque'[u] = deque[u]
      BY <1>a, <2>2, <2>3, <2>a, <2>4 DEF Types, Shortened, Extended, Topped
    <3>4. \A u \in Worker \ {w} : HandKept(u)
      BY <1>k, <2>2, <2>3, <2>a, <2>4
    <3>5. HandHere(w)'
      BY <1>b, <1>s, <3>1, <2>2, <2>3, <2>a, <2>4 DEF HandHere
    <3>q. QED
      BY <1>h, <2>2, <3>1, <3>2, <3>3, <3>4, <3>5
  <2>5. ASSUME t1 # t, status[t] = "READY",
               pc' = [pc EXCEPT ![w] = "handlerSwap"],
               cl' = [cl EXCEPT ![w] = t1]
        PROVE  InHandInv'
    <3>1. pc'[w] = "handlerSwap" /\ cl'[w] = t1
      BY <1>a, <2>2, <2>3, <2>a, <2>5 DEF Types
    <3>2. \A u \in Worker \ {w} : pc'[u] = pc[u] /\ cl'[u] = cl[u]
      BY <1>a, <2>2, <2>3, <2>a, <2>5 DEF Types
    <3>3. \A u \in Worker \ {w} : pc[u] \in OwnDequePC => deque'[u] = deque[u]
      BY <1>a, <2>2, <2>3, <2>a, <2>5 DEF Types, Shortened, Extended, Topped
    <3>4. \A u \in Worker \ {w} : HandKept(u)
      BY <1>k, <2>2, <2>3, <2>a, <2>5
    <3>5. HandHere(w)'
      BY <1>b, <1>s, <3>1, <2>2, <2>3, <2>a, <2>5 DEF HandHere
    <3>q. QED
      BY <1>h, <2>2, <3>1, <3>2, <3>3, <3>4, <3>5
  <2>q. QED
    BY <2>1, <2>2, <2>4, <2>5 DEF HandlerPolledDoes
<1>35. ASSUME NEW w \in Worker, HandlerSwap(w) PROVE InHandInv'
  <2>2. /\ pc[w] = "handlerSwap" /\ clock[cl[w]] = None
        /\ pc' = [pc EXCEPT ![w] = "handlerAct"]
        /\ UNCHANGED <<cl, deque, status>>
    BY <1>35 DEF HandlerSwap, program, results, state, tree, caches, Goto,
       LockClosure
  <2>3. /\ "handlerSwap" \notin LockPC /\ "handlerSwap" \notin HandPC
        /\ "handlerSwap" \in OwnDequePC /\ "handlerAct" \in LockPC
        /\ "handlerAct" \notin HandPC /\ "handlerAct" \in OwnDequePC
    BY <2>2 DEF LockPC, HandPC, OwnDequePC
  <2>a. Bottom(w)' = Bottom(w)
    BY <1>e, <2>2
  <2>4. pc'[w] = "handlerAct" /\ cl'[w] = cl[w]
    BY <1>a, <2>2, <2>3, <2>a DEF Types
  <2>5. \A u \in Worker \ {w} : pc'[u] = pc[u] /\ cl'[u] = cl[u]
    BY <1>a, <2>2, <2>3, <2>a DEF Types
  <2>6. \A u \in Worker \ {w} : pc[u] \in OwnDequePC => deque'[u] = deque[u]
    BY <1>a, <2>2, <2>3, <2>a DEF Types, Shortened, Extended, Topped
  <2>7. \A u \in Worker \ {w} : HandKept(u)
    BY <1>k, <2>2, <2>3, <2>a
  <2>8. HandHere(w)'
    BY <1>b, <1>s, <2>4, <2>2, <2>3, <2>a DEF HandHere
  <2>q. QED
    BY <1>h, <2>2, <2>4, <2>5, <2>6, <2>7, <2>8
<1>36. ASSUME NEW w \in Worker, HandlerStolen(w) PROVE InHandInv'
  <2>1. PICK c \in Proc :
          HandlerStolenDoes(w, c)
    BY <1>36, HandlerStolenEffect
  <2>2. /\ pc[w] = "handlerAct" /\ c = cl[w] /\ c = Bottom(w)
        /\ c = deque[w][Size(deque[w])] /\ c # Root /\ deque[w] # <<>>
        /\ T(w) \in Nat \ {0} /\ H[w] \in Nat /\ H[w] >= T(w)
        /\ status[c] = "RUNNING" => child[w] = c /\ cache[c] = w
        /\ status[c] \in {"RUNNING", "RETURNING"}
        /\ cl' = [cl EXCEPT ![w] = None]
        /\ status' = [status EXCEPT ![c] = "RETURNING"]
        /\ UNCHANGED <<deque>>
    BY <2>1 DEF HandlerStolenDoes
  <2>3. /\ "handlerAct" \in LockPC /\ "handlerAct" \notin HandPC
        /\ "handlerAct" \in OwnDequePC /\ "loop" \notin LockPC
        /\ "loop" \in HandPC /\ "loop" \notin OwnDequePC /\ "pop" \notin LockPC
        /\ "pop" \notin HandPC /\ "pop" \notin OwnDequePC
    BY <2>2 DEF LockPC, HandPC, OwnDequePC
  <2>a. clock[c] = w
    BY <1>l, <2>2, <2>3
  <2>b. \A u \in Worker \ {w} : HandKept(u)
    <3>1. CASE status[c] = "RUNNING"
      BY <1>p, <2>2, <2>a, <3>1
    <3>2. CASE status[c] = "RETURNING"
      <4>1. status' = status
        BY <1>a, <2>2, <3>2 DEF Types
      <4>q. QED
        BY <1>k, <4>1
    <3>q. QED
      BY <2>2, <3>1, <3>2
  <2>4. ASSUME T(w) = 1, pc' = [pc EXCEPT ![w] = "loop"]
        PROVE  InHandInv'
    <3>1. pc'[w] = "loop" /\ cl'[w] = None
      BY <1>a, <2>2, <2>3, <2>a, <2>4 DEF Types
    <3>2. \A u \in Worker \ {w} : pc'[u] = pc[u] /\ cl'[u] = cl[u]
      BY <1>a, <2>2, <2>3, <2>a, <2>4 DEF Types
    <3>3. \A u \in Worker \ {w} : pc[u] \in OwnDequePC => deque'[u] = deque[u]
      BY <1>a, <2>2, <2>3, <2>a, <2>4 DEF Types, Shortened, Extended, Topped
    <3>4. \A u \in Worker \ {w} : HandKept(u)
      BY <2>b
    <3>5. HandHere(w)'
      BY <1>b, <1>s, <3>1, <2>2, <2>3, <2>a, <2>4 DEF HandHere
    <3>q. QED
      BY <1>h, <2>2, <3>1, <3>2, <3>3, <3>4, <3>5
  <2>5. ASSUME T(w) # 1, pc' = [pc EXCEPT ![w] = "pop"]
        PROVE  InHandInv'
    <3>1. pc'[w] = "pop" /\ cl'[w] = None
      BY <1>a, <2>2, <2>3, <2>a, <2>5 DEF Types
    <3>2. \A u \in Worker \ {w} : pc'[u] = pc[u] /\ cl'[u] = cl[u]
      BY <1>a, <2>2, <2>3, <2>a, <2>5 DEF Types
    <3>3. \A u \in Worker \ {w} : pc[u] \in OwnDequePC => deque'[u] = deque[u]
      BY <1>a, <2>2, <2>3, <2>a, <2>5 DEF Types, Shortened, Extended, Topped
    <3>4. \A u \in Worker \ {w} : HandKept(u)
      BY <2>b
    <3>5. HandHere(w)'
      BY <1>b, <1>s, <3>1, <2>2, <2>3, <2>a, <2>5 DEF HandHere
    <3>q. QED
      BY <1>h, <2>2, <3>1, <3>2, <3>3, <3>4, <3>5
  <2>q. QED
    BY <2>1, <2>2, <2>4, <2>5 DEF HandlerStolenDoes
<1>37. ASSUME NEW w \in Worker, HandlerAbort(w) PROVE InHandInv'
  <2>1. PICK c \in Proc, f \in Proc :
          HandlerAbortDoes(w, c, f)
    BY <1>37, HandlerAbortEffect
  <2>2. /\ pc[w] = "handlerAct" /\ c = cl[w] /\ c = Bottom(w)
        /\ c = deque[w][Size(deque[w])] /\ deque[w] # <<>>
        /\ T(w) \in Nat \ {0} /\ H[w] \in Nat /\ H[w] < T(w)
        /\ status[c] = "RUNNING" /\ cache[c] = w /\ stack[w][H[w] + 1] = c
        /\ cl' = [cl EXCEPT ![w] = None]
    BY <2>1 DEF HandlerAbortDoes
  <2>3. /\ "handlerAct" \in LockPC /\ "handlerAct" \notin HandPC
        /\ "handlerAct" \in OwnDequePC /\ "loop" \notin LockPC
        /\ "loop" \in HandPC /\ "loop" \notin OwnDequePC /\ "pop" \notin LockPC
        /\ "pop" \notin HandPC /\ "pop" \notin OwnDequePC
    BY <2>2 DEF LockPC, HandPC, OwnDequePC
  <2>a. clock[c] = w
    BY <1>l, <2>2, <2>3
  <2>4. ASSUME T(w) = 1, H[w] = 0, join[c] # 0,
               pc' = [pc EXCEPT ![w] = "loop"], Shortened(deque, deque', w),
               status' = [status EXCEPT ![c] = "SUSPENDED"]
        PROVE  InHandInv'
    <3>1. pc'[w] = "loop" /\ cl'[w] = None
      BY <1>a, <2>2, <2>3, <2>a, <2>4 DEF Types
    <3>2. \A u \in Worker \ {w} : pc'[u] = pc[u] /\ cl'[u] = cl[u]
      BY <1>a, <2>2, <2>3, <2>a, <2>4 DEF Types
    <3>3. \A u \in Worker \ {w} : pc[u] \in OwnDequePC => deque'[u] = deque[u]
      BY <1>a, <2>2, <2>3, <2>a, <2>4 DEF Types, Shortened, Extended, Topped
    <3>4. \A u \in Worker \ {w} : HandKept(u)
      BY <1>p, <2>2, <2>a, <2>4
    <3>5. HandHere(w)'
      BY <1>b, <1>s, <3>1, <2>2, <2>3, <2>a, <2>4 DEF HandHere
    <3>q. QED
      BY <1>h, <2>2, <3>1, <3>2, <3>3, <3>4, <3>5
  <2>5. ASSUME T(w) = 1, H[w] = 0, join[c] = 0, c # Root,
               pc' = [pc EXCEPT ![w] = "loop"],
               status' = [status EXCEPT ![c] = "RETURNING"],
               UNCHANGED <<deque>>
        PROVE  InHandInv'
    <3>1. pc'[w] = "loop" /\ cl'[w] = None
      BY <1>a, <2>2, <2>3, <2>a, <2>5 DEF Types
    <3>2. \A u \in Worker \ {w} : pc'[u] = pc[u] /\ cl'[u] = cl[u]
      BY <1>a, <2>2, <2>3, <2>a, <2>5 DEF Types
    <3>3. \A u \in Worker \ {w} : pc[u] \in OwnDequePC => deque'[u] = deque[u]
      BY <1>a, <2>2, <2>3, <2>a, <2>5 DEF Types, Shortened, Extended, Topped
    <3>4. \A u \in Worker \ {w} : HandKept(u)
      BY <1>p, <2>2, <2>a, <2>5
    <3>5. HandHere(w)'
      BY <1>b, <1>s, <3>1, <2>2, <2>3, <2>a, <2>5 DEF HandHere
    <3>q. QED
      BY <1>h, <2>2, <3>1, <3>2, <3>3, <3>4, <3>5
  <2>6. ASSUME T(w) # 1, H[w] + 1 = T(w), join[c] = 0, c # Root,
               pc' = [pc EXCEPT ![w] = "pop"],
               status' = [status EXCEPT ![c] = "RETURNING"],
               UNCHANGED <<deque>>
        PROVE  InHandInv'
    <3>1. pc'[w] = "pop" /\ cl'[w] = None
      BY <1>a, <2>2, <2>3, <2>a, <2>6 DEF Types
    <3>2. \A u \in Worker \ {w} : pc'[u] = pc[u] /\ cl'[u] = cl[u]
      BY <1>a, <2>2, <2>3, <2>a, <2>6 DEF Types
    <3>3. \A u \in Worker \ {w} : pc[u] \in OwnDequePC => deque'[u] = deque[u]
      BY <1>a, <2>2, <2>3, <2>a, <2>6 DEF Types, Shortened, Extended, Topped
    <3>4. \A u \in Worker \ {w} : HandKept(u)
      BY <1>p, <2>2, <2>a, <2>6
    <3>5. HandHere(w)'
      BY <1>b, <1>s, <3>1, <2>2, <2>3, <2>a, <2>6 DEF HandHere
    <3>q. QED
      BY <1>h, <2>2, <3>1, <3>2, <3>3, <3>4, <3>5
  <2>7. ASSUME H[w] + 1 < T(w), f = stack[w][T(w)], f # Root,
               status[f] = "none", pc' = [pc EXCEPT ![w] = "pop"],
               UNCHANGED <<deque, status>>
        PROVE  InHandInv'
    <3>1. pc'[w] = "pop" /\ cl'[w] = None
      BY <1>a, <2>2, <2>3, <2>a, <2>7 DEF Types
    <3>2. \A u \in Worker \ {w} : pc'[u] = pc[u] /\ cl'[u] = cl[u]
      BY <1>a, <2>2, <2>3, <2>a, <2>7 DEF Types
    <3>3. \A u \in Worker \ {w} : pc[u] \in OwnDequePC => deque'[u] = deque[u]
      BY <1>a, <2>2, <2>3, <2>a, <2>7 DEF Types, Shortened, Extended, Topped
    <3>4. \A u \in Worker \ {w} : HandKept(u)
      BY <1>k, <2>2, <2>3, <2>a, <2>7
    <3>5. HandHere(w)'
      BY <1>b, <1>s, <3>1, <2>2, <2>3, <2>a, <2>7 DEF HandHere
    <3>q. QED
      BY <1>h, <2>2, <3>1, <3>2, <3>3, <3>4, <3>5
  <2>q. QED
    BY <2>1, <2>2, <2>4, <2>5, <2>6, <2>7 DEF HandlerAbortDoes, AbortWaits,
       AbortReturns, AbortPops
<1>38. ASSUME NEW w \in Worker, HandlerResume(w) PROVE InHandInv'
  <2>2. /\ pc[w] = "handlerAct" /\ ~(H[w] >= T(w))
        /\ pc' = [pc EXCEPT ![w] = "run"] /\ cl' = [cl EXCEPT ![w] = None]
        /\ UNCHANGED <<deque, status>>
    BY <1>38 DEF HandlerResume, program, tree, Goto, UnlockBoth, Outcome,
       BeingAborted, Stolen, Hand, UnlockClosure, UnlockDeque
  <2>3. /\ "handlerAct" \in LockPC /\ "handlerAct" \notin HandPC
        /\ "handlerAct" \in OwnDequePC /\ "run" \notin LockPC
        /\ "run" \notin HandPC /\ "run" \notin OwnDequePC
    BY <2>2 DEF LockPC, HandPC, OwnDequePC
  <2>4. pc'[w] = "run" /\ cl'[w] = None
    BY <1>a, <2>2, <2>3 DEF Types
  <2>5. \A u \in Worker \ {w} : pc'[u] = pc[u] /\ cl'[u] = cl[u]
    BY <1>a, <2>2, <2>3 DEF Types
  <2>6. \A u \in Worker \ {w} : pc[u] \in OwnDequePC => deque'[u] = deque[u]
    BY <1>a, <2>2, <2>3 DEF Types, Shortened, Extended, Topped
  <2>7. \A u \in Worker \ {w} : HandKept(u)
    BY <1>k, <2>2, <2>3
  <2>8. HandHere(w)'
    BY <1>b, <1>s, <2>4, <2>2, <2>3 DEF HandHere
  <2>q. QED
    BY <1>h, <2>2, <2>4, <2>5, <2>6, <2>7, <2>8
<1>39. CASE UNCHANGED vars
  BY <1>f, <1>39 DEF vars
<1>q. QED
  BY <1>1, <1>2, <1>3, <1>4, <1>5, <1>6, <1>7, <1>8, <1>9, <1>10, <1>11, <1>12,
     <1>13, <1>14, <1>15, <1>16, <1>17, <1>18, <1>19, <1>20, <1>21, <1>22,
     <1>23, <1>24, <1>25, <1>26, <1>27, <1>28, <1>29, <1>30, <1>31, <1>32,
     <1>33, <1>34, <1>35, <1>36, <1>37, <1>38, <1>39 DEF Next, Step, Terminated
=============================================================================
