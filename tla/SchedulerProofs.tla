-------------------------- MODULE SchedulerProofs ---------------------------
(* That the scheduler's steps keep the parts of the invariant about deques *)
(* and the places of closures; the invariant itself; and what follows.     *)
EXTENDS SchedulerFrames

(* A closure gets below another only when the one above is READY:          *)
(* promote_child and split_closure make the old bottom so, or take it      *)
(* away.                                                                   *)
LEMMA DequeInvStep ==
    ASSUME IInv, [Next]_vars
    PROVE  DequeInv'
<1>a. Types /\ Types'
  BY TypesStep DEF IInv
<1>b. created \in Nat \ {0} /\ created' \in Nat /\ None \notin Proc /\ Root \in Proc
  BY <1>a, BoundAssumption DEF Types, Proc, None, Root
<1>d. \A u \in Worker :
         /\ Size(deque[u]) \in Nat /\ Size(deque'[u]) \in Nat
         /\ deque[u] = <<>> <=> Size(deque[u]) = 0
         /\ deque'[u] = <<>> <=> Size(deque'[u]) = 0
         /\ \A i \in 1 .. Size(deque[u]) : deque[u][i] \in Proc
         /\ Bottom(u) = deque[u][Size(deque[u])]
         /\ Bottom(u)' = deque'[u][Size(deque'[u])]
  <2>1. \A u \in Worker : deque[u] \in Seq(Proc) /\ deque'[u] \in Seq(Proc)
    BY <1>a DEF Types
  <2>2. \A u \in Worker : /\ Bottom(u) = deque[u][Size(deque[u])]
                          /\ Bottom(u)' = deque'[u][Size(deque'[u])]
    BY DEF Bottom, Size
  <2>q. QED
    BY <2>1, <2>2, SeqFacts
<1>s. \A u \in Worker : DequeHere(u)
  BY DEF IInv, DequeInv, DequeHere
<1>v. \A u \in Worker : pc[u] \in VictimPC => victim[u] \in Worker \ {u} /\ dlock[victim[u]] = u
  BY <1>a DEF IInv, Types, DequeLocks, HoldsDeque
<1>k. ASSUME UNCHANGED status PROVE DequesKept
  BY <1>k DEF DequesKept
<1>p. ASSUME NEW c \in Proc, NEW s, status' = [status EXCEPT ![c] = s],
             \/ status[c] \notin {"READY", "RETURNING"}
             \/ \A u \in Worker : \A i \in 1 .. Size(deque[u]) : deque[u][i] # c
      PROVE  DequesKept
  <2>1. \A d \in Proc \ {c} : status'[d] = status[d]
    BY <1>a, <1>p DEF Types
  <2>q. QED
    BY <1>d, <1>p, <2>1 DEF DequesKept
<1>o. ASSUME NEW w \in Worker, NEW c \in Proc,
             \/ pc[w] \in HandPC /\ cl[w] = c
             \/ pc[w] \in ReturnPC /\ child[w] = c
      PROVE  \A u \in Worker : \A i \in 1 .. Size(deque[u]) : deque[u][i] # c
  BY <1>o DEF IInv, PlacesApart
<1>i. ASSUME NEW u \in Worker, DequesKept, deque'[u] = deque[u],
             pc'[u] = pc[u], cl'[u] = cl[u]
      PROVE  /\ \A i \in 1 .. Size(deque'[u]) - 1 : status'[deque'[u][i]] = "READY"
             /\ \/ pc'[u] \in WorkPC \/ deque'[u] = <<>>
                \/ status'[Bottom(u)'] = "READY"
                \/ status'[Bottom(u)'] = "RETURNING" /\ pc'[u] \in {"loop", "exit"}
                      /\ cl'[u] = None
  <2>1. Bottom(u)' = Bottom(u)
    BY <1>d, <1>i
  <2>2. \A i \in 1 .. Size(deque[u]) - 1 : i \in 1 .. Size(deque[u])
    BY <1>d
  <2>3. \A i \in 1 .. Size(deque'[u]) - 1 : status'[deque'[u][i]] = "READY"
    BY <1>i, <1>s, <2>2 DEF DequeHere, DequesKept
  <2>4. deque[u] # <<>> /\ status[Bottom(u)] \in {"READY", "RETURNING"}
           => status'[Bottom(u)] = status[Bottom(u)]
    <3>1. deque[u] # <<>> => Size(deque[u]) \in 1 .. Size(deque[u])
      BY <1>d
    <3>q. QED
      BY <1>d, <1>i, <3>1 DEF DequesKept
  <2>q. QED
    BY <1>i, <1>s, <2>1, <2>3, <2>4 DEF DequeHere
<1>y. ASSUME NEW w \in Worker, NEW v \in Worker, dlock[v] \in {None, w},
             \A u \in Worker \ {v} : deque'[u] = deque[u]
      PROVE  \A u \in Worker \ {w} : pc[u] \in VictimPC
                => deque'[victim[u]] = deque[victim[u]]
  BY <1>v, <1>y, WorkerAssumption DEF None
<1>x. ASSUME NEW w \in Worker, Shortened(deque, deque', w), DequesKept,
             pc'[w] \notin VictimPC \cup {"steal"}
      PROVE  DequeHere(w)'
  <2>1. /\ Size(deque'[w]) = Size(deque[w]) - 1 /\ Size(deque[w]) \in Nat
        /\ Size(deque'[w]) \in Nat
        /\ \A i \in 1 .. Size(deque[w]) - 1 : deque'[w][i] = deque[w][i]
    BY <1>d, <1>x DEF Shortened
  <2>2. \A i \in 1 .. Size(deque[w]) - 1 :
           i \in 1 .. Size(deque[w]) /\ status[deque[w][i]] = "READY"
    BY <1>s, <2>1 DEF DequeHere
  <2>3. \A i \in 1 .. Size(deque'[w]) : status'[deque'[w][i]] = "READY"
    BY <1>x, <2>1, <2>2 DEF DequesKept
  <2>4. deque'[w] = <<>> \/ status'[Bottom(w)'] = "READY"
    <3>1. deque'[w] # <<>> => Size(deque'[w]) \in 1 .. Size(deque'[w])
      BY <1>d, <2>1
    <3>q. QED
      BY <1>d, <2>3, <3>1
  <2>5. \A i \in 1 .. Size(deque'[w]) - 1 : i \in 1 .. Size(deque'[w])
    BY <2>1
  <2>q. QED
    BY <1>x, <2>3, <2>4, <2>5 DEF DequeHere
<1>j. ASSUME NEW w \in Worker, DequesKept, deque'[w] = deque[w],
             pc'[w] \notin VictimPC \cup {"steal"},
             \/ pc[w] \notin WorkPC \cup {"loop", "exit"}
             \/ /\ pc'[w] \in {"loop", "exit"} /\ cl'[w] = None
                /\ status'[Bottom(w)] = "RETURNING"
      PROVE  DequeHere(w)'
  <2>1. Bottom(w)' = Bottom(w) /\ Size(deque[w]) \in Nat
    BY <1>d, <1>j
  <2>2. \A i \in 1 .. Size(deque'[w]) - 1 : status'[deque'[w][i]] = "READY"
    <3>1. \A i \in 1 .. Size(deque[w]) - 1 : i \in 1 .. Size(deque[w])
      BY <2>1
    <3>q. QED
      BY <1>j, <1>s, <3>1 DEF DequeHere, DequesKept
  <2>3. CASE pc[w] \notin WorkPC \cup {"loop", "exit"}
    <3>1. deque[w] = <<>> \/ status[Bottom(w)] = "READY"
      BY <1>s, <2>3 DEF DequeHere
    <3>2. deque[w] # <<>> => Size(deque[w]) \in 1 .. Size(deque[w])
      BY <1>d
    <3>3. deque'[w] = <<>> \/ status'[Bottom(w)'] = "READY"
      BY <1>d, <1>j, <2>1, <3>1, <3>2 DEF DequesKept
    <3>q. QED
      BY <1>j, <2>2, <3>3 DEF DequeHere
  <2>4. CASE pc[w] \in WorkPC \cup {"loop", "exit"}
    BY <1>j, <2>1, <2>2, <2>4 DEF DequeHere
  <2>q. QED
    BY <2>3, <2>4
<1>h. ASSUME NEW w \in Worker,
             \A u \in Worker \ {w} : /\ pc'[u] = pc[u] /\ cl'[u] = cl[u]
                                     /\ victim'[u] = victim[u],
             DequesKept,
             \A u \in Worker \ {w} : pc[u] \in VictimPC
                => deque'[victim[u]] = deque[victim[u]],
             \A u \in Worker \ {w} : deque'[u] = deque[u],
             DequeHere(w)'
      PROVE  DequeInv'
  <2>1. ASSUME NEW u \in Worker, u # w PROVE DequeHere(u)'
    <3>1. /\ deque'[u] = deque[u] /\ pc'[u] = pc[u] /\ cl'[u] = cl[u]
          /\ victim'[u] = victim[u] /\ DequeHere(u)
          /\ pc[u] \in VictimPC => deque'[victim[u]] = deque[victim[u]]
      BY <1>h, <1>s, <2>1
    <3>2. /\ \A i \in 1 .. Size(deque'[u]) - 1 : status'[deque'[u][i]] = "READY"
          /\ \/ pc'[u] \in WorkPC \/ deque'[u] = <<>>
             \/ status'[Bottom(u)'] = "READY"
             \/ status'[Bottom(u)'] = "RETURNING" /\ pc'[u] \in {"loop", "exit"}
                   /\ cl'[u] = None
      BY <1>h, <1>i, <3>1
    <3>3. /\ pc'[u] \in VictimPC \cup {"steal"} => deque'[u] = <<>>
          /\ pc'[u] \in VictimPC /\ cl'[u] # None =>
                deque'[victim'[u]] # <<>> /\ cl'[u] = Head(deque'[victim'[u]])
      BY <3>1 DEF DequeHere
    <3>q. QED
      BY <3>2, <3>3 DEF DequeHere
  <2>q. QED
    BY <1>h, <2>1 DEF DequeInv, DequeHere
<1>m. ASSUME NEW w \in Worker, NEW l, pc' = [pc EXCEPT ![w] = l],
             l \in WorkPC <=> pc[w] \in WorkPC,
             l \in VictimPC <=> pc[w] \in VictimPC,
             l = "loop" <=> pc[w] = "loop",
             l = "exit" <=> pc[w] = "exit",
             l = "steal" <=> pc[w] = "steal",
             UNCHANGED <<cl, deque, status, victim>>
      PROVE  DequeInv'
  <2>1. \A u \in Worker : Bottom(u)' = Bottom(u)
    BY <1>d, <1>m
  <2>2. \A u \in Worker : pc'[u] = IF u = w THEN l ELSE pc[u]
    BY <1>a, <1>m DEF Types
  <2>3. ASSUME NEW u \in Worker PROVE DequeHere(u)'
    BY <1>m, <1>s, <2>1, <2>2 DEF DequeHere
  <2>q. QED
    BY <2>3 DEF DequeInv, DequeHere
<1>f. ASSUME UNCHANGED <<pc, cl, deque, status, victim>>
      PROVE  DequeInv'
BY <1>f DEF IInv, DequeInv, Bottom
<1>g. ASSUME NEW w \in Worker, NEW l, pc' = [pc EXCEPT ![w] = l],
             l \in WorkPC <=> pc[w] \in WorkPC,
             l \in VictimPC <=> pc[w] \in VictimPC,
             l = "loop" <=> pc[w] = "loop",
             l = "exit" <=> pc[w] = "exit",
             l = "steal" <=> pc[w] = "steal",
             UNCHANGED <<cl, deque, status, victim>>
      PROVE  DequeInv'
BY <1>g, <1>m
<1>1. ASSUME NEW w \in Worker, LeaveScheduler(w) PROVE DequeInv'
  <2>2. /\ pc[w] \in {"loop", "steal"} /\ pc' = [pc EXCEPT ![w] = "exit"]
        /\ UNCHANGED <<cl, deque, status, victim>>
    BY <1>1 DEF LeaveScheduler, program, results, state, tree, locks, caches,
       Goto
  <2>3. /\ "loop" \notin WorkPC /\ "loop" \notin VictimPC
        /\ "steal" \notin WorkPC /\ "steal" \notin VictimPC
        /\ "exit" \notin WorkPC /\ "exit" \notin VictimPC
        /\ pc[w] \notin WorkPC /\ pc[w] \notin VictimPC
    BY <2>2 DEF WorkPC, PopPC, SlowPC, VictimPC
  <2>4. pc'[w] = "exit" /\ cl'[w] = cl[w] /\ victim'[w] = victim[w]
    BY <1>a, <2>2, <2>3 DEF Types
  <2>5. \A u \in Worker \ {w} : /\ pc'[u] = pc[u] /\ cl'[u] = cl[u]
                                /\ victim'[u] = victim[u]
    BY <1>a, <2>2, <2>3 DEF Types
  <2>6. DequesKept
    BY <1>k, <2>2, <2>3
  <2>7. \A u \in Worker \ {w} : pc[u] \in VictimPC => deque'[victim[u]] = deque[victim[u]]
    BY <1>a, <1>v, <2>2, <2>3 DEF Types, Shortened, Extended
  <2>8. \A u \in Worker \ {w} : deque'[u] = deque[u]
    BY <1>a, <2>2, <2>3 DEF Types, Shortened, Extended
  <2>9. DequeHere(w)'
    BY <1>b, <1>d, <1>s, <2>4, <2>6, <2>2, <2>3 DEF DequeHere, DequesKept
  <2>q. QED
    BY <1>h, <2>2, <2>4, <2>5, <2>6, <2>7, <2>8, <2>9
<1>2. ASSUME NEW w \in Worker, TakeOwn(w) PROVE DequeInv'
  <2>1. TakeOwnDoes(w)
    BY <1>2, TakeOwnEffect
  <2>2. /\ pc[w] = "loop" /\ cl[w] = None /\ dlock[w] = None
        /\ UNCHANGED <<status, victim>>
    BY <2>1 DEF TakeOwnDoes
  <2>3. /\ "loop" \notin WorkPC /\ "loop" \notin VictimPC
        /\ "steal" \notin WorkPC /\ "steal" \notin VictimPC
    BY <2>2 DEF WorkPC, PopPC, SlowPC, VictimPC
  <2>4. ASSUME deque[w] = <<>>, pc' = [pc EXCEPT ![w] = "steal"],
               UNCHANGED <<cl, deque>>
        PROVE  DequeInv'
    <3>1. pc'[w] = "steal" /\ cl'[w] = cl[w] /\ victim'[w] = victim[w]
      BY <1>a, <2>2, <2>3, <2>4 DEF Types
    <3>2. \A u \in Worker \ {w} : /\ pc'[u] = pc[u] /\ cl'[u] = cl[u]
                                  /\ victim'[u] = victim[u]
      BY <1>a, <2>2, <2>3, <2>4 DEF Types
    <3>3. DequesKept
      BY <1>k, <2>2, <2>3, <2>4
    <3>4. \A u \in Worker \ {w} : pc[u] \in VictimPC => deque'[victim[u]] = deque[victim[u]]
      BY <1>a, <1>v, <2>2, <2>3, <2>4 DEF Types, Shortened, Extended
    <3>5. \A u \in Worker \ {w} : deque'[u] = deque[u]
      BY <1>a, <2>2, <2>3, <2>4 DEF Types, Shortened, Extended
    <3>6. DequeHere(w)'
      BY <1>b, <1>d, <1>s, <3>1, <3>3, <2>2, <2>3, <2>4 DEF DequeHere,
         DequesKept
    <3>q. QED
      BY <1>h, <2>2, <3>1, <3>2, <3>3, <3>4, <3>5, <3>6
  <2>5. ASSUME NEW c \in Proc, deque[w] # <<>>, c = Bottom(w),
               c = deque[w][Size(deque[w])], cl' = [cl EXCEPT ![w] = c],
               Shortened(deque, deque', w),
               UNCHANGED <<pc>>
        PROVE  DequeInv'
    <3>1. pc'[w] = pc[w] /\ cl'[w] = c /\ victim'[w] = victim[w]
      BY <1>a, <2>2, <2>3, <2>5 DEF Types
    <3>2. \A u \in Worker \ {w} : /\ pc'[u] = pc[u] /\ cl'[u] = cl[u]
                                  /\ victim'[u] = victim[u]
      BY <1>a, <2>2, <2>3, <2>5 DEF Types
    <3>3. DequesKept
      BY <1>k, <2>2, <2>3, <2>5
    <3>4. \A u \in Worker \ {w} : pc[u] \in VictimPC => deque'[victim[u]] = deque[victim[u]]
      BY <1>y, <2>2, <2>5 DEF Shortened
    <3>5. \A u \in Worker \ {w} : deque'[u] = deque[u]
      BY <1>a, <2>2, <2>3, <2>5 DEF Types, Shortened, Extended
    <3>6. DequeHere(w)'
      BY <1>x, <2>2, <2>3, <2>5, <3>1, <3>3
    <3>q. QED
      BY <1>h, <2>2, <3>1, <3>2, <3>3, <3>4, <3>5, <3>6
  <2>q. QED
    BY <2>1, <2>2, <2>4, <2>5 DEF TakeOwnDoes
<1>3. ASSUME NEW w \in Worker, StealLockDeque(w) PROVE DequeInv'
  <2>2. /\ pc[w] = "steal" /\ pc' = [pc EXCEPT ![w] = "stealDeque"]
        /\ UNCHANGED <<deque, status>>
    BY <1>3 DEF StealLockDeque, program, results, state, tree, caches, Goto,
       LockDeque, Peek, Hand
  <2>3. /\ "steal" \notin WorkPC /\ "steal" \notin VictimPC
        /\ "stealDeque" \notin WorkPC /\ "stealDeque" \in VictimPC
    BY <2>2 DEF WorkPC, PopPC, SlowPC, VictimPC
  <2>4. ASSUME NEW v \in Worker \ {w}, dlock[v] = None,
               cl' = [cl EXCEPT ![w] = IF deque[v] = <<>> THEN None ELSE Head(deque[v])],
               victim' = [victim EXCEPT ![w] = v]
        PROVE  DequeInv'
    <3>1. pc'[w] = "stealDeque" /\ cl'[w] = (IF deque[v] = <<>> THEN None ELSE Head(deque[v])) /\ victim'[w] = v
      <4>1. pc'[w] = "stealDeque"
        BY <1>a, <2>2 DEF Types
      <4>2. cl'[w] = IF deque[v] = <<>> THEN None ELSE Head(deque[v])
        BY <1>a, <2>4 DEF Types
      <4>3. victim'[w] = v
        BY <1>a, <2>4 DEF Types
      <4>q. QED
        BY <4>1, <4>2, <4>3
    <3>2. \A u \in Worker \ {w} : /\ pc'[u] = pc[u] /\ cl'[u] = cl[u]
                                  /\ victim'[u] = victim[u]
      BY <1>a, <2>2, <2>3, <2>4 DEF Types
    <3>3. DequesKept
      BY <1>k, <2>2, <2>3, <2>4
    <3>4. \A u \in Worker \ {w} : pc[u] \in VictimPC => deque'[victim[u]] = deque[victim[u]]
      BY <1>a, <1>v, <2>2, <2>3, <2>4 DEF Types, Shortened, Extended
    <3>5. \A u \in Worker \ {w} : deque'[u] = deque[u]
      BY <1>a, <2>2, <2>3, <2>4 DEF Types, Shortened, Extended
    <3>6. DequeHere(w)'
      <4>1. deque[w] = <<>>
        BY <1>s, <2>2 DEF DequeHere
      <4>q. QED
        BY <1>d, <2>2, <2>3, <2>4, <3>1, <4>1 DEF DequeHere
    <3>q. QED
      BY <1>h, <2>2, <3>1, <3>2, <3>3, <3>4, <3>5, <3>6
  <2>q. QED
    BY <1>3, <2>2, <2>4 DEF StealLockDeque, program, results, state, tree,
       caches, Goto, LockDeque, Peek, Hand
<1>4. ASSUME NEW w \in Worker, StealLockClosure(w) PROVE DequeInv'
  BY <1>g, <1>4 DEF StealLockClosure, program, results, state, tree, caches,
     Goto, LockClosure, WorkPC, PopPC, SlowPC, VictimPC
<1>5. ASSUME NEW w \in Worker, StealGiveUp(w) PROVE DequeInv'
  <2>2. /\ pc[w] = "stealClosure" /\ pc' = [pc EXCEPT ![w] = "stealGiveUp"]
        /\ cl' = [cl EXCEPT ![w] = None]
        /\ UNCHANGED <<deque, status, victim>>
    BY <1>5 DEF StealGiveUp, program, results, state, tree, caches, Goto, Hand,
       UnlockClosure, BeingAborted
  <2>3. /\ "stealClosure" \notin WorkPC /\ "stealClosure" \in VictimPC
        /\ "stealGiveUp" \notin WorkPC /\ "stealGiveUp" \in VictimPC
    BY <2>2 DEF WorkPC, PopPC, SlowPC, VictimPC
  <2>4. pc'[w] = "stealGiveUp" /\ cl'[w] = None /\ victim'[w] = victim[w]
    BY <1>a, <2>2, <2>3 DEF Types
  <2>5. \A u \in Worker \ {w} : /\ pc'[u] = pc[u] /\ cl'[u] = cl[u]
                                /\ victim'[u] = victim[u]
    BY <1>a, <2>2, <2>3 DEF Types
  <2>6. DequesKept
    BY <1>k, <2>2, <2>3
  <2>7. \A u \in Worker \ {w} : pc[u] \in VictimPC => deque'[victim[u]] = deque[victim[u]]
    BY <1>a, <1>v, <2>2, <2>3 DEF Types, Shortened, Extended
  <2>8. \A u \in Worker \ {w} : deque'[u] = deque[u]
    BY <1>a, <2>2, <2>3 DEF Types, Shortened, Extended
  <2>9. DequeHere(w)'
    BY <1>b, <1>d, <1>s, <2>4, <2>6, <2>2, <2>3 DEF DequeHere, DequesKept
  <2>q. QED
    BY <1>h, <2>2, <2>4, <2>5, <2>6, <2>7, <2>8, <2>9
<1>6. ASSUME NEW w \in Worker, StealUnlockDeque(w) PROVE DequeInv'
  <2>2. /\ pc[w] \in {"stealGiveUp", "stealDeque"}
        /\ pc[w] = "stealGiveUp" \/ cl[w] = None
        /\ pc' = [pc EXCEPT ![w] = "steal"]
        /\ victim' = [victim EXCEPT ![w] = None]
        /\ UNCHANGED <<cl, deque, status>>
    BY <1>6 DEF StealUnlockDeque, program, results, state, tree, caches, Goto,
       UnlockDeque
  <2>3. /\ "stealGiveUp" \notin WorkPC /\ "stealGiveUp" \in VictimPC
        /\ "stealDeque" \notin WorkPC /\ "stealDeque" \in VictimPC
        /\ "steal" \notin WorkPC /\ "steal" \notin VictimPC
        /\ pc[w] \notin WorkPC /\ pc[w] \in VictimPC
    BY <2>2 DEF WorkPC, PopPC, SlowPC, VictimPC
  <2>4. pc'[w] = "steal" /\ cl'[w] = cl[w] /\ victim'[w] = None
    BY <1>a, <2>2, <2>3 DEF Types
  <2>5. \A u \in Worker \ {w} : /\ pc'[u] = pc[u] /\ cl'[u] = cl[u]
                                /\ victim'[u] = victim[u]
    BY <1>a, <2>2, <2>3 DEF Types
  <2>6. DequesKept
    BY <1>k, <2>2, <2>3
  <2>7. \A u \in Worker \ {w} : pc[u] \in VictimPC => deque'[victim[u]] = deque[victim[u]]
    BY <1>a, <1>v, <2>2, <2>3 DEF Types, Shortened, Extended
  <2>8. \A u \in Worker \ {w} : deque'[u] = deque[u]
    BY <1>a, <2>2, <2>3 DEF Types, Shortened, Extended
  <2>9. DequeHere(w)'
    BY <1>b, <1>d, <1>s, <2>4, <2>6, <2>2, <2>3 DEF DequeHere, DequesKept
  <2>q. QED
    BY <1>h, <2>2, <2>4, <2>5, <2>6, <2>7, <2>8, <2>9
<1>7. ASSUME NEW w \in Worker, StealReady(w) PROVE DequeInv'
  <2>1. PICK v \in Worker \ {w}, c \in Proc :
          StealReadyDoes(w, v, c)
    BY <1>7, StealReadyEffect
  <2>2. /\ pc[w] = "stealClosure" /\ v = victim[w] /\ c = cl[w]
        /\ c = deque[v][1] /\ pc[v] \notin OwnDequePC /\ status[c] = "READY"
        /\ pc' = [pc EXCEPT ![w] = "loop"] /\ Topped(deque, deque', v)
        /\ victim' = [victim EXCEPT ![w] = None]
        /\ UNCHANGED <<cl, status>>
    BY <2>1 DEF StealReadyDoes
  <2>3. /\ "stealClosure" \notin WorkPC /\ "stealClosure" \in VictimPC
        /\ "loop" \notin WorkPC /\ "loop" \notin VictimPC
    BY <2>2 DEF WorkPC, PopPC, SlowPC, VictimPC
  <2>4. dlock[v] = w
    BY <1>v, <2>2, <2>3
  <2>5. \A u \in Worker \ {w} : pc[u] \in VictimPC => deque'[victim[u]] = deque[victim[u]]
    BY <1>y, <2>2, <2>4 DEF Topped
  <2>6. /\ status' = status /\ cl' = cl /\ \A u \in Worker \ {v} : deque'[u] = deque[u]
        /\ pc'[w] = "loop" /\ \A u \in Worker \ {w} : pc'[u] = pc[u] /\ victim'[u] = victim[u]
    <3>1. status' = status /\ cl' = cl
      BY <2>2
    <3>2. \A u \in Worker \ {v} : deque'[u] = deque[u]
      BY <2>2 DEF Topped
    <3>3. pc'[w] = "loop" /\ \A u \in Worker \ {w} : pc'[u] = pc[u] /\ victim'[u] = victim[u]
      BY <1>a, <2>2 DEF Types
    <3>q. QED
      BY <3>1, <3>2, <3>3
  <2>7. DequesKept
    BY <1>k, <2>6
  <2>8. DequeHere(w)'
    <3>1. deque'[w] = <<>>
      BY <1>s, <2>2, <2>3, <2>6 DEF DequeHere
    <3>q. QED
      BY <1>d, <2>3, <2>6, <3>1 DEF DequeHere
  <2>9. DequeHere(v)'
    <3>1. /\ Size(deque'[v]) = Size(deque[v]) - 1 /\ Size(deque[v]) \in Nat
          /\ Size(deque'[v]) \in Nat /\ deque[v] # <<>>
          /\ \A i \in 1 .. Size(deque[v]) - 1 : deque'[v][i] = deque[v][i + 1]
      BY <1>d, <2>2 DEF Topped
    <3>2. \A i \in 1 .. Size(deque'[v]) - 1 : /\ i \in 1 .. Size(deque[v]) - 1
                                             /\ i + 1 \in 1 .. Size(deque[v]) - 1
      BY <3>1
    <3>3. \A i \in 1 .. Size(deque'[v]) - 1 : status'[deque'[v][i]] = "READY"
      BY <1>s, <2>6, <3>1, <3>2 DEF DequeHere
    <3>4. deque'[v] # <<>> => Bottom(v)' = Bottom(v)
      <4>1. deque'[v] # <<>> => Size(deque'[v]) \in 1 .. Size(deque[v]) - 1
        BY <1>d, <3>1
      <4>q. QED
        BY <1>d, <3>1, <4>1
    <3>5. /\ pc'[v] = pc[v] /\ victim'[v] = victim[v] /\ cl'[v] = cl[v]
          /\ status' = status
      BY <2>2, <2>6
    <3>6. pc[v] \notin VictimPC \cup {"steal"}
      BY <1>s, <3>1 DEF DequeHere
    <3>7. \/ pc[v] \in WorkPC \/ deque'[v] = <<>>
          \/ status[Bottom(v)'] = "READY"
          \/ status[Bottom(v)'] = "RETURNING" /\ pc[v] \in {"loop", "exit"} /\ cl[v] = None
      BY <1>s, <3>1, <3>4 DEF DequeHere
    <3>q. QED
      BY <3>3, <3>5, <3>6, <3>7 DEF DequeHere
  <2>10. ASSUME NEW u \in Worker, u # v, u # w PROVE DequeHere(u)'
    <3>1. /\ deque'[u] = deque[u] /\ pc'[u] = pc[u] /\ cl'[u] = cl[u] /\ status' = status
          /\ victim'[u] = victim[u] /\ DequeHere(u) /\ Bottom(u)' = Bottom(u)
          /\ pc[u] \in VictimPC => deque'[victim[u]] = deque[victim[u]]
      BY <1>d, <1>s, <2>5, <2>6, <2>10
    <3>q. QED
      BY <3>1 DEF DequeHere
  <2>q. QED
    BY <2>8, <2>9, <2>10 DEF DequeInv, DequeHere
<1>8. ASSUME NEW w \in Worker, StealPromote(w) PROVE DequeInv'
  <2>1. PICK v \in Worker \ {w}, c \in Proc, k \in Proc :
          StealPromoteDoes(w, v, c, k)
    BY <1>8, StealPromoteEffect
  <2>2. /\ pc[w] = "stealClosure" /\ v = victim[w] /\ c = cl[w]
        /\ k = stack[v][H[v] + 2] /\ deque[v] = <<c>>
        /\ pc[v] \in WorkPC \ OwnDequePC /\ H[v] + 1 < T(v)
        /\ status[c] = "RUNNING" /\ cache[c] = v /\ stack[v][H[v] + 1] = c
        /\ k # c /\ k # Root /\ status[k] = "none" /\ parent[k] = c /\ Fresh(k)
        /\ pc' = [pc EXCEPT ![w] = "stealFinish"]
        /\ deque' = [deque EXCEPT ![v] = <<k>>]
        /\ status' = [status EXCEPT ![k] = "RUNNING"]
        /\ victim' = [victim EXCEPT ![w] = None]
        /\ UNCHANGED <<cl>>
    BY <2>1 DEF StealPromoteDoes
  <2>3. /\ "stealClosure" \notin WorkPC /\ "stealClosure" \in VictimPC
        /\ "stealFinish" \notin WorkPC /\ "stealFinish" \notin VictimPC
    BY <2>2 DEF WorkPC, PopPC, SlowPC, VictimPC
  <2>4. dlock[v] = w
    BY <1>v, <2>2, <2>3
  <2>5. \A u \in Worker \ {v} : deque'[u] = deque[u]
    BY <1>a, <2>2 DEF Types
  <2>6. \A u \in Worker \ {w} : pc[u] \in VictimPC => deque'[victim[u]] = deque[victim[u]]
    BY <1>y, <2>2, <2>4, <2>5
  <2>7. /\ cl' = cl /\ pc'[w] = "stealFinish"
        /\ \A u \in Worker \ {w} : pc'[u] = pc[u] /\ victim'[u] = victim[u]
    BY <1>a, <2>2 DEF Types
  <2>8. DequesKept
    BY <1>p, <2>2
  <2>9. DequeHere(w)'
    <3>1. deque'[w] = <<>>
      BY <1>s, <2>2, <2>3, <2>5 DEF DequeHere
    <3>q. QED
      BY <1>d, <2>3, <2>7, <3>1 DEF DequeHere
  <2>10. DequeHere(v)'
    <3>1. Size(deque'[v]) = 1
      <4>1. deque'[v] = <<k>> /\ k \in Proc
        BY <1>a, <2>2 DEF Types
      <4>q. QED
        BY <4>1, SingleFacts
    <3>2. \A i \in 1 .. Size(deque'[v]) - 1 : FALSE
      BY <3>1
    <3>3. pc'[v] = pc[v] /\ pc[v] \in WorkPC
      BY <2>2, <2>7
    <3>4. pc[v] \notin VictimPC \cup {"steal"}
      BY <3>3 DEF WorkPC, PopPC, SlowPC, VictimPC
    <3>q. QED
      BY <3>2, <3>3, <3>4 DEF DequeHere
  <2>11. ASSUME NEW u \in Worker, u # v, u # w PROVE DequeHere(u)'
    <3>1. /\ deque'[u] = deque[u] /\ pc'[u] = pc[u] /\ cl'[u] = cl[u]
          /\ victim'[u] = victim[u] /\ DequeHere(u)
          /\ pc[u] \in VictimPC => deque'[victim[u]] = deque[victim[u]]
      BY <1>s, <2>5, <2>6, <2>7, <2>11
    <3>2. /\ \A i \in 1 .. Size(deque'[u]) - 1 : status'[deque'[u][i]] = "READY"
          /\ \/ pc'[u] \in WorkPC \/ deque'[u] = <<>>
             \/ status'[Bottom(u)'] = "READY"
             \/ status'[Bottom(u)'] = "RETURNING" /\ pc'[u] \in {"loop", "exit"}
                   /\ cl'[u] = None
      BY <1>i, <2>8, <3>1
    <3>q. QED
      BY <3>1, <3>2 DEF DequeHere
  <2>q. QED
    BY <2>9, <2>10, <2>11 DEF DequeInv, DequeHere
<1>9. ASSUME NEW w \in Worker, StealFinish(w) PROVE DequeInv'
  <2>2. /\ pc[w] = "stealFinish" /\ pc' = [pc EXCEPT ![w] = "loop"]
        /\ status' = [status EXCEPT ![cl[w]] = "READY"]
        /\ UNCHANGED <<cl, deque, victim>>
    BY <1>9 DEF StealFinish, program, results, caches, Goto, UnlockClosure,
       SetStatus, AddChild
  <2>3. /\ "stealFinish" \notin WorkPC /\ "stealFinish" \notin VictimPC
        /\ "loop" \notin WorkPC /\ "loop" \notin VictimPC
    BY <2>2 DEF WorkPC, PopPC, SlowPC, VictimPC
  <2>a. cl[w] \in Proc /\ status[cl[w]] = "RUNNING"
    BY <2>2, LockFacts DEF IInv, InHandInv, LockPC
  <2>4. pc'[w] = "loop" /\ cl'[w] = cl[w] /\ victim'[w] = victim[w]
    BY <1>a, <2>2, <2>3, <2>a DEF Types
  <2>5. \A u \in Worker \ {w} : /\ pc'[u] = pc[u] /\ cl'[u] = cl[u]
                                /\ victim'[u] = victim[u]
    BY <1>a, <2>2, <2>3, <2>a DEF Types
  <2>6. DequesKept
    BY <1>p, <2>2, <2>a
  <2>7. \A u \in Worker \ {w} : pc[u] \in VictimPC => deque'[victim[u]] = deque[victim[u]]
    BY <1>a, <1>v, <2>2, <2>3, <2>a DEF Types, Shortened, Extended
  <2>8. \A u \in Worker \ {w} : deque'[u] = deque[u]
    BY <1>a, <2>2, <2>3, <2>a DEF Types, Shortened, Extended
  <2>9. DequeHere(w)'
    BY <1>b, <1>d, <1>s, <2>4, <2>6, <2>2, <2>3, <2>a DEF DequeHere, DequesKept
  <2>q. QED
    BY <1>h, <2>2, <2>4, <2>5, <2>6, <2>7, <2>8, <2>9
<1>10. ASSUME NEW w \in Worker, InletKilled(w) PROVE DequeInv'
  BY <1>f, <1>10 DEF InletKilled, program, state, locks, caches, Outcome,
     BeingAborted, Polls
<1>11. ASSUME NEW w \in Worker, InletRuns(w) PROVE DequeInv'
  BY <1>f, <1>11 DEF InletRuns, program, state, locks, caches, Outcome,
     BeingAborted, Polls
<1>12. ASSUME NEW w \in Worker, InletAborts(w) PROVE DequeInv'
  <2>1. PICK c \in Proc, r \in SUBSET Proc :
          InletAbortsDoes(w, c, r)
    BY <1>12, InletAbortsEffect
  <2>2. /\ c = cl[w] /\ pc[w] \in PollPC
        /\ pc[w] = "return" => status[c] # "RUNNING"
        /\ complete[c] # <<>>
        /\ UNCHANGED <<pc, cl, victim>>
    BY <2>1 DEF InletAbortsDoes
  <2>d. "handlerPoll" \in OwnDequePC /\ "handlerPoll" \in WorkPC /\ "handlerPoll" \notin VictimPC
    BY DEF OwnDequePC, WorkPC, PopPC, VictimPC
  <2>4. ASSUME NEW k \in Proc, pc[w] = "handlerPoll", c = Bottom(w),
               deque[w] # <<>>, status[c] = "RUNNING", cache[c] = w, H[w] = 0,
               1 < T(w), stack[w][1] = c, k = stack[w][2], k # c, k # Root,
               status[k] = "none", parent[k] = c, Fresh(k),
               deque' = [deque EXCEPT ![w] = Append(@, k)],
               status' = [status EXCEPT ![k] = "RUNNING", ![c] = "READY"]
        PROVE  DequeInv'
    <3>1. pc' = pc /\ cl' = cl /\ victim' = victim
      BY <2>2
    <3>2. /\ deque' = [deque EXCEPT ![w] = Append(@, k)]
          /\ status' = [status EXCEPT ![k] = "RUNNING", ![c] = "READY"]
          /\ k # c /\ status[k] = "none" /\ status[c] = "RUNNING"
          /\ c = Bottom(w) /\ deque[w] # <<>> /\ pc[w] = "handlerPoll"
      BY <2>4
    <3>3. \A d \in Proc \ {k, c} : status'[d] = status[d]
      BY <1>a, <3>2 DEF Types
    <3>4. DequesKept
      BY <1>d, <3>2, <3>3 DEF DequesKept
    <3>5. Extended(deque, deque', w, k)
      BY <1>a, <3>2, ExtendedFacts DEF Types
    <3>6. dlock[w] = w
      BY <2>d, <3>2 DEF IInv, DequeLocks, HoldsDeque
    <3>7. \A u \in Worker \ {w} : pc[u] \in VictimPC => deque'[victim[u]] = deque[victim[u]]
      BY <1>y, <3>5, <3>6 DEF Extended
    <3>8. \A i \in 1 .. Size(deque'[w]) - 1 : status'[deque'[w][i]] = "READY"
      <4>1. /\ Size(deque'[w]) - 1 = Size(deque[w])
            /\ \A i \in 1 .. Size(deque[w]) : deque'[w][i] = deque[w][i]
        BY <1>d, <3>5 DEF Extended
      <4>2. \A i \in 1 .. Size(deque[w]) : i \in 1 .. Size(deque[w]) - 1 \/ i = Size(deque[w])
        BY <1>d
      <4>3. status'[c] = "READY"
        BY <1>a, <3>2 DEF Types
      <4>4. \A i \in 1 .. Size(deque[w]) - 1 : status'[deque[w][i]] = "READY"
        <5>1. \A i \in 1 .. Size(deque[w]) - 1 : i \in 1 .. Size(deque[w])
          BY <1>d
        <5>q. QED
          BY <1>s, <3>4, <5>1 DEF DequeHere, DequesKept
      <4>5. status'[deque[w][Size(deque[w])]] = "READY"
        BY <1>d, <3>2, <4>3
      <4>6. \A i \in 1 .. Size(deque[w]) : status'[deque[w][i]] = "READY"
        BY <4>2, <4>4, <4>5
      <4>q. QED
        BY <4>1, <4>6
    <3>9. DequeHere(w)'
      BY <2>d, <3>1, <3>2, <3>8 DEF DequeHere
    <3>10. \A u \in Worker \ {w} : deque'[u] = deque[u]
      BY <3>5 DEF Extended
    <3>q. QED
      BY <1>h, <3>1, <3>4, <3>7, <3>9, <3>10
  <2>5. ASSUME UNCHANGED <<deque, status>>
        PROVE  DequeInv'
    BY <1>f, <2>2, <2>5
  <2>q. QED
    BY <2>1, <2>2, <2>4, <2>5 DEF InletAbortsDoes, InletSplits
<1>13. ASSUME NEW w \in Worker, WalkDown(w) PROVE DequeInv'
  <2>1. PICK n \in Nat \ {0}, k \in Proc :
          WalkDownDoes(w, n, k)
    BY <1>13, WalkDownEffect
  <2>q. QED
    BY <1>f, <2>1 DEF WalkDownDoes
<1>14. ASSUME NEW w \in Worker, WalkUp(w) PROVE DequeInv'
  <2>1. PICK n \in Nat \ {0} :
          WalkUpDoes(w, n)
    BY <1>14, WalkUpEffect
  <2>q. QED
    BY <1>f, <2>1 DEF WalkUpDoes
<1>15. ASSUME NEW w \in Worker, AbortReadyClosure(w) PROVE DequeInv'
  <2>2. /\ pc[w] = "loop" /\ cl[w] # None /\ clock[cl[w]] = None
        /\ status[cl[w]] = "READY"
        /\ UNCHANGED <<pc, deque, victim>>
    BY <1>15 DEF AbortReadyClosure, program, results, tree, locks, caches,
       Hand, SetStatus, Outcome, BeingAborted, HasChildren
  <2>3. /\ "loop" \notin WorkPC /\ "loop" \notin VictimPC
    BY <2>2 DEF WorkPC, PopPC, SlowPC, VictimPC
  <2>a. cl[w] \in Proc /\ pc[w] \in HandPC
    BY <1>a, <2>2 DEF Types, HandPC
  <2>4. ASSUME join[cl[w]] # 0, cl' = [cl EXCEPT ![w] = None],
               status' = [status EXCEPT ![cl[w]] = "SUSPENDED"]
        PROVE  DequeInv'
    <3>1. pc'[w] = pc[w] /\ cl'[w] = None /\ victim'[w] = victim[w]
      BY <1>a, <2>2, <2>3, <2>a, <2>4 DEF Types
    <3>2. \A u \in Worker \ {w} : /\ pc'[u] = pc[u] /\ cl'[u] = cl[u]
                                  /\ victim'[u] = victim[u]
      BY <1>a, <2>2, <2>3, <2>a, <2>4 DEF Types
    <3>3. DequesKept
      BY <1>o, <1>p, <2>2, <2>3, <2>a, <2>4
    <3>4. \A u \in Worker \ {w} : pc[u] \in VictimPC => deque'[victim[u]] = deque[victim[u]]
      BY <1>a, <1>v, <2>2, <2>3, <2>a, <2>4 DEF Types, Shortened, Extended
    <3>5. \A u \in Worker \ {w} : deque'[u] = deque[u]
      BY <1>a, <2>2, <2>3, <2>a, <2>4 DEF Types, Shortened, Extended
    <3>6. DequeHere(w)'
      BY <1>b, <1>d, <1>s, <3>1, <3>3, <2>2, <2>3, <2>a, <2>4 DEF DequeHere,
         DequesKept
    <3>q. QED
      BY <1>h, <2>2, <3>1, <3>2, <3>3, <3>4, <3>5, <3>6
  <2>5. ASSUME join[cl[w]] = 0,
               status' = [status EXCEPT ![cl[w]] = "RETURNING"],
               UNCHANGED <<cl>>
        PROVE  DequeInv'
    <3>1. pc'[w] = pc[w] /\ cl'[w] = cl[w] /\ victim'[w] = victim[w]
      BY <1>a, <2>2, <2>3, <2>a, <2>5 DEF Types
    <3>2. \A u \in Worker \ {w} : /\ pc'[u] = pc[u] /\ cl'[u] = cl[u]
                                  /\ victim'[u] = victim[u]
      BY <1>a, <2>2, <2>3, <2>a, <2>5 DEF Types
    <3>3. DequesKept
      BY <1>o, <1>p, <2>2, <2>3, <2>a, <2>5
    <3>4. \A u \in Worker \ {w} : pc[u] \in VictimPC => deque'[victim[u]] = deque[victim[u]]
      BY <1>a, <1>v, <2>2, <2>3, <2>a, <2>5 DEF Types, Shortened, Extended
    <3>5. \A u \in Worker \ {w} : deque'[u] = deque[u]
      BY <1>a, <2>2, <2>3, <2>a, <2>5 DEF Types, Shortened, Extended
    <3>6. DequeHere(w)'
      BY <1>b, <1>d, <1>s, <3>1, <3>3, <2>2, <2>3, <2>a, <2>5 DEF DequeHere,
         DequesKept
    <3>q. QED
      BY <1>h, <2>2, <3>1, <3>2, <3>3, <3>4, <3>5, <3>6
  <2>q. QED
    BY <1>15, <2>2, <2>4, <2>5 DEF AbortReadyClosure, program, results, tree,
       locks, caches, Hand, SetStatus, Outcome, BeingAborted, HasChildren
<1>16. ASSUME NEW w \in Worker, Setup(w) PROVE DequeInv'
  <2>2. /\ pc[w] = "loop" /\ cl[w] # None /\ status[cl[w]] = "READY"
        /\ clock[cl[w]] = None /\ pc' = [pc EXCEPT ![w] = "setup"]
        /\ status' = [status EXCEPT ![cl[w]] = "RUNNING"]
        /\ UNCHANGED <<cl, deque, victim>>
    BY <1>16 DEF Setup, program, results, tree, Goto, LockClosure, SetStatus,
       BeingAborted
  <2>3. /\ "loop" \notin WorkPC /\ "loop" \notin VictimPC
        /\ "setup" \notin WorkPC /\ "setup" \notin VictimPC
    BY <2>2 DEF WorkPC, PopPC, SlowPC, VictimPC
  <2>a. cl[w] \in Proc /\ pc[w] \in HandPC
    BY <1>a, <2>2 DEF Types, HandPC
  <2>4. pc'[w] = "setup" /\ cl'[w] = cl[w] /\ victim'[w] = victim[w]
    BY <1>a, <2>2, <2>3, <2>a DEF Types
  <2>5. \A u \in Worker \ {w} : /\ pc'[u] = pc[u] /\ cl'[u] = cl[u]
                                /\ victim'[u] = victim[u]
    BY <1>a, <2>2, <2>3, <2>a DEF Types
  <2>6. DequesKept
    BY <1>o, <1>p, <2>2, <2>3, <2>a
  <2>7. \A u \in Worker \ {w} : pc[u] \in VictimPC => deque'[victim[u]] = deque[victim[u]]
    BY <1>a, <1>v, <2>2, <2>3, <2>a DEF Types, Shortened, Extended
  <2>8. \A u \in Worker \ {w} : deque'[u] = deque[u]
    BY <1>a, <2>2, <2>3, <2>a DEF Types, Shortened, Extended
  <2>9. DequeHere(w)'
    BY <1>b, <1>d, <1>s, <2>4, <2>6, <2>2, <2>3, <2>a DEF DequeHere, DequesKept
  <2>q. QED
    BY <1>h, <2>2, <2>4, <2>5, <2>6, <2>7, <2>8, <2>9
<1>17. ASSUME NEW w \in Worker, SetupDone(w) PROVE DequeInv'
  BY <1>g, <1>17 DEF SetupDone, program, results, tree, caches, Goto,
     UnlockClosure, Polled, Polls, WorkPC, PopPC, SlowPC, VictimPC
<1>18. ASSUME NEW w \in Worker, Execute(w) PROVE DequeInv'
  <2>1. PICK c \in Proc :
          ExecuteDoes(w, c)
    BY <1>18, ExecuteEffect
  <2>2. /\ pc[w] = "add" /\ c = cl[w] /\ dlock[w] = None
        /\ status[c] = "RUNNING" /\ cache[c] = w /\ T(w) = 1 /\ H[w] = 0
        /\ stack[w][1] = c /\ pc' = [pc EXCEPT ![w] = "run"]
        /\ cl' = [cl EXCEPT ![w] = None] /\ Extended(deque, deque', w, c)
        /\ UNCHANGED <<status, victim>>
    BY <2>1 DEF ExecuteDoes
  <2>3. /\ "add" \notin WorkPC /\ "add" \notin VictimPC /\ "run" \in WorkPC
        /\ "run" \notin VictimPC
    BY <2>2 DEF WorkPC, PopPC, SlowPC, VictimPC
  <2>a. \A i \in 1 .. Size(deque[w]) : status[deque[w][i]] = "READY"
    <3>1. deque[w] = <<>> \/ status[Bottom(w)] = "READY"
      BY <1>s, <2>2, <2>3 DEF DequeHere
    <3>2. \A i \in 1 .. Size(deque[w]) : i \in 1 .. Size(deque[w]) - 1 \/ i = Size(deque[w])
      BY <1>d
    <3>q. QED
      BY <1>d, <1>s, <3>1, <3>2 DEF DequeHere
  <2>b. \A i \in 1 .. Size(deque'[w]) - 1 : status'[deque'[w][i]] = "READY"
    <3>1. /\ Size(deque'[w]) - 1 = Size(deque[w]) /\ status' = status
          /\ \A i \in 1 .. Size(deque[w]) : deque'[w][i] = deque[w][i]
      BY <1>d, <2>2 DEF Extended
    <3>q. QED
      BY <2>a, <3>1
  <2>4. pc'[w] = "run" /\ cl'[w] = None /\ victim'[w] = victim[w]
    BY <1>a, <2>2, <2>3 DEF Types
  <2>5. \A u \in Worker \ {w} : /\ pc'[u] = pc[u] /\ cl'[u] = cl[u]
                                /\ victim'[u] = victim[u]
    BY <1>a, <2>2, <2>3 DEF Types
  <2>6. DequesKept
    BY <1>k, <2>2, <2>3
  <2>7. \A u \in Worker \ {w} : pc[u] \in VictimPC => deque'[victim[u]] = deque[victim[u]]
    BY <1>y, <2>2 DEF Extended
  <2>8. \A u \in Worker \ {w} : deque'[u] = deque[u]
    BY <1>a, <2>2, <2>3 DEF Types, Shortened, Extended
  <2>9. DequeHere(w)'
    BY <2>3, <2>b, <2>4 DEF DequeHere
  <2>q. QED
    BY <1>h, <2>2, <2>4, <2>5, <2>6, <2>7, <2>8, <2>9
<1>19. ASSUME NEW w \in Worker, ReturnLockParent(w) PROVE DequeInv'
  <2>1. PICK k \in Proc, p \in Proc :
          ReturnLockParentDoes(w, k, p)
    BY <1>19, ReturnLockParentEffect
  <2>2. /\ pc[w] = "loop" /\ k = cl[w] /\ p = parent[k] /\ p # k /\ k # Root
        /\ clock[k] = None /\ status[k] = "RETURNING" /\ clock[p] = None
        /\ status[p] # "none" /\ pc' = [pc EXCEPT ![w] = "returnChild"]
        /\ cl' = [cl EXCEPT ![w] = p]
        /\ UNCHANGED <<deque, status, victim>>
    BY <2>1 DEF ReturnLockParentDoes
  <2>3. /\ "loop" \notin WorkPC /\ "loop" \notin VictimPC
        /\ "returnChild" \notin WorkPC /\ "returnChild" \notin VictimPC
    BY <2>2 DEF WorkPC, PopPC, SlowPC, VictimPC
  <2>4. pc'[w] = "returnChild" /\ cl'[w] = p /\ victim'[w] = victim[w]
    BY <1>a, <2>2, <2>3 DEF Types
  <2>5. \A u \in Worker \ {w} : /\ pc'[u] = pc[u] /\ cl'[u] = cl[u]
                                /\ victim'[u] = victim[u]
    BY <1>a, <2>2, <2>3 DEF Types
  <2>6. DequesKept
    BY <1>k, <2>2, <2>3
  <2>7. \A u \in Worker \ {w} : pc[u] \in VictimPC => deque'[victim[u]] = deque[victim[u]]
    BY <1>a, <1>v, <2>2, <2>3 DEF Types, Shortened, Extended
  <2>8. \A u \in Worker \ {w} : deque'[u] = deque[u]
    BY <1>a, <2>2, <2>3 DEF Types, Shortened, Extended
  <2>9. DequeHere(w)'
    BY <1>b, <1>d, <1>s, <2>4, <2>6, <2>2, <2>3 DEF DequeHere, DequesKept
  <2>q. QED
    BY <1>h, <2>2, <2>4, <2>5, <2>6, <2>7, <2>8, <2>9
<1>20. ASSUME NEW w \in Worker, ReturnEnqueue(w) PROVE DequeInv'
  <2>1. PICK k \in Proc, p \in Proc :
          ReturnEnqueueDoes(w, k, p)
    BY <1>20, ReturnEnqueueEffect
  <2>q. QED
    BY <1>g, <2>1 DEF ReturnEnqueueDoes, WorkPC, PopPC, SlowPC, VictimPC
<1>21. ASSUME NEW w \in Worker, ReturnDone(w) PROVE DequeInv'
  <2>1. PICK k \in Proc, p \in Proc :
          ReturnDoneDoes(w, k, p)
    BY <1>21, ReturnDoneEffect
  <2>2. /\ pc[w] = "return" /\ k = child[w] /\ p = cl[w] /\ p # k
        /\ p = parent[k] /\ k # Root /\ status[k] = "RETURNING"
        /\ status[p] # "none"
        /\ status[p] = "RUNNING" \/ complete[p] = <<>>
        /\ pc' = [pc EXCEPT ![w] = "loop"]
        /\ UNCHANGED <<deque, victim>>
    BY <2>1 DEF ReturnDoneDoes
  <2>3. /\ "return" \notin WorkPC /\ "return" \notin VictimPC
        /\ "loop" \notin WorkPC /\ "loop" \notin VictimPC
    BY <2>2 DEF WorkPC, PopPC, SlowPC, VictimPC
  <2>a. \A u \in Worker : \A i \in 1 .. Size(deque[u]) : deque[u][i] # k
    <3>1. pc[w] \in ReturnPC
      BY <2>2 DEF ReturnPC
    <3>q. QED
      BY <1>o, <2>2, <3>1
  <2>4. ASSUME join[p] = 1, status[p] = "SUSPENDED",
               status' = [status EXCEPT ![k] = "freed", ![p] = "READY"],
               UNCHANGED <<cl>>
        PROVE  DequeInv'
    <3>1. pc'[w] = "loop" /\ cl'[w] = cl[w] /\ victim'[w] = victim[w]
      BY <1>a, <2>2, <2>3, <2>a, <2>4 DEF Types
    <3>2. \A u \in Worker \ {w} : /\ pc'[u] = pc[u] /\ cl'[u] = cl[u]
                                  /\ victim'[u] = victim[u]
      BY <1>a, <2>2, <2>3, <2>a, <2>4 DEF Types
    <3>3. DequesKept
      <4>1. \A d \in Proc \ {k, p} : status'[d] = status[d]
        BY <1>a, <2>4 DEF Types
      <4>q. QED
        BY <1>d, <2>a, <2>4, <4>1 DEF DequesKept
    <3>4. \A u \in Worker \ {w} : pc[u] \in VictimPC => deque'[victim[u]] = deque[victim[u]]
      BY <1>a, <1>v, <2>2, <2>3, <2>a, <2>4 DEF Types, Shortened, Extended
    <3>5. \A u \in Worker \ {w} : deque'[u] = deque[u]
      BY <1>a, <2>2, <2>3, <2>a, <2>4 DEF Types, Shortened, Extended
    <3>6. DequeHere(w)'
      BY <1>j, <2>2, <2>3, <2>4, <3>1, <3>3
    <3>q. QED
      BY <1>h, <2>2, <3>1, <3>2, <3>3, <3>4, <3>5, <3>6
  <2>5. ASSUME join[p] # 1 \/ status[p] # "SUSPENDED",
               cl' = [cl EXCEPT ![w] = None],
               status' = [status EXCEPT ![k] = "freed"]
        PROVE  DequeInv'
    <3>1. pc'[w] = "loop" /\ cl'[w] = None /\ victim'[w] = victim[w]
      BY <1>a, <2>2, <2>3, <2>a, <2>5 DEF Types
    <3>2. \A u \in Worker \ {w} : /\ pc'[u] = pc[u] /\ cl'[u] = cl[u]
                                  /\ victim'[u] = victim[u]
      BY <1>a, <2>2, <2>3, <2>a, <2>5 DEF Types
    <3>3. DequesKept
      BY <1>p, <2>2, <2>a, <2>5
    <3>4. \A u \in Worker \ {w} : pc[u] \in VictimPC => deque'[victim[u]] = deque[victim[u]]
      BY <1>a, <1>v, <2>2, <2>3, <2>a, <2>5 DEF Types, Shortened, Extended
    <3>5. \A u \in Worker \ {w} : deque'[u] = deque[u]
      BY <1>a, <2>2, <2>3, <2>a, <2>5 DEF Types, Shortened, Extended
    <3>6. DequeHere(w)'
      BY <1>b, <1>d, <1>s, <3>1, <3>3, <2>2, <2>3, <2>a, <2>5 DEF DequeHere,
         DequesKept
    <3>q. QED
      BY <1>h, <2>2, <3>1, <3>2, <3>3, <3>4, <3>5, <3>6
  <2>q. QED
    BY <2>1, <2>2, <2>4, <2>5 DEF ReturnDoneDoes
<1>22. ASSUME NEW w \in Worker, Spawn(w) PROVE DequeInv'
  <2>1. PICK c \in Proc, f \in Proc :
          SpawnDoes(w, c, f)
    BY <1>22, SpawnEffect
  <2>q. QED
    BY <1>g, <2>1 DEF SpawnDoes, WorkPC, PopPC, SlowPC, VictimPC
<1>23. ASSUME NEW w \in Worker, ReturnFast(w) PROVE DequeInv'
  <2>1. PICK f \in Proc :
          ReturnFastDoes(w, f)
    BY <1>23, ReturnFastEffect
  <2>q. QED
    BY <1>g, <2>1 DEF ReturnFastDoes, WorkPC, PopPC, SlowPC, VictimPC
<1>24. ASSUME NEW w \in Worker, PopResult(w) PROVE DequeInv'
  BY <1>g, <1>24 DEF PopResult, program, state, tree, locks, caches, Goto,
     Outcome, WorkPC, PopPC, SlowPC, VictimPC
<1>25. ASSUME NEW w \in Worker, LockOwnDeque(w) PROVE DequeInv'
  BY <1>g, <1>25 DEF LockOwnDeque, program, results, state, tree, caches, Goto,
     LockDeque, SlowAborts, WorkPC, PopPC, SlowPC, VictimPC
<1>26. ASSUME NEW w \in Worker, LockBottom(w) PROVE DequeInv'
  <2>1. PICK c \in Proc :
          LockBottomDoes(w, c)
    BY <1>26, LockBottomEffect
  <2>2. /\ pc[w] \in {"handler", "sync", "abort", "result"} /\ c = Bottom(w)
        /\ deque[w] # <<>> /\ clock[c] = None /\ cl' = [cl EXCEPT ![w] = c]
        /\ UNCHANGED <<deque, status, victim>>
    BY <2>1 DEF LockBottomDoes
  <2>3. /\ "handler" \in WorkPC /\ "handler" \notin VictimPC
        /\ "sync" \in WorkPC /\ "sync" \notin VictimPC /\ "abort" \in WorkPC
        /\ "abort" \notin VictimPC /\ "result" \in WorkPC
        /\ "result" \notin VictimPC /\ "handlerPoll" \in WorkPC
        /\ "handlerPoll" \notin VictimPC /\ "syncPoll" \in WorkPC
        /\ "syncPoll" \notin VictimPC /\ "setResult" \in WorkPC
        /\ "setResult" \notin VictimPC /\ "abortPoll" \in WorkPC
        /\ "abortPoll" \notin VictimPC /\ pc[w] \in WorkPC
        /\ pc[w] \notin VictimPC
    BY <2>2 DEF WorkPC, PopPC, SlowPC, VictimPC
  <2>4. ASSUME pc[w] = "handler", pc' = [pc EXCEPT ![w] = "handlerPoll"]
        PROVE  DequeInv'
    <3>1. pc'[w] = "handlerPoll" /\ cl'[w] = c /\ victim'[w] = victim[w]
      BY <1>a, <2>2, <2>3, <2>4 DEF Types
    <3>2. \A u \in Worker \ {w} : /\ pc'[u] = pc[u] /\ cl'[u] = cl[u]
                                  /\ victim'[u] = victim[u]
      BY <1>a, <2>2, <2>3, <2>4 DEF Types
    <3>3. DequesKept
      BY <1>k, <2>2, <2>3, <2>4
    <3>4. \A u \in Worker \ {w} : pc[u] \in VictimPC => deque'[victim[u]] = deque[victim[u]]
      BY <1>a, <1>v, <2>2, <2>3, <2>4 DEF Types, Shortened, Extended
    <3>5. \A u \in Worker \ {w} : deque'[u] = deque[u]
      BY <1>a, <2>2, <2>3, <2>4 DEF Types, Shortened, Extended
    <3>6. DequeHere(w)'
      BY <1>b, <1>d, <1>s, <3>1, <3>3, <2>2, <2>3, <2>4 DEF DequeHere,
         DequesKept
    <3>q. QED
      BY <1>h, <2>2, <3>1, <3>2, <3>3, <3>4, <3>5, <3>6
  <2>5. ASSUME pc[w] = "sync", pc' = [pc EXCEPT ![w] = "syncPoll"]
        PROVE  DequeInv'
    <3>1. pc'[w] = "syncPoll" /\ cl'[w] = c /\ victim'[w] = victim[w]
      BY <1>a, <2>2, <2>3, <2>5 DEF Types
    <3>2. \A u \in Worker \ {w} : /\ pc'[u] = pc[u] /\ cl'[u] = cl[u]
                                  /\ victim'[u] = victim[u]
      BY <1>a, <2>2, <2>3, <2>5 DEF Types
    <3>3. DequesKept
      BY <1>k, <2>2, <2>3, <2>5
    <3>4. \A u \in Worker \ {w} : pc[u] \in VictimPC => deque'[victim[u]] = deque[victim[u]]
      BY <1>a, <1>v, <2>2, <2>3, <2>5 DEF Types, Shortened, Extended
    <3>5. \A u \in Worker \ {w} : deque'[u] = deque[u]
      BY <1>a, <2>2, <2>3, <2>5 DEF Types, Shortened, Extended
    <3>6. DequeHere(w)'
      BY <1>b, <1>d, <1>s, <3>1, <3>3, <2>2, <2>3, <2>5 DEF DequeHere,
         DequesKept
    <3>q. QED
      BY <1>h, <2>2, <3>1, <3>2, <3>3, <3>4, <3>5, <3>6
  <2>6. ASSUME pc[w] = "result", pc' = [pc EXCEPT ![w] = "setResult"]
        PROVE  DequeInv'
    <3>1. pc'[w] = "setResult" /\ cl'[w] = c /\ victim'[w] = victim[w]
      BY <1>a, <2>2, <2>3, <2>6 DEF Types
    <3>2. \A u \in Worker \ {w} : /\ pc'[u] = pc[u] /\ cl'[u] = cl[u]
                                  /\ victim'[u] = victim[u]
      BY <1>a, <2>2, <2>3, <2>6 DEF Types
    <3>3. DequesKept
      BY <1>k, <2>2, <2>3, <2>6
    <3>4. \A u \in Worker \ {w} : pc[u] \in VictimPC => deque'[victim[u]] = deque[victim[u]]
      BY <1>a, <1>v, <2>2, <2>3, <2>6 DEF Types, Shortened, Extended
    <3>5. \A u \in Worker \ {w} : deque'[u] = deque[u]
      BY <1>a, <2>2, <2>3, <2>6 DEF Types, Shortened, Extended
    <3>6. DequeHere(w)'
      BY <1>b, <1>d, <1>s, <3>1, <3>3, <2>2, <2>3, <2>6 DEF DequeHere,
         DequesKept
    <3>q. QED
      BY <1>h, <2>2, <3>1, <3>2, <3>3, <3>4, <3>5, <3>6
  <2>7. ASSUME NEW s \in {ABORT_ALL, ALMOST_NO_ABORT}, pc[w] = "abort",
               status[c] = "RUNNING", pc' = [pc EXCEPT ![w] = "abortPoll"]
        PROVE  DequeInv'
    <3>1. pc'[w] = "abortPoll" /\ cl'[w] = c /\ victim'[w] = victim[w]
      BY <1>a, <2>2, <2>3, <2>7 DEF Types
    <3>2. \A u \in Worker \ {w} : /\ pc'[u] = pc[u] /\ cl'[u] = cl[u]
                                  /\ victim'[u] = victim[u]
      BY <1>a, <2>2, <2>3, <2>7 DEF Types
    <3>3. DequesKept
      BY <1>k, <2>2, <2>3, <2>7
    <3>4. \A u \in Worker \ {w} : pc[u] \in VictimPC => deque'[victim[u]] = deque[victim[u]]
      BY <1>a, <1>v, <2>2, <2>3, <2>7 DEF Types, Shortened, Extended
    <3>5. \A u \in Worker \ {w} : deque'[u] = deque[u]
      BY <1>a, <2>2, <2>3, <2>7 DEF Types, Shortened, Extended
    <3>6. DequeHere(w)'
      BY <1>b, <1>d, <1>s, <3>1, <3>3, <2>2, <2>3, <2>7 DEF DequeHere,
         DequesKept
    <3>q. QED
      BY <1>h, <2>2, <3>1, <3>2, <3>3, <3>4, <3>5, <3>6
  <2>q. QED
    BY <2>1, <2>2, <2>4, <2>5, <2>6, <2>7 DEF LockBottomDoes
<1>27. ASSUME NEW w \in Worker, Sync(w) PROVE DequeInv'
  <2>1. PICK c \in Proc :
          SyncDoes(w, c)
    BY <1>27, SyncEffect
  <2>2. /\ pc[w] = "syncPoll" /\ c = cl[w] /\ c = Bottom(w)
        /\ c = deque[w][Size(deque[w])] /\ T(w) = 1 /\ H[w] = 0
        /\ status[c] = "RUNNING" /\ stack[w][1] = c /\ cache[c] = w
        /\ complete[c] = <<>> /\ cl' = [cl EXCEPT ![w] = None]
        /\ UNCHANGED <<victim>>
    BY <2>1 DEF SyncDoes
  <2>3. /\ "syncPoll" \in WorkPC /\ "syncPoll" \notin VictimPC
        /\ "loop" \notin WorkPC /\ "loop" \notin VictimPC
        /\ "synced" \in WorkPC /\ "synced" \notin VictimPC
    BY <2>2 DEF WorkPC, PopPC, SlowPC, VictimPC
  <2>l. dlock[w] = w
    BY <2>2 DEF IInv, DequeLocks, HoldsDeque, OwnDequePC
  <2>4. ASSUME join[c] # 0, pc' = [pc EXCEPT ![w] = "loop"],
               Shortened(deque, deque', w),
               status' = [status EXCEPT ![c] = "SUSPENDED"]
        PROVE  DequeInv'
    <3>1. pc'[w] = "loop" /\ cl'[w] = None /\ victim'[w] = victim[w]
      BY <1>a, <2>2, <2>3, <2>4 DEF Types
    <3>2. \A u \in Worker \ {w} : /\ pc'[u] = pc[u] /\ cl'[u] = cl[u]
                                  /\ victim'[u] = victim[u]
      BY <1>a, <2>2, <2>3, <2>4 DEF Types
    <3>3. DequesKept
      BY <1>p, <2>2, <2>4
    <3>4. \A u \in Worker \ {w} : pc[u] \in VictimPC => deque'[victim[u]] = deque[victim[u]]
      BY <1>y, <2>2, <2>l, <2>4 DEF Shortened
    <3>5. \A u \in Worker \ {w} : deque'[u] = deque[u]
      BY <1>a, <2>2, <2>3, <2>4 DEF Types, Shortened, Extended
    <3>6. DequeHere(w)'
      BY <1>x, <2>2, <2>3, <2>4, <3>1, <3>3
    <3>q. QED
      BY <1>h, <2>2, <3>1, <3>2, <3>3, <3>4, <3>5, <3>6
  <2>5. ASSUME join[c] = 0, pc' = [pc EXCEPT ![w] = "synced"],
               UNCHANGED <<deque, status>>
        PROVE  DequeInv'
    <3>1. pc'[w] = "synced" /\ cl'[w] = None /\ victim'[w] = victim[w]
      BY <1>a, <2>2, <2>3, <2>5 DEF Types
    <3>2. \A u \in Worker \ {w} : /\ pc'[u] = pc[u] /\ cl'[u] = cl[u]
                                  /\ victim'[u] = victim[u]
      BY <1>a, <2>2, <2>3, <2>5 DEF Types
    <3>3. DequesKept
      BY <1>k, <2>2, <2>3, <2>5
    <3>4. \A u \in Worker \ {w} : pc[u] \in VictimPC => deque'[victim[u]] = deque[victim[u]]
      BY <1>a, <1>v, <2>2, <2>3, <2>5 DEF Types, Shortened, Extended
    <3>5. \A u \in Worker \ {w} : deque'[u] = deque[u]
      BY <1>a, <2>2, <2>3, <2>5 DEF Types, Shortened, Extended
    <3>6. DequeHere(w)'
      BY <1>b, <1>d, <1>s, <3>1, <3>3, <2>2, <2>3, <2>5 DEF DequeHere,
         DequesKept
    <3>q. QED
      BY <1>h, <2>2, <3>1, <3>2, <3>3, <3>4, <3>5, <3>6
  <2>q. QED
    BY <2>1, <2>2, <2>4, <2>5 DEF SyncDoes
<1>28. ASSUME NEW w \in Worker, AbortSlow(w) PROVE DequeInv'
  <2>2. /\ pc[w] = "abortPoll" /\ complete[cl[w]] = <<>>
        /\ pc' = [pc EXCEPT ![w] = "run"] /\ cl' = [cl EXCEPT ![w] = None]
        /\ UNCHANGED <<deque, status, victim>>
    BY <1>28 DEF AbortSlow, program, results, tree, caches, Goto, UnlockBoth,
       Polled, Hand, UnlockClosure, UnlockDeque, Polls
  <2>3. /\ "abortPoll" \in WorkPC /\ "abortPoll" \notin VictimPC
        /\ "run" \in WorkPC /\ "run" \notin VictimPC
    BY <2>2 DEF WorkPC, PopPC, SlowPC, VictimPC
  <2>4. pc'[w] = "run" /\ cl'[w] = None /\ victim'[w] = victim[w]
    BY <1>a, <2>2, <2>3 DEF Types
  <2>5. \A u \in Worker \ {w} : /\ pc'[u] = pc[u] /\ cl'[u] = cl[u]
                                /\ victim'[u] = victim[u]
    BY <1>a, <2>2, <2>3 DEF Types
  <2>6. DequesKept
    BY <1>k, <2>2, <2>3
  <2>7. \A u \in Worker \ {w} : pc[u] \in VictimPC => deque'[victim[u]] = deque[victim[u]]
    BY <1>a, <1>v, <2>2, <2>3 DEF Types, Shortened, Extended
  <2>8. \A u \in Worker \ {w} : deque'[u] = deque[u]
    BY <1>a, <2>2, <2>3 DEF Types, Shortened, Extended
  <2>9. DequeHere(w)'
    BY <1>b, <1>d, <1>s, <2>4, <2>6, <2>2, <2>3 DEF DequeHere, DequesKept
  <2>q. QED
    BY <1>h, <2>2, <2>4, <2>5, <2>6, <2>7, <2>8, <2>9
<1>29. ASSUME NEW w \in Worker, SetResult(w) PROVE DequeInv'
  <2>1. PICK c \in Proc :
          SetResultDoes(w, c)
    BY <1>29, SetResultEffect
  <2>2. /\ pc[w] = "setResult" /\ c = cl[w] /\ c = Bottom(w)
        /\ c = deque[w][Size(deque[w])] /\ T(w) = 1 /\ H[w] = 0 /\ c # Root
        /\ deque[w] # <<>> /\ status[c] = "RUNNING" /\ stack[w][1] = c
        /\ cache[c] = w /\ pc' = [pc EXCEPT ![w] = "loop"]
        /\ cl' = [cl EXCEPT ![w] = None]
        /\ status' = [status EXCEPT ![c] = "RETURNING"]
        /\ UNCHANGED <<deque, victim>>
    BY <2>1 DEF SetResultDoes
  <2>3. /\ "setResult" \in WorkPC /\ "setResult" \notin VictimPC
        /\ "loop" \notin WorkPC /\ "loop" \notin VictimPC
    BY <2>2 DEF WorkPC, PopPC, SlowPC, VictimPC
  <2>4. pc'[w] = "loop" /\ cl'[w] = None /\ victim'[w] = victim[w]
    BY <1>a, <2>2, <2>3 DEF Types
  <2>5. \A u \in Worker \ {w} : /\ pc'[u] = pc[u] /\ cl'[u] = cl[u]
                                /\ victim'[u] = victim[u]
    BY <1>a, <2>2, <2>3 DEF Types
  <2>6. DequesKept
    BY <1>p, <2>2
  <2>7. \A u \in Worker \ {w} : pc[u] \in VictimPC => deque'[victim[u]] = deque[victim[u]]
    BY <1>a, <1>v, <2>2, <2>3 DEF Types, Shortened, Extended
  <2>8. \A u \in Worker \ {w} : deque'[u] = deque[u]
    BY <1>a, <2>2, <2>3 DEF Types, Shortened, Extended
  <2>9. DequeHere(w)'
    <3>1. status'[Bottom(w)] = "RETURNING"
      <4>1. status \in [Proc -> Status]
        BY <1>a DEF Types
      <4>2. c \in Proc /\ c = Bottom(w) /\ status' = [status EXCEPT ![c] = "RETURNING"]
        BY <2>2
      <4>q. QED
        BY <4>1, <4>2
    <3>q. QED
      BY <1>j, <2>2, <2>3, <2>4, <2>6, <3>1
  <2>q. QED
    BY <1>h, <2>2, <2>4, <2>5, <2>6, <2>7, <2>8, <2>9
<1>30. ASSUME NEW w \in Worker, Done(w) PROVE DequeInv'
  BY <1>g, <1>30 DEF Done, results, state, tree, locks, caches, Goto,
     AfterSync, WorkPC, PopPC, SlowPC, VictimPC
<1>31. ASSUME NEW w \in Worker, RemoveAndFree(w) PROVE DequeInv'
  <2>1. RemoveAndFreeDoes(w)
    BY <1>31, RemoveAndFreeEffect
  <2>2. /\ pc[w] = "rootEnd" /\ Root = Bottom(w)
        /\ Root = deque[w][Size(deque[w])] /\ dlock[w] = None /\ T(w) = 1
        /\ H[w] = 0 /\ Root \in Proc /\ status[Root] = "RUNNING"
        /\ cache[Root] = w /\ pc' = [pc EXCEPT ![w] = "loop"]
        /\ Shortened(deque, deque', w)
        /\ status' = [status EXCEPT ![Root] = "freed"]
        /\ UNCHANGED <<cl, victim>>
    BY <2>1 DEF RemoveAndFreeDoes
  <2>3. /\ "rootEnd" \in WorkPC /\ "rootEnd" \notin VictimPC
        /\ "loop" \notin WorkPC /\ "loop" \notin VictimPC
    BY <2>2 DEF WorkPC, PopPC, SlowPC, VictimPC
  <2>4. pc'[w] = "loop" /\ cl'[w] = cl[w] /\ victim'[w] = victim[w]
    BY <1>a, <2>2, <2>3 DEF Types
  <2>5. \A u \in Worker \ {w} : /\ pc'[u] = pc[u] /\ cl'[u] = cl[u]
                                /\ victim'[u] = victim[u]
    BY <1>a, <2>2, <2>3 DEF Types
  <2>6. DequesKept
    BY <1>p, <2>2
  <2>7. \A u \in Worker \ {w} : pc[u] \in VictimPC => deque'[victim[u]] = deque[victim[u]]
    BY <1>y, <2>2 DEF Shortened
  <2>8. \A u \in Worker \ {w} : deque'[u] = deque[u]
    BY <1>a, <2>2, <2>3 DEF Types, Shortened, Extended
  <2>9. DequeHere(w)'
    BY <1>x, <2>2, <2>3, <2>4, <2>6
  <2>q. QED
    BY <1>h, <2>2, <2>4, <2>5, <2>6, <2>7, <2>8, <2>9
<1>32. ASSUME NEW w \in Worker, CilkExit(w) PROVE DequeInv'
  <2>1. CilkExitDoes(w)
    BY <1>32, CilkExitEffect
  <2>2. /\ pc[w] = "run" /\ Root \in Proc /\ clock[Root] = None
        /\ Running(w) # Root
        /\ UNCHANGED <<deque, status, victim>>
    BY <2>1 DEF CilkExitDoes
  <2>3. /\ "run" \in WorkPC /\ "run" \notin VictimPC /\ "exitPoll" \in WorkPC
        /\ "exitPoll" \notin VictimPC
    BY <2>2 DEF WorkPC, PopPC, SlowPC, VictimPC
  <2>4. ASSUME status[Root] = "RUNNING",
               UNCHANGED <<pc, cl>>
        PROVE  DequeInv'
    <3>1. pc'[w] = pc[w] /\ cl'[w] = cl[w] /\ victim'[w] = victim[w]
      BY <1>a, <2>2, <2>3, <2>4 DEF Types
    <3>2. \A u \in Worker \ {w} : /\ pc'[u] = pc[u] /\ cl'[u] = cl[u]
                                  /\ victim'[u] = victim[u]
      BY <1>a, <2>2, <2>3, <2>4 DEF Types
    <3>3. DequesKept
      BY <1>k, <2>2, <2>3, <2>4
    <3>4. \A u \in Worker \ {w} : pc[u] \in VictimPC => deque'[victim[u]] = deque[victim[u]]
      BY <1>a, <1>v, <2>2, <2>3, <2>4 DEF Types, Shortened, Extended
    <3>5. \A u \in Worker \ {w} : deque'[u] = deque[u]
      BY <1>a, <2>2, <2>3, <2>4 DEF Types, Shortened, Extended
    <3>6. DequeHere(w)'
      BY <1>b, <1>d, <1>s, <3>1, <3>3, <2>2, <2>3, <2>4 DEF DequeHere,
         DequesKept
    <3>q. QED
      BY <1>h, <2>2, <3>1, <3>2, <3>3, <3>4, <3>5, <3>6
  <2>5. ASSUME status[Root] # "RUNNING", pc' = [pc EXCEPT ![w] = "exitPoll"],
               cl' = [cl EXCEPT ![w] = Root]
        PROVE  DequeInv'
    <3>1. pc'[w] = "exitPoll" /\ cl'[w] = Root /\ victim'[w] = victim[w]
      BY <1>a, <2>2, <2>3, <2>5 DEF Types
    <3>2. \A u \in Worker \ {w} : /\ pc'[u] = pc[u] /\ cl'[u] = cl[u]
                                  /\ victim'[u] = victim[u]
      BY <1>a, <2>2, <2>3, <2>5 DEF Types
    <3>3. DequesKept
      BY <1>k, <2>2, <2>3, <2>5
    <3>4. \A u \in Worker \ {w} : pc[u] \in VictimPC => deque'[victim[u]] = deque[victim[u]]
      BY <1>a, <1>v, <2>2, <2>3, <2>5 DEF Types, Shortened, Extended
    <3>5. \A u \in Worker \ {w} : deque'[u] = deque[u]
      BY <1>a, <2>2, <2>3, <2>5 DEF Types, Shortened, Extended
    <3>6. DequeHere(w)'
      BY <1>b, <1>d, <1>s, <3>1, <3>3, <2>2, <2>3, <2>5 DEF DequeHere,
         DequesKept
    <3>q. QED
      BY <1>h, <2>2, <3>1, <3>2, <3>3, <3>4, <3>5, <3>6
  <2>q. QED
    BY <2>1, <2>2, <2>4, <2>5 DEF CilkExitDoes
<1>33. ASSUME NEW w \in Worker, CilkExitDone(w) PROVE DequeInv'
  <2>2. /\ pc[w] = "exitPoll" /\ complete[cl[w]] = <<>>
        /\ pc' = [pc EXCEPT ![w] = "run"] /\ cl' = [cl EXCEPT ![w] = None]
        /\ UNCHANGED <<deque, status, victim>>
    BY <1>33 DEF CilkExitDone, program, results, tree, caches, Goto, Hand,
       UnlockClosure, Polled, Polls
  <2>3. /\ "exitPoll" \in WorkPC /\ "exitPoll" \notin VictimPC
        /\ "run" \in WorkPC /\ "run" \notin VictimPC
    BY <2>2 DEF WorkPC, PopPC, SlowPC, VictimPC
  <2>4. pc'[w] = "run" /\ cl'[w] = None /\ victim'[w] = victim[w]
    BY <1>a, <2>2, <2>3 DEF Types
  <2>5. \A u \in Worker \ {w} : /\ pc'[u] = pc[u] /\ cl'[u] = cl[u]
                                /\ victim'[u] = victim[u]
    BY <1>a, <2>2, <2>3 DEF Types
  <2>6. DequesKept
    BY <1>k, <2>2, <2>3
  <2>7. \A u \in Worker \ {w} : pc[u] \in VictimPC => deque'[victim[u]] = deque[victim[u]]
    BY <1>a, <1>v, <2>2, <2>3 DEF Types, Shortened, Extended
  <2>8. \A u \in Worker \ {w} : deque'[u] = deque[u]
    BY <1>a, <2>2, <2>3 DEF Types, Shortened, Extended
  <2>9. DequeHere(w)'
    BY <1>b, <1>d, <1>s, <2>4, <2>6, <2>2, <2>3 DEF DequeHere, DequesKept
  <2>q. QED
    BY <1>h, <2>2, <2>4, <2>5, <2>6, <2>7, <2>8, <2>9
<1>34. ASSUME NEW w \in Worker, HandlerPolled(w) PROVE DequeInv'
  <2>1. PICK t \in Proc, t1 \in Proc :
          HandlerPolledDoes(w, t, t1)
    BY <1>34, HandlerPolledEffect
  <2>2. /\ pc[w] = "handlerPoll" /\ t = cl[w] /\ t1 = Bottom(w)
        /\ deque[w] # <<>> /\ complete[t] = <<>>
        /\ UNCHANGED <<deque, status, victim>>
    BY <2>1 DEF HandlerPolledDoes
  <2>3. /\ "handlerPoll" \in WorkPC /\ "handlerPoll" \notin VictimPC
        /\ "handlerAct" \in WorkPC /\ "handlerAct" \notin VictimPC
        /\ "handlerSwap" \in WorkPC /\ "handlerSwap" \notin VictimPC
    BY <2>2 DEF WorkPC, PopPC, SlowPC, VictimPC
  <2>4. ASSUME t1 = t, pc' = [pc EXCEPT ![w] = "handlerAct"],
               UNCHANGED <<cl>>
        PROVE  DequeInv'
    <3>1. pc'[w] = "handlerAct" /\ cl'[w] = cl[w] /\ victim'[w] = victim[w]
      BY <1>a, <2>2, <2>3, <2>4 DEF Types
    <3>2. \A u \in Worker \ {w} : /\ pc'[u] = pc[u] /\ cl'[u] = cl[u]
                                  /\ victim'[u] = victim[u]
      BY <1>a, <2>2, <2>3, <2>4 DEF Types
    <3>3. DequesKept
      BY <1>k, <2>2, <2>3, <2>4
    <3>4. \A u \in Worker \ {w} : pc[u] \in VictimPC => deque'[victim[u]] = deque[victim[u]]
      BY <1>a, <1>v, <2>2, <2>3, <2>4 DEF Types, Shortened, Extended
    <3>5. \A u \in Worker \ {w} : deque'[u] = deque[u]
      BY <1>a, <2>2, <2>3, <2>4 DEF Types, Shortened, Extended
    <3>6. DequeHere(w)'
      BY <1>b, <1>d, <1>s, <3>1, <3>3, <2>2, <2>3, <2>4 DEF DequeHere,
         DequesKept
    <3>q. QED
      BY <1>h, <2>2, <3>1, <3>2, <3>3, <3>4, <3>5, <3>6
  <2>5. ASSUME t1 # t, status[t] = "READY",
               pc' = [pc EXCEPT ![w] = "handlerSwap"],
               cl' = [cl EXCEPT ![w] = t1]
        PROVE  DequeInv'
    <3>1. pc'[w] = "handlerSwap" /\ cl'[w] = t1 /\ victim'[w] = victim[w]
      BY <1>a, <2>2, <2>3, <2>5 DEF Types
    <3>2. \A u \in Worker \ {w} : /\ pc'[u] = pc[u] /\ cl'[u] = cl[u]
                                  /\ victim'[u] = victim[u]
      BY <1>a, <2>2, <2>3, <2>5 DEF Types
    <3>3. DequesKept
      BY <1>k, <2>2, <2>3, <2>5
    <3>4. \A u \in Worker \ {w} : pc[u] \in VictimPC => deque'[victim[u]] = deque[victim[u]]
      BY <1>a, <1>v, <2>2, <2>3, <2>5 DEF Types, Shortened, Extended
    <3>5. \A u \in Worker \ {w} : deque'[u] = deque[u]
      BY <1>a, <2>2, <2>3, <2>5 DEF Types, Shortened, Extended
    <3>6. DequeHere(w)'
      BY <1>b, <1>d, <1>s, <3>1, <3>3, <2>2, <2>3, <2>5 DEF DequeHere,
         DequesKept
    <3>q. QED
      BY <1>h, <2>2, <3>1, <3>2, <3>3, <3>4, <3>5, <3>6
  <2>q. QED
    BY <2>1, <2>2, <2>4, <2>5 DEF HandlerPolledDoes
<1>35. ASSUME NEW w \in Worker, HandlerSwap(w) PROVE DequeInv'
  BY <1>g, <1>35 DEF HandlerSwap, program, results, state, tree, caches, Goto,
     LockClosure, WorkPC, PopPC, SlowPC, VictimPC
<1>36. ASSUME NEW w \in Worker, HandlerStolen(w) PROVE DequeInv'
  <2>1. PICK c \in Proc :
          HandlerStolenDoes(w, c)
    BY <1>36, HandlerStolenEffect
  <2>2. /\ pc[w] = "handlerAct" /\ c = cl[w] /\ c = Bottom(w)
        /\ c = deque[w][Size(deque[w])] /\ c # Root /\ deque[w] # <<>>
        /\ T(w) \in Nat \ {0} /\ H[w] \in Nat /\ H[w] >= T(w)
        /\ status[c] = "RUNNING" => child[w] = c /\ cache[c] = w
        /\ status[c] \in {"RUNNING", "RETURNING"}
        /\ cl' = [cl EXCEPT ![w] = None]
        /\ status' = [status EXCEPT ![c] = "RETURNING"]
        /\ UNCHANGED <<deque, victim>>
    BY <2>1 DEF HandlerStolenDoes
  <2>3. /\ "handlerAct" \in WorkPC /\ "handlerAct" \notin VictimPC
        /\ "loop" \notin WorkPC /\ "loop" \notin VictimPC /\ "pop" \in WorkPC
        /\ "pop" \notin VictimPC
    BY <2>2 DEF WorkPC, PopPC, SlowPC, VictimPC
  <2>b. DequesKept
    <3>1. CASE status[c] = "RUNNING"
      BY <1>p, <2>2, <3>1
    <3>2. CASE status[c] = "RETURNING"
      <4>1. status' = status
        BY <1>a, <2>2, <3>2 DEF Types
      <4>q. QED
        BY <1>k, <4>1
    <3>q. QED
      BY <2>2, <3>1, <3>2
  <2>4. ASSUME T(w) = 1, pc' = [pc EXCEPT ![w] = "loop"]
        PROVE  DequeInv'
    <3>1. pc'[w] = "loop" /\ cl'[w] = None /\ victim'[w] = victim[w]
      BY <1>a, <2>2, <2>3, <2>4 DEF Types
    <3>2. \A u \in Worker \ {w} : /\ pc'[u] = pc[u] /\ cl'[u] = cl[u]
                                  /\ victim'[u] = victim[u]
      BY <1>a, <2>2, <2>3, <2>4 DEF Types
    <3>3. DequesKept
      BY <2>b
    <3>4. \A u \in Worker \ {w} : pc[u] \in VictimPC => deque'[victim[u]] = deque[victim[u]]
      BY <1>a, <1>v, <2>2, <2>3, <2>4 DEF Types, Shortened, Extended
    <3>5. \A u \in Worker \ {w} : deque'[u] = deque[u]
      BY <1>a, <2>2, <2>3, <2>4 DEF Types, Shortened, Extended
    <3>6. DequeHere(w)'
      <4>1. status'[Bottom(w)] = "RETURNING"
        BY <1>a, <2>2 DEF Types
      <4>q. QED
        BY <1>j, <2>2, <2>3, <3>1, <3>3, <4>1
    <3>q. QED
      BY <1>h, <2>2, <3>1, <3>2, <3>3, <3>4, <3>5, <3>6
  <2>5. ASSUME T(w) # 1, pc' = [pc EXCEPT ![w] = "pop"]
        PROVE  DequeInv'
    <3>1. pc'[w] = "pop" /\ cl'[w] = None /\ victim'[w] = victim[w]
      BY <1>a, <2>2, <2>3, <2>5 DEF Types
    <3>2. \A u \in Worker \ {w} : /\ pc'[u] = pc[u] /\ cl'[u] = cl[u]
                                  /\ victim'[u] = victim[u]
      BY <1>a, <2>2, <2>3, <2>5 DEF Types
    <3>3. DequesKept
      BY <2>b
    <3>4. \A u \in Worker \ {w} : pc[u] \in VictimPC => deque'[victim[u]] = deque[victim[u]]
      BY <1>a, <1>v, <2>2, <2>3, <2>5 DEF Types, Shortened, Extended
    <3>5. \A u \in Worker \ {w} : deque'[u] = deque[u]
      BY <1>a, <2>2, <2>3, <2>5 DEF Types, Shortened, Extended
    <3>6. DequeHere(w)'
      BY <1>b, <1>d, <1>s, <3>1, <3>3, <2>2, <2>3, <2>5 DEF DequeHere,
         DequesKept
    <3>q. QED
      BY <1>h, <2>2, <3>1, <3>2, <3>3, <3>4, <3>5, <3>6
  <2>q. QED
    BY <2>1, <2>2, <2>4, <2>5 DEF HandlerStolenDoes
<1>37. ASSUME NEW w \in Worker, HandlerAbort(w) PROVE DequeInv'
  <2>1. PICK c \in Proc, f \in Proc :
          HandlerAbortDoes(w, c, f)
    BY <1>37, HandlerAbortEffect
  <2>2. /\ pc[w] = "handlerAct" /\ c = cl[w] /\ c = Bottom(w)
        /\ c = deque[w][Size(deque[w])] /\ deque[w] # <<>>
        /\ T(w) \in Nat \ {0} /\ H[w] \in Nat /\ H[w] < T(w)
        /\ status[c] = "RUNNING" /\ cache[c] = w /\ stack[w][H[w] + 1] = c
        /\ cl' = [cl EXCEPT ![w] = None]
        /\ UNCHANGED <<victim>>
    BY <2>1 DEF HandlerAbortDoes
  <2>3. /\ "handlerAct" \in WorkPC /\ "handlerAct" \notin VictimPC
        /\ "loop" \notin WorkPC /\ "loop" \notin VictimPC /\ "pop" \in WorkPC
        /\ "pop" \notin VictimPC
    BY <2>2 DEF WorkPC, PopPC, SlowPC, VictimPC
  <2>l. dlock[w] = w
    BY <2>2 DEF IInv, DequeLocks, HoldsDeque, OwnDequePC
  <2>4. ASSUME T(w) = 1, H[w] = 0, join[c] # 0,
               pc' = [pc EXCEPT ![w] = "loop"], Shortened(deque, deque', w),
               status' = [status EXCEPT ![c] = "SUSPENDED"]
        PROVE  DequeInv'
    <3>1. pc'[w] = "loop" /\ cl'[w] = None /\ victim'[w] = victim[w]
      BY <1>a, <2>2, <2>3, <2>4 DEF Types
    <3>2. \A u \in Worker \ {w} : /\ pc'[u] = pc[u] /\ cl'[u] = cl[u]
                                  /\ victim'[u] = victim[u]
      BY <1>a, <2>2, <2>3, <2>4 DEF Types
    <3>3. DequesKept
      BY <1>p, <2>2, <2>4
    <3>4. \A u \in Worker \ {w} : pc[u] \in VictimPC => deque'[victim[u]] = deque[victim[u]]
      BY <1>y, <2>2, <2>l, <2>4 DEF Shortened
    <3>5. \A u \in Worker \ {w} : deque'[u] = deque[u]
      BY <1>a, <2>2, <2>3, <2>4 DEF Types, Shortened, Extended
    <3>6. DequeHere(w)'
      BY <1>x, <2>2, <2>3, <2>4, <3>1, <3>3
    <3>q. QED
      BY <1>h, <2>2, <3>1, <3>2, <3>3, <3>4, <3>5, <3>6
  <2>5. ASSUME T(w) = 1, H[w] = 0, join[c] = 0, c # Root,
               pc' = [pc EXCEPT ![w] = "loop"],
               status' = [status EXCEPT ![c] = "RETURNING"],
               UNCHANGED <<deque>>
        PROVE  DequeInv'
    <3>1. pc'[w] = "loop" /\ cl'[w] = None /\ victim'[w] = victim[w]
      BY <1>a, <2>2, <2>3, <2>5 DEF Types
    <3>2. \A u \in Worker \ {w} : /\ pc'[u] = pc[u] /\ cl'[u] = cl[u]
                                  /\ victim'[u] = victim[u]
      BY <1>a, <2>2, <2>3, <2>5 DEF Types
    <3>3. DequesKept
      BY <1>p, <2>2, <2>5
    <3>4. \A u \in Worker \ {w} : pc[u] \in VictimPC => deque'[victim[u]] = deque[victim[u]]
      BY <1>a, <1>v, <2>2, <2>3, <2>5 DEF Types, Shortened, Extended
    <3>5. \A u \in Worker \ {w} : deque'[u] = deque[u]
      BY <1>a, <2>2, <2>3, <2>5 DEF Types, Shortened, Extended
    <3>6. DequeHere(w)'
      <4>1. status'[Bottom(w)] = "RETURNING"
        <5>1. status' = [status EXCEPT ![c] = "RETURNING"] /\ c = Bottom(w)
          BY <2>2, <2>5
        <5>2. status \in [Proc -> Status]
          BY <1>a DEF Types
        <5>q. QED
          BY <5>1, <5>2
      <4>q. QED
        BY <1>j, <2>2, <2>3, <2>5, <3>1, <3>3, <4>1
    <3>q. QED
      BY <1>h, <2>2, <3>1, <3>2, <3>3, <3>4, <3>5, <3>6
  <2>6. ASSUME T(w) # 1, H[w] + 1 = T(w), join[c] = 0, c # Root,
               pc' = [pc EXCEPT ![w] = "pop"],
               status' = [status EXCEPT ![c] = "RETURNING"],
               UNCHANGED <<deque>>
        PROVE  DequeInv'
    <3>1. pc'[w] = "pop" /\ cl'[w] = None /\ victim'[w] = victim[w]
      BY <1>a, <2>2, <2>3, <2>6 DEF Types
    <3>2. \A u \in Worker \ {w} : /\ pc'[u] = pc[u] /\ cl'[u] = cl[u]
                                  /\ victim'[u] = victim[u]
      BY <1>a, <2>2, <2>3, <2>6 DEF Types
    <3>3. DequesKept
      BY <1>p, <2>2, <2>6
    <3>4. \A u \in Worker \ {w} : pc[u] \in VictimPC => deque'[victim[u]] = deque[victim[u]]
      BY <1>a, <1>v, <2>2, <2>3, <2>6 DEF Types, Shortened, Extended
    <3>5. \A u \in Worker \ {w} : deque'[u] = deque[u]
      BY <1>a, <2>2, <2>3, <2>6 DEF Types, Shortened, Extended
    <3>6. DequeHere(w)'
      BY <1>b, <1>d, <1>s, <3>1, <3>3, <2>2, <2>3, <2>6 DEF DequeHere,
         DequesKept
    <3>q. QED
      BY <1>h, <2>2, <3>1, <3>2, <3>3, <3>4, <3>5, <3>6
  <2>7. ASSUME H[w] + 1 < T(w), f = stack[w][T(w)], f # Root,
               status[f] = "none", pc' = [pc EXCEPT ![w] = "pop"],
               UNCHANGED <<deque, status>>
        PROVE  DequeInv'
    <3>1. pc'[w] = "pop" /\ cl'[w] = None /\ victim'[w] = victim[w]
      BY <1>a, <2>2, <2>3, <2>7 DEF Types
    <3>2. \A u \in Worker \ {w} : /\ pc'[u] = pc[u] /\ cl'[u] = cl[u]
                                  /\ victim'[u] = victim[u]
      BY <1>a, <2>2, <2>3, <2>7 DEF Types
    <3>3. DequesKept
      BY <1>k, <2>2, <2>3, <2>7
    <3>4. \A u \in Worker \ {w} : pc[u] \in VictimPC => deque'[victim[u]] = deque[victim[u]]
      BY <1>a, <1>v, <2>2, <2>3, <2>7 DEF Types, Shortened, Extended
    <3>5. \A u \in Worker \ {w} : deque'[u] = deque[u]
      BY <1>a, <2>2, <2>3, <2>7 DEF Types, Shortened, Extended
    <3>6. DequeHere(w)'
      BY <1>b, <1>d, <1>s, <3>1, <3>3, <2>2, <2>3, <2>7 DEF DequeHere,
         DequesKept
    <3>q. QED
      BY <1>h, <2>2, <3>1, <3>2, <3>3, <3>4, <3>5, <3>6
  <2>q. QED
    BY <2>1, <2>2, <2>4, <2>5, <2>6, <2>7 DEF HandlerAbortDoes, AbortWaits,
       AbortReturns, AbortPops
<1>38. ASSUME NEW w \in Worker, HandlerResume(w) PROVE DequeInv'
  <2>2. /\ pc[w] = "handlerAct" /\ ~(H[w] >= T(w))
        /\ pc' = [pc EXCEPT ![w] = "run"] /\ cl' = [cl EXCEPT ![w] = None]
        /\ UNCHANGED <<deque, status, victim>>
    BY <1>38 DEF HandlerResume, program, tree, Goto, UnlockBoth, Outcome,
       BeingAborted, Stolen, Hand, UnlockClosure, UnlockDeque
  <2>3. /\ "handlerAct" \in WorkPC /\ "handlerAct" \notin VictimPC
        /\ "run" \in WorkPC /\ "run" \notin VictimPC
    BY <2>2 DEF WorkPC, PopPC, SlowPC, VictimPC
  <2>4. pc'[w] = "run" /\ cl'[w] = None /\ victim'[w] = victim[w]
    BY <1>a, <2>2, <2>3 DEF Types
  <2>5. \A u \in Worker \ {w} : /\ pc'[u] = pc[u] /\ cl'[u] = cl[u]
                                /\ victim'[u] = victim[u]
    BY <1>a, <2>2, <2>3 DEF Types
  <2>6. DequesKept
    BY <1>k, <2>2, <2>3
  <2>7. \A u \in Worker \ {w} : pc[u] \in VictimPC => deque'[victim[u]] = deque[victim[u]]
    BY <1>a, <1>v, <2>2, <2>3 DEF Types, Shortened, Extended
  <2>8. \A u \in Worker \ {w} : deque'[u] = deque[u]
    BY <1>a, <2>2, <2>3 DEF Types, Shortened, Extended
  <2>9. DequeHere(w)'
    BY <1>b, <1>d, <1>s, <2>4, <2>6, <2>2, <2>3 DEF DequeHere, DequesKept
  <2>q. QED
    BY <1>h, <2>2, <2>4, <2>5, <2>6, <2>7, <2>8, <2>9
<1>39. CASE UNCHANGED vars
  BY <1>f, <1>39 DEF vars
<1>q. QED
  BY <1>1, <1>2, <1>3, <1>4, <1>5, <1>6, <1>7, <1>8, <1>9, <1>10, <1>11, <1>12,
     <1>13, <1>14, <1>15, <1>16, <1>17, <1>18, <1>19, <1>20, <1>21, <1>22,
     <1>23, <1>24, <1>25, <1>26, <1>27, <1>28, <1>29, <1>30, <1>31, <1>32,
     <1>33, <1>34, <1>35, <1>36, <1>37, <1>38, <1>39 DEF Next, Step, Terminated

(* A closure goes to a new place only from the one it was in, or from none *)
(* when it gets into play.                                                 *)
LEMMA PlacesApartStep ==
    ASSUME IInv, [Next]_vars
    PROVE  PlacesApart'
<1>a. Types /\ Types'
  BY TypesStep DEF IInv
<1>b. created \in Nat \ {0} /\ created' \in Nat /\ None \notin Proc /\ Root \in Proc
  BY <1>a, BoundAssumption DEF Types, Proc, None, Root
<1>s. /\ DequesApart(deque)
      /\ \A w \in Worker, c \in Proc : Carries(w, c) =>
            NotIn(deque, c) /\ \A u \in Worker \ {w} : ~Carries(u, c)
  BY CarriedApart
<1>c. \A u \in Worker : cl[u] # None => pc[u] \notin {"steal", "rootEnd"}
  BY DEF IInv, InHandInv, LockPC, HandPC
<1>i. ASSUME NEW w \in Worker, DequesApart(deque'),
             \A u \in Worker \ {w} : /\ pc'[u] = pc[u] /\ cl'[u] = cl[u]
                                     /\ child'[u] = child[u],
             \A u \in Worker \ {w}, c \in Proc : Carries(u, c) => NotIn(deque', c),
             \A c \in Proc : Carries(w, c)' => Uncarried(w, c)
      PROVE  PlacesApart'
  <2>1. \A u \in Worker \ {w}, c \in Proc : Carries(u, c)' <=> Carries(u, c)
    BY <1>i DEF Carries
  <2>2. ASSUME NEW u \in Worker, NEW c \in Proc, Carries(u, c)'
        PROVE  /\ \A v \in Worker : \A i \in 1 .. Size(deque'[v]) : deque'[v][i] # c
               /\ \A v \in Worker : Carries(v, c)' => v = u
    <3>1. NotIn(deque', c)
      BY <1>i, <2>1, <2>2 DEF Uncarried
    <3>2. ASSUME NEW v \in Worker, Carries(v, c)', v # u PROVE FALSE
      <4>1. CASE u = w
        BY <1>i, <2>1, <2>2, <3>2, <4>1 DEF Uncarried
      <4>2. CASE v = w
        BY <1>i, <2>1, <2>2, <3>2, <4>2 DEF Uncarried
      <4>3. CASE u # w /\ v # w
        BY <1>s, <2>1, <2>2, <3>2, <4>3
      <4>q. QED
        BY <4>1, <4>2, <4>3
    <3>q. QED
      BY <3>1, <3>2 DEF NotIn
  <2>3. /\ \A u \in Worker : \A i \in 1 .. Size(deque'[u]) : deque'[u][i] # None
        /\ \A u \in Worker : cl'[u] \in Proc \cup {None} /\ child'[u] \in Proc \cup {None}
        /\ \A u \in Worker : pc'[u] \in ReturnPC => child'[u] # None
    <3>1. \A u \in Worker : deque'[u] \in Seq(Proc)
      BY <1>a DEF Types
    <3>2. \A u \in Worker : \A i \in 1 .. Size(deque'[u]) : deque'[u][i] # None
      BY <1>b, <3>1, SeqFacts
    <3>3. \A u \in Worker : pc'[u] \in ReturnPC => child'[u] # None
      BY ClosureLocksStep DEF ClosureLocks
    <3>q. QED
      BY <1>a, <3>2, <3>3 DEF Types
  <2>4. \A u \in Worker : /\ pc'[u] \in HandPC => Carries(u, cl[u])'
                          /\ pc'[u] \in ReturnPC => Carries(u, child[u])'
                          /\ ~(pc'[u] \in HandPC /\ pc'[u] \in ReturnPC)
    BY DEF Carries, HandPC, ReturnPC
  <2>5. \A v, u \in Worker : \A i \in 1 .. Size(deque'[v]), j \in 1 .. Size(deque'[u]) :
            deque'[v][i] = deque'[u][j] => v = u /\ i = j
    BY <1>i DEF DequesApart
  <2>6. \A v, u \in Worker :
            pc'[v] \in HandPC /\ pc'[u] \in HandPC /\ cl'[v] = cl'[u] /\ cl'[u] # None
               => v = u
    BY <2>2, <2>3 DEF Carries
  <2>7. \A v, u \in Worker :
            pc'[v] \in ReturnPC /\ pc'[u] \in ReturnPC /\ child'[v] = child'[u] => v = u
    BY <2>2, <2>3 DEF Carries
  <2>8. \A v, u \in Worker : \A i \in 1 .. Size(deque'[v]) :
            /\ pc'[u] \in HandPC => deque'[v][i] # cl'[u]
            /\ pc'[u] \in ReturnPC => deque'[v][i] # child'[u]
    BY <2>2, <2>3 DEF Carries
  <2>9. \A v, u \in Worker :
            pc'[v] \in HandPC /\ pc'[u] \in ReturnPC => cl'[v] # child'[u]
    BY <2>2, <2>3, <2>4 DEF Carries
  <2>q. QED
    BY <2>5, <2>6, <2>7, <2>8, <2>9 DEF PlacesApart
<1>h. ASSUME NEW w \in Worker,
             \A u \in Worker \ {w} : /\ pc'[u] = pc[u] /\ cl'[u] = cl[u]
                                     /\ child'[u] = child[u],
             KeptApart,
             \A c \in Proc : Carries(w, c)' => Carries(w, c) \/ Uncarried(w, c)
      PROVE  PlacesApart'
  <2>1. \A u \in Worker, c \in Proc : Carries(u, c) => NotIn(deque', c)
    BY <1>h, <1>s DEF KeptApart
  <2>2. \A c \in Proc : Carries(w, c)' => Uncarried(w, c)
    BY <1>h, <1>s, <2>1 DEF Uncarried
  <2>q. QED
    BY <1>h, <1>i, <2>1, <2>2 DEF KeptApart
<1>m. ASSUME NEW w \in Worker, NEW l, pc' = [pc EXCEPT ![w] = l],
             l \in HandPC <=> pc[w] \in HandPC,
             l \in ReturnPC <=> pc[w] \in ReturnPC,
             UNCHANGED <<cl, child, deque>>
      PROVE  PlacesApart'
  <2>1. \A u \in Worker : /\ pc'[u] \in HandPC <=> pc[u] \in HandPC
                          /\ pc'[u] \in ReturnPC <=> pc[u] \in ReturnPC
    BY <1>a, <1>m DEF Types
  <2>q. QED
    BY <1>m, <2>1 DEF IInv, PlacesApart
<1>f. ASSUME UNCHANGED <<pc, cl, child, deque>>
      PROVE  PlacesApart'
BY <1>f DEF IInv, PlacesApart
<1>g. ASSUME NEW w \in Worker, NEW l, pc' = [pc EXCEPT ![w] = l],
             l \in HandPC <=> pc[w] \in HandPC,
             l \in ReturnPC <=> pc[w] \in ReturnPC,
             UNCHANGED <<cl, child, deque>>
      PROVE  PlacesApart'
BY <1>g, <1>m
<1>1. ASSUME NEW w \in Worker, LeaveScheduler(w) PROVE PlacesApart'
  <2>2. /\ pc[w] \in {"loop", "steal"} /\ pc' = [pc EXCEPT ![w] = "exit"]
        /\ UNCHANGED <<cl, child, deque>>
    BY <1>1 DEF LeaveScheduler, program, results, state, tree, locks, caches,
       Goto
  <2>3. /\ "loop" \in HandPC /\ "loop" \notin ReturnPC /\ "steal" \notin HandPC
        /\ "steal" \notin ReturnPC /\ "exit" \in HandPC
        /\ "exit" \notin ReturnPC /\ pc[w] \notin ReturnPC
    BY <2>2 DEF HandPC, ReturnPC
  <2>a. pc[w] = "steal" => cl[w] = None
    BY <1>c
  <2>4. pc'[w] = "exit" /\ cl'[w] = cl[w] /\ child'[w] = child[w]
    BY <1>a, <2>2, <2>3, <2>a DEF Types
  <2>5. \A u \in Worker \ {w} : /\ pc'[u] = pc[u] /\ cl'[u] = cl[u]
                                /\ child'[u] = child[u]
    BY <1>a, <2>2, <2>3, <2>a DEF Types
  <2>6. KeptApart
    BY <1>s, <2>2, <2>3, <2>a DEF KeptApart
  <2>7. \A c0 \in Proc : Carries(w, c0)' => Carries(w, c0) \/ Uncarried(w, c0)
    BY <1>b, <2>4, <2>2, <2>3, <2>a DEF Carries
  <2>q. QED
    BY <1>h, <2>2, <2>4, <2>5, <2>6, <2>7
<1>2. ASSUME NEW w \in Worker, TakeOwn(w) PROVE PlacesApart'
  <2>1. TakeOwnDoes(w)
    BY <1>2, TakeOwnEffect
  <2>2. /\ pc[w] = "loop" /\ cl[w] = None
        /\ UNCHANGED <<child>>
    BY <2>1 DEF TakeOwnDoes
  <2>3. /\ "loop" \in HandPC /\ "loop" \notin ReturnPC /\ "steal" \notin HandPC
        /\ "steal" \notin ReturnPC
    BY <2>2 DEF HandPC, ReturnPC
  <2>4. ASSUME deque[w] = <<>>, pc' = [pc EXCEPT ![w] = "steal"],
               UNCHANGED <<cl, deque>>
        PROVE  PlacesApart'
    <3>1. pc'[w] = "steal" /\ cl'[w] = cl[w] /\ child'[w] = child[w]
      BY <1>a, <2>2, <2>3, <2>4 DEF Types
    <3>2. \A u \in Worker \ {w} : /\ pc'[u] = pc[u] /\ cl'[u] = cl[u]
                                  /\ child'[u] = child[u]
      BY <1>a, <2>2, <2>3, <2>4 DEF Types
    <3>3. KeptApart
      BY <1>s, <2>2, <2>3, <2>4 DEF KeptApart
    <3>4. \A c0 \in Proc : Carries(w, c0)' => Carries(w, c0) \/ Uncarried(w, c0)
      BY <1>b, <3>1, <2>2, <2>3, <2>4 DEF Carries
    <3>q. QED
      BY <1>h, <2>2, <3>1, <3>2, <3>3, <3>4
  <2>5. ASSUME NEW c \in Proc, deque[w] # <<>>, c = Bottom(w),
               c = deque[w][Size(deque[w])], cl' = [cl EXCEPT ![w] = c],
               Shortened(deque, deque', w),
               UNCHANGED <<pc>>
        PROVE  PlacesApart'
    <3>1. pc'[w] = pc[w] /\ cl'[w] = c /\ child'[w] = child[w]
      BY <1>a, <2>2, <2>3, <2>5 DEF Types
    <3>2. \A u \in Worker \ {w} : /\ pc'[u] = pc[u] /\ cl'[u] = cl[u]
                                  /\ child'[u] = child[u]
      BY <1>a, <2>2, <2>3, <2>5 DEF Types
    <3>3. KeptApart
      <4>1. DequesApart(deque') /\ \A b : NotIn(deque, b) => NotIn(deque', b)
        BY <1>a, <1>s, <2>5, ShortenedApart DEF Types
      <4>q. QED
        BY <4>1 DEF KeptApart
    <3>4. \A c0 \in Proc : Carries(w, c0)' => Carries(w, c0) \/ Uncarried(w, c0)
      <4>1. NotIn(deque', c)
        <5>1. NotIn(deque', deque[w][Size(deque[w])])
          BY <1>a, <1>s, <2>5, ShortenedApart DEF Types
        <5>q. QED
          BY <5>1, <2>5
      <4>2. Size(deque[w]) \in 1 .. Size(deque[w])
        BY <1>a, <2>5, DequeFacts
      <4>3. \A u \in Worker : ~Carries(u, c)
        BY <1>s, <4>2, <2>5 DEF NotIn
      <4>4. Uncarried(w, c)
        BY <4>1, <4>3 DEF Uncarried
      <4>q. QED
        BY <2>2, <2>3, <2>5, <3>1, <4>4 DEF Carries
    <3>q. QED
      BY <1>h, <2>2, <3>1, <3>2, <3>3, <3>4
  <2>q. QED
    BY <2>1, <2>2, <2>4, <2>5 DEF TakeOwnDoes
<1>3. ASSUME NEW w \in Worker, StealLockDeque(w) PROVE PlacesApart'
  <2>2. /\ pc[w] = "steal" /\ pc' = [pc EXCEPT ![w] = "stealDeque"]
        /\ UNCHANGED <<child, deque>>
    BY <1>3 DEF StealLockDeque, program, results, state, tree, caches, Goto,
       LockDeque, Peek, Hand
  <2>3. /\ "steal" \notin HandPC /\ "steal" \notin ReturnPC
        /\ "stealDeque" \notin HandPC /\ "stealDeque" \notin ReturnPC
    BY <2>2 DEF HandPC, ReturnPC
  <2>4. ASSUME NEW v \in Worker \ {w},
               cl' = [cl EXCEPT ![w] = IF deque[v] = <<>> THEN None ELSE Head(deque[v])]
        PROVE  PlacesApart'
    <3>1. pc'[w] = "stealDeque" /\ cl'[w] = (IF deque[v] = <<>> THEN None ELSE Head(deque[v])) /\ child'[w] = child[w]
      BY <1>a, <2>2, <2>3, <2>4 DEF Types
    <3>2. \A u \in Worker \ {w} : /\ pc'[u] = pc[u] /\ cl'[u] = cl[u]
                                  /\ child'[u] = child[u]
      BY <1>a, <2>2, <2>3, <2>4 DEF Types
    <3>3. KeptApart
      BY <1>s, <2>2, <2>3, <2>4 DEF KeptApart
    <3>4. \A c0 \in Proc : Carries(w, c0)' => Carries(w, c0) \/ Uncarried(w, c0)
      BY <1>b, <3>1, <2>2, <2>3, <2>4 DEF Carries
    <3>q. QED
      BY <1>h, <2>2, <3>1, <3>2, <3>3, <3>4
  <2>q. QED
    BY <1>3, <2>2, <2>4 DEF StealLockDeque, program, results, state, tree,
       caches, Goto, LockDeque, Peek, Hand
<1>4. ASSUME NEW w \in Worker, StealLockClosure(w) PROVE PlacesApart'
  BY <1>g, <1>4 DEF StealLockClosure, program, results, state, tree, caches,
     Goto, LockClosure, HandPC, ReturnPC
<1>5. ASSUME NEW w \in Worker, StealGiveUp(w) PROVE PlacesApart'
  <2>2. /\ pc[w] = "stealClosure" /\ pc' = [pc EXCEPT ![w] = "stealGiveUp"]
        /\ cl' = [cl EXCEPT ![w] = None]
        /\ UNCHANGED <<child, deque>>
    BY <1>5 DEF StealGiveUp, program, results, state, tree, caches, Goto, Hand,
       UnlockClosure, BeingAborted
  <2>3. /\ "stealClosure" \notin HandPC /\ "stealClosure" \notin ReturnPC
        /\ "stealGiveUp" \notin HandPC /\ "stealGiveUp" \notin ReturnPC
    BY <2>2 DEF HandPC, ReturnPC
  <2>4. pc'[w] = "stealGiveUp" /\ cl'[w] = None /\ child'[w] = child[w]
    BY <1>a, <2>2, <2>3 DEF Types
  <2>5. \A u \in Worker \ {w} : /\ pc'[u] = pc[u] /\ cl'[u] = cl[u]
                                /\ child'[u] = child[u]
    BY <1>a, <2>2, <2>3 DEF Types
  <2>6. KeptApart
    BY <1>s, <2>2, <2>3 DEF KeptApart
  <2>7. \A c0 \in Proc : Carries(w, c0)' => Carries(w, c0) \/ Uncarried(w, c0)
    BY <1>b, <2>4, <2>2, <2>3 DEF Carries
  <2>q. QED
    BY <1>h, <2>2, <2>4, <2>5, <2>6, <2>7
<1>6. ASSUME NEW w \in Worker, StealUnlockDeque(w) PROVE PlacesApart'
  BY <1>g, <1>6 DEF StealUnlockDeque, program, results, state, tree, caches,
     Goto, UnlockDeque, HandPC, ReturnPC
<1>7. ASSUME NEW w \in Worker, StealReady(w) PROVE PlacesApart'
  <2>1. PICK v \in Worker \ {w}, c \in Proc :
          StealReadyDoes(w, v, c)
    BY <1>7, StealReadyEffect
  <2>2. /\ pc[w] = "stealClosure" /\ v = victim[w] /\ c = cl[w]
        /\ c = deque[v][1] /\ pc[v] \notin OwnDequePC /\ status[c] = "READY"
        /\ pc' = [pc EXCEPT ![w] = "loop"] /\ Topped(deque, deque', v)
        /\ UNCHANGED <<cl, child>>
    BY <2>1 DEF StealReadyDoes
  <2>3. /\ "stealClosure" \notin HandPC /\ "stealClosure" \notin ReturnPC
        /\ "loop" \in HandPC /\ "loop" \notin ReturnPC
    BY <2>2 DEF HandPC, ReturnPC
  <2>a. /\ DequesApart(deque') /\ NotIn(deque', c)
        /\ \A b : NotIn(deque, b) => NotIn(deque', b)
    <3>1. Topped(deque, deque', v) /\ deque[v][1] = c
      BY <2>2
    <3>q. QED
      BY <1>a, <1>s, <3>1, ToppedApart DEF Types
  <2>b. Uncarried(w, c)
    <3>1. 1 \in 1 .. Size(deque[v]) /\ deque[v][1] = c
      BY <2>2 DEF Topped
    <3>2. \A u \in Worker : ~Carries(u, c)
      BY <1>s, <3>1 DEF NotIn
    <3>q. QED
      BY <2>a, <3>2 DEF Uncarried
  <2>4. pc'[w] = "loop" /\ cl'[w] = cl[w] /\ child'[w] = child[w]
    BY <1>a, <2>2, <2>3, <2>a, <2>b DEF Types
  <2>5. \A u \in Worker \ {w} : /\ pc'[u] = pc[u] /\ cl'[u] = cl[u]
                                /\ child'[u] = child[u]
    BY <1>a, <2>2, <2>3, <2>a, <2>b DEF Types
  <2>6. KeptApart
    BY <1>s, <2>2, <2>3, <2>a, <2>b DEF KeptApart
  <2>7. \A c0 \in Proc : Carries(w, c0)' => Carries(w, c0) \/ Uncarried(w, c0)
    BY <1>b, <2>4, <2>2, <2>3, <2>a, <2>b DEF Carries
  <2>q. QED
    BY <1>h, <2>2, <2>4, <2>5, <2>6, <2>7
<1>8. ASSUME NEW w \in Worker, StealPromote(w) PROVE PlacesApart'
  <2>1. PICK v \in Worker \ {w}, c \in Proc, k \in Proc :
          StealPromoteDoes(w, v, c, k)
    BY <1>8, StealPromoteEffect
  <2>2. /\ pc[w] = "stealClosure" /\ v = victim[w] /\ c = cl[w]
        /\ k = stack[v][H[v] + 2] /\ deque[v] = <<c>>
        /\ pc[v] \in WorkPC \ OwnDequePC /\ H[v] + 1 < T(v)
        /\ status[c] = "RUNNING" /\ stack[v][H[v] + 1] = c /\ k # c /\ k # Root
        /\ status[k] = "none" /\ parent[k] = c
        /\ pc' = [pc EXCEPT ![w] = "stealFinish"]
        /\ child' = [child EXCEPT ![w] = k]
        /\ deque' = [deque EXCEPT ![v] = <<k>>]
        /\ UNCHANGED <<cl>>
    BY <2>1 DEF StealPromoteDoes
  <2>3. /\ "stealClosure" \notin HandPC /\ "stealClosure" \notin ReturnPC
        /\ "stealFinish" \in HandPC /\ "stealFinish" \notin ReturnPC
    BY <2>2 DEF HandPC, ReturnPC
  <2>a. NotIn(deque, k) /\ \A u \in Worker : ~Carries(u, k)
    BY <2>2, NowhereFacts
  <2>b. /\ DequesApart(deque') /\ NotIn(deque', c)
        /\ \A b : b # k /\ NotIn(deque, b) => NotIn(deque', b)
    <3>1. k # c /\ Replaced(deque, deque', v, c, k)
      BY <1>a, <2>2 DEF Types, Replaced
    <3>q. QED
      BY <1>a, <1>s, <2>a, <3>1, ReplacedApart DEF Types
  <2>c. Uncarried(w, c)
    <3>1. 1 \in 1 .. Size(deque[v]) /\ deque[v][1] = c
      BY <2>2, SingleFacts
    <3>2. \A u \in Worker : ~Carries(u, c)
      BY <1>s, <3>1 DEF NotIn
    <3>q. QED
      BY <2>b, <3>2 DEF Uncarried
  <2>d. \A u \in Worker \ {w} : /\ pc'[u] = pc[u] /\ cl'[u] = cl[u]
                                /\ child'[u] = child[u]
    BY <1>a, <2>2 DEF Types
  <2>e. \A u \in Worker \ {w}, b \in Proc : Carries(u, b) => NotIn(deque', b)
    BY <1>s, <2>a, <2>b
  <2>r. \A b \in Proc : Carries(w, b)' => Uncarried(w, b)
    <3>1. pc'[w] = "stealFinish" /\ cl'[w] = c
      BY <1>a, <2>2 DEF Types
    <3>q. QED
      BY <2>3, <2>c, <3>1 DEF Carries
  <2>q. QED
    BY <1>i, <2>b, <2>d, <2>e, <2>r
<1>9. ASSUME NEW w \in Worker, StealFinish(w) PROVE PlacesApart'
  <2>2. /\ pc[w] = "stealFinish" /\ pc' = [pc EXCEPT ![w] = "loop"]
        /\ child' = [child EXCEPT ![w] = None]
        /\ UNCHANGED <<cl, deque>>
    BY <1>9 DEF StealFinish, program, results, caches, Goto, UnlockClosure,
       SetStatus, AddChild
  <2>3. /\ "stealFinish" \in HandPC /\ "stealFinish" \notin ReturnPC
        /\ "loop" \in HandPC /\ "loop" \notin ReturnPC
    BY <2>2 DEF HandPC, ReturnPC
  <2>4. pc'[w] = "loop" /\ cl'[w] = cl[w] /\ child'[w] = None
    BY <1>a, <2>2, <2>3 DEF Types
  <2>5. \A u \in Worker \ {w} : /\ pc'[u] = pc[u] /\ cl'[u] = cl[u]
                                /\ child'[u] = child[u]
    BY <1>a, <2>2, <2>3 DEF Types
  <2>6. KeptApart
    BY <1>s, <2>2, <2>3 DEF KeptApart
  <2>7. \A c0 \in Proc : Carries(w, c0)' => Carries(w, c0) \/ Uncarried(w, c0)
    BY <1>b, <2>4, <2>2, <2>3 DEF Carries
  <2>q. QED
    BY <1>h, <2>2, <2>4, <2>5, <2>6, <2>7
<1>10. ASSUME NEW w \in Worker, InletKilled(w) PROVE PlacesApart'
  BY <1>f, <1>10 DEF InletKilled, program, state, locks, caches, Outcome,
     BeingAborted, Polls
<1>11. ASSUME NEW w \in Worker, InletRuns(w) PROVE PlacesApart'
  BY <1>f, <1>11 DEF InletRuns, program, state, locks, caches, Outcome,
     BeingAborted, Polls
<1>12. ASSUME NEW w \in Worker, InletAborts(w) PROVE PlacesApart'
  <2>1. PICK c \in Proc, r \in SUBSET Proc :
          InletAbortsDoes(w, c, r)
    BY <1>12, InletAbortsEffect
  <2>2. /\ c = cl[w] /\ pc[w] \in PollPC
        /\ pc[w] = "return" => status[c] # "RUNNING"
        /\ UNCHANGED <<pc, cl, child>>
    BY <2>1 DEF InletAbortsDoes
  <2>4. ASSUME NEW k \in Proc, pc[w] = "handlerPoll", c = Bottom(w),
               deque[w] # <<>>, status[c] = "RUNNING", H[w] = 0, 1 < T(w),
               stack[w][1] = c, k = stack[w][2], k # c, k # Root,
               status[k] = "none", parent[k] = c,
               deque' = [deque EXCEPT ![w] = Append(@, k)]
        PROVE  PlacesApart'
    <3>1. NotIn(deque, k) /\ \A u \in Worker : ~Carries(u, k)
      BY <2>4, NowhereFacts
    <3>2. Extended(deque, deque', w, k)
      BY <1>a, <2>4, ExtendedFacts DEF Types
    <3>3. /\ DequesApart(deque')
          /\ \A b : b # k /\ NotIn(deque, b) => NotIn(deque', b)
      BY <1>a, <1>s, <3>1, <3>2, ExtendedApart DEF Types
    <3>4. pc' = pc /\ cl' = cl /\ child' = child
      BY <2>2, <2>4
    <3>5. \A u \in Worker, b \in Proc : Carries(u, b) => NotIn(deque', b)
      BY <1>s, <3>1, <3>3
    <3>6. \A b \in Proc : Carries(w, b)' => Uncarried(w, b)
      BY <1>s, <3>4, <3>5 DEF Carries, Uncarried
    <3>q. QED
      BY <1>i, <3>3, <3>4, <3>5, <3>6
  <2>5. ASSUME UNCHANGED <<deque>>
        PROVE  PlacesApart'
    BY <1>f, <2>2, <2>5
  <2>q. QED
    BY <2>1, <2>2, <2>4, <2>5 DEF InletAbortsDoes, InletSplits
<1>13. ASSUME NEW w \in Worker, WalkDown(w) PROVE PlacesApart'
  <2>1. PICK n \in Nat \ {0}, k \in Proc :
          WalkDownDoes(w, n, k)
    BY <1>13, WalkDownEffect
  <2>q. QED
    BY <1>f, <2>1 DEF WalkDownDoes
<1>14. ASSUME NEW w \in Worker, WalkUp(w) PROVE PlacesApart'
  <2>1. PICK n \in Nat \ {0} :
          WalkUpDoes(w, n)
    BY <1>14, WalkUpEffect
  <2>q. QED
    BY <1>f, <2>1 DEF WalkUpDoes
<1>15. ASSUME NEW w \in Worker, AbortReadyClosure(w) PROVE PlacesApart'
  <2>2. /\ pc[w] = "loop" /\ cl[w] # None /\ clock[cl[w]] = None
        /\ status[cl[w]] = "READY"
        /\ UNCHANGED <<pc, child, deque>>
    BY <1>15 DEF AbortReadyClosure, program, results, tree, locks, caches,
       Hand, SetStatus, Outcome, BeingAborted, HasChildren
  <2>3. /\ "loop" \in HandPC /\ "loop" \notin ReturnPC
    BY <2>2 DEF HandPC, ReturnPC
  <2>4. ASSUME cl' = [cl EXCEPT ![w] = None]
        PROVE  PlacesApart'
    <3>1. pc'[w] = pc[w] /\ cl'[w] = None /\ child'[w] = child[w]
      BY <1>a, <2>2, <2>3, <2>4 DEF Types
    <3>2. \A u \in Worker \ {w} : /\ pc'[u] = pc[u] /\ cl'[u] = cl[u]
                                  /\ child'[u] = child[u]
      BY <1>a, <2>2, <2>3, <2>4 DEF Types
    <3>3. KeptApart
      BY <1>s, <2>2, <2>3, <2>4 DEF KeptApart
    <3>4. \A c0 \in Proc : Carries(w, c0)' => Carries(w, c0) \/ Uncarried(w, c0)
      BY <1>b, <3>1, <2>2, <2>3, <2>4 DEF Carries
    <3>q. QED
      BY <1>h, <2>2, <3>1, <3>2, <3>3, <3>4
  <2>5. ASSUME UNCHANGED <<cl>>
        PROVE  PlacesApart'
    <3>1. pc'[w] = pc[w] /\ cl'[w] = cl[w] /\ child'[w] = child[w]
      BY <1>a, <2>2, <2>3, <2>5 DEF Types
    <3>2. \A u \in Worker \ {w} : /\ pc'[u] = pc[u] /\ cl'[u] = cl[u]
                                  /\ child'[u] = child[u]
      BY <1>a, <2>2, <2>3, <2>5 DEF Types
    <3>3. KeptApart
      BY <1>s, <2>2, <2>3, <2>5 DEF KeptApart
    <3>4. \A c0 \in Proc : Carries(w, c0)' => Carries(w, c0) \/ Uncarried(w, c0)
      BY <1>b, <3>1, <2>2, <2>3, <2>5 DEF Carries
    <3>q. QED
      BY <1>h, <2>2, <3>1, <3>2, <3>3, <3>4
  <2>q. QED
    BY <1>15, <2>2, <2>4, <2>5 DEF AbortReadyClosure, program, results, tree,
       locks, caches, Hand, SetStatus, Outcome, BeingAborted, HasChildren
<1>16. ASSUME NEW w \in Worker, Setup(w) PROVE PlacesApart'
  BY <1>g, <1>16 DEF Setup, program, results, tree, Goto, LockClosure,
     SetStatus, BeingAborted, HandPC, ReturnPC
<1>17. ASSUME NEW w \in Worker, SetupDone(w) PROVE PlacesApart'
  BY <1>g, <1>17 DEF SetupDone, program, results, tree, caches, Goto,
     UnlockClosure, Polled, Polls, HandPC, ReturnPC
<1>18. ASSUME NEW w \in Worker, Execute(w) PROVE PlacesApart'
  <2>1. PICK c \in Proc :
          ExecuteDoes(w, c)
    BY <1>18, ExecuteEffect
  <2>2. /\ pc[w] = "add" /\ c = cl[w] /\ status[c] = "RUNNING" /\ T(w) = 1
        /\ H[w] = 0 /\ stack[w][1] = c /\ pc' = [pc EXCEPT ![w] = "run"]
        /\ cl' = [cl EXCEPT ![w] = None] /\ Extended(deque, deque', w, c)
        /\ UNCHANGED <<child>>
    BY <2>1 DEF ExecuteDoes
  <2>3. /\ "add" \in HandPC /\ "add" \notin ReturnPC /\ "run" \notin HandPC
        /\ "run" \notin ReturnPC
    BY <2>2 DEF HandPC, ReturnPC
  <2>a. Carries(w, c)
    BY <2>2, <2>3 DEF Carries
  <2>b. NotIn(deque, c) /\ \A u \in Worker \ {w} : ~Carries(u, c)
    BY <1>s, <2>a
  <2>c. /\ DequesApart(deque')
        /\ \A b : b # c /\ NotIn(deque, b) => NotIn(deque', b)
    <3>1. Extended(deque, deque', w, c)
      BY <2>2
    <3>q. QED
      BY <1>a, <1>s, <2>b, <3>1, ExtendedApart DEF Types
  <2>d. \A u \in Worker \ {w} : /\ pc'[u] = pc[u] /\ cl'[u] = cl[u]
                                /\ child'[u] = child[u]
    BY <1>a, <2>2 DEF Types
  <2>e. \A u \in Worker \ {w}, b \in Proc : Carries(u, b) => NotIn(deque', b)
    BY <1>s, <2>b, <2>c
  <2>r. \A b \in Proc : ~Carries(w, b)'
    <3>1. pc'[w] = "run"
      BY <1>a, <2>2 DEF Types
    <3>q. QED
      BY <2>3, <3>1 DEF Carries
  <2>q. QED
    BY <1>i, <2>c, <2>d, <2>e, <2>r
<1>19. ASSUME NEW w \in Worker, ReturnLockParent(w) PROVE PlacesApart'
  <2>1. PICK k \in Proc, p \in Proc :
          ReturnLockParentDoes(w, k, p)
    BY <1>19, ReturnLockParentEffect
  <2>2. /\ pc[w] = "loop" /\ k = cl[w] /\ p = parent[k] /\ p # k /\ k # Root
        /\ clock[k] = None /\ status[k] = "RETURNING" /\ clock[p] = None
        /\ status[p] # "none" /\ pc' = [pc EXCEPT ![w] = "returnChild"]
        /\ cl' = [cl EXCEPT ![w] = p] /\ child' = [child EXCEPT ![w] = k]
        /\ UNCHANGED <<deque>>
    BY <2>1 DEF ReturnLockParentDoes
  <2>3. /\ "loop" \in HandPC /\ "loop" \notin ReturnPC
        /\ "returnChild" \notin HandPC /\ "returnChild" \in ReturnPC
    BY <2>2 DEF HandPC, ReturnPC
  <2>4. pc'[w] = "returnChild" /\ cl'[w] = p /\ child'[w] = k
    BY <1>a, <2>2, <2>3 DEF Types
  <2>5. \A u \in Worker \ {w} : /\ pc'[u] = pc[u] /\ cl'[u] = cl[u]
                                /\ child'[u] = child[u]
    BY <1>a, <2>2, <2>3 DEF Types
  <2>6. KeptApart
    BY <1>s, <2>2, <2>3 DEF KeptApart
  <2>7. \A c0 \in Proc : Carries(w, c0)' => Carries(w, c0) \/ Uncarried(w, c0)
    BY <1>b, <2>4, <2>2, <2>3 DEF Carries
  <2>q. QED
    BY <1>h, <2>2, <2>4, <2>5, <2>6, <2>7
<1>20. ASSUME NEW w \in Worker, ReturnEnqueue(w) PROVE PlacesApart'
  <2>1. PICK k \in Proc, p \in Proc :
          ReturnEnqueueDoes(w, k, p)
    BY <1>20, ReturnEnqueueEffect
  <2>q. QED
    BY <1>g, <2>1 DEF ReturnEnqueueDoes, HandPC, ReturnPC
<1>21. ASSUME NEW w \in Worker, ReturnDone(w) PROVE PlacesApart'
  <2>1. PICK k \in Proc, p \in Proc :
          ReturnDoneDoes(w, k, p)
    BY <1>21, ReturnDoneEffect
  <2>2. /\ pc[w] = "return" /\ k = child[w] /\ p = cl[w] /\ p # k
        /\ p = parent[k] /\ k # Root /\ status[k] = "RETURNING"
        /\ status[p] # "none" /\ pc' = [pc EXCEPT ![w] = "loop"]
        /\ child' = [child EXCEPT ![w] = None]
        /\ UNCHANGED <<deque>>
    BY <2>1 DEF ReturnDoneDoes
  <2>3. /\ "return" \notin HandPC /\ "return" \in ReturnPC /\ "loop" \in HandPC
        /\ "loop" \notin ReturnPC
    BY <2>2 DEF HandPC, ReturnPC
  <2>4. ASSUME status[p] = "SUSPENDED",
               UNCHANGED <<cl>>
        PROVE  PlacesApart'
    <3>1. pc'[w] = "loop" /\ cl'[w] = cl[w] /\ child'[w] = None
      BY <1>a, <2>2, <2>3, <2>4 DEF Types
    <3>2. \A u \in Worker \ {w} : /\ pc'[u] = pc[u] /\ cl'[u] = cl[u]
                                  /\ child'[u] = child[u]
      BY <1>a, <2>2, <2>3, <2>4 DEF Types
    <3>3. KeptApart
      BY <1>s, <2>2, <2>3, <2>4 DEF KeptApart
    <3>4. \A c0 \in Proc : Carries(w, c0)' => Carries(w, c0) \/ Uncarried(w, c0)
      <4>1. NotIn(deque, p) /\ \A u \in Worker : ~Carries(u, p)
        BY <2>4, NowhereFacts
      <4>2. Uncarried(w, p)
        BY <4>1, <2>2 DEF Uncarried
      <4>q. QED
        BY <1>b, <2>2, <2>3, <2>4, <3>1, <4>2 DEF Carries
    <3>q. QED
      BY <1>h, <2>2, <3>1, <3>2, <3>3, <3>4
  <2>5. ASSUME cl' = [cl EXCEPT ![w] = None]
        PROVE  PlacesApart'
    <3>1. pc'[w] = "loop" /\ cl'[w] = None /\ child'[w] = None
      BY <1>a, <2>2, <2>3, <2>5 DEF Types
    <3>2. \A u \in Worker \ {w} : /\ pc'[u] = pc[u] /\ cl'[u] = cl[u]
                                  /\ child'[u] = child[u]
      BY <1>a, <2>2, <2>3, <2>5 DEF Types
    <3>3. KeptApart
      BY <1>s, <2>2, <2>3, <2>5 DEF KeptApart
    <3>4. \A c0 \in Proc : Carries(w, c0)' => Carries(w, c0) \/ Uncarried(w, c0)
      BY <1>b, <3>1, <2>2, <2>3, <2>5 DEF Carries
    <3>q. QED
      BY <1>h, <2>2, <3>1, <3>2, <3>3, <3>4
  <2>q. QED
    BY <2>1, <2>2, <2>4, <2>5 DEF ReturnDoneDoes
<1>22. ASSUME NEW w \in Worker, Spawn(w) PROVE PlacesApart'
  <2>1. PICK c \in Proc, f \in Proc :
          SpawnDoes(w, c, f)
    BY <1>22, SpawnEffect
  <2>q. QED
    BY <1>g, <2>1 DEF SpawnDoes, HandPC, ReturnPC
<1>23. ASSUME NEW w \in Worker, ReturnFast(w) PROVE PlacesApart'
  <2>1. PICK f \in Proc :
          ReturnFastDoes(w, f)
    BY <1>23, ReturnFastEffect
  <2>2. /\ pc[w] = "run" /\ f = stack[w][T(w)] /\ T(w) > 1 /\ T(w) \in Nat
        /\ status[f] = "none" \/ H[w] + 1 = T(w)
        /\ f # Root /\ pc' = [pc EXCEPT ![w] = "pop"]
        /\ child' = [child EXCEPT ![w] = f]
        /\ UNCHANGED <<cl, deque>>
    BY <2>1 DEF ReturnFastDoes
  <2>3. /\ "run" \notin HandPC /\ "run" \notin ReturnPC /\ "pop" \notin HandPC
        /\ "pop" \notin ReturnPC
    BY <2>2 DEF HandPC, ReturnPC
  <2>4. pc'[w] = "pop" /\ cl'[w] = cl[w] /\ child'[w] = f
    BY <1>a, <2>2, <2>3 DEF Types
  <2>5. \A u \in Worker \ {w} : /\ pc'[u] = pc[u] /\ cl'[u] = cl[u]
                                /\ child'[u] = child[u]
    BY <1>a, <2>2, <2>3 DEF Types
  <2>6. KeptApart
    BY <1>s, <2>2, <2>3 DEF KeptApart
  <2>7. \A c0 \in Proc : Carries(w, c0)' => Carries(w, c0) \/ Uncarried(w, c0)
    BY <1>b, <2>4, <2>2, <2>3 DEF Carries
  <2>q. QED
    BY <1>h, <2>2, <2>4, <2>5, <2>6, <2>7
<1>24. ASSUME NEW w \in Worker, PopResult(w) PROVE PlacesApart'
  <2>2. /\ pc[w] = "pop" /\ pc' = [pc EXCEPT ![w] = "run"]
        /\ child' = [child EXCEPT ![w] = None]
        /\ UNCHANGED <<cl, deque>>
    BY <1>24 DEF PopResult, program, state, tree, locks, caches, Goto, Outcome
  <2>3. /\ "pop" \notin HandPC /\ "pop" \notin ReturnPC /\ "run" \notin HandPC
        /\ "run" \notin ReturnPC
    BY <2>2 DEF HandPC, ReturnPC
  <2>4. pc'[w] = "run" /\ cl'[w] = cl[w] /\ child'[w] = None
    BY <1>a, <2>2, <2>3 DEF Types
  <2>5. \A u \in Worker \ {w} : /\ pc'[u] = pc[u] /\ cl'[u] = cl[u]
                                /\ child'[u] = child[u]
    BY <1>a, <2>2, <2>3 DEF Types
  <2>6. KeptApart
    BY <1>s, <2>2, <2>3 DEF KeptApart
  <2>7. \A c0 \in Proc : Carries(w, c0)' => Carries(w, c0) \/ Uncarried(w, c0)
    BY <1>b, <2>4, <2>2, <2>3 DEF Carries
  <2>q. QED
    BY <1>h, <2>2, <2>4, <2>5, <2>6, <2>7
<1>25. ASSUME NEW w \in Worker, LockOwnDeque(w) PROVE PlacesApart'
  BY <1>g, <1>25 DEF LockOwnDeque, program, results, state, tree, caches, Goto,
     LockDeque, SlowAborts, HandPC, ReturnPC
<1>26. ASSUME NEW w \in Worker, LockBottom(w) PROVE PlacesApart'
  <2>1. PICK c \in Proc :
          LockBottomDoes(w, c)
    BY <1>26, LockBottomEffect
  <2>2. /\ pc[w] \in {"handler", "sync", "abort", "result"} /\ c = Bottom(w)
        /\ deque[w] # <<>> /\ clock[c] = None /\ cl' = [cl EXCEPT ![w] = c]
        /\ UNCHANGED <<child, deque>>
    BY <2>1 DEF LockBottomDoes
  <2>3. /\ "handler" \notin HandPC /\ "handler" \notin ReturnPC
        /\ "sync" \notin HandPC /\ "sync" \notin ReturnPC
        /\ "abort" \notin HandPC /\ "abort" \notin ReturnPC
        /\ "result" \notin HandPC /\ "result" \notin ReturnPC
        /\ "handlerPoll" \notin HandPC /\ "handlerPoll" \notin ReturnPC
        /\ "syncPoll" \notin HandPC /\ "syncPoll" \notin ReturnPC
        /\ "setResult" \notin HandPC /\ "setResult" \notin ReturnPC
        /\ "abortPoll" \notin HandPC /\ "abortPoll" \notin ReturnPC
        /\ pc[w] \notin HandPC /\ pc[w] \notin ReturnPC
    BY <2>2 DEF HandPC, ReturnPC
  <2>4. ASSUME pc[w] = "handler", pc' = [pc EXCEPT ![w] = "handlerPoll"]
        PROVE  PlacesApart'
    <3>1. pc'[w] = "handlerPoll" /\ cl'[w] = c /\ child'[w] = child[w]
      BY <1>a, <2>2, <2>3, <2>4 DEF Types
    <3>2. \A u \in Worker \ {w} : /\ pc'[u] = pc[u] /\ cl'[u] = cl[u]
                                  /\ child'[u] = child[u]
      BY <1>a, <2>2, <2>3, <2>4 DEF Types
    <3>3. KeptApart
      BY <1>s, <2>2, <2>3, <2>4 DEF KeptApart
    <3>4. \A c0 \in Proc : Carries(w, c0)' => Carries(w, c0) \/ Uncarried(w, c0)
      BY <1>b, <3>1, <2>2, <2>3, <2>4 DEF Carries
    <3>q. QED
      BY <1>h, <2>2, <3>1, <3>2, <3>3, <3>4
  <2>5. ASSUME pc[w] = "sync", pc' = [pc EXCEPT ![w] = "syncPoll"]
        PROVE  PlacesApart'
    <3>1. pc'[w] = "syncPoll" /\ cl'[w] = c /\ child'[w] = child[w]
      BY <1>a, <2>2, <2>3, <2>5 DEF Types
    <3>2. \A u \in Worker \ {w} : /\ pc'[u] = pc[u] /\ cl'[u] = cl[u]
                                  /\ child'[u] = child[u]
      BY <1>a, <2>2, <2>3, <2>5 DEF Types
    <3>3. KeptApart
      BY <1>s, <2>2, <2>3, <2>5 DEF KeptApart
    <3>4. \A c0 \in Proc : Carries(w, c0)' => Carries(w, c0) \/ Uncarried(w, c0)
      BY <1>b, <3>1, <2>2, <2>3, <2>5 DEF Carries
    <3>q. QED
      BY <1>h, <2>2, <3>1, <3>2, <3>3, <3>4
  <2>6. ASSUME pc[w] = "result", pc' = [pc EXCEPT ![w] = "setResult"]
        PROVE  PlacesApart'
    <3>1. pc'[w] = "setResult" /\ cl'[w] = c /\ child'[w] = child[w]
      BY <1>a, <2>2, <2>3, <2>6 DEF Types
    <3>2. \A u \in Worker \ {w} : /\ pc'[u] = pc[u] /\ cl'[u] = cl[u]
                                  /\ child'[u] = child[u]
      BY <1>a, <2>2, <2>3, <2>6 DEF Types
    <3>3. KeptApart
      BY <1>s, <2>2, <2>3, <2>6 DEF KeptApart
    <3>4. \A c0 \in Proc : Carries(w, c0)' => Carries(w, c0) \/ Uncarried(w, c0)
      BY <1>b, <3>1, <2>2, <2>3, <2>6 DEF Carries
    <3>q. QED
      BY <1>h, <2>2, <3>1, <3>2, <3>3, <3>4
  <2>7. ASSUME NEW s \in {ABORT_ALL, ALMOST_NO_ABORT}, pc[w] = "abort",
               status[c] = "RUNNING", pc' = [pc EXCEPT ![w] = "abortPoll"]
        PROVE  PlacesApart'
    <3>1. pc'[w] = "abortPoll" /\ cl'[w] = c /\ child'[w] = child[w]
      BY <1>a, <2>2, <2>3, <2>7 DEF Types
    <3>2. \A u \in Worker \ {w} : /\ pc'[u] = pc[u] /\ cl'[u] = cl[u]
                                  /\ child'[u] = child[u]
      BY <1>a, <2>2, <2>3, <2>7 DEF Types
    <3>3. KeptApart
      BY <1>s, <2>2, <2>3, <2>7 DEF KeptApart
    <3>4. \A c0 \in Proc : Carries(w, c0)' => Carries(w, c0) \/ Uncarried(w, c0)
      BY <1>b, <3>1, <2>2, <2>3, <2>7 DEF Carries
    <3>q. QED
      BY <1>h, <2>2, <3>1, <3>2, <3>3, <3>4
  <2>q. QED
    BY <2>1, <2>2, <2>4, <2>5, <2>6, <2>7 DEF LockBottomDoes
<1>27. ASSUME NEW w \in Worker, Sync(w) PROVE PlacesApart'
  <2>1. PICK c \in Proc :
          SyncDoes(w, c)
    BY <1>27, SyncEffect
  <2>2. /\ pc[w] = "syncPoll" /\ c = cl[w] /\ c = Bottom(w)
        /\ c = deque[w][Size(deque[w])] /\ T(w) = 1 /\ H[w] = 0
        /\ status[c] = "RUNNING" /\ stack[w][1] = c
        /\ cl' = [cl EXCEPT ![w] = None]
        /\ UNCHANGED <<child>>
    BY <2>1 DEF SyncDoes
  <2>3. /\ "syncPoll" \notin HandPC /\ "syncPoll" \notin ReturnPC
        /\ "loop" \in HandPC /\ "loop" \notin ReturnPC
        /\ "synced" \notin HandPC /\ "synced" \notin ReturnPC
    BY <2>2 DEF HandPC, ReturnPC
  <2>4. ASSUME pc' = [pc EXCEPT ![w] = "loop"], Shortened(deque, deque', w)
        PROVE  PlacesApart'
    <3>1. pc'[w] = "loop" /\ cl'[w] = None /\ child'[w] = child[w]
      BY <1>a, <2>2, <2>3, <2>4 DEF Types
    <3>2. \A u \in Worker \ {w} : /\ pc'[u] = pc[u] /\ cl'[u] = cl[u]
                                  /\ child'[u] = child[u]
      BY <1>a, <2>2, <2>3, <2>4 DEF Types
    <3>3. KeptApart
      <4>1. DequesApart(deque') /\ \A b : NotIn(deque, b) => NotIn(deque', b)
        BY <1>a, <1>s, <2>4, ShortenedApart DEF Types
      <4>q. QED
        BY <4>1 DEF KeptApart
    <3>4. \A c0 \in Proc : Carries(w, c0)' => Carries(w, c0) \/ Uncarried(w, c0)
      BY <1>b, <3>1, <2>2, <2>3, <2>4 DEF Carries
    <3>q. QED
      BY <1>h, <2>2, <3>1, <3>2, <3>3, <3>4
  <2>5. ASSUME pc' = [pc EXCEPT ![w] = "synced"],
               UNCHANGED <<deque>>
        PROVE  PlacesApart'
    <3>1. pc'[w] = "synced" /\ cl'[w] = None /\ child'[w] = child[w]
      BY <1>a, <2>2, <2>3, <2>5 DEF Types
    <3>2. \A u \in Worker \ {w} : /\ pc'[u] = pc[u] /\ cl'[u] = cl[u]
                                  /\ child'[u] = child[u]
      BY <1>a, <2>2, <2>3, <2>5 DEF Types
    <3>3. KeptApart
      BY <1>s, <2>2, <2>3, <2>5 DEF KeptApart
    <3>4. \A c0 \in Proc : Carries(w, c0)' => Carries(w, c0) \/ Uncarried(w, c0)
      BY <1>b, <3>1, <2>2, <2>3, <2>5 DEF Carries
    <3>q. QED
      BY <1>h, <2>2, <3>1, <3>2, <3>3, <3>4
  <2>q. QED
    BY <2>1, <2>2, <2>4, <2>5 DEF SyncDoes
<1>28. ASSUME NEW w \in Worker, AbortSlow(w) PROVE PlacesApart'
  <2>2. /\ pc[w] = "abortPoll" /\ pc' = [pc EXCEPT ![w] = "run"]
        /\ cl' = [cl EXCEPT ![w] = None]
        /\ UNCHANGED <<child, deque>>
    BY <1>28 DEF AbortSlow, program, results, tree, caches, Goto, UnlockBoth,
       Polled, Hand, UnlockClosure, UnlockDeque, Polls
  <2>3. /\ "abortPoll" \notin HandPC /\ "abortPoll" \notin ReturnPC
        /\ "run" \notin HandPC /\ "run" \notin ReturnPC
    BY <2>2 DEF HandPC, ReturnPC
  <2>4. pc'[w] = "run" /\ cl'[w] = None /\ child'[w] = child[w]
    BY <1>a, <2>2, <2>3 DEF Types
  <2>5. \A u \in Worker \ {w} : /\ pc'[u] = pc[u] /\ cl'[u] = cl[u]
                                /\ child'[u] = child[u]
    BY <1>a, <2>2, <2>3 DEF Types
  <2>6. KeptApart
    BY <1>s, <2>2, <2>3 DEF KeptApart
  <2>7. \A c0 \in Proc : Carries(w, c0)' => Carries(w, c0) \/ Uncarried(w, c0)
    BY <1>b, <2>4, <2>2, <2>3 DEF Carries
  <2>q. QED
    BY <1>h, <2>2, <2>4, <2>5, <2>6, <2>7
<1>29. ASSUME NEW w \in Worker, SetResult(w) PROVE PlacesApart'
  <2>1. PICK c \in Proc :
          SetResultDoes(w, c)
    BY <1>29, SetResultEffect
  <2>2. /\ pc[w] = "setResult" /\ c = cl[w] /\ c = Bottom(w)
        /\ c = deque[w][Size(deque[w])] /\ T(w) = 1 /\ H[w] = 0 /\ c # Root
        /\ deque[w] # <<>> /\ status[c] = "RUNNING" /\ stack[w][1] = c
        /\ pc' = [pc EXCEPT ![w] = "loop"] /\ cl' = [cl EXCEPT ![w] = None]
        /\ UNCHANGED <<child, deque>>
    BY <2>1 DEF SetResultDoes
  <2>3. /\ "setResult" \notin HandPC /\ "setResult" \notin ReturnPC
        /\ "loop" \in HandPC /\ "loop" \notin ReturnPC
    BY <2>2 DEF HandPC, ReturnPC
  <2>4. pc'[w] = "loop" /\ cl'[w] = None /\ child'[w] = child[w]
    BY <1>a, <2>2, <2>3 DEF Types
  <2>5. \A u \in Worker \ {w} : /\ pc'[u] = pc[u] /\ cl'[u] = cl[u]
                                /\ child'[u] = child[u]
    BY <1>a, <2>2, <2>3 DEF Types
  <2>6. KeptApart
    BY <1>s, <2>2, <2>3 DEF KeptApart
  <2>7. \A c0 \in Proc : Carries(w, c0)' => Carries(w, c0) \/ Uncarried(w, c0)
    BY <1>b, <2>4, <2>2, <2>3 DEF Carries
  <2>q. QED
    BY <1>h, <2>2, <2>4, <2>5, <2>6, <2>7
<1>30. ASSUME NEW w \in Worker, Done(w) PROVE PlacesApart'
  BY <1>g, <1>30 DEF Done, results, state, tree, locks, caches, Goto,
     AfterSync, HandPC, ReturnPC
<1>31. ASSUME NEW w \in Worker, RemoveAndFree(w) PROVE PlacesApart'
  <2>1. RemoveAndFreeDoes(w)
    BY <1>31, RemoveAndFreeEffect
  <2>2. /\ pc[w] = "rootEnd" /\ Root = Bottom(w)
        /\ Root = deque[w][Size(deque[w])] /\ T(w) = 1 /\ H[w] = 0
        /\ Root \in Proc /\ status[Root] = "RUNNING"
        /\ pc' = [pc EXCEPT ![w] = "loop"] /\ Shortened(deque, deque', w)
        /\ UNCHANGED <<cl, child>>
    BY <2>1 DEF RemoveAndFreeDoes
  <2>3. /\ "rootEnd" \notin HandPC /\ "rootEnd" \notin ReturnPC
        /\ "loop" \in HandPC /\ "loop" \notin ReturnPC
    BY <2>2 DEF HandPC, ReturnPC
  <2>a. DequesApart(deque') /\ \A b : NotIn(deque, b) => NotIn(deque', b)
    <3>1. Shortened(deque, deque', w)
      BY <2>2
    <3>q. QED
      BY <1>a, <1>s, <3>1, ShortenedApart DEF Types
  <2>b. cl[w] = None
    BY <1>c, <2>2
  <2>4. pc'[w] = "loop" /\ cl'[w] = cl[w] /\ child'[w] = child[w]
    BY <1>a, <2>2, <2>3, <2>a, <2>b DEF Types
  <2>5. \A u \in Worker \ {w} : /\ pc'[u] = pc[u] /\ cl'[u] = cl[u]
                                /\ child'[u] = child[u]
    BY <1>a, <2>2, <2>3, <2>a, <2>b DEF Types
  <2>6. KeptApart
    BY <1>s, <2>2, <2>3, <2>a, <2>b DEF KeptApart
  <2>7. \A c0 \in Proc : Carries(w, c0)' => Carries(w, c0) \/ Uncarried(w, c0)
    BY <1>b, <2>4, <2>2, <2>3, <2>a, <2>b DEF Carries
  <2>q. QED
    BY <1>h, <2>2, <2>4, <2>5, <2>6, <2>7
<1>32. ASSUME NEW w \in Worker, CilkExit(w) PROVE PlacesApart'
  <2>1. CilkExitDoes(w)
    BY <1>32, CilkExitEffect
  <2>2. /\ pc[w] = "run" /\ Root \in Proc /\ clock[Root] = None
        /\ Running(w) # Root
        /\ UNCHANGED <<child, deque>>
    BY <2>1 DEF CilkExitDoes
  <2>3. /\ "run" \notin HandPC /\ "run" \notin ReturnPC
        /\ "exitPoll" \notin HandPC /\ "exitPoll" \notin ReturnPC
    BY <2>2 DEF HandPC, ReturnPC
  <2>4. ASSUME status[Root] = "RUNNING",
               UNCHANGED <<pc, cl>>
        PROVE  PlacesApart'
    <3>1. pc'[w] = pc[w] /\ cl'[w] = cl[w] /\ child'[w] = child[w]
      BY <1>a, <2>2, <2>3, <2>4 DEF Types
    <3>2. \A u \in Worker \ {w} : /\ pc'[u] = pc[u] /\ cl'[u] = cl[u]
                                  /\ child'[u] = child[u]
      BY <1>a, <2>2, <2>3, <2>4 DEF Types
    <3>3. KeptApart
      BY <1>s, <2>2, <2>3, <2>4 DEF KeptApart
    <3>4. \A c0 \in Proc : Carries(w, c0)' => Carries(w, c0) \/ Uncarried(w, c0)
      BY <1>b, <3>1, <2>2, <2>3, <2>4 DEF Carries
    <3>q. QED
      BY <1>h, <2>2, <3>1, <3>2, <3>3, <3>4
  <2>5. ASSUME status[Root] # "RUNNING", pc' = [pc EXCEPT ![w] = "exitPoll"],
               cl' = [cl EXCEPT ![w] = Root]
        PROVE  PlacesApart'
    <3>1. pc'[w] = "exitPoll" /\ cl'[w] = Root /\ child'[w] = child[w]
      BY <1>a, <2>2, <2>3, <2>5 DEF Types
    <3>2. \A u \in Worker \ {w} : /\ pc'[u] = pc[u] /\ cl'[u] = cl[u]
                                  /\ child'[u] = child[u]
      BY <1>a, <2>2, <2>3, <2>5 DEF Types
    <3>3. KeptApart
      BY <1>s, <2>2, <2>3, <2>5 DEF KeptApart
    <3>4. \A c0 \in Proc : Carries(w, c0)' => Carries(w, c0) \/ Uncarried(w, c0)
      BY <1>b, <3>1, <2>2, <2>3, <2>5 DEF Carries
    <3>q. QED
      BY <1>h, <2>2, <3>1, <3>2, <3>3, <3>4
  <2>q. QED
    BY <2>1, <2>2, <2>4, <2>5 DEF CilkExitDoes
<1>33. ASSUME NEW w \in Worker, CilkExitDone(w) PROVE PlacesApart'
  <2>2. /\ pc[w] = "exitPoll" /\ pc' = [pc EXCEPT ![w] = "run"]
        /\ cl' = [cl EXCEPT ![w] = None]
        /\ UNCHANGED <<child, deque>>
    BY <1>33 DEF CilkExitDone, program, results, tree, caches, Goto, Hand,
       UnlockClosure, Polled, Polls
  <2>3. /\ "exitPoll" \notin HandPC /\ "exitPoll" \notin ReturnPC
        /\ "run" \notin HandPC /\ "run" \notin ReturnPC
    BY <2>2 DEF HandPC, ReturnPC
  <2>4. pc'[w] = "run" /\ cl'[w] = None /\ child'[w] = child[w]
    BY <1>a, <2>2, <2>3 DEF Types
  <2>5. \A u \in Worker \ {w} : /\ pc'[u] = pc[u] /\ cl'[u] = cl[u]
                                /\ child'[u] = child[u]
    BY <1>a, <2>2, <2>3 DEF Types
  <2>6. KeptApart
    BY <1>s, <2>2, <2>3 DEF KeptApart
  <2>7. \A c0 \in Proc : Carries(w, c0)' => Carries(w, c0) \/ Uncarried(w, c0)
    BY <1>b, <2>4, <2>2, <2>3 DEF Carries
  <2>q. QED
    BY <1>h, <2>2, <2>4, <2>5, <2>6, <2>7
<1>34. ASSUME NEW w \in Worker, HandlerPolled(w) PROVE PlacesApart'
  <2>1. PICK t \in Proc, t1 \in Proc :
          HandlerPolledDoes(w, t, t1)
    BY <1>34, HandlerPolledEffect
  <2>2. /\ pc[w] = "handlerPoll" /\ t = cl[w] /\ t1 = Bottom(w)
        /\ deque[w] # <<>>
        /\ UNCHANGED <<child, deque>>
    BY <2>1 DEF HandlerPolledDoes
  <2>3. /\ "handlerPoll" \notin HandPC /\ "handlerPoll" \notin ReturnPC
        /\ "handlerAct" \notin HandPC /\ "handlerAct" \notin ReturnPC
        /\ "handlerSwap" \notin HandPC /\ "handlerSwap" \notin ReturnPC
    BY <2>2 DEF HandPC, ReturnPC
  <2>4. ASSUME t1 = t, pc' = [pc EXCEPT ![w] = "handlerAct"],
               UNCHANGED <<cl>>
        PROVE  PlacesApart'
    <3>1. pc'[w] = "handlerAct" /\ cl'[w] = cl[w] /\ child'[w] = child[w]
      BY <1>a, <2>2, <2>3, <2>4 DEF Types
    <3>2. \A u \in Worker \ {w} : /\ pc'[u] = pc[u] /\ cl'[u] = cl[u]
                                  /\ child'[u] = child[u]
      BY <1>a, <2>2, <2>3, <2>4 DEF Types
    <3>3. KeptApart
      BY <1>s, <2>2, <2>3, <2>4 DEF KeptApart
    <3>4. \A c0 \in Proc : Carries(w, c0)' => Carries(w, c0) \/ Uncarried(w, c0)
      BY <1>b, <3>1, <2>2, <2>3, <2>4 DEF Carries
    <3>q. QED
      BY <1>h, <2>2, <3>1, <3>2, <3>3, <3>4
  <2>5. ASSUME t1 # t, status[t] = "READY",
               pc' = [pc EXCEPT ![w] = "handlerSwap"],
               cl' = [cl EXCEPT ![w] = t1]
        PROVE  PlacesApart'
    <3>1. pc'[w] = "handlerSwap" /\ cl'[w] = t1 /\ child'[w] = child[w]
      BY <1>a, <2>2, <2>3, <2>5 DEF Types
    <3>2. \A u \in Worker \ {w} : /\ pc'[u] = pc[u] /\ cl'[u] = cl[u]
                                  /\ child'[u] = child[u]
      BY <1>a, <2>2, <2>3, <2>5 DEF Types
    <3>3. KeptApart
      BY <1>s, <2>2, <2>3, <2>5 DEF KeptApart
    <3>4. \A c0 \in Proc : Carries(w, c0)' => Carries(w, c0) \/ Uncarried(w, c0)
      BY <1>b, <3>1, <2>2, <2>3, <2>5 DEF Carries
    <3>q. QED
      BY <1>h, <2>2, <3>1, <3>2, <3>3, <3>4
  <2>q. QED
    BY <2>1, <2>2, <2>4, <2>5 DEF HandlerPolledDoes
<1>35. ASSUME NEW w \in Worker, HandlerSwap(w) PROVE PlacesApart'
  BY <1>g, <1>35 DEF HandlerSwap, program, results, state, tree, caches, Goto,
     LockClosure, HandPC, ReturnPC
<1>36. ASSUME NEW w \in Worker, HandlerStolen(w) PROVE PlacesApart'
  <2>1. PICK c \in Proc :
          HandlerStolenDoes(w, c)
    BY <1>36, HandlerStolenEffect
  <2>2. /\ pc[w] = "handlerAct" /\ c = cl[w] /\ c = Bottom(w)
        /\ c = deque[w][Size(deque[w])] /\ c # Root /\ deque[w] # <<>>
        /\ T(w) \in Nat \ {0} /\ H[w] \in Nat /\ H[w] >= T(w)
        /\ status[c] \in {"RUNNING", "RETURNING"}
        /\ cl' = [cl EXCEPT ![w] = None] /\ child' = [child EXCEPT ![w] = None]
        /\ UNCHANGED <<deque>>
    BY <2>1 DEF HandlerStolenDoes
  <2>3. /\ "handlerAct" \notin HandPC /\ "handlerAct" \notin ReturnPC
        /\ "loop" \in HandPC /\ "loop" \notin ReturnPC /\ "pop" \notin HandPC
        /\ "pop" \notin ReturnPC
    BY <2>2 DEF HandPC, ReturnPC
  <2>4. ASSUME T(w) = 1, pc' = [pc EXCEPT ![w] = "loop"]
        PROVE  PlacesApart'
    <3>1. pc'[w] = "loop" /\ cl'[w] = None /\ child'[w] = None
      BY <1>a, <2>2, <2>3, <2>4 DEF Types
    <3>2. \A u \in Worker \ {w} : /\ pc'[u] = pc[u] /\ cl'[u] = cl[u]
                                  /\ child'[u] = child[u]
      BY <1>a, <2>2, <2>3, <2>4 DEF Types
    <3>3. KeptApart
      BY <1>s, <2>2, <2>3, <2>4 DEF KeptApart
    <3>4. \A c0 \in Proc : Carries(w, c0)' => Carries(w, c0) \/ Uncarried(w, c0)
      BY <1>b, <3>1, <2>2, <2>3, <2>4 DEF Carries
    <3>q. QED
      BY <1>h, <2>2, <3>1, <3>2, <3>3, <3>4
  <2>5. ASSUME T(w) # 1, pc' = [pc EXCEPT ![w] = "pop"]
        PROVE  PlacesApart'
    <3>1. pc'[w] = "pop" /\ cl'[w] = None /\ child'[w] = None
      BY <1>a, <2>2, <2>3, <2>5 DEF Types
    <3>2. \A u \in Worker \ {w} : /\ pc'[u] = pc[u] /\ cl'[u] = cl[u]
                                  /\ child'[u] = child[u]
      BY <1>a, <2>2, <2>3, <2>5 DEF Types
    <3>3. KeptApart
      BY <1>s, <2>2, <2>3, <2>5 DEF KeptApart
    <3>4. \A c0 \in Proc : Carries(w, c0)' => Carries(w, c0) \/ Uncarried(w, c0)
      BY <1>b, <3>1, <2>2, <2>3, <2>5 DEF Carries
    <3>q. QED
      BY <1>h, <2>2, <3>1, <3>2, <3>3, <3>4
  <2>q. QED
    BY <2>1, <2>2, <2>4, <2>5 DEF HandlerStolenDoes
<1>37. ASSUME NEW w \in Worker, HandlerAbort(w) PROVE PlacesApart'
  <2>1. PICK c \in Proc, f \in Proc :
          HandlerAbortDoes(w, c, f)
    BY <1>37, HandlerAbortEffect
  <2>2. /\ pc[w] = "handlerAct" /\ c = cl[w] /\ c = Bottom(w)
        /\ c = deque[w][Size(deque[w])] /\ deque[w] # <<>>
        /\ T(w) \in Nat \ {0} /\ H[w] \in Nat /\ H[w] < T(w)
        /\ status[c] = "RUNNING" /\ stack[w][H[w] + 1] = c
        /\ cl' = [cl EXCEPT ![w] = None]
    BY <2>1 DEF HandlerAbortDoes
  <2>3. /\ "handlerAct" \notin HandPC /\ "handlerAct" \notin ReturnPC
        /\ "loop" \in HandPC /\ "loop" \notin ReturnPC /\ "pop" \notin HandPC
        /\ "pop" \notin ReturnPC
    BY <2>2 DEF HandPC, ReturnPC
  <2>4. ASSUME T(w) = 1, H[w] = 0, pc' = [pc EXCEPT ![w] = "loop"],
               child' = [child EXCEPT ![w] = None],
               Shortened(deque, deque', w)
        PROVE  PlacesApart'
    <3>1. pc'[w] = "loop" /\ cl'[w] = None /\ child'[w] = None
      BY <1>a, <2>2, <2>3, <2>4 DEF Types
    <3>2. \A u \in Worker \ {w} : /\ pc'[u] = pc[u] /\ cl'[u] = cl[u]
                                  /\ child'[u] = child[u]
      BY <1>a, <2>2, <2>3, <2>4 DEF Types
    <3>3. KeptApart
      <4>1. DequesApart(deque') /\ \A b : NotIn(deque, b) => NotIn(deque', b)
        BY <1>a, <1>s, <2>4, ShortenedApart DEF Types
      <4>q. QED
        BY <4>1 DEF KeptApart
    <3>4. \A c0 \in Proc : Carries(w, c0)' => Carries(w, c0) \/ Uncarried(w, c0)
      BY <1>b, <3>1, <2>2, <2>3, <2>4 DEF Carries
    <3>q. QED
      BY <1>h, <2>2, <3>1, <3>2, <3>3, <3>4
  <2>5. ASSUME T(w) = 1, H[w] = 0, c # Root, pc' = [pc EXCEPT ![w] = "loop"],
               child' = [child EXCEPT ![w] = None],
               UNCHANGED <<deque>>
        PROVE  PlacesApart'
    <3>1. pc'[w] = "loop" /\ cl'[w] = None /\ child'[w] = None
      BY <1>a, <2>2, <2>3, <2>5 DEF Types
    <3>2. \A u \in Worker \ {w} : /\ pc'[u] = pc[u] /\ cl'[u] = cl[u]
                                  /\ child'[u] = child[u]
      BY <1>a, <2>2, <2>3, <2>5 DEF Types
    <3>3. KeptApart
      BY <1>s, <2>2, <2>3, <2>5 DEF KeptApart
    <3>4. \A c0 \in Proc : Carries(w, c0)' => Carries(w, c0) \/ Uncarried(w, c0)
      BY <1>b, <3>1, <2>2, <2>3, <2>5 DEF Carries
    <3>q. QED
      BY <1>h, <2>2, <3>1, <3>2, <3>3, <3>4
  <2>6. ASSUME T(w) # 1, H[w] + 1 = T(w), c # Root,
               pc' = [pc EXCEPT ![w] = "pop"],
               child' = [child EXCEPT ![w] = c],
               UNCHANGED <<deque>>
        PROVE  PlacesApart'
    <3>1. pc'[w] = "pop" /\ cl'[w] = None /\ child'[w] = c
      BY <1>a, <2>2, <2>3, <2>6 DEF Types
    <3>2. \A u \in Worker \ {w} : /\ pc'[u] = pc[u] /\ cl'[u] = cl[u]
                                  /\ child'[u] = child[u]
      BY <1>a, <2>2, <2>3, <2>6 DEF Types
    <3>3. KeptApart
      BY <1>s, <2>2, <2>3, <2>6 DEF KeptApart
    <3>4. \A c0 \in Proc : Carries(w, c0)' => Carries(w, c0) \/ Uncarried(w, c0)
      BY <1>b, <3>1, <2>2, <2>3, <2>6 DEF Carries
    <3>q. QED
      BY <1>h, <2>2, <3>1, <3>2, <3>3, <3>4
  <2>7. ASSUME H[w] + 1 < T(w), f = stack[w][T(w)], f # Root,
               status[f] = "none", pc' = [pc EXCEPT ![w] = "pop"],
               child' = [child EXCEPT ![w] = f],
               UNCHANGED <<deque>>
        PROVE  PlacesApart'
    <3>1. pc'[w] = "pop" /\ cl'[w] = None /\ child'[w] = f
      BY <1>a, <2>2, <2>3, <2>7 DEF Types
    <3>2. \A u \in Worker \ {w} : /\ pc'[u] = pc[u] /\ cl'[u] = cl[u]
                                  /\ child'[u] = child[u]
      BY <1>a, <2>2, <2>3, <2>7 DEF Types
    <3>3. KeptApart
      BY <1>s, <2>2, <2>3, <2>7 DEF KeptApart
    <3>4. \A c0 \in Proc : Carries(w, c0)' => Carries(w, c0) \/ Uncarried(w, c0)
      BY <1>b, <3>1, <2>2, <2>3, <2>7 DEF Carries
    <3>q. QED
      BY <1>h, <2>2, <3>1, <3>2, <3>3, <3>4
  <2>q. QED
    BY <2>1, <2>2, <2>4, <2>5, <2>6, <2>7 DEF HandlerAbortDoes, AbortWaits,
       AbortReturns, AbortPops
<1>38. ASSUME NEW w \in Worker, HandlerResume(w) PROVE PlacesApart'
  <2>2. /\ pc[w] = "handlerAct" /\ ~(H[w] >= T(w))
        /\ pc' = [pc EXCEPT ![w] = "run"] /\ cl' = [cl EXCEPT ![w] = None]
        /\ child' = [child EXCEPT ![w] = None]
        /\ UNCHANGED <<deque>>
    BY <1>38 DEF HandlerResume, program, tree, Goto, UnlockBoth, Outcome,
       BeingAborted, Stolen, Hand, UnlockClosure, UnlockDeque
  <2>3. /\ "handlerAct" \notin HandPC /\ "handlerAct" \notin ReturnPC
        /\ "run" \notin HandPC /\ "run" \notin ReturnPC
    BY <2>2 DEF HandPC, ReturnPC
  <2>4. pc'[w] = "run" /\ cl'[w] = None /\ child'[w] = None
    BY <1>a, <2>2, <2>3 DEF Types
  <2>5. \A u \in Worker \ {w} : /\ pc'[u] = pc[u] /\ cl'[u] = cl[u]
                                /\ child'[u] = child[u]
    BY <1>a, <2>2, <2>3 DEF Types
  <2>6. KeptApart
    BY <1>s, <2>2, <2>3 DEF KeptApart
  <2>7. \A c0 \in Proc : Carries(w, c0)' => Carries(w, c0) \/ Uncarried(w, c0)
    BY <1>b, <2>4, <2>2, <2>3 DEF Carries
  <2>q. QED
    BY <1>h, <2>2, <2>4, <2>5, <2>6, <2>7
<1>39. CASE UNCHANGED vars
  BY <1>f, <1>39 DEF vars
<1>q. QED
  BY <1>1, <1>2, <1>3, <1>4, <1>5, <1>6, <1>7, <1>8, <1>9, <1>10, <1>11, <1>12,
     <1>13, <1>14, <1>15, <1>16, <1>17, <1>18, <1>19, <1>20, <1>21, <1>22,
     <1>23, <1>24, <1>25, <1>26, <1>27, <1>28, <1>29, <1>30, <1>31, <1>32,
     <1>33, <1>34, <1>35, <1>36, <1>37, <1>38, <1>39 DEF Next, Step, Terminated

(* Each status that brings a closure into play comes with a place, and a   *)
(* closure that leaves its place goes to another, or out of play.          *)
LEMMA PlacedStep ==
    ASSUME IInv, [Next]_vars
    PROVE  Placed'
<1>a. Types /\ Types'
  BY TypesStep DEF IInv
<1>b. created \in Nat \ {0} /\ created' \in Nat /\ None \notin Proc /\ Root \in Proc
  BY <1>a, BoundAssumption DEF Types, Proc, None, Root
<1>s. \A d \in Proc : InPlay(d) => Found(d)
  BY DEF IInv, Placed, InPlay, Found, InDeque, InHand, InReturn, NotIn, Carries
<1>h. ASSUME NEW w \in Worker,
             \A u \in Worker \ {w} : /\ pc'[u] = pc[u] /\ cl'[u] = cl[u]
                                     /\ child'[u] = child[u],
             \A d \in Proc : InPlay(d)' => InPlay(d) \/ Found(d)',
             \A d \in Proc : ~NotIn(deque, d) =>
                ~NotIn(deque', d) \/ Carries(w, d)' \/ ~InPlay(d)',
             \A d \in Proc : Carries(w, d) =>
                ~NotIn(deque', d) \/ Carries(w, d)' \/ ~InPlay(d)'
      PROVE  Placed'
  <2>1. \A u \in Worker \ {w}, d \in Proc : Carries(u, d)' <=> Carries(u, d)
    BY <1>h DEF Carries
  <2>2. ASSUME NEW d \in Proc, InPlay(d)', InPlay(d) PROVE Found(d)'
    <3>1. CASE ~NotIn(deque, d)
      BY <1>h, <2>2, <3>1 DEF Found
    <3>2. CASE \E u \in Worker : Carries(u, d)
      <4>1. PICK u \in Worker : Carries(u, d)
        BY <3>2
      <4>2. CASE u = w
        BY <1>h, <2>2, <4>1, <4>2 DEF Found
      <4>3. CASE u # w
        BY <2>1, <4>1, <4>3 DEF Found
      <4>q. QED
        BY <4>2, <4>3
    <3>q. QED
      BY <1>s, <2>2, <3>1, <3>2 DEF Found
  <2>3. \A d \in Proc : InPlay(d)' => Found(d)'
    BY <1>h, <2>2
  <2>q. QED
    BY <2>3 DEF Placed, InPlay, Found, InDeque, InHand, InReturn, NotIn,
       Carries
<1>m. ASSUME NEW w \in Worker, NEW l, pc' = [pc EXCEPT ![w] = l],
             l \in HandPC <=> pc[w] \in HandPC,
             l \in ReturnPC <=> pc[w] \in ReturnPC,
             UNCHANGED <<cl, child, deque, status>>
      PROVE  Placed'
  <2>1. \A u \in Worker : /\ pc'[u] \in HandPC <=> pc[u] \in HandPC
                          /\ pc'[u] \in ReturnPC <=> pc[u] \in ReturnPC
    BY <1>a, <1>m DEF Types
  <2>q. QED
    BY <1>m, <2>1 DEF IInv, Placed, InDeque, InHand, InReturn
<1>p. ASSUME NEW c \in Proc, NEW s, status' = [status EXCEPT ![c] = s],
             InPlay(c) \/ s \notin {"READY", "RUNNING", "RETURNING"}
      PROVE  \A d \in Proc : InPlay(d)' => InPlay(d) \/ Found(d)'
  BY <1>a, <1>p DEF Types, InPlay
<1>f. ASSUME UNCHANGED <<pc, cl, child, deque, status>>
      PROVE  Placed'
BY <1>f DEF IInv, Placed, InDeque, InHand, InReturn
<1>g. ASSUME NEW w \in Worker, NEW l, pc' = [pc EXCEPT ![w] = l],
             l \in HandPC <=> pc[w] \in HandPC,
             l \in ReturnPC <=> pc[w] \in ReturnPC,
             UNCHANGED <<cl, child, deque, status>>
      PROVE  Placed'
BY <1>g, <1>m
<1>1. ASSUME NEW w \in Worker, LeaveScheduler(w) PROVE Placed'
  <2>2. /\ pc[w] \in {"loop", "steal"} /\ pc' = [pc EXCEPT ![w] = "exit"]
        /\ UNCHANGED <<cl, child, deque, status>>
    BY <1>1 DEF LeaveScheduler, program, results, state, tree, locks, caches,
       Goto
  <2>3. /\ "loop" \in HandPC /\ "loop" \notin ReturnPC /\ "steal" \notin HandPC
        /\ "steal" \notin ReturnPC /\ "exit" \in HandPC
        /\ "exit" \notin ReturnPC /\ pc[w] \notin ReturnPC
    BY <2>2 DEF HandPC, ReturnPC
  <2>4. pc'[w] = "exit" /\ cl'[w] = cl[w] /\ child'[w] = child[w]
    BY <1>a, <2>2, <2>3 DEF Types
  <2>5. \A u \in Worker \ {w} : /\ pc'[u] = pc[u] /\ cl'[u] = cl[u]
                                /\ child'[u] = child[u]
    BY <1>a, <2>2, <2>3 DEF Types
  <2>6. \A d \in Proc : InPlay(d)' => InPlay(d) \/ Found(d)'
    BY <1>a, <2>2, <2>3 DEF InPlay
  <2>7. \A d \in Proc : ~NotIn(deque, d) => ~NotIn(deque', d) \/ Carries(w, d)' \/ ~InPlay(d)'
    BY <1>b, <2>2, <2>3
  <2>8. \A d \in Proc : Carries(w, d) => ~NotIn(deque', d) \/ Carries(w, d)' \/ ~InPlay(d)'
    BY <1>b, <2>4, <2>2, <2>3 DEF Carries
  <2>q. QED
    BY <1>h, <2>2, <2>4, <2>5, <2>6, <2>7, <2>8
<1>2. ASSUME NEW w \in Worker, TakeOwn(w) PROVE Placed'
  <2>1. TakeOwnDoes(w)
    BY <1>2, TakeOwnEffect
  <2>2. /\ pc[w] = "loop" /\ cl[w] = None
        /\ UNCHANGED <<child, status>>
    BY <2>1 DEF TakeOwnDoes
  <2>3. /\ "loop" \in HandPC /\ "loop" \notin ReturnPC /\ "steal" \notin HandPC
        /\ "steal" \notin ReturnPC
    BY <2>2 DEF HandPC, ReturnPC
  <2>4. ASSUME deque[w] = <<>>, pc' = [pc EXCEPT ![w] = "steal"],
               UNCHANGED <<cl, deque>>
        PROVE  Placed'
    <3>1. pc'[w] = "steal" /\ cl'[w] = cl[w] /\ child'[w] = child[w]
      BY <1>a, <2>2, <2>3, <2>4 DEF Types
    <3>2. \A u \in Worker \ {w} : /\ pc'[u] = pc[u] /\ cl'[u] = cl[u]
                                  /\ child'[u] = child[u]
      BY <1>a, <2>2, <2>3, <2>4 DEF Types
    <3>3. \A d \in Proc : InPlay(d)' => InPlay(d) \/ Found(d)'
      BY <1>a, <2>2, <2>3, <2>4 DEF InPlay
    <3>4. \A d \in Proc : ~NotIn(deque, d) => ~NotIn(deque', d) \/ Carries(w, d)' \/ ~InPlay(d)'
      BY <1>b, <2>2, <2>3, <2>4
    <3>5. \A d \in Proc : Carries(w, d) => ~NotIn(deque', d) \/ Carries(w, d)' \/ ~InPlay(d)'
      BY <1>b, <3>1, <2>2, <2>3, <2>4 DEF Carries
    <3>q. QED
      BY <1>h, <2>2, <3>1, <3>2, <3>3, <3>4, <3>5
  <2>5. ASSUME NEW c \in Proc, deque[w] # <<>>, c = Bottom(w),
               c = deque[w][Size(deque[w])], cl' = [cl EXCEPT ![w] = c],
               Shortened(deque, deque', w),
               UNCHANGED <<pc>>
        PROVE  Placed'
    <3>1. pc'[w] = pc[w] /\ cl'[w] = c /\ child'[w] = child[w]
      BY <1>a, <2>2, <2>3, <2>5 DEF Types
    <3>2. \A u \in Worker \ {w} : /\ pc'[u] = pc[u] /\ cl'[u] = cl[u]
                                  /\ child'[u] = child[u]
      BY <1>a, <2>2, <2>3, <2>5 DEF Types
    <3>3. \A d \in Proc : InPlay(d)' => InPlay(d) \/ Found(d)'
      BY <1>a, <2>2, <2>3, <2>5 DEF InPlay
    <3>4. \A d \in Proc : ~NotIn(deque, d) => ~NotIn(deque', d) \/ Carries(w, d)' \/ ~InPlay(d)'
      <4>1. Carries(w, c)'
        BY <2>2, <2>3, <2>5, <3>1 DEF Carries
      <4>2. \A d \in Proc : d # deque[w][Size(deque[w])] /\ ~NotIn(deque, d)
              => ~NotIn(deque', d)
        BY <1>a, <2>5, ShortenedKeeps DEF Types
      <4>q. QED
        BY <4>1, <4>2, <2>5
    <3>5. \A d \in Proc : Carries(w, d) => ~NotIn(deque', d) \/ Carries(w, d)' \/ ~InPlay(d)'
      BY <1>b, <3>1, <2>2, <2>3, <2>5 DEF Carries
    <3>q. QED
      BY <1>h, <2>2, <3>1, <3>2, <3>3, <3>4, <3>5
  <2>q. QED
    BY <2>1, <2>2, <2>4, <2>5 DEF TakeOwnDoes
<1>3. ASSUME NEW w \in Worker, StealLockDeque(w) PROVE Placed'
  <2>2. /\ pc[w] = "steal" /\ pc' = [pc EXCEPT ![w] = "stealDeque"]
        /\ UNCHANGED <<child, deque, status>>
    BY <1>3 DEF StealLockDeque, program, results, state, tree, caches, Goto,
       LockDeque, Peek, Hand
  <2>3. /\ "steal" \notin HandPC /\ "steal" \notin ReturnPC
        /\ "stealDeque" \notin HandPC /\ "stealDeque" \notin ReturnPC
    BY <2>2 DEF HandPC, ReturnPC
  <2>4. ASSUME NEW v \in Worker \ {w},
               cl' = [cl EXCEPT ![w] = IF deque[v] = <<>> THEN None ELSE Head(deque[v])]
        PROVE  Placed'
    <3>1. pc'[w] = "stealDeque" /\ cl'[w] = (IF deque[v] = <<>> THEN None ELSE Head(deque[v])) /\ child'[w] = child[w]
      BY <1>a, <2>2, <2>3, <2>4 DEF Types
    <3>2. \A u \in Worker \ {w} : /\ pc'[u] = pc[u] /\ cl'[u] = cl[u]
                                  /\ child'[u] = child[u]
      BY <1>a, <2>2, <2>3, <2>4 DEF Types
    <3>3. \A d \in Proc : InPlay(d)' => InPlay(d) \/ Found(d)'
      BY <1>a, <2>2, <2>3, <2>4 DEF InPlay
    <3>4. \A d \in Proc : ~NotIn(deque, d) => ~NotIn(deque', d) \/ Carries(w, d)' \/ ~InPlay(d)'
      BY <1>b, <2>2, <2>3, <2>4
    <3>5. \A d \in Proc : Carries(w, d) => ~NotIn(deque', d) \/ Carries(w, d)' \/ ~InPlay(d)'
      BY <1>b, <3>1, <2>2, <2>3, <2>4 DEF Carries
    <3>q. QED
      BY <1>h, <2>2, <3>1, <3>2, <3>3, <3>4, <3>5
  <2>q. QED
    BY <1>3, <2>2, <2>4 DEF StealLockDeque, program, results, state, tree,
       caches, Goto, LockDeque, Peek, Hand
<1>4. ASSUME NEW w \in Worker, StealLockClosure(w) PROVE Placed'
  BY <1>g, <1>4 DEF StealLockClosure, program, results, state, tree, caches,
     Goto, LockClosure, HandPC, ReturnPC
<1>5. ASSUME NEW w \in Worker, StealGiveUp(w) PROVE Placed'
  <2>2. /\ pc[w] = "stealClosure" /\ pc' = [pc EXCEPT ![w] = "stealGiveUp"]
        /\ cl' = [cl EXCEPT ![w] = None]
        /\ UNCHANGED <<child, deque, status>>
    BY <1>5 DEF StealGiveUp, program, results, state, tree, caches, Goto, Hand,
       UnlockClosure, BeingAborted
  <2>3. /\ "stealClosure" \notin HandPC /\ "stealClosure" \notin ReturnPC
        /\ "stealGiveUp" \notin HandPC /\ "stealGiveUp" \notin ReturnPC
    BY <2>2 DEF HandPC, ReturnPC
  <2>4. pc'[w] = "stealGiveUp" /\ cl'[w] = None /\ child'[w] = child[w]
    BY <1>a, <2>2, <2>3 DEF Types
  <2>5. \A u \in Worker \ {w} : /\ pc'[u] = pc[u] /\ cl'[u] = cl[u]
                                /\ child'[u] = child[u]
    BY <1>a, <2>2, <2>3 DEF Types
  <2>6. \A d \in Proc : InPlay(d)' => InPlay(d) \/ Found(d)'
    BY <1>a, <2>2, <2>3 DEF InPlay
  <2>7. \A d \in Proc : ~NotIn(deque, d) => ~NotIn(deque', d) \/ Carries(w, d)' \/ ~InPlay(d)'
    BY <1>b, <2>2, <2>3
  <2>8. \A d \in Proc : Carries(w, d) => ~NotIn(deque', d) \/ Carries(w, d)' \/ ~InPlay(d)'
    BY <1>b, <2>4, <2>2, <2>3 DEF Carries
  <2>q. QED
    BY <1>h, <2>2, <2>4, <2>5, <2>6, <2>7, <2>8
<1>6. ASSUME NEW w \in Worker, StealUnlockDeque(w) PROVE Placed'
  BY <1>g, <1>6 DEF StealUnlockDeque, program, results, state, tree, caches,
     Goto, UnlockDeque, HandPC, ReturnPC
<1>7. ASSUME NEW w \in Worker, StealReady(w) PROVE Placed'
  <2>1. PICK v \in Worker \ {w}, c \in Proc :
          StealReadyDoes(w, v, c)
    BY <1>7, StealReadyEffect
  <2>2. /\ pc[w] = "stealClosure" /\ v = victim[w] /\ c = cl[w]
        /\ c = deque[v][1] /\ pc[v] \notin OwnDequePC /\ status[c] = "READY"
        /\ pc' = [pc EXCEPT ![w] = "loop"] /\ Topped(deque, deque', v)
        /\ UNCHANGED <<cl, child, status>>
    BY <2>1 DEF StealReadyDoes
  <2>3. /\ "stealClosure" \notin HandPC /\ "stealClosure" \notin ReturnPC
        /\ "loop" \in HandPC /\ "loop" \notin ReturnPC
    BY <2>2 DEF HandPC, ReturnPC
  <2>a. \A d \in Proc : d # c /\ ~NotIn(deque, d) => ~NotIn(deque', d)
    <3>1. Topped(deque, deque', v) /\ deque[v][1] = c
      BY <2>2
    <3>q. QED
      BY <1>a, <3>1, ToppedKeeps DEF Types
  <2>4. pc'[w] = "loop" /\ cl'[w] = cl[w] /\ child'[w] = child[w]
    BY <1>a, <2>2, <2>3, <2>a DEF Types
  <2>5. \A u \in Worker \ {w} : /\ pc'[u] = pc[u] /\ cl'[u] = cl[u]
                                /\ child'[u] = child[u]
    BY <1>a, <2>2, <2>3, <2>a DEF Types
  <2>6. \A d \in Proc : InPlay(d)' => InPlay(d) \/ Found(d)'
    BY <1>a, <2>2, <2>3, <2>a DEF InPlay
  <2>7. \A d \in Proc : ~NotIn(deque, d) => ~NotIn(deque', d) \/ Carries(w, d)' \/ ~InPlay(d)'
    <3>1. Carries(w, c)'
      BY <2>2, <2>3, <2>4 DEF Carries
    <3>q. QED
      BY <3>1, <2>a
  <2>8. \A d \in Proc : Carries(w, d) => ~NotIn(deque', d) \/ Carries(w, d)' \/ ~InPlay(d)'
    BY <1>b, <2>4, <2>2, <2>3, <2>a DEF Carries
  <2>q. QED
    BY <1>h, <2>2, <2>4, <2>5, <2>6, <2>7, <2>8
<1>8. ASSUME NEW w \in Worker, StealPromote(w) PROVE Placed'
  <2>1. PICK v \in Worker \ {w}, c \in Proc, k \in Proc :
          StealPromoteDoes(w, v, c, k)
    BY <1>8, StealPromoteEffect
  <2>2. /\ pc[w] = "stealClosure" /\ v = victim[w] /\ c = cl[w]
        /\ k = stack[v][H[v] + 2] /\ deque[v] = <<c>>
        /\ pc[v] \in WorkPC \ OwnDequePC /\ H[v] + 1 < T(v)
        /\ status[c] = "RUNNING" /\ stack[v][H[v] + 1] = c /\ k # c /\ k # Root
        /\ status[k] = "none" /\ parent[k] = c /\ Fresh(k)
        /\ pc' = [pc EXCEPT ![w] = "stealFinish"]
        /\ child' = [child EXCEPT ![w] = k]
        /\ deque' = [deque EXCEPT ![v] = <<k>>]
        /\ status' = [status EXCEPT ![k] = "RUNNING"]
        /\ UNCHANGED <<cl>>
    BY <2>1 DEF StealPromoteDoes
  <2>3. /\ "stealClosure" \notin HandPC /\ "stealClosure" \notin ReturnPC
        /\ "stealFinish" \in HandPC /\ "stealFinish" \notin ReturnPC
    BY <2>2 DEF HandPC, ReturnPC
  <2>a. /\ ~NotIn(deque', k)
        /\ \A d \in Proc : d # c /\ ~NotIn(deque, d) => ~NotIn(deque', d)
    <3>1. Replaced(deque, deque', v, c, k)
      BY <1>a, <2>2 DEF Types, Replaced
    <3>q. QED
      BY <1>a, <3>1, ReplacedKeeps DEF Types
  <2>4. pc'[w] = "stealFinish" /\ cl'[w] = cl[w] /\ child'[w] = k
    BY <1>a, <2>2, <2>3, <2>a DEF Types
  <2>5. \A u \in Worker \ {w} : /\ pc'[u] = pc[u] /\ cl'[u] = cl[u]
                                /\ child'[u] = child[u]
    BY <1>a, <2>2, <2>3, <2>a DEF Types
  <2>6. \A d \in Proc : InPlay(d)' => InPlay(d) \/ Found(d)'
    <3>1. \A d \in Proc \ {k} : status'[d] = status[d]
      BY <1>a, <2>2 DEF Types
    <3>q. QED
      BY <3>1, <2>a DEF InPlay, Found
  <2>7. \A d \in Proc : ~NotIn(deque, d) => ~NotIn(deque', d) \/ Carries(w, d)' \/ ~InPlay(d)'
    <3>1. Carries(w, c)'
      BY <2>2, <2>3, <2>4 DEF Carries
    <3>q. QED
      BY <3>1, <2>a
  <2>8. \A d \in Proc : Carries(w, d) => ~NotIn(deque', d) \/ Carries(w, d)' \/ ~InPlay(d)'
    BY <1>b, <2>4, <2>2, <2>3, <2>a DEF Carries
  <2>q. QED
    BY <1>h, <2>2, <2>4, <2>5, <2>6, <2>7, <2>8
<1>9. ASSUME NEW w \in Worker, StealFinish(w) PROVE Placed'
  <2>2. /\ pc[w] = "stealFinish" /\ pc' = [pc EXCEPT ![w] = "loop"]
        /\ child' = [child EXCEPT ![w] = None]
        /\ status' = [status EXCEPT ![cl[w]] = "READY"]
        /\ UNCHANGED <<cl, deque>>
    BY <1>9 DEF StealFinish, program, results, caches, Goto, UnlockClosure,
       SetStatus, AddChild
  <2>3. /\ "stealFinish" \in HandPC /\ "stealFinish" \notin ReturnPC
        /\ "loop" \in HandPC /\ "loop" \notin ReturnPC
    BY <2>2 DEF HandPC, ReturnPC
  <2>a. cl[w] # None /\ status[cl[w]] = "RUNNING"
    BY <2>2, <2>3 DEF IInv, InHandInv, ClosureLocks, LockPC
  <2>b. cl[w] \in Proc
    BY <1>a, <2>a DEF Types
  <2>4. pc'[w] = "loop" /\ cl'[w] = cl[w] /\ child'[w] = None
    BY <1>a, <2>2, <2>3, <2>a, <2>b DEF Types
  <2>5. \A u \in Worker \ {w} : /\ pc'[u] = pc[u] /\ cl'[u] = cl[u]
                                /\ child'[u] = child[u]
    BY <1>a, <2>2, <2>3, <2>a, <2>b DEF Types
  <2>6. \A d \in Proc : InPlay(d)' => InPlay(d) \/ Found(d)'
    BY <1>p, <2>2, <2>a, <2>b DEF InPlay
  <2>7. \A d \in Proc : ~NotIn(deque, d) => ~NotIn(deque', d) \/ Carries(w, d)' \/ ~InPlay(d)'
    BY <1>b, <2>2, <2>3, <2>a, <2>b
  <2>8. \A d \in Proc : Carries(w, d) => ~NotIn(deque', d) \/ Carries(w, d)' \/ ~InPlay(d)'
    BY <1>b, <2>4, <2>2, <2>3, <2>a, <2>b DEF Carries
  <2>q. QED
    BY <1>h, <2>2, <2>4, <2>5, <2>6, <2>7, <2>8
<1>10. ASSUME NEW w \in Worker, InletKilled(w) PROVE Placed'
  BY <1>f, <1>10 DEF InletKilled, program, state, locks, caches, Outcome,
     BeingAborted, Polls
<1>11. ASSUME NEW w \in Worker, InletRuns(w) PROVE Placed'
  BY <1>f, <1>11 DEF InletRuns, program, state, locks, caches, Outcome,
     BeingAborted, Polls
<1>12. ASSUME NEW w \in Worker, InletAborts(w) PROVE Placed'
  <2>1. PICK c \in Proc, r \in SUBSET Proc :
          InletAbortsDoes(w, c, r)
    BY <1>12, InletAbortsEffect
  <2>2. /\ c = cl[w] /\ pc[w] \in PollPC
        /\ pc[w] = "return" => status[c] # "RUNNING"
        /\ UNCHANGED <<pc, cl, child>>
    BY <2>1 DEF InletAbortsDoes
  <2>4. ASSUME NEW k \in Proc, pc[w] = "handlerPoll", c = Bottom(w),
               deque[w] # <<>>, status[c] = "RUNNING", H[w] = 0, 1 < T(w),
               stack[w][1] = c, k = stack[w][2], k # c, k # Root,
               status[k] = "none", parent[k] = c, Fresh(k),
               deque' = [deque EXCEPT ![w] = Append(@, k)],
               status' = [status EXCEPT ![k] = "RUNNING", ![c] = "READY"]
        PROVE  Placed'
    <3>1. ~NotIn(deque', k) /\ \A d \in Proc : ~NotIn(deque, d) => ~NotIn(deque', d)
      <4>1. Extended(deque, deque', w, k)
        BY <1>a, <2>4, ExtendedFacts DEF Types
      <4>q. QED
        BY <1>a, <4>1, ExtendedKeeps DEF Types
    <3>2. pc' = pc /\ cl' = cl /\ child' = child
      BY <2>2, <2>4
    <3>3. \A d \in Proc : InPlay(d)' => InPlay(d) \/ Found(d)'
      <4>1. \A d \in Proc \ {k, c} : status'[d] = status[d]
        BY <1>a, <2>4 DEF Types
      <4>2. InPlay(c)
        BY <2>4 DEF InPlay
      <4>q. QED
        BY <3>1, <4>1, <4>2 DEF InPlay, Found
    <3>4. \A d \in Proc : Carries(w, d) => Carries(w, d)'
      BY <3>2 DEF Carries
    <3>q. QED
      BY <1>h, <3>1, <3>2, <3>3, <3>4
  <2>5. ASSUME UNCHANGED <<deque, status>>
        PROVE  Placed'
    BY <1>f, <2>2, <2>5
  <2>q. QED
    BY <2>1, <2>2, <2>4, <2>5 DEF InletAbortsDoes, InletSplits
<1>13. ASSUME NEW w \in Worker, WalkDown(w) PROVE Placed'
  <2>1. PICK n \in Nat \ {0}, k \in Proc :
          WalkDownDoes(w, n, k)
    BY <1>13, WalkDownEffect
  <2>q. QED
    BY <1>f, <2>1 DEF WalkDownDoes
<1>14. ASSUME NEW w \in Worker, WalkUp(w) PROVE Placed'
  <2>1. PICK n \in Nat \ {0} :
          WalkUpDoes(w, n)
    BY <1>14, WalkUpEffect
  <2>q. QED
    BY <1>f, <2>1 DEF WalkUpDoes
<1>15. ASSUME NEW w \in Worker, AbortReadyClosure(w) PROVE Placed'
  <2>2. /\ pc[w] = "loop" /\ cl[w] # None /\ clock[cl[w]] = None
        /\ status[cl[w]] = "READY"
        /\ UNCHANGED <<pc, child, deque>>
    BY <1>15 DEF AbortReadyClosure, program, results, tree, locks, caches,
       Hand, SetStatus, Outcome, BeingAborted, HasChildren
  <2>3. /\ "loop" \in HandPC /\ "loop" \notin ReturnPC
    BY <2>2 DEF HandPC, ReturnPC
  <2>a. cl[w] \in Proc
    BY <1>a, <2>2 DEF Types
  <2>4. ASSUME join[cl[w]] # 0, cl' = [cl EXCEPT ![w] = None],
               status' = [status EXCEPT ![cl[w]] = "SUSPENDED"]
        PROVE  Placed'
    <3>1. pc'[w] = pc[w] /\ cl'[w] = None /\ child'[w] = child[w]
      BY <1>a, <2>2, <2>3, <2>a, <2>4 DEF Types
    <3>2. \A u \in Worker \ {w} : /\ pc'[u] = pc[u] /\ cl'[u] = cl[u]
                                  /\ child'[u] = child[u]
      BY <1>a, <2>2, <2>3, <2>a, <2>4 DEF Types
    <3>3. \A d \in Proc : InPlay(d)' => InPlay(d) \/ Found(d)'
      BY <1>p, <2>2, <2>a, <2>4 DEF InPlay
    <3>4. \A d \in Proc : ~NotIn(deque, d) => ~NotIn(deque', d) \/ Carries(w, d)' \/ ~InPlay(d)'
      BY <1>b, <2>2, <2>3, <2>a, <2>4
    <3>5. \A d \in Proc : Carries(w, d) => ~NotIn(deque', d) \/ Carries(w, d)' \/ ~InPlay(d)'
      <4>1. status'[cl[w]] = "SUSPENDED"
        BY <1>a, <2>2, <2>a, <2>4 DEF Types
      <4>q. QED
        BY <4>1, <2>3, <2>2 DEF Carries, InPlay
    <3>q. QED
      BY <1>h, <2>2, <3>1, <3>2, <3>3, <3>4, <3>5
  <2>5. ASSUME join[cl[w]] = 0,
               status' = [status EXCEPT ![cl[w]] = "RETURNING"],
               UNCHANGED <<cl>>
        PROVE  Placed'
    <3>1. pc'[w] = pc[w] /\ cl'[w] = cl[w] /\ child'[w] = child[w]
      BY <1>a, <2>2, <2>3, <2>a, <2>5 DEF Types
    <3>2. \A u \in Worker \ {w} : /\ pc'[u] = pc[u] /\ cl'[u] = cl[u]
                                  /\ child'[u] = child[u]
      BY <1>a, <2>2, <2>3, <2>a, <2>5 DEF Types
    <3>3. \A d \in Proc : InPlay(d)' => InPlay(d) \/ Found(d)'
      BY <1>p, <2>2, <2>a, <2>5 DEF InPlay
    <3>4. \A d \in Proc : ~NotIn(deque, d) => ~NotIn(deque', d) \/ Carries(w, d)' \/ ~InPlay(d)'
      BY <1>b, <2>2, <2>3, <2>a, <2>5
    <3>5. \A d \in Proc : Carries(w, d) => ~NotIn(deque', d) \/ Carries(w, d)' \/ ~InPlay(d)'
      BY <1>b, <3>1, <2>2, <2>3, <2>a, <2>5 DEF Carries
    <3>q. QED
      BY <1>h, <2>2, <3>1, <3>2, <3>3, <3>4, <3>5
  <2>q. QED
    BY <1>15, <2>2, <2>4, <2>5 DEF AbortReadyClosure, program, results, tree,
       locks, caches, Hand, SetStatus, Outcome, BeingAborted, HasChildren
<1>16. ASSUME NEW w \in Worker, Setup(w) PROVE Placed'
  <2>2. /\ pc[w] = "loop" /\ cl[w] # None /\ status[cl[w]] = "READY"
        /\ clock[cl[w]] = None /\ pc' = [pc EXCEPT ![w] = "setup"]
        /\ status' = [status EXCEPT ![cl[w]] = "RUNNING"]
        /\ UNCHANGED <<cl, child, deque>>
    BY <1>16 DEF Setup, program, results, tree, Goto, LockClosure, SetStatus,
       BeingAborted
  <2>3. /\ "loop" \in HandPC /\ "loop" \notin ReturnPC /\ "setup" \in HandPC
        /\ "setup" \notin ReturnPC
    BY <2>2 DEF HandPC, ReturnPC
  <2>a. cl[w] \in Proc
    BY <1>a, <2>2 DEF Types
  <2>4. pc'[w] = "setup" /\ cl'[w] = cl[w] /\ child'[w] = child[w]
    BY <1>a, <2>2, <2>3, <2>a DEF Types
  <2>5. \A u \in Worker \ {w} : /\ pc'[u] = pc[u] /\ cl'[u] = cl[u]
                                /\ child'[u] = child[u]
    BY <1>a, <2>2, <2>3, <2>a DEF Types
  <2>6. \A d \in Proc : InPlay(d)' => InPlay(d) \/ Found(d)'
    BY <1>p, <2>2, <2>a DEF InPlay
  <2>7. \A d \in Proc : ~NotIn(deque, d) => ~NotIn(deque', d) \/ Carries(w, d)' \/ ~InPlay(d)'
    BY <1>b, <2>2, <2>3, <2>a
  <2>8. \A d \in Proc : Carries(w, d) => ~NotIn(deque', d) \/ Carries(w, d)' \/ ~InPlay(d)'
    BY <1>b, <2>4, <2>2, <2>3, <2>a DEF Carries
  <2>q. QED
    BY <1>h, <2>2, <2>4, <2>5, <2>6, <2>7, <2>8
<1>17. ASSUME NEW w \in Worker, SetupDone(w) PROVE Placed'
  BY <1>g, <1>17 DEF SetupDone, program, results, tree, caches, Goto,
     UnlockClosure, Polled, Polls, HandPC, ReturnPC
<1>18. ASSUME NEW w \in Worker, Execute(w) PROVE Placed'
  <2>1. PICK c \in Proc :
          ExecuteDoes(w, c)
    BY <1>18, ExecuteEffect
  <2>2. /\ pc[w] = "add" /\ c = cl[w] /\ status[c] = "RUNNING" /\ T(w) = 1
        /\ H[w] = 0 /\ stack[w][1] = c /\ pc' = [pc EXCEPT ![w] = "run"]
        /\ cl' = [cl EXCEPT ![w] = None] /\ Extended(deque, deque', w, c)
        /\ UNCHANGED <<child, status>>
    BY <2>1 DEF ExecuteDoes
  <2>3. /\ "add" \in HandPC /\ "add" \notin ReturnPC /\ "run" \notin HandPC
        /\ "run" \notin ReturnPC
    BY <2>2 DEF HandPC, ReturnPC
  <2>a. ~NotIn(deque', c) /\ \A d \in Proc : ~NotIn(deque, d) => ~NotIn(deque', d)
    <3>1. Extended(deque, deque', w, c)
      BY <2>2
    <3>q. QED
      BY <1>a, <3>1, ExtendedKeeps DEF Types
  <2>4. pc'[w] = "run" /\ cl'[w] = None /\ child'[w] = child[w]
    BY <1>a, <2>2, <2>3, <2>a DEF Types
  <2>5. \A u \in Worker \ {w} : /\ pc'[u] = pc[u] /\ cl'[u] = cl[u]
                                /\ child'[u] = child[u]
    BY <1>a, <2>2, <2>3, <2>a DEF Types
  <2>6. \A d \in Proc : InPlay(d)' => InPlay(d) \/ Found(d)'
    BY <1>a, <2>2, <2>3, <2>a DEF InPlay
  <2>7. \A d \in Proc : ~NotIn(deque, d) => ~NotIn(deque', d) \/ Carries(w, d)' \/ ~InPlay(d)'
    BY <1>b, <2>2, <2>3, <2>a
  <2>8. \A d \in Proc : Carries(w, d) => ~NotIn(deque', d) \/ Carries(w, d)' \/ ~InPlay(d)'
    BY <1>b, <2>4, <2>2, <2>3, <2>a DEF Carries
  <2>q. QED
    BY <1>h, <2>2, <2>4, <2>5, <2>6, <2>7, <2>8
<1>19. ASSUME NEW w \in Worker, ReturnLockParent(w) PROVE Placed'
  <2>1. PICK k \in Proc, p \in Proc :
          ReturnLockParentDoes(w, k, p)
    BY <1>19, ReturnLockParentEffect
  <2>2. /\ pc[w] = "loop" /\ k = cl[w] /\ p = parent[k] /\ p # k /\ k # Root
        /\ clock[k] = None /\ status[k] = "RETURNING" /\ clock[p] = None
        /\ status[p] # "none" /\ pc' = [pc EXCEPT ![w] = "returnChild"]
        /\ cl' = [cl EXCEPT ![w] = p] /\ child' = [child EXCEPT ![w] = k]
        /\ UNCHANGED <<deque, status>>
    BY <2>1 DEF ReturnLockParentDoes
  <2>3. /\ "loop" \in HandPC /\ "loop" \notin ReturnPC
        /\ "returnChild" \notin HandPC /\ "returnChild" \in ReturnPC
    BY <2>2 DEF HandPC, ReturnPC
  <2>4. pc'[w] = "returnChild" /\ cl'[w] = p /\ child'[w] = k
    BY <1>a, <2>2, <2>3 DEF Types
  <2>5. \A u \in Worker \ {w} : /\ pc'[u] = pc[u] /\ cl'[u] = cl[u]
                                /\ child'[u] = child[u]
    BY <1>a, <2>2, <2>3 DEF Types
  <2>6. \A d \in Proc : InPlay(d)' => InPlay(d) \/ Found(d)'
    BY <1>a, <2>2, <2>3 DEF InPlay
  <2>7. \A d \in Proc : ~NotIn(deque, d) => ~NotIn(deque', d) \/ Carries(w, d)' \/ ~InPlay(d)'
    BY <1>b, <2>2, <2>3
  <2>8. \A d \in Proc : Carries(w, d) => ~NotIn(deque', d) \/ Carries(w, d)' \/ ~InPlay(d)'
    BY <1>b, <2>4, <2>2, <2>3 DEF Carries
  <2>q. QED
    BY <1>h, <2>2, <2>4, <2>5, <2>6, <2>7, <2>8
<1>20. ASSUME NEW w \in Worker, ReturnEnqueue(w) PROVE Placed'
  <2>1. PICK k \in Proc, p \in Proc :
          ReturnEnqueueDoes(w, k, p)
    BY <1>20, ReturnEnqueueEffect
  <2>q. QED
    BY <1>g, <2>1 DEF ReturnEnqueueDoes, HandPC, ReturnPC
<1>21. ASSUME NEW w \in Worker, ReturnDone(w) PROVE Placed'
  <2>1. PICK k \in Proc, p \in Proc :
          ReturnDoneDoes(w, k, p)
    BY <1>21, ReturnDoneEffect
  <2>2. /\ pc[w] = "return" /\ k = child[w] /\ p = cl[w] /\ p # k
        /\ p = parent[k] /\ k # Root /\ status[k] = "RETURNING"
        /\ status[p] # "none" /\ pc' = [pc EXCEPT ![w] = "loop"]
        /\ child' = [child EXCEPT ![w] = None]
        /\ UNCHANGED <<deque>>
    BY <2>1 DEF ReturnDoneDoes
  <2>3. /\ "return" \notin HandPC /\ "return" \in ReturnPC /\ "loop" \in HandPC
        /\ "loop" \notin ReturnPC
    BY <2>2 DEF HandPC, ReturnPC
  <2>4. ASSUME join[p] = 1, status[p] = "SUSPENDED",
               status' = [status EXCEPT ![k] = "freed", ![p] = "READY"],
               UNCHANGED <<cl>>
        PROVE  Placed'
    <3>1. pc'[w] = "loop" /\ cl'[w] = cl[w] /\ child'[w] = None
      BY <1>a, <2>2, <2>3, <2>4 DEF Types
    <3>2. \A u \in Worker \ {w} : /\ pc'[u] = pc[u] /\ cl'[u] = cl[u]
                                  /\ child'[u] = child[u]
      BY <1>a, <2>2, <2>3, <2>4 DEF Types
    <3>3. \A d \in Proc : InPlay(d)' => InPlay(d) \/ Found(d)'
      <4>1. Carries(w, p)'
        BY <2>2, <2>3, <2>4, <3>1 DEF Carries
      <4>2. /\ \A d \in Proc \ {p, k} : status'[d] = status[d]
           /\ status'[k] = "freed"
        BY <1>a, <2>2, <2>4 DEF Types
      <4>q. QED
        BY <4>1, <4>2 DEF InPlay, Found
    <3>4. \A d \in Proc : ~NotIn(deque, d) => ~NotIn(deque', d) \/ Carries(w, d)' \/ ~InPlay(d)'
      BY <1>b, <2>2, <2>3, <2>4
    <3>5. \A d \in Proc : Carries(w, d) => ~NotIn(deque', d) \/ Carries(w, d)' \/ ~InPlay(d)'
      <4>1. status'[k] = "freed"
        BY <1>a, <2>2, <2>4 DEF Types
      <4>q. QED
        BY <4>1, <2>2, <2>3 DEF Carries, InPlay
    <3>q. QED
      BY <1>h, <2>2, <3>1, <3>2, <3>3, <3>4, <3>5
  <2>5. ASSUME join[p] # 1 \/ status[p] # "SUSPENDED",
               cl' = [cl EXCEPT ![w] = None],
               status' = [status EXCEPT ![k] = "freed"]
        PROVE  Placed'
    <3>1. pc'[w] = "loop" /\ cl'[w] = None /\ child'[w] = None
      BY <1>a, <2>2, <2>3, <2>5 DEF Types
    <3>2. \A u \in Worker \ {w} : /\ pc'[u] = pc[u] /\ cl'[u] = cl[u]
                                  /\ child'[u] = child[u]
      BY <1>a, <2>2, <2>3, <2>5 DEF Types
    <3>3. \A d \in Proc : InPlay(d)' => InPlay(d) \/ Found(d)'
      BY <1>p, <2>2, <2>5 DEF InPlay
    <3>4. \A d \in Proc : ~NotIn(deque, d) => ~NotIn(deque', d) \/ Carries(w, d)' \/ ~InPlay(d)'
      BY <1>b, <2>2, <2>3, <2>5
    <3>5. \A d \in Proc : Carries(w, d) => ~NotIn(deque', d) \/ Carries(w, d)' \/ ~InPlay(d)'
      <4>1. status'[k] = "freed"
        BY <1>a, <2>2, <2>5 DEF Types
      <4>q. QED
        BY <4>1, <2>2, <2>3 DEF Carries, InPlay
    <3>q. QED
      BY <1>h, <2>2, <3>1, <3>2, <3>3, <3>4, <3>5
  <2>q. QED
    BY <2>1, <2>2, <2>4, <2>5 DEF ReturnDoneDoes
<1>22. ASSUME NEW w \in Worker, Spawn(w) PROVE Placed'
  <2>1. PICK c \in Proc, f \in Proc :
          SpawnDoes(w, c, f)
    BY <1>22, SpawnEffect
  <2>q. QED
    BY <1>g, <2>1 DEF SpawnDoes, HandPC, ReturnPC
<1>23. ASSUME NEW w \in Worker, ReturnFast(w) PROVE Placed'
  <2>1. PICK f \in Proc :
          ReturnFastDoes(w, f)
    BY <1>23, ReturnFastEffect
  <2>2. /\ pc[w] = "run" /\ f = stack[w][T(w)] /\ T(w) > 1 /\ T(w) \in Nat
        /\ status[f] = "none" \/ H[w] + 1 = T(w)
        /\ f # Root /\ pc' = [pc EXCEPT ![w] = "pop"]
        /\ child' = [child EXCEPT ![w] = f]
        /\ UNCHANGED <<cl, deque, status>>
    BY <2>1 DEF ReturnFastDoes
  <2>3. /\ "run" \notin HandPC /\ "run" \notin ReturnPC /\ "pop" \notin HandPC
        /\ "pop" \notin ReturnPC
    BY <2>2 DEF HandPC, ReturnPC
  <2>4. pc'[w] = "pop" /\ cl'[w] = cl[w] /\ child'[w] = f
    BY <1>a, <2>2, <2>3 DEF Types
  <2>5. \A u \in Worker \ {w} : /\ pc'[u] = pc[u] /\ cl'[u] = cl[u]
                                /\ child'[u] = child[u]
    BY <1>a, <2>2, <2>3 DEF Types
  <2>6. \A d \in Proc : InPlay(d)' => InPlay(d) \/ Found(d)'
    BY <1>a, <2>2, <2>3 DEF InPlay
  <2>7. \A d \in Proc : ~NotIn(deque, d) => ~NotIn(deque', d) \/ Carries(w, d)' \/ ~InPlay(d)'
    BY <1>b, <2>2, <2>3
  <2>8. \A d \in Proc : Carries(w, d) => ~NotIn(deque', d) \/ Carries(w, d)' \/ ~InPlay(d)'
    BY <1>b, <2>4, <2>2, <2>3 DEF Carries
  <2>q. QED
    BY <1>h, <2>2, <2>4, <2>5, <2>6, <2>7, <2>8
<1>24. ASSUME NEW w \in Worker, PopResult(w) PROVE Placed'
  <2>2. /\ pc[w] = "pop" /\ pc' = [pc EXCEPT ![w] = "run"]
        /\ child' = [child EXCEPT ![w] = None]
        /\ UNCHANGED <<cl, deque, status>>
    BY <1>24 DEF PopResult, program, state, tree, locks, caches, Goto, Outcome
  <2>3. /\ "pop" \notin HandPC /\ "pop" \notin ReturnPC /\ "run" \notin HandPC
        /\ "run" \notin ReturnPC
    BY <2>2 DEF HandPC, ReturnPC
  <2>4. pc'[w] = "run" /\ cl'[w] = cl[w] /\ child'[w] = None
    BY <1>a, <2>2, <2>3 DEF Types
  <2>5. \A u \in Worker \ {w} : /\ pc'[u] = pc[u] /\ cl'[u] = cl[u]
                                /\ child'[u] = child[u]
    BY <1>a, <2>2, <2>3 DEF Types
  <2>6. \A d \in Proc : InPlay(d)' => InPlay(d) \/ Found(d)'
    BY <1>a, <2>2, <2>3 DEF InPlay
  <2>7. \A d \in Proc : ~NotIn(deque, d) => ~NotIn(deque', d) \/ Carries(w, d)' \/ ~InPlay(d)'
    BY <1>b, <2>2, <2>3
  <2>8. \A d \in Proc : Carries(w, d) => ~NotIn(deque', d) \/ Carries(w, d)' \/ ~InPlay(d)'
    BY <1>b, <2>4, <2>2, <2>3 DEF Carries
  <2>q. QED
    BY <1>h, <2>2, <2>4, <2>5, <2>6, <2>7, <2>8
<1>25. ASSUME NEW w \in Worker, LockOwnDeque(w) PROVE Placed'
  BY <1>g, <1>25 DEF LockOwnDeque, program, results, state, tree, caches, Goto,
     LockDeque, SlowAborts, HandPC, ReturnPC
<1>26. ASSUME NEW w \in Worker, LockBottom(w) PROVE Placed'
  <2>1. PICK c \in Proc :
          LockBottomDoes(w, c)
    BY <1>26, LockBottomEffect
  <2>2. /\ pc[w] \in {"handler", "sync", "abort", "result"} /\ c = Bottom(w)
        /\ deque[w] # <<>> /\ clock[c] = None /\ cl' = [cl EXCEPT ![w] = c]
        /\ UNCHANGED <<child, deque, status>>
    BY <2>1 DEF LockBottomDoes
  <2>3. /\ "handler" \notin HandPC /\ "handler" \notin ReturnPC
        /\ "sync" \notin HandPC /\ "sync" \notin ReturnPC
        /\ "abort" \notin HandPC /\ "abort" \notin ReturnPC
        /\ "result" \notin HandPC /\ "result" \notin ReturnPC
        /\ "handlerPoll" \notin HandPC /\ "handlerPoll" \notin ReturnPC
        /\ "syncPoll" \notin HandPC /\ "syncPoll" \notin ReturnPC
        /\ "setResult" \notin HandPC /\ "setResult" \notin ReturnPC
        /\ "abortPoll" \notin HandPC /\ "abortPoll" \notin ReturnPC
        /\ pc[w] \notin HandPC /\ pc[w] \notin ReturnPC
    BY <2>2 DEF HandPC, ReturnPC
  <2>4. ASSUME pc[w] = "handler", pc' = [pc EXCEPT ![w] = "handlerPoll"]
        PROVE  Placed'
    <3>1. pc'[w] = "handlerPoll" /\ cl'[w] = c /\ child'[w] = child[w]
      BY <1>a, <2>2, <2>3, <2>4 DEF Types
    <3>2. \A u \in Worker \ {w} : /\ pc'[u] = pc[u] /\ cl'[u] = cl[u]
                                  /\ child'[u] = child[u]
      BY <1>a, <2>2, <2>3, <2>4 DEF Types
    <3>3. \A d \in Proc : InPlay(d)' => InPlay(d) \/ Found(d)'
      BY <1>a, <2>2, <2>3, <2>4 DEF InPlay
    <3>4. \A d \in Proc : ~NotIn(deque, d) => ~NotIn(deque', d) \/ Carries(w, d)' \/ ~InPlay(d)'
      BY <1>b, <2>2, <2>3, <2>4
    <3>5. \A d \in Proc : Carries(w, d) => ~NotIn(deque', d) \/ Carries(w, d)' \/ ~InPlay(d)'
      BY <1>b, <3>1, <2>2, <2>3, <2>4 DEF Carries
    <3>q. QED
      BY <1>h, <2>2, <3>1, <3>2, <3>3, <3>4, <3>5
  <2>5. ASSUME pc[w] = "sync", pc' = [pc EXCEPT ![w] = "syncPoll"]
        PROVE  Placed'
    <3>1. pc'[w] = "syncPoll" /\ cl'[w] = c /\ child'[w] = child[w]
      BY <1>a, <2>2, <2>3, <2>5 DEF Types
    <3>2. \A u \in Worker \ {w} : /\ pc'[u] = pc[u] /\ cl'[u] = cl[u]
                                  /\ child'[u] = child[u]
      BY <1>a, <2>2, <2>3, <2>5 DEF Types
    <3>3. \A d \in Proc : InPlay(d)' => InPlay(d) \/ Found(d)'
      BY <1>a, <2>2, <2>3, <2>5 DEF InPlay
    <3>4. \A d \in Proc : ~NotIn(deque, d) => ~NotIn(deque', d) \/ Carries(w, d)' \/ ~InPlay(d)'
      BY <1>b, <2>2, <2>3, <2>5
    <3>5. \A d \in Proc : Carries(w, d) => ~NotIn(deque', d) \/ Carries(w, d)' \/ ~InPlay(d)'
      BY <1>b, <3>1, <2>2, <2>3, <2>5 DEF Carries
    <3>q. QED
      BY <1>h, <2>2, <3>1, <3>2, <3>3, <3>4, <3>5
  <2>6. ASSUME pc[w] = "result", pc' = [pc EXCEPT ![w] = "setResult"]
        PROVE  Placed'
    <3>1. pc'[w] = "setResult" /\ cl'[w] = c /\ child'[w] = child[w]
      BY <1>a, <2>2, <2>3, <2>6 DEF Types
    <3>2. \A u \in Worker \ {w} : /\ pc'[u] = pc[u] /\ cl'[u] = cl[u]
                                  /\ child'[u] = child[u]
      BY <1>a, <2>2, <2>3, <2>6 DEF Types
    <3>3. \A d \in Proc : InPlay(d)' => InPlay(d) \/ Found(d)'
      BY <1>a, <2>2, <2>3, <2>6 DEF InPlay
    <3>4. \A d \in Proc : ~NotIn(deque, d) => ~NotIn(deque', d) \/ Carries(w, d)' \/ ~InPlay(d)'
      BY <1>b, <2>2, <2>3, <2>6
    <3>5. \A d \in Proc : Carries(w, d) => ~NotIn(deque', d) \/ Carries(w, d)' \/ ~InPlay(d)'
      BY <1>b, <3>1, <2>2, <2>3, <2>6 DEF Carries
    <3>q. QED
      BY <1>h, <2>2, <3>1, <3>2, <3>3, <3>4, <3>5
  <2>7. ASSUME NEW s \in {ABORT_ALL, ALMOST_NO_ABORT}, pc[w] = "abort",
               status[c] = "RUNNING", pc' = [pc EXCEPT ![w] = "abortPoll"]
        PROVE  Placed'
    <3>1. pc'[w] = "abortPoll" /\ cl'[w] = c /\ child'[w] = child[w]
      BY <1>a, <2>2, <2>3, <2>7 DEF Types
    <3>2. \A u \in Worker \ {w} : /\ pc'[u] = pc[u] /\ cl'[u] = cl[u]
                                  /\ child'[u] = child[u]
      BY <1>a, <2>2, <2>3, <2>7 DEF Types
    <3>3. \A d \in Proc : InPlay(d)' => InPlay(d) \/ Found(d)'
      BY <1>a, <2>2, <2>3, <2>7 DEF InPlay
    <3>4. \A d \in Proc : ~NotIn(deque, d) => ~NotIn(deque', d) \/ Carries(w, d)' \/ ~InPlay(d)'
      BY <1>b, <2>2, <2>3, <2>7
    <3>5. \A d \in Proc : Carries(w, d) => ~NotIn(deque', d) \/ Carries(w, d)' \/ ~InPlay(d)'
      BY <1>b, <3>1, <2>2, <2>3, <2>7 DEF Carries
    <3>q. QED
      BY <1>h, <2>2, <3>1, <3>2, <3>3, <3>4, <3>5
  <2>q. QED
    BY <2>1, <2>2, <2>4, <2>5, <2>6, <2>7 DEF LockBottomDoes
<1>27. ASSUME NEW w \in Worker, Sync(w) PROVE Placed'
  <2>1. PICK c \in Proc :
          SyncDoes(w, c)
    BY <1>27, SyncEffect
  <2>2. /\ pc[w] = "syncPoll" /\ c = cl[w] /\ c = Bottom(w)
        /\ c = deque[w][Size(deque[w])] /\ T(w) = 1 /\ H[w] = 0
        /\ status[c] = "RUNNING" /\ stack[w][1] = c
        /\ cl' = [cl EXCEPT ![w] = None]
        /\ UNCHANGED <<child>>
    BY <2>1 DEF SyncDoes
  <2>3. /\ "syncPoll" \notin HandPC /\ "syncPoll" \notin ReturnPC
        /\ "loop" \in HandPC /\ "loop" \notin ReturnPC
        /\ "synced" \notin HandPC /\ "synced" \notin ReturnPC
    BY <2>2 DEF HandPC, ReturnPC
  <2>4. ASSUME join[c] # 0, pc' = [pc EXCEPT ![w] = "loop"],
               Shortened(deque, deque', w),
               status' = [status EXCEPT ![c] = "SUSPENDED"]
        PROVE  Placed'
    <3>1. pc'[w] = "loop" /\ cl'[w] = None /\ child'[w] = child[w]
      BY <1>a, <2>2, <2>3, <2>4 DEF Types
    <3>2. \A u \in Worker \ {w} : /\ pc'[u] = pc[u] /\ cl'[u] = cl[u]
                                  /\ child'[u] = child[u]
      BY <1>a, <2>2, <2>3, <2>4 DEF Types
    <3>3. \A d \in Proc : InPlay(d)' => InPlay(d) \/ Found(d)'
      BY <1>p, <2>2, <2>4 DEF InPlay
    <3>4. \A d \in Proc : ~NotIn(deque, d) => ~NotIn(deque', d) \/ Carries(w, d)' \/ ~InPlay(d)'
      <4>1. \A d \in Proc : d # deque[w][Size(deque[w])] /\ ~NotIn(deque, d)
              => ~NotIn(deque', d)
        BY <1>a, <2>4, ShortenedKeeps DEF Types
      <4>2. status'[c] = "SUSPENDED"
        BY <1>a, <2>4 DEF Types
      <4>q. QED
        BY <4>1, <4>2, <2>2 DEF InPlay
    <3>5. \A d \in Proc : Carries(w, d) => ~NotIn(deque', d) \/ Carries(w, d)' \/ ~InPlay(d)'
      BY <1>b, <3>1, <2>2, <2>3, <2>4 DEF Carries
    <3>q. QED
      BY <1>h, <2>2, <3>1, <3>2, <3>3, <3>4, <3>5
  <2>5. ASSUME join[c] = 0, pc' = [pc EXCEPT ![w] = "synced"],
               UNCHANGED <<deque, status>>
        PROVE  Placed'
    <3>1. pc'[w] = "synced" /\ cl'[w] = None /\ child'[w] = child[w]
      BY <1>a, <2>2, <2>3, <2>5 DEF Types
    <3>2. \A u \in Worker \ {w} : /\ pc'[u] = pc[u] /\ cl'[u] = cl[u]
                                  /\ child'[u] = child[u]
      BY <1>a, <2>2, <2>3, <2>5 DEF Types
    <3>3. \A d \in Proc : InPlay(d)' => InPlay(d) \/ Found(d)'
      BY <1>a, <2>2, <2>3, <2>5 DEF InPlay
    <3>4. \A d \in Proc : ~NotIn(deque, d) => ~NotIn(deque', d) \/ Carries(w, d)' \/ ~InPlay(d)'
      BY <1>b, <2>2, <2>3, <2>5
    <3>5. \A d \in Proc : Carries(w, d) => ~NotIn(deque', d) \/ Carries(w, d)' \/ ~InPlay(d)'
      BY <1>b, <3>1, <2>2, <2>3, <2>5 DEF Carries
    <3>q. QED
      BY <1>h, <2>2, <3>1, <3>2, <3>3, <3>4, <3>5
  <2>q. QED
    BY <2>1, <2>2, <2>4, <2>5 DEF SyncDoes
<1>28. ASSUME NEW w \in Worker, AbortSlow(w) PROVE Placed'
  <2>2. /\ pc[w] = "abortPoll" /\ pc' = [pc EXCEPT ![w] = "run"]
        /\ cl' = [cl EXCEPT ![w] = None]
        /\ UNCHANGED <<child, deque, status>>
    BY <1>28 DEF AbortSlow, program, results, tree, caches, Goto, UnlockBoth,
       Polled, Hand, UnlockClosure, UnlockDeque, Polls
  <2>3. /\ "abortPoll" \notin HandPC /\ "abortPoll" \notin ReturnPC
        /\ "run" \notin HandPC /\ "run" \notin ReturnPC
    BY <2>2 DEF HandPC, ReturnPC
  <2>4. pc'[w] = "run" /\ cl'[w] = None /\ child'[w] = child[w]
    BY <1>a, <2>2, <2>3 DEF Types
  <2>5. \A u \in Worker \ {w} : /\ pc'[u] = pc[u] /\ cl'[u] = cl[u]
                                /\ child'[u] = child[u]
    BY <1>a, <2>2, <2>3 DEF Types
  <2>6. \A d \in Proc : InPlay(d)' => InPlay(d) \/ Found(d)'
    BY <1>a, <2>2, <2>3 DEF InPlay
  <2>7. \A d \in Proc : ~NotIn(deque, d) => ~NotIn(deque', d) \/ Carries(w, d)' \/ ~InPlay(d)'
    BY <1>b, <2>2, <2>3
  <2>8. \A d \in Proc : Carries(w, d) => ~NotIn(deque', d) \/ Carries(w, d)' \/ ~InPlay(d)'
    BY <1>b, <2>4, <2>2, <2>3 DEF Carries
  <2>q. QED
    BY <1>h, <2>2, <2>4, <2>5, <2>6, <2>7, <2>8
<1>29. ASSUME NEW w \in Worker, SetResult(w) PROVE Placed'
  <2>1. PICK c \in Proc :
          SetResultDoes(w, c)
    BY <1>29, SetResultEffect
  <2>2. /\ pc[w] = "setResult" /\ c = cl[w] /\ c = Bottom(w)
        /\ c = deque[w][Size(deque[w])] /\ T(w) = 1 /\ H[w] = 0 /\ c # Root
        /\ deque[w] # <<>> /\ status[c] = "RUNNING" /\ stack[w][1] = c
        /\ pc' = [pc EXCEPT ![w] = "loop"] /\ cl' = [cl EXCEPT ![w] = None]
        /\ status' = [status EXCEPT ![c] = "RETURNING"]
        /\ UNCHANGED <<child, deque>>
    BY <2>1 DEF SetResultDoes
  <2>3. /\ "setResult" \notin HandPC /\ "setResult" \notin ReturnPC
        /\ "loop" \in HandPC /\ "loop" \notin ReturnPC
    BY <2>2 DEF HandPC, ReturnPC
  <2>4. pc'[w] = "loop" /\ cl'[w] = None /\ child'[w] = child[w]
    BY <1>a, <2>2, <2>3 DEF Types
  <2>5. \A u \in Worker \ {w} : /\ pc'[u] = pc[u] /\ cl'[u] = cl[u]
                                /\ child'[u] = child[u]
    BY <1>a, <2>2, <2>3 DEF Types
  <2>6. \A d \in Proc : InPlay(d)' => InPlay(d) \/ Found(d)'
    BY <1>p, <2>2 DEF InPlay
  <2>7. \A d \in Proc : ~NotIn(deque, d) => ~NotIn(deque', d) \/ Carries(w, d)' \/ ~InPlay(d)'
    BY <1>b, <2>2, <2>3
  <2>8. \A d \in Proc : Carries(w, d) => ~NotIn(deque', d) \/ Carries(w, d)' \/ ~InPlay(d)'
    BY <1>b, <2>4, <2>2, <2>3 DEF Carries
  <2>q. QED
    BY <1>h, <2>2, <2>4, <2>5, <2>6, <2>7, <2>8
<1>30. ASSUME NEW w \in Worker, Done(w) PROVE Placed'
  BY <1>g, <1>30 DEF Done, results, state, tree, locks, caches, Goto,
     AfterSync, HandPC, ReturnPC
<1>31. ASSUME NEW w \in Worker, RemoveAndFree(w) PROVE Placed'
  <2>1. RemoveAndFreeDoes(w)
    BY <1>31, RemoveAndFreeEffect
  <2>2. /\ pc[w] = "rootEnd" /\ Root = Bottom(w)
        /\ Root = deque[w][Size(deque[w])] /\ T(w) = 1 /\ H[w] = 0
        /\ Root \in Proc /\ status[Root] = "RUNNING"
        /\ pc' = [pc EXCEPT ![w] = "loop"] /\ Shortened(deque, deque', w)
        /\ status' = [status EXCEPT ![Root] = "freed"]
        /\ UNCHANGED <<cl, child>>
    BY <2>1 DEF RemoveAndFreeDoes
  <2>3. /\ "rootEnd" \notin HandPC /\ "rootEnd" \notin ReturnPC
        /\ "loop" \in HandPC /\ "loop" \notin ReturnPC
    BY <2>2 DEF HandPC, ReturnPC
  <2>a. \A d \in Proc : d # Root /\ ~NotIn(deque, d) => ~NotIn(deque', d)
    <3>1. Shortened(deque, deque', w) /\ deque[w][Size(deque[w])] = Root
      BY <2>2
    <3>q. QED
      BY <1>a, <3>1, ShortenedKeeps DEF Types
  <2>4. pc'[w] = "loop" /\ cl'[w] = cl[w] /\ child'[w] = child[w]
    BY <1>a, <2>2, <2>3, <2>a DEF Types
  <2>5. \A u \in Worker \ {w} : /\ pc'[u] = pc[u] /\ cl'[u] = cl[u]
                                /\ child'[u] = child[u]
    BY <1>a, <2>2, <2>3, <2>a DEF Types
  <2>6. \A d \in Proc : InPlay(d)' => InPlay(d) \/ Found(d)'
    BY <1>b, <1>p, <2>2
  <2>7. \A d \in Proc : ~NotIn(deque, d) => ~NotIn(deque', d) \/ Carries(w, d)' \/ ~InPlay(d)'
    <3>1. status'[Root] = "freed"
      BY <1>a, <1>b, <2>2 DEF Types
    <3>q. QED
      BY <3>1, <2>a DEF InPlay
  <2>8. \A d \in Proc : Carries(w, d) => ~NotIn(deque', d) \/ Carries(w, d)' \/ ~InPlay(d)'
    BY <1>b, <2>4, <2>2, <2>3, <2>a DEF Carries
  <2>q. QED
    BY <1>h, <2>2, <2>4, <2>5, <2>6, <2>7, <2>8
<1>32. ASSUME NEW w \in Worker, CilkExit(w) PROVE Placed'
  <2>1. CilkExitDoes(w)
    BY <1>32, CilkExitEffect
  <2>2. /\ pc[w] = "run" /\ Root \in Proc /\ clock[Root] = None
        /\ Running(w) # Root
        /\ UNCHANGED <<child, deque, status>>
    BY <2>1 DEF CilkExitDoes
  <2>3. /\ "run" \notin HandPC /\ "run" \notin ReturnPC
        /\ "exitPoll" \notin HandPC /\ "exitPoll" \notin ReturnPC
    BY <2>2 DEF HandPC, ReturnPC
  <2>4. ASSUME status[Root] = "RUNNING",
               UNCHANGED <<pc, cl>>
        PROVE  Placed'
    <3>1. pc'[w] = pc[w] /\ cl'[w] = cl[w] /\ child'[w] = child[w]
      BY <1>a, <2>2, <2>3, <2>4 DEF Types
    <3>2. \A u \in Worker \ {w} : /\ pc'[u] = pc[u] /\ cl'[u] = cl[u]
                                  /\ child'[u] = child[u]
      BY <1>a, <2>2, <2>3, <2>4 DEF Types
    <3>3. \A d \in Proc : InPlay(d)' => InPlay(d) \/ Found(d)'
      BY <1>a, <2>2, <2>3, <2>4 DEF InPlay
    <3>4. \A d \in Proc : ~NotIn(deque, d) => ~NotIn(deque', d) \/ Carries(w, d)' \/ ~InPlay(d)'
      BY <1>b, <2>2, <2>3, <2>4
    <3>5. \A d \in Proc : Carries(w, d) => ~NotIn(deque', d) \/ Carries(w, d)' \/ ~InPlay(d)'
      BY <1>b, <3>1, <2>2, <2>3, <2>4 DEF Carries
    <3>q. QED
      BY <1>h, <2>2, <3>1, <3>2, <3>3, <3>4, <3>5
  <2>5. ASSUME status[Root] # "RUNNING", pc' = [pc EXCEPT ![w] = "exitPoll"],
               cl' = [cl EXCEPT ![w] = Root]
        PROVE  Placed'
    <3>1. pc'[w] = "exitPoll" /\ cl'[w] = Root /\ child'[w] = child[w]
      BY <1>a, <2>2, <2>3, <2>5 DEF Types
    <3>2. \A u \in Worker \ {w} : /\ pc'[u] = pc[u] /\ cl'[u] = cl[u]
                                  /\ child'[u] = child[u]
      BY <1>a, <2>2, <2>3, <2>5 DEF Types
    <3>3. \A d \in Proc : InPlay(d)' => InPlay(d) \/ Found(d)'
      BY <1>a, <2>2, <2>3, <2>5 DEF InPlay
    <3>4. \A d \in Proc : ~NotIn(deque, d) => ~NotIn(deque', d) \/ Carries(w, d)' \/ ~InPlay(d)'
      BY <1>b, <2>2, <2>3, <2>5
    <3>5. \A d \in Proc : Carries(w, d) => ~NotIn(deque', d) \/ Carries(w, d)' \/ ~InPlay(d)'
      BY <1>b, <3>1, <2>2, <2>3, <2>5 DEF Carries
    <3>q. QED
      BY <1>h, <2>2, <3>1, <3>2, <3>3, <3>4, <3>5
  <2>q. QED
    BY <2>1, <2>2, <2>4, <2>5 DEF CilkExitDoes
<1>33. ASSUME NEW w \in Worker, CilkExitDone(w) PROVE Placed'
  <2>2. /\ pc[w] = "exitPoll" /\ pc' = [pc EXCEPT ![w] = "run"]
        /\ cl' = [cl EXCEPT ![w] = None]
        /\ UNCHANGED <<child, deque, status>>
    BY <1>33 DEF CilkExitDone, program, results, tree, caches, Goto, Hand,
       UnlockClosure, Polled, Polls
  <2>3. /\ "exitPoll" \notin HandPC /\ "exitPoll" \notin ReturnPC
        /\ "run" \notin HandPC /\ "run" \notin ReturnPC
    BY <2>2 DEF HandPC, ReturnPC
  <2>4. pc'[w] = "run" /\ cl'[w] = None /\ child'[w] = child[w]
    BY <1>a, <2>2, <2>3 DEF Types
  <2>5. \A u \in Worker \ {w} : /\ pc'[u] = pc[u] /\ cl'[u] = cl[u]
                                /\ child'[u] = child[u]
    BY <1>a, <2>2, <2>3 DEF Types
  <2>6. \A d \in Proc : InPlay(d)' => InPlay(d) \/ Found(d)'
    BY <1>a, <2>2, <2>3 DEF InPlay
  <2>7. \A d \in Proc : ~NotIn(deque, d) => ~NotIn(deque', d) \/ Carries(w, d)' \/ ~InPlay(d)'
    BY <1>b, <2>2, <2>3
  <2>8. \A d \in Proc : Carries(w, d) => ~NotIn(deque', d) \/ Carries(w, d)' \/ ~InPlay(d)'
    BY <1>b, <2>4, <2>2, <2>3 DEF Carries
  <2>q. QED
    BY <1>h, <2>2, <2>4, <2>5, <2>6, <2>7, <2>8
<1>34. ASSUME NEW w \in Worker, HandlerPolled(w) PROVE Placed'
  <2>1. PICK t \in Proc, t1 \in Proc :
          HandlerPolledDoes(w, t, t1)
    BY <1>34, HandlerPolledEffect
  <2>2. /\ pc[w] = "handlerPoll" /\ t = cl[w] /\ t1 = Bottom(w)
        /\ deque[w] # <<>>
        /\ UNCHANGED <<child, deque, status>>
    BY <2>1 DEF HandlerPolledDoes
  <2>3. /\ "handlerPoll" \notin HandPC /\ "handlerPoll" \notin ReturnPC
        /\ "handlerAct" \notin HandPC /\ "handlerAct" \notin ReturnPC
        /\ "handlerSwap" \notin HandPC /\ "handlerSwap" \notin ReturnPC
    BY <2>2 DEF HandPC, ReturnPC
  <2>4. ASSUME t1 = t, pc' = [pc EXCEPT ![w] = "handlerAct"],
               UNCHANGED <<cl>>
        PROVE  Placed'
    <3>1. pc'[w] = "handlerAct" /\ cl'[w] = cl[w] /\ child'[w] = child[w]
      BY <1>a, <2>2, <2>3, <2>4 DEF Types
    <3>2. \A u \in Worker \ {w} : /\ pc'[u] = pc[u] /\ cl'[u] = cl[u]
                                  /\ child'[u] = child[u]
      BY <1>a, <2>2, <2>3, <2>4 DEF Types
    <3>3. \A d \in Proc : InPlay(d)' => InPlay(d) \/ Found(d)'
      BY <1>a, <2>2, <2>3, <2>4 DEF InPlay
    <3>4. \A d \in Proc : ~NotIn(deque, d) => ~NotIn(deque', d) \/ Carries(w, d)' \/ ~InPlay(d)'
      BY <1>b, <2>2, <2>3, <2>4
    <3>5. \A d \in Proc : Carries(w, d) => ~NotIn(deque', d) \/ Carries(w, d)' \/ ~InPlay(d)'
      BY <1>b, <3>1, <2>2, <2>3, <2>4 DEF Carries
    <3>q. QED
      BY <1>h, <2>2, <3>1, <3>2, <3>3, <3>4, <3>5
  <2>5. ASSUME t1 # t, status[t] = "READY",
               pc' = [pc EXCEPT ![w] = "handlerSwap"],
               cl' = [cl EXCEPT ![w] = t1]
        PROVE  Placed'
    <3>1. pc'[w] = "handlerSwap" /\ cl'[w] = t1 /\ child'[w] = child[w]
      BY <1>a, <2>2, <2>3, <2>5 DEF Types
    <3>2. \A u \in Worker \ {w} : /\ pc'[u] = pc[u] /\ cl'[u] = cl[u]
                                  /\ child'[u] = child[u]
      BY <1>a, <2>2, <2>3, <2>5 DEF Types
    <3>3. \A d \in Proc : InPlay(d)' => InPlay(d) \/ Found(d)'
      BY <1>a, <2>2, <2>3, <2>5 DEF InPlay
    <3>4. \A d \in Proc : ~NotIn(deque, d) => ~NotIn(deque', d) \/ Carries(w, d)' \/ ~InPlay(d)'
      BY <1>b, <2>2, <2>3, <2>5
    <3>5. \A d \in Proc : Carries(w, d) => ~NotIn(deque', d) \/ Carries(w, d)' \/ ~InPlay(d)'
      BY <1>b, <3>1, <2>2, <2>3, <2>5 DEF Carries
    <3>q. QED
      BY <1>h, <2>2, <3>1, <3>2, <3>3, <3>4, <3>5
  <2>q. QED
    BY <2>1, <2>2, <2>4, <2>5 DEF HandlerPolledDoes
<1>35. ASSUME NEW w \in Worker, HandlerSwap(w) PROVE Placed'
  BY <1>g, <1>35 DEF HandlerSwap, program, results, state, tree, caches, Goto,
     LockClosure, HandPC, ReturnPC
<1>36. ASSUME NEW w \in Worker, HandlerStolen(w) PROVE Placed'
  <2>1. PICK c \in Proc :
          HandlerStolenDoes(w, c)
    BY <1>36, HandlerStolenEffect
  <2>2. /\ pc[w] = "handlerAct" /\ c = cl[w] /\ c = Bottom(w)
        /\ c = deque[w][Size(deque[w])] /\ c # Root /\ deque[w] # <<>>
        /\ T(w) \in Nat \ {0} /\ H[w] \in Nat /\ H[w] >= T(w)
        /\ status[c] \in {"RUNNING", "RETURNING"}
        /\ cl' = [cl EXCEPT ![w] = None] /\ child' = [child EXCEPT ![w] = None]
        /\ status' = [status EXCEPT ![c] = "RETURNING"]
        /\ UNCHANGED <<deque>>
    BY <2>1 DEF HandlerStolenDoes
  <2>3. /\ "handlerAct" \notin HandPC /\ "handlerAct" \notin ReturnPC
        /\ "loop" \in HandPC /\ "loop" \notin ReturnPC /\ "pop" \notin HandPC
        /\ "pop" \notin ReturnPC
    BY <2>2 DEF HandPC, ReturnPC
  <2>4. ASSUME T(w) = 1, pc' = [pc EXCEPT ![w] = "loop"]
        PROVE  Placed'
    <3>1. pc'[w] = "loop" /\ cl'[w] = None /\ child'[w] = None
      BY <1>a, <2>2, <2>3, <2>4 DEF Types
    <3>2. \A u \in Worker \ {w} : /\ pc'[u] = pc[u] /\ cl'[u] = cl[u]
                                  /\ child'[u] = child[u]
      BY <1>a, <2>2, <2>3, <2>4 DEF Types
    <3>3. \A d \in Proc : InPlay(d)' => InPlay(d) \/ Found(d)'
      BY <1>p, <2>2 DEF InPlay
    <3>4. \A d \in Proc : ~NotIn(deque, d) => ~NotIn(deque', d) \/ Carries(w, d)' \/ ~InPlay(d)'
      BY <1>b, <2>2, <2>3, <2>4
    <3>5. \A d \in Proc : Carries(w, d) => ~NotIn(deque', d) \/ Carries(w, d)' \/ ~InPlay(d)'
      BY <1>b, <3>1, <2>2, <2>3, <2>4 DEF Carries
    <3>q. QED
      BY <1>h, <2>2, <3>1, <3>2, <3>3, <3>4, <3>5
  <2>5. ASSUME T(w) # 1, pc' = [pc EXCEPT ![w] = "pop"]
        PROVE  Placed'
    <3>1. pc'[w] = "pop" /\ cl'[w] = None /\ child'[w] = None
      BY <1>a, <2>2, <2>3, <2>5 DEF Types
    <3>2. \A u \in Worker \ {w} : /\ pc'[u] = pc[u] /\ cl'[u] = cl[u]
                                  /\ child'[u] = child[u]
      BY <1>a, <2>2, <2>3, <2>5 DEF Types
    <3>3. \A d \in Proc : InPlay(d)' => InPlay(d) \/ Found(d)'
      BY <1>p, <2>2 DEF InPlay
    <3>4. \A d \in Proc : ~NotIn(deque, d) => ~NotIn(deque', d) \/ Carries(w, d)' \/ ~InPlay(d)'
      BY <1>b, <2>2, <2>3, <2>5
    <3>5. \A d \in Proc : Carries(w, d) => ~NotIn(deque', d) \/ Carries(w, d)' \/ ~InPlay(d)'
      BY <1>b, <3>1, <2>2, <2>3, <2>5 DEF Carries
    <3>q. QED
      BY <1>h, <2>2, <3>1, <3>2, <3>3, <3>4, <3>5
  <2>q. QED
    BY <2>1, <2>2, <2>4, <2>5 DEF HandlerStolenDoes
<1>37. ASSUME NEW w \in Worker, HandlerAbort(w) PROVE Placed'
  <2>1. PICK c \in Proc, f \in Proc :
          HandlerAbortDoes(w, c, f)
    BY <1>37, HandlerAbortEffect
  <2>2. /\ pc[w] = "handlerAct" /\ c = cl[w] /\ c = Bottom(w)
        /\ c = deque[w][Size(deque[w])] /\ deque[w] # <<>>
        /\ T(w) \in Nat \ {0} /\ H[w] \in Nat /\ H[w] < T(w)
        /\ status[c] = "RUNNING" /\ stack[w][H[w] + 1] = c
        /\ cl' = [cl EXCEPT ![w] = None]
    BY <2>1 DEF HandlerAbortDoes
  <2>3. /\ "handlerAct" \notin HandPC /\ "handlerAct" \notin ReturnPC
        /\ "loop" \in HandPC /\ "loop" \notin ReturnPC /\ "pop" \notin HandPC
        /\ "pop" \notin ReturnPC
    BY <2>2 DEF HandPC, ReturnPC
  <2>4. ASSUME T(w) = 1, H[w] = 0, join[c] # 0,
               pc' = [pc EXCEPT ![w] = "loop"],
               child' = [child EXCEPT ![w] = None],
               Shortened(deque, deque', w),
               status' = [status EXCEPT ![c] = "SUSPENDED"]
        PROVE  Placed'
    <3>1. pc'[w] = "loop" /\ cl'[w] = None /\ child'[w] = None
      BY <1>a, <2>2, <2>3, <2>4 DEF Types
    <3>2. \A u \in Worker \ {w} : /\ pc'[u] = pc[u] /\ cl'[u] = cl[u]
                                  /\ child'[u] = child[u]
      BY <1>a, <2>2, <2>3, <2>4 DEF Types
    <3>3. \A d \in Proc : InPlay(d)' => InPlay(d) \/ Found(d)'
      BY <1>p, <2>2, <2>4 DEF InPlay
    <3>4. \A d \in Proc : ~NotIn(deque, d) => ~NotIn(deque', d) \/ Carries(w, d)' \/ ~InPlay(d)'
      <4>1. \A d \in Proc : d # deque[w][Size(deque[w])] /\ ~NotIn(deque, d)
              => ~NotIn(deque', d)
        BY <1>a, <2>4, ShortenedKeeps DEF Types
      <4>2. status'[c] = "SUSPENDED"
        BY <1>a, <2>2, <2>4 DEF Types
      <4>q. QED
        BY <4>1, <4>2, <2>2 DEF InPlay
    <3>5. \A d \in Proc : Carries(w, d) => ~NotIn(deque', d) \/ Carries(w, d)' \/ ~InPlay(d)'
      BY <1>b, <3>1, <2>2, <2>3, <2>4 DEF Carries
    <3>q. QED
      BY <1>h, <2>2, <3>1, <3>2, <3>3, <3>4, <3>5
  <2>5. ASSUME T(w) = 1, H[w] = 0, join[c] = 0, c # Root,
               pc' = [pc EXCEPT ![w] = "loop"],
               child' = [child EXCEPT ![w] = None],
               status' = [status EXCEPT ![c] = "RETURNING"],
               UNCHANGED <<deque>>
        PROVE  Placed'
    <3>1. pc'[w] = "loop" /\ cl'[w] = None /\ child'[w] = None
      BY <1>a, <2>2, <2>3, <2>5 DEF Types
    <3>2. \A u \in Worker \ {w} : /\ pc'[u] = pc[u] /\ cl'[u] = cl[u]
                                  /\ child'[u] = child[u]
      BY <1>a, <2>2, <2>3, <2>5 DEF Types
    <3>3. \A d \in Proc : InPlay(d)' => InPlay(d) \/ Found(d)'
      BY <1>p, <2>2, <2>5 DEF InPlay
    <3>4. \A d \in Proc : ~NotIn(deque, d) => ~NotIn(deque', d) \/ Carries(w, d)' \/ ~InPlay(d)'
      BY <1>b, <2>2, <2>3, <2>5
    <3>5. \A d \in Proc : Carries(w, d) => ~NotIn(deque', d) \/ Carries(w, d)' \/ ~InPlay(d)'
      BY <1>b, <3>1, <2>2, <2>3, <2>5 DEF Carries
    <3>q. QED
      BY <1>h, <2>2, <3>1, <3>2, <3>3, <3>4, <3>5
  <2>6. ASSUME T(w) # 1, H[w] + 1 = T(w), join[c] = 0, c # Root,
               pc' = [pc EXCEPT ![w] = "pop"],
               child' = [child EXCEPT ![w] = c],
               status' = [status EXCEPT ![c] = "RETURNING"],
               UNCHANGED <<deque>>
        PROVE  Placed'
    <3>1. pc'[w] = "pop" /\ cl'[w] = None /\ child'[w] = c
      BY <1>a, <2>2, <2>3, <2>6 DEF Types
    <3>2. \A u \in Worker \ {w} : /\ pc'[u] = pc[u] /\ cl'[u] = cl[u]
                                  /\ child'[u] = child[u]
      BY <1>a, <2>2, <2>3, <2>6 DEF Types
    <3>3. \A d \in Proc : InPlay(d)' => InPlay(d) \/ Found(d)'
      BY <1>p, <2>2, <2>6 DEF InPlay
    <3>4. \A d \in Proc : ~NotIn(deque, d) => ~NotIn(deque', d) \/ Carries(w, d)' \/ ~InPlay(d)'
      BY <1>b, <2>2, <2>3, <2>6
    <3>5. \A d \in Proc : Carries(w, d) => ~NotIn(deque', d) \/ Carries(w, d)' \/ ~InPlay(d)'
      BY <1>b, <3>1, <2>2, <2>3, <2>6 DEF Carries
    <3>q. QED
      BY <1>h, <2>2, <3>1, <3>2, <3>3, <3>4, <3>5
  <2>7. ASSUME H[w] + 1 < T(w), f = stack[w][T(w)], f # Root,
               status[f] = "none", pc' = [pc EXCEPT ![w] = "pop"],
               child' = [child EXCEPT ![w] = f],
               UNCHANGED <<deque, status>>
        PROVE  Placed'
    <3>1. pc'[w] = "pop" /\ cl'[w] = None /\ child'[w] = f
      BY <1>a, <2>2, <2>3, <2>7 DEF Types
    <3>2. \A u \in Worker \ {w} : /\ pc'[u] = pc[u] /\ cl'[u] = cl[u]
                                  /\ child'[u] = child[u]
      BY <1>a, <2>2, <2>3, <2>7 DEF Types
    <3>3. \A d \in Proc : InPlay(d)' => InPlay(d) \/ Found(d)'
      BY <1>a, <2>2, <2>3, <2>7 DEF InPlay
    <3>4. \A d \in Proc : ~NotIn(deque, d) => ~NotIn(deque', d) \/ Carries(w, d)' \/ ~InPlay(d)'
      BY <1>b, <2>2, <2>3, <2>7
    <3>5. \A d \in Proc : Carries(w, d) => ~NotIn(deque', d) \/ Carries(w, d)' \/ ~InPlay(d)'
      BY <1>b, <3>1, <2>2, <2>3, <2>7 DEF Carries
    <3>q. QED
      BY <1>h, <2>2, <3>1, <3>2, <3>3, <3>4, <3>5
  <2>q. QED
    BY <2>1, <2>2, <2>4, <2>5, <2>6, <2>7 DEF HandlerAbortDoes, AbortWaits,
       AbortReturns, AbortPops
<1>38. ASSUME NEW w \in Worker, HandlerResume(w) PROVE Placed'
  <2>2. /\ pc[w] = "handlerAct" /\ ~(H[w] >= T(w))
        /\ pc' = [pc EXCEPT ![w] = "run"] /\ cl' = [cl EXCEPT ![w] = None]
        /\ child' = [child EXCEPT ![w] = None]
        /\ UNCHANGED <<deque, status>>
    BY <1>38 DEF HandlerResume, program, tree, Goto, UnlockBoth, Outcome,
       BeingAborted, Stolen, Hand, UnlockClosure, UnlockDeque
  <2>3. /\ "handlerAct" \notin HandPC /\ "handlerAct" \notin ReturnPC
        /\ "run" \notin HandPC /\ "run" \notin ReturnPC
    BY <2>2 DEF HandPC, ReturnPC
  <2>4. pc'[w] = "run" /\ cl'[w] = None /\ child'[w] = None
    BY <1>a, <2>2, <2>3 DEF Types
  <2>5. \A u \in Worker \ {w} : /\ pc'[u] = pc[u] /\ cl'[u] = cl[u]
                                /\ child'[u] = child[u]
    BY <1>a, <2>2, <2>3 DEF Types
  <2>6. \A d \in Proc : InPlay(d)' => InPlay(d) \/ Found(d)'
    BY <1>a, <2>2, <2>3 DEF InPlay
  <2>7. \A d \in Proc : ~NotIn(deque, d) => ~NotIn(deque', d) \/ Carries(w, d)' \/ ~InPlay(d)'
    BY <1>b, <2>2, <2>3
  <2>8. \A d \in Proc : Carries(w, d) => ~NotIn(deque', d) \/ Carries(w, d)' \/ ~InPlay(d)'
    BY <1>b, <2>4, <2>2, <2>3 DEF Carries
  <2>q. QED
    BY <1>h, <2>2, <2>4, <2>5, <2>6, <2>7, <2>8
<1>39. CASE UNCHANGED vars
  BY <1>f, <1>39 DEF vars
<1>q. QED
  BY <1>1, <1>2, <1>3, <1>4, <1>5, <1>6, <1>7, <1>8, <1>9, <1>10, <1>11, <1>12,
     <1>13, <1>14, <1>15, <1>16, <1>17, <1>18, <1>19, <1>20, <1>21, <1>22,
     <1>23, <1>24, <1>25, <1>26, <1>27, <1>28, <1>29, <1>30, <1>31, <1>32,
     <1>33, <1>34, <1>35, <1>36, <1>37, <1>38, <1>39 DEF Next, Step, Terminated

(* Every initial state of the scheduler has all the parts of IInv.         *)
LEMMA InitIInv == Init => IInv
<1> SUFFICES ASSUME Init PROVE IInv
  OBVIOUS
<1>a. /\ None \notin Proc /\ Root \in Proc /\ Root = 1 /\ None \notin Worker
      /\ First \in Worker /\ 1 \in Nat /\ Root # None
  BY BoundAssumption, WorkerAssumption DEF Proc, None, Root
<1>e. \A w \in Worker : /\ deque[w] = <<>> /\ stack[w] = <<>> /\ walk[w] = <<>>
                        /\ pc[w] = "loop" /\ child[w] = None
                        /\ victim[w] = None /\ H[w] = 0 /\ dlock[w] = None
                        /\ cl[w] = IF w = First THEN Root ELSE None
  BY DEF Init
<1>p. \A c \in Proc : /\ status[c] = IF c = Root THEN "READY" ELSE "none"
                      /\ parent[c] = None /\ join[c] = 0 /\ complete[c] = <<>>
                      /\ incomplete[c] = {} /\ abort[c] = NO_ABORT
                      /\ clock[c] = None
  BY DEF Init
<1>q. <<>> \in Seq(Proc) /\ <<>> \in Seq(Proc \cup {None}) /\ <<>> \in Walks
  BY DEF Walks
<1>z. Size(<<>>) = 0
  BY <1>q, SeqFacts
<1>t. \A w \in Worker : Size(deque[w]) = 0 /\ T(w) = 0 /\ Size(walk[w]) = 0
  BY <1>e, <1>z DEF T, Size
<1>l. /\ "loop" \notin OwnDequePC /\ "loop" \notin VictimPC
      /\ "loop" \notin LockPC /\ "loop" \notin PollPC /\ "loop" \in HandPC
      /\ "loop" \notin ReturnPC /\ "loop" \notin PopPC /\ "loop" \notin SlowPC
      /\ "loop" \notin WorkPC /\ "loop" \notin VictimPC \cup {"steal"}
  BY DEF OwnDequePC, VictimPC, LockPC, PollPC, HandPC, ReturnPC, PopPC,
         SlowPC, WorkPC
<1>1. Types
  <2>1. created \in Proc /\ parent \in [Proc -> Proc \cup {None}] /\ alive \subseteq Proc
        /\ out \in [Proc -> {"pending", "delivered", "discarded"}]
        /\ done \in BOOLEAN /\ DOMAIN join = Proc
        /\ status \in [Proc -> Status]
    BY <1>a DEF Init, Status, Root
  <2>2. aborts \in 0 .. MaxAbort
    BY BoundAssumption DEF Init
  <2>3. /\ incomplete \in [Proc -> SUBSET Proc]
        /\ abort \in [Proc -> {ABORT_ALL, ALMOST_NO_ABORT, NO_ABORT}]
        /\ cache \in [Proc -> Worker \cup {None}]
        /\ clock \in [Proc -> Worker \cup {None}]
    BY DEF Init
  <2>4. complete \in [Proc -> Seq(Proc \cup {None})]
    BY <1>q DEF Init
  <2>5. /\ deque \in [Worker -> Seq(Proc)] /\ stack \in [Worker -> Seq(Proc)]
        /\ walk \in [Worker -> Walks]
    BY <1>q DEF Init
  <2>6. /\ dlock \in [Worker -> Worker \cup {None}]
        /\ H \in [Worker -> Nat] /\ signalled \in [Worker -> BOOLEAN]
        /\ cl \in [Worker -> Proc \cup {None}]
        /\ child \in [Worker -> Proc \cup {None}]
        /\ victim \in [Worker -> Worker \cup {None}]
    BY <1>a DEF Init
  <2>7. pc \in [Worker -> PC]
    BY DEF Init, PC
  <2>q. QED
    BY <2>1, <2>2, <2>3, <2>4, <2>5, <2>6, <2>7 DEF Types
<1>2. DequeLocks
  BY <1>a, <1>e, <1>l DEF DequeLocks, HoldsDeque
<1>3. ClosureLocks
  BY <1>a, <1>e, <1>l, <1>p, <1>t DEF ClosureLocks, HoldsClosure
<1>4. WalkInv
  BY <1>e, <1>t DEF WalkInv
<1>5. RootInv
  BY <1>a, <1>p DEF RootInv, ABORT_ALL, NO_ABORT
<1>6. AlmostInv
  BY <1>p DEF AlmostInv, ALMOST_NO_ABORT, NO_ABORT
<1>7. ParentInv
  <2>1. created = 1
    BY DEF Init
  <2>2. \A c \in created + 1 .. MaxProc : c \in Proc /\ c # Root
    BY <2>1 DEF Proc, Root
  <2>q. QED
    BY <1>a, <1>p, <2>1, <2>2 DEF ParentInv
<1>8. FreshInv
  BY <1>a, <1>e, <1>l, <1>p DEF FreshInv, Fresh
<1>9. StackInv
  <2>1. \A w \in Worker : /\ pc[w] \notin {"run", "exitPoll"}
                          /\ pc[w] \notin {"exitPoll", "result", "setResult"}
                          /\ pc[w] # "rootEnd" /\ pc[w] \notin {"setup", "add"}
    BY <1>e
  <2>q. QED
    BY <1>e, <1>l, <1>t, <2>1 DEF StackInv
<1>10. StacksApart
  BY <1>e, <1>t DEF StacksApart
<1>11. ChildInv
  BY <1>e, <1>l DEF ChildInv
<1>12. ChildApart
  BY <1>e DEF ChildApart
<1>13. CurrentInv
  BY <1>e, <1>l DEF CurrentInv
<1>14. InHandInv
  BY <1>a, <1>e, <1>l, <1>p DEF InHandInv
<1>15. DequeInv
  BY <1>e, <1>l, <1>t DEF DequeInv
<1>16. PlacesApart
  BY <1>e, <1>l, <1>t DEF PlacesApart
<1>17. Placed
  <2>1. cl[First] = Root /\ pc[First] \in HandPC
    BY <1>a, <1>e, <1>l
  <2>q. QED
    BY <1>a, <1>p, <2>1 DEF Placed, InHand
<1>18. QED
  BY <1>1, <1>2, <1>3, <1>4, <1>5, <1>6, <1>7, <1>8, <1>9, <1>10, <1>11,
     <1>12, <1>13, <1>14, <1>15, <1>16, <1>17 DEF IInv

(* Every step keeps all the parts of IInv. *)
LEMMA NextIInv ==
    ASSUME IInv, [Next]_vars
    PROVE  IInv'
BY TypesStep, DequeLocksStep, ClosureLocksStep, WalkInvStep, RootInvStep,
   AlmostInvStep, ParentInvStep, FreshInvStep, StackInvStep, StacksApartStep,
   ChildInvStep, ChildApartStep, CurrentInvStep, InHandInvStep, DequeInvStep,
   PlacesApartStep, PlacedStep DEF IInv

(* The inductive invariant: which locks are held where in the code, what   *)
(* a worker's stack, pointers and deque have to do with each other and     *)
(* with the closures' statuses, and that a closure is in one place.        *)
THEOREM Invariant == Spec => []IInv
<1>1. Init => IInv
  BY InitIInv
<1>2. IInv /\ [Next]_vars => IInv'
  BY NextIInv
<1>q. QED
  BY <1>1, <1>2, PTL DEF Spec

(* The places of a closure are the deque positions and the hands that      *)
(* PlacesApart and Placed speak of.                                        *)
LEMMA PlacesAre ==
    ASSUME IInv, NEW c \in Proc
    PROVE  Cardinality(Places(c)) = IF InPlay(c) THEN 1 ELSE 0
<1>1. ASSUME NEW x
      PROVE  x \in Places(c) <=>
               \/ \E w \in Worker : \E i \in 1 .. Size(deque[w]) :
                      deque[w][i] = c /\ x = <<w, i>>
               \/ \E w \in Worker : /\ pc[w] \in HandPC /\ cl[w] = c
                                    /\ x = <<w, "hand">>
               \/ \E w \in Worker : /\ pc[w] \in ReturnPC /\ child[w] = c
                                    /\ x = <<w, "child">>
  <2> DEFINE Q == UNION {{<<w, i>> : i \in {j \in 1 .. Len(deque[w]) : deque[w][j] = c}} :
                            w \in Worker}
  <2> DEFINE A == {<<w, "hand">> : w \in {v \in Worker :
             cl[v] = c /\ pc[v] \in {"loop", "exit", "setup", "add", "stealFinish"}}}
  <2> DEFINE B == {<<w, "child">> : w \in {v \in Worker : child[v] = c /\ Returning(v)}}
  <2>1. x \in Q <=> \E w \in Worker : \E i \in 1 .. Size(deque[w]) :
                       deque[w][i] = c /\ x = <<w, i>>
    BY DEF Size
  <2>2. x \in A <=> \E w \in Worker : /\ pc[w] \in HandPC /\ cl[w] = c
                                     /\ x = <<w, "hand">>
    BY DEF HandPC
  <2>3. x \in B <=> \E w \in Worker : /\ pc[w] \in ReturnPC /\ child[w] = c
                                     /\ x = <<w, "child">>
    BY DEF ReturnPC, Returning
  <2>4. x \in Places(c) <=> x \in Q \/ x \in A \/ x \in B
    BY Zenon DEF Places
  <2>q. QED
    <3> HIDE DEF Q, A, B
    <3>q. QED
      BY <2>1, <2>2, <2>3, <2>4
<1>2. c # None
  BY BoundAssumption DEF Proc, None
<1>3. CASE ~InPlay(c)
  <2>1. NotIn(deque, c) /\ \A u \in Worker : ~Carries(u, c)
    BY <1>3, NowhereFacts DEF InPlay
  <2>2. Places(c) = {}
    BY <1>1, <2>1 DEF NotIn, Carries
  <2>q. QED
    BY <1>3, <2>2, FS_EmptySet
<1>4. CASE InPlay(c)
  <2>s. /\ DequesApart(deque)
        /\ \A w \in Worker : Carries(w, c) =>
              NotIn(deque, c) /\ \A u \in Worker \ {w} : ~Carries(u, c)
    BY CarriedApart
  <2>1. ~NotIn(deque, c) \/ \E w \in Worker : Carries(w, c)
    BY <1>4 DEF IInv, Placed, InPlay, InDeque, InHand, InReturn, NotIn, Carries
  <2>2. \E x : Places(c) = {x}
    <3>1. ASSUME NEW w \in Worker, NEW i \in 1 .. Size(deque[w]), deque[w][i] = c
          PROVE  Places(c) = {<<w, i>>}
      <4>1. \A u \in Worker : ~Carries(u, c)
        BY <2>s, <3>1 DEF NotIn
      <4>2. \A u \in Worker : \A j \in 1 .. Size(deque[u]) :
               deque[u][j] = c => u = w /\ j = i
        BY <2>s, <3>1 DEF DequesApart
      <4>q. QED
        BY <1>1, <3>1, <4>1, <4>2 DEF Carries
    <3>2. ASSUME NEW w \in Worker, Carries(w, c) PROVE \E x : Places(c) = {x}
      <4>1. NotIn(deque, c) /\ \A u \in Worker \ {w} : ~Carries(u, c)
        BY <2>s, <3>2
      <4>2. ~(pc[w] \in HandPC /\ pc[w] \in ReturnPC)
        BY DEF HandPC, ReturnPC
      <4>3. CASE pc[w] \in HandPC /\ cl[w] = c
        <5>1. Places(c) = {<<w, "hand">>}
          BY <1>1, <4>1, <4>2, <4>3 DEF Carries, NotIn
        <5>q. QED
          BY <5>1
      <4>4. CASE pc[w] \in ReturnPC /\ child[w] = c
        <5>1. Places(c) = {<<w, "child">>}
          BY <1>1, <4>1, <4>2, <4>4 DEF Carries, NotIn
        <5>q. QED
          BY <5>1
      <4>q. QED
        BY <3>2, <4>3, <4>4 DEF Carries
    <3>q. QED
      BY <2>1, <3>1, <3>2 DEF NotIn
  <2>q. QED
    BY <1>4, <2>2, FS_Singleton
<1>q. QED
  BY <1>3, <1>4

(* The closure that a worker works on, once its lock is free: it is the    *)
(* bottom of the deque of the worker that runs it, or has just been set up *)
(* by it; and the cache of that worker is the closure's.                   *)
LEMMA RunningFacts ==
    ASSUME IInv, NEW c \in Proc, status[c] = "RUNNING", clock[c] = None
    PROVE  \E w \in Worker :
             /\ \/ pc[w] \in WorkPC /\ Bottom(w) = c
                \/ pc[w] = "add" /\ cl[w] = c
             /\ cache[c] = w
             /\ \/ T(w) > H[w] /\ stack[w][H[w] + 1] = c
                \/ T(w) = H[w] /\ child[w] = c
<1>a. Types /\ None \notin Worker
  BY WorkerAssumption DEF IInv, None
<1>1. ASSUME NEW w \in Worker, NEW i \in 1 .. Size(deque[w]), deque[w][i] = c
      PROVE  pc[w] \in WorkPC /\ Bottom(w) = c
  <2>1. Size(deque[w]) \in Nat /\ Bottom(w) = deque[w][Size(deque[w])]
        /\ deque[w] # <<>>
    BY <1>a, <1>1, DequeFacts
  <2>2. ~(i \in 1 .. Size(deque[w]) - 1)
    BY <1>1 DEF IInv, DequeInv
  <2>3. i = Size(deque[w])
    BY <2>1, <2>2
  <2>q. QED
    BY <1>1, <2>1, <2>3 DEF IInv, DequeInv
<1>2. ASSUME NEW w \in Worker, pc[w] \in HandPC, cl[w] = c
      PROVE  pc[w] = "add"
  <2>1. pc[w] \notin LockPC
    BY <1>2, <1>a, LockFacts
  <2>2. c # None
    BY BoundAssumption DEF Proc, None
  <2>3. pc[w] \notin {"loop", "exit"}
    BY <1>2, <2>2 DEF IInv, InHandInv
  <2>q. QED
    BY <1>2, <2>1, <2>3 DEF HandPC, LockPC
<1>3. \A w \in Worker : ~(pc[w] \in ReturnPC /\ child[w] = c)
  BY InPlaceStatus
<1>4. PICK w \in Worker : \/ pc[w] \in WorkPC /\ Bottom(w) = c
                          \/ pc[w] = "add" /\ cl[w] = c
  BY <1>1, <1>2, <1>3 DEF IInv, Placed, InDeque, InHand, InReturn
<1>5. CASE pc[w] \in WorkPC /\ Bottom(w) = c
  <2>1. H[w] \in Nat /\ T(w) \in Nat
    BY <1>a, StackFacts
  <2>2. /\ cache[c] = w /\ H[w] <= T(w)
        /\ H[w] < T(w) => stack[w][H[w] + 1] = c
        /\ H[w] = T(w) => child[w] = c
    BY <1>5 DEF IInv, CurrentInv
  <2>q. QED
    BY <1>5, <2>1, <2>2
<1>6. CASE pc[w] = "add" /\ cl[w] = c
  BY <1>6 DEF IInv, StackInv
<1>q. QED
  BY <1>4, <1>5, <1>6

(* A closure is in one place while it is ready, running or returning, and  *)
(* in none otherwise; only ready closures lie above the bottom of a deque, *)
(* and a running one that nobody has locked is the one its worker's cache  *)
(* and pointers are about: what Closure_steal, promote_child, Closure_sync *)
(* and Closure_return keep under two locks.                                *)
THEOREM OnePlaceHolds == Spec => []OnePlace
<1>1. ASSUME IInv PROVE InOnePlace
  BY <1>1, PlacesAre DEF InOnePlace, InPlay
<1>2. ASSUME IInv PROVE OneRunningPerCache
  <2>1. \A w \in Worker : \A i \in 1 .. Len(deque[w]) - 1 :
           status[deque[w][i]] = "READY"
    BY <1>2 DEF IInv, DequeInv, Size
  <2>2. ASSUME NEW c \in Proc, status[c] = "RUNNING", Unlocked(c)
        PROVE  LET v == cache[c] IN
               /\ v # None
               /\ \/ T(v) > H[v] /\ stack[v][H[v] + 1] = c
                  \/ T(v) = H[v] /\ child[v] = c
               /\ \A d \in Proc \ {c} :
                     status[d] = "RUNNING" /\ Unlocked(d) => cache[d] # v
    <3>1. PICK w \in Worker :
             /\ \/ pc[w] \in WorkPC /\ Bottom(w) = c
                \/ pc[w] = "add" /\ cl[w] = c
             /\ cache[c] = w
             /\ \/ T(w) > H[w] /\ stack[w][H[w] + 1] = c
                \/ T(w) = H[w] /\ child[w] = c
      BY <1>2, <2>2, RunningFacts DEF Unlocked
    <3>2. ASSUME NEW d \in Proc \ {c}, status[d] = "RUNNING", Unlocked(d),
                 cache[d] = w
          PROVE  FALSE
      <4>1. \/ pc[w] \in WorkPC /\ Bottom(w) = d
            \/ pc[w] = "add" /\ cl[w] = d
        BY <1>2, <3>2, RunningFacts DEF Unlocked
      <4>2. "add" \notin WorkPC
        BY DEF WorkPC, PopPC, SlowPC
      <4>q. QED
        BY <3>1, <3>2, <4>1, <4>2
    <3>3. w # None
      BY WorkerAssumption DEF None
    <3>q. QED
      BY <3>1, <3>2, <3>3
  <2>q. QED
    BY <2>1, <2>2 DEF OneRunningPerCache
<1>q. QED
  BY <1>1, <1>2, Invariant, PTL DEF OnePlace
=============================================================================
