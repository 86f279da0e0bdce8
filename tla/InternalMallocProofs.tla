------------------------ MODULE InternalMallocProofs ------------------------
(***************************************************************************)
(* Proofs about the allocator, for any workers, sizes, batch and chunk.    *)
(* The heart of it is that count and the length of a free list add up to a *)
(* batch: so half a batch fits into an empty list, and is there in a full  *)
(* one, and the holder of global_im_lock never needs the lock again.  It   *)
(* also bounds the memory that lies idle.  Last come sums, for the books.  *)
(***************************************************************************)
EXTENDS InternalMalloc, FiniteSetTheorems, WellFoundedInduction, TLAPS

(* A non-empty set of natural numbers has a least element.                 *)
LEMMA Least ==
  ASSUME NEW T \in SUBSET Nat, T # {}
  PROVE  \E m \in T : \A k \in T : m <= k
<1> DEFINE R == {p \in Nat \X Nat : p[1] < p[2]}
<1>1. IsWellFoundedOn(R, Nat)
  BY NatLessThanWellFounded, Zenon DEF OpToRel
<1>2. \E m \in T : \A k \in T : <<k, m>> \notin R
  <2> HIDE DEF R
  <2>q. QED BY <1>1, WFMin, Zenon
<1>3. PICK m \in T : \A k \in T : <<k, m>> \notin R
  BY <1>2
<1>4. ASSUME NEW k \in T
      PROVE  m <= k
  <2>1. ~(k < m)
    BY <1>3
  <2>q. QED BY <2>1
<1>q. QED BY <1>4

(* Every size is a positive number, and fits in a chunk.                   *)
LEMMA Sizes == \A s \in Size : s \in Nat /\ s >= 1 /\ s <= Chunk
BY SizeAssumption

(* Cilk_internal_malloc_canonicalize finds a size, and it is large enough. *)
LEMMA Canonical ==
  ASSUME NEW r \in Request
  PROVE  Canonicalize(r) \in Size /\ r <= Canonicalize(r)
<1> DEFINE T == {s \in Size : r <= s}
<1>1. T \in SUBSET Nat
  BY Sizes
<1>2. T # {}
  <2>1. PICK s \in Size : r <= s
    BY RequestAssumption
  <2>2. s \in T
    BY <2>1
  <2>q. QED BY <2>2
<1>3. PICK m \in T : \A k \in T : m <= k
  <2> HIDE DEF T
  <2>q. QED BY <1>1, <1>2, Least
<1>4. \E s \in Size : r <= s /\ \A t \in Size : r <= t => s <= t
  BY <1>3
<1>q. QED BY <1>4 DEF Canonicalize

(* A finite set that loses an element has one fewer.                       *)
LEMMA OneLess ==
  ASSUME NEW S, IsFiniteSet(S), NEW x \in S
  PROVE  /\ IsFiniteSet(S \ {x}) /\ Cardinality(S \ {x}) \in Int
         /\ Cardinality(S \ {x}) = Cardinality(S) - 1
BY FS_RemoveElement, FS_CardinalityType

(* The same of a set that gains an element.                                *)
LEMMA OneMore ==
  ASSUME NEW S, IsFiniteSet(S), NEW x, x \notin S
  PROVE  /\ IsFiniteSet(S \cup {x}) /\ Cardinality(S \cup {x}) \in Int
         /\ Cardinality(S \cup {x}) = Cardinality(S) + 1
BY FS_AddElement, FS_CardinalityType

(* At the start the program has nothing and every count is a whole batch.  *)
LEMMA InitIInv == Init => IInv
<1> SUFFICES ASSUME Init PROVE IInv
  OBVIOUS
<1> USE OwnerAssumption, BatchAssumption DEF Init
<1>1. TypeOK
  BY SizeAssumption DEF TypeOK, Owner, Nobody, NoOp
<1>2. Mallocing = {} /\ Freeing = {} /\ Blocks = {}
  BY DEF Mallocing, Freeing, Blocks, Listed, InHand, NoOp
<1>3. InOnePlace /\ NoOverlap
  BY <1>2 DEF InOnePlace, NoOverlap
<1>4. CountsMatch
  BY FS_EmptySet DEF CountsMatch
<1>5. LockInv
  BY <1>2 DEF LockInv, Nobody
<1>6. PoolInv
  BY <1>2, FS_EmptySet DEF PoolInv
<1>q. QED BY <1>1, <1>3, <1>4, <1>5, <1>6 DEF IInv

(* An element that moves from one set of a family to another.              *)
LEMMA Moved ==
  ASSUME NEW I, NEW S, NEW f \in [I -> SUBSET S], NEW i \in I, NEW j \in I, NEW b \in f[i]
  PROVE  [f EXCEPT ![i] = @ \ {b}, ![j] = @ \cup {b}] \in [I -> SUBSET S]
<1>1. b \in S
  OBVIOUS
<1>2. [f EXCEPT ![i] = @ \ {b}] \in [I -> SUBSET S]
  OBVIOUS
<1>q. QED BY <1>1, <1>2

(***************************************************************************)
(* Types.                                                                  *)
(***************************************************************************)
LEMMA TypeStep == IInv /\ [Next]_vars => TypeOK'
<1> SUFFICES ASSUME IInv, [Next]_vars PROVE TypeOK'
  OBVIOUS
<1> USE Sizes, OwnerAssumption, BatchAssumption, Canonical DEF IInv, TypeOK, Become, GiveOut, TakeBack, Owner, Nobody
<1>0. HalfBatch \in Nat
  BY DEF HalfBatch
<1>1. ASSUME NEW w \in Worker, NEW r \in Request, Pop(w, r)
      PROVE  /\ free' \in [Owner \X Size -> SUBSET Block] /\ count' \in [Owner \X Size -> Int]
             /\ held' \subseteq Block /\ asked' \in [held' -> Request]
  <2>1. PICK b \in free[<<w, Canonicalize(r)>>] :
           /\ free' = [free EXCEPT ![<<w, Canonicalize(r)>>] = @ \ {b}]
           /\ count' = [count EXCEPT ![<<w, Canonicalize(r)>>] = @ + 1]
           /\ GiveOut(b, r)
    BY <1>1 DEF Pop
  <2>2. <<w, Canonicalize(r)>> \in Owner \X Size /\ b \in Block
    BY <2>1
  <2>3. count[<<w, Canonicalize(r)>>] \in Int
    BY <2>2
  <2>q. QED BY <2>1, <2>2, <2>3
<1>2. ASSUME NEW w \in Worker, NEW b \in Block, Push(w, b)
      PROVE  free' \in [Owner \X Size -> SUBSET Block] /\ count' \in [Owner \X Size -> Int]
  <2>1. <<w, b.size>> \in Owner \X Size
    BY DEF Block
  <2>2. count[<<w, b.size>>] \in Int
    BY <2>1
  <2>q. QED BY <1>2, <2>1, <2>2 DEF Push
<1>3. ASSUME NEW w \in Worker, NEW r \in Request, Malloc(w, r)
      PROVE  TypeOK'
  <2>1. used' \in Int
    BY <1>3, RequestAssumption DEF Malloc
  <2>2. CASE free[<<w, Canonicalize(r)>>] # {}
    BY <1>1, <1>3, <2>1, <2>2 DEF Malloc
  <2>3. CASE free[<<w, Canonicalize(r)>>] = {}
    BY <1>3, <2>1, <2>3 DEF Malloc
  <2>q. QED BY <2>2, <2>3
<1>4. ASSUME NEW w \in Worker, MallocDone(w)
      PROVE  TypeOK'
  <2>1. op[w].request \in Request
    BY <1>4 DEF MallocDone, NoOp
  <2>q. QED BY <1>1, <1>4, <2>1 DEF MallocDone
<1>5. ASSUME NEW w \in Worker, AllocateBatch(w)
      PROVE  TypeOK'
  BY <1>0, <1>5 DEF AllocateBatch, NoOp
<1>6. ASSUME NEW w \in Worker, AllocateOne(w)
      PROVE  TypeOK'
  <2> DEFINE s == Canonicalize(op[w].request)
  <2>1. s \in Size
    BY <1>6 DEF AllocateOne, NoOp
  <2>2. <<w, s>> \in Owner \X Size /\ <<Global, s>> \in Owner \X Size
    BY <2>1
  <2>3. /\ free' \in [Owner \X Size -> SUBSET Block] /\ count' \in [Owner \X Size -> Int]
        /\ pool' \in [chunk : Nat, begin : 0 .. Chunk, end : {0, Chunk}]
    <3> HIDE DEF s
    <3>1. CASE \E b \in free[<<Global, s>>] :
             /\ free' = [free EXCEPT ![<<Global, s>>] = Rest(@, b), ![<<w, s>>] = @ \cup {b}]
             /\ count' = [count EXCEPT ![<<Global, s>>] = @ + 1, ![<<w, s>>] = @ - 1]
             /\ UNCHANGED pool
      <4>1. PICK b \in free[<<Global, s>>] :
             /\ free' = [free EXCEPT ![<<Global, s>>] = Rest(@, b), ![<<w, s>>] = @ \cup {b}]
             /\ count' = [count EXCEPT ![<<Global, s>>] = @ + 1, ![<<w, s>>] = @ - 1]
             /\ UNCHANGED pool
        BY <3>1
      <4>2. b \in Block
        BY <2>2
      <4>3. free' \in [Owner \X Size -> SUBSET Block]
        BY <2>2, <4>1, <4>2 DEF Rest
      <4>4. count' \in [Owner \X Size -> Int]
        <5>1. count \in [Owner \X Size -> Int]
          OBVIOUS
        <5> HIDE Sizes, OwnerAssumption, BatchAssumption, Canonical
            DEF IInv, TypeOK, Become, GiveOut, TakeBack, Owner, Nobody
        <5>q. QED BY <2>2, <4>1, <5>1
      <4>q. QED BY <4>1, <4>3, <4>4
    <3>2. CASE /\ pool' = Cut(s)
               /\ free' = [free EXCEPT ![<<w, s>>] = @ \cup
                     {[chunk |-> pool'.chunk, at |-> pool'.begin - s, size |-> s]}]
               /\ count' = [count EXCEPT ![<<w, s>>] = @ - 1]
      <4>1. s \in Nat /\ s <= Chunk /\ Chunk \in Nat
        BY <2>1, SizeAssumption
      <4>2. /\ pool' \in [chunk : Nat, begin : 0 .. Chunk, end : {0, Chunk}]
            /\ pool'.begin - s \in Nat
        BY <3>2, <4>1 DEF Cut, Fits
      <4>3. [chunk |-> pool'.chunk, at |-> pool'.begin - s, size |-> s] \in Block
        BY <2>1, <4>2 DEF Block
      <4>4. free' \in [Owner \X Size -> SUBSET Block]
        BY <2>2, <3>2, <4>3
      <4>5. count' \in [Owner \X Size -> Int]
        BY <2>2, <3>2
      <4>q. QED BY <4>2, <4>4, <4>5
    <3>q. QED BY <1>6, <3>1, <3>2 DEF AllocateOne, Allocated, s
  <2>4. used' \in Int
    BY <1>6, <2>1 DEF AllocateOne, ToWorker
  <2>5. op' \in [Worker -> {NoOp}
                \cup [kind : {"malloc"}, request : Request, left : Nat]
                \cup [kind : {"free"}, block : Block, request : Request, left : Nat]]
    BY <1>6 DEF AllocateOne, NoOp
  <2>q. QED BY <1>6, <2>3, <2>4, <2>5 DEF AllocateOne
<1>7. ASSUME NEW w \in Worker, NEW b \in held, Free(w, b)
      PROVE  TypeOK'
  <2>1. used' \in Int /\ b \in Block
    BY <1>7, RequestAssumption DEF Free
  <2>2. held' \subseteq Block /\ asked' \in [held' -> Request]
    BY <1>7 DEF Free
  <2>3. CASE count[<<w, b.size>>] > 0
    BY <1>2, <1>7, <2>1, <2>2, <2>3 DEF Free
  <2>4. CASE ~(count[<<w, b.size>>] > 0)
    <3>1. op' = [op EXCEPT ![w] = [kind |-> "free", block |-> b, request |-> asked[b], left |-> 0]]
      BY <1>7, <2>4 DEF Free
    <3>2. asked[b] \in Request
      OBVIOUS
    <3>3. op' \in [Worker -> {NoOp}
                  \cup [kind : {"malloc"}, request : Request, left : Nat]
                  \cup [kind : {"free"}, block : Block, request : Request, left : Nat]]
      <4>1. op \in [Worker -> {NoOp}
                  \cup [kind : {"malloc"}, request : Request, left : Nat]
                  \cup [kind : {"free"}, block : Block, request : Request, left : Nat]]
        OBVIOUS
      <4> HIDE Sizes, OwnerAssumption, BatchAssumption, Canonical
          DEF IInv, TypeOK, Become, GiveOut, TakeBack, Owner, Nobody
      <4>q. QED BY <2>1, <3>1, <3>2, <4>1
    <3>q. QED BY <1>7, <2>1, <2>2, <2>4, <3>3 DEF Free
  <2>q. QED BY <2>3, <2>4
<1>8. ASSUME NEW w \in Worker, FreeDone(w)
      PROVE  TypeOK'
  <2>1. op[w].block \in Block
    BY <1>8 DEF FreeDone, NoOp
  <2>q. QED BY <1>2, <1>8, <2>1 DEF FreeDone
<1>9. ASSUME NEW w \in Worker, FreeBatch(w)
      PROVE  TypeOK'
  BY <1>0, <1>9 DEF FreeBatch, NoOp
<1>10. ASSUME NEW w \in Worker, FreeOne(w)
       PROVE  TypeOK'
  <2> DEFINE s == op[w].block.size
             r == op[w].request
  <2>1. s \in Size /\ r \in Nat
    BY <1>10, RequestAssumption DEF FreeOne, NoOp, Block
  <2>2. <<w, s>> \in Owner \X Size /\ <<Global, s>> \in Owner \X Size
    BY <2>1
  <2>3. /\ \E b \in free[<<w, s>>] :
             free' = [free EXCEPT ![<<w, s>>] = @ \ {b}, ![<<Global, s>>] = @ \cup {b}]
        /\ count' = [count EXCEPT ![<<w, s>>] = @ + 1, ![<<Global, s>>] = @ - 1]
        /\ used' = (used + r) - r
    BY <1>10 DEF FreeOne
  <2>4. op' \in [Worker -> {NoOp}
                \cup [kind : {"malloc"}, request : Request, left : Nat]
                \cup [kind : {"free"}, block : Block, request : Request, left : Nat]]
    BY <1>10 DEF FreeOne, NoOp
  <2>5. free' \in [Owner \X Size -> SUBSET Block]
    <3>1. free \in [Owner \X Size -> SUBSET Block]
      OBVIOUS
    <3> HIDE Sizes, OwnerAssumption, BatchAssumption, Canonical
        DEF s, r, IInv, TypeOK, Become, GiveOut, TakeBack, Owner, Nobody
    <3>2. PICK b \in free[<<w, s>>] :
             free' = [free EXCEPT ![<<w, s>>] = @ \ {b}, ![<<Global, s>>] = @ \cup {b}]
      BY <2>3
    <3>q. QED BY <2>2, <3>1, <3>2, Moved
  <2>6. count' \in [Owner \X Size -> Int]
    <3>1. count \in [Owner \X Size -> Int]
      OBVIOUS
    <3> HIDE Sizes, OwnerAssumption, BatchAssumption, Canonical
        DEF s, r, IInv, TypeOK, Become, GiveOut, TakeBack, Owner, Nobody
    <3>q. QED BY <2>2, <2>3, <3>1
  <2>7. used' \in Int
    <3> HIDE DEF s, r
    <3>q. QED BY <2>1, <2>3
  <2>q. QED BY <1>10, <2>4, <2>5, <2>6, <2>7 DEF FreeOne
<1>11. ASSUME NEW w \in Worker, Unlock(w)
       PROVE  TypeOK'
  BY <1>11 DEF Unlock
<1>12. CASE UNCHANGED vars
  BY <1>12 DEF vars
<1>q. QED
  BY <1>3, <1>4, <1>5, <1>6, <1>7, <1>8, <1>9, <1>10, <1>11, <1>12 DEF Next, Step

(***************************************************************************)
(* What the moves do to the lists, seen one list at a time.                *)
(***************************************************************************)
List == Owner \X Size
Loses(d, b) == /\ b \in free[d]
               /\ \A e \in List : free'[e] = IF e = d THEN free[e] \ {b} ELSE free[e]
               /\ \A e \in List : count'[e] = IF e = d THEN count[e] + 1 ELSE count[e]
Gains(d, b) == /\ \A e \in List : free'[e] = IF e = d THEN free[e] \cup {b} ELSE free[e]
               /\ \A e \in List : count'[e] = IF e = d THEN count[e] - 1 ELSE count[e]
Passes(d, c, b) ==
    /\ b \in free[d] /\ d # c
    /\ \A e \in List : free'[e] = IF e = d THEN free[e] \ {b}
                                  ELSE IF e = c THEN free[e] \cup {b} ELSE free[e]
    /\ \A e \in List : count'[e] = IF e = d THEN count[e] + 1
                                   ELSE IF e = c THEN count[e] - 1 ELSE count[e]
NewBlock(s) == [chunk |-> pool'.chunk, at |-> pool'.begin - s, size |-> s]

(* Cilk_internal_malloc's fast path takes a block from the worker's list.  *)
LEMMA PopMoves ==
  ASSUME TypeOK, NEW w \in Worker, NEW r \in Request, Pop(w, r)
  PROVE  /\ <<w, Canonicalize(r)>> \in List
         /\ \E b \in Block : Loses(<<w, Canonicalize(r)>>, b) /\ GiveOut(b, r)
<1> DEFINE d == <<w, Canonicalize(r)>>
<1>1. d \in List
  BY Canonical DEF List, Owner
<1>2. PICK b \in free[d] : /\ free' = [free EXCEPT ![d] = @ \ {b}]
                           /\ count' = [count EXCEPT ![d] = @ + 1]
                           /\ GiveOut(b, r)
  BY DEF Pop
<1> HIDE DEF d
<1>3. b \in Block
  BY <1>1 DEF TypeOK, List
<1>4. Loses(d, b)
  BY <1>1, <1>2 DEF TypeOK, List, Loses
<1>q. QED BY <1>1, <1>2, <1>3, <1>4 DEF d

(* Cilk_internal_free's fast path puts one into the worker's list.         *)
LEMMA PushMoves ==
  ASSUME TypeOK, NEW w \in Worker, NEW b \in Block, Push(w, b)
  PROVE  <<w, b.size>> \in List /\ Gains(<<w, b.size>>, b)
<1> DEFINE d == <<w, b.size>>
<1>1. d \in List
  BY DEF List, Owner, Block
<1>2. /\ free' = [free EXCEPT ![d] = @ \cup {b}]
      /\ count' = [count EXCEPT ![d] = @ - 1]
  BY DEF Push
<1> HIDE DEF d
<1>3. Gains(d, b)
  BY <1>1, <1>2 DEF TypeOK, List, Gains
<1>q. QED BY <1>1, <1>3 DEF d

(* im_allocate_batch moves a global block, or makes a new one.             *)
LEMMA AllocateMoves ==
  ASSUME TypeOK, NEW w \in Worker, NEW s \in Size, Allocated(w, s)
  PROVE  \/ /\ \E b \in Block : Passes(<<Global, s>>, <<w, s>>, b)
            /\ pool' = pool
         \/ Gains(<<w, s>>, NewBlock(s)) /\ pool' = Cut(s)
<1> DEFINE d == <<w, s>>
           g == <<Global, s>>
<1>1. d \in List /\ g \in List /\ d # g
  BY OwnerAssumption DEF List, Owner
<1>2. \/ \E b \in free[g] :
             /\ free' = [free EXCEPT ![g] = @ \ {b}, ![d] = @ \cup {b}]
             /\ count' = [count EXCEPT ![g] = @ + 1, ![d] = @ - 1]
             /\ pool' = pool
      \/ /\ pool' = Cut(s)
         /\ free' = [free EXCEPT ![d] = @ \cup {NewBlock(s)}]
         /\ count' = [count EXCEPT ![d] = @ - 1]
  BY DEF Allocated, Rest, NewBlock
<1> HIDE DEF d, g
<1>3. CASE \E b \in free[g] :
             /\ free' = [free EXCEPT ![g] = @ \ {b}, ![d] = @ \cup {b}]
             /\ count' = [count EXCEPT ![g] = @ + 1, ![d] = @ - 1]
             /\ pool' = pool
  <2>1. PICK b \in free[g] :
             /\ free' = [free EXCEPT ![g] = @ \ {b}, ![d] = @ \cup {b}]
             /\ count' = [count EXCEPT ![g] = @ + 1, ![d] = @ - 1]
             /\ pool' = pool
    BY <1>3
  <2>2. b \in Block
    BY <1>1 DEF TypeOK, List
  <2>3. \A e \in List : free'[e] = IF e = g THEN free[e] \ {b}
                                  ELSE IF e = d THEN free[e] \cup {b} ELSE free[e]
    BY <1>1, <2>1 DEF TypeOK, List
  <2>4. \A e \in List : count'[e] = IF e = g THEN count[e] + 1
                                   ELSE IF e = d THEN count[e] - 1 ELSE count[e]
    BY <1>1, <2>1 DEF TypeOK, List
  <2>5. Passes(g, d, b)
    BY <1>1, <2>1, <2>3, <2>4 DEF Passes
  <2>q. QED BY <2>1, <2>2, <2>5 DEF d, g
<1>4. CASE /\ pool' = Cut(s)
           /\ free' = [free EXCEPT ![d] = @ \cup {NewBlock(s)}]
           /\ count' = [count EXCEPT ![d] = @ - 1]
  <2>1. Gains(d, NewBlock(s))
    BY <1>1, <1>4 DEF TypeOK, List, Gains
  <2>q. QED BY <1>4, <2>1 DEF d
<1>q. QED BY <1>2, <1>3, <1>4

(* im_free_batch moves a block to the global list of its size.             *)
LEMMA FreeOneMoves ==
  ASSUME TypeOK, NEW w \in Worker, FreeOne(w)
  PROVE  /\ op[w].block.size \in Size
         /\ \E b \in Block : Passes(<<w, op[w].block.size>>, <<Global, op[w].block.size>>, b)
<1> DEFINE s == op[w].block.size
           d == <<w, s>>
           g == <<Global, s>>
<1>1. s \in Size
  BY DEF FreeOne, NoOp, TypeOK, Block
<1>2. d \in List /\ g \in List /\ d # g
  BY <1>1, OwnerAssumption DEF List, Owner
<1>3. /\ \E b \in free[d] : free' = [free EXCEPT ![d] = @ \ {b}, ![g] = @ \cup {b}]
      /\ count' = [count EXCEPT ![d] = @ + 1, ![g] = @ - 1]
  BY DEF FreeOne
<1> HIDE DEF d, g, s
<1>4. PICK b \in free[d] : free' = [free EXCEPT ![d] = @ \ {b}, ![g] = @ \cup {b}]
  BY <1>3
<1>5. b \in Block
  BY <1>2 DEF TypeOK, List
<1>6. Passes(d, g, b)
  BY <1>2, <1>3, <1>4 DEF TypeOK, List, Passes
<1>q. QED BY <1>1, <1>5, <1>6 DEF d, g, s

(***************************************************************************)
(* count + length = a batch.                                               *)
(***************************************************************************)
Counted == /\ CountsMatch
           /\ \A d \in List : IsFiniteSet(free[d])

(* A move leaves count and length of the lists adding up to a batch.       *)
LEMMA LosesCounts ==
  ASSUME TypeOK, Counted, NEW d \in List, NEW b, Loses(d, b)
  PROVE  Counted'
<1> USE DEF Counted, CountsMatch, Loses
<1> SUFFICES ASSUME NEW e \in List
             PROVE  count'[e] + Cardinality(free'[e]) = Batch /\ IsFiniteSet(free'[e])
  BY DEF List
<1>1. /\ count[e] \in Int /\ count[e] + Cardinality(free[e]) = Batch
      /\ IsFiniteSet(free[e]) /\ Cardinality(free[e]) \in Nat
  BY FS_CardinalityType DEF TypeOK, List
<1>2. CASE e = d
  <2>1. /\ IsFiniteSet(free[e] \ {b})
        /\ Cardinality(free[e] \ {b}) = Cardinality(free[e]) - 1
    BY <1>1, <1>2, OneLess
  <2>2. free'[e] = free[e] \ {b} /\ count'[e] = count[e] + 1
    BY <1>2
  <2>q. QED BY <1>1, <2>1, <2>2
<1>3. CASE e # d
  BY <1>1, <1>3
<1>q. QED BY <1>2, <1>3

(* So does a block that enters a list it was not in.                       *)
LEMMA GainsCounts ==
  ASSUME TypeOK, Counted, NEW d \in List, NEW b, b \notin free[d], Gains(d, b)
  PROVE  Counted'
<1> USE DEF Counted, CountsMatch, Gains
<1> SUFFICES ASSUME NEW e \in List
             PROVE  count'[e] + Cardinality(free'[e]) = Batch /\ IsFiniteSet(free'[e])
  BY DEF List
<1>1. /\ count[e] \in Int /\ count[e] + Cardinality(free[e]) = Batch
      /\ IsFiniteSet(free[e]) /\ Cardinality(free[e]) \in Nat
  BY FS_CardinalityType DEF TypeOK, List
<1>2. CASE e = d
  <2>1. /\ IsFiniteSet(free[e] \cup {b})
        /\ Cardinality(free[e] \cup {b}) = Cardinality(free[e]) + 1
    BY <1>1, <1>2, OneMore
  <2>2. free'[e] = free[e] \cup {b} /\ count'[e] = count[e] - 1
    BY <1>2
  <2>q. QED BY <1>1, <2>1, <2>2
<1>3. CASE e # d
  BY <1>1, <1>3
<1>q. QED BY <1>2, <1>3

(* So does one that goes from a list to another.                           *)
LEMMA PassesCounts ==
  ASSUME TypeOK, Counted, NEW d \in List, NEW c \in List, NEW b, b \notin free[c], Passes(d, c, b)
  PROVE  Counted'
<1> USE DEF Counted, CountsMatch, Passes
<1> SUFFICES ASSUME NEW e \in List
             PROVE  count'[e] + Cardinality(free'[e]) = Batch /\ IsFiniteSet(free'[e])
  BY DEF List
<1>1. /\ count[e] \in Int /\ count[e] + Cardinality(free[e]) = Batch
      /\ IsFiniteSet(free[e]) /\ Cardinality(free[e]) \in Nat
  BY FS_CardinalityType DEF TypeOK, List
<1>2. CASE e = d
  <2>1. /\ IsFiniteSet(free[e] \ {b})
        /\ Cardinality(free[e] \ {b}) = Cardinality(free[e]) - 1
    BY <1>1, <1>2, OneLess
  <2>2. free'[e] = free[e] \ {b} /\ count'[e] = count[e] + 1
    BY <1>2
  <2>q. QED BY <1>1, <2>1, <2>2
<1>3. CASE e = c
  <2>1. /\ IsFiniteSet(free[e] \cup {b})
        /\ Cardinality(free[e] \cup {b}) = Cardinality(free[e]) + 1
    BY <1>1, <1>3, OneMore
  <2>2. free'[e] = free[e] \cup {b} /\ count'[e] = count[e] - 1
    BY <1>3
  <2>q. QED BY <1>1, <2>1, <2>2
<1>4. CASE e # d /\ e # c
  BY <1>1, <1>4
<1>q. QED BY <1>2, <1>3, <1>4

(***************************************************************************)
(* Where the blocks are.                                                   *)
(***************************************************************************)
SameHands == Freeing' = Freeing /\ \A v \in Freeing : op'[v].block = op[v].block

(* The moves, one block at a time.                                         *)
LEMMA LosesBlock ==
  ASSUME NEW d \in List, NEW b, Loses(d, b)
  PROVE  \A e \in List : \A x : x \in free'[e] <=> x \in free[e] /\ ~(e = d /\ x = b)
<1> SUFFICES ASSUME NEW e \in List, NEW x
             PROVE  x \in free'[e] <=> x \in free[e] /\ ~(e = d /\ x = b)
  OBVIOUS
<1>1. CASE e = d
  <2>1. free'[e] = free[e] \ {b}
    BY <1>1 DEF Loses
  <2>q. QED BY <1>1, <2>1
<1>2. CASE e # d
  <2>1. free'[e] = free[e]
    BY <1>2 DEF Loses
  <2>q. QED BY <1>2, <2>1
<1>q. QED BY <1>1, <1>2

(* Who has what, after a list gains a block.                               *)
LEMMA GainsBlock ==
  ASSUME NEW d \in List, NEW b, Gains(d, b)
  PROVE  \A e \in List : \A x : x \in free'[e] <=> x \in free[e] \/ (e = d /\ x = b)
<1> SUFFICES ASSUME NEW e \in List, NEW x
             PROVE  x \in free'[e] <=> x \in free[e] \/ (e = d /\ x = b)
  OBVIOUS
<1>1. CASE e = d
  <2>1. free'[e] = free[e] \cup {b}
    BY <1>1 DEF Gains
  <2>q. QED BY <1>1, <2>1
<1>2. CASE e # d
  <2>1. free'[e] = free[e]
    BY <1>2 DEF Gains
  <2>q. QED BY <1>2, <2>1
<1>q. QED BY <1>1, <1>2

(* Who has what, after a block passes from a list to another.              *)
LEMMA PassesBlock ==
  ASSUME NEW d \in List, NEW c \in List, NEW b, Passes(d, c, b)
  PROVE  \A e \in List : \A x : x \in free'[e] <=> (x \in free[e] /\ ~(e = d /\ x = b)) \/ (e = c /\ x = b)
<1> SUFFICES ASSUME NEW e \in List, NEW x
             PROVE  x \in free'[e] <=> (x \in free[e] /\ ~(e = d /\ x = b)) \/ (e = c /\ x = b)
  OBVIOUS
<1>0. d # c
  BY DEF Passes
<1>1. CASE e = d
  <2>1. free'[e] = free[e] \ {b}
    BY <1>1 DEF Passes
  <2>q. QED BY <1>0, <1>1, <2>1
<1>2. CASE e = c
  <2>1. free'[e] = free[e] \cup {b}
    BY <1>0, <1>2 DEF Passes
  <2>q. QED BY <1>0, <1>2, <2>1
<1>3. CASE e # d /\ e # c
  <2>1. free'[e] = free[e]
    BY <1>3 DEF Passes
  <2>q. QED BY <1>3, <2>1
<1>q. QED BY <1>1, <1>2, <1>3

(* InOnePlace, with the lists named.                                       *)
Placed ==
    /\ \A d \in List : \A b \in free[d] : b.size = d[2] /\ b \notin held
    /\ \A d, e \in List : d # e => \A b \in free[d] : b \notin free[e]
    /\ \A v \in Freeing : /\ op[v].block \notin held
                          /\ \A d \in List : op[v].block \notin free[d]
    /\ \A v, u \in Freeing : v # u => op[v].block # op[u].block

(* The two say the same.                                                   *)
LEMMA PlacedIs == InOnePlace <=> Placed
BY DEF InOnePlace, Placed, List

(* Where a block can be.                                                   *)
LEMMA WhereList ==
  ASSUME NEW b
  PROVE  b \in Blocks <=> \/ b \in held
                          \/ \E d \in List : b \in free[d]
                          \/ \E w \in Freeing : b = op[w].block
BY DEF Blocks, Listed, InHand, List

(* A step that makes no block keeps them apart.                            *)
LEMMA NoNewBlock ==
  ASSUME IInv, UNCHANGED pool, \A b \in Blocks' : b \in Blocks,
         \A b \in held' : asked'[b] <= b.size
  PROVE  NoOverlap' /\ \A b \in Blocks' : Below(b)'
BY DEF IInv, NoOverlap, PoolInv, Apart, Below

(* A block goes from a list to the program.                                *)
LEMMA PopKeeps ==
  ASSUME IInv, NEW w \in Worker, NEW r \in Request, Pop(w, r), SameHands, UNCHANGED pool
  PROVE  InOnePlace' /\ NoOverlap' /\ PoolInv' /\ CountsMatch'
<1> DEFINE d == <<w, Canonicalize(r)>>
<1>1. PICK b \in Block : Loses(d, b) /\ GiveOut(b, r) /\ d \in List
  BY PopMoves DEF IInv
<1>2. r <= d[2] /\ b.size = d[2]
  BY <1>1, Canonical, PlacedIs DEF IInv, Placed, Loses
<1> HIDE DEF d
<1>a. /\ b \in free[d] /\ held' = held \cup {b}
      /\ \A e \in List : \A x : x \in free'[e] <=> x \in free[e] /\ ~(e = d /\ x = b)
  BY <1>1, LosesBlock DEF Loses, GiveOut
<1>b. Placed
  BY PlacedIs DEF IInv
<1>3. InOnePlace'
  <2>1. \A e \in List : \A c \in free'[e] : c.size = e[2] /\ c \notin held'
    BY <1>1, <1>a, <1>b DEF Placed
  <2>2. \A e, f \in List : e # f => \A c \in free'[e] : c \notin free'[f]
    BY <1>a, <1>b DEF Placed
  <2>3. \A v \in Freeing' : /\ op'[v].block \notin held'
                          /\ \A e \in List : op'[v].block \notin free'[e]
    BY <1>1, <1>a, <1>b DEF Placed, SameHands
  <2>4. \A v, x \in Freeing' : v # x => op'[v].block # op'[x].block
    BY PlacedIs DEF IInv, Placed, SameHands
  <2>q. QED BY <2>1, <2>2, <2>3, <2>4 DEF InOnePlace, List
<1>4. Counted'
  BY <1>1, LosesCounts DEF IInv, Counted, PoolInv, List
<1>5. ASSUME NEW c \in Blocks'
      PROVE  c \in Blocks
  <2>1. \/ c \in held'
        \/ \E e \in List : c \in free'[e]
        \/ \E v \in Freeing' : c = op'[v].block
    BY DEF Blocks, Listed, InHand, List
  <2>2. CASE c \in held'
    BY <1>a, <2>2, WhereList, <1>1
  <2>3. ASSUME NEW e \in List, c \in free'[e]
        PROVE  c \in Blocks
    BY <1>a, <2>3, WhereList
  <2>4. ASSUME NEW v \in Freeing', c = op'[v].block
        PROVE  c \in Blocks
    BY <2>4, WhereList DEF SameHands
  <2>q. QED BY <2>1, <2>2, <2>3, <2>4
<1>6. ASSUME NEW c \in held'
      PROVE  asked'[c] <= c.size
  BY <1>1, <1>2 DEF GiveOut, IInv, NoOverlap
<1>7. NoOverlap' /\ \A c \in Blocks' : Below(c)'
  BY <1>5, <1>6, NoNewBlock
<1>q. QED BY <1>3, <1>4, <1>7 DEF Counted, PoolInv, List

(* A block goes from the program, or from a hand, to a list.               *)
LEMMA PushKeeps ==
  ASSUME IInv, NEW w \in Worker, NEW b \in Block, Push(w, b), UNCHANGED pool,
         b \in Blocks, \A d \in List : b \notin free[d],
         held' \subseteq held \ {b}, \A c \in held' : asked'[c] = asked[c],
         Freeing' \subseteq Freeing,
         \A v \in Freeing' : op'[v].block = op[v].block /\ op[v].block # b
  PROVE  InOnePlace' /\ NoOverlap' /\ PoolInv' /\ CountsMatch'
<1> DEFINE d == <<w, b.size>>
<1>1. Gains(d, b) /\ d \in List
  BY PushMoves DEF IInv
<1>2. b.size = d[2]
  OBVIOUS
<1> HIDE DEF d
<1>3. InOnePlace'
  <2>1. \A e \in List : \A c \in free'[e] : c.size = e[2] /\ c \notin held'
    BY <1>1, <1>2, PlacedIs, GainsBlock DEF IInv, Placed
  <2>2. \A e, f \in List : e # f => \A c \in free'[e] : c \notin free'[f]
    BY <1>1, PlacedIs, GainsBlock DEF IInv, Placed
  <2>3. \A v \in Freeing' : /\ op'[v].block \notin held'
                          /\ \A e \in List : op'[v].block \notin free'[e]
    BY <1>1, PlacedIs, GainsBlock DEF IInv, Placed
  <2>4. \A v, x \in Freeing' : v # x => op'[v].block # op'[x].block
    BY DEF IInv, InOnePlace
  <2>q. QED BY <2>1, <2>2, <2>3, <2>4 DEF InOnePlace, List
<1>4. Counted'
  BY <1>1, GainsCounts DEF IInv, Counted, PoolInv, List
<1>5. ASSUME NEW c \in Blocks'
      PROVE  c \in Blocks
  <2>1. \/ c \in held'
        \/ \E e \in List : c \in free'[e]
        \/ \E v \in Freeing' : c = op'[v].block
    BY DEF Blocks, Listed, InHand, List
  <2>2. CASE c \in held'
    BY <2>2, WhereList
  <2>3. CASE \E e \in List : c \in free'[e]
    BY <1>1, <2>3, WhereList, GainsBlock
  <2>4. CASE \E v \in Freeing' : c = op'[v].block
    BY <2>4, WhereList
  <2>q. QED BY <2>1, <2>2, <2>3, <2>4
<1>6. ASSUME NEW c \in held'
      PROVE  asked'[c] <= c.size
  BY DEF IInv, NoOverlap
<1>7. NoOverlap' /\ \A c \in Blocks' : Below(c)'
  BY <1>5, <1>6, NoNewBlock
<1>q. QED BY <1>3, <1>4, <1>7 DEF Counted, PoolInv, List

(* A block goes from one list of its size to the other.                    *)
LEMMA PassKeeps ==
  ASSUME IInv, NEW d \in List, NEW c \in List, d[2] = c[2], NEW b \in Block,
         Passes(d, c, b), SameHands, UNCHANGED <<pool, held, asked>>
  PROVE  InOnePlace' /\ NoOverlap' /\ PoolInv' /\ CountsMatch'
<1>a. /\ b \in free[d] /\ d # c
      /\ \A e \in List : \A x :
            x \in free'[e] <=> (x \in free[e] /\ ~(e = d /\ x = b)) \/ (e = c /\ x = b)
  <2>1. b \in free[d] /\ d # c
    BY DEF Passes
  <2>q. QED BY <2>1, PassesBlock
<1>b. Placed
  BY PlacedIs DEF IInv
<1>1. InOnePlace'
  <2>1. \A e \in List : \A x \in free'[e] : x.size = e[2] /\ x \notin held'
    BY <1>a, <1>b DEF Placed
  <2>2. \A e, f \in List : e # f => \A x \in free'[e] : x \notin free'[f]
    BY <1>a, <1>b DEF Placed
  <2>3. \A v \in Freeing' : /\ op'[v].block \notin held'
                          /\ \A e \in List : op'[v].block \notin free'[e]
    BY <1>a, <1>b DEF Placed, SameHands
  <2>4. \A v, u \in Freeing' : v # u => op'[v].block # op'[u].block
    BY PlacedIs DEF IInv, Placed, SameHands
  <2>q. QED BY <2>1, <2>2, <2>3, <2>4 DEF InOnePlace, List
<1>2. Counted'
  <2>1. b \notin free[c]
    BY <1>a, <1>b DEF Placed
  <2>q. QED BY <2>1, PassesCounts DEF IInv, Counted, PoolInv, List
<1>3. ASSUME NEW x \in Blocks'
      PROVE  x \in Blocks
  <2>1. \/ x \in held'
        \/ \E e \in List : x \in free'[e]
        \/ \E v \in Freeing' : x = op'[v].block
    BY DEF Blocks, Listed, InHand, List
  <2>2. CASE x \in held'
    BY <2>2, WhereList
  <2>3. CASE \E e \in List : x \in free'[e]
    BY <1>a, <2>3, WhereList
  <2>4. CASE \E v \in Freeing' : x = op'[v].block
    BY <2>4, WhereList DEF SameHands
  <2>q. QED BY <2>1, <2>2, <2>3, <2>4
<1>4. ASSUME NEW x \in held'
      PROVE  asked'[x] <= x.size
  BY DEF IInv, NoOverlap
<1>5. NoOverlap' /\ \A x \in Blocks' : Below(x)'
  BY <1>3, <1>4, NoNewBlock
<1>q. QED BY <1>1, <1>2, <1>5 DEF Counted, PoolInv, List

(* A new block starts where the others in the latest chunk end.            *)
LEMMA CutKeeps ==
  ASSUME IInv, NEW w \in Worker, NEW s \in Size, Gains(<<w, s>>, NewBlock(s)), pool' = Cut(s),
         SameHands, UNCHANGED <<held, asked>>
  PROVE  InOnePlace' /\ NoOverlap' /\ PoolInv' /\ CountsMatch'
<1> DEFINE d == <<w, s>>
           n == NewBlock(s)
<1>1. d \in List /\ d[2] = s
  BY DEF List, Owner
<1>2. /\ Chunk \in Nat /\ s \in Nat /\ s >= 1 /\ s <= Chunk
      /\ pool.chunk \in Nat /\ pool.begin \in 0 .. Chunk /\ pool.end \in {0, Chunk}
  BY Sizes, SizeAssumption DEF IInv, TypeOK
<1>3. /\ n.chunk = pool'.chunk /\ n.at = pool'.begin - s /\ n.size = s
      /\ pool'.chunk \in Nat /\ pool'.begin \in 0 .. Chunk /\ n.at \in Nat
      /\ \/ pool'.chunk = pool.chunk /\ n.at = pool.begin
         \/ pool'.chunk = pool.chunk + 1 /\ n.at = 0
  BY <1>2 DEF NewBlock, Cut, Fits
<1>4. Blocks \subseteq Block
  BY WhereList DEF IInv, TypeOK, Freeing, NoOp, List
<1>5. ASSUME NEW c \in Blocks
      PROVE  /\ c.chunk \in Nat /\ c.at \in Nat /\ c.size \in Nat /\ c.size >= 1
             /\ Below(c)
  <2>1. c.chunk \in Nat /\ c.at \in Nat /\ c.size \in Size
    BY <1>4 DEF Block
  <2>2. c.size \in Nat /\ c.size >= 1
    BY <2>1, Sizes
  <2>3. Below(c)
    BY DEF IInv, PoolInv
  <2>q. QED BY <2>1, <2>2, <2>3
<1>6. n \notin Blocks
  BY <1>2, <1>3, <1>5 DEF Below
<1>a. \A e \in List : \A x : x \in free'[e] <=> x \in free[e] \/ (e = d /\ x = n)
  BY <1>1, GainsBlock
<1>b. Placed
  BY PlacedIs DEF IInv
<1>c. \A x \in Blocks : Apart(x, n) /\ Apart(n, x)
  BY <1>2, <1>3, <1>5 DEF Apart, Below
<1>d. n.size = d[2]
  BY <1>1, <1>3
<1> HIDE DEF d, n
<1>e. /\ n \notin held /\ \A e \in List : n \notin free[e]
      /\ \A v \in Freeing : n # op[v].block
  BY <1>6, WhereList
<1>7. InOnePlace'
  <2>1. \A e \in List : \A c \in free'[e] : c.size = e[2] /\ c \notin held'
    BY <1>a, <1>b, <1>d, <1>e DEF Placed
  <2>2. \A e, f \in List : e # f => \A c \in free'[e] : c \notin free'[f]
    BY <1>a, <1>b, <1>e DEF Placed
  <2>3. \A v \in Freeing' : /\ op'[v].block \notin held'
                          /\ \A e \in List : op'[v].block \notin free'[e]
    BY <1>a, <1>b, <1>e DEF Placed, SameHands
  <2>4. \A v, x \in Freeing' : v # x => op'[v].block # op'[x].block
    BY DEF IInv, InOnePlace, SameHands
  <2>q. QED BY <2>1, <2>2, <2>3, <2>4 DEF InOnePlace, List
<1>8. Counted'
  <2>1. n \notin free[d]
    BY <1>1, <1>e
  <2>2. Gains(d, n)
    BY DEF d, n
  <2>q. QED BY <1>1, <2>1, <2>2, GainsCounts DEF IInv, Counted, PoolInv, List
<1>9. ASSUME NEW x \in Blocks'
      PROVE  x \in Blocks \/ x = n
  <2>1. \/ x \in held'
        \/ \E e \in List : x \in free'[e]
        \/ \E v \in Freeing' : x = op'[v].block
    BY DEF Blocks, Listed, InHand, List
  <2>2. CASE x \in held'
    BY <2>2, WhereList
  <2>3. CASE \E e \in List : x \in free'[e]
    BY <1>a, <2>3, WhereList
  <2>4. CASE \E v \in Freeing' : x = op'[v].block
    BY <2>4, WhereList DEF SameHands
  <2>q. QED BY <2>1, <2>2, <2>3, <2>4
<1>10. NoOverlap'
  <2>1. \A x \in Blocks' : x.at + x.size <= Chunk
    BY <1>2, <1>3, <1>9 DEF IInv, NoOverlap
  <2>2. \A x, y \in Blocks' : x # y => Apart(x, y)
    BY <1>c, <1>9 DEF IInv, NoOverlap
  <2>3. \A x \in held' : asked'[x] <= x.size
    BY DEF IInv, NoOverlap
  <2>q. QED BY <2>1, <2>2, <2>3 DEF NoOverlap, Apart
<1>11. ASSUME NEW x \in Blocks'
       PROVE  Below(x)'
  <2>1. CASE x = n
    BY <1>2, <1>3, <2>1 DEF Below
  <2>2. CASE x \in Blocks
    BY <1>2, <1>3, <1>5, <2>2 DEF Below
  <2>q. QED BY <1>9, <2>1, <2>2
<1>q. QED BY <1>7, <1>8, <1>10, <1>11 DEF Counted, PoolInv, List

(* The whole of the step: what is where.                                   *)
LEMMA PlaceStep == IInv /\ [Next]_vars => InOnePlace' /\ NoOverlap' /\ PoolInv' /\ CountsMatch'
<1> SUFFICES ASSUME IInv, [Next]_vars
             PROVE  InOnePlace' /\ NoOverlap' /\ PoolInv' /\ CountsMatch'
  OBVIOUS
<1>a. TypeOK
  BY DEF IInv
<1>b. ASSUME UNCHANGED <<free, count, pool, held, asked>>, SameHands
      PROVE  InOnePlace' /\ NoOverlap' /\ PoolInv' /\ CountsMatch'
  <2>1. InHand' = InHand /\ Listed' = Listed /\ Blocks' = Blocks
    BY <1>b DEF SameHands, InHand, Listed, Blocks
  <2>2. InOnePlace'
    BY <1>b DEF IInv, InOnePlace, SameHands
  <2>q. QED BY <1>b, <2>1, <2>2 DEF IInv, NoOverlap, Apart, PoolInv, Below, CountsMatch
<1>c. ASSUME NEW w \in Worker, NEW o, Become(w, o), op[w].kind # "free", o.kind # "free"
      PROVE  SameHands
  BY <1>a, <1>c DEF Become, SameHands, Freeing, TypeOK
<1>d. ASSUME NEW w \in Worker, NEW o, Become(w, o), op[w].kind = "free",
             o.kind = "free" /\ o.block = op[w].block
      PROVE  SameHands
  BY <1>a, <1>d DEF Become, SameHands, Freeing, TypeOK
<1>1. ASSUME NEW w \in Worker, NEW r \in Request, Malloc(w, r)
      PROVE  InOnePlace' /\ NoOverlap' /\ PoolInv' /\ CountsMatch'
  <2>1. CASE free[<<w, Canonicalize(r)>>] # {}
    <3>1. Pop(w, r) /\ UNCHANGED op /\ UNCHANGED pool
      BY <1>1, <2>1 DEF Malloc
    <3>2. SameHands
      BY <3>1 DEF SameHands, Freeing
    <3>q. QED BY <3>1, <3>2, PopKeeps
  <2>2. CASE free[<<w, Canonicalize(r)>>] = {}
    <3>1. /\ UNCHANGED <<free, count, pool, held, asked>> /\ op[w].kind # "free"
          /\ Become(w, [kind |-> "malloc", request |-> r, left |-> 0])
      BY <1>1, <2>2 DEF Malloc, NoOp
    <3>q. QED BY <1>b, <1>c, <3>1
  <2>q. QED BY <2>1, <2>2
<1>2. ASSUME NEW w \in Worker, MallocDone(w)
      PROVE  InOnePlace' /\ NoOverlap' /\ PoolInv' /\ CountsMatch'
  <2>1. op[w].request \in Request /\ Pop(w, op[w].request) /\ UNCHANGED pool
    BY <1>2, <1>a DEF MallocDone, TypeOK, NoOp
  <2>2. SameHands
    BY <1>2, <1>c DEF MallocDone, NoOp
  <2>q. QED BY <2>1, <2>2, PopKeeps
<1>3. ASSUME NEW w \in Worker, AllocateBatch(w)
      PROVE  InOnePlace' /\ NoOverlap' /\ PoolInv' /\ CountsMatch'
  <2>1. /\ UNCHANGED <<free, count, pool, held, asked>> /\ op[w].kind = "malloc"
        /\ Become(w, [op[w] EXCEPT !.left = HalfBatch])
    BY <1>3 DEF AllocateBatch
  <2>2. [op[w] EXCEPT !.left = HalfBatch].kind = "malloc"
    BY <2>1, <1>a DEF TypeOK, NoOp
  <2>q. QED BY <1>b, <1>c, <2>1, <2>2
<1>4. ASSUME NEW w \in Worker, AllocateOne(w)
      PROVE  InOnePlace' /\ NoOverlap' /\ PoolInv' /\ CountsMatch'
  <2> DEFINE s == Canonicalize(op[w].request)
  <2>1. /\ Allocated(w, s) /\ op[w].kind = "malloc" /\ UNCHANGED <<held, asked>>
        /\ Become(w, [op[w] EXCEPT !.left = @ - 1])
    BY <1>4 DEF AllocateOne
  <2>2. s \in Size
    BY <2>1, <1>a, Canonical DEF TypeOK, NoOp
  <2>3. SameHands
    <3>1. [op[w] EXCEPT !.left = @ - 1].kind = "malloc"
      BY <2>1, <1>a DEF TypeOK, NoOp
    <3>q. QED BY <1>c, <2>1, <3>1
  <2> HIDE DEF s
  <2>4. CASE \E b \in Block : Passes(<<Global, s>>, <<w, s>>, b) /\ pool' = pool
    <3>1. PICK b \in Block : Passes(<<Global, s>>, <<w, s>>, b) /\ pool' = pool
      BY <2>4
    <3>2. <<Global, s>> \in List /\ <<w, s>> \in List
      BY <2>2 DEF List, Owner
    <3>q. QED BY <2>1, <2>3, <3>1, <3>2, PassKeeps
  <2>5. CASE Gains(<<w, s>>, NewBlock(s)) /\ pool' = Cut(s)
    BY <2>1, <2>2, <2>3, <2>5, CutKeeps
  <2>q. QED BY <1>a, <2>1, <2>2, <2>4, <2>5, AllocateMoves
<1>5. ASSUME NEW w \in Worker, NEW b \in held, Free(w, b)
      PROVE  InOnePlace' /\ NoOverlap' /\ PoolInv' /\ CountsMatch'
  <2>0. /\ b \in Block /\ b \in Blocks /\ \A v \in Freeing : op[v].block # b
        /\ \A d \in List : b \notin free[d]
    BY <1>a, WhereList, PlacedIs DEF TypeOK, IInv, Placed
  <2>1. /\ held' = held \ {b} /\ asked' = [c \in held \ {b} |-> asked[c]] /\ UNCHANGED pool
    BY <1>5 DEF Free, TakeBack
  <2>2. CASE count[<<w, b.size>>] > 0
    <3>1. Push(w, b) /\ UNCHANGED op
      BY <1>5, <2>2 DEF Free
    <3>2. Freeing' = Freeing
      BY <3>1 DEF Freeing
    <3>q. QED BY <2>0, <2>1, <3>1, <3>2, PushKeeps
  <2>3. CASE ~(count[<<w, b.size>>] > 0)
    <3>1. /\ UNCHANGED <<free, count>> /\ op[w] = NoOp
          /\ op' = [op EXCEPT ![w] = [kind |-> "free", block |-> b, request |-> asked[b], left |-> 0]]
      BY <1>5, <2>3 DEF Free, Become
    <3>2. /\ Freeing' = Freeing \cup {w} /\ w \notin Freeing /\ op'[w].block = b
          /\ \A v \in Freeing : op'[v].block = op[v].block
      BY <1>a, <3>1 DEF Freeing, TypeOK, NoOp
    <3>3. InOnePlace'
      BY <2>0, <2>1, <3>1, <3>2, PlacedIs DEF IInv, InOnePlace, List
    <3>4. ASSUME NEW c \in Blocks'
          PROVE  c \in Blocks
      <4>1. \/ c \in held'
            \/ \E e \in List : c \in free'[e]
            \/ \E v \in Freeing' : c = op'[v].block
        BY DEF Blocks, Listed, InHand, List
      <4>q. QED BY <2>0, <2>1, <3>1, <3>2, <4>1, WhereList
    <3>5. ASSUME NEW c \in held'
          PROVE  asked'[c] <= c.size
      BY <2>1 DEF IInv, NoOverlap
    <3>6. NoOverlap' /\ \A c \in Blocks' : Below(c)'
      BY <2>1, <3>4, <3>5, NoNewBlock
    <3>q. QED BY <3>1, <3>3, <3>6 DEF IInv, PoolInv, CountsMatch
  <2>q. QED BY <2>2, <2>3
<1>6. ASSUME NEW w \in Worker, FreeDone(w)
      PROVE  InOnePlace' /\ NoOverlap' /\ PoolInv' /\ CountsMatch'
  <2> DEFINE b == op[w].block
  <2>1. /\ Push(w, b) /\ op' = [op EXCEPT ![w] = NoOp] /\ UNCHANGED <<pool, held, asked>>
        /\ w \in Freeing
    BY <1>6 DEF FreeDone, Become, Freeing
  <2>2. /\ b \in Block /\ b \in Blocks /\ b \notin held
        /\ \A d \in List : b \notin free[d]
        /\ \A v \in Freeing : v # w => op[v].block # b
    BY <1>a, <2>1, WhereList, PlacedIs DEF TypeOK, IInv, Placed, Freeing, NoOp
  <2>3. Freeing' = Freeing \ {w} /\ \A v \in Freeing' : op'[v].block = op[v].block
    BY <1>a, <2>1 DEF Freeing, TypeOK, NoOp
  <2> HIDE DEF b
  <2>q. QED BY <2>1, <2>2, <2>3, PushKeeps
<1>7. ASSUME NEW w \in Worker, FreeBatch(w)
      PROVE  InOnePlace' /\ NoOverlap' /\ PoolInv' /\ CountsMatch'
  <2>1. /\ UNCHANGED <<free, count, pool, held, asked>> /\ op[w].kind = "free"
        /\ Become(w, [op[w] EXCEPT !.left = HalfBatch])
    BY <1>7 DEF FreeBatch
  <2>2. /\ [op[w] EXCEPT !.left = HalfBatch].kind = "free"
        /\ [op[w] EXCEPT !.left = HalfBatch].block = op[w].block
    BY <2>1, <1>a DEF TypeOK, NoOp
  <2>q. QED BY <1>b, <1>d, <2>1, <2>2
<1>8. ASSUME NEW w \in Worker, FreeOne(w)
      PROVE  InOnePlace' /\ NoOverlap' /\ PoolInv' /\ CountsMatch'
  <2>1. /\ op[w].kind = "free" /\ UNCHANGED <<pool, held, asked>>
        /\ Become(w, [op[w] EXCEPT !.left = @ - 1])
    BY <1>8 DEF FreeOne
  <2>2. /\ [op[w] EXCEPT !.left = @ - 1].kind = "free"
        /\ [op[w] EXCEPT !.left = @ - 1].block = op[w].block
    BY <2>1, <1>a DEF TypeOK, NoOp
  <2>3. SameHands
    BY <1>d, <2>1, <2>2
  <2> DEFINE s == op[w].block.size
  <2>4. s \in Size
    BY <1>8, <1>a, FreeOneMoves
  <2>5. PICK b \in Block : Passes(<<w, s>>, <<Global, s>>, b)
    BY <1>8, <1>a, FreeOneMoves
  <2>6. <<Global, s>> \in List /\ <<w, s>> \in List
    BY <2>4 DEF List, Owner
  <2> HIDE DEF s
  <2>q. QED BY <2>1, <2>3, <2>5, <2>6, PassKeeps
<1>9. ASSUME NEW w \in Worker, Unlock(w)
      PROVE  InOnePlace' /\ NoOverlap' /\ PoolInv' /\ CountsMatch'
  BY <1>9, <1>b DEF Unlock, SameHands, Freeing
<1>10. CASE UNCHANGED vars
  BY <1>10, <1>b DEF vars, SameHands, Freeing
<1>q. QED
  BY <1>1, <1>2, <1>3, <1>4, <1>5, <1>6, <1>7, <1>8, <1>9, <1>10 DEF Next, Step

(***************************************************************************)
(* What LockInv says of one worker.                                        *)
(***************************************************************************)
OwnList(w) ==
    /\ lock = w => op[w] # NoOp /\ op[w].left <= HalfBatch
    /\ w \in Mallocing \cup Freeing /\ op[w].left > 0 => lock = w
    /\ w \in Mallocing /\ lock = w =>
          count[<<w, Canonicalize(op[w].request)>>] >= Batch - HalfBatch + op[w].left
    /\ w \in Freeing /\ lock = w =>
          count[<<w, op[w].block.size>>] <= HalfBatch - op[w].left

(***************************************************************************)
(* The half batch: the holder of the lock is never further than it says.   *)
(***************************************************************************)
LEMMA LockStep == IInv /\ [Next]_vars => LockInv'
<1> SUFFICES ASSUME IInv, [Next]_vars, NEW v \in Worker
             PROVE  OwnList(v)'
  BY DEF LockInv, OwnList
<1>a. TypeOK /\ LockInv /\ v # Global
  BY OwnerAssumption DEF IInv
<1>b. HalfBatch \in Nat /\ Batch \in Nat
  BY BatchAssumption DEF HalfBatch
(* A step of another worker does not touch this one's lists.               *)
<1>c. ASSUME op'[v] = op[v], (lock' = v) <=> (lock = v),
             \A s \in Size : count'[<<v, s>>] = count[<<v, s>>]
      PROVE  OwnList(v)'
  <2>1. v \in Mallocing => op[v].request \in Request
    BY <1>a DEF TypeOK, Mallocing, NoOp
  <2>2. v \in Freeing => op[v].block.size \in Size
    BY <1>a DEF TypeOK, Freeing, NoOp, Block
  <2>3. (v \in Mallocing' <=> v \in Mallocing) /\ (v \in Freeing' <=> v \in Freeing)
    BY <1>c DEF Mallocing, Freeing
  <2>4. v \in Mallocing => count'[<<v, Canonicalize(op[v].request)>>] = count[<<v, Canonicalize(op[v].request)>>]
    BY <1>c, <2>1, Canonical
  <2>5. v \in Freeing => count'[<<v, op[v].block.size>>] = count[<<v, op[v].block.size>>]
    BY <1>c, <2>2
  <2>q. QED BY <1>a, <1>c, <2>3, <2>4, <2>5 DEF LockInv, OwnList
(* A worker that ends up outside of any call, without the lock.            *)
<1>d. ASSUME op'[v] = NoOp, lock' # v
      PROVE  OwnList(v)'
  BY <1>d DEF Mallocing, Freeing, NoOp, OwnList
(* A worker that waits for the lock, or has just given it back.            *)
<1>e. ASSUME op'[v].left = 0, lock' # v
      PROVE  OwnList(v)'
  BY <1>e DEF OwnList
<1>f. ASSUME NEW w \in Worker, w # v, op' = [op EXCEPT ![w] = op'[w]]
      PROVE  op'[v] = op[v]
  BY <1>a, <1>f DEF TypeOK
<1>g. ASSUME NEW w \in Worker, w # v, NEW d \in List, d[1] = w, NEW b,
             Loses(d, b) \/ Gains(d, b)
      PROVE  \A s \in Size : count'[<<v, s>>] = count[<<v, s>>]
  BY <1>g DEF Loses, Gains, List, Owner
<1>h. ASSUME NEW w \in Worker, w # v, NEW d \in List, NEW c \in List, NEW b,
             d[1] \in {w, Global}, c[1] \in {w, Global}, Passes(d, c, b)
      PROVE  \A s \in Size : count'[<<v, s>>] = count[<<v, s>>]
  BY <1>a, <1>h DEF Passes, List, Owner
<1>1. ASSUME NEW w \in Worker, NEW r \in Request, Malloc(w, r)
      PROVE  OwnList(v)'
  <2>1. CASE free[<<w, Canonicalize(r)>>] # {}
    <3>1. Pop(w, r) /\ UNCHANGED op /\ UNCHANGED lock /\ op[w] = NoOp
      BY <1>1, <2>1 DEF Malloc
    <3>2. CASE v = w
      BY <1>a, <1>d, <3>1, <3>2 DEF LockInv
    <3>3. CASE v # w
      BY <1>a, <1>c, <1>g, <3>1, <3>3, PopMoves
    <3>q. QED BY <3>2, <3>3
  <2>2. CASE free[<<w, Canonicalize(r)>>] = {}
    <3>1. /\ UNCHANGED <<free, count, lock>> /\ op[w] = NoOp
          /\ op' = [op EXCEPT ![w] = [kind |-> "malloc", request |-> r, left |-> 0]]
      BY <1>1, <2>2 DEF Malloc, Become
    <3>2. CASE v = w
      BY <1>a, <1>e, <3>1, <3>2 DEF LockInv, TypeOK
    <3>3. CASE v # w
      BY <1>a, <1>c, <3>1, <3>3 DEF TypeOK
    <3>q. QED BY <3>2, <3>3
  <2>q. QED BY <2>1, <2>2
<1>2. ASSUME NEW w \in Worker, MallocDone(w)
      PROVE  OwnList(v)'
  <2>1. /\ op[w].request \in Request /\ Pop(w, op[w].request) /\ UNCHANGED lock
        /\ op' = [op EXCEPT ![w] = NoOp] /\ lock # w
    BY <1>2, <1>a DEF MallocDone, TypeOK, NoOp, Become
  <2>2. CASE v = w
    BY <1>a, <1>d, <2>1, <2>2 DEF TypeOK
  <2>3. CASE v # w
    <3>1. op'[v] = op[v]
      BY <1>a, <2>1, <2>3 DEF TypeOK
    <3>q. QED BY <1>a, <1>c, <1>g, <2>1, <2>3, <3>1, PopMoves
  <2>q. QED BY <2>2, <2>3
<1>3. ASSUME NEW w \in Worker, AllocateBatch(w)
      PROVE  OwnList(v)'
  <2> DEFINE d == <<w, Canonicalize(op[w].request)>>
  <2>1. /\ op[w].kind = "malloc" /\ op' = [op EXCEPT ![w] = [op[w] EXCEPT !.left = HalfBatch]]
        /\ lock = Global /\ lock' = w /\ UNCHANGED <<free, count>> /\ free[d] = {}
    BY <1>3 DEF AllocateBatch, Become, Nobody
  <2>2. CASE v = w
    <3>1. op[v].request \in Request
      BY <1>a, <2>1, <2>2 DEF TypeOK, NoOp
    <3>2. count[d] = Batch
      <4>1. d \in Owner \X Size
        BY <2>2, <3>1, Canonical DEF Owner
      <4>2. count[d] \in Int /\ count[d] + Cardinality(free[d]) = Batch
        BY <1>a, <4>1 DEF IInv, TypeOK, CountsMatch
      <4>q. QED BY <2>1, <4>2, FS_EmptySet
    <3>3. /\ op'[v].kind = "malloc" /\ op'[v].left = HalfBatch
          /\ op'[v].request = op[v].request /\ op'[v] # NoOp
      BY <1>a, <2>1, <2>2 DEF TypeOK, NoOp
    <3>4. count'[<<v, Canonicalize(op'[v].request)>>] = Batch
      BY <2>1, <2>2, <3>2, <3>3
    <3>q. QED BY <1>b, <2>1, <2>2, <3>3, <3>4 DEF OwnList, Mallocing, Freeing
  <2>3. CASE v # w
    BY <1>a, <1>c, <2>1, <2>3 DEF TypeOK
  <2>q. QED BY <2>2, <2>3
<1>4. ASSUME NEW w \in Worker, AllocateOne(w)
      PROVE  OwnList(v)'
  <2> DEFINE s == Canonicalize(op[w].request)
             d == <<w, s>>
             g == <<Global, s>>
  <2>1. /\ op[w].kind = "malloc" /\ lock = w /\ op[w].left > 0 /\ UNCHANGED lock
        /\ Allocated(w, s) /\ op' = [op EXCEPT ![w] = [op[w] EXCEPT !.left = @ - 1]]
    BY <1>4 DEF AllocateOne, Become
  <2>2. s \in Size
    BY <1>a, <2>1, Canonical DEF TypeOK, NoOp
  <2>3. d \in List /\ g \in List /\ d[1] = w /\ g[1] = Global /\ d # g
    BY <2>2, OwnerAssumption DEF List, Owner
  <2> HIDE DEF s, d, g
  <2>4. (\E b \in Block : Passes(g, d, b)) \/ Gains(d, NewBlock(s))
    BY <1>a, <2>1, <2>2, AllocateMoves DEF d, g
  <2>5. CASE v = w
    <3>1. count'[d] = count[d] - 1
      BY <2>3, <2>4 DEF Passes, Gains
    <3>2. /\ op'[v].kind = "malloc" /\ op'[v].left = op[v].left - 1 /\ op[v].left \in Nat
          /\ op'[v].request = op[v].request /\ op'[v] # NoOp
      BY <1>a, <2>1, <2>5 DEF TypeOK, NoOp
    <3>3. count[d] >= Batch - HalfBatch + op[v].left /\ op[v].left <= HalfBatch /\ count[d] \in Int
      BY <1>a, <2>1, <2>3, <2>5 DEF LockInv, Mallocing, d, s, TypeOK, List
    <3>4. d = <<v, Canonicalize(op'[v].request)>>
      BY <2>5, <3>2 DEF d, s
    <3>q. QED BY <1>b, <2>1, <2>5, <3>1, <3>2, <3>3, <3>4 DEF OwnList, Mallocing, Freeing
  <2>6. CASE v # w
    <3>1. op'[v] = op[v]
      BY <1>a, <2>1, <2>6 DEF TypeOK
    <3>2. \A t \in Size : count'[<<v, t>>] = count[<<v, t>>]
      BY <1>g, <1>h, <2>3, <2>4, <2>6
    <3>q. QED BY <1>c, <2>1, <3>1, <3>2
  <2>q. QED BY <2>5, <2>6
<1>5. ASSUME NEW w \in Worker, NEW b \in held, Free(w, b)
      PROVE  OwnList(v)'
  <2>0. b \in Block /\ UNCHANGED lock /\ op[w] = NoOp
    BY <1>a, <1>5 DEF TypeOK, Free
  <2>1. CASE count[<<w, b.size>>] > 0
    <3>1. Push(w, b) /\ UNCHANGED op
      BY <1>5, <2>1 DEF Free
    <3>2. CASE v = w
      BY <1>a, <1>d, <2>0, <3>1, <3>2 DEF LockInv
    <3>3. CASE v # w
      BY <1>a, <1>c, <1>g, <2>0, <3>1, <3>3, PushMoves
    <3>q. QED BY <3>2, <3>3
  <2>2. CASE ~(count[<<w, b.size>>] > 0)
    <3>1. /\ UNCHANGED <<free, count>>
          /\ op' = [op EXCEPT ![w] = [kind |-> "free", block |-> b, request |-> asked[b], left |-> 0]]
      BY <1>5, <2>2 DEF Free, Become
    <3>2. CASE v = w
      BY <1>a, <1>e, <2>0, <3>1, <3>2 DEF LockInv, TypeOK
    <3>3. CASE v # w
      BY <1>a, <1>c, <2>0, <3>1, <3>3 DEF TypeOK
    <3>q. QED BY <3>2, <3>3
  <2>q. QED BY <2>1, <2>2
<1>6. ASSUME NEW w \in Worker, FreeDone(w)
      PROVE  OwnList(v)'
  <2>1. /\ op[w].block \in Block /\ Push(w, op[w].block) /\ UNCHANGED lock
        /\ op' = [op EXCEPT ![w] = NoOp] /\ lock # w
    BY <1>6, <1>a DEF FreeDone, TypeOK, NoOp, Become
  <2>2. CASE v = w
    BY <1>a, <1>d, <2>1, <2>2 DEF TypeOK
  <2>3. CASE v # w
    <3>1. op'[v] = op[v]
      BY <1>a, <2>1, <2>3 DEF TypeOK
    <3>q. QED BY <1>a, <1>c, <1>g, <2>1, <2>3, <3>1, PushMoves
  <2>q. QED BY <2>2, <2>3
<1>7. ASSUME NEW w \in Worker, FreeBatch(w)
      PROVE  OwnList(v)'
  <2> DEFINE d == <<w, op[w].block.size>>
  <2>1. /\ op[w].kind = "free" /\ op' = [op EXCEPT ![w] = [op[w] EXCEPT !.left = HalfBatch]]
        /\ lock = Global /\ lock' = w /\ UNCHANGED <<free, count>> /\ count[d] <= 0
    BY <1>7 DEF FreeBatch, Become, Nobody
  <2>2. CASE v = w
    <3>1. /\ op'[v].kind = "free" /\ op'[v].left = HalfBatch
          /\ op'[v].block = op[v].block /\ op'[v] # NoOp
      BY <1>a, <2>1, <2>2 DEF TypeOK, NoOp
    <3>2. count'[<<v, op'[v].block.size>>] <= 0
      BY <2>1, <2>2, <3>1
    <3>q. QED BY <1>b, <2>1, <2>2, <3>1, <3>2 DEF OwnList, Mallocing, Freeing
  <2>3. CASE v # w
    BY <1>a, <1>c, <2>1, <2>3 DEF TypeOK
  <2>q. QED BY <2>2, <2>3
<1>8. ASSUME NEW w \in Worker, FreeOne(w)
      PROVE  OwnList(v)'
  <2> DEFINE s == op[w].block.size
             d == <<w, s>>
             g == <<Global, s>>
  <2>1. /\ op[w].kind = "free" /\ lock = w /\ op[w].left > 0 /\ UNCHANGED lock
        /\ op' = [op EXCEPT ![w] = [op[w] EXCEPT !.left = @ - 1]]
    BY <1>8 DEF FreeOne, Become
  <2>2. s \in Size /\ \E b \in Block : Passes(d, g, b)
    BY <1>8, <1>a, FreeOneMoves
  <2>3. d \in List /\ g \in List /\ d[1] = w /\ g[1] = Global /\ d # g
    BY <2>2, OwnerAssumption DEF List, Owner
  <2> HIDE DEF s, d, g
  <2>4. CASE v = w
    <3>1. count'[d] = count[d] + 1
      BY <2>2, <2>3 DEF Passes
    <3>2. /\ op'[v].kind = "free" /\ op'[v].left = op[v].left - 1 /\ op[v].left \in Nat
          /\ op'[v].block = op[v].block /\ op'[v] # NoOp
      BY <1>a, <2>1, <2>4 DEF TypeOK, NoOp
    <3>3. count[d] <= HalfBatch - op[v].left /\ op[v].left <= HalfBatch /\ count[d] \in Int
      BY <1>a, <2>1, <2>3, <2>4 DEF LockInv, Freeing, d, s, TypeOK, List
    <3>4. d = <<v, op'[v].block.size>>
      BY <2>4, <3>2 DEF d, s
    <3>q. QED BY <1>b, <2>1, <2>4, <3>1, <3>2, <3>3, <3>4 DEF OwnList, Mallocing, Freeing
  <2>5. CASE v # w
    <3>1. op'[v] = op[v]
      BY <1>a, <2>1, <2>5 DEF TypeOK
    <3>2. \A t \in Size : count'[<<v, t>>] = count[<<v, t>>]
      BY <1>h, <2>2, <2>3, <2>5
    <3>q. QED BY <1>c, <2>1, <3>1, <3>2
  <2>q. QED BY <2>4, <2>5
<1>9. ASSUME NEW w \in Worker, Unlock(w)
      PROVE  OwnList(v)'
  <2>1. lock = w /\ lock' = Global /\ op' = op /\ count' = count /\ op[w].left = 0
    BY <1>9 DEF Unlock, Nobody
  <2>2. CASE v = w
    BY <1>a, <1>e, <2>1, <2>2
  <2>3. CASE v # w
    BY <1>a, <1>c, <2>1, <2>3
  <2>q. QED BY <2>2, <2>3
<1>10. ASSUME UNCHANGED vars
       PROVE  OwnList(v)'
  <2>1. op' = op /\ lock' = lock /\ count' = count
    BY <1>10 DEF vars
  <2>2. op'[v] = op[v] /\ ((lock' = v) <=> (lock = v)) /\ (\A s \in Size : count'[<<v, s>>] = count[<<v, s>>])
    BY <2>1
  <2>q. QED BY <1>c, <2>2
<1>11. ASSUME NEW w \in Worker, Step(w)
       PROVE  OwnList(v)'
  <2>1. CASE MallocDone(w)     BY <1>2, <2>1
  <2>2. CASE AllocateBatch(w)  BY <1>3, <2>2
  <2>3. CASE AllocateOne(w)    BY <1>4, <2>3
  <2>4. CASE FreeDone(w)       BY <1>6, <2>4
  <2>5. CASE FreeBatch(w)      BY <1>7, <2>5
  <2>6. CASE FreeOne(w)        BY <1>8, <2>6
  <2>7. CASE Unlock(w)         BY <1>9, <2>7
  <2>q. QED BY <1>11, <2>1, <2>2, <2>3, <2>4, <2>5, <2>6, <2>7 DEF Step
<1>12. ASSUME Next
       PROVE  OwnList(v)'
  <2>1. PICK w \in Worker : \/ \E r \in Request : Malloc(w, r)
                            \/ \E b \in held : Free(w, b)
                            \/ Step(w)
    BY <1>12 DEF Next
  <2>q. QED BY <1>1, <1>5, <1>11, <2>1
<1>q. QED BY <1>10, <1>12

(***************************************************************************)
(* THEOREM: the invariant is inductive, for any finite set of workers, any *)
(* sizes and requests that fit them, any batch of at least two and any     *)
(* chunk at least as large as the largest size.                            *)
(***************************************************************************)
THEOREM Invariance == Spec => []IInv
<1>1. IInv /\ [Next]_vars => IInv'
  BY TypeStep, PlaceStep, LockStep DEF IInv
<1>q. QED BY InitIInv, <1>1, PTL DEF Spec

(***************************************************************************)
(* THEOREM: a block is in one place, whichever worker allocates and       *)
(* whichever frees it, Cilk_internal_malloc and Cilk_internal_free.       *)
(***************************************************************************)
THEOREM OnePlace == Spec => []InOnePlace
BY Invariance, PTL DEF IInv

(***************************************************************************)
(* THEOREM: blocks cut from the pool by global_im_alloc do not overlap and *)
(* are large enough for what they were asked for.                          *)
(***************************************************************************)
THEOREM Disjoint == Spec => []NoOverlap
BY Invariance, PTL DEF IInv

(***************************************************************************)
(* THEOREM: every descriptor's count agrees with its list, so that neither *)
(* per_worker_cleanup nor global_cleanup complains of the free lists.      *)
(***************************************************************************)
THEOREM Consistent == Spec => []CountsMatch
BY Invariance, PTL DEF IInv

(***************************************************************************)
(* THEOREM: im_allocate_batch and im_free_batch, which call               *)
(* Cilk_internal_free and Cilk_internal_malloc with global_im_lock held,  *)
(* never find that these need a batch, and so the lock, themselves.       *)
(***************************************************************************)
THEOREM NoSelfDeadlock == Spec => []NeverNeedsOwnLock
<1>1. IInv => NeverNeedsOwnLock
  <2> SUFFICES ASSUME IInv, NEW w \in Worker, lock = w, op[w].left > 0
               PROVE  IF op[w].kind = "malloc"
                        THEN count[<<w, Canonicalize(op[w].request)>>] > 0
                        ELSE free[<<w, op[w].block.size>>] # {}
    BY DEF NeverNeedsOwnLock
  <2>a. TypeOK /\ LockInv /\ CountsMatch
    BY DEF IInv
  <2>b. op[w] # NoOp /\ op[w].left <= HalfBatch
    BY <2>a DEF LockInv
  <2>c. HalfBatch \in Nat /\ Batch \in Nat /\ HalfBatch < Batch
    BY BatchAssumption DEF HalfBatch
  <2>1. CASE op[w].kind = "malloc"
    <3>1. op[w].left \in Nat /\ op[w].request \in Request
      BY <2>a, <2>b, <2>1 DEF TypeOK, NoOp
    <3>2. count[<<w, Canonicalize(op[w].request)>>] \in Int
      BY <2>a, <3>1, Canonical DEF TypeOK, Owner
    <3>3. count[<<w, Canonicalize(op[w].request)>>] >= Batch - HalfBatch + op[w].left
      BY <2>a, <2>1 DEF LockInv, Mallocing
    <3>q. QED BY <2>c, <2>1, <3>1, <3>2, <3>3
  <2>2. CASE op[w].kind # "malloc"
    <3> DEFINE d == <<w, op[w].block.size>>
    <3>1. op[w].kind = "free" /\ op[w].left \in Nat /\ op[w].block \in Block
      BY <2>a, <2>b, <2>2 DEF TypeOK, NoOp
    <3>2. d \in Owner \X Size
      BY <3>1 DEF Owner, Block
    <3>3. count[d] <= HalfBatch - op[w].left
      BY <2>a, <3>1 DEF LockInv, Freeing
    <3>4. count[d] + Cardinality(free[d]) = Batch /\ count[d] \in Int
      BY <2>a, <3>2 DEF CountsMatch, TypeOK
    <3>5. free[d] # {}
      <4>1. SUFFICES ASSUME free[d] = {} PROVE FALSE
        OBVIOUS
      <4>2. Cardinality(free[d]) = 0
        BY <4>1, FS_EmptySet
      <4> HIDE DEF d
      <4>q. QED BY <2>c, <3>1, <3>3, <3>4, <4>2
    <3>q. QED BY <2>2, <3>5
  <2>q. QED BY <2>1, <2>2
<1>q. QED BY Invariance, <1>1, PTL

(* A union of few small sets is small. *)
LEMMA UnionBound ==
  ASSUME NEW I, IsFiniteSet(I), NEW F, NEW n \in Nat,
         \A i \in I : IsFiniteSet(F[i]) /\ Cardinality(F[i]) <= n
  PROVE  /\ IsFiniteSet(UNION {F[i] : i \in I})
         /\ Cardinality(UNION {F[i] : i \in I}) <= Cardinality(I) * n
<1> DEFINE U == UNION {F[i] : i \in I}
           J == I \X (1 .. n)
           E(i) == CHOOSE f \in [1 .. Cardinality(F[i]) -> F[i]] :
                     \A x \in F[i] : \E k \in 1 .. Cardinality(F[i]) : f[k] = x
           Names(x, p) == /\ x \in F[p[1]] /\ p[2] \in 1 .. Cardinality(F[p[1]])
                          /\ E(p[1])[p[2]] = x
           g == [x \in U |-> CHOOSE p \in J : Names(x, p)]
<1>1. ASSUME NEW i \in I
      PROVE  \A x \in F[i] : \E k \in 1 .. Cardinality(F[i]) : E(i)[k] = x
  <2>1. ExistsBijection(1 .. Cardinality(F[i]), F[i])
    BY FS_CardinalityType
  <2>2. \E f \in [1 .. Cardinality(F[i]) -> F[i]] :
           \A x \in F[i] : \E k \in 1 .. Cardinality(F[i]) : f[k] = x
    BY <2>1 DEF ExistsBijection, Bijection, Surjection
  <2>q. QED BY <2>2
<1> HIDE DEF E
<1>2. ASSUME NEW x \in U
      PROVE  \E p \in J : Names(x, p)
  <2>1. PICK i \in I : x \in F[i]
    OBVIOUS
  <2>2. PICK k \in 1 .. Cardinality(F[i]) : E(i)[k] = x
    BY <1>1, <2>1
  <2>3. Cardinality(F[i]) \in Nat /\ Cardinality(F[i]) <= n
    BY FS_CardinalityType
  <2>4. k \in 1 .. n
    BY <2>3
  <2>5. <<i, k>> \in J /\ Names(x, <<i, k>>)
    BY <2>1, <2>2, <2>4
  <2>q. QED BY <2>5
<1>3. IsFiniteSet(J) /\ Cardinality(J) = Cardinality(I) * n
  <2>1. IsFiniteSet(1 .. n) /\ Cardinality(1 .. n) = n
    BY FS_Interval
  <2>q. QED BY <2>1, FS_Product
<1> HIDE DEF U, J, Names
<1>4. \A x \in U : g[x] \in J /\ Names(x, g[x])
  BY <1>2
<1>d. g = [x \in U |-> g[x]]
  OBVIOUS
<1> HIDE DEF g
<1>5. \A x, y \in U : g[x] = g[y] => x = y
  BY <1>4 DEF Names
<1>6. g \in Injection(U, J)
  <2>1. g \in [U -> J]
    BY <1>4, <1>d
  <2>q. QED BY <1>5, <2>1 DEF Injection, IsInjective
<1>7. IsFiniteSet(U) /\ Cardinality(U) <= Cardinality(J)
  BY <1>3, <1>6, FS_Injection
<1>q. QED BY <1>3, <1>7 DEF U

(* What a union of two sets can hold. *)
LEMMA AtMost ==
  ASSUME NEW S, IsFiniteSet(S), NEW T, IsFiniteSet(T)
  PROVE  /\ IsFiniteSet(S \cup T)
         /\ Cardinality(S \cup T) <= Cardinality(S) + Cardinality(T)
         /\ Cardinality(S) \in Nat /\ Cardinality(T) \in Nat
         /\ Cardinality(S \cup T) \in Nat
<1>1. /\ IsFiniteSet(S \cup T)
      /\ Cardinality(S \cup T) = Cardinality(S) + Cardinality(T) - Cardinality(S \cap T)
  BY FS_Union
<1>2. Cardinality(S) \in Nat /\ Cardinality(T) \in Nat /\ Cardinality(S \cup T) \in Nat
  BY <1>1, FS_CardinalityType
<1>3. IsFiniteSet(S \cap T)
  BY FS_Intersection
<1>4. Cardinality(S \cap T) \in Nat
  BY <1>3, FS_CardinalityType
<1>q. QED BY <1>1, <1>2, <1>4

(* No new block comes from what was a block before. *)
LEMMA NothingNew ==
  ASSUME \A c \in held' : c \in Blocks,
         \A e \in List : \A c \in free'[e] : c \in Blocks,
         \A v \in Freeing' : op'[v].block \in Blocks
  PROVE  \A c \in Blocks' : c \in Blocks
<1> SUFFICES ASSUME NEW c \in Blocks' PROVE c \in Blocks
  OBVIOUS
<1>1. \/ c \in held'
      \/ \E e \in List : c \in free'[e]
      \/ \E v \in Freeing' : c = op'[v].block
  BY DEF Blocks, Listed, InHand, List
<1>q. QED BY <1>1

(* A block is new only if global_im_alloc cuts it from the pool. *)
Cuts(w, s) == /\ AllocateOne(w) /\ s = Canonicalize(op[w].request)
              /\ free[<<Global, s>>] = {}
              /\ Gains(<<w, s>>, NewBlock(s))

LEMMA NewBlocks ==
  ASSUME IInv, [Next]_vars
  PROVE  \/ \A c \in Blocks' : c \in Blocks
         \/ \E w \in Worker, s \in Size : Cuts(w, s)
<1>a. TypeOK
  BY DEF IInv
<1>h. /\ \A c \in held : c \in Blocks
      /\ \A e \in List : \A c \in free[e] : c \in Blocks
      /\ \A v \in Freeing : op[v].block \in Blocks
  BY WhereList
<1>b. ASSUME UNCHANGED <<free, held>>, SameHands
      PROVE  \A c \in Blocks' : c \in Blocks
  BY <1>b, <1>h, NothingNew DEF SameHands
<1>c. ASSUME NEW w \in Worker, NEW o, Become(w, o), op[w].kind # "free", o.kind # "free"
      PROVE  SameHands
  BY <1>a, <1>c DEF Become, SameHands, Freeing, TypeOK
<1>d. ASSUME NEW w \in Worker, NEW o, Become(w, o), op[w].kind = "free",
             o.kind = "free" /\ o.block = op[w].block
      PROVE  SameHands
  BY <1>a, <1>d DEF Become, SameHands, Freeing, TypeOK
<1>e. ASSUME NEW w \in Worker, NEW r \in Request, Pop(w, r), SameHands
      PROVE  \A c \in Blocks' : c \in Blocks
  <2> DEFINE d == <<w, Canonicalize(r)>>
  <2>1. PICK b \in Block : Loses(d, b) /\ GiveOut(b, r) /\ d \in List
    BY <1>a, <1>e, PopMoves
  <2> HIDE DEF d
  <2>2. /\ b \in free[d] /\ held' = held \cup {b}
        /\ \A e \in List : \A x : x \in free'[e] <=> x \in free[e] /\ ~(e = d /\ x = b)
    BY <2>1, LosesBlock DEF Loses, GiveOut
  <2>q. QED BY <1>e, <1>h, <2>1, <2>2, NothingNew DEF SameHands
<1>f. ASSUME NEW w \in Worker, NEW b \in Block, Push(w, b), b \in Blocks,
             held' \subseteq held, Freeing' \subseteq Freeing,
             \A v \in Freeing' : op'[v].block = op[v].block
      PROVE  \A c \in Blocks' : c \in Blocks
  <2> DEFINE d == <<w, b.size>>
  <2>1. Gains(d, b) /\ d \in List
    BY <1>a, <1>f, PushMoves
  <2> HIDE DEF d
  <2>2. \A e \in List : \A x : x \in free'[e] <=> x \in free[e] \/ (e = d /\ x = b)
    BY <2>1, GainsBlock
  <2>q. QED BY <1>f, <1>h, <2>2, NothingNew
<1>g. ASSUME NEW d \in List, NEW e \in List, NEW b, Passes(d, e, b), SameHands,
             UNCHANGED held
      PROVE  \A c \in Blocks' : c \in Blocks
  <2>1. /\ b \in free[d]
        /\ \A l \in List : \A x :
              x \in free'[l] <=> (x \in free[l] /\ ~(l = d /\ x = b)) \/ (l = e /\ x = b)
    <3>1. b \in free[d]
      BY <1>g DEF Passes
    <3>q. QED BY <1>g, <3>1, PassesBlock
  <2>q. QED BY <1>g, <1>h, <2>1, NothingNew DEF SameHands
<1>1. ASSUME NEW w \in Worker, NEW r \in Request, Malloc(w, r)
      PROVE  \A c \in Blocks' : c \in Blocks
  <2>1. CASE free[<<w, Canonicalize(r)>>] # {}
    <3>1. Pop(w, r) /\ UNCHANGED op
      BY <1>1, <2>1 DEF Malloc
    <3>2. SameHands
      BY <3>1 DEF SameHands, Freeing
    <3>q. QED BY <1>e, <3>1, <3>2
  <2>2. CASE free[<<w, Canonicalize(r)>>] = {}
    <3>1. /\ UNCHANGED <<free, held>> /\ op[w].kind # "free"
          /\ Become(w, [kind |-> "malloc", request |-> r, left |-> 0])
      BY <1>1, <2>2 DEF Malloc, NoOp
    <3>q. QED BY <1>b, <1>c, <3>1
  <2>q. QED BY <2>1, <2>2
<1>2. ASSUME NEW w \in Worker, MallocDone(w)
      PROVE  \A c \in Blocks' : c \in Blocks
  <2>1. op[w].request \in Request /\ Pop(w, op[w].request)
    BY <1>2, <1>a DEF MallocDone, TypeOK, NoOp
  <2>2. SameHands
    BY <1>2, <1>c DEF MallocDone, NoOp
  <2>q. QED BY <1>e, <2>1, <2>2
<1>3. ASSUME NEW w \in Worker, AllocateBatch(w)
      PROVE  \A c \in Blocks' : c \in Blocks
  <2>1. /\ UNCHANGED <<free, held>> /\ op[w].kind = "malloc"
        /\ Become(w, [op[w] EXCEPT !.left = HalfBatch])
    BY <1>3 DEF AllocateBatch
  <2>2. [op[w] EXCEPT !.left = HalfBatch].kind = "malloc"
    BY <2>1, <1>a DEF TypeOK, NoOp
  <2>q. QED BY <1>b, <1>c, <2>1, <2>2
<1>4. ASSUME NEW w \in Worker, AllocateOne(w)
      PROVE  \/ \A c \in Blocks' : c \in Blocks
             \/ \E s \in Size : Cuts(w, s)
  <2> DEFINE s == Canonicalize(op[w].request)
  <2>1. /\ Allocated(w, s) /\ op[w].kind = "malloc" /\ UNCHANGED held
        /\ Become(w, [op[w] EXCEPT !.left = @ - 1])
    BY <1>4 DEF AllocateOne
  <2>2. s \in Size
    BY <2>1, <1>a, Canonical DEF TypeOK, NoOp
  <2>3. SameHands
    <3>1. [op[w] EXCEPT !.left = @ - 1].kind = "malloc"
      BY <2>1, <1>a DEF TypeOK, NoOp
    <3>q. QED BY <1>c, <2>1, <3>1
  <2>4. CASE free[<<Global, s>>] # {}
    <3>1. \E b \in free[<<Global, s>>] :
             /\ free' = [free EXCEPT ![<<Global, s>>] = Rest(@, b), ![<<w, s>>] = @ \cup {b}]
             /\ count' = [count EXCEPT ![<<Global, s>>] = @ + 1, ![<<w, s>>] = @ - 1]
             /\ UNCHANGED pool
      BY <2>1, <2>4 DEF Allocated, NoneLeft
    <3>2. \/ \E b \in Block : Passes(<<Global, s>>, <<w, s>>, b)
          \/ Gains(<<w, s>>, NewBlock(s)) /\ pool' = Cut(s)
      BY <1>a, <2>1, <2>2, AllocateMoves
    <3>3. <<Global, s>> \in List /\ <<w, s>> \in List /\ <<Global, s>> # <<w, s>>
      BY <2>2, OwnerAssumption DEF List, Owner
    <3> HIDE DEF s
    <3>4. \E b : Passes(<<Global, s>>, <<w, s>>, b)
      <4>1. PICK b \in free[<<Global, s>>] :
             /\ free' = [free EXCEPT ![<<Global, s>>] = Rest(@, b), ![<<w, s>>] = @ \cup {b}]
             /\ count' = [count EXCEPT ![<<Global, s>>] = @ + 1, ![<<w, s>>] = @ - 1]
        BY <3>1
      <4> DEFINE d == <<Global, s>>
                 e == <<w, s>>
      <4>2. /\ d \in List /\ e \in List /\ d # e /\ b \in free[d]
            /\ free' = [free EXCEPT ![d] = @ \ {b}, ![e] = @ \cup {b}]
            /\ count' = [count EXCEPT ![d] = @ + 1, ![e] = @ - 1]
        BY <3>3, <4>1 DEF Rest
      <4> HIDE DEF d, e
      <4>a. \A l \in List : free'[l] = IF l = d THEN free[l] \ {b}
                                      ELSE IF l = e THEN free[l] \cup {b} ELSE free[l]
        BY <1>a, <4>2 DEF TypeOK, List
      <4>b. \A l \in List : count'[l] = IF l = d THEN count[l] + 1
                                       ELSE IF l = e THEN count[l] - 1 ELSE count[l]
        BY <1>a, <4>2 DEF TypeOK, List
      <4>3. Passes(d, e, b)
        BY <4>2, <4>a, <4>b DEF Passes
      <4>q. QED BY <4>3 DEF d, e
    <3>q. QED BY <1>g, <2>1, <2>3, <3>3, <3>4
  <2>5. CASE free[<<Global, s>>] = {}
    <3>1. Gains(<<w, s>>, NewBlock(s))
      <4>1. ~ \E b \in Block : Passes(<<Global, s>>, <<w, s>>, b)
        BY <2>5 DEF Passes
      <4>q. QED BY <1>a, <2>1, <2>2, <4>1, AllocateMoves
    <3>q. QED BY <1>4, <2>2, <2>5, <3>1 DEF Cuts
  <2>q. QED BY <2>4, <2>5
<1>5. ASSUME NEW w \in Worker, NEW b \in held, Free(w, b)
      PROVE  \A c \in Blocks' : c \in Blocks
  <2>1. b \in Block /\ b \in Blocks /\ held' = held \ {b}
    BY <1>5, <1>a, <1>h DEF Free, TakeBack, TypeOK
  <2>2. CASE count[<<w, b.size>>] > 0
    <3>1. Push(w, b) /\ UNCHANGED op
      BY <1>5, <2>2 DEF Free
    <3>2. Freeing' = Freeing
      BY <3>1 DEF Freeing
    <3>q. QED BY <1>f, <2>1, <3>1, <3>2
  <2>3. CASE ~(count[<<w, b.size>>] > 0)
    <3>1. /\ UNCHANGED free /\ op[w] = NoOp
          /\ op' = [op EXCEPT ![w] = [kind |-> "free", block |-> b, request |-> asked[b], left |-> 0]]
      BY <1>5, <2>3 DEF Free, Become
    <3>2. /\ Freeing' = Freeing \cup {w} /\ op'[w].block = b
          /\ \A v \in Freeing : v # w => op'[v].block = op[v].block
      BY <1>a, <3>1 DEF Freeing, TypeOK, NoOp
    <3>q. QED BY <1>h, <2>1, <3>1, <3>2, NothingNew
  <2>q. QED BY <2>2, <2>3
<1>6. ASSUME NEW w \in Worker, FreeDone(w)
      PROVE  \A c \in Blocks' : c \in Blocks
  <2> DEFINE b == op[w].block
  <2>1. /\ Push(w, b) /\ op' = [op EXCEPT ![w] = NoOp] /\ UNCHANGED held
        /\ w \in Freeing
    BY <1>6 DEF FreeDone, Become, Freeing
  <2>2. b \in Block /\ b \in Blocks
    BY <1>a, <1>h, <2>1 DEF TypeOK, Freeing, NoOp
  <2>3. Freeing' \subseteq Freeing /\ \A v \in Freeing' : op'[v].block = op[v].block
    BY <1>a, <2>1 DEF Freeing, TypeOK, NoOp
  <2> HIDE DEF b
  <2>q. QED BY <1>f, <2>1, <2>2, <2>3
<1>7. ASSUME NEW w \in Worker, FreeBatch(w)
      PROVE  \A c \in Blocks' : c \in Blocks
  <2>1. /\ UNCHANGED <<free, held>> /\ op[w].kind = "free"
        /\ Become(w, [op[w] EXCEPT !.left = HalfBatch])
    BY <1>7 DEF FreeBatch
  <2>2. /\ [op[w] EXCEPT !.left = HalfBatch].kind = "free"
        /\ [op[w] EXCEPT !.left = HalfBatch].block = op[w].block
    BY <2>1, <1>a DEF TypeOK, NoOp
  <2>q. QED BY <1>b, <1>d, <2>1, <2>2
<1>8. ASSUME NEW w \in Worker, FreeOne(w)
      PROVE  \A c \in Blocks' : c \in Blocks
  <2>1. /\ op[w].kind = "free" /\ UNCHANGED held
        /\ Become(w, [op[w] EXCEPT !.left = @ - 1])
    BY <1>8 DEF FreeOne
  <2>2. /\ [op[w] EXCEPT !.left = @ - 1].kind = "free"
        /\ [op[w] EXCEPT !.left = @ - 1].block = op[w].block
    BY <2>1, <1>a DEF TypeOK, NoOp
  <2>3. SameHands
    BY <1>d, <2>1, <2>2
  <2> DEFINE s == op[w].block.size
  <2>4. s \in Size
    BY <1>8, <1>a, FreeOneMoves
  <2>5. PICK b \in Block : Passes(<<w, s>>, <<Global, s>>, b)
    BY <1>8, <1>a, FreeOneMoves
  <2>6. <<Global, s>> \in List /\ <<w, s>> \in List
    BY <2>4 DEF List, Owner
  <2> HIDE DEF s
  <2>q. QED BY <1>g, <2>1, <2>3, <2>5, <2>6
<1>9. ASSUME NEW w \in Worker, Unlock(w)
      PROVE  \A c \in Blocks' : c \in Blocks
  BY <1>9, <1>b DEF Unlock, SameHands, Freeing
<1>10. CASE UNCHANGED vars
  BY <1>10, <1>b DEF vars, SameHands, Freeing
<1>q. QED
  BY <1>1, <1>2, <1>3, <1>4, <1>5, <1>6, <1>7, <1>8, <1>9, <1>10 DEF Next, Step

(* What NoBlowup rests on: the program never has more than it may, and    *)
(* what a worker's list and its hand can hold.                            *)
Sized(s) == {b \in Blocks : b.size = s}
Limit == MaxHeld - 1 + (Cardinality(Worker) - 1) * (Batch + 1) + Batch \div 2
HeldInv == IsFiniteSet(held) /\ Cardinality(held) + Cardinality(Mallocing) <= MaxHeld
Countdown == \A w \in Worker, s \in Size : count[<<w, s>>] >= 0
SizedInv == \A s \in Size : IsFiniteSet(Sized(s)) /\ Cardinality(Sized(s)) <= Limit

(* Every step keeps what the program has within its bound: a call of      *)
(* Cilk_internal_malloc is counted from its beginning.                    *)
LEMMA HeldStep ==
  ASSUME IInv, HeldInv, [Next]_vars
  PROVE  HeldInv'
<1>a. TypeOK /\ IsFiniteSet(Mallocing) /\ IsFiniteSet(held)
  <2>1. Mallocing \subseteq Worker
    BY DEF Mallocing
  <2>q. QED BY <2>1, OwnerAssumption, FS_Subset DEF IInv, HeldInv
<1>b. /\ Cardinality(held) \in Nat /\ Cardinality(Mallocing) \in Nat /\ MaxHeld \in Nat
      /\ Cardinality(held) + Cardinality(Mallocing) <= MaxHeld
  BY <1>a, FS_CardinalityType, HeldAssumption DEF HeldInv
<1>c. ASSUME NEW w \in Worker, NEW r \in Request, Pop(w, r)
      PROVE  \E b : b \notin held /\ held' = held \cup {b}
  <2> DEFINE d == <<w, Canonicalize(r)>>
  <2>1. PICK b \in Block : Loses(d, b) /\ GiveOut(b, r) /\ d \in List
    BY <1>a, <1>c, PopMoves
  <2> HIDE DEF d
  <2>2. b \notin held
    BY <2>1, PlacedIs DEF IInv, Placed, Loses
  <2>q. QED BY <2>1, <2>2 DEF GiveOut
<1>1. ASSUME NEW w \in Worker, NEW r \in Request, Malloc(w, r)
      PROVE  HeldInv'
  <2>1. op[w] = NoOp /\ Cardinality(held) + Cardinality(Mallocing) < MaxHeld
    BY <1>1 DEF Malloc, Mallocing
  <2>2. CASE free[<<w, Canonicalize(r)>>] # {}
    <3>1. Pop(w, r) /\ UNCHANGED op
      BY <1>1, <2>2 DEF Malloc
    <3>2. PICK b : b \notin held /\ held' = held \cup {b}
      BY <1>c, <3>1
    <3>3. IsFiniteSet(held') /\ Cardinality(held') = Cardinality(held) + 1
      BY <1>a, <3>2, OneMore
    <3>4. Mallocing' = Mallocing
      BY <3>1 DEF Mallocing
    <3>q. QED BY <1>b, <2>1, <3>3, <3>4 DEF HeldInv
  <2>3. CASE free[<<w, Canonicalize(r)>>] = {}
    <3>1. /\ UNCHANGED held
          /\ op' = [op EXCEPT ![w] = [kind |-> "malloc", request |-> r, left |-> 0]]
      BY <1>1, <2>3 DEF Malloc, Become
    <3>2. Mallocing' = Mallocing \cup {w} /\ w \notin Mallocing
      BY <1>a, <2>1, <3>1 DEF Mallocing, TypeOK, NoOp
    <3>3. Cardinality(Mallocing') = Cardinality(Mallocing) + 1
      BY <1>a, <3>2, OneMore
    <3>q. QED BY <1>a, <1>b, <2>1, <3>1, <3>3 DEF HeldInv
  <2>q. QED BY <2>2, <2>3
<1>2. ASSUME NEW w \in Worker, MallocDone(w)
      PROVE  HeldInv'
  <2>1. /\ op[w].request \in Request /\ Pop(w, op[w].request)
        /\ op' = [op EXCEPT ![w] = NoOp] /\ op[w].kind = "malloc"
    BY <1>2, <1>a DEF MallocDone, TypeOK, NoOp, Become
  <2>2. PICK b : b \notin held /\ held' = held \cup {b}
    BY <1>c, <2>1
  <2>3. IsFiniteSet(held') /\ Cardinality(held') = Cardinality(held) + 1
    BY <1>a, <2>2, OneMore
  <2>4. Mallocing' = Mallocing \ {w} /\ w \in Mallocing
    BY <1>a, <2>1 DEF Mallocing, TypeOK, NoOp
  <2>5. Cardinality(Mallocing') = Cardinality(Mallocing) - 1
    BY <1>a, <2>4, OneLess
  <2>q. QED BY <1>b, <2>3, <2>5 DEF HeldInv
<1>3. ASSUME NEW w \in Worker, NEW b \in held, Free(w, b)
      PROVE  HeldInv'
  <2>1. held' = held \ {b} /\ op[w] = NoOp
    BY <1>3 DEF Free, TakeBack
  <2>2. IsFiniteSet(held') /\ Cardinality(held') = Cardinality(held) - 1
    BY <1>a, <2>1, OneLess
  <2>3. Mallocing' = Mallocing
    <3>1. \/ op' = op
          \/ op' = [op EXCEPT ![w] = [kind |-> "free", block |-> b, request |-> asked[b], left |-> 0]]
      BY <1>3 DEF Free, Become
    <3>q. QED BY <1>a, <2>1, <3>1 DEF Mallocing, TypeOK, NoOp
  <2>q. QED BY <1>b, <2>2, <2>3 DEF HeldInv
<1>4. ASSUME NEW w \in Worker,
             FreeDone(w) \/ AllocateBatch(w) \/ AllocateOne(w) \/ FreeBatch(w)
               \/ FreeOne(w) \/ Unlock(w)
      PROVE  HeldInv'
  <2>1. held' = held
    BY <1>4 DEF FreeDone, AllocateBatch, AllocateOne, FreeBatch, FreeOne, Unlock
  <2>2. Mallocing' = Mallocing
    <3>1. CASE FreeDone(w)
      BY <1>a, <3>1 DEF FreeDone, Become, Mallocing, TypeOK, NoOp
    <3>2. CASE AllocateBatch(w)
      BY <1>a, <3>2 DEF AllocateBatch, Become, Mallocing, TypeOK, NoOp
    <3>3. CASE AllocateOne(w)
      BY <1>a, <3>3 DEF AllocateOne, Become, Mallocing, TypeOK, NoOp
    <3>4. CASE FreeBatch(w)
      BY <1>a, <3>4 DEF FreeBatch, Become, Mallocing, TypeOK, NoOp
    <3>5. CASE FreeOne(w)
      <4>1. op' = [op EXCEPT ![w] = [op[w] EXCEPT !.left = @ - 1]] /\ op[w].kind = "free"
        BY <3>5 DEF FreeOne, Become
      <4>q. QED BY <1>a, <4>1 DEF Mallocing, TypeOK, NoOp
    <3>6. CASE Unlock(w)
      BY <3>6 DEF Unlock, Mallocing
    <3>q. QED BY <1>4, <3>1, <3>2, <3>3, <3>4, <3>5, <3>6
  <2>q. QED BY <2>1, <2>2 DEF HeldInv
<1>5. CASE UNCHANGED vars
  BY <1>5 DEF vars, HeldInv, Mallocing
<1>q. QED
  BY <1>1, <1>2, <1>3, <1>4, <1>5 DEF Next, Step

(* A worker's count stays at zero or above, so a list never holds more    *)
(* than a batch.                                                          *)
LEMMA CountdownStep ==
  ASSUME IInv, Countdown, [Next]_vars
  PROVE  Countdown'
<1>a. TypeOK
  BY DEF IInv
<1>b. /\ \A d \in List : count[d] \in Int
      /\ \A v \in Worker, s \in Size : <<v, s>> \in List /\ count[<<v, s>>] >= 0
  BY <1>a DEF TypeOK, Countdown, List, Owner
<1>e. ASSUME \A v \in Worker, s \in Size :
                count[<<v, s>>] >= 0 => count'[<<v, s>>] >= 0
      PROVE  Countdown'
  BY <1>b, <1>e DEF Countdown
<1>c. ASSUME NEW w \in Worker, NEW r \in Request, Pop(w, r)
      PROVE  Countdown'
  <2>1. PICK b \in Block : Loses(<<w, Canonicalize(r)>>, b)
    BY <1>a, <1>c, PopMoves
  <2> DEFINE d == <<w, Canonicalize(r)>>
  <2>2. \A e \in List : count'[e] = IF e = d THEN count[e] + 1 ELSE count[e]
    BY <2>1 DEF Loses
  <2> HIDE DEF d
  <2>3. ASSUME NEW v \in Worker, NEW s \in Size, count[<<v, s>>] >= 0
        PROVE  count'[<<v, s>>] >= 0
    <3>1. <<v, s>> \in List /\ count[<<v, s>>] \in Int
      BY <1>b
    <3>q. QED BY <2>2, <2>3, <3>1
  <2>q. QED BY <1>e, <2>3
<1>d. ASSUME NEW w \in Worker, NEW b \in Block, Push(w, b), count[<<w, b.size>>] > 0
      PROVE  Countdown'
  <2>1. Gains(<<w, b.size>>, b)
    BY <1>a, <1>d, PushMoves
  <2> DEFINE d == <<w, b.size>>
  <2>2. \A e \in List : count'[e] = IF e = d THEN count[e] - 1 ELSE count[e]
    BY <2>1 DEF Gains
  <2>3. count[d] > 0
    BY <1>d
  <2> HIDE DEF d
  <2>4. ASSUME NEW v \in Worker, NEW s \in Size, count[<<v, s>>] >= 0
        PROVE  count'[<<v, s>>] >= 0
    <3>1. <<v, s>> \in List /\ count[<<v, s>>] \in Int
      BY <1>b
    <3>q. QED BY <2>2, <2>3, <2>4, <3>1
  <2>q. QED BY <1>e, <2>4
<1>1. ASSUME NEW w \in Worker, NEW r \in Request, Malloc(w, r)
      PROVE  Countdown'
  BY <1>1, <1>c DEF Malloc, Countdown
<1>2. ASSUME NEW w \in Worker, MallocDone(w)
      PROVE  Countdown'
  <2>1. op[w].request \in Request /\ Pop(w, op[w].request)
    BY <1>2, <1>a DEF MallocDone, TypeOK, NoOp
  <2>q. QED BY <1>c, <2>1
<1>3. ASSUME NEW w \in Worker, NEW b \in held, Free(w, b)
      PROVE  Countdown'
  <2>1. b \in Block
    BY <1>a DEF TypeOK
  <2>q. QED BY <1>3, <1>d, <2>1 DEF Free, Countdown
<1>4. ASSUME NEW w \in Worker, FreeDone(w)
      PROVE  Countdown'
  <2>1. op[w].block \in Block
    BY <1>a, <1>4 DEF FreeDone, TypeOK, NoOp
  <2>q. QED BY <1>4, <1>d, <2>1 DEF FreeDone
<1>5. ASSUME NEW w \in Worker, AllocateOne(w)
      PROVE  Countdown'
  <2> DEFINE s == Canonicalize(op[w].request)
  <2>1. Allocated(w, s) /\ op[w].kind = "malloc" /\ count[<<w, s>>] > 0
    BY <1>5 DEF AllocateOne, Allocated
  <2>2. s \in Size
    BY <2>1, <1>a, Canonical DEF TypeOK, NoOp
  <2> HIDE DEF s
  <2>3. \/ \E b \in Block : Passes(<<Global, s>>, <<w, s>>, b)
        \/ Gains(<<w, s>>, NewBlock(s))
    BY <1>a, <2>1, <2>2, AllocateMoves
  <2>4. CASE \E b \in Block : Passes(<<Global, s>>, <<w, s>>, b)
    <3> DEFINE d == <<Global, s>>
               g == <<w, s>>
    <3>1. \A e \in List : count'[e] = IF e = d THEN count[e] + 1
                                     ELSE IF e = g THEN count[e] - 1 ELSE count[e]
      BY <2>4 DEF Passes
    <3>2. count[g] > 0
      BY <2>1
    <3> HIDE DEF d, g
    <3>3. ASSUME NEW v \in Worker, NEW t \in Size, count[<<v, t>>] >= 0
          PROVE  count'[<<v, t>>] >= 0
      <4>1. <<v, t>> \in List /\ count[<<v, t>>] \in Int
        BY <1>b
      <4>q. QED BY <3>1, <3>2, <3>3, <4>1
    <3>q. QED BY <1>e, <3>3
  <2>5. CASE Gains(<<w, s>>, NewBlock(s))
    <3> DEFINE g == <<w, s>>
    <3>1. \A e \in List : count'[e] = IF e = g THEN count[e] - 1 ELSE count[e]
      BY <2>5 DEF Gains
    <3>2. count[g] > 0
      BY <2>1
    <3> HIDE DEF g
    <3>3. ASSUME NEW v \in Worker, NEW t \in Size, count[<<v, t>>] >= 0
          PROVE  count'[<<v, t>>] >= 0
      <4>1. <<v, t>> \in List /\ count[<<v, t>>] \in Int
        BY <1>b
      <4>q. QED BY <3>1, <3>2, <3>3, <4>1
    <3>q. QED BY <1>e, <3>3
  <2>q. QED BY <2>3, <2>4, <2>5
<1>6. ASSUME NEW w \in Worker, FreeOne(w)
      PROVE  Countdown'
  <2>1. PICK b \in Block : Passes(<<w, op[w].block.size>>, <<Global, op[w].block.size>>, b)
    BY <1>6, <1>a, FreeOneMoves
  <2>2. \A v \in Worker, s \in Size : <<v, s>> # <<Global, op[w].block.size>>
    BY OwnerAssumption
  <2> DEFINE d == <<w, op[w].block.size>>
             g == <<Global, op[w].block.size>>
  <2>3. \A e \in List : count'[e] = IF e = d THEN count[e] + 1
                                   ELSE IF e = g THEN count[e] - 1 ELSE count[e]
    BY <2>1 DEF Passes
  <2>4. \A v \in Worker, s \in Size : <<v, s>> # g
    BY <2>2
  <2> HIDE DEF d, g
  <2>5. ASSUME NEW v \in Worker, NEW s \in Size, count[<<v, s>>] >= 0
        PROVE  count'[<<v, s>>] >= 0
    <3>1. <<v, s>> \in List /\ count[<<v, s>>] \in Int /\ <<v, s>> # g
      BY <1>b, <2>4
    <3>q. QED BY <2>3, <2>5, <3>1
  <2>q. QED BY <1>e, <2>5
<1>7. ASSUME NEW w \in Worker, AllocateBatch(w) \/ FreeBatch(w) \/ Unlock(w)
      PROVE  Countdown'
  BY <1>7 DEF AllocateBatch, FreeBatch, Unlock, Countdown
<1>8. CASE UNCHANGED vars
  BY <1>8 DEF vars, Countdown
<1>q. QED
  BY <1>1, <1>2, <1>3, <1>4, <1>5, <1>6, <1>7, <1>8 DEF Next, Step

(* The lists and hands of the other workers account for a batch each, and *)
(* one block in hand.                                                     *)
LEMMA OthersBound ==
  ASSUME IInv, Countdown, NEW w \in Worker, NEW s \in Size
  PROVE  LET Held(v) == {b \in Blocks : \/ b \in free[<<v, s>>]
                                        \/ v \in Freeing /\ b = op[v].block}
             Others == UNION {Held(v) : v \in Worker \ {w}}
         IN  /\ IsFiniteSet(Others)
             /\ Cardinality(Others) <= (Cardinality(Worker) - 1) * (Batch + 1)
<1> DEFINE I == Worker \ {w}
           Held(v) == {b \in Blocks : \/ b \in free[<<v, s>>]
                                      \/ v \in Freeing /\ b = op[v].block}
           F == [v \in I |-> Held(v)]
           U == UNION {F[v] : v \in I}
<1>1. IsFiniteSet(I) /\ Cardinality(I) = Cardinality(Worker) - 1
  BY OwnerAssumption, OneLess
<1>2. ASSUME NEW v \in I
      PROVE  IsFiniteSet(F[v]) /\ Cardinality(F[v]) <= Batch + 1
  <2>1. /\ <<v, s>> \in List /\ IsFiniteSet(free[<<v, s>>])
        /\ count[<<v, s>>] \in Int /\ count[<<v, s>>] >= 0
        /\ count[<<v, s>>] + Cardinality(free[<<v, s>>]) = Batch
    BY DEF List, Owner, IInv, TypeOK, PoolInv, CountsMatch, Countdown
  <2>2. Cardinality(free[<<v, s>>]) \in Nat /\ Cardinality(free[<<v, s>>]) <= Batch
    BY <2>1, FS_CardinalityType, BatchAssumption
  <2> DEFINE G == free[<<v, s>>] \cup {op[v].block}
  <2>3. IsFiniteSet({op[v].block}) /\ Cardinality({op[v].block}) = 1
    BY FS_Singleton
  <2>4. /\ IsFiniteSet(G) /\ Cardinality(G) \in Nat
        /\ Cardinality(G) <= Cardinality(free[<<v, s>>]) + Cardinality({op[v].block})
    BY <2>1, <2>3, AtMost
  <2>5. F[v] \subseteq G
    OBVIOUS
  <2> HIDE DEF G, F
  <2>6. IsFiniteSet(F[v]) /\ Cardinality(F[v]) <= Cardinality(G)
    BY <2>4, <2>5, FS_Subset
  <2>7. Cardinality(F[v]) \in Nat
    BY <2>6, FS_CardinalityType
  <2>q. QED BY <2>2, <2>3, <2>4, <2>6, <2>7, BatchAssumption
<1>3. Batch + 1 \in Nat
  BY BatchAssumption
<1>4. IsFiniteSet(U) /\ Cardinality(U) <= Cardinality(I) * (Batch + 1)
  <2> HIDE DEF F, I
  <2>q. QED BY <1>1, <1>2, <1>3, UnionBound
<1>5. U = UNION {Held(v) : v \in Worker \ {w}}
  OBVIOUS
<1>q. QED BY <1>1, <1>4, <1>5

(* When a block is cut, the blocks of its size are with the program, in   *)
(* the half batch under way, or accounted for by the other workers.       *)
LEMMA CutBound ==
  ASSUME IInv, HeldInv, Countdown, NEW w \in Worker, NEW s \in Size, Cuts(w, s)
  PROVE  IsFiniteSet(Sized(s)') /\ Cardinality(Sized(s)') <= Limit
<1> DEFINE d == <<w, s>>
           n == NewBlock(s)
           Held(v) == {b \in Blocks : \/ b \in free[<<v, s>>]
                                      \/ v \in Freeing /\ b = op[v].block}
           O == UNION {Held(v) : v \in Worker \ {w}}
           L == free[d] \cup {n}
           k == op[w].left
<1>a. TypeOK /\ LockInv
  BY DEF IInv
<1>1. /\ op[w].kind = "malloc" /\ lock = w /\ k > 0 /\ held' = held
      /\ Become(w, [op[w] EXCEPT !.left = @ - 1]) /\ s = Canonicalize(op[w].request)
      /\ free[<<Global, s>>] = {} /\ Gains(d, n) /\ d \in List
  BY DEF Cuts, AllocateOne, List, Owner
<1>2. k \in Nat /\ HalfBatch \in Nat /\ Batch \in Nat /\ HalfBatch = Batch \div 2
  BY <1>1, <1>a, BatchAssumption DEF TypeOK, NoOp, HalfBatch
<1>3. w \in Mallocing /\ w \notin Freeing
  BY <1>1 DEF Mallocing, Freeing
<1>4. /\ IsFiniteSet(O)
      /\ Cardinality(O) <= (Cardinality(Worker) - 1) * (Batch + 1)
  BY OthersBound
<1>5. IsFiniteSet(L) /\ Cardinality(L) <= HalfBatch /\ Cardinality(L) \in Nat
  <2>1. /\ IsFiniteSet(free[d]) /\ count[d] \in Int
        /\ count[d] + Cardinality(free[d]) = Batch
    BY <1>1, <1>a DEF List, IInv, TypeOK, PoolInv, CountsMatch
  <2>2. count[d] >= Batch - HalfBatch + k
    BY <1>1, <1>3, <1>a DEF LockInv
  <2>3. Cardinality(free[d]) \in Nat /\ Cardinality(free[d]) <= HalfBatch - k
    <3>1. Cardinality(free[d]) \in Nat
      BY <2>1, FS_CardinalityType
    <3> HIDE DEF d, k
    <3>q. QED BY <1>2, <2>1, <2>2, <3>1
  <2>4. IsFiniteSet({n}) /\ Cardinality({n}) = 1
    BY FS_Singleton
  <2>5. /\ IsFiniteSet(L) /\ Cardinality(L) \in Nat
        /\ Cardinality(L) <= Cardinality(free[d]) + Cardinality({n})
    BY <2>1, <2>4, AtMost
  <2> HIDE DEF d, n, L, k
  <2>q. QED BY <1>1, <1>2, <2>3, <2>4, <2>5
<1>6. /\ IsFiniteSet(held) /\ Cardinality(held) \in Nat
      /\ Cardinality(held) <= MaxHeld - 1
  <2>1. IsFiniteSet(Mallocing)
    <3>1. Mallocing \subseteq Worker
      BY DEF Mallocing
    <3>q. QED BY <3>1, OwnerAssumption, FS_Subset
  <2>2. Cardinality(Mallocing) \in Nat /\ Cardinality(Mallocing) # 0
    BY <1>3, <2>1, FS_CardinalityType, FS_EmptySet
  <2>3. IsFiniteSet(held) /\ Cardinality(held) \in Nat
    BY FS_CardinalityType DEF HeldInv
  <2>q. QED BY <2>2, <2>3, HeldAssumption DEF HeldInv
<1>7. ASSUME NEW b \in Sized(s)'
      PROVE  b \in held \cup (L \cup O)
  <2>1. b.size = s /\ b \in Blocks'
    BY <1>7 DEF Sized
  <2>2. \/ b \in held'
        \/ \E e \in List : b \in free'[e]
        \/ \E v \in Freeing' : b = op'[v].block
    BY <2>1 DEF Blocks, Listed, InHand, List
  <2>3. CASE b \in held'
    BY <1>1, <2>3
  <2>4. CASE \E e \in List : b \in free'[e]
    <3>1. PICK e \in List : b \in free'[e]
      BY <2>4
    <3>2. b \in free[e] \/ (e = d /\ b = n)
      <4> HIDE DEF d, n
      <4>q. QED BY <1>1, <3>1, GainsBlock
    <3>3. CASE e = d /\ b = n
      BY <3>3
    <3>4. CASE b \in free[e]
      <4>1. b.size = e[2] /\ b \in Blocks
        BY <3>1, <3>4, PlacedIs, WhereList DEF IInv, Placed
      <4>2. e = <<e[1], s>> /\ e[1] \in Owner
        BY <2>1, <4>1, <3>1 DEF List
      <4>3. CASE e[1] = w
        BY <3>4, <4>2, <4>3
      <4>4. CASE e[1] = Global
        BY <1>1, <3>4, <4>2, <4>4
      <4>5. CASE e[1] \in Worker \ {w}
        <5>1. b \in Held(e[1])
          BY <3>4, <4>1, <4>2
        <5>q. QED BY <4>5, <5>1
      <4>q. QED BY <4>2, <4>3, <4>4, <4>5 DEF Owner
    <3>q. QED BY <3>2, <3>3, <3>4
  <2>5. CASE \E v \in Freeing' : b = op'[v].block
    <3>1. PICK v \in Freeing' : b = op'[v].block
      BY <2>5
    <3>2. v \in Freeing /\ b = op[v].block /\ v # w /\ v \in Worker
      <4>1. op' = [op EXCEPT ![w] = [op[w] EXCEPT !.left = @ - 1]]
        BY <1>1 DEF Become
      <4>2. v \in Worker /\ op'[v].kind = "free"
        BY <3>1 DEF Freeing
      <4>3. v # w
        BY <1>a, <1>1, <4>1, <4>2 DEF TypeOK, NoOp
      <4>4. op'[v] = op[v]
        BY <1>a, <4>1, <4>2, <4>3 DEF TypeOK
      <4>q. QED BY <3>1, <4>2, <4>3, <4>4 DEF Freeing
    <3>3. b \in Blocks
      BY <3>2, WhereList
    <3>4. b \in Held(v)
      BY <3>2, <3>3
    <3>q. QED BY <3>2, <3>4
  <2>q. QED BY <2>2, <2>3, <2>4, <2>5
<1> HIDE DEF L, O, Held
<1> DEFINE LO == L \cup O
           All == held \cup LO
<1>8. /\ IsFiniteSet(LO) /\ Cardinality(LO) <= Cardinality(L) + Cardinality(O)
      /\ Cardinality(O) \in Nat /\ Cardinality(LO) \in Nat
  BY <1>4, <1>5, AtMost
<1>9. Sized(s)' \subseteq All
  BY <1>7
<1> HIDE DEF LO
<1>10. /\ IsFiniteSet(All) /\ Cardinality(All) <= Cardinality(held) + Cardinality(LO)
       /\ Cardinality(All) \in Nat
  BY <1>6, <1>8, AtMost
<1> HIDE DEF All
<1> DEFINE S == Sized(s)'
<1> HIDE DEF S
<1>11. IsFiniteSet(S) /\ Cardinality(S) <= Cardinality(All)
  <2>1. S \in SUBSET All
    BY <1>9 DEF S
  <2>q. QED BY <1>10, <2>1, FS_Subset
<1>12. Cardinality(S) <= Limit
  <2> DEFINE X == (Cardinality(Worker) - 1) * (Batch + 1)
  <2>1. X \in Int
    BY <1>2, OwnerAssumption, FS_CardinalityType
  <2>2. Cardinality(O) <= X /\ Limit = MaxHeld - 1 + X + Batch \div 2
    BY <1>4 DEF Limit
  <2> HIDE DEF X
  <2>3. Cardinality(S) \in Nat
    BY <1>11, FS_CardinalityType
  <2>q. QED BY <1>2, <1>5, <1>6, <1>8, <1>10, <1>11, <2>1, <2>2, <2>3, HeldAssumption
<1>q. QED BY <1>11, <1>12 DEF S

(* The blocks of a size grow only when one is cut, and then there are few. *)
LEMMA SizedStep ==
  ASSUME IInv, HeldInv, Countdown, SizedInv, [Next]_vars
  PROVE  SizedInv'
<1> SUFFICES ASSUME NEW s \in Size
             PROVE  IsFiniteSet(Sized(s)') /\ Cardinality(Sized(s)') <= Limit
  BY DEF SizedInv, Limit
<1>1. IsFiniteSet(Sized(s)) /\ Cardinality(Sized(s)) <= Limit
  BY DEF SizedInv
<1>2. ASSUME Sized(s)' \subseteq Sized(s)
      PROVE  IsFiniteSet(Sized(s)') /\ Cardinality(Sized(s)') <= Limit
  <2> DEFINE S == Sized(s)'
             R == Sized(s)
  <2>0. IsFiniteSet(R) /\ Cardinality(R) <= Limit /\ S \in SUBSET R
    BY <1>1, <1>2
  <2> HIDE DEF S, R
  <2>1. IsFiniteSet(S) /\ Cardinality(S) <= Cardinality(R)
    BY <2>0, FS_Subset
  <2>2. Cardinality(S) \in Nat /\ Cardinality(R) \in Nat
    BY <2>0, <2>1, FS_CardinalityType
  <2>3. Limit \in Int
    <3>1. Cardinality(Worker) \in Nat /\ Batch \in Nat /\ Batch \div 2 \in Int
      BY OwnerAssumption, FS_CardinalityType, BatchAssumption
    <3>2. (Cardinality(Worker) - 1) * (Batch + 1) \in Int
      BY <3>1
    <3>q. QED BY <3>1, <3>2, HeldAssumption DEF Limit
  <2>4. IsFiniteSet(S) /\ Cardinality(S) <= Limit
    BY <2>0, <2>1, <2>2, <2>3
  <2>q. QED BY <2>4 DEF S
<1>3. CASE \A c \in Blocks' : c \in Blocks
  BY <1>2, <1>3 DEF Sized
<1>4. ASSUME NEW w \in Worker, NEW t \in Size, Cuts(w, t)
      PROVE  IsFiniteSet(Sized(s)') /\ Cardinality(Sized(s)') <= Limit
  <2>1. CASE t = s
    BY <1>4, <2>1, CutBound
  <2>2. CASE t # s
    <3>1. ASSUME NEW b \in Sized(s)' PROVE b \in Sized(s)
      <4>1. b.size = s /\ b \in Blocks'
        BY <3>1 DEF Sized
      <4>2. \/ b \in held'
            \/ \E e \in List : b \in free'[e]
            \/ \E v \in Freeing' : b = op'[v].block
        BY <4>1 DEF Blocks, Listed, InHand, List
      <4>3. /\ Gains(<<w, t>>, NewBlock(t)) /\ <<w, t>> \in List /\ held' = held
            /\ NewBlock(t).size = t /\ op[w].kind = "malloc"
            /\ op' = [op EXCEPT ![w] = [op[w] EXCEPT !.left = @ - 1]]
        BY <1>4 DEF Cuts, AllocateOne, Become, List, Owner, NewBlock
      <4>4. ASSUME NEW e \in List, b \in free'[e]
            PROVE  b \in free[e]
        <5>1. b # NewBlock(t)
          BY <2>2, <4>1, <4>3
        <5>q. QED BY <4>3, <4>4, <5>1, GainsBlock
      <4>5. ASSUME NEW v \in Freeing', b = op'[v].block
            PROVE  v \in Freeing /\ b = op[v].block
        <5>1. v \in Worker /\ op'[v].kind = "free"
          BY <4>5 DEF Freeing
        <5>2. TypeOK
          BY DEF IInv
        <5>3. v # w
          BY <4>3, <5>1, <5>2 DEF TypeOK, NoOp
        <5>4. op'[v] = op[v]
          BY <4>3, <5>1, <5>2, <5>3 DEF TypeOK
        <5>q. QED BY <4>5, <5>1, <5>4 DEF Freeing
      <4>6. b \in Blocks
        BY <4>2, <4>3, <4>4, <4>5, WhereList
      <4>q. QED BY <4>1, <4>6 DEF Sized
    <3>q. QED BY <1>2, <3>1
  <2>q. QED BY <2>1, <2>2
<1>q. QED BY <1>3, <1>4, NewBlocks

(***************************************************************************)
(* THEOREM: the memory that sits in free lists stays bounded.  For every  *)
(* size, what was ever cut from the pool is at most what the program had  *)
(* at one time, half a batch, and a batch and a block for each of the     *)
(* other workers: im_allocate_batch asks the global list first.           *)
(***************************************************************************)
THEOREM Bounded == Spec => []NoBlowup
<1> DEFINE J == HeldInv /\ Countdown /\ SizedInv
<1>1. Init => J
  <2> SUFFICES ASSUME Init PROVE J
    OBVIOUS
  <2>1. Mallocing = {} /\ Blocks = {} /\ held = {}
    BY DEF Init, Mallocing, Freeing, Blocks, Listed, InHand, NoOp
  <2>2. HeldInv
    BY <2>1, FS_EmptySet, HeldAssumption DEF HeldInv
  <2>3. Countdown
    BY BatchAssumption DEF Countdown, Init, Owner
  <2>4. 0 <= Limit
    <3>1. Cardinality(Worker) \in Nat /\ Cardinality(Worker) >= 1
      BY OwnerAssumption, FS_CardinalityType, FS_EmptySet
    <3>2. Batch \in Nat /\ Batch \div 2 \in Nat /\ Batch \div 2 >= 1
      BY BatchAssumption
    <3>3. (Cardinality(Worker) - 1) * (Batch + 1) \in Nat
      BY <3>1, <3>2
    <3>q. QED BY <3>2, <3>3, HeldAssumption DEF Limit
  <2>5. \A s \in Size : Sized(s) = {}
    BY <2>1 DEF Sized
  <2>6. SizedInv
    BY <2>4, <2>5, FS_EmptySet DEF SizedInv
  <2>q. QED BY <2>2, <2>3, <2>6
<1>2. IInv /\ J /\ [Next]_vars => J'
  BY HeldStep, CountdownStep, SizedStep
<1>3. J => NoBlowup
  BY DEF SizedInv, Sized, Limit, NoBlowup
<1>q. QED BY <1>1, <1>2, <1>3, Invariance, PTL DEF Spec

(***************************************************************************)
(* Sums.  A sum is taken by a recursive function on the subsets of the set *)
(* of summands.  That it depends on nothing but the summands follows from  *)
(* a smallest set for which it would not.                                  *)
(***************************************************************************)
Adds(F, T, g) ==
    /\ g[{}] = 0
    /\ \A U \in SUBSET T : g[U] \in Int /\ \A x \in U : g[U] = F[x] + g[U \ {x}]

Walk(F, S, g) ==
    [s \in SUBSET S |-> IF s = {} THEN 0
                        ELSE LET x == CHOOSE x \in s : TRUE IN F[x] + g[s \ {x}]]

(* What Total is, with its recursive function spelled out.                 *)
LEMMA TotalIs ==
  ASSUME NEW F, NEW S
  PROVE  Total(F, S) = (CHOOSE g : g = Walk(F, S, g))[S]
BY DEF Total, MapThenSumSet, MapThenFoldSet, Walk

(* Among subsets of a finite set there is one that contains no other.      *)
LEMMA Smallest ==
  ASSUME NEW S, IsFiniteSet(S), NEW B, B \subseteq SUBSET S, B # {}
  PROVE  \E T \in B : \A R \in B : R \subseteq T => R = T
<1>1. IsWellFoundedOn(StrictSubsetOrdering(S), SUBSET S)
  BY FS_StrictSubsetOrderingWellFounded, FS_FiniteSubsetsOfFinite
<1>2. PICK T \in B : \A R \in B : <<R, T>> \notin StrictSubsetOrdering(S)
  BY <1>1, WFMin, Zenon
<1>3. ASSUME NEW R \in B, R \subseteq T, R # T
      PROVE  FALSE
  <2>1. <<R, T>> \in StrictSubsetOrdering(S)
    BY <1>3 DEF StrictSubsetOrdering
  <2>q. QED BY <1>2, <2>1
<1>q. QED BY <1>3

(* Integers over a finite set have a sum.                                  *)
LEMMA SumExists ==
  ASSUME NEW S, IsFiniteSet(S), NEW F, \A x \in S : F[x] \in Int
  PROVE  \E g : Adds(F, S, g)
<1> DEFINE B == {T \in SUBSET S : ~ \E g : Adds(F, T, g)}
<1> SUFFICES ASSUME B # {} PROVE FALSE
  OBVIOUS
<1>1. PICK T \in B : \A R \in B : R \subseteq T => R = T
  <2>1. B \subseteq SUBSET S
    OBVIOUS
  <2> HIDE DEF B
  <2>q. QED BY <2>1, Smallest
<1>2. CASE T = {}
  <2>1. Adds(F, T, [U \in SUBSET T |-> 0])
    BY <1>2 DEF Adds
  <2>q. QED BY <1>1, <2>1
<1>3. CASE T # {}
  <2>1. PICK x \in T : TRUE
    BY <1>3
  <2>2. T \ {x} \in SUBSET S /\ T \ {x} \notin B
    BY <1>1, <2>1
  <2>3. PICK g : Adds(F, T \ {x}, g)
    BY <2>2
  <2> DEFINE h == [U \in SUBSET T |-> IF x \in U THEN F[x] + g[U \ {x}] ELSE g[U]]
  <2>4. h[{}] = 0
    BY <2>3 DEF Adds
  <2>5. ASSUME NEW U \in SUBSET T
        PROVE  h[U] \in Int /\ \A y \in U : h[U] = F[y] + h[U \ {y}]
    <3>1. /\ h[U] = IF x \in U THEN F[x] + g[U \ {x}] ELSE g[U]
          /\ \A y \in U : h[U \ {y}] = IF x \in U \ {y} THEN F[x] + g[(U \ {y}) \ {x}]
                                                        ELSE g[U \ {y}]
      <4>1. \A y \in U : U \ {y} \in SUBSET T
        OBVIOUS
      <4>q. QED BY <4>1
    <3>2. F[x] \in Int /\ \A y \in U : F[y] \in Int
      BY <1>1, <2>1
    <3> HIDE DEF h
    <3>3. \A V \in SUBSET (T \ {x}) : g[V] \in Int /\ \A y \in V : g[V] = F[y] + g[V \ {y}]
      BY <2>3 DEF Adds
    <3>4. CASE x \notin U
      <4>1. U \in SUBSET (T \ {x})
        BY <3>4
      <4>q. QED BY <3>1, <3>3, <3>4, <4>1
    <3>5. CASE x \in U
      <4>1. U \ {x} \in SUBSET (T \ {x})
        OBVIOUS
      <4>2. g[U \ {x}] \in Int /\ h[U] = F[x] + g[U \ {x}]
        BY <3>1, <3>3, <3>5, <4>1
      <4>3. h[U] \in Int
        BY <3>2, <4>2
      <4>4. ASSUME NEW y \in U
            PROVE  h[U] = F[y] + h[U \ {y}]
        <5>1. CASE y = x
          BY <3>1, <4>2, <5>1
        <5>2. CASE y # x
          <6>1. h[U \ {y}] = F[x] + g[(U \ {y}) \ {x}]
            BY <3>1, <3>5, <5>2
          <6>2. y \in U \ {x}
            BY <5>2
          <6>3. g[U \ {x}] = F[y] + g[(U \ {x}) \ {y}]
            BY <3>3, <4>1, <6>2
          <6>4. (U \ {x}) \ {y} = (U \ {y}) \ {x}
            OBVIOUS
          <6>5. (U \ {y}) \ {x} \in SUBSET (T \ {x})
            OBVIOUS
          <6>6. g[(U \ {y}) \ {x}] \in Int
            BY <3>3, <6>5
          <6>7. F[x] \in Int /\ F[y] \in Int
            BY <3>2
          <6>8. h[U] = F[x] + (F[y] + g[(U \ {y}) \ {x}])
            BY <4>2, <6>3, <6>4
          <6>q. QED BY <6>1, <6>6, <6>7, <6>8
        <5>q. QED BY <5>1, <5>2
      <4>q. QED BY <4>3, <4>4
    <3>q. QED BY <3>4, <3>5
  <2>6. Adds(F, T, h)
    <3> HIDE DEF h
    <3>q. QED BY <2>4, <2>5 DEF Adds
  <2>q. QED BY <1>1, <2>6
<1>q. QED BY <1>2, <1>3

(* The recursive function computes it.                                     *)
LEMMA SumIs ==
  ASSUME NEW S, IsFiniteSet(S), NEW F, NEW g, Adds(F, S, g)
  PROVE  Total(F, S) = g[S]
<1> DEFINE h == [U \in SUBSET S |-> g[U]]
           iter == CHOOSE i : i = Walk(F, S, i)
<1>1. h = Walk(F, S, h)
  <2>1. ASSUME NEW U \in SUBSET S
        PROVE  h[U] = Walk(F, S, h)[U]
    <3>1. CASE U = {}
      BY <3>1 DEF Adds, Walk
    <3>2. CASE U # {}
      <4> DEFINE x == CHOOSE x \in U : TRUE
      <4>1. x \in U
        BY <3>2
      <4>2. Walk(F, S, h)[U] = F[x] + h[U \ {x}]
        BY <3>2 DEF Walk
      <4>3. h[U \ {x}] = g[U \ {x}] /\ h[U] = g[U]
        OBVIOUS
      <4> HIDE DEF x
      <4>4. g[U] = F[x] + g[U \ {x}]
        BY <4>1 DEF Adds
      <4> HIDE DEF h
      <4>q. QED BY <4>2, <4>3, <4>4
    <3>q. QED BY <3>1, <3>2
  <2>2. h \in [SUBSET S -> {h[U] : U \in SUBSET S}] /\ DOMAIN h = SUBSET S
    OBVIOUS
  <2>3. /\ Walk(F, S, h) = [U \in SUBSET S |-> Walk(F, S, h)[U]]
        /\ h = [U \in SUBSET S |-> h[U]]
    BY DEF Walk
  <2> HIDE DEF h
  <2>4. [U \in SUBSET S |-> Walk(F, S, h)[U]] = [U \in SUBSET S |-> h[U]]
    BY <2>1
  <2>q. QED BY <2>3, <2>4
<1>2. iter = Walk(F, S, iter)
  <2> HIDE DEF h
  <2>q. QED BY <1>1
<1> HIDE DEF iter
<1> DEFINE B == {U \in SUBSET S : iter[U] # g[U]}
<1>3. B = {}
  <2> SUFFICES ASSUME B # {} PROVE FALSE
    OBVIOUS
  <2>1. PICK T \in B : \A R \in B : R \subseteq T => R = T
    <3>1. B \subseteq SUBSET S
      OBVIOUS
    <3> HIDE DEF B
    <3>q. QED BY <3>1, Smallest
  <2>2. T \in SUBSET S /\ iter[T] # g[T]
    BY <2>1
  <2>3. Walk(F, S, iter)[T] = IF T = {} THEN 0
                              ELSE LET x == CHOOSE x \in T : TRUE IN F[x] + iter[T \ {x}]
    BY <2>2 DEF Walk
  <2>4. iter[T] = IF T = {} THEN 0
                  ELSE LET x == CHOOSE x \in T : TRUE IN F[x] + iter[T \ {x}]
    BY <1>2, <2>3
  <2>5. CASE T = {}
    BY <2>2, <2>4, <2>5 DEF Adds
  <2>6. CASE T # {}
    <3> DEFINE x == CHOOSE x \in T : TRUE
    <3>1. x \in T
      BY <2>6
    <3>2. iter[T] = F[x] + iter[T \ {x}]
      BY <2>4, <2>6
    <3> HIDE DEF x
    <3>3. iter[T \ {x}] = g[T \ {x}]
      <4>1. T \ {x} # T /\ T \ {x} \subseteq T /\ T \ {x} \in SUBSET S
        BY <2>2, <3>1
      <4>2. T \ {x} \notin B
        BY <2>1, <4>1
      <4>q. QED BY <4>1, <4>2
    <3>4. g[T] = F[x] + g[T \ {x}]
      BY <2>2, <3>1 DEF Adds
    <3>q. QED BY <2>2, <3>2, <3>3, <3>4
  <2>q. QED BY <2>5, <2>6
<1>4. iter[S] = g[S]
  BY <1>3
<1>q. QED BY <1>4, TotalIs DEF iter

(* The empty sum.                                                          *)
LEMMA SumOfNone ==
  ASSUME NEW F
  PROVE  Total(F, {}) = 0
<1>1. \E g : Adds(F, {}, g)
  BY SumExists, FS_EmptySet
<1>q. QED BY <1>1, SumIs, FS_EmptySet DEF Adds

(* A sum of integers is an integer.                                        *)
LEMMA SumIsInt ==
  ASSUME NEW S, IsFiniteSet(S), NEW F, \A x \in S : F[x] \in Int
  PROVE  Total(F, S) \in Int
<1>1. PICK g : Adds(F, S, g)
  BY SumExists
<1>2. Total(F, S) = g[S]
  BY <1>1, SumIs
<1>3. S \in SUBSET S
  OBVIOUS
<1>q. QED BY <1>1, <1>2, <1>3 DEF Adds

(* A sum depends on the values in the set only.                            *)
LEMMA SumOfSame ==
  ASSUME NEW S, IsFiniteSet(S), NEW F, NEW G,
         \A x \in S : F[x] \in Int /\ G[x] = F[x]
  PROVE  Total(G, S) = Total(F, S)
<1>1. PICK g : Adds(F, S, g)
  BY SumExists
<1>2. Adds(G, S, g)
  BY <1>1 DEF Adds
<1>q. QED BY <1>1, <1>2, SumIs

(* A summand that goes takes its value from the sum.                       *)
LEMMA SumWithout ==
  ASSUME NEW S, IsFiniteSet(S), NEW F, \A x \in S : F[x] \in Int,
         NEW G, NEW x \in S, \A y \in S \ {x} : G[y] = F[y]
  PROVE  Total(F, S) = F[x] + Total(G, S \ {x})
<1>1. PICK g : Adds(F, S, g)
  BY SumExists
<1>2. Adds(F, S \ {x}, g)
  BY <1>1 DEF Adds
<1>3. IsFiniteSet(S \ {x})
  BY FS_RemoveElement
<1>4. Total(F, S) = g[S] /\ Total(F, S \ {x}) = g[S \ {x}]
  BY <1>1, <1>2, <1>3, SumIs
<1>5. S \in SUBSET S
  OBVIOUS
<1>6. g[S] = F[x] + g[S \ {x}]
  BY <1>1, <1>5 DEF Adds
<1>7. Total(G, S \ {x}) = Total(F, S \ {x})
  BY <1>3, SumOfSame
<1>q. QED BY <1>4, <1>6, <1>7

(* A summand that comes adds its value to it.                              *)
LEMMA SumWith ==
  ASSUME NEW S, IsFiniteSet(S), NEW F, \A y \in S : F[y] \in Int,
         NEW x, x \notin S, NEW G, G[x] \in Int, \A y \in S : G[y] = F[y]
  PROVE  Total(G, S \cup {x}) = G[x] + Total(F, S)
<1>1. IsFiniteSet(S \cup {x})
  BY FS_AddElement
<1>2. (S \cup {x}) \ {x} = S /\ \A y \in S \cup {x} : G[y] \in Int
  OBVIOUS
<1>3. Total(G, S \cup {x}) = G[x] + Total(F, (S \cup {x}) \ {x})
  BY <1>1, <1>2, SumWithout
<1>q. QED BY <1>2, <1>3

(* The sizes asked for are numbers.                                        *)
LEMMA Requests == \A r \in Request : r \in Int
BY RequestAssumption

(* What Cilk_internal_malloc was asked for and has not yet given.          *)
Due == [w \in Mallocing |-> op[w].request]

(* A step that leaves the program's blocks and the requests alone leaves  *)
(* the books as they are.                                                 *)
LEMMA BooksSame ==
  ASSUME BooksBalance, used' = used, held' = held, asked' = asked,
         Mallocing' = Mallocing, \A v \in Mallocing : op'[v].request = op[v].request
  PROVE  BooksBalance'
<1>1. Due' = Due
  BY DEF Due
<1>2. used = Total(asked, held) + Total(Due, Mallocing)
  BY DEF BooksBalance, Due
<1>3. used' = Total(asked', held') + Total(Due', Mallocing')
  BY <1>1, <1>2
<1>q. QED BY <1>3 DEF BooksBalance, Due

(* A block given out comes with its size to what the program holds.        *)
LEMMA BooksGiven ==
  ASSUME TypeOK, IsFiniteSet(held), NEW b, b \notin held, NEW r \in Request, GiveOut(b, r)
  PROVE  Total(asked', held') = r + Total(asked, held)
<1>1. \A c \in held : asked[c] \in Int
  <2>1. \A c \in held : asked[c] \in Request
    BY DEF TypeOK
  <2>q. QED BY <2>1, Requests, Zenon
<1>2. /\ held' = held \cup {b} /\ asked'[b] = r /\ r \in Int
      /\ \A c \in held : asked'[c] = asked[c]
  BY RequestAssumption DEF GiveOut
<1>q. QED BY <1>1, <1>2, SumWith

LEMMA BooksStep ==
  ASSUME IInv, HeldInv, BooksBalance, [Next]_vars
  PROVE  BooksBalance'
<1> DEFINE H == Total(asked, held)
           M == Total(Due, Mallocing)
<1>a. TypeOK /\ IsFiniteSet(Mallocing) /\ IsFiniteSet(held)
  <2>1. Mallocing \subseteq Worker
    BY DEF Mallocing
  <2>q. QED BY <2>1, OwnerAssumption, FS_Subset DEF IInv, HeldInv
<1>b. /\ \A c \in held : asked[c] \in Int
      /\ \A v \in Mallocing : Due[v] \in Int /\ Due[v] = op[v].request
  <2>1. \A c \in held : asked[c] \in Request
    BY <1>a DEF TypeOK
  <2>2. \A v \in Mallocing : Due[v] = op[v].request /\ op[v].request \in Request
    BY <1>a DEF TypeOK, Mallocing, Due, NoOp
  <2>q. QED BY <2>1, <2>2, Requests, Zenon
<1>c. H \in Int /\ M \in Int /\ used = H + M
  BY <1>a, <1>b, SumIsInt DEF BooksBalance, Due
<1>d. ASSUME NEW w \in Worker, NEW r \in Request, Pop(w, r)
      PROVE  Total(asked', held') = r + H
  <2> DEFINE d == <<w, Canonicalize(r)>>
  <2>1. PICK b \in Block : Loses(d, b) /\ GiveOut(b, r) /\ d \in List
    BY <1>a, <1>d, PopMoves
  <2> HIDE DEF d
  <2>2. b \notin held
    BY <2>1, PlacedIs DEF IInv, Placed, Loses
  <2>q. QED BY <1>a, <2>1, <2>2, BooksGiven
<1>e. ASSUME used' = Total(asked', held') + Total(Due', Mallocing')
      PROVE  BooksBalance'
  BY <1>e DEF BooksBalance, Due
<1> HIDE DEF H, M
<1>1. ASSUME NEW w \in Worker, NEW r \in Request, Malloc(w, r)
      PROVE  BooksBalance'
  <2>1. op[w] = NoOp /\ used' = used + r /\ r \in Int
    BY <1>1, RequestAssumption DEF Malloc
  <2>2. CASE free[<<w, Canonicalize(r)>>] # {}
    <3>1. Pop(w, r) /\ op' = op
      BY <1>1, <2>2 DEF Malloc
    <3>2. Total(asked', held') = r + H
      BY <1>d, <3>1
    <3>3. Mallocing' = Mallocing /\ Due' = Due
      BY <3>1 DEF Mallocing, Due
    <3>4. Total(Due', Mallocing') = M
      BY <3>3 DEF M
    <3>q. QED BY <1>c, <1>e, <2>1, <3>2, <3>4
  <2>3. CASE free[<<w, Canonicalize(r)>>] = {}
    <3>1. /\ held' = held /\ asked' = asked
          /\ op' = [op EXCEPT ![w] = [kind |-> "malloc", request |-> r, left |-> 0]]
      BY <1>1, <2>3 DEF Malloc, Become
    <3>2. Mallocing' = Mallocing \cup {w} /\ w \notin Mallocing
      BY <1>a, <2>1, <3>1 DEF Mallocing, TypeOK, NoOp
    <3>3. Due'[w] = r /\ \A v \in Mallocing : Due'[v] = Due[v]
      <4>1. op'[w].request = r /\ \A v \in Mallocing : op'[v] = op[v]
        BY <1>a, <3>1, <3>2 DEF TypeOK, Mallocing
      <4>q. QED BY <3>2, <4>1 DEF Due
    <3>4. Total(Due', Mallocing \cup {w}) = Due'[w] + Total(Due, Mallocing)
      BY <1>a, <1>b, <2>1, <3>2, <3>3, SumWith
    <3>5. Total(Due', Mallocing') = r + M /\ Total(asked', held') = H
      BY <3>1, <3>2, <3>3, <3>4 DEF M, H
    <3>q. QED BY <1>c, <1>e, <2>1, <3>5
  <2>q. QED BY <2>2, <2>3
<1>2. ASSUME NEW w \in Worker, MallocDone(w)
      PROVE  BooksBalance'
  <2>1. /\ op[w].request \in Request /\ Pop(w, op[w].request) /\ used' = used
        /\ op' = [op EXCEPT ![w] = NoOp] /\ op[w].kind = "malloc"
    BY <1>2, <1>a DEF MallocDone, TypeOK, NoOp, Become
  <2>2. Total(asked', held') = op[w].request + H
    BY <1>d, <2>1
  <2>3. Mallocing' = Mallocing \ {w} /\ w \in Mallocing
    BY <1>a, <2>1 DEF Mallocing, TypeOK, NoOp
  <2>4. \A v \in Mallocing \ {w} : Due'[v] = Due[v]
    <3>1. \A v \in Mallocing \ {w} : op'[v] = op[v]
      BY <1>a, <2>1 DEF TypeOK, Mallocing
    <3>q. QED BY <2>3, <3>1 DEF Due
  <2>5. Total(Due, Mallocing) = Due[w] + Total(Due', Mallocing \ {w})
    BY <1>a, <1>b, <2>3, <2>4, SumWithout
  <2>6. M = op[w].request + Total(Due', Mallocing') /\ op[w].request \in Int
    BY <1>b, <2>3, <2>5 DEF M
  <2>7. Total(Due', Mallocing') \in Int
    <3>1. IsFiniteSet(Mallocing \ {w})
      BY <1>a, FS_RemoveElement
    <3>2. \A v \in Mallocing \ {w} : Due'[v] \in Int
      BY <1>b, <2>4
    <3>q. QED BY <2>3, <3>1, <3>2, SumIsInt
  <2>q. QED BY <1>c, <1>e, <2>1, <2>2, <2>6, <2>7
<1>3. ASSUME NEW w \in Worker, NEW b \in held, Free(w, b)
      PROVE  BooksBalance'
  <2>1. /\ op[w] = NoOp /\ used' = used - asked[b] /\ asked[b] \in Int
        /\ held' = held \ {b} /\ \A c \in held \ {b} : asked'[c] = asked[c]
    BY <1>3, <1>b DEF Free, TakeBack
  <2>2. Total(asked, held) = asked[b] + Total(asked', held')
    BY <1>a, <1>b, <2>1, SumWithout
  <2>3. Total(asked', held') \in Int
    <3>1. IsFiniteSet(held \ {b}) /\ \A c \in held \ {b} : asked'[c] \in Int
      BY <1>a, <1>b, <2>1, FS_RemoveElement
    <3>q. QED BY <2>1, <3>1, SumIsInt
  <2>4. Mallocing' = Mallocing /\ \A v \in Mallocing : op'[v] = op[v]
    <3>1. \/ op' = op
          \/ op' = [op EXCEPT ![w] = [kind |-> "free", block |-> b, request |-> asked[b], left |-> 0]]
      BY <1>3 DEF Free, Become
    <3>q. QED BY <1>a, <2>1, <3>1 DEF Mallocing, TypeOK, NoOp
  <2>5. Total(Due', Mallocing') = M
    <3>1. Due' = Due
      BY <2>4 DEF Due
    <3>q. QED BY <2>4, <3>1 DEF M
  <2>6. H = asked[b] + Total(asked', held')
    BY <2>2 DEF H
  <2>q. QED BY <1>c, <1>e, <2>1, <2>3, <2>5, <2>6
<1>4. ASSUME NEW w \in Worker,
             FreeDone(w) \/ AllocateBatch(w) \/ AllocateOne(w) \/ FreeBatch(w)
               \/ FreeOne(w) \/ Unlock(w)
      PROVE  BooksBalance'
  <2>1. held' = held /\ asked' = asked
    BY <1>4 DEF FreeDone, AllocateBatch, AllocateOne, FreeBatch, FreeOne, Unlock
  <2>2. used' = used
    <3>1. CASE AllocateOne(w)
      <4>1. /\ used' = (used + Canonicalize(op[w].request)) - Canonicalize(op[w].request)
            /\ op[w].request \in Request
        BY <1>a, <3>1 DEF AllocateOne, ToWorker, TypeOK, NoOp
      <4>2. Canonicalize(op[w].request) \in Nat
        BY <4>1, Canonical, Sizes
      <4>q. QED BY <1>c, <4>1, <4>2
    <3>2. CASE FreeOne(w)
      <4>1. used' = (used + op[w].request) - op[w].request /\ op[w].request \in Int
        BY <1>a, <3>2, RequestAssumption DEF FreeOne, TypeOK, NoOp
      <4>q. QED BY <1>c, <4>1
    <3>3. CASE FreeDone(w) \/ AllocateBatch(w) \/ FreeBatch(w) \/ Unlock(w)
      BY <3>3 DEF FreeDone, AllocateBatch, FreeBatch, Unlock
    <3>q. QED BY <1>4, <3>1, <3>2, <3>3
  <2>3. Mallocing' = Mallocing /\ \A v \in Mallocing : op'[v].request = op[v].request
    <3>1. CASE FreeDone(w)
      BY <1>a, <3>1 DEF FreeDone, Become, Mallocing, TypeOK, NoOp
    <3>2. CASE AllocateBatch(w)
      BY <1>a, <3>2 DEF AllocateBatch, Become, Mallocing, TypeOK, NoOp
    <3>3. CASE AllocateOne(w)
      BY <1>a, <3>3 DEF AllocateOne, Become, Mallocing, TypeOK, NoOp
    <3>4. CASE FreeBatch(w)
      BY <1>a, <3>4 DEF FreeBatch, Become, Mallocing, TypeOK, NoOp
    <3>5. CASE FreeOne(w)
      <4>1. op' = [op EXCEPT ![w] = [op[w] EXCEPT !.left = @ - 1]] /\ op[w].kind = "free"
        BY <3>5 DEF FreeOne, Become
      <4>q. QED BY <1>a, <4>1 DEF Mallocing, TypeOK, NoOp
    <3>6. CASE Unlock(w)
      BY <3>6 DEF Unlock, Mallocing
    <3>q. QED BY <1>4, <3>1, <3>2, <3>3, <3>4, <3>5, <3>6
  <2>q. QED BY <2>1, <2>2, <2>3, BooksSame
<1>5. CASE UNCHANGED vars
  BY <1>5, BooksSame DEF vars, Mallocing
<1>q. QED
  BY <1>1, <1>2, <1>3, <1>4, <1>5 DEF Next, Step

(***************************************************************************)
(* THEOREM: the books balance.  The sum of all used fields is what the    *)
(* program was given and has not returned, and what it has asked for and  *)
(* waits for: the batches that move between a worker's lists and the      *)
(* global ones cancel out.  So global_cleanup finds used at zero whenever *)
(* the program has returned all it was given.                             *)
(***************************************************************************)
THEOREM Balanced == Spec => []BooksBalance
<1>1. Init => HeldInv /\ BooksBalance
  <2> SUFFICES ASSUME Init PROVE HeldInv /\ BooksBalance
    OBVIOUS
  <2>1. Mallocing = {} /\ held = {} /\ used = 0
    BY DEF Init, Mallocing, NoOp
  <2>2. HeldInv
    BY <2>1, FS_EmptySet, HeldAssumption DEF HeldInv
  <2>3. Total(asked, held) = 0 /\ Total([w \in Mallocing |-> op[w].request], Mallocing) = 0
    BY <2>1, SumOfNone
  <2>q. QED BY <2>1, <2>2, <2>3 DEF BooksBalance
<1>2. IInv /\ HeldInv /\ BooksBalance /\ [Next]_vars => HeldInv' /\ BooksBalance'
  BY HeldStep, BooksStep
<1>q. QED BY <1>1, <1>2, Invariance, PTL DEF Spec
=============================================================================
