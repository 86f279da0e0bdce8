--------------------------- MODULE InternalMalloc ---------------------------
(***************************************************************************)
(* The runtime's own allocator, runtime/internal-malloc.c with the inlined *)
(* paths of cilk-cilk2c-pre.h.  Every worker has a free list per size;     *)
(* half a batch at a time moves between it and the global free list of     *)
(* that size, under global_im_lock.  New blocks are cut from a pool that   *)
(* is made of chunks of Cilk_malloc.  Frames and closures migrate, so any  *)
(* worker may free any block.                                              *)
(*                                                                         *)
(* A free list is a set, since nothing depends on its order.  Requests     *)
(* above CILK_INTERNAL_MALLOC_THRESHOLD go straight to Cilk_malloc and are *)
(* left out, as are the statistics im_allocated and im_wasted.  Of used,   *)
(* which every worker and the global allocator keep, the model has the     *)
(* sum: global_cleanup reads nothing else of it.                           *)
(***************************************************************************)
EXTENDS Integers, FiniteSets, FiniteSetsExt

CONSTANTS
    Worker,
    Global,         \* the owner of the global descriptors
    Size,           \* the sizes of the buckets, from CILK_CACHE_LINE up
    Request,        \* the sizes the program asks for
    Batch,          \* options->alloc_batch_size, at least 8 in the code
    Chunk,          \* CILK_INTERNAL_MALLOC_CHUNK
    MaxHeld         \* bound: blocks the program has at a time

ASSUME OwnerAssumption == IsFiniteSet(Worker) /\ Worker # {} /\ Global \notin Worker
ASSUME SizeAssumption == Chunk \in Nat /\ Size \subseteq 1 .. Chunk
ASSUME RequestAssumption == Request \subseteq Nat /\ \A r \in Request : \E s \in Size : r <= s
ASSUME BatchAssumption == Batch \in Nat /\ Batch >= 2
ASSUME HeldAssumption == MaxHeld \in Nat

Owner == Worker \cup {Global}
Block == [chunk : Nat, at : Nat, size : Size]

VARIABLES
    free,       \* free_list of every owner's descriptor for every size
    count,      \* count of the same: what may be freed before a batch is due
    used,       \* the sum of global_im_info.used and every im_info.used
    pool,       \* global_pool_begin and global_pool_end, in the latest chunk
    lock,       \* global_im_lock
    held,       \* the program's blocks
    asked,      \* the size each of them was asked for with
    op          \* the call each worker is in

vars == <<free, count, used, pool, lock, held, asked, op>>

NoOp == [kind |-> "none"]
Nobody == Global            \* as the owner of the lock

(* The if-chain of Cilk_internal_malloc_canonicalize (and of               *)
(* size_to_bucket): the first size that is large enough.                   *)
Canonicalize(r) == CHOOSE s \in Size : r <= s /\ \A t \in Size : r <= t => s <= t

Init ==
    /\ free = [d \in Owner \X Size |-> {}]
    /\ count = [d \in Owner \X Size |-> Batch]
    /\ used = 0
    /\ pool = [chunk |-> 0, begin |-> 0, end |-> 0]
    /\ lock = Nobody
    /\ held = {} /\ asked = [b \in {} |-> 0]
    /\ op = [w \in Worker |-> NoOp]

Become(w, o) == op' = [op EXCEPT ![w] = o]

NoBatch == 0                                            \* mutant
OneTooMany == Batch + 1                                 \* mutant
HalfBatch == Batch \div 2

(* The block goes to, or comes from, the program.                          *)
GiveOut(b, r) == /\ held' = held \cup {b}
                 /\ asked' = [c \in held \cup {b} |-> IF c = b THEN r ELSE asked[c]]
TakeBack(b) == /\ held' = held \ {b}
               /\ asked' = [c \in held \ {b} |-> asked[c]]

(***************************************************************************)
(* Cilk_internal_malloc.                                                   *)
(***************************************************************************)
Pop(w, r) ==
    \E b \in free[<<w, Canonicalize(r)>>] :
        /\ free' = [free EXCEPT ![<<w, Canonicalize(r)>>] = @ \ {b}]
        /\ count' = [count EXCEPT ![<<w, Canonicalize(r)>>] = @ + 1]
        /\ GiveOut(b, r)

Malloc(w, r) ==
    /\ op[w] = NoOp
    /\ Cardinality(held) + Cardinality({v \in Worker : op[v].kind = "malloc"}) < MaxHeld
    /\ used' = used + r
    /\ IF free[<<w, Canonicalize(r)>>] # {}
         THEN Pop(w, r) /\ UNCHANGED op
         ELSE Become(w, [kind |-> "malloc", request |-> r, left |-> 0])
              /\ UNCHANGED <<free, count, held, asked>>
    /\ UNCHANGED <<pool, lock>>

(* while (!((mem = d->free_list))) im_allocate_batch(ws, size, bucket)     *)
MallocDone(w) ==
    /\ op[w].kind = "malloc" /\ lock # w
    /\ Pop(w, op[w].request)
    /\ Become(w, NoOp)
    /\ UNCHANGED <<used, pool, lock>>

AllocateBatch(w) ==
    /\ op[w].kind = "malloc" /\ lock = Nobody
    /\ free[<<w, Canonicalize(op[w].request)>>] = {}
    /\ lock' = w
    /\ Become(w, [op[w] EXCEPT !.left = HalfBatch])
    /\ UNCHANGED <<free, count, used, pool, held, asked>>

FitsLoosely(s) == pool.begin < pool.end                 \* mutant
Fits(s) == pool.begin + s <= pool.end

(* global_im_alloc from the pool, with extend_global_pool.                 *)
Cut(s) ==
    IF Fits(s)
      THEN [pool EXCEPT !.begin = @ + s]
      ELSE [chunk |-> pool.chunk + 1, begin |-> s, end |-> Chunk]

AlwaysCut(s) == TRUE                                    \* mutant
NoneLeft(s) == free[<<Global, s>>] = {}
WholeList(l, b) == l                                    \* mutant
Rest(l, b) == l \ {b}

(* global_im_alloc, and Cilk_internal_free of what it returns.  The latter *)
(* would need the lock that this worker has, if count were not positive.   *)
Allocated(w, s) ==
    /\ count[<<w, s>>] > 0
    /\ \/ \E b \in free[<<Global, s>>] :
             /\ free' = [free EXCEPT ![<<Global, s>>] = Rest(@, b), ![<<w, s>>] = @ \cup {b}]
             /\ count' = [count EXCEPT ![<<Global, s>>] = @ + 1, ![<<w, s>>] = @ - 1]
             /\ UNCHANGED pool
       \/ /\ NoneLeft(s)
          /\ pool' = Cut(s)
          /\ free' = [free EXCEPT ![<<w, s>>] = @ \cup
                        {[chunk |-> pool'.chunk, at |-> pool'.begin - s, size |-> s]}]
          /\ count' = [count EXCEPT ![<<w, s>>] = @ - 1]

FreeUncounted(n) == used' = used + n                    \* mutant
ToWorker(n) == used' = (used + n) - n

AllocateOne(w) ==
    /\ op[w].kind = "malloc" /\ lock = w /\ op[w].left > 0
    /\ Allocated(w, Canonicalize(op[w].request))
    /\ ToWorker(Canonicalize(op[w].request))
    /\ Become(w, [op[w] EXCEPT !.left = @ - 1])
    /\ UNCHANGED <<lock, held, asked>>

(***************************************************************************)
(* Cilk_internal_free.                                                     *)
(***************************************************************************)
Push(w, b) ==
    /\ free' = [free EXCEPT ![<<w, b.size>>] = @ \cup {b}]
    /\ count' = [count EXCEPT ![<<w, b.size>>] = @ - 1]

Free(w, b) ==
    /\ op[w] = NoOp
    /\ used' = used - asked[b]
    /\ TakeBack(b)
    /\ IF count[<<w, b.size>>] > 0
         THEN Push(w, b) /\ UNCHANGED op
         ELSE Become(w, [kind |-> "free", block |-> b, request |-> asked[b], left |-> 0])
              /\ UNCHANGED <<free, count>>
    /\ UNCHANGED <<pool, lock>>

(* while (d->count <= 0) im_free_batch(ws, size, bucket)                   *)
FreeDone(w) ==
    /\ op[w].kind = "free" /\ lock # w
    /\ count[<<w, op[w].block.size>>] > 0
    /\ Push(w, op[w].block)
    /\ Become(w, NoOp)
    /\ UNCHANGED <<used, pool, lock, held, asked>>

FreeBatch(w) ==
    /\ op[w].kind = "free" /\ lock = Nobody
    /\ count[<<w, op[w].block.size>>] <= 0
    /\ lock' = w
    /\ Become(w, [op[w] EXCEPT !.left = HalfBatch])
    /\ UNCHANGED <<free, count, used, pool, held, asked>>

(* Cilk_internal_malloc, which would need the lock if the list were empty, *)
(* and global_im_free of what it returns.                                  *)
FreeOne(w) ==
    /\ op[w].kind = "free" /\ lock = w /\ op[w].left > 0
    /\ LET s == op[w].block.size
           r == op[w].request
       IN /\ \E b \in free[<<w, s>>] :
                free' = [free EXCEPT ![<<w, s>>] = @ \ {b}, ![<<Global, s>>] = @ \cup {b}]
          /\ count' = [count EXCEPT ![<<w, s>>] = @ + 1, ![<<Global, s>>] = @ - 1]
          /\ used' = (used + r) - r
    /\ Become(w, [op[w] EXCEPT !.left = @ - 1])
    /\ UNCHANGED <<pool, lock, held, asked>>

Unlock(w) ==
    /\ op[w].kind # "none" /\ lock = w /\ op[w].left = 0
    /\ lock' = Nobody
    /\ UNCHANGED <<free, count, used, pool, held, asked, op>>

Step(w) == \/ MallocDone(w) \/ AllocateBatch(w) \/ AllocateOne(w)
           \/ FreeDone(w) \/ FreeBatch(w) \/ FreeOne(w) \/ Unlock(w)

Next == \E w \in Worker :
            \/ \E r \in Request : Malloc(w, r)
            \/ \E b \in held : Free(w, b)
            \/ Step(w)

Spec == Init /\ [][Next]_vars

(* A worker that waits for the lock gets it once it is free often enough:  *)
(* a test-and-set lock promises no more.                                   *)
FairSpec == Spec /\ \A w \in Worker : SF_vars(Step(w))

(***************************************************************************)
(* Properties.                                                             *)
(***************************************************************************)
Freeing == {w \in Worker : op[w].kind = "free"}
Mallocing == {w \in Worker : op[w].kind = "malloc"}
Listed == UNION {free[d] : d \in Owner \X Size}
InHand == {op[w].block : w \in Freeing}
Blocks == held \cup Listed \cup InHand

TypeOK ==
    /\ free \in [Owner \X Size -> SUBSET Block]
    /\ count \in [Owner \X Size -> Int]
    /\ used \in Int
    /\ pool \in [chunk : Nat, begin : 0 .. Chunk, end : {0, Chunk}]
    /\ lock \in Owner
    /\ held \subseteq Block /\ asked \in [held -> Request]
    /\ op \in [Worker -> {NoOp}
                \cup [kind : {"malloc"}, request : Request, left : Nat]
                \cup [kind : {"free"}, block : Block, request : Request, left : Nat]]

(* A block is with the program, in the hand of one worker that frees it,   *)
(* or in one free list, that of its size: it is never handed out twice.    *)
InOnePlace ==
    /\ \A d \in Owner \X Size : \A b \in free[d] : b.size = d[2] /\ b \notin held
    /\ \A d, e \in Owner \X Size : d # e => \A b \in free[d] : b \notin free[e]
    /\ \A w \in Freeing : /\ op[w].block \notin held
                          /\ \A d \in Owner \X Size : op[w].block \notin free[d]
    /\ \A v, w \in Freeing : v # w => op[v].block # op[w].block

(* Blocks lie in their chunk, do not overlap, and are as large as asked.   *)
Apart(b, c) == \/ b.chunk # c.chunk
               \/ b.at + b.size <= c.at
               \/ c.at + c.size <= b.at
NoOverlap ==
    /\ \A b \in Blocks : b.at + b.size <= Chunk
    /\ \A b, c \in Blocks : b # c => Apart(b, c)
    /\ \A b \in held : asked[b] <= b.size

(* "Cilk detected an inconsistency in the free lists": the complaint of    *)
(* per_worker_cleanup and global_cleanup is never made.                    *)
CountsMatch ==
    \A d \in Owner \X Size : count[d] + Cardinality(free[d]) = Batch

(* While a worker holds global_im_lock its own lists need no batch, which  *)
(* would wait for that lock forever.                                       *)
NeverNeedsOwnLock ==
    \A w \in Worker :
        lock = w /\ op[w].left > 0 =>
            IF op[w].kind = "malloc"
              THEN count[<<w, Canonicalize(op[w].request)>>] > 0
              ELSE free[<<w, op[w].block.size>>] # {}

(* The sum of the values of a function over a finite set.                  *)
Total(f, S) == MapThenSumSet(LAMBDA x : f[x], S)

(* The books balance at all times, so that "Cilk detected a memory leak"   *)
(* is said only when the program has left something.                       *)
BooksBalance ==
    used = Total(asked, held)
             + Total([w \in Mallocing |-> op[w].request], Mallocing)

(* Batches bound what sits idle: new memory is cut for a size only while   *)
(* the program and the other workers' lists account for the old.           *)
NoBlowup ==
    \A s \in Size :
        Cardinality({b \in Blocks : b.size = s})
            <= MaxHeld - 1 + (Cardinality(Worker) - 1) * (Batch + 1) + Batch \div 2

(* The inductive invariant: what the holder of the lock has done of its    *)
(* half batch, and how far the pool has been cut.                          *)
LockInv ==
    \A w \in Worker :
        /\ lock = w => op[w] # NoOp /\ op[w].left <= HalfBatch
        /\ w \in Mallocing \cup Freeing /\ op[w].left > 0 => lock = w
        /\ w \in Mallocing /\ lock = w =>
              count[<<w, Canonicalize(op[w].request)>>] >= Batch - HalfBatch + op[w].left
        /\ w \in Freeing /\ lock = w =>
              count[<<w, op[w].block.size>>] <= HalfBatch - op[w].left

Below(b) == /\ b.chunk <= pool.chunk
            /\ b.chunk = pool.chunk => b.at + b.size <= pool.begin
PoolInv ==
    /\ \A d \in Owner \X Size : IsFiniteSet(free[d])
    /\ \A b \in Blocks : Below(b)

IInv == TypeOK /\ InOnePlace /\ NoOverlap /\ CountsMatch /\ LockInv /\ PoolInv

(* Every call returns.                                                     *)
Returns == \A w \in Worker : op[w] # NoOp ~> op[w] = NoOp
=============================================================================
