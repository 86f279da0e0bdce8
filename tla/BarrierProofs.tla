--------------------------- MODULE BarrierProofs ----------------------------
(***************************************************************************)
(* Cilk_barrier is a rendezvous of any finite set of workers, on a machine *)
(* that performs stores in order.                                          *)
(***************************************************************************)
EXTENDS Barrier, FiniteSetTheorems, TLAPS

N == Cardinality(Worker)

(* The counted are some of the workers; if N of them are, they are all.    *)
LEMMA CountedIsSome ==
  ASSUME NEW r
  PROVE  /\ IsFiniteSet(Counted(r)) /\ Cardinality(Counted(r)) \in Nat /\ N \in Nat
         /\ Cardinality(Counted(r)) <= N
         /\ Cardinality(Counted(r)) = N => Counted(r) = Worker
<1>1. Counted(r) \in SUBSET Worker
  BY DEF Counted
<1>q. QED BY <1>1, WorkerAssumption, FS_Subset, FS_CardinalityType DEF N

(* A worker that is not counted leaves room in the counter.                *)
LEMMA Room ==
  ASSUME NEW r, Between(r), NEW w \in Worker, w \notin Counted(r)
  PROVE  barrier_counter \in Nat /\ barrier_counter + 1 <= N
<1>1. Cardinality(Counted(r)) # N
  BY CountedIsSome
<1>q. QED BY <1>1, CountedIsSome DEF Between

(* The initial states: round 0 is over, and nobody has arrived for the next. *)
LEMMA InitIInv == Init => IInv
<1> SUFFICES ASSUME Init PROVE IInv
  OBVIOUS
<1> USE DEF Init
<1>1. TypeOK
  BY WorkerAssumption, RoundAssumption, FS_CardinalityType DEF TypeOK
<1>2. LockInv
  BY WorkerAssumption DEF LockInv
<1>3. Counted(0) = {}
  BY DEF Counted
<1>4. Between(0)
  BY <1>3, FS_EmptySet DEF Between, Numbered, Settled
<1>5. 0 \in 0 .. MaxRound
  BY RoundAssumption
<1>q. QED BY <1>1, <1>2, <1>4, <1>5 DEF IInv

(* Types are kept, as long as the counter has room for who is to count.    *)
LEMMA TypeStep ==
  ASSUME TypeOK, Next, \A w \in Worker : pc[w] = "read" => barrier_counter + 1 <= N
  PROVE  TypeOK'
<1> USE DEF TypeOK
<1>0. N \in Nat /\ MaxRound \in Nat
  BY WorkerAssumption, RoundAssumption, FS_CardinalityType DEF N
<1>1. ASSUME NEW w \in Worker, Enter(w) PROVE TypeOK'
  BY <1>0, <1>1 DEF Enter, Goto, Reverse, shared
<1>2. ASSUME NEW w \in Worker, Lock(w) PROVE TypeOK'
  BY <1>2 DEF Lock, Goto
<1>3. ASSUME NEW w \in Worker, Read(w) PROVE TypeOK'
  <2>1. barrier_counter + 1 \in 0 .. Cardinality(Worker)
    BY <1>0, <1>3 DEF Read, Goto, N
  <2>q. QED BY <1>3, <2>1 DEF Read, Goto, shared
<1>4. ASSUME NEW w \in Worker, Write(w) PROVE TypeOK'
  BY <1>4 DEF Write, Goto
<1>5. ASSUME NEW w \in Worker, Unlock(w) PROVE TypeOK'
  BY <1>5 DEF Unlock, Goto
<1>6. ASSUME NEW w \in Worker, Last(w) PROVE TypeOK'
  BY <1>6 DEF Last, Goto, Stores, shared
<1>7. ASSUME NEW w \in Worker, Wait(w) PROVE TypeOK'
  BY <1>7 DEF Wait, Goto, shared
<1>8. ASSUME NEW w \in Worker, Spin(w) PROVE TypeOK'
  BY <1>8 DEF Spin, Goto, shared
<1>9. ASSUME NEW w \in Worker, StoreCounter(w) PROVE TypeOK'
  BY <1>0, <1>9 DEF StoreCounter, N
<1>10. ASSUME NEW w \in Worker, StoreRelease(w) PROVE TypeOK'
  BY <1>10 DEF StoreRelease
<1>q. QED
  BY <1>1, <1>2, <1>3, <1>4, <1>5, <1>6, <1>7, <1>8, <1>9, <1>10 DEF Next, Step, Machine

(* The lock has one holder, who knows what the counter will be.            *)
LEMMA LockStep ==
  ASSUME TypeOK, LockInv, Next,
         \A w \in Worker : StoreCounter(w) => \A v \in Worker : pc[v] \notin {"write", "unlock"}
  PROVE  LockInv'
<1> SUFFICES ASSUME NEW v \in Worker
             PROVE  /\ barrier_lock' = v <=> pc'[v] \in {"read", "write", "unlock"}
                    /\ pc'[v] = "write" => local_counter'[v] = barrier_counter' + 1
                    /\ pc'[v] = "unlock" => local_counter'[v] = barrier_counter'
  BY DEF LockInv
<1> DEFINE G == /\ barrier_lock' = v <=> pc'[v] \in {"read", "write", "unlock"}
                /\ pc'[v] = "write" => local_counter'[v] = barrier_counter' + 1
                /\ pc'[v] = "unlock" => local_counter'[v] = barrier_counter'
<1> USE DEF TypeOK, LockInv
<1>0. Nobody \notin Worker
  BY WorkerAssumption
<1>1. ASSUME NEW w \in Worker, Enter(w) PROVE G
  BY <1>1 DEF Enter, Goto, shared
<1>2. ASSUME NEW w \in Worker, Lock(w) PROVE G
  BY <1>0, <1>2 DEF Lock, Goto
<1>3. ASSUME NEW w \in Worker, Read(w) PROVE G
  BY <1>3 DEF Read, Goto, shared
<1>4. ASSUME NEW w \in Worker, Write(w) PROVE G
  BY <1>4 DEF Write, Goto
<1>5. ASSUME NEW w \in Worker, Unlock(w) PROVE G
  BY <1>0, <1>5 DEF Unlock, Goto
<1>6. ASSUME NEW w \in Worker, Last(w) PROVE G
  BY <1>6 DEF Last, Goto, shared
<1>7. ASSUME NEW w \in Worker, Wait(w) PROVE G
  BY <1>7 DEF Wait, Goto, shared
<1>8. ASSUME NEW w \in Worker, Spin(w) PROVE G
  BY <1>8 DEF Spin, Goto, shared
<1>9. ASSUME NEW w \in Worker, StoreCounter(w) PROVE G
  BY <1>9 DEF StoreCounter
<1>10. ASSUME NEW w \in Worker, StoreRelease(w) PROVE G
  BY <1>10 DEF StoreRelease
<1>q. QED
  BY <1>1, <1>2, <1>3, <1>4, <1>5, <1>6, <1>7, <1>8, <1>9, <1>10 DEF Next, Step, Machine

(***************************************************************************)
(* What a step does to a worker that is between two rounds.                *)
(***************************************************************************)
Placed(w, r) == pending[w] = {} /\ (Settled(w, r) \/ Arriving(w, r))

(* Who is left alone stays where it is.                                    *)
LEMMA Undisturbed ==
  ASSUME NEW r, NEW v, Placed(v, r), barrier_release' = barrier_release,
         pc'[v] = pc[v], pending'[v] = pending[v], entered'[v] = entered[v], left'[v] = left[v],
         barrier_direction'[v] = barrier_direction[v], local_counter'[v] = local_counter[v]
  PROVE  Placed(v, r)'
BY DEF Placed, Settled, Arriving, Leaving

(* The numbers of the counted stay distinct when nobody starts to count.   *)
LEMMA SameNumbers ==
  ASSUME NEW r, Numbered(r), barrier_counter' = barrier_counter, Counted(r)' = Counted(r),
         \A v \in Counted(r) : /\ local_counter'[v] = local_counter[v]
                               /\ pc'[v] # "spin" => pc[v] # "spin"
  PROVE  Numbered(r)'
BY DEF Numbered

(* From between two rounds a step leads there, or to the end of the next.  *)
LEMMA BetweenStep ==
  ASSUME TypeOK, LockInv, Next, NEW r \in 0 .. MaxRound, Between(r)
  PROVE  Between(r)' \/ Releasing(r)'
<1> USE DEF TypeOK
<1>a. r \in Int /\ barrier_release \in Int /\ r + 1 # r /\ 1 - barrier_release # barrier_release
  BY RoundAssumption
<1>b. \A v \in Worker : Placed(v, r)
  BY DEF Between, Placed
<1>c. barrier_counter = Cardinality(Counted(r)) /\ Numbered(r)
  BY DEF Between
<1>d. SUFFICES ASSUME ~Releasing(r)'
               PROVE  /\ barrier_counter' = Cardinality(Counted(r)')
                      /\ Numbered(r)'
                      /\ \A v \in Worker : Placed(v, r)'
  BY DEF Between, Placed
<1> DEFINE G == /\ barrier_counter' = Cardinality(Counted(r)')
                /\ Numbered(r)'
                /\ \A v \in Worker : Placed(v, r)'
<1>e. ASSUME NEW w \in Worker, Placed(w, r)', barrier_release' = barrier_release,
             \A v \in Worker \ {w} :
                 /\ pc'[v] = pc[v] /\ pending'[v] = pending[v]
                 /\ entered'[v] = entered[v] /\ left'[v] = left[v]
                 /\ barrier_direction'[v] = barrier_direction[v]
                 /\ local_counter'[v] = local_counter[v]
      PROVE  \A v \in Worker : Placed(v, r)'
  BY <1>b, <1>e, Undisturbed
<1>1. ASSUME NEW w \in Worker, Enter(w) PROVE G
  <2>1. /\ pc' = [pc EXCEPT ![w] = "lock"] /\ pc[w] = "out"
        /\ entered' = [entered EXCEPT ![w] = @ + 1]
        /\ barrier_direction' = [barrier_direction EXCEPT ![w] = 1 - @]
        /\ UNCHANGED <<shared, local_counter, pending, left>>
    BY <1>1 DEF Enter, Goto, Reverse
  <2>2. Settled(w, r) /\ left[w] = r
    BY <1>b, <2>1 DEF Placed, Settled, Arriving, Leaving
  <2>3. Placed(w, r)'
    BY <1>b, <2>1, <2>2 DEF Placed, Arriving, Settled, shared
  <2>4. Counted(r)' = Counted(r)
    BY <1>a, <2>1, <2>2 DEF Counted, Settled
  <2>5. w \notin Counted(r)
    BY <2>1 DEF Counted
  <2>6. Numbered(r)'
    BY <1>c, <2>1, <2>4, <2>5, SameNumbers DEF shared, Counted
  <2>q. QED BY <1>c, <1>e, <2>1, <2>3, <2>4, <2>6 DEF shared
<1>2. ASSUME NEW w \in Worker, Lock(w) PROVE G
  <2>1. /\ pc' = [pc EXCEPT ![w] = "read"] /\ pc[w] = "lock"
        /\ UNCHANGED <<barrier_counter, barrier_release, barrier_direction,
                       local_counter, pending, entered, left>>
    BY <1>2 DEF Lock, Goto
  <2>2. Placed(w, r)'
    BY <1>b, <2>1 DEF Placed, Arriving, Settled, Leaving
  <2>3. Counted(r)' = Counted(r)
    BY <2>1 DEF Counted
  <2>4. Numbered(r)'
    BY <1>c, <2>1, <2>3, SameNumbers DEF Counted
  <2>q. QED BY <1>c, <1>e, <2>1, <2>2, <2>3, <2>4
<1>3. ASSUME NEW w \in Worker, Read(w) PROVE G
  <2>1. /\ pc' = [pc EXCEPT ![w] = "write"] /\ pc[w] = "read"
        /\ local_counter' = [local_counter EXCEPT ![w] = barrier_counter + 1]
        /\ UNCHANGED <<shared, barrier_direction, pending, entered, left>>
    BY <1>3 DEF Read, Goto
  <2>2. Placed(w, r)'
    BY <1>b, <2>1 DEF Placed, Arriving, Settled, Leaving, shared
  <2>3. Counted(r)' = Counted(r) /\ w \notin Counted(r)
    BY <2>1 DEF Counted
  <2>4. Numbered(r)'
    BY <1>c, <2>1, <2>3, SameNumbers DEF Counted, shared
  <2>q. QED BY <1>c, <1>e, <2>1, <2>2, <2>3, <2>4 DEF shared
<1>4. ASSUME NEW w \in Worker, Write(w) PROVE G
  <2>1. /\ pc' = [pc EXCEPT ![w] = "unlock"] /\ pc[w] = "write"
        /\ barrier_counter' = local_counter[w]
        /\ UNCHANGED <<barrier_release, barrier_lock, barrier_direction,
                       local_counter, pending, entered, left>>
    BY <1>4 DEF Write, Goto
  <2>2. barrier_counter' = barrier_counter + 1
    BY <2>1 DEF LockInv
  <2>3. Arriving(w, r)
    BY <1>b, <2>1 DEF Placed, Settled, Leaving
  <2>4. Placed(w, r)'
    BY <1>b, <2>1, <2>3 DEF Placed, Arriving
  <2>5. Counted(r)' = Counted(r) \cup {w} /\ w \notin Counted(r)
    BY <2>1, <2>3 DEF Counted, Arriving
  <2>6. barrier_counter' = Cardinality(Counted(r)')
    BY <1>c, <2>2, <2>5, CountedIsSome, FS_AddElement
  <2>7. Numbered(r)'
    <3>1. SUFFICES ASSUME NEW v \in Counted(r) \cup {w}, pc'[v] # "spin"
                   PROVE  /\ local_counter[v] <= barrier_counter'
                          /\ \A u \in (Counted(r) \cup {w}) \ {v} :
                                pc'[u] # "spin" => local_counter[u] # local_counter[v]
      BY <2>1, <2>5 DEF Numbered
    <3>2. \A u \in Counted(r) : pc'[u] = pc[u] /\ u \in Worker
      BY <2>1, <2>5 DEF Counted
    <3>3. \A u \in Counted(r) : pc[u] # "spin" => local_counter[u] <= barrier_counter
      BY <1>c DEF Numbered
    <3>4. barrier_counter \in Int /\ \A u \in Worker : local_counter[u] \in Int
      OBVIOUS
    <3>n. barrier_counter' = barrier_counter + 1 /\ local_counter[w] = barrier_counter + 1
      BY <2>1, <2>2
    <3> HIDE DEF TypeOK
    <3>5. CASE v = w
      BY <3>2, <3>3, <3>4, <3>5, <3>n
    <3>6. CASE v # w
      <4>1. v \in Counted(r) /\ pc[v] # "spin" /\ local_counter[v] <= barrier_counter
        BY <3>1, <3>2, <3>3, <3>6
      <4>2. \A u \in Counted(r) \ {v} : pc'[u] # "spin" => local_counter[u] # local_counter[v]
        BY <1>c, <3>2, <4>1 DEF Numbered
      <4>3. local_counter[v] <= barrier_counter' /\ local_counter[w] # local_counter[v]
        BY <3>2, <3>4, <3>n, <4>1
      <4>q. QED BY <4>2, <4>3
    <3>q. QED BY <3>5, <3>6
  <2>q. QED BY <1>e, <2>1, <2>4, <2>6, <2>7
<1>5. ASSUME NEW w \in Worker, Unlock(w) PROVE G
  <2>1. /\ pc' = [pc EXCEPT ![w] = "test"] /\ pc[w] = "unlock"
        /\ UNCHANGED <<barrier_counter, barrier_release, barrier_direction,
                       local_counter, pending, entered, left>>
    BY <1>5 DEF Unlock, Goto
  <2>2. Placed(w, r)'
    BY <1>b, <2>1 DEF Placed, Arriving, Settled, Leaving
  <2>3. Counted(r)' = Counted(r)
    BY <2>1 DEF Counted
  <2>4. Numbered(r)'
    BY <1>c, <2>1, <2>3, SameNumbers DEF Counted
  <2>q. QED BY <1>c, <1>e, <2>1, <2>2, <2>3, <2>4
<1>6. ASSUME NEW w \in Worker, Last(w) PROVE G
  <2>1. /\ pc' = [pc EXCEPT ![w] = "out"] /\ pc[w] = "test" /\ local_counter[w] = N
        /\ pending' = [pending EXCEPT ![w] = {<<"counter", 0>>, <<"release", barrier_direction[w]>>}]
        /\ left' = [left EXCEPT ![w] = entered[w]]
        /\ UNCHANGED <<shared, barrier_direction, local_counter, entered>>
    BY <1>6 DEF Last, Goto, AllThere, Stores, N
  <2>2. Arriving(w, r)
    BY <1>b, <2>1 DEF Placed, Settled, Leaving, N
  <2>3. w \in Counted(r)
    BY <2>1, <2>2 DEF Arriving, Counted
  <2>4. barrier_counter = N /\ Counted(r) = Worker
    <3>1. N <= barrier_counter
      BY <1>c, <2>1, <2>3 DEF Numbered
    <3>q. QED BY <1>c, <3>1, CountedIsSome
  <2>5. Released(w, r)'
    BY <2>1, <2>2, <2>4 DEF Released, Arriving, shared, N
  <2>6. ASSUME NEW v \in Worker \ {w} PROVE Unaware(v, r)'
    <3>1. v \in Counted(r) /\ Placed(v, r) /\ Arriving(v, r)
      BY <1>a, <1>b, <2>4 DEF Placed, Settled, Counted
    <3>2. pc[v] # "spin" => local_counter[v] # N
      BY <1>c, <2>1, <2>3, <3>1 DEF Numbered
    <3>3. Leaving(v)
      BY <2>4, <3>1, <3>2 DEF Counted, Leaving, LockInv, N
    <3>q. QED BY <2>1, <3>1, <3>3 DEF Unaware, Leaving, Placed, Arriving, shared
  <2>q. QED BY <1>d, <2>5, <2>6 DEF Releasing
<1>7. ASSUME NEW w \in Worker, Wait(w) PROVE G
  <2>1. /\ pc' = [pc EXCEPT ![w] = "spin"] /\ pc[w] = "test"
        /\ UNCHANGED <<shared, barrier_direction, local_counter, pending, entered, left>>
    BY <1>7 DEF Wait, Goto
  <2>2. Placed(w, r)'
    BY <1>b, <2>1 DEF Placed, Arriving, Settled, Leaving, shared
  <2>3. Counted(r)' = Counted(r)
    BY <2>1 DEF Counted
  <2>4. Numbered(r)'
    BY <1>c, <2>1, <2>3, SameNumbers DEF Counted, shared
  <2>q. QED BY <1>c, <1>e, <2>1, <2>2, <2>3, <2>4 DEF shared
<1>8. ASSUME NEW w \in Worker, Spin(w) PROVE G
  <2>1. /\ pc' = [pc EXCEPT ![w] = "out"] /\ pc[w] = "spin"
        /\ barrier_release = barrier_direction[w]
        /\ left' = [left EXCEPT ![w] = entered[w]]
        /\ UNCHANGED <<shared, barrier_direction, local_counter, pending, entered>>
    BY <1>8 DEF Spin, Goto
  <2>2. Settled(w, r)
    BY <1>a, <1>b, <2>1 DEF Placed, Arriving
  <2>3. Placed(w, r)'
    BY <1>b, <2>1, <2>2 DEF Placed, Settled, shared
  <2>4. Counted(r)' = Counted(r) /\ w \notin Counted(r)
    BY <1>a, <2>1, <2>2 DEF Counted, Settled
  <2>5. Numbered(r)'
    BY <1>c, <2>1, <2>4, SameNumbers DEF Counted, shared
  <2>q. QED BY <1>c, <1>e, <2>1, <2>3, <2>4, <2>5 DEF shared
<1>9. ASSUME NEW w \in Worker, Machine(w) PROVE G
  BY <1>b, <1>9 DEF Machine, StoreCounter, StoreRelease, Placed
<1>10. ASSUME NEW w \in Worker, Step(w) PROVE G
  BY <1>3, <1>4, <1>5, <1>6, <1>7, <1>8, <1>10 DEF Step
<1>q. QED BY <1>1, <1>2, <1>9, <1>10 DEF Next

(***************************************************************************)
(* What a step does while the stores of the last worker are on their way.  *)
(***************************************************************************)

(* Nobody is near the counter, and nobody but the last worker can enter.   *)
LEMMA Quiet ==
  ASSUME TypeOK, NEW r \in 0 .. MaxRound, NEW u \in Worker, Released(u, r),
         \A w \in Worker \ {u} : Unaware(w, r)
  PROVE  /\ \A w \in Worker : /\ pc[w] \notin {"read", "write", "unlock"}
                              /\ ~Lock(w) /\ (Step(w) => Wait(w))
                              /\ Enter(w) \/ StoreCounter(w) \/ StoreRelease(w) => w = u
                              /\ Wait(w) => w # u
         /\ pending[u] # {} /\ r \in Nat /\ barrier_release \in {0, 1}
<1>1. r \in Nat /\ barrier_release \in {0, 1} /\ 1 - barrier_release # barrier_release
  BY RoundAssumption DEF TypeOK
<1>2. pending[u] # {} /\ pc[u] \in {"out", "lock"}
  BY DEF Released
<1>3. ASSUME NEW w \in Worker
      PROVE  /\ pc[w] \notin {"read", "write", "unlock"}
             /\ ~Lock(w) /\ (Step(w) => Wait(w))
             /\ Enter(w) \/ StoreCounter(w) \/ StoreRelease(w) => w = u
             /\ Wait(w) => w # u
  <2>1. CASE w = u
    BY <1>2, <2>1 DEF Lock, Step, Read, Write, Unlock, Last, Wait, Spin, Goto
  <2>2. CASE w # u
    <3>1. Unaware(w, r)
      BY <2>2
    <3>2. /\ pc[w] \in {"test", "spin"} /\ pending[w] = {}
          /\ pc[w] = "test" => local_counter[w] # N
          /\ barrier_direction[w] # barrier_release
      BY <1>1, <3>1 DEF Unaware, Leaving, N
    <3>3. ~Lock(w) /\ ~Enter(w) /\ ~StoreCounter(w) /\ ~StoreRelease(w)
      BY <3>2 DEF Lock, Enter, Goto, StoreCounter, StoreRelease
    <3>4. ~Read(w) /\ ~Write(w) /\ ~Unlock(w) /\ ~Last(w) /\ ~Spin(w)
      BY <3>2 DEF Read, Write, Unlock, Last, Spin, Goto, AllThere, N
    <3>q. QED BY <2>2, <3>2, <3>3, <3>4 DEF Step
  <2>q. QED BY <2>1, <2>2
<1>q. QED BY <1>1, <1>2, <1>3

(* The stores are performed in order: the counter is zero by the time the  *)
(* others are released, and the round is over.                             *)
LEMMA ReleasingStep ==
  ASSUME InOrder, TypeOK, Next, NEW r \in 0 .. MaxRound, Releasing(r)
  PROVE  Releasing(r)' \/ (r + 1 \in 0 .. MaxRound /\ Between(r + 1)')
<1> USE DEF TypeOK
<1>0. PICK u \in Worker : Released(u, r) /\ \A w \in Worker \ {u} : Unaware(w, r)
  BY DEF Releasing
<1>a. /\ \A w \in Worker : /\ pc[w] \notin {"read", "write", "unlock"}
                           /\ ~Lock(w) /\ (Step(w) => Wait(w))
                           /\ Enter(w) \/ StoreCounter(w) \/ StoreRelease(w) => w = u
                           /\ Wait(w) => w # u
      /\ pending[u] # {} /\ r \in Nat /\ barrier_release \in {0, 1}
  BY <1>0, Quiet
<1>1. CASE Enter(u)
  <2>1. /\ pc' = [pc EXCEPT ![u] = "lock"] /\ pc[u] = "out"
        /\ entered' = [entered EXCEPT ![u] = @ + 1]
        /\ barrier_direction' = [barrier_direction EXCEPT ![u] = 1 - @]
        /\ UNCHANGED <<shared, local_counter, pending, left>>
    BY <1>1 DEF Enter, Goto, Reverse
  <2>2. Released(u, r)'
    BY <1>0, <1>a, <2>1 DEF Released, shared
  <2>3. \A w \in Worker \ {u} : Unaware(w, r)'
    BY <1>0, <2>1 DEF Unaware, Leaving, shared
  <2>q. QED BY <2>2, <2>3 DEF Releasing
<1>2. ASSUME NEW v \in Worker, Wait(v)
      PROVE  Releasing(r)'
  <2>1. /\ pc' = [pc EXCEPT ![v] = "spin"] /\ v # u
        /\ UNCHANGED <<shared, barrier_direction, local_counter, pending, entered, left>>
    BY <1>2, <1>a DEF Wait, Goto
  <2>2. Released(u, r)'
    BY <1>0, <2>1 DEF Released, shared
  <2>3. \A w \in Worker \ {u} : Unaware(w, r)'
    BY <1>0, <2>1 DEF Unaware, Leaving, shared
  <2>q. QED BY <2>2, <2>3 DEF Releasing
<1>3. CASE StoreCounter(u)
  <2>1. /\ <<"counter", 0>> \in pending[u]
        /\ pending' = [pending EXCEPT ![u] = @ \ {<<"counter", 0>>}]
        /\ barrier_counter' = 0
        /\ UNCHANGED <<barrier_release, barrier_direction, local_counter, pc, entered, left>>
    BY <1>3 DEF StoreCounter
  <2>2. pending[u] = {<<"counter", 0>>, <<"release", 1 - barrier_release>>}
    BY <1>0, <2>1 DEF Released
  <2>3. pending'[u] = {<<"release", 1 - barrier_release>>}
    BY <2>1, <2>2
  <2>4. Released(u, r)'
    BY <1>0, <2>1, <2>3 DEF Released
  <2>5. \A w \in Worker \ {u} : Unaware(w, r)'
    BY <1>0, <2>1 DEF Unaware, Leaving
  <2>q. QED BY <2>4, <2>5 DEF Releasing
<1>4. CASE StoreRelease(u)
  <2>1. PICK d \in {0, 1} :
            /\ <<"release", d>> \in pending[u] /\ <<"counter", 0>> \notin pending[u]
            /\ pending' = [pending EXCEPT ![u] = @ \ {<<"release", d>>}]
            /\ barrier_release' = d
            /\ UNCHANGED <<barrier_counter, barrier_lock, barrier_direction,
                           local_counter, pc, entered, left>>
    BY <1>4 DEF StoreRelease
  <2>2. pending[u] = {<<"release", 1 - barrier_release>>} /\ barrier_counter = 0
    BY <1>0, <2>1 DEF Released
  <2>3. d = 1 - barrier_release /\ pending'[u] = {}
    BY <2>1, <2>2
  <2>4. r + 1 \in 0 .. MaxRound
    BY <1>0, <1>a, RoundAssumption DEF Released
  <2>5. \/ /\ pc[u] = "out" /\ entered[u] = r + 1 /\ left[u] = r + 1
           /\ barrier_direction[u] = barrier_release'
        \/ /\ pc[u] = "lock" /\ entered[u] = (r + 1) + 1 /\ left[u] = r + 1
           /\ barrier_direction[u] = 1 - barrier_release'
    BY <1>0, <1>a, <2>1, <2>3 DEF Released
  <2>6. pending'[u] = {} /\ (Settled(u, r + 1)' \/ Arriving(u, r + 1)')
    BY <2>1, <2>3, <2>5 DEF Settled, Arriving
  <2>7. ASSUME NEW w \in Worker \ {u}
        PROVE  pending'[w] = {} /\ Settled(w, r + 1)'
    <3>1. pending[w] = {} /\ Leaving(w) /\ entered[w] = r + 1 /\ left[w] = (r + 1) - 1
          /\ barrier_direction[w] = barrier_release'
      BY <1>0, <1>a, <2>1, <2>3 DEF Unaware
    <3>q. QED BY <2>1, <3>1 DEF Settled, Leaving
  <2>8. Counted(r + 1)' = {}
    <3>1. \A w \in Worker \ {u} : entered'[w] # (r + 1) + 1
      BY <1>0, <1>a, <2>1 DEF Unaware
    <3>2. pc'[u] \notin {"unlock", "test", "spin"}
      BY <2>1, <2>5
    <3>q. QED BY <3>1, <3>2 DEF Counted
  <2>9. barrier_counter' = Cardinality(Counted(r + 1)') /\ Numbered(r + 1)'
    BY <2>1, <2>2, <2>8, FS_EmptySet DEF Numbered
  <2>q. QED BY <2>4, <2>6, <2>7, <2>9 DEF Between
<1>q. QED BY <1>1, <1>2, <1>3, <1>4, <1>a DEF Next, Machine

(* A step of a machine that keeps stores in order keeps the invariant.     *)
LEMMA NextIInv ==
  ASSUME InOrder, IInv, Next
  PROVE  IInv'
<1>0. TypeOK /\ LockInv
  BY DEF IInv
<1>1. PICK r \in 0 .. MaxRound : Between(r) \/ Releasing(r)
  BY DEF IInv
<1>2. CASE Between(r)
  <2>1. \A w \in Worker : pc[w] = "read" => barrier_counter + 1 <= N
    BY <1>2, Room DEF Counted
  <2>2. \A w \in Worker : ~StoreCounter(w)
    BY <1>2 DEF Between, StoreCounter
  <2>q. QED BY <1>0, <1>2, <2>1, <2>2, TypeStep, LockStep, BetweenStep DEF IInv
<1>3. CASE Releasing(r)
  <2>1. \A w \in Worker : pc[w] \notin {"read", "write", "unlock"}
    BY <1>0, <1>3, Quiet DEF Releasing
  <2>2. TypeOK' /\ LockInv'
    BY <1>0, <2>1, TypeStep, LockStep
  <2>3. Releasing(r)' \/ (r + 1 \in 0 .. MaxRound /\ Between(r + 1)')
    BY <1>0, <1>3, ReleasingStep
  <2>q. QED BY <2>2, <2>3 DEF IInv
<1>q. QED BY <1>1, <1>2, <1>3

(* A step that is no step keeps the invariant, whose parts are states'.    *)
LEMMA StutterIInv == IInv /\ UNCHANGED vars => IInv'
<1> SUFFICES ASSUME IInv, UNCHANGED vars PROVE IInv'
  OBVIOUS
<1> USE DEF vars, shared
<1>1. TypeOK' /\ LockInv'
  BY DEF IInv, TypeOK, LockInv
<1>2. ASSUME NEW r, Between(r) PROVE Between(r)'
  <2>1. Counted(r)' = Counted(r)
    BY DEF Counted
  <2>2. Numbered(r)'
    BY <1>2, <2>1, SameNumbers DEF Between, Counted
  <2>3. \A w \in Worker : pending'[w] = {} /\ (Settled(w, r)' \/ Arriving(w, r)')
    BY <1>2 DEF Between, Settled, Arriving, Leaving
  <2>q. QED BY <1>2, <2>1, <2>2, <2>3 DEF Between
<1>3. ASSUME NEW r, Releasing(r) PROVE Releasing(r)'
  BY <1>3 DEF Releasing, Released, Unaware, Leaving
<1>q. QED BY <1>1, <1>2, <1>3 DEF IInv

(***************************************************************************)
(* THEOREM: the barrier's invariant is inductive, for any finite set of    *)
(* workers and any number of calls of Cilk_barrier, where the machine      *)
(* performs stores in order.                                               *)
(***************************************************************************)
THEOREM Invariance ==
  ASSUME InOrder
  PROVE  Spec => []IInv
<1>1. IInv /\ [Next]_vars => IInv'
  BY NextIInv, StutterIInv
<1>q. QED BY InitIInv, <1>1, PTL DEF Spec

(***************************************************************************)
(* THEOREM: nobody returns from Cilk_barrier before everybody has called   *)
(* it as often.                                                            *)
(***************************************************************************)
THEOREM AlwaysTogether ==
  ASSUME InOrder
  PROVE  Spec => []Together
<1>1. IInv => Together
  <2> SUFFICES ASSUME IInv, NEW v \in Worker, NEW w \in Worker
               PROVE  left[w] <= entered[v]
    BY DEF Together
  <2>1. PICK r \in 0 .. MaxRound : Between(r) \/ Releasing(r)
    BY DEF IInv
  <2>2. r \in Int
    BY RoundAssumption
  <2>3. CASE Between(r)
    BY <2>2, <2>3 DEF Between, Settled, Arriving
  <2>4. CASE Releasing(r)
    BY <2>2, <2>4 DEF Releasing, Released, Unaware
  <2>q. QED BY <2>1, <2>3, <2>4
<1>q. QED BY Invariance, <1>1, PTL

(***************************************************************************)
(* THEOREM: the barrier implements the rendezvous: Cilk_barrier's call is  *)
(* Enter, its return Leave, and its other steps are not seen.              *)
(***************************************************************************)
THEOREM IsRendezvous ==
  ASSUME InOrder
  PROVE  Spec => R!Safety
<1>1. Init => R!Init
  BY DEF Init, R!Init
<1>2. ASSUME IInv, Next PROVE R!Next \/ UNCHANGED R!vars
  <2>0. PICK r \in 0 .. MaxRound : Between(r) \/ Releasing(r)
    BY <1>2 DEF IInv
  <2>1. TypeOK /\ r \in Int
    BY <1>2, RoundAssumption DEF IInv
  <2>2. ASSUME NEW w \in Worker, Enter(w) PROVE R!Next
    <3>1. left[w] = entered[w]
      <4>1. CASE Between(r)
        BY <2>2, <4>1 DEF Between, Settled, Arriving, Leaving, Enter, Goto
      <4>2. CASE Releasing(r)
        BY <2>2, <4>2 DEF Releasing, Released, Unaware, Leaving, Enter, Goto
      <4>q. QED BY <2>0, <4>1, <4>2
    <3>q. QED BY <2>2, <3>1 DEF Enter, R!Next, R!Enter
  <2>3. ASSUME NEW w \in Worker, Last(w) \/ Spin(w) PROVE R!Next
    <3>1. Between(r) /\ (Last(w) => barrier_counter = N /\ Arriving(w, r))
      <4>1. ~Releasing(r)
        BY <2>1, <2>3, Quiet DEF Releasing, Step, Last, Spin, Wait, Goto
      <4>2. Between(r)
        BY <2>0, <4>1
      <4>3. ASSUME Last(w) PROVE barrier_counter = N /\ Arriving(w, r)
        <5>1. pc[w] = "test" /\ local_counter[w] = N
          BY <4>3 DEF Last, Goto, AllThere, N
        <5>2. Arriving(w, r)
          BY <4>2, <5>1 DEF Between, Settled, Leaving, N
        <5>3. N <= barrier_counter
          BY <4>2, <5>1, <5>2 DEF Between, Numbered, Counted, Arriving
        <5>q. QED BY <4>2, <5>2, <5>3, CountedIsSome DEF Between
      <4>q. QED BY <4>2, <4>3
    <3>2. left[w] < entered[w] /\ \A v \in Worker : entered[v] >= entered[w]
      <4>1. CASE Last(w)
        <5>1. Counted(r) = Worker
          BY <3>1, <4>1, CountedIsSome DEF Between
        <5>2. entered[w] = r + 1 /\ left[w] = r
          BY <3>1, <4>1 DEF Arriving
        <5>q. QED BY <2>1, <5>1, <5>2 DEF Counted
      <4>2. CASE Spin(w)
        <5>1. pc[w] = "spin" /\ barrier_release = barrier_direction[w]
          BY <4>2 DEF Spin, Goto
        <5>2. Settled(w, r)
          BY <2>1, <3>1, <5>1 DEF Between, Arriving, TypeOK
        <5>3. entered[w] = r /\ left[w] = r - 1
          BY <5>1, <5>2 DEF Settled
        <5>4. \A v \in Worker : entered[v] \in {r, r + 1}
          BY <3>1 DEF Between, Settled, Arriving
        <5>q. QED BY <2>1, <5>3, <5>4
      <4>q. QED BY <2>3, <4>1, <4>2
    <3>3. left' = [left EXCEPT ![w] = entered[w]] /\ entered' = entered
      BY <2>3 DEF Last, Spin
    <3>q. QED BY <3>2, <3>3 DEF R!Next, R!Leave
  <2>4. ASSUME NEW w \in Worker,
               Lock(w) \/ Read(w) \/ Write(w) \/ Unlock(w) \/ Wait(w) \/ Machine(w)
        PROVE  UNCHANGED R!vars
    BY <2>4 DEF Lock, Read, Write, Unlock, Wait, Machine, StoreCounter, StoreRelease, R!vars
  <2>q. QED BY <1>2, <2>2, <2>3, <2>4 DEF Next, Step
<1>3. ASSUME IInv, UNCHANGED vars PROVE UNCHANGED R!vars
  BY <1>3 DEF vars, R!vars
<1>4. IInv /\ [Next]_vars => [R!Next]_(R!vars)
  BY <1>2, <1>3
<1>q. QED BY Invariance, <1>1, <1>4, PTL DEF Spec, R!Safety

=============================================================================
