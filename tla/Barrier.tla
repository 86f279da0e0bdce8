------------------------------ MODULE Barrier -------------------------------
(***************************************************************************)
(* The sense-reversing barrier of runtime/barrier.c.  Between the stores   *)
(* of the last worker to arrive, to barrier_counter and barrier_release,   *)
(* there is no memory barrier, so that they are performed later than they  *)
(* are issued: in order where the machine keeps stores in order (i386,     *)
(* x86-64, SPARC), in any order elsewhere (PowerPC, Alpha, MIPS, IA64).    *)
(* The lock's atomic exchange waits for them.                              *)
(***************************************************************************)
EXTENDS Integers, FiniteSets

CONSTANTS
    Worker,         \* active_size of them
    Nobody,
    InOrder,        \* whether the machine performs stores in order
    MaxRound        \* bound: how often a worker calls the barrier

ASSUME WorkerAssumption == IsFiniteSet(Worker) /\ Nobody \notin Worker
ASSUME RoundAssumption == MaxRound \in Nat
ASSUME OrderAssumption == InOrder \in BOOLEAN

VARIABLES
    barrier_counter, barrier_release, barrier_lock,
    barrier_direction,      \* of every worker
    local_counter,          \* of every worker
    pc,
    pending,                \* the stores a worker has issued, not yet performed
    entered, left           \* history: calls and returns of Cilk_barrier

shared == <<barrier_counter, barrier_release, barrier_lock>>
vars == <<shared, barrier_direction, local_counter, pc, pending, entered, left>>

Init ==
    /\ barrier_counter = 0 /\ barrier_release = 0 /\ barrier_lock = Nobody
    /\ barrier_direction = [w \in Worker |-> 0]
    /\ local_counter = [w \in Worker |-> 0]
    /\ pc = [w \in Worker |-> "out"]
    /\ pending = [w \in Worker |-> {}]
    /\ entered = [w \in Worker |-> 0]
    /\ left = [w \in Worker |-> 0]

Goto(w, from, to) == pc[w] = from /\ pc' = [pc EXCEPT ![w] = to]

SameSense(d) == d                                       \* mutant
Reverse(d) == 1 - d

Enter(w) ==
    /\ Goto(w, "out", "lock")
    /\ entered[w] < MaxRound
    /\ entered' = [entered EXCEPT ![w] = @ + 1]
    /\ barrier_direction' = [barrier_direction EXCEPT ![w] = Reverse(@)]
    /\ UNCHANGED <<shared, local_counter, pending, left>>

Lock(w) ==
    /\ Goto(w, "lock", "read")
    /\ barrier_lock = Nobody /\ pending[w] = {}
    /\ barrier_lock' = w
    /\ UNCHANGED <<barrier_counter, barrier_release, barrier_direction,
                   local_counter, pending, entered, left>>

(* ++barrier_counter is a load and a store.                                *)
Read(w) ==
    /\ Goto(w, "read", "write")
    /\ local_counter' = [local_counter EXCEPT ![w] = barrier_counter + 1]
    /\ UNCHANGED <<shared, barrier_direction, pending, entered, left>>

Write(w) ==
    /\ Goto(w, "write", "unlock")
    /\ barrier_counter' = local_counter[w]
    /\ UNCHANGED <<barrier_release, barrier_lock, barrier_direction,
                   local_counter, pending, entered, left>>

Unlock(w) ==
    /\ Goto(w, "unlock", "test")
    /\ barrier_lock' = Nobody
    /\ UNCHANGED <<barrier_counter, barrier_release, barrier_direction,
                   local_counter, pending, entered, left>>

(* As printed by Hennessy and Patterson, the counter is read again here.   *)
AllThereReadAgain(w) == barrier_counter = Cardinality(Worker)   \* mutant
AnotherMissing(w) == local_counter[w] = Cardinality(Worker) - 1 \* mutant
AllThere(w) == local_counter[w] = Cardinality(Worker)

NoReset(w) == {<<"release", barrier_direction[w]>>}     \* mutant
Stores(w) == {<<"counter", 0>>, <<"release", barrier_direction[w]>>}

Last(w) ==
    /\ Goto(w, "test", "out")
    /\ AllThere(w)
    /\ pending' = [pending EXCEPT ![w] = Stores(w)]
    /\ left' = [left EXCEPT ![w] = entered[w]]
    /\ UNCHANGED <<shared, barrier_direction, local_counter, entered>>

Wait(w) ==
    /\ Goto(w, "test", "spin")
    /\ ~AllThere(w)
    /\ UNCHANGED <<shared, barrier_direction, local_counter, pending, entered, left>>

Spin(w) ==
    /\ Goto(w, "spin", "out")
    /\ barrier_release = barrier_direction[w]
    /\ left' = [left EXCEPT ![w] = entered[w]]
    /\ UNCHANGED <<shared, barrier_direction, local_counter, pending, entered>>

StoreCounter(w) ==
    /\ <<"counter", 0>> \in pending[w]
    /\ pending' = [pending EXCEPT ![w] = @ \ {<<"counter", 0>>}]
    /\ barrier_counter' = 0
    /\ UNCHANGED <<barrier_release, barrier_lock, barrier_direction,
                   local_counter, pc, entered, left>>

StoreRelease(w) ==
    \E d \in {0, 1} :
        /\ <<"release", d>> \in pending[w]
        /\ InOrder => <<"counter", 0>> \notin pending[w]
        /\ pending' = [pending EXCEPT ![w] = @ \ {<<"release", d>>}]
        /\ barrier_release' = d
        /\ UNCHANGED <<barrier_counter, barrier_lock, barrier_direction,
                       local_counter, pc, entered, left>>

(* The rest of a call of Cilk_barrier, and the machine's own steps.        *)
Step(w) == Read(w) \/ Write(w) \/ Unlock(w) \/ Last(w) \/ Wait(w) \/ Spin(w)
Machine(w) == StoreCounter(w) \/ StoreRelease(w)

Next == \E w \in Worker : Enter(w) \/ Lock(w) \/ Step(w) \/ Machine(w)

Spec == Init /\ [][Next]_vars

(* Nobody need call the barrier.  A call runs on, the lock is not denied   *)
(* forever to a worker that finds it free again and again, and what is     *)
(* stored gets to memory.                                                  *)
FairSpec == Spec /\ \A w \in Worker :
                      WF_vars(Step(w)) /\ SF_vars(Lock(w)) /\ WF_vars(Machine(w))

(***************************************************************************)
(* Properties.                                                             *)
(***************************************************************************)
TypeOK ==
    /\ barrier_counter \in 0 .. Cardinality(Worker)
    /\ barrier_release \in {0, 1}
    /\ barrier_lock \in Worker \cup {Nobody}
    /\ barrier_direction \in [Worker -> {0, 1}]
    /\ local_counter \in [Worker -> 0 .. Cardinality(Worker)]
    /\ pc \in [Worker -> {"out", "lock", "read", "write", "unlock", "test", "spin"}]
    /\ pending \in [Worker -> SUBSET ({<<"counter", 0>>} \cup ({"release"} \X {0, 1}))]
    /\ entered \in [Worker -> 0 .. MaxRound]
    /\ left \in [Worker -> 0 .. MaxRound]

(* Nobody is out of a round that another has not entered yet.              *)
Together == \A v, w \in Worker : left[w] <= entered[v]

(* "This barrier can be safely reused": whoever calls it, in whatever      *)
(* round, returns once all have called it as often.                        *)
Reusable ==
    \A w \in Worker : \A k \in 1 .. MaxRound :
        (\A v \in Worker : entered[v] >= k) ~> left[w] >= k

(* The barrier is a rendezvous.                                            *)
R == INSTANCE Rendezvous
Rendezvous == R!Spec

(* The inductive invariant, for a machine that keeps stores in order.      *)
(* Everybody is in round r, done or about to leave, or in round r + 1; or  *)
(* one worker has left round r + 1 and its stores are on their way.        *)
Counted(r) == {w \in Worker : entered[w] = r + 1 /\ pc[w] \in {"unlock", "test", "spin"}}
Leaving(w) == \/ pc[w] = "spin"
              \/ pc[w] = "test" /\ local_counter[w] # Cardinality(Worker)

LockInv ==
    \A w \in Worker :
        /\ barrier_lock = w <=> pc[w] \in {"read", "write", "unlock"}
        /\ pc[w] = "write" => local_counter[w] = barrier_counter + 1
        /\ pc[w] = "unlock" => local_counter[w] = barrier_counter

(* Each of the counted had a number of its own from the counter.           *)
Numbered(r) ==
    \A w \in Counted(r) :
        pc[w] # "spin" =>
            /\ local_counter[w] <= barrier_counter
            /\ \A v \in Counted(r) \ {w} :
                  pc[v] # "spin" => local_counter[v] # local_counter[w]

Settled(w, r) ==
    /\ entered[w] = r /\ barrier_direction[w] = barrier_release
    /\ \/ pc[w] = "out" /\ left[w] = r
       \/ Leaving(w) /\ left[w] = r - 1

Arriving(w, r) ==
    /\ entered[w] = r + 1 /\ barrier_direction[w] = 1 - barrier_release
    /\ pc[w] # "out" /\ left[w] = r

Between(r) ==
    /\ barrier_counter = Cardinality(Counted(r))
    /\ Numbered(r)
    /\ \A w \in Worker : pending[w] = {} /\ (Settled(w, r) \/ Arriving(w, r))

Released(u, r) ==
    /\ left[u] = r + 1
    /\ \/ pc[u] = "out" /\ entered[u] = r + 1 /\ barrier_direction[u] = 1 - barrier_release
       \/ pc[u] = "lock" /\ entered[u] = r + 2 /\ barrier_direction[u] = barrier_release
    /\ \/ /\ pending[u] = {<<"counter", 0>>, <<"release", 1 - barrier_release>>}
          /\ barrier_counter = Cardinality(Worker)
       \/ /\ pending[u] = {<<"release", 1 - barrier_release>>}
          /\ barrier_counter = 0

Unaware(w, r) ==
    /\ pending[w] = {} /\ Leaving(w)
    /\ entered[w] = r + 1 /\ left[w] = r
    /\ barrier_direction[w] = 1 - barrier_release

Releasing(r) == \E u \in Worker : Released(u, r) /\ \A w \in Worker \ {u} : Unaware(w, r)

IInv == TypeOK /\ LockInv /\ \E r \in 0 .. MaxRound : Between(r) \/ Releasing(r)
=============================================================================
