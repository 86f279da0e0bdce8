-------------------------------- MODULE THE --------------------------------
(***************************************************************************)
(* The T/H/E protocol of runtime/sched.c and runtime/cilk-cilk2c-pre.h,    *)
(* one store, one lock operation or one test of shared memory per action.  *)
(*                                                                         *)
(* One worker, the victim, runs cilk2c's output on the frame stack of its  *)
(* CilkClosureCache.  Thieves run Closure_steal against it, and other      *)
(* workers (Signaler) send exceptions to the closure it works on: a child  *)
(* that returns (Closure_return), an abort (recursively_signal_abort) or   *)
(* Cilk_exit (Cilk_exit_from_user_main).                                   *)
(*                                                                         *)
(* The victim's stores to the stack and to T sit in its store buffer: T    *)
(* and slots are what the victim reads back, Tm and mem what everybody     *)
(* else sees, and the two kinds of store drain in any order (the weakest   *)
(* of the machines cilk-sysdep.h supports).  A pending store to T that is  *)
(* overwritten is coalesced: the victim reads nothing shared in between.   *)
(*                                                                         *)
(* A definition marked mutant is a slip in the one below it; no action     *)
(* uses it.                                                                *)
(***************************************************************************)
EXTENDS Integers, FiniteSets

CONSTANTS
    Thief,          \* the workers that steal from the victim
    Signaler,       \* the workers that send it exceptions
    StackDepth,     \* options->stackdepth, the size of the frame stack
    MaxFrame        \* bound: how many frames a behaviour may create

ASSUME StackDepthAssumption == StackDepth \in Nat \ {0, 1}
ASSUME MaxFrameAssumption == MaxFrame \in Nat

Victim == "victim"
Nobody == "nobody"
ASSUME ActorAssumption == /\ Victim \notin Thief \cup Signaler
                          /\ Nobody \notin Thief \cup Signaler \cup {Victim}
                          /\ Thief \cap Signaler = {}

(* EXCEPTION_INFINITY: bigger than any possible value of T.                *)
Infinity == StackDepth + 1

Actor == Thief \cup Signaler \cup {Victim, Nobody}
Frame == 1 .. MaxFrame

VARIABLES
    T, slots,       \* the victim's view of cache.tail and cache.stack
    Tm, mem,        \* what memory holds of them
    H, E,           \* cache.head and cache.exception
    status,         \* of the closure at the bottom of the victim's deque
    aborted,        \* that closure's abort_status is ABORT_ALL
    cframe,         \* that closure's frame
    inDeque,        \* that closure is in the victim's ready deque
    dlock, clock,   \* who holds deque[victim] and that closure's lock
    pc, tpc, spc,   \* where the victim, the thieves, the signalers are
    created,        \* how many frames exist
    taken           \* the frames thieves have detached

vars == <<T, slots, Tm, mem, H, E, status, aborted, cframe, inDeque,
          dlock, clock, pc, tpc, spc, created, taken>>

memory  == <<slots, mem, Tm>>
closure == <<status, aborted, cframe>>
locks   == <<dlock, clock>>
history == <<created, taken>>

Init == /\ T = 0 /\ Tm = 0 /\ H = 0 /\ E = 0
        /\ slots = [i \in 0 .. StackDepth - 1 |-> 0]
        /\ mem = slots
        /\ status = "NONE" /\ aborted = FALSE /\ cframe = 0
        /\ inDeque = FALSE
        /\ dlock = Nobody /\ clock = Nobody
        /\ pc = "idle"
        /\ tpc = [t \in Thief |-> "idle"]
        /\ spc = [s \in Signaler |-> "idle"]
        /\ created = 0 /\ taken = {}

(***************************************************************************)
(* The store buffer.                                                       *)
(***************************************************************************)
DrainTail == /\ Tm # T
             /\ Tm' = T
             /\ UNCHANGED <<T, slots, mem, H, E, closure, inDeque, locks,
                            pc, tpc, spc, history>>

DrainSlots == /\ mem # slots
              /\ mem' = slots
              /\ UNCHANGED <<T, slots, Tm, H, E, closure, inDeque, locks,
                             pc, tpc, spc, history>>

(* Cilk_membar_StoreStore: earlier frame stores before the store to T.     *)
StoreStoreMissing == TRUE                               \* mutant
StoreStore == mem = slots

(* Cilk_membar_StoreLoad, and every lock acquisition: all stores before    *)
(* the loads that follow.                                                  *)
StoreLoadMissing == mem = slots                         \* mutant
StoreLoad == mem = slots /\ Tm = T

(***************************************************************************)
(* The victim: the scheduler and cilk2c's output.                          *)
(***************************************************************************)

(* do_what_it_says on a READY closure: setup_for_execution under its lock. *)
Setup == /\ pc = "idle"
         /\ created < MaxFrame
         /\ clock = Nobody
         /\ status' = "RUNNING" /\ aborted' = FALSE
         /\ created' = created + 1 /\ cframe' = created'
         /\ slots' = [slots EXCEPT ![0] = created'] /\ mem' = slots'
         /\ H' = 0 /\ T' = 1 /\ Tm' = 1
         /\ E' = H'
         /\ pc' = "add"
         /\ UNCHANGED <<inDeque, locks, tpc, spc, taken>>

(* ... and then, the closure unlocked, deque_add_bottom.                   *)
AddBottom == /\ pc = "add"
             /\ dlock = Nobody
             /\ inDeque' = TRUE
             /\ pc' = "run"
             /\ UNCHANGED <<T, H, E, memory, closure, locks, tpc, spc, history>>

(* Cilk_cilk2c_init_frame of a spawned procedure: the frame's address is   *)
(* stored at *T ...                                                        *)
SpawnStore == /\ pc = "run"
              /\ T < StackDepth
              /\ created < MaxFrame
              /\ created' = created + 1
              /\ slots' = [slots EXCEPT ![T] = created']
              /\ pc' = "spawn"
              /\ UNCHANGED <<T, Tm, mem, H, E, closure, inDeque, locks,
                             tpc, spc, taken>>

(* ... and, past the fence, T moves over it.                               *)
SpawnPublish == /\ pc = "spawn"
                /\ StoreStore
                /\ T' = T + 1
                /\ pc' = "run"
                /\ UNCHANGED <<memory, H, E, closure, inDeque, locks,
                               tpc, spc, history>>

(* Cilk_cilk2c_before_return_fast: the frame of a spawned procedure is     *)
(* destroyed and popped.                                                   *)
ReturnFast == /\ pc = "run"
              /\ T > 1
              /\ T' = T - 1
              /\ pc' = "pop"
              /\ UNCHANGED <<memory, H, E, closure, inDeque, locks,
                             tpc, spc, history>>

(* Cilk_cilk2c_pop_check, in the procedure it returned to.                 *)
PopFence == /\ pc = "pop"
            /\ StoreLoad
            /\ pc' = "check"
            /\ UNCHANGED <<T, memory, H, E, closure, inDeque, locks,
                           tpc, spc, history>>

ExceptionalTooLate == E > T                             \* mutant
Exceptional == E >= T

PopCheck == /\ pc = "check"
            /\ pc' = IF Exceptional THEN "handler" ELSE "run"
            /\ UNCHANGED <<T, memory, H, E, closure, inDeque, locks,
                           tpc, spc, history>>

(* Cilk_exception_handler, Cilk_set_result and Cilk_sync all lock the      *)
(* victim's deque and then the closure at its bottom.                      *)
LockOwnDeque(from, to) == /\ pc = from
                          /\ dlock = Nobody /\ StoreLoad
                          /\ dlock' = Victim
                          /\ pc' = to
                          /\ UNCHANGED <<T, memory, H, E, closure, inDeque,
                                         clock, tpc, spc, history>>

LockOwnClosure(from, to) == /\ pc = from
                            /\ clock = Nobody
                            /\ clock' = Victim
                            /\ pc' = to
                            /\ UNCHANGED <<T, memory, H, E, closure, inDeque,
                                           dlock, tpc, spc, history>>

UnlockBoth == clock' = Nobody /\ dlock' = Nobody

HandlerLock == \/ LockOwnDeque("handler", "handlerDeque")
               \/ LockOwnClosure("handlerDeque", "handlerClosure")

(* The body of the handler, both locks held: reset_exception_pointer and   *)
(* the three-way choice.  poll_inlets changes none of this state.          *)
HandlerSteal ==
    /\ pc = "handlerClosure"
    /\ H >= T
    /\ E' = H
    /\ status' = "RETURNING"
    /\ pc' = "unwind"
    /\ UnlockBoth
    /\ UNCHANGED <<T, memory, H, aborted, cframe, inDeque, tpc, spc, history>>

HandlerAbort ==
    /\ pc = "handlerClosure"
    /\ H < T
    /\ aborted
    /\ E' = Infinity
    /\ \/ H + 1 < T /\ UNCHANGED <<status, inDeque>>
       \/ H + 1 = T /\ status' = "RETURNING" /\ UNCHANGED inDeque
          \* the closure has children: only a slow closure can
       \/ H + 1 = T /\ H = 0 /\ status' = "SUSPENDED" /\ inDeque' = FALSE
    /\ pc' = "unwind"
    /\ UnlockBoth
    /\ UNCHANGED <<T, memory, H, aborted, cframe, tpc, spc, history>>

HandlerOther ==
    /\ pc = "handlerClosure"
    /\ H < T
    /\ ~aborted
    /\ E' = H
    /\ pc' = "run"
    /\ UnlockBoth
    /\ UNCHANGED <<T, memory, H, closure, inDeque, tpc, spc, history>>

(* CILK2C_XPOP_FRAME after the handler returned 1: pop and return to the   *)
(* calling procedure, or from the slow one at the bottom to the scheduler. *)
Unwind == /\ pc = "unwind"
          /\ T' = T - 1
          /\ pc' = IF T = 1 THEN "scheduler" ELSE "pop"
          /\ UNCHANGED <<memory, H, E, closure, inDeque, locks,
                         tpc, spc, history>>

(* A slow procedure returns: Cilk_set_result, then its frame is popped.    *)
SlowReturnLock == \/ T = 1 /\ LockOwnDeque("run", "returnDeque")
                  \/ LockOwnClosure("returnDeque", "returnClosure")

SetResult == /\ pc = "returnClosure"
             /\ status' = "RETURNING" /\ cframe' = 0
             /\ UnlockBoth
             /\ pc' = "unwind"
             /\ UNCHANGED <<T, memory, H, E, aborted, inDeque, tpc, spc, history>>

(* Cilk_sync in a slow procedure: suspend if there are children.           *)
SyncLock == \/ T = 1 /\ LockOwnDeque("run", "syncDeque")
            \/ LockOwnClosure("syncDeque", "syncClosure")

SyncSuspend == /\ pc = "syncClosure"
               /\ status' = "SUSPENDED" /\ inDeque' = FALSE
               /\ UnlockBoth
               /\ pc' = "scheduler"
               /\ UNCHANGED <<T, memory, H, E, aborted, cframe, tpc, spc, history>>

SyncPass == /\ pc = "syncClosure"
            /\ UnlockBoth
            /\ pc' = "run"
            /\ UNCHANGED <<T, memory, H, E, closure, inDeque, tpc, spc, history>>

(* Cilk_scheduler: the bottom closure, if any, leaves the deque and is     *)
(* returned to its parent.                                                 *)
Scheduler == /\ pc = "scheduler"
             /\ dlock = Nobody /\ StoreLoad
             /\ inDeque' = FALSE
             /\ status' = IF inDeque THEN "NONE" ELSE status
             /\ pc' = "idle"
             /\ UNCHANGED <<T, memory, H, E, aborted, cframe, locks,
                            tpc, spc, history>>

VictimNext == \/ Setup \/ AddBottom
              \/ SpawnStore \/ SpawnPublish
              \/ ReturnFast \/ PopFence \/ PopCheck
              \/ HandlerLock \/ HandlerSteal \/ HandlerAbort \/ HandlerOther
              \/ Unwind
              \/ SlowReturnLock \/ SetResult
              \/ SyncLock \/ SyncSuspend \/ SyncPass
              \/ Scheduler

(***************************************************************************)
(* A thief: Closure_steal.                                                 *)
(***************************************************************************)
StealLockDeque(t) == /\ tpc[t] = "idle"
                     /\ dlock = Nobody
                     /\ dlock' = t
                     /\ tpc' = [tpc EXCEPT ![t] = "deque"]
                     /\ UNCHANGED <<T, memory, H, E, closure, inDeque, clock,
                                    pc, spc, history>>

StealEmpty(t) == /\ tpc[t] = "deque"
                 /\ ~inDeque
                 /\ dlock' = Nobody
                 /\ tpc' = [tpc EXCEPT ![t] = "idle"]
                 /\ UNCHANGED <<T, memory, H, E, closure, inDeque, clock,
                                pc, spc, history>>

StealLockClosure(t) == /\ tpc[t] = "deque"
                       /\ inDeque
                       /\ clock = Nobody
                       /\ clock' = t
                       /\ tpc' = [tpc EXCEPT ![t] = "closure"]
                       /\ UNCHANGED <<T, memory, H, E, closure, inDeque, dlock,
                                      pc, spc, history>>

StealRefuseUnlockingDequeFirst(t) ==                    \* mutant
    /\ tpc[t] = "closure"
    /\ aborted \/ status = "RETURNING"
    /\ dlock' = Nobody
    /\ tpc' = [tpc EXCEPT ![t] = "giveUp"]
    /\ UNCHANGED <<T, memory, H, E, closure, inDeque, clock, pc, spc, history>>

(* Aborted or returning closures are left alone.                           *)
StealRefuse(t) == /\ tpc[t] = "closure"
                  /\ aborted \/ status = "RETURNING"
                  /\ tpc' = [tpc EXCEPT ![t] = "giveUp"]
                  /\ UNCHANGED <<T, memory, H, E, closure, inDeque, locks,
                                 pc, spc, history>>

IncrementEAlways(e) == e + 1                            \* mutant
DecrementEAlways(e) == e - 1                            \* mutant
IncrementE(e) == IF e = Infinity THEN e ELSE e + 1
DecrementE(e) == IF e = Infinity THEN e ELSE e - 1

(* do_dekker_on: announce the theft ...                                    *)
DekkerRaise(t) == /\ tpc[t] = "closure"
                  /\ ~aborted /\ status = "RUNNING"
                  /\ E' = IncrementE(E)
                  /\ tpc' = [tpc EXCEPT ![t] = "raised"]
                  /\ UNCHANGED <<T, memory, H, closure, inDeque, locks,
                                 pc, spc, history>>

NothingToStealAsDocumented == H >= Tm                   \* mutant
NothingToSteal == H + 1 >= Tm

(* ... and retract it if the worker is on the last frame ...               *)
DekkerLose(t) == /\ tpc[t] = "raised"
                 /\ NothingToSteal
                 /\ E' = DecrementE(E)
                 /\ tpc' = [tpc EXCEPT ![t] = "giveUp"]
                 /\ UNCHANGED <<T, memory, H, closure, inDeque, locks,
                                pc, spc, history>>

DekkerWinRetracting(t) ==                               \* mutant
    /\ tpc[t] = "raised"
    /\ ~NothingToSteal
    /\ taken' = taken \cup {cframe}
    /\ H' = H + 1
    /\ cframe' = mem[H']
    /\ aborted' = FALSE
    /\ E' = DecrementE(E)
    /\ clock' = Nobody
    /\ tpc' = [tpc EXCEPT ![t] = "unlockDeque"]
    /\ UNCHANGED <<T, memory, status, inDeque, dlock, pc, spc, created>>

(* ... or promote_child: the next frame becomes the closure at the bottom, *)
(* with a lock of its own, and the parent leaves the deque.                *)
DekkerWin(t) == /\ tpc[t] = "raised"
                /\ ~NothingToSteal
                /\ taken' = taken \cup {cframe}
                /\ H' = H + 1
                /\ cframe' = mem[H']
                /\ aborted' = FALSE
                /\ clock' = Nobody
                /\ tpc' = [tpc EXCEPT ![t] = "unlockDeque"]
                /\ UNCHANGED <<T, memory, E, status, inDeque, dlock,
                               pc, spc, created>>

(* give_up: the closure is unlocked before the queue (rule D of PROTOCOLS). *)
StealUnlockClosure(t) == /\ tpc[t] = "giveUp"
                         /\ clock' = Nobody
                         /\ tpc' = [tpc EXCEPT ![t] = "unlockDeque"]
                         /\ UNCHANGED <<T, memory, H, E, closure, inDeque,
                                        dlock, pc, spc, history>>

StealUnlockDeque(t) == /\ tpc[t] = "unlockDeque"
                       /\ dlock' = Nobody
                       /\ tpc' = [tpc EXCEPT ![t] = "idle"]
                       /\ UNCHANGED <<T, memory, H, E, closure, inDeque,
                                      clock, pc, spc, history>>

ThiefNext(t) == \/ StealLockDeque(t) \/ StealEmpty(t) \/ StealLockClosure(t)
                \/ StealRefuse(t)
                \/ DekkerRaise(t) \/ DekkerLose(t) \/ DekkerWin(t)
                \/ StealUnlockClosure(t) \/ StealUnlockDeque(t)

(***************************************************************************)
(* Another worker signals an immediate exception to a RUNNING closure,     *)
(* under the closure's lock.                                               *)
(***************************************************************************)
SignalException(s) == /\ spc[s] = "idle"
                      /\ status = "RUNNING"
                      /\ clock = Nobody
                      /\ clock' = s
                      /\ E' = Infinity
                      /\ aborted' \in {aborted, TRUE}
                      /\ spc' = [spc EXCEPT ![s] = "unlock"]
                      /\ UNCHANGED <<T, memory, H, status, cframe, inDeque,
                                     dlock, pc, tpc, history>>

SignalUnlock(s) == /\ spc[s] = "unlock"
                   /\ clock' = Nobody
                   /\ spc' = [spc EXCEPT ![s] = "idle"]
                   /\ UNCHANGED <<T, memory, H, E, closure, inDeque, dlock,
                                  pc, tpc, history>>

Next == \/ DrainTail \/ DrainSlots
        \/ VictimNext
        \/ \E t \in Thief : ThiefNext(t)
        \/ \E s \in Signaler : SignalException(s) \/ SignalUnlock(s)

Spec == Init /\ [][Next]_vars
-----------------------------------------------------------------------------
(***************************************************************************)
(* Properties.                                                             *)
(***************************************************************************)
TypeOK ==
    /\ T \in 0 .. StackDepth /\ Tm \in 0 .. StackDepth
    /\ H \in 0 .. StackDepth /\ E \in 0 .. Infinity
    /\ slots \in [0 .. StackDepth - 1 -> 0 .. MaxFrame]
    /\ mem \in [0 .. StackDepth - 1 -> 0 .. MaxFrame]
    /\ status \in {"NONE", "RUNNING", "RETURNING", "SUSPENDED"}
    /\ aborted \in BOOLEAN /\ inDeque \in BOOLEAN
    /\ cframe \in 0 .. MaxFrame /\ created \in 0 .. MaxFrame
    /\ taken \subseteq Frame
    /\ dlock \in Thief \cup {Victim, Nobody} /\ clock \in Actor
    /\ pc \in {"idle", "add", "run", "spawn", "pop", "check", "handler",
               "handlerDeque", "handlerClosure", "unwind", "returnDeque",
               "returnClosure", "syncDeque", "syncClosure", "scheduler"}
    /\ tpc \in [Thief -> {"idle", "deque", "closure", "raised", "giveUp",
                         "unlockDeque"}]
    /\ spc \in [Signaler -> {"idle", "unlock"}]

(* The victim runs code of the frame below T.                              *)
Executing == pc \in {"run", "spawn", "returnDeque", "returnClosure",
                     "syncDeque", "syncClosure"}

(* A return from a spawned procedure is under way: whether its parent is   *)
(* still the victim's is not decided yet.                                  *)
Popping == pc \in {"pop", "check", "handler", "handlerDeque", "handlerClosure"}

(* The victim never runs a frame that a thief has taken, and it runs code  *)
(* only for a closure that is RUNNING: the purpose of the whole protocol   *)
(* (PopCheck against DekkerRaise .. DekkerWin).                            *)
NoFrameRunTwice == Executing => /\ H < T
                                /\ slots[T - 1] \notin taken
                                /\ status = "RUNNING"

(* "The exception pointer is always greater or equal than the head         *)
(* pointer" (sched.c, Exceptions), so that a worker whose parent frame     *)
(* was stolen cannot miss it.                                              *)
ExceptionAboveHead == status = "RUNNING" => E >= H

(* promote_child reads the child's frame from the victim's stack: it must  *)
(* be the frame the victim stored there, not a stale word                  *)
(* (Cilk_membar_StoreStore in Cilk_cilk2c_init_frame).                     *)
PromotedFrameIsCurrent ==
    status = "RUNNING" => cframe = slots[H]

(* Rule D of PROTOCOLS: while a thief has its hands on the closure, the    *)
(* closure cannot leave the deque and be returned and freed.               *)
RuleD == \A t \in Thief :
            tpc[t] \in {"closure", "raised", "giveUp"} => inDeque

(* An exception signalled to the closure at work is not lost to a thief's  *)
(* E++ and E-- (the tests against EXCEPTION_INFINITY).                     *)
SignalNotLost ==
    [][E = Infinity /\ E' # Infinity => pc \in {"handlerClosure", "idle"}]_vars

(* A frame is taken once, and never one that is still in the victim's use. *)
TakenOnce ==
    [][taken' # taken => /\ cframe \notin taken
                         /\ Executing => cframe # slots[T - 1]]_vars

(***************************************************************************)
(* The inductive invariant behind NoFrameRunTwice.                         *)
(***************************************************************************)
HoldsDeque   == {"handlerDeque", "handlerClosure", "returnDeque",
                 "returnClosure", "syncDeque", "syncClosure"}
HoldsClosure == {"handlerClosure", "returnClosure", "syncClosure"}

(* Each lock is held by the process whose program counter says so.         *)
LockInv ==
    /\ dlock = Victim <=> pc \in HoldsDeque
    /\ clock = Victim <=> pc \in HoldsClosure
    /\ \A t \in Thief : /\ dlock = t <=> tpc[t] # "idle"
                        /\ clock = t <=> tpc[t] \in {"closure", "raised", "giveUp"}
    /\ \A s \in Signaler : clock = s <=> spc[s] = "unlock"

(* How far H and T may be apart, for each place the victim can be at.      *)
PlaceInv ==
    /\ pc = "idle" => status \in {"NONE", "SUSPENDED"} /\ ~inDeque
    /\ pc = "add" => status = "RUNNING" /\ ~inDeque /\ H = 0 /\ T = 1
    /\ Executing => status = "RUNNING" /\ inDeque /\ H < T
    /\ pc = "spawn" => T < StackDepth
    /\ pc \in HoldsDeque \ {"handlerDeque", "handlerClosure"} => T = 1
    /\ Popping => /\ inDeque
                  /\ T \in 1 .. StackDepth - 1
                  /\ \/ status = "RUNNING" /\ H <= T
                     \/ status = "RETURNING" /\ H >= T
    /\ pc = "unwind" => /\ T >= 1
                        /\ \/ status = "RUNNING" /\ inDeque /\ H + 1 < T /\ aborted
                           \/ status = "RETURNING" /\ inDeque /\ H + 1 >= T
                           \/ status = "SUSPENDED" /\ ~inDeque /\ T = 1
    /\ pc = "scheduler" => \/ status = "RETURNING" /\ inDeque
                           \/ status = "SUSPENDED" /\ ~inDeque

(* What a thief can see of T and of the stack: never a T above the frame   *)
(* the victim is deciding about.                                           *)
BufferInv ==
    /\ Executing \/ pc = "add" => Tm <= T
    /\ pc = "pop" => Tm <= T + 1
    /\ pc \in {"check", "handler", "unwind"} \cup HoldsDeque => Tm = T
    /\ \A i \in 0 .. StackDepth - 1 : i # T \/ pc # "spawn" => mem[i] = slots[i]

(* E stays above H, and strictly while a thief announces a theft.          *)
ExceptionInv ==
    /\ status \in {"RUNNING", "RETURNING"} => E >= H
    /\ \A t \in Thief : tpc[t] = "raised" => /\ status = "RUNNING" /\ ~aborted
                                             /\ E >= H + 1
    /\ RuleD

(* The last slot that holds a frame the victim still has to account for.   *)
Last == IF Popping \/ pc = "spawn" THEN T ELSE T - 1

(* Frames are numbered in the order of their creation: younger frames are  *)
(* further up the stack, and thieves take the oldest.                      *)
StackInv ==
    /\ \A i \in 0 .. StackDepth - 1 : slots[i] <= created
    /\ \A f \in taken : f <= created
    /\ status = "RUNNING" =>
          /\ cframe = slots[H]
          /\ \A i \in H .. Last : slots[i] >= 1
          /\ \A i, j \in H .. Last : i < j => slots[i] < slots[j]
          /\ \A f \in taken : f < cframe

IInv == TypeOK /\ LockInv /\ PlaceInv /\ BufferInv /\ ExceptionInv /\ StackInv

(* sched.c, Dekker-like protocol: the thief gives up "If (H >= T)".        *)
GiveUpOnlyWhenEmpty ==
    [][\A t \in Thief : DekkerLose(t) => H >= Tm]_vars

(***************************************************************************)
(* The refinement of WorkDeque: the victim's frames are the slots from H   *)
(* up to T, with the slot T just left as long as the return is undecided.  *)
(***************************************************************************)
Top == IF status # "RUNNING" THEN H ELSE IF Popping THEN T + 1 ELSE T

Owned == [i \in 1 .. Top - H |-> slots[H + i - 1]]

Gone == (1 .. created) \ (taken \cup {slots[i] : i \in H .. Top - 1}
                          \cup (IF pc = "spawn" THEN {created} ELSE {}))

Deque == INSTANCE WorkDeque WITH frames <- Owned, stolen <- taken, left <- Gone

DequeSpec == Deque!Spec
=============================================================================
