------------------------------ MODULE Workers ------------------------------
(***************************************************************************)
(* The worker pool of runtime/workers.c and cilk.c: the main thread gives  *)
(* the workers one computation after the other (Cilk_start) and at last    *)
(* tells them to terminate; the workers sleep in between.                  *)
(*                                                                         *)
(* workers_mutex is held through one action at most, so it needs no        *)
(* variable: each action is a critical section, up to its unlock or its    *)
(* pthread_cond_wait, or a step outside of it.  A computation is only its  *)
(* beginning (worker 0 enters the scheduler with invoke_main's closure)    *)
(* and its end (some worker sets done); Scheduler has the rest.            *)
(***************************************************************************)
EXTENDS Integers, FiniteSets

CONSTANTS
    Worker,         \* the workers: active_size of them
    First,          \* worker 0
    MaxStart        \* bound: calls of Cilk_start

ASSUME WorkerAssumption == First \in Worker /\ IsFiniteSet(Worker)
ASSUME StartAssumption == MaxStart \in Nat

VARIABLES
    terminating, nothing_to_do, workers_done_counter, workers_are_done,
    done,           \* USE_SHARED(done): the scheduler's
    work,           \* invoke_main's closure: none, given to worker 0, begun
    starts,         \* calls of Cilk_start so far
    main,           \* the main thread's place
    pc,             \* each worker's place
    local_terminating

vars == <<terminating, nothing_to_do, workers_done_counter, workers_are_done,
          done, work, starts, main, pc, local_terminating>>

flags == <<terminating, nothing_to_do, workers_done_counter, workers_are_done>>
computation == <<done, work, starts>>

(* Places between waking up and going back to sleep, or ending.            *)
Passed == {w \in Worker : pc[w] \in {"wakeOthers", "scheduler", "isDone", "exit"}}
Inside == {w \in Worker : pc[w] \in {"wakeOthers", "scheduler", "isDone"}
                          /\ ~local_terminating[w]}

MainGoto(l) == main' = l
Goto(w, l) == pc' = [pc EXCEPT ![w] = l]

(* pthread_cond_broadcast: a waiting worker goes on to test its condition. *)
Wake(ws) == [w \in Worker |-> IF w \in ws /\ pc[w] = "waiting" THEN "check" ELSE pc[w]]

(* Before the first Cilk_start, done is whatever is in the new memory.     *)
Init ==
    /\ terminating = FALSE /\ nothing_to_do = TRUE
    /\ workers_done_counter = 0 /\ workers_are_done = FALSE
    /\ done \in BOOLEAN /\ work = "none" /\ starts = 0
    /\ main = "idle"
    /\ pc = [w \in Worker |-> "born"]
    /\ local_terminating = [w \in Worker |-> FALSE]

(***************************************************************************)
(* The main thread.                                                        *)
(***************************************************************************)
(* Cilk_start up to Cilk_wakeup_workers: deques and done are reset.        *)
Start ==
    /\ main = "idle" /\ starts < MaxStart
    /\ starts' = starts + 1
    /\ done' = FALSE /\ work' = "given"
    /\ MainGoto("wakeup")
    /\ UNCHANGED <<flags, pc, local_terminating>>

DoneLeftSet ==                                          \* mutant
    workers_done_counter' = 0 /\ UNCHANGED workers_are_done
ResetDone == workers_done_counter' = 0 /\ workers_are_done' = FALSE

WakeupWorkers ==
    /\ main = "wakeup"
    /\ ResetDone
    /\ nothing_to_do' = FALSE
    /\ MainGoto("wakeFirst")
    /\ UNCHANGED <<terminating, computation, pc, local_terminating>>

BroadcastFirst ==
    /\ main = "wakeFirst"
    /\ pc' = Wake({First})
    /\ MainGoto("await")
    /\ UNCHANGED <<flags, computation, local_terminating>>

(* while (!workers_are_done) pthread_cond_wait(&workers_done_cond, ...)    *)
AwaitDone ==
    /\ main = "await"
    /\ MainGoto(IF workers_are_done THEN "idle" ELSE "asleep")
    /\ UNCHANGED <<flags, computation, pc, local_terminating>>

(* Cilk_terminate_children.                                                *)
Terminate ==
    /\ main = "idle"
    /\ terminating' = TRUE
    /\ MainGoto("endFirst")
    /\ UNCHANGED <<nothing_to_do, workers_done_counter, workers_are_done,
                   computation, pc, local_terminating>>

TerminateFirst ==
    /\ main = "endFirst"
    /\ pc' = Wake({First})
    /\ MainGoto("endOthers")
    /\ UNCHANGED <<flags, computation, local_terminating>>

NobodyElse == Worker \ Worker                           \* mutant
Others == Worker \ {First}

TerminateOthers ==
    /\ main = "endOthers"
    /\ pc' = Wake(Others)
    /\ MainGoto("join")
    /\ UNCHANGED <<flags, computation, local_terminating>>

Join ==
    /\ main = "join" /\ \A w \in Worker : pc[w] = "exit"
    /\ MainGoto("end")
    /\ UNCHANGED <<flags, computation, pc, local_terminating>>

MainStep == \/ Start \/ WakeupWorkers \/ BroadcastFirst \/ AwaitDone
            \/ Terminate \/ TerminateFirst \/ TerminateOthers \/ Join

(***************************************************************************)
(* The workers: Cilk_child_main.                                           *)
(***************************************************************************)
(* The thread runs at last, and makes its worker state.                    *)
Born(w) ==
    /\ pc[w] = "born"
    /\ Goto(w, "check")
    /\ UNCHANGED <<flags, computation, main, local_terminating>>

(* Cilk_worker_wait_for_invocation.                                        *)
Sleep(w) ==
    /\ pc[w] = "check" /\ ~terminating /\ nothing_to_do
    /\ Goto(w, "waiting")
    /\ UNCHANGED <<flags, computation, main, local_terminating>>

Spurious(w) ==
    /\ pc[w] = "waiting"
    /\ Goto(w, "check")
    /\ UNCHANGED <<flags, computation, main, local_terminating>>

AfterWait(w, ending) == IF ending THEN "exit" ELSE "scheduler"

NotCounted == UNCHANGED workers_done_counter            \* mutant
CountIn == workers_done_counter' = workers_done_counter + 1

(* Worker 0 has still to wake the others.                                  *)
Pass(w) ==
    /\ pc[w] = "check" /\ (terminating \/ ~nothing_to_do)
    /\ CountIn
    /\ local_terminating' = [local_terminating EXCEPT ![w] = terminating]
    /\ Goto(w, IF w = First THEN "wakeOthers" ELSE AfterWait(w, terminating))
    /\ UNCHANGED <<terminating, nothing_to_do, workers_are_done, computation, main>>

(* ... and then enters the scheduler with invoke_main's closure.           *)
WakeOthers(w) ==
    /\ pc[w] = "wakeOthers"
    /\ pc' = [Wake(Others) EXCEPT ![w] = AfterWait(w, local_terminating[w])]
    /\ work' = IF local_terminating[w] THEN work ELSE "begun"
    /\ UNCHANGED <<flags, done, starts, main, local_terminating>>

(* The worker that runs invoke_main's last thread.                         *)
Finish(w) ==
    /\ pc[w] = "scheduler" /\ work = "begun"
    /\ done' = TRUE /\ work' = "none"
    /\ UNCHANGED <<flags, starts, main, pc, local_terminating>>

LeaveScheduler(w) ==
    /\ pc[w] = "scheduler" /\ done
    /\ Goto(w, "isDone")
    /\ UNCHANGED <<flags, computation, main, local_terminating>>

(* Cilk_worker_is_done.                                                    *)
NothingLeftOpen == UNCHANGED nothing_to_do              \* mutant
NothingToDo == nothing_to_do' = TRUE
LastButOne == workers_done_counter' <= 1                \* mutant
NeverLast == workers_done_counter' < 0                  \* mutant
Last == workers_done_counter' <= 0

IsDone(w) ==
    /\ pc[w] = "isDone"
    /\ NothingToDo
    /\ workers_done_counter' = workers_done_counter - 1
    /\ IF Last
         THEN /\ workers_are_done' = TRUE
              /\ main' = IF main = "asleep" THEN "await" ELSE main
         ELSE UNCHANGED <<workers_are_done, main>>
    /\ local_terminating' = [local_terminating EXCEPT ![w] = terminating]
    /\ Goto(w, IF terminating THEN "exit" ELSE "check")
    /\ UNCHANGED <<terminating, computation>>

MainSpurious == main = "asleep" /\ MainGoto("await")
                /\ UNCHANGED <<flags, computation, pc, local_terminating>>

WorkerStep(w) == \/ Born(w) \/ Sleep(w) \/ Pass(w) \/ WakeOthers(w)
                 \/ Finish(w) \/ LeaveScheduler(w) \/ IsDone(w)

Ended == main = "end" /\ UNCHANGED vars

Next == \/ MainStep \/ MainSpurious \/ Ended
        \/ \E w \in Worker : WorkerStep(w) \/ Spurious(w)

Spec == Init /\ [][Next]_vars

(* Threads are scheduled; nothing is promised of spurious wakeups.         *)
FairSpec == Spec /\ WF_vars(MainStep) /\ \A w \in Worker : WF_vars(WorkerStep(w))

(***************************************************************************)
(* Properties.                                                             *)
(***************************************************************************)
Resting == {"idle", "wakeup", "endFirst", "endOthers", "join", "end"}
Working == {"wakeFirst", "await", "asleep"}

TypeOK ==
    /\ terminating \in BOOLEAN /\ nothing_to_do \in BOOLEAN
    /\ workers_done_counter \in Nat /\ workers_are_done \in BOOLEAN
    /\ done \in BOOLEAN /\ work \in {"none", "given", "begun"}
    /\ starts \in 0 .. MaxStart
    /\ main \in Resting \cup Working
    /\ pc \in [Worker -> {"born", "check", "waiting", "wakeOthers",
                          "scheduler", "isDone", "exit"}]
    /\ local_terminating \in [Worker -> BOOLEAN]

(* While the main thread is on its own ground (between computations, where *)
(* Cilk_start resets the deques and done, and Cilk_terminate frees         *)
(* everything) no worker is on its way into, in, or out of the scheduler.  *)
MainAlone == main \in Resting => Inside = {}

(* workers.c, at Cilk_worker_is_done: "Assumption: terminating = false".   *)
NotTerminatingAtDone == \A w \in Worker : pc[w] = "isDone" => ~terminating

(* The counter counts the workers that passed the wait and did not sign    *)
(* off, whenever a computation is under way.                               *)
CounterCounts == workers_done_counter = Cardinality(Passed)

(* Cilk_wakeup_workers returns when the computation it was called for is   *)
(* over.                                                                   *)
ReturnsWhenDone ==
    [][main = "await" /\ main' = "idle" => done /\ work = "none"]_vars

(* A computation handed over is taken up, and Cilk_start returns; and when *)
(* the pool is told to terminate, every worker does.                       *)
StartReturns == main = "wakeup" ~> main = "idle"
Joined == terminating ~> main = "end"
CallsReturn == StartReturns /\ Joined

(* The inductive invariant: where the workers are while main rests, and    *)
(* what holds while a computation is under way.                            *)
RestInv ==
    main \in Resting =>
        /\ nothing_to_do
        /\ \A w \in Worker :
              \/ pc[w] \in {"born", "check", "waiting"}
              \/ terminating /\ local_terminating[w] /\ pc[w] \in {"wakeOthers", "exit"}

(* Until worker 0 has entered the scheduler it has the closure to take.    *)
GivenInv ==
    /\ main = "wakeup" => work = "given" /\ ~done
    /\ /\ main \in Working
       /\ \/ pc[First] = "wakeOthers"
          \/ ~nothing_to_do /\ pc[First] \in {"born", "check", "waiting"}
       => work = "given"

WorkInv ==
    /\ main \in {"idle", "wakeup"} \cup Working => ~terminating
    /\ main \in Working =>
          /\ \A w \in Worker : pc[w] # "exit"
          /\ nothing_to_do => done
          /\ workers_are_done => Passed = {} /\ nothing_to_do
          /\ done => work = "none"
    /\ ~terminating => \A w \in Worker : ~local_terminating[w]
    /\ \A w \in Worker : pc[w] = "isDone" => done
    /\ \A w \in Worker : pc[w] = "wakeOthers" => w = First

IInv == TypeOK /\ CounterCounts /\ RestInv /\ GivenInv /\ WorkInv
=============================================================================
