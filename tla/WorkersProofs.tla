--------------------------- MODULE WorkersProofs ---------------------------
(***************************************************************************)
(* Proofs about the worker pool, for any finite set of workers and any     *)
(* number of computations.  The key is the counter: it is the number of    *)
(* workers that passed the wait and did not sign off, so that it is zero   *)
(* only when they all did.                                                 *)
(***************************************************************************)
EXTENDS Workers, FiniteSetTheorems, TLAPS

(* The set that is counted is finite, so its size is a natural number.     *)
LEMMA PassedFinite == IsFiniteSet(Passed) /\ Cardinality(Passed) \in Nat
<1>1. Passed \in SUBSET Worker
  BY DEF Passed
<1>q. QED BY <1>1, WorkerAssumption, FS_Subset, FS_CardinalityType

(* Waking a worker does not change who passed.                             *)
LEMMA WakeKeepsPassed ==
  ASSUME NEW ws, TypeOK, pc' = Wake(ws)
  PROVE  Passed' = Passed
BY DEF Wake, Passed, TypeOK

(* The counter counts: workers.c increments it once past the wait and      *)
(* decrements it once after the scheduler.                                 *)
LEMMA CountStep == IInv /\ [Next]_vars => CounterCounts'
<1> SUFFICES ASSUME IInv, [Next]_vars PROVE CounterCounts'
  OBVIOUS
<1> USE DEF IInv, CounterCounts
<1>1. ASSUME Passed' = Passed, workers_done_counter' = workers_done_counter
      PROVE  CounterCounts'
  BY <1>1
<1>2. CASE Start \/ AwaitDone \/ Terminate \/ Join \/ MainSpurious \/ Ended \/ UNCHANGED vars
  BY <1>1, <1>2 DEF Start, AwaitDone, Terminate, Join, MainSpurious, Ended,
                    Passed, vars, flags
<1>3. CASE WakeupWorkers
  <2>1. Passed = {}
    BY <1>3 DEF WakeupWorkers, RestInv, WorkInv, Resting, Passed
  <2>q. QED BY <1>3, <2>1, FS_EmptySet DEF WakeupWorkers, ResetDone, Passed
<1>4. CASE BroadcastFirst
  BY <1>1, <1>4, WakeKeepsPassed DEF BroadcastFirst, flags
<1>5. CASE TerminateFirst
  BY <1>1, <1>5, WakeKeepsPassed DEF TerminateFirst, flags
<1>6. CASE TerminateOthers
  BY <1>1, <1>6, WakeKeepsPassed DEF TerminateOthers, flags
<1>7. ASSUME NEW w \in Worker, Born(w) \/ Sleep(w) \/ Finish(w) \/ LeaveScheduler(w) \/ Spurious(w)
      PROVE  CounterCounts'
  BY <1>1, <1>7 DEF Born, Sleep, Finish, LeaveScheduler, Spurious, Goto, Passed, flags, TypeOK
<1>8. ASSUME NEW w \in Worker, Pass(w)
      PROVE  CounterCounts'
  <2>1. w \notin Passed /\ Passed' = Passed \cup {w}
    BY <1>8 DEF Pass, Goto, AfterWait, Passed, TypeOK
  <2>2. Cardinality(Passed') = Cardinality(Passed) + 1
    BY <2>1, PassedFinite, FS_AddElement
  <2>q. QED BY <1>8, <2>2 DEF Pass, CountIn
<1>9. ASSUME NEW w \in Worker, WakeOthers(w)
      PROVE  CounterCounts'
  BY <1>1, <1>9 DEF WakeOthers, Wake, AfterWait, Passed, flags, TypeOK
<1>10. ASSUME NEW w \in Worker, IsDone(w)
       PROVE  CounterCounts'
  <2>1. ~terminating
    BY <1>10 DEF IsDone, RestInv, WorkInv, TypeOK
  <2>2. w \in Passed /\ Passed' = Passed \ {w}
    BY <1>10, <2>1 DEF IsDone, Goto, Passed, TypeOK
  <2>3. Cardinality(Passed') = Cardinality(Passed) - 1
    BY <2>2, PassedFinite, FS_RemoveElement
  <2>q. QED BY <1>10, <2>3 DEF IsDone
<1>q. QED
  BY <1>2, <1>3, <1>4, <1>5, <1>6, <1>7, <1>8, <1>9, <1>10
     DEF Next, MainStep, WorkerStep

(* Types are kept; the counter is a natural number because it counts.      *)
LEMMA TypeStep == IInv /\ [Next]_vars => TypeOK'
<1> SUFFICES ASSUME IInv, [Next]_vars PROVE TypeOK'
  OBVIOUS
<1> USE DEF IInv, TypeOK, Resting, Working, Goto, MainGoto, flags, computation
<1>0. workers_done_counter' \in Nat
  <2>1. Passed' \in SUBSET Worker
    BY DEF Passed
  <2>2. Cardinality(Passed') \in Nat
    BY <2>1, WorkerAssumption, FS_Subset, FS_CardinalityType
  <2>q. QED BY <2>2, CountStep DEF CounterCounts
<1>1. CASE Start
  <2>1. starts' \in 0 .. MaxStart
    BY <1>1, StartAssumption DEF Start
  <2>2. done' \in BOOLEAN
    <3>1. done' = FALSE
      BY <1>1 DEF Start
    <3>q. QED BY <3>1
  <2>3. UNCHANGED flags /\ UNCHANGED <<pc, local_terminating>>
        /\ main' = "wakeup" /\ work' = "given"
    BY <1>1 DEF Start
  <2>q. QED BY <2>1, <2>2, <2>3
<1>2. CASE WakeupWorkers
  BY <1>0, <1>2 DEF WakeupWorkers, ResetDone
<1>3. CASE BroadcastFirst \/ TerminateFirst \/ TerminateOthers
  BY <1>0, <1>3 DEF BroadcastFirst, TerminateFirst, TerminateOthers, Wake
<1>4. CASE AwaitDone \/ Terminate \/ Join \/ MainSpurious \/ Ended \/ UNCHANGED vars
  BY <1>0, <1>4 DEF AwaitDone, Terminate, Join, MainSpurious, Ended, vars
<1>5. ASSUME NEW w \in Worker, Born(w) \/ Sleep(w) \/ Finish(w) \/ LeaveScheduler(w) \/ Spurious(w)
      PROVE  TypeOK'
  BY <1>0, <1>5 DEF Born, Sleep, Finish, LeaveScheduler, Spurious
<1>6. ASSUME NEW w \in Worker, Pass(w)
      PROVE  TypeOK'
  BY <1>0, <1>6 DEF Pass, AfterWait
<1>7. ASSUME NEW w \in Worker, WakeOthers(w)
      PROVE  TypeOK'
  BY <1>0, <1>7 DEF WakeOthers, Wake, AfterWait
<1>8. ASSUME NEW w \in Worker, IsDone(w)
      PROVE  TypeOK'
  BY <1>0, <1>8 DEF IsDone, NothingToDo, Last
<1>q. QED
  BY <1>1, <1>2, <1>3, <1>4, <1>5, <1>6, <1>7, <1>8 DEF Next, MainStep, WorkerStep

(* While the main thread rests no worker gets past the wait, but to end.   *)
LEMMA RestStep == IInv /\ [Next]_vars => RestInv'
<1> SUFFICES ASSUME IInv, [Next]_vars PROVE RestInv'
  OBVIOUS
<1> USE DEF IInv, TypeOK, Resting, Working, Goto, MainGoto, flags, computation, RestInv
<1>1. CASE Start
  BY <1>1 DEF Start, WorkInv
<1>2. CASE WakeupWorkers
  BY <1>2 DEF WakeupWorkers
<1>3. CASE BroadcastFirst \/ TerminateFirst \/ TerminateOthers
  BY <1>3 DEF BroadcastFirst, TerminateFirst, TerminateOthers, Wake
<1>4. CASE AwaitDone
  <2>1. CASE ~workers_are_done
    BY <1>4, <2>1 DEF AwaitDone
  <2>2. CASE workers_are_done
    BY <1>4, <2>2 DEF AwaitDone, WorkInv, Passed
  <2>q. QED BY <2>1, <2>2
<1>5. CASE Terminate \/ Join \/ MainSpurious \/ Ended \/ UNCHANGED vars
  BY <1>5 DEF Terminate, Join, MainSpurious, Ended, WorkInv, vars
<1>6. ASSUME NEW w \in Worker, Born(w) \/ Sleep(w) \/ Finish(w) \/ LeaveScheduler(w) \/ Spurious(w)
      PROVE  RestInv'
  BY <1>6 DEF Born, Sleep, Finish, LeaveScheduler, Spurious
<1>7. ASSUME NEW w \in Worker, Pass(w)
      PROVE  RestInv'
  BY <1>7 DEF Pass, AfterWait
<1>8. ASSUME NEW w \in Worker, WakeOthers(w)
      PROVE  RestInv'
  BY <1>8 DEF WakeOthers, Wake, AfterWait
<1>9. ASSUME NEW w \in Worker, IsDone(w)
      PROVE  RestInv'
  BY <1>9 DEF IsDone, NothingToDo
<1>q. QED
  BY <1>1, <1>2, <1>3, <1>4, <1>5, <1>6, <1>7, <1>8, <1>9 DEF Next, MainStep, WorkerStep

(* The closure Cilk_start made stays there until worker 0 takes it.        *)
LEMMA GivenStep == IInv /\ [Next]_vars => GivenInv'
<1> SUFFICES ASSUME IInv, [Next]_vars PROVE GivenInv'
  OBVIOUS
<1> USE WorkerAssumption DEF IInv, TypeOK, Resting, Working, Goto, MainGoto, flags, computation, GivenInv
<1>1. CASE Start
  BY <1>1 DEF Start
<1>2. CASE WakeupWorkers
  BY <1>2 DEF WakeupWorkers
<1>3. CASE BroadcastFirst \/ TerminateFirst \/ TerminateOthers
  BY <1>3 DEF BroadcastFirst, TerminateFirst, TerminateOthers, Wake
<1>4. CASE AwaitDone \/ Terminate \/ Join \/ MainSpurious \/ Ended \/ UNCHANGED vars
  BY <1>4 DEF AwaitDone, Terminate, Join, MainSpurious, Ended, vars
<1>5. ASSUME NEW w \in Worker, Born(w) \/ Sleep(w) \/ LeaveScheduler(w) \/ Spurious(w)
      PROVE  GivenInv'
  BY <1>5 DEF Born, Sleep, LeaveScheduler, Spurious
<1>6. ASSUME NEW w \in Worker, Finish(w)
      PROVE  GivenInv'
  BY <1>6 DEF Finish, RestInv
<1>7. ASSUME NEW w \in Worker, Pass(w)
      PROVE  GivenInv'
  BY <1>7 DEF Pass, AfterWait, RestInv, WorkInv
<1>8. ASSUME NEW w \in Worker, WakeOthers(w)
      PROVE  GivenInv'
  BY <1>8 DEF WakeOthers, Wake, AfterWait, RestInv, WorkInv
<1>9. ASSUME NEW w \in Worker, IsDone(w)
      PROVE  GivenInv'
  BY <1>9 DEF IsDone, NothingToDo, RestInv, WorkInv
<1>q. QED
  BY <1>1, <1>2, <1>3, <1>4, <1>5, <1>6, <1>7, <1>8, <1>9 DEF Next, MainStep, WorkerStep

(* What holds while a computation is under way.                            *)
LEMMA WorkStep == IInv /\ [Next]_vars => WorkInv'
<1> SUFFICES ASSUME IInv, [Next]_vars PROVE WorkInv'
  OBVIOUS
<1>0. ASSUME NEW ws, pc' = Wake(ws)
      PROVE  Passed' = Passed
  BY <1>0, WakeKeepsPassed DEF IInv
<1> USE WorkerAssumption DEF IInv, TypeOK, Resting, Working, Goto, MainGoto, flags, computation, WorkInv
<1>1. CASE Start
  BY <1>1 DEF Start, RestInv
<1>2. CASE WakeupWorkers
  BY <1>2 DEF WakeupWorkers, ResetDone, RestInv, GivenInv
<1>3. CASE BroadcastFirst \/ TerminateFirst \/ TerminateOthers
  <2>1. Passed' = Passed
    BY <1>0, <1>3 DEF BroadcastFirst, TerminateFirst, TerminateOthers
  <2>q. QED BY <1>3, <2>1 DEF BroadcastFirst, TerminateFirst, TerminateOthers, Wake
<1>4. CASE AwaitDone \/ Terminate \/ Join \/ MainSpurious \/ Ended \/ UNCHANGED vars
  BY <1>4 DEF AwaitDone, Terminate, Join, MainSpurious, Ended, vars, Passed
<1>5. ASSUME NEW w \in Worker, Born(w) \/ Sleep(w) \/ LeaveScheduler(w) \/ Spurious(w)
      PROVE  WorkInv'
  BY <1>5 DEF Born, Sleep, LeaveScheduler, Spurious, Passed
<1>6. ASSUME NEW w \in Worker, Finish(w)
      PROVE  WorkInv'
  BY <1>6 DEF Finish, RestInv, Passed
<1>7. ASSUME NEW w \in Worker, Pass(w)
      PROVE  WorkInv'
  BY <1>7 DEF Pass, AfterWait, RestInv, Passed
<1>8. ASSUME NEW w \in Worker, WakeOthers(w)
      PROVE  WorkInv'
  BY <1>8 DEF WakeOthers, Wake, AfterWait, RestInv, Passed, GivenInv
<1>9. ASSUME NEW w \in Worker, IsDone(w)
      PROVE  WorkInv'
  <2>1. ~terminating /\ done
    BY <1>9 DEF IsDone, RestInv
  <2>2. Last => Passed' = {}
    <3>1. IsFiniteSet(Passed')
      BY FS_Subset, WorkerAssumption DEF Passed
    <3>2. Last => Cardinality(Passed') = 0
      BY CountStep, TypeStep DEF CounterCounts, Last
    <3>q. QED BY <3>1, <3>2, FS_EmptySet
  <2>3. ~Last => UNCHANGED workers_are_done
    BY <1>9 DEF IsDone
  <2>4. workers_are_done' => Passed' = {}
    <3>1. w \in Passed
      BY <1>9 DEF IsDone, Passed
    <3>q. QED BY <1>9, <2>2, <2>3, <3>1 DEF IsDone, RestInv
  <2>q. QED BY <1>9, <2>1, <2>4 DEF IsDone, NothingToDo, RestInv
<1>q. QED
  BY <1>1, <1>2, <1>3, <1>4, <1>5, <1>6, <1>7, <1>8, <1>9 DEF Next, MainStep, WorkerStep

(* The initial states: everybody rests, nobody is counted.                 *)
LEMMA InitIInv == Init => IInv
<1> SUFFICES ASSUME Init PROVE IInv
  OBVIOUS
<1> USE WorkerAssumption, StartAssumption DEF Init
<1>1. TypeOK
  <2>1. starts \in 0 .. MaxStart
    OBVIOUS
  <2>q. QED BY <2>1 DEF TypeOK, Resting, Working
<1>2. CounterCounts
  <2>1. Passed = {}
    BY DEF Passed
  <2>q. QED BY <2>1, FS_EmptySet DEF CounterCounts
<1>3. RestInv /\ GivenInv /\ WorkInv
  BY DEF RestInv, GivenInv, WorkInv, Resting, Working, Passed
<1>q. QED BY <1>1, <1>2, <1>3 DEF IInv

(* The inductive invariant of the pool: the counter counts, nobody is past *)
(* the wait while the main thread rests, and a computation under way has   *)
(* its closure, is not terminated, and is not done too soon.               *)
THEOREM Invariance == Spec => []IInv
<1>1. IInv /\ [Next]_vars => IInv'
  BY CountStep, TypeStep, RestStep, GivenStep, WorkStep DEF IInv
<1>q. QED BY InitIInv, <1>1, PTL DEF Spec

(* The counter of Cilk_worker_is_done is the number of workers that passed *)
(* Cilk_worker_wait_for_invocation and did not sign off.                   *)
THEOREM Counting == Spec => []CounterCounts
<1>1. IInv => CounterCounts
  BY DEF IInv
<1>q. QED BY Invariance, <1>1, PTL

(* Cilk_start resets deques and done, and Cilk_terminate frees everything, *)
(* while no worker is near the scheduler.                                  *)
THEOREM Alone == Spec => []MainAlone
<1>1. IInv => MainAlone
  BY DEF IInv, RestInv, MainAlone, Inside
<1>q. QED BY Invariance, <1>1, PTL

(* The comment of Cilk_worker_is_done: "Assumption: terminating = false".  *)
THEOREM DoneBeforeTerminating == Spec => []NotTerminatingAtDone
<1>1. IInv => NotTerminatingAtDone
  BY DEF IInv, TypeOK, RestInv, WorkInv, NotTerminatingAtDone
<1>q. QED BY Invariance, <1>1, PTL

(* Cilk_wakeup_workers does not return before its computation is over.     *)
THEOREM Returns == Spec => ReturnsWhenDone
<1>1. IInv /\ [Next]_vars => [main = "await" /\ main' = "idle" => done /\ work = "none"]_vars
  <2> SUFFICES ASSUME IInv, Next, main = "await", main' = "idle"
               PROVE  done /\ work = "none"
    OBVIOUS
  <2>1. workers_are_done
    <3>1. CASE AwaitDone
      BY <3>1 DEF AwaitDone, MainGoto
    <3>2. CASE Start \/ WakeupWorkers \/ BroadcastFirst \/ Terminate \/ TerminateFirst
               \/ TerminateOthers \/ Join \/ MainSpurious \/ Ended
      BY <3>2 DEF Start, WakeupWorkers, BroadcastFirst, Terminate, TerminateFirst,
                  TerminateOthers, Join, MainSpurious, Ended
    <3>3. ASSUME NEW w \in Worker, WorkerStep(w) \/ Spurious(w)
          PROVE  FALSE
      BY <3>3 DEF WorkerStep, Spurious, Born, Sleep, Pass, WakeOthers, Finish,
                  LeaveScheduler, IsDone
    <3>q. QED BY <3>1, <3>2, <3>3 DEF Next, MainStep
  <2>q. QED BY <2>1 DEF IInv, WorkInv, Working
<1>q. QED BY Invariance, <1>1, PTL DEF Spec, ReturnsWhenDone

=============================================================================
