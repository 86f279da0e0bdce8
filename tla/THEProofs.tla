----------------------------- MODULE THEProofs -----------------------------
(***************************************************************************)
(* The THE protocol is correct for every number of thieves and signalers,  *)
(* every stack depth and every number of frames.  The invariant IInv of    *)
(* THE is inductive: one lemma per part of it below, one case per action,  *)
(* and the safety properties follow from it.  The last part shows that the *)
(* protocol implements WorkDeque.                                          *)
(***************************************************************************)
EXTENDS THE, TLAPS, SequenceTheorems

(* The types: H, T and E stay within the stack. *)
LEMMA TypeStep ==
    ASSUME IInv, [Next]_vars
    PROVE  TypeOK'
<1> USE StackDepthAssumption, MaxFrameAssumption DEF IInv, TypeOK, PlaceInv, BufferInv, ExceptionInv, Executing, Popping, Infinity, Actor, Frame, memory, closure, locks, history
<1>1. CASE DrainTail
  BY <1>1 DEF DrainTail
<1>2. CASE DrainSlots
  BY <1>2 DEF DrainSlots
<1>3. CASE Setup
  <2>1. 0 \in 0 .. StackDepth - 1 /\ created' \in 1 .. MaxFrame
    BY <1>3 DEF Setup
  <2>2. slots' = [slots EXCEPT ![0] = created'] /\ mem' = slots'
    BY <1>3 DEF Setup
  <2>3. slots' \in [0 .. StackDepth - 1 -> 0 .. MaxFrame]
    BY <2>1, <2>2
  <2>4. mem' \in [0 .. StackDepth - 1 -> 0 .. MaxFrame]
    BY <2>2, <2>3
  <2>5. /\ cframe' \in 0 .. MaxFrame /\ E' \in 0 .. Infinity
        /\ T' \in 0 .. StackDepth /\ Tm' \in 0 .. StackDepth
        /\ H' \in 0 .. StackDepth
    BY <1>3, <2>1 DEF Setup
  <2>6. /\ taken' \subseteq Frame /\ aborted' \in BOOLEAN
        /\ inDeque' \in BOOLEAN
    BY <1>3 DEF Setup
  <2>q. QED BY <1>3, <2>1, <2>3, <2>4, <2>5, <2>6 DEF Setup
<1>4. CASE AddBottom
  BY <1>4 DEF AddBottom
<1>5. CASE SpawnStore
  BY <1>5 DEF SpawnStore
<1>6. CASE SpawnPublish
  BY <1>6 DEF SpawnPublish, StoreStore
<1>7. CASE ReturnFast
  BY <1>7 DEF ReturnFast
<1>8. CASE PopFence
  BY <1>8 DEF PopFence, StoreLoad
<1>9. CASE PopCheck
  BY <1>9 DEF PopCheck, Exceptional
<1>10. CASE HandlerLock
  BY <1>10 DEF HandlerLock, LockOwnDeque, LockOwnClosure, StoreLoad
<1>11. CASE HandlerSteal
  BY <1>11 DEF HandlerSteal, UnlockBoth
<1>12. CASE HandlerAbort
  <2>1. /\ status' \in {status, "RETURNING", "SUSPENDED"}
        /\ inDeque' \in {inDeque, FALSE}
    BY <1>12, Zenon DEF HandlerAbort
  <2>2. inDeque' \in BOOLEAN
    BY <2>1, Zenon DEF IInv, TypeOK
  <2>q. QED BY <1>12, <2>1, <2>2 DEF HandlerAbort, UnlockBoth
<1>13. CASE HandlerOther
  BY <1>13 DEF HandlerOther, UnlockBoth
<1>14. CASE Unwind
  BY <1>14 DEF Unwind
<1>15. CASE SlowReturnLock
  BY <1>15 DEF SlowReturnLock, LockOwnDeque, LockOwnClosure, StoreLoad
<1>16. CASE SetResult
  BY <1>16 DEF SetResult, UnlockBoth
<1>17. CASE SyncLock
  BY <1>17 DEF SyncLock, LockOwnDeque, LockOwnClosure, StoreLoad
<1>18. CASE SyncSuspend
  BY <1>18 DEF SyncSuspend, UnlockBoth
<1>19. CASE SyncPass
  BY <1>19 DEF SyncPass, UnlockBoth
<1>20. CASE Scheduler
  BY <1>20 DEF Scheduler, StoreLoad
<1>21. ASSUME NEW t \in Thief, ThiefNext(t)
      PROVE  TypeOK'
  <2>1. CASE StealLockDeque(t)
    BY <2>1 DEF StealLockDeque
  <2>2. CASE StealEmpty(t)
    BY <2>2 DEF StealEmpty
  <2>3. CASE StealLockClosure(t)
    BY <2>3 DEF StealLockClosure
  <2>4. CASE StealRefuse(t)
    BY <2>4 DEF StealRefuse
  <2>5. CASE DekkerRaise(t)
    BY <2>5 DEF DekkerRaise, IncrementE
  <2>6. CASE DekkerLose(t)
    BY <2>6 DEF DekkerLose, DecrementE, NothingToSteal
  <2>7. CASE DekkerWin(t)
    <3>1. H + 1 \in 0 .. StackDepth - 1
      BY <2>7 DEF DekkerWin, NothingToSteal
    <3>2. status = "RUNNING" /\ H \in H .. Last
      BY <2>7 DEF DekkerWin, NothingToSteal, Last, HoldsDeque
    <3>3. cframe \in Frame
      BY <3>2 DEF StackInv
    <3>4. cframe' \in 0 .. MaxFrame
      BY <2>7, <3>1 DEF DekkerWin
    <3>5. taken' = taken \cup {cframe} /\ taken \subseteq Frame
      BY <2>7, Zenon DEF DekkerWin, IInv, TypeOK
    <3>6. taken' \subseteq Frame
      BY <3>3, <3>5, Zenon
    <3>7. /\ H' = H + 1 /\ E' = E /\ T' = T /\ Tm' = Tm
          /\ slots' = slots /\ mem' = mem /\ aborted' = FALSE
          /\ status' = status /\ inDeque' = inDeque /\ dlock' = dlock
          /\ pc' = pc /\ spc' = spc /\ created' = created
          /\ clock' = Nobody
      BY <2>7 DEF DekkerWin
    <3>8. tpc' \in [Thief -> {"idle", "deque", "closure", "raised",
                            "giveUp", "unlockDeque"}]
      BY <2>7 DEF DekkerWin
    <3>9. aborted' \in BOOLEAN /\ inDeque' \in BOOLEAN
      BY <3>7, Zenon DEF IInv, TypeOK
    <3>q. QED BY <3>1, <3>4, <3>6, <3>7, <3>8, <3>9
  <2>8. CASE StealUnlockClosure(t)
    BY <2>8 DEF StealUnlockClosure
  <2>9. CASE StealUnlockDeque(t)
    BY <2>9 DEF StealUnlockDeque
  <2>q. QED BY <1>21, <2>1, <2>2, <2>3, <2>4, <2>5, <2>6, <2>7, <2>8, <2>9 DEF ThiefNext
<1>22. ASSUME NEW s \in Signaler, SignalException(s)
      PROVE  TypeOK'
  <2>1. aborted' \in BOOLEAN
    BY <1>22, Zenon DEF SignalException, IInv, TypeOK
  <2>q. QED BY <1>22, <2>1 DEF SignalException
<1>23. ASSUME NEW s \in Signaler, SignalUnlock(s)
      PROVE  TypeOK'
  BY <1>23 DEF SignalUnlock
<1>24. CASE UNCHANGED vars
  BY <1>24 DEF vars
<1>q. QED BY <1>1, <1>2, <1>3, <1>4, <1>5, <1>6, <1>7, <1>8, <1>9, <1>10, <1>11, <1>12, <1>13, <1>14, <1>15, <1>16, <1>17, <1>18, <1>19, <1>20, <1>21, <1>22, <1>23, <1>24 DEF Next, VictimNext

(* A lock has one holder, the one whose program counter says so. *)
LEMMA LockStep ==
    ASSUME IInv, [Next]_vars
    PROVE  LockInv'
<1> USE ActorAssumption DEF IInv, TypeOK, LockInv, HoldsDeque, HoldsClosure, Actor, Victim, Nobody, memory, closure, locks, history
<1>1. CASE DrainTail
  BY <1>1 DEF DrainTail
<1>2. CASE DrainSlots
  BY <1>2 DEF DrainSlots
<1>3. CASE Setup
  BY <1>3 DEF Setup
<1>4. CASE AddBottom
  BY <1>4 DEF AddBottom
<1>5. CASE SpawnStore
  BY <1>5 DEF SpawnStore
<1>6. CASE SpawnPublish
  BY <1>6 DEF SpawnPublish, StoreStore
<1>7. CASE ReturnFast
  BY <1>7 DEF ReturnFast
<1>8. CASE PopFence
  BY <1>8 DEF PopFence, StoreLoad
<1>9. CASE PopCheck
  BY <1>9 DEF PopCheck, Exceptional
<1>10. CASE HandlerLock
  BY <1>10 DEF HandlerLock, LockOwnDeque, LockOwnClosure, StoreLoad
<1>11. CASE HandlerSteal
  BY <1>11 DEF HandlerSteal, UnlockBoth
<1>12. CASE HandlerAbort
  BY <1>12 DEF HandlerAbort, UnlockBoth
<1>13. CASE HandlerOther
  BY <1>13 DEF HandlerOther, UnlockBoth
<1>14. CASE Unwind
  BY <1>14 DEF Unwind
<1>15. CASE SlowReturnLock
  BY <1>15 DEF SlowReturnLock, LockOwnDeque, LockOwnClosure, StoreLoad
<1>16. CASE SetResult
  BY <1>16 DEF SetResult, UnlockBoth
<1>17. CASE SyncLock
  BY <1>17 DEF SyncLock, LockOwnDeque, LockOwnClosure, StoreLoad
<1>18. CASE SyncSuspend
  BY <1>18 DEF SyncSuspend, UnlockBoth
<1>19. CASE SyncPass
  BY <1>19 DEF SyncPass, UnlockBoth
<1>20. CASE Scheduler
  BY <1>20 DEF Scheduler, StoreLoad
<1>21. ASSUME NEW t \in Thief, ThiefNext(t)
      PROVE  LockInv'
  <2>1. CASE StealLockDeque(t)
    BY <2>1 DEF StealLockDeque
  <2>2. CASE StealEmpty(t)
    BY <2>2 DEF StealEmpty
  <2>3. CASE StealLockClosure(t)
    BY <2>3 DEF StealLockClosure
  <2>4. CASE StealRefuse(t)
    BY <2>4 DEF StealRefuse
  <2>5. CASE DekkerRaise(t)
    BY <2>5 DEF DekkerRaise, IncrementE
  <2>6. CASE DekkerLose(t)
    BY <2>6 DEF DekkerLose, DecrementE, NothingToSteal
  <2>7. CASE DekkerWin(t)
    BY <2>7 DEF DekkerWin, NothingToSteal
  <2>8. CASE StealUnlockClosure(t)
    BY <2>8 DEF StealUnlockClosure
  <2>9. CASE StealUnlockDeque(t)
    BY <2>9 DEF StealUnlockDeque
  <2>q. QED BY <1>21, <2>1, <2>2, <2>3, <2>4, <2>5, <2>6, <2>7, <2>8, <2>9 DEF ThiefNext
<1>22. ASSUME NEW s \in Signaler, SignalException(s)
      PROVE  LockInv'
  BY <1>22 DEF SignalException
<1>23. ASSUME NEW s \in Signaler, SignalUnlock(s)
      PROVE  LockInv'
  BY <1>23 DEF SignalUnlock
<1>24. CASE UNCHANGED vars
  BY <1>24 DEF vars
<1>q. QED BY <1>1, <1>2, <1>3, <1>4, <1>5, <1>6, <1>7, <1>8, <1>9, <1>10, <1>11, <1>12, <1>13, <1>14, <1>15, <1>16, <1>17, <1>18, <1>19, <1>20, <1>21, <1>22, <1>23, <1>24 DEF Next, VictimNext

(* H and T keep the distance each place of the victim's code relies on. *)
LEMMA PlaceStep ==
    ASSUME IInv, [Next]_vars
    PROVE  PlaceInv'
<1> USE StackDepthAssumption, ActorAssumption DEF IInv, TypeOK, LockInv, PlaceInv, ExceptionInv, RuleD, BufferInv, Executing, Popping, HoldsDeque, HoldsClosure, Victim, Nobody, memory, closure, locks, history
<1>1. CASE DrainTail
  BY <1>1 DEF DrainTail
<1>2. CASE DrainSlots
  BY <1>2 DEF DrainSlots
<1>3. CASE Setup
  BY <1>3 DEF Setup
<1>4. CASE AddBottom
  BY <1>4 DEF AddBottom
<1>5. CASE SpawnStore
  BY <1>5 DEF SpawnStore
<1>6. CASE SpawnPublish
  BY <1>6 DEF SpawnPublish, StoreStore
<1>7. CASE ReturnFast
  BY <1>7 DEF ReturnFast
<1>8. CASE PopFence
  BY <1>8 DEF PopFence, StoreLoad
<1>9. CASE PopCheck
  BY <1>9 DEF PopCheck, Exceptional
<1>10. CASE HandlerLock
  BY <1>10 DEF HandlerLock, LockOwnDeque, LockOwnClosure, StoreLoad
<1>11. CASE HandlerSteal
  BY <1>11 DEF HandlerSteal, UnlockBoth
<1>12. CASE HandlerAbort
  <2>1. /\ pc = "handlerClosure" /\ pc' = "unwind"
        /\ H' = H /\ T' = T /\ H < T /\ aborted /\ aborted' = aborted
    BY <1>12 DEF HandlerAbort
  <2>2. status = "RUNNING" /\ inDeque /\ T >= 1
    BY <2>1
  <2>3. \/ H + 1 < T /\ status' = "RUNNING" /\ inDeque'
        \/ H + 1 = T /\ status' = "RETURNING" /\ inDeque'
        \/ H + 1 = T /\ H = 0 /\ status' = "SUSPENDED" /\ ~inDeque'
    BY <1>12, <2>2, Zenon DEF HandlerAbort
  <2>4. \/ status' = "RUNNING" /\ inDeque' /\ H' + 1 < T' /\ aborted'
        \/ status' = "RETURNING" /\ inDeque' /\ H' + 1 >= T'
        \/ status' = "SUSPENDED" /\ ~inDeque' /\ T' = 1
    BY <2>1, <2>3
  <2>q. QED BY <2>1, <2>2, <2>4
<1>13. CASE HandlerOther
  BY <1>13 DEF HandlerOther, UnlockBoth
<1>14. CASE Unwind
  BY <1>14 DEF Unwind
<1>15. CASE SlowReturnLock
  BY <1>15 DEF SlowReturnLock, LockOwnDeque, LockOwnClosure, StoreLoad
<1>16. CASE SetResult
  BY <1>16 DEF SetResult, UnlockBoth
<1>17. CASE SyncLock
  BY <1>17 DEF SyncLock, LockOwnDeque, LockOwnClosure, StoreLoad
<1>18. CASE SyncSuspend
  BY <1>18 DEF SyncSuspend, UnlockBoth
<1>19. CASE SyncPass
  BY <1>19 DEF SyncPass, UnlockBoth
<1>20. CASE Scheduler
  BY <1>20 DEF Scheduler, StoreLoad
<1>21. ASSUME NEW t \in Thief, ThiefNext(t)
      PROVE  PlaceInv'
  <2>1. CASE StealLockDeque(t)
    BY <2>1 DEF StealLockDeque
  <2>2. CASE StealEmpty(t)
    BY <2>2 DEF StealEmpty
  <2>3. CASE StealLockClosure(t)
    BY <2>3 DEF StealLockClosure
  <2>4. CASE StealRefuse(t)
    BY <2>4 DEF StealRefuse
  <2>5. CASE DekkerRaise(t)
    BY <2>5 DEF DekkerRaise, IncrementE
  <2>6. CASE DekkerLose(t)
    BY <2>6 DEF DekkerLose, DecrementE, NothingToSteal
  <2>7. CASE DekkerWin(t)
    BY <2>7 DEF DekkerWin, NothingToSteal
  <2>8. CASE StealUnlockClosure(t)
    BY <2>8 DEF StealUnlockClosure
  <2>9. CASE StealUnlockDeque(t)
    BY <2>9 DEF StealUnlockDeque
  <2>q. QED BY <1>21, <2>1, <2>2, <2>3, <2>4, <2>5, <2>6, <2>7, <2>8, <2>9 DEF ThiefNext
<1>22. ASSUME NEW s \in Signaler, SignalException(s)
      PROVE  PlaceInv'
  BY <1>22 DEF SignalException
<1>23. ASSUME NEW s \in Signaler, SignalUnlock(s)
      PROVE  PlaceInv'
  BY <1>23 DEF SignalUnlock
<1>24. CASE UNCHANGED vars
  BY <1>24 DEF vars
<1>q. QED BY <1>1, <1>2, <1>3, <1>4, <1>5, <1>6, <1>7, <1>8, <1>9, <1>10, <1>11, <1>12, <1>13, <1>14, <1>15, <1>16, <1>17, <1>18, <1>19, <1>20, <1>21, <1>22, <1>23, <1>24 DEF Next, VictimNext

(* Memory never shows a thief a T or a slot it must not act upon. *)
LEMMA BufferStep ==
    ASSUME IInv, [Next]_vars
    PROVE  BufferInv'
<1> USE StackDepthAssumption, ActorAssumption DEF IInv, TypeOK, PlaceInv, BufferInv, Executing, Popping, HoldsDeque, HoldsClosure, memory, closure, locks, history
<1>1. CASE DrainTail
  BY <1>1 DEF DrainTail
<1>2. CASE DrainSlots
  BY <1>2 DEF DrainSlots
<1>3. CASE Setup
  BY <1>3 DEF Setup
<1>4. CASE AddBottom
  BY <1>4 DEF AddBottom
<1>5. CASE SpawnStore
  BY <1>5 DEF SpawnStore
<1>6. CASE SpawnPublish
  BY <1>6 DEF SpawnPublish, StoreStore
<1>7. CASE ReturnFast
  BY <1>7 DEF ReturnFast
<1>8. CASE PopFence
  BY <1>8 DEF PopFence, StoreLoad
<1>9. CASE PopCheck
  BY <1>9 DEF PopCheck, Exceptional
<1>10. CASE HandlerLock
  BY <1>10 DEF HandlerLock, LockOwnDeque, LockOwnClosure, StoreLoad
<1>11. CASE HandlerSteal
  BY <1>11 DEF HandlerSteal, UnlockBoth
<1>12. CASE HandlerAbort
  BY <1>12 DEF HandlerAbort, UnlockBoth
<1>13. CASE HandlerOther
  BY <1>13 DEF HandlerOther, UnlockBoth
<1>14. CASE Unwind
  BY <1>14 DEF Unwind
<1>15. CASE SlowReturnLock
  BY <1>15 DEF SlowReturnLock, LockOwnDeque, LockOwnClosure, StoreLoad
<1>16. CASE SetResult
  BY <1>16 DEF SetResult, UnlockBoth
<1>17. CASE SyncLock
  BY <1>17 DEF SyncLock, LockOwnDeque, LockOwnClosure, StoreLoad
<1>18. CASE SyncSuspend
  BY <1>18 DEF SyncSuspend, UnlockBoth
<1>19. CASE SyncPass
  BY <1>19 DEF SyncPass, UnlockBoth
<1>20. CASE Scheduler
  BY <1>20 DEF Scheduler, StoreLoad
<1>21. ASSUME NEW t \in Thief, ThiefNext(t)
      PROVE  BufferInv'
  <2>1. CASE StealLockDeque(t)
    BY <2>1 DEF StealLockDeque
  <2>2. CASE StealEmpty(t)
    BY <2>2 DEF StealEmpty
  <2>3. CASE StealLockClosure(t)
    BY <2>3 DEF StealLockClosure
  <2>4. CASE StealRefuse(t)
    BY <2>4 DEF StealRefuse
  <2>5. CASE DekkerRaise(t)
    BY <2>5 DEF DekkerRaise, IncrementE
  <2>6. CASE DekkerLose(t)
    BY <2>6 DEF DekkerLose, DecrementE, NothingToSteal
  <2>7. CASE DekkerWin(t)
    BY <2>7 DEF DekkerWin, NothingToSteal
  <2>8. CASE StealUnlockClosure(t)
    BY <2>8 DEF StealUnlockClosure
  <2>9. CASE StealUnlockDeque(t)
    BY <2>9 DEF StealUnlockDeque
  <2>q. QED BY <1>21, <2>1, <2>2, <2>3, <2>4, <2>5, <2>6, <2>7, <2>8, <2>9 DEF ThiefNext
<1>22. ASSUME NEW s \in Signaler, SignalException(s)
      PROVE  BufferInv'
  BY <1>22 DEF SignalException
<1>23. ASSUME NEW s \in Signaler, SignalUnlock(s)
      PROVE  BufferInv'
  BY <1>23 DEF SignalUnlock
<1>24. CASE UNCHANGED vars
  BY <1>24 DEF vars
<1>q. QED BY <1>1, <1>2, <1>3, <1>4, <1>5, <1>6, <1>7, <1>8, <1>9, <1>10, <1>11, <1>12, <1>13, <1>14, <1>15, <1>16, <1>17, <1>18, <1>19, <1>20, <1>21, <1>22, <1>23, <1>24 DEF Next, VictimNext

(* E stays above H, and one more while a thief announces itself. *)
LEMMA ExceptionStep ==
    ASSUME IInv, [Next]_vars
    PROVE  ExceptionInv'
<1> USE StackDepthAssumption, ActorAssumption DEF IInv, TypeOK, LockInv, PlaceInv, ExceptionInv, RuleD, Infinity, Executing, Popping, HoldsDeque, HoldsClosure, Victim, Nobody, memory, closure, locks, history
<1>1. CASE DrainTail
  BY <1>1 DEF DrainTail
<1>2. CASE DrainSlots
  BY <1>2 DEF DrainSlots
<1>3. CASE Setup
  BY <1>3 DEF Setup
<1>4. CASE AddBottom
  BY <1>4 DEF AddBottom
<1>5. CASE SpawnStore
  BY <1>5 DEF SpawnStore
<1>6. CASE SpawnPublish
  BY <1>6 DEF SpawnPublish, StoreStore
<1>7. CASE ReturnFast
  BY <1>7 DEF ReturnFast
<1>8. CASE PopFence
  BY <1>8 DEF PopFence, StoreLoad
<1>9. CASE PopCheck
  BY <1>9 DEF PopCheck, Exceptional
<1>10. CASE HandlerLock
  BY <1>10 DEF HandlerLock, LockOwnDeque, LockOwnClosure, StoreLoad
<1>11. CASE HandlerSteal
  BY <1>11 DEF HandlerSteal, UnlockBoth
<1>12. CASE HandlerAbort
  BY <1>12 DEF HandlerAbort, UnlockBoth
<1>13. CASE HandlerOther
  BY <1>13 DEF HandlerOther, UnlockBoth
<1>14. CASE Unwind
  BY <1>14 DEF Unwind
<1>15. CASE SlowReturnLock
  BY <1>15 DEF SlowReturnLock, LockOwnDeque, LockOwnClosure, StoreLoad
<1>16. CASE SetResult
  BY <1>16 DEF SetResult, UnlockBoth
<1>17. CASE SyncLock
  BY <1>17 DEF SyncLock, LockOwnDeque, LockOwnClosure, StoreLoad
<1>18. CASE SyncSuspend
  BY <1>18 DEF SyncSuspend, UnlockBoth
<1>19. CASE SyncPass
  BY <1>19 DEF SyncPass, UnlockBoth
<1>20. CASE Scheduler
  BY <1>20 DEF Scheduler, StoreLoad
<1>21. ASSUME NEW t \in Thief, ThiefNext(t)
      PROVE  ExceptionInv'
  <2>1. CASE StealLockDeque(t)
    BY <2>1 DEF StealLockDeque
  <2>2. CASE StealEmpty(t)
    BY <2>2 DEF StealEmpty
  <2>3. CASE StealLockClosure(t)
    BY <2>3 DEF StealLockClosure
  <2>4. CASE StealRefuse(t)
    BY <2>4 DEF StealRefuse
  <2>5. CASE DekkerRaise(t)
    BY <2>5 DEF DekkerRaise, IncrementE
  <2>6. CASE DekkerLose(t)
    BY <2>6 DEF DekkerLose, DecrementE, NothingToSteal
  <2>7. CASE DekkerWin(t)
    BY <2>7 DEF DekkerWin, NothingToSteal
  <2>8. CASE StealUnlockClosure(t)
    BY <2>8 DEF StealUnlockClosure
  <2>9. CASE StealUnlockDeque(t)
    BY <2>9 DEF StealUnlockDeque
  <2>q. QED BY <1>21, <2>1, <2>2, <2>3, <2>4, <2>5, <2>6, <2>7, <2>8, <2>9 DEF ThiefNext
<1>22. ASSUME NEW s \in Signaler, SignalException(s)
      PROVE  ExceptionInv'
  BY <1>22 DEF SignalException
<1>23. ASSUME NEW s \in Signaler, SignalUnlock(s)
      PROVE  ExceptionInv'
  BY <1>23 DEF SignalUnlock
<1>24. CASE UNCHANGED vars
  BY <1>24 DEF vars
<1>q. QED BY <1>1, <1>2, <1>3, <1>4, <1>5, <1>6, <1>7, <1>8, <1>9, <1>10, <1>11, <1>12, <1>13, <1>14, <1>15, <1>16, <1>17, <1>18, <1>19, <1>20, <1>21, <1>22, <1>23, <1>24 DEF Next, VictimNext

(* The frames on the stack are in the order of their creation. *)
LEMMA StackStep ==
    ASSUME IInv, [Next]_vars
    PROVE  StackInv'
<1> USE StackDepthAssumption, MaxFrameAssumption DEF IInv, TypeOK, PlaceInv, StackInv, BufferInv, ExceptionInv, Executing, Popping, Last, HoldsDeque, HoldsClosure, Frame, memory, closure, locks, history
<1>1. CASE DrainTail
  BY <1>1 DEF DrainTail
<1>2. CASE DrainSlots
  BY <1>2 DEF DrainSlots
<1>3. CASE Setup
  BY <1>3 DEF Setup
<1>4. CASE AddBottom
  BY <1>4 DEF AddBottom
<1>5. CASE SpawnStore
  <2>1. /\ created' = created + 1 /\ T' = T /\ H' = H /\ pc' = "spawn"
        /\ taken' = taken /\ cframe' = cframe /\ T < StackDepth /\ H < T
        /\ Last = T - 1 /\ Last' = T /\ status = "RUNNING"
        /\ slots' = [slots EXCEPT ![T] = created + 1]
    BY <1>5 DEF SpawnStore
  <2>2. slots'[T] = created + 1
    BY <2>1
  <2>3. \A i \in 0 .. StackDepth - 1 : i # T => slots'[i] = slots[i]
    BY <2>1
  <2>4. /\ \A i \in 0 .. StackDepth - 1 : slots'[i] <= created'
        /\ \A f \in taken' : f <= created'
    BY <2>1, <2>2, <2>3
  <2>5. \A i \in H .. T : i \in 0 .. StackDepth - 1 /\ (i = T \/ i \in H .. T - 1)
    BY <2>1
  <2>6. cframe' = slots'[H'] /\ \A f \in taken' : f < cframe'
    BY <2>1, <2>3
  <2>7. ASSUME NEW i \in H .. T PROVE slots'[i] >= 1
    BY <2>1, <2>2, <2>3, <2>5
  <2>8. ASSUME NEW i \in H .. T, NEW j \in H .. T, i < j
        PROVE  slots'[i] < slots'[j]
    <3>1. i \in H .. T - 1 /\ slots'[i] = slots[i] /\ slots[i] <= created
      BY <2>1, <2>3, <2>5, <2>8
    <3>2. CASE j = T
      BY <2>2, <3>1, <3>2
    <3>3. CASE j \in H .. T - 1
      BY <2>1, <2>3, <2>5, <2>8, <3>1, <3>3
    <3>q. QED
      BY <2>5, <3>2, <3>3
  <2>9. H' .. Last' = H .. T
    BY <2>1
  <2>q. QED
    BY <2>4, <2>6, <2>7, <2>8, <2>9 DEF StackInv
<1>6. CASE SpawnPublish
  BY <1>6 DEF SpawnPublish, StoreStore
<1>7. CASE ReturnFast
  BY <1>7 DEF ReturnFast
<1>8. CASE PopFence
  BY <1>8 DEF PopFence, StoreLoad
<1>9. CASE PopCheck
  BY <1>9 DEF PopCheck, Exceptional
<1>10. CASE HandlerLock
  BY <1>10 DEF HandlerLock, LockOwnDeque, LockOwnClosure, StoreLoad
<1>11. CASE HandlerSteal
  BY <1>11 DEF HandlerSteal, UnlockBoth
<1>12. CASE HandlerAbort
  BY <1>12 DEF HandlerAbort, UnlockBoth
<1>13. CASE HandlerOther
  BY <1>13 DEF HandlerOther, UnlockBoth
<1>14. CASE Unwind
  BY <1>14 DEF Unwind
<1>15. CASE SlowReturnLock
  BY <1>15 DEF SlowReturnLock, LockOwnDeque, LockOwnClosure, StoreLoad
<1>16. CASE SetResult
  BY <1>16 DEF SetResult, UnlockBoth
<1>17. CASE SyncLock
  BY <1>17 DEF SyncLock, LockOwnDeque, LockOwnClosure, StoreLoad
<1>18. CASE SyncSuspend
  BY <1>18 DEF SyncSuspend, UnlockBoth
<1>19. CASE SyncPass
  BY <1>19 DEF SyncPass, UnlockBoth
<1>20. CASE Scheduler
  BY <1>20 DEF Scheduler, StoreLoad
<1>21. ASSUME NEW t \in Thief, ThiefNext(t)
      PROVE  StackInv'
  <2>1. CASE StealLockDeque(t)
    BY <2>1 DEF StealLockDeque
  <2>2. CASE StealEmpty(t)
    BY <2>2 DEF StealEmpty
  <2>3. CASE StealLockClosure(t)
    BY <2>3 DEF StealLockClosure
  <2>4. CASE StealRefuse(t)
    BY <2>4 DEF StealRefuse
  <2>5. CASE DekkerRaise(t)
    BY <2>5 DEF DekkerRaise, IncrementE
  <2>6. CASE DekkerLose(t)
    BY <2>6 DEF DekkerLose, DecrementE, NothingToSteal
  <2>7. CASE DekkerWin(t)
    <3>1. /\ tpc[t] = "raised" /\ H + 1 < Tm /\ taken' = taken \cup {cframe}
          /\ H' = H + 1 /\ cframe' = mem[H + 1] /\ slots' = slots /\ pc' = pc
          /\ T' = T /\ created' = created /\ status' = status
      BY <2>7 DEF DekkerWin, NothingToSteal
    <3>2. status = "RUNNING" /\ Last' = Last /\ H + 1 <= Last
      BY <3>1
    <3>3. H + 1 \in 0 .. StackDepth - 1 /\ (H + 1 = T => pc # "spawn")
      BY <3>1, <3>2
    <3>4. mem[H + 1] = slots[H + 1]
      BY <3>3
    <3>5. cframe = slots[H] /\ slots[H] < slots[H + 1]
      BY <3>2
    <3>6. \A f \in taken' : f <= created' /\ f < cframe'
      <4>1. \A f \in taken : f < cframe /\ f \in Int
        BY <3>2
      <4>2. cframe \in Int /\ slots[H + 1] \in Int /\ slots[H + 1] <= created
        BY <3>3
      <4>q. QED
        BY <3>1, <3>4, <3>5, <4>1, <4>2
    <3>7. \A i \in H' .. Last' : i \in H .. Last
      BY <3>1, <3>2
    <3>q. QED
      BY <3>1, <3>2, <3>4, <3>6, <3>7 DEF StackInv
  <2>8. CASE StealUnlockClosure(t)
    BY <2>8 DEF StealUnlockClosure
  <2>9. CASE StealUnlockDeque(t)
    BY <2>9 DEF StealUnlockDeque
  <2>q. QED BY <1>21, <2>1, <2>2, <2>3, <2>4, <2>5, <2>6, <2>7, <2>8, <2>9 DEF ThiefNext
<1>22. ASSUME NEW s \in Signaler, SignalException(s)
      PROVE  StackInv'
  BY <1>22 DEF SignalException
<1>23. ASSUME NEW s \in Signaler, SignalUnlock(s)
      PROVE  StackInv'
  BY <1>23 DEF SignalUnlock
<1>24. CASE UNCHANGED vars
  BY <1>24 DEF vars
<1>q. QED BY <1>1, <1>2, <1>3, <1>4, <1>5, <1>6, <1>7, <1>8, <1>9, <1>10, <1>11, <1>12, <1>13, <1>14, <1>15, <1>16, <1>17, <1>18, <1>19, <1>20, <1>21, <1>22, <1>23, <1>24 DEF Next, VictimNext

(* Before the scheduler starts, nothing is running.                        *)
LEMMA InitIInv == Init => IInv
<1> USE StackDepthAssumption, MaxFrameAssumption, ActorAssumption
      DEF Init, TypeOK, Infinity, Actor, Frame, Victim, Nobody
<1>1. Init => TypeOK
  <2> SUFFICES ASSUME Init PROVE TypeOK
    OBVIOUS
  <2>1. /\ slots \in [0 .. StackDepth - 1 -> 0 .. MaxFrame]
        /\ mem \in [0 .. StackDepth - 1 -> 0 .. MaxFrame]
    BY DEF Init
  <2>2. tpc \in [Thief -> {"idle", "deque", "closure", "raised", "giveUp",
                          "unlockDeque"}]
    BY DEF Init
  <2>3. spc \in [Signaler -> {"idle", "unlock"}] /\ taken \subseteq Frame
    BY DEF Init
  <2>4. aborted \in BOOLEAN /\ inDeque \in BOOLEAN
    BY DEF Init
  <2>5. /\ T \in 0 .. StackDepth /\ Tm \in 0 .. StackDepth
        /\ H \in 0 .. StackDepth /\ E \in 0 .. Infinity
        /\ cframe \in 0 .. MaxFrame /\ created \in 0 .. MaxFrame
    BY DEF Init
  <2>6. /\ dlock \in Thief \cup {Victim, Nobody} /\ clock \in Actor
        /\ pc = "idle" /\ status = "NONE"
    BY DEF Init
  <2>q. QED BY <2>1, <2>2, <2>3, <2>4, <2>5, <2>6, Zenon DEF TypeOK
<1>2. Init => LockInv
  BY DEF LockInv, HoldsDeque, HoldsClosure
<1>3. Init => PlaceInv /\ BufferInv /\ ExceptionInv
  BY DEF PlaceInv, BufferInv, ExceptionInv, RuleD, Executing, Popping,
         HoldsDeque
<1>4. Init => StackInv
  BY DEF StackInv
<1>q. QED BY <1>1, <1>2, <1>3, <1>4 DEF IInv

(* The inductive invariant holds of every execution.                       *)
THEOREM Invariance == Spec => []IInv
<1>1. Init => IInv
  BY InitIInv
<1>2. IInv /\ [Next]_vars => IInv'
  BY TypeStep, LockStep, PlaceStep, BufferStep, ExceptionStep, StackStep
     DEF IInv
<1>q. QED BY <1>1, <1>2, PTL DEF Spec

(* Every variable keeps its type; in particular E, whatever thieves and    *)
(* signalers do to it, stays between the bottom of the stack and Infinity. *)
THEOREM TypeCorrect == Spec => []TypeOK
<1>1. IInv => TypeOK
  BY DEF IInv
<1>q. QED BY <1>1, Invariance, PTL

(* The victim never runs a frame a thief has taken (PopCheck, DekkerWin).  *)
THEOREM Exclusion == Spec => []NoFrameRunTwice
<1>1. IInv => NoFrameRunTwice
  <2> SUFFICES ASSUME IInv, Executing
               PROVE  H < T /\ slots[T - 1] \notin taken /\ status = "RUNNING"
    BY DEF NoFrameRunTwice
  <2>1. H < T /\ status = "RUNNING"
    BY DEF IInv, PlaceInv
  <2>2. T - 1 \in H .. Last /\ H \in H .. Last
    BY <2>1 DEF IInv, TypeOK, Last
  <2>3. H = T - 1 \/ slots[H] < slots[T - 1]
    BY <2>1, <2>2 DEF IInv, StackInv, TypeOK
  <2>4. ASSUME NEW f \in taken PROVE f # slots[T - 1]
    <3>1. f < slots[H]
      BY <2>1 DEF IInv, StackInv
    <3>2. slots[T - 1] \in Int /\ slots[H] \in Int /\ f \in Int
      <4>1. H \in 0 .. StackDepth - 1 /\ T - 1 \in 0 .. StackDepth - 1
        BY <2>1, StackDepthAssumption DEF IInv, TypeOK
      <4>q. QED BY <4>1, <2>4, MaxFrameAssumption DEF IInv, TypeOK, Frame
    <3>q. QED BY <3>1, <3>2, <2>3
  <2>q. QED BY <2>1, <2>4
<1>q. QED BY <1>1, Invariance, PTL

(* The comment on exceptions in sched.c: E is at or above H as long as the *)
(* closure runs, so an owner whose parent frame is gone finds out.         *)
THEOREM ExceptionsSeen == Spec => []ExceptionAboveHead
<1>1. IInv => ExceptionAboveHead
  BY DEF IInv, ExceptionInv, ExceptionAboveHead
<1>q. QED BY <1>1, Invariance, PTL

(* The frame promote_child reads from the victim's stack is the frame the *)
(* victim put there.                                                      *)
THEOREM PromotionReadsCurrentFrame == Spec => []PromotedFrameIsCurrent
<1>1. IInv => PromotedFrameIsCurrent
  BY DEF IInv, StackInv, PromotedFrameIsCurrent
<1>q. QED BY <1>1, Invariance, PTL

(* Rule D of PROTOCOLS: the closure a thief works on stays in the deque.   *)
THEOREM ClosureStaysPut == Spec => []RuleD
<1>1. IInv => RuleD
  BY DEF IInv, ExceptionInv
<1>q. QED BY <1>1, Invariance, PTL

(* A signalled exception reaches the handler: thieves cannot erase it.     *)
THEOREM SignalsKept == Spec => SignalNotLost
<1>1. IInv /\ [Next]_vars
        => [E = Infinity /\ E' # Infinity => pc \in {"handlerClosure", "idle"}]_vars
  BY StackDepthAssumption
     DEF IInv, TypeOK, Infinity, IncrementE, DecrementE,
         Next, VictimNext, ThiefNext, vars, memory, closure, locks,
         history, DrainTail, DrainSlots, Setup, AddBottom, SpawnStore,
         SpawnPublish, ReturnFast, PopFence, PopCheck, HandlerLock,
         HandlerSteal, HandlerAbort, HandlerOther, Unwind, SlowReturnLock,
         SetResult, SyncLock, SyncSuspend, SyncPass, Scheduler,
         StealLockDeque, StealEmpty, StealLockClosure, StealRefuse,
         DekkerRaise, DekkerLose, DekkerWin, StealUnlockClosure,
         StealUnlockDeque, SignalException, SignalUnlock, LockOwnDeque,
         LockOwnClosure
<1>q. QED BY <1>1, Invariance, PTL DEF Spec, SignalNotLost

(* A frame is taken at most once, and not while its owner is in it.        *)
THEOREM EachFrameTakenOnce == Spec => TakenOnce
<1>1. ASSUME IInv, NEW t \in Thief, DekkerWin(t)
      PROVE  cframe \notin taken /\ (Executing => cframe # slots[T - 1])
  <2>1. status = "RUNNING" /\ cframe = slots[H] /\ H + 1 < Tm
    BY <1>1 DEF DekkerWin, NothingToSteal, IInv, TypeOK, ExceptionInv, StackInv
  <2>2. cframe \notin taken
    <3>1. \A f \in taken : f < cframe
      BY <1>1, <2>1 DEF IInv, StackInv
    <3>2. cframe \in Int
      BY <1>1, MaxFrameAssumption DEF IInv, TypeOK
    <3>q. QED BY <3>1, <3>2
  <2>3. ASSUME Executing PROVE cframe # slots[T - 1]
    <3>1. H \in Int /\ T \in Int /\ Tm \in Int /\ H + 1 < T
      BY <1>1, <2>1, <2>3, StackDepthAssumption DEF IInv, TypeOK, BufferInv
    <3>2. H \in H .. Last /\ T - 1 \in H .. Last
      BY <3>1 DEF Last
    <3>3. slots[H] < slots[T - 1]
      BY <1>1, <2>1, <3>1, <3>2 DEF IInv, StackInv
    <3>4. cframe \in Int
      BY <1>1, MaxFrameAssumption DEF IInv, TypeOK
    <3>q. QED BY <2>1, <3>3, <3>4
  <2>q. QED BY <2>2, <2>3
<1>2. IInv /\ [Next]_vars
        => [taken' # taken => /\ cframe \notin taken
                              /\ Executing => cframe # slots[T - 1]]_vars
  <2> SUFFICES ASSUME IInv, [Next]_vars, taken' # taken
               PROVE  /\ cframe \notin taken
                      /\ Executing => cframe # slots[T - 1]
    OBVIOUS
  <2>1. \E t \in Thief : DekkerWin(t)
    BY DEF Next, VictimNext, ThiefNext, vars, memory, closure, locks,
           history, DrainTail, DrainSlots, Setup, AddBottom, SpawnStore,
           SpawnPublish, ReturnFast, PopFence, PopCheck, HandlerLock,
           HandlerSteal, HandlerAbort, HandlerOther, Unwind,
           SlowReturnLock, SetResult, SyncLock, SyncSuspend, SyncPass,
           Scheduler, StealLockDeque, StealEmpty, StealLockClosure,
           StealRefuse, DekkerRaise, DekkerLose, DekkerWin,
           StealUnlockClosure, StealUnlockDeque, SignalException,
           SignalUnlock, LockOwnDeque, LockOwnClosure
  <2>q. QED BY <1>1, <2>1
<1>q. QED BY <1>2, Invariance, PTL DEF Spec, TakenOnce
-----------------------------------------------------------------------------
(***************************************************************************)
(* The refinement of WorkDeque.  A stretch of the stack as a sequence, and *)
(* what moving either end of it does to the sequence.                      *)
(***************************************************************************)
Slice(s, h, t) == [i \in 1 .. t - h |-> s[h + i - 1]]

Numbers(s, h, t) == \A i \in h .. t - 1 : s[i] \in Int

IsSlice(q, s, h, t) ==
    /\ q \in Seq(Int) /\ Len(q) = t - h
    /\ \A i \in 1 .. t - h : q[i] = s[h + i - 1]

(* A slice is a sequence of numbers, empty if its ends meet. *)
LEMMA SliceIs ==
    ASSUME NEW s, NEW h \in Nat, NEW t \in Nat, t >= h, Numbers(s, h, t)
    PROVE  IsSlice(Slice(s, h, t), s, h, t)
<1>1. Slice(s, h, t) \in [1 .. t - h -> Int]
  BY DEF Slice, Numbers
<1>2. Slice(s, h, t) \in Seq(Int)
  BY <1>1, SeqDef
<1>3. DOMAIN Slice(s, h, t) = 1 .. t - h
  BY DEF Slice
<1>4. Len(Slice(s, h, t)) = t - h
  BY <1>2, <1>3, LenProperties
<1>5. \A i \in 1 .. t - h : Slice(s, h, t)[i] = s[h + i - 1]
  BY DEF Slice
<1>q. QED
  BY <1>2, <1>4, <1>5 DEF IsSlice

LEMMA SliceEmpty ==
    ASSUME NEW s, NEW h \in Nat, NEW t \in Nat, t >= h, Numbers(s, h, t)
    PROVE  Slice(s, h, t) = <<>> <=> t = h
<1>1. IsSlice(Slice(s, h, t), s, h, t)
  BY SliceIs
<1>q. QED
  BY <1>1, EmptySeq DEF IsSlice

(* What a slice contains. *)
LEMMA SliceRange ==
    ASSUME NEW s, NEW h \in Nat, NEW t \in Nat, t >= h, Numbers(s, h, t)
    PROVE  Deque!Range(Slice(s, h, t)) = {s[i] : i \in h .. t - 1}
<1> DEFINE q == Slice(s, h, t)
<1>1. Len(q) = t - h /\ \A i \in 1 .. t - h : q[i] = s[h + i - 1]
  <2>1. IsSlice(q, s, h, t)
    BY SliceIs
  <2>q. QED
    BY <2>1 DEF IsSlice
<1> HIDE DEF q
<1>2. ASSUME NEW e \in Deque!Range(q) PROVE e \in {s[i] : i \in h .. t - 1}
  <2>1. PICK i \in 1 .. t - h : e = q[i]
    BY <1>1, <1>2 DEF Deque!Range
  <2>2. h + i - 1 \in h .. t - 1
    OBVIOUS
  <2>q. QED
    BY <1>1, <2>1, <2>2
<1>3. ASSUME NEW i \in h .. t - 1 PROVE s[i] \in Deque!Range(q)
  <2>1. i - h + 1 \in 1 .. t - h /\ h + (i - h + 1) - 1 = i
    OBVIOUS
  <2>2. s[i] = q[i - h + 1] /\ i - h + 1 \in 1 .. Len(q)
    BY <1>1, <2>1
  <2>q. QED
    BY <2>2 DEF Deque!Range
<1>q. QED
  BY <1>2, <1>3 DEF q

(* The last element goes. *)
LEMMA SliceFront ==
    ASSUME NEW s, NEW h \in Nat, NEW t \in Nat, t > h, Numbers(s, h, t)
    PROVE  /\ Slice(s, h, t - 1) = SubSeq(Slice(s, h, t), 1, Len(Slice(s, h, t)) - 1)
           /\ Slice(s, h, t)[Len(Slice(s, h, t))] = s[t - 1]
<1> DEFINE q == Slice(s, h, t)
           p == Slice(s, h, t - 1)
<1>1. q \in Seq(Int) /\ Len(q) = t - h /\ \A i \in 1 .. t - h : q[i] = s[h + i - 1]
  <2>1. IsSlice(q, s, h, t)
    BY SliceIs
  <2>q. QED
    BY <2>1 DEF IsSlice
<1>2. p \in Seq(Int) /\ Len(p) = t - h - 1 /\ \A i \in 1 .. t - h - 1 : p[i] = s[h + i - 1]
  <2>1. t - 1 \in Nat /\ t - 1 >= h /\ Numbers(s, h, t - 1)
    BY DEF Numbers
  <2>2. IsSlice(p, s, h, t - 1)
    BY <2>1, SliceIs
  <2>q. QED
    BY <2>2 DEF IsSlice
<1> HIDE DEF q, p
<1>3. Len(q) - 1 \in Int /\ \A i \in 1 .. Len(q) - 1 : q[i] \in Int
  BY <1>1, LenProperties
<1> DEFINE r == SubSeq(q, 1, Len(q) - 1)
<1>4. r \in Seq(Int) /\ Len(r) = t - h - 1
  BY <1>1, <1>3, SubSeqProperties
<1>5. \A i \in 1 .. t - h - 1 : r[i] = q[i]
  BY <1>1, <1>3, SubSeqProperties
<1> HIDE DEF r
<1>6. ASSUME NEW i \in 1 .. Len(p) PROVE p[i] = r[i]
  <2>1. i \in 1 .. t - h - 1 /\ i \in 1 .. t - h
    BY <1>2, <1>6
  <2>2. p[i] = s[h + i - 1]
    BY <1>2, <2>1
  <2>3. r[i] = q[i] /\ q[i] = s[h + i - 1]
    BY <1>1, <1>5, <2>1
  <2>q. QED
    BY <2>2, <2>3
<1>7. p = r
  BY <1>2, <1>4, <1>6, SeqEqual
<1>8. q[Len(q)] = s[t - 1]
  <2>1. t - h \in 1 .. t - h /\ h + (t - h) - 1 = t - 1
    OBVIOUS
  <2>2. q[t - h] = s[h + (t - h) - 1]
    BY <1>1, <2>1
  <2>q. QED
    BY <1>1, <2>1, <2>2
<1>q. QED
  BY <1>7, <1>8 DEF q, p, r

(* The first element goes. *)
LEMMA SliceTail ==
    ASSUME NEW s, NEW h \in Nat, NEW t \in Nat, t > h, Numbers(s, h, t)
    PROVE  Slice(s, h + 1, t) = Tail(Slice(s, h, t)) /\ Head(Slice(s, h, t)) = s[h]
<1> DEFINE q == Slice(s, h, t)
           p == Slice(s, h + 1, t)
<1>1. q \in Seq(Int) /\ Len(q) = t - h /\ \A i \in 1 .. t - h : q[i] = s[h + i - 1]
  <2>1. IsSlice(q, s, h, t)
    BY SliceIs
  <2>q. QED
    BY <2>1 DEF IsSlice
<1>2. p \in Seq(Int) /\ Len(p) = t - h - 1 /\ \A i \in 1 .. t - h - 1 : p[i] = s[h + i]
  <2>1. h + 1 \in Nat /\ t >= h + 1 /\ Numbers(s, h + 1, t)
    BY DEF Numbers
  <2>2. IsSlice(p, s, h + 1, t)
    BY <2>1, SliceIs
  <2>q. QED
    BY <2>2 DEF IsSlice
<1>3. q # <<>>
  BY <1>1, EmptySeq
<1> HIDE DEF q, p
<1> DEFINE r == Tail(q)
<1>4. r \in Seq(Int) /\ Len(r) = t - h - 1
  BY <1>1, <1>3, HeadTailProperties
<1>5. \A i \in 1 .. t - h - 1 : r[i] = q[i + 1]
  BY <1>1, <1>3, HeadTailProperties
<1> HIDE DEF r
<1>6. ASSUME NEW i \in 1 .. Len(p) PROVE p[i] = r[i]
  <2>1. i \in 1 .. t - h - 1 /\ i + 1 \in 1 .. t - h /\ h + (i + 1) - 1 = h + i
    BY <1>2, <1>6
  <2>2. q[i + 1] = s[h + (i + 1) - 1]
    BY <1>1, <2>1
  <2>q. QED
    BY <1>2, <1>5, <2>1, <2>2
<1>7. p = r
  BY <1>2, <1>4, <1>6, SeqEqual
<1>8. Head(q) = s[h]
  BY <1>1, <1>3
<1>q. QED
  BY <1>7, <1>8 DEF q, p, r

(* An element comes. *)
LEMMA SliceAppend ==
    ASSUME NEW s, NEW h \in Nat, NEW t \in Nat, t >= h, Numbers(s, h, t + 1)
    PROVE  Slice(s, h, t + 1) = Append(Slice(s, h, t), s[t])
<1> DEFINE q == Slice(s, h, t)
           p == Slice(s, h, t + 1)
<1>1. q \in Seq(Int) /\ Len(q) = t - h /\ \A i \in 1 .. t - h : q[i] = s[h + i - 1]
  <2>1. Numbers(s, h, t)
    BY DEF Numbers
  <2>2. IsSlice(q, s, h, t)
    BY <2>1, SliceIs
  <2>q. QED
    BY <2>2 DEF IsSlice
<1>2. p \in Seq(Int) /\ Len(p) = t - h + 1 /\ \A i \in 1 .. t - h + 1 : p[i] = s[h + i - 1]
  <2>1. t + 1 \in Nat /\ t + 1 >= h
    OBVIOUS
  <2>2. IsSlice(p, s, h, t + 1)
    BY <2>1, SliceIs
  <2>q. QED
    BY <2>2 DEF IsSlice
<1> HIDE DEF q, p
<1>3. s[t] \in Int
  BY DEF Numbers
<1> DEFINE r == Append(q, s[t])
<1>4. r \in Seq(Int) /\ Len(r) = t - h + 1
  BY <1>1, <1>3, AppendProperties
<1>5. (\A i \in 1 .. t - h : r[i] = q[i]) /\ r[t - h + 1] = s[t]
  BY <1>1, <1>3, AppendProperties
<1> HIDE DEF r
<1>6. ASSUME NEW i \in 1 .. Len(p) PROVE p[i] = r[i]
  <2>1. i \in 1 .. t - h + 1 /\ (i \in 1 .. t - h \/ i = t - h + 1)
    BY <1>2, <1>6
  <2>2. p[i] = s[h + i - 1]
    BY <1>2, <2>1
  <2>3. CASE i \in 1 .. t - h
    BY <1>1, <1>5, <2>2, <2>3
  <2>4. CASE i = t - h + 1
    <3>1. h + i - 1 = t
      BY <2>4
    <3>q. QED
      BY <1>5, <2>2, <2>4, <3>1
  <2>q. QED
    BY <2>1, <2>3, <2>4
<1>7. p = r
  BY <1>2, <1>4, <1>6, SeqEqual
<1>q. QED
  BY <1>7 DEF q, p, r

(* Between PublishStore and the fence, the slot above T holds the newest  *)
(* frame.                                                                 *)
NewestInv == pc = "spawn" => slots[T] = created

LEMMA NewestStep ==
    ASSUME IInv, NewestInv, [Next]_vars
    PROVE  NewestInv'
<1> USE DEF IInv, TypeOK, PlaceInv, NewestInv, Executing, memory, closure,
            locks, history
<1>1. CASE SpawnStore
  BY <1>1, StackDepthAssumption DEF SpawnStore
<1>2. CASE ~SpawnStore
  BY <1>2
     DEF Next, VictimNext, ThiefNext, vars, DrainTail, DrainSlots, Setup,
         AddBottom, SpawnPublish, ReturnFast, PopFence, PopCheck,
         HandlerLock, HandlerSteal, HandlerAbort, HandlerOther, Unwind,
         SlowReturnLock, SetResult, SyncLock, SyncSuspend, SyncPass,
         Scheduler, StealLockDeque, StealEmpty, StealLockClosure,
         StealRefuse, DekkerRaise, DekkerLose, DekkerWin,
         StealUnlockClosure, StealUnlockDeque, SignalException,
         SignalUnlock, LockOwnDeque, LockOwnClosure
<1>q. QED
  BY <1>1, <1>2

(* The frames the mapping finds in a state. *)
Span == {slots[i] : i \in H .. Top - 1}

(* Where the span of the owned frames ends. *)
LEMMA TopRange ==
    ASSUME IInv
    PROVE  /\ Top \in Nat /\ H \in Nat /\ Top >= H /\ Top <= StackDepth
           /\ T \in Nat /\ created \in Nat
           /\ status = "RUNNING" /\ pc # "spawn" => Top - 1 = Last
           /\ status = "RUNNING" /\ pc = "spawn" => Top = Last /\ Top = T
           /\ status # "RUNNING" => Top = H
           /\ status = "RUNNING" => Top > H
  BY StackDepthAssumption, MaxFrameAssumption
     DEF IInv, TypeOK, PlaceInv, Top, Last, Popping, Executing, HoldsDeque

(* The mapped sequence is a slice of the stack. *)
LEMMA OwnedIs ==
    ASSUME IInv
    PROVE  Owned = Slice(slots, H, Top) /\ Numbers(slots, H, Top)
<1>1. Owned = Slice(slots, H, Top)
  BY DEF Owned, Slice
<1>2. ASSUME NEW i \in H .. Top - 1 PROVE slots[i] \in Int
  <2>1. i \in 0 .. StackDepth - 1
    BY TopRange, StackDepthAssumption
  <2>q. QED
    BY <2>1, MaxFrameAssumption DEF IInv, TypeOK
<1>q. QED
  BY <1>1, <1>2 DEF Numbers

(* Its elements. *)
LEMMA OwnedRange ==
    ASSUME IInv
    PROVE  Deque!Range(Owned) = Span /\ (Owned = <<>> <=> Top = H)
           /\ Len(Owned) = Top - H
<1>1. Owned = Slice(slots, H, Top) /\ Numbers(slots, H, Top)
  BY OwnedIs
<1>2. Top \in Nat /\ H \in Nat /\ Top >= H
  BY TopRange
<1>3. Deque!Range(Owned) = {slots[i] : i \in H .. Top - 1}
  BY <1>1, <1>2, SliceRange
<1>4. Owned = <<>> <=> Top = H
  BY <1>1, <1>2, SliceEmpty
<1>5. IsSlice(Owned, slots, H, Top)
  BY <1>1, <1>2, SliceIs
<1>6. Len(Owned) = Top - H
  BY <1>5 DEF IsSlice
<1>q. QED
  BY <1>3, <1>4, <1>6 DEF Span

(* The frames of a span are distinct, exist, and have not been taken. *)
LEMMA SpanDistinct ==
    ASSUME IInv
    PROVE  /\ \A i \in H .. Top - 1 : slots[i] \in 1 .. created /\ slots[i] \notin taken
           /\ \A i, j \in H .. Top - 1 : i < j => slots[i] < slots[j]
<1>1. CASE status # "RUNNING"
  BY <1>1, TopRange
<1>2. CASE status = "RUNNING"
  <2>1. \A i \in H .. Top - 1 : i \in H .. Last /\ i \in 0 .. StackDepth - 1
    <3>a. Top \in Int /\ H \in Int /\ H >= 0 /\ Top <= StackDepth
      BY TopRange
    <3>b. CASE pc = "spawn"
      <4>1. Top = Last
        BY <1>2, <3>b, TopRange
      <4>q. QED
        BY <3>a, <4>1, StackDepthAssumption
    <3>c. CASE pc # "spawn"
      <4>1. Top - 1 = Last
        BY <1>2, <3>c, TopRange
      <4>q. QED
        BY <3>a, <4>1, StackDepthAssumption
    <3>q. QED
      BY <3>b, <3>c
  <2>2. ASSUME NEW i \in H .. Top - 1
        PROVE  slots[i] \in 1 .. created
    BY <1>2, <2>1, <2>2, MaxFrameAssumption DEF IInv, TypeOK, StackInv
  <2>3. ASSUME NEW i \in H .. Top - 1, NEW j \in H .. Top - 1, i < j
        PROVE  slots[i] < slots[j]
    BY <1>2, <2>1, <2>3 DEF IInv, StackInv
  <2>4. ASSUME NEW i \in H .. Top - 1
        PROVE  slots[i] \notin taken
    <3>1. H \in H .. Top - 1
      BY <1>2, TopRange
    <3>2. H = i \/ slots[H] < slots[i]
      BY <2>3, <2>4, <3>1, TopRange
    <3>3. \A f \in taken : f < slots[H]
      BY <1>2 DEF IInv, StackInv
    <3>4. slots[H] \in Int /\ slots[i] \in Int
      BY <2>2, <3>1, TopRange
    <3>5. \A f \in taken : f \in Int
      BY MaxFrameAssumption DEF IInv, TypeOK, Frame
    <3>q. QED
      BY <3>2, <3>3, <3>4, <3>5
  <2>q. QED
    BY <2>2, <2>3, <2>4
<1>q. QED
  BY <1>1, <1>2

(* A step that moves none of what the mapping reads is a stutter. *)
LEMMA Stutter ==
    ASSUME H' = H, Top' = Top, taken' = taken, slots' = slots,
           created' = created, pc' = "spawn" <=> pc = "spawn"
    PROVE  UNCHANGED Deque!vars
<1>1. Owned' = Owned
  BY DEF Owned
<1>2. Gone' = Gone
  BY DEF Gone
<1>q. QED
  BY <1>1, <1>2 DEF Deque!vars

(* What is gone, in terms of the span. *)
LEMMA GoneIs ==
    /\ pc # "spawn" => Gone = (1 .. created) \ (taken \cup Span)
    /\ pc = "spawn" => Gone = (1 .. created) \ (taken \cup Span \cup {created})
  BY DEF Gone, Span

(* Setup is Start: the scheduler begins with a new frame at the bottom. *)
LEMMA SetupStarts ==
    ASSUME IInv, Setup
    PROVE  Deque!Start(created') /\ created' \in Frame
<1>1. /\ pc = "idle" /\ pc' = "add" /\ status' = "RUNNING" /\ H' = 0 /\ T' = 1
      /\ created' = created + 1 /\ taken' = taken /\ created < MaxFrame
      /\ slots' = [slots EXCEPT ![0] = created']
  BY DEF Setup
<1>2. status # "RUNNING" /\ created \in Nat /\ taken \subseteq Frame
      /\ slots \in [0 .. StackDepth - 1 -> 0 .. MaxFrame]
  BY <1>1, MaxFrameAssumption DEF IInv, TypeOK, PlaceInv
<1>3. Owned = <<>> /\ Top = H /\ Deque!Range(Owned) = Span
  BY <1>2, OwnedRange, TopRange
<1>4. Span = {}
  BY <1>3, TopRange DEF Span
<1>5. created' \in Frame /\ created' \in Nat
  BY <1>1, <1>2, MaxFrameAssumption DEF Frame
<1>6. \A f \in taken : f <= created
  BY DEF IInv, StackInv
<1>7. Gone = (1 .. created) \ taken
  BY <1>1, <1>4, GoneIs
<1>8. created' \notin Deque!Used
  <2>1. created' \notin taken
    BY <1>1, <1>2, <1>6
  <2>2. created' \notin Gone
    BY <1>1, <1>2, <1>7
  <2>q. QED
    BY <1>3, <1>4, <2>1, <2>2 DEF Deque!Used
<1>9. Top' = 1
  BY <1>1 DEF Top, Popping
<1>10. slots'[0] = created'
  BY <1>1, <1>2, StackDepthAssumption
<1>11. Owned' = <<created'>>
  <2>1. Owned' = [i \in 1 .. 1 |-> slots'[0 + i - 1]]
    BY <1>1, <1>9 DEF Owned
  <2>2. \A i \in 1 .. 1 : slots'[0 + i - 1] = created'
    BY <1>10
  <2>q. QED
    BY <2>1, <2>2
<1>12. Gone' = Gone
  <2>1. Gone' = (1 .. created') \ (taken' \cup {slots'[i] : i \in 0 .. 0})
    BY <1>1, <1>9 DEF Gone
  <2>2. {slots'[i] : i \in 0 .. 0} = {created'}
    BY <1>10
  <2>q. QED
    BY <1>1, <1>2, <1>7, <2>1, <2>2
<1>q. QED
  BY <1>1, <1>3, <1>5, <1>8, <1>11, <1>12 DEF Deque!Start

(* A frame stored above T is not yet among those owned. *)
LEMMA SpawnStoreStutters ==
    ASSUME IInv, SpawnStore
    PROVE  UNCHANGED Deque!vars
<1>1. /\ pc = "run" /\ pc' = "spawn" /\ created' = created + 1 /\ T' = T
      /\ slots' = [slots EXCEPT ![T] = created'] /\ H' = H /\ taken' = taken
      /\ status' = status /\ T < StackDepth
  BY DEF SpawnStore, closure
<1>2. /\ status = "RUNNING" /\ created \in Nat
      /\ slots \in [0 .. StackDepth - 1 -> 0 .. MaxFrame] /\ T \in Nat
  BY <1>1, MaxFrameAssumption DEF IInv, TypeOK, PlaceInv, Executing
<1>3. Top' = T /\ Top = T
  BY <1>1, <1>2 DEF Top, Popping
<1>4. ASSUME NEW i \in H .. T - 1 PROVE slots'[i] = slots[i]
  BY <1>1, <1>2, <1>3, TopRange
<1>5. Owned' = Owned
  <2>1. \A i \in 1 .. T - H : H + i - 1 \in H .. T - 1
    BY <1>3, TopRange
  <2>2. \A i \in 1 .. T - H : slots'[H + i - 1] = slots[H + i - 1]
    BY <1>4, <2>1
  <2>q. QED
    BY <1>1, <1>3, <2>2 DEF Owned
<1>6. {slots'[i] : i \in H .. T - 1} = Span
  BY <1>3, <1>4 DEF Span
<1>7. Gone' = (1 .. created') \ (taken \cup Span \cup {created'})
  BY <1>1, <1>3, <1>6 DEF Gone
<1>8. Gone = (1 .. created) \ (taken \cup Span)
  BY <1>1, GoneIs
<1>9. Gone' = Gone
  <2>1. \A f \in taken : f <= created
    BY DEF IInv, StackInv
  <2>2. \A f \in Span : f \in 1 .. created
    BY SpanDistinct DEF Span
  <2>3. 1 .. created = (1 .. created') \ {created'}
    BY <1>1, <1>2
  <2>q. QED
    BY <1>7, <1>8, <2>3
<1>q. QED
  BY <1>1, <1>5, <1>9 DEF Deque!vars

(* SpawnPublish is Push: past the fence, the newest frame is owned. *)
LEMMA PublishPushes ==
    ASSUME IInv, NewestInv, SpawnPublish
    PROVE  Deque!Push(created) /\ created \in Frame
<1>1. /\ pc = "spawn" /\ pc' = "run" /\ created' = created /\ T' = T + 1
      /\ slots' = slots /\ H' = H /\ taken' = taken /\ status' = status
  BY DEF SpawnPublish, closure, memory, history
<1>2. status = "RUNNING" /\ T < StackDepth /\ created \in Int /\ H < T
  BY <1>1, MaxFrameAssumption DEF IInv, TypeOK, PlaceInv, Executing
<1>3. Top' = T + 1 /\ Top = T
  BY <1>1, <1>2 DEF Top, Popping
<1>4. slots[T] = created
  BY <1>1 DEF NewestInv
<1>5. Top \in Nat /\ H \in Nat /\ Top >= H /\ T \in Nat /\ Last = T
  BY <1>1, <1>2, TopRange
<1>6. created \in 1 .. MaxFrame
  BY <1>1, <1>2, <1>4, <1>5, MaxFrameAssumption DEF IInv, TypeOK, StackInv
<1>7. Deque!Range(Owned) = Span /\ Owned # <<>>
  BY <1>2, <1>3, <1>5, OwnedRange
<1>8. created \notin Span
  <2>1. ASSUME NEW i \in H .. Top - 1 PROVE slots[i] # created
    <3>1. i \in H .. Last /\ T \in H .. Last /\ i < T
      BY <1>2, <1>3, <1>5
    <3>2. slots[i] < slots[T]
      BY <1>2, <3>1 DEF IInv, StackInv
    <3>q. QED
      BY <1>2, <1>4, <3>2
  <2>q. QED
    BY <2>1 DEF Span
<1>9. created \notin taken
  <2>1. H \in H .. Last /\ T \in H .. Last
    BY <1>2, <1>5
  <2>2. slots[H] < slots[T] /\ \A f \in taken : f < slots[H]
    BY <1>2, <2>1 DEF IInv, StackInv
  <2>3. slots[H] \in Int /\ \A f \in taken : f \in Int
    BY <1>2, <1>5, StackDepthAssumption, MaxFrameAssumption DEF IInv, TypeOK, Frame
  <2>q. QED
    BY <1>2, <1>4, <2>2, <2>3
<1>10. Gone = (1 .. created) \ (taken \cup Span \cup {created})
  BY <1>1, GoneIs
<1>11. created \notin Deque!Used
  BY <1>7, <1>8, <1>9, <1>10 DEF Deque!Used
<1>12. Numbers(slots, H, T + 1)
  <2>1. \A i \in H .. T : i \in 0 .. StackDepth - 1
    BY <1>2, <1>5, StackDepthAssumption
  <2>2. \A i \in H .. T : slots[i] \in Int
    BY <2>1, MaxFrameAssumption DEF IInv, TypeOK
  <2>q. QED
    BY <1>5, <2>2 DEF Numbers
<1>13. Owned' = Append(Owned, created)
  <2>1. Owned = Slice(slots, H, T)
    BY <1>3, OwnedIs
  <2>2. Owned' = Slice(slots, H, T + 1)
    BY <1>1, <1>3 DEF Owned, Slice
  <2>3. T >= H
    BY <1>2, <1>5
  <2>q. QED
    BY <1>4, <1>5, <1>12, <2>1, <2>2, <2>3, SliceAppend
<1>14. Gone' = Gone
  <2>1. {slots[i] : i \in H .. T} = Span \cup {created}
    <3>1. H .. T = (H .. Top - 1) \cup {T}
      BY <1>2, <1>3, <1>5
    <3>q. QED
      BY <1>4, <3>1 DEF Span
  <2>2. Gone' = (1 .. created) \ (taken \cup {slots[i] : i \in H .. Top' - 1})
    BY <1>1 DEF Gone
  <2>3. H .. Top' - 1 = H .. T
    BY <1>3, <1>5
  <2>q. QED
    BY <1>10, <2>1, <2>2, <2>3
<1>q. QED
  BY <1>1, <1>6, <1>7, <1>11, <1>13, <1>14 DEF Deque!Push, Frame

(* A return into a frame still owned is Pop. *)
LEMMA ReturnPops ==
    ASSUME IInv, status = "RUNNING", Popping, H < T, H' = H, Top' = T,
           slots' = slots, taken' = taken, created' = created, pc' # "spawn"
    PROVE  Deque!Pop
<1>1. Top = T + 1 /\ pc # "spawn"
  BY DEF Top, Popping
<1>2. Top \in Nat /\ H \in Nat /\ T \in Nat
  BY TopRange
<1>3. Owned = Slice(slots, H, T + 1) /\ Numbers(slots, H, T + 1)
  BY <1>1, OwnedIs
<1>4. Len(Owned) = T + 1 - H
  <2>1. Len(Owned) = Top - H
    BY OwnedRange
  <2>q. QED
    BY <1>1, <1>2, <2>1
<1>5. T + 1 - 1 = T /\ T + 1 \in Nat /\ T + 1 > H
  BY <1>2
<1>6. /\ Slice(slots, H, T) = SubSeq(Owned, 1, Len(Owned) - 1)
      /\ Owned[Len(Owned)] = slots[T]
  <2>1. /\ Slice(slots, H, T + 1 - 1) = SubSeq(Owned, 1, Len(Owned) - 1)
        /\ Owned[Len(Owned)] = slots[T + 1 - 1]
    BY <1>2, <1>3, <1>5, SliceFront
  <2>q. QED
    BY <1>5, <2>1
<1>7. Owned' = Slice(slots, H, T)
  BY DEF Owned, Slice
<1>8. Gone' = Gone \cup {slots[T]}
  <2>1. Gone' = (1 .. created) \ (taken \cup {slots[i] : i \in H .. T - 1})
    BY DEF Gone
  <2>2. Gone = (1 .. created) \ (taken \cup Span)
    BY <1>1, GoneIs
  <2>3. H .. Top - 1 = (H .. T - 1) \cup {T} /\ T \in H .. Top - 1
    BY <1>1, <1>2
  <2>4. Span = {slots[i] : i \in H .. T - 1} \cup {slots[T]}
    BY <2>3 DEF Span
  <2>5. slots[T] \in 1 .. created /\ slots[T] \notin taken
    BY <2>3, SpanDistinct
  <2>6. slots[T] \notin {slots[i] : i \in H .. T - 1}
    <3>1. ASSUME NEW i \in H .. T - 1 PROVE slots[i] # slots[T]
      <4>1. i \in H .. Top - 1 /\ i < T
        BY <1>1, <1>2
      <4>2. slots[i] < slots[T] /\ slots[i] \in 1 .. created
        BY <2>3, <4>1, SpanDistinct
      <4>q. QED
        BY <2>5, <4>2, <1>2, TopRange
    <3>q. QED
      BY <3>1
  <2>q. QED
    BY <2>1, <2>2, <2>4, <2>5, <2>6
<1>9. Len(Owned) > 1
  BY <1>2, <1>4
<1>q. QED
  BY <1>6, <1>7, <1>8, <1>9 DEF Deque!Pop

(* A step that gives up the whole span is Leave. *)
LEMMA GiveUpLeaves ==
    ASSUME IInv, status = "RUNNING", pc # "spawn", H' = H, Top' = H,
           slots' = slots, taken' = taken, created' = created, pc' # "spawn"
    PROVE  Deque!Leave
<1>1. Owned # <<>> /\ Deque!Range(Owned) = Span
  BY OwnedRange, TopRange
<1>2. Owned' = Slice(slots, H, H)
  BY DEF Owned, Slice
<1>3. H \in Nat /\ Numbers(slots, H, H)
  BY TopRange DEF Numbers
<1>4. Owned' = <<>>
  BY <1>2, <1>3, SliceEmpty
<1>5. Gone' = Gone \cup Span
  <2>1. Gone' = (1 .. created) \ (taken \cup {slots[i] : i \in H .. H - 1})
    BY DEF Gone
  <2>2. Gone = (1 .. created) \ (taken \cup Span)
    BY GoneIs
  <2>3. H .. H - 1 = {}
    BY <1>3
  <2>4. \A f \in Span : f \in 1 .. created /\ f \notin taken
    BY SpanDistinct DEF Span
  <2>q. QED
    BY <2>1, <2>2, <2>3, <2>4
<1>q. QED
  BY <1>1, <1>4, <1>5 DEF Deque!Leave

(* DekkerWin is Steal: the oldest frame goes, and it is not the last. *)
LEMMA WinSteals ==
    ASSUME IInv, NEW t \in Thief, DekkerWin(t)
    PROVE  Deque!Steal
<1>1. /\ H' = H + 1 /\ T' = T /\ slots' = slots /\ taken' = taken \cup {cframe}
      /\ created' = created /\ pc' = pc /\ status' = status
      /\ tpc[t] = "raised" /\ H + 1 < Tm
  BY DEF DekkerWin, NothingToSteal, memory, IInv, TypeOK
<1>2. status = "RUNNING" /\ cframe = slots[H]
  BY <1>1 DEF IInv, ExceptionInv, StackInv
<1>3. H + 1 < Top
  BY <1>1, <1>2, StackDepthAssumption
     DEF IInv, TypeOK, PlaceInv, BufferInv, Top, Popping, Executing, HoldsDeque
<1>4. Top' = Top
  BY <1>1, <1>2 DEF Top, Popping
<1>5. Top \in Nat /\ H \in Nat
  BY TopRange
<1>6. Owned = Slice(slots, H, Top) /\ Numbers(slots, H, Top) /\ Len(Owned) = Top - H
  BY OwnedIs, OwnedRange
<1>7. Owned' = Slice(slots, H + 1, Top)
  BY <1>1, <1>4 DEF Owned, Slice
<1>8. Owned' = Tail(Owned) /\ Head(Owned) = slots[H]
  <2>1. Top > H
    BY <1>3, <1>5
  <2>q. QED
    BY <1>5, <1>6, <1>7, <2>1, SliceTail
<1>9. Gone' = Gone
  <2>1. H .. Top - 1 = (H + 1 .. Top - 1) \cup {H}
    BY <1>3, <1>5
  <2>2. Span = {slots[i] : i \in H + 1 .. Top - 1} \cup {slots[H]}
    BY <2>1 DEF Span
  <2>3. taken' \cup {slots[i] : i \in H + 1 .. Top - 1} = taken \cup Span
    BY <1>1, <1>2, <2>2
  <2>4. CASE pc = "spawn"
    BY <1>1, <1>4, <2>3, <2>4 DEF Gone, Span
  <2>5. CASE pc # "spawn"
    BY <1>1, <1>4, <2>3, <2>5 DEF Gone, Span
  <2>q. QED
    BY <2>4, <2>5
<1>10. Len(Owned) > 1
  BY <1>3, <1>5, <1>6
<1>q. QED
  BY <1>1, <1>2, <1>8, <1>9, <1>10 DEF Deque!Steal

(* The steps of the victim that decide the fate of a frame. *)
LEMMA DecidingSteps ==
    ASSUME IInv, PopCheck \/ HandlerSteal \/ HandlerAbort \/ HandlerOther
                 \/ SetResult \/ SyncSuspend
    PROVE  Deque!Pop \/ Deque!Leave \/ UNCHANGED Deque!vars
<1> USE DEF closure, memory, locks, history
<1>1. CASE PopCheck
  <2>1. /\ pc = "check" /\ T' = T /\ slots' = slots /\ H' = H
        /\ status' = status /\ created' = created /\ taken' = taken
        /\ pc' = IF E >= T THEN "handler" ELSE "run"
    BY <1>1 DEF PopCheck, Exceptional
  <2>2. CASE E >= T
    <3>1. Top' = Top
      BY <2>1, <2>2 DEF Top, Popping
    <3>q. QED
      BY <2>1, <2>2, <3>1, Stutter
  <2>3. CASE ~(E >= T)
    <3>1. status = "RUNNING" /\ H < T /\ Popping
      BY <2>1, <2>3, StackDepthAssumption
         DEF IInv, TypeOK, PlaceInv, ExceptionInv, Popping, Infinity
    <3>2. pc' = "run"
      BY <2>1, <2>3
    <3>3. Top' = T
      BY <2>1, <3>1, <3>2 DEF Top, Popping
    <3>q. QED
      BY <2>1, <3>1, <3>2, <3>3, ReturnPops
  <2>q. QED
    BY <2>2, <2>3
<1>2. CASE HandlerSteal
  <2>1. /\ pc = "handlerClosure" /\ pc' = "unwind" /\ T' = T /\ slots' = slots
        /\ H' = H /\ status' = "RETURNING" /\ created' = created
        /\ taken' = taken
    BY <1>2 DEF HandlerSteal
  <2>2. Top' = H
    BY <2>1 DEF Top
  <2>3. CASE status = "RUNNING"
    BY <2>1, <2>2, <2>3, GiveUpLeaves
  <2>4. CASE status # "RUNNING"
    <3>1. Top = H
      BY <2>4 DEF Top
    <3>q. QED
      BY <2>1, <2>2, <3>1, Stutter
  <2>q. QED
    BY <2>3, <2>4
<1>3. CASE HandlerAbort
  <2>1. /\ pc = "handlerClosure" /\ pc' = "unwind" /\ T' = T /\ slots' = slots
        /\ H' = H /\ created' = created /\ taken' = taken /\ H < T
        /\ \/ status' = status
           \/ status' = "RETURNING"
           \/ status' = "SUSPENDED"
    BY <1>3 DEF HandlerAbort
  <2>2. status = "RUNNING" /\ Popping
    BY <2>1, StackDepthAssumption DEF IInv, TypeOK, PlaceInv, Popping
  <2>3. CASE status' = status
    <3>1. Top' = T
      BY <2>1, <2>2, <2>3 DEF Top, Popping
    <3>q. QED
      BY <2>1, <2>2, <3>1, ReturnPops
  <2>4. CASE status' # status
    <3>1. Top' = H
      BY <2>1, <2>2, <2>4 DEF Top
    <3>q. QED
      BY <2>1, <2>2, <3>1, GiveUpLeaves
  <2>q. QED
    BY <2>3, <2>4
<1>4. CASE HandlerOther
  <2>1. /\ pc = "handlerClosure" /\ pc' = "run" /\ T' = T /\ slots' = slots
        /\ H' = H /\ created' = created /\ taken' = taken /\ H < T
        /\ status' = status
    BY <1>4 DEF HandlerOther
  <2>2. status = "RUNNING" /\ Popping
    BY <2>1, StackDepthAssumption DEF IInv, TypeOK, PlaceInv, Popping
  <2>3. Top' = T
    BY <2>1, <2>2 DEF Top, Popping
  <2>q. QED
    BY <2>1, <2>2, <2>3, ReturnPops
<1>5. CASE SetResult \/ SyncSuspend
  <2>1. /\ pc \in {"returnClosure", "syncClosure"} /\ slots' = slots
        /\ pc' \in {"unwind", "scheduler"}
        /\ H' = H /\ created' = created /\ taken' = taken
        /\ status' # "RUNNING"
    BY <1>5 DEF SetResult, SyncSuspend
  <2>2. status = "RUNNING"
    BY <2>1 DEF IInv, PlaceInv, Executing
  <2>3. Top' = H
    BY <2>1 DEF Top
  <2>q. QED
    BY <2>1, <2>2, <2>3, GiveUpLeaves
<1>q. QED
  BY <1>1, <1>2, <1>3, <1>4, <1>5

(* The other steps of the victim leave the mapped state as it is. *)
LEMMA QuietSteps ==
    ASSUME IInv, DrainTail \/ DrainSlots \/ AddBottom \/ ReturnFast \/ PopFence
                 \/ HandlerLock \/ Unwind \/ SlowReturnLock \/ SyncLock
                 \/ SyncPass \/ Scheduler
    PROVE  UNCHANGED Deque!vars
<1>1. H' = H /\ taken' = taken /\ slots' = slots /\ created' = created
  BY DEF DrainTail, DrainSlots, AddBottom, ReturnFast, PopFence, HandlerLock,
         Unwind, SlowReturnLock, SyncLock, SyncPass, Scheduler, LockOwnDeque,
         LockOwnClosure, memory, history
<1>2. pc' = "spawn" <=> pc = "spawn"
  BY DEF DrainTail, DrainSlots, AddBottom, ReturnFast, PopFence, HandlerLock,
         Unwind, SlowReturnLock, SyncLock, SyncPass, Scheduler, LockOwnDeque,
         LockOwnClosure
<1>3. Top' = Top
  <2> USE DEF Top, Popping, closure
  <2>1. CASE DrainTail \/ DrainSlots \/ AddBottom \/ PopFence \/ SyncPass
             \/ HandlerLock \/ SlowReturnLock \/ SyncLock
    BY <2>1 DEF DrainTail, DrainSlots, AddBottom, PopFence, SyncPass,
                HandlerLock, SlowReturnLock, SyncLock, LockOwnDeque,
                LockOwnClosure
  <2>2. CASE ReturnFast
    BY <2>2, StackDepthAssumption DEF ReturnFast, IInv, TypeOK
  <2>3. CASE Unwind
    BY <2>3, StackDepthAssumption DEF Unwind, IInv, TypeOK, PlaceInv
  <2>4. CASE Scheduler
    BY <2>4 DEF Scheduler, IInv, PlaceInv
  <2>q. QED
    BY <2>1, <2>2, <2>3, <2>4
<1>q. QED
  BY <1>1, <1>2, <1>3, Stutter

(* A thief's steps other than DekkerWin, and the signalers', do as well. *)
LEMMA OthersQuiet ==
    ASSUME IInv, NEW t, \/ StealLockDeque(t) \/ StealEmpty(t) \/ StealLockClosure(t)
                        \/ StealRefuse(t) \/ DekkerRaise(t) \/ DekkerLose(t)
                        \/ StealUnlockClosure(t) \/ StealUnlockDeque(t)
                        \/ SignalException(t) \/ SignalUnlock(t)
    PROVE  UNCHANGED Deque!vars
<1>1. /\ H' = H /\ taken' = taken /\ slots' = slots /\ created' = created
      /\ pc' = pc /\ T' = T /\ status' = status
  BY DEF StealLockDeque, StealEmpty, StealLockClosure, StealRefuse, DekkerRaise,
         DekkerLose, StealUnlockClosure, StealUnlockDeque, SignalException,
         SignalUnlock, memory, history, closure
<1>2. Top' = Top
  BY <1>1 DEF Top, Popping
<1>q. QED
  BY <1>1, <1>2, Stutter

(* Every step maps to a step of WorkDeque or to a stutter. *)
LEMMA DequeStep ==
    ASSUME IInv, NewestInv, [Next]_vars
    PROVE  [Deque!Next]_(Deque!vars)
<1>1. CASE Setup
  BY <1>1, SetupStarts DEF Deque!Next
<1>2. CASE SpawnStore
  BY <1>2, SpawnStoreStutters
<1>3. CASE SpawnPublish
  BY <1>3, PublishPushes DEF Deque!Next
<1>4. CASE PopCheck \/ HandlerSteal \/ HandlerAbort \/ HandlerOther
           \/ SetResult \/ SyncSuspend
  BY <1>4, DecidingSteps DEF Deque!Next
<1>5. CASE DrainTail \/ DrainSlots \/ AddBottom \/ ReturnFast \/ PopFence
           \/ HandlerLock \/ Unwind \/ SlowReturnLock \/ SyncLock
           \/ SyncPass \/ Scheduler
  BY <1>5, QuietSteps
<1>6. ASSUME NEW t \in Thief, ThiefNext(t) PROVE [Deque!Next]_(Deque!vars)
  <2>1. CASE DekkerWin(t)
    BY <2>1, WinSteals DEF Deque!Next
  <2>2. CASE ~DekkerWin(t)
    BY <1>6, <2>2, OthersQuiet DEF ThiefNext
  <2>q. QED
    BY <2>1, <2>2
<1>7. ASSUME NEW s \in Signaler, SignalException(s) \/ SignalUnlock(s)
      PROVE  [Deque!Next]_(Deque!vars)
  BY <1>7, OthersQuiet
<1>8. CASE UNCHANGED vars
  <2>1. /\ H' = H /\ taken' = taken /\ slots' = slots /\ created' = created
        /\ pc' = pc /\ T' = T /\ status' = status
    BY <1>8 DEF vars
  <2>2. Top' = Top
    BY <2>1 DEF Top, Popping
  <2>q. QED
    BY <2>1, <2>2, Stutter
<1>q. QED
  BY <1>1, <1>2, <1>3, <1>4, <1>5, <1>6, <1>7, <1>8 DEF Next, VictimNext

(* The protocol implements the deque WorkDeque promises: whatever thieves, *)
(* signalers and the store buffer do, frames enter and leave at the far    *)
(* end, thieves take the oldest one and never the last, and no frame is    *)
(* counted twice.                                                          *)
THEOREM Refinement == Spec => DequeSpec
<1>1. Init => Deque!Init /\ NewestInv
  <2> SUFFICES ASSUME Init PROVE Deque!Init /\ NewestInv
    OBVIOUS
  <2>1. IInv
    BY InitIInv
  <2>2. H = 0 /\ status = "NONE" /\ taken = {} /\ created = 0 /\ pc = "idle"
    BY DEF Init
  <2>3. Owned = <<>>
    BY <2>1, <2>2, OwnedRange, TopRange
  <2>4. Gone = {}
    BY <2>2 DEF Gone
  <2>q. QED
    BY <2>2, <2>3, <2>4 DEF Deque!Init, NewestInv
<1>2. IInv /\ NewestInv /\ [Next]_vars => NewestInv'
  BY NewestStep
<1>3. IInv /\ NewestInv /\ [Next]_vars => [Deque!Next]_(Deque!vars)
  BY DequeStep
<1>q. QED
  BY <1>1, <1>2, <1>3, Invariance, PTL DEF Spec, DequeSpec, Deque!Spec
=============================================================================
