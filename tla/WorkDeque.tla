----------------------------- MODULE WorkDeque -----------------------------
(***************************************************************************)
(* What the THE protocol of runtime/sched.c promises, with the pointers    *)
(* H, T and E, the locks and the store buffer forgotten: the frames one    *)
(* worker still owns form a sequence, its owner works at the far end of it *)
(* and thieves take frames from the near end, never the one in use.        *)
(***************************************************************************)
EXTENDS Naturals, Sequences, FiniteSets

CONSTANT Frame          \* the identities a procedure frame can have

VARIABLES
    frames,     \* the frames the worker owns, oldest first
    stolen,     \* the frames thieves have taken
    left        \* the frames that returned, were aborted or suspended

vars == <<frames, stolen, left>>

Range(s) == {s[i] : i \in 1 .. Len(s)}

Used == Range(frames) \cup stolen \cup left

Init == /\ frames = <<>>
        /\ stolen = {}
        /\ left = {}

(* The scheduler starts on a closure. *)
Start(f) == /\ frames = <<>>
            /\ f \in Frame \ Used
            /\ frames' = <<f>>
            /\ UNCHANGED <<stolen, left>>

(* A procedure is spawned. *)
Push(f) == /\ frames # <<>>
           /\ f \in Frame \ Used
           /\ frames' = Append(frames, f)
           /\ UNCHANGED <<stolen, left>>

(* The youngest procedure returns (or is aborted) and its parent, still    *)
(* owned, is next.                                                         *)
Pop == /\ Len(frames) > 1
       /\ left' = left \cup {frames[Len(frames)]}
       /\ frames' = SubSeq(frames, 1, Len(frames) - 1)
       /\ UNCHANGED stolen

(* The worker gives up everything it owns: its closure returned, was       *)
(* aborted or suspended.                                                   *)
Leave == /\ frames # <<>>
         /\ left' = left \cup Range(frames)
         /\ frames' = <<>>
         /\ UNCHANGED stolen

(* A thief takes the oldest frame, if the worker keeps another one.        *)
Steal == /\ Len(frames) > 1
         /\ stolen' = stolen \cup {Head(frames)}
         /\ frames' = Tail(frames)
         /\ UNCHANGED left

Next == \/ \E f \in Frame : Start(f) \/ Push(f)
        \/ Pop \/ Leave \/ Steal

Spec == Init /\ [][Next]_vars
=============================================================================
