----------------------------- MODULE Rendezvous -----------------------------
(***************************************************************************)
(* What a barrier promises: workers meet round after round, and nobody     *)
(* leaves a round before everybody has entered it.                         *)
(***************************************************************************)
EXTENDS Naturals

CONSTANTS Worker,
          MaxRound      \* bound: how often a worker calls the barrier

VARIABLES entered,      \* the calls every worker has made
          left          \* those that have returned

vars == <<entered, left>>

Init == entered = [w \in Worker |-> 0] /\ left = [w \in Worker |-> 0]

Enter(w) ==
    /\ left[w] = entered[w] /\ entered[w] < MaxRound
    /\ entered' = [entered EXCEPT ![w] = @ + 1]
    /\ UNCHANGED left

Leave(w) ==
    /\ left[w] < entered[w]
    /\ \A v \in Worker : entered[v] >= entered[w]
    /\ left' = [left EXCEPT ![w] = entered[w]]
    /\ UNCHANGED entered

Next == \E w \in Worker : Enter(w) \/ Leave(w)

Safety == Init /\ [][Next]_vars

Spec == Safety /\ \A w \in Worker : WF_vars(Leave(w))
=============================================================================
