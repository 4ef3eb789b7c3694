------------------------------ MODULE Barrier ------------------------------
(***************************************************************************)
(* What Barrier::barrier promises (src/src/core/barrier_decl.hpp:51-55):   *)
(* when a call returns, every participant has reached the barrier.         *)
(* reached[p] counts the calls participant p has made, returned[p] those   *)
(* that have returned.                                                     *)
(***************************************************************************)
EXTENDS Naturals

CONSTANT Participants

VARIABLES reached, returned

barrierVars == <<reached, returned>>

Init ==
    /\ reached = [p \in Participants |-> 0]
    /\ returned = [p \in Participants |-> 0]

Reach(p) ==
    /\ reached[p] = returned[p]
    /\ reached' = [reached EXCEPT ![p] = @ + 1]
    /\ UNCHANGED returned

Return(p) ==
    /\ returned[p] < reached[p]
    /\ \A q \in Participants : reached[q] >= reached[p]
    /\ returned' = [returned EXCEPT ![p] = @ + 1]
    /\ UNCHANGED reached

Next == \E p \in Participants : Reach(p) \/ Return(p)

Spec == Init /\ [][Next]_barrierVars

\* No call has returned that some participant has not made yet.
Contract == \A p, q \in Participants : returned[p] <= reached[q]
=============================================================================
