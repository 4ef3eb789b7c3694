------------------------------ MODULE DataFlow ------------------------------
(***************************************************************************)
(* What a dependences domain promises to the program that submits tasks to *)
(* it, one after another, with their data accesses: a task is released     *)
(* only when the earlier tasks it conflicts with have ended                *)
(* (DependableObject, src/src/core/dependableobject_decl.hpp:60-85).       *)
(***************************************************************************)
EXTENDS Naturals

CONSTANTS Tasks,   \* 1..n, in the order they are submitted
          Addrs, Kinds

VARIABLES acc,     \* how each task accesses each address
          stage

Stages == {"unborn", "submitted", "ready", "ended"}

\* Accesses that may run side by side.
Compatible == {<<"in", "in">>, <<"concurrent", "concurrent">>, <<"commutative", "commutative">>}

ConflictIn(accesses, u, t) ==
    \E a \in Addrs :
       /\ accesses[u][a] # "none" /\ accesses[t][a] # "none"
       /\ <<accesses[u][a], accesses[t][a]>> \notin Compatible

Conflict(u, t) == ConflictIn(acc, u, t)

Init ==
    /\ acc = [t \in Tasks |-> [a \in Addrs |-> "none"]]
    /\ stage = [t \in Tasks |-> "unborn"]

Submit(t) ==
    /\ stage[t] = "unborn"
    /\ \A u \in Tasks : u < t => stage[u] # "unborn"
    /\ \E kinds \in [Addrs -> Kinds \cup {"none"}] : acc' = [acc EXCEPT ![t] = kinds]
    /\ stage' = [stage EXCEPT ![t] = "submitted"]

Release(t) ==
    /\ stage[t] = "submitted"
    /\ \A u \in Tasks : u < t /\ Conflict(u, t) => stage[u] = "ended"
    /\ stage' = [stage EXCEPT ![t] = "ready"]
    /\ UNCHANGED acc

End(t) ==
    /\ stage[t] = "ready"
    /\ stage' = [stage EXCEPT ![t] = "ended"]
    /\ UNCHANGED acc

Next == \E t \in Tasks : Submit(t) \/ Release(t) \/ End(t)

Spec == Init /\ [][Next]_<<acc, stage>>
=============================================================================
