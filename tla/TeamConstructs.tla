--------------------------- MODULE TeamConstructs ---------------------------
(***************************************************************************)
(* What a team's threads are promised when all of them go through the same *)
(* loops and singles, each at its own pace: an iteration is given out once *)
(* and none is left when the last thread leaves the loop, exactly one      *)
(* thread is told to be the single one ("only one thread per loop will get *)
(* 'true'", src/src/plugins/worksharing/dynamic.cpp:14), and nobody leaves *)
(* a single with a barrier before its body is over.                        *)
(***************************************************************************)
EXTENDS LoopItems, Bags, Sequences

CONSTANT Threads

VARIABLES program,   \* the constructs: their kind and their loop
          at,        \* which construct each thread is in
          given,     \* the iterations of each construct given out
          winner,    \* the threads told to be the single one
          over       \* the constructs whose single body is over

Kinds == {"static", "dynamic", "guided", "single", "guarded"}
Loops == {"static", "dynamic", "guided"}
Todo(k) == IF program[k].kind \in Loops THEN LoopIterations(program[k].loop) ELSE {}

Init ==
    /\ at = [t \in Threads |-> 1]
    /\ given = [k \in 1..Len(program) |-> EmptyBag]
    /\ winner = [k \in 1..Len(program) |-> {}]
    /\ over = {}

\* The iterations that a step gives out were still to be done, and are given once.
Give(k) ==
    /\ LET some == BagToSet(given'[k]) \ BagToSet(given[k])
       IN  /\ some \subseteq Todo(k)
           /\ given' = [given EXCEPT ![k] = @ (+) SetToBag(some)]
    /\ UNCHANGED <<at, winner, over>>

Win(t) ==
    /\ winner[at[t]] = {}
    /\ winner' = [winner EXCEPT ![at[t]] = {t}]
    /\ UNCHANGED <<at, given, over>>

Finish(t) ==
    /\ winner[at[t]] = {t}
    /\ over' = over \cup {at[t]}
    /\ UNCHANGED <<at, given, winner>>

Leave(t) ==
    /\ LET k == at[t]
       IN  /\ (\A u \in Threads \ {t} : at[u] > k) => BagToSet(given[k]) = Todo(k) /\ winner[k] # {}
           /\ program[k].kind = "guarded" => k \in over
    /\ at' = [at EXCEPT ![t] = @ + 1]
    /\ UNCHANGED <<given, winner, over>>

Next ==
    /\ UNCHANGED program
    /\ \E t \in Threads :
          /\ at[t] \in 1..Len(program)
          /\ Win(t) \/ Finish(t) \/ Leave(t) \/ Give(at[t])

Spec == Init /\ [][Next]_<<program, at, given, winner, over>>
=============================================================================
