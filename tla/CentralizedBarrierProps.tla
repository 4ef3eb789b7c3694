---------------------- MODULE CentralizedBarrierProps ----------------------
(* What CentralizedBarrier must guarantee, for TLC and for the proofs. *)
EXTENDS CentralizedBarrier

\* A call counts as made from its first step to its last.
reached == [p \in Procs |-> ep[p] + (IF pc[p] = "out" THEN 0 ELSE 1)]

Abstract == INSTANCE Barrier WITH Participants <- Procs, returned <- ep

(* "When it returns it guarantees that all participants have reached the
   barrier" (src/src/core/barrier_decl.hpp:51-55): no participant returns
   from its k-th call before everyone has made theirs. *)
Contract == Abstract!Contract

(* Every behaviour of the counter and the flag is one of the abstract
   barrier: the reset of _sem and the reversal of _flag never let a fast
   participant re-enter and overtake a slow one of the episode before. *)
ImplementsBarrier == Abstract!Spec

(* The team's reductions (computeVectorReductions) run once in each episode,
   after every participant has arrived and before any has left. *)
ReducedBetween ==
    \A p \in Procs : ep[p] <= reduced /\ reduced <= reached[p]

(* No lost wake-up: a participant asleep on a condition that holds has a
   signaller of that condition still at work. *)
NoLostWakeup ==
    \A p \in Procs :
       at[p] = "asleep" /\ flag = on[p] =>
          \E q \in Procs : at[q] \in {"siglock", "waking"} /\ on[q] = on[p]

-----------------------------------------------------------------------------
(* The inductive invariant behind Contract, ReducedBetween and NoLostWakeup. *)

\* How often _flag has been reversed: once per Reduce, but two steps later.
Flips == IF \E p \in Procs : pc[p] \in {"clear", "flip"} THEN reduced - 1 ELSE reduced

Odd(n) == n % 2 = 1

\* Those whose increment of _sem belongs to the episode now being gathered.
Counted == {p \in Procs : ep[p] = Flips /\ pc[p] \in {"wait", "reduce", "clear"}}

\* The participant's program and its operation on a condition go together.
PlaceInv ==
    \A p \in Procs :
       /\ pc[p] = "wait" <=> at[p] \in {"check", "lock", "switch", "asleep"}
       /\ pc[p] = "release" <=> at[p] \in {"siglock", "waking"}
       /\ pc[p] \in {"wait", "release"} => on[p] = ~branch[p]

\* Everyone is in the episode being gathered or still leaving the one before.
EpisodeInv ==
    \A p \in Procs :
       /\ pc[p] \in {"out", "count", "reduce", "clear", "flip"} => ep[p] = Flips
       /\ pc[p] = "release" => ep[p] = Flips - 1
       /\ pc[p] = "wait" => ep[p] \in {Flips - 1, Flips}
       /\ pc[p] # "out" => ep[p] < MaxEpisodes /\ branch[p] = Odd(ep[p])

\* While the last to arrive reduces, clears and flips, all the others wait.
LeaderInv ==
    \A p, q \in Procs :
       pc[p] \in {"reduce", "clear", "flip"} /\ p # q => pc[q] = "wait" /\ ep[q] = Flips

SemInv == sem = IF \E p \in Procs : pc[p] = "flip" THEN 0 ELSE Cardinality(Counted)

\* A condition's lock and its set of waiters are what the places say.
ConditionInv ==
    \A p \in Procs :
       /\ at[p] \in {"switch", "waking"} <=> owner[on[p]] = p
       /\ at[p] = "asleep" => p \in waiters[on[p]]
       /\ \A c \in BOOLEAN : owner[c] = p => on[p] = c
       /\ \A c \in BOOLEAN : p \in waiters[c] => at[p] = "asleep" /\ on[p] = c

\* Whoever may be, or go, to sleep on a condition that holds will be signalled.
WakeupInv ==
    \A p \in Procs :
       at[p] \in {"switch", "asleep"} /\ flag = on[p] =>
          \E q \in Procs : at[q] \in {"siglock", "waking"} /\ on[q] = on[p]

Inductive ==
    /\ TypeOK
    /\ PlaceInv
    /\ flag = Odd(Flips)
    /\ EpisodeInv
    /\ LeaderInv
    /\ SemInv
    /\ ConditionInv
    /\ WakeupInv
=============================================================================
