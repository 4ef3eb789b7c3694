---------------------------- MODULE TreeBarrier ----------------------------
(***************************************************************************)
(* TreeBarrier::barrier (src/src/plugins/barr/tree_barrier.cpp): the       *)
(* participants are the nodes 0..N-1 of a binary tree; arrivals go up to   *)
(* node 0 and the release comes down.  Node p waits on the three           *)
(* conditions <<p, s>>, s \in Sides, each a plain int with one writer; the *)
(* condition holds when it equals the node's phase, counted modulo 3.      *)
(*                                                                         *)
(* pc[p] is the statement of barrier() that p is at:                       *)
(*   left, right, top      wait() for a child, for the parent              *)
(*   report                sets the parent's int and signals its condition *)
(*   free1, free2          the same for each child                         *)
(*   advance               moves to the next phase and returns             *)
(***************************************************************************)
EXTENDS SyncCond, Integers

CONSTANTS N,            \* participants
          MaxEpisodes

Sides == {"left", "right", "parent"}
Conds == Procs \X Sides

Left(p) == 2 * p + 1
Right(p) == 2 * p + 2
Parent(p) == (p - 1) \div 2
Side(p) == IF Left(Parent(p)) = p THEN "left" ELSE "right"

VARIABLES pc,
          sems,     \* the ints of _sems
          phase,    \* NodeSems::phase
          ep        \* history: calls p has returned from

localVars == <<pc, sems, phase, ep>>
vars == <<pc, sems, phase, ep, syncVars>>

Waits == {"left", "right", "top"}
Sets == {"report", "free1", "free2"}

TypeOK ==
    /\ pc \in [Procs -> {"out", "advance"} \cup Waits \cup Sets]
    /\ sems \in [Conds -> 0..2]
    /\ phase \in [Procs -> 0..2]
    /\ ep \in [Procs -> 0..MaxEpisodes]
    /\ SyncTypeOK(Conds)

Init ==
    /\ pc = [p \in Procs |-> "out"]
    /\ sems = [c \in Conds |-> 0]
    /\ phase = [p \in Procs |-> 1]
    /\ ep = [p \in Procs |-> 0]
    /\ SyncInit(Conds, <<0, "left">>)

-----------------------------------------------------------------------------
\* Mutant of Applies: a node does not wait for its right child.
AppliesNotRight(p, place) ==
    CASE place \in {"left", "free1"} -> Left(p) < N
      [] place \in {"free2"} -> Right(p) < N
      [] place \in {"report", "top"} -> p # 0
      [] OTHER -> place = "advance"

\* The conditions under which barrier() executes a statement.
Applies(p, place) ==
    CASE place \in {"left", "free1"} -> Left(p) < N
      [] place \in {"right", "free2"} -> Right(p) < N
      [] place \in {"report", "top"} -> p # 0
      [] OTHER -> place = "advance"

\* The condition each statement waits on, sets or signals.
Target(p, place) ==
    CASE place \in {"left", "right"} -> <<p, place>>
      [] place = "top" -> <<p, "parent">>
      [] place = "report" -> <<Parent(p), Side(p)>>
      [] place = "free1" -> <<Left(p), "parent">>
      [] place = "free2" -> <<Right(p), "parent">>

Order == <<"left", "right", "report", "top", "free1", "free2", "advance">>

\* The statements of barrier() that p executes after the one it is at.
Later(p) ==
    {i \in DOMAIN Order :
       /\ Applies(p, Order[i])
       /\ \A j \in DOMAIN Order : pc[p] = Order[j] => j < i}

Proceed(p) ==
    \E i \in Later(p) :
       /\ \A j \in Later(p) : i <= j
       /\ pc' = [pc EXCEPT ![p] = Order[i]]

Holds(p) == sems[on[p]] = phase[p]

-----------------------------------------------------------------------------
\* The call, up to the fence: the conditions are told the node's phase.
Enter(p) ==
    /\ pc[p] = "out" /\ ep[p] < MaxEpisodes
    /\ Proceed(p)
    /\ UNCHANGED <<sems, phase, ep, syncVars>>

BeginWait(p) ==
    /\ pc[p] \in Waits
    /\ StartWait(p, Target(p, pc[p]))
    /\ UNCHANGED localVars

WaitReturns(p) ==
    /\ pc[p] \in Waits
    /\ CheckPass(p, Holds(p))
    /\ Proceed(p)
    /\ UNCHANGED <<sems, phase, ep>>

\* The int of the condition is set, and signal() is called.
Set(p) ==
    /\ pc[p] \in Sets
    /\ StartSignal(p, Target(p, pc[p]))
    /\ sems' = [sems EXCEPT ![Target(p, pc[p])] = phase[p]]
    /\ UNCHANGED <<pc, phase, ep>>

SignalReturns(p) ==
    /\ pc[p] \in Sets
    /\ SignalUnlock(p)
    /\ Proceed(p)
    /\ UNCHANGED <<sems, phase, ep>>

Advance(p) ==
    /\ pc[p] = "advance"
    /\ pc' = [pc EXCEPT ![p] = "out"]
    /\ phase' = [phase EXCEPT ![p] = (@ + 1) % 3]
    /\ ep' = [ep EXCEPT ![p] = @ + 1]
    /\ UNCHANGED <<sems, syncVars>>

\* The steps of wait() and signal() on a SingleSyncCond.
Condition(p) ==
    /\ \/ CheckFail(p, Holds(p))
       \/ LockPass(p, Holds(p))
       \/ LockFail(p, Holds(p))
       \/ NoNext(p)
       \/ SuspendSingle(p)
       \/ SignalLock(p)
       \/ WakeOne(p)
    /\ UNCHANGED localVars

Act(p) ==
    \/ Enter(p)
    \/ BeginWait(p) \/ WaitReturns(p)
    \/ Set(p) \/ SignalReturns(p)
    \/ Advance(p)
    \/ Condition(p)

Next == \E p \in Procs : Act(p)

Spec == Init /\ [][Next]_vars

-----------------------------------------------------------------------------
reached == [p \in Procs |-> ep[p] + (IF pc[p] = "out" THEN 0 ELSE 1)]

Abstract == INSTANCE Barrier WITH Participants <- Procs, returned <- ep

(* "When it returns it guarantees that all participants have reached the
   barrier" (src/src/core/barrier_decl.hpp:51-55): the phases of the nodes are
   enough to tell an arrival from one of an earlier episode. *)
ImplementsBarrier == Abstract!Spec
-----------------------------------------------------------------------------
(* The inductive invariant behind ImplementsBarrier.                       *)

\* How often a node has told its parent, and how often its parent has told it: once more
\* than the calls that have returned from the store on.
Reported(p) ==
    \/ pc[p] \in {"top", "free1", "free2", "advance"}
    \/ pc[p] = "report" /\ at[p] # "idle"
Reports(p) == ep[p] + (IF Reported(p) THEN 1 ELSE 0)

Freed(p) ==
    LET place == IF Side(p) = "left" THEN "free1" ELSE "free2"
    IN  \/ pc[Parent(p)] = "advance"
        \/ place = "free1" /\ pc[Parent(p)] = "free2"
        \/ pc[Parent(p)] = place /\ at[Parent(p)] # "idle"
Frees(p) == ep[Parent(p)] + (IF Freed(p) THEN 1 ELSE 0)

\* The parent has got past its wait for the node.
Heard(p) ==
    \/ pc[Parent(p)] \in {"report", "top", "free1", "free2", "advance"}
    \/ Side(p) = "left" /\ pc[Parent(p)] = "right"

Children == Procs \ {0}

\* An int keeps the count of those who wait for it, modulo 3.
CountInv ==
    /\ \A p \in Procs : phase[p] = (ep[p] + 1) % 3
    /\ \A p \in Children : /\ sems[<<Parent(p), Side(p)>>] = Reports(p) % 3
                           /\ sems[<<p, "parent">>] = Frees(p) % 3

\* Parent and child are at most one message apart, each in its direction.
LinkInv ==
    \A p \in Children :
       /\ \/ Frees(p) = ep[p]
          \/ Frees(p) = ep[p] + 1 /\ Reported(p)
       /\ pc[p] \in {"free1", "free2", "advance"} => Frees(p) = ep[p] + 1
       /\ Heard(p) /\ ~Freed(p) => Reports(p) = ep[Parent(p)] + 1

\* A node executes what applies to it, on the condition of the statement it is at.
PlaceInv ==
    \A p \in Procs :
       /\ pc[p] # "out" => Applies(p, pc[p]) /\ ep[p] < MaxEpisodes
       /\ at[p] \in {"check", "lock", "switch", "asleep"} => pc[p] \in Waits
       /\ at[p] \in {"siglock", "waking"} => pc[p] \in Sets
       /\ at[p] # "idle" => on[p] = Target(p, pc[p])
       /\ \A c \in Conds : p \in waiters[c] => at[p] = "asleep" /\ on[p] = c

Inductive == TypeOK /\ PlaceInv /\ CountInv /\ LinkInv
=============================================================================
