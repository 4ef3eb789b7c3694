------------------------- MODULE CentralizedBarrier -------------------------
(***************************************************************************)
(* CentralizedBarrier::barrier (src/src/plugins/barr/                      *)
(* centralized_barrier.cpp): one atomic counter, and a flag whose two      *)
(* values are the two conditions the participants wait on.  A condition    *)
(* c \in BOOLEAN is _syncCondTrue or _syncCondFalse; it holds when         *)
(* _flag = c.                                                              *)
(*                                                                         *)
(* pc[p]: out      not in barrier()                                        *)
(*        count    has read _flag, is about to increment _sem              *)
(*        reduce   last to arrive, runs the reductions                     *)
(*        clear    sets _sem to 0                                          *)
(*        flip     sets _flag                                              *)
(*        release  in signal()                                             *)
(*        wait     in wait()                                               *)
(* branch[p] is the value of _flag the call branched on.  ep and reduced   *)
(* are history variables: the calls p has returned from, and the times     *)
(* computeVectorReductions has run.                                        *)
(***************************************************************************)
EXTENDS SyncCond, Integers

CONSTANT MaxEpisodes  \* barriers the participants go through

ASSUME ParticipantsAssumption == IsFiniteSet(Procs) /\ Procs # {}
ASSUME MaxEpisodesAssumption == MaxEpisodes \in Nat

VARIABLES pc, branch, sem, flag, ep, reduced

localVars == <<pc, branch, sem, flag, ep, reduced>>
vars == <<pc, branch, sem, flag, ep, reduced, syncVars>>

N == Cardinality(Procs)

TypeOK ==
    /\ pc \in [Procs -> {"out", "count", "reduce", "clear", "flip", "release", "wait"}]
    /\ branch \in [Procs -> BOOLEAN]
    /\ sem \in 0..N
    /\ flag \in BOOLEAN
    /\ ep \in [Procs -> 0..MaxEpisodes]
    /\ reduced \in 0..MaxEpisodes
    /\ SyncTypeOK(BOOLEAN)

Init ==
    /\ pc = [p \in Procs |-> "out"]
    /\ branch = [p \in Procs |-> FALSE]
    /\ sem = 0
    /\ flag = FALSE
    /\ ep = [p \in Procs |-> 0]
    /\ reduced = 0
    /\ SyncInit(BOOLEAN, FALSE)

Step(p, from, to) == pc[p] = from /\ pc' = [pc EXCEPT ![p] = to]

-----------------------------------------------------------------------------
\* The call, up to the branch on _flag.
Enter(p) ==
    /\ ep[p] < MaxEpisodes
    /\ Step(p, "out", "count")
    /\ branch' = [branch EXCEPT ![p] = flag]
    /\ UNCHANGED <<sem, flag, ep, reduced, syncVars>>

\* Mutant of CountLast: releases the barrier one participant too early.
CountLastEarly(p) ==
    /\ sem + 2 = N
    /\ Step(p, "count", "reduce")
    /\ sem' = sem + 1
    /\ UNCHANGED <<branch, flag, ep, reduced, syncVars>>

\* val = ++_sem, and the branch on val == _numParticipants: the last one in ...
CountLast(p) ==
    /\ sem + 1 = N
    /\ Step(p, "count", "reduce")
    /\ sem' = sem + 1
    /\ UNCHANGED <<branch, flag, ep, reduced, syncVars>>

\* Mutant of CountOther: waits on the condition of the other branch.
CountOtherSwapped(p) ==
    /\ sem + 1 # N
    /\ Step(p, "count", "wait")
    /\ sem' = sem + 1
    /\ StartWait(p, branch[p])
    /\ UNCHANGED <<branch, flag, ep, reduced>>

\* ... and the others, who wait for the flag to be reversed.
CountOther(p) ==
    /\ sem + 1 # N
    /\ Step(p, "count", "wait")
    /\ sem' = sem + 1
    /\ StartWait(p, ~branch[p])
    /\ UNCHANGED <<branch, flag, ep, reduced>>

\* Mutant of Reduce: the reductions are forgotten.
ReduceNothing(p) ==
    /\ Step(p, "reduce", "clear")
    /\ UNCHANGED <<branch, sem, flag, ep, reduced, syncVars>>

Reduce(p) ==
    /\ Step(p, "reduce", "clear")
    /\ reduced' = reduced + 1
    /\ UNCHANGED <<branch, sem, flag, ep, syncVars>>

\* Mutant of Clear: _sem is not reset.
ClearNothing(p) ==
    /\ Step(p, "clear", "flip")
    /\ UNCHANGED <<branch, sem, flag, ep, reduced, syncVars>>

Clear(p) ==
    /\ Step(p, "clear", "flip")
    /\ sem' = 0
    /\ UNCHANGED <<branch, flag, ep, reduced, syncVars>>

Flip(p) ==
    /\ Step(p, "flip", "release")
    /\ flag' = ~branch[p]
    /\ StartSignal(p, ~branch[p])
    /\ UNCHANGED <<branch, sem, ep, reduced>>

Return(p, from) ==
    /\ Step(p, from, "out")
    /\ ep' = [ep EXCEPT ![p] = @ + 1]
    /\ UNCHANGED <<branch, sem, flag, reduced>>

WaitReturns(p) == CheckPass(p, flag = on[p]) /\ Return(p, "wait")

SignalReturns(p) == SignalUnlock(p) /\ Return(p, "release")

\* The steps of wait() and signal() that touch only the condition.
Condition(p) ==
    /\ \/ CheckFail(p, flag = on[p])
       \/ LockPass(p, flag = on[p])
       \/ LockFail(p, flag = on[p])
       \/ NoNext(p)
       \/ Suspend(p)
       \/ SignalLock(p)
       \/ WakeOne(p)
    /\ UNCHANGED localVars

Act(p) ==
    \/ Enter(p) \/ CountLast(p) \/ CountOther(p)
    \/ Reduce(p) \/ Clear(p) \/ Flip(p)
    \/ WaitReturns(p) \/ SignalReturns(p)
    \/ Condition(p)

Next == \E p \in Procs : Act(p)

Spec == Init /\ [][Next]_vars
=============================================================================
