----------------------- MODULE OldCentralizedBarrier -----------------------
(***************************************************************************)
(* OldCentralizedBarrier::barrier (src/src/plugins/barr/                   *)
(* old_centralized_barrier.cpp): everyone counts _sem up and waits for     *)
(* _flag, then counts it down and waits for the flag to fall.  Condition   *)
(* c \in BOOLEAN holds when _flag = c.                                     *)
(*                                                                         *)
(* pc[p]: out             not in barrier()                                 *)
(*        open, close     about to set _flag, to reset it                  *)
(*        signal, rewake  in _syncCondTrue.signal(), _syncCondFalse's      *)
(*        reduce          about to run the reductions                      *)
(*        up, down        in _syncCondTrue.wait(), _syncCondFalse's        *)
(*        depart          about to decrement _sem                          *)
(* ep and reduced are history variables, as in CentralizedBarrier.         *)
(***************************************************************************)
EXTENDS SyncCond, Integers

CONSTANT MaxEpisodes

VARIABLES pc, sem, flag, ep, reduced

localVars == <<pc, sem, flag, ep, reduced>>
vars == <<pc, sem, flag, ep, reduced, syncVars>>

N == Cardinality(Procs)

TypeOK ==
    /\ pc \in [Procs -> {"out", "open", "signal", "reduce", "up", "depart", "close", "rewake", "down"}]
    /\ sem \in 0..N
    /\ flag \in BOOLEAN
    /\ ep \in [Procs -> 0..MaxEpisodes]
    /\ reduced \in 0..MaxEpisodes
    /\ SyncTypeOK(BOOLEAN)

Init ==
    /\ pc = [p \in Procs |-> "out"]
    /\ sem = 0
    /\ flag = FALSE
    /\ ep = [p \in Procs |-> 0]
    /\ reduced = 0
    /\ SyncInit(BOOLEAN, FALSE)

Step(p, from, to) == pc[p] = from /\ pc' = [pc EXCEPT ![p] = to]

-----------------------------------------------------------------------------
\* val = ++_sem, and the branch on val == _numParticipants.
ArriveLast(p) ==
    /\ ep[p] < MaxEpisodes
    /\ sem + 1 = N
    /\ Step(p, "out", "open")
    /\ sem' = sem + 1
    /\ UNCHANGED <<flag, ep, reduced, syncVars>>

ArriveOther(p) ==
    /\ ep[p] < MaxEpisodes
    /\ sem + 1 # N
    /\ Step(p, "out", "up")
    /\ sem' = sem + 1
    /\ StartWait(p, TRUE)
    /\ UNCHANGED <<flag, ep, reduced>>

Open(p) ==
    /\ Step(p, "open", "signal")
    /\ flag' = TRUE
    /\ StartSignal(p, TRUE)
    /\ UNCHANGED <<sem, ep, reduced>>

Signalled(p) ==
    /\ Step(p, "signal", "reduce")
    /\ SignalUnlock(p)
    /\ UNCHANGED <<sem, flag, ep, reduced>>

\* computeVectorReductions: the waiters have been released already.
Reduce(p) ==
    /\ Step(p, "reduce", "depart")
    /\ reduced' = reduced + 1
    /\ UNCHANGED <<sem, flag, ep, syncVars>>

Opened(p) ==
    /\ Step(p, "up", "depart")
    /\ CheckPass(p, flag = TRUE)
    /\ UNCHANGED <<sem, flag, ep, reduced>>

\* Mutant of DepartLast: the last decrement is forgotten.
DepartLastUncounted(p) ==
    /\ sem - 1 = 0
    /\ Step(p, "depart", "close")
    /\ UNCHANGED <<sem, flag, ep, reduced, syncVars>>

\* val = --_sem, and the branch on val == 0.
DepartLast(p) ==
    /\ sem - 1 = 0
    /\ Step(p, "depart", "close")
    /\ sem' = sem - 1
    /\ UNCHANGED <<flag, ep, reduced, syncVars>>

DepartOther(p) ==
    /\ sem - 1 # 0
    /\ Step(p, "depart", "down")
    /\ sem' = sem - 1
    /\ StartWait(p, FALSE)
    /\ UNCHANGED <<flag, ep, reduced>>

Close(p) ==
    /\ Step(p, "close", "rewake")
    /\ flag' = FALSE
    /\ StartSignal(p, FALSE)
    /\ UNCHANGED <<sem, ep, reduced>>

Return(p, from) ==
    /\ Step(p, from, "out")
    /\ ep' = [ep EXCEPT ![p] = @ + 1]
    /\ UNCHANGED <<sem, flag, reduced>>

WaitReturns(p) == CheckPass(p, flag = FALSE) /\ Return(p, "down")

SignalReturns(p) == SignalUnlock(p) /\ Return(p, "rewake")

Condition(p) ==
    /\ \/ CheckFail(p, flag = on[p])
       \/ LockPass(p, flag = on[p])
       \/ LockFail(p, flag = on[p])
       \/ NoNext(p)
       \/ Suspend(p)
       \/ SignalLock(p)
       \/ WakeOne(p)
    /\ UNCHANGED localVars

Act(p) ==
    \/ ArriveLast(p) \/ ArriveOther(p)
    \/ Open(p) \/ Signalled(p) \/ Reduce(p) \/ Opened(p)
    \/ DepartLast(p) \/ DepartOther(p) \/ Close(p)
    \/ WaitReturns(p) \/ SignalReturns(p)
    \/ Condition(p)

Next == \E p \in Procs : Act(p)

Spec == Init /\ [][Next]_vars

-----------------------------------------------------------------------------
reached == [p \in Procs |-> ep[p] + (IF pc[p] = "out" THEN 0 ELSE 1)]

Abstract == INSTANCE Barrier WITH Participants <- Procs, returned <- ep

(* "When it returns it guarantees that all participants have reached the
   barrier" (src/src/core/barrier_decl.hpp:51-55), although a participant may
   be back at the counter before a slow one has seen the flag. *)
ImplementsBarrier == Abstract!Spec

(* The reductions run once per episode and before anyone leaves, although
   everyone has been released when they start: the second phase is what keeps
   the participants in (the FIXME at old_centralized_barrier.cpp:103). *)
ReducedBetween ==
    \A p \in Procs : ep[p] <= reduced /\ reduced <= reached[p]
-----------------------------------------------------------------------------
(* The inductive invariant behind ImplementsBarrier and ReducedBetween.    *)

\* The episode everyone is in, but for those yet to leave the one before: one less than
\* the reductions once the flag is up and they have run.
Episode ==
    IF flag /\ \A p \in Procs : pc[p] \notin {"signal", "reduce"} THEN reduced - 1 ELSE reduced

\* Those who have counted themselves in and not yet out.
Counted == {p \in Procs : pc[p] \in {"open", "up", "signal", "reduce", "depart"}}

SemInv == sem = Cardinality(Counted)

\* What the flag says about where a participant may be, and in which episode.
EpisodeInv ==
    \A p \in Procs :
       /\ pc[p] \in {"out", "open", "rewake"} => ~flag
       /\ pc[p] \in {"signal", "reduce", "depart", "close"} => flag
       /\ ep[p] = IF ~flag /\ pc[p] \in {"rewake", "down"} THEN Episode - 1 ELSE Episode
       /\ pc[p] # "out" => ep[p] < MaxEpisodes

\* Where the others may be while the last to arrive opens, or the last to depart closes.
LeaderInv ==
    \A p, q \in Procs :
       p # q => /\ pc[p] = "open" => pc[q] = "up"
                /\ pc[p] \in {"signal", "reduce"} => pc[q] \in {"up", "depart", "down"}
                /\ pc[p] = "close" => pc[q] = "down"

Inductive == TypeOK /\ SemInv /\ EpisodeInv /\ LeaderInv
=============================================================================
