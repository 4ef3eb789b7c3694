------------------------------ MODULE SyncCond ------------------------------
(***************************************************************************)
(* The condition objects work descriptors block on                         *)
(* (src/src/core/synchronizedcondition*.hpp) together with the part of     *)
(* Scheduler::waitOnCondition and Scheduler::switchHelper that drives      *)
(* them.  A condition is a lock, a set of suspended waiters, and a         *)
(* predicate on some shared variable.  The predicate belongs to the module *)
(* that uses the condition, which passes its value as the argument holds.  *)
(*                                                                         *)
(* at[p] is where process p stands in wait() or signal():                  *)
(*   idle    not in an operation of a condition                            *)
(*   check   loop head of waitOnCondition: the unlocked check              *)
(*   lock    spins exhausted, about to lock the condition and check again  *)
(*   switch  lock held, second check failed, looking for other work        *)
(*   asleep  switched out by switchHelper, stored in the condition         *)
(*   siglock about to lock the condition in signal()                       *)
(*   waking  lock held, in the loop of signal() that empties the waiters   *)
(* on[p] is the condition of the operation p is in.                        *)
(***************************************************************************)
EXTENDS FiniteSets

CONSTANTS Procs,    \* the work descriptors that wait and signal
          NoProc    \* owner of a free lock

ASSUME NoProcAssumption == NoProc \notin Procs

VARIABLES at, on, owner, waiters

syncVars == <<at, on, owner, waiters>>

Places == {"idle", "check", "lock", "switch", "asleep", "siglock", "waking"}

SyncTypeOK(Conds) ==
    /\ at \in [Procs -> Places]
    /\ on \in [Procs -> Conds]
    /\ owner \in [Conds -> Procs \cup {NoProc}]
    /\ waiters \in [Conds -> SUBSET Procs]

SyncInit(Conds, c0) ==
    /\ at = [p \in Procs |-> "idle"]
    /\ on = [p \in Procs |-> c0]
    /\ owner = [c \in Conds |-> NoProc]
    /\ waiters = [c \in Conds |-> {}]

Goto(p, from, to) == at[p] = from /\ at' = [at EXCEPT ![p] = to]

Release(p) == owner' = [owner EXCEPT ![on[p]] = NoProc]

Acquire(p) ==
    /\ owner[on[p]] = NoProc
    /\ owner' = [owner EXCEPT ![on[p]] = p]

-----------------------------------------------------------------------------
(* wait() *)

StartWait(p, c) ==
    /\ Goto(p, "idle", "check")
    /\ on' = [on EXCEPT ![p] = c]
    /\ UNCHANGED <<owner, waiters>>

\* while ( !condition->check() )
CheckPass(p, holds) ==
    /\ holds
    /\ Goto(p, "check", "idle")
    /\ UNCHANGED <<on, owner, waiters>>

\* The check failed and the last spin is used up.
CheckFail(p, holds) ==
    /\ ~holds
    /\ Goto(p, "check", "lock")
    /\ UNCHANGED <<on, owner, waiters>>

\* condition->lock(), the second check, and condition->unlock() if it holds.
LockPass(p, holds) ==
    /\ holds
    /\ owner[on[p]] = NoProc
    /\ Goto(p, "lock", "check")
    /\ UNCHANGED <<on, owner, waiters>>

\* Mutant of LockFail: no second check under the lock.
LockFailUnchecked(p, holds) ==
    /\ Goto(p, "lock", "switch")
    /\ Acquire(p)
    /\ UNCHANGED <<on, waiters>>

LockFail(p, holds) ==
    /\ ~holds
    /\ Goto(p, "lock", "switch")
    /\ Acquire(p)
    /\ UNCHANGED <<on, waiters>>

\* No other work descriptor is ready: unlock and loop.
NoNext(p) == Goto(p, "switch", "check") /\ Release(p) /\ UNCHANGED <<on, waiters>>

\* switchHelper, on the stack of the next work descriptor: addWaiter, unlock.
Suspend(p) ==
    /\ Goto(p, "switch", "asleep")
    /\ waiters' = [waiters EXCEPT ![on[p]] = @ \cup {p}]
    /\ Release(p)
    /\ UNCHANGED on

\* The same on a SingleSyncCond: addWaiter overwrites the waiter it holds.
SuspendSingle(p) ==
    /\ Goto(p, "switch", "asleep")
    /\ waiters' = [waiters EXCEPT ![on[p]] = {p}]
    /\ Release(p)
    /\ UNCHANGED on

-----------------------------------------------------------------------------
(* signal() *)

StartSignal(p, c) ==
    /\ Goto(p, "idle", "siglock")
    /\ on' = [on EXCEPT ![p] = c]
    /\ UNCHANGED <<owner, waiters>>

SignalLock(p) ==
    /\ Goto(p, "siglock", "waking")
    /\ Acquire(p)
    /\ UNCHANGED <<on, waiters>>

\* getAndRemoveWaiter and Scheduler::wakeUp: the waiter runs again.
WakeOne(p) ==
    /\ at[p] = "waking"
    /\ \E q \in waiters[on[p]] :
         /\ waiters' = [waiters EXCEPT ![on[p]] = @ \ {q}]
         /\ at' = [at EXCEPT ![q] = "check"]
    /\ UNCHANGED <<on, owner>>

\* Mutant of SignalUnlock: leaves the loop before the waiters are empty.
SignalUnlockEarly(p) ==
    /\ Goto(p, "waking", "idle")
    /\ Release(p)
    /\ UNCHANGED <<on, waiters>>

SignalUnlock(p) ==
    /\ waiters[on[p]] = {}
    /\ Goto(p, "waking", "idle")
    /\ Release(p)
    /\ UNCHANGED <<on, waiters>>

=============================================================================
