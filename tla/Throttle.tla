------------------------------ MODULE Throttle ------------------------------
(***************************************************************************)
(* The default throttle (src/src/plugins/throttle/hysteresis_throttle.cpp):*)
(* the creator of first level tasks stops above Upper tasks per thread and *)
(* waits on a condition until at most Lower tasks are left.  A thread that *)
(* ends a task tells the throttle before it counts the task out            *)
(* (Scheduler::updateExitStats).  The creator is a WD like the others: a   *)
(* thread that waits for it polls the condition, or runs a task and leaves *)
(* it among the waiters (Scheduler::waitOnCondition).                      *)
(***************************************************************************)
EXTENDS Integers, FiniteSets

CONSTANTS Threads, Upper, Lower, Tasks   \* Tasks are to be created

VARIABLES total,     \* SchedulerStats::_totalTasks, which counts the creator too
          made, ready,
          creator,   \* where it is: creating, polling, waiting, queued
          place      \* of each thread: idle, creator, body, out, signal, count

throttleVars == <<total, made, ready, creator, place>>
Workers == Cardinality(Threads)

ThrottleInit ==
    /\ total = 1 /\ made = 0 /\ ready = 0
    /\ creator = "creating"
    /\ \E t \in Threads : place = [u \in Threads |-> IF u = t THEN "creator" ELSE "idle"]

Put(t, p) == place' = [place EXCEPT ![t] = p]

\* throttleIn, then the task.
Create(t) ==
    /\ place[t] = "creator" /\ creator = "creating" /\ made < Tasks
    /\ IF total > Upper * Workers
       THEN creator' = "polling" /\ UNCHANGED <<total, made, ready>>
       ELSE /\ total' = total + 1 /\ made' = made + 1 /\ ready' = ready + 1
            /\ UNCHANGED creator
    /\ UNCHANGED place

\* Out of throttleIn, a task is created without another look.
Resume(t) ==
    /\ place[t] = "creator" /\ creator = "polling" /\ total <= Lower
    /\ creator' = "creating"
    /\ total' = total + 1 /\ made' = made + 1 /\ ready' = ready + 1
    /\ UNCHANGED place

\* Under the lock of the condition, until the waiter is on the list.
Block(t) ==
    /\ place[t] = "creator" /\ creator = "polling" /\ total > Lower
    /\ ready > 0
    /\ ready' = ready - 1
    /\ creator' = "waiting" /\ Put(t, "body")
    /\ UNCHANGED <<total, made>>

\* Having created all, the creator does nothing that matters here.
Done(t) ==
    /\ place[t] = "creator" /\ creator = "creating" /\ made = Tasks
    /\ creator' = "done" /\ Put(t, "idle")
    /\ UNCHANGED <<total, made, ready>>

TakeTask(t) ==
    /\ place[t] = "idle" /\ ready > 0
    /\ ready' = ready - 1
    /\ Put(t, "body")
    /\ UNCHANGED <<total, made, creator>>

TakeCreator(t) ==
    /\ place[t] = "idle" /\ creator = "queued"
    /\ creator' = "polling" /\ Put(t, "creator")
    /\ UNCHANGED <<total, made, ready>>

EndBody(t) ==
    /\ place[t] = "body"
    /\ Put(t, "out")
    /\ UNCHANGED <<total, made, ready, creator>>

ThrottleOut(t) ==
    /\ place[t] = "out"
    /\ Put(t, IF total <= Lower * Workers THEN "signal" ELSE "count")
    /\ UNCHANGED <<total, made, ready, creator>>

\* Mutant of Signal: the waiter is left on the list.
SignalNobody(t) ==
    /\ place[t] = "signal"
    /\ Put(t, "count")
    /\ UNCHANGED <<total, made, ready, creator>>

\* All waiters are woken, whether the condition holds or not.
Signal(t) ==
    /\ place[t] = "signal"
    /\ creator' = IF creator = "waiting" THEN "queued" ELSE creator
    /\ Put(t, "count")
    /\ UNCHANGED <<total, made, ready>>

CountOut(t) ==
    /\ place[t] = "count"
    /\ total' = total - 1
    /\ Put(t, "idle")
    /\ UNCHANGED <<made, ready, creator>>

ThrottleStep(t) ==
    \/ Create(t) \/ Resume(t) \/ Block(t) \/ Done(t) \/ TakeTask(t) \/ TakeCreator(t)
    \/ EndBody(t) \/ ThrottleOut(t) \/ Signal(t) \/ CountOut(t)

ThrottleNext == \E t \in Threads : ThrottleStep(t)

\* Every thread is scheduled, and tasks end.
ThrottleSpec ==
    ThrottleInit /\ [][ThrottleNext]_throttleVars /\ \A t \in Threads : WF_throttleVars(ThrottleStep(t))

----------------------------------------------------------------------------
(* The creator goes on after each wait, however the exits of the last tasks
   interleave (throttleOut is called before the task is counted out). *)
CreatorGoesOn == <>(creator = "done")
=============================================================================
