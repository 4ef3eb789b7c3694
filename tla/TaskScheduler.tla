--------------------------- MODULE TaskScheduler ---------------------------
(***************************************************************************)
(* The life of work descriptors (WDs) under the breadth-first policy:      *)
(* Scheduler (src/src/core/schedule.cpp) with the group protocol of        *)
(* WorkGroup (workgroup.cpp) and the queues of WDDeque (wddeque.hpp).      *)
(*                                                                         *)
(* Every thread runs one WD at a time, cur[t].  With user-level threads    *)
(* (ULT) a WD that waits is switched out and may resume on another thread; *)
(* a WD taken by a worker's idle loop is inlined on the stack of the       *)
(* worker's own WD, which is then beneath it (under).  Without user-level  *)
(* threads every WD is inlined on top of the WD that waits.                *)
(*                                                                         *)
(* pc[w]: unborn   not created                                             *)
(*        new      created and submitted, not started                      *)
(*        body     in user code                                            *)
(*        idle     a worker's WD, in the idle loop                         *)
(*        wait     loop head of waitOnCondition on its own group           *)
(*        locked   condition locked, second check failed                   *)
(*        blocked  suspended, stored as the waiter of its group            *)
(*        drain    spinning until no signaller refers to the group         *)
(*        ref, dec, signal, unref   in the parent's exitWork               *)
(*        leave    done() has returned                                     *)
(*        seek     idle loop of a WD that has exited                       *)
(*        gone, done    destroyed; the main WD's wait is over              *)
(***************************************************************************)
EXTENDS Integers, FiniteSets, Sequences, SequencesExt

CONSTANTS Threads, Master,   \* Master runs the main WD, the others are workers
          Tasks, Main,       \* the WDs the program creates, the main WD
          Parent,            \* which WD creates each task
          TiedTasks,         \* tasks created with the tied property
          ULT,               \* user-level threads are in use
          Unwaited,          \* tasks may end with children they never waited for
          MaxYields,         \* calls of yield by user code
          MaxStops,          \* calls of stopScheduler
          None

Workers == Threads \ {Master}
UserWDs == Tasks \cup {Main}
WDs == UserWDs \cup Workers

ASSUME MasterAssumption == Master \in Threads
ASSUME NamesAssumption ==
    /\ Main \notin Tasks
    /\ UserWDs \cap Threads = {}
    /\ None \notin WDs \cup Threads
ASSUME ParentAssumption == Parent \in [Tasks -> UserWDs]
ASSUME TasksAssumption == IsFiniteSet(Tasks)
ASSUME TiedAssumption == TiedTasks \subseteq Tasks
ASSUME BoundsAssumption ==
    /\ ULT \in BOOLEAN /\ Unwaited \in BOOLEAN
    /\ MaxYields \in Nat /\ MaxStops \in Nat

VARIABLES
    pc,        \* see above
    cur,       \* BaseThread::_currentWD
    ready,     \* the team's ready queue
    nexts,     \* BaseThread::_nextWDs
    under,     \* the WD whose stack an inlined WD runs on
    tied,      \* the thread a WD is tied to
    comps,     \* WorkGroup::_components
    refs,      \* the reference count of the group's condition
    ending,    \* the WD is in done(), not in a taskwait
    fresh,     \* the WD has created children since its last taskwait
    held,      \* next in Scheduler::exit: taken before the WD is finished
    home,      \* thread in Scheduler::exit: where the WD was when it called it
    enabled,   \* SchedulerConf::_schedulerEnabled
    yields, stops

queues == <<ready, nexts>>
group == <<comps, refs>>
exit == <<ending, held, home>>
counts == <<yields, stops>>
vars == <<pc, cur, queues, under, tied, group, exit, fresh, enabled, counts>>

Places == {"unborn", "new", "body", "idle", "wait", "locked", "blocked", "drain", "ref",
           "dec", "signal", "unref", "leave", "seek", "gone", "done"}

TypeOK ==
    /\ pc \in [WDs -> Places]
    /\ cur \in [Threads -> WDs]
    /\ ready \in Seq(WDs)
    /\ nexts \in [Threads -> Seq(WDs)]
    /\ under \in [WDs -> WDs \cup {None}]
    /\ tied \in [WDs -> Threads \cup {None}]
    /\ comps \in [WDs -> Nat]
    /\ refs \in [WDs -> Nat]
    /\ ending \in [WDs -> BOOLEAN]
    /\ fresh \in [WDs -> BOOLEAN]
    /\ held \in [WDs -> WDs \cup {None}]
    /\ home \in [WDs -> Threads \cup {None}]
    /\ enabled \in BOOLEAN
    /\ yields \in 0..MaxYields
    /\ stops \in 0..MaxStops

OwnWD(t) == IF t = Master THEN Main ELSE t

Init ==
    /\ pc = [w \in WDs |-> IF w = Main THEN "body" ELSE IF w \in Workers THEN "idle" ELSE "unborn"]
    /\ cur = [t \in Threads |-> OwnWD(t)]
    /\ ready = <<>>
    /\ nexts = [t \in Threads |-> <<>>]
    /\ under = [w \in WDs |-> None]
    /\ tied = [w \in WDs |-> IF w \in Workers THEN w ELSE None]
    /\ comps = [w \in WDs |-> 0]
    /\ refs = [w \in WDs |-> 0]
    /\ ending = [w \in WDs |-> FALSE]
    /\ fresh = [w \in WDs |-> FALSE]
    /\ held = [w \in WDs |-> None]
    /\ home = [w \in WDs |-> None]
    /\ enabled = TRUE
    /\ yields = 0
    /\ stops = 0

At(t, w, from) == cur[t] = w /\ pc[w] = from

Move(t, w, from, to) == At(t, w, from) /\ pc' = [pc EXCEPT ![w] = to]

-----------------------------------------------------------------------------
(* The queues *)

\* Mutant of CanRun: ties are ignored.
CanRunUntied(w, t) == ULT \/ pc[w] = "new"

\* Scheduler::checkBasicConstraints and canRunIn: the tie, and no started WD
\* where there are no user-level threads.
CanRun(w, t) == tied[w] \in {None, t} /\ (ULT \/ pc[w] = "new")

\* The first WD of queue q that may run on t is the one at i.
First(q, t, i) == CanRun(q[i], t) /\ \A j \in 1..(i - 1) : ~CanRun(q[j], t)

NoneFor(q, t) == \A i \in DOMAIN q : ~CanRun(q[i], t)

\* Takes x from t's own next WDs and puts the WDs in back in the ready queue.
PopNext(t, x, back) ==
    \E i \in DOMAIN nexts[t] :
       /\ First(nexts[t], t, i)
       /\ x = nexts[t][i]
       /\ nexts' = [nexts EXCEPT ![t] = RemoveAt(@, i)]
       /\ ready' = ready \o back

\* Mutant of PopReady: the WD is not erased from the queue.
PopReadyKept(t, x, back) ==
    \E i \in DOMAIN ready :
       /\ First(ready, t, i)
       /\ x = ready[i]
       /\ ready' = ready \o back
       /\ UNCHANGED nexts

PopReady(t, x, back) ==
    \E i \in DOMAIN ready :
       /\ First(ready, t, i)
       /\ x = ready[i]
       /\ ready' = RemoveAt(ready, i) \o back
       /\ UNCHANGED nexts

\* getNextWD and, if it finds nothing, atIdle, atBlock or atAfterExit.
\* The two reads are one step.
Take(t, x, back) ==
    /\ enabled
    /\ \/ PopNext(t, x, back)
       \/ NoneFor(nexts[t], t) /\ PopReady(t, x, back)

NothingFor(t) == enabled => NoneFor(nexts[t], t) /\ NoneFor(ready, t)

-----------------------------------------------------------------------------
(* Switching *)

Started(x) == IF pc[x] = "new" THEN "body" ELSE pc[x]

\* Thread t leaves w, which stays at place, and runs x on the stack of x.
SwitchStacks(t, w, place, x) ==
    /\ pc' = [pc EXCEPT ![w] = place, ![x] = Started(x)]
    /\ tied' = [tied EXCEPT ![x] = IF pc[x] = "new" /\ x \in TiedTasks THEN t ELSE @]
    /\ cur' = [cur EXCEPT ![t] = x]
    /\ UNCHANGED under

\* Thread t runs x, which has not started, on top of w.
InlineWork(t, w, place, x) ==
    /\ pc' = [pc EXCEPT ![w] = place, ![x] = "body"]
    /\ tied' = [tied EXCEPT ![x] = IF x \in TiedTasks THEN t ELSE IF @ = None THEN tied[w] ELSE @]
    /\ under' = [under EXCEPT ![x] = w]
    /\ cur' = [cur EXCEPT ![t] = x]

-----------------------------------------------------------------------------
(* The program *)

\* createWD and submit: the parent's group counts the child, the policy queues it.
Spawn(t, w, c) ==
    /\ At(t, w, "body")
    /\ Parent[c] = w
    /\ pc[c] = "unborn"
    /\ pc' = [pc EXCEPT ![c] = "new"]
    /\ comps' = [comps EXCEPT ![w] = @ + 1]
    /\ ready' = Append(ready, c)
    /\ fresh' = [fresh EXCEPT ![w] = TRUE]
    /\ UNCHANGED <<cur, nexts, under, tied, refs, exit, enabled, counts>>

Taskwait(t, w) ==
    /\ fresh[w]
    /\ enabled
    /\ Move(t, w, "body", "wait")
    /\ fresh' = [fresh EXCEPT ![w] = FALSE]
    /\ UNCHANGED <<cur, queues, under, tied, group, exit, enabled, counts>>

\* Scheduler::yield, when atYield finds another WD.
Yield(t, w, x) ==
    /\ yields < MaxYields
    /\ yields' = yields + 1
    /\ At(t, w, "body")
    /\ enabled
    /\ IF ULT
         THEN PopReady(t, x, <<w>>) /\ SwitchStacks(t, w, "body", x)
         ELSE PopReady(t, x, <<>>) /\ InlineWork(t, w, "body", x)
    /\ UNCHANGED <<group, exit, fresh, enabled, stops>>

\* The body returns to Scheduler::exit, which takes its next WD at once, ...
ExitULT(t, w) ==
    /\ ULT /\ under[w] = None /\ w # Main
    /\ \/ \E x \in WDs : enabled /\ PopNext(t, x, <<>>) /\ held' = [held EXCEPT ![w] = x]
       \/ (enabled => NoneFor(nexts[t], t)) /\ UNCHANGED <<queues, held>>
    /\ home' = [home EXCEPT ![w] = t]

\* ... or to inlineWork, or, for the main WD, to System::finish.
ReturnInlined(w) ==
    /\ under[w] # None \/ w = Main
    /\ UNCHANGED <<queues, held, home>>

\* Mutant of End: done() does not wait for the children.
EndAtOnce(t, w) ==
    /\ Unwaited \/ ~fresh[w] \/ w = Main
    /\ w = Main => enabled
    /\ Move(t, w, "body", IF w = Main THEN "wait" ELSE "ref")
    /\ ending' = [ending EXCEPT ![w] = TRUE]
    /\ ExitULT(t, w) \/ ReturnInlined(w)
    /\ UNCHANGED <<cur, under, tied, group, fresh, enabled, counts>>

\* The end of a body: done() waits for the children.
End(t, w) ==
    /\ Unwaited \/ ~fresh[w] \/ w = Main
    /\ w = Main => enabled
    /\ Move(t, w, "body", "wait")
    /\ ending' = [ending EXCEPT ![w] = TRUE]
    /\ ExitULT(t, w) \/ ReturnInlined(w)
    /\ UNCHANGED <<cur, under, tied, group, fresh, enabled, counts>>

\* nanos_stop_scheduler and nanos_start_scheduler, called by the main WD.
StopScheduler(t) ==
    /\ stops < MaxStops
    /\ At(t, Main, "body")
    /\ enabled
    /\ enabled' = FALSE
    /\ stops' = stops + 1
    /\ UNCHANGED <<pc, cur, queues, under, tied, group, exit, fresh, yields>>

StartScheduler(t) ==
    /\ At(t, Main, "body")
    /\ ~enabled
    /\ enabled' = TRUE
    /\ UNCHANGED <<pc, cur, queues, under, tied, group, exit, fresh, counts>>

-----------------------------------------------------------------------------
(* waitOnCondition and waitConditionAndSignalers on the WD's own group *)

WaitPass(t, w) ==
    /\ comps[w] = 0
    /\ Move(t, w, "wait", "drain")
    /\ UNCHANGED <<cur, queues, under, tied, group, exit, fresh, enabled, counts>>

\* The check fails, the lock is free, and the check fails again.
Lock(t, w) ==
    /\ comps[w] # 0
    /\ Move(t, w, "wait", "locked")
    /\ UNCHANGED <<cur, queues, under, tied, group, exit, fresh, enabled, counts>>

NoNext(t, w) ==
    /\ NothingFor(t)
    /\ Move(t, w, "locked", "wait")
    /\ UNCHANGED <<cur, queues, under, tied, group, exit, fresh, enabled, counts>>

\* switchTo: w becomes the waiter of its group and the lock is released, or,
\* without user-level threads, the lock is released and x runs on top of w.
SwitchAway(t, w, x) ==
    /\ At(t, w, "locked")
    /\ Take(t, x, <<>>)
    /\ IF ULT THEN SwitchStacks(t, w, "blocked", x) ELSE InlineWork(t, w, "wait", x)
    /\ UNCHANGED <<group, exit, fresh, enabled, counts>>

AfterWait(w) ==
    CASE ~ending[w] -> "body"
      [] ending[w] /\ w = Main -> "done"
      [] OTHER -> "ref"

\* Mutant of Drain: wait() in place of waitConditionAndSignalers().
DrainUnchecked(t, w) ==
    /\ Move(t, w, "drain", AfterWait(w))
    /\ UNCHANGED <<cur, queues, under, tied, group, exit, fresh, enabled, counts>>

\* The loop on the reference count at the end of waitConditionAndSignalers.
Drain(t, w) ==
    /\ refs[w] = 0
    /\ Move(t, w, "drain", AfterWait(w))
    /\ UNCHANGED <<cur, queues, under, tied, group, exit, fresh, enabled, counts>>

-----------------------------------------------------------------------------
(* exitWork of the parent's group *)

\* Mutant of Reference: the signaller does not announce itself.
ReferenceNothing(t, w) ==
    /\ Move(t, w, "ref", "dec")
    /\ UNCHANGED <<cur, queues, under, tied, group, exit, fresh, enabled, counts>>

Reference(t, w) ==
    /\ Move(t, w, "ref", "dec")
    /\ refs' = [refs EXCEPT ![Parent[w]] = @ + 1]
    /\ UNCHANGED <<cur, queues, under, tied, comps, exit, fresh, enabled, counts>>

Decrement(t, w) ==
    /\ Move(t, w, "dec", IF comps[Parent[w]] = 1 THEN "signal" ELSE "unref")
    /\ comps' = [comps EXCEPT ![Parent[w]] = @ - 1]
    /\ UNCHANGED <<cur, queues, under, tied, refs, exit, fresh, enabled, counts>>

\* Scheduler::wakeUp and SchedulePolicy::atWakeUp: the woken WD becomes a next
\* WD of the thread that wakes it, if its tie allows, or of the one it is tied
\* to.  With the scheduler stopped it is marked ready and put nowhere.
WakeUp(t, p) ==
    LET q == IF CanRun(p, t) THEN t ELSE tied[p] IN
    nexts' = IF enabled THEN [nexts EXCEPT ![q] = Append(@, p)] ELSE nexts

\* Mutant of Signal: the condition is not locked.
SignalUnlocked(t, w) ==
    LET p == Parent[w] IN
    /\ At(t, w, "signal")
    /\ IF pc[p] = "blocked"
         THEN WakeUp(t, p) /\ pc' = [pc EXCEPT ![w] = "unref", ![p] = "wait"]
         ELSE UNCHANGED nexts /\ pc' = [pc EXCEPT ![w] = "unref"]
    /\ UNCHANGED <<cur, ready, under, tied, group, exit, fresh, enabled, counts>>

\* signal(), whole: its steps are all under the lock of the parent's condition.
Signal(t, w) ==
    LET p == Parent[w] IN
    /\ At(t, w, "signal")
    /\ pc[p] # "locked"
    /\ IF pc[p] = "blocked"
         THEN WakeUp(t, p) /\ pc' = [pc EXCEPT ![w] = "unref", ![p] = "wait"]
         ELSE UNCHANGED nexts /\ pc' = [pc EXCEPT ![w] = "unref"]
    /\ UNCHANGED <<cur, ready, under, tied, group, exit, fresh, enabled, counts>>

Unreference(t, w) ==
    /\ Move(t, w, "unref", "leave")
    /\ refs' = [refs EXCEPT ![Parent[w]] = @ - 1]
    /\ UNCHANGED <<cur, queues, under, tied, comps, exit, fresh, enabled, counts>>

-----------------------------------------------------------------------------
(* Leaving the thread *)

\* inlineWork returns to the WD beneath and its caller deletes the inlined one.
BackUnder(t, w) ==
    /\ under[w] # None
    /\ Move(t, w, "leave", "gone")
    /\ cur' = [cur EXCEPT ![t] = under[w]]
    /\ under' = [under EXCEPT ![w] = None]
    /\ UNCHANGED <<queues, tied, group, exit, fresh, enabled, counts>>

\* exitTo: exitHelper destroys w once thread t is on the stack of x.
ExitTo(t, w, x) ==
    /\ SwitchStacks(t, w, "gone", x)
    /\ held' = [held EXCEPT ![w] = None]
    /\ UNCHANGED <<group, ending, home, fresh, enabled, counts>>

\* The end of Scheduler::exit: the WD it took first, else getNextWD again, on
\* the thread that began the exit, which need no longer be t.
ExitToHeld(t, w) ==
    /\ At(t, w, "leave")
    /\ held[w] # None
    /\ ExitTo(t, w, held[w])
    /\ UNCHANGED queues

ExitToNext(t, w, x) ==
    /\ At(t, w, "leave")
    /\ under[w] = None /\ held[w] = None
    /\ enabled
    /\ PopNext(home[w], x, <<>>)
    /\ ExitTo(t, w, x)

ExitIdle(t, w) ==
    /\ Move(t, w, "leave", "seek")
    /\ under[w] = None /\ held[w] = None
    /\ enabled => NoneFor(nexts[home[w]], home[w])
    /\ UNCHANGED <<cur, queues, under, tied, group, exit, fresh, enabled, counts>>

\* idleLoop<ExitBehaviour>
Seek(t, w, x) ==
    /\ At(t, w, "seek")
    /\ Take(t, x, <<>>)
    /\ ExitTo(t, w, x)

\* idleLoop<WorkerBehaviour>: a WD that has started gets the thread and the
\* worker's own WD goes to the ready queue; another one is inlined.
WorkerSwitches(t, x) ==
    /\ At(t, t, "idle")
    /\ Take(t, x, <<t>>)
    /\ pc[x] # "new"
    /\ SwitchStacks(t, t, "idle", x)
    /\ UNCHANGED <<group, exit, fresh, enabled, counts>>

WorkerInlines(t, x) ==
    /\ At(t, t, "idle")
    /\ Take(t, x, <<>>)
    /\ pc[x] = "new"
    /\ InlineWork(t, t, "idle", x)
    /\ UNCHANGED <<group, exit, fresh, enabled, counts>>

-----------------------------------------------------------------------------
Program(t, w) ==
    \/ \E c \in Tasks : Spawn(t, w, c)
    \/ Taskwait(t, w)
    \/ \E x \in WDs : Yield(t, w, x)
    \/ End(t, w)

Wait(t, w) ==
    \/ WaitPass(t, w)
    \/ Lock(t, w)
    \/ NoNext(t, w)
    \/ \E x \in WDs : SwitchAway(t, w, x)
    \/ Drain(t, w)

ExitWork(t, w) == Reference(t, w) \/ Decrement(t, w) \/ Signal(t, w) \/ Unreference(t, w)

Leave(t, w) ==
    \/ BackUnder(t, w)
    \/ ExitToHeld(t, w)
    \/ \E x \in WDs : ExitToNext(t, w, x)
    \/ ExitIdle(t, w)
    \/ \E x \in WDs : Seek(t, w, x)

Worker(t) == t \in Workers /\ \E x \in WDs : WorkerSwitches(t, x) \/ WorkerInlines(t, x)

Step(t) ==
    \/ \E w \in UserWDs : Program(t, w) \/ Wait(t, w)
    \/ \E w \in Tasks : ExitWork(t, w) \/ Leave(t, w)
    \/ StopScheduler(t)
    \/ StartScheduler(t)
    \/ Worker(t)

Next == \E t \in Threads : Step(t)

\* Every thread is a POSIX thread, which the operating system keeps running.
Fairness == \A t \in Threads : WF_vars(Step(t))

Spec == Init /\ [][Next]_vars
FairSpec == Spec /\ Fairness
=============================================================================
