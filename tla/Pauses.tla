------------------------------- MODULE Pauses -------------------------------
(***************************************************************************)
(* The pause of all threads: user code stops the scheduler, waits until    *)
(* every thread has paused, does something undisturbed and starts again    *)
(* (nanos_stop_scheduler, nanos_wait_until_threads_paused and their        *)
(* opposites, src/src/apis/c/nanos_sched.cpp).  User code is the main WD,  *)
(* tied to thread 0, with a stack of its own; tasks run to their end.      *)
(*                                                                         *)
(* pc: loop   in the idle loop            test   to look at _readyTasks    *)
(*     get    to look at the scheduler    take   about to ask the policy   *)
(*     body   in a task                   main   in the main WD            *)
(***************************************************************************)
EXTENDS Integers, FiniteSets

CONSTANTS N,        \* System::_workers.size(), at the start and ever after
          Tasks,    \* that user code creates
          MaxStops  \* how often it stops the scheduler

Threads == 0..(N - 1)

VARIABLES
    careful,         \* does user code wait until all are unpaused, too; never changes
    enabled,         \* SchedulerConf::_schedulerEnabled
    paused, count,   \* BaseThread::_paused, System::_pausedThreads
    call,            \* where a thread is in pausedThread or unpausedThread
    pc,
    ready, made,     \* tasks in the queue, tasks created
    user,            \* where the main WD is in its program
    waits, woken,    \* is it the waiter of its condition, is it thread 0's next WD
    stops

flags == <<paused, call>>
tasks == <<ready, made>>
main == <<user, waits, woken, stops>>
pausesVars == <<careful, enabled, flags, count, pc, tasks, main>>

PausesInit ==
    /\ careful \in BOOLEAN
    /\ enabled = TRUE
    /\ paused = [t \in Threads |-> FALSE] /\ count = 0
    /\ call = [t \in Threads |-> "none"]
    /\ pc = [t \in Threads |-> IF t = 0 THEN "main" ELSE "loop"]
    /\ ready = 0 /\ made = 0
    /\ user = "code" /\ waits = FALSE /\ woken = FALSE /\ stops = 0

At(t, place) == pc[t] = place /\ call[t] = "none"
Go(t, place) == pc' = [pc EXCEPT ![t] = place]

-----------------------------------------------------------------------------
(* pause and unpause *)

\* pause() with on, unpause() without: a thread that changes goes on to tell the system.
Mark(t, on) ==
    /\ paused' = [paused EXCEPT ![t] = on]
    /\ call' = [call EXCEPT ![t] = IF paused[t] = on THEN "none" ELSE "count"]

\* As the thread finds the scheduler, which it goes on to find the same after it.
MarkAsEnabled(t) == Mark(t, ~enabled)

Tell(t, from, to) == call[t] = from /\ call' = [call EXCEPT ![t] = to]

Count(t) ==
    /\ Tell(t, "count", "check")
    /\ count' = IF paused[t] THEN count + 1 ELSE count - 1
    /\ UNCHANGED <<careful, enabled, paused, pc, tasks, main>>

\* The condition that the count may just have reached.
Reached(t) == count = IF paused[t] THEN N ELSE 0

Check(t) ==
    /\ Tell(t, "check", IF Reached(t) THEN "signal" ELSE "none")
    /\ UNCHANGED <<careful, enabled, paused, count, pc, tasks, main>>

\* signal() and wakeUp(), under the lock of the condition; a WD that is woken while the
\* scheduler is stopped is put nowhere, but by then it has not been able to block.
Signal(t) ==
    /\ Tell(t, "signal", "none")
    /\ IF waits /\ user = IF paused[t] THEN "wait paused" ELSE "wait unpaused"
         THEN waits' = FALSE /\ woken' = enabled
         ELSE UNCHANGED <<waits, woken>>
    /\ UNCHANGED <<careful, enabled, paused, count, pc, tasks, user, stops>>

-----------------------------------------------------------------------------
(* The idle loops *)

Loop(t) ==
    /\ At(t, "loop")
    /\ MarkAsEnabled(t)
    /\ IF t = 0 /\ woken THEN Go(t, "main") /\ woken' = FALSE
                         ELSE Go(t, "test") /\ UNCHANGED woken
    /\ UNCHANGED <<careful, enabled, count, tasks, user, waits, stops>>

Test(t) ==
    /\ At(t, "test")
    /\ Go(t, IF ready > 0 THEN "get" ELSE "loop")
    /\ UNCHANGED <<careful, enabled, flags, count, tasks, main>>

\* Mutant of GetWD: the first look is enough.
GetWDUnlooked(t) ==
    /\ At(t, "get")
    /\ Go(t, "take")
    /\ UNCHANGED <<careful, enabled, flags, count, tasks, main>>

\* getWD of the behaviour: the scheduler is looked at once more.
GetWD(t) ==
    /\ At(t, "get")
    /\ MarkAsEnabled(t)
    /\ Go(t, IF enabled THEN "take" ELSE "loop")
    /\ UNCHANGED <<careful, enabled, count, tasks, main>>

Take(t) ==
    /\ At(t, "take")
    /\ IF ready > 0 THEN ready' = ready - 1 /\ Go(t, "body")
                    ELSE UNCHANGED ready /\ Go(t, "loop")
    /\ UNCHANGED <<careful, enabled, flags, count, made, main>>

\* Scheduler::exit: with a next WD the thread does not pause.
Exit(t) ==
    /\ At(t, "body")
    /\ LET next == t = 0 /\ woken IN
       /\ IF next /\ ~enabled THEN UNCHANGED flags ELSE MarkAsEnabled(t)
       /\ Go(t, IF next THEN "main" ELSE "loop")
       /\ woken' = IF next THEN FALSE ELSE woken
    /\ UNCHANGED <<careful, enabled, count, tasks, user, waits, stops>>

-----------------------------------------------------------------------------
(* User code *)

UserAt(place) == At(0, "main") /\ user = place
Then(place) == user' = place

\* submit: while the scheduler is stopped the thread pauses, which this one has done.
Submit ==
    /\ At(0, "main") /\ user \in {"code", "section"}
    /\ made < Tasks
    /\ made' = made + 1 /\ ready' = ready + 1
    /\ MarkAsEnabled(0)
    /\ UNCHANGED <<careful, enabled, count, pc, main>>

\* The thread pauses, and only then is the scheduler stopped.
StopScheduler ==
    /\ UserAt("code") /\ stops < MaxStops
    /\ Mark(0, TRUE) /\ Then("stop")
    /\ stops' = stops + 1
    /\ UNCHANGED <<careful, enabled, count, pc, tasks, waits, woken>>

Disable ==
    /\ UserAt("stop") /\ enabled' = FALSE /\ Then("wait paused")
    /\ UNCHANGED <<careful, flags, count, pc, tasks, waits, woken, stops>>

StartScheduler ==
    /\ UserAt("section")
    /\ Mark(0, FALSE) /\ Then("start")
    /\ UNCHANGED <<careful, enabled, count, pc, tasks, waits, woken, stops>>

Enable ==
    /\ UserAt("start") /\ enabled' = TRUE
    /\ Then(IF careful THEN "wait unpaused" ELSE "code")
    /\ UNCHANGED <<careful, flags, count, pc, tasks, waits, woken, stops>>

Holds == IF user = "wait paused" THEN count = N ELSE count = 0

\* waitOnCondition, whose condition holds.
WaitPass ==
    /\ At(0, "main") /\ user \in {"wait paused", "wait unpaused"}
    /\ Holds
    /\ Then(IF user = "wait paused" THEN "section" ELSE "code")
    /\ UNCHANGED <<careful, enabled, flags, count, pc, tasks, waits, woken, stops>>

\* It does not: under its lock, and with tasks to run, the main WD becomes its waiter.
\* Nobody else stops or starts the scheduler, so one look at it is as good as two.
WaitBlock ==
    /\ At(0, "main") /\ user \in {"wait paused", "wait unpaused"}
    /\ ~Holds /\ ready > 0 /\ enabled
    /\ Mark(0, FALSE)
    /\ ready' = ready - 1 /\ Go(0, "body")
    /\ waits' = TRUE
    /\ UNCHANGED <<careful, enabled, count, made, user, woken, stops>>

End ==
    /\ UserAt("code") /\ stops = MaxStops
    /\ Then("end")
    /\ UNCHANGED <<careful, enabled, flags, count, pc, tasks, waits, woken, stops>>

-----------------------------------------------------------------------------
Notify(t) == Count(t) \/ Check(t) \/ Signal(t)
IdleStep(t) == Loop(t) \/ Test(t) \/ GetWD(t) \/ Take(t) \/ Exit(t)
UserStep ==
    \/ Submit \/ StopScheduler \/ Disable \/ StartScheduler \/ Enable
    \/ WaitPass \/ WaitBlock \/ End

\* What thread t may do.
PauseStep(t) == Notify(t) \/ IdleStep(t) \/ (t = 0 /\ UserStep)

PausesNext == (\E t \in Threads : Notify(t) \/ IdleStep(t)) \/ UserStep

PausesSpec ==
    PausesInit /\ [][PausesNext]_pausesVars /\ \A t \in Threads : WF_pausesVars(PauseStep(t))

-----------------------------------------------------------------------------
(* When user code that waits both times is told that all threads have paused, no task is
   running, and none starts before user code starts the scheduler again: no thread has
   found the scheduler enabled before and goes on after (pausedThread and unpausedThread,
   and the two looks at the scheduler in the idle loop; system_decl.hpp:549-551). *)
NothingInSection ==
    careful /\ user \in {"section", "start"} =>
       \A t \in Threads \ {0} : paused[t] /\ call[t] # "count" /\ pc[t] \notin {"take", "body"}

\* User code has come through all its stops, and all tasks have run.
PausesEnd == user = "end" /\ ready = 0 /\ \A t \in Threads : pc[t] # "body"

-----------------------------------------------------------------------------
(* The inductive invariant behind NothingInSection.                        *)

TypeOK ==
    /\ careful \in BOOLEAN /\ enabled \in BOOLEAN
    /\ paused \in [Threads -> BOOLEAN] /\ count \in 0..N
    /\ call \in [Threads -> {"none", "count", "check", "signal"}]
    /\ pc \in [Threads -> {"loop", "test", "get", "take", "body", "main"}]
    /\ ready \in Nat /\ made \in Nat /\ stops \in Nat
    /\ user \in {"code", "stop", "wait paused", "section", "start", "wait unpaused", "end"}
    /\ waits \in BOOLEAN /\ woken \in BOOLEAN

\* The scheduler is stopped between Disable and Enable.
StoppedInv ==
    IF user \in {"wait paused", "section", "start"} THEN enabled = FALSE ELSE enabled = TRUE

\* A thread that has changed and has not told the system yet is counted as it was.
Counted == {t \in Threads : IF call[t] = "count" THEN ~paused[t] ELSE paused[t]}
CountInv == count = Cardinality(Counted)

\* A worker that has paused is in the idle loop, and looks at the scheduler before it takes
\* a task.
PausedInv == \A t \in Threads \ {0} : paused[t] => pc[t] \in {"loop", "test", "get"}

\* What the workers may be telling the system, by where user code that waits both times is:
\* that they pause, while it waits for that, that they go on, while it waits for that, and
\* nothing in between.
ToldInv == careful => \A t \in Threads \ {0} :
    /\ user \in {"code", "stop", "end"} => ~paused[t] /\ call[t] # "count"
    /\ user = "wait paused" => paused[t] \/ call[t] # "count"
    /\ user \in {"section", "start"} => paused[t] /\ call[t] # "count"
    /\ user = "wait unpaused" => ~paused[t] \/ call[t] # "count"

Inductive == TypeOK /\ StoppedInv /\ CountInv /\ PausedInv /\ ToldInv
=============================================================================
