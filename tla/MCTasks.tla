------------------------------ MODULE MCTasks ------------------------------
(***************************************************************************)
(* The same program with user-level threads, whose tasks wait for their    *)
(* children and may yield, and without, whose tasks may end before their   *)
(* children while the scheduler is stopped and started.  The runs that     *)
(* combine them otherwise show what goes wrong then.  ult never changes.   *)
(***************************************************************************)
EXTENDS MCTaskScheduler

VARIABLE ult

Switching == INSTANCE TaskSchedulerProps WITH ULT <- TRUE, Unwaited <- FALSE, MaxStops <- 0
Inlining == INSTANCE TaskSchedulerProps WITH ULT <- FALSE, Unwaited <- TRUE, MaxYields <- 0

StepOf(t) ==
    /\ UNCHANGED ult
    /\ \/ ult /\ Switching!Step(t)
       \/ ~ult /\ Inlining!Step(t)

TasksInit == ult \in BOOLEAN /\ Init

TasksSpec ==
    /\ TasksInit
    /\ [][\E t \in Threads : StepOf(t)]_<<ult, vars>>
    /\ \A t \in Threads : WF_<<ult, vars>>(StepOf(t))
=============================================================================
