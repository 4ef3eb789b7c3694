----------------------------- MODULE MCRuntime -----------------------------
(***************************************************************************)
(* What the runtime does around the life of a task: it keeps the copies of *)
(* its data in the devices, makes its team larger and smaller, creates and *)
(* ends the teams of parallel regions, shares out the iterations of loops  *)
(* and the singles in them, cuts sliced WDs, holds back the creator of     *)
(* tasks, and pauses all threads.  part never changes; the other parts     *)
(* stay as they begin.                                                     *)
(***************************************************************************)
EXTENDS MCCoherence, Integers

CONSTANTS N,         \* threads that resize their team, share loops, or pause
          Tasks,     \* that user code creates while they pause
          MaxStops,  \* how often it stops the scheduler
          Limit,     \* threads there may be for the teams of parallel regions
          MaxTeams,  \* such teams, beside the first
          Size       \* threads of a team

ASSUME RuntimeAssumption ==
    /\ N \in Nat \ {0} /\ Tasks \in Nat /\ MaxStops \in Nat
    /\ Limit \in Nat \ {0} /\ MaxTeams \in Nat /\ Size \in Nat \ {0}

VARIABLES part,
          manner, exists, tagged, hasTeam, id, mutex, team, nextId, at, picked, newId,
          target, active, resizes, wPc,
          tExists, tHasTeam, tData, tNext, tJobs, tPc, tSeen, tMade, tAlive, tThreads, tArrived,
          hTotal, hMade, hReady, hCreator, hPlace,
          program, cAt, cPc, cMade, ws, data, mine, local, guard, cCount,
          given, winner, over, told,
          work, stage, rest, cut,
          careful, enabled, paused, count, call, pPc, pReady, pMade, user, waits, woken, stops

Team == INSTANCE Workers WITH
    MaxResizes <- 3, Manners <- {"spaced", "hasty", "spurious"}, pc <- wPc

Regions == INSTANCE Teams WITH
    N <- Limit, exists <- tExists, hasTeam <- tHasTeam, data <- tData,
    next <- tNext, jobs <- tJobs, pc <- tPc, seen <- tSeen, made <- tMade, alive <- tAlive,
    threads <- tThreads, arrived <- tArrived

L(lower, upper, step, chunk) == [lower |-> lower, upper |-> upper, step |-> step, chunk |-> chunk]
C(kind, loop) == [kind |-> kind, loop |-> loop]
One == L(0, 0, 1, 0)

MCPrograms ==
    {<<C("dynamic", L(0, 5, 2, 1)), C("dynamic", L(3, 1, -1, 2)), C("single", One)>>,
     <<C("single", One), C("guarded", One), C("single", One)>>,
     <<C("guided", L(7, -1, -2, 0)), C("guarded", One)>>,
     <<C("static", L(0, 9, 3, 0)), C("guided", L(0, 4, 1, 2))>>,
     <<C("static", L(9, 0, -2, 2)), C("single", One)>>}

Loops == INSTANCE Worksharing WITH
    Programs <- MCPrograms, at <- cAt, pc <- cPc, made <- cMade, count <- cCount

W(slicer, loops) == {[slicer |-> slicer, loop |-> l, n |-> 1] : l \in loops}
P(slicer) == {[slicer |-> slicer, loop |-> One, n |-> n] : n \in 1..4}
Bounds == [lower : {-2, 0, 3, 7}, upper : {-3, 0, 4, 9}, step : {-3, -2, -1, 1, 2, 3}, chunk : 0..4]
\* A chunk that a loop with a negative step can hold.
Fits(l) ==
    l.step > 0 \/ l.lower < l.upper
    \/ l.lower + (IF l.chunk = 0 THEN 1 ELSE l.chunk) * l.step >= l.upper
MCWorks == W("static_for", Bounds) \cup W("dynamic_for", {l \in Bounds : Fits(l)})
   \cup W("guided_for", {l \in Bounds : Fits(l)}) \cup P("repeat_n") \cup P("compound_wd")
   \cup P("replicate")

Sliced == INSTANCE Slicers WITH Works <- MCWorks, N <- 4, Valid <- 0..3, given <- cut

Hysteresis == INSTANCE Throttle WITH
    Threads <- 0..2, Upper <- 2, Lower <- 2, Tasks <- 9, total <- hTotal, made <- hMade,
    ready <- hReady, creator <- hCreator, place <- hPlace

Pausing == INSTANCE Pauses WITH pc <- pPc, ready <- pReady, made <- pMade

teamVars == <<manner, exists, tagged, hasTeam, id, mutex, team, nextId, at, picked, newId,
              target, active, resizes, wPc>>
regionVars ==
    <<tExists, tHasTeam, tData, tNext, tJobs, tPc, tSeen, tMade, tAlive, tThreads, tArrived>>
loopVars == <<program, cAt, cPc, cMade, ws, data, mine, local, guard, cCount,
              given, winner, over, told>>
slicedVars == <<work, stage, rest, cut>>
hysteresisVars == <<hTotal, hMade, hReady, hCreator, hPlace>>
pauseVars ==
    <<careful, enabled, paused, count, call, pPc, pReady, pMade, user, waits, woken, stops>>
constructVars == <<regionVars, loopVars, slicedVars>>
runtimeVars ==
    <<part, coherenceVars, teamVars, constructVars, hysteresisVars, pauseVars>>

RuntimeInit ==
    /\ part \in {"memory", "workers", "regions", "loops", "sliced", "throttle", "pauses"}
    /\ CoherenceInit /\ (part # "memory" => setup.through)
    /\ Team!WorkersInit /\ (part # "workers" => exists = {0} /\ manner = "spaced")
    /\ Regions!TeamsInit /\ (part # "regions" => tExists = {0})
    /\ Loops!Init /\ (part # "loops" => program = CHOOSE p \in MCPrograms : TRUE)
    /\ Hysteresis!ThrottleInit /\ (part # "throttle" => hPlace[0] = "creator")
    /\ Pausing!PausesInit /\ (part # "pauses" => careful)
    /\ work \in (IF part = "sliced" THEN MCWorks ELSE {CHOOSE w \in MCWorks : TRUE})
    /\ Sliced!Init

In(p, act) == part = p /\ act /\ UNCHANGED part
MemoryStep(act) ==
    In("memory", act) /\ UNCHANGED <<teamVars, constructVars, hysteresisVars, pauseVars>>
ResizeStep(act) ==
    In("workers", act) /\ UNCHANGED <<coherenceVars, constructVars, hysteresisVars, pauseVars>>
ConstructStep(act) == act /\ UNCHANGED <<coherenceVars, teamVars, hysteresisVars, pauseVars>>
RegionStep(act) == ConstructStep(In("regions", act) /\ UNCHANGED <<loopVars, slicedVars>>)
LoopStep == ConstructStep(In("loops", Loops!Next) /\ UNCHANGED <<regionVars, slicedVars>>)
SlicedStep == ConstructStep(In("sliced", Sliced!Next) /\ UNCHANGED <<regionVars, loopVars>>)
HysteresisStep(act) ==
    In("throttle", act) /\ UNCHANGED <<coherenceVars, teamVars, constructVars, pauseVars>>
PausesStep(act) ==
    In("pauses", act) /\ UNCHANGED <<coherenceVars, teamVars, constructVars, hysteresisVars>>

RuntimeNext ==
    \/ MemoryStep(CoherenceNext)
    \/ ResizeStep(Team!WorkersNext)
    \/ RegionStep(Regions!TeamsNext)
    \/ LoopStep
    \/ SlicedStep
    \/ HysteresisStep(Hysteresis!ThrottleNext)
    \/ PausesStep(Pausing!PausesNext)

\* Where threads look again and again, in "workers" and "pauses", each thread goes on;
\* elsewhere some thread does, which is less than the fairness of the operating system,
\* and enough.
RuntimeSpec ==
    /\ RuntimeInit
    /\ [][RuntimeNext]_runtimeVars
    /\ WF_runtimeVars(\/ MemoryStep(CoherenceNext) \/ LoopStep \/ SlicedStep
                      \/ ResizeStep(Team!Resizer /\ at # "user")
                      \/ RegionStep(\E t \in Regions!Threads : Regions!Move(t))
                      \/ HysteresisStep(\E t \in 0..2 : Hysteresis!ThrottleStep(t)))
    /\ \A t \in 0..(N - 1) : WF_runtimeVars(
          \/ ResizeStep(Team!SeeTag(t) \/ Team!RemoveThread(t) \/ Team!LeaveTeam(t))
          \/ PausesStep(Pausing!PauseStep(t)))

(* See Workers: a team's map names each thread once. *)
InTeamOnceIfSpaced == Team!InTeamOnceIfSpaced

(* See Workers: a resize ends with the workers that were asked for. *)
AsManyAsAsked == Team!AsManyAsAsked

(* See Teams: one region at a time for a thread. *)
ReservedOnce == Regions!ReservedOnce

(* See Teams: a team exists while a thread is in it or has yet to leave its map. *)
TeamOutlives == Regions!TeamOutlives

(* See Worksharing: an iteration is given out once, one thread is single. *)
ImplementsConstructs == Loops!ImplementsConstructs

(* See Worksharing: the last item is told, and no other. *)
LastTold == Loops!LastTold

(* See Worksharing: no single is skipped by all or taken twice. *)
GuardBetween == Loops!GuardBetween

(* The slices made so far and what is left of a sliced WD are the work that was
   submitted, each unit once (the submit and dequeue of each slicer). *)
PiecesAddUp == Sliced!PiecesAddUp

(* See Pauses: while all threads are paused no task runs. *)
NothingInSection == Pausing!NothingInSection

(* Nothing waits for ever: every task gets its data (the loops that wait for a block to
   have no owner, for a copy or for a flush, cache.hpp:549 and 742, directory.hpp:229),
   workers settle in the state that was asked for (no wake-up is lost between the flag
   and pthread_cond_wait, smpthread.cpp:129-171), every parallel region ends (endTeam's
   wait for an empty team), every thread gets through its loops and singles (the waits on
   ws and on the single guard), every sliced WD comes to its last slice ("avoid infinite
   task generation", slicers/dynamic_for.cpp:45), the creator of tasks goes on after each wait of the throttle
   (throttleOut before the task is counted out), and user code gets through its waits for
   paused and unpaused threads, and all tasks are run (system.hpp:348-371). *)
RuntimeGoesOn ==
    <>[](/\ part = "memory" => AllEnded
         /\ part = "workers" => Team!AllSettled
         /\ part = "regions" => Regions!AllOver
         /\ part = "loops" => Loops!NobodyInside
         /\ part = "sliced" => stage = "gone"
         /\ part = "throttle" => hCreator = "done"
         /\ part = "pauses" => Pausing!PausesEnd)
=============================================================================
