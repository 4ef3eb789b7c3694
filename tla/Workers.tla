------------------------------ MODULE Workers ------------------------------
(***************************************************************************)
(* The workers of the one team of an OmpSs program, which user code makes  *)
(* larger and smaller (nanos_omp_set_num_threads): updateActiveWorkers of  *)
(* System, the team's map from ids to threads, and the sleep of an SMP     *)
(* thread (src/src/arch/smp/smpthread.cpp).                                *)
(*                                                                         *)
(* A worker is in its idle loop or running a task ("awake"), has seen that *)
(* it must sleep and holds _mutexWait ("leave"), has left the team's map   *)
(* ("left"), or is in pthread_cond_wait ("asleep").                        *)
(***************************************************************************)
EXTENDS Integers, FiniteSets, Functions

CONSTANTS N,          \* threads that may exist; 0 is the one that resizes
          MaxResizes, \* how often it does
          Manners     \* what may happen: user code resizes again only when the workers
                      \* have settled ("spaced") or at once ("hasty"), or, moreover,
                      \* pthread_cond_wait returns without a signal ("spurious")

Threads == 0..(N - 1)
None == -1

VARIABLES
    manner,              \* one of Manners
    exists,              \* System::_workers
    tagged, hasTeam,     \* BaseThread::_mustSleep, _hasTeam
    id,                  \* the id in _teamData, None where that is NULL
    pc, mutex,           \* where a worker is; the owner of _mutexWait, static in SMPThread
    team, nextId,        \* ThreadTeam::_threads, _idCounter
    at, picked, newId,   \* the resizing thread: its place, its worker, the new id
    target, active,      \* the argument nthreads, System::_numThreads
    resizes

worker == <<tagged, hasTeam, id>>
request == <<target, active, resizes>>
workersVars == <<manner, exists, worker, pc, mutex, team, nextId, at, picked, newId, request>>

WorkersInit ==
    /\ manner \in Manners
    /\ exists \in {0..k : k \in Threads}
    /\ tagged = [t \in Threads |-> FALSE]
    /\ hasTeam = [t \in Threads |-> t \in exists]
    /\ id = [t \in Threads |-> IF t \in exists THEN t ELSE None]
    /\ pc = [t \in Threads |-> "awake"] /\ mutex = None
    /\ team = [i \in exists |-> i] /\ nextId = Cardinality(exists)
    /\ at = "user" /\ picked = 0 /\ newId = 0
    /\ active = Cardinality(exists) /\ target = active /\ resizes = 0

\* A thread that a growing team can take, and one that a shrinking team can send to sleep.
Free(t) == t \in exists /\ (~hasTeam[t] \/ tagged[t])
Assigned(t) == t \in exists /\ hasTeam[t] /\ ~tagged[t]
Settled(t) == pc[t] = IF tagged[t] THEN "asleep" ELSE "awake"

----------------------------------------------------------------------------
(* The thread that resizes *)

Goto(place) == at' = place
At(place) == at = place

SetNumThreads ==
    /\ At("user") /\ resizes < MaxResizes
    /\ manner = "spaced" => \A t \in exists : Settled(t)
    /\ \E n \in 1..N : target' = n
    /\ resizes' = resizes + 1
    /\ Goto("resize")
    /\ UNCHANGED <<manner, exists, worker, pc, mutex, team, nextId, picked, newId, active>>

GetUnassignedWorker ==
    /\ At("resize") /\ target > active
    /\ \E t \in Threads :
          /\ Free(t) /\ \A u \in 0..(t - 1) : ~Free(u)
          /\ hasTeam' = [hasTeam EXCEPT ![t] = TRUE]
          /\ picked' = t
    /\ Goto("add")
    /\ UNCHANGED <<manner, exists, tagged, id, pc, mutex, team, nextId, newId, request>>

CreateWorker ==
    /\ At("resize") /\ target > active
    /\ \A t \in Threads : ~Free(t)
    /\ exists' = exists \cup {Cardinality(exists)}
    /\ UNCHANGED <<manner, worker, pc, mutex, team, nextId, at, picked, newId, request>>

\* acquireWorker: ThreadTeam::addThread, then enterTeam.
AddThread ==
    /\ At("add")
    /\ team' = [i \in DOMAIN team \cup {nextId} |-> IF i = nextId THEN picked ELSE team[i]]
    /\ newId' = nextId /\ nextId' = nextId + 1
    /\ Goto("enter")
    /\ UNCHANGED <<manner, exists, worker, pc, mutex, picked, request>>

EnterTeam ==
    /\ At("enter")
    /\ id' = [id EXCEPT ![picked] = newId]
    /\ hasTeam' = [hasTeam EXCEPT ![picked] = TRUE]
    /\ Goto("wakeup")
    /\ UNCHANGED <<manner, exists, tagged, pc, mutex, team, nextId, picked, newId, request>>

\* Mutant of Wakeup: the flag stays set.
WakeupTagged ==
    /\ At("wakeup") /\ mutex = None
    /\ hasTeam' = [hasTeam EXCEPT ![picked] = TRUE]
    /\ Goto("signal")
    /\ UNCHANGED <<manner, exists, tagged, id, pc, mutex, team, nextId, picked, newId, request>>

\* wakeup needs the mutex, so that no worker is between its test and its sleep.
Wakeup ==
    /\ At("wakeup") /\ mutex = None
    /\ tagged' = [tagged EXCEPT ![picked] = FALSE]
    /\ hasTeam' = [hasTeam EXCEPT ![picked] = TRUE]
    /\ Goto("signal")
    /\ UNCHANGED <<manner, exists, id, pc, mutex, team, nextId, picked, newId, request>>

Signal ==
    /\ At("signal")
    /\ pc' = [pc EXCEPT ![picked] = IF @ = "asleep" THEN "awake" ELSE @]
    /\ active' = active + 1
    /\ Goto("resize")
    /\ UNCHANGED <<manner, exists, worker, mutex, team, nextId, picked, newId, target, resizes>>

GetAssignedWorker ==
    /\ At("resize") /\ target < active
    /\ \E t \in Threads :
          /\ Assigned(t) /\ \A u \in (t + 1)..(N - 1) : ~Assigned(u)
          /\ picked' = t
    /\ Goto("sleep")
    /\ UNCHANGED <<manner, exists, worker, pc, mutex, team, nextId, newId, request>>

Sleep ==
    /\ At("sleep") /\ mutex = None
    /\ tagged' = [tagged EXCEPT ![picked] = TRUE]
    /\ active' = active - 1
    /\ Goto("resize")
    /\ UNCHANGED <<manner, exists, hasTeam, id, pc, mutex, team, nextId, picked, newId, target, resizes>>

Resized ==
    /\ At("resize") /\ target = active
    /\ Goto("user")
    /\ UNCHANGED <<manner, exists, worker, pc, mutex, team, nextId, picked, newId, request>>

Resizer ==
    \/ SetNumThreads \/ GetUnassignedWorker \/ CreateWorker \/ AddThread \/ EnterTeam
    \/ Wakeup \/ Signal \/ GetAssignedWorker \/ Sleep \/ Resized

----------------------------------------------------------------------------
(* A worker: SMPThread::wait, called from the idle loop *)

Move(t, place) == pc' = [pc EXCEPT ![t] = place]
Rest == UNCHANGED <<manner, exists, tagged, nextId, at, picked, newId, request>>

\* Mutant of SeeTag: wait() does not take the mutex.
SeeTagUnlocked(t) ==
    /\ t \in exists /\ pc[t] = "awake" /\ tagged[t] /\ mutex = None
    /\ Move(t, IF id[t] = None THEN "asleep" ELSE "leave")
    /\ Rest /\ UNCHANGED <<hasTeam, id, team, mutex>>

\* wait(), but for a next WD that the thread gives back to the policy: there is none here.
SeeTag(t) ==
    /\ t \in exists /\ pc[t] = "awake" /\ tagged[t] /\ mutex = None
    /\ IF id[t] = None THEN Move(t, "asleep") /\ UNCHANGED mutex
       ELSE Move(t, "leave") /\ mutex' = t
    /\ Rest /\ UNCHANGED <<hasTeam, id, team>>

\* Mutant of RemoveThread: the map keeps the thread.
RemoveThreadNot(t) ==
    /\ pc[t] = "leave"
    /\ Move(t, "left")
    /\ Rest /\ UNCHANGED <<hasTeam, id, team, mutex>>

RemoveThread(t) ==
    /\ pc[t] = "leave"
    /\ team' = Restrict(team, DOMAIN team \ {id[t]})
    /\ Move(t, "left")
    /\ Rest /\ UNCHANGED <<hasTeam, id, mutex>>

\* leaveTeam, then pthread_cond_wait, which gives the mutex back.
LeaveTeam(t) ==
    /\ pc[t] = "left"
    /\ id' = [id EXCEPT ![t] = None]
    /\ hasTeam' = [hasTeam EXCEPT ![t] = FALSE]
    /\ Move(t, "asleep") /\ mutex' = None
    /\ Rest /\ UNCHANGED team

WakeSpuriously(t) ==
    /\ manner = "spurious" /\ pc[t] = "asleep" /\ mutex = None
    /\ Move(t, "awake")
    /\ Rest /\ UNCHANGED <<hasTeam, id, team, mutex>>

Worker(t) == SeeTag(t) \/ RemoveThread(t) \/ LeaveTeam(t) \/ WakeSpuriously(t)

WorkersNext == Resizer \/ \E t \in Threads : Worker(t)

\* Every thread is scheduled; only user code and a spurious return may never come.
WorkersFair ==
    /\ WF_workersVars(Resizer /\ ~At("user"))
    /\ \A t \in Threads : WF_workersVars(SeeTag(t) \/ RemoveThread(t) \/ LeaveTeam(t))

WorkersSpec == WorkersInit /\ [][WorkersNext]_workersVars /\ WorkersFair

----------------------------------------------------------------------------
WorkersTypeOK ==
    /\ manner \in Manners
    /\ exists \subseteq Threads /\ exists = 0..(Cardinality(exists) - 1)
    /\ tagged \in [Threads -> BOOLEAN] /\ hasTeam \in [Threads -> BOOLEAN]
    /\ id \in [Threads -> Nat \cup {None}]
    /\ pc \in [Threads -> {"awake", "leave", "left", "asleep"}]
    /\ mutex \in Threads \cup {None}
    /\ nextId \in Nat /\ newId \in Nat /\ picked \in Threads
    /\ team = [i \in DOMAIN team |-> team[i]]
    /\ DOMAIN team \subseteq Nat /\ \A i \in DOMAIN team : team[i] \in Threads
    /\ target \in 1..N /\ active \in Nat
    /\ at \in {"user", "resize", "add", "enter", "wakeup", "signal", "sleep"}

(* A team's map names each thread at most once, and each thread under the id it knows
   (addThread and removeThread against getTeamId; ThreadTeam::size counts the map). *)
InTeamOnce ==
    /\ IsInjective(team)
    /\ \A t \in Threads : id[t] # None /\ pc[t] # "left" => id[t] \in DOMAIN team /\ team[id[t]] = t

(* The same for a user who leaves the workers the time to go to sleep. *)
InTeamOnceIfSpaced == manner = "spaced" => InTeamOnce

(* Between two resizes as many workers are untagged as user code has asked for, and
   each of them is in the team: none is awake outside it (updateActiveWorkers). *)
AsManyAsAsked ==
    at = "user" /\ manner = "spaced" =>
        /\ Cardinality({t \in exists : ~tagged[t]}) = target
        /\ \A t \in exists : ~tagged[t] => id[t] # None

AllSettled == \A t \in exists : Settled(t) \/ (manner = "spurious" /\ tagged[t])

(* No wake-up is lost: once user code resizes no more, exactly the workers it wants are
   awake and the others are asleep (the mutex around the flag, smpthread.cpp:129-171). *)
WorkersSettle == <>[]AllSettled
-----------------------------------------------------------------------------
(* The inductive invariant behind InTeamOnceIfSpaced and AsManyAsAsked.    *)

\* The thread that a growing team is taking.
Taking == at \in {"add", "enter", "wakeup", "signal"}
Taken(t) == Taking /\ t = picked

\* A thread works; is new, and then the only one to take; has been told to sleep, while the team
\* shrinks; or sleeps.
Works(t) == ~tagged[t] /\ hasTeam[t] /\ id[t] # None /\ pc[t] = "awake"
New(t) ==
    /\ ~tagged[t] /\ ~hasTeam[t] /\ id[t] = None /\ pc[t] = "awake"
    /\ at = "resize" /\ target > active /\ \A u \in exists : Free(u) => u = t
Told(t) ==
    /\ tagged[t] /\ hasTeam[t] /\ id[t] # None /\ pc[t] \in {"awake", "leave", "left"}
    /\ ~Taking /\ target <= active
Sleeps(t) == tagged[t] /\ ~hasTeam[t] /\ id[t] = None /\ pc[t] = "asleep"

ThreadsInv == \A t \in Threads :
    IF t \notin exists THEN ~tagged[t] /\ ~hasTeam[t] /\ id[t] = None /\ pc[t] = "awake"
    ELSE IF Taken(t)
    THEN /\ hasTeam[t]
         /\ id[t] = None <=> at \in {"add", "enter"}
         /\ IF at = "signal" THEN ~tagged[t] /\ pc[t] \in {"awake", "asleep"}
                             ELSE pc[t] = IF tagged[t] THEN "asleep" ELSE "awake"
    ELSE Works(t) \/ New(t) \/ Told(t) \/ Sleeps(t)

\* Where the resizing thread is, and who is counted.
PlaceInv ==
    /\ Taking => target > active /\ picked \in exists
    /\ at = "sleep" => target < active /\ picked \in exists /\ Works(picked)
    /\ at = "user" => target = active
    /\ at = "wakeup" => id[picked] = newId

Counted == {t \in exists : hasTeam[t] /\ ~tagged[t] /\ ~Taken(t)}
CountInv == active = Cardinality(Counted)

MutexInv == \A t \in Threads : pc[t] \in {"leave", "left"} => mutex = t

\* Each thread in the map knows its id, and each thread that knows one is there.
TeamInv ==
    /\ \A i \in DOMAIN team :
          /\ i < nextId
          /\ \/ id[team[i]] = i /\ pc[team[i]] # "left"
             \/ at = "enter" /\ i = newId /\ team[i] = picked
    /\ \A t \in Threads : id[t] # None /\ pc[t] # "left" => id[t] \in DOMAIN team /\ team[id[t]] = t
    /\ at = "enter" => newId \in DOMAIN team /\ team[newId] = picked

SpacedInv ==
    /\ WorkersTypeOK /\ ThreadsInv /\ PlaceInv /\ CountInv /\ MutexInv /\ TeamInv
Inductive == manner = "spaced" => SpacedInv
=============================================================================
