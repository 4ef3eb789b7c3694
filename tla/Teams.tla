------------------------------- MODULE Teams -------------------------------
(***************************************************************************)
(* Parallel regions of an OpenMP program, nested ones too: the creation of *)
(* a team, its threads entering and leaving it, and its end (createTeam,   *)
(* getUnassignedWorker, acquireWorker, releaseWorker and endTeam of System *)
(* behind the nanos_*_team calls of src/src/apis/c/nanos_team.cpp).  Main  *)
(* is thread 0, in team 0 from the start; the others have no team.         *)
(*                                                                         *)
(* pc: idle     without a WD       region   in the body of its region      *)
(*     look     finding a thread   reserve  about to lock it               *)
(*     acquire  adding it          enter    about to enter its next team   *)
(*     barrier  waiting for all    remove   has left, still in the map     *)
(*     unlock   out of the map     end      waiting for an empty map       *)
(***************************************************************************)
EXTENDS Integers, Sequences, FiniteSets, SequencesExt

CONSTANTS N,         \* threads that may exist
          MaxTeams,  \* teams created beside the first
          Size       \* threads of a team

Threads == 0..(N - 1)
Ids == 0..MaxTeams

VARIABLES
    exists,     \* System::_workers
    hasTeam,    \* BaseThread::_hasTeam
    data,       \* _teamData and its parents, as team ids, the current one first
    next,       \* the team of _nextTeamData
    jobs,       \* the WDs tied to a thread, each the body of a team's region
    pc, seen,   \* where a thread is, and the thread it has found
    made, alive,   \* teams created, and not yet deleted
    threads,    \* ThreadTeam::_threads of each team, without the ids
    arrived     \* the threads in the barrier at the end of the region

teamsVars == <<exists, hasTeam, data, next, jobs, pc, seen, made, alive, threads, arrived>>

TeamsInit ==
    /\ exists \in {0..k : k \in Threads}
    /\ hasTeam = [t \in Threads |-> t = 0]
    /\ data = [t \in Threads |-> IF t = 0 THEN <<0>> ELSE <<>>]
    /\ next = [t \in Threads |-> 0]
    /\ jobs = [t \in Threads |-> <<>>]
    /\ pc = [t \in Threads |-> IF t = 0 THEN "region" ELSE "idle"]
    /\ seen = [t \in Threads |-> t]
    /\ made = 0 /\ alive = {0}
    /\ threads = [k \in Ids |-> IF k = 0 THEN {0} ELSE {}]
    /\ arrived = [k \in Ids |-> {}]

Goto(t, place) == pc' = [pc EXCEPT ![t] = place]

\* The creator is the first of its team, and keeps its present team as the parent.
CreateTeam(t) ==
    /\ pc[t] = "region" /\ made < MaxTeams
    /\ made' = made + 1
    /\ alive' = alive \cup {made'}
    /\ threads' = [threads EXCEPT ![made'] = {t}]
    /\ next' = [next EXCEPT ![t] = made']
    /\ Goto(t, "look")
    /\ UNCHANGED <<exists, hasTeam, data, jobs, seen, arrived>>

Wanted(t) == Cardinality(threads[next[t]]) < Size

\* getUnassignedWorker looks without the thread's lock, then again with it.
Look(t, u) ==
    /\ pc[t] = "look" /\ Wanted(t)
    /\ u \in exists /\ ~hasTeam[u]
    /\ seen' = [seen EXCEPT ![t] = u]
    /\ Goto(t, "reserve")
    /\ UNCHANGED <<exists, hasTeam, data, next, jobs, made, alive, threads, arrived>>

CreateWorker(t) ==
    /\ pc[t] = "look" /\ Wanted(t)
    /\ \A u \in exists : hasTeam[u]
    /\ Cardinality(exists) < N
    /\ exists' = exists \cup {Cardinality(exists)}
    /\ UNCHANGED <<hasTeam, data, next, jobs, pc, seen, made, alive, threads, arrived>>

\* Mutant of Reserve: the thread is taken without a second look.
ReserveUnchecked(t) ==
    /\ pc[t] = "reserve"
    /\ hasTeam' = [hasTeam EXCEPT ![seen[t]] = TRUE] /\ Goto(t, "acquire")
    /\ UNCHANGED <<exists, data, next, jobs, seen, made, alive, threads, arrived>>

Reserve(t) ==
    /\ pc[t] = "reserve"
    /\ IF hasTeam[seen[t]] THEN Goto(t, "look") /\ UNCHANGED hasTeam
       ELSE hasTeam' = [hasTeam EXCEPT ![seen[t]] = TRUE] /\ Goto(t, "acquire")
    /\ UNCHANGED <<exists, data, next, jobs, seen, made, alive, threads, arrived>>

Acquire(t) ==
    /\ pc[t] = "acquire"
    /\ threads' = [threads EXCEPT ![next[t]] = @ \cup {seen[t]}]
    /\ next' = [next EXCEPT ![seen[t]] = next[t]]
    /\ hasTeam' = [hasTeam EXCEPT ![seen[t]] = TRUE]
    /\ Goto(t, "look")
    /\ UNCHANGED <<exists, data, jobs, seen, made, alive, arrived>>

\* The region's body is given to the others as WDs tied to them.
Start(t) ==
    /\ pc[t] = "look" /\ ~Wanted(t)
    /\ jobs' = [u \in Threads |-> IF u \in threads[next[t]] \ {t}
                                  THEN Append(jobs[u], next[t]) ELSE jobs[u]]
    /\ Goto(t, "enter")
    /\ UNCHANGED <<exists, hasTeam, data, next, seen, made, alive, threads, arrived>>

TakeJob(t) ==
    /\ pc[t] = "idle" /\ t \in exists /\ jobs[t] # <<>>
    /\ jobs' = [jobs EXCEPT ![t] = Tail(@)]
    /\ Goto(t, "enter")
    /\ UNCHANGED <<exists, hasTeam, data, next, seen, made, alive, threads, arrived>>

\* A worker's data has no parent.
EnterTeam(t) ==
    /\ pc[t] = "enter"
    /\ data' = [data EXCEPT ![t] = IF @ = <<>> THEN <<next[t]>> ELSE <<next[t]>> \o @]
    /\ hasTeam' = [hasTeam EXCEPT ![t] = TRUE]
    /\ Goto(t, "region")
    /\ UNCHANGED <<exists, next, jobs, seen, made, alive, threads, arrived>>

Current(t) == Head(data[t])

Arrive(t) ==
    /\ pc[t] = "region" /\ Current(t) # 0
    /\ arrived' = [arrived EXCEPT ![Current(t)] = @ \cup {t}]
    /\ Goto(t, "barrier")
    /\ UNCHANGED <<exists, hasTeam, data, next, jobs, seen, made, alive, threads>>

\* releaseWorker: leaveTeam, which may free the thread, before removeThread.
LeaveTeam(t) ==
    /\ pc[t] = "barrier" /\ Cardinality(arrived[Current(t)]) = Size
    /\ seen' = [seen EXCEPT ![t] = Current(t)]
    /\ data' = [data EXCEPT ![t] = Tail(@)]
    /\ hasTeam' = [hasTeam EXCEPT ![t] = data'[t] # <<>>]
    /\ Goto(t, "remove")
    /\ UNCHANGED <<exists, next, jobs, made, alive, threads, arrived>>

RemoveThread(t) ==
    /\ pc[t] = "remove"
    /\ threads' = [threads EXCEPT ![seen[t]] = @ \ {t}]
    /\ Goto(t, "unlock")
    /\ UNCHANGED <<exists, hasTeam, data, next, jobs, seen, made, alive, arrived>>

\* The lock of the map is in the team.
Unlock(t) ==
    /\ pc[t] = "unlock"
    /\ Goto(t, IF data[t] = <<>> THEN "idle" ELSE "end")
    /\ UNCHANGED <<exists, hasTeam, data, next, jobs, seen, made, alive, threads, arrived>>

\* Mutant of EndTeam: it does not wait for the threads to leave the map.
EndTeamNow(t) ==
    /\ pc[t] = "end"
    /\ alive' = alive \ {seen[t]}
    /\ Goto(t, "region")
    /\ UNCHANGED <<exists, hasTeam, data, next, jobs, seen, made, threads, arrived>>

EndTeam(t) ==
    /\ pc[t] = "end" /\ threads[seen[t]] = {}
    /\ alive' = alive \ {seen[t]}
    /\ Goto(t, "region")
    /\ UNCHANGED <<exists, hasTeam, data, next, jobs, seen, made, threads, arrived>>

Move(t) ==
    \/ \E u \in Threads : Look(t, u)
    \/ CreateWorker(t) \/ Reserve(t) \/ Acquire(t) \/ Start(t) \/ TakeJob(t) \/ EnterTeam(t)
    \/ Arrive(t) \/ LeaveTeam(t) \/ RemoveThread(t) \/ Unlock(t) \/ EndTeam(t)

TeamsNext == \E t \in Threads : CreateTeam(t) \/ Move(t)

\* Threads are scheduled; a region may or may not create another one.
TeamsSpec ==
    TeamsInit /\ [][TeamsNext]_teamsVars /\ \A t \in Threads : WF_teamsVars(Move(t))

----------------------------------------------------------------------------
\* The teams that t has been added to and has not entered.
Pending(t) ==
    {k \in alive : /\ t \in threads[k] /\ k \notin ToSet(data[t])
                   /\ ~(pc[t] = "remove" /\ seen[t] = k)}

(* Two creators never take the same thread, and the next team of a thread is not
   replaced before the thread has entered it (system.cpp:1326-1356, where the test is
   repeated under the thread's lock, and setNextTeamData). *)
ReservedOnce ==
    /\ \A c, d \in Threads : pc[c] = "acquire" /\ pc[d] = "acquire" /\ seen[c] = seen[d] => c = d
    /\ \A t \in Threads : Pending(t) \subseteq {next[t]}

(* A team exists while a thread is in it or has yet to leave its map: endTeam waits
   for the map to empty, not for the barrier (system.cpp:1494-1507).  Not so where the thread
   has left the map and has still to release its lock, which is in the team (at unlock,
   threadteam.hpp:100-101): endTeam does not wait for that. *)
TeamOutlives ==
    \A t \in Threads :
       /\ ToSet(data[t]) \cup ToSet(jobs[t]) \subseteq alive
       /\ pc[t] \in {"remove", "end"} => seen[t] \in alive

AllOver == alive = {0} /\ \A t \in Threads \ {0} : pc[t] = "idle"

(* Every region ends: all teams but the first are deleted and every worker is idle. *)
RegionsEnd == <>[]AllOver

----------------------------------------------------------------------------
(* The inductive invariant behind ReservedOnce and TeamOutlives.  maker says which thread
   has created each team. *)

TypeOK ==
    /\ exists \in {0..k : k \in Threads} /\ hasTeam \in [Threads -> BOOLEAN]
    /\ data \in [Threads -> Seq(Ids)] /\ jobs \in [Threads -> Seq(Ids)]
    /\ made \in Ids /\ next \in [Threads -> 0..made] /\ alive \subseteq 0..made
    /\ pc \in [Threads -> {"idle", "region", "look", "reserve", "acquire", "enter", "barrier",
                           "remove", "unlock", "end"}]
    /\ seen \in [Threads -> Threads \cup Ids]
    /\ \A t \in Threads : pc[t] \in {"reserve", "acquire"} => seen[t] \in Threads
    /\ threads \in [Ids -> SUBSET Threads] /\ \A k \in Ids : k > made => threads[k] = {}
    /\ arrived \in [Ids -> SUBSET Threads]

\* A thread that a creator may take, or has taken and not given a job.
Free(t) == data[t] = <<>> /\ jobs[t] = <<>> /\ pc[t] \in {"idle", "remove", "unlock"}

PlaceInv == \A t \in Threads :
    /\ pc[t] \in {"region", "look", "reserve", "acquire", "barrier", "end"} => data[t] # <<>>
    /\ pc[t] = "idle" => data[t] = <<>>
    /\ data[t] # <<>> => jobs[t] = <<>>
    /\ ~hasTeam[t] => Free(t)

\* The teams that a thread is in exist and have it in their maps, and it has created all of
\* them but the one it began with.
DataInv(maker) == \A t \in Threads : \A i \in DOMAIN data[t] :
    /\ data[t][i] \in alive /\ t \in threads[data[t][i]]
    /\ \A j \in DOMAIN data[t] : data[t][i] = data[t][j] => i = j
    /\ i < Len(data[t]) => maker[data[t][i]] = t

\* A job is for the next team.
JobInv == \A t \in Threads : jobs[t] # <<>> =>
    /\ jobs[t] = <<next[t]>> /\ next[t] \in alive /\ t \in threads[next[t]]
    /\ pc[t] \in {"idle", "remove", "unlock"} /\ (pc[t] = "remove" => seen[t] # next[t])

EnterInv(maker) == \A t \in Threads : pc[t] = "enter" =>
    /\ next[t] \in alive /\ t \in threads[next[t]] /\ jobs[t] = <<>>
    /\ \A i \in DOMAIN data[t] : data[t][i] # next[t]
    /\ data[t] # <<>> => maker[next[t]] = t

LeaveInv(maker) == \A t \in Threads :
    /\ pc[t] = "remove" => /\ seen[t] \in alive /\ t \in threads[seen[t]]
                           /\ \A i \in DOMAIN data[t] : data[t][i] # seen[t]
    /\ pc[t] \in {"remove", "unlock", "end"} /\ data[t] # <<>> =>
          seen[t] \in alive /\ maker[seen[t]] = t

\* While thread t looks for the others of its next team.
Gathering(t) == pc[t] \in {"look", "reserve", "acquire"}

\* Nobody has begun with the body of team k, and those it has got so far are free.
Unstarted(k, u) ==
    /\ \A i \in DOMAIN data[u] : data[u][i] # k
    /\ jobs[u] # <<>> \/ pc[u] = "enter" => next[u] # k
    /\ pc[u] = "remove" => seen[u] # k

GatherInv(maker) == \A c \in Threads : Gathering(c) =>
    /\ next[c] \in alive /\ maker[next[c]] = c /\ c \in threads[next[c]]
    /\ \A u \in Threads :
          /\ Unstarted(next[c], u)
          /\ u \in threads[next[c]] /\ u # c => hasTeam[u] /\ Free(u) /\ next[u] = next[c]

\* A thread is reserved for one creator, and no creator has it yet.
ReserveInv == \A c \in Threads : pc[c] = "acquire" =>
    /\ hasTeam[seen[c]] /\ Free(seen[c])
    /\ \A d \in Threads :
          /\ pc[d] = "acquire" /\ seen[d] = seen[c] => d = c
          /\ Gathering(d) => seen[c] \notin threads[next[d]]

\* A team in whose map thread t is, and that it has neither entered nor left.
Awaits(t, k) ==
    /\ k = next[t]
    /\ \/ pc[t] = "enter" \/ Gathering(t) \/ jobs[t] # <<>>
       \/ \E c \in Threads : c # t /\ Gathering(c) /\ next[c] = k

MemberInv == \A k \in Ids : \A t \in threads[k] :
    \/ \E i \in DOMAIN data[t] : data[t][i] = k
    \/ pc[t] = "remove" /\ seen[t] = k
    \/ Awaits(t, k)

TeamsInv(maker) ==
    /\ TypeOK /\ PlaceInv /\ DataInv(maker) /\ JobInv /\ EnterInv(maker) /\ LeaveInv(maker)
    /\ GatherInv(maker) /\ ReserveInv /\ MemberInv

Inductive == \E maker \in [Ids -> Threads] : TeamsInv(maker)
=============================================================================
