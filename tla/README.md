# A TLA+ verification of the Nanos++ task runtime

Nanos++ (`src/src`) is the runtime library behind OmpSs and OpenMP programs compiled with
Mercurium. It creates work descriptors (WDs, the tasks), orders them by the data they access,
queues them, runs them on worker threads that switch between user-level stacks, and copies their
data to and from devices. The library has tests for its interfaces, but its correctness rests on
protocols between threads that a test hardly ever drives into their narrow interleavings. Those
protocols are what is modelled.

## 1. Inventory

| component | state | operations | what makes it correct |
|---|---|---|---|
| synchronization conditions (`core/synchronizedcondition*.hpp`, `Scheduler::waitOnCondition`, `switchHelper`) | a lock, one or many waiters, a predicate on a variable elsewhere | `wait`, `signal`, `waitConditionAndSignalers` | a waiter whose condition holds is woken; no wake-up falls between check and sleep |
| barriers (`plugins/barr`) | a counter and a flag, or a tree of integers, and conditions on them | `barrier`, `init`, `resize` | nobody leaves before everyone has come, in every episode; everyone leaves |
| task scheduling (`core/schedule.cpp`, `plugins/sched/bf_sched.cpp`, `core/wddeque.hpp`) | current WD and next-WD queue of each thread, the team's ready queue, the stack each inlined WD stands on, ties | submit, block, wake up, yield, exit, worker loop, stop and start | a WD is in one place; a tied WD stays on its thread; every WD finishes |
| other policies (`plugins/sched/{wf,dbf,affinity,socket}_sched.cpp`) | several ready queues: per thread, memory space or socket; the queue a WD says it is in | queue, push, pop, steal, search for a parent | a WD is held once; every queue is emptied by someone who may run what is in it |
| work groups (`core/workgroup.cpp`) | the number of unfinished children, the references of signallers | `addWork`, `exitWork`, `waitCompletion`, `done` | a taskwait returns when the children are over; a group outlives those who touch it |
| dependences (`plugins/deps`, `core/dependableobject*`, `core/trackableobject.hpp`, `core/commutationdepobj.hpp`) | per address: last writer, readers, open commutation object; per object: number of predecessors, successors | submit an access list, finish, release the immediate successor, wait for accesses | conflicting tasks run in program order; every edge is told once; no object is followed after it is deleted |
| region dependences (`plugins/deps/{regions,perfect_regions}_deps.cpp`, `support/region*`) | a tree from regions, strings of 0, 1 and X, to the same statuses | the same, on the regions that meet the one accessed; search, insert, cut and erase in the tree | the same, byte by byte; a search finds what is there; a task finds again what it entered |
| commutative accesses (`core/workdescriptor.cpp`) | an owner per address | acquire when picked, release when done | one owner at a time, and none that is gone |
| worksharing and single guards (`plugins/worksharing`, `core/threadteam.cpp`, `core/basethread.hpp`) | a list of loop descriptors, a chunk counter, a guard counter | create, next item, single guard | every iteration once; one thread per single |
| slicers (`plugins/slicers`) | the bounds left in a sliced WD | submit, dequeue | the slices add up to the WD, and slicing ends |
| teams and workers (`core/system.cpp`, `arch/smp/smpthread.cpp`) | threads, team membership, the next team, sleep flags | resize, create and end a team, acquire and release a worker, sleep and wake up | a team's threads are in it, once, and awake; a team outlives its threads |
| pause of all threads (`core/system.hpp:333-371`, `Scheduler::stopScheduler`, `startScheduler`) | a counter of paused threads and two conditions on it | stop, wait for all to pause, start, wait for all to go on | nobody runs user code in the section between; all go on after it |
| throttles (`plugins/throttle`) | counters of tasks | may the creator go on | the creator resumes |
| caches and directories (`support/cache.hpp`, `core/directory*`) | copies of blocks, their versions, the owner of each | register and unregister an access, copy in and out, evict, invalidate, flush | the newest version is read, and is never lost |
| device back ends, instrumentation, C API, support library | | | outside the models, see section 7 |

How they interact: a WD that is submitted goes to the dependences domain of its parent; when its
predecessors are gone the domain calls `submit()` and the scheduler queues it. Threads take WDs
from their own next-WD queue, then from the policy; the copies of a WD's data are made before and
after its body. A WD that waits (for its children, for data, in a barrier, for the throttle) gives
its thread to another WD through a synchronization condition, and is put back by whoever signals
the condition. When a body ends, `done()` releases the dependences, then waits for the WD's own
children, then tells the parent's group.

What is hard in it: a WD is on the move between threads, queues and stacks while others refer to
it; conditions are checked without a lock and slept on with one; barriers, guards and loop
descriptors are reused at once by fast threads; the submitter of a task graph reads last writers,
readers and commutation objects that finishing tasks are removing; a thread may be tagged, taken
and released while it leaves a team; a block may be read, written, evicted and asked back at once.
There is no persistence, no message passing and no time-out in the modelled parts, so crash
recovery, delivery and clocks are no hazard here. `PROJECT.json` lists the hazards line by line.

## 2. The modules

| what is modelled | detailed modules | contract, properties | proofs | instances |
|---|---|---|---|---|
| conditions | `SyncCond` | | | |
| barriers | `CentralizedBarrier`, `OldCentralizedBarrier`, `TreeBarrier`, composed in `BarrierPlugins` | `Barrier`, `CentralizedBarrierProps` | `CentralizedBarrierProofs`, `BarrierPluginsProofs` | `BarrierPlugins` |
| scheduler, groups | `TaskScheduler` | `ForkJoin`, `TaskSchedulerProps` | `TaskSchedulerProofs` | `MCTaskScheduler`, `MCTasks` |
| other policies | `Policies`, `PriorityQueue` | in the module | `SchedulingProofs` | `MCPolicies`, `MCScheduling` |
| dependences | `DependenciesDomain` | `DataFlow`, `DependenciesDomainProps` | `DependencesProofs` | `PlainDependences`, `MCDependences` |
| region dependences | `Regions`, `RegionTree`, `RegionDependences` | in the module | | `MCDependences` |
| commutative accesses | `CommutativeAccesses` | `CommutativeAccessesProps` | `CommutativeAccessesProofs`, `SchedulingProofs` | `MCCommutativeAccesses`, `MCScheduling` |
| loops, singles | `LoopItems`, `Worksharing` | `TeamConstructs` | | `MCRuntime` |
| slicers | `Slicers` on `LoopItems` | in the module | | `MCRuntime` |
| workers, teams, throttle, pauses | `Workers`, `Teams`, `Throttle`, `Pauses` | in the modules | `RuntimeProofs` | `MCRuntime` |
| caches, directories | `Coherence` | in the module | `CoherenceProofs`, `RuntimeProofs` | `MCCoherence`, `MCRuntime` |

`PlainDependences` is the dependences domain for a program of `in`, `out` and `inout` accesses, the
part of it that is proved about; `MCDependences` adds programs with all kinds of accesses and those
on regions. `MCDependences`, `MCScheduling` and `MCRuntime` put components side by side under one run each: `part` says which of
them moves, the others keep their initial state. They share no state in the code paths modelled,
so composing them further would only multiply states.

## 3. How state and actions correspond to the code

**`SyncCond`** is `SingleSyncCond` and `MultipleSyncCond` with `Scheduler::waitOnCondition` and
`switchHelper`, for any number of conditions. `at[p]` is where a participant is in an operation
(`check`, `lock`, `switch`, `asleep`, or `siglock`, `waking` for a signaller), `on[p]` the condition,
`owner` the locks, `waiters` the lists. The predicate is a parameter, evaluated where the code
evaluates it: without the lock, then with it. Putting oneself on the list and unlocking are one
step, as both happen under the lock.

**`CentralizedBarrier`** (`plugins/barr/centralized_barrier.cpp`): `sem` is `_sem`, `flag` is
`_flag`, `ep[p]` the episodes a participant has completed, `reduced` the calls of
`computeVectorReductions`. Each access to the shared counter or flag is a step, also `_sem = 0` and
the reversal of `_flag`, which come in this order before the signal. **`OldCentralizedBarrier`** is
its predecessor, whose participants also count themselves out. **`TreeBarrier`** is
`tree_barrier.cpp`: the phases modulo 3, the two semaphores of each node, and their conditions.
**`BarrierPlugins`** runs the one chosen at start-up; its `PluginInit` is the choice, and a
step is a step of that barrier. **`Barrier`** is the contract of `barrier_decl.hpp:51-55`.

**`TaskScheduler`** is `core/schedule.cpp` with `workgroup.cpp`, `wddeque.hpp` and the
breadth-first policy; the header lists the places of a WD. `cur` is `_currentWD`, `nexts` the
next-WD queues, `under` the frame an inlined WD stands on, `comps` and `refs` the group. `ULT`
chooses between stacks of their own and inlining. `Scheduler::exit` is modelled with the WD it takes
at the start (`held`), and with the thread it remembers (`home`). `exitWork` is four steps;
`signal()` is one, because it holds the condition's lock from the first to the last. **`ForkJoin`**
is what the program sees of it.

**`Policies`** is the four other policies in use. A WD's life is coarser than in `TaskScheduler`
(its end is a step, its signal another); the search for the next WD is made of the steps between which
other threads may come: one lock of one queue, or one read of a field, each. `queues` holds the
ready queues and the next-WD queues, `mine` is `_myQueue`, which the code sets before it locks the
queue (`pushing`), `wakeQ` the queue socket remembers. **`PriorityQueue`** is the insertion by halves
into a list in order of priority. In `Policies` a list whose WDs have all one priority is a plain
queue, so that one set of queue operations serves every policy.

**`DependenciesDomain`** is `plain_deps.cpp` on `basedependenciesdomain.hpp`, with
`dependableobject.cpp`, `trackableobject.hpp` and `commutationdepobj.hpp`. One thread submits (`spc`
is its place in `submitDependableObjectInternal`, once per address), while any number of tasks
finish (`stage`) and close commutation objects (`cpc`). The step boundaries follow the locks:
`dependOnReaders` is one step since it holds the readers' lock, `deleteLastWriter` one since it
compares under the domain's and the object's lock, `setAsWriter` flushes and sets in one step, as
nobody else writes these fields in between; reading the last writer and locking it are two.
`_references` is unsigned in the code and an integer here: it is only compared with 0. The busy wait
of `finalizeReduction` is not a step, because `NeverWriter` shows it is never entered. A `waitOn` has
one object per call. A plain reader of a `waitOn` waits at once; `AfterLook` tells it from the reader
that is entered. **`DataFlow`** is what the program sees: any order the conflicts allow.

**`Regions`** is the arithmetic of regions: what a number of dimensions of an array becomes as a
string of bits, when two strings meet, and how one is cut along another. **`RegionTree`** is the trie
that holds them, with its nodes as records; the parent pointers, the partial regions and the bits of
an iterator are left out. **`RegionDependences`** is the domain on such a tree, under either plugin:
`regions-default` adds the region accessed beside those it meets, `perfect-regions` cuts them up. The
lock of the domain is held over an access and over each deletion, which are one step each.

**`CommutativeAccesses`** is `tryAcquireCommutativeAccesses` and its callers. `owner` holds an
address per *parent*, as the map does. A thread that checks a WD's constraints has it in `try`, with
the number of addresses taken; each compare-and-swap and each store of the give-back and of the
release is a step. `pc` tells which of the four callers it is: the next-WD queue, the ready queue
(only there a lock is held), the immediate successor, the wake-up. The scheduler around it is that of
`TaskScheduler` with user-level stacks, without its group protocol, yields and stops; the last
child's `exitWork` is one step that waits for the condition's lock. A WD whose stage is `gone` has
been deleted by the thread that left it. `AllDone` there says: everything runs, unless an address has
been left with a WD that is gone, which is finding `commutative_gone` and makes the tasks that want
the address wait for ever.

**`LoopItems`** is the arithmetic of loops, with C's division: the item each worksharing plugin
returns and the slice each slicer cuts, as functions of bounds, step and chunk. **`Worksharing`** is
the list of descriptors of dynamic and guided loops, whose elements are appended by a
compare-and-swap, filled by the winner and published by `ws`; the per-thread descriptor of static
loops; and the team's guard with the counters of the threads. **`TeamConstructs`** is the contract: an iteration
is given out once and none is left when the last thread leaves, one thread is single, a guarded single is
waited for. **`Slicers`** are the six slicers as operations on the bounds left in the sliced WD.

**`Workers`** is `updateActiveWorkers` of the OmpSs team with the sleep and wake-up of an SMP
thread. `tagged` is `_mustSleep`, `team` the map of ids, `mutex` the static `_mutexWait`. The resizing
thread finds a worker and then acquires it; a worker sees its tag, leaves the map and sleeps in
steps of their own. `manner` says whether user code resizes only when things have settled and
whether `pthread_cond_wait` may return by itself. **`Teams`** are the teams of parallel regions:
`data` is the stack of `_teamData`, `next` the reserved team, `threads` the map that keeps a team
alive. **`Throttle`** is the hysteresis throttle with its condition. **`Pauses`** is what the worker
loop and the exit of a WD do while the scheduler is stopped: `paused` is `_pausedThreads`, and the
two conditions on it are those of `SyncCond`; a thread counts itself, compares and signals in steps
of their own. The stopping thread sets the flag, waits for the count, runs its section, clears the
flag and waits for the count to be 0 again; `careful` says whether it does the last, as the comment
of `waitUntilThreadsUnpaused` asks. **`Coherence`** is
`cache.hpp` with `directory*.hpp`: a block is a tag; `owner`, `version` and `invalidated` are its
directory entry; `entry` the cache entries with their version, flags and references; `moves` the
copies a device has queued; `latest` and `mem` count the writes, so that a stale read is a smaller
number. `pc` follows a task from `copyDataIn` through its body to `copyDataOut`, with each wait for
another cache a step.

## 4. The runs

| run | asks | instance | distinct states |
|---|---|---|---|
| `barriers` | is each plugin a barrier, does nobody oversleep, does everyone leave | 4 participants, 3 episodes | 149,009 |
| `tasks` | is a WD in one place, on its thread, joined, finished | 2 threads, 4 tasks on 2 levels, one tied; 1 yield, 1 stop | 199,670 |
| `task_exit_tied` | does a thread only run WDs tied to it (finding) | 5 tasks, unwaited children | - |
| `dependences` | are conflicting tasks ordered, each edge counted once, nothing dangling; does a search find what is in the tree, and each task on all its bytes; does every task on addresses end | 2 tasks on 2 addresses and a `waitOn` on one of them; 3 tasks and a `waitOn` on one; 3 tasks or waits on regions of a matrix | 445,660 |
| `deps_lost` | is a group always waited for (finding) | 3 tasks, 1 address | - |
| `deps_deleted` | is the object that is locked alive (finding) | 2 tasks, 1 address | - |
| `regions_cut` | is a reader always waited for (finding) | a reader of 8 bytes and a writer of 4 of them | - |
| `scheduling` | is a WD held once, run where it may, are priority queues in order; do commutative tasks exclude one another, is taking all or nothing; does every program end | 3 threads, 3 or 4 tasks, eight setups of four policies; 3 threads, 3 tasks, 2 addresses, two programs | 150,476 |
| `commutative_gone` | does a finished task own nothing (finding) | the latter | - |
| `steal_null` | does a thread that looks for a WD notice that it has moved (finding) | work first, 4 tasks | - |
| `runtime` | is each iteration given out once and each single taken once, do slices add up; do resizes give what was asked, are teams kept and threads reserved once, does nobody run in a section that stopped all, is the newest data read, does nothing wait for ever | 3 threads in five programs of up to 3 constructs; about 800 sliced WDs; 3 workers, 3 resizes; 4 threads, 3 regions; 3 threads, 9 tasks; 3 threads, 2 tasks, 2 stops; 1 or 2 devices with up to 2 host threads, 3 tasks | 194,687 |
| `cache_lost` | is a block that was written copied back when it is evicted (finding) | 1 device with room for one of 2 blocks | - |

Deadlock is not checked, since every program ends; `EveryoneReturns`, `AllDone`, `EveryTaskEnds`,
`SchedulingEnds` and `RuntimeGoesOn` are stronger.

Why these bounds are enough to see what is asked:

- *Barriers.* Three episodes use each phase modulo 3 and both values of the flag, and let a fast
  participant enter the next episode while a slow one still leaves the last; four participants make
  a tree of three levels, with an inner node of one child. `MaxEpisodes` bounds `ep`.
- *Loops and singles.* No program has a barrier, so that a thread may be two constructs ahead;
  the programs pair each plugin with another and with singles, steps of both signs, and bounds the
  step passes over. Slices: every loop with bounds in -3..9, steps in -3..3 and chunks in
  0..4. `Fits` leaves out a chunk larger than what a negative step has left, where `dynamic_for`
  and `guided_for` overrun (section 8).
- *Tasks.* Two threads are enough for a WD to be blocked on one and woken by the other; two levels
  of tasks make a WD both wait and be waited for. `MaxYields` and `MaxStops` bound what user code
  may call. Unwaited children with user-level threads, yields before them, and stops with waits are left out of `tasks`,
  because the code goes wrong there (section 8).
- *Policies.* Three threads are a victim, a thief and a third with a device or socket of its own;
  in `Late` a creator goes on while its child waits, so that the search for a parent has one to
  find. Priorities take three values, so that an insertion may fall between two others.
- *Dependences.* Three objects are the smallest number with a reader between two writers or two
  members of a group and a successor; two addresses make one task the predecessor of another twice.
  For plain accesses two tasks and a `waitOn` on two addresses are checked, with `in` and `out`:
  the proofs do the rest. With all kinds of accesses there are three tasks and a `waitOn` on one
  address: the fourth object on one address is needed to open a second
  group. Concurrent and commutative
  accesses differ in nothing but their kind, so the first group is a concurrent one. `LastComm` bounds the
  commutation objects by the number of tasks: were it too small, the submitter would stop and
  `EveryTaskEnds` fail.
- *Regions.* Strings of four bits hold a matrix of four rows and two columns of elements of two bytes: a
  row, a column, most of the matrix and a column that is waited for meet one another in every way but
  equality, and two accesses of one task meet. Three tasks erase, cut and find again; the tree has up
  to three levels. With the perfect plugin the cut of a region with readers is excepted (section 8):
  `TreeSearched` claims of readers what it claims of writers only until such a cut. Of the regions it is not
  checked that every task ends, whose fairness costs more than all the rest of the run.
- *Commutative accesses.* A and B meet on x, B and C on y, so that B takes one address and is
  refused the other. In one program C is A's successor, so it may be its immediate one; in the other
  it is A's child, which wakes A (`commutative_gone` has both, with a child D). With three threads, the wake-up, a release and a scan of the queue interleave.
- *Workers, teams, throttle.* Three resizes tag a worker, take it again and tag it once more. Three
  regions allow one nested in another and one after both. Nine tasks pass the upper bound of
  two per thread with three threads. Two stops let a thread be late in leaving the first pause when
  the second begins, which is what `waitUntilThreadsUnpaused` is for.
- *Memory.* Room for one of two blocks makes every second access evict; two caches make one of them stale; a host
  thread beside them invalidates and flushes; the two setups with queued copies have a copy under way
  while another thread asks. `made` counts the tasks up to `setup.tasks`.

Every property of a passing run has a mutant, or two, in `PROJECT.json`: a plausible slip in the code, stated
beside the definition it replaces, that the run finds.

## 5. Fairness

Each participant of a barrier and each thread of the scheduler, the policies, the workers and the
pauses is a kernel thread that spins or runs, so it is weakly fair as a whole: it makes some step as
long as it can. Where a thread spins for a lock that others take again and again, weak fairness is
not enough: the locks are spin locks without a queue. `BarrierPlugins` (`TreeLock`),
`CommutativeAccesses` (`Locking`) and `Policies` (`SignalStep`) assume strong fairness there,
that is, that an acquirer does not lose every race: the code cannot promise it, and relies on it. In
the dependences on addresses, the loops, the slicers, the throttle and the memory only some step is
promised as long as there is one: nothing there spins for ever while another is held back, so that less than
per-thread fairness does.
User code has no fairness of its own: resizes, stops, yields and the choice between a
taskwait and none; a spurious return of `pthread_cond_wait` is never owed.

## 6. What is proved

For every set of participants and number of episodes, `CentralizedBarrierProofs` proves type
correctness, `Contract`, `ReducedBetween`, `NoLostWakeup` and, step by step, that the barrier
implements `Barrier`. The assumptions are that there is a participant, that there are finitely many,
and that `NoProc` is none of them. None of the four is inductive alone. `Inductive` adds:

- `Flips`, the number of reversals of the flag, read off the state; `flag = Odd(Flips)`;
- `EpisodeInv`: everyone is in the episode being gathered or is leaving the one before, which
  gives the two values of a one-bit flag a meaning;
- `LeaderInv`: while the last to arrive reduces, clears and flips, all others wait;
- `SemInv`: `_sem` counts those who have arrived in this episode and nobody else;
- `PlaceInv`, `ConditionInv`: the lock and the list of a condition agree with the places;
- `WakeupInv`, which extends `NoLostWakeup` to those about to sleep: they hold the lock, so that a
  signaller still has to come.

There is a lemma for each part, one step per action in each.

`BarrierPluginsProofs` does the same for the other two barriers, and then for the plugin of a team
(`PluginsImplement`). In the *old barrier* the flag is up while participants count themselves out:
`Episode` is the number of the episode they are in, `SemInv` says that `sem` counts those in and not
yet out, `EpisodeInv` what the flag says about the place and the episode of each, and `LeaderInv`
where the others may be while the last to arrive opens and the last to depart closes. The *tree* has
no common counter. `CountInv` gives each int its meaning, the number of times a node has reported to
its parent or been freed by it, modulo 3; `LinkInv` says that parent and child are at most one
message apart, which is why three values are enough; `PlaceInv` which statement applies to a node.
All this is local to a node and its parent. That nobody returns before everyone has come is not: it
follows by the well-foundedness of the naturals, once going up (a node that has reported has
everyone below it, for else there would be a least level at which one had not) and once going down
from the root.

For every set of threads and every finite tree of tasks, tied or not, waited for or not, with and
without user-level stacks, yields and stops (the ASSUMEs of `TaskScheduler`), `TaskSchedulerProofs`
proves type correctness, `NoUseAfterFree` and that the scheduler implements `ForkJoin`. The
invariant is `GroupInv` (the counter of a group is the number of its unfinished children, its
reference count the number of those inside `exitWork`) with `JoinInv` (a WD that has joined has
neither). Most actions are *calm*: they touch neither the counters nor the places that the counts
depend on, and one lemma serves them all; the others get one lemma each. `NoUseAfterFree` follows: a
child inside `exitWork` is counted in one or the other, so its parent cannot have left
`waitConditionAndSignalers`. The types need that a removal at a position and a push keep a queue a
sequence of WDs (`RemoveAtType`, `PopNextType`, `PopReadyType`). These theorems also hold in the
run that violates `TiedRules`, and where `OnePlace` and `AllDone` fail: a WD that is lost or runs on
the wrong thread breaks no join.

Where the WDs are is a second invariant, `PlaceInv`. It sorts the places into six kinds (`Found`):
no WD is at two places of a kind (`Once`) or at places of two (`Apart`), and one that is alive is
somewhere (`NoneLost`). `SlotInv` is what makes it inductive: the slots `under` and `held` are
written only when empty, for a WD that has not started has nothing beneath, and one that is not
ending, or has begun to seek, holds nothing. A step moves two WDs at most, and `Settles` says that it then
suffices to name the kind where each ends. `NeverTwice` follows for every program. `OnePlace` has a
hypothesis, `KeepsAll`: user-level threads and stops of the scheduler are not both used, for that mix
loses a WD (section 8). `TiedRules` is proved without user-level threads only, where its invariant is
that of a stack: beneath an inlined WD is one that is free or has the same tie (`StackInv`), so that
a thread may run what an inlined WD returns to. With them it is false (`task_exit_tied`).

`DependencesProofs` proves, for every number of tasks and `waitOn` calls and every set of addresses,
that the counts of predecessors are exact and nothing leads to a deleted object (`PlainRecords`),
and that the domain implements the data flow the program asked for (`PlainImplementsDataFlow`). The
assumption is that all accesses are plain (`PlainAssumption`): with groups of concurrent accesses
the contract does not hold (`deps_lost`, `deps_deleted`). What makes it hard is that the domain
enters few of the edges: a writer waits for the readers of the last version and not for its writer,
a reader only for the last writer, and both are forgotten when they end. `Before` is the order asked
for, transitively closed through an address, and `Covered` what there is in its place: the earlier
task is over, or someone who had to wait for it has yet to tell the later one. `CoverInv` says that
every pair that the domain knows of is covered, `OrderInv` that who has started waits for nobody;
`LastInv`, that it suffices to ask the last writer and the readers; `WriterInv` and `ReaderInv` what
these two are; `EdgeInv` that edges lead forward to tasks still submitted, `CountInv` that they are
counted; `StageInv` and `PlaceInv` what the submitter has done so far, and in particular that at
`write` all earlier users are covered.

`CommutativeAccessesProofs` proves `Exclusive`, `AllOrNothing` and the types for every number of
threads and every program in which no WD lists an address twice (`Program`; section 8 says why), and
`SchedulingProofs` applies them to the two programs of `MCScheduling`. A task may be checked by one
thread only, which depends on where it is: `Inductive` says that there is a place for every WD
(`kind` and `who`: on a thread, held by an exiting WD, in the ready queue, in a next-WD queue, being
woken, or nowhere) that agrees with all the queues (`PlacedAt`) and with its stage (`PlaceFits`).
`TryInv` says that a search goes on for the reason it began, `TakenInv` that the addresses counted
as taken are owned, `OwnedInv` that a task owns all its addresses from when it is chosen until it
releases them one by one, and before that only those that a thread is taking for it.

`SchedulingProofs` also proves `RunsWhatItMay`, `OneHolder` and `QueuesInOrder`, of `Policies` and of
the composition that the run checks, for every number of threads, every set of tasks and every
setup (machine, homes, priorities, creators, one of the policies; homes and priorities have the types
that `SetupsAssumption` names). *`RunsWhatItMay`*: a thread runs only WDs it may
run. The invariant adds to the property that a tie, once made, is to a thread that may run the WD,
that a WD that has started is tied if it is a tied task, and that a thread's own WD is tied to it;
the search chooses under the constraint, and what a WD is woken, inlined or handed over to keeps the
tie. Work first is the exception with the shape of the argument: it runs a new WD at once, without
looking, and is right only because a new WD is tied to nobody and work first has no devices.
*`OneHolder`*: there are four places where a WD can be (on a thread, beneath an inlined WD, on its way
to a queue, in one); `Single` says that each place holds it once, `Elsewhere` that it is in one of
them as long as its stage asks for it, and in no other, `MyQueue` that `mine` names the queue it is on its
way to or in. Of a search it is enough that the thread has nothing to push, and that its WD waits, is over or
is idle (`SearchOK`): what it has read may be stale, and is looked up again under the lock.
*`QueuesInOrder`*: a WD goes where everything before it has at least its priority and everything
behind it at most (`SplitAt`), which keeps the order; that the search by halves finds such a position
is shown of all ranges at once, by their length: the lengths for which it holds are all the naturals,
for else there would be a least one that is not among them.

`RuntimeProofs` is about parts of `MCRuntime`, for any number of threads. *Pauses*
(`NothingInSection`): `CountInv` says that the counter counts the threads that have told it,
`ToldInv` what may be under way at each point of the stopping thread; that nobody is late is what
`careful` is for. *Teams* (`ReservedOnce`, `TeamOutlives`): the invariant needs who created each
team, which the code does not record; it is quantified (`maker`). `DataInv`, `JobInv`, `EnterInv`
and `LeaveInv` say that a thread is in the map of every team it is in, is about to enter or has to
leave; `GatherInv` and `ReserveInv`, that those a creator has gathered are free and have begun
nothing, and are nobody else's; `MemberInv`, that there is no other reason to be in a map, so that
an empty map is a team that may go.

*Workers* (`InTeamOnceIfSpaced`, `AsManyAsAsked`): user code resizes again only when the workers have
settled (in a hasty manner the first fails, section 8), and they settle while the resizing thread is
already at work. `ThreadsInv` says what a worker may be meanwhile: it works, is new and the only one
the resize can take, has been told to sleep, sleeps, or is the one that is being taken. That a team
grows or shrinks but never both is what makes it inductive: nobody is on the way to sleep while
somebody is taken, so that no id is given to a thread that is still in the map under another.
`TeamInv` says that the map and the threads agree on the ids, but for the one between `addThread` and
`enterTeam`; `MutexInv` that who leaves holds `_mutexWait`; `CountInv` that `_numThreads` is the number of
those in the team who are not tagged, whence there is always room for the worker that is created.

*Singles* (`GuardBetween`), for any number of threads in the programs of `MCPrograms`; nothing but the
length of a program is used of them. A thread counts the constructs it enters, so that the count of
every thread follows one sum over the program (`SumsUp`); that the sum exists, and grows, takes a least
counterexample each. `Learned` says what a thread knows of the shared guard: outside a guard, that it is
not ahead of it; at the guard, that it is past all constructs before; in a guarded single, that it is
exactly one short of the end, which is the begin or the end of no construct, so that nobody else moves
the guard meanwhile.

*Memory* (`ReadsLatest`, `DirectoryKnows`, `EnsuresHold`, with the lemmas in `CoherenceProofs`), for any devices,
host threads, blocks and tasks. The hypothesis is `AtOnce`: the devices copy at once, and either
write through, as SMP devices do by default, or have room for every block that tasks use, so that
nothing is evicted under write-back. Without it nothing of the kind can be proved, for the owner is then taken
away by whoever ends a copy back, whoever that is by now (section 8), and what was written may be
lost (`cache_lost`). Two of the setups of the run satisfy it. `JobInv` is the promise of the
dependences that a writer is alone with its block. `VersionInv` is what versions are for: a copy
with the version of the directory is the newest unless its task is still at it, and from when a writer has published
until it ends all other copies have lower versions; so a hit with an equal version need not fetch.
`OwnerInv` says who owns a block that is being written and, under write-through, that nobody owns it
otherwise; `KnowsInv`, that the directory is right but while a task that does not read the block is
about to overwrite it; `FetchedInv`, that a fetch finds the newest at the owner it saw, though it saw it a step
earlier; `HeldInv`, that the entry a task works on is referenced, so that the eviction for another
access never takes it; `UsedInv`, that a cache with room for all blocks never evicts.
`EnsuresHold` needs more (`EnsuresInv`). `EntryRight`: under write-through only the task at an entry
references it, so that a full cache has another entry to evict, provided it has room for a block at
all (`setup.room > 0`, a hypothesis of its theorem); the owner of a block has an entry for it with the
version of the directory, but while a host task that rewrites the block waits for it, so that a hit
with another version is never its own owner's. `AccessRight` says of an access that a miss is fresh,
that a writer has compared the versions before it raises them, and that what is fetched is elsewhere.

Model-checked only: all liveness (out of reach of the prover); `TiedRules` with user-level threads,
which fails in general (section 8) and holds under the constants of `tasks`; `PredsCounted`, `RunInOrder`
and `GroupsApart` with groups of accesses, which hold but for what `lost` excepts; everything on
regions, whose tree is searched by recursive operators; `LastTold`, `PiecesAddUp` and `ImplementsConstructs`,
which are about sums and orders of data (induction);
workers whom user code resizes in haste; memory beyond `AtOnce`. The proofs use of the libraries the facts about finite sets and sequences, and
that the naturals are well-founded (`NatLessThanWellFounded`, `WFMin`), where an argument takes a
least counterexample; no recursive operator and no induction theorem.

## 7. What is not modelled, and why

- Code of the user and of the compiler: the bodies of tasks, the reductions of the team (only when
  they run), the data that is accessed.
- `posix_barrier.cpp` is one call of the library; `dissem_barrier.cpp` is commented out of the build
  (`src/src/plugins/barr/performance/Makefile.am:29,46-48`).
- Scheduling: the versioning policy, whose choices depend on measured times; smart priorities, which reorder
  a queue; the GPU nodes and the random victim of socket; yield under the four other policies, and with it the
  owners of commutative addresses under them; `WDLFQueue`, which nothing uses; prefetching of
  the next WD for devices; the `wakeUp` that returns a WD.
- Policies: which devices can run a WD is read off its home, with one kind of device (`Fits`).
- Workers: CPU masks, DLB, start-up and shut-down; a thread that goes to sleep has no next WD to
  give back to the policy (`smpthread.cpp:134-139`). In `Pauses` a task runs to its end without
  creating another or waiting. In `TaskScheduler`, `stopScheduler`
  and `startScheduler` are without the wait for all threads, which is in `Pauses`.
- Throttles other than hysteresis define `throttle()`, which overrides no function of
  `ThrottlePolicy`: they never refuse a task.
- Dependences: accesses to one address are taken as merged already (the loop at the head of
  `submitDependableObject`); `haveDependencePendantWrites`; the flush after a
  `waitOn`; `llvm_deps` and `prune_deps`, which repeat the same control.
- Regions: concurrent and commutative accesses; elements of one byte, for which a shift by a whole word
  is undefined in `regionpart.hpp:116-137`; limits on the number of cuts; `findConstrained`,
  `findExact`, `insertMissingAndConsolidate` and `defragment`, which no domain calls. Whether two
  regions meet is what the domain decides on, so that a region that covers more bytes than the access
  only adds edges.
- Worksharing of explicit tasks, which get a descriptor of their own, and `duplicateWS`.
- Memory: blocks that change their size, private copies and the policy without a cache, directories
  of nested tasks, the access counters, several tasks per device at once, the CUDA 3.2 branch, and
  transfers from device to device. `InvalidateAndFlush` tests two flags and the owner in one step
  (`cache.hpp:795-808`), which only an evictor could come between: no setup has one beside a host thread.
- Memory ordering: the counters are atomic in the code and so are the steps; the fences around the
  queue tests are taken to work.
- Instrumentation, C API, device and programming-model layers and the support library
  (`PROJECT.json` lists them as components with the reason).

## 8. Where the code does not do what it says

Each of these has a run that finds it; the line quoted is in `PROJECT.json`.

1. `task_exit_tied`: `Scheduler::exit` keeps its thread in a local variable across `done()`, where
   the WD may be switched out and resume elsewhere; it then takes the next WD of the old thread,
   which may be tied to it.
2. `deps_lost`: `removeCommDO` compares and clears without the submitter's lock, and may clear the
   next group's object; what comes after that group does not wait for it.
3. `deps_deleted`: the last writer is read and then locked; it may have been deleted in between.
4. `commutative_gone`: accesses are released before `done()` waits for the children, and are taken
   again by the check that precedes the wake-up; nobody releases them then.
5. `steal_null`: `_myQueue` is tested and then read again; a pop in between leaves NULL.
6. `cache_lost`: a block that was read before it was written is evicted without a copy back.
7. `regions_cut`: the status of a region that is cut is copied without its readers, and the writer of a
   part does not wait for them.

Observed with the models under other constants, or while reading, and not kept as runs:

- `TaskScheduler` with `MaxYields = 1`, an unwaited child and stacks of their own: a WD that yielded
  between creating a child and ending may take that child as the WD to go to *after* `done()`
  (`schedule.cpp:766`), and then waits for it in `done()` for ever.
- `RegionBuilder` takes the bits of the stride minus one for those that a step along a dimension leaves
  alone, which is so for powers of two only: for other sizes of a row the string misses bytes of the
  access (`regionbuilder.cpp:40-58`).
- Groups of accesses under `regions-default`: the region that was just added is not held
  (`regions_deps.cpp:158-173`), and may be erased under the submitter when the group closes; a group
  does not close those it meets, and their statuses may be erased with the group still open
  (`regions_deps.cpp:198-201`).
- `TaskScheduler` with a stop and a program that waits under user-level threads: `wakeUp` takes the WD from the waiters and,
  since the scheduler is stopped, puts it nowhere (`schedule.cpp:485`).
- `Workers` in a hasty manner: a worker that is tagged to sleep can be taken again before it has
  left its team (`system.cpp:1332`), and is in the map twice; a spurious return of
  `pthread_cond_wait` leaves a worker awake outside its team. The properties are stated for the other manners.
- `Teams`: a thread that leaves the map of a team releases the lock of the map, which is in the team, after
  `endTeam` may have seen the map empty and deleted it (`threadteam.hpp:100-101`, `system.cpp:1499-1506`).
  `TeamOutlives` is about all steps but this one (at `unlock`, where it fails).
- `Throttle` with `Lower = 1`: all the last exits may pass before the count falls, and the creator is never
  woken (`hysteresis_throttle.cpp:60`).
- `Slicers`: with a negative step and a chunk larger than the range, `dynamic_for.cpp:49` and
  `guided_for.cpp:61` go past the end. `static_for` with threads that cannot run the WD
  (`static_for.cpp:137-182`) and nested static loops, which overwrite the thread's one descriptor
  (`static.cpp:20`), are left out of the setups; `replicate` in a team of one indexes thread -1.
- `Coherence` with write-through and queued copies: a host task that only overwrites a block takes it
  from its owner while a copy back is under way, which then overwrites the host's data
  (`directory.hpp:180`). Under write-back, an evictor between its look at the owner and
  `setOwner(NULL)` races with a new writer in the same way, and a queued copy back may end after a newer write (`cache.hpp:709`).
- `CommutativeAccesses` with a WD that lists an address twice: it takes the address once and gives it
  back twice (`workdescriptor.hpp:339-345`), and in between another task may have taken it.
  `initCommutativeAccesses` (`workdescriptor.cpp:199-235`) does not look for duplicates. The proofs
  assume that there are none (`Program`).
- Work first runs a new WD without a check of its commutative accesses (`wf_sched.cpp:107`); the
  search for a victim counts through team ids, which are not contiguous after a thread has left
  (`wf_sched.cpp:158-172`); distributed breadth first with smart priorities casts schedule data that it
  does not create (`dbf_sched.cpp:112-115`).
- `Pauses` with `careful = FALSE`: a second stop may count a thread that has not yet left the first
  pause, and run its section beside it, as the comment at `system.hpp:362-367` warns. A thread that
  submits or yields while the scheduler is stopped is counted as paused but goes on; a thread with a
  next WD runs it before it looks (`schedule.cpp:189`); a worker that sleeps, or was created
  after start-up, makes the count miss, so that `waitUntilThreadsPaused` may wait for ever.

## 9. Plan

Done: everything in section 2, and the proofs of section 6. What a next step would take up, in this
order: proofs of `ReadsLatest` with queued copies and of `Ordered` for one group of accesses at a
time; then the versioning policy and groups of accesses to regions.
