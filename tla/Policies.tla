------------------------------ MODULE Policies ------------------------------
(***************************************************************************)
(* The scheduling policies with several ready queues, under src/src/       *)
(* plugins/sched: work first (wf) and distributed breadth first (dbf) with *)
(* a queue per thread, affinity with a queue per memory space, and socket  *)
(* with two queues per socket.  TaskScheduler has the life of WDs under    *)
(* the one queue of breadth first, step by step; here a WD's life is       *)
(* coarser and the search for the next WD is made of the steps in which    *)
(* other threads may come between: one lock of one queue, one read of a    *)
(* field, each.                                                            *)
(*                                                                         *)
(* Thread t has the id t in its team and its own WD is t; WD 0 is the      *)
(* program's main WD, and the tasks follow.  Queue 0 is the global one and *)
(* the next are of spaces or sockets, no more than threads, or queue t is  *)
(* thread t's; the last are those of next WDs, BaseThread::_nextWDs.       *)
(*                                                                         *)
(* pc[w]: unborn, new (submitted), body, wait (for its children, on a      *)
(* thread or woken), blocked (off its thread), signal (counted out, has    *)
(* yet to wake its parent), leave (over), seek (over, and its thread looks *)
(* for another WD), idle (a worker's own WD), gone, done (WD 0).           *)
(***************************************************************************)
EXTENDS PriorityQueue, FiniteSets

CONSTANTS N,           \* threads
          Tasks,       \* the WDs that the program creates, numbered from N
          TiedTasks,   \* tasks created tied: to the thread that starts them
          Setups       \* see setup

ASSUME PoliciesAssumption == N \in Nat \ {0} /\ Tasks \subseteq Nat \ (0..(N - 1))

None == -1
Threads == 0..(N - 1)
WDs == Threads \cup Tasks

\* Spaces and sockets are numbered from 0.
ASSUME SetupsAssumption ==
    \A s \in Setups : /\ s.policy \in {"wf", "dbf", "affinity", "socket"}
                       /\ s.home \in [Tasks -> Nat] /\ s.space \in [Threads -> Nat]
                       /\ s.prio \in [WDs -> Int]

VARIABLES
    setup,     \* [parent: of each task, the WD that creates it; policy; option: steal-parent (wf), priority (dbf), steal (socket);
               \*  home: the space or socket of each task; space: that of each thread;
               \*  device: the threads of a device, whose home tasks only they can run;
               \*  prio: of each WD], never changes
    pc, cur,           \* see above; BaseThread::_currentWD
    queues, mine,      \* the ready queues, WorkDescriptor::_myQueue
    pushing,           \* the WD a thread is about to put in mine[w]
    under, tied,       \* the WD beneath an inlined one, the thread a WD is tied to
    comps,             \* WorkGroup::_components
    wakeQ,             \* WorkDescriptor::_wakeUpQueue (socket)
    look,              \* the search of a thread: its next attempt, the queue it has read
    crashed            \* a thread has called a member of a NULL queue

policiesVars == <<setup, pc, cur, queues, mine, pushing, under, tied, comps, wakeQ,
                  look, crashed>>

ReadyQueues == 0..(2 * N)
NextQueue(t) == 2 * N + 1 + t
Queues == ReadyQueues \cup {NextQueue(t) : t \in Threads}
NotLooking == [k |-> 0, q |-> None]

PoliciesInit ==
    /\ setup \in Setups
    /\ pc = [w \in WDs |-> IF w = 0 THEN "body" ELSE IF w \in Threads THEN "idle" ELSE "unborn"]
    /\ cur = [t \in Threads |-> t]
    /\ queues = [q \in Queues |-> <<>>] /\ mine = [w \in WDs |-> None]
    /\ pushing = [t \in Threads |-> None]
    /\ under = [w \in WDs |-> None]
    /\ tied = [w \in WDs |-> IF w \in Threads \ {0} THEN w ELSE None]
    /\ comps = [w \in WDs |-> 0] /\ wakeQ = [w \in WDs |-> None]
    /\ look = [t \in Threads |-> NotLooking] /\ crashed = FALSE

policy == setup.policy
Parent == setup.parent
Prioritised == policy = "socket" \/ (policy = "dbf" /\ setup.option)

\* A thread that has nothing to push and is not in a search, running w at place.
Free(t, w, place) ==
    /\ ~crashed /\ pushing[t] = None /\ look[t] = NotLooking
    /\ cur[t] = w /\ pc[w] = place

----------------------------------------------------------------------------
(* Where a WD is queued *)

ForDevice(w) == w \in Tasks /\ \E t \in setup.device : setup.space[t] = setup.home[w]

\* canRunIn, with one kind of device: a task is for it if its home is the space of such a
\* thread.
Fits(w, t) == ForDevice(w) <=> t \in setup.device

\* Mutant of CanRun: whom a WD is tied to does not matter.
CanRunUntied(w, t) ==
    /\ Fits(w, t)
    /\ t \in setup.device => pc[w] = "new"

\* checkBasicConstraints; the threads of devices have no user-level threads.
CanRun(w, t) ==
    /\ tied[w] \in {None, t}
    /\ Fits(w, t)
    /\ t \in setup.device => pc[w] = "new"

Depth(w) == IF w \in Threads THEN 0 ELSE IF Parent[w] = 0 THEN 1 ELSE 2

\* distribute: where a WD of the socket policy goes the first time.
BigQueue(s) == 2 * s + 1
SmallQueue(s) == 2 * s + 2
Distributed(w) ==
    CASE Depth(w) = 0 -> 0
      [] Depth(w) = 1 -> BigQueue(setup.home[w])
      [] OTHER -> LET q == wakeQ[Parent[w]] IN IF q % 2 # 0 THEN q + 1 ELSE q

\* SchedulePolicy::queue: the queue w is put in when thread t queues it.
QueueFor(t, w) ==
    CASE policy \in {"wf", "dbf"} -> t
      [] policy = "affinity" /\ tied[w] # None -> setup.space[tied[w]]
      [] policy = "affinity" /\ tied[w] = None -> IF w \in Tasks THEN setup.home[w] ELSE 0
      [] OTHER -> IF wakeQ[w] = None \/ Depth(w) = 0 THEN Distributed(w) ELSE wakeQ[w]

\* The first half of a push: _myQueue is set before the queue is locked.
StartPushTo(t, w, q) == pushing' = [pushing EXCEPT ![t] = w] /\ mine' = [mine EXCEPT ![w] = q]
StartPush(t, w) ==
    /\ StartPushTo(t, w, QueueFor(t, w))
    /\ wakeQ' = IF policy = "socket" /\ Depth(w) > 0
                  THEN [wakeQ EXCEPT ![w] = QueueFor(t, w)] ELSE wakeQ

\* How many WDs of queue q the WD w goes behind: push_back for the socket policy and next
\* WDs, push_front for the others.
PlaceIn(q, w) ==
    CASE q \notin ReadyQueues -> Len(queues[q])
      [] q \in ReadyQueues /\ Prioritised ->
           Behind(queues[q], setup.prio, setup.prio[w], policy = "socket")
      [] OTHER -> 0

Push(t) ==
    LET w == pushing[t] IN
    /\ ~crashed /\ w # None
    /\ \E q \in Queues : \E i \in 0..Len(queues[q]) :
          /\ q = mine[w] /\ i = PlaceIn(q, w)
          /\ queues' = [queues EXCEPT ![q] = InsertAt(@, i + 1, w)]
    /\ pushing' = [pushing EXCEPT ![t] = None]
    /\ UNCHANGED <<setup, pc, cur, mine, under, tied, comps, wakeQ, look, crashed>>

----------------------------------------------------------------------------
(* The program *)

\* submit: work first runs the new task, if this thread can, and queues its creator; the
\* others queue the task.
Create(t, w, c) ==
    /\ Free(t, w, "body")
    /\ Parent[c] = w /\ pc[c] = "unborn"
    /\ \A b \in Tasks : Parent[b] = w /\ b < c => pc[b] # "unborn"
    /\ comps' = [comps EXCEPT ![w] = @ + 1]
    /\ IF policy = "wf" /\ Fits(c, t)
         THEN /\ StartPush(t, w)
              /\ pc' = [pc EXCEPT ![c] = "body"] /\ cur' = [cur EXCEPT ![t] = c]
              /\ tied' = [tied EXCEPT ![c] = IF c \in TiedTasks THEN t ELSE @]
         ELSE /\ StartPush(t, c)
              /\ pc' = [pc EXCEPT ![c] = "new"] /\ UNCHANGED <<cur, tied>>
    /\ UNCHANGED <<setup, queues, under, look, crashed>>

\* The end of a body, where the children are waited for.
WaitForChildren(t, w) ==
    /\ Free(t, w, "body")
    /\ \A c \in Tasks : Parent[c] = w => pc[c] # "unborn"
    /\ pc' = [pc EXCEPT ![w] = "wait"]
    /\ UNCHANGED <<setup, cur, queues, mine, pushing, under, tied, comps, wakeQ, look,
                   crashed>>

\* The wait is over when no child is left, nor still refers to the group; the parent's
\* group is counted down, and its last member goes on to wake the parent.
Over(t, w) ==
    /\ Free(t, w, "wait")
    /\ comps[w] = 0
    /\ \A c \in Tasks : Parent[c] = w => pc[c] # "signal"
    /\ IF w = 0 THEN pc' = [pc EXCEPT ![w] = "done"] /\ UNCHANGED comps
       ELSE /\ comps' = [comps EXCEPT ![Parent[w]] = @ - 1]
            /\ pc' = [pc EXCEPT ![w] = IF comps[Parent[w]] = 1 THEN "signal" ELSE "leave"]
    /\ UNCHANGED <<setup, cur, queues, mine, pushing, under, tied, wakeQ, look, crashed>>

\* A search is made with the condition that is waited for locked.
Locked(p) == \E t \in Threads : cur[t] = p /\ look[t] # NotLooking

\* Mutant of WakeUp: the next WD is the waker's, whoever it is tied to.
WakeUpHere(t, p) ==
    StartPushTo(t, p, NextQueue(t)) /\ UNCHANGED wakeQ

\* atWakeUp: p becomes a next WD of a thread, or is queued.
WakeUp(t, p) ==
    LET u == IF CanRun(p, t) THEN t ELSE tied[p]
    IN IF u # None THEN StartPushTo(t, p, NextQueue(u)) /\ UNCHANGED wakeQ ELSE StartPush(t, p)

Signal(t, w) ==
    LET p == Parent[w] IN
    /\ Free(t, w, "signal") /\ ~Locked(p)
    /\ pc' = [v \in WDs |-> IF v = w THEN "leave" ELSE IF v = p /\ pc[p] = "blocked" THEN "wait"
                            ELSE pc[v]]
    /\ IF pc[p] = "blocked" THEN WakeUp(t, p) ELSE UNCHANGED <<mine, pushing, wakeQ>>
    /\ UNCHANGED <<setup, cur, queues, under, tied, comps, look, crashed>>

\* A WD that is over: back to the WD beneath, or on to look for another.
Leave(t, w) ==
    /\ Free(t, w, "leave")
    /\ IF under[w] = None THEN pc' = [pc EXCEPT ![w] = "seek"] /\ UNCHANGED <<cur, under>>
       ELSE /\ pc' = [pc EXCEPT ![w] = "gone"]
            /\ cur' = [cur EXCEPT ![t] = under[w]]
            /\ under' = [under EXCEPT ![w] = None]
    /\ UNCHANGED <<setup, queues, mine, pushing, tied, comps, wakeQ, look, crashed>>

----------------------------------------------------------------------------
(* The search for the next WD *)

Take(q, end) == [op |-> "pop", q |-> q, end |-> end, over |-> -1]
\* Affinity: only a queue with more than so many WDs is tried, and it is the last one.
TakeOver(q, n) == [op |-> "pop", q |-> q, end |-> "front", over |-> n]
Own(op) == [op |-> op, q |-> None, end |-> "front", over |-> -1]

\* The queues of the other threads, and its own again.
Victims(t) == [i \in 1..N |-> Take((t + i) % N, "back")]

Caches == Cardinality(setup.device)

Attempts(t) ==
    LET w == cur[t]
        parent == IF w \in Tasks /\ pc[w] = "wait" /\ (policy = "wf" => setup.option)
                    THEN <<Own("enqueued"), Own("myqueue"), Own("remove")>> ELSE <<>>
        s == setup.space[t]
    IN CASE policy \in {"wf", "dbf"} -> <<Take(t, "front")>> \o parent \o Victims(t)
         [] policy = "affinity" ->
              <<Take(s, "front"), Take(0, "front")>>
                \o [i \in 1..Caches |->
                      TakeOver(((s + i - 1) % Caches) + 1, IF pc[w] = "idle" THEN 1 ELSE 0)]
         [] policy = "socket" ->
              <<Own("choose"), Own("chosen")>>
                \o (IF setup.option THEN <<Take(SmallQueue(1 - s), "front")>> ELSE <<>>)
                \o <<Take(0, "front")>>

Attempt(t) == Attempts(t)[look[t].k]

\* On to attempt k of t's search, or, past the last one, out of it.
GoOn(t, k, q) ==
    look' = [look EXCEPT ![t] = IF k > Len(Attempts(t)) THEN NotLooking ELSE [k |-> k, q |-> q]]

\* The loops look only when nothing is to be done and some queue is not empty.
BeginSearch(t, w) ==
    /\ \E place \in {"wait", "seek", "idle"} : Free(t, w, place)
    /\ pc[w] = "wait" => comps[w] # 0
    /\ \A i \in DOMAIN queues[NextQueue(t)] : ~CanRun(queues[NextQueue(t)][i], t)
    /\ \E q \in Queues : queues[q] # <<>>
    /\ GoOn(t, 1, None)
    /\ UNCHANGED <<setup, pc, cur, queues, mine, pushing, under, tied, comps, wakeQ,
                   crashed>>

\* Thread t, in a loop of w, goes on with x: a worker runs a new WD on its own stack and
\* queues its own WD when it switches to another.
SwitchTo(t, w, x) ==
    /\ cur' = [cur EXCEPT ![t] = x]
    /\ tied' = [tied EXCEPT ![x] =
                  IF pc[x] = "new" /\ (x \in TiedTasks \/ pc[w] = "idle") THEN t ELSE @]
    /\ under' = [under EXCEPT ![x] = IF pc[x] = "new" /\ pc[w] = "idle" THEN t ELSE @]
    /\ pc' = [pc EXCEPT ![x] = IF @ = "new" THEN "body" ELSE @,
                        ![w] = CASE @ = "wait" -> "blocked" [] @ = "seek" -> "gone"
                                 [] OTHER -> @]
    /\ look' = [look EXCEPT ![t] = NotLooking]

Looking(t, op) == ~crashed /\ look[t] # NotLooking /\ Attempt(t).op = op

\* The i-th WD of queue q is the first from its end that t may run.
Found(t, q, end, i) ==
    /\ CanRun(queues[q][i], t)
    /\ \A j \in DOMAIN queues[q] :
          (IF end = "front" \/ Prioritised THEN j < i ELSE j > i) => ~CanRun(queues[q][j], t)

\* x leaves queue q, with its _myQueue, under the queue's lock, and t switches to it.
TakeFrom(t, q, i) ==
    LET x == queues[q][i]
        w == cur[t]
        m == [mine EXCEPT ![x] = None]
        back == pc[w] = "idle" /\ pc[x] # "new"
    IN /\ queues' = [queues EXCEPT ![q] = RemoveAt(@, i)]
       /\ mine' = IF back THEN [m EXCEPT ![w] = QueueFor(t, w)] ELSE m
       /\ pushing' = IF back THEN [pushing EXCEPT ![t] = w] ELSE pushing
       /\ SwitchTo(t, w, x)
       /\ UNCHANGED <<setup, comps, wakeQ, crashed>>

NextWD(t, w) ==
    /\ \E place \in {"wait", "seek", "idle"} : Free(t, w, place)
    /\ pc[w] = "wait" => comps[w] # 0
    /\ \E i \in DOMAIN queues[NextQueue(t)] :
          Found(t, NextQueue(t), "front", i) /\ TakeFrom(t, NextQueue(t), i)

\* A pop of one queue, whole: its steps are under the queue's lock.
PopFrom(t, q, end, over) ==
    \/ /\ Len(queues[q]) > over
       /\ \E i \in DOMAIN queues[q] : Found(t, q, end, i) /\ TakeFrom(t, q, i)
    \/ /\ Len(queues[q]) <= over \/ \A i \in DOMAIN queues[q] : ~CanRun(queues[q][i], t)
       /\ GoOn(t, IF over > -1 /\ Len(queues[q]) > over THEN Len(Attempts(t)) + 1
                  ELSE look[t].k + 1, None)
       /\ UNCHANGED <<setup, pc, cur, queues, mine, pushing, under, tied, comps, wakeQ,
                      crashed>>

Pop(t) ==
    /\ Looking(t, "pop")
    /\ \E q \in Queues : q = Attempt(t).q /\ PopFrom(t, q, Attempt(t).end, Attempt(t).over)

\* Socket: the queue of big tasks when there are fewer small ones than cores.
Choose(t) ==
    LET s == setup.space[t] IN
    /\ Looking(t, "choose")
    /\ GoOn(t, 2, IF Len(queues[SmallQueue(s)]) < Cardinality({u \in Threads : setup.space[u] = s})
                     /\ queues[BigQueue(s)] # <<>> THEN BigQueue(s) ELSE SmallQueue(s))
    /\ UNCHANGED <<setup, pc, cur, queues, mine, pushing, under, tied, comps, wakeQ,
                   crashed>>

PopChosen(t) ==
    /\ Looking(t, "chosen")
    /\ \E q \in Queues : q = look[t].q /\ PopFrom(t, q, "front", -1)

\* Work first and distributed breadth first look for the parent of the WD that waits: is
\* it in a queue, ...
SeeEnqueued(t) ==
    /\ Looking(t, "enqueued")
    /\ GoOn(t, look[t].k + (IF mine[Parent[cur[t]]] # None THEN 1 ELSE 3), None)
    /\ UNCHANGED <<setup, pc, cur, queues, mine, pushing, under, tied, comps, wakeQ,
                   crashed>>

\* ... in which (read again), ...
ReadMyQueue(t) ==
    /\ Looking(t, "myqueue")
    /\ IF mine[Parent[cur[t]]] = None THEN crashed' = TRUE /\ UNCHANGED look
       ELSE GoOn(t, look[t].k + 1, mine[Parent[cur[t]]]) /\ UNCHANGED crashed
    /\ UNCHANGED <<setup, pc, cur, queues, mine, pushing, under, tied, comps, wakeQ>>

\* Mutant of RemoveParent: whether it is still there is not looked at.
RemoveParentUnchecked(t) ==
    LET p == Parent[cur[t]]
        q == look[t].q
    IN
    /\ Looking(t, "remove")
    /\ IF CanRun(p, t)
         THEN /\ queues' = [queues EXCEPT ![q] = Remove(@, p)]
              /\ mine' = [mine EXCEPT ![p] = None]
              /\ SwitchTo(t, cur[t], p)
              /\ UNCHANGED <<setup, pushing, comps, wakeQ, crashed>>
         ELSE /\ GoOn(t, look[t].k + 1, None)
              /\ UNCHANGED <<setup, pc, cur, queues, mine, pushing, under, tied, comps,
                             wakeQ, crashed>>

\* ... and removeWD, if it may run here and is still there.
RemoveParent(t) ==
    LET p == Parent[cur[t]]
        q == look[t].q
    IN
    /\ Looking(t, "remove")
    /\ IF CanRun(p, t) /\ q \in Queues /\ mine[p] = q /\ Contains(queues[q], p)
         THEN \E i \in DOMAIN queues[q] : queues[q][i] = p /\ TakeFrom(t, q, i)
         ELSE /\ GoOn(t, look[t].k + 1, None)
              /\ UNCHANGED <<setup, pc, cur, queues, mine, pushing, under, tied, comps,
                             wakeQ, crashed>>

----------------------------------------------------------------------------
\* What thread t does with the WD it runs, w.
ThreadStep(t) ==
    \E w \in {cur[t]} :
       \/ Push(t)
       \/ \E c \in Tasks : Create(t, w, c)
       \/ WaitForChildren(t, w) \/ Over(t, w) \/ Leave(t, w)
       \/ BeginSearch(t, w)
       \/ NextWD(t, w)
       \/ Pop(t) \/ Choose(t) \/ PopChosen(t)
       \/ SeeEnqueued(t) \/ ReadMyQueue(t) \/ RemoveParent(t)

\* The lock that a signal takes is a spin lock, and the waiting thread, which takes it
\* again and again, keeps it free for num_spins rounds each time.
SignalStep(t) == cur[t] \in Tasks /\ Signal(t, cur[t])

PoliciesNext == \E t \in Threads : ThreadStep(t) \/ SignalStep(t)

PoliciesSpec ==
    /\ PoliciesInit /\ [][PoliciesNext]_policiesVars
    /\ \A t \in Threads : WF_policiesVars(ThreadStep(t)) /\ SF_policiesVars(SignalStep(t))

----------------------------------------------------------------------------
(* Properties *)

Queued(w) == {q \in Queues : Contains(queues[q], w)}
PushedBy(w) == {t \in Threads : pushing[t] = w}

\* Where w is: on a thread, beneath an inlined WD, on its way to a queue, or in one.
Holders(w) ==
      {<<"runs", t>> : t \in {u \in Threads : cur[u] = w}}
 \cup {<<"under", v>> : v \in {u \in WDs : under[u] = w}}
 \cup {<<"pushing", t>> : t \in PushedBy(w)}
 \cup (UNION {{<<"queue", q, i>> : i \in {j \in DOMAIN queues[q] : queues[q][j] = w}} :
                 q \in Queues})

(* A WD that is alive and not blocked is in one place: it runs, is beneath an inlined one,
   is being queued, or is in one queue, once, and then _myQueue names it.
   No WD is lost and none is taken twice, although searches read _myQueue without a lock
   and a push sets it before it takes the lock (wddeque.hpp:40-58, 178-190). *)
OneHolder ==
    \A w \in WDs :
       /\ Cardinality(Holders(w)) = IF pc[w] \in {"unborn", "blocked", "gone"} THEN 0 ELSE 1
       /\ (mine[w] # None) <=> (Queued(w) # {} \/ PushedBy(w) # {})
       /\ Queued(w) \subseteq {mine[w]}

(* A thread runs only what it may: the WDs tied to it or to nobody, wherever they were
   stolen from, and a thread of a device only its tasks (schedule.hpp:39, the ensures of
   wddeque.hpp:116, 156). *)
RunsWhatItMay ==
    \A t \in Threads :
       /\ tied[cur[t]] \in {None, t}
       /\ cur[t] \in Tasks => Fits(cur[t], t)

(* The queues of the policies with priorities stay in order, for insertions at either
   side of the WDs of the same priority and removals from the middle (wddeque.hpp:368-392). *)
QueuesInOrder == Prioritised => \A q \in ReadyQueues : InOrder(queues[q], setup.prio)

(* The second read of _myQueue finds a queue: "if someone move it, I stop looking for it"
   (wf_sched.cpp:141, dbf_sched.cpp:183). *)
MovedIsNoticed == ~crashed

ProgramOver == crashed \/ pc[0] = "done"

(* Under each policy the program ends: every task is found by a thread that may run it
   (the atIdle of each policy, atWakeUp for the WDs that are tied). *)
PoliciesEnd == <>[]ProgramOver
=============================================================================
