------------------------- MODULE CommutativeAccesses -------------------------
(***************************************************************************)
(* The owners of commutative addresses (core/workdescriptor.cpp).  Tasks   *)
(* with a commutative access to an address may run in any order, but not   *)
(* together.  The dependences leave them unordered; a work descriptor (WD) *)
(* takes the owner word of each of its addresses, one compare-and-swap     *)
(* after the other, when a scheduling check picks it                       *)
(* (Scheduler::checkBasicConstraints), gives all of them back if one is    *)
(* taken, and releases them when its body is over.                         *)
(*                                                                         *)
(* The scheduler is the breadth-first one of TaskScheduler, with           *)
(* user-level stacks: a WD that waits for its children gives its thread to *)
(* another one and is woken by the last child; a worker inlines a new WD   *)
(* on the stack of its own WD, which ties the new one to the thread.  The  *)
(* protocol of the groups, yield, stop and start are left to that module.  *)
(*                                                                         *)
(* stage[w]: new       not created          depends  has predecessors      *)
(*           ready     not started          loop     a worker's own WD     *)
(*           body, taskwait                 in user code                   *)
(*           exit, prefetch, release, finished, children                   *)
(*                     the steps of Scheduler::exit() and done()           *)
(*           left      has told its parent  gone     deleted               *)
(***************************************************************************)
EXTENDS Integers, FiniteSets, SequencesExt

CONSTANTS Threads, Master,   \* Master runs Main, the others are workers
          Tasks, Main,       \* the WDs the program creates, the main WD
          Parent,            \* which WD creates each task
          After,             \* the siblings each task depends on
          Accesses,          \* the commutative addresses of a WD, in order
          None

Workers == Threads \ {Master}
WDs == Tasks \cup {Main} \cup Workers

\* What the code relies on of a program: the threads' own WDs are no tasks, and no WD lists
\* an address twice, which initCommutativeAccesses() does not look for.
Program ==
  /\ Master \in Threads /\ None \notin WDs \cup Threads
  /\ Threads \cap (Tasks \cup {Main}) = {} /\ Main \notin Tasks
  /\ IsFiniteSet(Tasks)
  /\ \A w \in Tasks : Parent[w] \in Tasks \cup {Main} /\ After[w] \subseteq Tasks
  /\ \A w \in WDs : /\ Accesses[w] \in Seq(Range(Accesses[w]))
                    /\ \A i, j \in DOMAIN Accesses[w] : Accesses[w][i] = Accesses[w][j] => i = j
                    /\ w \notin Tasks => Accesses[w] = <<>>

VARIABLES stage,    \* how far a WD is in its life
          owner,    \* the owner word of an address of a parent's map
          ready,    \* the ready queue of the team
          lock,     \* the thread that holds the lock of the ready queue
          nexts,    \* the next-WD queue of each thread
          on,       \* the WD a thread runs
          pc,       \* what the thread is at: its WD, or a search for another
          try,      \* the WD whose constraints it checks, how many addresses
                    \* it has taken, and whether it is giving them back
          tied,     \* the thread an inlined WD is tied to
          held,     \* next in Scheduler::exit(), kept on the stack of the WD
          released  \* how many addresses a WD that ends has released

vars == <<stage, owner, ready, lock, nexts, on, pc, try, tied, held, released>>

Before   == {"new", "depends", "ready"}                  \* not started
Inside   == {"body", "taskwait", "exit", "prefetch"}
Awaiting == {"taskwait", "children"}                     \* in waitCompletion()
Over     == {"children", "left", "gone"}                 \* workFinished() is over

\* The key of an address: the map of owners belongs to the parent
\* (initCommutativeAccesses), so cousins that name one address do not share it.
Key(w, i) == <<Parent[w], Accesses[w][i]>>
Keys(w)   == {Key(w, i) : i \in DOMAIN Accesses[w]}

Children(w) == {c \in Tasks : Parent[c] = w}
Alive(w)    == {c \in Children(w) : stage[c] \notin {"new", "left", "gone"}}

Idle     == [wd |-> None, taken |-> 0, undo |-> FALSE]
Begin(w) == [wd |-> w, taken |-> 0, undo |-> FALSE]

Init == /\ stage = [w \in WDs |-> CASE w = Main -> "body" [] w \in Workers -> "loop"
                                    [] OTHER -> "new"]
        /\ owner = [k \in UNION {Keys(w) : w \in Tasks} |-> None]
        /\ ready = <<>>
        /\ lock = None
        /\ nexts = [t \in Threads |-> <<>>]
        /\ on = [t \in Threads |-> IF t = Master THEN Main ELSE t]
        /\ pc = [t \in Threads |-> "go"]
        /\ try = [t \in Threads |-> Idle]
        /\ tied = [w \in WDs |-> IF w \in Workers THEN w ELSE None]
        /\ held = [w \in WDs |-> None]
        /\ released = [w \in WDs |-> 0]

At(t) == stage[on[t]]
Fits(t, w) == tied[w] \in {None, t}

\* A WD that waits and that no thread, queue or stack has is blocked: the waiter
\* of its group's condition.
Placed == Range(on) \cup Range(held) \cup Range(ready)
                    \cup UNION {Range(nexts[t]) : t \in Threads}
Blocked(w) == stage[w] \in Awaiting /\ w \notin Placed

\* The thread at the WD's condition holds its lock while it looks for another WD.
CondLocked(w) == \E t \in Threads : on[t] = w /\ At(t) \in Awaiting
                                              /\ pc[t] \in {"next", "scan", "ready"}

\* A check of the constraints is over, and the thread is back at its WD.
Checked(t) == /\ pc' = [pc EXCEPT ![t] = "go"]
              /\ try' = [try EXCEPT ![t] = Idle]

\* Thread t goes on with WD v (switchTo, inlineWork, exitTo), and queue is the
\* ready queue.  A worker's own WD inlines a new WD, which is tied as it is, and
\* switches to one that has started, which puts the worker's WD in the queue
\* (switchHelper).  A WD that has left is deleted (exitHelper).
GoOn(t, v, queue) ==
  LET inlines == At(t) = "loop" /\ stage[v] = "ready"
  IN /\ on' = [on EXCEPT ![t] = v]
     /\ stage' = [stage EXCEPT ![v] = IF @ = "ready" THEN "body" ELSE @,
                               ![on[t]] = IF @ = "left" THEN "gone" ELSE @]
     /\ tied' = IF inlines THEN [tied EXCEPT ![v] = tied[on[t]]] ELSE tied
     /\ ready' = IF At(t) = "loop" /\ ~inlines THEN Append(queue, on[t]) ELSE queue
     /\ Checked(t)

\* SchedulePolicy::queue(), under the lock of the ready queue.
Queue(w) == lock = None /\ ready' = Append(ready, w)

-----------------------------------------------------------------------------
\* The check of the constraints: tryAcquireCommutativeAccesses().

\* Mutant of Free: the result of the compare-and-swap is not looked at.
FreeUnchecked(w, k) == TRUE

Free(w, k) == owner[k] \in {w, None}

Granted(t) == ~try[t].undo /\ try[t].taken = Len(Accesses[try[t].wd])

\* Mutant of Refused: nothing is given back.
RefusedEarly(t) == try[t].undo

Refused(t) == try[t].undo /\ try[t].taken = 0

\* The next address: its owner already, taken over from nobody, or refused.
Acquire(t) ==
  LET w == try[t].wd
      k == Key(w, try[t].taken + 1)
  IN /\ try[t] # Idle /\ ~try[t].undo
     /\ try[t].taken < Len(Accesses[w])
     /\ IF Free(w, k)
        THEN /\ owner' = [owner EXCEPT ![k] = w]
             /\ try' = [try EXCEPT ![t].taken = @ + 1]
        ELSE /\ try' = [try EXCEPT ![t].undo = TRUE]
             /\ UNCHANGED owner
     /\ UNCHANGED <<stage, ready, lock, nexts, on, pc, tied, held, released>>

\* Refused: the addresses already taken are given back, the last one first.
GiveBack(t) ==
  /\ try[t].undo /\ try[t].taken > 0
  /\ owner' = [owner EXCEPT ![Key(try[t].wd, try[t].taken)] = None]
  /\ try' = [try EXCEPT ![t].taken = @ - 1]
  /\ UNCHANGED <<stage, ready, lock, nexts, on, pc, tied, held, released>>

-----------------------------------------------------------------------------
\* The body of a WD: it creates its children, and may wait for them.

Create(t, c) ==
  /\ pc[t] = "go" /\ on[t] = Parent[c] /\ At(t) = "body"
  /\ stage[c] = "new"
  /\ \A d \in After[c] : stage[d] # "new"
  /\ IF \A d \in After[c] : stage[d] \in Over
     THEN Queue(c) /\ stage' = [stage EXCEPT ![c] = "ready"]
     ELSE stage' = [stage EXCEPT ![c] = "depends"] /\ UNCHANGED ready
  /\ UNCHANGED <<owner, lock, nexts, on, pc, try, tied, held, released>>

\* The WD ends in Scheduler::exit(), or in inlineWork() if it is inlined.
End(w) == IF w = Main THEN "left" ELSE IF tied[w] = None THEN "exit" ELSE "prefetch"

EndBody(t) ==
  /\ pc[t] = "go" /\ At(t) = "body"
  /\ \A c \in Children(on[t]) : stage[c] # "new"
  /\ \/ stage' = [stage EXCEPT ![on[t]] = "taskwait"]
     \/ on[t] # Main /\ stage' = [stage EXCEPT ![on[t]] = End(on[t])]
  /\ UNCHANGED <<owner, ready, lock, nexts, on, pc, try, tied, held, released>>

\* waitCompletion() finds no child left.
EndTaskwait(t) ==
  /\ pc[t] = "go" /\ At(t) = "taskwait" /\ Alive(on[t]) = {}
  /\ stage' = [stage EXCEPT ![on[t]] = End(on[t])]
  /\ UNCHANGED <<owner, ready, lock, nexts, on, pc, try, tied, held, released>>

-----------------------------------------------------------------------------
\* A thread looks for another WD: in the worker's loop, when its WD waits, and
\* when its WD has left its parent (idleLoop, waitOnCondition, exit).

Looks(t) == \/ At(t) = "loop"
            \/ At(t) \in Awaiting /\ Alive(on[t]) # {}
            \/ At(t) = "left" /\ on[t] # Main /\ tied[on[t]] = None /\ held[on[t]] = None

\* BaseThread::getNextWD() has no WD: the thread turns to the policy, or goes on
\* with Scheduler::exit().
NoNext(t) ==
  /\ try' = [try EXCEPT ![t] = Idle]
  /\ IF Looks(t) THEN pc' = [pc EXCEPT ![t] = "scan"] /\ UNCHANGED stage
     ELSE /\ pc' = [pc EXCEPT ![t] = "go"]
          /\ stage' = [stage EXCEPT ![on[t]] = "prefetch"]

Seek(t) ==
  /\ pc[t] = "go" /\ (Looks(t) \/ At(t) = "exit")
  /\ IF nexts[t] = <<>> THEN NoNext(t)
     ELSE /\ pc' = [pc EXCEPT ![t] = "next"]
          /\ try' = [try EXCEPT ![t] = Begin(Head(nexts[t]))]
          /\ UNCHANGED stage
  /\ UNCHANGED <<owner, ready, lock, nexts, on, tied, held, released>>

\* popFrontWithConstraints(): the WDs of a queue one after the other, until one is granted.
Position(queue, w) == CHOOSE i \in DOMAIN queue : queue[i] = w
Without(queue, w)  == RemoveAt(queue, Position(queue, w))

NextGranted(t) ==
  LET v == try[t].wd
  IN /\ pc[t] = "next" /\ Granted(t)
     /\ nexts' = [nexts EXCEPT ![t] = Without(@, v)]
     /\ IF At(t) = "exit"
        THEN /\ held' = [held EXCEPT ![on[t]] = v]
             /\ stage' = [stage EXCEPT ![on[t]] = "release"]
             /\ Checked(t)
             /\ UNCHANGED <<ready, on, tied>>
        ELSE /\ At(t) = "loop" => lock = None
             /\ GoOn(t, v, ready)
             /\ UNCHANGED held
     /\ UNCHANGED <<owner, lock, released>>

NextRefused(t) ==
  LET i == Position(nexts[t], try[t].wd) + 1
  IN /\ pc[t] = "next" /\ Refused(t)
     /\ IF i > Len(nexts[t]) THEN NoNext(t)
        ELSE try' = [try EXCEPT ![t] = Begin(nexts[t][i])] /\ UNCHANGED <<stage, pc>>
     /\ UNCHANGED <<owner, ready, lock, nexts, on, tied, held, released>>

\* The ready queue, under its lock (atIdle, atBlock, atAfterExit).  A WD that is
\* tied to another thread is passed over before its addresses are looked at.
Fitting(t, from) == {i \in from..Len(ready) : Fits(t, ready[i])}

Unlock == lock' = None

Scan(t) ==
  /\ pc[t] = "scan"
  /\ IF Fitting(t, 1) = {}
     THEN pc' = [pc EXCEPT ![t] = "go"] /\ UNCHANGED <<lock, try>>
     ELSE /\ lock = None /\ lock' = t
          /\ pc' = [pc EXCEPT ![t] = "ready"]
          /\ try' = [try EXCEPT ![t] = Begin(ready[Min(Fitting(t, 1))])]
  /\ UNCHANGED <<stage, owner, ready, nexts, on, tied, held, released>>

ReadyGranted(t) ==
  LET v == try[t].wd
  IN /\ pc[t] = "ready" /\ Granted(t)
     /\ GoOn(t, v, Without(ready, v)) /\ Unlock
     /\ UNCHANGED <<owner, nexts, held, released>>

ReadyRefused(t) ==
  LET rest == Fitting(t, Position(ready, try[t].wd) + 1)
  IN /\ pc[t] = "ready" /\ Refused(t)
     /\ IF rest = {} THEN Unlock /\ Checked(t)
        ELSE try' = [try EXCEPT ![t] = Begin(ready[Min(rest)])] /\ UNCHANGED <<lock, pc>>
     /\ UNCHANGED <<stage, owner, ready, nexts, on, tied, held, released>>

-----------------------------------------------------------------------------
\* The end of a WD: Scheduler::finishWork() and WorkDescriptor::done().

\* Successors of w that wait for nobody else, in the order of their addresses.
Order == SetToSeq(Tasks)
Successors(w) == {c \in Tasks : /\ stage[c] = "depends" /\ w \in After[c]
                   /\ \A d \in After[c] \ {w} : stage[d] \in Over}
Candidates(t, from) == {i \in from..Len(Order) : Order[i] \in Successors(on[t])}

\* releaseImmediateSuccessor(): its predicate checks the constraints, so the
\* successor takes its addresses while the WD that ends has its own.
Consider(t, candidates) ==
  IF candidates = {}
  THEN stage' = [stage EXCEPT ![on[t]] = "release"] /\ Checked(t)
  ELSE /\ pc' = [pc EXCEPT ![t] = "prefetch"]
       /\ try' = [try EXCEPT ![t] = Begin(Order[Min(candidates)])]
       /\ UNCHANGED stage

Prefetch(t) ==
  /\ pc[t] = "go" /\ At(t) = "prefetch"
  /\ Consider(t, Candidates(t, 1))
  /\ UNCHANGED <<owner, ready, lock, nexts, on, tied, held, released>>

PrefetchRefused(t) ==
  /\ pc[t] = "prefetch" /\ Refused(t)
  /\ Consider(t, Candidates(t, Position(Order, try[t].wd) + 1))
  /\ UNCHANGED <<owner, ready, lock, nexts, on, tied, held, released>>

PrefetchGranted(t) ==
  LET v == try[t].wd
  IN /\ pc[t] = "prefetch" /\ Granted(t)
     /\ nexts' = [nexts EXCEPT ![t] = Append(@, v)]
     /\ stage' = [stage EXCEPT ![v] = "ready", ![on[t]] = "release"]
     /\ Checked(t)
     /\ UNCHANGED <<owner, ready, lock, on, tied, held, released>>

\* releaseCommutativeAccesses(): one word after the other.
Release(t) ==
  LET w == on[t]
      i == released[w] + 1
  IN /\ pc[t] = "go" /\ At(t) = "release"
     /\ IF i <= Len(Accesses[w])
        THEN /\ owner' = [owner EXCEPT ![Key(w, i)] = None]
             /\ released' = [released EXCEPT ![w] = i]
             /\ UNCHANGED stage
        ELSE /\ stage' = [stage EXCEPT ![w] = "finished"]
             /\ UNCHANGED <<owner, released>>
     /\ UNCHANGED <<ready, lock, nexts, on, pc, try, tied, held>>

\* workFinished(): the successors that wait for nobody else are queued.
Finished(t) ==
  LET w == on[t]
  IN /\ pc[t] = "go" /\ At(t) = "finished"
     /\ IF Successors(w) = {}
        THEN stage' = [stage EXCEPT ![w] = "children"] /\ UNCHANGED ready
        ELSE \E c \in Successors(w) :
               Queue(c) /\ stage' = [stage EXCEPT ![c] = "ready"]
     /\ UNCHANGED <<owner, lock, nexts, on, pc, try, tied, held, released>>

Wakes(p, w) == Alive(p) = {w} /\ Blocked(p)

\* BaseThread::addNextWD(): the lock of the queue is free.
AddNext(t, w) == pc[t] # "next" /\ nexts' = [nexts EXCEPT ![t] = Append(@, w)]

\* WorkGroup::done(): no child is left, and exitWork() tells the parent.  The
\* last child wakes a parent that has been switched out.
Leave(t) ==
  LET w == on[t]
      p == Parent[w]
  IN /\ pc[t] = "go" /\ At(t) = "children"
     /\ Alive(w) = {} /\ ~CondLocked(p)
     /\ stage' = [stage EXCEPT ![w] = "left"]
     /\ \/ /\ ~Wakes(p, w)
           /\ UNCHANGED <<nexts, pc, try>>
        \/ /\ Wakes(p, w) /\ Fits(t, p)
           /\ pc' = [pc EXCEPT ![t] = "wake"]
           /\ try' = [try EXCEPT ![t] = Begin(p)]
           /\ UNCHANGED nexts
        \/ /\ Wakes(p, w) /\ ~Fits(t, p)
           /\ AddNext(tied[p], p)
           /\ UNCHANGED <<pc, try>>
     /\ UNCHANGED <<owner, ready, lock, on, tied, held, released>>

\* SchedulePolicy::atWakeUp()
WakeGranted(t) ==
  /\ pc[t] = "wake" /\ Granted(t)
  /\ AddNext(t, try[t].wd)
  /\ Checked(t)
  /\ UNCHANGED <<stage, owner, ready, lock, on, tied, held, released>>

WakeRefused(t) ==
  LET p == try[t].wd
  IN /\ pc[t] = "wake" /\ Refused(t)
     /\ IF tied[p] = None THEN Queue(p) /\ UNCHANGED nexts
        ELSE AddNext(tied[p], p) /\ UNCHANGED ready
     /\ Checked(t)
     /\ UNCHANGED <<stage, owner, lock, on, tied, held, released>>

\* An inlined WD returns to the loop of the worker that inlined it; Scheduler::exit() goes to the WD
\* it has kept.
Return(t) ==
  LET w == on[t]
  IN /\ pc[t] = "go" /\ At(t) = "left" /\ tied[w] # None
     /\ on' = [on EXCEPT ![t] = tied[w]]
     /\ stage' = [stage EXCEPT ![w] = "gone"]
     /\ UNCHANGED <<owner, ready, lock, nexts, pc, try, tied, held, released>>

ExitToHeld(t) ==
  LET w == on[t]
  IN /\ pc[t] = "go" /\ At(t) = "left" /\ held[w] # None
     /\ GoOn(t, held[w], ready)
     /\ held' = [held EXCEPT ![w] = None]
     /\ UNCHANGED <<owner, lock, nexts, released>>

-----------------------------------------------------------------------------

Step(t) == \/ Acquire(t) \/ GiveBack(t)
           \/ \E c \in Tasks : Create(t, c)
           \/ EndBody(t) \/ EndTaskwait(t)
           \/ Seek(t) \/ NextGranted(t) \/ NextRefused(t)
           \/ Scan(t) \/ ReadyGranted(t) \/ ReadyRefused(t)
           \/ Prefetch(t) \/ PrefetchGranted(t) \/ PrefetchRefused(t)
           \/ Release(t) \/ Finished(t)
           \/ Leave(t) \/ WakeGranted(t) \/ WakeRefused(t)
           \/ Return(t) \/ ExitToHeld(t)

Next == \E t \in Threads : Step(t)

Spec == Init /\ [][Next]_vars

\* Steps that take a lock others keep taking: it is a spin lock without a queue.
Locking(t) == \/ \E c \in Tasks : Create(t, c)
              \/ Scan(t) \/ NextGranted(t) \/ Finished(t) \/ Leave(t) \/ WakeRefused(t)

Fairness == \A t \in Threads : WF_vars(Step(t)) /\ SF_vars(Locking(t))

FairSpec == Spec /\ Fairness
=============================================================================
