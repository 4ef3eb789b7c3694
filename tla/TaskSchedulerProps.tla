------------------------- MODULE TaskSchedulerProps -------------------------
(* What the life of work descriptors must guarantee, for TLC and for the proofs. *)
EXTENDS TaskScheduler

(* Everywhere a WD can be found: on a thread, in a queue, as the waiter of its
   group, beneath an inlined WD, or in the hands of a WD that is exiting. *)
PlacesOf(w) ==
      {<<"runs", t>> : t \in {u \in Threads : cur[u] = w}}
 \cup {<<"ready", i>> : i \in {j \in DOMAIN ready : ready[j] = w}}
 \cup (UNION {{<<"next", t, i>> : i \in {j \in DOMAIN nexts[t] : nexts[t][j] = w}} : t \in Threads})
 \cup {<<"waiter", v>> : v \in {u \in {w} : pc[u] = "blocked"}}
 \cup {<<"under", v>> : v \in {u \in WDs : under[u] = w}}
 \cup {<<"held", v>> : v \in {u \in WDs : held[u] = w}}

(* A WD that is alive is in exactly one place: none is lost by a wake-up that
   crosses with a switch, none is queued or run twice (Scheduler::switchHelper,
   wakeUp, exit, WDDeque). *)
OnePlace ==
    \A w \in WDs : Cardinality(PlacesOf(w)) = IF pc[w] \in {"unborn", "gone"} THEN 0 ELSE 1

(* A task that tells its parent it has finished finds the parent's group still
   there: the parent leaves done() and is destroyed only after the last child
   has dropped its reference (WorkGroup::exitWork, workgroup.cpp:44-52). *)
NoUseAfterFree ==
    \A w \in Tasks :
       pc[w] \in {"ref", "dec", "signal", "unref"} =>
          pc[Parent[w]] \in {"body", "wait", "locked", "blocked", "drain"}

(* "Violating tied rules" (schedule.cpp:634-635): a thread only runs WDs that are
   untied or tied to it. *)
TiedRules == \A t \in Threads : tied[cur[t]] \in {None, t}

Stage(w) ==
    CASE pc[w] \in {"unborn"} -> "unborn"
      [] pc[w] \in {"new", "body", "idle"} -> "running"
      [] pc[w] \in {"wait", "locked", "blocked", "drain"} /\ ~ending[w] -> "joining"
      [] pc[w] \in {"wait", "locked", "blocked", "drain"} /\ ending[w] -> "ending"
      [] pc[w] \in {"ref", "dec"} -> "ending"
      [] OTHER -> "finished"

Abstract == INSTANCE ForkJoin WITH stage <- [w \in UserWDs |-> Stage(w)]

(* Whatever the queues, the switches and the inlining do, a taskwait returns
   and a task finishes only after all the children created so far. *)
ImplementsForkJoin == Abstract!Spec

(* The program comes to its end: no WD is left behind, and no two WDs wait for
   one another across the threads' stacks. *)
AllDone == <>(pc[Main] = "done")

-----------------------------------------------------------------------------
(* The inductive invariant behind NoUseAfterFree and ImplementsForkJoin. *)

\* Where a task is once its parent has discounted it.
Discounted == {"signal", "unref", "leave", "seek", "gone", "done"}

\* Where a WD is once its own wait for its children is over for good.
Joined == {"ref", "dec"} \cup Discounted

Counted(p) == {w \in Tasks : Parent[w] = p /\ pc[w] \notin {"unborn"} \cup Discounted}

Signalling(p) == {w \in Tasks : Parent[w] = p /\ pc[w] \in {"dec", "signal", "unref"}}

(* _components counts the children that have not finished, and the reference
   count the children inside exitWork. *)
GroupInv ==
    \A p \in WDs : comps[p] = Cardinality(Counted(p)) /\ refs[p] = Cardinality(Signalling(p))

(* Before it has run and once it has waited for its children, a WD has none
   that is unfinished, nor any that signals. *)
JoinInv ==
    \A p \in UserWDs :
       /\ pc[p] \in {"unborn", "new", "drain"} \cup Joined => comps[p] = 0
       /\ pc[p] \in {"unborn", "new"} \cup Joined => refs[p] = 0
       /\ pc[p] \in {"unborn", "new", "body"} => ~ending[p]
       /\ pc[p] \in Joined => ending[p]

IdleInv == \A w \in WDs : pc[w] = "idle" <=> w \in Workers

Inductive == TypeOK /\ IdleInv /\ GroupInv /\ JoinInv

-----------------------------------------------------------------------------
(* The inductive invariant behind OnePlace and TiedRules. *)

Alive(w) == pc[w] \notin {"unborn", "gone"}

Kinds == {"runs", "ready", "next", "waiter", "under", "held"}

\* The WDs found at the places of each kind.
Found(k) ==
    CASE k = "runs"   -> {cur[t] : t \in Threads}
      [] k = "ready"  -> Range(ready)
      [] k = "next"   -> UNION {Range(nexts[t]) : t \in Threads}
      [] k = "waiter" -> {w \in WDs : pc[w] = "blocked"}
      [] k = "under"  -> {under[v] : v \in WDs} \ {None}
      [] k = "held"   -> {held[v] : v \in WDs} \ {None}

\* No WD is at two places of a kind ...
Once ==
    /\ \A t, u \in Threads : cur[t] = cur[u] => t = u
    /\ IsInjective(ready)
    /\ \A t, u \in Threads : \A i \in DOMAIN nexts[t], j \in DOMAIN nexts[u] :
          nexts[t][i] = nexts[u][j] => t = u /\ i = j
    /\ \A v, w \in WDs : under[v] = under[w] /\ under[v] # None => v = w
    /\ \A v, w \in WDs : held[v] = held[w] /\ held[v] # None => v = w

\* ... or at places of two kinds, and only what is alive is somewhere.
Apart ==
    \A w \in WDs : /\ \A k, l \in Kinds : w \in Found(k) /\ w \in Found(l) => k = l
                   /\ \A k \in Kinds : w \in Found(k) => Alive(w)

(* No WD is queued or run twice, and a destroyed one is nowhere: also where the
   scheduler is stopped under user-level threads, which loses WDs. *)
NeverTwice ==
    \A w \in WDs : Cardinality(PlacesOf(w)) <= IF pc[w] \in {"unborn", "gone"} THEN 0 ELSE 1

\* Only a wake-up of a switched WD while the scheduler is stopped loses one.
KeepsAll == ULT => MaxStops = 0

NoneLost == KeepsAll => \A w \in WDs : Alive(w) => \E k \in Kinds : w \in Found(k)

\* What tells that an assignment to under or to held replaces nothing.
SlotInv ==
    /\ \A w \in WDs : /\ held[w] # None => ending[w] /\ pc[w] # "seek"
                      /\ pc[w] \in {"unborn", "new"} => under[w] = None
    /\ \A w \in Tasks : ending[w] /\ under[w] = None /\ pc[w] # "gone" => home[w] \in Threads
    /\ MaxStops = 0 => enabled
    /\ ULT \/ \A w \in WDs : pc[w] # "blocked"

PlaceInv == Once /\ Apart /\ NoneLost /\ SlotInv

\* Without user-level threads a WD stays on the stack it was inlined on, above
\* a WD that is free or has the same tie.
StackInv ==
    ULT \/ /\ \A v \in WDs : /\ under[v] # None => tied[under[v]] \in {None, tied[v]}
                             /\ held[v] = None /\ pc[v] # "seek"
           /\ \A v \in Tasks : Alive(v) /\ pc[v] # "new" => under[v] # None

TiedInv == StackInv /\ (ULT \/ TiedRules)
=============================================================================
