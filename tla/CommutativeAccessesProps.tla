---------------------- MODULE CommutativeAccessesProps ----------------------
(***************************************************************************)
(* What the owners of commutative addresses are for.                       *)
(***************************************************************************)
EXTENDS CommutativeAccesses

Stages == Before \cup Inside \cup Over \cup {"loop", "release", "finished"}

\* Each variable has its type; a thread checks a WD's constraints exactly in a
\* search, and scans the ready queue exactly with its lock (core/wddeque.hpp:92).
TypeOK ==
  /\ stage \in [WDs -> Stages]
  /\ owner \in [UNION {Keys(w) : w \in Tasks} -> Tasks \cup {None}]
  /\ ready \in Seq(WDs) /\ nexts \in [Threads -> Seq(WDs)]
  /\ on \in [Threads -> WDs]
  /\ pc \in [Threads -> {"go", "next", "scan", "ready", "prefetch", "wake"}]
  /\ try \in [Threads -> [wd : WDs \cup {None}, taken : Nat, undo : BOOLEAN]]
  /\ \A t \in Threads : try[t] = Idle <=> pc[t] \in {"go", "scan"}
  /\ \A t \in Threads : lock = t <=> pc[t] = "ready"
  /\ tied \in [WDs -> Workers \cup {None}] /\ held \in [WDs -> WDs \cup {None}]
  /\ released \in [WDs -> Nat]

\* "Accesses may occur in any order, but not concurrently"
\* (core/dataaccess_decl.hpp:52): no two tasks are between the start and the end
\* of their bodies with an address in common.
Exclusive == \A v, w \in Tasks :
  v # w /\ {stage[v], stage[w]} \subseteq Inside => Keys(v) \cap Keys(w) = {}

\* Taking is all or nothing (core/workdescriptor.cpp:253): a new task in the ready
\* queue owns no address unless a thread is just checking it, and one that has
\* been chosen for a thread, as an immediate successor, owns all of its addresses.
AllOrNothing == \A w \in Tasks : stage[w] = "ready" =>
  /\ w \in Range(ready) /\ (\A t \in Threads : try[t].wd # w)
       => \A k \in Keys(w) : owner[k] # w
  /\ (\E t \in Threads : w \in Range(nexts[t]) \cup Range(held))
       => \A k \in Keys(w) : owner[k] = w

\* A task that is gone owns nothing: nobody would release it
\* (core/workdescriptor_decl.hpp:605).
NoneGone == \A k \in DOMAIN owner : owner[k] # None => stage[owner[k]] # "gone"

\* Every task gets its addresses in the end, and Main's taskwait returns, unless
\* an address is left with a task that is gone.
AllDone == <>(stage[Main] = "left" \/ ~NoneGone)
-----------------------------------------------------------------------------
(* The inductive invariant behind Exclusive and AllOrNothing.              *)

\* The WDs of threads do not end, and only tasks end in Scheduler::exit().
StageInv ==
  /\ \A w \in Workers : stage[w] = "loop"
  /\ stage[Main] \in {"body", "taskwait", "left", "gone"}
  /\ \A w \in Tasks : stage[w] # "loop"
  /\ \A w \in WDs : held[w] # None => w \in Tasks

\* A WD of the program is in one place: kind and who say which.
Users == Tasks \cup {Main}
Kinds == {"nowhere", "on", "held", "ready", "next", "wake"}
Holders == WDs \cup Threads \cup {None}

IsAt(w, kind, who, place, t) == kind[w] = place /\ who[w] = t

InQueue(queue, kind, who, place, t) ==
  \A i \in DOMAIN queue : queue[i] \in Users =>
    /\ IsAt(queue[i], kind, who, place, t)
    /\ \A j \in DOMAIN queue : queue[j] = queue[i] => j = i

PlacedAt(kind, who) ==
  /\ \A t \in Threads : on[t] \in Users => IsAt(on[t], kind, who, "on", t)
  /\ \A w \in WDs : held[w] \in Users => IsAt(held[w], kind, who, "held", w)
  /\ InQueue(ready, kind, who, "ready", None)
  /\ \A t \in Threads : InQueue(nexts[t], kind, who, "next", t)
  /\ \A t \in Threads : pc[t] = "wake" => IsAt(try[t].wd, kind, who, "wake", t)

PlaceFits(kind) == \A w \in Users :
  /\ stage[w] \in {"new", "depends", "gone"} => kind[w] = "nowhere"
  /\ stage[w] = "ready" => kind[w] \in {"held", "ready", "next"}
  /\ kind[w] \in {"held", "ready", "next", "wake"} => stage[w] \in {"ready"} \cup Awaiting

\* The WD a thread checks stays where it was found.
Found(t, w) ==
  /\ pc[t] \notin {"go", "scan"} => w \in WDs
  /\ pc[t] = "next" => \E i \in DOMAIN nexts[t] : nexts[t][i] = w
  /\ pc[t] = "ready" => \E i \in DOMAIN ready : ready[i] = w
  /\ pc[t] = "prefetch" => w \in Successors(on[t]) /\ \E i \in DOMAIN Order : Order[i] = w
  /\ pc[t] = "wake" => w \in Users /\ stage[w] \in Awaiting /\ Alive(w) = {}

\* The reason for a search lasts until the search is over.
Searching(t) ==
  /\ pc[t] = "next" => At(t) = "exit" \/ Looks(t)
  /\ pc[t] \in {"scan", "ready"} => Looks(t)
  /\ pc[t] = "prefetch" => At(t) = "prefetch"

TryInv == \A t \in Threads : Found(t, try[t].wd) /\ Searching(t)

\* A task that has been chosen for a thread has its addresses until it releases them.
Chosen(w, kind) ==
  \/ stage[w] \in Inside
  \/ stage[w] = "ready" /\ kind[w] \in {"held", "next"}
Owns(w, from) == \A i \in DOMAIN Accesses[w] : i >= from => owner[Key(w, i)] = w

TakenInv(t, kind) == try[t] # Idle =>
  /\ try[t].taken <= Len(Accesses[try[t].wd])
  /\ \A i \in 1..try[t].taken : owner[Key(try[t].wd, i)] = try[t].wd
  /\ try[t].wd \in Tasks /\ try[t].undo => ~Chosen(try[t].wd, kind)

OwnedInv(w, kind) ==
  /\ Chosen(w, kind) => Owns(w, 1)
  /\ stage[w] = "release" => Owns(w, released[w] + 1)
  /\ stage[w] \in Before \cup Inside => released[w] = 0
  /\ stage[w] \in Before /\ ~Chosen(w, kind) =>
       \A i \in DOMAIN Accesses[w] : owner[Key(w, i)] = w =>
         \E t \in Threads : try[t].wd = w /\ i <= try[t].taken

OwnInv(kind) == /\ \A t \in Threads : TakenInv(t, kind)
                /\ \A w \in Tasks : OwnedInv(w, kind)

Inv(kind, who) == /\ TypeOK /\ StageInv /\ TryInv
                  /\ PlacedAt(kind, who) /\ PlaceFits(kind) /\ OwnInv(kind)

Inductive == \E kind \in [Users -> Kinds], who \in [Users -> Holders] : Inv(kind, who)
=============================================================================
