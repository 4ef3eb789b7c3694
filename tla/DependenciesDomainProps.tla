----------------------- MODULE DependenciesDomainProps -----------------------
(***************************************************************************)
(* What the dependences domain owes the program, and what its own records  *)
(* owe each other.                                                         *)
(***************************************************************************)
EXTENDS DependenciesDomain

Started(t) == stage[t] \notin {"unborn", "submitted"}
Over(t) == Started(t) /\ stage[t] # "ready"

DF == INSTANCE DataFlow WITH
    stage <- [t \in Tasks |-> IF Over(t) THEN "ended" ELSE stage[t]]

\* Every behaviour is one of the data flow the program asked for: no task
\* runs before an earlier one it conflicts with has ended
\* (BaseDependenciesDomain, basedependenciesdomain.hpp).
ImplementsDataFlow == DF!Spec

\* The same, as an invariant.
Ordered ==
    \A u, t \in Tasks : u < t /\ Started(t) /\ DF!Conflict(u, t) => Over(u)

\* The same, as long as no commutation object has been dropped by a
\* removeCommDO that meant another (plain_deps.cpp:206-208).
OrderedUnlessLost == lost \/ Ordered

\* The objects that p will still decrease.
Finishes(c) == \E r \in Runners : in[r] = c /\ cpc[r] \in {"writers", "succs"}
Outstanding(p) ==
    CASE p \in Tasks /\ stage[p] = "gone" -> {}
      [] p \in Tasks /\ stage[p] = "succs" -> pending[p]
      [] p \in Comms /\ \E r \in Runners : in[r] = p /\ cpc[r] = "succs" ->
            UNION {left[r] : r \in {q \in Runners : in[q] = p}}
      [] p \in Comms /\ refs[p] <= 0 /\ ~Finishes(p) -> {}
      [] OTHER -> succs[p]

BeingSubmitted(t) == t = task /\ spc \notin {"next", "wait"}

Tellers(t) == {p \in Objects : t \in Outstanding(p)}

\* _numPredecessors counts exactly the objects that have yet to tell the
\* task, and the submission under way: no edge is counted twice or told
\* twice (addSuccessor, increasePredecessors, decreasePredecessors).
PredsExact ==
    \A t \in Tasks : stage[t] = "submitted" =>
       preds[t] = Cardinality(Tellers(t)) + (IF BeingSubmitted(t) THEN 1 ELSE 0)

\* Nothing that is followed later leads to a deleted object: not the last
\* writer nor a reader of an address, and nobody is to tell a task that has
\* been released already (workFinished deletes the DOSubmit).
NoDangling ==
    /\ \A a \in Addrs : lastWriter[a] \in Tasks => stage[lastWriter[a]] # "gone"
    /\ \A a \in Addrs : \A t \in readers[a] : stage[t] \notin {"succs", "gone"}
    /\ \A p \in Objects : \A t \in Outstanding(p) \cap Tasks : stage[t] = "submitted"

\* The object whose lock the submitter goes for has not been deleted
\* (dependableobject.cpp:31-32, basedependenciesdomain.hpp:56-58).
LockedAlive == spc = "link" /\ seen \in Tasks => stage[seen] # "gone"

\* A commutation object is closed by then when it is the last writer: the
\* busy wait of finalizeReduction (42-44) never begins.
NeverWriter == \A a \in Addrs : commDO[a] # None => lastWriter[a] # commDO[a]

\* A version that is being read has no open group: who reads has closed it,
\* who opens one has taken the readers (setUpInitialCommutation...).
ReadersClosed == \A a \in Addrs : readers[a] # {} => commDO[a] = None

\* Every task is submitted, released and finished in the end.
AllDone == <>[](\A t \in Tasks : stage[t] = "gone")

-----------------------------------------------------------------------------
(* The inductive invariant behind PredsExact, NoDangling and               *)
(* ImplementsDataFlow where all accesses are plain (Kinds has only in, out *)
(* and inout, and LastComm is 0).                                          *)

Uses(t, a) == acc[t][a] # "none"
Writes(t, a) == acc[t][a] \in {"out", "inout"}

\* t has to wait for u because of address a: one of them writes it, or a task between them.
Before(u, t, a) ==
    /\ u < t /\ Uses(u, a) /\ Uses(t, a)
    /\ \E x \in Tasks : u <= x /\ x <= t /\ Writes(x, a)

\* The domain knows of the access of t to a.
Entered(t, a) ==
    /\ Uses(t, a)
    /\ t = task => a \notin todo /\ (a = addr => spc \in {"next", "access", "wait"})

\* u is over, or a task that had to wait for u itself has yet to tell t.
Covered(u, t, a) ==
    \/ Over(u)
    \/ \E w \in Tasks : (w = u \/ Before(u, w, a)) /\ t \in Outstanding(w)

\* Nobody starts before those it has to wait for are over ...
OrderInv == \A u, t \in Tasks : \A a \in Addrs : Before(u, t, a) /\ Started(t) => Over(u)

\* ... for it waits for someone who waits for them: the edges that the domain leaves out, to
\* a writer whose readers are there, and those it has dropped, are never missed.
CoverInv == \A u, t \in Tasks : \A a \in Addrs :
    Before(u, t, a) /\ stage[t] = "submitted" /\ Entered(t, a) => Covered(u, t, a)

CountInv == PredsExact /\ \A t \in Tasks : stage[t] = "unborn" => preds[t] = 0

EdgeInv == \A p \in Tasks :
    /\ \A t \in Outstanding(p) : t \in Tasks /\ p < t /\ stage[t] = "submitted"
    /\ p \in Waiting => succs[p] = {}

WriterInv == \A a \in Addrs : lastWriter[a] # None =>
    /\ lastWriter[a] \in Tasks \ Waiting
    /\ Writes(lastWriter[a], a) /\ Entered(lastWriter[a], a)
    /\ stage[lastWriter[a]] \in {"submitted", "ready", "ended", "writers"}

\* The readers recorded are those of the version that was written last.
ReaderInv == \A a \in Addrs : \A r \in readers[a] :
    /\ r \notin Waiting /\ acc[r][a] = "in" /\ Entered(r, a)
    /\ stage[r] \notin {"unborn", "succs", "gone"}
    /\ \A x \in Tasks : Writes(x, a) /\ Entered(x, a) => x < r

\* A waitOn is never the last writer, but nobody is submitted until it is over.
Latest(w, a) == w = lastWriter[a] \/ (w = task /\ w \in Waiting /\ stage[w] # "gone")

\* Whoever is not over is a reader, or before the latest writer: it suffices to ask these.
LastInv == \A a \in Addrs : \A u \in Tasks : Entered(u, a) /\ ~Over(u) =>
    \/ u \in Waiting \/ u \in readers[a]
    \/ \E w \in Tasks : u <= w /\ Writes(w, a) /\ Entered(w, a) /\ Latest(w, a)

StageInv == \A t \in Tasks :
    /\ t > task => stage[t] = "unborn" /\ \A a \in Addrs : ~Uses(t, a)
    /\ t <= task => stage[t] # "unborn"
    /\ t \in Waiting => /\ stage[t] \in {"unborn", "submitted", "ready", "gone"}
                        /\ t < task \/ (t = task /\ spc = "next") => stage[t] = "gone"

PlainPlaces == {"next", "access", "finalize", "look", "link", "versions", "readers", "write",
                "read", "wait"}
WritersCovered == \A u \in Tasks : u < task /\ Writes(u, addr) => Covered(u, task, addr)

PlaceInv ==
    /\ spc \in PlainPlaces /\ \A r \in Runners : cpc[r] = "idle"
    /\ spc # "next" => task \in Tasks
    /\ spc = "wait" => Waits /\ stage[task] # "gone"
    /\ spc \in {"next", "wait"} => todo = {}
    /\ spc \notin {"next", "wait"} => stage[task] = "submitted"
    /\ spc \notin {"next", "wait", "access"} => Uses(task, addr) /\ addr \notin todo
    /\ \A a \in todo : Uses(task, a)
    /\ spc = "link" => seen \in Tasks /\ lastWriter[addr] \in {None, seen}
    /\ spc = "versions" => Access = "out"
    /\ spc = "read" => Access = "in" /\ ~Waits /\ WritersCovered
    /\ spc = "readers" => Writes(task, addr) /\ (readers[addr] = {} => WritersCovered)
    /\ spc = "write" => /\ Writes(task, addr)
                        /\ \A u \in Tasks : u < task /\ Uses(u, addr) => Covered(u, task, addr)

Inductive ==
    /\ TypeOK /\ OrderInv /\ CoverInv /\ CountInv /\ EdgeInv
    /\ WriterInv /\ ReaderInv /\ LastInv /\ StageInv /\ PlaceInv
=============================================================================
