-------------------------- MODULE RegionDependences --------------------------
(***************************************************************************)
(* A dependences domain on regions of memory: RegionDependenciesDomain     *)
(* (regions_deps.cpp, baseregionsdependenciesdomain.hpp) and               *)
(* PerfectRegionDependenciesDomain (perfect_regions_deps.cpp, over         *)
(* basedependenciesdomain.hpp), for in, out and inout accesses.  A WD      *)
(* submits its tasks in order while threads finish earlier ones.           *)
(*                                                                         *)
(* The lock of the domain is held over an access and over each deletion    *)
(* from the tree; what other threads do without it commutes with them.     *)
(*                                                                         *)
(* place, the submitter: next  between tasks   access  between accesses    *)
(*   wait    in DOWait::wait                                               *)
(* stage[t]: unborn, submitted, ready, ended (the body has), writers,      *)
(*   readers, succs (in finished), gone (the object is deleted)            *)
(***************************************************************************)
EXTENDS RegionTree

CONSTANTS LastTask,
          Plugins,    \* of {"regions-default", "perfect-regions"}
          Calls       \* what is submitted: waits, and a sequence of accesses, each an
                      \* address, dimensions and flags

\* The elements accessed have two bytes or more (see Regions).
CallsFit ==
    \A c \in Calls : \A i \in DOMAIN c.accesses : RegionOf(c.accesses[i])[Width] = X

None == 0
Tasks == 1..LastTask

VARIABLES
    plugin,
    call,        \* the call that submitted each task
    stage,
    preds,       \* DependableObject::_numPredecessors
    succs,       \* DependableObject::_successors
    tree,        \* _regionMap, from regions to TrackableObjects
    place, task, todo,   \* the submitter: its place, task, accesses still to submit
    writes,      \* DependableObject::_outputObjects
    reads,       \* DependableObject::_readObjects, those not left yet
    pending,     \* the successors a finishing task has yet to tell
    cut          \* history: a region with readers has been cut

submitter == <<place, task, todo>>
targets == <<writes, reads>>
vars == <<plugin, call, stage, preds, succs, tree, submitter, targets, pending, cut>>

NoCall == [waits |-> FALSE, accesses |-> <<>>]
Unused == [writer |-> None, readers |-> {}]   \* a TrackableObject without users

\* The accesses of a call cut up so that no two meet, each with the flags of all that did.
Coalesced(c) ==
    LET Join(parts, flags) ==
            FoldLeft(LAMBDA t, r : With(t, r, At(t, r) \cup flags), parts.tree, parts.regions)
        Flag(tr, access) ==
            Join(Populate(tr, RegionOf(access), LAMBDA flags : flags, {}), access.flags)
        Listed(tr, regions) ==
            [k \in DOMAIN regions |-> [target |-> regions[k], flags |-> At(tr, regions[k])]]
        All(tr) == Listed(tr, Found(tr, Everything))
    IN  All(FoldLeft(Flag, Nothing, c.accesses))

Init ==
    /\ plugin \in Plugins
    /\ call = [t \in Tasks |-> NoCall]
    /\ stage = [t \in Tasks |-> "unborn"]
    /\ preds = [t \in Tasks |-> 0]
    /\ succs = [t \in Tasks |-> {}]
    /\ tree = Nothing
    /\ place = "next" /\ task = 0 /\ todo = <<>>
    /\ writes = [t \in Tasks |-> <<>>]
    /\ reads = [t \in Tasks |-> <<>>]
    /\ pending = [t \in Tasks |-> {}]
    /\ cut = FALSE

-----------------------------------------------------------------------------
(* The submitter.                                                          *)

Waits(t) == call[t].waits

\* decreasePredecessors: at zero, dependenciesSatisfied.
Decrease(t) ==
    /\ preds' = [preds EXCEPT ![t] = @ - 1]
    /\ stage' = IF preds[t] = 1 THEN [stage EXCEPT ![t] = "ready"] ELSE stage

Submit ==
    /\ place = "next" /\ task < LastTask
    /\ \E c \in Calls :
          /\ call' = [call EXCEPT ![task + 1] = c]
          /\ todo' = Coalesced(c)
    /\ task' = task + 1
    /\ stage' = [stage EXCEPT ![task + 1] = "submitted"]
    /\ preds' = [preds EXCEPT ![task + 1] = @ + 1]
    /\ place' = "access"
    /\ UNCHANGED <<plugin, succs, tree, targets, pending, cut>>

\* The regions an access is checked against and those it becomes a user of, in the tree
\* made for it: the target itself beside what it meets, or the target in parts.
Default(target) ==
    [tree |-> IF Contains(Found(tree, target), target) THEN tree
              ELSE With(tree, target, Unused),
     found |-> Found(tree, target), own |-> {target}]

\* A status that is copied loses its readers (TrackableObject::operator=).
Perfect(target) ==
    LET Cut(parts) ==
            [tree |-> parts.tree, found |-> parts.regions, own |-> ToSet(parts.regions)]
    IN  Cut(Populate(tree, target, LAMBDA status : [status EXCEPT !.readers = {}], Unused))

Looked(target) == IF plugin = "regions-default" THEN Default(target) ELSE Perfect(target)

\* dependOnLastWriter and dependOnReaders; the base domain takes the readers of a version
\* that is overwritten for all there is to wait for.
DependsOn(status, flags) ==
    LET writer == {status.writer} \ {None}
    IN  CASE flags = {"in"} -> writer
          [] flags = {"out"} /\ plugin = "perfect-regions" /\ status.readers # {} ->
                status.readers
          [] OTHER -> writer \cup status.readers

\* setAsWriter, addAsReader
Used(status, flags) ==
    CASE "out" \in flags ->
            [writer |-> IF Waits(task) THEN status.writer ELSE task, readers |-> {}]
      [] "out" \notin flags /\ ~Waits(task) -> [status EXCEPT !.readers = @ \cup {task}]
      [] OTHER -> status

\* Mutant of Outdated: the target takes over whatever it meets.
OutdatedMeeting(tr, r, access) ==
    \/ At(tr, r) = Unused
    \/ plugin = "regions-default" /\ "out" \in access.flags /\ r # access.target

\* What is erased once the access has looked at it: a status nobody uses and, with the
\* default plugin, one that the target has taken over.
Outdated(tr, r, access) ==
    \/ At(tr, r) = Unused
    \/ /\ plugin = "regions-default" /\ "out" \in access.flags
       /\ r # access.target /\ Encloses(access.target, r)

\* addWriteTarget, addReadTarget (what setAsWriter adds for parts lies in the target).
AddTarget(access) ==
    LET Added(to, wanted) == IF wanted /\ ~Waits(task)
                             THEN [to EXCEPT ![task] = Append(@, access.target)] ELSE to
    IN  /\ writes' = Added(writes, "out" \in access.flags)
        /\ reads' = Added(reads, "out" \notin access.flags)

DependOn(before) ==
    LET new == {p \in before : task \notin succs[p]}
    IN  /\ succs' = [p \in Tasks |-> IF p \in new THEN succs[p] \cup {task} ELSE succs[p]]
        /\ preds' = [preds EXCEPT ![task] = @ + Cardinality(new)]

\* The tree once the access has used its own regions.
UsedBy(access, looked) ==
    FoldLeft(LAMBDA t, r : With(t, r, Used(At(t, r), access.flags)),
             looked.tree, SetToSeq(looked.own))

Erased(tr, access, found) ==
    WithoutAll(tr, SelectSeq(found, LAMBDA r : Outdated(tr, r, access)))

Enter(access, looked) ==
    /\ DependOn(UNION {DependsOn(At(looked.tree, r), access.flags) : r \in ToSet(looked.found)})
    /\ tree' = Erased(UsedBy(access, looked), access, looked.found)
    /\ cut' = \/ cut
              \/ /\ plugin = "perfect-regions"
                 /\ \E r \in ToSet(Found(tree, access.target)) :
                       Subsumes(r, access.target) /\ At(tree, r).readers # {}
    /\ AddTarget(access)

SubmitAccess ==
    /\ place = "access" /\ todo # <<>>
    /\ Enter(Head(todo), Looked(Head(todo).target))
    /\ todo' = Tail(todo)
    /\ UNCHANGED <<plugin, call, stage, place, task, pending>>

\* The last dummy predecessor goes: the object may be satisfied.
Done ==
    /\ place = "access" /\ todo = <<>>
    /\ Decrease(task)
    /\ place' = IF Waits(task) THEN "wait" ELSE "next"
    /\ UNCHANGED <<plugin, call, succs, tree, task, todo, targets, pending, cut>>

Wait ==
    /\ place = "wait" /\ stage[task] = "ready"
    /\ stage' = [stage EXCEPT ![task] = "gone"]
    /\ place' = "next"
    /\ UNCHANGED <<plugin, call, preds, succs, tree, task, todo, targets, pending, cut>>

Submitter == Submit \/ SubmitAccess \/ Done \/ Wait

-----------------------------------------------------------------------------
(* A task that has run: its immediate successor may be taken before        *)
(* finished() tells the others.                                            *)

Run(t) ==
    /\ stage[t] = "ready" /\ ~Waits(t)
    /\ stage' = [stage EXCEPT ![t] = "ended"]
    /\ UNCHANGED <<plugin, call, preds, succs, tree, submitter, targets, pending, cut>>

ReleaseImmediateSuccessor(t) ==
    /\ stage[t] = "ended"
    /\ \E u \in succs[t] :
          /\ ~Waits(u) /\ preds[u] = 1
          /\ succs' = [succs EXCEPT ![t] = @ \ {u}]
          /\ stage' = [stage EXCEPT ![t] = "writers", ![u] = "ready"]
    /\ UNCHANGED <<plugin, call, preds, tree, submitter, targets, pending, cut>>

\* One target: the statuses that meet it lose the task, and go when nobody is left.
Leave(tr, target, Left(_)) ==
    FoldLeft(LAMBDA t, r : LET status == Left(At(t, r))
                           IN  IF status = Unused THEN Without(t, r) ELSE With(t, r, status),
             tr, Found(tr, target))

\* Mutant of DeleteLastWriter: only a status that is the target itself is left.
DeleteLastWriterExact(t) ==
    LET Left(status) == IF status.writer = t THEN [status EXCEPT !.writer = None] ELSE status
    IN  /\ stage[t] \in {"ended", "writers"}
        /\ tree' = FoldLeft(LAMBDA tr, target :
                                IF Contains(Found(tr, target), target)
                                THEN With(tr, target, Left(At(tr, target))) ELSE tr,
                            tree, writes[t])
        /\ stage' = [stage EXCEPT ![t] = "readers"]
        /\ UNCHANGED <<plugin, call, preds, succs, submitter, targets, pending, cut>>

DeleteLastWriter(t) ==
    LET Left(status) == IF status.writer = t THEN [status EXCEPT !.writer = None] ELSE status
    IN  /\ stage[t] \in {"ended", "writers"}
        /\ tree' = FoldLeft(LAMBDA tr, target : Leave(tr, target, Left), tree, writes[t])
        /\ stage' = [stage EXCEPT ![t] = "readers"]
        /\ UNCHANGED <<plugin, call, preds, succs, submitter, targets, pending, cut>>

DeleteReader(t) ==
    LET Left(status) == [status EXCEPT !.readers = @ \ {t}]
    IN  /\ stage[t] = "readers" /\ reads[t] # <<>>
        /\ tree' = Leave(tree, Head(reads[t]), Left)
        /\ reads' = [reads EXCEPT ![t] = Tail(@)]
        /\ UNCHANGED <<plugin, call, stage, preds, succs, submitter, writes, pending, cut>>

StartSuccessors(t) ==
    /\ stage[t] = "readers" /\ reads[t] = <<>>
    /\ stage' = [stage EXCEPT ![t] = "succs"]
    /\ pending' = [pending EXCEPT ![t] = succs[t]]
    /\ UNCHANGED <<plugin, call, preds, succs, tree, submitter, targets, cut>>

Successor(t) ==
    /\ stage[t] = "succs"
    /\ \E u \in pending[t] :
          /\ Decrease(u)
          /\ pending' = [pending EXCEPT ![t] = @ \ {u}]
    /\ UNCHANGED <<plugin, call, succs, tree, submitter, targets, cut>>

Delete(t) ==
    /\ stage[t] = "succs" /\ pending[t] = {}
    /\ stage' = [stage EXCEPT ![t] = "gone"]
    /\ succs' = [succs EXCEPT ![t] = {}]
    /\ writes' = [writes EXCEPT ![t] = <<>>]
    /\ UNCHANGED <<plugin, call, preds, tree, submitter, reads, pending, cut>>

Finishing(t) ==
    \/ Run(t) \/ ReleaseImmediateSuccessor(t) \/ DeleteLastWriter(t) \/ DeleteReader(t)
    \/ StartSuccessors(t) \/ Successor(t) \/ Delete(t)

Next == Submitter \/ \E t \in Tasks : Finishing(t)

Fairness == WF_vars(Submitter) /\ \A t \in Tasks : WF_vars(Finishing(t))

Spec == Init /\ [][Next]_vars
FairSpec == Spec /\ Fairness

----------------------------------------------------------------------------
(***************************************************************************)
(* What a dependences domain on regions owes the program, and what its     *)
(* tree owes it.                                                           *)
(***************************************************************************)

Started(t) == stage[t] \notin {"unborn", "submitted"}
Over(t) == Started(t) /\ stage[t] # "ready"

\* The bytes an access touches, dimension by dimension.
Footprint(access) ==
    FoldLeft(LAMBDA bytes, d : {b + i * Stride(access, d) : b \in bytes,
                                                i \in 0..(access.dims[d].length - 1)},
             {access.at}, [d \in DOMAIN access.dims |-> d])

Bytes(c, flag) ==
    UNION {Footprint(access) :
           access \in {a \in ToSet(c.accesses) : flag \in a.flags}}
Written == [c \in Calls \cup {NoCall} |-> Bytes(c, "out")]
Touched == [c \in Calls \cup {NoCall} |-> Bytes(c, "in") \cup Bytes(c, "out")]

Overwrites(u, t) == Written[call[u]] \cap Touched[call[t]] # {}

\* No task runs before an earlier one has ended that accesses the same byte, if one of them
\* writes it: where they meet is decided by regions, which may cover more, and which are cut
\* up, joined by others and erased in between (regions_deps.cpp, perfect_regions_deps.cpp).
\* A reader is waited for unless a region was cut that it read (trackableobject.hpp:31-35).
OrderedUnlessCut ==
    \A u, t \in Tasks : u < t /\ Started(t) /\ ~Over(u) =>
       ~Overwrites(u, t) /\ (cut \/ ~Overwrites(t, u))

\* The same, with no exception.
OrderedOnRegions ==
    \A u, t \in Tasks : u < t /\ Started(t) /\ ~Over(u) => ~Overwrites(u, t) /\ ~Overwrites(t, u)

Outstanding(p) == CASE stage[p] = "gone" -> {} [] stage[p] = "succs" -> pending[p]
                    [] OTHER -> succs[p]

\* _numPredecessors counts exactly the tasks that have yet to tell the task, and the
\* submission under way, however many regions they meet in.
PredsExactOnRegions ==
    \A t \in Tasks : stage[t] = "submitted" =>
       preds[t] = Cardinality({p \in Tasks : t \in Outstanding(p)})
                  + (IF t = task /\ place = "access" THEN 1 ELSE 0)

\* Nothing in the tree leads to a deleted task, though regions may have been added, cut and
\* erased since it entered them, and nobody is to tell a task that was released already.
NoDanglingOnRegions ==
    /\ \A r \in ToSet(Found(tree, Everything)) :
          LET status == At(tree, r)
          IN  /\ status.writer # None => stage[status.writer] \notin {"readers", "succs", "gone"}
              /\ \A t \in status.readers : stage[t] \notin {"succs", "gone"}
    /\ \A p \in Tasks : \A t \in Outstanding(p) : stage[t] = "submitted"

\* The regions in the tree, by a walk to every leaf.
RECURSIVE Leaves(_)
Leaves(node) ==
    IF IsLeaf(node) THEN {node.seg}
    ELSE {Append(node.seg, b) \o r : <<b, r>> \in
             UNION {{b} \X Leaves(node.kids[b]) : b \in DOMAIN node.kids}}

\* What it is searched for in this state.
Asked == {a.target : a \in ToSet(todo)} \cup UNION {ToSet(writes[t] \o reads[t]) : t \in Tasks}

\* The tasks that have entered their accesses to a region and still hold back others.
Holding == {t \in Tasks : stage[t] \in {"submitted", "ready", "ended"}}

\* Whoever looks for byte b finds a status that has what is asked.
FoundAt(b, Tells(_)) ==
    \E r \in Leaves(tree) : (\A i \in Positions : r[i] \in {X, Bit(b, i)}) /\ Tells(At(tree, r))

Bytewise(s) == {b \in 0..(2^Width - 1) : \A i \in Positions : s[i] \in {X, Bit(b, i)}}

\* However its nodes came to be split and shared, a search of the tree finds the regions that
\* meet the one asked for and no other (regiontree.hpp:215-296), and no two regions of the
\* perfect tree meet.
SearchExact ==
    /\ \A s \in Asked : ToSet(Found(tree, s)) = {r \in Leaves(tree) : Meet(r, s)}
    /\ plugin = "perfect-regions" =>
          \A r, s \in Leaves(tree) : Meet(r, s) => r = s

\* On every byte of a region that a task has entered as its writer or its reader, the tree
\* names the task, or a later writer of the byte, until the task releases its successors,
\* though regions are cut, joined by others and erased in between (perfect_regions_deps.cpp,
\* regions_deps.cpp:198-201).  Readers are lost where a region that has some is cut
\* (trackableobject.hpp:31-35); a wait for accesses clears both, and the submitter then
\* submits nothing before all of them have ended.
StillNamed ==
    place = "next" \/ ~Waits(task) =>
       \A t \in Holding :
          /\ \A s \in ToSet(writes[t]) : \A b \in Bytewise(s) :
                FoundAt(b, LAMBDA status : status.writer >= t)
          /\ cut \/ \A s \in ToSet(reads[t]) : \A b \in Bytewise(s) :
                FoundAt(b, LAMBDA status : t \in status.readers \/ status.writer > t)
=============================================================================
