--------------------------- MODULE MCDependences ---------------------------
(***************************************************************************)
(* The dependences domains: with all kinds of accesses to one address,     *)
(* with plain ones to two addresses, and with plain ones to regions, those *)
(* of a matrix of four rows of two elements of two bytes.  part, which     *)
(* never changes, says which.                                              *)
(***************************************************************************)
EXTENDS PlainDependences

CONSTANTS Programs,   \* the programs: "shared", "plain", "regions"
          Width, LastTask, Plugins, Calls   \* of those on regions

VARIABLES plugin, call, tree, place, writes, reads, cut

\* An access to bytes in one or two dimensions, and what a WD or a waitOn submits.
In(at, dims) == [at |-> at, dims |-> dims, flags |-> {"in"}]
Out(at, dims) == [at |-> at, dims |-> dims, flags |-> {"out"}]
Inout(at, dims) == [at |-> at, dims |-> dims, flags |-> {"in", "out"}]
Call(accesses) == [waits |-> FALSE, accesses |-> accesses]
WaitOn(access) == [waits |-> TRUE, accesses |-> <<access>>]

Most == <<[size |-> 16, length |-> 14]>>
Row == <<[size |-> 16, length |-> 4]>>
Column == <<[size |-> 4, length |-> 2], [size |-> 4, length |-> 4]>>

RegionCalls ==
    {Call(<<Out(2, Most)>>), Call(<<In(2, Column)>>),
     Call(<<In(0, Row), Inout(2, Column)>>), WaitOn(Inout(0, Column))}

\* A reader of half of the bytes, and a writer of half of these.
HalvesCalls == {Call(<<In(0, <<[size |-> 8, length |-> 8]>>)>>),
                Call(<<Out(4, <<[size |-> 4, length |-> 4]>>)>>)}

Matrix == INSTANCE RegionDependences

ASSUME CallsAssumption == Matrix!CallsFit

Shared == INSTANCE DependenciesDomainProps WITH
    LastTask <- 4, Addrs <- {1}, Kinds <- {"in", "inout", "concurrent", "commutative"},
    Waiting <- {3}, LastComm <- 4

addressVars == <<acc, lastWriter, readers, commDO, made, target, kind, refs,
                 spc, addr, seen, comm, first, in, cpc, count, left, lost>>
regionVars == <<plugin, call, tree, place, writes, reads, cut>>
allVars == <<part, addressVars, stage, preds, succs, task, todo, pending, regionVars>>

\* The variables of the parts that are left alone.
NoRegions ==
    /\ plugin = 0 /\ call = 0 /\ tree = 0 /\ place = 0 /\ writes = 0 /\ reads = 0 /\ cut = 0
NoAddresses ==
    /\ acc = 0 /\ lastWriter = 0 /\ readers = 0 /\ commDO = 0 /\ made = 0 /\ target = 0
    /\ kind = 0 /\ refs = 0 /\ spc = 0 /\ addr = 0 /\ seen = 0 /\ comm = 0 /\ first = 0
    /\ in = 0 /\ cpc = 0 /\ count = 0 /\ left = 0 /\ lost = 0

DependencesInit ==
    /\ part \in Programs
    /\ \/ part = "shared" /\ Shared!Init /\ NoRegions
       \/ PlainInit /\ NoRegions
       \/ part = "regions" /\ Matrix!Init /\ NoAddresses

\* Concurrent and commutative accesses are alike: the first group is concurrent.
SharedStep ==
    /\ part = "shared" /\ Shared!Next /\ UNCHANGED <<part, regionVars>>
    /\ \A t \in 1..4 :
          acc'[t][1] = "commutative" => \E u \in 1..(t - 1) : acc'[u][1] = "concurrent"
RegionStep == part = "regions" /\ Matrix!Next /\ UNCHANGED <<part, addressVars>>

\* The addresses are alike: what the first task accesses is address 1, or both.  The waitOn
\* is for one address.
PlainStep ==
    /\ PlainNext /\ UNCHANGED regionVars
    /\ acc'[1][1] = "none" => acc'[1][2] = "none"
    /\ acc'[3][1] = "none" \/ acc'[3][2] = "none"

\* On addresses the submitter and the threads of tasks go on as long as any of them can: less
\* than the fairness of the operating system, and enough, for no one does anything while it
\* waits.
DependencesSpec ==
    /\ DependencesInit
    /\ [][SharedStep \/ PlainStep \/ RegionStep]_allVars
    /\ WF_allVars(SharedStep \/ PlainStep)

-----------------------------------------------------------------------------
(* See DependenciesDomainProps and RegionDependences: the counts of predecessors are
   exact. *)
PredsCounted ==
    CASE part = "shared" -> Shared!PredsExact
      [] part = "regions" -> Matrix!PredsExactOnRegions
      [] OTHER -> TRUE

(* See there: no task runs before one that it depends on has ended, unless the object of a
   group of accesses was lost or a region with readers was cut. *)
RunInOrder ==
    CASE part = "shared" -> Shared!OrderedUnlessLost
      [] part = "regions" -> Matrix!OrderedUnlessCut
      [] OTHER -> TRUE

(* See RegionDependences: nothing in the tree leads to a deleted task. *)
NothingDangles == part = "regions" => Matrix!NoDanglingOnRegions

(* See DependenciesDomainProps: an open group is not the last writer, and a version that is
   read has no open group. *)
GroupsApart == part = "shared" => Shared!NeverWriter /\ Shared!ReadersClosed

(* See RegionDependences: a search finds exactly the regions that meet the one asked for, and
   on all bytes of its regions a task is found, or a later writer, until it releases its
   successors. *)
TreeSearched == part = "regions" => Matrix!SearchExact /\ Matrix!StillNamed

(* On addresses every task is submitted, released and finished (the waits of the submitter
   for waitOn tasks, decreasePredecessors and the successors of finished). *)
EveryTaskEnds == <>(part = "regions" \/ \A t \in DOMAIN stage : stage[t] = "gone")

(* See RegionDependences: a writer waits for the readers of its bytes, with no
   exception. *)
RegionsInOrder == part = "regions" => Matrix!OrderedOnRegions
=============================================================================
