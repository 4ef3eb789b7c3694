------------------------- MODULE DependenciesDomain -------------------------
(***************************************************************************)
(* A dependences domain with plain addresses: BaseDependenciesDomain and   *)
(* PlainDependenciesDomain (src/src/plugins/deps), DependableObject,       *)
(* CommutationDO and TrackableObject (src/src/core).  One WD submits its   *)
(* tasks in order while the threads that ran earlier ones finish them.     *)
(*                                                                         *)
(* Objects are tasks, 1..LastTask, and the commutation objects made on the *)
(* way.  The process 0 is the submitter, process t the thread on which     *)
(* task t ends.                                                            *)
(*                                                                         *)
(* spc, the submitter: next  between tasks   access  between accesses      *)
(*   finalize, join, own, reset, release      finalizeReduction            *)
(*   look, link      dependOnLastWriter       readers    dependOnReaders   *)
(*   versions        the test of hasReaders of an output access            *)
(*   write, read     setAsWriter, addAsReader                              *)
(*   initial, gather, front                   setUpInitialCommutation...   *)
(*   target, grow, create                     setUpTargetCommutation...    *)
(*   append, drop    the rest of the commutative access                    *)
(*   wait            DOWait::wait                                          *)
(* cpc[r], process r in CommutationDO::dependenciesSatisfied of in[r]:     *)
(*   check, clear    removeCommDO                                          *)
(*   ref, unref, writers, succs               finished                     *)
(* stage[t]: unborn, submitted, ready, ended (the body has), writers,      *)
(*   readers, succs (in finished), gone (the object is deleted)            *)
(***************************************************************************)
EXTENDS Integers, FiniteSets

CONSTANTS LastTask,
          Addrs,
          Kinds,        \* the accesses the program uses
          Waiting,      \* the tasks that are waitOn calls, not tasks
          LastComm      \* bound on the commutation objects made

None == 0
Tasks == 1..LastTask
Comms == (LastTask + 1)..(LastTask + LastComm)
Objects == Tasks \cup Comms
Runners == {0} \cup Tasks

Shared == {"concurrent", "commutative"}

VARIABLES
    acc,         \* how each task accesses each address, once submitted
    stage,
    preds,       \* DependableObject::_numPredecessors
    succs,       \* DependableObject::_successors
    lastWriter, readers, commDO,   \* TrackableObject, by address
    made,        \* how many commutation objects exist
    target, kind, refs,            \* their _target, _commutative, _references
    spc, task, todo, addr,         \* the submitter: its place, task, addresses
    seen, comm, first,   \* lastWriter, commDO and initialCommDO in its calls
    in, cpc, count, left,   \* commutation object being satisfied by a process
    pending,     \* the successors a finishing task has yet to tell
    lost         \* history: removeCommDO has cleared another object

tracked == <<lastWriter, readers, commDO>>
objects == <<made, target, kind, refs>>
submitter == <<spc, task, todo, addr, seen, comm, first>>
closing == <<in, cpc, count, left>>
vars == <<acc, stage, preds, succs, tracked, objects, submitter, closing, pending, lost>>

Places == {"next", "access", "finalize", "join", "own", "reset", "release", "look", "link",
           "versions", "readers", "write", "read", "initial", "gather", "front", "target",
           "grow", "create", "append", "drop", "wait"}

TypeOK ==
    /\ acc \in [Tasks -> [Addrs -> Kinds \cup {"none"}]]
    /\ stage \in [Tasks -> {"unborn", "submitted", "ready", "ended", "writers", "readers",
                            "succs", "gone"}]
    /\ preds \in [Objects -> Nat]
    /\ succs \in [Objects -> SUBSET Objects]
    /\ lastWriter \in [Addrs -> Objects \cup {None}]
    /\ readers \in [Addrs -> SUBSET Tasks]
    /\ commDO \in [Addrs -> Comms \cup {None}]
    /\ made \in 0..LastComm
    /\ target \in [Comms -> Addrs]
    /\ kind \in [Comms -> Shared]
    /\ refs \in [Comms -> Int]
    /\ spc \in Places
    /\ task \in 0..LastTask
    /\ todo \subseteq Addrs
    /\ addr \in Addrs
    /\ seen \in Objects \cup {None}
    /\ comm \in Comms \cup {None}
    /\ first \in Comms \cup {None}
    /\ in \in [Runners -> Comms \cup {None}]
    /\ cpc \in [Runners -> {"idle", "check", "clear", "ref", "unref", "writers", "succs"}]
    /\ count \in [Runners -> Int]
    /\ left \in [Runners -> SUBSET Tasks]
    /\ pending \in [Tasks -> SUBSET Objects]
    /\ lost \in BOOLEAN

Init ==
    /\ acc = [t \in Tasks |-> [a \in Addrs |-> "none"]]
    /\ stage = [t \in Tasks |-> "unborn"]
    /\ preds = [o \in Objects |-> 0]
    /\ succs = [o \in Objects |-> {}]
    /\ lastWriter = [a \in Addrs |-> None]
    /\ readers = [a \in Addrs |-> {}]
    /\ commDO = [a \in Addrs |-> None]
    /\ made = 0
    /\ target = [c \in Comms |-> CHOOSE a \in Addrs : TRUE]
    /\ kind = [c \in Comms |-> "concurrent"]
    /\ refs = [c \in Comms |-> 1]
    /\ spc = "next" /\ task = 0 /\ todo = {} /\ addr = CHOOSE a \in Addrs : TRUE
    /\ seen = None /\ comm = None /\ first = None
    /\ in = [r \in Runners |-> None]
    /\ cpc = [r \in Runners |-> "idle"]
    /\ count = [r \in Runners |-> 0]
    /\ left = [r \in Runners |-> {}]
    /\ pending = [t \in Tasks |-> {}]
    /\ lost = FALSE

----------------------------------------------------------------------------
(* The submitter.  It does one thing at a time: while it satisfies a       *)
(* commutation object itself, its own place stays where it was.            *)

Idle == cpc[0] = "idle"
Access == acc[task][addr]
Waits == task \in Waiting
NewComm == LastTask + made + 1

Goto(place) == spc' = place
AfterFinalize == CASE Access = "out" -> "versions"
                   [] Access \in Shared -> "create"
                   [] OTHER -> "look"
AfterLook == CASE Access = "in" /\ Waits -> "access"
               [] Access = "in" /\ ~Waits -> "read"
               [] Access \in Shared -> "drop"
               [] OTHER -> "readers"

\* decreasePredecessors by process r: at zero, dependenciesSatisfied.
Decrease(o, r) ==
    /\ preds' = [preds EXCEPT ![o] = @ - 1]
    /\ stage' = IF preds[o] = 1 /\ o \in Tasks THEN [stage EXCEPT ![o] = "ready"] ELSE stage
    /\ IF preds[o] = 1 /\ o \in Comms
       THEN in' = [in EXCEPT ![r] = o] /\ cpc' = [cpc EXCEPT ![r] = "check"]
       ELSE UNCHANGED <<in, cpc>>

Submit ==
    /\ Idle /\ spc = "next" /\ task < LastTask
    /\ \E kinds \in [Addrs -> Kinds \cup {"none"}] :
          /\ \E a \in Addrs : kinds[a] # "none"
          /\ task + 1 \in Waiting => \A a \in Addrs : kinds[a] \notin Shared
          /\ acc' = [acc EXCEPT ![task + 1] = kinds]
          /\ todo' = {a \in Addrs : kinds[a] # "none"}
    /\ task' = task + 1
    /\ stage' = [stage EXCEPT ![task + 1] = "submitted"]
    /\ preds' = [preds EXCEPT ![task + 1] = @ + 1]
    /\ Goto("access")
    /\ UNCHANGED <<succs, tracked, objects, addr, seen, comm, first, closing, pending, lost>>

SubmitAccess ==
    /\ Idle /\ spc = "access"
    /\ \E a \in todo :
          /\ addr' = a /\ todo' = todo \ {a}
          /\ Goto(IF acc[task][a] \in Shared THEN "initial" ELSE "finalize")
    /\ UNCHANGED <<acc, stage, preds, succs, tracked, objects, task, seen, comm, first,
                   closing, pending, lost>>

\* The last dummy predecessor goes: the object may be satisfied.
Done ==
    /\ Idle /\ spc = "access" /\ todo = {}
    /\ Decrease(task, 0)
    /\ Goto(IF Waits THEN "wait" ELSE "next")
    /\ UNCHANGED <<acc, succs, tracked, objects, task, todo, addr, seen, comm, first,
                   count, left, pending, lost>>

Wait ==
    /\ spc = "wait" /\ stage[task] = "ready"
    /\ stage' = [stage EXCEPT ![task] = "gone"]
    /\ Goto("next")
    /\ UNCHANGED <<acc, preds, succs, tracked, objects, task, todo, addr, seen, comm, first,
                   closing, pending, lost>>

(* finalizeReduction.  Its busy wait for the last writer to go (42-44) is  *)
(* left out: NeverWriter says that it is never entered.                    *)

Finalize ==
    /\ Idle /\ spc = "finalize"
    /\ comm' = commDO[addr]
    /\ commDO' = [commDO EXCEPT ![addr] = None]
    /\ Goto(IF commDO[addr] = None THEN AfterFinalize ELSE "join")
    /\ UNCHANGED <<acc, stage, preds, succs, lastWriter, readers, objects, task, todo, addr,
                   seen, first, closing, pending, lost>>

Join ==
    /\ Idle /\ spc = "join"
    /\ preds' = [preds EXCEPT ![comm] = @ + 1]
    /\ Goto("own")
    /\ UNCHANGED <<acc, stage, succs, tracked, objects, task, todo, addr, seen, comm, first,
                   closing, pending, lost>>

Own ==
    /\ Idle /\ spc = "own"
    /\ lastWriter' = [lastWriter EXCEPT ![addr] = comm]
    /\ Goto("reset")
    /\ UNCHANGED <<acc, stage, preds, succs, readers, commDO, objects, task, todo, addr, seen,
                   comm, first, closing, pending, lost>>

ResetReferences ==
    /\ Idle /\ spc = "reset"
    /\ refs' = [refs EXCEPT ![comm] = 1]
    /\ Goto("release")
    /\ UNCHANGED <<acc, stage, preds, succs, tracked, made, target, kind, task, todo, addr,
                   seen, comm, first, closing, pending, lost>>

Release ==
    /\ Idle /\ spc = "release"
    /\ Decrease(comm, 0)
    /\ Goto(AfterFinalize)
    /\ UNCHANGED <<acc, succs, tracked, objects, task, todo, addr, seen, comm, first,
                   count, left, pending, lost>>

(* dependOnLastWriter.  The last writer is read, its lock taken, and the   *)
(* last writer read again: finished() clears it under the same lock.       *)

Look ==
    /\ Idle /\ spc = "look"
    /\ seen' = lastWriter[addr]
    /\ Goto(IF lastWriter[addr] = None THEN AfterLook ELSE "link")
    /\ UNCHANGED <<acc, stage, preds, succs, tracked, objects, task, todo, addr, comm, first,
                   closing, pending, lost>>

\* Mutant of Link: the last writer is not read again under its lock.
LinkUnchecked ==
    /\ Idle /\ spc = "link"
    /\ IF task \notin succs[seen]
       THEN /\ succs' = [succs EXCEPT ![seen] = @ \cup {task}]
            /\ preds' = [preds EXCEPT ![task] = @ + 1]
       ELSE UNCHANGED <<succs, preds>>
    /\ seen' = None
    /\ Goto(AfterLook)
    /\ UNCHANGED <<acc, stage, tracked, objects, task, todo, addr, comm, first,
                   closing, pending, lost>>

Link ==
    /\ Idle /\ spc = "link"
    /\ IF lastWriter[addr] = seen /\ task \notin succs[seen]
       THEN /\ succs' = [succs EXCEPT ![seen] = @ \cup {task}]
            /\ preds' = [preds EXCEPT ![task] = @ + 1]
       ELSE UNCHANGED <<succs, preds>>
    /\ seen' = None
    /\ Goto(AfterLook)
    /\ UNCHANGED <<acc, stage, tracked, objects, task, todo, addr, comm, first,
                   closing, pending, lost>>

(* dependOnReaders, under the lock of the readers; setAsWriter, addAsReader *)

Versions ==
    /\ Idle /\ spc = "versions"
    /\ Goto(IF readers[addr] = {} THEN "look" ELSE "readers")
    /\ UNCHANGED <<acc, stage, preds, succs, tracked, objects, task, todo, addr, seen, comm,
                   first, closing, pending, lost>>

DependOnReaders(o) ==
    /\ succs' = [p \in Objects |-> IF p \in readers[addr] THEN succs[p] \cup {o} ELSE succs[p]]
    /\ preds' = [preds EXCEPT ![o] = @ + Cardinality({p \in readers[addr] : o \notin succs[p]})]

Readers ==
    /\ Idle /\ spc = "readers"
    /\ DependOnReaders(task)
    /\ Goto("write")
    /\ UNCHANGED <<acc, stage, tracked, objects, task, todo, addr, seen, comm, first,
                   closing, pending, lost>>

\* Mutant of Write: the readers of the version before are kept.
WriteUnflushed ==
    /\ Idle /\ spc = "write"
    /\ lastWriter' = IF Waits THEN lastWriter ELSE [lastWriter EXCEPT ![addr] = task]
    /\ Goto("access")
    /\ UNCHANGED <<acc, stage, preds, succs, readers, commDO, objects, task, todo, addr, seen,
                   comm, first, closing, pending, lost>>

Write ==
    /\ Idle /\ spc = "write"
    /\ readers' = [readers EXCEPT ![addr] = {}]
    /\ lastWriter' = IF Waits THEN lastWriter ELSE [lastWriter EXCEPT ![addr] = task]
    /\ Goto("access")
    /\ UNCHANGED <<acc, stage, preds, succs, commDO, objects, task, todo, addr, seen, comm,
                   first, closing, pending, lost>>

Read ==
    /\ Idle /\ spc = "read"
    /\ readers' = [readers EXCEPT ![addr] = @ \cup {task}]
    /\ Goto("access")
    /\ UNCHANGED <<acc, stage, preds, succs, lastWriter, commDO, objects, task, todo, addr,
                   seen, comm, first, closing, pending, lost>>

(* setUpInitialCommutationDependableObject: an object that waits for the   *)
(* readers, as last writer of the group that begins.                       *)

MakeComm ==
    /\ made < LastComm
    /\ made' = made + 1
    /\ target' = [target EXCEPT ![NewComm] = addr]
    /\ kind' = [kind EXCEPT ![NewComm] = Access]
    /\ preds' = [preds EXCEPT ![NewComm] = 1]

Initial ==
    /\ Idle /\ spc = "initial"
    /\ IF readers[addr] = {}
       THEN Goto("target") /\ UNCHANGED <<made, target, kind, preds, first>>
       ELSE MakeComm /\ first' = NewComm /\ Goto("gather")
    /\ UNCHANGED <<acc, stage, succs, tracked, refs, task, todo, addr, seen, comm,
                   closing, pending, lost>>

Gather ==
    /\ Idle /\ spc = "gather"
    /\ DependOnReaders(first)
    /\ Goto("front")
    /\ UNCHANGED <<acc, stage, tracked, objects, task, todo, addr, seen, comm, first,
                   closing, pending, lost>>

\* Mutant of Front: the readers gathered are kept.
FrontUnflushed ==
    /\ Idle /\ spc = "front"
    /\ lastWriter' = [lastWriter EXCEPT ![addr] = first]
    /\ Goto("target")
    /\ UNCHANGED <<acc, stage, preds, succs, readers, commDO, objects, task, todo, addr, seen, comm,
                   first, closing, pending, lost>>

Front ==
    /\ Idle /\ spc = "front"
    /\ readers' = [readers EXCEPT ![addr] = {}]
    /\ lastWriter' = [lastWriter EXCEPT ![addr] = first]
    /\ Goto("target")
    /\ UNCHANGED <<acc, stage, preds, succs, commDO, objects, task, todo, addr, seen, comm,
                   first, closing, pending, lost>>

(* setUpTargetCommutationDependableObject, createCommutationDO: the object *)
(* that the members of the group have as successor, one more predecessor   *)
(* of it for each member.                                                  *)

Target ==
    /\ Idle /\ spc = "target"
    /\ comm' = commDO[addr]
    /\ Goto(CASE commDO[addr] = None -> "create"
              [] commDO[addr] # None /\ kind[commDO[addr]] # Access -> "finalize"
              [] OTHER -> "grow")
    /\ UNCHANGED <<acc, stage, preds, succs, tracked, objects, task, todo, addr, seen, first,
                   closing, pending, lost>>

\* Mutant of Grow: joins a group that is already satisfied.
GrowUnchecked ==
    /\ Idle /\ spc = "grow"
    /\ preds' = [preds EXCEPT ![comm] = @ + 1]
    /\ Goto("append")
    /\ UNCHANGED <<acc, stage, succs, tracked, objects, task, todo, addr, seen, comm, first,
                   closing, pending, lost>>

Grow ==
    /\ Idle /\ spc = "grow"
    /\ preds' = [preds EXCEPT ![comm] = @ + 1]
    /\ Goto(IF preds[comm] = 0 THEN "create" ELSE "append")
    /\ UNCHANGED <<acc, stage, succs, tracked, objects, task, todo, addr, seen, comm, first,
                   closing, pending, lost>>

Create ==
    /\ Idle /\ spc = "create"
    /\ MakeComm
    /\ commDO' = [commDO EXCEPT ![addr] = NewComm]
    /\ comm' = NewComm
    /\ Goto("append")
    /\ UNCHANGED <<acc, stage, succs, lastWriter, readers, refs, task, todo, addr, seen, first,
                   closing, pending, lost>>

Append ==
    /\ Idle /\ spc = "append"
    /\ succs' = [succs EXCEPT ![task] = @ \cup {comm}]
    /\ Goto("look")
    /\ UNCHANGED <<acc, stage, preds, tracked, objects, task, todo, addr, seen, comm, first,
                   closing, pending, lost>>

\* Mutant of Drop: the dummy predecessor is never removed.
DropNothing ==
    /\ Idle /\ spc = "drop"
    /\ first' = None
    /\ Goto("access")
    /\ UNCHANGED <<acc, stage, preds, succs, tracked, objects, task, todo, addr, seen, comm,
                   closing, pending, lost>>

Drop ==
    /\ Idle /\ spc = "drop"
    /\ IF first = None THEN UNCHANGED <<preds, stage, in, cpc>> ELSE Decrease(first, 0)
    /\ first' = None
    /\ Goto("access")
    /\ UNCHANGED <<acc, succs, tracked, objects, task, todo, addr, seen, comm,
                   count, left, pending, lost>>

Submitter ==
    \/ Submit \/ SubmitAccess \/ Done \/ Wait
    \/ Finalize \/ Join \/ Own \/ ResetReferences \/ Release
    \/ Look \/ Link \/ Versions \/ Readers \/ Write \/ Read
    \/ Initial \/ Gather \/ Front \/ Target \/ Grow \/ Create \/ Append \/ Drop
----------------------------------------------------------------------------
(* CommutationDO::dependenciesSatisfied of in[r], by process r.  The       *)
(* domain's lock is held from check to clear; the submitter does not take  *)
(* it when it sets commDO.                                                 *)

Check(r) ==
    /\ cpc[r] = "check"
    /\ \A q \in Runners : cpc[q] # "clear"
    /\ cpc' = [cpc EXCEPT ![r] = IF commDO[target[in[r]]] = in[r] THEN "clear" ELSE "ref"]
    /\ UNCHANGED <<acc, stage, preds, succs, tracked, objects, submitter, in, count, left,
                   pending, lost>>

Clear(r) ==
    /\ cpc[r] = "clear"
    /\ commDO' = [commDO EXCEPT ![target[in[r]]] = None]
    /\ lost' = (lost \/ commDO[target[in[r]]] \notin {None, in[r]})
    /\ cpc' = [cpc EXCEPT ![r] = "ref"]
    /\ UNCHANGED <<acc, stage, preds, succs, lastWriter, readers, objects, submitter, in,
                   count, left, pending>>

\* --_references, on a plain unsigned int: a read and a write.
Ref(r) ==
    /\ cpc[r] = "ref"
    /\ count' = [count EXCEPT ![r] = refs[in[r]] - 1]
    /\ cpc' = [cpc EXCEPT ![r] = "unref"]
    /\ UNCHANGED <<acc, stage, preds, succs, tracked, objects, submitter, in, left, pending, lost>>

Unref(r) ==
    /\ cpc[r] = "unref"
    /\ refs' = [refs EXCEPT ![in[r]] = count[r]]
    /\ IF count[r] = 0
       THEN cpc' = [cpc EXCEPT ![r] = "writers"] /\ UNCHANGED in
       ELSE cpc' = [cpc EXCEPT ![r] = "idle"] /\ in' = [in EXCEPT ![r] = None]
    /\ UNCHANGED <<acc, stage, preds, succs, tracked, made, target, kind, submitter,
                   count, left, pending, lost>>

\* deleteLastWriter for the targets of o, under the domain's lock and o's.
NoLongerWriter(o) == [a \in Addrs |-> IF lastWriter[a] = o THEN None ELSE lastWriter[a]]

CommWriters(r) ==
    /\ cpc[r] = "writers"
    /\ lastWriter' = NoLongerWriter(in[r])
    /\ left' = [left EXCEPT ![r] = succs[in[r]]]
    /\ cpc' = [cpc EXCEPT ![r] = "succs"]
    /\ UNCHANGED <<acc, stage, preds, succs, readers, commDO, objects, submitter, in,
                   count, pending, lost>>

CommSuccessor(r) ==
    /\ cpc[r] = "succs"
    /\ \E t \in left[r] :
          /\ Decrease(t, r)
          /\ left' = [left EXCEPT ![r] = @ \ {t}]
    /\ UNCHANGED <<acc, succs, tracked, objects, submitter, count, pending, lost>>

CommFinished(r) ==
    /\ cpc[r] = "succs" /\ left[r] = {}
    /\ cpc' = [cpc EXCEPT ![r] = "idle"]
    /\ in' = [in EXCEPT ![r] = None]
    /\ UNCHANGED <<acc, stage, preds, succs, tracked, objects, submitter, count, left,
                   pending, lost>>

Closing(r) ==
    \/ Check(r) \/ Clear(r) \/ Ref(r) \/ Unref(r)
    \/ CommWriters(r) \/ CommSuccessor(r) \/ CommFinished(r)
----------------------------------------------------------------------------
(* A task that has run: its immediate successor may be taken before        *)
(* finished() tells the others.                                            *)

Run(t) ==
    /\ stage[t] = "ready" /\ t \notin Waiting
    /\ stage' = [stage EXCEPT ![t] = "ended"]
    /\ UNCHANGED <<acc, preds, succs, tracked, objects, submitter, closing, pending, lost>>

ReleaseImmediateSuccessor(t) ==
    /\ stage[t] = "ended"
    /\ \E u \in (succs[t] \cap Tasks) \ Waiting :
          /\ preds[u] = 1
          /\ succs' = [succs EXCEPT ![t] = @ \ {u}]
          /\ stage' = [stage EXCEPT ![t] = "writers", ![u] = "ready"]
    /\ UNCHANGED <<acc, preds, tracked, objects, submitter, closing, pending, lost>>

DeleteLastWriter(t) ==
    /\ stage[t] \in {"ended", "writers"}
    /\ lastWriter' = NoLongerWriter(t)
    /\ stage' = [stage EXCEPT ![t] = "readers"]
    /\ UNCHANGED <<acc, preds, succs, readers, commDO, objects, submitter, closing, pending, lost>>

DeleteReader(t) ==
    /\ stage[t] = "readers"
    /\ \E a \in Addrs :
          /\ t \in readers[a]
          /\ readers' = [readers EXCEPT ![a] = @ \ {t}]
    /\ UNCHANGED <<acc, stage, preds, succs, lastWriter, commDO, objects, submitter, closing,
                   pending, lost>>

\* Mutant of StartSuccessors: the task is taken out of the readers of one address only.
StartSuccessorsEarly(t) ==
    /\ stage[t] = "readers"
    /\ \E a \in Addrs : t \notin readers[a]
    /\ stage' = [stage EXCEPT ![t] = "succs"]
    /\ pending' = [pending EXCEPT ![t] = succs[t]]
    /\ UNCHANGED <<acc, preds, succs, tracked, objects, submitter, closing, lost>>

StartSuccessors(t) ==
    /\ stage[t] = "readers"
    /\ \A a \in Addrs : t \notin readers[a]
    /\ stage' = [stage EXCEPT ![t] = "succs"]
    /\ pending' = [pending EXCEPT ![t] = succs[t]]
    /\ UNCHANGED <<acc, preds, succs, tracked, objects, submitter, closing, lost>>

Successor(t) ==
    /\ stage[t] = "succs" /\ cpc[t] = "idle"
    /\ \E o \in pending[t] :
          /\ Decrease(o, t)
          /\ pending' = [pending EXCEPT ![t] = @ \ {o}]
    /\ UNCHANGED <<acc, succs, tracked, objects, submitter, count, left, lost>>

Delete(t) ==
    /\ stage[t] = "succs" /\ cpc[t] = "idle" /\ pending[t] = {}
    /\ stage' = [stage EXCEPT ![t] = "gone"]
    /\ UNCHANGED <<acc, preds, succs, tracked, objects, submitter, closing, pending, lost>>

Finishing(t) ==
    \/ Run(t) \/ ReleaseImmediateSuccessor(t) \/ DeleteLastWriter(t) \/ DeleteReader(t)
    \/ StartSuccessors(t) \/ Successor(t) \/ Delete(t)

Next ==
    \/ Submitter
    \/ \E r \in Runners : Closing(r)
    \/ \E t \in Tasks : Finishing(t)

Fairness ==
    /\ WF_vars(Submitter)
    /\ \A r \in Runners : WF_vars(Closing(r))
    /\ \A t \in Tasks : WF_vars(Finishing(t))

Spec == Init /\ [][Next]_vars
FairSpec == Spec /\ Fairness
=============================================================================
