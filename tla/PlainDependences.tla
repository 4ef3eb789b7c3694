-------------------------- MODULE PlainDependences --------------------------
(***************************************************************************)
(* The dependences domain on addresses, for a program whose accesses are   *)
(* all plain: in, out and inout.  No commutation object is ever made.      *)
(*                                                                         *)
(* part, which never changes, is "plain" unless another domain uses the    *)
(* variables (see MCDependences).                                          *)
(***************************************************************************)
EXTENDS Integers, FiniteSets

CONSTANTS Submissions,   \* how many tasks and waitOn calls there are
          Addresses,
          Accesses,      \* the accesses the program uses
          WaitOns        \* the submissions that are waitOn calls

ASSUME PlainAssumption ==
    /\ Submissions \in Nat
    /\ Addresses # {}
    /\ Accesses \subseteq {"in", "out", "inout"}

VARIABLES part,
          acc, stage, preds, succs, lastWriter, readers, commDO, made, target, kind, refs,
          spc, task, todo, addr, seen, comm, first, in, cpc, count, left, pending, lost

Plain == INSTANCE DependenciesDomainProps WITH
    LastTask <- Submissions, Addrs <- Addresses, Kinds <- Accesses, Waiting <- WaitOns,
    LastComm <- 0

\* The data flow that the program asked for; of another part nothing happens in it.
flowAcc == IF part = "plain" THEN acc
           ELSE [t \in 1..Submissions |-> [a \in Addresses |-> "none"]]
flowStage == [t \in 1..Submissions |-> IF part # "plain" THEN "unborn"
                                       ELSE IF Plain!Over(t) THEN "ended" ELSE stage[t]]
PlainFlow == INSTANCE DataFlow WITH
    Tasks <- 1..Submissions, Addrs <- Addresses, Kinds <- Accesses,
    acc <- flowAcc, stage <- flowStage

PlainInit == part = "plain" /\ Plain!Init
PlainNext == part = "plain" /\ Plain!Next /\ UNCHANGED part
PlainSpec == PlainInit /\ [][PlainNext]_<<part, Plain!vars>>

-----------------------------------------------------------------------------
(* See DependenciesDomainProps: the counts of predecessors are exact, and nothing that is
   followed later leads to a deleted object (addSuccessor, decreasePredecessors, finished). *)
PlainRecords == part = "plain" => Plain!PredsExact /\ Plain!NoDangling

(* Every behaviour is one of the data flow the program asked for (see
   DependenciesDomainProps). *)
PlainImplementsDataFlow == PlainFlow!Spec
=============================================================================
