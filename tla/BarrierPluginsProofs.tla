------------------------ MODULE BarrierPluginsProofs ------------------------
(***************************************************************************)
(* The old centralized barrier and the tree keep the contract of a barrier *)
(* for every set of participants and every number of episodes, by          *)
(* themselves and as the plugin of a team.                                 *)
(***************************************************************************)
EXTENDS BarrierPlugins, CentralizedBarrierProofs, WellFoundedInduction

-----------------------------------------------------------------------------
(* The old barrier. *)

(* An instance has a copy of Cardinality, which is the same. *)
LEMMA OldCardinality == ASSUME NEW S PROVE Old!Cardinality(S) = Cardinality(S)
  BY Zenon DEF Old!Cardinality, Cardinality

LEMMA OldCount == Old!N = Cardinality(Procs) /\ Old!N \in Nat /\ Old!N >= 1
<1>1. Old!N = Cardinality(Procs)
  BY OldCardinality, Zenon DEF Old!N
<1> QED
  BY <1>1, ParticipantsAssumption, FS_CardinalityType, FS_EmptySet

LEMMA OldEpisodeType == Old!TypeOK => Old!Episode \in Int
  BY DEF Old!TypeOK, Old!Episode

LEMMA OldInit == Old!Init => Old!Inductive
<1> SUFFICES ASSUME Old!Init PROVE Old!Inductive
  OBVIOUS
<1> USE DEF Old!Init, Old!SyncInit
<1>1. Old!TypeOK
  <2>1. oldSem \in 0..Old!N /\ oldEp \in [Procs -> 0..MaxEpisodes] /\ oldReduced \in 0..MaxEpisodes
    BY OldCount, MaxEpisodesAssumption
  <2>2. Old!SyncTypeOK(BOOLEAN)
    BY Zenon DEF Old!SyncTypeOK, Old!Places
  <2> QED
    BY <2>1, <2>2, Zenon DEF Old!TypeOK
<1>2. Old!Counted = {}
  BY DEF Old!Counted
<1>3. Old!SemInv
  BY <1>2, FS_EmptySet, OldCardinality DEF Old!SemInv
<1>4. Old!EpisodeInv /\ Old!LeaderInv
  BY MaxEpisodesAssumption DEF Old!EpisodeInv, Old!LeaderInv, Old!Episode
<1> QED
  BY <1>1, <1>3, <1>4 DEF Old!Inductive

(* The steps that move one participant and leave the conditions to SyncCond. *)
LEMMA OldTypeStep ==
  ASSUME Old!Inductive, NEW p \in Procs, Old!Act(p)
  PROVE  /\ Old!SyncTypeOK(BOOLEAN)'
         /\ oldFlag' \in BOOLEAN
         /\ oldPc' \in [Procs -> {"out", "open", "signal", "reduce", "up", "depart", "close",
                                  "rewake", "down"}]
<1> USE DEF Old!Inductive, Old!TypeOK, Old!Step
<1>1. Old!SyncTypeOK(BOOLEAN)'
  <2> USE DEF Old!SyncTypeOK, Old!Places, Old!Goto
  <2>1. ASSUME NEW c \in BOOLEAN, Old!StartWait(p, c) \/ Old!StartSignal(p, c)
        PROVE  Old!SyncTypeOK(BOOLEAN)'
    BY <2>1 DEF Old!StartWait, Old!StartSignal
  <2>2. ASSUME NEW holds, Old!CheckPass(p, holds) PROVE Old!SyncTypeOK(BOOLEAN)'
    BY <2>2 DEF Old!CheckPass
  <2>3. CASE Old!SignalUnlock(p)
    BY <2>3 DEF Old!SignalUnlock, Old!Release
  <2>4. CASE Old!Condition(p)
    BY <2>4 DEF Old!Condition, Old!CheckFail, Old!LockPass, Old!LockFail, Old!NoNext,
                Old!Suspend, Old!SignalLock, Old!WakeOne, Old!Acquire, Old!Release
  <2>5. CASE UNCHANGED Old!syncVars
    BY <2>5 DEF Old!syncVars
  <2> QED
    BY <2>1, <2>2, <2>3, <2>4, <2>5
       DEF Old!Act, Old!ArriveLast, Old!ArriveOther, Old!Open, Old!Signalled, Old!Reduce,
           Old!Opened, Old!DepartLast, Old!DepartOther, Old!Close, Old!WaitReturns,
           Old!SignalReturns
<1> QED
  BY <1>1 DEF Old!Act, Old!ArriveLast, Old!ArriveOther, Old!Open, Old!Signalled, Old!Reduce,
              Old!Opened, Old!DepartLast, Old!DepartOther, Old!Close, Old!Return,
              Old!WaitReturns, Old!SignalReturns, Old!Condition, Old!localVars

(* Who is counted changes with _sem, and no two lead. *)
LEMMA OldSemStep ==
  ASSUME Old!Inductive, NEW p \in Procs, Old!Act(p)
  PROVE  Old!SemInv' /\ oldSem' \in 0..Old!N
<1> USE DEF Old!Inductive, Old!TypeOK, Old!Step
<1>1. oldSem = Cardinality(Old!Counted)
  BY OldCardinality DEF Old!SemInv
<1>2. IsFiniteSet(Old!Counted) /\ Old!Counted \subseteq Procs
  BY ParticipantsAssumption, FS_Subset DEF Old!Counted
<1>3. Old!Counted' \subseteq Procs
  BY DEF Old!Counted
<1>4. oldSem' = Cardinality(Old!Counted')
  <2>1. CASE Old!ArriveLast(p) \/ Old!ArriveOther(p)
    <3>1. p \notin Old!Counted /\ Old!Counted' = Old!Counted \cup {p} /\ oldSem' = oldSem + 1
      BY <2>1 DEF Old!ArriveLast, Old!ArriveOther, Old!Counted
    <3> QED
      BY <1>1, <1>2, <3>1, FS_AddElement
  <2>2. CASE Old!DepartLast(p) \/ Old!DepartOther(p)
    <3>1. p \in Old!Counted /\ Old!Counted' = Old!Counted \ {p} /\ oldSem' = oldSem - 1
      BY <2>2 DEF Old!DepartLast, Old!DepartOther, Old!Counted
    <3> QED
      BY <1>1, <1>2, <3>1, FS_RemoveElement
  <2>3. CASE ~(Old!ArriveLast(p) \/ Old!ArriveOther(p) \/ Old!DepartLast(p) \/ Old!DepartOther(p))
    <3>1. Old!Counted' = Old!Counted /\ oldSem' = oldSem
      BY <2>3 DEF Old!Act, Old!Open, Old!Signalled, Old!Reduce, Old!Opened, Old!Close,
                  Old!Return, Old!WaitReturns, Old!SignalReturns, Old!Condition,
                  Old!localVars, Old!Counted
    <3> QED
      BY <1>1, <3>1
  <2> QED
    BY <2>1, <2>2, <2>3
<1>5. oldSem' \in 0..Old!N
  BY <1>3, <1>4, OldCount, ParticipantsAssumption, FS_Subset, FS_CardinalityType
<1> QED
  BY <1>4, <1>5, OldCardinality DEF Old!SemInv

(* The increment that reaches N finds everyone else waiting; the decrement that reaches 0
   everyone else gone. *)
LEMMA OldLast ==
  ASSUME Old!Inductive, NEW p \in Procs, NEW q \in Procs, q # p
  PROVE  /\ Old!ArriveLast(p) => oldPc[q] = "up"
         /\ Old!DepartLast(p) => oldPc[q] = "down"
<1> USE DEF Old!Inductive, Old!TypeOK, Old!Step
<1>1. oldSem = Cardinality(Old!Counted)
  BY OldCardinality DEF Old!SemInv
<1>2. IsFiniteSet(Old!Counted) /\ Old!Counted \subseteq Procs
  BY ParticipantsAssumption, FS_Subset DEF Old!Counted
<1>3. ASSUME Old!ArriveLast(p) PROVE oldPc[q] = "up"
  <2>1. p \notin Old!Counted
    BY <1>3 DEF Old!ArriveLast, Old!Counted
  <2>2. Cardinality(Old!Counted \cup {p}) = Cardinality(Procs)
    BY <1>1, <1>2, <1>3, <2>1, OldCount, FS_AddElement DEF Old!ArriveLast
  <2>3. Old!Counted \cup {p} = Procs
    BY <1>2, <2>2, ParticipantsAssumption, FS_Subset, Zenon
  <2>4. oldPc[q] \in {"open", "up", "signal", "reduce", "depart"}
    BY <2>3 DEF Old!Counted
  <2>5. oldPc[q] # "open" /\ oldFlag = FALSE
    BY <1>3 DEF Old!ArriveLast, Old!LeaderInv, Old!EpisodeInv
  <2> QED
    BY <2>4, <2>5 DEF Old!EpisodeInv
<1>4. ASSUME Old!DepartLast(p) PROVE oldPc[q] = "down"
  <2>1. Cardinality(Old!Counted \ {p}) = 0 /\ oldPc[p] = "depart"
    BY <1>1, <1>2, <1>4, FS_RemoveElement DEF Old!DepartLast, Old!Counted
  <2>2. Old!Counted \ {p} = {}
    BY <1>2, <2>1, FS_RemoveElement, FS_EmptySet
  <2>3. oldPc[q] \notin {"open", "up", "signal", "reduce", "depart"}
    BY <2>2 DEF Old!Counted
  <2>4. oldFlag /\ oldPc[q] # "close"
    BY <2>1 DEF Old!EpisodeInv, Old!LeaderInv
  <2> QED
    BY <2>3, <2>4 DEF Old!EpisodeInv
<1> QED
  BY <1>3, <1>4

LEMMA OldLeaderStep ==
  ASSUME Old!Inductive, NEW p \in Procs, Old!Act(p)
  PROVE  Old!LeaderInv'
<1> USE DEF Old!Inductive, Old!TypeOK, Old!Step, Old!LeaderInv
<1>1. CASE Old!ArriveLast(p) \/ Old!DepartLast(p)
  BY <1>1, OldLast DEF Old!ArriveLast, Old!DepartLast
<1>2. CASE Old!ArriveOther(p)
  BY <1>2 DEF Old!ArriveOther
<1>3. CASE Old!Open(p) \/ Old!Signalled(p) \/ Old!Reduce(p) \/ Old!Close(p)
  <2>1. CASE Old!Open(p)
    BY <2>1 DEF Old!Open
  <2>2. CASE Old!Signalled(p)
    BY <2>2 DEF Old!Signalled
  <2>3. CASE Old!Reduce(p) \/ Old!Close(p)
    BY <2>3 DEF Old!Reduce, Old!Close
  <2> QED
    BY <1>3, <2>1, <2>2, <2>3
<1>4. CASE Old!Opened(p) \/ Old!DepartOther(p)
  <2>1. CASE Old!Opened(p)
    BY <1>4, <2>1 DEF Old!Opened, Old!CheckPass, Old!EpisodeInv
  <2>2. CASE Old!DepartOther(p)
    BY <1>4, <2>2 DEF Old!DepartOther, Old!EpisodeInv
  <2> QED
    BY <1>4, <2>1, <2>2
<1>5. CASE Old!WaitReturns(p) \/ Old!SignalReturns(p)
  BY <1>5 DEF Old!WaitReturns, Old!SignalReturns, Old!Return, Old!CheckPass, Old!EpisodeInv
<1>6. CASE Old!Condition(p)
  BY <1>6 DEF Old!Condition, Old!localVars
<1> QED
  BY <1>1, <1>2, <1>3, <1>4, <1>5, <1>6 DEF Old!Act

LEMMA OldEpisodeStep ==
  ASSUME Old!Inductive, NEW p \in Procs, Old!Act(p)
  PROVE  Old!EpisodeInv'
<1> USE DEF Old!Inductive, Old!TypeOK, Old!Step, Old!EpisodeInv
<1>1. CASE Old!ArriveLast(p) \/ Old!ArriveOther(p)
  <2>1. oldFlag = FALSE /\ oldFlag' = FALSE /\ oldReduced' = oldReduced
    BY <1>1 DEF Old!ArriveLast, Old!ArriveOther
  <2>2. Old!Episode' = Old!Episode
    BY <2>1 DEF Old!Episode
  <2> QED
    BY <1>1, <2>1, <2>2 DEF Old!ArriveLast, Old!ArriveOther
<1>2. CASE Old!Open(p)
  <2>1. \A q \in Procs : q # p => oldPc[q] = "up"
    BY <1>2 DEF Old!Open, Old!LeaderInv
  <2>2. Old!Episode' = Old!Episode
    BY <1>2 DEF Old!Open, Old!Episode
  <2> QED
    BY <1>2, <2>1, <2>2 DEF Old!Open
<1>3. CASE Old!Signalled(p)
  <2>1. Old!Episode' = Old!Episode
    BY <1>3 DEF Old!Signalled, Old!Episode
  <2> QED
    BY <1>3, <2>1 DEF Old!Signalled
<1>4. CASE Old!Reduce(p)
  <2>1. \A q \in Procs : q # p => oldPc[q] \notin {"signal", "reduce"}
    BY <1>4 DEF Old!Reduce, Old!LeaderInv
  <2>2. Old!Episode' = Old!Episode
    BY <1>4, <2>1 DEF Old!Reduce, Old!Episode
  <2> QED
    BY <1>4, <2>2 DEF Old!Reduce
<1>5. CASE Old!Opened(p) \/ Old!DepartLast(p) \/ Old!DepartOther(p)
  <2>1. oldFlag = TRUE
    BY <1>5 DEF Old!Opened, Old!CheckPass, Old!DepartLast, Old!DepartOther
  <2>2. Old!Episode' = Old!Episode
    BY <1>5 DEF Old!Opened, Old!DepartLast, Old!DepartOther, Old!Episode
  <2> QED
    BY <1>5, <2>1, <2>2 DEF Old!Opened, Old!DepartLast, Old!DepartOther
<1>6. CASE Old!Close(p)
  <2>1. \A q \in Procs : q # p => oldPc[q] = "down"
    BY <1>6 DEF Old!Close, Old!LeaderInv
  <2>2. Old!Episode' = Old!Episode + 1
    BY <1>6, <2>1 DEF Old!Close, Old!Episode
  <2> QED
    BY <1>6, <2>1, <2>2, OldEpisodeType DEF Old!Close
<1>7. CASE Old!WaitReturns(p) \/ Old!SignalReturns(p)
  <2>1. oldFlag = FALSE /\ oldPc[p] \in {"down", "rewake"}
    BY <1>7 DEF Old!WaitReturns, Old!SignalReturns, Old!Return, Old!CheckPass
  <2>2. Old!Episode' = Old!Episode
    BY <1>7 DEF Old!WaitReturns, Old!SignalReturns, Old!Return, Old!Episode
  <2>3. oldPc' = [oldPc EXCEPT ![p] = "out"] /\ oldEp' = [oldEp EXCEPT ![p] = @ + 1]
        /\ oldFlag' = oldFlag
    BY <1>7 DEF Old!WaitReturns, Old!SignalReturns, Old!Return
  <2> QED
    BY <2>1, <2>2, <2>3, OldEpisodeType
<1>8. CASE Old!Condition(p)
  BY <1>8 DEF Old!Condition, Old!localVars, Old!Episode
<1> QED
  BY <1>1, <1>2, <1>3, <1>4, <1>5, <1>6, <1>7, <1>8 DEF Old!Act

LEMMA OldInductive == Old!Spec => []Old!Inductive
<1>1. Old!Inductive /\ [Old!Next]_(Old!vars) => Old!Inductive'
  <2> SUFFICES ASSUME Old!Inductive, [Old!Next]_(Old!vars) PROVE Old!Inductive'
    OBVIOUS
  <2>1. ASSUME NEW p \in Procs, Old!Act(p) PROVE Old!Inductive'
    <3>1. oldEp' \in [Procs -> 0..MaxEpisodes] /\ oldReduced' \in 0..MaxEpisodes
      <4> USE DEF Old!Inductive, Old!TypeOK, Old!Step
      <4>1. CASE Old!Reduce(p)
        <5>1. Old!Episode = oldReduced /\ oldEp[p] = Old!Episode /\ oldEp[p] < MaxEpisodes
          BY <4>1 DEF Old!Reduce, Old!Episode, Old!EpisodeInv
        <5> QED
          BY <4>1, <5>1, MaxEpisodesAssumption DEF Old!Reduce
      <4>2. CASE Old!WaitReturns(p) \/ Old!SignalReturns(p)
        <5>1. oldEp[p] < MaxEpisodes
          BY <4>2 DEF Old!WaitReturns, Old!SignalReturns, Old!Return, Old!EpisodeInv
        <5> QED
          BY <4>2, <5>1, MaxEpisodesAssumption
             DEF Old!WaitReturns, Old!SignalReturns, Old!Return
      <4>3. CASE UNCHANGED <<oldEp, oldReduced>>
        BY <4>3
      <4> QED
        BY <2>1, <4>1, <4>2, <4>3
           DEF Old!Act, Old!ArriveLast, Old!ArriveOther, Old!Open, Old!Signalled, Old!Opened,
               Old!DepartLast, Old!DepartOther, Old!Close, Old!Condition, Old!localVars
    <3>2. Old!TypeOK'
      BY <2>1, <3>1, OldTypeStep, OldSemStep DEF Old!TypeOK
    <3> QED
      BY <2>1, <3>2, OldSemStep, OldEpisodeStep, OldLeaderStep DEF Old!Inductive
  <2>2. CASE UNCHANGED Old!vars
    BY <2>2 DEF Old!vars, Old!syncVars, Old!Inductive, Old!TypeOK, Old!SyncTypeOK, Old!SemInv,
                Old!EpisodeInv, Old!LeaderInv, Old!Episode, Old!Counted
  <2> QED
    BY <2>1, <2>2 DEF Old!Next
<1> QED
  BY OldInit, <1>1, PTL DEF Old!Spec

(* Though the old barrier releases everyone before it reduces, its second phase keeps them
   in: the reductions of an episode run after the last arrival, before the first return. *)
THEOREM OldReductionsHold == Old!Spec => []Old!ReducedBetween
<1>1. Old!Inductive => Old!ReducedBetween
  BY DEF Old!Inductive, Old!TypeOK, Old!EpisodeInv, Old!LeaderInv, Old!Episode,
         Old!ReducedBetween, Old!reached
<1> QED
  BY <1>1, OldInductive, PTL

(* The old barrier implements the abstract one: an increment of _sem is a Reach, a return
   from the second wait or signal a Return, the rest stutters. *)
THEOREM OldRefinement == Old!Spec => Old!ImplementsBarrier
<1>1. Old!Init => Old!Abstract!Init
  BY DEF Old!Init, Old!Abstract!Init, Old!reached
<1>2. Old!Inductive /\ [Old!Next]_(Old!vars) => [Old!Abstract!Next]_(Old!Abstract!barrierVars)
  <2> SUFFICES ASSUME Old!Inductive, [Old!Next]_(Old!vars), ~UNCHANGED <<Old!reached, oldEp>>
               PROVE  Old!Abstract!Next
    BY DEF Old!Abstract!barrierVars
  <2> USE DEF Old!Inductive, Old!TypeOK, Old!Step
  <2>1. PICK p \in Procs : Old!Act(p)
    BY DEF Old!Next, Old!vars, Old!reached
  <2>2. CASE Old!ArriveLast(p) \/ Old!ArriveOther(p)
    <3>1. /\ oldEp' = oldEp
          /\ oldPc[p] = "out" /\ oldPc'[p] \in {"open", "up"}
          /\ \A q \in Procs : q # p => oldPc'[q] = oldPc[q]
      BY <2>2 DEF Old!ArriveLast, Old!ArriveOther
    <3>2. Old!reached[p] = oldEp[p]
      BY <3>1 DEF Old!reached
    <3>3. Old!reached' = [Old!reached EXCEPT ![p] = oldEp[p] + 1]
      BY <3>1 DEF Old!reached
    <3> QED
      BY <3>1, <3>2, <3>3 DEF Old!Abstract!Next, Old!Abstract!Reach
  <2>3. CASE Old!WaitReturns(p) \/ Old!SignalReturns(p)
    <3>1. oldFlag = FALSE /\ oldPc[p] \in {"down", "rewake"}
      BY <2>3 DEF Old!WaitReturns, Old!SignalReturns, Old!Return, Old!CheckPass, Old!EpisodeInv
    <3>2. Old!reached' = Old!reached /\ oldEp' = [oldEp EXCEPT ![p] = @ + 1]
      BY <2>3, <3>1 DEF Old!WaitReturns, Old!SignalReturns, Old!Return, Old!reached
    <3>3. oldEp[p] < Old!reached[p] /\ \A q \in Procs : Old!reached[q] >= Old!reached[p]
      BY <3>1, OldEpisodeType DEF Old!EpisodeInv, Old!reached
    <3> QED
      BY <3>2, <3>3 DEF Old!Abstract!Next, Old!Abstract!Return
  <2>4. CASE ~(Old!ArriveLast(p) \/ Old!ArriveOther(p) \/ Old!WaitReturns(p) \/ Old!SignalReturns(p))
    BY <2>1, <2>4 DEF Old!Act, Old!Open, Old!Signalled, Old!Reduce, Old!Opened,
                      Old!DepartLast, Old!DepartOther, Old!Close, Old!Condition,
                      Old!localVars, Old!reached
  <2> QED
    BY <2>2, <2>3, <2>4
<1> QED
  BY <1>1, <1>2, OldInductive, PTL
     DEF Old!Spec, Old!ImplementsBarrier, Old!Abstract!Spec
-----------------------------------------------------------------------------
(* The tree: its shape. *)

(* A set of naturals with an element has a least one. *)
LEMMA Least ==
  ASSUME NEW S \in SUBSET Nat, S # {}
  PROVE  \E m \in S : \A n \in S : m <= n
<1> DEFINE LessThan == OpToRel(<, Nat)
<1>1. IsWellFoundedOn(LessThan, Nat)
  BY NatLessThanWellFounded, Zenon
<1>2. \A m, n \in Nat : m < n => <<m, n>> \in LessThan
  BY DEF OpToRel
<1> HIDE DEF LessThan
<1>3. PICK m \in S : \A n \in S : ~(<<n, m>> \in LessThan)
  BY <1>1, WFMin, Zenon
<1>4. ASSUME NEW n \in S PROVE m <= n
  <2>1. ~(n < m)
    BY <1>2, <1>3, Zenon
  <2> QED
    BY <2>1
<1> QED
  BY <1>4

LEMMA TreeNodes ==
  /\ N \in Nat /\ N >= 1
  /\ Procs = 0..(N - 1)
  /\ Tree!Children = 1..(N - 1)
<1>1. N \in Nat /\ N >= 1
  BY ParticipantsAssumption, FS_CardinalityType, FS_EmptySet DEF N
<1> QED
  BY <1>1, NodesAssumption DEF Tree!Children

LEMMA TreeParent ==
  ASSUME NEW c \in Tree!Children
  PROVE  /\ c \in Procs
         /\ Tree!Parent(c) \in Procs
         /\ Tree!Parent(c) < c
         /\ \/ Tree!Side(c) = "left" /\ c = Tree!Left(Tree!Parent(c))
            \/ Tree!Side(c) = "right" /\ c = Tree!Right(Tree!Parent(c))
  BY TreeNodes DEF Tree!Parent, Tree!Side, Tree!Left, Tree!Right

LEMMA TreeChild ==
  ASSUME NEW p \in Procs
  PROVE  /\ Tree!Left(p) < N => /\ Tree!Left(p) \in Tree!Children
                                /\ Tree!Parent(Tree!Left(p)) = p
                                /\ Tree!Side(Tree!Left(p)) = "left"
         /\ Tree!Right(p) < N => /\ Tree!Left(p) < N
                                 /\ Tree!Right(p) \in Tree!Children
                                 /\ Tree!Parent(Tree!Right(p)) = p
                                 /\ Tree!Side(Tree!Right(p)) = "right"
  BY TreeNodes DEF Tree!Parent, Tree!Side, Tree!Left, Tree!Right

(* No two nodes share a condition. *)
LEMMA TreeOneChild ==
  ASSUME NEW c \in Tree!Children, NEW d \in Tree!Children,
         Tree!Parent(c) = Tree!Parent(d), Tree!Side(c) = Tree!Side(d)
  PROVE  c = d
  BY TreeParent

LEMMA TreeApplies ==
  ASSUME NEW p \in Procs
  PROVE  /\ Tree!Applies(p, "left") <=> Tree!Left(p) < N
         /\ Tree!Applies(p, "right") <=> Tree!Right(p) < N
         /\ Tree!Applies(p, "report") <=> p # 0
         /\ Tree!Applies(p, "top") <=> p # 0
         /\ Tree!Applies(p, "free1") <=> Tree!Left(p) < N
         /\ Tree!Applies(p, "free2") <=> Tree!Right(p) < N
         /\ Tree!Applies(p, "advance")
  BY DEF Tree!Applies

LEMMA TreeTarget ==
  ASSUME NEW p \in Procs
  PROVE  /\ Tree!Target(p, "left") = <<p, "left">>
         /\ Tree!Target(p, "right") = <<p, "right">>
         /\ Tree!Target(p, "top") = <<p, "parent">>
         /\ Tree!Target(p, "report") = <<Tree!Parent(p), Tree!Side(p)>>
         /\ Tree!Target(p, "free1") = <<Tree!Left(p), "parent">>
         /\ Tree!Target(p, "free2") = <<Tree!Right(p), "parent">>
  BY DEF Tree!Target

LEMMA TreeTargetType ==
  ASSUME NEW p \in Procs, NEW place \in Tree!Waits \cup Tree!Sets, Tree!Applies(p, place)
  PROVE  Tree!Target(p, place) \in Tree!Conds
  BY TreeApplies, TreeTarget, TreeParent, TreeChild, TreeNodes
     DEF Tree!Waits, Tree!Sets, Tree!Conds, Tree!Sides, Tree!Children

(* The order of barrier()'s statements, those that do not apply left out. *)
LEMMA TreeProceed ==
  ASSUME Tree!TypeOK, Tree!PlaceInv, NEW p \in Procs, Tree!Proceed(p), treePc[p] # "advance"
  PROVE  /\ treePc' = [treePc EXCEPT ![p] = treePc'[p]]
         /\ treePc'[p] \in {"left", "right", "report", "top", "free1", "free2", "advance"}
         /\ Tree!Applies(p, treePc'[p])
         /\ treePc[p] = "out" => treePc'[p] \in {"left", "report", "advance"}
         /\ treePc[p] = "out" /\ Tree!Left(p) < N => treePc'[p] = "left"
         /\ treePc[p] = "out" /\ p # 0 => treePc'[p] # "advance"
         /\ treePc[p] = "left" => treePc'[p] \in {"right", "report", "free1"}
         /\ treePc[p] = "left" /\ Tree!Right(p) < N => treePc'[p] = "right"
         /\ treePc[p] \in {"left", "right"} /\ p # 0 => treePc'[p] # "free1"
         /\ treePc[p] = "right" => treePc'[p] \in {"report", "free1"}
         /\ treePc[p] = "report" => treePc'[p] = "top"
         /\ treePc[p] = "top" => treePc'[p] \in {"free1", "advance"}
         /\ treePc[p] = "top" /\ Tree!Left(p) < N => treePc'[p] = "free1"
         /\ treePc[p] = "free1" => treePc'[p] \in {"free2", "advance"}
         /\ treePc[p] = "free1" /\ Tree!Right(p) < N => treePc'[p] = "free2"
         /\ treePc[p] = "free2" => treePc'[p] = "advance"
<1> USE DEF Tree!TypeOK, Tree!Waits, Tree!Sets
<1>1. /\ DOMAIN Tree!Order = 1..7
      /\ Tree!Order[1] = "left" /\ Tree!Order[2] = "right" /\ Tree!Order[3] = "report"
      /\ Tree!Order[4] = "top" /\ Tree!Order[5] = "free1" /\ Tree!Order[6] = "free2"
      /\ Tree!Order[7] = "advance"
  BY DEF Tree!Order
<1>2. PICK i \in Tree!Later(p) : /\ \A j \in Tree!Later(p) : i <= j
                                 /\ treePc' = [treePc EXCEPT ![p] = Tree!Order[i]]
  BY Zenon DEF Tree!Proceed
<1>3. i \in 1..7 /\ Tree!Applies(p, Tree!Order[i]) /\ treePc'[p] = Tree!Order[i]
  BY <1>1, <1>2 DEF Tree!Later
<1>4. \A j \in 1..7 : treePc[p] = Tree!Order[j] => j < i
  BY <1>1, <1>2 DEF Tree!Later
<1>5. \A j \in 1..7 : /\ Tree!Applies(p, Tree!Order[j])
                      /\ \A k \in 1..7 : treePc[p] = Tree!Order[k] => k < j
                      => i <= j
  BY <1>1, <1>2 DEF Tree!Later
<1>6. Tree!Right(p) < N => Tree!Left(p) < N
  BY TreeChild
<1>7. treePc[p] # "out" => Tree!Applies(p, treePc[p])
  BY DEF Tree!PlaceInv
<1>8. \A j \in 1..7 : treePc[p] = Tree!Order[j]
                      => \A k \in (j + 1)..7 : Tree!Applies(p, Tree!Order[k]) => i <= k
  BY <1>1, <1>5
<1>9. treePc[p] = "out" => \A k \in 1..7 : Tree!Applies(p, Tree!Order[k]) => i <= k
  BY <1>1, <1>5
<1>10. /\ Tree!Order[i] \in {"left", "right", "report", "top", "free1", "free2", "advance"}
       /\ treePc' = [treePc EXCEPT ![p] = treePc'[p]]
  BY <1>1, <1>2, <1>3
<1>11. CASE treePc[p] = "out"
  BY <1>1, <1>3, <1>6, <1>9, <1>10, <1>11, TreeApplies
<1>12. CASE treePc[p] = "left"
  BY <1>1, <1>3, <1>4, <1>7, <1>8, <1>10, <1>12, TreeApplies
<1>13. CASE treePc[p] = "right"
  BY <1>1, <1>3, <1>4, <1>6, <1>7, <1>8, <1>10, <1>13, TreeApplies
<1>14. CASE treePc[p] \in {"report", "top"}
  BY <1>1, <1>3, <1>4, <1>6, <1>7, <1>8, <1>10, <1>14, TreeApplies
<1>15. CASE treePc[p] \in {"free1", "free2"}
  BY <1>1, <1>3, <1>4, <1>7, <1>8, <1>10, <1>15, TreeApplies
<1> QED
  BY <1>11, <1>12, <1>13, <1>14, <1>15 DEF Tree!TypeOK

-----------------------------------------------------------------------------
(* The tree: its invariant. *)

LEMMA TreeInit == Tree!Init => Tree!Inductive
<1> SUFFICES ASSUME Tree!Init PROVE Tree!Inductive
  OBVIOUS
<1> USE DEF Tree!Init, Tree!SyncInit
<1>1. Tree!TypeOK
  <2>1. <<0, "left">> \in Tree!Conds
    BY TreeNodes DEF Tree!Conds, Tree!Sides
  <2>2. Tree!SyncTypeOK(Tree!Conds)
    BY <2>1, Zenon DEF Tree!SyncTypeOK, Tree!Places
  <2>3. treePhase \in [Procs -> 0..2] /\ treeEp \in [Procs -> 0..MaxEpisodes]
        /\ treeSems \in [Tree!Conds -> 0..2]
    BY MaxEpisodesAssumption
  <2> QED
    BY <2>2, <2>3, Zenon DEF Tree!TypeOK
<1>2. Tree!PlaceInv
  BY Zenon DEF Tree!PlaceInv
<1>3. \A c \in Tree!Children : /\ ~Tree!Reported(c) /\ ~Tree!Freed(c) /\ ~Tree!Heard(c)
                               /\ Tree!Reports(c) = 0 /\ Tree!Frees(c) = 0
  BY TreeParent DEF Tree!Reported, Tree!Freed, Tree!Heard, Tree!Reports, Tree!Frees
<1>4. Tree!CountInv
  BY <1>3, TreeParent DEF Tree!CountInv, Tree!Conds, Tree!Sides
<1>5. Tree!LinkInv
  BY <1>3, TreeParent DEF Tree!LinkInv
<1> QED
  BY <1>1, <1>2, <1>4, <1>5 DEF Tree!Inductive

LEMMA TreeTypeStep ==
  ASSUME Tree!Inductive, NEW p \in Procs, Tree!Act(p)
  PROVE  Tree!TypeOK'
<1> USE DEF Tree!Inductive, Tree!TypeOK
<1>1. Tree!SyncTypeOK(Tree!Conds)'
  <2> USE DEF Tree!SyncTypeOK, Tree!Places, Tree!Goto
  <2>1. ASSUME NEW c \in Tree!Conds, Tree!StartWait(p, c) \/ Tree!StartSignal(p, c)
        PROVE  Tree!SyncTypeOK(Tree!Conds)'
    BY <2>1 DEF Tree!StartWait, Tree!StartSignal
  <2>2. CASE Tree!BeginWait(p) \/ Tree!Set(p)
    <3>1. Tree!Target(p, treePc[p]) \in Tree!Conds
      BY <2>2, TreeTargetType DEF Tree!BeginWait, Tree!Set, Tree!PlaceInv, Tree!Waits, Tree!Sets
    <3> QED
      BY <2>1, <2>2, <3>1, Zenon DEF Tree!BeginWait, Tree!Set
  <2>3. CASE Tree!WaitReturns(p)
    BY <2>3 DEF Tree!WaitReturns, Tree!CheckPass
  <2>4. CASE Tree!SignalReturns(p)
    BY <2>4 DEF Tree!SignalReturns, Tree!SignalUnlock, Tree!Release
  <2>5. CASE Tree!Condition(p)
    BY <2>5 DEF Tree!Condition, Tree!CheckFail, Tree!LockPass, Tree!LockFail, Tree!NoNext,
                Tree!SuspendSingle, Tree!SignalLock, Tree!WakeOne, Tree!Acquire, Tree!Release
  <2>6. CASE Tree!Enter(p) \/ Tree!Advance(p)
    BY <2>6 DEF Tree!Enter, Tree!Advance, Tree!syncVars
  <2> QED
    BY <2>2, <2>3, <2>4, <2>5, <2>6 DEF Tree!Act
<1>2. treePc' \in [Procs -> {"out", "advance"} \cup Tree!Waits \cup Tree!Sets]
  <2>1. CASE Tree!Enter(p) \/ Tree!WaitReturns(p) \/ Tree!SignalReturns(p)
    <3>1. Tree!Proceed(p) /\ treePc[p] # "advance"
      BY <2>1 DEF Tree!Enter, Tree!WaitReturns, Tree!SignalReturns, Tree!Waits, Tree!Sets
    <3>2. treePc' = [treePc EXCEPT ![p] = treePc'[p]]
          /\ treePc'[p] \in {"left", "right", "report", "top", "free1", "free2", "advance"}
      BY <3>1, TreeProceed
    <3> QED
      BY <3>2 DEF Tree!Waits, Tree!Sets
  <2>2. CASE Tree!Advance(p)
    BY <2>2 DEF Tree!Advance
  <2>3. CASE UNCHANGED treePc
    BY <2>3
  <2> QED
    BY <2>1, <2>2, <2>3 DEF Tree!Act, Tree!BeginWait, Tree!Set, Tree!Condition, Tree!localVars
<1>3. treeSems' \in [Tree!Conds -> 0..2]
  BY DEF Tree!Act, Tree!Enter, Tree!BeginWait, Tree!WaitReturns, Tree!Set, Tree!SignalReturns,
         Tree!Advance, Tree!Condition, Tree!localVars
<1>4. treePhase' \in [Procs -> 0..2] /\ treeEp' \in [Procs -> 0..MaxEpisodes]
  <2>1. CASE Tree!Advance(p)
    <3>1. treeEp[p] < MaxEpisodes
      BY <2>1 DEF Tree!Advance, Tree!PlaceInv
    <3> QED
      BY <2>1, <3>1, MaxEpisodesAssumption DEF Tree!Advance
  <2>2. CASE UNCHANGED <<treePhase, treeEp>>
    BY <2>2
  <2> QED
    BY <2>1, <2>2 DEF Tree!Act, Tree!Enter, Tree!BeginWait, Tree!WaitReturns, Tree!Set,
                      Tree!SignalReturns, Tree!Condition, Tree!localVars
<1> QED
  BY <1>1, <1>2, <1>3, <1>4

LEMMA TreePlaceStep ==
  ASSUME Tree!Inductive, NEW p \in Procs, Tree!Act(p)
  PROVE  Tree!PlaceInv'
<1> USE DEF Tree!Inductive, Tree!TypeOK, Tree!SyncTypeOK, Tree!PlaceInv, Tree!Places, Tree!Goto
<1>1. CASE Tree!Enter(p) \/ Tree!WaitReturns(p) \/ Tree!SignalReturns(p)
  <2>1. Tree!Proceed(p) /\ treePc[p] # "advance"
    BY <1>1 DEF Tree!Enter, Tree!WaitReturns, Tree!SignalReturns, Tree!Waits, Tree!Sets
  <2>2. /\ treePc' = [treePc EXCEPT ![p] = treePc'[p]]
        /\ Tree!Applies(p, treePc'[p])
    BY <2>1, TreeProceed
  <2>3. /\ treeAt' = [treeAt EXCEPT ![p] = "idle"]
        /\ treeEp' = treeEp /\ treeEp[p] < MaxEpisodes
        /\ treeOn' = treeOn /\ treeWaiters' = treeWaiters
        /\ treeAt[p] # "asleep"
    <3>1. CASE Tree!Enter(p)
      <4>1. treeAt[p] = "idle"
        BY <3>1 DEF Tree!Enter, Tree!Waits, Tree!Sets
      <4> QED
        BY <3>1, <4>1 DEF Tree!Enter, Tree!syncVars
    <3>2. CASE Tree!WaitReturns(p)
      BY <3>2 DEF Tree!WaitReturns, Tree!CheckPass, Tree!Waits
    <3>3. CASE Tree!SignalReturns(p)
      BY <3>3 DEF Tree!SignalReturns, Tree!SignalUnlock, Tree!Sets
    <3> QED
      BY <1>1, <3>1, <3>2, <3>3
  <2>4. ASSUME NEW q \in Procs, NEW place PROVE Tree!Applies(q, place)' = Tree!Applies(q, place)
    BY Zenon DEF Tree!Applies
  <2> QED
    BY <2>2, <2>3
<1>2. CASE Tree!BeginWait(p)
  BY <1>2, TreeTargetType
     DEF Tree!BeginWait, Tree!StartWait, Tree!localVars, Tree!Waits, Tree!Sets
<1>3. CASE Tree!Set(p)
  BY <1>3, TreeTargetType
     DEF Tree!Set, Tree!StartSignal, Tree!Waits, Tree!Sets
<1>4. CASE Tree!Advance(p)
  <2>1. treeAt[p] = "idle"
    BY <1>4 DEF Tree!Advance, Tree!Waits, Tree!Sets
  <2> QED
    BY <1>4, <2>1 DEF Tree!Advance, Tree!syncVars
<1>5. CASE Tree!Condition(p)
  <2>1. UNCHANGED <<treePc, treeEp>>
    BY <1>5 DEF Tree!Condition, Tree!localVars
  <2>2. CASE Tree!WakeOne(p)
    BY <2>1, <2>2 DEF Tree!WakeOne
  <2>3. CASE Tree!SuspendSingle(p)
    BY <2>1, <2>3 DEF Tree!SuspendSingle
  <2>4. CASE Tree!SignalLock(p)
    BY <2>1, <2>4 DEF Tree!SignalLock
  <2>5. ASSUME NEW holds, Tree!CheckFail(p, holds) \/ Tree!LockPass(p, holds)
                          \/ Tree!LockFail(p, holds) \/ Tree!NoNext(p)
        PROVE  Tree!PlaceInv'
    BY <2>1, <2>5 DEF Tree!CheckFail, Tree!LockPass, Tree!LockFail, Tree!NoNext
  <2> QED
    BY <1>5, <2>2, <2>3, <2>4, <2>5 DEF Tree!Condition
<1> QED
  BY <1>1, <1>2, <1>3, <1>4, <1>5 DEF Tree!Act

LEMMA Mod3 ==
  ASSUME NEW a \in Nat, NEW b \in {a, a + 1}, b % 3 = (a + 1) % 3
  PROVE  b = a + 1
  OBVIOUS

LEMMA TreeEpisodes == Tree!TypeOK => \A p \in Procs : treeEp[p] \in Nat
  BY MaxEpisodesAssumption DEF Tree!TypeOK

LEMMA TreeCounts ==
  ASSUME Tree!TypeOK, NEW c \in Tree!Children
  PROVE  /\ Tree!Reports(c) \in Nat /\ Tree!Reports(c) \in {treeEp[c], treeEp[c] + 1}
         /\ Tree!Frees(c) \in Nat
         /\ Tree!Frees(c) \in {treeEp[Tree!Parent(c)], treeEp[Tree!Parent(c)] + 1}
  BY TreeParent, MaxEpisodesAssumption DEF Tree!TypeOK, Tree!Reports, Tree!Frees

(* Nobody is told anything while p only waits. *)
LEMMA TreeQuietStep ==
  ASSUME Tree!Inductive, NEW p \in Procs, Tree!BeginWait(p) \/ Tree!Condition(p)
  PROVE  Tree!CountInv' /\ Tree!LinkInv'
<1> USE DEF Tree!Inductive, Tree!TypeOK
<1>1. UNCHANGED <<treePc, treeSems, treePhase, treeEp>>
  BY DEF Tree!BeginWait, Tree!Condition, Tree!localVars
<1>2. \A q \in Procs : treePc[q] \in Tree!Sets => (treeAt'[q] = "idle" <=> treeAt[q] = "idle")
  <2> USE DEF Tree!SyncTypeOK, Tree!Goto, Tree!Waits, Tree!Sets
  <2>1. CASE Tree!BeginWait(p)
    BY <2>1 DEF Tree!BeginWait, Tree!StartWait
  <2>2. CASE Tree!Condition(p)
    <3>1. CASE Tree!WakeOne(p)
      BY <3>1 DEF Tree!WakeOne, Tree!PlaceInv
    <3>2. CASE ~Tree!WakeOne(p)
      BY <2>2, <3>2 DEF Tree!Condition, Tree!CheckFail, Tree!LockPass, Tree!LockFail,
                        Tree!NoNext, Tree!SuspendSingle, Tree!SignalLock
    <3> QED
      BY <3>1, <3>2
  <2> QED
    BY <2>1, <2>2
<1>3. ASSUME NEW c \in Tree!Children
      PROVE  /\ Tree!Reported(c)' <=> Tree!Reported(c)
             /\ Tree!Freed(c)' <=> Tree!Freed(c)
             /\ Tree!Heard(c)' <=> Tree!Heard(c)
  BY <1>1, <1>2, TreeParent DEF Tree!Reported, Tree!Freed, Tree!Heard, Tree!Sets
<1>4. ASSUME NEW c \in Tree!Children
      PROVE  Tree!Reports(c)' = Tree!Reports(c) /\ Tree!Frees(c)' = Tree!Frees(c)
  BY <1>1, <1>3 DEF Tree!Reports, Tree!Frees
<1> QED
  BY <1>1, <1>3, <1>4 DEF Tree!CountInv, Tree!LinkInv

(* What p's other steps change for the links of p, as a child and as a parent. *)
LEMMA TreeElsewhere ==
  ASSUME Tree!Inductive, NEW p \in Procs, NEW c \in Tree!Children, p # c, p # Tree!Parent(c),
         Tree!Enter(p) \/ Tree!WaitReturns(p) \/ Tree!Set(p) \/ Tree!SignalReturns(p)
         \/ Tree!Advance(p)
  PROVE  /\ Tree!Reported(c)' <=> Tree!Reported(c)
         /\ Tree!Freed(c)' <=> Tree!Freed(c)
         /\ Tree!Heard(c)' <=> Tree!Heard(c)
         /\ Tree!Reports(c)' = Tree!Reports(c)
         /\ Tree!Frees(c)' = Tree!Frees(c)
         /\ treePc'[c] = treePc[c] /\ treeEp'[c] = treeEp[c]
         /\ treeEp'[Tree!Parent(c)] = treeEp[Tree!Parent(c)]
         /\ treeSems'[<<Tree!Parent(c), Tree!Side(c)>>] = treeSems[<<Tree!Parent(c), Tree!Side(c)>>]
         /\ treeSems'[<<c, "parent">>] = treeSems[<<c, "parent">>]
<1> USE DEF Tree!Inductive, Tree!TypeOK, Tree!SyncTypeOK
<1>1. c \in Procs /\ Tree!Parent(c) \in Procs
  BY TreeParent
<1>2. \A q \in {c, Tree!Parent(c)} :
        treePc'[q] = treePc[q] /\ treeEp'[q] = treeEp[q] /\ treeAt'[q] = treeAt[q]
  <2>1. CASE Tree!Enter(p) \/ Tree!WaitReturns(p) \/ Tree!SignalReturns(p)
    <3>1. Tree!Proceed(p) /\ treePc[p] # "advance"
      BY <2>1 DEF Tree!Enter, Tree!WaitReturns, Tree!SignalReturns, Tree!Waits, Tree!Sets
    <3>2. treePc' = [treePc EXCEPT ![p] = treePc'[p]]
      BY <3>1, TreeProceed
    <3>3. treeEp' = treeEp /\ \A q \in Procs : q # p => treeAt'[q] = treeAt[q]
      BY <2>1 DEF Tree!Enter, Tree!WaitReturns, Tree!CheckPass, Tree!SignalReturns,
                  Tree!SignalUnlock, Tree!Goto, Tree!syncVars
    <3> QED
      BY <1>1, <3>2, <3>3
  <2>2. CASE Tree!Set(p) \/ Tree!Advance(p)
    BY <1>1, <2>2 DEF Tree!Set, Tree!Advance, Tree!StartSignal, Tree!Goto, Tree!syncVars
  <2> QED
    BY <2>1, <2>2
<1>3. \A d \in {<<Tree!Parent(c), Tree!Side(c)>>, <<c, "parent">>} : treeSems'[d] = treeSems[d]
  <2>1. CASE Tree!Set(p)
    <3>1. treePc[p] \in {"report", "free1", "free2"} /\ Tree!Applies(p, treePc[p])
      BY <2>1 DEF Tree!Set, Tree!Sets, Tree!PlaceInv
    <3>2. Tree!Target(p, treePc[p]) # <<Tree!Parent(c), Tree!Side(c)>>
      <4>1. CASE treePc[p] = "report"
        <5>1. p \in Tree!Children
          BY <3>1, <4>1, TreeApplies DEF Tree!Children
        <5>2. ~(Tree!Parent(p) = Tree!Parent(c) /\ Tree!Side(p) = Tree!Side(c))
          BY <5>1, TreeOneChild
        <5>3. Tree!Target(p, "report") = <<Tree!Parent(p), Tree!Side(p)>>
          BY TreeTarget
        <5>4. Tree!Target(p, "report") # <<Tree!Parent(c), Tree!Side(c)>>
          BY <5>2, <5>3
        <5> QED
          BY <4>1, <5>4, Zenon
      <4>2. CASE treePc[p] \in {"free1", "free2"}
        <5>1. Tree!Target(p, treePc[p])
                \in {<<Tree!Left(p), "parent">>, <<Tree!Right(p), "parent">>}
          BY <4>2, TreeTarget
        <5>2. Tree!Side(c) # "parent"
          BY DEF Tree!Side
        <5> QED
          BY <5>1, <5>2
      <4> QED
        BY <3>1, <4>1, <4>2
    <3>3. Tree!Target(p, treePc[p]) # <<c, "parent">>
      <4>1. CASE treePc[p] = "report"
        <5>1. Tree!Side(p) # "parent"
          BY DEF Tree!Side
        <5> QED
          BY <4>1, <5>1, TreeTarget
      <4>2. CASE treePc[p] \in {"free1", "free2"}
        BY <3>1, <4>2, TreeTarget, TreeApplies, TreeChild
      <4> QED
        BY <3>1, <4>1, <4>2
    <3> QED
      BY <2>1, <3>2, <3>3 DEF Tree!Set
  <2>2. CASE ~Tree!Set(p)
    BY <2>2 DEF Tree!Enter, Tree!WaitReturns, Tree!SignalReturns, Tree!Advance
  <2> QED
    BY <2>1, <2>2
<1>4. /\ Tree!Reported(c)' <=> Tree!Reported(c)
      /\ Tree!Freed(c)' <=> Tree!Freed(c)
      /\ Tree!Heard(c)' <=> Tree!Heard(c)
  BY <1>2 DEF Tree!Reported, Tree!Freed, Tree!Heard
<1>5. Tree!Reports(c)' = Tree!Reports(c) /\ Tree!Frees(c)' = Tree!Frees(c)
  BY <1>2, <1>4 DEF Tree!Reports, Tree!Frees
<1> QED
  BY <1>2, <1>3, <1>4, <1>5

(* The link of p to its parent. *)
LEMMA TreeChildStep ==
  ASSUME Tree!Inductive, NEW p \in Tree!Children,
         Tree!Enter(p) \/ Tree!WaitReturns(p) \/ Tree!Set(p) \/ Tree!SignalReturns(p)
         \/ Tree!Advance(p)
  PROVE  /\ treeSems'[<<Tree!Parent(p), Tree!Side(p)>>] = Tree!Reports(p)' % 3
         /\ treeSems'[<<p, "parent">>] = Tree!Frees(p)' % 3
         /\ \/ Tree!Frees(p)' = treeEp'[p]
            \/ Tree!Frees(p)' = treeEp'[p] + 1 /\ Tree!Reported(p)'
         /\ treePc'[p] \in {"free1", "free2", "advance"} => Tree!Frees(p)' = treeEp'[p] + 1
         /\ Tree!Heard(p)' /\ ~Tree!Freed(p)' => Tree!Reports(p)' = treeEp'[Tree!Parent(p)] + 1
<1> DEFINE d == Tree!Parent(p)
           up == <<d, Tree!Side(p)>>
<1> USE DEF Tree!Inductive, Tree!TypeOK, Tree!SyncTypeOK
<1>1. p \in Procs /\ d \in Procs /\ d # p /\ p # 0 /\ p \in Nat
  BY TreeParent, TreeNodes
<1>2. /\ treePc'[d] = treePc[d] /\ treeEp'[d] = treeEp[d] /\ treeAt'[d] = treeAt[d]
      /\ treePc[p] # "advance" => treeEp'[p] = treeEp[p]
  <2>1. CASE Tree!Enter(p) \/ Tree!WaitReturns(p) \/ Tree!SignalReturns(p)
    <3>1. Tree!Proceed(p) /\ treePc[p] # "advance"
      BY <2>1 DEF Tree!Enter, Tree!WaitReturns, Tree!SignalReturns, Tree!Waits, Tree!Sets
    <3>2. treePc' = [treePc EXCEPT ![p] = treePc'[p]]
      BY <1>1, <3>1, TreeProceed
    <3>3. treeEp' = treeEp /\ treeAt'[d] = treeAt[d]
      BY <1>1, <2>1 DEF Tree!Enter, Tree!WaitReturns, Tree!CheckPass, Tree!SignalReturns,
                  Tree!SignalUnlock, Tree!Goto, Tree!syncVars
    <3> QED
      BY <1>1, <3>2, <3>3
  <2>2. CASE Tree!Set(p) \/ Tree!Advance(p)
    BY <1>1, <2>2 DEF Tree!Set, Tree!Advance, Tree!StartSignal, Tree!Goto, Tree!syncVars, Tree!Sets
  <2> QED
    BY <2>1, <2>2
<1>3. (Tree!Freed(p)' <=> Tree!Freed(p)) /\ (Tree!Heard(p)' <=> Tree!Heard(p))
  <2>1. treePc'[Tree!Parent(p)] = treePc[Tree!Parent(p)]
        /\ treeAt'[Tree!Parent(p)] = treeAt[Tree!Parent(p)]
    BY <1>2
  <2>2. Tree!Heard(p)' <=> Tree!Heard(p)
    BY <2>1, Zenon DEF Tree!Heard
  <2>3. Tree!Freed(p)' <=> Tree!Freed(p)
    BY <2>1, Zenon DEF Tree!Freed
  <2> QED
    BY <2>2, <2>3
<1>4. Tree!Frees(p)' = Tree!Frees(p)
  BY <1>2, <1>3 DEF Tree!Frees
<1>5. /\ Tree!Frees(p) \in Nat /\ Tree!Frees(p) \in {treeEp[d], treeEp[d] + 1}
      /\ Tree!Reports(p) \in {treeEp[p], treeEp[p] + 1}
      /\ treeEp[p] \in Nat /\ treeEp[d] \in Nat
  <2>1. treeEp[p] \in Nat /\ treeEp[d] \in Nat
    BY <1>1, TreeEpisodes
  <2> QED
    BY <2>1 DEF Tree!Frees, Tree!Reports
<1>6. /\ treeSems[up] = Tree!Reports(p) % 3
      /\ treeSems[<<p, "parent">>] = Tree!Frees(p) % 3
      /\ treePhase[p] = (treeEp[p] + 1) % 3
  BY <1>1 DEF Tree!CountInv
<1>7. /\ \/ Tree!Frees(p) = treeEp[p]
         \/ Tree!Frees(p) = treeEp[p] + 1 /\ Tree!Reported(p)
      /\ treePc[p] \in {"free1", "free2", "advance"} => Tree!Frees(p) = treeEp[p] + 1
      /\ Tree!Heard(p) /\ ~Tree!Freed(p) => Tree!Reports(p) = treeEp[d] + 1
  BY DEF Tree!LinkInv
<1>8. treePc[p] = "out" => treeAt[p] = "idle"
  BY <1>1 DEF Tree!PlaceInv, Tree!Places, Tree!Waits, Tree!Sets
<1>9. CASE Tree!Set(p) /\ treePc[p] = "report"
  <2>1. ~Tree!Reported(p) /\ Tree!Reported(p)' /\ treeEp'[p] = treeEp[p]
    BY <1>1, <1>9 DEF Tree!Set, Tree!StartSignal, Tree!Goto, Tree!Reported
  <2>2. Tree!Reports(p)' = treeEp[p] + 1 /\ Tree!Reports(p) = treeEp[p]
    BY <1>5, <2>1 DEF Tree!Reports
  <2>3. treeSems' = [treeSems EXCEPT ![up] = (treeEp[p] + 1) % 3]
    BY <1>1, <1>6, <1>9, TreeTarget DEF Tree!Set
  <2>4. up \in Tree!Conds /\ <<p, "parent">> \in Tree!Conds /\ up # <<p, "parent">>
    BY <1>1 DEF Tree!Conds, Tree!Sides, Tree!Side
  <2>5. Tree!Frees(p) = treeEp[p]
    BY <1>7, <2>1
  <2>6. treePc'[p] = "report"
    BY <1>9 DEF Tree!Set
  <2>7. ~(Tree!Heard(p) /\ ~Tree!Freed(p))
    <3>1. ~Tree!Freed(p) => Tree!Frees(p) = treeEp[d]
      BY <1>5 DEF Tree!Frees
    <3> QED
      BY <1>5, <1>7, <2>2, <2>5, <3>1
  <2> HIDE DEF up, d
  <2>8. treeSems'[up] = (treeEp[p] + 1) % 3 /\ treeSems'[<<p, "parent">>] = Tree!Frees(p) % 3
    BY <1>6, <2>3, <2>4
  <2> QED
    BY <1>3, <1>4, <2>1, <2>2, <2>5, <2>6, <2>7, <2>8 DEF up, d
<1>10. CASE Tree!Set(p) /\ treePc[p] \in {"free1", "free2"}
  <2>1. Tree!Reported(p) /\ Tree!Reported(p)' /\ treeEp'[p] = treeEp[p]
        /\ treePc'[p] = treePc[p]
    BY <1>10 DEF Tree!Set, Tree!Reported
  <2>2. Tree!Reports(p)' = Tree!Reports(p)
    BY <2>1 DEF Tree!Reports
  <2>3. treeSems'[up] = treeSems[up] /\ treeSems'[<<p, "parent">>] = treeSems[<<p, "parent">>]
    <3>1. Tree!Left(p) # p /\ Tree!Right(p) # p /\ Tree!Side(p) # "parent"
      BY <1>1 DEF Tree!Left, Tree!Right, Tree!Side
    <3>2. Tree!Target(p, treePc[p]) \in {<<Tree!Left(p), "parent">>, <<Tree!Right(p), "parent">>}
      BY <1>1, <1>10, TreeTarget
    <3>3. up \in Tree!Conds /\ <<p, "parent">> \in Tree!Conds
      BY <1>1 DEF Tree!Conds, Tree!Sides, Tree!Side
    <3> QED
      BY <1>10, <3>1, <3>2, <3>3 DEF Tree!Set
  <2> QED
    BY <1>2, <1>3, <1>4, <1>6, <1>7, <2>1, <2>2, <2>3
<1>11. CASE Tree!Enter(p) \/ Tree!WaitReturns(p) \/ Tree!SignalReturns(p)
  <2>1. Tree!Proceed(p) /\ treePc[p] # "advance" /\ UNCHANGED <<treeSems, treeEp>>
    BY <1>11 DEF Tree!Enter, Tree!WaitReturns, Tree!SignalReturns, Tree!Waits, Tree!Sets
  <2>2. /\ treePc[p] = "out" => treePc'[p] \in {"left", "report"}
        /\ treePc[p] \in {"left", "right"} => treePc'[p] \in {"right", "report"}
        /\ treePc[p] = "report" => treePc'[p] = "top"
        /\ treePc[p] \in {"top", "free1", "free2"} => treePc'[p] \in {"free1", "free2", "advance"}
    BY <1>1, <2>1, TreeProceed
  <2>3. treeAt'[p] = "idle"
        /\ (treePc[p] \in {"report", "free1", "free2"} => treeAt[p] # "idle")
    <3>1. CASE Tree!Enter(p)
      BY <1>8, <3>1 DEF Tree!Enter, Tree!syncVars
    <3>2. CASE Tree!WaitReturns(p)
      BY <1>1, <3>2 DEF Tree!WaitReturns, Tree!CheckPass, Tree!Goto, Tree!Waits
    <3>3. CASE Tree!SignalReturns(p)
      BY <1>1, <3>3 DEF Tree!SignalReturns, Tree!SignalUnlock, Tree!Goto
    <3> QED
      BY <1>11, <3>1, <3>2, <3>3
  <2>4. treePc[p] \in {"out"} \cup Tree!Waits \cup Tree!Sets
    BY <1>1, <2>1
  <2>5. Tree!Reported(p)' <=> Tree!Reported(p)
    BY <2>2, <2>3, <2>4 DEF Tree!Reported, Tree!Waits, Tree!Sets
  <2>6. Tree!Reports(p)' = Tree!Reports(p)
    BY <2>1, <2>5 DEF Tree!Reports
  <2>7. treePc'[p] \in {"free1", "free2", "advance"} => Tree!Frees(p) = treeEp[p] + 1
    <3>1. CASE treePc[p] = "top"
      <4>1. treeOn[p] = <<p, "parent">> /\ treeSems[treeOn[p]] = treePhase[p]
        <5>1. Tree!WaitReturns(p)
          BY <1>11, <3>1 DEF Tree!Enter, Tree!SignalReturns, Tree!Sets
        <5>2. treeAt[p] # "idle"
          BY <5>1 DEF Tree!WaitReturns, Tree!CheckPass, Tree!Goto
        <5>3. treeOn[p] = Tree!Target(p, "top")
          BY <1>1, <3>1, <5>2 DEF Tree!PlaceInv
        <5> QED
          BY <1>1, <5>1, <5>3, TreeTarget DEF Tree!WaitReturns, Tree!CheckPass, Tree!Holds
      <4>2. Tree!Frees(p) % 3 = (treeEp[p] + 1) % 3
        BY <1>6, <4>1
      <4> QED
        BY <1>5, <1>7, <4>2, Mod3
    <3>2. CASE treePc[p] # "top"
      BY <1>7, <2>2, <2>4, <3>2 DEF Tree!Waits, Tree!Sets
    <3> QED
      BY <3>1, <3>2
  <2> QED
    BY <1>2, <1>3, <1>4, <1>6, <1>7, <2>1, <2>5, <2>6, <2>7
<1>12. CASE Tree!Advance(p)
  <2>1. /\ treePc[p] = "advance" /\ treePc'[p] = "out" /\ treeEp'[p] = treeEp[p] + 1
        /\ treeAt' = treeAt /\ treeSems' = treeSems
    BY <1>1, <1>12 DEF Tree!Advance, Tree!syncVars
  <2>2. Tree!Reported(p) /\ ~Tree!Reported(p)'
    BY <2>1 DEF Tree!Reported
  <2>3. Tree!Reports(p)' = Tree!Reports(p)
    BY <1>5, <2>1, <2>2 DEF Tree!Reports
  <2> QED
    BY <1>2, <1>3, <1>4, <1>6, <1>7, <2>1, <2>2, <2>3
<1>13. Tree!Set(p) => treePc[p] \in {"report", "free1", "free2"}
  BY DEF Tree!Set, Tree!Sets
<1> QED
  BY <1>9, <1>10, <1>11, <1>12, <1>13

(* The link of p to one of its children. *)
LEMMA TreeParentStep ==
  ASSUME Tree!Inductive, NEW c \in Tree!Children, NEW p \in Procs, p = Tree!Parent(c),
         Tree!Enter(p) \/ Tree!WaitReturns(p) \/ Tree!Set(p) \/ Tree!SignalReturns(p)
         \/ Tree!Advance(p)
  PROVE  /\ treeSems'[<<p, Tree!Side(c)>>] = Tree!Reports(c)' % 3
         /\ treeSems'[<<c, "parent">>] = Tree!Frees(c)' % 3
         /\ \/ Tree!Frees(c)' = treeEp'[c]
            \/ Tree!Frees(c)' = treeEp'[c] + 1 /\ Tree!Reported(c)'
         /\ treePc'[c] \in {"free1", "free2", "advance"} => Tree!Frees(c)' = treeEp'[c] + 1
         /\ Tree!Heard(c)' /\ ~Tree!Freed(c)' => Tree!Reports(c)' = treeEp'[p] + 1
<1> DEFINE place == IF Tree!Side(c) = "left" THEN "free1" ELSE "free2"
           freedAt(at_, pc_) == \/ pc_ = "advance"
                                \/ place = "free1" /\ pc_ = "free2"
                                \/ pc_ = place /\ at_ # "idle"
           heardAt(pc_) == \/ pc_ \in {"report", "top", "free1", "free2", "advance"}
                           \/ Tree!Side(c) = "left" /\ pc_ = "right"
<1> USE DEF Tree!Inductive, Tree!TypeOK, Tree!SyncTypeOK
<1>1. /\ c \in Procs /\ c # p /\ Tree!Left(p) < N
      /\ \/ Tree!Side(c) = "left" /\ c = Tree!Left(p)
         \/ Tree!Side(c) = "right" /\ c = Tree!Right(p) /\ Tree!Right(p) < N
  <2>1. c \in Procs /\ c # p /\ c < N
    BY TreeParent, TreeNodes
  <2>2. \/ Tree!Side(c) = "left" /\ c = Tree!Left(p)
        \/ Tree!Side(c) = "right" /\ c = Tree!Right(p)
    BY TreeParent
  <2> QED
    BY <2>1, <2>2, TreeChild
<1>2. /\ treePc'[c] = treePc[c] /\ treeEp'[c] = treeEp[c] /\ treeAt'[c] = treeAt[c]
      /\ treePc[p] # "advance" => treeEp'[p] = treeEp[p]
  <2>1. CASE Tree!Enter(p) \/ Tree!WaitReturns(p) \/ Tree!SignalReturns(p)
    <3>1. Tree!Proceed(p) /\ treePc[p] # "advance"
      BY <2>1 DEF Tree!Enter, Tree!WaitReturns, Tree!SignalReturns, Tree!Waits, Tree!Sets
    <3>2. treePc' = [treePc EXCEPT ![p] = treePc'[p]]
      BY <1>1, <3>1, TreeProceed
    <3>3. treeEp' = treeEp /\ treeAt'[c] = treeAt[c]
      BY <1>1, <2>1 DEF Tree!Enter, Tree!WaitReturns, Tree!CheckPass, Tree!SignalReturns,
                  Tree!SignalUnlock, Tree!Goto, Tree!syncVars
    <3> QED
      BY <1>1, <3>2, <3>3
  <2>2. CASE Tree!Set(p) \/ Tree!Advance(p)
    BY <1>1, <2>2 DEF Tree!Set, Tree!Advance, Tree!StartSignal, Tree!Goto, Tree!syncVars, Tree!Sets
  <2> QED
    BY <2>1, <2>2
<1>3. /\ Tree!Reported(c)' <=> Tree!Reported(c)
      /\ Tree!Reports(c)' = Tree!Reports(c)
  <2>1. Tree!Reported(c)' <=> Tree!Reported(c)
    BY <1>2, Zenon DEF Tree!Reported
  <2> QED
    BY <1>2, <2>1 DEF Tree!Reports
<1>4. /\ Tree!Freed(c) <=> freedAt(treeAt[p], treePc[p])
      /\ Tree!Freed(c)' <=> freedAt(treeAt'[p], treePc'[p])
      /\ Tree!Heard(c) <=> heardAt(treePc[p])
      /\ Tree!Heard(c)' <=> heardAt(treePc'[p])
  BY Zenon DEF Tree!Freed, Tree!Heard
<1>5. /\ treeEp[p] \in Nat /\ treeEp[c] \in Nat
      /\ Tree!Frees(c) = treeEp[p] + (IF Tree!Freed(c) THEN 1 ELSE 0)
      /\ Tree!Frees(c)' = treeEp'[p] + (IF Tree!Freed(c)' THEN 1 ELSE 0)
      /\ Tree!Reports(c) = treeEp[c] + (IF Tree!Reported(c) THEN 1 ELSE 0)
  BY <1>1, TreeEpisodes DEF Tree!Frees, Tree!Reports
<1>6. /\ treeSems[<<p, Tree!Side(c)>>] = Tree!Reports(c) % 3
      /\ treeSems[<<c, "parent">>] = Tree!Frees(c) % 3
      /\ treePhase[p] = (treeEp[p] + 1) % 3
  BY <1>1 DEF Tree!CountInv
<1>7. /\ \/ Tree!Frees(c) = treeEp[c]
         \/ Tree!Frees(c) = treeEp[c] + 1 /\ Tree!Reported(c)
      /\ treePc[c] \in {"free1", "free2", "advance"} => Tree!Frees(c) = treeEp[c] + 1
      /\ Tree!Heard(c) /\ ~Tree!Freed(c) => Tree!Reports(c) = treeEp[p] + 1
  BY DEF Tree!LinkInv
<1>8. treePc[p] = "out" => treeAt[p] = "idle"
  BY DEF Tree!PlaceInv, Tree!Places, Tree!Waits, Tree!Sets
<1>9. CASE Tree!Set(p) /\ treePc[p] = place
  <2>1. ~Tree!Freed(c) /\ Tree!Freed(c)' /\ Tree!Heard(c) /\ treeEp'[p] = treeEp[p]
    BY <1>1, <1>4, <1>9 DEF Tree!Set, Tree!StartSignal, Tree!Goto
  <2>2. Tree!Frees(c)' = treeEp[p] + 1 /\ Tree!Frees(c) = treeEp[p]
    BY <1>5, <2>1
  <2>3. Tree!Target(p, place) = <<c, "parent">>
    BY <1>1, TreeTarget
  <2>4. /\ <<p, Tree!Side(c)>> \in Tree!Conds /\ <<c, "parent">> \in Tree!Conds
        /\ <<p, Tree!Side(c)>> # <<c, "parent">>
    BY <1>1 DEF Tree!Conds, Tree!Sides, Tree!Side
  <2>5. treeSems' = [treeSems EXCEPT ![<<c, "parent">>] = (treeEp[p] + 1) % 3]
    BY <1>6, <1>9, <2>3 DEF Tree!Set
  <2>6. treeSems'[<<c, "parent">>] = (treeEp[p] + 1) % 3
        /\ treeSems'[<<p, Tree!Side(c)>>] = Tree!Reports(c) % 3
    BY <1>6, <2>4, <2>5
  <2>7. treeEp[p] = treeEp[c] /\ Tree!Reported(c) /\ treePc[c] \notin {"free1", "free2", "advance"}
    BY <1>5, <1>7, <2>1, <2>2
  <2> QED
    BY <1>2, <1>3, <2>1, <2>2, <2>6, <2>7
<1>10. CASE Tree!Set(p) /\ treePc[p] # place
  <2>1. treePc'[p] = treePc[p] /\ treeEp'[p] = treeEp[p]
        /\ (treePc[p] = "report" \/ treePc[p] = "free1" \/ treePc[p] = "free2")
    BY <1>10 DEF Tree!Set, Tree!Sets
  <2>2. (Tree!Freed(c)' <=> Tree!Freed(c)) /\ (Tree!Heard(c)' <=> Tree!Heard(c))
    BY <1>4, <1>10, <2>1
  <2>3. Tree!Frees(c)' = Tree!Frees(c)
    BY <1>5, <2>1, <2>2
  <2>4. treeSems'[<<p, Tree!Side(c)>>] = treeSems[<<p, Tree!Side(c)>>]
        /\ treeSems'[<<c, "parent">>] = treeSems[<<c, "parent">>]
    <3>1. Tree!Target(p, treePc[p]) \in {<<Tree!Parent(p), Tree!Side(p)>>,
                                         <<Tree!Left(p), "parent">>, <<Tree!Right(p), "parent">>}
      BY <2>1, TreeTarget
    <3>2. Tree!Target(p, treePc[p]) # <<c, "parent">>
      <4>1. Tree!Side(p) # "parent" /\ Tree!Left(p) # Tree!Right(p)
        BY TreeNodes DEF Tree!Side, Tree!Left, Tree!Right
      <4>2. treePc[p] = "report" => Tree!Target(p, treePc[p]) = <<Tree!Parent(p), Tree!Side(p)>>
        BY TreeTarget
      <4>3. treePc[p] = "free1" => /\ Tree!Target(p, treePc[p]) = <<Tree!Left(p), "parent">>
                                   /\ c # Tree!Left(p)
        <5>1. treePc[p] = "free1" => Tree!Target(p, treePc[p]) = <<Tree!Left(p), "parent">>
          BY TreeTarget
        <5>2. treePc[p] = "free1" => c # Tree!Left(p)
          BY <1>1, <1>10, <4>1
        <5> QED
          BY <5>1, <5>2
      <4>4. treePc[p] = "free2" => /\ Tree!Target(p, treePc[p]) = <<Tree!Right(p), "parent">>
                                   /\ c # Tree!Right(p)
        <5>1. treePc[p] = "free2" => Tree!Target(p, treePc[p]) = <<Tree!Right(p), "parent">>
          BY TreeTarget
        <5>2. treePc[p] = "free2" => c # Tree!Right(p)
          BY <1>1, <1>10, <4>1
        <5> QED
          BY <5>1, <5>2
      <4> QED
        BY <2>1, <4>1, <4>2, <4>3, <4>4
    <3>3. Tree!Target(p, treePc[p]) # <<p, Tree!Side(c)>>
      <4>1. treePc[p] = "report" => Tree!Parent(p) # p
        <5>1. treePc[p] = "report" => p # 0
          BY TreeApplies DEF Tree!PlaceInv
        <5> QED
          BY <5>1, TreeNodes DEF Tree!Parent
      <4>2. Tree!Side(c) # "parent"
        BY DEF Tree!Side
      <4>3. treePc[p] = "report" => Tree!Target(p, treePc[p]) = <<Tree!Parent(p), Tree!Side(p)>>
        BY TreeTarget
      <4>4. treePc[p] \in {"free1", "free2"} =>
              Tree!Target(p, treePc[p]) \in {<<Tree!Left(p), "parent">>, <<Tree!Right(p), "parent">>}
        BY TreeTarget
      <4> QED
        BY <2>1, <4>1, <4>2, <4>3, <4>4
    <3>4. <<p, Tree!Side(c)>> \in Tree!Conds /\ <<c, "parent">> \in Tree!Conds
      BY <1>1 DEF Tree!Conds, Tree!Sides, Tree!Side
    <3> QED
      BY <1>10, <3>2, <3>3, <3>4 DEF Tree!Set
  <2> QED
    BY <1>2, <1>3, <1>6, <1>7, <2>1, <2>2, <2>3, <2>4
<1>11. CASE Tree!Enter(p) \/ Tree!WaitReturns(p) \/ Tree!SignalReturns(p)
  <2>1. Tree!Proceed(p) /\ treePc[p] # "advance" /\ UNCHANGED <<treeSems, treeEp>>
    BY <1>11 DEF Tree!Enter, Tree!WaitReturns, Tree!SignalReturns, Tree!Waits, Tree!Sets
  <2>2. /\ treePc[p] = "out" => treePc'[p] = "left"
        /\ treePc[p] = "left" => treePc'[p] \in {"right", "report", "free1"}
        /\ treePc[p] = "left" /\ Tree!Side(c) = "right" => treePc'[p] = "right"
        /\ treePc[p] = "right" => treePc'[p] \in {"report", "free1"}
        /\ treePc[p] = "report" => treePc'[p] = "top"
        /\ treePc[p] = "top" => treePc'[p] = "free1"
        /\ treePc[p] = "free1" => treePc'[p] \in {"free2", "advance"}
        /\ treePc[p] = "free1" /\ Tree!Side(c) = "right" => treePc'[p] = "free2"
        /\ treePc[p] = "free2" => treePc'[p] = "advance"
    BY <1>1, <2>1, TreeProceed
  <2>3. treeAt'[p] = "idle"
        /\ (treePc[p] \in {"report", "free1", "free2"} => treeAt[p] # "idle")
    <3>1. CASE Tree!Enter(p)
      BY <1>8, <3>1 DEF Tree!Enter, Tree!syncVars
    <3>2. CASE Tree!WaitReturns(p)
      BY <3>2 DEF Tree!WaitReturns, Tree!CheckPass, Tree!Goto, Tree!Waits
    <3>3. CASE Tree!SignalReturns(p)
      BY <3>3 DEF Tree!SignalReturns, Tree!SignalUnlock, Tree!Goto
    <3> QED
      BY <1>11, <3>1, <3>2, <3>3
  <2>4. treePc[p] \in {"out", "left", "right", "report", "top", "free1", "free2"}
    BY <2>1 DEF Tree!Waits, Tree!Sets
  <2>5. Tree!Freed(c)' <=> Tree!Freed(c)
    BY <1>1, <1>4, <2>2, <2>3, <2>4
  <2>6. Tree!Frees(c)' = Tree!Frees(c)
    BY <1>5, <2>1, <2>5
  <2>7. Tree!Heard(c)' /\ ~Tree!Freed(c)' => Tree!Reports(c) = treeEp[p] + 1
    <3>1. CASE treePc[p] = Tree!Side(c)
      <4>1. treeSems[<<p, Tree!Side(c)>>] = treePhase[p]
        <5>1. Tree!WaitReturns(p)
          BY <1>1, <1>11, <3>1 DEF Tree!Enter, Tree!SignalReturns, Tree!Sets
        <5>2. treeAt[p] # "idle"
          BY <5>1 DEF Tree!WaitReturns, Tree!CheckPass, Tree!Goto
        <5>3. treeOn[p] = Tree!Target(p, treePc[p])
          BY <5>2 DEF Tree!PlaceInv
        <5>4. Tree!Target(p, treePc[p]) = <<p, Tree!Side(c)>>
          BY <1>1, <3>1, TreeTarget
        <5>5. treeSems[treeOn[p]] = treePhase[p]
          BY <5>1 DEF Tree!WaitReturns, Tree!CheckPass, Tree!Holds
        <5> QED
          BY <5>3, <5>4, <5>5, Zenon
      <4>2. Tree!Reports(c) % 3 = (treeEp[p] + 1) % 3
        BY <1>6, <4>1
      <4>3. Tree!Frees(c) = treeEp[p]
        BY <1>1, <1>4, <1>5, <3>1
      <4>4. Tree!Reports(c) \in {treeEp[p], treeEp[p] + 1}
        BY <1>5, <1>7, <4>3
      <4> QED
        BY <1>5, <4>2, <4>4, Mod3
    <3>2. CASE treePc[p] # Tree!Side(c)
      <4>1. Tree!Heard(c)' /\ ~Tree!Freed(c)' => Tree!Heard(c) /\ ~Tree!Freed(c)
        BY <1>1, <1>4, <2>2, <2>4, <2>5, <3>2
      <4> QED
        BY <1>7, <4>1
    <3> QED
      BY <3>1, <3>2
  <2> QED
    BY <1>2, <1>3, <1>6, <1>7, <2>1, <2>6, <2>7
<1>12. CASE Tree!Advance(p)
  <2>1. /\ treePc[p] = "advance" /\ treePc'[p] = "out" /\ treeEp'[p] = treeEp[p] + 1
        /\ treeSems' = treeSems
    BY <1>1, <1>12 DEF Tree!Advance, Tree!syncVars
  <2>2. Tree!Freed(c) /\ ~Tree!Freed(c)' /\ ~Tree!Heard(c)'
    BY <1>4, <2>1
  <2>3. Tree!Frees(c)' = Tree!Frees(c)
    BY <1>5, <2>1, <2>2
  <2> QED
    BY <1>2, <1>3, <1>6, <1>7, <2>1, <2>2, <2>3
<1> QED
  BY <1>9, <1>10, <1>11, <1>12

LEMMA TreeInductive == Tree!Spec => []Tree!Inductive
<1>1. Tree!Inductive /\ [Tree!Next]_(Tree!vars) => Tree!Inductive'
  <2> SUFFICES ASSUME Tree!Inductive, [Tree!Next]_(Tree!vars) PROVE Tree!Inductive'
    OBVIOUS
  <2>1. ASSUME NEW p \in Procs, Tree!Act(p) PROVE Tree!CountInv' /\ Tree!LinkInv'
    <3>1. CASE Tree!BeginWait(p) \/ Tree!Condition(p)
      BY <3>1, TreeQuietStep
    <3>2. CASE ~(Tree!BeginWait(p) \/ Tree!Condition(p))
      <4>1. Tree!Enter(p) \/ Tree!WaitReturns(p) \/ Tree!Set(p) \/ Tree!SignalReturns(p)
            \/ Tree!Advance(p)
        BY <2>1, <3>2 DEF Tree!Act
      <4>2. ASSUME NEW q \in Procs PROVE treePhase'[q] = (treeEp'[q] + 1) % 3
        <5> USE DEF Tree!Inductive, Tree!TypeOK, Tree!CountInv
        <5>1. CASE Tree!Advance(p)
          <6>1. treeEp[p] \in Nat
            BY TreeEpisodes
          <6> QED
            BY <5>1, <6>1 DEF Tree!Advance
        <5>2. CASE UNCHANGED <<treePhase, treeEp>>
          BY <5>2
        <5> QED
          BY <4>1, <5>1, <5>2
             DEF Tree!Enter, Tree!WaitReturns, Tree!Set, Tree!SignalReturns
      <4>3. ASSUME NEW c \in Tree!Children
            PROVE  /\ treeSems'[<<Tree!Parent(c), Tree!Side(c)>>] = Tree!Reports(c)' % 3
                   /\ treeSems'[<<c, "parent">>] = Tree!Frees(c)' % 3
                   /\ \/ Tree!Frees(c)' = treeEp'[c]
                      \/ Tree!Frees(c)' = treeEp'[c] + 1 /\ Tree!Reported(c)'
                   /\ treePc'[c] \in {"free1", "free2", "advance"}
                        => Tree!Frees(c)' = treeEp'[c] + 1
                   /\ Tree!Heard(c)' /\ ~Tree!Freed(c)'
                        => Tree!Reports(c)' = treeEp'[Tree!Parent(c)] + 1
        <5>1. CASE c = p
          BY <4>1, <5>1, TreeChildStep
        <5>2. CASE p = Tree!Parent(c)
          BY <4>1, <5>2, TreeParentStep
        <5>3. CASE p # c /\ p # Tree!Parent(c)
          BY <4>1, <5>3, TreeElsewhere DEF Tree!Inductive, Tree!CountInv, Tree!LinkInv
        <5> QED
          BY <5>1, <5>2, <5>3
      <4> QED
        BY <4>2, <4>3 DEF Tree!CountInv, Tree!LinkInv
    <3> QED
      BY <3>1, <3>2
  <2>2. ASSUME NEW p \in Procs, Tree!Act(p) PROVE Tree!Inductive'
    BY <2>1, <2>2, TreeTypeStep, TreePlaceStep DEF Tree!Inductive
  <2>3. CASE UNCHANGED Tree!vars
    BY <2>3 DEF Tree!vars, Tree!syncVars, Tree!Inductive, Tree!TypeOK, Tree!SyncTypeOK,
                Tree!PlaceInv, Tree!CountInv, Tree!LinkInv, Tree!Reported, Tree!Reports,
                Tree!Freed, Tree!Frees, Tree!Heard
  <2> QED
    BY <2>2, <2>3 DEF Tree!Next
<1> QED
  BY TreeInit, <1>1, PTL DEF Tree!Spec

-----------------------------------------------------------------------------
(* The tree implements the abstract barrier. *)

(* The episode up to which everyone below p has reported, and up to which p is released. *)
Arrived(p) ==
    treeEp[p] + (IF treePc[p] \in {"report", "top", "free1", "free2", "advance"} THEN 1 ELSE 0)
Released(p) == treeEp[p] + (IF treePc[p] \in {"free1", "free2", "advance"} THEN 1 ELSE 0)

(* Nobody has reported before those below, and nobody is released before those above. *)
LEMMA TreeLevels ==
  ASSUME Tree!Inductive, NEW c \in Tree!Children
  PROVE  Arrived(Tree!Parent(c)) <= Arrived(c) /\ Released(c) <= Released(Tree!Parent(c))
<1> DEFINE d == Tree!Parent(c)
<1>1. c \in Procs /\ d \in Procs
  BY TreeParent
<1>2. treeEp[c] \in Nat /\ treeEp[d] \in Nat
  BY <1>1, TreeEpisodes DEF Tree!Inductive
<1>3. /\ \/ Tree!Frees(c) = treeEp[c]
         \/ Tree!Frees(c) = treeEp[c] + 1 /\ Tree!Reported(c)
      /\ treePc[c] \in {"free1", "free2", "advance"} => Tree!Frees(c) = treeEp[c] + 1
      /\ Tree!Heard(c) /\ ~Tree!Freed(c) => Tree!Reports(c) = treeEp[d] + 1
  BY DEF Tree!Inductive, Tree!LinkInv
<1>4. /\ Tree!Frees(c) = treeEp[d] + (IF Tree!Freed(c) THEN 1 ELSE 0)
      /\ Tree!Reports(c) = treeEp[c] + (IF Tree!Reported(c) THEN 1 ELSE 0)
  BY DEF Tree!Frees, Tree!Reports
<1>5. /\ Tree!Freed(c) => treePc[d] \in {"free1", "free2", "advance"}
      /\ treePc[d] \in {"report", "top", "free1", "free2", "advance"} => Tree!Heard(c)
  BY DEF Tree!Freed, Tree!Heard
<1>6. Tree!Reported(c) => treePc[c] \in {"report", "top", "free1", "free2", "advance"}
  BY DEF Tree!Reported
<1>7. Released(c) <= Released(d)
  BY <1>2, <1>3, <1>4, <1>5 DEF Released
<1>8. Arrived(d) <= Arrived(c)
  BY <1>2, <1>3, <1>4, <1>5, <1>6 DEF Arrived
<1> QED
  BY <1>7, <1>8

(* So the root is behind everyone's arrival and ahead of everyone's release. *)
LEMMA TreeRoot ==
  ASSUME Tree!Inductive
  PROVE  \A p \in Procs : Arrived(0) <= Arrived(p) /\ Released(p) <= Released(0)
<1> DEFINE Bad == {p \in Procs : ~(Arrived(0) <= Arrived(p) /\ Released(p) <= Released(0))}
<1>1. \A p \in Procs : Arrived(p) \in Nat /\ Released(p) \in Nat
  BY TreeEpisodes DEF Arrived, Released, Tree!Inductive
<1>2. Bad \in SUBSET Nat
  BY TreeNodes
<1>3. ASSUME Bad # {} PROVE FALSE
  <2>1. PICK p \in Bad : \A q \in Bad : p <= q
    BY <1>2, <1>3, Least
  <2>2. p \in Procs /\ 0 \in Procs /\ ~(Arrived(0) <= Arrived(p) /\ Released(p) <= Released(0))
    BY TreeNodes
  <2> HIDE DEF Bad
  <2>3. p # 0
    BY <1>1, <2>2
  <2>4. p \in Tree!Children
    BY <2>2, <2>3 DEF Tree!Children
  <2>5. Tree!Parent(p) \in Procs /\ Tree!Parent(p) < p
    BY <2>4, TreeParent
  <2>6. Tree!Parent(p) \notin Bad
    BY <2>1, <2>2, <2>5, TreeNodes
  <2>7. Arrived(0) <= Arrived(Tree!Parent(p)) /\ Released(Tree!Parent(p)) <= Released(0)
    BY <2>5, <2>6 DEF Bad
  <2>8. Arrived(Tree!Parent(p)) <= Arrived(p) /\ Released(p) <= Released(Tree!Parent(p))
    BY <2>4, TreeLevels
  <2> QED
    BY <1>1, <2>2, <2>5, <2>7, <2>8
<1> QED
  BY <1>3

(* The tree implements the abstract barrier, though its conditions only count modulo three:
   entering the call is a Reach, leaving it a Return, the rest stutters. *)
THEOREM TreeRefinement == Tree!Spec => Tree!ImplementsBarrier
<1>1. Tree!Init => Tree!Abstract!Init
  BY DEF Tree!Init, Tree!Abstract!Init, Tree!reached
<1>2. Tree!Inductive /\ [Tree!Next]_(Tree!vars) => [Tree!Abstract!Next]_(Tree!Abstract!barrierVars)
  <2> SUFFICES ASSUME Tree!Inductive, [Tree!Next]_(Tree!vars), ~UNCHANGED <<Tree!reached, treeEp>>
               PROVE  Tree!Abstract!Next
    BY DEF Tree!Abstract!barrierVars
  <2> USE DEF Tree!Inductive, Tree!TypeOK
  <2>1. PICK p \in Procs : Tree!Act(p)
    BY DEF Tree!Next, Tree!vars, Tree!reached
  <2>2. \A q \in Procs : treeEp[q] \in Nat
    BY TreeEpisodes
  <2>3. CASE Tree!Enter(p)
    <3>1. treePc' = [treePc EXCEPT ![p] = treePc'[p]] /\ treePc'[p] # "out"
      BY <2>3, TreeProceed DEF Tree!Enter
    <3>2. treeEp' = treeEp /\ treePc[p] = "out"
      BY <2>3 DEF Tree!Enter
    <3>3. Tree!reached[p] = treeEp[p]
      BY <2>2, <3>2 DEF Tree!reached
    <3>4. Tree!reached' = [Tree!reached EXCEPT ![p] = treeEp[p] + 1]
      BY <2>2, <3>1, <3>2 DEF Tree!reached
    <3> QED
      BY <3>2, <3>3, <3>4 DEF Tree!Abstract!Next, Tree!Abstract!Reach
  <2>4. CASE Tree!Advance(p)
    <3>1. /\ treePc[p] = "advance" /\ treePc' = [treePc EXCEPT ![p] = "out"]
          /\ treeEp' = [treeEp EXCEPT ![p] = @ + 1]
      BY <2>4 DEF Tree!Advance
    <3>2. Tree!reached[p] = treeEp[p] + 1
      BY <3>1 DEF Tree!reached
    <3>3. Tree!reached' = Tree!reached
      BY <2>2, <3>1 DEF Tree!reached
    <3>4. ASSUME NEW q \in Procs PROVE Tree!reached[q] >= treeEp[p] + 1
      <4>1. 0 \in Procs
        BY TreeNodes
      <4>2. Arrived(0) <= Arrived(q) /\ Released(p) <= Released(0)
        BY TreeRoot
      <4>3. Released(p) = treeEp[p] + 1
        BY <3>1 DEF Released
      <4>4. Released(0) <= Arrived(0) /\ Arrived(q) <= Tree!reached[q]
        BY <2>2, <4>1 DEF Released, Arrived, Tree!reached
      <4>5. /\ Released(0) \in Nat /\ Arrived(0) \in Nat /\ Arrived(q) \in Nat
            /\ Tree!reached[q] \in Nat
        BY <2>2, <4>1 DEF Released, Arrived, Tree!reached
      <4> QED
        BY <2>2, <4>2, <4>3, <4>4, <4>5
    <3>5. treeEp[p] < Tree!reached[p] /\ \A q \in Procs : Tree!reached[q] >= Tree!reached[p]
      BY <2>2, <3>2, <3>4
    <3> QED
      BY <3>1, <3>3, <3>5, Zenon DEF Tree!Abstract!Next, Tree!Abstract!Return
  <2>5. CASE Tree!WaitReturns(p) \/ Tree!SignalReturns(p)
    <3>1. Tree!Proceed(p) /\ treePc[p] \notin {"out", "advance"} /\ treeEp' = treeEp
      BY <2>5 DEF Tree!WaitReturns, Tree!SignalReturns, Tree!Waits, Tree!Sets
    <3>2. treePc' = [treePc EXCEPT ![p] = treePc'[p]] /\ treePc'[p] # "out"
      BY <3>1, TreeProceed
    <3>3. Tree!reached' = Tree!reached
      BY <3>1, <3>2 DEF Tree!reached
    <3> QED
      BY <3>1, <3>3
  <2>6. CASE Tree!BeginWait(p) \/ Tree!Set(p) \/ Tree!Condition(p)
    BY <2>6 DEF Tree!BeginWait, Tree!Set, Tree!Condition, Tree!localVars, Tree!reached
  <2> QED
    BY <2>1, <2>3, <2>4, <2>5, <2>6 DEF Tree!Act
<1> QED
  BY <1>1, <1>2, TreeInductive, PTL
     DEF Tree!Spec, Tree!ImplementsBarrier, Tree!Abstract!Spec

-----------------------------------------------------------------------------
(* A step of a team is one of the barrier it runs; the other two do not stir. *)
LEMMA PluginsRun == PluginSpec => Spec /\ Old!Spec /\ Tree!Spec
<1>1. PluginInit => Init /\ Old!Init /\ Tree!Init
  BY DEF PluginInit
<1>2. [PluginNext]_allVars => [Next]_vars /\ [Old!Next]_(Old!vars) /\ [Tree!Next]_(Tree!vars)
  <2> SUFFICES ASSUME [PluginNext]_allVars
               PROVE  [Next]_vars /\ [Old!Next]_(Old!vars) /\ [Tree!Next]_(Tree!vars)
    OBVIOUS
  <2>1. UNCHANGED oldVars => UNCHANGED Old!vars
    BY DEF oldVars, Old!vars, Old!syncVars
  <2>2. UNCHANGED treeVars => UNCHANGED Tree!vars
    BY DEF treeVars, treeLocals, Tree!vars, Tree!syncVars
  <2>3. CASE UNCHANGED allVars
    BY <2>1, <2>2, <2>3, Zenon DEF allVars
  <2>4. ASSUME NEW p \in Procs, PluginAct(p)
        PROVE  [Next]_vars /\ [Old!Next]_(Old!vars) /\ [Tree!Next]_(Tree!vars)
    BY <2>1, <2>2, <2>4, Zenon DEF PluginAct, Next, Old!Next, Tree!Next
  <2> QED
    BY <2>3, <2>4, Zenon DEF PluginNext
<1> QED
  BY <1>1, <1>2, PTL DEF PluginSpec, Spec, Old!Spec, Tree!Spec

(* Whichever barrier a team runs, nobody returns from it before everyone has reached it
   (barrier_decl.hpp:51-55), and its reductions run in between: for any number of
   participants and of episodes. *)
THEOREM PluginsImplement == PluginSpec => OthersImplement /\ ImplementsBarrier /\ []ReducedBetween
  BY PluginsRun, OldRefinement, OldReductionsHold, TreeRefinement, Refinement, ReductionsHold, PTL
     DEF OthersImplement

=============================================================================
