---------------------- MODULE CentralizedBarrierProofs ----------------------
(***************************************************************************)
(* The centralized barrier keeps its contract for every set of             *)
(* participants and every number of episodes.                              *)
(***************************************************************************)
EXTENDS CentralizedBarrierProps, FiniteSetTheorems, TLAPS

LEMMA OddSucc == \A n \in Int : Odd(n + 1) = ~Odd(n)
  BY DEF Odd

LEMMA CountNat == N \in Nat /\ N >= 1
  BY ParticipantsAssumption, FS_CardinalityType, FS_EmptySet DEF N

LEMMA FlipsType == TypeOK => Flips \in Int
  BY DEF TypeOK, Flips

-----------------------------------------------------------------------------
(* Where a participant may be. *)

LEMMA InitInductive == Init => Inductive
<1> SUFFICES ASSUME Init PROVE Inductive
  OBVIOUS
<1> USE DEF Init, SyncInit
<1>1. TypeOK
  <2>1. sem \in 0..N /\ ep \in [Procs -> 0..MaxEpisodes] /\ reduced \in 0..MaxEpisodes
    BY CountNat, MaxEpisodesAssumption
  <2>2. SyncTypeOK(BOOLEAN)
    BY Zenon DEF SyncTypeOK, Places
  <2> QED
    BY <2>1, <2>2, Zenon DEF TypeOK
<1>2. Flips = 0
  BY DEF Flips
<1>3. flag = Odd(Flips)
  <2>1. ~Odd(0)
    BY DEF Odd
  <2> QED
    BY <1>2, <2>1, Zenon DEF Odd
<1>4. PlaceInv /\ EpisodeInv /\ LeaderInv
  BY <1>2 DEF PlaceInv, EpisodeInv, LeaderInv
<1>5. Counted = {}
  BY DEF Counted
<1>6. SemInv
  BY <1>5, FS_EmptySet DEF SemInv
<1>7. ConditionInv /\ WakeupInv
  BY NoProcAssumption DEF ConditionInv, WakeupInv
<1> QED
  BY <1>1, <1>3, <1>4, <1>6, <1>7 DEF Inductive

(* The steps of wait() and signal(), seen from the barrier. *)
LEMMA PlaceStep ==
  ASSUME Inductive, NEW p \in Procs, Act(p)
  PROVE  PlaceInv'
<1> USE DEF Inductive, TypeOK, SyncTypeOK, Places, PlaceInv, ConditionInv, Step, Goto
<1>1. CASE Enter(p)
  BY <1>1 DEF Enter, syncVars
<1>2. CASE CountLast(p)
  BY <1>2 DEF CountLast, syncVars
<1>3. CASE CountOther(p)
  BY <1>3 DEF CountOther, StartWait
<1>4. CASE Reduce(p)
  BY <1>4 DEF Reduce, syncVars
<1>5. CASE Clear(p)
  BY <1>5 DEF Clear, syncVars
<1>6. CASE Flip(p)
  BY <1>6 DEF Flip, StartSignal
<1>7. CASE WaitReturns(p)
  BY <1>7 DEF WaitReturns, CheckPass, Return
<1>8. CASE SignalReturns(p)
  BY <1>8 DEF SignalReturns, SignalUnlock, Return
<1>9. CASE Condition(p)
  <2>1. CASE WakeOne(p)
    BY <1>9, <2>1 DEF Condition, localVars, WakeOne
  <2>2. CASE ~WakeOne(p)
    BY <1>9, <2>2 DEF Condition, localVars, CheckFail, LockPass, LockFail, NoNext,
                      Suspend, SignalLock, Acquire, Release
  <2> QED
    BY <2>1, <2>2
<1> QED
  BY <1>1, <1>2, <1>3, <1>4, <1>5, <1>6, <1>7, <1>8, <1>9 DEF Act

LEMMA ConditionStep ==
  ASSUME Inductive, NEW p \in Procs, Act(p)
  PROVE  ConditionInv'
<1> USE NoProcAssumption
    DEF Inductive, TypeOK, SyncTypeOK, Places, PlaceInv, ConditionInv, Step, Goto
<1>1. CASE Enter(p)
  BY <1>1 DEF Enter, syncVars
<1>2. CASE CountLast(p)
  BY <1>2 DEF CountLast, syncVars
<1>3. CASE CountOther(p)
  <2>1. PICK c \in BOOLEAN : StartWait(p, c)
    BY <1>3, Zenon DEF CountOther
  <2> QED
    BY <2>1 DEF StartWait
<1>4. CASE Reduce(p)
  BY <1>4 DEF Reduce, syncVars
<1>5. CASE Clear(p)
  BY <1>5 DEF Clear, syncVars
<1>6. CASE Flip(p)
  <2>1. PICK c \in BOOLEAN : StartSignal(p, c)
    BY <1>6, Zenon DEF Flip
  <2> QED
    BY <2>1 DEF StartSignal
<1>7. CASE WaitReturns(p)
  BY <1>7 DEF WaitReturns, CheckPass, Return
<1>8. CASE SignalReturns(p)
  BY <1>8 DEF SignalReturns, SignalUnlock, Return, Release
<1>9. CASE Condition(p)
  <2>1. CASE WakeOne(p)
    BY <2>1 DEF WakeOne
  <2>2. CASE CheckFail(p, flag = on[p]) \/ LockPass(p, flag = on[p])
    BY <2>2 DEF CheckFail, LockPass
  <2>3. CASE LockFail(p, flag = on[p])
    BY <2>3 DEF LockFail, Acquire
  <2>4. CASE NoNext(p)
    BY <2>4 DEF NoNext, Release
  <2>5. CASE Suspend(p)
    BY <2>5 DEF Suspend, Release
  <2>6. CASE SignalLock(p)
    BY <2>6 DEF SignalLock, Acquire
  <2> QED
    BY <1>9, <2>1, <2>2, <2>3, <2>4, <2>5, <2>6 DEF Condition
<1> QED
  BY <1>1, <1>2, <1>3, <1>4, <1>5, <1>6, <1>7, <1>8, <1>9 DEF Act

(* A signaller stays until it has emptied the condition it signals. *)
LEMMA WakeupStep ==
  ASSUME Inductive, NEW p \in Procs, Act(p)
  PROVE  WakeupInv'
<1> USE DEF Inductive, TypeOK, SyncTypeOK, Places, PlaceInv, WakeupInv, Step, Goto
<1>1. CASE Enter(p)
  BY <1>1 DEF Enter, syncVars
<1>2. CASE CountLast(p)
  BY <1>2 DEF CountLast, syncVars
<1>3. CASE CountOther(p)
  BY <1>3 DEF CountOther, StartWait
<1>4. CASE Reduce(p)
  BY <1>4 DEF Reduce, syncVars
<1>5. CASE Clear(p)
  BY <1>5 DEF Clear, syncVars
<1>6. CASE Flip(p)
  <2>1. \A c \in BOOLEAN : flag' = c => c = ~branch[p]
    BY <1>6, Zenon DEF Flip
  <2>2. PICK c \in BOOLEAN : StartSignal(p, c) /\ c = flag'
    BY <1>6, Zenon DEF Flip
  <2>3. at'[p] = "siglock" /\ on'[p] = flag'
    BY <2>2 DEF StartSignal
  <2>4. \A q \in Procs : q # p => at'[q] = at[q] /\ on'[q] = on[q]
    BY <2>2 DEF StartSignal
  <2> QED
    BY <2>3, <2>4
<1>7. CASE WaitReturns(p)
  BY <1>7 DEF WaitReturns, CheckPass, Return
<1>8. CASE SignalReturns(p)
  <2>1. \A q \in Procs : on[q] = on[p] => at[q] \notin {"switch", "asleep"}
    BY <1>8 DEF SignalReturns, SignalUnlock, ConditionInv
  <2>2. \A q \in Procs : q # p => at'[q] = at[q]
    BY <1>8 DEF SignalReturns, SignalUnlock
  <2>3. at'[p] = "idle" /\ UNCHANGED <<on, flag>>
    BY <1>8 DEF SignalReturns, SignalUnlock, Return
  <2> QED
    BY <2>1, <2>2, <2>3
<1>9. CASE Condition(p)
  <2>1. CASE WakeOne(p)
    BY <1>9, <2>1 DEF Condition, localVars, WakeOne, ConditionInv
  <2>2. CASE CheckFail(p, flag = on[p]) \/ LockPass(p, flag = on[p])
    BY <1>9, <2>2 DEF Condition, localVars, CheckFail, LockPass
  <2>3. CASE LockFail(p, flag = on[p])
    BY <1>9, <2>3 DEF Condition, localVars, LockFail
  <2>4. CASE NoNext(p)
    BY <1>9, <2>4 DEF Condition, localVars, NoNext
  <2>5. CASE Suspend(p)
    BY <1>9, <2>5 DEF Condition, localVars, Suspend
  <2>6. CASE SignalLock(p)
    BY <1>9, <2>6 DEF Condition, localVars, SignalLock
  <2> QED
    BY <1>9, <2>1, <2>2, <2>3, <2>4, <2>5, <2>6 DEF Condition
<1> QED
  BY <1>1, <1>2, <1>3, <1>4, <1>5, <1>6, <1>7, <1>8, <1>9 DEF Act

-----------------------------------------------------------------------------
(* Episodes and the counter. *)

(* Before the last participant has arrived nobody clears or flips. *)
LEMMA NoLeader ==
  ASSUME Inductive, NEW p \in Procs, pc[p] \in {"out", "count", "release"}
  PROVE  /\ \A q \in Procs : pc[q] \notin {"reduce", "clear", "flip"}
         /\ Flips = reduced
         /\ sem = Cardinality(Counted)
  BY DEF Inductive, LeaderInv, Flips, SemInv

(* What one increment of _sem adds to the set of those counted. *)
LEMMA CountStep ==
  ASSUME Inductive, NEW p \in Procs, pc[p] = "count",
         Step(p, "count", "wait") \/ Step(p, "count", "reduce"),
         UNCHANGED <<ep, reduced>>
  PROVE  /\ Flips' = Flips
         /\ Counted' = Counted \cup {p}
         /\ Cardinality(Counted') = sem + 1
<1>1. Flips = reduced /\ sem = Cardinality(Counted)
  BY NoLeader
<1>2. \A q \in Procs : pc'[q] \notin {"clear", "flip"}
  BY NoLeader DEF Step, Inductive, TypeOK
<1>3. Flips' = Flips
  BY <1>1, <1>2 DEF Flips
<1>4. ep[p] = Flips
  BY DEF Inductive, EpisodeInv
<1>5. Counted' = Counted \cup {p}
  BY <1>3, <1>4 DEF Counted, Step, Inductive, TypeOK
<1>6. p \notin Counted
  BY DEF Counted
<1>7. IsFiniteSet(Counted)
  BY ParticipantsAssumption, FS_Subset DEF Counted
<1> QED
  BY <1>1, <1>3, <1>5, <1>6, <1>7, FS_AddElement

(* The increment that reaches N finds every other participant waiting. *)
LEMMA LastCounted ==
  ASSUME Inductive, NEW p \in Procs, CountLast(p)
  PROVE  Counted' = Procs
<1>1. Cardinality(Counted') = N
  BY CountStep DEF CountLast, Step
<1>2. Counted' \subseteq Procs
  BY DEF Counted
<1> QED
  BY <1>1, <1>2, ParticipantsAssumption, FS_Subset, FS_CardinalityType DEF N

(* A participant leaves an episode that is over, and no counted one leaves. *)
LEMMA ReturnStep ==
  ASSUME Inductive, NEW p \in Procs, WaitReturns(p) \/ SignalReturns(p)
  PROVE  /\ ep[p] = Flips - 1
         /\ \A q \in Procs : pc[q] \notin {"reduce", "clear", "flip"}
         /\ Flips' = Flips
         /\ Counted' = Counted
<1> USE DEF Inductive, TypeOK, EpisodeInv, PlaceInv, Return, Step
<1>1. ep[p] = Flips - 1
  <2>1. CASE WaitReturns(p)
    <3>1. pc[p] = "wait" /\ flag = on[p]
      BY <2>1 DEF WaitReturns, CheckPass
    <3>2. flag = ~Odd(ep[p])
      BY <3>1, Zenon
    <3>3. ep[p] # Flips
      BY <3>2, Zenon
    <3> QED
      BY <3>1, <3>3
  <2>2. CASE SignalReturns(p)
    BY <2>2 DEF SignalReturns
  <2> QED
    BY <2>1, <2>2
<1>2. \A q \in Procs : pc[q] \notin {"reduce", "clear", "flip"}
  <2>1. pc[p] \in {"wait", "release"} /\ ep[p] # Flips
    BY <1>1, FlipsType DEF WaitReturns, SignalReturns
  <2> QED
    BY <2>1 DEF LeaderInv
<1>3. pc' = [pc EXCEPT ![p] = "out"] /\ ep' = [ep EXCEPT ![p] = @ + 1] /\ reduced' = reduced
  BY DEF WaitReturns, SignalReturns
<1>4. Flips' = Flips
  BY <1>2, <1>3 DEF Flips
<1>5. Counted' = Counted
  BY <1>1, <1>3, <1>4, FlipsType DEF Counted
<1> QED
  BY <1>1, <1>2, <1>4, <1>5

LEMMA EpisodeStep ==
  ASSUME Inductive, NEW p \in Procs, Act(p)
  PROVE  EpisodeInv' /\ (flag = Odd(Flips))'
<1> USE DEF Inductive, TypeOK, EpisodeInv, Step
<1>1. CASE Enter(p)
  <2>1. Flips' = Flips
    BY <1>1, NoLeader DEF Enter, Flips
  <2>2. branch'[p] = Odd(ep[p])
    BY <1>1, Zenon DEF Enter
  <2> QED
    BY <1>1, <2>1, <2>2 DEF Enter
<1>2. CASE CountLast(p)
  <2>1. Flips' = Flips
    BY <1>2, CountStep DEF CountLast
  <2> QED
    BY <1>2, <2>1 DEF CountLast
<1>3. CASE CountOther(p)
  <2>1. Flips' = Flips
    BY <1>3, CountStep DEF CountOther
  <2> QED
    BY <1>3, <2>1 DEF CountOther
<1>4. CASE Reduce(p)
  <2>1. \A q \in Procs : q # p => pc[q] = "wait"
    BY <1>4 DEF Reduce, LeaderInv
  <2>2. Flips' = Flips
    BY <1>4, <2>1 DEF Reduce, Flips
  <2> QED
    BY <1>4, <2>2 DEF Reduce
<1>5. CASE Clear(p)
  <2>1. Flips' = Flips
    BY <1>5 DEF Clear, Flips
  <2> QED
    BY <1>5, <2>1 DEF Clear
<1>6. CASE Flip(p)
  <2>1. \A q \in Procs : q # p => pc[q] = "wait" /\ ep[q] = Flips
    BY <1>6 DEF Flip, LeaderInv
  <2>2. Flips' = Flips + 1
    BY <1>6, <2>1 DEF Flip, Flips
  <2>3. ep[p] = Flips /\ branch[p] = Odd(Flips)
    BY <1>6, Zenon DEF Flip
  <2>4. Odd(Flips + 1) = ~Odd(Flips)
    BY OddSucc, FlipsType
  <2>5. flag' = Odd(Flips')
    BY <1>6, <2>2, <2>3, <2>4, Zenon DEF Flip
  <2> QED
    BY <1>6, <2>1, <2>2, <2>3, <2>5, FlipsType DEF Flip
<1>7. CASE WaitReturns(p) \/ SignalReturns(p)
  <2>1. Flips' = Flips /\ ep[p] = Flips - 1
    BY <1>7, ReturnStep
  <2>2. pc' = [pc EXCEPT ![p] = "out"] /\ ep' = [ep EXCEPT ![p] = @ + 1]
        /\ UNCHANGED <<flag, branch>>
    BY <1>7 DEF WaitReturns, SignalReturns, Return
  <2> QED
    BY <2>1, <2>2, FlipsType
<1>8. CASE Condition(p)
  BY <1>8 DEF Condition, localVars, Flips
<1> QED
  BY <1>1, <1>2, <1>3, <1>4, <1>5, <1>6, <1>7, <1>8 DEF Act

LEMMA LeaderStep ==
  ASSUME Inductive, NEW p \in Procs, Act(p)
  PROVE  LeaderInv'
<1> USE DEF Inductive, TypeOK, LeaderInv, Step
<1>1. CASE Enter(p)
  BY <1>1, NoLeader DEF Enter
<1>2. CASE CountLast(p)
  <2>1. Flips' = Flips /\ Counted' = Procs
    BY <1>2, CountStep, LastCounted DEF CountLast
  <2>2. \A q \in Procs : ep'[q] = Flips' /\ pc'[q] \in {"wait", "reduce", "clear"}
    BY <2>1 DEF Counted
  <2>3. \A q \in Procs : q # p => pc'[q] \notin {"reduce", "clear", "flip"}
    BY <1>2, NoLeader DEF CountLast
  <2> QED
    BY <2>2, <2>3
<1>3. CASE CountOther(p)
  BY <1>3, NoLeader DEF CountOther
<1>4. CASE Reduce(p)
  <2>1. Flips' = Flips
    BY <1>4 DEF Reduce, Flips
  <2> QED
    BY <1>4, <2>1 DEF Reduce
<1>5. CASE Clear(p)
  <2>1. Flips' = Flips
    BY <1>5 DEF Clear, Flips
  <2> QED
    BY <1>5, <2>1 DEF Clear
<1>6. CASE Flip(p)
  BY <1>6 DEF Flip
<1>7. CASE WaitReturns(p) \/ SignalReturns(p)
  BY <1>7, ReturnStep DEF WaitReturns, SignalReturns, Return
<1>8. CASE Condition(p)
  BY <1>8 DEF Condition, localVars, Flips
<1> QED
  BY <1>1, <1>2, <1>3, <1>4, <1>5, <1>6, <1>7, <1>8 DEF Act

LEMMA SemStep ==
  ASSUME Inductive, NEW p \in Procs, Act(p)
  PROVE  SemInv'
<1> USE DEF Inductive, TypeOK, Step
<1>1. CASE Enter(p)
  <2>1. Flips' = Flips
    BY <1>1, NoLeader DEF Enter, Flips
  <2>2. Counted' = Counted
    BY <1>1, <2>1 DEF Enter, Counted
  <2> QED
    BY <1>1, <2>2, NoLeader DEF Enter, SemInv
<1>2. CASE CountLast(p)
  BY <1>2, CountStep, NoLeader DEF CountLast, SemInv
<1>3. CASE CountOther(p)
  BY <1>3, CountStep, NoLeader DEF CountOther, SemInv
<1>4. CASE Reduce(p)
  <2>1. \A q \in Procs : q # p => pc[q] = "wait"
    BY <1>4 DEF Reduce, LeaderInv
  <2>2. Flips' = Flips
    BY <1>4, <2>1 DEF Reduce, Flips
  <2>3. Counted' = Counted
    BY <1>4, <2>2 DEF Reduce, Counted
  <2> QED
    BY <1>4, <2>1, <2>3 DEF Reduce, SemInv
<1>5. CASE Clear(p)
  BY <1>5 DEF Clear, SemInv
<1>6. CASE Flip(p)
  <2>1. \A q \in Procs : ep[q] = Flips /\ (q # p => pc[q] = "wait")
    BY <1>6 DEF Flip, LeaderInv, EpisodeInv
  <2>2. Flips' = Flips + 1 /\ Flips \in Int
    BY <1>6, <2>1, FlipsType DEF Flip, Flips
  <2>3. Counted' = {}
    BY <1>6, <2>1, <2>2 DEF Flip, Counted
  <2>4. sem' = 0
    BY <1>6 DEF Flip, SemInv
  <2> QED
    BY <1>6, <2>1, <2>3, <2>4, FS_EmptySet DEF Flip, SemInv
<1>7. CASE WaitReturns(p) \/ SignalReturns(p)
  <2>1. sem' = sem /\ pc' = [pc EXCEPT ![p] = "out"]
    BY <1>7 DEF WaitReturns, SignalReturns, Return
  <2> QED
    BY <1>7, <2>1, ReturnStep DEF SemInv
<1>8. CASE Condition(p)
  BY <1>8 DEF Condition, localVars, Flips, Counted, SemInv
<1> QED
  BY <1>1, <1>2, <1>3, <1>4, <1>5, <1>6, <1>7, <1>8 DEF Act

LEMMA TypeStep ==
  ASSUME Inductive, NEW p \in Procs, Act(p)
  PROVE  TypeOK'
<1> USE DEF Inductive, TypeOK, Step
<1>1. SyncTypeOK(BOOLEAN)'
  <2> USE DEF SyncTypeOK, Places, Goto
  <2>1. CASE CountOther(p)
    <3>1. PICK c \in BOOLEAN : StartWait(p, c)
      BY <2>1, Zenon DEF CountOther
    <3> QED
      BY <3>1 DEF StartWait
  <2>2. CASE Flip(p)
    <3>1. PICK c \in BOOLEAN : StartSignal(p, c)
      BY <2>2, Zenon DEF Flip
    <3> QED
      BY <3>1 DEF StartSignal
  <2>3. CASE WaitReturns(p) \/ SignalReturns(p)
    BY <2>3 DEF WaitReturns, SignalReturns, CheckPass, SignalUnlock, Release
  <2>4. CASE Condition(p)
    BY <2>4 DEF Condition, CheckFail, LockPass, LockFail, NoNext, Suspend, SignalLock,
                WakeOne, Acquire, Release
  <2>5. CASE UNCHANGED syncVars
    BY <2>5 DEF syncVars
  <2> QED
    BY <2>1, <2>2, <2>3, <2>4, <2>5
       DEF Act, Enter, CountLast, Reduce, Clear
<1>2. sem' \in 0..N
  <2>1. CASE CountLast(p) \/ CountOther(p)
    <3>1. sem' = Cardinality(Counted') /\ Counted' \subseteq Procs
      BY <2>1, CountStep DEF CountLast, CountOther, Counted
    <3> QED
      BY <3>1, ParticipantsAssumption, FS_Subset, FS_CardinalityType DEF N
  <2>2. CASE ~(CountLast(p) \/ CountOther(p))
    BY <2>2, CountNat DEF Act, Enter, Reduce, Clear, Flip, WaitReturns, SignalReturns,
                          Return, Condition, localVars
  <2> QED
    BY <2>1, <2>2
<1>3. ep' \in [Procs -> 0..MaxEpisodes] /\ reduced' \in 0..MaxEpisodes
  <2>1. CASE Reduce(p)
    <3>1. Flips = reduced
      BY <2>1 DEF Reduce, Flips, LeaderInv
    <3>2. ep[p] = Flips /\ ep[p] < MaxEpisodes
      BY <2>1 DEF Reduce, EpisodeInv
    <3> QED
      BY <2>1, <3>1, <3>2, MaxEpisodesAssumption DEF Reduce
  <2>2. CASE WaitReturns(p) \/ SignalReturns(p)
    <3>1. ep[p] < MaxEpisodes
      BY <2>2 DEF WaitReturns, SignalReturns, Return, EpisodeInv
    <3> QED
      BY <2>2, <3>1, MaxEpisodesAssumption DEF WaitReturns, SignalReturns, Return
  <2>3. CASE UNCHANGED <<ep, reduced>>
    BY <2>3
  <2> QED
    BY <2>1, <2>2, <2>3
       DEF Act, Enter, CountLast, CountOther, Clear, Flip, Condition, localVars
<1>4. pc' \in [Procs -> {"out", "count", "reduce", "clear", "flip", "release", "wait"}]
  BY DEF Act, Enter, CountLast, CountOther, Reduce, Clear, Flip, WaitReturns,
         SignalReturns, Return, Condition, localVars
<1>5. branch' \in [Procs -> BOOLEAN] /\ flag' \in BOOLEAN
  <2>1. CASE Flip(p)
    BY <2>1, Zenon DEF Flip
  <2>2. CASE ~Flip(p)
    BY <2>2 DEF Act, Enter, CountLast, CountOther, Reduce, Clear, WaitReturns,
                SignalReturns, Return, Condition, localVars
  <2> QED
    BY <2>1, <2>2
<1> QED
  BY <1>1, <1>2, <1>3, <1>4, <1>5

-----------------------------------------------------------------------------
(* The theorems. *)

(* The inductive invariant holds in every reachable state. *)
THEOREM InductiveInvariant == Spec => []Inductive
<1>1. Inductive /\ [Next]_vars => Inductive'
  <2> SUFFICES ASSUME Inductive, [Next]_vars PROVE Inductive'
    OBVIOUS
  <2>1. ASSUME NEW p \in Procs, Act(p) PROVE Inductive'
    BY <2>1, TypeStep, PlaceStep, EpisodeStep, LeaderStep, SemStep, ConditionStep,
       WakeupStep DEF Inductive
  <2>2. CASE UNCHANGED vars
    BY <2>2 DEF vars, syncVars, Inductive, TypeOK, SyncTypeOK, PlaceInv, EpisodeInv,
                LeaderInv, SemInv, ConditionInv, WakeupInv, Flips, Counted
  <2> QED
    BY <2>1, <2>2 DEF Next
<1> QED
  BY InitInductive, <1>1, PTL DEF Spec

(* Every variable of CentralizedBarrier::barrier keeps its range; _sem never
   exceeds the number of participants. *)
THEOREM TypeCorrect == Spec => []TypeOK
  BY InductiveInvariant, PTL DEF Inductive

(* No participant returns from a barrier that another has not reached. *)
THEOREM ContractHolds == Spec => []Contract
<1>1. Inductive => Contract
  BY FlipsType DEF Inductive, EpisodeInv, TypeOK, Contract, Abstract!Contract, reached
<1> QED
  BY <1>1, InductiveInvariant, PTL

(* The reductions of an episode run after the last arrival, before the first
   return. *)
THEOREM ReductionsHold == Spec => []ReducedBetween
<1>1. Inductive => ReducedBetween
  BY DEF Inductive, EpisodeInv, LeaderInv, TypeOK, ReducedBetween, reached, Flips
<1> QED
  BY <1>1, InductiveInvariant, PTL

(* A sleeper whose condition holds has its signaller at work. *)
THEOREM NoLostWakeupHolds == Spec => []NoLostWakeup
<1>1. Inductive => NoLostWakeup
  BY DEF Inductive, WakeupInv, NoLostWakeup
<1> QED
  BY <1>1, InductiveInvariant, PTL

(* The counter and the flag implement the abstract barrier: an Enter is a
   Reach, a return from wait() or signal() is a Return, the rest stutters. *)
THEOREM Refinement == Spec => ImplementsBarrier
<1>1. Init => Abstract!Init
  BY DEF Init, Abstract!Init, reached
<1>2. Inductive /\ [Next]_vars => [Abstract!Next]_(Abstract!barrierVars)
  <2> SUFFICES ASSUME Inductive, [Next]_vars,
                      ~(UNCHANGED <<reached, ep>>)
               PROVE  Abstract!Next
    BY DEF Abstract!barrierVars
  <2> USE DEF Inductive, TypeOK, Step
  <2>1. PICK p \in Procs : Act(p)
    BY DEF Next, vars, reached
  <2>2. CASE Enter(p)
    <3>1. \A q \in Procs : reached'[q] = IF q = p THEN ep[q] + 1 ELSE reached[q]
      BY <2>2 DEF Enter, reached
    <3>2. reached[p] = ep[p] /\ ep' = ep
      BY <2>2 DEF Enter, reached
    <3>3. reached' = [reached EXCEPT ![p] = @ + 1]
      BY <3>1, <3>2 DEF reached
    <3> QED
      BY <3>2, <3>3 DEF Abstract!Next, Abstract!Reach
  <2>3. CASE WaitReturns(p) \/ SignalReturns(p)
    <3>1. reached' = reached /\ ep' = [ep EXCEPT ![p] = @ + 1]
      BY <2>3 DEF WaitReturns, SignalReturns, Return, reached
    <3>2. ep[p] = Flips - 1 /\ reached[p] = Flips
      BY <2>3, ReturnStep, FlipsType DEF WaitReturns, SignalReturns, Return, reached
    <3>3. \A q \in Procs : reached[q] >= Flips
      BY FlipsType DEF EpisodeInv, reached
    <3>4. ep[p] < reached[p] /\ \A q \in Procs : reached[q] >= reached[p]
      BY <3>2, <3>3, FlipsType
    <3> QED
      BY <3>1, <3>4 DEF Abstract!Next, Abstract!Return
  <2>4. CASE ~(Enter(p) \/ WaitReturns(p) \/ SignalReturns(p))
    BY <2>1, <2>4 DEF Act, CountLast, CountOther, Reduce, Clear, Flip, Condition,
                      localVars, reached
  <2> QED
    BY <2>2, <2>3, <2>4
<1> QED
  BY <1>1, <1>2, InductiveInvariant, PTL DEF Spec, ImplementsBarrier, Abstract!Spec
=============================================================================
