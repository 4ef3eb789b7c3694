------------------------ MODULE TaskSchedulerProofs ------------------------
(***************************************************************************)
(* For every set of threads and every tree of tasks, with or without       *)
(* user-level threads: joins are kept, no group is used after its WD is    *)
(* destroyed, and no WD is queued or run twice.  None is lost, unless the  *)
(* scheduler is stopped under user-level threads; without user-level       *)
(* threads the ties are kept.                                              *)
(***************************************************************************)
EXTENDS TaskSchedulerProps, FiniteSetTheorems, SequenceTheorems, TLAPS

LEMMA Names ==
    /\ Main \in UserWDs /\ Main \notin Tasks /\ Tasks \subseteq UserWDs
    /\ UserWDs \subseteq WDs /\ Workers \subseteq WDs /\ Workers \subseteq Threads
    /\ UserWDs \cap Workers = {}
    /\ \A w \in Tasks : Parent[w] \in UserWDs
  BY NamesAssumption, ParentAssumption DEF UserWDs, WDs, Workers

LEMMA RemoveAtType ==
  ASSUME NEW S, NEW s \in Seq(S), NEW i \in DOMAIN s
  PROVE  RemoveAt(s, i) \in Seq(S)
<1>1. SubSeq(s, 1, i - 1) \in Seq(S)
  BY SubSeqProperties
<1>2. SubSeq(s, i + 1, Len(s)) \in Seq(S)
  BY SubSeqProperties
<1> QED
  BY <1>1, <1>2, ConcatProperties DEF RemoveAt

-----------------------------------------------------------------------------
(* Types.  The counters need GroupInv and are left for later. *)

DataTypeOK ==
    /\ pc \in [WDs -> Places]
    /\ cur \in [Threads -> WDs]
    /\ ready \in Seq(WDs)
    /\ nexts \in [Threads -> Seq(WDs)]
    /\ under \in [WDs -> WDs \cup {None}]
    /\ tied \in [WDs -> Threads \cup {None}]
    /\ ending \in [WDs -> BOOLEAN]
    /\ fresh \in [WDs -> BOOLEAN]
    /\ held \in [WDs -> WDs \cup {None}]
    /\ home \in [WDs -> Threads \cup {None}]
    /\ enabled \in BOOLEAN
    /\ yields \in 0..MaxYields
    /\ stops \in 0..MaxStops

LEMMA PopNextType ==
  ASSUME DataTypeOK, NEW t \in Threads \cup {None}, NEW x \in WDs, NEW back \in Seq(WDs),
         PopNext(t, x, back)
  PROVE  ready' \in Seq(WDs) /\ nexts' \in [Threads -> Seq(WDs)]
<1> USE DEF DataTypeOK
<1>1. PICK i \in DOMAIN nexts[t] : /\ nexts' = [nexts EXCEPT ![t] = RemoveAt(@, i)]
                                   /\ ready' = ready \o back
  BY DEF PopNext
<1>2. ready' \in Seq(WDs)
  BY <1>1, ConcatProperties
<1>3. CASE t \in Threads
  <2>1. RemoveAt(nexts[t], i) \in Seq(WDs)
    BY <1>3, RemoveAtType
  <2> QED
    BY <1>1, <1>2, <2>1
<1>4. CASE t = None
  <2>1. None \notin Threads
    BY NamesAssumption
  <2> QED
    BY <1>1, <1>2, <1>4, <2>1
<1> QED
  BY <1>3, <1>4

LEMMA PopReadyType ==
  ASSUME DataTypeOK, NEW t, NEW x \in WDs, NEW back \in Seq(WDs), PopReady(t, x, back)
  PROVE  ready' \in Seq(WDs) /\ nexts' \in [Threads -> Seq(WDs)]
<1> USE DEF DataTypeOK
<1>1. PICK i \in DOMAIN ready : ready' = RemoveAt(ready, i) \o back /\ nexts' = nexts
  BY DEF PopReady
<1>2. RemoveAt(ready, i) \in Seq(WDs)
  BY RemoveAtType
<1> QED
  BY <1>1, <1>2, ConcatProperties

LEMMA TakeType ==
  ASSUME DataTypeOK, NEW t \in Threads, NEW x \in WDs, NEW back \in Seq(WDs), Take(t, x, back)
  PROVE  ready' \in Seq(WDs) /\ nexts' \in [Threads -> Seq(WDs)]
  BY PopNextType, PopReadyType DEF Take

LEMMA SwitchType ==
  ASSUME DataTypeOK, NEW t \in Threads, NEW w \in WDs, NEW place \in Places, NEW x \in WDs,
         SwitchStacks(t, w, place, x) \/ InlineWork(t, w, place, x)
  PROVE  /\ pc' \in [WDs -> Places]
         /\ tied' \in [WDs -> Threads \cup {None}]
         /\ cur' \in [Threads -> WDs]
         /\ under' \in [WDs -> WDs \cup {None}]
<1> USE DEF DataTypeOK, Places
<1>1. Started(x) \in Places
  BY DEF Started
<1>2. CASE SwitchStacks(t, w, place, x)
  BY <1>1, <1>2 DEF SwitchStacks
<1>3. CASE InlineWork(t, w, place, x)
  BY <1>3 DEF InlineWork
<1> QED
  BY <1>2, <1>3

LEMMA DataTypeInit == Init => DataTypeOK
<1> SUFFICES ASSUME Init PROVE DataTypeOK
  OBVIOUS
<1> USE DEF Init
<1>1. pc \in [WDs -> Places]
  BY DEF Places
<1>2. cur \in [Threads -> WDs]
  BY Names DEF OwnWD, WDs, Workers
<1>3. ready \in Seq(WDs) /\ nexts \in [Threads -> Seq(WDs)]
  OBVIOUS
<1>4. tied \in [WDs -> Threads \cup {None}]
  BY Names
<1>5. yields \in 0..MaxYields /\ stops \in 0..MaxStops
  BY BoundsAssumption
<1> QED
  BY <1>1, <1>2, <1>3, <1>4, <1>5 DEF DataTypeOK

LEMMA DataTypeStep == DataTypeOK /\ [Next]_vars => DataTypeOK'
<1> SUFFICES ASSUME DataTypeOK, [Next]_vars PROVE DataTypeOK'
  OBVIOUS
<1> USE DEF queues, exit, counts, group
<1>1. CASE UNCHANGED vars
  BY <1>1 DEF DataTypeOK, vars
<1>2. ASSUME NEW t \in Threads, NEW w \in UserWDs, NEW c \in Tasks, Spawn(t, w, c)
      PROVE  DataTypeOK'
  <2>1. ready' \in Seq(WDs) /\ fresh' \in [WDs -> BOOLEAN] /\ pc' \in [WDs -> Places]
    BY <1>2, Names, AppendProperties DEF DataTypeOK, Spawn, Places
  <2> QED
    BY <1>2, <2>1 DEF DataTypeOK, Spawn
<1>3. ASSUME NEW t \in Threads, NEW w \in UserWDs, Taskwait(t, w) PROVE DataTypeOK'
  BY <1>3 DEF DataTypeOK, Taskwait, Move, Places
<1>4. ASSUME NEW t \in Threads, NEW w \in UserWDs, NEW x \in WDs, Yield(t, w, x)
      PROVE  DataTypeOK'
  <2> USE <1>4 DEF Yield
  <2>1. w \in WDs /\ <<w>> \in Seq(WDs) /\ <<>> \in Seq(WDs) /\ "body" \in Places
    BY Names DEF Places
  <2>2. PopReady(t, x, <<w>>) \/ PopReady(t, x, <<>>)
    OBVIOUS
  <2>3. ready' \in Seq(WDs) /\ nexts' \in [Threads -> Seq(WDs)]
    BY <2>1, <2>2, PopReadyType
  <2>4. SwitchStacks(t, w, "body", x) \/ InlineWork(t, w, "body", x)
    OBVIOUS
  <2>5. yields' \in 0..MaxYields
    BY BoundsAssumption DEF DataTypeOK
  <2> QED
    BY <2>1, <2>3, <2>4, <2>5, SwitchType DEF DataTypeOK
<1>5. ASSUME NEW t \in Threads, NEW w \in UserWDs, End(t, w) PROVE DataTypeOK'
  <2>1. pc' \in [WDs -> Places] /\ ending' \in [WDs -> BOOLEAN]
    BY <1>5 DEF DataTypeOK, End, Move, Places
  <2>2. CASE ReturnInlined(w)
    BY <1>5, <2>1, <2>2 DEF DataTypeOK, End, ReturnInlined
  <2>3. CASE ExitULT(t, w)
    <3>1. home' \in [WDs -> Threads \cup {None}]
      BY <2>3 DEF DataTypeOK, ExitULT
    <3>2. CASE UNCHANGED <<queues, held>>
      BY <1>5, <2>1, <3>1, <3>2 DEF DataTypeOK, End
    <3>3. ASSUME NEW x \in WDs, PopNext(t, x, <<>>), held' = [held EXCEPT ![w] = x]
          PROVE  DataTypeOK'
      <4>1. ready' \in Seq(WDs) /\ nexts' \in [Threads -> Seq(WDs)]
        <5>1. <<>> \in Seq(WDs)
          OBVIOUS
        <5> QED
          BY <3>3, <5>1, PopNextType
      <4> QED
        BY <1>5, <2>1, <3>1, <3>3, <4>1 DEF DataTypeOK, End
    <3> QED
      BY <2>3, <3>2, <3>3 DEF ExitULT
  <2> QED
    BY <1>5, <2>2, <2>3 DEF End
<1>6. ASSUME NEW t \in Threads, StopScheduler(t) PROVE DataTypeOK'
  <2>1. stops' \in 0..MaxStops
    BY <1>6, BoundsAssumption DEF DataTypeOK, StopScheduler
  <2> QED
    BY <1>6, <2>1 DEF DataTypeOK, StopScheduler
<1>7. ASSUME NEW t \in Threads, StartScheduler(t) PROVE DataTypeOK'
  BY <1>7 DEF DataTypeOK, StartScheduler
<1>8. ASSUME NEW t \in Threads, NEW w \in UserWDs, WaitPass(t, w) \/ Lock(t, w) \/ NoNext(t, w)
      PROVE  DataTypeOK'
  BY <1>8 DEF DataTypeOK, WaitPass, Lock, NoNext, Move, Places
<1>9. ASSUME NEW t \in Threads, NEW w \in UserWDs, NEW x \in WDs, SwitchAway(t, w, x)
      PROVE  DataTypeOK'
  <2>1. w \in WDs /\ <<>> \in Seq(WDs) /\ {"blocked", "wait"} \subseteq Places
    BY Names DEF Places
  <2>2. ready' \in Seq(WDs) /\ nexts' \in [Threads -> Seq(WDs)]
    BY <1>9, <2>1, TakeType DEF SwitchAway
  <2>3. SwitchStacks(t, w, "blocked", x) \/ InlineWork(t, w, "wait", x)
    BY <1>9 DEF SwitchAway
  <2> QED
    BY <1>9, <2>1, <2>2, <2>3, SwitchType DEF DataTypeOK, SwitchAway
<1>10. ASSUME NEW t \in Threads, NEW w \in UserWDs, Drain(t, w) PROVE DataTypeOK'
  <2>1. AfterWait(w) \in Places
    BY Names DEF AfterWait, Places, DataTypeOK
  <2> QED
    BY <1>10, <2>1 DEF DataTypeOK, Drain, Move
<1>11. ASSUME NEW t \in Threads, NEW w \in Tasks,
              Reference(t, w) \/ Decrement(t, w) \/ Unreference(t, w)
       PROVE  DataTypeOK'
  BY <1>11 DEF DataTypeOK, Reference, Decrement, Unreference, Move, Places
<1>12. ASSUME NEW t \in Threads, NEW w \in Tasks, Signal(t, w) PROVE DataTypeOK'
  <2>1. pc' \in [WDs -> Places]
    <3>1. {"unref", "wait"} \subseteq Places /\ pc \in [WDs -> Places]
      BY DEF DataTypeOK, Places
    <3>2. \/ pc' = [pc EXCEPT ![w] = "unref"]
          \/ pc' = [pc EXCEPT ![w] = "unref", ![Parent[w]] = "wait"]
      BY <1>12 DEF Signal
    <3> QED
      BY <3>1, <3>2
  <2>2. nexts' \in [Threads -> Seq(WDs)]
    <3>1. CASE UNCHANGED nexts
      BY <3>1 DEF DataTypeOK
    <3>2. CASE WakeUp(t, Parent[w])
      <4> DEFINE p == Parent[w]
                 q == IF CanRun(p, t) THEN t ELSE tied[p]
      <4>1. p \in WDs
        BY Names
      <4>2. \A u \in Threads : Append(nexts[u], p) \in Seq(WDs)
        BY <4>1, AppendProperties DEF DataTypeOK
      <4>3. nexts' = nexts \/ nexts' = [nexts EXCEPT ![q] = Append(@, p)]
        BY <3>2 DEF WakeUp
      <4> HIDE DEF p, q
      <4>4. CASE q \in Threads
        <5>1. Append(nexts[q], p) \in Seq(WDs)
          BY <4>2, <4>4
        <5> QED
          BY <4>3, <5>1 DEF DataTypeOK
      <4>5. CASE q \notin Threads
        BY <4>3, <4>5 DEF DataTypeOK
      <4> QED
        BY <4>4, <4>5
    <3> QED
      BY <1>12, <3>1, <3>2 DEF Signal
  <2> QED
    BY <1>12, <2>1, <2>2 DEF DataTypeOK, Signal
<1>13. ASSUME NEW t \in Threads, NEW w \in Tasks, BackUnder(t, w) PROVE DataTypeOK'
  BY <1>13, Names DEF DataTypeOK, BackUnder, Move, Places
<1>14. ASSUME NEW t \in Threads, NEW w \in Tasks, NEW x \in WDs, ExitTo(t, w, x),
              ready' \in Seq(WDs) /\ nexts' \in [Threads -> Seq(WDs)]
       PROVE  DataTypeOK'
  <2>1. w \in WDs /\ "gone" \in Places
    BY Names DEF Places
  <2>2. held' \in [WDs -> WDs \cup {None}]
    BY <1>14 DEF DataTypeOK, ExitTo
  <2> QED
    BY <1>14, <2>1, <2>2, SwitchType DEF DataTypeOK, ExitTo
<1>15. ASSUME NEW t \in Threads, NEW w \in Tasks, ExitToHeld(t, w) PROVE DataTypeOK'
  <2>1. held[w] \in WDs
    BY <1>15, Names DEF DataTypeOK, ExitToHeld
  <2> QED
    BY <1>14, <1>15, <2>1 DEF ExitToHeld, DataTypeOK
<1>16. ASSUME NEW t \in Threads, NEW w \in Tasks, NEW x \in WDs, ExitToNext(t, w, x)
       PROVE  DataTypeOK'
  <2>1. home[w] \in Threads \cup {None}
    BY Names DEF DataTypeOK
  <2> QED
    <3>1. <<>> \in Seq(WDs)
      OBVIOUS
    <3>2. ready' \in Seq(WDs) /\ nexts' \in [Threads -> Seq(WDs)]
      BY <1>16, <2>1, <3>1, PopNextType DEF ExitToNext
    <3> QED
      BY <1>14, <1>16, <3>2 DEF ExitToNext
<1>17. ASSUME NEW t \in Threads, NEW w \in Tasks, ExitIdle(t, w) PROVE DataTypeOK'
  BY <1>17 DEF DataTypeOK, ExitIdle, Move, Places
<1>18. ASSUME NEW t \in Threads, NEW w \in Tasks, NEW x \in WDs, Seek(t, w, x) PROVE DataTypeOK'
  <2>1. <<>> \in Seq(WDs)
    OBVIOUS
  <2>2. ready' \in Seq(WDs) /\ nexts' \in [Threads -> Seq(WDs)]
    BY <1>18, <2>1, TakeType DEF Seek
  <2> QED
    BY <1>14, <1>18, <2>2 DEF Seek
<1>19. ASSUME NEW t \in Threads, NEW x \in WDs, t \in Workers,
              WorkerSwitches(t, x) \/ WorkerInlines(t, x)
       PROVE  DataTypeOK'
  <2>1. t \in WDs /\ <<>> \in Seq(WDs) /\ <<t>> \in Seq(WDs) /\ "idle" \in Places
    BY <1>19, Names DEF Places
  <2>2. ready' \in Seq(WDs) /\ nexts' \in [Threads -> Seq(WDs)]
    BY <1>19, <2>1, TakeType DEF WorkerSwitches, WorkerInlines
  <2>3. SwitchStacks(t, t, "idle", x) \/ InlineWork(t, t, "idle", x)
    BY <1>19 DEF WorkerSwitches, WorkerInlines
  <2> QED
    BY <1>19, <2>1, <2>2, <2>3, SwitchType DEF DataTypeOK, WorkerSwitches, WorkerInlines
<1> QED
  BY <1>1, <1>2, <1>3, <1>4, <1>5, <1>6, <1>7, <1>8, <1>9, <1>10, <1>11, <1>12, <1>13,
     <1>15, <1>16, <1>17, <1>18, <1>19
     DEF Next, Step, Program, Wait, ExitWork, Leave, Worker

-----------------------------------------------------------------------------
(* Most steps are calm: they leave the counters alone, and move each WD     *)
(* only between places that the counters do not tell apart.                 *)

Moves(v) ==
    \/ pc[v] = "new" /\ pc'[v] = "body" /\ ending'[v] = ending[v]
    \/ pc[v] = "body" /\ pc'[v] = "wait"
    \/ pc[v] = "wait" /\ pc'[v] = "drain" /\ ending'[v] = ending[v] /\ comps[v] = 0
    \/ /\ <<pc[v], pc'[v]>> \in {<<"wait", "locked">>, <<"locked", "wait">>,
                                <<"locked", "blocked">>, <<"blocked", "wait">>}
       /\ ending'[v] = ending[v]
    \/ pc[v] = "drain" /\ pc'[v] = "body" /\ ~ending[v] /\ ~ending'[v]
    \/ /\ pc[v] = "drain" /\ ending[v] /\ ending'[v] /\ refs[v] = 0
       /\ pc'[v] = IF v = Main THEN "done" ELSE "ref"
    \/ /\ <<pc[v], pc'[v]>> \in {<<"signal", "unref">>, <<"leave", "gone">>,
                                <<"leave", "seek">>, <<"seek", "gone">>}
       /\ ending'[v] = ending[v]

Calm ==
    /\ UNCHANGED <<comps, refs>>
    /\ \A v \in WDs : (pc'[v] = pc[v] /\ ending'[v] = ending[v]) \/ (v \in UserWDs /\ Moves(v))

LEMMA GroupsFinite ==
    \A p : IsFiniteSet(Counted(p)) /\ IsFiniteSet(Signalling(p))
<1> TAKE p
<1>1. Counted(p) \subseteq Tasks /\ Signalling(p) \subseteq Tasks
  BY DEF Counted, Signalling
<1> QED
  BY <1>1, TasksAssumption, FS_Subset

LEMMA CalmKeeps ==
  ASSUME DataTypeOK, DataTypeOK', IdleInv, GroupInv, JoinInv, Calm
  PROVE  IdleInv' /\ GroupInv' /\ JoinInv'
<1>1. ASSUME NEW w \in Tasks
      PROVE  /\ pc'[w] \notin {"unborn"} \cup Discounted <=> pc[w] \notin {"unborn"} \cup Discounted
             /\ pc'[w] \in {"dec", "signal", "unref"} <=> pc[w] \in {"dec", "signal", "unref"}
  <2>1. w \in WDs /\ w # Main
    BY Names
  <2>2. pc'[w] = pc[w] \/ Moves(w)
    BY <2>1 DEF Calm
  <2> QED
    BY <2>1, <2>2 DEF Moves, Discounted
<1>2. \A p \in WDs : Counted(p)' = Counted(p) /\ Signalling(p)' = Signalling(p)
  BY <1>1 DEF Counted, Signalling
<1>3. GroupInv'
  BY <1>2 DEF GroupInv, Calm
<1>4. ASSUME NEW p \in UserWDs
      PROVE  /\ pc'[p] \in {"unborn", "new", "drain"} \cup Joined => comps'[p] = 0
             /\ pc'[p] \in {"unborn", "new"} \cup Joined => refs'[p] = 0
             /\ pc'[p] \in {"unborn", "new", "body"} => ~ending'[p]
             /\ pc'[p] \in Joined => ending'[p]
  <2>1. p \in WDs /\ comps'[p] = comps[p] /\ refs'[p] = refs[p]
    BY Names DEF Calm
  <2>2. CASE pc'[p] = pc[p] /\ ending'[p] = ending[p]
    BY <2>1, <2>2 DEF JoinInv
  <2>3. CASE Moves(p)
    BY <2>1, <2>3 DEF JoinInv, Moves, Joined, Discounted
  <2> QED
    BY <2>1, <2>2, <2>3 DEF Calm
<1>5. IdleInv'
  BY Names DEF IdleInv, Calm, Moves
<1> QED
  BY <1>3, <1>4, <1>5 DEF JoinInv

\* What a queue gives to a thread may run on it.
LEMMA PopCanRun ==
  ASSUME NEW t, NEW x, NEW back, PopNext(t, x, back) \/ PopReady(t, x, back)
  PROVE  ULT \/ pc[x] = "new"
  BY DEF PopNext, PopReady, First, CanRun

LEMMA SwitchCalm ==
  ASSUME DataTypeOK, IdleInv, NEW t \in Threads, NEW w \in WDs, NEW place, NEW x \in WDs,
         SwitchStacks(t, w, place, x) \/ (InlineWork(t, w, place, x) /\ pc[x] = "new"),
         w \in UserWDs \/ pc[w] = place, place # "new",
         <<pc[w], place>> \in {<<"body", "body">>, <<"idle", "idle">>, <<"locked", "blocked">>,
                               <<"locked", "wait">>, <<"leave", "gone">>, <<"seek", "gone">>},
         UNCHANGED <<comps, refs, ending>>
  PROVE  Calm
<1> SUFFICES ASSUME NEW v \in WDs
             PROVE  (pc'[v] = pc[v] /\ ending'[v] = ending[v]) \/ (v \in UserWDs /\ Moves(v))
  BY DEF Calm
<1>1. pc[x] = "new" => x \in UserWDs
  BY DEF IdleInv, WDs
<1>2. ending'[v] = ending[v] /\ pc[w] # "new"
  OBVIOUS
<1>3. pc' = [pc EXCEPT ![w] = place, ![x] = Started(x)]
  BY DEF SwitchStacks, InlineWork, Started
<1>4. CASE v = x
  <2>1. pc'[v] = Started(x)
    BY <1>3, <1>4 DEF DataTypeOK
  <2> QED
    BY <1>1, <1>2, <1>4, <2>1 DEF Started, Moves
<1>5. CASE v # x /\ v = w
  <2>1. pc'[v] = place
    BY <1>3, <1>5 DEF DataTypeOK
  <2> QED
    BY <1>2, <1>5, <2>1 DEF Moves
<1>6. CASE v # x /\ v # w
  BY <1>2, <1>3, <1>6 DEF DataTypeOK
<1> QED
  BY <1>4, <1>5, <1>6

\* The steps that are not calm.
Counting(t) ==
    \/ \E w \in UserWDs, c \in Tasks : Spawn(t, w, c)
    \/ \E w \in Tasks : Reference(t, w) \/ Decrement(t, w) \/ Unreference(t, w)

LEMMA CalmSteps ==
  ASSUME DataTypeOK, IdleInv, JoinInv, NEW t \in Threads, Step(t)
  PROVE  Calm \/ Counting(t)
<1> USE DEF queues, group, exit, counts, At, Move
<1>1. ASSUME NEW w \in UserWDs, Taskwait(t, w) \/ WaitPass(t, w) \/ Lock(t, w) \/ NoNext(t, w)
      PROVE  Calm
  BY <1>1, Names DEF Taskwait, WaitPass, Lock, NoNext, Calm, Moves, DataTypeOK
<1>2. ASSUME NEW w \in UserWDs, NEW x \in WDs, Yield(t, w, x) PROVE Calm
  <2>1. ULT \/ pc[x] = "new"
    BY <1>2, PopCanRun DEF Yield
  <2>2. SwitchStacks(t, w, "body", x) \/ (InlineWork(t, w, "body", x) /\ pc[x] = "new")
    BY <1>2, <2>1 DEF Yield
  <2>3. pc[w] = "body" /\ w \in WDs /\ UNCHANGED <<comps, refs, ending>>
    BY <1>2, Names DEF Yield
  <2> QED
    BY <2>2, <2>3, SwitchCalm
<1>3. ASSUME NEW w \in UserWDs, End(t, w) PROVE Calm
  BY <1>3, Names DEF End, Calm, Moves, DataTypeOK
<1>4. ASSUME NEW w \in UserWDs, NEW x \in WDs, SwitchAway(t, w, x) PROVE Calm
  <2>1. ULT \/ pc[x] = "new"
    BY <1>4, PopCanRun DEF SwitchAway, Take
  <2>2. \/ SwitchStacks(t, w, "blocked", x)
        \/ (InlineWork(t, w, "wait", x) /\ pc[x] = "new")
    BY <1>4, <2>1 DEF SwitchAway
  <2>3. pc[w] = "locked" /\ w \in WDs /\ UNCHANGED <<comps, refs, ending>>
    BY <1>4, Names DEF SwitchAway
  <2> QED
    BY <2>2, <2>3, SwitchCalm
<1>5. ASSUME NEW w \in UserWDs, Drain(t, w) PROVE Calm
  BY <1>5, Names DEF Drain, AfterWait, Calm, Moves, DataTypeOK
<1>6. ASSUME NEW w \in Tasks, Signal(t, w) PROVE Calm
  <2>1. w \in WDs /\ Parent[w] \in UserWDs /\ Parent[w] \in WDs /\ w \in UserWDs
    BY Names
  <2> QED
    BY <1>6, <2>1 DEF Signal, Calm, Moves, DataTypeOK
<1>7. ASSUME NEW w \in Tasks, BackUnder(t, w) \/ ExitIdle(t, w) PROVE Calm
  BY <1>7, Names DEF BackUnder, ExitIdle, Calm, Moves, DataTypeOK
<1>8. ASSUME NEW w \in Tasks, NEW x \in WDs, ExitTo(t, w, x), pc[w] \in {"leave", "seek"}
      PROVE  Calm
  <2>1. w \in UserWDs /\ w \in WDs /\ UNCHANGED <<comps, refs, ending>>
    BY <1>8, Names DEF ExitTo
  <2> QED
    BY <1>8, <2>1, SwitchCalm DEF ExitTo
<1>9. ASSUME NEW w \in Tasks, ExitToHeld(t, w) PROVE Calm
  <2>1. held[w] \in WDs
    BY <1>9, Names DEF DataTypeOK, ExitToHeld
  <2> QED
    BY <1>8, <1>9, <2>1 DEF ExitToHeld
<1>10. ASSUME NEW w \in Tasks, NEW x \in WDs, ExitToNext(t, w, x) \/ Seek(t, w, x) PROVE Calm
  BY <1>8, <1>10 DEF ExitToNext, Seek
<1>11. CASE StopScheduler(t) \/ StartScheduler(t)
  BY <1>11 DEF StopScheduler, StartScheduler, Calm
<1>12. ASSUME NEW x \in WDs, t \in Workers, WorkerSwitches(t, x) \/ WorkerInlines(t, x)
       PROVE  Calm
  <2>1. \/ SwitchStacks(t, t, "idle", x)
        \/ (InlineWork(t, t, "idle", x) /\ pc[x] = "new")
    BY <1>12 DEF WorkerSwitches, WorkerInlines
  <2>2. pc[t] = "idle" /\ t \in WDs /\ UNCHANGED <<comps, refs, ending>>
    BY <1>12, Names DEF WorkerSwitches, WorkerInlines
  <2> QED
    BY <2>1, <2>2, SwitchCalm
<1> QED
  BY <1>1, <1>2, <1>3, <1>4, <1>5, <1>6, <1>7, <1>9, <1>10, <1>11, <1>12
     DEF Step, Program, Wait, ExitWork, Leave, Worker, Counting

-----------------------------------------------------------------------------
(* The steps that count. *)

CountersOK == comps \in [WDs -> Nat] /\ refs \in [WDs -> Nat]

Inv == DataTypeOK /\ CountersOK /\ IdleInv /\ GroupInv /\ JoinInv

\* A task that is counted, or signals, makes its parent's counter positive.
LEMMA CountedPositive ==
  ASSUME CountersOK, GroupInv, NEW w \in Tasks
  PROVE  /\ w \in Counted(Parent[w]) => comps[Parent[w]] > 0
         /\ w \in Signalling(Parent[w]) => refs[Parent[w]] > 0
<1> DEFINE p == Parent[w]
<1>1. p \in WDs
  BY Names
<1>2. IsFiniteSet(Counted(p)) /\ IsFiniteSet(Signalling(p))
  BY GroupsFinite
<1>3. ASSUME NEW S, IsFiniteSet(S), w \in S PROVE Cardinality(S) > 0
  BY <1>3, FS_EmptySet, FS_CardinalityType
<1> QED
  BY <1>1, <1>2, <1>3 DEF GroupInv

\* The counters of a group follow the sets they count.
LEMMA CountOne ==
  ASSUME NEW S, NEW T, NEW w, IsFiniteSet(S), IsFiniteSet(T)
  PROVE  /\ w \notin S /\ T = S \cup {w} => Cardinality(T) = Cardinality(S) + 1
         /\ w \in S /\ T = S \ {w} => Cardinality(T) = Cardinality(S) - 1
  BY FS_AddElement, FS_RemoveElement

LEMMA SpawnKeeps ==
  ASSUME Inv, NEW t \in Threads, NEW w \in UserWDs, NEW c \in Tasks, Spawn(t, w, c)
  PROVE  CountersOK' /\ IdleInv' /\ GroupInv' /\ JoinInv'
<1> USE DEF Inv, Spawn, At, exit
<1>1. /\ w \in WDs /\ c \in WDs /\ c \in UserWDs /\ Parent[c] = w /\ pc[w] = "body" /\ w # c
      /\ pc' = [pc EXCEPT ![c] = "new"] /\ pc[c] = "unborn" /\ ending' = ending
      /\ comps' = [comps EXCEPT ![w] = @ + 1] /\ refs' = refs
  BY Names
<1>2. CountersOK'
  BY <1>1 DEF CountersOK
<1>3. IdleInv'
  BY <1>1 DEF IdleInv, DataTypeOK
<1>4. c \notin Counted(w) /\ Counted(w)' = Counted(w) \cup {c}
  BY <1>1, Names DEF Counted, Discounted, DataTypeOK
<1>5. \A p \in WDs : (p # w => Counted(p)' = Counted(p)) /\ Signalling(p)' = Signalling(p)
  BY <1>1, Names DEF Counted, Signalling, Discounted, DataTypeOK
<1>6. IsFiniteSet(Counted(w)) /\ IsFiniteSet(Counted(w)')
  BY GroupsFinite, <1>4, FS_AddElement
<1>7. Cardinality(Counted(w)') = Cardinality(Counted(w)) + 1
  BY <1>4, <1>6, CountOne
<1>8. GroupInv'
  BY <1>1, <1>5, <1>7 DEF GroupInv, CountersOK
<1>9. JoinInv'
  BY <1>1, Names DEF JoinInv, CountersOK, DataTypeOK, Joined, Discounted
<1> QED
  BY <1>2, <1>3, <1>8, <1>9

LEMMA ReferenceKeeps ==
  ASSUME Inv, NEW t \in Threads, NEW w \in Tasks, Reference(t, w)
  PROVE  CountersOK' /\ IdleInv' /\ GroupInv' /\ JoinInv'
<1> USE DEF Inv
<1> DEFINE p == Parent[w]
<1>1. /\ w \in WDs /\ w \in UserWDs /\ p \in UserWDs /\ p \in WDs
      /\ pc' = [pc EXCEPT ![w] = "dec"] /\ pc[w] = "ref" /\ ending' = ending
      /\ comps' = comps /\ refs' = [refs EXCEPT ![p] = @ + 1]
  BY Names DEF Reference, Move, At, exit
<1>2. w \in Counted(p)
  BY <1>1 DEF Counted, Discounted
<1>3. comps[p] > 0
  BY <1>2, CountedPositive
<1> HIDE DEF p
<1>4. CountersOK'
  BY <1>1 DEF CountersOK
<1>5. IdleInv'
  BY <1>1 DEF IdleInv, DataTypeOK
<1>6. w \notin Signalling(p) /\ Signalling(p)' = Signalling(p) \cup {w}
  BY <1>1, Names DEF Signalling, DataTypeOK, p
<1>7. \A q \in WDs : (q # p => Signalling(q)' = Signalling(q)) /\ Counted(q)' = Counted(q)
  BY <1>1, Names DEF Counted, Signalling, Discounted, DataTypeOK, p
<1>8. IsFiniteSet(Signalling(p)) /\ IsFiniteSet(Signalling(p)')
  BY GroupsFinite, <1>6, FS_AddElement
<1>9. Cardinality(Signalling(p)') = Cardinality(Signalling(p)) + 1
  BY <1>6, <1>8, CountOne
<1>10. GroupInv'
  BY <1>1, <1>7, <1>9 DEF GroupInv, CountersOK
<1>11. JoinInv'
  BY <1>1, <1>3, Names DEF JoinInv, CountersOK, DataTypeOK, Joined, Discounted
<1> QED
  BY <1>4, <1>5, <1>10, <1>11

LEMMA DecrementKeeps ==
  ASSUME Inv, NEW t \in Threads, NEW w \in Tasks, Decrement(t, w)
  PROVE  CountersOK' /\ IdleInv' /\ GroupInv' /\ JoinInv'
<1> USE DEF Inv
<1> DEFINE p == Parent[w]
<1>1. /\ w \in WDs /\ w \in UserWDs /\ p \in UserWDs /\ p \in WDs
      /\ pc' = [pc EXCEPT ![w] = IF comps[p] = 1 THEN "signal" ELSE "unref"] /\ pc[w] = "dec"
      /\ ending' = ending /\ comps' = [comps EXCEPT ![p] = @ - 1] /\ refs' = refs
  BY Names DEF Decrement, Move, At, exit
<1>2. w \in Counted(p)
  BY <1>1 DEF Counted, Discounted
<1>3. comps[p] > 0
  BY <1>2, CountedPositive
<1> HIDE DEF p
<1>4. CountersOK'
  BY <1>1, <1>3 DEF CountersOK
<1>5. IdleInv'
  BY <1>1 DEF IdleInv, DataTypeOK
<1>6. Counted(p)' = Counted(p) \ {w}
  BY <1>1, Names DEF Counted, Discounted, DataTypeOK, p
<1>7. \A q \in WDs : (q # p => Counted(q)' = Counted(q)) /\ Signalling(q)' = Signalling(q)
  BY <1>1, Names DEF Counted, Signalling, Discounted, DataTypeOK, p
<1>8. IsFiniteSet(Counted(p)) /\ IsFiniteSet(Counted(p)')
  BY GroupsFinite, <1>6, FS_RemoveElement
<1>9. Cardinality(Counted(p)') = Cardinality(Counted(p)) - 1
  BY <1>2, <1>6, <1>8, CountOne
<1>10. GroupInv'
  BY <1>1, <1>7, <1>9 DEF GroupInv, CountersOK
<1>11. JoinInv'
  BY <1>1, <1>3, Names DEF JoinInv, CountersOK, DataTypeOK, Joined, Discounted
<1> QED
  BY <1>4, <1>5, <1>10, <1>11

LEMMA UnreferenceKeeps ==
  ASSUME Inv, NEW t \in Threads, NEW w \in Tasks, Unreference(t, w)
  PROVE  CountersOK' /\ IdleInv' /\ GroupInv' /\ JoinInv'
<1> USE DEF Inv
<1> DEFINE p == Parent[w]
<1>1. /\ w \in WDs /\ w \in UserWDs /\ p \in UserWDs /\ p \in WDs
      /\ pc' = [pc EXCEPT ![w] = "leave"] /\ pc[w] = "unref" /\ ending' = ending
      /\ comps' = comps /\ refs' = [refs EXCEPT ![p] = @ - 1]
  BY Names DEF Unreference, Move, At, exit
<1>2. w \in Signalling(p)
  BY <1>1 DEF Signalling
<1>3. refs[p] > 0
  BY <1>2, CountedPositive
<1> HIDE DEF p
<1>4. CountersOK'
  BY <1>1, <1>3 DEF CountersOK
<1>5. IdleInv'
  BY <1>1 DEF IdleInv, DataTypeOK
<1>6. Signalling(p)' = Signalling(p) \ {w}
  BY <1>1, Names DEF Signalling, DataTypeOK, p
<1>7. \A q \in WDs : (q # p => Signalling(q)' = Signalling(q)) /\ Counted(q)' = Counted(q)
  BY <1>1, Names DEF Counted, Signalling, Discounted, DataTypeOK, p
<1>8. IsFiniteSet(Signalling(p)) /\ IsFiniteSet(Signalling(p)')
  BY GroupsFinite, <1>6, FS_RemoveElement
<1>9. Cardinality(Signalling(p)') = Cardinality(Signalling(p)) - 1
  BY <1>2, <1>6, <1>8, CountOne
<1>10. GroupInv'
  BY <1>1, <1>7, <1>9 DEF GroupInv, CountersOK
<1>11. JoinInv'
  BY <1>1, <1>3, Names DEF JoinInv, CountersOK, DataTypeOK, Joined, Discounted
<1> QED
  BY <1>4, <1>5, <1>10, <1>11

-----------------------------------------------------------------------------
(* The theorems *)

LEMMA InitInv == Init => Inv
<1> SUFFICES ASSUME Init PROVE Inv
  OBVIOUS
<1>1. DataTypeOK
  BY DataTypeInit
<1>2. CountersOK /\ IdleInv
  BY Names DEF Init, CountersOK, IdleInv
<1>3. \A p : Counted(p) = {} /\ Signalling(p) = {}
  BY Names DEF Init, Counted, Signalling
<1>4. GroupInv
  BY <1>3, FS_EmptySet DEF Init, GroupInv
<1>5. JoinInv
  BY Names DEF Init, JoinInv, Joined, Discounted
<1> QED
  BY <1>1, <1>2, <1>4, <1>5 DEF Inv

LEMMA StepInv == Inv /\ [Next]_vars => Inv'
<1> SUFFICES ASSUME Inv, [Next]_vars PROVE Inv'
  OBVIOUS
<1>1. DataTypeOK'
  BY DataTypeStep DEF Inv
<1>2. CASE Calm
  <2>1. IdleInv' /\ GroupInv' /\ JoinInv'
    BY <1>1, <1>2, CalmKeeps DEF Inv
  <2> QED
    BY <1>1, <1>2, <2>1 DEF Inv, CountersOK, Calm
<1>3. ASSUME NEW t \in Threads, Counting(t) PROVE Inv'
  BY <1>1, <1>3, SpawnKeeps, ReferenceKeeps, DecrementKeeps, UnreferenceKeeps DEF Counting, Inv
<1>4. CASE UNCHANGED vars
  BY <1>2, <1>4 DEF vars, group, exit, Calm
<1>5. CASE Next
  BY <1>2, <1>3, <1>5, CalmSteps DEF Next, Inv
<1> QED
  BY <1>4, <1>5

LEMMA InvAlways == Spec => []Inv
  BY InitInv, StepInv, PTL DEF Spec

LEMMA InvIsInductive == Inv <=> Inductive
  BY DEF Inv, Inductive, TypeOK, DataTypeOK, CountersOK

(* The inductive invariant: the counters of every group count what they
   should, whatever the threads do (WorkGroup::addWork, exitWork). *)
THEOREM InductiveInvariant == Spec => []Inductive
  BY InvAlways, InvIsInductive, PTL

(* Every variable keeps its range; in particular no reference count and no
   _components ever drops below zero. *)
THEOREM TypeCorrect == Spec => []TypeOK
<1>1. Inductive => TypeOK
  BY DEF Inductive
<1> QED
  BY <1>1, InductiveInvariant, PTL

(* A task inside its parent's exitWork finds the parent alive
   (WorkGroup::exitWork, SynchronizedCondition::waitConditionAndSignalers). *)
THEOREM NoUseAfterFreeHolds == Spec => []NoUseAfterFree
<1>1. Inv => NoUseAfterFree
  <2> SUFFICES ASSUME Inv, NEW w \in Tasks, pc[w] \in {"ref", "dec", "signal", "unref"}
               PROVE  pc[Parent[w]] \in {"body", "wait", "locked", "blocked", "drain"}
    BY DEF NoUseAfterFree
  <2> DEFINE p == Parent[w]
  <2>1. p \in UserWDs /\ p \in WDs /\ p \notin Workers
    BY Names
  <2>2. w \in Counted(p) \/ w \in Signalling(p)
    BY DEF Counted, Signalling, Discounted
  <2>3. comps[p] # 0 \/ refs[p] # 0
    BY <2>2, CountedPositive DEF Inv
  <2> HIDE DEF p
  <2>4. pc[p] \notin {"unborn", "new", "idle"} \cup Joined
    BY <2>1, <2>3 DEF Inv, JoinInv, IdleInv, Joined, Discounted
  <2>5. pc[p] \in Places
    BY <2>1 DEF Inv, DataTypeOK
  <2> QED
    BY <2>4, <2>5 DEF Places, Joined, Discounted, p
<1> QED
  BY <1>1, InvAlways, PTL

-----------------------------------------------------------------------------
(* The refinement of ForkJoin *)

\* Nobody in user code, or past the check of its wait, moves.
Still == \A v \in WDs : pc[v] \in {"body", "drain"} => pc'[v] = pc[v]

SameStages == \A v \in UserWDs : Stage(v)' = Stage(v)

LEMMA StillStages ==
  ASSUME DataTypeOK, DataTypeOK', IdleInv, Calm, Still
  PROVE  SameStages
<1> SUFFICES ASSUME NEW v \in UserWDs PROVE Stage(v)' = Stage(v)
  BY DEF SameStages
<1>1. v \in WDs
  BY Names
<1>2. CASE pc'[v] = pc[v] /\ ending'[v] = ending[v]
  BY <1>2 DEF Stage
<1>3. CASE Moves(v)
  <2>1. \/ pc[v] = "new" /\ pc'[v] = "body"
        \/ /\ pc[v] \in {"wait", "locked", "blocked"}
           /\ pc'[v] \in {"wait", "locked", "blocked", "drain"}
           /\ ending'[v] = ending[v]
        \/ /\ pc[v] \in {"signal", "leave", "seek"}
           /\ pc'[v] \in {"unref", "gone", "seek"}
    BY <1>1, <1>3 DEF Still, Moves
  <2> QED
    BY <2>1 DEF Stage
<1> QED
  BY <1>1, <1>2, <1>3 DEF Calm

LEMMA SwitchStill ==
  ASSUME DataTypeOK, NEW t \in Threads, NEW w \in WDs, NEW place, NEW x \in WDs,
         SwitchStacks(t, w, place, x) \/ (InlineWork(t, w, place, x) /\ pc[x] = "new"),
         pc[w] \in {"body", "drain"} => place = pc[w]
  PROVE  Still
<1>1. pc' = [pc EXCEPT ![w] = place, ![x] = Started(x)]
  BY DEF SwitchStacks, InlineWork, Started
<1> QED
  BY <1>1 DEF Still, Started, DataTypeOK

\* The steps of a WD that change its stage.
Turning(t) ==
    \/ \E w \in UserWDs : Taskwait(t, w) \/ End(t, w) \/ Drain(t, w)
    \/ Counting(t)

LEMMA StillSteps ==
  ASSUME Inv, NEW t \in Threads, Step(t)
  PROVE  Still \/ Turning(t)
<1> USE DEF Inv, At, Move
<1>1. ASSUME NEW w \in UserWDs, WaitPass(t, w) \/ Lock(t, w) \/ NoNext(t, w) PROVE Still
  BY <1>1, Names DEF WaitPass, Lock, NoNext, Still, DataTypeOK
<1>2. ASSUME NEW w \in UserWDs, NEW x \in WDs, Yield(t, w, x) PROVE Still
  <2>1. ULT \/ pc[x] = "new"
    BY <1>2, PopCanRun DEF Yield
  <2>2. SwitchStacks(t, w, "body", x) \/ (InlineWork(t, w, "body", x) /\ pc[x] = "new")
    BY <1>2, <2>1 DEF Yield
  <2>3. pc[w] = "body" /\ w \in WDs
    BY <1>2, Names DEF Yield
  <2> QED
    BY <2>2, <2>3, SwitchStill
<1>4. ASSUME NEW w \in UserWDs, NEW x \in WDs, SwitchAway(t, w, x) PROVE Still
  <2>1. ULT \/ pc[x] = "new"
    BY <1>4, PopCanRun DEF SwitchAway, Take
  <2>2. \/ SwitchStacks(t, w, "blocked", x)
        \/ (InlineWork(t, w, "wait", x) /\ pc[x] = "new")
    BY <1>4, <2>1 DEF SwitchAway
  <2>3. pc[w] = "locked" /\ w \in WDs
    BY <1>4, Names DEF SwitchAway
  <2> QED
    BY <2>2, <2>3, SwitchStill
<1>6. ASSUME NEW w \in Tasks, Signal(t, w) PROVE Still
  BY <1>6, Names DEF Signal, Still, DataTypeOK
<1>7. ASSUME NEW w \in Tasks, BackUnder(t, w) \/ ExitIdle(t, w) PROVE Still
  BY <1>7, Names DEF BackUnder, ExitIdle, Still, DataTypeOK
<1>8. ASSUME NEW w \in Tasks, NEW x \in WDs, ExitTo(t, w, x), pc[w] \in {"leave", "seek"}
      PROVE  Still
  BY <1>8, Names, SwitchStill DEF ExitTo
<1>9. ASSUME NEW w \in Tasks, ExitToHeld(t, w) PROVE Still
  <2>1. held[w] \in WDs
    BY <1>9, Names DEF DataTypeOK, ExitToHeld
  <2> QED
    BY <1>8, <1>9, <2>1 DEF ExitToHeld
<1>10. ASSUME NEW w \in Tasks, NEW x \in WDs, ExitToNext(t, w, x) \/ Seek(t, w, x) PROVE Still
  BY <1>8, <1>10 DEF ExitToNext, Seek
<1>11. CASE StopScheduler(t) \/ StartScheduler(t)
  BY <1>11 DEF StopScheduler, StartScheduler, Still
<1>12. ASSUME NEW x \in WDs, t \in Workers, WorkerSwitches(t, x) \/ WorkerInlines(t, x)
       PROVE  Still
  <2>1. \/ SwitchStacks(t, t, "idle", x)
        \/ (InlineWork(t, t, "idle", x) /\ pc[x] = "new")
    BY <1>12 DEF WorkerSwitches, WorkerInlines
  <2>2. pc[t] = "idle" /\ t \in WDs
    BY <1>12, Names DEF WorkerSwitches, WorkerInlines
  <2> QED
    BY <2>1, <2>2, SwitchStill
<1> QED
  BY <1>1, <1>2, <1>4, <1>6, <1>7, <1>9, <1>10, <1>11, <1>12
     DEF Step, Program, Wait, ExitWork, Leave, Worker, Counting, Turning

LEMMA StageMoves ==
  ASSUME NEW v \in UserWDs, NEW from, NEW to, Stage(v) = from, Stage(v)' = to,
         \A u \in UserWDs : u # v => Stage(u)' = Stage(u)
  PROVE  Abstract!Move(v, from, to)
  BY DEF Abstract!Move

LEMMA ChildrenJoined ==
  ASSUME Inv, NEW p \in UserWDs, comps[p] = 0
  PROVE  Abstract!Joined(p)
<1>1. Counted(p) = {}
  BY Names, GroupsFinite, FS_EmptySet DEF Inv, GroupInv
<1>2. SUFFICES ASSUME NEW c \in Tasks, Parent[c] = p PROVE Stage(c) \in {"unborn", "finished"}
  BY Names DEF Abstract!Joined, Abstract!Children
<1>3. pc[c] \in {"unborn"} \cup Discounted
  BY <1>1, <1>2 DEF Counted
<1> QED
  BY <1>3 DEF Discounted, Stage

\* A step that moves w alone and leaves every task's ending alone.
LEMMA MovesAlone ==
  ASSUME DataTypeOK, NEW v \in UserWDs, NEW to, pc' = [pc EXCEPT ![v] = to],
         \A u \in UserWDs : u # v => ending'[u] = ending[u]
  PROVE  pc'[v] = to /\ \A u \in UserWDs : u # v => Stage(u)' = Stage(u)
  BY Names DEF DataTypeOK, Stage

LEMMA TurnSteps ==
  ASSUME Inv, NEW t \in Threads, Turning(t)
  PROVE  Abstract!Next \/ SameStages
<1> USE DEF Inv, Move, At, exit
<1>1. ASSUME NEW w \in UserWDs, Taskwait(t, w) PROVE Abstract!Taskwait(w)
  <2>1. /\ pc[w] = "body" /\ pc' = [pc EXCEPT ![w] = "wait"] /\ ending' = ending
        /\ ~ending[w]
    BY <1>1 DEF Taskwait, JoinInv
  <2>2. pc'[w] = "wait" /\ ending'[w] = ending[w]
    BY <2>1, MovesAlone
  <2>3. Stage(w) = "running" /\ Stage(w)' = "joining"
    BY <2>1, <2>2 DEF Stage
  <2> QED
    BY <2>1, <2>3, MovesAlone, StageMoves DEF Abstract!Taskwait
<1>2. ASSUME NEW w \in UserWDs, End(t, w) PROVE Abstract!End(w)
  <2>1. /\ pc[w] = "body" /\ pc' = [pc EXCEPT ![w] = "wait"]
        /\ ending' = [ending EXCEPT ![w] = TRUE]
    BY <1>2 DEF End
  <2>2. ending'[w] /\ \A u \in UserWDs : u # w => ending'[u] = ending[u]
    BY <2>1, Names DEF DataTypeOK
  <2>3. pc'[w] = "wait"
    BY <2>1, <2>2, MovesAlone
  <2>4. Stage(w) = "running" /\ Stage(w)' = "ending"
    BY <2>1, <2>2, <2>3 DEF Stage
  <2> QED
    BY <2>1, <2>2, <2>4, MovesAlone, StageMoves DEF Abstract!End
<1>3. ASSUME NEW w \in UserWDs, Drain(t, w)
      PROVE  Abstract!Join(w) \/ Abstract!Finish(w) \/ SameStages
  <2>1. /\ pc[w] = "drain" /\ pc' = [pc EXCEPT ![w] = AfterWait(w)] /\ ending' = ending
    BY <1>3 DEF Drain
  <2>2. Abstract!Joined(w)
    BY <2>1, ChildrenJoined DEF JoinInv
  <2>3. pc'[w] = AfterWait(w) /\ \A u \in UserWDs : u # w => Stage(u)' = Stage(u)
    BY <2>1, MovesAlone
  <2>4. CASE ~ending[w]
    <3>1. Stage(w) = "joining" /\ Stage(w)' = "running"
      BY <2>1, <2>3, <2>4 DEF Stage, AfterWait
    <3> QED
      BY <2>2, <2>3, <3>1, StageMoves DEF Abstract!Join
  <2>5. CASE ending[w] /\ w = Main
    <3>1. Stage(w) = "ending" /\ Stage(w)' = "finished"
      BY <2>1, <2>3, <2>5 DEF Stage, AfterWait
    <3> QED
      BY <2>2, <2>3, <3>1, StageMoves DEF Abstract!Finish
  <2>6. CASE ending[w] /\ w # Main
    <3>1. Stage(w) = "ending" /\ Stage(w)' = "ending"
      BY <2>1, <2>3, <2>6 DEF Stage, AfterWait
    <3> QED
      BY <2>3, <3>1 DEF SameStages
  <2> QED
    BY <2>4, <2>5, <2>6
<1>4. ASSUME NEW w \in UserWDs, NEW c \in Tasks, Spawn(t, w, c)
      PROVE  Abstract!Create(Parent[c], c)
  <2>1. /\ c \in UserWDs /\ Parent[c] = w /\ pc[w] = "body" /\ pc[c] = "unborn"
        /\ pc' = [pc EXCEPT ![c] = "new"] /\ ending' = ending
    BY <1>4, Names DEF Spawn
  <2>2. pc'[c] = "new"
    BY <2>1, MovesAlone
  <2>3. Stage(w) = "running" /\ Stage(c) = "unborn" /\ Stage(c)' = "running"
    BY <2>1, <2>2 DEF Stage
  <2> QED
    BY <2>1, <2>3, MovesAlone, StageMoves DEF Abstract!Create
<1>5. ASSUME NEW w \in Tasks, Reference(t, w) \/ Unreference(t, w) PROVE SameStages
  <2>1. /\ ending' = ending /\ w \in UserWDs
        /\ \/ pc[w] = "ref" /\ pc' = [pc EXCEPT ![w] = "dec"]
           \/ pc[w] = "unref" /\ pc' = [pc EXCEPT ![w] = "leave"]
    BY <1>5, Names DEF Reference, Unreference
  <2>2. \/ pc[w] = "ref" /\ pc'[w] = "dec"
        \/ pc[w] = "unref" /\ pc'[w] = "leave"
    BY <2>1, MovesAlone
  <2>3. Stage(w)' = Stage(w)
    BY <2>2 DEF Stage
  <2> QED
    BY <2>1, <2>3, MovesAlone DEF SameStages
<1>6. ASSUME NEW w \in Tasks, Decrement(t, w) PROVE Abstract!Finish(w)
  <2> DEFINE to == IF comps[Parent[w]] = 1 THEN "signal" ELSE "unref"
  <2>1. /\ ending' = ending /\ w \in UserWDs /\ pc[w] = "dec"
        /\ pc' = [pc EXCEPT ![w] = to]
    BY <1>6, Names DEF Decrement
  <2>2. Abstract!Joined(w)
    BY <2>1, ChildrenJoined DEF JoinInv, Joined
  <2>3. pc'[w] \in {"signal", "unref"}
    BY <2>1, MovesAlone
  <2>4. Stage(w) = "ending" /\ Stage(w)' = "finished"
    BY <2>1, <2>3 DEF Stage
  <2> QED
    BY <2>1, <2>2, <2>4, MovesAlone, StageMoves DEF Abstract!Finish
<1> QED
  BY <1>1, <1>2, <1>3, <1>4, <1>5, <1>6, Names DEF Turning, Counting, Abstract!Next, UserWDs

LEMMA StepImplements ==
  ASSUME Inv, Inv', [Next]_vars
  PROVE  Abstract!Next \/ SameStages
<1>1. CASE UNCHANGED vars
  BY <1>1 DEF vars, exit, SameStages, Stage
<1>2. ASSUME NEW t \in Threads, Step(t) PROVE Abstract!Next \/ SameStages
  <2>1. CASE Turning(t)
    BY <2>1, TurnSteps
  <2>2. CASE ~Turning(t)
    <3>1. Still
      BY <1>2, <2>2, StillSteps
    <3>2. Calm
      BY <1>2, <2>2, CalmSteps DEF Turning, Inv
    <3> QED
      BY <3>1, <3>2, StillStages DEF Inv
  <2> QED
    BY <2>1, <2>2
<1> QED
  BY <1>1, <1>2 DEF Next

(* The scheduler implements ForkJoin: a taskwait returns, and a task finishes,
   only after every child created before it has finished, whatever the queues,
   the switches between stacks and the inlining do (WorkGroup::done,
   waitCompletion, exitWork). *)
THEOREM Refinement == Spec => ImplementsForkJoin
<1>1. Init => Abstract!Init
  BY Names DEF Init, Abstract!Init, Stage, UserWDs
<1>2. Inv /\ Inv' /\ [Next]_vars => [Abstract!Next]_([w \in UserWDs |-> Stage(w)])
  BY StepImplements DEF SameStages
<1> QED
  BY <1>1, <1>2, InvAlways, PTL DEF Spec, ImplementsForkJoin, Abstract!Spec

-----------------------------------------------------------------------------
(* Where every WD is: queues, slots and stacks *)

\* What is left of a queue without repetitions, when the WD at i is taken.
LEMMA RemoveAtOnce ==
  ASSUME NEW S, NEW s \in Seq(S), NEW i \in DOMAIN s, IsInjective(s)
  PROVE  /\ RemoveAt(s, i) \in Seq(S)
         /\ IsInjective(RemoveAt(s, i))
         /\ Range(RemoveAt(s, i)) = Range(s) \ {s[i]}
<1> DEFINE r == RemoveAt(s, i)
           front == SubSeq(s, 1, i - 1)
           back == SubSeq(s, i + 1, Len(s))
<1>1. i \in 1..Len(s) /\ Len(s) \in Nat
  OBVIOUS
<1>2. front \in Seq(S) /\ Len(front) = i - 1 /\ \A j \in 1..(i - 1) : front[j] = s[j]
  BY <1>1, SubSeqProperties
<1>3. back \in Seq(S) /\ Len(back) = Len(s) - i /\ \A j \in 1..(Len(s) - i) : back[j] = s[i + j]
  BY <1>1, SubSeqProperties
<1>4. r = front \o back
  BY DEF RemoveAt
<1> HIDE DEF front, back, r
<1>5. r \in Seq(S) /\ Len(r) = Len(s) - 1
  BY <1>1, <1>2, <1>3, <1>4, ConcatProperties
<1>6. \A j \in 1..(Len(s) - 1) : r[j] = s[IF j < i THEN j ELSE j + 1]
  <2> SUFFICES ASSUME NEW j \in 1..(Len(s) - 1) PROVE r[j] = s[IF j < i THEN j ELSE j + 1]
    OBVIOUS
  <2>0. j \in 1..(Len(front) + Len(back))
    BY <1>1, <1>2, <1>3
  <2>1. r[j] = IF j <= Len(front) THEN front[j] ELSE back[j - Len(front)]
    BY <1>2, <1>3, <1>4, <2>0, ConcatProperties
  <2>2. CASE j < i
    BY <1>1, <1>2, <2>1, <2>2
  <2>3. CASE ~(j < i)
    <3>1. j - (i - 1) \in 1..(Len(s) - i) /\ i + (j - (i - 1)) = j + 1
      BY <1>1, <2>3
    <3>2. r[j] = back[j - (i - 1)]
      BY <1>1, <1>2, <2>1, <2>3
    <3> QED
      BY <1>3, <2>3, <3>1, <3>2
  <2> QED
    BY <2>2, <2>3
<1>7. DOMAIN r = 1..(Len(s) - 1) /\ DOMAIN s = 1..Len(s)
  BY <1>5
<1>8. IsInjective(r)
  <2> SUFFICES ASSUME NEW j \in DOMAIN r, NEW k \in DOMAIN r, r[j] = r[k] PROVE j = k
    BY DEF IsInjective
  <2>1. (IF j < i THEN j ELSE j + 1) \in DOMAIN s /\ (IF k < i THEN k ELSE k + 1) \in DOMAIN s
    BY <1>1, <1>7
  <2>2. (IF j < i THEN j ELSE j + 1) = (IF k < i THEN k ELSE k + 1)
    BY <1>6, <1>7, <2>1 DEF IsInjective
  <2> QED
    BY <1>1, <1>7, <2>2
<1>9. ASSUME NEW j \in DOMAIN r PROVE r[j] \in Range(s) \ {s[i]}
  <2>1. (IF j < i THEN j ELSE j + 1) \in DOMAIN s \ {i}
    BY <1>1, <1>7
  <2> QED
    BY <1>6, <1>7, <2>1 DEF IsInjective, Range
<1>10. ASSUME NEW j \in DOMAIN s, s[j] # s[i] PROVE s[j] \in Range(r)
  <2> DEFINE k == IF j < i THEN j ELSE j - 1
  <2>1. k \in DOMAIN r /\ (IF k < i THEN k ELSE k + 1) = j
    BY <1>1, <1>7, <1>10
  <2>2. r[k] = s[j]
    BY <1>6, <1>7, <2>1
  <2> QED
    BY <2>1, <2>2 DEF Range
<1>11. Range(r) = Range(s) \ {s[i]}
  BY <1>9, <1>10 DEF Range
<1> QED
  BY <1>5, <1>8, <1>11 DEF r

LEMMA AppendOnce ==
  ASSUME NEW S, NEW s \in Seq(S), NEW x \in S, IsInjective(s), x \notin Range(s)
  PROVE  /\ Append(s, x) \in Seq(S)
         /\ IsInjective(Append(s, x))
         /\ Range(Append(s, x)) = Range(s) \cup {x}
<1> DEFINE r == Append(s, x)
<1>1. /\ r \in Seq(S) /\ Len(r) = Len(s) + 1
      /\ \A i \in 1..Len(s) : r[i] = s[i]
      /\ r[Len(s) + 1] = x
  BY AppendProperties
<1> HIDE DEF r
<1>2. Len(s) \in Nat /\ DOMAIN s = 1..Len(s) /\ DOMAIN r = 1..(Len(s) + 1)
  BY <1>1
<1>3. IsInjective(r)
  BY <1>1, <1>2 DEF IsInjective, Range
<1>4. Range(r) = Range(s) \cup {x}
  <2>1. \A i \in DOMAIN r : r[i] \in Range(s) \cup {x}
    BY <1>1, <1>2 DEF Range
  <2>2. \A i \in DOMAIN s : s[i] \in Range(r)
    BY <1>1, <1>2 DEF Range
  <2>3. x \in Range(r)
    BY <1>1, <1>2 DEF Range
  <2> QED
    BY <2>1, <2>2, <2>3 DEF Range
<1> QED
  BY <1>1, <1>3, <1>4 DEF r

\* A queue that gets back a WD, or none.
LEMMA BackOnce ==
  ASSUME NEW S, NEW s \in Seq(S), NEW w \in S, IsInjective(s), w \notin Range(s),
         NEW back, back = <<>> \/ back = <<w>>
  PROVE  /\ IsInjective(s \o back)
         /\ Range(s \o back) = IF back = <<>> THEN Range(s) ELSE Range(s) \cup {w}
<1>1. s \o <<>> = s
  BY ConcatEmptySeq
<1>2. s \o <<w>> = Append(s, w)
  BY AppendIsConcat
<1>3. CASE back = <<>>
  BY <1>1, <1>3
<1>4. CASE back = <<w>>
  <2>1. back # <<>>
    BY <1>4
  <2>2. IsInjective(Append(s, w)) /\ Range(Append(s, w)) = Range(s) \cup {w}
    BY AppendOnce
  <2> QED
    BY <1>2, <1>4, <2>1, <2>2
<1> QED
  BY <1>3, <1>4

LEMMA OnceOfQueues ==
  ASSUME NEW q, NEW T,
         \A t, u \in T : \A i \in DOMAIN q[t], j \in DOMAIN q[u] : q[t][i] = q[u][j] => t = u /\ i = j
  PROVE  /\ \A t \in T : IsInjective(q[t])
         /\ \A t, u \in T : t # u => Range(q[t]) \cap Range(q[u]) = {}
  BY DEF IsInjective, Range

LEMMA QueuesOfOnce ==
  ASSUME NEW q, NEW T, \A t \in T : IsInjective(q[t]),
         \A t, u \in T : t # u => Range(q[t]) \cap Range(q[u]) = {}
  PROVE  \A t, u \in T : \A i \in DOMAIN q[t], j \in DOMAIN q[u] : q[t][i] = q[u][j] => t = u /\ i = j
  BY DEF IsInjective, Range

\* What a thread takes from the queues is no longer in any.
LEMMA PopMoves ==
  ASSUME DataTypeOK, Once, NEW t \in Threads, NEW x \in WDs, NEW w \in WDs,
         NEW back, back = <<>> \/ back = <<w>>, w \notin Found("ready"), w \notin Found("next"),
         Found("ready") \cap Found("next") = {},
         PopNext(t, x, back) \/ PopReady(t, x, back)
  PROVE  /\ x \in Found("ready") \cup Found("next")
         /\ Found("next")' = Found("next") \ {x}
         /\ Found("ready")' = (Found("ready") \ {x}) \cup (IF back = <<>> THEN {} ELSE {w})
         /\ IsInjective(ready')
         /\ \A u, v \in Threads : \A i \in DOMAIN nexts'[u], j \in DOMAIN nexts'[v] :
               nexts'[u][i] = nexts'[v][j] => u = v /\ i = j
         /\ CanRun(x, t)
         /\ PopNext(t, x, back) => x \in Found("next")
<1> USE DEF DataTypeOK, Found
<1>1. /\ ready \in Seq(WDs) /\ IsInjective(ready)
      /\ \A u \in Threads : nexts[u] \in Seq(WDs) /\ IsInjective(nexts[u])
      /\ \A u, v \in Threads : u # v => Range(nexts[u]) \cap Range(nexts[v]) = {}
  BY OnceOfQueues DEF Once
<1>2. CASE PopNext(t, x, back)
  <2>1. PICK i \in DOMAIN nexts[t] : /\ First(nexts[t], t, i) /\ x = nexts[t][i]
                                     /\ nexts' = [nexts EXCEPT ![t] = RemoveAt(@, i)]
                                     /\ ready' = ready \o back
    BY <1>2 DEF PopNext
  <2> DEFINE q == RemoveAt(nexts[t], i)
  <2>2. IsInjective(q) /\ Range(q) = Range(nexts[t]) \ {x}
    BY <1>1, <2>1, RemoveAtOnce
  <2>3. nexts'[t] = q /\ \A u \in Threads \ {t} : nexts'[u] = nexts[u]
    BY <2>1
  <2> HIDE DEF q
  <2>4. x \in Range(nexts[t]) /\ CanRun(x, t)
    BY <2>1 DEF Range, First
  <2>5. x \in Found("next") /\ x \notin Found("ready")
    BY <2>4
  <2>6. IsInjective(ready') /\ Range(ready') = Range(ready) \cup (IF back = <<>> THEN {} ELSE {w})
    <3>1. w \notin Range(ready)
      OBVIOUS
    <3>2. /\ IsInjective(ready \o back)
          /\ Range(ready \o back) = IF back = <<>> THEN Range(ready) ELSE Range(ready) \cup {w}
      BY ONLY <1>1, <3>1, w \in WDs, back = <<>> \/ back = <<w>>, BackOnce
    <3> QED
      BY <2>1, <3>2
  <2>7. \A u \in Threads : Range(nexts'[u]) = Range(nexts[u]) \ {x}
    <3> SUFFICES ASSUME NEW u \in Threads PROVE Range(nexts'[u]) = Range(nexts[u]) \ {x}
      OBVIOUS
    <3>1. CASE u = t
      BY <2>2, <2>3, <3>1
    <3>2. CASE u # t
      <4>1. x \notin Range(nexts[u])
        BY <1>1, <2>4, <3>2
      <4> QED
        BY <2>3, <3>2, <4>1
    <3> QED
      BY <3>1, <3>2
  <2>8. Found("next")' = Found("next") \ {x}
    <3>1. \A y : y \in Found("next")' <=> \E u \in Threads : y \in Range(nexts'[u])
      OBVIOUS
    <3>2. \A y : y \in Found("next") <=> \E u \in Threads : y \in Range(nexts[u])
      OBVIOUS
    <3> HIDE DEF Found
    <3> QED
      BY <2>7, <3>1, <3>2
  <2>9. \A u \in Threads : IsInjective(nexts'[u])
    BY <1>1, <2>2, <2>3
  <2>10. \A u, v \in Threads : u # v => Range(nexts'[u]) \cap Range(nexts'[v]) = {}
    BY <1>1, <2>7
  <2>11. \A u, v \in Threads : \A k \in DOMAIN nexts'[u], j \in DOMAIN nexts'[v] :
            nexts'[u][k] = nexts'[v][j] => u = v /\ k = j
    <3> DEFINE n == nexts'
    <3>1. \A u \in Threads : IsInjective(n[u])
      BY <2>9
    <3>2. \A u, v \in Threads : u # v => Range(n[u]) \cap Range(n[v]) = {}
      BY <2>10
    <3> HIDE DEF n
    <3>3. \A u, v \in Threads : \A k \in DOMAIN n[u], j \in DOMAIN n[v] :
            n[u][k] = n[v][j] => u = v /\ k = j
      BY ONLY <3>1, <3>2, QueuesOfOnce
    <3> QED
      BY <3>3 DEF n
  <2>12. Found("ready")' = (Found("ready") \ {x}) \cup (IF back = <<>> THEN {} ELSE {w})
    BY <2>5, <2>6
  <2> QED
    BY <2>4, <2>5, <2>6, <2>8, <2>11, <2>12
<1>3. CASE PopReady(t, x, back)
  <2>1. PICK i \in DOMAIN ready : /\ First(ready, t, i) /\ x = ready[i]
                                  /\ ready' = RemoveAt(ready, i) \o back /\ nexts' = nexts
    BY <1>3 DEF PopReady
  <2> DEFINE q == RemoveAt(ready, i)
  <2>2. q \in Seq(WDs) /\ IsInjective(q) /\ Range(q) = Range(ready) \ {x}
    BY <1>1, <2>1, RemoveAtOnce
  <2>3. ready' = q \o back
    BY <2>1
  <2> HIDE DEF q
  <2>4. x \in Range(ready) /\ CanRun(x, t)
    BY <2>1 DEF Range, First
  <2>5. x \in Found("ready") /\ x \notin Found("next")
    BY <2>4
  <2>6. w \notin Range(q)
    BY <2>2
  <2>7. /\ IsInjective(ready')
        /\ Range(ready') = IF back = <<>> THEN Range(q) ELSE Range(q) \cup {w}
    BY ONLY <2>2, <2>3, <2>6, w \in WDs, back = <<>> \/ back = <<w>>, BackOnce
  <2>8. Found("ready")' = (Found("ready") \ {x}) \cup (IF back = <<>> THEN {} ELSE {w})
    BY <2>2, <2>7
  <2>9. Found("next")' = Found("next") \ {x}
    BY <2>1, <2>5
  <2>10. PopNext(t, x, back) => x \in Found("next")
    BY DEF PopNext, Range
  <2> QED
    BY <2>1, <2>4, <2>5, <2>7, <2>8, <2>9, <2>10 DEF Once
<1> QED
  BY <1>2, <1>3

\* What a thread, or a WD, comes to hold and gives up.
LEMMA SlotFilled ==
  ASSUME NEW D, NEW V, NEW f \in [D -> V \cup {None}], NEW v \in D, NEW y \in V, f[v] = None,
         \A a, b \in D : f[a] = f[b] /\ f[a] # None => a = b,
         y \notin {f[a] : a \in D} \ {None}, None \notin V,
         NEW g, g = [f EXCEPT ![v] = y]
  PROVE  /\ {g[a] : a \in D} \ {None} = ({f[a] : a \in D} \ {None}) \cup {y}
         /\ \A a, b \in D : g[a] = g[b] /\ g[a] # None => a = b
  OBVIOUS

LEMMA SlotEmptied ==
  ASSUME NEW D, NEW V, NEW f \in [D -> V \cup {None}], NEW v \in D,
         \A a, b \in D : f[a] = f[b] /\ f[a] # None => a = b,
         NEW g, g = [f EXCEPT ![v] = None]
  PROVE  /\ {g[a] : a \in D} \ {None} = ({f[a] : a \in D} \ {None}) \ {f[v]}
         /\ \A a, b \in D : g[a] = g[b] /\ g[a] # None => a = b
  OBVIOUS

LEMMA ThreadMoves ==
  ASSUME DataTypeOK, Once, NEW t \in Threads, NEW x \in WDs, x \notin Found("runs"),
         cur' = [cur EXCEPT ![t] = x]
  PROVE  /\ Found("runs")' = (Found("runs") \ {cur[t]}) \cup {x}
         /\ \A u, v \in Threads : cur'[u] = cur'[v] => u = v
  BY DEF DataTypeOK, Once, Found

LEMMA NoneApart == None \notin WDs /\ None \notin Threads
  BY NamesAssumption

LEMMA UnderFilled ==
  ASSUME DataTypeOK, Once, NEW w \in WDs, NEW x \in WDs, under[x] = None, w \notin Found("under"),
         under' = [under EXCEPT ![x] = w]
  PROVE  /\ Found("under")' = Found("under") \cup {w}
         /\ \A u, v \in WDs : under'[u] = under'[v] /\ under'[u] # None => u = v
<1> USE DEF DataTypeOK, Once, Found
<1> DEFINE g == under'
<1>1. /\ {g[a] : a \in WDs} \ {None} = ({under[a] : a \in WDs} \ {None}) \cup {w}
      /\ \A a, b \in WDs : g[a] = g[b] /\ g[a] # None => a = b
  <2>1. g = [under EXCEPT ![x] = w]
    OBVIOUS
  <2>2. w \notin {under[a] : a \in WDs} \ {None}
    OBVIOUS
  <2>3. /\ under \in [WDs -> WDs \cup {None}]
        /\ \A a, b \in WDs : under[a] = under[b] /\ under[a] # None => a = b
    OBVIOUS
  <2> HIDE DEF g, Found, Once, DataTypeOK
  <2> QED
    BY <2>1, <2>2, <2>3, NoneApart, SlotFilled
<1> QED
  BY <1>1

LEMMA HeldFilled ==
  ASSUME DataTypeOK, Once, NEW w \in WDs, NEW x \in WDs, held[w] = None, x \notin Found("held"),
         held' = [held EXCEPT ![w] = x]
  PROVE  /\ Found("held")' = Found("held") \cup {x}
         /\ \A u, v \in WDs : held'[u] = held'[v] /\ held'[u] # None => u = v
<1> USE DEF DataTypeOK, Once, Found
<1> DEFINE g == held'
<1>1. /\ {g[a] : a \in WDs} \ {None} = ({held[a] : a \in WDs} \ {None}) \cup {x}
      /\ \A a, b \in WDs : g[a] = g[b] /\ g[a] # None => a = b
  <2>1. g = [held EXCEPT ![w] = x]
    OBVIOUS
  <2>2. x \notin {held[a] : a \in WDs} \ {None}
    OBVIOUS
  <2>3. /\ held \in [WDs -> WDs \cup {None}]
        /\ \A a, b \in WDs : held[a] = held[b] /\ held[a] # None => a = b
    OBVIOUS
  <2> HIDE DEF g, Found, Once, DataTypeOK
  <2> QED
    BY <2>1, <2>2, <2>3, NoneApart, SlotFilled
<1> QED
  BY <1>1

LEMMA UnderEmptied ==
  ASSUME DataTypeOK, Once, NEW w \in WDs, under' = [under EXCEPT ![w] = None]
  PROVE  /\ Found("under")' = Found("under") \ {under[w]}
         /\ \A u, v \in WDs : under'[u] = under'[v] /\ under'[u] # None => u = v
<1> USE DEF DataTypeOK, Once, Found
<1> DEFINE g == under'
<1>1. /\ {g[a] : a \in WDs} \ {None} = ({under[a] : a \in WDs} \ {None}) \ {under[w]}
      /\ \A a, b \in WDs : g[a] = g[b] /\ g[a] # None => a = b
  BY SlotEmptied
<1> QED
  BY <1>1

LEMMA HeldEmptied ==
  ASSUME DataTypeOK, Once, NEW w \in WDs, held' = [held EXCEPT ![w] = None]
  PROVE  /\ Found("held")' = Found("held") \ {held[w]}
         /\ \A u, v \in WDs : held'[u] = held'[v] /\ held'[u] # None => u = v
<1> USE DEF DataTypeOK, Once, Found
<1> DEFINE g == held'
<1>1. /\ {g[a] : a \in WDs} \ {None} = ({held[a] : a \in WDs} \ {None}) \ {held[w]}
      /\ \A a, b \in WDs : g[a] = g[b] /\ g[a] # None => a = b
  BY SlotEmptied
<1> QED
  BY <1>1

-----------------------------------------------------------------------------
\* A step that only moves w, to places of kind kw or to none, and x.
LEMMA Settles ==
  ASSUME Apart, NoneLost, NEW w \in WDs, NEW x \in WDs, NEW kw, NEW kx \in Kinds,
         \A v \in WDs \ {w, x} : /\ Alive(v)' <=> Alive(v)
                                 /\ \A k \in Kinds : v \in Found(k)' <=> v \in Found(k),
         \A k \in Kinds : (w \in Found(k)' <=> k = kw) /\ (x \in Found(k)' <=> k = kx),
         Alive(w)' <=> kw \in Kinds, Alive(x)'
  PROVE  Apart' /\ NoneLost'
<1>1. ASSUME NEW v \in WDs
      PROVE  /\ \A k, l \in Kinds : v \in Found(k)' /\ v \in Found(l)' => k = l
             /\ \A k \in Kinds : v \in Found(k)' => Alive(v)'
  <2>1. CASE v = w
    BY <2>1
  <2>2. CASE v = x
    BY <2>2
  <2>3. CASE v \notin {w, x}
    BY <2>3 DEF Apart
  <2> QED
    BY <2>1, <2>2, <2>3
<1>2. ASSUME NEW v \in WDs, KeepsAll, Alive(v)' PROVE \E k \in Kinds : v \in Found(k)'
  <2>1. CASE v = w
    BY <1>2, <2>1
  <2>2. CASE v = x
    BY <2>2
  <2>3. CASE v \notin {w, x}
    BY <1>2, <2>3 DEF NoneLost
  <2> QED
    BY <2>1, <2>2, <2>3
<1> QED
  BY <1>1, <1>2 DEF Apart, NoneLost, KeepsAll

\* A step that moves nobody.
LEMMA StaysPut ==
  ASSUME Apart, NoneLost, Once, UNCHANGED <<cur, ready, nexts, under, held>>,
         \A v \in WDs : (Alive(v)' <=> Alive(v)) /\ (pc'[v] = "blocked" <=> pc[v] = "blocked")
  PROVE  Apart' /\ NoneLost' /\ Once'
<1>1. \A k \in Kinds : Found(k)' = Found(k)
  BY DEF Found, Kinds
<1>2. Apart' /\ NoneLost'
  BY <1>1 DEF Apart, NoneLost, KeepsAll
<1>3. Once'
  BY DEF Once
<1> QED
  BY <1>2, <1>3

\* Thread t leaves w for x, which it took from a queue or held.
LEMMA SwitchPlaces ==
  ASSUME DataTypeOK, Once, Apart, NoneLost, NEW t \in Threads, NEW w \in WDs, NEW x \in WDs,
         cur[t] = w, NEW place, NEW back \in BOOLEAN,
         x \in Found("ready") \cup Found("next") \cup Found("held"),
         Found("ready")' = (Found("ready") \ {x}) \cup (IF back THEN {w} ELSE {}),
         Found("next")' = Found("next") \ {x},
         Found("held")' = Found("held") \ {x},
         pc[x] = "new" => under[x] = None,
         \/ /\ SwitchStacks(t, w, place, x)
            /\ IF back THEN place \in {"body", "idle"} ELSE place \in {"blocked", "gone"}
         \/ InlineWork(t, w, place, x) /\ pc[x] = "new" /\ ~back /\ place \in {"body", "idle", "wait"}
  PROVE  /\ Apart' /\ NoneLost'
         /\ \A u, v \in Threads : cur'[u] = cur'[v] => u = v
         /\ \A u, v \in WDs : under'[u] = under'[v] /\ under'[u] # None => u = v
<1>1. w \in Found("runs")
  BY DEF Found, DataTypeOK
<1>2. /\ w \notin Found("ready") /\ w \notin Found("next") /\ w \notin Found("held")
      /\ w \notin Found("under") /\ w \notin Found("waiter")
      /\ x \notin Found("runs") /\ x \notin Found("under") /\ x \notin Found("waiter")
      /\ Alive(x) /\ Alive(w)
  BY <1>1 DEF Apart, Kinds
<1>3. w # x
  BY <1>1, <1>2
<1>4. cur' = [cur EXCEPT ![t] = x]
  BY DEF SwitchStacks, InlineWork
<1>5. /\ Found("runs")' = (Found("runs") \ {w}) \cup {x}
      /\ \A u, v \in Threads : cur'[u] = cur'[v] => u = v
  BY <1>2, <1>4, ThreadMoves
<1>6. pc' = [pc EXCEPT ![w] = place, ![x] = Started(x)]
  BY DEF SwitchStacks, InlineWork, Started
<1>7. /\ pc'[w] = place /\ pc'[x] = Started(x)
      /\ \A v \in WDs \ {w, x} : pc'[v] = pc[v]
  BY <1>3, <1>6 DEF DataTypeOK
<1>8. /\ \A v \in WDs \ {w, x} : Alive(v)' <=> Alive(v)
      /\ Alive(w)' <=> place # "gone"
      /\ Alive(x)'
  <2>1. place # "unborn"
    OBVIOUS
  <2> QED
    BY <1>2, <1>7, <2>1 DEF Alive, Started
<1>9. Found("waiter")' = Found("waiter") \cup (IF place = "blocked" THEN {w} ELSE {})
  <2>1. pc'[x] # "blocked" /\ pc[x] # "blocked"
    BY <1>2, <1>7 DEF Started, Found
  <2>2. \A v \in WDs : pc'[v] = "blocked" <=> pc[v] = "blocked" \/ (v = w /\ place = "blocked")
    BY <1>2, <1>7, <2>1 DEF Found
  <2> QED
    BY <2>2 DEF Found
<1>10. /\ Found("under")' = Found("under") \cup (IF place \in {"blocked", "gone"} \/ back THEN {} ELSE {w})
       /\ \A u, v \in WDs : under'[u] = under'[v] /\ under'[u] # None => u = v
  <2>1. CASE SwitchStacks(t, w, place, x) /\ (place \in {"blocked", "gone"} \/ back)
    <3>1. under' = under
      BY <2>1 DEF SwitchStacks
    <3> QED
      BY <2>1, <3>1 DEF Found, Once
  <2>2. CASE InlineWork(t, w, place, x) /\ pc[x] = "new" /\ ~back /\ place \in {"body", "idle", "wait"}
    <3>1. under' = [under EXCEPT ![x] = w] /\ under[x] = None
      BY <2>2 DEF InlineWork
    <3> QED
      BY <1>2, <2>2, <3>1, UnderFilled
  <2> QED
    BY <2>1, <2>2
<1> DEFINE kw == IF back THEN "ready" ELSE IF place = "blocked" THEN "waiter"
                 ELSE IF place = "gone" THEN "nowhere" ELSE "under"
<1>11. \A v \in WDs \ {w, x} : \A k \in Kinds : v \in Found(k)' <=> v \in Found(k)
  BY <1>5, <1>9, <1>10 DEF Kinds
<1>12. \A k \in Kinds : x \in Found(k)' <=> k = "runs"
  BY <1>2, <1>3, <1>5, <1>9, <1>10 DEF Kinds
<1>13. \A k \in Kinds : w \in Found(k)' <=> k = kw
  <2>1. back => place \in {"body", "idle"}
    OBVIOUS
  <2> QED
    BY <1>2, <1>3, <1>5, <1>9, <1>10, <2>1 DEF Kinds
<1>14. Alive(w)' <=> kw \in Kinds
  BY <1>8 DEF Kinds
<1>15. "runs" \in Kinds
  BY DEF Kinds
<1> HIDE DEF kw
<1> QED
  BY <1>5, <1>8, <1>10, <1>11, <1>12, <1>13, <1>14, <1>15, Settles

-----------------------------------------------------------------------------
\* SlotInv, step by step.

LEMMA SlotSwitch ==
  ASSUME DataTypeOK, SlotInv, NEW t \in Threads, NEW w \in WDs, NEW place, NEW x \in WDs,
         SwitchStacks(t, w, place, x) \/ (InlineWork(t, w, place, x) /\ pc[x] = "new"),
         place \notin {"unborn", "new", "seek"}, pc[w] # "gone", pc[x] # "blocked",
         place = "blocked" => ULT,
         UNCHANGED <<ending, home, enabled>>,
         held' = held \/ held' = [held EXCEPT ![w] = None]
  PROVE  SlotInv'
<1>1. pc' = [pc EXCEPT ![w] = place, ![x] = Started(x)]
  BY DEF SwitchStacks, InlineWork, Started
<1>2. \A v \in WDs : pc'[v] = IF v = x THEN Started(x) ELSE IF v = w THEN place ELSE pc[v]
  BY <1>1 DEF DataTypeOK
<1>3. under' = under \/ (pc[x] = "new" /\ under' = [under EXCEPT ![x] = w])
  BY DEF SwitchStacks, InlineWork
<1>4. \A v \in WDs : under'[v] = under[v] \/ (v = x /\ pc[x] = "new" /\ under'[v] = w)
  BY <1>3 DEF DataTypeOK
<1>5. \A v \in WDs : held'[v] # None => held[v] # None
  BY DEF DataTypeOK
<1>6. \A v \in WDs : held'[v] # None => ending'[v] /\ pc'[v] # "seek"
  BY <1>2, <1>5 DEF SlotInv, Started
<1>7. \A v \in WDs : pc'[v] \in {"unborn", "new"} => under'[v] = None
  BY <1>2, <1>4 DEF SlotInv, Started
<1>8. \A v \in Tasks : ending'[v] /\ under'[v] = None /\ pc'[v] # "gone" => home'[v] \in Threads
  <2> SUFFICES ASSUME NEW v \in Tasks, ending'[v], under'[v] = None, pc'[v] # "gone"
               PROVE  home'[v] \in Threads
    OBVIOUS
  <2>1. v \in WDs
    BY Names
  <2>2. under[v] = None
    BY <1>4, <2>1, NoneApart
  <2>3. pc[v] # "gone"
    BY <1>2, <2>1 DEF Started
  <2> QED
    BY <2>2, <2>3 DEF SlotInv
<1>9. ULT \/ \A v \in WDs : pc'[v] # "blocked"
  BY <1>2 DEF SlotInv, Started
<1> QED
  BY <1>6, <1>7, <1>8, <1>9 DEF SlotInv

LEMMA SlotStill ==
  ASSUME DataTypeOK, SlotInv, NEW w \in WDs, UNCHANGED <<under, held, ending, home>>,
         enabled' = enabled \/ MaxStops # 0,
         \A v \in WDs : \/ pc'[v] = pc[v]
                        \/ /\ pc'[v] \notin {"unborn", "blocked"} /\ pc[v] # "gone"
                           /\ pc'[v] = "seek" => held[v] = None
                           /\ pc'[v] = "new" => pc[v] = "unborn"
  PROVE  SlotInv'
<1>1. \A v \in WDs : held'[v] # None => ending'[v] /\ pc'[v] # "seek"
  BY DEF SlotInv
<1>2. \A v \in WDs : pc'[v] \in {"unborn", "new"} => under'[v] = None
  BY DEF SlotInv
<1>3. \A v \in Tasks : ending'[v] /\ under'[v] = None /\ pc'[v] # "gone" => home'[v] \in Threads
  BY Names DEF SlotInv
<1>4. ULT \/ \A v \in WDs : pc'[v] # "blocked"
  BY DEF SlotInv
<1> QED
  BY <1>1, <1>2, <1>3, <1>4 DEF SlotInv

LEMMA SlotSteps ==
  ASSUME Inv, SlotInv, Once, Apart, NEW t \in Threads, Step(t)
  PROVE  SlotInv'
<1> USE DEF queues, group, exit, counts, At, Move
<1> DataTypeOK
  BY DEF Inv
<1> DEFINE Calmly(v) == \/ pc'[v] = pc[v]
                        \/ /\ pc'[v] \notin {"unborn", "blocked"} /\ pc[v] # "gone"
                           /\ pc'[v] = "seek" => held[v] = None
                           /\ pc'[v] = "new" => pc[v] = "unborn"
<1>0. ASSUME UNCHANGED <<under, held, ending, home>>, enabled' = enabled \/ MaxStops # 0,
             \A v \in WDs : Calmly(v)
      PROVE  SlotInv'
  <2>1. Main \in WDs
    BY Names
  <2> QED
    BY <1>0, <2>1, SlotStill
<1>1. ASSUME NEW w \in UserWDs, NEW c \in Tasks, Spawn(t, w, c) PROVE SlotInv'
  BY <1>0, <1>1, Names DEF Spawn, DataTypeOK
<1>2. ASSUME NEW w \in UserWDs, Taskwait(t, w) \/ WaitPass(t, w) \/ Lock(t, w) \/ NoNext(t, w)
      PROVE  SlotInv'
  BY <1>0, <1>2, Names DEF Taskwait, WaitPass, Lock, NoNext, DataTypeOK
<1>3. ASSUME NEW w \in UserWDs, Drain(t, w) PROVE SlotInv'
  <2>1. AfterWait(w) \in {"body", "done", "ref"}
    BY DEF AfterWait
  <2> QED
    BY <1>0, <1>3, <2>1, Names DEF Drain, DataTypeOK
<1>4. ASSUME NEW w \in Tasks, Reference(t, w) \/ Unreference(t, w) PROVE SlotInv'
  BY <1>0, <1>4, Names DEF Reference, Unreference, DataTypeOK
<1>5. ASSUME NEW w \in Tasks, Decrement(t, w) PROVE SlotInv'
  BY <1>0, <1>5, Names DEF Decrement, DataTypeOK
<1>6. ASSUME NEW w \in Tasks, ExitIdle(t, w) PROVE SlotInv'
  BY <1>0, <1>6, Names DEF ExitIdle, DataTypeOK
<1>7. ASSUME StopScheduler(t) PROVE SlotInv'
  <2>1. MaxStops # 0
    BY <1>7, BoundsAssumption DEF StopScheduler, DataTypeOK
  <2> QED
    BY <1>0, <1>7, <2>1 DEF StopScheduler
<1>8. ASSUME StartScheduler(t) PROVE SlotInv'
  <2>1. MaxStops # 0
    BY <1>8 DEF StartScheduler, SlotInv
  <2> QED
    BY <1>0, <1>8, <2>1 DEF StartScheduler
<1>9. ASSUME NEW w \in Tasks, Signal(t, w) PROVE SlotInv'
  <2>1. \A v \in WDs : Calmly(v)
    BY <1>9, Names DEF Signal, DataTypeOK
  <2> QED
    BY <1>0, <1>9, <2>1 DEF Signal
<1>10. ASSUME NEW w \in UserWDs, End(t, w) PROVE SlotInv'
  <2>1. w \in WDs /\ pc[w] = "body" /\ pc' = [pc EXCEPT ![w] = "wait"] /\ enabled' = enabled
        /\ ending' = [ending EXCEPT ![w] = TRUE] /\ under' = under
    BY <1>10, Names DEF End
  <2>2. \A v \in WDs \ {w} : held'[v] = held[v] /\ home'[v] = home[v]
    BY <1>10 DEF End, ExitULT, ReturnInlined, DataTypeOK
  <2>3. \A v \in WDs : held'[v] # None => ending'[v] /\ pc'[v] # "seek"
    BY <2>1, <2>2 DEF SlotInv, DataTypeOK
  <2>4. \A v \in WDs : pc'[v] \in {"unborn", "new"} => under'[v] = None
    BY <2>1 DEF SlotInv, DataTypeOK
  <2>5. \A v \in Tasks : ending'[v] /\ under'[v] = None /\ pc'[v] # "gone" => home'[v] \in Threads
    <3> SUFFICES ASSUME NEW v \in Tasks, ending'[v], under'[v] = None, pc'[v] # "gone"
                 PROVE  home'[v] \in Threads
      OBVIOUS
    <3>1. v \in WDs /\ v # Main
      BY Names
    <3>2. CASE v = w
      BY <1>10, <2>1, <3>1, <3>2 DEF End, ExitULT, ReturnInlined, DataTypeOK
    <3>3. CASE v # w
      BY <2>1, <2>2, <3>1, <3>3 DEF SlotInv, DataTypeOK
    <3> QED
      BY <3>2, <3>3
  <2>6. ULT \/ \A v \in WDs : pc'[v] # "blocked"
    BY <2>1 DEF SlotInv, DataTypeOK
  <2> QED
    BY <2>1, <2>3, <2>4, <2>5, <2>6 DEF SlotInv
<1>11. ASSUME NEW w \in Tasks, BackUnder(t, w) PROVE SlotInv'
  <2>1. w \in WDs /\ pc' = [pc EXCEPT ![w] = "gone"] /\ under' = [under EXCEPT ![w] = None]
        /\ pc[w] = "leave" /\ UNCHANGED <<held, ending, home, enabled>>
    BY <1>11, Names DEF BackUnder
  <2>2. \A v \in WDs \ {w} : pc'[v] = pc[v] /\ under'[v] = under[v]
    BY <2>1 DEF DataTypeOK
  <2>3. pc'[w] = "gone"
    BY <2>1 DEF DataTypeOK
  <2>4. \A v \in WDs : held'[v] # None => ending'[v] /\ pc'[v] # "seek"
    BY <2>1, <2>2, <2>3 DEF SlotInv
  <2>5. \A v \in WDs : pc'[v] \in {"unborn", "new"} => under'[v] = None
    BY <2>2, <2>3 DEF SlotInv
  <2>6. \A v \in Tasks : ending'[v] /\ under'[v] = None /\ pc'[v] # "gone" => home'[v] \in Threads
    BY <2>1, <2>2, <2>3, Names DEF SlotInv
  <2>7. ULT \/ \A v \in WDs : pc'[v] # "blocked"
    BY <2>2, <2>3 DEF SlotInv
  <2> QED
    BY <2>1, <2>4, <2>5, <2>6, <2>7 DEF SlotInv
\* What runs next was not waiting.
<1>12. ASSUME NEW x \in WDs, NEW k \in Kinds, k # "waiter", x \in Found(k) PROVE pc[x] # "blocked"
  <2>1. x \notin Found("waiter")
    BY <1>12 DEF Apart, Kinds
  <2> QED
    BY <2>1 DEF Found
<1>13. ASSUME NEW x \in WDs, NEW u \in Threads, NEW back, PopNext(u, x, back) \/ PopReady(u, x, back)
       PROVE  pc[x] # "blocked" /\ CanRun(x, u)
  <2>1. CanRun(x, u)
    BY <1>13 DEF PopNext, PopReady, First
  <2>2. CASE PopNext(u, x, back)
    <3>1. x \in Found("next")
      BY <2>2 DEF PopNext, Found, Range
    <3> QED
      BY <1>12, <2>1, <3>1 DEF Kinds
  <2>3. CASE PopReady(u, x, back)
    <3>1. x \in Found("ready")
      BY <2>3 DEF PopReady, Found, Range
    <3> QED
      BY <1>12, <2>1, <3>1 DEF Kinds
  <2> QED
    BY <1>13, <2>2, <2>3
<1>14. ASSUME NEW w \in UserWDs, NEW x \in WDs, Yield(t, w, x) PROVE SlotInv'
  <2>1. w \in WDs /\ pc[w] = "body" /\ UNCHANGED <<ending, home, enabled, held>>
    BY <1>14, Names DEF Yield
  <2>2. \/ PopReady(t, x, <<w>>) /\ ULT /\ SwitchStacks(t, w, "body", x)
        \/ PopReady(t, x, <<>>) /\ ~ULT /\ InlineWork(t, w, "body", x)
    BY <1>14 DEF Yield
  <2>3. pc[x] # "blocked" /\ CanRun(x, t)
    BY <1>13, <2>2
  <2> HIDE DEF Calmly
  <2> QED
    BY <2>1, <2>2, <2>3, SlotSwitch DEF CanRun
<1>15. ASSUME NEW w \in UserWDs, NEW x \in WDs, SwitchAway(t, w, x) PROVE SlotInv'
  <2>1. w \in WDs /\ pc[w] = "locked" /\ UNCHANGED <<ending, home, enabled, held>>
    BY <1>15, Names DEF SwitchAway
  <2>2. pc[x] # "blocked" /\ CanRun(x, t)
    BY <1>13, <1>15 DEF SwitchAway, Take
  <2>3. \/ ULT /\ SwitchStacks(t, w, "blocked", x)
        \/ ~ULT /\ InlineWork(t, w, "wait", x)
    BY <1>15 DEF SwitchAway
  <2> HIDE DEF Calmly
  <2> QED
    BY <2>1, <2>2, <2>3, SlotSwitch DEF CanRun
<1>16. ASSUME NEW w \in Tasks, NEW x \in WDs, ExitTo(t, w, x), pc[w] \in {"leave", "seek"},
              pc[x] # "blocked"
       PROVE  SlotInv'
  <2>1. w \in WDs /\ SwitchStacks(t, w, "gone", x) /\ held' = [held EXCEPT ![w] = None]
        /\ UNCHANGED <<ending, home, enabled>> /\ pc[w] # "gone"
    BY <1>16, Names DEF ExitTo
  <2> HIDE DEF Calmly
  <2> QED
    BY <1>16, <2>1, SlotSwitch
<1>17. ASSUME NEW w \in Tasks, ExitToHeld(t, w) PROVE SlotInv'
  <2>1. w \in WDs /\ held[w] \in WDs
    BY <1>17, Names DEF ExitToHeld, DataTypeOK
  <2>2. held[w] \in Found("held")
    BY <1>17, <2>1, NoneApart DEF Found
  <2> QED
    BY <1>12, <1>16, <1>17, <2>1, <2>2 DEF ExitToHeld, Kinds
<1>18. ASSUME NEW w \in Tasks, NEW x \in WDs, ExitToNext(t, w, x) PROVE SlotInv'
  <2>1. w \in WDs /\ pc[w] = "leave" /\ under[w] = None /\ PopNext(home[w], x, <<>>) /\ ExitTo(t, w, x)
    BY <1>18, Names DEF ExitToNext
  <2>2. home[w] \in Threads
    BY <2>1, Names DEF Inv, JoinInv, Joined, Discounted, SlotInv
  <2> QED
    BY <1>13, <1>16, <2>1, <2>2
<1>19. ASSUME NEW w \in Tasks, NEW x \in WDs, Seek(t, w, x) PROVE SlotInv'
  BY <1>13, <1>16, <1>19 DEF Seek, Take
<1>20. ASSUME NEW x \in WDs, t \in Workers, WorkerSwitches(t, x) \/ WorkerInlines(t, x) PROVE SlotInv'
  <2>1. t \in WDs /\ pc[t] = "idle" /\ UNCHANGED <<ending, home, enabled, held>>
    BY <1>20, Names DEF WorkerSwitches, WorkerInlines
  <2>2. pc[x] # "blocked"
    BY <1>13, <1>20 DEF WorkerSwitches, WorkerInlines, Take
  <2>3. SwitchStacks(t, t, "idle", x) \/ (InlineWork(t, t, "idle", x) /\ pc[x] = "new")
    BY <1>20 DEF WorkerSwitches, WorkerInlines
  <2> HIDE DEF Calmly
  <2> QED
    BY <2>1, <2>2, <2>3, SlotSwitch
<1>21. CASE Worker(t)
  BY <1>20, <1>21 DEF Worker
<1>22. ASSUME NEW w \in UserWDs, Program(t, w) \/ Wait(t, w) PROVE SlotInv'
  BY <1>1, <1>2, <1>3, <1>10, <1>14, <1>15, <1>22 DEF Program, Wait
<1>23. ASSUME NEW w \in Tasks, ExitWork(t, w) \/ Leave(t, w) PROVE SlotInv'
  BY <1>4, <1>5, <1>6, <1>9, <1>11, <1>17, <1>18, <1>19, <1>23 DEF ExitWork, Leave
<1> QED
  BY <1>7, <1>8, <1>21, <1>22, <1>23 DEF Step

-----------------------------------------------------------------------------
\* Where everyone is, step by step.

Placed == Once /\ Apart /\ NoneLost

\* What runs on a thread is nowhere else.
LEMMA RunsOnly ==
  ASSUME DataTypeOK, Apart, NEW t \in Threads, NEW w \in WDs, cur[t] = w
  PROVE  /\ Alive(w) /\ w \in Found("runs")
         /\ w \notin Found("ready") /\ w \notin Found("next") /\ w \notin Found("waiter")
         /\ w \notin Found("under") /\ w \notin Found("held")
<1>1. w \in Found("runs")
  BY DEF Found
<1> QED
  BY <1>1 DEF Apart, Kinds

\* A thread takes x from the queues and runs it in place of w or above it.
LEMMA TakenPlaces ==
  ASSUME Inv, Placed, SlotInv, NEW t \in Threads, NEW u \in Threads, NEW w \in WDs, NEW x \in WDs,
         cur[t] = w, NEW place, NEW back, back = <<>> \/ back = <<w>>,
         PopNext(u, x, back) \/ PopReady(u, x, back),
         held' = held \/ (held[w] = None /\ held' = [held EXCEPT ![w] = None]),
         \/ /\ SwitchStacks(t, w, place, x)
            /\ IF back = <<w>> THEN place \in {"body", "idle"} ELSE place \in {"blocked", "gone"}
         \/ InlineWork(t, w, place, x) /\ pc[x] = "new" /\ back = <<>> /\ place \in {"body", "idle", "wait"}
  PROVE  Placed'
<1> DEFINE given == back = <<w>>
<1>0. DataTypeOK /\ Once /\ Apart /\ NoneLost
  BY DEF Inv, Placed
<1>1. /\ w \notin Found("ready") /\ w \notin Found("next")
      /\ Found("ready") \cap Found("next") = {}
      /\ back \in {<<>>, <<w>>}
  <2>1. Found("ready") \subseteq WDs
    BY <1>0 DEF Found, DataTypeOK, Range
  <2>2. Found("ready") \cap Found("next") = {}
    BY <1>0, <2>1 DEF Apart, Kinds
  <2> QED
    BY <1>0, <2>2, RunsOnly
<1>2. /\ x \in Found("ready") \cup Found("next")
      /\ Found("next")' = Found("next") \ {x}
      /\ Found("ready")' = (Found("ready") \ {x}) \cup (IF back = <<>> THEN {} ELSE {w})
      /\ IsInjective(ready')
      /\ \A a, b \in Threads : \A i \in DOMAIN nexts'[a], j \in DOMAIN nexts'[b] :
            nexts'[a][i] = nexts'[b][j] => a = b /\ i = j
  BY ONLY <1>0, <1>1, PopNext(u, x, back) \/ PopReady(u, x, back), u \in Threads, w \in WDs,
          x \in WDs, PopMoves
<1>3. x \notin Found("held")
  BY <1>0, <1>2 DEF Apart, Kinds
<1>4. held' = held
  BY <1>0 DEF DataTypeOK
<1>5. Found("held")' = Found("held") \ {x}
  BY <1>3, <1>4 DEF Found
<1>6. given \in BOOLEAN /\ (back = <<>> <=> ~given)
  OBVIOUS
<1>7. pc[x] = "new" => under[x] = None
  BY DEF SlotInv
<1>8. Found("ready")' = (Found("ready") \ {x}) \cup (IF given THEN {w} ELSE {})
  BY <1>2, <1>6
<1>9. \/ /\ SwitchStacks(t, w, place, x)
         /\ IF given THEN place \in {"body", "idle"} ELSE place \in {"blocked", "gone"}
      \/ InlineWork(t, w, place, x) /\ pc[x] = "new" /\ ~given /\ place \in {"body", "idle", "wait"}
  BY <1>6
<1> HIDE DEF given
<1>10. /\ Apart' /\ NoneLost'
       /\ \A a, b \in Threads : cur'[a] = cur'[b] => a = b
       /\ \A a, b \in WDs : under'[a] = under'[b] /\ under'[a] # None => a = b
  BY ONLY <1>0, <1>2, <1>5, <1>6, <1>7, <1>8, <1>9, t \in Threads, w \in WDs, x \in WDs, cur[t] = w,
          SwitchPlaces
<1>11. Once'
  BY <1>0, <1>2, <1>4, <1>10 DEF Once
<1> QED
  BY <1>10, <1>11 DEF Placed

LEMMA SpawnPlaces ==
  ASSUME Inv, Placed, NEW t \in Threads, NEW w \in UserWDs, NEW c \in Tasks, Spawn(t, w, c)
  PROVE  Placed'
<1> USE DEF queues, group, exit, counts
<1>1. DataTypeOK /\ Once /\ Apart /\ NoneLost /\ c \in WDs /\ pc[c] = "unborn"
  BY Names DEF Inv, Placed, Spawn
<1>2. \A k \in Kinds : c \notin Found(k)
  BY <1>1 DEF Apart, Alive
<1>3. IsInjective(ready') /\ Range(ready') = Range(ready) \cup {c}
  <2>1. ready \in Seq(WDs) /\ IsInjective(ready) /\ c \notin Range(ready)
    BY <1>1, <1>2 DEF DataTypeOK, Once, Kinds, Found
  <2>2. ready' = Append(ready, c)
    BY DEF Spawn
  <2> QED
    BY <1>1, <2>1, <2>2, AppendOnce
<1>4. UNCHANGED <<cur, nexts, under, held>>
  BY DEF Spawn
<1>5. pc'[c] = "new" /\ \A v \in WDs \ {c} : pc'[v] = pc[v]
  BY <1>1 DEF Spawn, DataTypeOK
<1>6. Found("waiter")' = Found("waiter")
  BY <1>1, <1>5 DEF Found
<1>7. /\ Found("ready")' = Found("ready") \cup {c}
      /\ \A k \in Kinds \ {"ready"} : Found(k)' = Found(k)
  BY <1>3, <1>4, <1>6 DEF Found, Kinds
<1>8. "ready" \in Kinds
  BY DEF Kinds
<1>9. \A k \in Kinds : c \in Found(k)' <=> k = "ready"
  BY <1>2, <1>7
<1>10. \A v \in WDs \ {c} : /\ Alive(v)' <=> Alive(v)
                            /\ \A k \in Kinds : v \in Found(k)' <=> v \in Found(k)
  BY <1>5, <1>7 DEF Alive
<1>11. Alive(c)'
  BY <1>5 DEF Alive
<1>12. Apart' /\ NoneLost'
  BY <1>1, <1>8, <1>9, <1>10, <1>11, Settles
<1>13. Once'
  BY <1>1, <1>3, <1>4 DEF Once
<1> QED
  BY <1>12, <1>13 DEF Placed

LEMMA EndPlaces ==
  ASSUME Inv, Placed, SlotInv, NEW t \in Threads, NEW w \in UserWDs, End(t, w)
  PROVE  Placed'
<1> USE DEF queues, group, exit, counts
<1>1. DataTypeOK /\ Once /\ Apart /\ NoneLost /\ w \in WDs
  BY Names DEF Inv, Placed
<1>2. /\ cur[t] = w /\ pc[w] = "body" /\ pc' = [pc EXCEPT ![w] = "wait"]
      /\ UNCHANGED <<cur, under>>
  BY DEF End, Move, At
<1>3. \A v \in WDs : (Alive(v)' <=> Alive(v)) /\ (pc'[v] = "blocked" <=> pc[v] = "blocked")
  BY <1>1, <1>2 DEF Alive, DataTypeOK
<1>4. CASE UNCHANGED <<queues, held>>
  BY <1>1, <1>2, <1>3, <1>4, StaysPut DEF Placed
<1>5. ASSUME NEW x \in WDs, PopNext(t, x, <<>>), held' = [held EXCEPT ![w] = x] PROVE Placed'
  <2>1. /\ w \notin Found("ready") /\ w \notin Found("next")
    BY <1>1, <1>2, RunsOnly
  <2>2. Found("ready") \subseteq WDs
    BY <1>1 DEF Found, DataTypeOK, Range
  <2>3. Found("ready") \cap Found("next") = {}
    BY <1>1, <2>2 DEF Apart, Kinds
  <2> DEFINE back == <<>>
  <2>4. back \in {<<>>, <<w>>} /\ PopNext(t, x, back)
    BY <1>5
  <2>5. back = <<>>
    OBVIOUS
  <2> HIDE DEF back
  <2>6. /\ x \in Found("next")
        /\ Found("next")' = Found("next") \ {x}
        /\ Found("ready")' = (Found("ready") \ {x}) \cup (IF back = <<>> THEN {} ELSE {w})
        /\ IsInjective(ready')
        /\ \A u, v \in Threads : \A i \in DOMAIN nexts'[u], j \in DOMAIN nexts'[v] :
              nexts'[u][i] = nexts'[v][j] => u = v /\ i = j
    BY ONLY <1>1, <2>1, <2>3, <2>4, x \in WDs, t \in Threads, PopMoves
  <2>7. /\ x \notin Found("held") /\ x \notin Found("ready") /\ x \notin Found("runs")
        /\ x \notin Found("waiter") /\ x \notin Found("under") /\ Alive(x)
    BY <1>1, <2>6 DEF Apart, Kinds
  <2>8. held[w] = None
    BY <1>1, <1>2 DEF Inv, JoinInv, SlotInv
  <2>9. /\ Found("held")' = Found("held") \cup {x}
        /\ \A u, v \in WDs : held'[u] = held'[v] /\ held'[u] # None => u = v
    BY <1>1, <1>5, <2>7, <2>8, HeldFilled
  <2>10. /\ Found("ready")' = Found("ready") /\ Found("runs")' = Found("runs")
         /\ Found("waiter")' = Found("waiter") /\ Found("under")' = Found("under")
    <3>1. Found("ready")' = Found("ready")
      <4>1. (IF back = <<>> THEN {} ELSE {w}) = {}
        BY <2>5
      <4>2. Found("ready")' = (Found("ready") \ {x}) \cup {}
        BY <2>6, <4>1
      <4> QED
        BY <2>7, <4>2
    <3>2. Found("runs")' = Found("runs") /\ Found("under")' = Found("under")
      BY <1>2 DEF Found
    <3>3. Found("waiter")' = Found("waiter")
      BY <1>3 DEF Found
    <3> QED
      BY <3>1, <3>2, <3>3
  <2>11. \A v \in WDs \ {x} : /\ Alive(v)' <=> Alive(v)
                              /\ \A k \in Kinds : v \in Found(k)' <=> v \in Found(k)
    BY <1>3, <2>6, <2>9, <2>10 DEF Kinds
  <2>12. \A k \in Kinds : x \in Found(k)' <=> k = "held"
    BY <2>6, <2>7, <2>9, <2>10 DEF Kinds
  <2>13. Alive(x)' /\ "held" \in Kinds
    BY <1>3, <2>7 DEF Kinds
  <2>14. Apart' /\ NoneLost'
    BY <1>1, <2>11, <2>12, <2>13, Settles
  <2>15. Once'
    BY <1>1, <1>2, <2>6, <2>9 DEF Once
  <2> QED
    BY <2>14, <2>15 DEF Placed
<1> QED
  BY <1>4, <1>5 DEF End, ExitULT, ReturnInlined

LEMMA SignalPlaces ==
  ASSUME Inv, Placed, SlotInv, NEW t \in Threads, NEW w \in Tasks, Signal(t, w)
  PROVE  Placed'
<1> USE DEF queues, group, exit, counts
<1> DEFINE p == Parent[w]
<1>1. DataTypeOK /\ Once /\ Apart /\ NoneLost /\ w \in WDs /\ p \in WDs
  BY Names DEF Inv, Placed
<1>2. pc[w] = "signal" /\ UNCHANGED <<cur, ready, under, held>>
  BY DEF Signal, At
<1>3. CASE pc[p] # "blocked"
  <2>1. pc' = [pc EXCEPT ![w] = "unref"] /\ nexts' = nexts
    BY <1>3 DEF Signal
  <2>2. \A v \in WDs : (Alive(v)' <=> Alive(v)) /\ (pc'[v] = "blocked" <=> pc[v] = "blocked")
    BY <1>1, <1>2, <2>1 DEF Alive, DataTypeOK
  <2> QED
    BY <1>1, <1>2, <2>1, <2>2, StaysPut DEF Placed
<1>4. CASE pc[p] = "blocked"
  <2> DEFINE q == IF CanRun(p, t) THEN t ELSE tied[p]
  <2>1. /\ nexts' = IF enabled THEN [nexts EXCEPT ![q] = Append(@, p)] ELSE nexts
        /\ pc' = [pc EXCEPT ![w] = "unref", ![p] = "wait"]
    BY <1>4 DEF Signal, WakeUp
  <2>2. ULT
    BY <1>1, <1>4 DEF SlotInv
  <2>3. q \in Threads
    BY <1>1, <2>2 DEF CanRun, DataTypeOK
  <2> HIDE DEF p, q
  <2>4. p # w
    BY <1>2, <1>4
  <2>5. /\ pc'[w] = "unref" /\ pc'[p] = "wait"
        /\ \A v \in WDs \ {w, p} : pc'[v] = pc[v]
    BY <1>1, <2>1, <2>4 DEF DataTypeOK
  <2>6. \A v \in WDs : Alive(v)' <=> Alive(v)
    BY <1>2, <1>4, <2>5 DEF Alive
  <2>7. p \in Found("waiter") /\ Found("waiter")' = Found("waiter") \ {p}
    BY <1>1, <1>2, <1>4, <2>5 DEF Found
  <2>8. /\ p \notin Found("held") /\ p \notin Found("ready") /\ p \notin Found("runs")
        /\ p \notin Found("next") /\ p \notin Found("under") /\ Alive(p)
    BY <1>1, <2>7 DEF Apart, Kinds
  <2>9. /\ Found("ready")' = Found("ready") /\ Found("runs")' = Found("runs")
        /\ Found("held")' = Found("held") /\ Found("under")' = Found("under")
    BY <1>2 DEF Found
  <2>10. CASE ~enabled
    <3>1. nexts' = nexts /\ Found("next")' = Found("next")
      BY <2>1, <2>10 DEF Found
    <3>2. ~KeepsAll
      BY <2>2, <2>10 DEF KeepsAll, SlotInv
    <3>3. \A v \in WDs : \A k \in Kinds : v \in Found(k)' => v \in Found(k)
      BY <2>7, <2>9, <3>1 DEF Kinds
    <3>4. Apart'
      BY <1>1, <2>6, <3>3 DEF Apart
    <3>5. NoneLost'
      BY <3>2 DEF NoneLost, KeepsAll
    <3>6. Once'
      BY <1>1, <1>2, <3>1 DEF Once
    <3> QED
      BY <3>4, <3>5, <3>6 DEF Placed
  <2>11. CASE enabled
    <3>1. nexts' = [nexts EXCEPT ![q] = Append(@, p)] /\ nexts[q] \in Seq(WDs)
      BY <1>1, <2>1, <2>3, <2>11 DEF DataTypeOK
    <3>2. \A u \in Threads : IsInjective(nexts[u]) /\ p \notin Range(nexts[u])
      BY <1>1, <2>8, OnceOfQueues DEF Once, Found
    <3>3. \A u, v \in Threads : u # v => Range(nexts[u]) \cap Range(nexts[v]) = {}
      BY <1>1, OnceOfQueues DEF Once
    <3>4. /\ IsInjective(Append(nexts[q], p))
          /\ Range(Append(nexts[q], p)) = Range(nexts[q]) \cup {p}
      BY <1>1, <2>3, <3>1, <3>2, AppendOnce
    <3> DEFINE n == nexts'
    <3>5. n[q] = Append(nexts[q], p) /\ \A u \in Threads \ {q} : n[u] = nexts[u]
      BY <1>1, <2>3, <3>1 DEF DataTypeOK
    <3>6. \A y : y \in Found("next")' <=> \E u \in Threads : y \in Range(n[u])
      BY DEF Found
    <3>7. \A y : y \in Found("next") <=> \E u \in Threads : y \in Range(nexts[u])
      BY DEF Found
    <3> HIDE DEF n
    <3>8. Found("next")' = Found("next") \cup {p}
      BY <2>3, <3>4, <3>5, <3>6, <3>7
    <3>9. \A u \in Threads : IsInjective(n[u])
      BY <3>2, <3>4, <3>5
    <3>10. \A u, v \in Threads : u # v => Range(n[u]) \cap Range(n[v]) = {}
      <4> SUFFICES ASSUME NEW u \in Threads, NEW v \in Threads, u # v
                   PROVE  Range(n[u]) \cap Range(n[v]) = {}
        OBVIOUS
      <4>1. Range(nexts[u]) \cap Range(nexts[v]) = {}
        BY <3>3
      <4>2. CASE u = q
        <5>1. Range(n[u]) = Range(nexts[u]) \cup {p} /\ n[v] = nexts[v]
          BY <3>4, <3>5, <4>2
        <5> QED
          BY <3>2, <4>1, <5>1
      <4>3. CASE v = q
        <5>1. Range(n[v]) = Range(nexts[v]) \cup {p} /\ n[u] = nexts[u]
          BY <3>4, <3>5, <4>3
        <5> QED
          BY <3>2, <4>1, <5>1
      <4>4. CASE u # q /\ v # q
        BY <3>5, <4>1, <4>4
      <4> QED
        BY <4>2, <4>3, <4>4
    <3>11. \A u, v \in Threads : \A i \in DOMAIN n[u], j \in DOMAIN n[v] :
              n[u][i] = n[v][j] => u = v /\ i = j
      BY ONLY <3>9, <3>10, QueuesOfOnce
    <3>12. Once'
      BY <1>1, <1>2, <3>11 DEF Once, n
    <3>13. \A v \in WDs \ {p} : /\ Alive(v)' <=> Alive(v)
                                /\ \A k \in Kinds : v \in Found(k)' <=> v \in Found(k)
      BY <2>6, <2>7, <2>9, <3>8 DEF Kinds
    <3>14. \A k \in Kinds : p \in Found(k)' <=> k = "next"
      BY <2>7, <2>8, <2>9, <3>8 DEF Kinds
    <3>15. Alive(p)' /\ "next" \in Kinds
      BY <1>1, <2>6, <2>8 DEF Kinds
    <3>16. Apart' /\ NoneLost'
      BY <1>1, <3>13, <3>14, <3>15, Settles
    <3> QED
      BY <3>12, <3>16 DEF Placed
  <2> QED
    BY <2>10, <2>11
<1> QED
  BY <1>3, <1>4

LEMMA BackUnderPlaces ==
  ASSUME Inv, Placed, SlotInv, NEW t \in Threads, NEW w \in Tasks, BackUnder(t, w)
  PROVE  Placed'
<1> USE DEF queues, group, exit, counts
<1>1. DataTypeOK /\ Once /\ Apart /\ NoneLost /\ w \in WDs
  BY Names DEF Inv, Placed
<1>0. under[w] \in WDs
  BY <1>1 DEF BackUnder, DataTypeOK
<1> PICK x \in WDs : x = under[w]
  BY <1>0
<1>2. /\ x \in WDs /\ cur[t] = w /\ pc[w] = "leave" /\ pc' = [pc EXCEPT ![w] = "gone"]
      /\ cur' = [cur EXCEPT ![t] = x] /\ under' = [under EXCEPT ![w] = None]
      /\ UNCHANGED <<ready, nexts, held>>
  BY <1>1 DEF BackUnder, Move, At, DataTypeOK
<1>3. x \in Found("under")
  BY <1>1, <1>2, NoneApart DEF Found
<1>4. /\ x \notin Found("held") /\ x \notin Found("ready") /\ x \notin Found("runs")
      /\ x \notin Found("next") /\ x \notin Found("waiter") /\ Alive(x)
  BY <1>1, <1>2, <1>3 DEF Apart, Kinds
<1>5. /\ Alive(w) /\ w \in Found("runs")
      /\ w \notin Found("ready") /\ w \notin Found("next") /\ w \notin Found("waiter")
      /\ w \notin Found("under") /\ w \notin Found("held")
  BY <1>1, <1>2, RunsOnly
<1>6. w # x
  BY <1>4, <1>5
<1>7. /\ Found("runs")' = (Found("runs") \ {w}) \cup {x}
      /\ \A u, v \in Threads : cur'[u] = cur'[v] => u = v
  BY <1>1, <1>2, <1>4, ThreadMoves
<1>8. /\ Found("under")' = Found("under") \ {x}
      /\ \A u, v \in WDs : under'[u] = under'[v] /\ under'[u] # None => u = v
  BY <1>1, <1>2, UnderEmptied
<1>9. pc'[w] = "gone" /\ \A v \in WDs \ {w} : pc'[v] = pc[v]
  BY <1>1, <1>2 DEF DataTypeOK
<1>10. /\ Found("ready")' = Found("ready") /\ Found("next")' = Found("next")
       /\ Found("held")' = Found("held") /\ Found("waiter")' = Found("waiter")
  <2>1. Found("waiter")' = Found("waiter")
    BY <1>2, <1>9 DEF Found
  <2> QED
    BY <1>2, <2>1 DEF Found
<1>11. \A v \in WDs \ {w, x} : /\ Alive(v)' <=> Alive(v)
                               /\ \A k \in Kinds : v \in Found(k)' <=> v \in Found(k)
  <2>1. \A v \in WDs \ {w, x} : Alive(v)' <=> Alive(v)
    BY <1>9 DEF Alive
  <2> QED
    BY <1>7, <1>8, <1>10, <2>1 DEF Kinds
<1>12. \A k \in Kinds : (w \in Found(k)' <=> k = "nowhere") /\ (x \in Found(k)' <=> k = "runs")
  BY <1>4, <1>5, <1>6, <1>7, <1>8, <1>10 DEF Kinds
<1>13. (Alive(w)' <=> "nowhere" \in Kinds) /\ Alive(x)' /\ "runs" \in Kinds
  BY <1>2, <1>4, <1>6, <1>9 DEF Alive, Kinds
<1>14. Apart' /\ NoneLost'
  <2> DEFINE kw == "nowhere"
             kx == "runs"
  <2>1. \A k \in Kinds : (w \in Found(k)' <=> k = kw) /\ (x \in Found(k)' <=> k = kx)
    BY <1>12
  <2>2. (Alive(w)' <=> kw \in Kinds) /\ Alive(x)' /\ kx \in Kinds
    BY <1>13
  <2> HIDE DEF kw, kx
  <2> QED
    BY ONLY <1>1, <1>11, <2>1, <2>2, w \in WDs, x \in WDs, Settles
<1>15. Once'
  BY <1>1, <1>2, <1>7, <1>8 DEF Once
<1> QED
  BY <1>14, <1>15 DEF Placed

LEMMA HeldPlaces ==
  ASSUME Inv, Placed, SlotInv, NEW t \in Threads, NEW w \in Tasks, ExitToHeld(t, w)
  PROVE  Placed'
<1> USE DEF queues, group, exit, counts
<1> DEFINE x == held[w]
<1>1. DataTypeOK /\ Once /\ Apart /\ NoneLost /\ w \in WDs
  BY Names DEF Inv, Placed
<1>2. /\ x \in WDs /\ cur[t] = w /\ SwitchStacks(t, w, "gone", x)
      /\ held' = [held EXCEPT ![w] = None] /\ UNCHANGED <<ready, nexts, under>>
  BY <1>1 DEF ExitToHeld, ExitTo, At, SwitchStacks, DataTypeOK
<1>3. x \in Found("held")
  BY <1>1, <1>2, NoneApart DEF Found
<1>4. x \notin Found("ready") /\ x \notin Found("next")
  BY <1>1, <1>2, <1>3 DEF Apart, Kinds
<1>5. /\ Found("held")' = Found("held") \ {x}
      /\ \A u, v \in WDs : held'[u] = held'[v] /\ held'[u] # None => u = v
  BY <1>1, <1>2, HeldEmptied
<1> HIDE DEF x
<1>6. /\ Found("ready")' = (Found("ready") \ {x}) \cup (IF FALSE THEN {w} ELSE {})
      /\ Found("next")' = Found("next") \ {x}
  BY <1>2, <1>4 DEF Found
<1>7. pc[x] = "new" => under[x] = None
  BY <1>2 DEF SlotInv
<1>8. /\ Apart' /\ NoneLost'
      /\ \A u, v \in Threads : cur'[u] = cur'[v] => u = v
      /\ \A u, v \in WDs : under'[u] = under'[v] /\ under'[u] # None => u = v
  <2>1. x \in Found("ready") \cup Found("next") \cup Found("held")
    BY <1>3
  <2>2. IF FALSE THEN "gone" \in {"body", "idle"} ELSE "gone" \in {"blocked", "gone"}
    OBVIOUS
  <2> QED
    BY <1>1, <1>2, <1>5, <1>6, <1>7, <2>1, <2>2, SwitchPlaces
<1>9. Once'
  BY <1>1, <1>2, <1>5, <1>8 DEF Once
<1> QED
  BY <1>8, <1>9 DEF Placed

LEMMA PlacedSteps ==
  ASSUME Inv, Placed, SlotInv, NEW t \in Threads, Step(t)
  PROVE  Placed'
<1> USE DEF queues, group, exit, counts, At, Move
<1>1. DataTypeOK /\ Once /\ Apart /\ NoneLost
  BY DEF Inv, Placed
<1>2. ASSUME UNCHANGED <<cur, ready, nexts, under, held>>,
             \A v \in WDs : (Alive(v)' <=> Alive(v)) /\ (pc'[v] = "blocked" <=> pc[v] = "blocked")
      PROVE  Placed'
  BY <1>1, <1>2, StaysPut DEF Placed
<1>3. ASSUME NEW w \in WDs, NEW from, NEW to, Move(t, w, from, to),
             from \notin {"unborn", "gone", "blocked"}, to \notin {"unborn", "gone", "blocked"},
             UNCHANGED <<cur, ready, nexts, under, held>>
      PROVE  Placed'
  <2>1. \A v \in WDs : (Alive(v)' <=> Alive(v)) /\ (pc'[v] = "blocked" <=> pc[v] = "blocked")
    BY <1>1, <1>3 DEF Alive, DataTypeOK
  <2> QED
    BY <1>2, <1>3, <2>1
<1>4. ASSUME NEW w \in UserWDs, Taskwait(t, w) \/ WaitPass(t, w) \/ Lock(t, w) \/ NoNext(t, w)
      PROVE  Placed'
  <2>1. w \in WDs /\ UNCHANGED <<cur, ready, nexts, under, held>>
    BY <1>4, Names DEF Taskwait, WaitPass, Lock, NoNext
  <2>2. \/ Move(t, w, "body", "wait") \/ Move(t, w, "wait", "drain")
        \/ Move(t, w, "wait", "locked") \/ Move(t, w, "locked", "wait")
    BY <1>4 DEF Taskwait, WaitPass, Lock, NoNext
  <2> HIDE DEF Move
  <2> QED
    BY <1>3, <2>1, <2>2
<1>5. ASSUME NEW w \in UserWDs, Drain(t, w) PROVE Placed'
  <2>1. AfterWait(w) \in {"body", "done", "ref"}
    BY DEF AfterWait
  <2>2. w \in WDs /\ Move(t, w, "drain", AfterWait(w)) /\ UNCHANGED <<cur, ready, nexts, under, held>>
    BY <1>5, Names DEF Drain
  <2> HIDE DEF Move
  <2> QED
    BY <1>3, <2>1, <2>2
<1>6. ASSUME NEW w \in Tasks,
             Reference(t, w) \/ Unreference(t, w) \/ Decrement(t, w) \/ ExitIdle(t, w)
      PROVE  Placed'
  <2>1. w \in WDs /\ UNCHANGED <<cur, ready, nexts, under, held>>
    BY <1>6, Names DEF Reference, Unreference, Decrement, ExitIdle
  <2>2. \/ Move(t, w, "ref", "dec") \/ Move(t, w, "unref", "leave") \/ Move(t, w, "leave", "seek")
        \/ Move(t, w, "dec", "signal") \/ Move(t, w, "dec", "unref")
    BY <1>6 DEF Reference, Unreference, Decrement, ExitIdle
  <2> HIDE DEF Move
  <2> QED
    BY <1>3, <2>1, <2>2
<1>7. ASSUME StopScheduler(t) \/ StartScheduler(t) PROVE Placed'
  <2>1. UNCHANGED <<pc, cur, ready, nexts, under, held>>
    BY <1>7 DEF StopScheduler, StartScheduler
  <2> QED
    BY <1>2, <2>1 DEF Alive
<1>8. ASSUME NEW w \in UserWDs, NEW x \in WDs, Yield(t, w, x) PROVE Placed'
  <2>1. w \in WDs /\ cur[t] = w /\ held' = held
    BY <1>8, Names DEF Yield
  <2>2. CASE ULT
    <3> DEFINE back == <<w>>
    <3>1. PopReady(t, x, back) /\ SwitchStacks(t, w, "body", x) /\ "body" \in {"body", "idle"}
      BY <1>8, <2>2 DEF Yield
    <3>2. back = <<w>>
      OBVIOUS
    <3> HIDE DEF back
    <3> QED
      BY <2>1, <3>1, <3>2, TakenPlaces
  <2>3. CASE ~ULT
    <3> DEFINE back == <<>>
    <3>1. PopReady(t, x, back) /\ InlineWork(t, w, "body", x)
      BY <1>8, <2>3 DEF Yield
    <3>2. back = <<>> /\ pc[x] = "new"
      BY <2>3, <3>1, PopCanRun
    <3> HIDE DEF back
    <3> QED
      BY <2>1, <3>1, <3>2, TakenPlaces
  <2> QED
    BY <2>2, <2>3
<1>9. ASSUME NEW w \in UserWDs, NEW x \in WDs, SwitchAway(t, w, x) PROVE Placed'
  <2> DEFINE back == <<>>
  <2>1. w \in WDs /\ cur[t] = w /\ held' = held
    BY <1>9, Names DEF SwitchAway
  <2>2. back = <<>> /\ back # <<w>>
    OBVIOUS
  <2>3. PopNext(t, x, back) \/ PopReady(t, x, back)
    BY <1>9 DEF SwitchAway, Take
  <2>4. \/ SwitchStacks(t, w, "blocked", x)
        \/ InlineWork(t, w, "wait", x) /\ pc[x] = "new"
    BY <1>9, <2>3, PopCanRun DEF SwitchAway
  <2> HIDE DEF back
  <2> QED
    BY <2>1, <2>2, <2>3, <2>4, TakenPlaces
<1>10. ASSUME NEW w \in Tasks, NEW x \in WDs, NEW u \in Threads, ExitTo(t, w, x), cur[t] = w,
              held[w] = None, PopNext(u, x, <<>>) \/ PopReady(u, x, <<>>)
       PROVE  Placed'
  <2> DEFINE back == <<>>
  <2>1. w \in WDs /\ held' = [held EXCEPT ![w] = None] /\ SwitchStacks(t, w, "gone", x)
    BY <1>10, Names DEF ExitTo
  <2>2. back = <<>> /\ back # <<w>>
    OBVIOUS
  <2>3. PopNext(u, x, back) \/ PopReady(u, x, back)
    BY <1>10
  <2> HIDE DEF back
  <2> QED
    BY <1>10, <2>1, <2>2, <2>3, TakenPlaces
<1>11. ASSUME NEW w \in Tasks, NEW x \in WDs, ExitToNext(t, w, x) PROVE Placed'
  <2>1. /\ w \in WDs /\ cur[t] = w /\ pc[w] = "leave" /\ under[w] = None /\ held[w] = None
        /\ PopNext(home[w], x, <<>>) /\ ExitTo(t, w, x)
    BY <1>11, Names DEF ExitToNext
  <2>2. home[w] \in Threads
    BY <2>1, Names DEF Inv, JoinInv, Joined, Discounted, SlotInv
  <2> QED
    BY <1>10, <2>1, <2>2
<1>12. ASSUME NEW w \in Tasks, NEW x \in WDs, Seek(t, w, x) PROVE Placed'
  <2>1. /\ w \in WDs /\ cur[t] = w /\ pc[w] = "seek" /\ ExitTo(t, w, x)
        /\ PopNext(t, x, <<>>) \/ PopReady(t, x, <<>>)
    BY <1>12, Names DEF Seek, Take
  <2>2. held[w] = None
    BY <2>1 DEF SlotInv
  <2> QED
    BY <1>10, <2>1, <2>2
<1>13. ASSUME NEW x \in WDs, t \in Workers, WorkerSwitches(t, x) PROVE Placed'
  <2> DEFINE back == <<t>>
  <2>1. t \in WDs /\ cur[t] = t /\ held' = held
    BY <1>13, Names DEF WorkerSwitches
  <2>2. back = <<t>>
    OBVIOUS
  <2>3. PopNext(t, x, back) \/ PopReady(t, x, back)
    BY <1>13 DEF WorkerSwitches, Take
  <2>4. SwitchStacks(t, t, "idle", x) /\ "idle" \in {"body", "idle"}
    BY <1>13 DEF WorkerSwitches
  <2> HIDE DEF back
  <2> QED
    BY <2>1, <2>2, <2>3, <2>4, TakenPlaces
<1>14. ASSUME NEW x \in WDs, t \in Workers, WorkerInlines(t, x) PROVE Placed'
  <2> DEFINE back == <<>>
  <2>1. t \in WDs /\ cur[t] = t /\ held' = held
    BY <1>14, Names DEF WorkerInlines
  <2>2. back = <<>>
    OBVIOUS
  <2>3. PopNext(t, x, back) \/ PopReady(t, x, back)
    BY <1>14 DEF WorkerInlines, Take
  <2>4. InlineWork(t, t, "idle", x) /\ pc[x] = "new"
    BY <1>14 DEF WorkerInlines
  <2> HIDE DEF back
  <2> QED
    BY <2>1, <2>2, <2>3, <2>4, TakenPlaces
<1>15. CASE Worker(t)
  BY <1>13, <1>14, <1>15 DEF Worker
<1>16. ASSUME NEW w \in UserWDs, Program(t, w) \/ Wait(t, w) PROVE Placed'
  BY <1>4, <1>5, <1>8, <1>9, <1>16, SpawnPlaces, EndPlaces DEF Program, Wait
<1>17. ASSUME NEW w \in Tasks, ExitWork(t, w) \/ Leave(t, w) PROVE Placed'
  BY <1>6, <1>11, <1>12, <1>17, SignalPlaces, BackUnderPlaces, HeldPlaces DEF ExitWork, Leave
<1> QED
  BY <1>7, <1>15, <1>16, <1>17 DEF Step

-----------------------------------------------------------------------------
LEMMA PlaceInit == Init => PlaceInv
<1> SUFFICES ASSUME Init PROVE PlaceInv
  OBVIOUS
<1>1. \A w \in WDs : /\ held[w] = None /\ under[w] = None /\ ending[w] = FALSE
                     /\ pc[w] = IF w = Main THEN "body" ELSE IF w \in Workers THEN "idle" ELSE "unborn"
  BY DEF Init
<1>2. \A t \in Threads : cur[t] = OwnWD(t) /\ nexts[t] = <<>>
  BY DEF Init
<1>3. ready = <<>> /\ enabled = TRUE
  BY DEF Init
<1>4. Once
  <2>1. \A t, u \in Threads : OwnWD(t) = OwnWD(u) => t = u
    BY NamesAssumption, MasterAssumption DEF OwnWD, UserWDs
  <2> QED
    BY <1>1, <1>2, <1>3, <2>1 DEF Once, IsInjective
<1>5. /\ Found("ready") = {} /\ Found("next") = {} /\ Found("waiter") = {}
      /\ Found("under") = {} /\ Found("held") = {}
  BY <1>1, <1>2, <1>3 DEF Found, Range
<1>6. Found("runs") = {Main} \cup Workers
  BY <1>2, MasterAssumption DEF Found, OwnWD, Workers
<1>7. \A w \in WDs : Alive(w) <=> w \in {Main} \cup Workers
  BY <1>1 DEF Alive
<1>8. Apart /\ NoneLost
  BY <1>5, <1>6, <1>7 DEF Apart, NoneLost, Kinds
<1>9. SlotInv
  BY <1>1, <1>3, Names DEF SlotInv
<1> QED
  BY <1>4, <1>8, <1>9 DEF PlaceInv

LEMMA PlaceStep == Inv /\ PlaceInv /\ [Next]_vars => PlaceInv'
<1> SUFFICES ASSUME Inv, PlaceInv, [Next]_vars PROVE PlaceInv'
  OBVIOUS
<1>1. Placed /\ SlotInv /\ DataTypeOK
  BY DEF PlaceInv, Placed, Inv
<1>2. ASSUME NEW t \in Threads, Step(t) PROVE PlaceInv'
  BY <1>1, <1>2, PlacedSteps, SlotSteps DEF PlaceInv, Placed
<1>3. CASE UNCHANGED vars
  <2>1. Once' /\ Apart' /\ NoneLost'
    BY <1>1, <1>3, StaysPut DEF vars, queues, exit, Placed, Alive
  <2>2. SlotInv'
    BY <1>1, <1>3 DEF SlotInv, vars, exit
  <2> QED
    BY <2>1, <2>2 DEF PlaceInv
<1> QED
  BY <1>2, <1>3 DEF Next

LEMMA PlaceAlways == Spec => [](Inv /\ PlaceInv)
  BY InitInv, StepInv, PlaceInit, PlaceStep, PTL DEF Spec

LEMMA PlacesCounted ==
  ASSUME DataTypeOK, Once, Apart, NEW w \in WDs
  PROVE  Cardinality(PlacesOf(w)) = IF \E k \in Kinds : w \in Found(k) THEN 1 ELSE 0
<1> DEFINE P == PlacesOf(w)
           ReadyAt(i) == i \in DOMAIN ready /\ ready[i] = w
           NextAt(t, i) == t \in Threads /\ i \in DOMAIN nexts[t] /\ nexts[t][i] = w
<1>1. \A q : q \in P <=> \/ \E t \in Threads : cur[t] = w /\ q = <<"runs", t>>
                         \/ \E i : ReadyAt(i) /\ q = <<"ready", i>>
                         \/ \E t, i : NextAt(t, i) /\ q = <<"next", t, i>>
                         \/ pc[w] = "blocked" /\ q = <<"waiter", w>>
                         \/ \E v \in WDs : under[v] = w /\ q = <<"under", v>>
                         \/ \E v \in WDs : held[v] = w /\ q = <<"held", v>>
  <2> SUFFICES ASSUME NEW q
               PROVE  q \in P <=> \/ \E t \in Threads : cur[t] = w /\ q = <<"runs", t>>
                                  \/ \E i : ReadyAt(i) /\ q = <<"ready", i>>
                                  \/ \E t, i : NextAt(t, i) /\ q = <<"next", t, i>>
                                  \/ pc[w] = "blocked" /\ q = <<"waiter", w>>
                                  \/ \E v \in WDs : under[v] = w /\ q = <<"under", v>>
                                  \/ \E v \in WDs : held[v] = w /\ q = <<"held", v>>
    OBVIOUS
  <2> DEFINE R == {<<"runs", t>> : t \in {u \in Threads : cur[u] = w}}
             Q == {<<"ready", i>> : i \in {j \in DOMAIN ready : ready[j] = w}}
             N(t) == {<<"next", t, i>> : i \in {j \in DOMAIN nexts[t] : nexts[t][j] = w}}
             M == UNION {N(t) : t \in Threads}
             B == {<<"waiter", v>> : v \in {u \in {w} : pc[u] = "blocked"}}
             U == {<<"under", v>> : v \in {u \in WDs : under[u] = w}}
             H == {<<"held", v>> : v \in {u \in WDs : held[u] = w}}
  <2>1. P = R \cup Q \cup M \cup B \cup U \cup H
    BY DEF PlacesOf
  <2>2. q \in R <=> \E t \in Threads : cur[t] = w /\ q = <<"runs", t>>
    OBVIOUS
  <2>3. q \in Q <=> \E i : ReadyAt(i) /\ q = <<"ready", i>>
    OBVIOUS
  <2>4. q \in M <=> \E t, i : NextAt(t, i) /\ q = <<"next", t, i>>
    <3>1. \A t : q \in N(t) <=> \E i \in DOMAIN nexts[t] : nexts[t][i] = w /\ q = <<"next", t, i>>
      OBVIOUS
    <3>2. q \in M <=> \E t \in Threads : q \in N(t)
      OBVIOUS
    <3> HIDE DEF N, M
    <3> QED
      BY <3>1, <3>2 DEF NextAt
  <2>5. q \in B <=> pc[w] = "blocked" /\ q = <<"waiter", w>>
    OBVIOUS
  <2>6. q \in U <=> \E v \in WDs : under[v] = w /\ q = <<"under", v>>
    OBVIOUS
  <2>7. q \in H <=> \E v \in WDs : held[v] = w /\ q = <<"held", v>>
    OBVIOUS
  <2> HIDE DEF P, R, Q, N, M, B, U, H, ReadyAt, NextAt
  <2> QED
    BY <2>1, <2>2, <2>3, <2>4, <2>5, <2>6, <2>7
<1>2. /\ w \in Found("runs") <=> \E t \in Threads : cur[t] = w
      /\ w \in Found("ready") <=> \E i : ReadyAt(i)
      /\ w \in Found("next") <=> \E t, i : NextAt(t, i)
      /\ w \in Found("waiter") <=> pc[w] = "blocked"
      /\ w \in Found("under") <=> \E v \in WDs : under[v] = w
      /\ w \in Found("held") <=> \E v \in WDs : held[v] = w
  BY NoneApart DEF Found, Range
<1>3. /\ \A t, u \in Threads : cur[t] = w /\ cur[u] = w => t = u
      /\ \A i, j : ReadyAt(i) /\ ReadyAt(j) => i = j
      /\ \A t, i, u, j : NextAt(t, i) /\ NextAt(u, j) => t = u /\ i = j
      /\ \A u, v \in WDs : under[u] = w /\ under[v] = w => u = v
      /\ \A u, v \in WDs : held[u] = w /\ held[v] = w => u = v
  BY NoneApart DEF Once, IsInjective
<1>4. \A k, l \in Kinds : w \in Found(k) /\ w \in Found(l) => k = l
  BY DEF Apart
<1> HIDE DEF P, ReadyAt, NextAt
<1>5. CASE \A k \in Kinds : w \notin Found(k)
  <2>1. P = {}
    BY <1>1, <1>2, <1>5 DEF Kinds
  <2> QED
    BY <1>5, <2>1, FS_EmptySet DEF P
<1>6. ASSUME NEW q, P = {q}, \E k \in Kinds : w \in Found(k)
      PROVE  Cardinality(PlacesOf(w)) = IF \E k \in Kinds : w \in Found(k) THEN 1 ELSE 0
  BY <1>6, FS_Singleton DEF P
<1>7. CASE w \in Found("runs")
  <2>1. PICK t \in Threads : cur[t] = w
    BY <1>2, <1>7
  <2>2. /\ w \notin Found("ready") /\ w \notin Found("next") /\ w \notin Found("waiter")
        /\ w \notin Found("under") /\ w \notin Found("held")
    BY <1>4, <1>7 DEF Kinds
  <2> DEFINE q == <<"runs", t>>
  <2>3. \A r : r \in P <=> r = q
    BY <1>1, <1>2, <1>3, <2>1, <2>2
  <2> HIDE DEF q
  <2>4. P = {q}
    BY <2>3
  <2> QED
    BY <1>6, <1>7, <2>4 DEF Kinds
<1>8. CASE w \in Found("ready")
  <2>1. PICK i : ReadyAt(i)
    BY <1>2, <1>8
  <2>2. /\ w \notin Found("runs") /\ w \notin Found("next") /\ w \notin Found("waiter")
        /\ w \notin Found("under") /\ w \notin Found("held")
    BY <1>4, <1>8 DEF Kinds
  <2> DEFINE q == <<"ready", i>>
  <2>3. \A r : r \in P <=> r = q
    BY <1>1, <1>2, <1>3, <2>1, <2>2
  <2> HIDE DEF q
  <2>4. P = {q}
    BY <2>3
  <2> QED
    BY <1>6, <1>8, <2>4 DEF Kinds
<1>9. CASE w \in Found("next")
  <2>1. PICK t, i : NextAt(t, i)
    BY <1>2, <1>9
  <2>2. /\ w \notin Found("runs") /\ w \notin Found("ready") /\ w \notin Found("waiter")
        /\ w \notin Found("under") /\ w \notin Found("held")
    BY <1>4, <1>9 DEF Kinds
  <2> DEFINE q == <<"next", t, i>>
  <2>3. \A r : r \in P <=> r = q
    BY <1>1, <1>2, <1>3, <2>1, <2>2
  <2> HIDE DEF q
  <2>4. P = {q}
    BY <2>3
  <2> QED
    BY <1>6, <1>9, <2>4 DEF Kinds
<1>10. CASE w \in Found("waiter")
  <2>2. /\ w \notin Found("runs") /\ w \notin Found("ready") /\ w \notin Found("next")
        /\ w \notin Found("under") /\ w \notin Found("held")
    BY <1>4, <1>10 DEF Kinds
  <2> DEFINE q == <<"waiter", w>>
  <2>3. \A r : r \in P <=> r = q
    BY <1>1, <1>2, <1>10, <2>2
  <2> HIDE DEF q
  <2>4. P = {q}
    BY <2>3
  <2> QED
    BY <1>6, <1>10, <2>4 DEF Kinds
<1>11. CASE w \in Found("under")
  <2>1. PICK v \in WDs : under[v] = w
    BY <1>2, <1>11
  <2>2. /\ w \notin Found("runs") /\ w \notin Found("ready") /\ w \notin Found("next")
        /\ w \notin Found("waiter") /\ w \notin Found("held")
    BY <1>4, <1>11 DEF Kinds
  <2> DEFINE q == <<"under", v>>
  <2>3. \A r : r \in P <=> r = q
    BY <1>1, <1>2, <1>3, <2>1, <2>2
  <2> HIDE DEF q
  <2>4. P = {q}
    BY <2>3
  <2> QED
    BY <1>6, <1>11, <2>4 DEF Kinds
<1>12. CASE w \in Found("held")
  <2>1. PICK v \in WDs : held[v] = w
    BY <1>2, <1>12
  <2>2. /\ w \notin Found("runs") /\ w \notin Found("ready") /\ w \notin Found("next")
        /\ w \notin Found("waiter") /\ w \notin Found("under")
    BY <1>4, <1>12 DEF Kinds
  <2> DEFINE q == <<"held", v>>
  <2>3. \A r : r \in P <=> r = q
    BY <1>1, <1>2, <1>3, <2>1, <2>2
  <2> HIDE DEF q
  <2>4. P = {q}
    BY <2>3
  <2> QED
    BY <1>6, <1>12, <2>4 DEF Kinds
<1> QED
  BY <1>5, <1>7, <1>8, <1>9, <1>10, <1>11, <1>12 DEF Kinds

(* However switches, inlining and wake-ups cross, no WD is queued twice or run by two
   threads, and none is run after it is destroyed (Scheduler::switchHelper, exit, WDDeque). *)
THEOREM NeverTwiceHolds == Spec => []NeverTwice
<1>1. Inv /\ PlaceInv => NeverTwice
  <2> SUFFICES ASSUME Inv, PlaceInv, NEW w \in WDs
               PROVE  Cardinality(PlacesOf(w)) <= IF pc[w] \in {"unborn", "gone"} THEN 0 ELSE 1
    BY DEF NeverTwice
  <2>1. Cardinality(PlacesOf(w)) = IF \E k \in Kinds : w \in Found(k) THEN 1 ELSE 0
    BY PlacesCounted DEF Inv, PlaceInv
  <2>2. (\E k \in Kinds : w \in Found(k)) => pc[w] \notin {"unborn", "gone"}
    BY DEF PlaceInv, Apart, Alive
  <2> QED
    BY <2>1, <2>2
<1> QED
  BY <1>1, PlaceAlways, PTL

(* A WD that is alive is in exactly one place and none is lost, unless the program uses
   user-level threads and stops the scheduler (Scheduler::wakeUp, schedule.cpp:485). *)
THEOREM OnePlaceHolds == ASSUME KeepsAll PROVE Spec => []OnePlace
<1>1. Inv /\ PlaceInv => OnePlace
  <2> SUFFICES ASSUME Inv, PlaceInv, NEW w \in WDs
               PROVE  Cardinality(PlacesOf(w)) = IF pc[w] \in {"unborn", "gone"} THEN 0 ELSE 1
    BY DEF OnePlace
  <2>1. Cardinality(PlacesOf(w)) = IF \E k \in Kinds : w \in Found(k) THEN 1 ELSE 0
    BY PlacesCounted DEF Inv, PlaceInv
  <2>2. (\E k \in Kinds : w \in Found(k)) <=> pc[w] \notin {"unborn", "gone"}
    BY DEF PlaceInv, Apart, NoneLost, Alive
  <2> QED
    BY <2>1, <2>2
<1> QED
  BY <1>1, PlaceAlways, PTL

-----------------------------------------------------------------------------
(* Without user-level threads: the stacks of the threads and the ties. *)

LEMMA TiedInit == Init => TiedInv
<1> SUFFICES ASSUME Init PROVE TiedInv
  OBVIOUS
<1>1. \A t \in Threads : tied[OwnWD(t)] \in {None, t} /\ cur[t] = OwnWD(t)
  BY Names DEF Init, OwnWD, Workers, WDs
<1>2. TiedRules
  BY <1>1 DEF TiedRules
<1>3. StackInv
  BY Names DEF StackInv, Init, Alive
<1> QED
  BY <1>2, <1>3 DEF TiedInv

\* A step that leaves the threads, the stacks and the ties alone.
LEMMA TiedStill ==
  ASSUME DataTypeOK, TiedInv, UNCHANGED <<cur, under, tied, held>>,
         \A v \in WDs : \/ pc'[v] = pc[v]
                        \/ pc'[v] = "new" /\ pc[v] = "unborn"
                        \/ pc[v] \notin {"unborn", "new", "gone"} /\ pc'[v] # "seek"
  PROVE  TiedInv'
<1> SUFFICES ASSUME ~ULT PROVE TiedInv'
  BY DEF TiedInv, StackInv
<1>1. TiedRules'
  BY DEF TiedInv, TiedRules
<1>2. StackInv'
  BY Names DEF TiedInv, StackInv, Alive
<1> QED
  BY <1>1, <1>2 DEF TiedInv

\* Thread t runs x, which it took from a queue, above w.
LEMMA TiedInline ==
  ASSUME DataTypeOK, TiedInv, ~ULT, Once, Apart, NEW t \in Threads, NEW w \in WDs, NEW x \in WDs,
         cur[t] = w, NEW place, place \in {"body", "idle", "wait"}, pc[w] \notin {"unborn", "new"},
         x \in Found("ready") \cup Found("next"), CanRun(x, t), InlineWork(t, w, place, x),
         held' = held
  PROVE  TiedInv'
<1>1. /\ x # w /\ x \notin Found("under") /\ x \notin Found("runs")
      /\ w \in Found("runs")
  <2>1. w \in Found("runs") /\ x \notin Found("under") /\ x \notin Found("runs")
    BY RunsOnly DEF Apart, Kinds
  <2> QED
    BY <2>1
<1>2. pc' = [pc EXCEPT ![w] = place, ![x] = "body"] /\ cur' = [cur EXCEPT ![t] = x]
      /\ under' = [under EXCEPT ![x] = w]
  BY DEF InlineWork
<1>3. tied[x] \in {None, t} /\ tied[w] \in {None, t}
  BY DEF CanRun, TiedInv, TiedRules
<1>4. /\ tied'[x] \in {None, t} /\ (tied[w] = None \/ tied'[x] = t)
      /\ \A v \in WDs \ {x} : tied'[v] = tied[v]
  BY <1>3 DEF InlineWork, DataTypeOK
<1>5. \A u \in Threads : cur[u] # x
  BY <1>1 DEF Found
<1>6. TiedRules'
  BY <1>2, <1>4, <1>5 DEF TiedInv, TiedRules, DataTypeOK
<1>7. \A v \in WDs : under[v] # x
  BY <1>1, NoneApart DEF Found
<1>8. \A v \in WDs : under'[v] # None => tied'[under'[v]] \in {None, tied'[v]}
  <2> SUFFICES ASSUME NEW v \in WDs, under'[v] # None PROVE tied'[under'[v]] \in {None, tied'[v]}
    OBVIOUS
  <2>1. CASE v = x
    BY <1>1, <1>2, <1>3, <1>4, <2>1 DEF DataTypeOK
  <2>2. CASE v # x
    <3>1. under'[v] = under[v] /\ under[v] \in WDs \ {x} /\ tied'[v] = tied[v]
      BY <1>2, <1>4, <1>7, <2>2 DEF DataTypeOK
    <3> QED
      BY <1>4, <3>1 DEF TiedInv, StackInv
  <2> QED
    BY <2>1, <2>2
<1>9. \A v \in WDs : held'[v] = None /\ pc'[v] # "seek"
  BY <1>2 DEF TiedInv, StackInv, DataTypeOK
<1>10. \A v \in Tasks : Alive(v)' /\ pc'[v] # "new" => under'[v] # None
  <2> SUFFICES ASSUME NEW v \in Tasks, Alive(v)', pc'[v] # "new" PROVE under'[v] # None
    OBVIOUS
  <2>1. v \in WDs
    BY Names
  <2>2. CASE v = x
    BY <1>2, <2>1, <2>2, NoneApart DEF DataTypeOK
  <2>3. CASE v # x
    <3>1. under'[v] = under[v] /\ (pc'[v] = pc[v] \/ v = w)
      BY <1>2, <2>1, <2>3 DEF DataTypeOK
    <3>2. Alive(v) /\ pc[v] # "new"
      <4>1. Alive(w)
        BY RunsOnly
      <4> QED
        BY <3>1, <4>1 DEF Alive
    <3> QED
      BY <3>1, <3>2 DEF TiedInv, StackInv
  <2> QED
    BY <2>2, <2>3
<1>11. StackInv'
  BY <1>8, <1>9, <1>10 DEF StackInv
<1> QED
  BY <1>6, <1>11 DEF TiedInv

LEMMA TiedSteps ==
  ASSUME Inv, PlaceInv, TiedInv, NEW t \in Threads, Step(t)
  PROVE  TiedInv'
<1> SUFFICES ASSUME ~ULT PROVE TiedInv'
  BY DEF TiedInv, StackInv
<1> USE DEF queues, group, exit, counts, At, Move
<1>0. DataTypeOK /\ Once /\ Apart /\ StackInv /\ TiedRules
  BY DEF Inv, PlaceInv, TiedInv
<1> DEFINE Slow(v) == \/ pc'[v] = pc[v]
                      \/ pc'[v] = "new" /\ pc[v] = "unborn"
                      \/ pc[v] \notin {"unborn", "new", "gone"} /\ pc'[v] # "seek"
<1>1. ASSUME UNCHANGED <<cur, under, tied, held>>, \A v \in WDs : Slow(v) PROVE TiedInv'
  BY <1>0, <1>1, TiedStill
<1>2. ASSUME NEW w \in UserWDs, NEW c \in Tasks, Spawn(t, w, c) PROVE TiedInv'
  BY <1>0, <1>1, <1>2, Names DEF Spawn, DataTypeOK
<1>3. ASSUME NEW w \in UserWDs, Taskwait(t, w) \/ WaitPass(t, w) \/ Lock(t, w) \/ NoNext(t, w)
      PROVE  TiedInv'
  BY <1>0, <1>1, <1>3, Names DEF Taskwait, WaitPass, Lock, NoNext, DataTypeOK
<1>4. ASSUME NEW w \in UserWDs, Drain(t, w) PROVE TiedInv'
  <2>1. AfterWait(w) \in {"body", "done", "ref"}
    BY DEF AfterWait
  <2> QED
    BY <1>0, <1>1, <1>4, <2>1, Names DEF Drain, DataTypeOK
<1>5. ASSUME NEW w \in Tasks, Reference(t, w) \/ Unreference(t, w) PROVE TiedInv'
  BY <1>0, <1>1, <1>5, Names DEF Reference, Unreference, DataTypeOK
<1>6. ASSUME NEW w \in Tasks, Decrement(t, w) PROVE TiedInv'
  BY <1>0, <1>1, <1>6, Names DEF Decrement, DataTypeOK
<1>7. ASSUME NEW w \in Tasks, Signal(t, w) PROVE TiedInv'
  BY <1>0, <1>1, <1>7, Names DEF Signal, DataTypeOK
<1>8. ASSUME StopScheduler(t) \/ StartScheduler(t) PROVE TiedInv'
  BY <1>1, <1>8 DEF StopScheduler, StartScheduler
<1>9. ASSUME NEW w \in UserWDs, End(t, w) PROVE TiedInv'
  BY <1>0, <1>1, <1>9, Names DEF End, ExitULT, ReturnInlined, DataTypeOK
\* What the end of a WD without a stack beneath would do is never done.
<1>10. ASSUME NEW w \in Tasks, pc[w] = "leave" PROVE under[w] # None
  BY <1>0, <1>10 DEF StackInv, Alive
<1>11. ASSUME NEW w \in Tasks, ExitIdle(t, w) PROVE TiedInv'
  BY <1>10, <1>11 DEF ExitIdle
<1>12. ASSUME NEW w \in Tasks, ExitToHeld(t, w) PROVE TiedInv'
  BY <1>0, <1>12, Names DEF ExitToHeld, StackInv
<1>13. ASSUME NEW w \in Tasks, NEW x \in WDs, ExitToNext(t, w, x) PROVE TiedInv'
  BY <1>10, <1>13 DEF ExitToNext
<1>14. ASSUME NEW w \in Tasks, NEW x \in WDs, Seek(t, w, x) PROVE TiedInv'
  BY <1>0, <1>14, Names DEF Seek, StackInv
<1>15. ASSUME NEW x \in WDs, NEW back, PopNext(t, x, back) \/ PopReady(t, x, back)
       PROVE  CanRun(x, t) /\ x \in Found("ready") \cup Found("next") /\ pc[x] = "new"
  <2>1. CanRun(x, t)
    BY <1>15 DEF PopNext, PopReady, First
  <2>2. x \in Found("ready") \cup Found("next")
    BY <1>15 DEF PopNext, PopReady, Found, Range
  <2> QED
    BY <2>1, <2>2 DEF CanRun
<1>16. ASSUME NEW w \in UserWDs, NEW x \in WDs, Yield(t, w, x) PROVE TiedInv'
  <2>1. /\ w \in WDs /\ cur[t] = w /\ pc[w] = "body" /\ held' = held
        /\ PopReady(t, x, <<>>) /\ InlineWork(t, w, "body", x)
    BY <1>16, Names DEF Yield
  <2> HIDE DEF Slow
  <2> QED
    BY <1>0, <1>15, <2>1, TiedInline
<1>17. ASSUME NEW w \in UserWDs, NEW x \in WDs, SwitchAway(t, w, x) PROVE TiedInv'
  <2>1. /\ w \in WDs /\ cur[t] = w /\ pc[w] = "locked" /\ held' = held
        /\ PopNext(t, x, <<>>) \/ PopReady(t, x, <<>>)
        /\ InlineWork(t, w, "wait", x)
    BY <1>17, Names DEF SwitchAway, Take
  <2> HIDE DEF Slow
  <2> QED
    BY <1>0, <1>15, <2>1, TiedInline
<1>18. ASSUME NEW x \in WDs, t \in Workers, WorkerSwitches(t, x) \/ WorkerInlines(t, x) PROVE TiedInv'
  <2>1. PopNext(t, x, <<t>>) \/ PopReady(t, x, <<t>>) \/ PopNext(t, x, <<>>) \/ PopReady(t, x, <<>>)
    BY <1>18 DEF WorkerSwitches, WorkerInlines, Take
  <2>2. CanRun(x, t) /\ x \in Found("ready") \cup Found("next") /\ pc[x] = "new"
    BY <1>15, <2>1
  <2>3. t \in WDs /\ cur[t] = t /\ pc[t] = "idle" /\ held' = held /\ InlineWork(t, t, "idle", x)
    BY <1>18, <2>2, Names DEF WorkerSwitches, WorkerInlines
  <2> HIDE DEF Slow
  <2> QED
    BY <1>0, <2>2, <2>3, TiedInline
<1>19. ASSUME NEW w \in Tasks, BackUnder(t, w) PROVE TiedInv'
  <2>1. /\ w \in WDs /\ cur[t] = w /\ under[w] \in WDs /\ tied' = tied /\ held' = held
        /\ pc' = [pc EXCEPT ![w] = "gone"] /\ cur' = [cur EXCEPT ![t] = under[w]]
        /\ under' = [under EXCEPT ![w] = None]
    BY <1>0, <1>19, Names DEF BackUnder, DataTypeOK
  <2>2. tied[under[w]] \in {None, t}
    BY <1>0, <2>1, NoneApart DEF TiedRules, StackInv
  <2>3. TiedRules'
    BY <1>0, <2>1, <2>2 DEF TiedRules, DataTypeOK
  <2>4. \A v \in WDs \ {w} : pc'[v] = pc[v] /\ under'[v] = under[v]
    BY <1>0, <2>1 DEF DataTypeOK
  <2>5. pc'[w] = "gone" /\ under'[w] = None
    BY <1>0, <2>1 DEF DataTypeOK
  <2>6. StackInv'
    BY <1>0, <2>1, <2>4, <2>5, Names DEF StackInv, Alive
  <2> QED
    BY <2>3, <2>6 DEF TiedInv
<1>20. CASE Worker(t)
  BY <1>18, <1>20 DEF Worker
<1>21. ASSUME NEW w \in UserWDs, Program(t, w) \/ Wait(t, w) PROVE TiedInv'
  BY <1>2, <1>3, <1>4, <1>9, <1>16, <1>17, <1>21 DEF Program, Wait
<1>22. ASSUME NEW w \in Tasks, ExitWork(t, w) \/ Leave(t, w) PROVE TiedInv'
  BY <1>5, <1>6, <1>7, <1>11, <1>12, <1>13, <1>14, <1>19, <1>22 DEF ExitWork, Leave
<1> QED
  BY <1>8, <1>20, <1>21, <1>22 DEF Step

LEMMA TiedStep == Inv /\ PlaceInv /\ TiedInv /\ [Next]_vars => TiedInv'
<1> SUFFICES ASSUME Inv, PlaceInv, TiedInv, [Next]_vars PROVE TiedInv'
  OBVIOUS
<1>1. CASE UNCHANGED vars
  BY <1>1 DEF vars, exit, TiedInv, StackInv, TiedRules, Alive
<1> QED
  BY <1>1, TiedSteps DEF Next

(* Without user-level threads no thread runs a WD tied to another, nor comes back to one
   when an inlined WD returns (Scheduler::checkBasicConstraints, inlineWork). *)
THEOREM TiedRulesHold == ASSUME ~ULT PROVE Spec => []TiedRules
<1>1. TiedInv => TiedRules
  BY DEF TiedInv
<1>2. Spec => []TiedInv
  BY PlaceAlways, TiedInit, TiedStep, PTL DEF Spec
<1> QED
  BY <1>1, <1>2, PTL
=============================================================================
