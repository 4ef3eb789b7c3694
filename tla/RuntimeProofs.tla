--------------------------- MODULE RuntimeProofs ---------------------------
(***************************************************************************)
(* For every number of threads, of tasks and of teams: no task runs while  *)
(* all threads are paused; no thread is taken for two teams at once, and   *)
(* no team is deleted while a thread has to do with it; a resize ends with *)
(* the workers asked for, each once in the team; for every number of       *)
(* devices and of blocks, tasks read what was written last where nothing   *)
(* is copied back late.                                                    *)
(***************************************************************************)
EXTENDS MCRuntime, CoherenceProofs, FiniteSetTheorems, SequenceTheorems, NaturalsInduction,
        WellFoundedInduction, TLAPS

-----------------------------------------------------------------------------
(* The pause of all threads. *)

(* Threads are numbered from 0, which runs user code. *)
LEMMA PausingThreads ==
    /\ N \in Nat \ {0} /\ 0 \in Pausing!Threads /\ Pausing!Threads = 0..(N - 1)
    /\ IsFiniteSet(Pausing!Threads) /\ Cardinality(Pausing!Threads) = N
<1>1. N \in Nat \ {0}
  BY RuntimeAssumption
<1>2. IsFiniteSet(0..(N - 1)) /\ Cardinality(0..(N - 1)) = N
  BY <1>1, FS_Interval
<1> QED
  BY <1>1, <1>2 DEF Pausing!Threads

(* The instance counts as FiniteSets does. *)
LEMMA PausingCardinality == \A S : Pausing!Cardinality(S) = Cardinality(S)
BY Zenon DEF Pausing!Cardinality, Cardinality

(* A thread that marks itself goes on to be counted as it was until it counts itself. *)
LEMMA MarkCounted ==
  ASSUME Pausing!TypeOK, NEW t \in Pausing!Threads, call[t] = "none", NEW b \in BOOLEAN,
         Pausing!Mark(t, b)
  PROVE  /\ Pausing!Counted' = Pausing!Counted
         /\ paused' \in [Pausing!Threads -> BOOLEAN]
         /\ call' \in [Pausing!Threads -> {"none", "count", "check", "signal"}]
         /\ paused'[t] = b /\ call'[t] = IF paused[t] = b THEN "none" ELSE "count"
         /\ \A u \in Pausing!Threads \ {t} : paused'[u] = paused[u] /\ call'[u] = call[u]
<1> USE DEF Pausing!TypeOK, Pausing!Mark
<1>1. /\ paused' \in [Pausing!Threads -> BOOLEAN]
      /\ call' \in [Pausing!Threads -> {"none", "count", "check", "signal"}]
  OBVIOUS
<1>2. paused'[t] = b /\ call'[t] = IF paused[t] = b THEN "none" ELSE "count"
  OBVIOUS
<1>3. \A u \in Pausing!Threads \ {t} : paused'[u] = paused[u] /\ call'[u] = call[u]
  OBVIOUS
<1>4. (IF call'[t] = "count" THEN ~paused'[t] ELSE paused'[t]) <=> paused[t]
  <2>1. CASE paused[t] = b
    BY <1>2, <2>1
  <2>2. CASE paused[t] # b
    <3>1. CASE b = TRUE
      BY <1>2, <2>2, <3>1
    <3>2. CASE b = FALSE
      BY <1>2, <2>2, <3>2
    <3> QED
      BY <3>1, <3>2
  <2> QED
    BY <2>1, <2>2
<1>5. \A u \in Pausing!Threads : (IF call'[u] = "count" THEN ~paused'[u] ELSE paused'[u])
                              <=> (IF call[u] = "count" THEN ~paused[u] ELSE paused[u])
  BY <1>3, <1>4
<1>6. \A u : u \in Pausing!Counted' <=> u \in Pausing!Counted
  BY <1>5 DEF Pausing!Counted
<1> QED
  BY <1>1, <1>2, <1>3, <1>6

(* No more threads are counted than there are. *)
LEMMA CountedBound ==
  ASSUME NEW S \in SUBSET Pausing!Threads
  PROVE  Cardinality(S) \in 0..N
<1>1. IsFiniteSet(S) /\ Cardinality(S) <= N
  BY PausingThreads, FS_Subset
<1>2. Cardinality(S) \in Nat
  BY <1>1, FS_CardinalityType
<1> QED
  BY <1>1, <1>2, PausingThreads

(* Nothing is paused when it begins. *)
LEMMA PausingInit == Pausing!PausesInit => Pausing!Inductive
<1> SUFFICES ASSUME Pausing!PausesInit PROVE Pausing!Inductive
  OBVIOUS
<1> USE DEF Pausing!PausesInit
<1>1. Pausing!TypeOK
  <2>1. pPc \in [Pausing!Threads -> {"loop", "test", "get", "take", "body", "main"}]
    OBVIOUS
  <2>2. count \in 0..N
    BY PausingThreads
  <2> QED
    BY <2>1, <2>2 DEF Pausing!TypeOK
<1>2. Pausing!Counted = {}
  BY DEF Pausing!Counted
<1>3. Pausing!CountInv
  BY <1>2, PausingCardinality, FS_EmptySet DEF Pausing!CountInv
<1>4. Pausing!StoppedInv /\ Pausing!PausedInv /\ Pausing!ToldInv
  BY DEF Pausing!StoppedInv, Pausing!PausedInv, Pausing!ToldInv
<1> QED
  BY <1>1, <1>3, <1>4 DEF Pausing!Inductive

(* Telling the system counts the thread, or no longer counts it. *)
LEMMA CountStep ==
  ASSUME Pausing!Inductive, NEW t \in Pausing!Threads, Pausing!Count(t)
  PROVE  Pausing!Inductive'
<1> USE DEF Pausing!Inductive, Pausing!TypeOK, Pausing!Count, Pausing!Tell,
            Pausing!tasks, Pausing!main
<1>1. /\ call[t] = "count" /\ call'[t] = "check"
      /\ \A u \in Pausing!Threads \ {t} : call'[u] = call[u]
  OBVIOUS
<1>2. IsFiniteSet(Pausing!Counted) /\ count = Cardinality(Pausing!Counted)
  BY PausingThreads, PausingCardinality, FS_Subset DEF Pausing!CountInv, Pausing!Counted
<1>3. Pausing!Counted' = IF paused[t] THEN Pausing!Counted \cup {t} ELSE Pausing!Counted \ {t}
  <2>1. CASE paused[t]
    BY <1>1, <2>1 DEF Pausing!Counted
  <2>2. CASE ~paused[t]
    BY <1>1, <2>2 DEF Pausing!Counted
  <2> QED
    BY <2>1, <2>2
<1>4. t \in Pausing!Counted <=> ~paused[t]
  BY <1>1 DEF Pausing!Counted
<1>5. count' = Cardinality(Pausing!Counted')
  <2>1. CASE paused[t]
    BY <1>2, <1>3, <1>4, <2>1, FS_AddElement
  <2>2. CASE ~paused[t]
    BY <1>2, <1>3, <1>4, <2>2, FS_RemoveElement
  <2> QED
    BY <2>1, <2>2
<1>6. Pausing!CountInv'
  BY <1>5, PausingCardinality DEF Pausing!CountInv
<1>7. count' \in 0..N
  <2>1. Pausing!Counted' \in SUBSET Pausing!Threads
    BY DEF Pausing!Counted
  <2> QED
    BY <1>5, <2>1, CountedBound
<1>8. Pausing!TypeOK'
  BY <1>7
<1>9. Pausing!StoppedInv' /\ Pausing!PausedInv' /\ Pausing!ToldInv'
  BY <1>1 DEF Pausing!StoppedInv, Pausing!PausedInv, Pausing!ToldInv
<1> QED
  BY <1>6, <1>8, <1>9

(* What a thread checks and signals after it has been counted changes no count. *)
LEMMA NotifyStep ==
  ASSUME Pausing!Inductive, NEW t \in Pausing!Threads, Pausing!Check(t) \/ Pausing!Signal(t)
  PROVE  Pausing!Inductive'
<1> USE DEF Pausing!Inductive, Pausing!TypeOK
<1>1. /\ UNCHANGED <<careful, enabled, paused, count, pPc, pReady, pMade, user, stops>>
      /\ waits' \in BOOLEAN /\ woken' \in BOOLEAN
  BY DEF Pausing!Check, Pausing!Signal, Pausing!tasks, Pausing!main
<1>2. PICK to \in {"none", "signal"} : call[t] # "count" /\ call' = [call EXCEPT ![t] = to]
  BY DEF Pausing!Check, Pausing!Signal, Pausing!Tell
<1>3. \A u \in Pausing!Threads : call'[u] = "count" <=> call[u] = "count"
  BY <1>2
<1>4. Pausing!Counted' = Pausing!Counted
  BY <1>1, <1>3 DEF Pausing!Counted
<1>5. Pausing!TypeOK'
  BY <1>1, <1>2
<1> QED
  BY <1>1, <1>3, <1>4, <1>5
  DEF Pausing!StoppedInv, Pausing!CountInv, Pausing!PausedInv, Pausing!ToldInv

(* A thread that marks itself as it finds the scheduler: while user code waits for the threads
   to pause it only pauses, while it waits for them to go on it only goes on. *)
LEMMA MarkTold ==
  ASSUME Pausing!Inductive, NEW t \in Pausing!Threads, call[t] = "none", NEW b \in BOOLEAN,
         Pausing!Mark(t, b), t = 0 \/ b = ~enabled, UNCHANGED <<careful, user>>
  PROVE  Pausing!ToldInv'
<1> SUFFICES ASSUME careful, NEW u \in Pausing!Threads \ {0}
             PROVE  /\ user \in {"code", "stop", "end"} => ~paused'[u] /\ call'[u] # "count"
                    /\ user = "wait paused" => paused'[u] \/ call'[u] # "count"
                    /\ user \in {"section", "start"} => paused'[u] /\ call'[u] # "count"
                    /\ user = "wait unpaused" => ~paused'[u] \/ call'[u] # "count"
  BY DEF Pausing!ToldInv
<1>1. /\ paused'[t] = b /\ call'[t] = IF paused[t] = b THEN "none" ELSE "count"
      /\ \A v \in Pausing!Threads \ {t} : paused'[v] = paused[v] /\ call'[v] = call[v]
  BY MarkCounted DEF Pausing!Inductive
<1>2. /\ user \in {"code", "stop", "end"} => ~paused[u] /\ call[u] # "count"
      /\ user = "wait paused" => paused[u] \/ call[u] # "count"
      /\ user \in {"section", "start"} => paused[u] /\ call[u] # "count"
      /\ user = "wait unpaused" => ~paused[u] \/ call[u] # "count"
  BY DEF Pausing!Inductive, Pausing!ToldInv
<1>3. CASE u # t
  BY <1>1, <1>2, <1>3
<1>4. CASE u = t
  <2>1. b = ~enabled /\ paused[t] \in BOOLEAN
    BY <1>4 DEF Pausing!Inductive, Pausing!TypeOK
  <2>2. CASE user \in {"wait paused", "section", "start"}
    <3>1. b = TRUE
      BY <2>1, <2>2 DEF Pausing!Inductive, Pausing!StoppedInv
    <3> QED
      BY <1>1, <1>2, <1>4, <2>1, <2>2, <3>1
  <2>3. CASE user \notin {"wait paused", "section", "start"}
    <3>1. b = FALSE
      BY <2>1, <2>3 DEF Pausing!Inductive, Pausing!StoppedInv
    <3> QED
      BY <1>1, <1>2, <1>4, <2>1, <2>3, <3>1
  <2> QED
    BY <2>2, <2>3
<1> QED
  BY <1>3, <1>4

(* A step in which thread t marks itself, goes from its place to another one and tells nobody
   yet. *)
LEMMA MarkStep ==
  ASSUME Pausing!Inductive, NEW t \in Pausing!Threads, call[t] = "none", NEW b \in BOOLEAN,
         Pausing!Mark(t, b), t = 0 \/ b = ~enabled,
         NEW place \in {"loop", "test", "get", "take", "body", "main"},
         pPc' = [pPc EXCEPT ![t] = place],
         t # 0 /\ b => place \in {"loop", "test", "get"},
         UNCHANGED <<careful, enabled, count, user>>,
         pReady' \in Nat, pMade' \in Nat, stops' \in Nat, waits' \in BOOLEAN, woken' \in BOOLEAN
  PROVE  Pausing!Inductive'
<1>1. /\ Pausing!Counted' = Pausing!Counted
      /\ paused' \in [Pausing!Threads -> BOOLEAN]
      /\ call' \in [Pausing!Threads -> {"none", "count", "check", "signal"}]
      /\ paused'[t] = b
      /\ \A u \in Pausing!Threads \ {t} : paused'[u] = paused[u]
  BY MarkCounted DEF Pausing!Inductive
<1>2. Pausing!TypeOK'
  BY <1>1 DEF Pausing!Inductive, Pausing!TypeOK
<1>3. Pausing!PausedInv'
  BY <1>1 DEF Pausing!Inductive, Pausing!TypeOK, Pausing!PausedInv
<1>4. Pausing!CountInv' /\ Pausing!StoppedInv'
  BY <1>1 DEF Pausing!Inductive, Pausing!CountInv, Pausing!StoppedInv
<1>5. Pausing!ToldInv'
  BY MarkTold
<1> QED
  BY <1>2, <1>3, <1>4, <1>5 DEF Pausing!Inductive

(* The idle loop, and the end of a task. *)
LEMMA IdleInv ==
  ASSUME Pausing!Inductive, NEW t \in Pausing!Threads, Pausing!IdleStep(t)
  PROVE  Pausing!Inductive'
<1>1. Pausing!TypeOK
  BY DEF Pausing!Inductive
<1>2. /\ (~enabled) \in BOOLEAN
      /\ pReady \in Nat /\ pMade \in Nat /\ stops \in Nat /\ waits \in BOOLEAN /\ woken \in BOOLEAN
  <2>1. (~enabled) \in BOOLEAN
    BY Zenon
  <2> QED
    BY <1>1, <2>1 DEF Pausing!TypeOK
<1> USE DEF Pausing!At, Pausing!Go, Pausing!MarkAsEnabled, Pausing!tasks, Pausing!main, Pausing!flags
<1>3. CASE Pausing!Loop(t)
  <2>1. PICK place \in {"main", "test"} : pPc' = [pPc EXCEPT ![t] = place] /\ (place = "main" => t = 0)
    BY <1>3 DEF Pausing!Loop
  <2>2. /\ call[t] = "none" /\ Pausing!Mark(t, ~enabled) /\ woken' \in BOOLEAN
        /\ UNCHANGED <<careful, enabled, count, user, pReady, pMade, stops, waits>>
    BY <1>2, <1>3 DEF Pausing!Loop
  <2> QED
    BY <1>2, <2>1, <2>2, MarkStep
<1>4. CASE Pausing!GetWD(t)
  <2>1. PICK place \in {"take", "loop"} : pPc' = [pPc EXCEPT ![t] = place] /\ (~enabled => place = "loop")
    BY <1>4 DEF Pausing!GetWD
  <2>2. /\ call[t] = "none" /\ Pausing!Mark(t, ~enabled)
        /\ UNCHANGED <<careful, enabled, count, user, pReady, pMade, stops, waits, woken>>
    BY <1>4 DEF Pausing!GetWD
  <2> QED
    BY <1>2, <2>1, <2>2, MarkStep
<1>5. CASE Pausing!Exit(t) /\ ~(t = 0 /\ woken /\ ~enabled)
  <2>1. PICK place \in {"main", "loop"} : pPc' = [pPc EXCEPT ![t] = place] /\ (place = "main" => t = 0)
    BY <1>5 DEF Pausing!Exit
  <2>2. /\ call[t] = "none" /\ Pausing!Mark(t, ~enabled) /\ woken' \in BOOLEAN
        /\ UNCHANGED <<careful, enabled, count, user, pReady, pMade, stops, waits>>
    BY <1>2, <1>5 DEF Pausing!Exit
  <2> QED
    BY <1>2, <2>1, <2>2, MarkStep
<1>6. CASE \/ Pausing!Test(t) \/ Pausing!Take(t)
           \/ Pausing!Exit(t) /\ t = 0 /\ woken /\ ~enabled
  <2>1. /\ UNCHANGED <<careful, enabled, count, user, paused, call, pMade, stops, waits>>
        /\ pReady' \in Nat /\ woken' \in BOOLEAN
    <3>1. CASE Pausing!Test(t) \/ Pausing!Take(t)
      BY <1>2, <3>1 DEF Pausing!Test, Pausing!Take
    <3>2. CASE Pausing!Exit(t) /\ t = 0 /\ woken /\ ~enabled
      BY <1>2, <3>2 DEF Pausing!Exit
    <3> QED
      BY <1>6, <3>1, <3>2
  <2>2. PICK place \in {"loop", "get", "body", "main"} :
           pPc' = [pPc EXCEPT ![t] = place] /\ (t # 0 /\ paused[t] => place \in {"loop", "get"})
    BY <1>1, <1>6 DEF Pausing!Test, Pausing!Take, Pausing!Exit, Pausing!Inductive, Pausing!PausedInv
  <2>3. Pausing!TypeOK'
    BY <1>1, <2>1, <2>2 DEF Pausing!TypeOK
  <2>4. Pausing!PausedInv'
    BY <1>1, <2>1, <2>2 DEF Pausing!TypeOK, Pausing!PausedInv, Pausing!Inductive
  <2>5. Pausing!Counted' = Pausing!Counted
    BY <2>1 DEF Pausing!Counted
  <2>6. Pausing!CountInv' /\ Pausing!StoppedInv' /\ Pausing!ToldInv'
    BY <2>1, <2>5 DEF Pausing!CountInv, Pausing!StoppedInv, Pausing!ToldInv, Pausing!Inductive
  <2> QED
    BY <2>3, <2>4, <2>6 DEF Pausing!Inductive
<1> QED
  BY <1>3, <1>4, <1>5, <1>6 DEF Pausing!IdleStep

(* User code submits a task, stops the scheduler and starts it, and blocks in a wait: thread 0
   marks itself, which says nothing of the workers. *)
LEMMA UserMarks ==
  ASSUME Pausing!Inductive,
         \/ Pausing!Submit \/ Pausing!StopScheduler \/ Pausing!StartScheduler \/ Pausing!WaitBlock
  PROVE  Pausing!Inductive'
<1>1. Pausing!TypeOK /\ 0 \in Pausing!Threads
  BY PausingThreads DEF Pausing!Inductive
<1>2. /\ (~enabled) \in BOOLEAN
      /\ pReady \in Nat /\ pMade \in Nat /\ stops \in Nat /\ waits \in BOOLEAN /\ woken \in BOOLEAN
  <2>1. (~enabled) \in BOOLEAN
    BY Zenon
  <2> QED
    BY <1>1, <2>1 DEF Pausing!TypeOK
<1> USE DEF Pausing!At, Pausing!Go, Pausing!MarkAsEnabled, Pausing!UserAt, Pausing!Then
<1>3. CASE Pausing!Submit
  <2>1. /\ call[0] = "none" /\ pPc[0] = "main" /\ Pausing!Mark(0, ~enabled)
        /\ UNCHANGED <<careful, enabled, count, pPc, user, stops, waits, woken>>
        /\ pReady' \in Nat /\ pMade' \in Nat
    BY <1>2, <1>3 DEF Pausing!Submit, Pausing!main
  <2>2. pPc' = [pPc EXCEPT ![0] = "main"]
    BY <1>1, <2>1 DEF Pausing!TypeOK
  <2> QED
    BY <1>1, <1>2, <2>1, <2>2, MarkStep
<1>4. CASE Pausing!WaitBlock
  <2>1. /\ call[0] = "none" /\ Pausing!Mark(0, FALSE) /\ pPc' = [pPc EXCEPT ![0] = "body"]
        /\ UNCHANGED <<careful, enabled, count, user, pMade, stops, woken>> /\ waits' = TRUE
    BY <1>4 DEF Pausing!WaitBlock
  <2>2. pReady' \in Nat
    <3>1. pReady > 0 /\ pReady' = pReady - 1
      BY <1>4, Zenon DEF Pausing!WaitBlock
    <3> QED
      BY <1>2, <3>1
  <2> QED
    BY <1>1, <1>2, <2>1, <2>2, MarkStep
<1>5. CASE Pausing!StopScheduler \/ Pausing!StartScheduler
  <2>1. PICK b \in BOOLEAN : Pausing!Mark(0, b)
    BY <1>5 DEF Pausing!StopScheduler, Pausing!StartScheduler
  <2>2. /\ call[0] = "none"
        /\ \/ user = "code" /\ user' = "stop" /\ stops' = stops + 1
           \/ user = "section" /\ user' = "start" /\ stops' = stops
        /\ UNCHANGED <<careful, enabled, count, pPc, pReady, pMade, waits, woken>>
    BY <1>5 DEF Pausing!StopScheduler, Pausing!StartScheduler, Pausing!tasks
  <2>3. /\ Pausing!Counted' = Pausing!Counted
        /\ paused' \in [Pausing!Threads -> BOOLEAN]
        /\ call' \in [Pausing!Threads -> {"none", "count", "check", "signal"}]
        /\ \A u \in Pausing!Threads \ {0} : paused'[u] = paused[u] /\ call'[u] = call[u]
    BY <1>1, <2>1, <2>2, MarkCounted
  <2>4. Pausing!TypeOK'
    <3>1. user' \in {"stop", "start"} /\ stops' \in Nat
      BY <1>2, <2>2
    <3> QED
      BY <1>1, <2>2, <2>3, <3>1 DEF Pausing!TypeOK
  <2>5. Pausing!PausedInv' /\ Pausing!ToldInv'
    BY <2>2, <2>3 DEF Pausing!Inductive, Pausing!PausedInv, Pausing!ToldInv
  <2>6. Pausing!CountInv' /\ Pausing!StoppedInv'
    BY <2>2, <2>3 DEF Pausing!Inductive, Pausing!CountInv, Pausing!StoppedInv
  <2> QED
    BY <2>4, <2>5, <2>6 DEF Pausing!Inductive
<1> QED
  BY <1>3, <1>4, <1>5

(* When all threads are counted each of them is, and when none is none of them is. *)
LEMMA AllOrNoneCounted ==
  ASSUME Pausing!Inductive
  PROVE  /\ count = N => Pausing!Counted = Pausing!Threads
         /\ count = 0 => Pausing!Counted = {}
<1>1. /\ Pausing!Counted \subseteq Pausing!Threads
      /\ count = Cardinality(Pausing!Counted)
  BY PausingCardinality DEF Pausing!Inductive, Pausing!CountInv, Pausing!Counted
<1>2. IsFiniteSet(Pausing!Counted)
  BY <1>1, PausingThreads, FS_Subset
<1>3. ASSUME count = N PROVE Pausing!Counted = Pausing!Threads
  BY <1>1, <1>3, PausingThreads, FS_Subset
<1>4. ASSUME count = 0 PROVE Pausing!Counted = {}
  BY <1>1, <1>2, <1>4, FS_EmptySet
<1> QED
  BY <1>3, <1>4

(* User code stops the scheduler itself, starts it, is told that all threads have paused or
   gone on, and ends. *)
LEMMA UserGoesOn ==
  ASSUME Pausing!Inductive,
         Pausing!Disable \/ Pausing!Enable \/ Pausing!WaitPass \/ Pausing!End
  PROVE  Pausing!Inductive'
<1> USE DEF Pausing!UserAt, Pausing!Then, Pausing!flags, Pausing!tasks
<1>1. UNCHANGED <<careful, count, paused, call, pPc, pReady, pMade, waits, woken, stops>>
  BY DEF Pausing!Disable, Pausing!Enable, Pausing!WaitPass, Pausing!End
<1>2. \/ user = "stop" /\ enabled' = FALSE /\ user' = "wait paused"
      \/ user = "start" /\ enabled' = TRUE /\ user' = IF careful THEN "wait unpaused" ELSE "code"
      \/ user = "wait paused" /\ count = N /\ enabled' = enabled /\ user' = "section"
      \/ user = "wait unpaused" /\ count = 0 /\ enabled' = enabled /\ user' = "code"
      \/ user = "code" /\ enabled' = enabled /\ user' = "end"
  BY DEF Pausing!Disable, Pausing!Enable, Pausing!WaitPass, Pausing!End, Pausing!Holds
<1>3. Pausing!TypeOK' /\ Pausing!StoppedInv'
  <2>1. Pausing!TypeOK'
    <3>1. /\ enabled' \in BOOLEAN
          /\ user' \in {"code", "stop", "wait paused", "section", "start", "wait unpaused", "end"}
      BY <1>2 DEF Pausing!Inductive, Pausing!TypeOK
    <3> QED
      BY <1>1, <3>1 DEF Pausing!Inductive, Pausing!TypeOK
  <2>2. Pausing!StoppedInv'
    BY <1>2 DEF Pausing!Inductive, Pausing!StoppedInv
  <2> QED
    BY <2>1, <2>2
<1>4. Pausing!Counted' = Pausing!Counted
  BY <1>1 DEF Pausing!Counted
<1>5. Pausing!CountInv' /\ Pausing!PausedInv'
  BY <1>1, <1>4 DEF Pausing!Inductive, Pausing!CountInv, Pausing!PausedInv
<1>6. Pausing!ToldInv'
  <2> SUFFICES ASSUME careful, NEW u \in Pausing!Threads \ {0}
               PROVE  /\ user' \in {"code", "stop", "end"} => ~paused[u] /\ call[u] # "count"
                      /\ user' = "wait paused" => paused[u] \/ call[u] # "count"
                      /\ user' \in {"section", "start"} => paused[u] /\ call[u] # "count"
                      /\ user' = "wait unpaused" => ~paused[u] \/ call[u] # "count"
    BY <1>1 DEF Pausing!ToldInv
  <2>1. /\ user \in {"code", "stop", "end"} => ~paused[u] /\ call[u] # "count"
        /\ user = "wait paused" => paused[u] \/ call[u] # "count"
        /\ user \in {"section", "start"} => paused[u] /\ call[u] # "count"
        /\ user = "wait unpaused" => ~paused[u] \/ call[u] # "count"
    BY DEF Pausing!Inductive, Pausing!ToldInv
  <2>2. count = N => IF call[u] = "count" THEN ~paused[u] ELSE paused[u]
    BY AllOrNoneCounted DEF Pausing!Counted
  <2>3. count = 0 => ~(IF call[u] = "count" THEN ~paused[u] ELSE paused[u])
    BY AllOrNoneCounted DEF Pausing!Counted
  <2> QED
    BY <1>2, <2>1, <2>2, <2>3
<1> QED
  BY <1>3, <1>5, <1>6 DEF Pausing!Inductive

(* The invariant of the pauses is kept by each of their steps. *)
LEMMA PausingStep == Pausing!Inductive /\ [Pausing!PausesNext]_(Pausing!pausesVars) => Pausing!Inductive'
<1> SUFFICES ASSUME Pausing!Inductive, [Pausing!PausesNext]_(Pausing!pausesVars)
             PROVE  Pausing!Inductive'
  OBVIOUS
<1>1. ASSUME NEW t \in Pausing!Threads, Pausing!Notify(t) PROVE Pausing!Inductive'
  BY <1>1, CountStep, NotifyStep DEF Pausing!Notify
<1>2. ASSUME NEW t \in Pausing!Threads, Pausing!IdleStep(t) PROVE Pausing!Inductive'
  BY <1>2, IdleInv
<1>3. CASE Pausing!UserStep
  BY <1>3, UserMarks, UserGoesOn DEF Pausing!UserStep
<1>4. CASE UNCHANGED Pausing!pausesVars
  BY <1>4 DEF Pausing!pausesVars, Pausing!flags, Pausing!tasks, Pausing!main, Pausing!Inductive,
     Pausing!TypeOK, Pausing!StoppedInv, Pausing!CountInv, Pausing!Counted, Pausing!PausedInv,
     Pausing!ToldInv
<1> QED
  BY <1>1, <1>2, <1>3, <1>4 DEF Pausing!PausesNext

-----------------------------------------------------------------------------
(* The teams of parallel regions. *)

(* The instance has the same elements of a sequence. *)
LEMMA RegionElements ==
  ASSUME NEW s
  PROVE  Regions!ToSet(s) = {s[i] : i \in DOMAIN s}
BY DEF Regions!ToSet

(* The first team and the main thread are there. *)
LEMMA RegionNames == 0 \in Regions!Threads /\ 0 \in Regions!Ids /\ Regions!Threads \subseteq Nat /\ Regions!Ids = 0..MaxTeams
BY RuntimeAssumption DEF Regions!Threads, Regions!Ids

(* The instance counts as FiniteSets does. *)
LEMMA RegionCardinality == \A S : Regions!Cardinality(S) = Cardinality(S)
BY Zenon DEF Regions!Cardinality, Cardinality

(* The teams that threads have to do with have been created. *)
LEMMA MadeTeams ==
  ASSUME Regions!TypeOK
  PROVE  /\ tMade \in Nat /\ tMade <= MaxTeams /\ 0..tMade \subseteq Regions!Ids /\ tAlive \subseteq Regions!Ids
         /\ \A t \in Regions!Threads : tNext[t] \in Regions!Ids /\ tNext[t] \in 0..tMade
<1>1. tMade \in Nat /\ tMade <= MaxTeams
  BY RegionNames, RuntimeAssumption DEF Regions!TypeOK
<1>2. 0..tMade \subseteq Regions!Ids
  BY <1>1, RegionNames, RuntimeAssumption
<1>3. tAlive \subseteq Regions!Ids
  BY <1>2 DEF Regions!TypeOK
<1>4. \A t \in Regions!Threads : tNext[t] \in 0..tMade
  BY DEF Regions!TypeOK
<1> QED
  BY <1>1, <1>2, <1>3, <1>4

(* Nothing is created when the regions begin but the first team. *)
LEMMA RegionInit == Regions!TeamsInit => Regions!Inductive
<1> SUFFICES ASSUME Regions!TeamsInit PROVE Regions!Inductive
  OBVIOUS
<1> DEFINE maker == [k \in Regions!Ids |-> 0]
<1>1. maker \in [Regions!Ids -> Regions!Threads]
  BY RegionNames
<1> HIDE DEF maker
<1>2. /\ tHasTeam = [t \in Regions!Threads |-> t = 0]
      /\ tData = [t \in Regions!Threads |-> IF t = 0 THEN <<0>> ELSE <<>>]
      /\ tNext = [t \in Regions!Threads |-> 0]
      /\ tJobs = [t \in Regions!Threads |-> <<>>]
      /\ tPc = [t \in Regions!Threads |-> IF t = 0 THEN "region" ELSE "idle"]
      /\ tSeen = [t \in Regions!Threads |-> t]
      /\ tMade = 0 /\ tAlive = {0}
      /\ tThreads = [k \in Regions!Ids |-> IF k = 0 THEN {0} ELSE {}]
      /\ tArrived = [k \in Regions!Ids |-> {}]
      /\ tExists \in {0..k : k \in Regions!Threads}
  BY DEF Regions!TeamsInit
<1>3. Regions!TypeOK
  <2>1. tMade \in Regions!Ids /\ 0..tMade = {0} /\ tAlive \subseteq 0..tMade /\ tNext \in [Regions!Threads -> 0..tMade]
    BY <1>2, RegionNames
  <2>2. /\ tHasTeam \in [Regions!Threads -> BOOLEAN]
        /\ tData \in [Regions!Threads -> Seq(Regions!Ids)] /\ tJobs \in [Regions!Threads -> Seq(Regions!Ids)]
    BY <1>2, RegionNames
  <2>3. /\ tPc \in [Regions!Threads -> {"idle", "region", "look", "reserve", "acquire", "enter", "barrier",
                               "remove", "unlock", "end"}]
        /\ \A t \in Regions!Threads : tPc[t] \notin {"reserve", "acquire"}
    BY <1>2
  <2>4. tSeen \in [Regions!Threads -> Regions!Threads \cup Regions!Ids]
    BY <1>2
  <2>5. /\ tThreads \in [Regions!Ids -> SUBSET Regions!Threads] /\ tArrived \in [Regions!Ids -> SUBSET Regions!Threads]
        /\ \A k \in Regions!Ids : k > tMade => tThreads[k] = {}
    BY <1>2, RegionNames
  <2> QED
    BY <1>2, <2>1, <2>2, <2>3, <2>4, <2>5 DEF Regions!TypeOK
<1>4. Regions!PlaceInv /\ Regions!JobInv /\ Regions!EnterInv(maker) /\ Regions!LeaveInv(maker)
  BY <1>2 DEF Regions!PlaceInv, Regions!JobInv, Regions!EnterInv, Regions!LeaveInv, Regions!Free
<1>5. Regions!DataInv(maker)
  BY <1>2, RegionNames DEF Regions!DataInv
<1>6. Regions!GatherInv(maker) /\ Regions!ReserveInv
  BY <1>2 DEF Regions!GatherInv, Regions!ReserveInv, Regions!Gathering
<1>7. Regions!MemberInv
  BY <1>2, RegionNames DEF Regions!MemberInv
<1> QED
  BY <1>1, <1>3, <1>4, <1>5, <1>6, <1>7 DEF Regions!Inductive, Regions!TeamsInv

(* A thread stays in the maps for the reasons it is there. *)
LEMMA MemberStays ==
  ASSUME Regions!TypeOK, Regions!MemberInv, UNCHANGED <<tData, tNext, tJobs>>,
         \A k \in Regions!Ids : tThreads'[k] \subseteq tThreads[k],
         \A v \in Regions!Threads : Regions!Gathering(v)' <=> Regions!Gathering(v),
         \A v \in Regions!Threads : tPc[v] = "enter" => tPc'[v] = "enter",
         \A v \in Regions!Threads, k \in Regions!Ids :
            tPc[v] = "remove" /\ tSeen[v] = k /\ v \in tThreads'[k] => tPc'[v] = "remove" /\ tSeen'[v] = k
  PROVE  Regions!MemberInv'
<1> SUFFICES ASSUME NEW k \in Regions!Ids, NEW v \in tThreads'[k]
             PROVE  \/ \E i \in DOMAIN tData'[v] : tData'[v][i] = k
                    \/ tPc'[v] = "remove" /\ tSeen'[v] = k
                    \/ Regions!Awaits(v, k)'
  BY DEF Regions!MemberInv
<1>1. v \in tThreads[k] /\ v \in Regions!Threads
  BY DEF Regions!TypeOK
<1>2. CASE \E i \in DOMAIN tData[v] : tData[v][i] = k
  BY <1>2
<1>3. CASE tPc[v] = "remove" /\ tSeen[v] = k
  BY <1>1, <1>3
<1>4. CASE Regions!Awaits(v, k)
  BY <1>1, <1>4 DEF Regions!Awaits
<1> QED
  BY <1>1, <1>2, <1>3, <1>4 DEF Regions!MemberInv

(* A creator finds a thread, and may find it taken. *)
LEMMA LookStep ==
  ASSUME NEW maker \in [Regions!Ids -> Regions!Threads], Regions!TeamsInv(maker), NEW t \in Regions!Threads, NEW u \in Regions!Threads,
         Regions!Look(t, u)
  PROVE  Regions!TeamsInv(maker)'
<1> USE DEF Regions!TeamsInv
<1>1. /\ tPc[t] = "look" /\ tPc' = [tPc EXCEPT ![t] = "reserve"] /\ tSeen' = [tSeen EXCEPT ![t] = u]
      /\ UNCHANGED <<tExists, tHasTeam, tData, tNext, tJobs, tMade, tAlive, tThreads, tArrived>>
  BY DEF Regions!Look, Regions!Goto
<1>2. Regions!TypeOK'
  BY <1>1 DEF Regions!TypeOK
<1>3. /\ tPc'[t] = "reserve" /\ \A v \in Regions!Threads : v # t => tPc'[v] = tPc[v] /\ tSeen'[v] = tSeen[v]
      /\ \A v \in Regions!Threads : Regions!Gathering(v)' <=> Regions!Gathering(v)
  BY <1>1 DEF Regions!TypeOK, Regions!Gathering
<1>4. Regions!PlaceInv'
  BY <1>1, <1>3 DEF Regions!PlaceInv, Regions!Free
<1>5. Regions!DataInv(maker)' /\ Regions!JobInv' /\ Regions!EnterInv(maker)' /\ Regions!LeaveInv(maker)'
  BY <1>1, <1>3 DEF Regions!DataInv, Regions!JobInv, Regions!EnterInv, Regions!LeaveInv
<1>6. Regions!GatherInv(maker)'
  BY <1>1, <1>3 DEF Regions!GatherInv, Regions!Unstarted, Regions!Free, Regions!Gathering
<1>7. Regions!ReserveInv'
  BY <1>1, <1>3 DEF Regions!ReserveInv, Regions!Free
<1>8. Regions!MemberInv'
  BY <1>1, <1>3, MemberStays
<1> QED
  BY <1>2, <1>4, <1>5, <1>6, <1>7, <1>8

(* A new thread has no team. *)
LEMMA CreateWorkerStep ==
  ASSUME NEW maker \in [Regions!Ids -> Regions!Threads], Regions!TeamsInv(maker), NEW t \in Regions!Threads, Regions!CreateWorker(t)
  PROVE  Regions!TeamsInv(maker)'
<1> USE DEF Regions!TeamsInv
<1>1. UNCHANGED <<tHasTeam, tData, tNext, tJobs, tPc, tSeen, tMade, tAlive, tThreads, tArrived>>
  BY DEF Regions!CreateWorker
<1>2. tExists' \in {0..k : k \in Regions!Threads}
  <2>1. PICK k \in Regions!Threads : tExists = 0..k
    BY DEF Regions!TypeOK
  <2>2. k \in Nat /\ Limit \in Nat
    BY <2>1, RegionNames, RuntimeAssumption
  <2>3. Regions!Cardinality(tExists) = k + 1
    BY <2>1, <2>2, FS_Interval, RegionCardinality
  <2>4. tExists' = 0..(k + 1)
    BY <2>1, <2>2, <2>3 DEF Regions!CreateWorker
  <2>5. k + 1 \in Regions!Threads
    BY <2>2, <2>3 DEF Regions!CreateWorker, Regions!Threads
  <2> QED
    BY <2>4, <2>5
<1>3. Regions!TypeOK'
  BY <1>1, <1>2 DEF Regions!TypeOK
<1>4. Regions!PlaceInv' /\ Regions!DataInv(maker)' /\ Regions!JobInv' /\ Regions!EnterInv(maker)' /\ Regions!LeaveInv(maker)'
  BY <1>1 DEF Regions!PlaceInv, Regions!DataInv, Regions!JobInv, Regions!EnterInv, Regions!LeaveInv,
     Regions!Free
<1>5. Regions!GatherInv(maker)' /\ Regions!ReserveInv' /\ Regions!MemberInv'
  BY <1>1 DEF Regions!GatherInv, Regions!ReserveInv, Regions!MemberInv, Regions!Awaits,
     Regions!Unstarted, Regions!Gathering, Regions!Free
<1> QED
  BY <1>3, <1>4, <1>5

(* The test of a thread is repeated under its lock: a reserved thread was free. *)
LEMMA ReserveStep ==
  ASSUME NEW maker \in [Regions!Ids -> Regions!Threads], Regions!TeamsInv(maker), NEW t \in Regions!Threads, Regions!Reserve(t)
  PROVE  Regions!TeamsInv(maker)'
<1> USE DEF Regions!TeamsInv
<1>0. PICK u \in Regions!Threads : u = tSeen[t]
  BY DEF Regions!Reserve, Regions!TypeOK
<1>1. /\ tPc[t] = "reserve"
      /\ UNCHANGED <<tExists, tData, tNext, tJobs, tSeen, tMade, tAlive, tThreads, tArrived>>
  BY DEF Regions!Reserve
<1>2. \/ tHasTeam[u] /\ tPc' = [tPc EXCEPT ![t] = "look"] /\ tHasTeam' = tHasTeam
      \/ ~tHasTeam[u] /\ tPc' = [tPc EXCEPT ![t] = "acquire"] /\ tHasTeam' = [tHasTeam EXCEPT ![u] = TRUE]
  BY <1>0 DEF Regions!Reserve, Regions!Goto
<1>3. /\ \A v \in Regions!Threads : v # t => tPc'[v] = tPc[v]
      /\ \A v \in Regions!Threads : tHasTeam[v] => tHasTeam'[v]
      /\ \A v \in Regions!Threads : Regions!Gathering(v)' <=> Regions!Gathering(v)
      /\ tPc'[t] \in {"look", "acquire"}
  <2>1. /\ \A v \in Regions!Threads : v # t => tPc'[v] = tPc[v]
        /\ tPc'[t] \in {"look", "acquire"}
    <3>1. PICK place \in {"look", "acquire"} : tPc' = [tPc EXCEPT ![t] = place]
      BY <1>2
    <3> QED
      BY <3>1 DEF Regions!TypeOK
  <2>2. \A v \in Regions!Threads : tHasTeam[v] => tHasTeam'[v]
    <3>1. tHasTeam \in [Regions!Threads -> BOOLEAN]
      BY DEF Regions!TypeOK
    <3>2. CASE tHasTeam' = tHasTeam
      BY <3>2
    <3>3. CASE tHasTeam' = [tHasTeam EXCEPT ![u] = TRUE]
      BY <3>1, <3>3
    <3> QED
      BY <1>2, <3>2, <3>3
  <2> QED
    BY <1>1, <2>1, <2>2 DEF Regions!Gathering
<1>4. Regions!TypeOK'
  BY <1>1, <1>2 DEF Regions!TypeOK
<1>5. Regions!PlaceInv'
  BY <1>1, <1>3 DEF Regions!PlaceInv, Regions!Free
<1>6. Regions!DataInv(maker)' /\ Regions!JobInv' /\ Regions!EnterInv(maker)' /\ Regions!LeaveInv(maker)'
  BY <1>1, <1>3 DEF Regions!DataInv, Regions!JobInv, Regions!EnterInv, Regions!LeaveInv
<1>7. Regions!GatherInv(maker)'
  BY <1>1, <1>3 DEF Regions!GatherInv, Regions!Unstarted, Regions!Free, Regions!Gathering
<1>8. Regions!MemberInv'
  BY <1>1, <1>3, MemberStays
<1>9. Regions!ReserveInv'
  <2>1. CASE tHasTeam[u]
    <3>1. tPc'[t] = "look" /\ tHasTeam' = tHasTeam
      BY <1>1, <1>2, <2>1 DEF Regions!TypeOK
    <3> SUFFICES ASSUME NEW c \in Regions!Threads, tPc'[c] = "acquire"
                 PROVE  /\ tHasTeam[tSeen[c]] /\ Regions!Free(tSeen[c])'
                        /\ \A d \in Regions!Threads :
                              /\ tPc'[d] = "acquire" /\ tSeen[d] = tSeen[c] => d = c
                              /\ Regions!Gathering(d)' => tSeen[c] \notin tThreads[tNext[d]]
      BY <1>1, <3>1 DEF Regions!ReserveInv
    <3>2. tPc[c] = "acquire" /\ tSeen[c] \in Regions!Threads
      BY <1>3, <3>1 DEF Regions!TypeOK
    <3>3. PICK v \in Regions!Threads : v = tSeen[c]
      BY <3>2
    <3>4. Regions!Free(v) /\ tHasTeam[v] /\ v # t
      BY <1>1, <3>2, <3>3 DEF Regions!ReserveInv, Regions!Free
    <3>5. Regions!Free(v)'
      BY <1>1, <1>3, <3>4 DEF Regions!Free
    <3>6. \A d \in Regions!Threads : tPc'[d] = "acquire" /\ tSeen[d] = tSeen[c] => d = c
      BY <1>3, <3>1, <3>2 DEF Regions!ReserveInv
    <3>7. \A d \in Regions!Threads : Regions!Gathering(d)' => tSeen[c] \notin tThreads[tNext[d]]
      BY <1>3, <3>2 DEF Regions!ReserveInv
    <3> QED
      BY <1>1, <3>3, <3>4, <3>5, <3>6, <3>7 DEF Regions!Free
  <2>2. CASE ~tHasTeam[u]
    <3>1. tPc'[t] = "acquire" /\ tHasTeam'[u] /\ Regions!Free(u) /\ tPc[u] # "reserve"
      BY <1>1, <1>2, <2>2 DEF Regions!TypeOK, Regions!PlaceInv, Regions!Free
    <3>2. \A d \in Regions!Threads : Regions!Gathering(d) => u \notin tThreads[tNext[d]]
      BY <1>1, <2>2, <3>1 DEF Regions!GatherInv, Regions!Gathering, Regions!Free
    <3>3. \A d \in Regions!Threads : tPc[d] = "acquire" => tSeen[d] # u
      BY <2>2 DEF Regions!ReserveInv
    <3> SUFFICES ASSUME NEW c \in Regions!Threads, tPc'[c] = "acquire"
                 PROVE  /\ tHasTeam'[tSeen[c]] /\ Regions!Free(tSeen[c])'
                        /\ \A d \in Regions!Threads :
                              /\ tPc'[d] = "acquire" /\ tSeen[d] = tSeen[c] => d = c
                              /\ Regions!Gathering(d)' => tSeen[c] \notin tThreads[tNext[d]]
      BY <1>1 DEF Regions!ReserveInv
    <3>4. \A d \in Regions!Threads : tPc'[d] = "acquire" <=> d = t \/ tPc[d] = "acquire"
      BY <1>3, <3>1
    <3>5. CASE c = t
      BY <1>0, <1>1, <1>3, <3>1, <3>2, <3>3, <3>4, <3>5 DEF Regions!Free
    <3>6. CASE c # t
      <4>1. tPc[c] = "acquire" /\ tSeen[c] # u /\ tSeen[c] \in Regions!Threads
        BY <3>3, <3>4, <3>6 DEF Regions!TypeOK
      <4>2. Regions!Free(tSeen[c])' /\ tHasTeam'[tSeen[c]]
        <5>1. PICK v \in Regions!Threads : v = tSeen[c]
          BY <4>1
        <5>2. Regions!Free(v) /\ tHasTeam[v] /\ tPc[v] # "reserve"
          BY <4>1, <5>1 DEF Regions!ReserveInv, Regions!Free
        <5>3. Regions!Free(v)' /\ tHasTeam'[v]
          BY <1>1, <1>3, <5>2 DEF Regions!Free
        <5> QED
          BY <1>1, <5>1, <5>3 DEF Regions!Free
      <4> QED
        <5>1. \A d \in Regions!Threads : tPc'[d] = "acquire" /\ tSeen[d] = tSeen[c] => d = c
          <6>1. \A d \in Regions!Threads : tPc[d] = "acquire" /\ tSeen[d] = tSeen[c] => d = c
            BY <4>1 DEF Regions!ReserveInv
          <6> QED
            BY <1>0, <3>4, <4>1, <6>1
        <5>2. \A d \in Regions!Threads : Regions!Gathering(d)' => tSeen[c] \notin tThreads[tNext[d]]
          BY <1>3, <4>1 DEF Regions!ReserveInv
        <5> QED
          BY <4>2, <5>1, <5>2
    <3> QED
      BY <3>5, <3>6
  <2> QED
    BY <2>1, <2>2
<1> QED
  BY <1>4, <1>5, <1>6, <1>7, <1>8, <1>9

(* A thread arrives at the barrier at the end of its region. *)
LEMMA ArriveStep ==
  ASSUME NEW maker \in [Regions!Ids -> Regions!Threads], Regions!TeamsInv(maker), NEW t \in Regions!Threads, Regions!Arrive(t)
  PROVE  Regions!TeamsInv(maker)'
<1> USE DEF Regions!TeamsInv
<1>1. /\ tPc[t] = "region" /\ tPc' = [tPc EXCEPT ![t] = "barrier"]
      /\ tArrived' = [tArrived EXCEPT ![Regions!Current(t)] = @ \cup {t}]
      /\ UNCHANGED <<tExists, tHasTeam, tData, tNext, tJobs, tSeen, tMade, tAlive, tThreads>>
  BY DEF Regions!Arrive, Regions!Goto
<1>2. /\ tPc'[t] = "barrier" /\ \A v \in Regions!Threads : v # t => tPc'[v] = tPc[v]
      /\ \A v \in Regions!Threads : Regions!Gathering(v)' <=> Regions!Gathering(v)
  BY <1>1 DEF Regions!TypeOK, Regions!Gathering
<1>3. tArrived' \in [Regions!Ids -> SUBSET Regions!Threads]
  BY <1>1 DEF Regions!TypeOK
<1>4. Regions!TypeOK'
  BY <1>1, <1>3 DEF Regions!TypeOK
<1>5. Regions!PlaceInv'
  BY <1>1, <1>2 DEF Regions!PlaceInv, Regions!Free
<1>6. Regions!DataInv(maker)' /\ Regions!JobInv' /\ Regions!EnterInv(maker)' /\ Regions!LeaveInv(maker)'
  BY <1>1, <1>2 DEF Regions!DataInv, Regions!JobInv, Regions!EnterInv, Regions!LeaveInv
<1>7. Regions!GatherInv(maker)' /\ Regions!ReserveInv'
  BY <1>1, <1>2 DEF Regions!GatherInv, Regions!ReserveInv, Regions!Unstarted, Regions!Free,
     Regions!Gathering
<1>8. Regions!MemberInv'
  BY <1>1, <1>2, MemberStays
<1> QED
  BY <1>4, <1>5, <1>6, <1>7, <1>8

(* Out of the map, a worker is idle again and a creator is about to end its team. *)
LEMMA UnlockStep ==
  ASSUME NEW maker \in [Regions!Ids -> Regions!Threads], Regions!TeamsInv(maker), NEW t \in Regions!Threads, Regions!Unlock(t)
  PROVE  Regions!TeamsInv(maker)'
<1> USE DEF Regions!TeamsInv
<1>1. /\ tPc[t] = "unlock" /\ tPc' = [tPc EXCEPT ![t] = IF tData[t] = <<>> THEN "idle" ELSE "end"]
      /\ UNCHANGED <<tExists, tHasTeam, tData, tNext, tJobs, tSeen, tMade, tAlive, tThreads,
                     tArrived>>
  BY DEF Regions!Unlock, Regions!Goto
<1>2. /\ tPc'[t] = IF tData[t] = <<>> THEN "idle" ELSE "end"
      /\ \A v \in Regions!Threads : v # t => tPc'[v] = tPc[v]
      /\ \A v \in Regions!Threads : Regions!Gathering(v)' <=> Regions!Gathering(v)
  BY <1>1 DEF Regions!TypeOK, Regions!Gathering
<1>3. Regions!TypeOK'
  BY <1>1 DEF Regions!TypeOK
<1>4. Regions!PlaceInv'
  BY <1>1, <1>2 DEF Regions!PlaceInv, Regions!Free
<1>5. Regions!DataInv(maker)' /\ Regions!JobInv' /\ Regions!EnterInv(maker)' /\ Regions!LeaveInv(maker)'
  BY <1>1, <1>2 DEF Regions!DataInv, Regions!JobInv, Regions!EnterInv, Regions!LeaveInv,
     Regions!PlaceInv
<1>6. Regions!GatherInv(maker)' /\ Regions!ReserveInv'
  BY <1>1, <1>2 DEF Regions!GatherInv, Regions!ReserveInv, Regions!Unstarted, Regions!Free,
     Regions!Gathering
<1>7. Regions!MemberInv'
  BY <1>1, <1>2, MemberStays
<1> QED
  BY <1>3, <1>4, <1>5, <1>6, <1>7

(* A reserved thread is in no map of a team that is being filled: it gets its next team. *)
LEMMA AcquireStep ==
  ASSUME NEW maker \in [Regions!Ids -> Regions!Threads], Regions!TeamsInv(maker), NEW t \in Regions!Threads, Regions!Acquire(t)
  PROVE  Regions!TeamsInv(maker)'
<1> USE DEF Regions!TeamsInv
<1>0. PICK u \in Regions!Threads : u = tSeen[t]
  BY DEF Regions!Acquire, Regions!TypeOK
<1>a. PICK k \in Regions!Ids : k = tNext[t] /\ k \in 0..tMade
  BY MadeTeams
<1>1. /\ tPc[t] = "acquire" /\ tPc' = [tPc EXCEPT ![t] = "look"]
      /\ tThreads' = [tThreads EXCEPT ![k] = @ \cup {u}]
      /\ tNext' = [tNext EXCEPT ![u] = k] /\ tHasTeam' = [tHasTeam EXCEPT ![u] = TRUE]
      /\ UNCHANGED <<tExists, tData, tJobs, tSeen, tMade, tAlive, tArrived>>
  BY <1>0, <1>a DEF Regions!Acquire, Regions!Goto
<1>2. /\ tPc'[t] = "look" /\ \A v \in Regions!Threads : v # t => tPc'[v] = tPc[v]
      /\ tNext'[u] = k /\ \A v \in Regions!Threads : v # u => tNext'[v] = tNext[v]
      /\ \A v \in Regions!Threads : tHasTeam[v] => tHasTeam'[v]
      /\ \A v \in Regions!Threads : Regions!Gathering(v)' <=> Regions!Gathering(v)
  <2>1. /\ tPc'[t] = "look" /\ \A v \in Regions!Threads : v # t => tPc'[v] = tPc[v]
        /\ tNext'[u] = k /\ \A v \in Regions!Threads : v # u => tNext'[v] = tNext[v]
    BY <1>1 DEF Regions!TypeOK
  <2>2. \A v \in Regions!Threads : tHasTeam[v] => tHasTeam'[v]
    BY <1>1 DEF Regions!TypeOK
  <2> QED
    BY <1>1, <2>1, <2>2 DEF Regions!Gathering
<1>3. /\ tThreads'[k] = tThreads[k] \cup {u}
      /\ \A j \in Regions!Ids : j # k => tThreads'[j] = tThreads[j]
  BY <1>1 DEF Regions!TypeOK
<1>4. /\ tHasTeam[u] /\ Regions!Free(u) /\ u # t
      /\ \A d \in Regions!Threads : Regions!Gathering(d) => u \notin tThreads[tNext[d]] /\ d # u
      /\ \A d \in Regions!Threads : tPc[d] = "acquire" /\ tSeen[d] = u => d = t
  BY <1>0, <1>1 DEF Regions!ReserveInv, Regions!Free, Regions!Gathering
<1>5. k \in tAlive /\ maker[k] = t /\ Regions!Gathering(t)
  BY <1>a, <1>1 DEF Regions!GatherInv, Regions!Gathering
<1>6. Regions!TypeOK'
  <2>1. tNext' \in [Regions!Threads -> 0..tMade] /\ tHasTeam' \in [Regions!Threads -> BOOLEAN]
    BY <1>a, <1>1 DEF Regions!TypeOK
  <2>2. tThreads' \in [Regions!Ids -> SUBSET Regions!Threads]
    BY <1>1 DEF Regions!TypeOK
  <2>3. k <= tMade
    BY <1>a, RegionNames DEF Regions!TypeOK
  <2>4. ASSUME NEW j \in Regions!Ids, j > tMade PROVE tThreads'[j] = {}
    <3>1. tMade \in Nat /\ k \in Nat /\ j \in Nat
      BY RegionNames DEF Regions!TypeOK
    <3>2. j # k
      BY <2>3, <2>4, <3>1
    <3>3. tThreads[j] = {}
      BY <2>4 DEF Regions!TypeOK
    <3> QED
      BY <1>3, <3>2, <3>3
  <2>5. /\ tPc' \in [Regions!Threads -> {"idle", "region", "look", "reserve", "acquire", "enter", "barrier",
                                         "remove", "unlock", "end"}]
        /\ \A v \in Regions!Threads : tPc'[v] \in {"reserve", "acquire"} => tPc[v] = tPc'[v]
    BY <1>1 DEF Regions!TypeOK
  <2>6. \A v \in Regions!Threads : tPc'[v] \in {"reserve", "acquire"} => tSeen'[v] \in Regions!Threads
    BY <1>1, <2>5 DEF Regions!TypeOK
  <2>7. /\ tExists' \in {0..i : i \in Regions!Threads}
        /\ tData' \in [Regions!Threads -> Seq(Regions!Ids)] /\ tJobs' \in [Regions!Threads -> Seq(Regions!Ids)]
        /\ tMade' = tMade /\ tMade \in Regions!Ids /\ tAlive' \subseteq 0..tMade
        /\ tSeen' \in [Regions!Threads -> Regions!Threads \cup Regions!Ids]
        /\ tArrived' \in [Regions!Ids -> SUBSET Regions!Threads]
    BY <1>1 DEF Regions!TypeOK
  <2> QED
    BY <2>1, <2>2, <2>4, <2>5, <2>6, <2>7 DEF Regions!TypeOK
<1>7. Regions!PlaceInv'
  BY <1>1, <1>2 DEF Regions!PlaceInv, Regions!Free
<1>8. \A j \in Regions!Ids : tThreads[j] \subseteq tThreads'[j]
  BY <1>3
<1>9. tAlive \subseteq Regions!Ids
  BY MadeTeams
<1>10. Regions!DataInv(maker)' /\ Regions!LeaveInv(maker)'
  BY <1>1, <1>2, <1>8, <1>9 DEF Regions!DataInv, Regions!LeaveInv
<1>11. Regions!JobInv' /\ Regions!EnterInv(maker)'
  <2>1. Regions!JobInv'
    <3> SUFFICES ASSUME NEW v \in Regions!Threads, tJobs[v] # <<>>
                 PROVE  /\ tJobs[v] = <<tNext'[v]>> /\ tNext'[v] \in tAlive /\ v \in tThreads'[tNext'[v]]
                        /\ tPc'[v] \in {"idle", "remove", "unlock"}
                        /\ tPc'[v] = "remove" => tSeen[v] # tNext'[v]
      BY <1>1 DEF Regions!JobInv
    <3>1. v # u /\ v # t
      BY <1>1, <1>4 DEF Regions!JobInv, Regions!Free
    <3>2. /\ tJobs[v] = <<tNext[v]>> /\ tNext[v] \in tAlive /\ v \in tThreads[tNext[v]]
          /\ tPc[v] \in {"idle", "remove", "unlock"} /\ (tPc[v] = "remove" => tSeen[v] # tNext[v])
      BY DEF Regions!JobInv
    <3> QED
      BY <1>2, <1>8, <1>9, <3>1, <3>2
  <2>2. Regions!EnterInv(maker)'
    <3> SUFFICES ASSUME NEW v \in Regions!Threads, tPc'[v] = "enter"
                 PROVE  /\ tNext'[v] \in tAlive /\ v \in tThreads'[tNext'[v]] /\ tJobs[v] = <<>>
                        /\ \A i \in DOMAIN tData[v] : tData[v][i] # tNext'[v]
                        /\ tData[v] # <<>> => maker[tNext'[v]] = v
      BY <1>1 DEF Regions!EnterInv
    <3>1. v # t /\ tPc[v] = "enter"
      BY <1>2
    <3>2. v # u
      BY <1>4, <3>1 DEF Regions!Free
    <3> QED
      BY <1>2, <1>8, <1>9, <3>1, <3>2 DEF Regions!EnterInv
  <2> QED
    BY <2>1, <2>2
<1>12. Regions!GatherInv(maker)'
  <2> SUFFICES ASSUME NEW c \in Regions!Threads, Regions!Gathering(c), NEW v \in Regions!Threads
               PROVE  /\ tNext[c] \in tAlive /\ maker[tNext[c]] = c /\ c \in tThreads'[tNext[c]]
                      /\ Regions!Unstarted(tNext[c], v)'
                      /\ v \in tThreads'[tNext[c]] /\ v # c =>
                            tHasTeam'[v] /\ Regions!Free(v)' /\ tNext'[v] = tNext[c]
    <3>1. \A c \in Regions!Threads : Regions!Gathering(c) => tNext'[c] = tNext[c]
      BY <1>2, <1>4
    <3> QED
      BY <1>1, <1>2, <3>1 DEF Regions!GatherInv, Regions!Unstarted
  <2>1. tNext[c] \in tAlive /\ maker[tNext[c]] = c /\ c \in tThreads'[tNext[c]]
    BY <1>8, <1>9 DEF Regions!GatherInv
  <2>2. Regions!Unstarted(tNext[c], v)'
    <3>1. Regions!Unstarted(tNext[c], v)
      BY DEF Regions!GatherInv
    <3>2. tNext'[c] = tNext[c]
      BY <1>2, <1>4
    <3> QED
      BY <1>1, <1>2, <1>4, <3>1, <3>2 DEF Regions!Unstarted, Regions!Free
  <2>3. ASSUME v \in tThreads'[tNext[c]], v # c
        PROVE  tHasTeam'[v] /\ Regions!Free(v)' /\ tNext'[v] = tNext[c]
    <3>1. CASE v \in tThreads[tNext[c]]
      <4>1. tHasTeam[v] /\ Regions!Free(v) /\ tNext[v] = tNext[c] /\ v # u
        BY <1>4, <2>3, <3>1 DEF Regions!GatherInv
      <4> QED
        BY <1>1, <1>2, <4>1 DEF Regions!Free
    <3>2. CASE v \notin tThreads[tNext[c]]
      <4>1. tNext[c] = k /\ v = u
        BY <1>3, <1>9, <2>1, <2>3, <3>2
      <4> QED
        BY <1>1, <1>2, <1>4, <4>1 DEF Regions!Free
    <3> QED
      BY <3>1, <3>2
  <2> QED
    BY <2>1, <2>2, <2>3
<1>13. Regions!ReserveInv'
  <2> SUFFICES ASSUME NEW c \in Regions!Threads, tPc'[c] = "acquire"
               PROVE  /\ tHasTeam'[tSeen[c]] /\ Regions!Free(tSeen[c])'
                      /\ \A d \in Regions!Threads :
                            /\ tPc'[d] = "acquire" /\ tSeen[d] = tSeen[c] => d = c
                            /\ Regions!Gathering(d) => tSeen[c] \notin tThreads'[tNext[d]]
    <3>1. \A d \in Regions!Threads : Regions!Gathering(d) => tNext'[d] = tNext[d]
      BY <1>2, <1>4
    <3> QED
      BY <1>1, <1>2, <3>1 DEF Regions!ReserveInv
  <2>1. c # t /\ tPc[c] = "acquire" /\ tSeen[c] # u
    BY <1>2, <1>4
  <2>2. PICK v \in Regions!Threads : v = tSeen[c]
    BY <2>1 DEF Regions!TypeOK
  <2>3. Regions!Free(v) /\ tHasTeam[v] /\ v # t
    BY <1>1, <2>1, <2>2 DEF Regions!ReserveInv, Regions!Free
  <2>4. Regions!Free(v)' /\ tHasTeam'[v]
    BY <1>1, <1>2, <2>3 DEF Regions!Free
  <2>5. \A d \in Regions!Threads : tPc'[d] = "acquire" /\ tSeen[d] = tSeen[c] => d = c
    BY <1>2, <2>1 DEF Regions!ReserveInv
  <2>6. ASSUME NEW d \in Regions!Threads, Regions!Gathering(d) PROVE tSeen[c] \notin tThreads'[tNext[d]]
    <3>1. tSeen[c] \notin tThreads[tNext[d]] /\ tNext[d] \in Regions!Ids
      BY <1>9, <2>1, <2>6 DEF Regions!ReserveInv, Regions!GatherInv
    <3> QED
      BY <1>3, <2>1, <3>1
  <2> QED
    BY <1>1, <2>2, <2>4, <2>5, <2>6 DEF Regions!Free
<1>14. Regions!MemberInv'
  <2> SUFFICES ASSUME NEW j \in Regions!Ids, NEW v \in tThreads'[j]
               PROVE  \/ \E i \in DOMAIN tData'[v] : tData'[v][i] = j
                      \/ tPc'[v] = "remove" /\ tSeen'[v] = j
                      \/ Regions!Awaits(v, j)'
    BY DEF Regions!MemberInv
  <2>1. v \in Regions!Threads
    BY <1>3 DEF Regions!TypeOK
  <2>2. CASE v \notin tThreads[j]
    <3>1. v = u /\ j = k
      BY <1>3, <2>2
    <3> QED
      BY <1>a, <1>2, <1>4, <1>5, <3>1 DEF Regions!Awaits
  <2>3. CASE v \in tThreads[j]
    <3>1. CASE \E i \in DOMAIN tData[v] : tData[v][i] = j
      BY <1>1, <3>1
    <3>2. CASE tPc[v] = "remove" /\ tSeen[v] = j
      BY <1>1, <1>2, <2>1, <3>2
    <3>3. CASE Regions!Awaits(v, j)
      <4>1. v # u
        BY <1>4, <2>3, <3>3 DEF Regions!Awaits, Regions!Free
      <4>2. \A c \in Regions!Threads : Regions!Gathering(c) => Regions!Gathering(c)' /\ tNext'[c] = tNext[c]
        BY <1>2, <1>4
      <4> QED
        BY <1>1, <1>2, <2>1, <3>3, <4>1, <4>2 DEF Regions!Awaits
    <3> QED
      BY <2>3, <3>1, <3>2, <3>3 DEF Regions!MemberInv
  <2> QED
    BY <2>2, <2>3
<1> QED
  BY <1>6, <1>7, <1>10, <1>11, <1>12, <1>13, <1>14

(* The body goes to the threads got: they have no other one and have not begun. *)
LEMMA StartStep ==
  ASSUME NEW maker \in [Regions!Ids -> Regions!Threads], Regions!TeamsInv(maker), NEW t \in Regions!Threads, Regions!Start(t)
  PROVE  Regions!TeamsInv(maker)'
<1> USE DEF Regions!TeamsInv
<1>a. PICK k \in Regions!Ids : k = tNext[t] /\ k \in 0..tMade
  BY MadeTeams
<1>b. PICK G \in SUBSET Regions!Threads : G = tThreads[k] \ {t}
  BY DEF Regions!TypeOK
<1>1. /\ tPc[t] = "look" /\ tPc' = [tPc EXCEPT ![t] = "enter"]
      /\ tJobs' = [v \in Regions!Threads |-> IF v \in G THEN Append(tJobs[v], k) ELSE tJobs[v]]
      /\ UNCHANGED <<tExists, tHasTeam, tData, tNext, tSeen, tMade, tAlive, tThreads, tArrived>>
  BY <1>a, <1>b DEF Regions!Start, Regions!Goto
<1>2. tPc'[t] = "enter" /\ \A v \in Regions!Threads : v # t => tPc'[v] = tPc[v]
  BY <1>1 DEF Regions!TypeOK
<1>3. /\ Regions!Gathering(t) /\ k \in tAlive /\ maker[k] = t /\ t \in tThreads[k]
      /\ \A v \in Regions!Threads : Regions!Unstarted(k, v)
      /\ \A v \in G : tHasTeam[v] /\ Regions!Free(v) /\ tNext[v] = k
  BY <1>a, <1>b, <1>1 DEF Regions!GatherInv, Regions!Gathering
<1>4. /\ \A v \in G : tJobs'[v] = <<k>> /\ v \in Regions!Threads /\ v # t
      /\ \A v \in Regions!Threads : v \notin G => tJobs'[v] = tJobs[v]
      /\ \A v \in Regions!Threads : tJobs[v] # <<>> => v \notin G
  <2>1. \A v \in G : v \in Regions!Threads /\ v # t /\ tJobs[v] = <<>>
    BY <1>b, <1>3 DEF Regions!Free
  <2>2. Append(<<>>, k) = <<k>>
    OBVIOUS
  <2>3. \A v \in G : tJobs'[v] = <<k>>
    BY <1>1, <2>1, <2>2
  <2>4. \A v \in Regions!Threads : v \notin G => tJobs'[v] = tJobs[v]
    BY <1>1
  <2> QED
    BY <2>1, <2>3, <2>4
<1>5. \A v \in Regions!Threads : Regions!Gathering(v)' <=> Regions!Gathering(v) /\ v # t
  BY <1>2 DEF Regions!Gathering
<1>6. \A c \in Regions!Threads : Regions!Gathering(c) /\ c # t => tNext[c] # k
  BY <1>3 DEF Regions!GatherInv
<1>7. Regions!TypeOK'
  <2>1. tJobs' \in [Regions!Threads -> Seq(Regions!Ids)]
    BY <1>1 DEF Regions!TypeOK
  <2> QED
    BY <1>1, <1>2, <2>1 DEF Regions!TypeOK
<1>8. Regions!PlaceInv'
  BY <1>1, <1>2, <1>3, <1>4 DEF Regions!PlaceInv, Regions!Free
<1>9. Regions!DataInv(maker)' /\ Regions!LeaveInv(maker)'
  BY <1>1, <1>2 DEF Regions!DataInv, Regions!LeaveInv
<1>10. Regions!JobInv'
  <2> SUFFICES ASSUME NEW v \in Regions!Threads, tJobs'[v] # <<>>
               PROVE  /\ tJobs'[v] = <<tNext[v]>> /\ tNext[v] \in tAlive /\ v \in tThreads[tNext[v]]
                      /\ tPc'[v] \in {"idle", "remove", "unlock"}
                      /\ tPc'[v] = "remove" => tSeen[v] # tNext[v]
    BY <1>1 DEF Regions!JobInv
  <2>1. CASE v \in G
    <3>1. tPc[v] \in {"idle", "remove", "unlock"} /\ tNext[v] = k /\ v \in tThreads[k]
      BY <1>b, <1>3, <2>1 DEF Regions!Free
    <3>2. tPc[v] = "remove" => tSeen[v] # k
      BY <1>3 DEF Regions!Unstarted
    <3> QED
      BY <1>2, <1>3, <1>4, <2>1, <3>1, <3>2
  <2>2. CASE v \notin G
    BY <1>1, <1>2, <1>4, <2>2 DEF Regions!JobInv
  <2> QED
    BY <2>1, <2>2
<1>11. Regions!EnterInv(maker)'
  <2> SUFFICES ASSUME NEW v \in Regions!Threads, tPc'[v] = "enter"
               PROVE  /\ tNext[v] \in tAlive /\ v \in tThreads[tNext[v]] /\ tJobs'[v] = <<>>
                      /\ \A i \in DOMAIN tData[v] : tData[v][i] # tNext[v]
                      /\ tData[v] # <<>> => maker[tNext[v]] = v
    BY <1>1 DEF Regions!EnterInv
  <2>1. CASE v = t
    <3>1. tJobs'[t] = <<>>
      BY <1>1, <1>4 DEF Regions!PlaceInv
    <3> QED
      BY <1>a, <1>3, <2>1, <3>1 DEF Regions!Unstarted
  <2>2. CASE v # t
    <3>1. tPc[v] = "enter" /\ v \notin G
      BY <1>2, <1>3, <2>2 DEF Regions!Free
    <3> QED
      BY <1>4, <3>1 DEF Regions!EnterInv
  <2> QED
    BY <2>1, <2>2
<1>12. Regions!GatherInv(maker)'
  <2> SUFFICES ASSUME NEW c \in Regions!Threads, Regions!Gathering(c), c # t, NEW v \in Regions!Threads
               PROVE  /\ Regions!Unstarted(tNext[c], v)'
                      /\ v \in tThreads[tNext[c]] /\ v # c => Regions!Free(v)'
    BY <1>1, <1>5 DEF Regions!GatherInv, Regions!Unstarted
  <2>1. tNext[c] # k /\ Regions!Unstarted(tNext[c], v)
    BY <1>6 DEF Regions!GatherInv
  <2>2. Regions!Unstarted(tNext[c], v)'
    <3>1. tJobs'[v] # <<>> => tNext[v] # tNext[c]
      BY <1>3, <1>4, <2>1 DEF Regions!Unstarted
    <3>2. tPc'[v] = "enter" => tNext[v] # tNext[c]
      BY <1>a, <1>2, <2>1 DEF Regions!Unstarted
    <3>3. tPc'[v] = "remove" => tSeen[v] # tNext[c]
      BY <1>2, <2>1 DEF Regions!Unstarted
    <3> QED
      BY <1>1, <2>1, <3>1, <3>2, <3>3 DEF Regions!Unstarted
  <2>3. ASSUME v \in tThreads[tNext[c]], v # c PROVE Regions!Free(v)'
    <3>1. Regions!Free(v) /\ tNext[v] = tNext[c]
      BY <2>3 DEF Regions!GatherInv
    <3>2. v \notin G /\ v # t
      BY <1>1, <1>3, <2>1, <3>1 DEF Regions!Free
    <3> QED
      BY <1>1, <1>2, <1>4, <3>1, <3>2 DEF Regions!Free
  <2> QED
    BY <2>2, <2>3
<1>13. Regions!ReserveInv'
  <2> SUFFICES ASSUME NEW c \in Regions!Threads, tPc[c] = "acquire", c # t
               PROVE  Regions!Free(tSeen[c])'
    <3>1. \A d \in Regions!Threads : tPc'[d] = "acquire" <=> tPc[d] = "acquire" /\ d # t
      BY <1>2
    <3> QED
      BY <1>1, <1>5, <3>1 DEF Regions!ReserveInv
  <2>1. PICK v \in Regions!Threads : v = tSeen[c]
    BY DEF Regions!TypeOK
  <2>2. Regions!Free(v) /\ v \notin tThreads[k] /\ v # t
    BY <1>a, <1>1, <1>3, <2>1 DEF Regions!ReserveInv, Regions!Free
  <2>3. Regions!Free(v)'
    BY <1>b, <1>1, <1>2, <1>4, <2>2 DEF Regions!Free
  <2> QED
    BY <1>1, <2>1, <2>3 DEF Regions!Free
<1>14. Regions!MemberInv'
  <2> SUFFICES ASSUME NEW j \in Regions!Ids, NEW v \in tThreads[j]
               PROVE  \/ \E i \in DOMAIN tData[v] : tData[v][i] = j
                      \/ tPc'[v] = "remove" /\ tSeen[v] = j
                      \/ Regions!Awaits(v, j)'
    BY <1>1 DEF Regions!MemberInv
  <2>1. v \in Regions!Threads
    BY DEF Regions!TypeOK
  <2>2. CASE tPc[v] = "remove" /\ tSeen[v] = j
    BY <1>1, <1>2, <2>1, <2>2
  <2>3. CASE Regions!Awaits(v, j)
    <3>1. j = tNext[v]
      BY <2>3 DEF Regions!Awaits
    <3>2. CASE tPc[v] = "enter" \/ Regions!Gathering(v)
      <4>1. tPc'[v] = "enter" \/ Regions!Gathering(v)'
        BY <1>2, <1>5, <2>1, <3>2
      <4> QED
        BY <1>1, <3>1, <4>1 DEF Regions!Awaits
    <3>3. CASE tJobs[v] # <<>>
      BY <1>1, <1>4, <2>1, <3>1, <3>3 DEF Regions!Awaits
    <3>4. CASE \E c \in Regions!Threads : c # v /\ Regions!Gathering(c) /\ tNext[c] = j
      <4>1. PICK c \in Regions!Threads : c # v /\ Regions!Gathering(c) /\ tNext[c] = j
        BY <3>4
      <4>2. CASE c = t
        <5>1. v \in G
          BY <1>a, <1>b, <4>1, <4>2
        <5> QED
          BY <1>1, <1>4, <3>1, <5>1 DEF Regions!Awaits
      <4>3. CASE c # t
        BY <1>1, <1>5, <3>1, <4>1, <4>3 DEF Regions!Awaits
      <4> QED
        BY <4>2, <4>3
    <3> QED
      BY <2>3, <3>2, <3>3, <3>4 DEF Regions!Awaits
  <2> QED
    BY <2>2, <2>3 DEF Regions!MemberInv
<1> QED
  BY <1>7, <1>8, <1>9, <1>10, <1>11, <1>12, <1>13, <1>14

(* A job is for the next team. *)
LEMMA TakeJobStep ==
  ASSUME NEW maker \in [Regions!Ids -> Regions!Threads], Regions!TeamsInv(maker), NEW t \in Regions!Threads, Regions!TakeJob(t)
  PROVE  Regions!TeamsInv(maker)'
<1> USE DEF Regions!TeamsInv
<1>1. /\ tPc[t] = "idle" /\ tJobs[t] # <<>> /\ tPc' = [tPc EXCEPT ![t] = "enter"]
      /\ tJobs' = [tJobs EXCEPT ![t] = Tail(tJobs[t])]
      /\ UNCHANGED <<tExists, tHasTeam, tData, tNext, tSeen, tMade, tAlive, tThreads, tArrived>>
  BY DEF Regions!TakeJob, Regions!Goto
<1>2. /\ tPc'[t] = "enter" /\ \A v \in Regions!Threads : v # t => tPc'[v] = tPc[v]
      /\ \A v \in Regions!Threads : v # t => tJobs'[v] = tJobs[v]
      /\ \A v \in Regions!Threads : Regions!Gathering(v)' <=> Regions!Gathering(v)
  BY <1>1 DEF Regions!TypeOK, Regions!Gathering
<1>3. /\ tJobs[t] = <<tNext[t]>> /\ tNext[t] \in tAlive /\ t \in tThreads[tNext[t]]
      /\ tData[t] = <<>> /\ tHasTeam[t]
  BY <1>1 DEF Regions!JobInv, Regions!PlaceInv, Regions!Free
<1>4. tJobs'[t] = <<>>
  <2>1. tJobs'[t] = Tail(<<tNext[t]>>)
    BY <1>1, <1>3 DEF Regions!TypeOK
  <2> QED
    BY <2>1
<1>5. Regions!TypeOK'
  <2>1. tJobs' \in [Regions!Threads -> Seq(Regions!Ids)]
    BY <1>1, <1>4 DEF Regions!TypeOK
  <2> QED
    BY <1>1, <1>2, <2>1 DEF Regions!TypeOK
<1>6. Regions!PlaceInv'
  BY <1>1, <1>2, <1>3, <1>4 DEF Regions!PlaceInv, Regions!Free
<1>7. Regions!DataInv(maker)' /\ Regions!LeaveInv(maker)'
  BY <1>1, <1>2, <1>3 DEF Regions!DataInv, Regions!LeaveInv
<1>8. Regions!JobInv' /\ Regions!EnterInv(maker)'
  BY <1>1, <1>2, <1>3, <1>4 DEF Regions!JobInv, Regions!EnterInv
<1>9. Regions!GatherInv(maker)'
  <2> SUFFICES ASSUME NEW c \in Regions!Threads, Regions!Gathering(c), NEW v \in Regions!Threads
               PROVE  /\ Regions!Unstarted(tNext[c], v)'
                      /\ v \in tThreads[tNext[c]] /\ v # c => Regions!Free(v)'
    BY <1>1, <1>2 DEF Regions!GatherInv, Regions!Unstarted
  <2>1. Regions!Unstarted(tNext[c], v)'
    BY <1>1, <1>2, <1>4 DEF Regions!GatherInv, Regions!Unstarted
  <2>2. v \in tThreads[tNext[c]] /\ v # c => Regions!Free(v)'
    BY <1>1, <1>2 DEF Regions!GatherInv, Regions!Free
  <2> QED
    BY <2>1, <2>2
<1>10. Regions!ReserveInv'
  <2> SUFFICES ASSUME NEW c \in Regions!Threads, tPc[c] = "acquire" PROVE Regions!Free(tSeen[c])'
    <3>1. \A d \in Regions!Threads : tPc'[d] = "acquire" <=> tPc[d] = "acquire"
      BY <1>1, <1>2
    <3> QED
      BY <1>1, <1>2, <3>1 DEF Regions!ReserveInv
  <2>1. PICK v \in Regions!Threads : v = tSeen[c]
    BY DEF Regions!TypeOK
  <2>2. Regions!Free(v) /\ v # t
    BY <1>1, <2>1 DEF Regions!ReserveInv, Regions!Free
  <2>3. Regions!Free(v)'
    BY <1>1, <1>2, <2>2 DEF Regions!Free
  <2> QED
    BY <1>1, <2>1, <2>3 DEF Regions!Free
<1>11. Regions!MemberInv'
  <2> SUFFICES ASSUME NEW j \in Regions!Ids, NEW v \in tThreads[j]
               PROVE  \/ \E i \in DOMAIN tData[v] : tData[v][i] = j
                      \/ tPc'[v] = "remove" /\ tSeen[v] = j
                      \/ Regions!Awaits(v, j)'
    BY <1>1 DEF Regions!MemberInv
  <2>1. v \in Regions!Threads
    BY DEF Regions!TypeOK
  <2>2. CASE tPc[v] = "remove" /\ tSeen[v] = j
    BY <1>1, <1>2, <2>1, <2>2
  <2>3. CASE Regions!Awaits(v, j)
    <3>1. CASE v = t
      BY <1>1, <1>2, <2>3, <3>1 DEF Regions!Awaits
    <3>2. CASE v # t
      BY <1>1, <1>2, <2>1, <2>3, <3>2 DEF Regions!Awaits
    <3> QED
      BY <3>1, <3>2
  <2> QED
    BY <2>2, <2>3 DEF Regions!MemberInv
<1> QED
  BY <1>5, <1>6, <1>7, <1>8, <1>9, <1>10, <1>11

(* What is in a thread's data after it has entered a team. *)
LEMMA DataPut ==
  ASSUME NEW k \in Regions!Ids, NEW s \in Seq(Regions!Ids),
         NEW r, r = IF s = <<>> THEN <<k>> ELSE <<k>> \o s
  PROVE  /\ r \in Seq(Regions!Ids) /\ Len(r) = Len(s) + 1 /\ r # <<>> /\ r[1] = k
         /\ \A i \in DOMAIN s : i + 1 \in DOMAIN r /\ r[i + 1] = s[i]
         /\ \A i \in DOMAIN r : i # 1 => i - 1 \in DOMAIN s /\ r[i] = s[i - 1]
<1>1. CASE s = <<>>
  BY <1>1
<1>2. CASE s # <<>>
  <2>1. r = <<k>> \o s /\ <<k>> \in Seq(Regions!Ids) /\ Len(<<k>>) = 1 /\ <<k>>[1] = k
    BY <1>2
  <2>2. r \in Seq(Regions!Ids) /\ Len(r) = Len(s) + 1
    BY <2>1
  <2>3. \A i \in 1..Len(s) + 1 : r[i] = IF i <= 1 THEN <<k>>[i] ELSE s[i - 1]
    BY <2>1
  <2>4. Len(s) \in Nat /\ DOMAIN s = 1..Len(s)
    BY LenProperties
  <2>5. DOMAIN r = 1..Len(s) + 1
    BY <2>2, LenProperties
  <2> QED
    BY <2>1, <2>2, <2>3, <2>4, <2>5
<1> QED
  BY <1>1, <1>2

(* What is left of it when the thread has left the team. *)
LEMMA DataTaken ==
  ASSUME NEW s \in Seq(Regions!Ids), s # <<>>
  PROVE  /\ Head(s) = s[1] /\ 1 \in DOMAIN s /\ Tail(s) \in Seq(Regions!Ids) /\ Len(Tail(s)) = Len(s) - 1
         /\ \A i \in DOMAIN Tail(s) : i + 1 \in DOMAIN s /\ Tail(s)[i] = s[i + 1]
         /\ \A i \in DOMAIN s : i # 1 => i - 1 \in DOMAIN Tail(s) /\ Tail(s)[i - 1] = s[i]
<1>1. Len(s) \in Nat /\ Len(s) > 0 /\ DOMAIN s = 1..Len(s)
  BY EmptySeq
<1>2. Tail(s) \in Seq(Regions!Ids) /\ Len(Tail(s)) = Len(s) - 1 /\ Head(s) = s[1]
  BY <1>1, HeadTailProperties
<1>3. DOMAIN Tail(s) = 1..Len(s) - 1
  BY <1>1, <1>2
<1>4. \A i \in 1..Len(s) - 1 : Tail(s)[i] = s[i + 1]
  BY <1>1, <1>2, HeadTailProperties
<1> QED
  BY <1>1, <1>2, <1>3, <1>4

(* The team that a thread enters is not one it is in, and is its own if it was in one. *)
LEMMA EnterTeamStep ==
  ASSUME NEW maker \in [Regions!Ids -> Regions!Threads], Regions!TeamsInv(maker), NEW t \in Regions!Threads, Regions!EnterTeam(t)
  PROVE  Regions!TeamsInv(maker)'
<1> USE DEF Regions!TeamsInv
<1>a. PICK k \in Regions!Ids : k = tNext[t]
  BY MadeTeams
<1>b. PICK s \in Seq(Regions!Ids) : s = tData[t]
  BY DEF Regions!TypeOK
<1>c. PICK r : r = IF s = <<>> THEN <<k>> ELSE <<k>> \o s
  OBVIOUS
<1>1. /\ tPc[t] = "enter" /\ tPc' = [tPc EXCEPT ![t] = "region"]
      /\ tData' = [tData EXCEPT ![t] = r] /\ tHasTeam' = [tHasTeam EXCEPT ![t] = TRUE]
      /\ UNCHANGED <<tExists, tNext, tJobs, tSeen, tMade, tAlive, tThreads, tArrived>>
  BY <1>a, <1>b, <1>c DEF Regions!EnterTeam, Regions!Goto
<1>2. /\ r \in Seq(Regions!Ids) /\ Len(r) = Len(s) + 1 /\ r # <<>> /\ r[1] = k
      /\ \A i \in DOMAIN s : i + 1 \in DOMAIN r /\ r[i + 1] = s[i]
      /\ \A i \in DOMAIN r : i # 1 => i - 1 \in DOMAIN s /\ r[i] = s[i - 1]
      /\ DOMAIN r \subseteq Nat /\ DOMAIN s = 1..Len(s) /\ Len(s) \in Nat /\ 1 \in DOMAIN r
  <2>1. /\ r \in Seq(Regions!Ids) /\ Len(r) = Len(s) + 1 /\ r # <<>> /\ r[1] = k
        /\ \A i \in DOMAIN s : i + 1 \in DOMAIN r /\ r[i + 1] = s[i]
        /\ \A i \in DOMAIN r : i # 1 => i - 1 \in DOMAIN s /\ r[i] = s[i - 1]
    BY <1>c, DataPut
  <2>2. DOMAIN r = 1..Len(r) /\ DOMAIN s = 1..Len(s) /\ Len(s) \in Nat
    BY <2>1, LenProperties
  <2> QED
    BY <2>1, <2>2
<1>3. /\ tPc'[t] = "region" /\ tData'[t] = r /\ tHasTeam'[t]
      /\ \A v \in Regions!Threads : v # t => tPc'[v] = tPc[v] /\ tData'[v] = tData[v]
      /\ \A v \in Regions!Threads : tHasTeam[v] => tHasTeam'[v]
  BY <1>1 DEF Regions!TypeOK
<1>4. \A v \in Regions!Threads : Regions!Gathering(v)' <=> Regions!Gathering(v)
  BY <1>1, <1>3 DEF Regions!Gathering
<1>5. /\ k \in tAlive /\ t \in tThreads[k] /\ tJobs[t] = <<>>
      /\ \A i \in DOMAIN s : s[i] # k
      /\ s # <<>> => maker[k] = t
  BY <1>a, <1>b, <1>1 DEF Regions!EnterInv
<1>6. Regions!TypeOK'
  <2>1. tData' \in [Regions!Threads -> Seq(Regions!Ids)] /\ tHasTeam' \in [Regions!Threads -> BOOLEAN]
    BY <1>1, <1>2 DEF Regions!TypeOK
  <2> QED
    BY <1>1, <1>3, <2>1 DEF Regions!TypeOK
<1>7. Regions!PlaceInv'
  <2>1. \A v \in Regions!Threads : v # t /\ ~tHasTeam'[v] => ~tHasTeam[v]
    BY <1>3
  <2> QED
    BY <1>1, <1>2, <1>3, <1>5, <2>1 DEF Regions!PlaceInv, Regions!Free
<1>8. Regions!DataInv(maker)'
  <2> SUFFICES ASSUME NEW v \in Regions!Threads, NEW i \in DOMAIN tData'[v]
               PROVE  /\ tData'[v][i] \in tAlive /\ v \in tThreads[tData'[v][i]]
                      /\ \A j \in DOMAIN tData'[v] : tData'[v][i] = tData'[v][j] => i = j
                      /\ i < Len(tData'[v]) => maker[tData'[v][i]] = v
    BY <1>1 DEF Regions!DataInv
  <2>1. CASE v # t
    BY <1>3, <2>1 DEF Regions!DataInv
  <2>2. CASE v = t
    <3>1. /\ \A a \in DOMAIN s : s[a] \in tAlive /\ t \in tThreads[s[a]]
          /\ \A a, b \in DOMAIN s : s[a] = s[b] => a = b
          /\ \A a \in DOMAIN s : a < Len(s) => maker[s[a]] = t
      BY <1>b DEF Regions!DataInv
    <3>2. r[i] \in tAlive /\ t \in tThreads[r[i]]
      BY <1>2, <1>3, <1>5, <2>2, <3>1
    <3>3. ASSUME NEW j \in DOMAIN r, r[i] = r[j] PROVE i = j
      <4>1. i \in DOMAIN r
        BY <1>3, <2>2
      <4>2. CASE i = 1 \/ j = 1
        BY <1>2, <1>5, <3>3, <4>1, <4>2
      <4>3. CASE i # 1 /\ j # 1
        <5>1. i - 1 = j - 1
          BY <1>2, <3>1, <3>3, <4>1, <4>3
        <5> QED
          BY <1>2, <4>1, <5>1
      <4> QED
        BY <4>2, <4>3
    <3>4. ASSUME i < Len(r) PROVE maker[r[i]] = t
      <4>1. i \in DOMAIN r /\ i \in Nat
        BY <1>2, <1>3, <2>2
      <4>2. CASE i = 1
        <5>1. s # <<>>
          BY <1>2, <3>4, <4>2
        <5> QED
          BY <1>2, <1>5, <4>2, <5>1
      <4>3. CASE i # 1
        <5>1. i - 1 \in DOMAIN s /\ r[i] = s[i - 1] /\ i - 1 < Len(s)
          BY <1>2, <3>4, <4>1, <4>3
        <5> QED
          BY <3>1, <5>1
      <4> QED
        BY <4>2, <4>3
    <3> QED
      BY <1>3, <2>2, <3>2, <3>3, <3>4
  <2> QED
    BY <2>1, <2>2
<1>9. Regions!JobInv' /\ Regions!EnterInv(maker)' /\ Regions!LeaveInv(maker)'
  BY <1>1, <1>3, <1>5 DEF Regions!JobInv, Regions!EnterInv, Regions!LeaveInv
<1>10. Regions!GatherInv(maker)'
  <2> SUFFICES ASSUME NEW c \in Regions!Threads, Regions!Gathering(c), NEW v \in Regions!Threads
               PROVE  /\ Regions!Unstarted(tNext[c], v)'
                      /\ v \in tThreads[tNext[c]] /\ v # c => tHasTeam'[v] /\ Regions!Free(v)'
    BY <1>1, <1>4 DEF Regions!GatherInv, Regions!Unstarted
  <2>1. Regions!Unstarted(tNext[c], v)
    BY DEF Regions!GatherInv
  <2>2. \A i \in DOMAIN tData'[v] : tData'[v][i] # tNext[c]
    <3>1. CASE v # t
      BY <1>3, <2>1, <3>1 DEF Regions!Unstarted
    <3>2. CASE v = t
      <4>1. k # tNext[c] /\ \A i \in DOMAIN s : s[i] # tNext[c]
        BY <1>a, <1>b, <1>1, <2>1, <3>2 DEF Regions!Unstarted
      <4>2. \A i \in DOMAIN r : r[i] # tNext[c]
        <5> SUFFICES ASSUME NEW i \in DOMAIN r PROVE r[i] # tNext[c]
          OBVIOUS
        <5>1. CASE i = 1
          BY <1>2, <4>1, <5>1
        <5>2. CASE i # 1
          <6>1. i - 1 \in DOMAIN s /\ r[i] = s[i - 1]
            BY <1>2, <5>2
          <6> QED
            BY <4>1, <6>1
        <5> QED
          BY <5>1, <5>2
      <4> QED
        BY <1>3, <3>2, <4>2
    <3> QED
      BY <3>1, <3>2
  <2>3. Regions!Unstarted(tNext[c], v)'
    BY <1>1, <1>3, <2>1, <2>2 DEF Regions!Unstarted
  <2>4. v \in tThreads[tNext[c]] /\ v # c => tHasTeam'[v] /\ Regions!Free(v)'
    BY <1>1, <1>3 DEF Regions!GatherInv, Regions!Free
  <2> QED
    BY <2>3, <2>4
<1>11. Regions!ReserveInv'
  <2> SUFFICES ASSUME NEW c \in Regions!Threads, tPc[c] = "acquire"
               PROVE  tHasTeam'[tSeen[c]] /\ Regions!Free(tSeen[c])'
    <3>1. \A d \in Regions!Threads : tPc'[d] = "acquire" <=> tPc[d] = "acquire"
      BY <1>1, <1>3
    <3> QED
      BY <1>1, <1>4, <3>1 DEF Regions!ReserveInv
  <2>1. PICK v \in Regions!Threads : v = tSeen[c]
    BY DEF Regions!TypeOK
  <2>2. Regions!Free(v) /\ tHasTeam[v] /\ v # t
    BY <1>1, <2>1 DEF Regions!ReserveInv, Regions!Free
  <2>3. Regions!Free(v)' /\ tHasTeam'[v]
    BY <1>1, <1>3, <2>2 DEF Regions!Free
  <2> QED
    BY <1>1, <2>1, <2>3 DEF Regions!Free
<1>12. Regions!MemberInv'
  <2> SUFFICES ASSUME NEW j \in Regions!Ids, NEW v \in tThreads[j]
               PROVE  \/ \E i \in DOMAIN tData'[v] : tData'[v][i] = j
                      \/ tPc'[v] = "remove" /\ tSeen[v] = j
                      \/ Regions!Awaits(v, j)'
    BY <1>1 DEF Regions!MemberInv
  <2>1. v \in Regions!Threads
    BY DEF Regions!TypeOK
  <2>2. CASE \E i \in DOMAIN tData[v] : tData[v][i] = j
    <3>1. CASE v = t
      <4>1. PICK i \in DOMAIN s : s[i] = j
        BY <1>b, <2>2, <3>1
      <4>2. i + 1 \in DOMAIN r /\ r[i + 1] = j
        BY <1>2, <4>1
      <4> QED
        BY <1>3, <3>1, <4>2
    <3>2. CASE v # t
      BY <1>3, <2>1, <2>2, <3>2
    <3> QED
      BY <3>1, <3>2
  <2>3. CASE tPc[v] = "remove" /\ tSeen[v] = j
    BY <1>1, <1>3, <2>1, <2>3
  <2>4. CASE Regions!Awaits(v, j)
    <3>1. CASE v = t
      <4>1. j = k
        BY <1>a, <2>4, <3>1 DEF Regions!Awaits
      <4> QED
        BY <1>2, <1>3, <3>1, <4>1
    <3>2. CASE v # t
      <4>1. tData'[v] = tData[v] /\ tPc'[v] = tPc[v]
        BY <1>3, <2>1, <3>2
      <4> QED
        BY <1>1, <1>3, <1>4, <2>1, <2>4, <4>1 DEF Regions!Awaits
    <3> QED
      BY <3>1, <3>2
  <2> QED
    BY <2>2, <2>3, <2>4 DEF Regions!MemberInv
<1> QED
  BY <1>6, <1>7, <1>8, <1>9, <1>10, <1>11, <1>12

(* A thread leaves the team it entered last. *)
LEMMA LeaveTeamStep ==
  ASSUME NEW maker \in [Regions!Ids -> Regions!Threads], Regions!TeamsInv(maker), NEW t \in Regions!Threads, Regions!LeaveTeam(t)
  PROVE  Regions!TeamsInv(maker)'
<1> USE DEF Regions!TeamsInv
<1>b. PICK s \in Seq(Regions!Ids) : s = tData[t]
  BY DEF Regions!TypeOK
<1>c. PICK r : r = Tail(s)
  OBVIOUS
<1>d. s # <<>> /\ tJobs[t] = <<>>
  BY <1>b DEF Regions!LeaveTeam, Regions!PlaceInv
<1>2. /\ r \in Seq(Regions!Ids) /\ Len(r) = Len(s) - 1 /\ Head(s) = s[1] /\ 1 \in DOMAIN s
      /\ \A i \in DOMAIN r : i + 1 \in DOMAIN s /\ r[i] = s[i + 1]
      /\ \A i \in DOMAIN s : i # 1 => i - 1 \in DOMAIN r /\ r[i - 1] = s[i]
      /\ DOMAIN r \subseteq Nat /\ Len(s) \in Nat /\ Len(s) \in DOMAIN s
  <2>1. /\ r \in Seq(Regions!Ids) /\ Len(r) = Len(s) - 1 /\ Head(s) = s[1] /\ 1 \in DOMAIN s
        /\ \A i \in DOMAIN r : i + 1 \in DOMAIN s /\ r[i] = s[i + 1]
        /\ \A i \in DOMAIN s : i # 1 => i - 1 \in DOMAIN r /\ r[i - 1] = s[i]
    BY <1>c, <1>d, DataTaken
  <2>2. DOMAIN r = 1..Len(r) /\ DOMAIN s = 1..Len(s) /\ Len(s) \in Nat
    BY <2>1, LenProperties
  <2> QED
    BY <2>1, <2>2
<1>a. PICK k \in Regions!Ids : k = s[1]
  BY <1>2, LenProperties
<1>1. /\ tPc[t] = "barrier" /\ tPc' = [tPc EXCEPT ![t] = "remove"]
      /\ tData' = [tData EXCEPT ![t] = r] /\ tSeen' = [tSeen EXCEPT ![t] = k]
      /\ tHasTeam' = [tHasTeam EXCEPT ![t] = tData'[t] # <<>>]
      /\ UNCHANGED <<tExists, tNext, tJobs, tMade, tAlive, tThreads, tArrived>>
  BY <1>a, <1>b, <1>c, <1>2 DEF Regions!LeaveTeam, Regions!Goto, Regions!Current
<1>3. /\ tPc'[t] = "remove" /\ tData'[t] = r /\ tSeen'[t] = k
      /\ \A v \in Regions!Threads : v # t => tPc'[v] = tPc[v] /\ tData'[v] = tData[v] /\ tSeen'[v] = tSeen[v]
  BY <1>1 DEF Regions!TypeOK
<1>3a. \A v \in Regions!Threads : v # t => tHasTeam'[v] = tHasTeam[v]
  BY <1>1 DEF Regions!TypeOK
<1>3b. ~tHasTeam'[t] => r = <<>>
  BY <1>1, <1>3 DEF Regions!TypeOK
<1>4. \A v \in Regions!Threads : Regions!Gathering(v)' <=> Regions!Gathering(v)
  BY <1>1, <1>3 DEF Regions!Gathering
<1>5. /\ \A a \in DOMAIN s : s[a] \in tAlive /\ t \in tThreads[s[a]]
      /\ \A a, b \in DOMAIN s : s[a] = s[b] => a = b
      /\ \A a \in DOMAIN s : a < Len(s) => maker[s[a]] = t
  BY <1>b DEF Regions!DataInv
<1>6. Regions!TypeOK'
  <2>1. tData' \in [Regions!Threads -> Seq(Regions!Ids)] /\ tSeen' \in [Regions!Threads -> Regions!Threads \cup Regions!Ids]
    BY <1>1, <1>2 DEF Regions!TypeOK
  <2>2. tHasTeam' \in [Regions!Threads -> BOOLEAN]
    <3>1. (tData'[t] # <<>>) \in BOOLEAN
      BY Zenon
    <3> QED
      BY <1>1, <3>1, Zenon DEF Regions!TypeOK
  <2> QED
    BY <1>1, <1>3, <2>1, <2>2 DEF Regions!TypeOK
<1>7. Regions!PlaceInv'
  BY <1>1, <1>3, <1>3a, <1>3b, <1>d DEF Regions!PlaceInv, Regions!Free
<1>8. Regions!DataInv(maker)'
  <2> SUFFICES ASSUME NEW v \in Regions!Threads, NEW i \in DOMAIN tData'[v]
               PROVE  /\ tData'[v][i] \in tAlive /\ v \in tThreads[tData'[v][i]]
                      /\ \A j \in DOMAIN tData'[v] : tData'[v][i] = tData'[v][j] => i = j
                      /\ i < Len(tData'[v]) => maker[tData'[v][i]] = v
    BY <1>1 DEF Regions!DataInv
  <2>1. CASE v # t
    BY <1>3, <2>1 DEF Regions!DataInv
  <2>2. CASE v = t
    <3>1. i \in DOMAIN r /\ i \in Nat
      BY <1>2, <1>3, <2>2
    <3>2. \A j \in DOMAIN r : r[i] = r[j] => i = j
      <4>1. \A j \in DOMAIN r : r[i] = r[j] => i + 1 = j + 1
        BY <1>2, <1>5, <3>1
      <4> QED
        BY <1>2, <3>1, <4>1
    <3>3. i < Len(r) => maker[r[i]] = t
      BY <1>2, <1>5, <3>1
    <3> QED
      BY <1>2, <1>3, <1>5, <2>2, <3>1, <3>2, <3>3
  <2> QED
    BY <2>1, <2>2
<1>9. Regions!JobInv' /\ Regions!EnterInv(maker)'
  BY <1>1, <1>3, <1>d DEF Regions!JobInv, Regions!EnterInv
<1>10. Regions!LeaveInv(maker)'
  <2>1. k \in tAlive /\ t \in tThreads[k]
    BY <1>a, <1>2, <1>5
  <2>2. \A i \in DOMAIN r : r[i] # k
    <3>1. \A i \in DOMAIN r : i + 1 # 1
      BY <1>2
    <3> QED
      BY <1>a, <1>2, <1>5, <3>1
  <2>3. r # <<>> => maker[k] = t
    <3>1. r # <<>> => Len(r) \in Nat \ {0}
      BY <1>2, EmptySeq
    <3>2. r # <<>> => 1 < Len(s)
      BY <1>2, <3>1
    <3> QED
      BY <1>a, <1>2, <1>5, <3>2
  <2> QED
    BY <1>1, <1>3, <2>1, <2>2, <2>3 DEF Regions!LeaveInv
<1>11. Regions!GatherInv(maker)'
  <2> SUFFICES ASSUME NEW c \in Regions!Threads, Regions!Gathering(c), NEW v \in Regions!Threads
               PROVE  /\ Regions!Unstarted(tNext[c], v)'
                      /\ v \in tThreads[tNext[c]] /\ v # c => tHasTeam'[v] /\ Regions!Free(v)'
    BY <1>1, <1>4 DEF Regions!GatherInv, Regions!Unstarted
  <2>1. Regions!Unstarted(tNext[c], v)'
    <3>1. Regions!Unstarted(tNext[c], v)
      BY DEF Regions!GatherInv
    <3>2. CASE v # t
      BY <1>1, <1>3, <3>1, <3>2 DEF Regions!Unstarted
    <3>3. CASE v = t
      <4>1. \A i \in DOMAIN s : s[i] # tNext[c]
        BY <1>b, <3>1, <3>3 DEF Regions!Unstarted
      <4>2. k # tNext[c] /\ \A i \in DOMAIN r : r[i] # tNext[c]
        BY <1>a, <1>2, <4>1
      <4> QED
        BY <1>1, <1>3, <1>d, <3>3, <4>2 DEF Regions!Unstarted
    <3> QED
      BY <3>2, <3>3
  <2>2. ASSUME v \in tThreads[tNext[c]], v # c PROVE tHasTeam'[v] /\ Regions!Free(v)'
    <3>1. tHasTeam[v] /\ Regions!Free(v) /\ v # t
      BY <1>1, <2>2 DEF Regions!GatherInv, Regions!Free
    <3> QED
      BY <1>1, <1>3, <1>3a, <3>1 DEF Regions!Free
  <2> QED
    BY <2>1, <2>2
<1>12. Regions!ReserveInv'
  <2> SUFFICES ASSUME NEW c \in Regions!Threads, tPc[c] = "acquire"
               PROVE  tHasTeam'[tSeen[c]] /\ Regions!Free(tSeen[c])'
    <3>1. \A d \in Regions!Threads : tPc'[d] = "acquire" <=> tPc[d] = "acquire"
      BY <1>1, <1>3
    <3>2. \A d \in Regions!Threads : tPc[d] = "acquire" => tSeen'[d] = tSeen[d]
      BY <1>1, <1>3
    <3> QED
      BY <1>1, <1>4, <3>1, <3>2 DEF Regions!ReserveInv, Regions!Free
  <2>1. PICK v \in Regions!Threads : v = tSeen[c]
    BY DEF Regions!TypeOK
  <2>2. Regions!Free(v) /\ tHasTeam[v] /\ v # t
    BY <1>1, <2>1 DEF Regions!ReserveInv, Regions!Free
  <2>3. Regions!Free(v)' /\ tHasTeam'[v]
    BY <1>1, <1>3, <1>3a, <2>2 DEF Regions!Free
  <2> QED
    BY <1>1, <2>1, <2>3 DEF Regions!Free
<1>13. Regions!MemberInv'
  <2> SUFFICES ASSUME NEW j \in Regions!Ids, NEW v \in tThreads[j]
               PROVE  \/ \E i \in DOMAIN tData'[v] : tData'[v][i] = j
                      \/ tPc'[v] = "remove" /\ tSeen'[v] = j
                      \/ Regions!Awaits(v, j)'
    BY <1>1 DEF Regions!MemberInv
  <2>1. v \in Regions!Threads
    BY DEF Regions!TypeOK
  <2>2. CASE \E i \in DOMAIN tData[v] : tData[v][i] = j
    <3>1. CASE v = t
      <4>1. PICK i \in DOMAIN s : s[i] = j
        BY <1>b, <2>2, <3>1
      <4>2. CASE i = 1
        BY <1>a, <1>3, <3>1, <4>1, <4>2
      <4>3. CASE i # 1
        <5>1. i - 1 \in DOMAIN r /\ r[i - 1] = j
          BY <1>2, <4>1, <4>3
        <5> QED
          BY <1>3, <3>1, <5>1
      <4> QED
        BY <4>2, <4>3
    <3>2. CASE v # t
      BY <1>3, <2>1, <2>2, <3>2
    <3> QED
      BY <3>1, <3>2
  <2>3. CASE tPc[v] = "remove" /\ tSeen[v] = j
    BY <1>1, <1>3, <2>1, <2>3
  <2>4. CASE Regions!Awaits(v, j)
    <3>1. tPc[v] = "enter" => tPc'[v] = "enter"
      BY <1>1, <1>3, <2>1
    <3> QED
      BY <1>1, <1>4, <2>1, <2>4, <3>1 DEF Regions!Awaits
  <2> QED
    BY <2>2, <2>3, <2>4 DEF Regions!MemberInv
<1> QED
  BY <1>6, <1>7, <1>8, <1>9, <1>10, <1>11, <1>12, <1>13

(* A thread goes out of the map of a team that it has left before. *)
LEMMA RemoveThreadStep ==
  ASSUME NEW maker \in [Regions!Ids -> Regions!Threads], Regions!TeamsInv(maker), NEW t \in Regions!Threads, Regions!RemoveThread(t)
  PROVE  Regions!TeamsInv(maker)'
<1> USE DEF Regions!TeamsInv
<1>a. PICK k \in Regions!Ids : k = tSeen[t] /\ k \in tAlive
  BY MadeTeams DEF Regions!RemoveThread, Regions!LeaveInv
<1>1. /\ tPc[t] = "remove" /\ tPc' = [tPc EXCEPT ![t] = "unlock"]
      /\ tThreads' = [tThreads EXCEPT ![k] = tThreads[k] \ {t}]
      /\ UNCHANGED <<tExists, tHasTeam, tData, tNext, tJobs, tSeen, tMade, tAlive, tArrived>>
  BY <1>a DEF Regions!RemoveThread, Regions!Goto
<1>2. /\ tPc'[t] = "unlock" /\ \A v \in Regions!Threads : v # t => tPc'[v] = tPc[v]
      /\ \A v \in Regions!Threads : Regions!Gathering(v)' <=> Regions!Gathering(v)
  BY <1>1 DEF Regions!TypeOK, Regions!Gathering
<1>3. /\ tThreads'[k] = tThreads[k] \ {t}
      /\ \A j \in Regions!Ids : j # k => tThreads'[j] = tThreads[j]
  BY <1>1 DEF Regions!TypeOK
<1>4. /\ \A j \in Regions!Ids : tThreads'[j] \subseteq tThreads[j]
      /\ \A j \in Regions!Ids : \A v \in tThreads[j] : v # t \/ j # k => v \in tThreads'[j]
  BY <1>3
<1>5. /\ \A i \in DOMAIN tData[t] : tData[t][i] # k
      /\ tJobs[t] # <<>> => tNext[t] # k
      /\ tData[t] # <<>> => maker[k] = t
  BY <1>a, <1>1 DEF Regions!LeaveInv, Regions!JobInv
<1>6. tAlive \subseteq Regions!Ids
  BY MadeTeams
<1>7. Regions!TypeOK'
  <2>1. tThreads' \in [Regions!Ids -> SUBSET Regions!Threads]
    BY <1>1, <1>3 DEF Regions!TypeOK
  <2>2. \A j \in Regions!Ids : j > tMade => tThreads'[j] = {}
    BY <1>4 DEF Regions!TypeOK
  <2> QED
    BY <1>1, <1>2, <2>1, <2>2 DEF Regions!TypeOK
<1>8. Regions!PlaceInv'
  BY <1>1, <1>2 DEF Regions!PlaceInv, Regions!Free
<1>9. Regions!DataInv(maker)'
  BY <1>1, <1>4, <1>5, <1>6 DEF Regions!DataInv
<1>10. Regions!JobInv' /\ Regions!EnterInv(maker)'
  BY <1>1, <1>2, <1>4, <1>5, <1>6 DEF Regions!JobInv, Regions!EnterInv
<1>11. Regions!LeaveInv(maker)'
  BY <1>a, <1>1, <1>2, <1>4, <1>5, <1>6 DEF Regions!LeaveInv
<1>12. Regions!GatherInv(maker)'
  <2> SUFFICES ASSUME NEW c \in Regions!Threads, Regions!Gathering(c), NEW v \in Regions!Threads
               PROVE  /\ c \in tThreads'[tNext[c]]
                      /\ Regions!Unstarted(tNext[c], v)'
                      /\ v \in tThreads'[tNext[c]] /\ v # c => Regions!Free(v)'
    <3>1. \A c \in Regions!Threads : Regions!Gathering(c) => tThreads'[tNext[c]] \subseteq tThreads[tNext[c]]
      BY <1>4, <1>6 DEF Regions!GatherInv
    <3> QED
      BY <1>1, <1>2, <3>1 DEF Regions!GatherInv, Regions!Unstarted
  <2>1. tNext[c] \in Regions!Ids /\ c # t
    BY <1>1, <1>6 DEF Regions!GatherInv, Regions!Gathering
  <2>2. c \in tThreads'[tNext[c]]
    BY <1>4, <2>1 DEF Regions!GatherInv
  <2>3. Regions!Unstarted(tNext[c], v)'
    BY <1>1, <1>2 DEF Regions!GatherInv, Regions!Unstarted
  <2>4. v \in tThreads'[tNext[c]] /\ v # c => Regions!Free(v)'
    BY <1>1, <1>2, <1>4, <2>1 DEF Regions!GatherInv, Regions!Free
  <2> QED
    BY <2>2, <2>3, <2>4
<1>13. Regions!ReserveInv'
  <2>1. \A c \in Regions!Threads : Regions!Gathering(c) => tThreads'[tNext[c]] \subseteq tThreads[tNext[c]]
    BY <1>4, <1>6 DEF Regions!GatherInv
  <2>2. \A c \in Regions!Threads : tPc'[c] = "acquire" <=> tPc[c] = "acquire"
    BY <1>1, <1>2
  <2>3. \A v \in Regions!Threads : Regions!Free(v) => Regions!Free(v)'
    BY <1>1, <1>2 DEF Regions!Free
  <2>4. \A c \in Regions!Threads : tPc[c] = "acquire" => tSeen[c] \in Regions!Threads
    BY DEF Regions!TypeOK
  <2> SUFFICES ASSUME NEW c \in Regions!Threads, tPc[c] = "acquire"
               PROVE  /\ tHasTeam[tSeen[c]] /\ Regions!Free(tSeen[c])'
                      /\ \A d \in Regions!Threads :
                            /\ tPc[d] = "acquire" /\ tSeen[d] = tSeen[c] => d = c
                            /\ Regions!Gathering(d) => tSeen[c] \notin tThreads'[tNext[d]]
    BY <1>1, <1>2, <2>2 DEF Regions!ReserveInv
  <2>5. PICK v \in Regions!Threads : v = tSeen[c]
    BY <2>4
  <2>6. Regions!Free(v)'
    BY <2>3, <2>5 DEF Regions!ReserveInv
  <2>7. Regions!Free(tSeen[c])'
    BY <1>1, <2>5, <2>6 DEF Regions!Free
  <2> QED
    BY <2>1, <2>7 DEF Regions!ReserveInv
<1>14. Regions!MemberInv'
  <2>1. \A v \in Regions!Threads, j \in Regions!Ids :
           tPc[v] = "remove" /\ tSeen[v] = j /\ v \in tThreads'[j] => tPc'[v] = "remove"
    BY <1>a, <1>2, <1>3
  <2>2. \A v \in Regions!Threads : tPc[v] = "enter" => tPc'[v] = "enter"
    BY <1>1, <1>2
  <2> QED
    BY <1>1, <1>2, <1>4, <2>1, <2>2, MemberStays
<1> QED
  BY <1>7, <1>8, <1>9, <1>10, <1>11, <1>12, <1>13, <1>14

(* The creator ends its team when nobody is left in the map: no thread is in the team or
   has a job in it. *)
LEMMA EndTeamStep ==
  ASSUME NEW maker \in [Regions!Ids -> Regions!Threads], Regions!TeamsInv(maker), NEW t \in Regions!Threads, Regions!EndTeam(t)
  PROVE  Regions!TeamsInv(maker)'
<1> USE DEF Regions!TeamsInv
<1>a. PICK k : k = tSeen[t]
  OBVIOUS
<1>1. /\ tPc[t] = "end" /\ tThreads[k] = {} /\ tPc' = [tPc EXCEPT ![t] = "region"]
      /\ tAlive' = tAlive \ {k}
      /\ UNCHANGED <<tExists, tHasTeam, tData, tNext, tJobs, tSeen, tMade, tThreads, tArrived>>
  BY <1>a DEF Regions!EndTeam, Regions!Goto
<1>2. /\ tPc'[t] = "region" /\ \A v \in Regions!Threads : v # t => tPc'[v] = tPc[v]
      /\ \A v \in Regions!Threads : Regions!Gathering(v)' <=> Regions!Gathering(v)
  BY <1>1 DEF Regions!TypeOK, Regions!Gathering
<1>3. tData[t] # <<>> /\ maker[k] = t /\ tJobs[t] = <<>> /\ tHasTeam[t]
  BY <1>a, <1>1 DEF Regions!PlaceInv, Regions!LeaveInv, Regions!Free
<1>4. Regions!TypeOK'
  BY <1>1, <1>2 DEF Regions!TypeOK
<1>5. Regions!PlaceInv'
  BY <1>1, <1>2, <1>3 DEF Regions!PlaceInv, Regions!Free
<1>6. Regions!DataInv(maker)' /\ Regions!JobInv' /\ Regions!EnterInv(maker)'
  BY <1>1, <1>2, <1>3 DEF Regions!DataInv, Regions!JobInv, Regions!EnterInv
<1>7. Regions!LeaveInv(maker)'
  BY <1>a, <1>1, <1>2, <1>3 DEF Regions!LeaveInv
<1>8. Regions!GatherInv(maker)'
  BY <1>1, <1>2 DEF Regions!GatherInv, Regions!Unstarted, Regions!Free
<1>9. Regions!ReserveInv'
  <2>1. \A c \in Regions!Threads : tPc'[c] = "acquire" <=> tPc[c] = "acquire"
    BY <1>1, <1>2
  <2>2. \A v \in Regions!Threads : Regions!Free(v) => Regions!Free(v)'
    BY <1>1, <1>2, <1>3 DEF Regions!Free
  <2> SUFFICES ASSUME NEW c \in Regions!Threads, tPc[c] = "acquire" PROVE Regions!Free(tSeen[c])'
    BY <1>1, <1>2, <2>1 DEF Regions!ReserveInv
  <2>3. PICK v \in Regions!Threads : v = tSeen[c]
    BY DEF Regions!TypeOK
  <2>4. Regions!Free(v)'
    BY <2>2, <2>3 DEF Regions!ReserveInv
  <2> QED
    BY <1>1, <2>3, <2>4 DEF Regions!Free
<1>10. Regions!MemberInv'
  BY <1>1, <1>2, MemberStays
<1> QED
  BY <1>4, <1>5, <1>6, <1>7, <1>8, <1>9, <1>10

(* A team that is created is in nobody's way: nothing has had its number. *)
LEMMA CreateTeamStep ==
  ASSUME NEW maker \in [Regions!Ids -> Regions!Threads], Regions!TeamsInv(maker), NEW t \in Regions!Threads, Regions!CreateTeam(t)
  PROVE  \E after \in [Regions!Ids -> Regions!Threads] : Regions!TeamsInv(after)'
<1> USE DEF Regions!TeamsInv
<1>a. PICK k \in Regions!Ids : k = tMade + 1
  BY MadeTeams, RegionNames, RuntimeAssumption DEF Regions!CreateTeam
<1>b. PICK after : after = [maker EXCEPT ![k] = t]
  OBVIOUS
<1>1. /\ tPc[t] = "region" /\ tPc' = [tPc EXCEPT ![t] = "look"]
      /\ tMade' = k /\ tAlive' = tAlive \cup {k}
      /\ tThreads' = [tThreads EXCEPT ![k] = {t}] /\ tNext' = [tNext EXCEPT ![t] = k]
      /\ UNCHANGED <<tExists, tHasTeam, tData, tJobs, tSeen, tArrived>>
  BY <1>a DEF Regions!CreateTeam, Regions!Goto
<1>2. /\ tPc'[t] = "look" /\ \A v \in Regions!Threads : v # t => tPc'[v] = tPc[v]
      /\ tNext'[t] = k /\ \A v \in Regions!Threads : v # t => tNext'[v] = tNext[v]
  BY <1>1 DEF Regions!TypeOK
<1>3. \A v \in Regions!Threads : Regions!Gathering(v)' <=> Regions!Gathering(v) \/ v = t
  BY <1>2 DEF Regions!Gathering
<1>4. tThreads'[k] = {t} /\ \A j \in Regions!Ids : j # k => tThreads'[j] = tThreads[j]
  BY <1>1 DEF Regions!TypeOK
<1>5. /\ after \in [Regions!Ids -> Regions!Threads] /\ after[k] = t
      /\ \A j \in Regions!Ids : j # k => after[j] = maker[j]
  BY <1>b
<1>6. k \notin tAlive /\ tAlive \subseteq Regions!Ids
  <2>1. tMade \in Nat /\ k \notin 0..tMade
    BY <1>a, MadeTeams
  <2> QED
    BY <2>1, MadeTeams DEF Regions!TypeOK
<1>7. tData[t] # <<>> /\ tJobs[t] = <<>> /\ tHasTeam[t] /\ ~Regions!Gathering(t)
  BY <1>1 DEF Regions!PlaceInv, Regions!Free, Regions!Gathering
<1>8. Regions!TypeOK'
  <2>1. tMade \in Nat /\ 0..tMade \subseteq 0..k /\ k \in 0..k
    BY <1>a, MadeTeams
  <2>2. tNext' \in [Regions!Threads -> 0..k]
    BY <1>1, <2>1 DEF Regions!TypeOK
  <2>3. tThreads' \in [Regions!Ids -> SUBSET Regions!Threads]
    BY <1>1 DEF Regions!TypeOK
  <2>4. \A j \in Regions!Ids : j > k => tThreads'[j] = {}
    <3>1. \A j \in Regions!Ids : j > k => j > tMade /\ j # k
      BY <1>a, <2>1, RegionNames, RuntimeAssumption
    <3> QED
      BY <1>4, <3>1 DEF Regions!TypeOK
  <2>5. tAlive' \subseteq 0..k
    BY <1>1, <2>1 DEF Regions!TypeOK
  <2> QED
    BY <1>1, <1>2, <2>2, <2>3, <2>4, <2>5 DEF Regions!TypeOK
<1>9. Regions!PlaceInv'
  BY <1>1, <1>2, <1>7 DEF Regions!PlaceInv, Regions!Free
<1>10. Regions!DataInv(after)'
  BY <1>1, <1>4, <1>5, <1>6 DEF Regions!DataInv
<1>11. Regions!JobInv'
  BY <1>1, <1>2, <1>4, <1>6, <1>7 DEF Regions!JobInv
<1>12. Regions!EnterInv(after)'
  BY <1>1, <1>2, <1>4, <1>5, <1>6 DEF Regions!EnterInv
<1>13. Regions!LeaveInv(after)'
  BY <1>1, <1>2, <1>4, <1>5, <1>6 DEF Regions!LeaveInv
<1>14. Regions!GatherInv(after)'
  <2> SUFFICES ASSUME NEW c \in Regions!Threads, Regions!Gathering(c)', NEW v \in Regions!Threads, NEW j, j = tNext'[c]
               PROVE  /\ j \in tAlive' /\ after[j] = c /\ c \in tThreads'[j]
                      /\ Regions!Unstarted(j, v)'
                      /\ v \in tThreads'[j] /\ v # c => tHasTeam[v] /\ Regions!Free(v)' /\ tNext'[v] = j
    BY <1>1 DEF Regions!GatherInv, Regions!Unstarted
  <2>1. CASE c = t
    <3>1. /\ \A i \in DOMAIN tData[v] : tData[v][i] # k
          /\ tJobs[v] # <<>> \/ tPc[v] = "enter" => tNext[v] # k
          /\ tPc[v] = "remove" => tSeen[v] # k
      BY <1>6 DEF Regions!DataInv, Regions!JobInv, Regions!EnterInv, Regions!LeaveInv
    <3>2. Regions!Unstarted(k, v)'
      BY <1>1, <1>2, <1>7, <3>1 DEF Regions!Unstarted
    <3>3. j = k
      BY <1>2, <2>1
    <3> QED
      BY <1>1, <1>4, <1>5, <2>1, <3>2, <3>3 DEF Regions!Unstarted
  <2>2. CASE c # t
    <3>1. Regions!Gathering(c) /\ j = tNext[c]
      BY <1>2, <1>3, <2>2
    <3>2. /\ j \in tAlive /\ maker[j] = c /\ c \in tThreads[j]
          /\ Regions!Unstarted(j, v)
          /\ v \in tThreads[j] /\ v # c => tHasTeam[v] /\ Regions!Free(v) /\ tNext[v] = j
      BY <3>1 DEF Regions!GatherInv
    <3>3. j \in Regions!Ids /\ j # k
      BY <1>6, <3>2
    <3>4. Regions!Unstarted(j, v)'
      BY <1>1, <1>2, <1>7, <3>2 DEF Regions!Unstarted
    <3>5. v \in tThreads[j] /\ v # c => Regions!Free(v)' /\ tNext'[v] = j
      BY <1>1, <1>2, <3>2 DEF Regions!Free
    <3> QED
      BY <1>1, <1>4, <1>5, <3>2, <3>3, <3>4, <3>5
  <2> QED
    BY <2>1, <2>2
<1>15. Regions!ReserveInv'
  <2>1. \A c \in Regions!Threads : tPc'[c] = "acquire" <=> tPc[c] = "acquire"
    BY <1>1, <1>2
  <2> SUFFICES ASSUME NEW c \in Regions!Threads, tPc[c] = "acquire"
               PROVE  /\ tHasTeam[tSeen[c]] /\ Regions!Free(tSeen[c])'
                      /\ \A d \in Regions!Threads :
                            /\ tPc[d] = "acquire" /\ tSeen[d] = tSeen[c] => d = c
                            /\ Regions!Gathering(d)' => tSeen[c] \notin tThreads'[tNext'[d]]
    BY <1>1, <2>1 DEF Regions!ReserveInv
  <2>2. PICK v \in Regions!Threads : v = tSeen[c]
    BY DEF Regions!TypeOK
  <2>3. Regions!Free(v) /\ tHasTeam[v] /\ v # t
    BY <1>1, <2>2 DEF Regions!ReserveInv, Regions!Free
  <2>4. Regions!Free(v)'
    BY <1>1, <1>2, <2>3 DEF Regions!Free
  <2>5. Regions!Free(tSeen[c])'
    BY <1>1, <2>2, <2>4 DEF Regions!Free
  <2>6. ASSUME NEW d \in Regions!Threads, Regions!Gathering(d)' PROVE tSeen[c] \notin tThreads'[tNext'[d]]
    <3>1. CASE d = t
      BY <1>2, <1>4, <2>2, <2>3, <3>1
    <3>2. CASE d # t
      <4>1. Regions!Gathering(d) /\ tNext'[d] = tNext[d]
        BY <1>2, <1>3, <2>6, <3>2
      <4>2. tNext[d] \in Regions!Ids /\ tNext[d] # k
        BY <1>6, <4>1 DEF Regions!GatherInv
      <4> QED
        BY <1>4, <4>1, <4>2 DEF Regions!ReserveInv
    <3> QED
      BY <3>1, <3>2
  <2> QED
    BY <2>2, <2>3, <2>5, <2>6 DEF Regions!ReserveInv
<1>16. Regions!MemberInv'
  <2> SUFFICES ASSUME NEW j \in Regions!Ids, NEW v \in tThreads'[j]
               PROVE  \/ \E i \in DOMAIN tData[v] : tData[v][i] = j
                      \/ tPc'[v] = "remove" /\ tSeen[v] = j
                      \/ Regions!Awaits(v, j)'
    BY <1>1 DEF Regions!MemberInv
  <2>1. CASE j = k
    <3>1. v = t /\ Regions!Gathering(t)'
      BY <1>3, <1>4, <2>1
    <3> QED
      BY <1>2, <2>1, <3>1 DEF Regions!Awaits
  <2>2. CASE j # k
    <3>1. v \in tThreads[j] /\ v \in Regions!Threads
      BY <1>4, <2>2 DEF Regions!TypeOK
    <3>2. CASE tPc[v] = "remove" /\ tSeen[v] = j
      BY <1>1, <1>2, <3>1, <3>2
    <3>3. CASE Regions!Awaits(v, j)
      <4>1. v # t
        BY <1>1, <1>7, <3>1, <3>3 DEF Regions!Awaits, Regions!GatherInv, Regions!Free
      <4>2. \A c \in Regions!Threads : Regions!Gathering(c) => Regions!Gathering(c)' /\ tNext'[c] = tNext[c]
        BY <1>2, <1>3, <1>7
      <4> QED
        BY <1>1, <1>2, <3>1, <3>3, <4>1, <4>2 DEF Regions!Awaits
    <3> QED
      BY <3>1, <3>2, <3>3 DEF Regions!MemberInv
  <2> QED
    BY <2>1, <2>2
<1> QED
  BY <1>5, <1>8, <1>9, <1>10, <1>11, <1>12, <1>13, <1>14, <1>15, <1>16

(* What each operation preserves, all operations preserve. *)
LEMMA RegionsStep == Regions!Inductive /\ [Regions!TeamsNext]_(Regions!teamsVars) => Regions!Inductive'
<1> SUFFICES ASSUME Regions!Inductive, [Regions!TeamsNext]_(Regions!teamsVars) PROVE Regions!Inductive'
  OBVIOUS
<1>1. PICK maker \in [Regions!Ids -> Regions!Threads] : Regions!TeamsInv(maker)
  BY DEF Regions!Inductive
<1>2. CASE UNCHANGED Regions!teamsVars
  <2>1. UNCHANGED <<tExists, tHasTeam, tData, tNext, tJobs, tPc, tSeen, tMade, tAlive, tThreads,
                    tArrived>>
    BY <1>2 DEF Regions!teamsVars
  <2>2. Regions!TypeOK' /\ Regions!PlaceInv' /\ Regions!DataInv(maker)' /\ Regions!JobInv' /\ Regions!EnterInv(maker)' /\ Regions!LeaveInv(maker)'
    BY <1>1, <2>1 DEF Regions!TeamsInv, Regions!TypeOK, Regions!PlaceInv, Regions!DataInv,
       Regions!JobInv, Regions!EnterInv, Regions!LeaveInv, Regions!Free
  <2>3. Regions!GatherInv(maker)' /\ Regions!ReserveInv' /\ Regions!MemberInv'
    BY <1>1, <2>1 DEF Regions!TeamsInv, Regions!GatherInv, Regions!ReserveInv, Regions!MemberInv,
       Regions!Awaits, Regions!Unstarted, Regions!Gathering, Regions!Free
  <2> QED
    BY <2>2, <2>3 DEF Regions!TeamsInv, Regions!Inductive
<1>3. ASSUME NEW t \in Regions!Threads, Regions!CreateTeam(t) PROVE Regions!Inductive'
  BY <1>1, <1>3, CreateTeamStep DEF Regions!Inductive
<1>4. ASSUME NEW t \in Regions!Threads, Regions!Move(t) PROVE Regions!Inductive'
  <2>1. Regions!TeamsInv(maker)'
    <3>1. CASE \E u \in Regions!Threads : Regions!Look(t, u)
      BY <1>1, <3>1, LookStep
    <3>2. CASE Regions!CreateWorker(t)
      BY <1>1, <3>2, CreateWorkerStep
    <3>3. CASE Regions!Reserve(t)
      BY <1>1, <3>3, ReserveStep
    <3>4. CASE Regions!Acquire(t)
      BY <1>1, <3>4, AcquireStep
    <3>5. CASE Regions!Start(t)
      BY <1>1, <3>5, StartStep
    <3>6. CASE Regions!TakeJob(t)
      BY <1>1, <3>6, TakeJobStep
    <3>7. CASE Regions!EnterTeam(t)
      BY <1>1, <3>7, EnterTeamStep
    <3>8. CASE Regions!Arrive(t)
      BY <1>1, <3>8, ArriveStep
    <3>9. CASE Regions!LeaveTeam(t)
      BY <1>1, <3>9, LeaveTeamStep
    <3>10. CASE Regions!RemoveThread(t)
      BY <1>1, <3>10, RemoveThreadStep
    <3>11. CASE Regions!Unlock(t)
      BY <1>1, <3>11, UnlockStep
    <3>12. CASE Regions!EndTeam(t)
      BY <1>1, <3>12, EndTeamStep
    <3> QED
      BY <1>4, <3>1, <3>2, <3>3, <3>4, <3>5, <3>6, <3>7, <3>8, <3>9, <3>10, <3>11, <3>12 DEF
         Regions!Move
  <2> QED
    BY <2>1 DEF Regions!Inductive
<1> QED
  BY <1>2, <1>3, <1>4 DEF Regions!TeamsNext

(* A thread that a map holds beyond its teams waits for its next team, and the lock makes
   reservations exclusive. *)
LEMMA ReservedThreads == Regions!Inductive => Regions!ReservedOnce
<1> SUFFICES ASSUME NEW maker \in [Regions!Ids -> Regions!Threads], Regions!TeamsInv(maker) PROVE Regions!ReservedOnce
  BY DEF Regions!Inductive
<1>1. \A c, d \in Regions!Threads : tPc[c] = "acquire" /\ tPc[d] = "acquire" /\ tSeen[c] = tSeen[d] => c = d
  BY DEF Regions!TeamsInv, Regions!ReserveInv
<1>2. ASSUME NEW t \in Regions!Threads, NEW k \in Regions!Pending(t) PROVE k = tNext[t]
  <2>1. /\ k \in tAlive /\ t \in tThreads[k] /\ k \notin Regions!ToSet(tData[t])
        /\ ~(tPc[t] = "remove" /\ tSeen[t] = k)
    BY DEF Regions!Pending
  <2>2. \A i \in DOMAIN tData[t] : tData[t][i] # k
    BY <2>1, RegionElements
  <2>3. k \in Regions!Ids
    BY <2>1, MadeTeams DEF Regions!TeamsInv
  <2> QED
    BY <2>1, <2>2, <2>3 DEF Regions!TeamsInv, Regions!MemberInv, Regions!Awaits
<1> QED
  BY <1>1, <1>2 DEF Regions!ReservedOnce

(* A thread is in the maps of its teams, and those exist. *)
LEMMA LivingTeams == Regions!Inductive => Regions!TeamOutlives
<1> SUFFICES ASSUME NEW maker \in [Regions!Ids -> Regions!Threads], Regions!TeamsInv(maker), NEW t \in Regions!Threads
             PROVE  /\ Regions!ToSet(tData[t]) \cup Regions!ToSet(tJobs[t]) \subseteq tAlive
                    /\ tPc[t] \in {"remove", "end"} => tSeen[t] \in tAlive
  BY DEF Regions!Inductive, Regions!TeamOutlives
<1>1. Regions!ToSet(tData[t]) \subseteq tAlive
  BY RegionElements DEF Regions!TeamsInv, Regions!DataInv
<1>2. Regions!ToSet(tJobs[t]) \subseteq tAlive
  <2>1. Regions!ToSet(tJobs[t]) = {tJobs[t][i] : i \in DOMAIN tJobs[t]}
    BY RegionElements
  <2>2. CASE tJobs[t] = <<>>
    BY <2>1, <2>2
  <2>3. CASE tJobs[t] # <<>>
    <3>1. tJobs[t] = <<tNext[t]>> /\ tNext[t] \in tAlive
      BY <2>3 DEF Regions!TeamsInv, Regions!JobInv
    <3> QED
      BY <2>1, <3>1
  <2> QED
    BY <2>2, <2>3
<1>3. tPc[t] \in {"remove", "end"} => tSeen[t] \in tAlive
  BY DEF Regions!TeamsInv, Regions!LeaveInv, Regions!PlaceInv
<1> QED
  BY <1>1, <1>2, <1>3

-----------------------------------------------------------------------------
(* The workers of the team that user code resizes. *)

(* Threads are numbered, and no id is None. *)
LEMMA WorkerNames ==
    /\ N \in Nat \ {0} /\ Team!Threads = 0..(N - 1) /\ IsFiniteSet(Team!Threads) /\ 0 \in Team!Threads
    /\ Team!None \notin Nat /\ Team!None \notin Team!Threads
<1>1. N \in Nat \ {0} /\ Team!Threads = 0..(N - 1)
  BY RuntimeAssumption DEF Team!Threads
<1>2. IsFiniteSet(0..(N - 1))
  BY <1>1, FS_Interval
<1> QED
  BY <1>1, <1>2 DEF Team!None

(* The instance counts as FiniteSets does. *)
LEMMA TeamCardinality == \A S : Team!Cardinality(S) = Cardinality(S)
BY Zenon DEF Team!Cardinality, Cardinality

(* The workers that are counted are finitely many. *)
LEMMA CountedType ==
  ASSUME Team!WorkersTypeOK
  PROVE  IsFiniteSet(Team!Counted) /\ Cardinality(Team!Counted) \in Nat
<1>1. Team!Counted \subseteq Team!Threads
  BY DEF Team!Counted, Team!WorkersTypeOK
<1> QED
  BY <1>1, WorkerNames, FS_Subset, FS_CardinalityType

(* All threads that exist work in the team, each under its own number. *)
LEMMA WorkersBegin == Team!WorkersInit /\ manner = "spaced" => Team!SpacedInv
<1> SUFFICES ASSUME Team!WorkersInit, manner = "spaced" PROVE Team!SpacedInv
  OBVIOUS
<1>1. PICK k \in Team!Threads : exists = 0..k
  BY DEF Team!WorkersInit
<1>2. /\ k \in Nat /\ k < N /\ N \in Nat /\ Cardinality(exists) = k + 1
      /\ exists \subseteq Team!Threads /\ exists = 0..(Cardinality(exists) - 1)
  <2>1. k \in Nat /\ k < N /\ N \in Nat
    BY WorkerNames
  <2>2. Cardinality(0..k) = k + 1
    BY <2>1, FS_Interval
  <2> QED
    BY <1>1, <2>1, <2>2, WorkerNames
<1>3. /\ \A t \in Team!Threads : /\ ~tagged[t] /\ (hasTeam[t] <=> t \in exists) /\ wPc[t] = "awake"
                            /\ id[t] = IF t \in exists THEN t ELSE Team!None
      /\ DOMAIN team = exists /\ \A i \in exists : team[i] = i
      /\ nextId = k + 1 /\ active = k + 1 /\ target = active /\ at = "user" /\ picked = 0
      /\ newId = 0 /\ mutex = Team!None
  BY <1>2, TeamCardinality DEF Team!WorkersInit
<1>4. Team!WorkersTypeOK
  <2>1. target \in 1..N /\ active \in Nat /\ nextId \in Nat /\ newId \in Nat /\ picked \in Team!Threads
    BY <1>2, <1>3, WorkerNames
  <2>2. id \in [Team!Threads -> Nat \cup {Team!None}]
    BY WorkerNames DEF Team!WorkersInit
  <2>3. DOMAIN team \subseteq Nat /\ \A i \in DOMAIN team : team[i] \in Team!Threads
    BY <1>1, <1>2, <1>3
  <2>4. team = [i \in DOMAIN team |-> team[i]]
    BY DEF Team!WorkersInit
  <2> QED
    BY <1>2, <2>1, <2>2, <2>3, <2>4, TeamCardinality DEF Team!WorkersInit, Team!WorkersTypeOK
<1>5. Team!ThreadsInv
  BY <1>2, <1>3, WorkerNames DEF Team!ThreadsInv, Team!Taken, Team!Taking, Team!Works
<1>6. Team!PlaceInv /\ Team!MutexInv
  BY <1>3 DEF Team!PlaceInv, Team!MutexInv, Team!Taking
<1>7. Team!CountInv
  <2>1. Team!Counted = exists
    BY <1>2, <1>3 DEF Team!Counted, Team!Taken, Team!Taking
  <2> QED
    BY <1>2, <1>3, <2>1, TeamCardinality DEF Team!CountInv
<1>8. Team!TeamInv
  BY <1>1, <1>2, <1>3, WorkerNames DEF Team!TeamInv
<1> QED
  BY <1>4, <1>5, <1>6, <1>7, <1>8 DEF Team!SpacedInv

(* User code asks for a number of workers when all have settled. *)
LEMMA SetNumThreadsKeeps ==
  ASSUME Team!SpacedInv, manner = "spaced", Team!SetNumThreads
  PROVE  Team!SpacedInv'
<1>1. /\ Team!WorkersTypeOK /\ Team!ThreadsInv /\ Team!PlaceInv
      /\ Team!CountInv /\ Team!MutexInv /\ Team!TeamInv
  BY DEF Team!SpacedInv
<1>2. /\ at = "user" /\ at' = "resize" /\ \A t \in exists : Team!Settled(t)
      /\ target' \in 1..N
      /\ UNCHANGED <<manner, exists, tagged, hasTeam, id, wPc, mutex, team, nextId, picked,
                     newId, active>>
  BY DEF Team!SetNumThreads, Team!At, Team!Goto, Team!worker
<1>3. Team!WorkersTypeOK'
  BY <1>1, <1>2 DEF Team!WorkersTypeOK
<1>4. Team!ThreadsInv'
  <2> SUFFICES ASSUME NEW t \in Team!Threads, t \in exists PROVE Team!Works(t)' \/ Team!Sleeps(t)'
    BY <1>1, <1>2 DEF Team!ThreadsInv, Team!Taken, Team!Taking
  <2>1. Team!Works(t) \/ Team!Told(t) \/ Team!Sleeps(t)
    BY <1>1, <1>2 DEF Team!ThreadsInv, Team!Taken, Team!Taking, Team!New
  <2>2. ~Team!Told(t)
    BY <1>2 DEF Team!Settled, Team!Told
  <2> QED
    BY <1>2, <2>1, <2>2 DEF Team!Works, Team!Sleeps
<1>5. Team!PlaceInv' /\ Team!MutexInv'
  BY <1>1, <1>2 DEF Team!PlaceInv, Team!MutexInv, Team!Taking
<1>6. Team!Counted' = Team!Counted
  BY <1>2 DEF Team!Counted, Team!Taken, Team!Taking
<1>7. Team!CountInv' /\ Team!TeamInv'
  BY <1>1, <1>2, <1>6 DEF Team!CountInv, Team!TeamInv
<1> QED
  BY <1>3, <1>4, <1>5, <1>7 DEF Team!SpacedInv

(* While a team grows all its workers stay where they are. *)
LEMMA NobodyTold ==
  ASSUME Team!SpacedInv, target > active, at # "sleep"
  PROVE  \A t \in exists : ~Team!Taken(t) => Team!Works(t) \/ Team!New(t) \/ Team!Sleeps(t)
BY DEF Team!SpacedInv, Team!ThreadsInv, Team!Told, Team!WorkersTypeOK

(* A worker is taken: a new one if there is one, or one that sleeps. *)
LEMMA GetUnassignedWorkerKeeps ==
  ASSUME Team!SpacedInv, manner = "spaced", Team!GetUnassignedWorker
  PROVE  Team!SpacedInv'
<1>1. /\ Team!WorkersTypeOK /\ Team!ThreadsInv /\ Team!PlaceInv
      /\ Team!CountInv /\ Team!MutexInv /\ Team!TeamInv
  BY DEF Team!SpacedInv
<1>2. PICK p \in Team!Threads : /\ Team!Free(p) /\ hasTeam' = [hasTeam EXCEPT ![p] = TRUE] /\ picked' = p
  BY DEF Team!GetUnassignedWorker
<1>3. /\ at = "resize" /\ at' = "add" /\ target > active /\ p \in exists
      /\ UNCHANGED <<manner, exists, tagged, id, wPc, mutex, team, nextId, newId, target, active>>
  BY <1>2 DEF Team!GetUnassignedWorker, Team!At, Team!Goto, Team!request, Team!Free
<1>4. hasTeam'[p] /\ \A t \in Team!Threads : t # p => hasTeam'[t] = hasTeam[t]
  BY <1>1, <1>2 DEF Team!WorkersTypeOK
<1>5. \A t \in exists : Team!Works(t) \/ Team!New(t) \/ Team!Sleeps(t)
  BY <1>3, NobodyTold DEF Team!Taken, Team!Taking
<1>6. Team!New(p) \/ Team!Sleeps(p)
  BY <1>2, <1>3, <1>5 DEF Team!Works, Team!Free
<1>7. Team!WorkersTypeOK'
  BY <1>1, <1>2, <1>3 DEF Team!WorkersTypeOK
<1>8. Team!ThreadsInv'
  <2> SUFFICES ASSUME NEW t \in Team!Threads
               PROVE IF t \notin exists THEN ~tagged[t] /\ ~hasTeam'[t] /\ id[t] = Team!None /\ wPc[t] = "awake"
                     ELSE IF t = p
                     THEN /\ hasTeam'[t] /\ id[t] = Team!None
                          /\ wPc[t] = IF tagged[t] THEN "asleep" ELSE "awake"
                     ELSE Team!Works(t)' \/ Team!Sleeps(t)'
    BY <1>2, <1>3 DEF Team!ThreadsInv, Team!Taken, Team!Taking
  <2>1. CASE t \notin exists
    BY <1>1, <1>3, <1>4, <2>1 DEF Team!ThreadsInv
  <2>2. CASE t = p
    BY <1>3, <1>4, <1>6, <2>2 DEF Team!New, Team!Sleeps
  <2>3. CASE t \in exists /\ t # p
    <3>1. ~Team!New(t)
      BY <1>2, <1>3, <2>3 DEF Team!New
    <3> QED
      BY <1>3, <1>4, <1>5, <2>3, <3>1 DEF Team!Works, Team!Sleeps
  <2> QED
    BY <2>1, <2>2, <2>3
<1>9. Team!PlaceInv' /\ Team!MutexInv'
  BY <1>1, <1>2, <1>3 DEF Team!PlaceInv, Team!MutexInv, Team!Taking
<1>10. Team!Counted' = Team!Counted
  <2>1. ASSUME NEW t \in exists
        PROVE  hasTeam'[t] /\ ~tagged[t] /\ t # p <=> hasTeam[t] /\ ~tagged[t]
    BY <1>1, <1>2, <1>4, <2>1 DEF Team!Free, Team!WorkersTypeOK
  <2> QED
    BY <1>2, <1>3, <2>1 DEF Team!Counted, Team!Taken, Team!Taking
<1>11. Team!CountInv' /\ Team!TeamInv'
  BY <1>1, <1>3, <1>10 DEF Team!CountInv, Team!TeamInv
<1> QED
  BY <1>7, <1>8, <1>9, <1>11 DEF Team!SpacedInv

(* A worker is created where none can be taken; there is room for it. *)
LEMMA CreateWorkerKeeps ==
  ASSUME Team!SpacedInv, manner = "spaced", Team!CreateWorker
  PROVE  Team!SpacedInv'
<1>1. /\ Team!WorkersTypeOK /\ Team!ThreadsInv /\ Team!PlaceInv
      /\ Team!CountInv /\ Team!MutexInv /\ Team!TeamInv
  BY DEF Team!SpacedInv
<1>2. PICK c : c = Cardinality(exists)
  OBVIOUS
<1>3. /\ at = "resize" /\ target > active /\ \A t \in Team!Threads : ~Team!Free(t)
      /\ exists' = exists \cup {c}
      /\ UNCHANGED <<manner, tagged, hasTeam, id, wPc, mutex, team, nextId, at, picked, newId,
                     target, active>>
  BY <1>2, TeamCardinality DEF Team!CreateWorker, Team!At, Team!request, Team!worker
<1>4. Team!Counted = exists /\ active = c
  BY <1>1, <1>2, <1>3, TeamCardinality DEF Team!Counted, Team!Free, Team!Taken, Team!Taking,
     Team!WorkersTypeOK, Team!CountInv
<1>5. c \in Team!Threads /\ c \notin exists /\ exists = 0..(c - 1) /\ c \in Nat
  BY <1>1, <1>2, <1>3, <1>4, WorkerNames, TeamCardinality DEF Team!WorkersTypeOK
<1>6. exists' \subseteq Team!Threads /\ exists' = 0..(Cardinality(exists') - 1)
  <2>1. exists' = 0..c
    BY <1>3, <1>5
  <2>2. Cardinality(0..c) = c + 1
    BY <1>5, FS_Interval
  <2>3. Cardinality(exists') = c + 1 /\ (c + 1) - 1 = c
    BY <1>5, <2>1, <2>2
  <2>4. exists' \subseteq Team!Threads
    BY <1>1, <1>3, <1>5 DEF Team!WorkersTypeOK
  <2> QED
    BY <2>1, <2>3, <2>4
<1>7. Team!WorkersTypeOK'
  BY <1>1, <1>3, <1>6, TeamCardinality DEF Team!WorkersTypeOK
<1>8. \A t \in exists : Team!Works(t)
  <2> TAKE t \in exists
  <2>1. ~Team!Free(t) /\ (Team!Works(t) \/ Team!New(t) \/ Team!Sleeps(t))
    BY <1>1, <1>3, NobodyTold DEF Team!Taken, Team!Taking, Team!WorkersTypeOK
  <2> QED
    BY <2>1 DEF Team!New, Team!Sleeps, Team!Free
<1>9. Team!New(c)'
  <2>1. ~tagged[c] /\ ~hasTeam[c] /\ id[c] = Team!None /\ wPc[c] = "awake"
    BY <1>1, <1>5 DEF Team!ThreadsInv
  <2>2. \A u \in exists' : Team!Free(u)' => u = c
    BY <1>3, <1>8 DEF Team!Free, Team!Works
  <2> QED
    BY <1>3, <2>1, <2>2 DEF Team!New
<1>10. Team!ThreadsInv'
  BY <1>1, <1>3, <1>8, <1>9 DEF Team!ThreadsInv, Team!Works, Team!Taken, Team!Taking
<1>11. Team!PlaceInv' /\ Team!MutexInv'
  BY <1>1, <1>3 DEF Team!PlaceInv, Team!MutexInv, Team!Taking
<1>12. Team!Counted' = Team!Counted
  BY <1>3, <1>9 DEF Team!Counted, Team!New, Team!Taken, Team!Taking
<1>13. Team!CountInv' /\ Team!TeamInv'
  BY <1>1, <1>3, <1>12 DEF Team!CountInv, Team!TeamInv
<1> QED
  BY <1>7, <1>10, <1>11, <1>13 DEF Team!SpacedInv

(* The worker that is taken gets an id of its own (addThread). *)
LEMMA AddThreadKeeps ==
  ASSUME Team!SpacedInv, manner = "spaced", Team!AddThread
  PROVE  Team!SpacedInv'
<1>1. /\ Team!WorkersTypeOK /\ Team!ThreadsInv /\ Team!PlaceInv
      /\ Team!CountInv /\ Team!MutexInv /\ Team!TeamInv
  BY DEF Team!SpacedInv
<1>2. /\ at = "add" /\ at' = "enter" /\ newId' = nextId /\ nextId' = nextId + 1
      /\ team' = [i \in DOMAIN team \cup {nextId} |-> IF i = nextId THEN picked ELSE team[i]]
      /\ UNCHANGED <<manner, exists, tagged, hasTeam, id, wPc, mutex, picked, target, active>>
  BY DEF Team!AddThread, Team!At, Team!Goto, Team!request, Team!worker
<1>3. /\ nextId \in Nat /\ nextId \notin DOMAIN team /\ picked \in Team!Threads
      /\ DOMAIN team \subseteq Nat
      /\ DOMAIN team' = DOMAIN team \cup {nextId} /\ team'[nextId] = picked
      /\ \A i \in DOMAIN team : team'[i] = team[i] /\ i < nextId
  BY <1>1, <1>2 DEF Team!WorkersTypeOK, Team!TeamInv
<1>4. Team!WorkersTypeOK'
  BY <1>1, <1>2, <1>3 DEF Team!WorkersTypeOK
<1>5. Team!Taking' /\ Team!Taking /\ \A t \in Team!Threads : Team!Taken(t)' <=> Team!Taken(t)
  BY <1>2 DEF Team!Taking, Team!Taken
<1>6. Team!ThreadsInv'
  BY <1>1, <1>2, <1>5 DEF Team!ThreadsInv, Team!Works, Team!New, Team!Told, Team!Sleeps
<1>7. Team!PlaceInv' /\ Team!MutexInv'
  BY <1>1, <1>2, <1>5 DEF Team!PlaceInv, Team!MutexInv
<1>8. Team!Counted' = Team!Counted
  BY <1>2, <1>5 DEF Team!Counted, Team!Taken
<1>9. Team!TeamInv'
  <2>1. ASSUME NEW i \in DOMAIN team'
        PROVE  /\ i < nextId'
               /\ \/ id[team'[i]] = i /\ wPc[team'[i]] # "left"
                  \/ i = newId' /\ team'[i] = picked
    <3>1. CASE i = nextId
      BY <1>2, <1>3, <3>1
    <3>2. CASE i \in DOMAIN team
      BY <1>1, <1>2, <1>3, <3>2 DEF Team!TeamInv
    <3> QED
      BY <1>3, <2>1, <3>1, <3>2
  <2>2. \A t \in Team!Threads : id[t] # Team!None /\ wPc[t] # "left" => id[t] \in DOMAIN team' /\ team'[id[t]] = t
    BY <1>1, <1>3 DEF Team!TeamInv
  <2> QED
    BY <1>2, <1>3, <2>1, <2>2 DEF Team!TeamInv
<1>10. Team!CountInv'
  BY <1>1, <1>2, <1>8 DEF Team!CountInv
<1> QED
  BY <1>4, <1>6, <1>7, <1>9, <1>10 DEF Team!SpacedInv

(* It knows the id (enterTeam). *)
LEMMA EnterTeamKeeps ==
  ASSUME Team!SpacedInv, manner = "spaced", Team!EnterTeam
  PROVE  Team!SpacedInv'
<1>1. /\ Team!WorkersTypeOK /\ Team!ThreadsInv /\ Team!PlaceInv
      /\ Team!CountInv /\ Team!MutexInv /\ Team!TeamInv
  BY DEF Team!SpacedInv
<1>2. PICK p : p = picked
  OBVIOUS
<1>3. /\ at = "enter" /\ at' = "wakeup"
      /\ id' = [id EXCEPT ![p] = newId] /\ hasTeam' = [hasTeam EXCEPT ![p] = TRUE]
      /\ UNCHANGED <<manner, exists, tagged, wPc, mutex, team, nextId, picked, newId, target,
                     active>>
  BY <1>2 DEF Team!EnterTeam, Team!At, Team!Goto, Team!request
<1>4. /\ p \in Team!Threads /\ p \in exists /\ newId \in Nat /\ newId # Team!None
      /\ Team!Taken(p) /\ Team!Taken(p)' /\ \A t \in Team!Threads : t # p => ~Team!Taken(t) /\ ~Team!Taken(t)'
      /\ hasTeam[p] /\ id[p] = Team!None /\ wPc[p] = IF tagged[p] THEN "asleep" ELSE "awake"
  <2>1. p \in Team!Threads /\ p \in exists /\ newId \in Nat /\ Team!Taken(p) /\ Team!Taken(p)'
        /\ \A t \in Team!Threads : t # p => ~Team!Taken(t) /\ ~Team!Taken(t)'
    BY <1>1, <1>2, <1>3 DEF Team!WorkersTypeOK, Team!PlaceInv, Team!Taken, Team!Taking
  <2> QED
    BY <1>1, <1>3, <2>1, WorkerNames DEF Team!ThreadsInv
<1>5. /\ id'[p] = newId /\ hasTeam'[p] /\ \A t \in Team!Threads : hasTeam'[t] = hasTeam[t]
      /\ \A t \in Team!Threads : t # p => id'[t] = id[t]
  BY <1>1, <1>3, <1>4 DEF Team!WorkersTypeOK
<1>6. Team!WorkersTypeOK'
  BY <1>1, <1>3, <1>4 DEF Team!WorkersTypeOK
<1>7. Team!ThreadsInv'
  <2> SUFFICES ASSUME NEW t \in Team!Threads
               PROVE IF t \notin exists THEN ~tagged[t] /\ ~hasTeam'[t] /\ id'[t] = Team!None /\ wPc[t] = "awake"
                     ELSE IF t = p
                     THEN /\ hasTeam'[t] /\ id'[t] # Team!None
                          /\ wPc[t] = IF tagged[t] THEN "asleep" ELSE "awake"
                     ELSE Team!Works(t)' \/ Team!New(t)' \/ Team!Told(t)' \/ Team!Sleeps(t)'
    BY <1>3, <1>4 DEF Team!ThreadsInv
  <2>1. CASE t = p
    BY <1>4, <1>5, <2>1
  <2>2. CASE t # p
    <3>1. IF t \notin exists THEN ~tagged[t] /\ ~hasTeam[t] /\ id[t] = Team!None /\ wPc[t] = "awake"
          ELSE Team!Works(t) \/ Team!New(t) \/ Team!Told(t) \/ Team!Sleeps(t)
      BY <1>1, <1>4, <2>2 DEF Team!ThreadsInv
    <3>2. ~Team!New(t) /\ ~Team!Told(t)
      BY <1>3 DEF Team!New, Team!Told, Team!Taking
    <3> QED
      BY <1>3, <1>5, <2>2, <3>1, <3>2 DEF Team!Works, Team!Sleeps
  <2> QED
    BY <2>1, <2>2
<1>8. Team!PlaceInv' /\ Team!MutexInv'
  BY <1>1, <1>2, <1>3, <1>4, <1>5 DEF Team!PlaceInv, Team!MutexInv, Team!Taking
<1>9. Team!Counted' = Team!Counted
  BY <1>1, <1>3, <1>4, <1>5 DEF Team!Counted, Team!WorkersTypeOK
<1>10. Team!TeamInv'
  <2>1. newId \in DOMAIN team /\ team[newId] = p /\ wPc[p] # "left"
    BY <1>1, <1>2, <1>3, <1>4 DEF Team!TeamInv
  <2>2. ASSUME NEW i \in DOMAIN team PROVE i < nextId /\ id'[team[i]] = i /\ wPc[team[i]] # "left"
    <3>1. team[i] \in Team!Threads /\ i < nextId /\ i # Team!None
      BY <1>1, WorkerNames DEF Team!TeamInv, Team!WorkersTypeOK
    <3>2. CASE i = newId
      BY <1>5, <2>1, <3>1, <3>2
    <3>3. CASE i # newId
      <4>1. id[team[i]] = i /\ wPc[team[i]] # "left"
        BY <1>1, <3>3 DEF Team!TeamInv
      <4> QED
        BY <1>4, <1>5, <3>1, <4>1
    <3> QED
      BY <3>2, <3>3
  <2>3. \A t \in Team!Threads : id'[t] # Team!None /\ wPc[t] # "left" => id'[t] \in DOMAIN team /\ team[id'[t]] = t
    BY <1>1, <1>5, <2>1 DEF Team!TeamInv
  <2> QED
    BY <1>3, <2>2, <2>3 DEF Team!TeamInv
<1>11. Team!CountInv'
  BY <1>1, <1>3, <1>9 DEF Team!CountInv
<1> QED
  BY <1>6, <1>7, <1>8, <1>10, <1>11 DEF Team!SpacedInv

(* It has to sleep no more, and is woken if it does (wakeup). *)
LEMMA WakeupKeeps ==
  ASSUME Team!SpacedInv, manner = "spaced", Team!Wakeup
  PROVE  Team!SpacedInv'
<1>1. /\ Team!WorkersTypeOK /\ Team!ThreadsInv /\ Team!PlaceInv
      /\ Team!CountInv /\ Team!MutexInv /\ Team!TeamInv
  BY DEF Team!SpacedInv
<1>2. PICK p : p = picked
  OBVIOUS
<1>3. /\ at = "wakeup" /\ at' = "signal"
      /\ tagged' = [tagged EXCEPT ![p] = FALSE] /\ hasTeam' = [hasTeam EXCEPT ![p] = TRUE]
      /\ UNCHANGED <<manner, exists, id, wPc, mutex, team, nextId, picked, newId, target, active>>
  BY <1>2 DEF Team!Wakeup, Team!At, Team!Goto, Team!request
<1>4. /\ p \in Team!Threads /\ p \in exists
      /\ Team!Taken(p) /\ Team!Taken(p)' /\ \A t \in Team!Threads : t # p => ~Team!Taken(t) /\ ~Team!Taken(t)'
      /\ hasTeam[p] /\ id[p] # Team!None /\ wPc[p] \in {"asleep", "awake"}
  <2>1. p \in Team!Threads /\ p \in exists /\ Team!Taken(p) /\ Team!Taken(p)'
        /\ \A t \in Team!Threads : t # p => ~Team!Taken(t) /\ ~Team!Taken(t)'
    BY <1>1, <1>2, <1>3 DEF Team!WorkersTypeOK, Team!PlaceInv, Team!Taken, Team!Taking
  <2> QED
    BY <1>1, <1>3, <2>1 DEF Team!ThreadsInv
<1>5. /\ ~tagged'[p] /\ hasTeam'[p] /\ \A t \in Team!Threads : hasTeam'[t] = hasTeam[t]
      /\ \A t \in Team!Threads : t # p => tagged'[t] = tagged[t]
  BY <1>1, <1>3, <1>4 DEF Team!WorkersTypeOK
<1>6. Team!WorkersTypeOK'
  BY <1>1, <1>3 DEF Team!WorkersTypeOK
<1>7. Team!ThreadsInv'
  <2> SUFFICES ASSUME NEW t \in Team!Threads
               PROVE IF t \notin exists THEN ~tagged'[t] /\ ~hasTeam'[t] /\ id[t] = Team!None /\ wPc[t] = "awake"
                     ELSE IF t = p
                     THEN hasTeam'[t] /\ id[t] # Team!None /\ ~tagged'[t] /\ wPc[t] \in {"awake", "asleep"}
                     ELSE Team!Works(t)' \/ Team!New(t)' \/ Team!Told(t)' \/ Team!Sleeps(t)'
    BY <1>3, <1>4 DEF Team!ThreadsInv
  <2>1. CASE t = p
    BY <1>4, <1>5, <2>1
  <2>2. CASE t # p
    <3>1. IF t \notin exists THEN ~tagged[t] /\ ~hasTeam[t] /\ id[t] = Team!None /\ wPc[t] = "awake"
          ELSE Team!Works(t) \/ Team!New(t) \/ Team!Told(t) \/ Team!Sleeps(t)
      BY <1>1, <1>4, <2>2 DEF Team!ThreadsInv
    <3>2. ~Team!New(t) /\ ~Team!Told(t)
      BY <1>3 DEF Team!New, Team!Told, Team!Taking
    <3> QED
      BY <1>3, <1>5, <2>2, <3>1, <3>2 DEF Team!Works, Team!Sleeps
  <2> QED
    BY <2>1, <2>2
<1>8. Team!PlaceInv' /\ Team!MutexInv'
  BY <1>1, <1>3 DEF Team!PlaceInv, Team!MutexInv, Team!Taking
<1>9. Team!Counted' = Team!Counted
  BY <1>1, <1>3, <1>4, <1>5 DEF Team!Counted, Team!WorkersTypeOK
<1>10. Team!TeamInv' /\ Team!CountInv'
  BY <1>1, <1>3, <1>9 DEF Team!TeamInv, Team!CountInv
<1> QED
  BY <1>6, <1>7, <1>8, <1>10 DEF Team!SpacedInv

(* It works from now on, and is counted. *)
LEMMA SignalKeeps ==
  ASSUME Team!SpacedInv, manner = "spaced", Team!Signal
  PROVE  Team!SpacedInv'
<1>1. /\ Team!WorkersTypeOK /\ Team!ThreadsInv /\ Team!PlaceInv
      /\ Team!CountInv /\ Team!MutexInv /\ Team!TeamInv
  BY DEF Team!SpacedInv
<1>2. PICK p : p = picked
  OBVIOUS
<1>3. /\ at = "signal" /\ at' = "resize" /\ active' = active + 1
      /\ wPc' = [wPc EXCEPT ![p] = IF wPc[p] = "asleep" THEN "awake" ELSE wPc[p]]
      /\ UNCHANGED <<manner, exists, tagged, hasTeam, id, mutex, team, nextId, picked, newId,
                     target>>
  BY <1>2 DEF Team!Signal, Team!At, Team!Goto, Team!worker
<1>4. /\ p \in Team!Threads /\ p \in exists /\ target > active
      /\ Team!Taken(p) /\ \A t \in Team!Threads : (t # p => ~Team!Taken(t)) /\ ~Team!Taken(t)'
      /\ hasTeam[p] /\ id[p] # Team!None /\ ~tagged[p] /\ wPc[p] \in {"asleep", "awake"}
  <2>1. p \in Team!Threads /\ p \in exists /\ Team!Taken(p) /\ target > active
        /\ \A t \in Team!Threads : (t # p => ~Team!Taken(t)) /\ ~Team!Taken(t)'
    BY <1>1, <1>2, <1>3 DEF Team!WorkersTypeOK, Team!PlaceInv, Team!Taken, Team!Taking
  <2> QED
    BY <1>1, <1>3, <2>1 DEF Team!ThreadsInv
<1>5. wPc'[p] = "awake" /\ \A t \in Team!Threads : t # p => wPc'[t] = wPc[t]
  BY <1>1, <1>3, <1>4 DEF Team!WorkersTypeOK
<1>6. Team!WorkersTypeOK'
  <2>1. wPc' \in [Team!Threads -> {"awake", "leave", "left", "asleep"}]
    BY <1>1, <1>3 DEF Team!WorkersTypeOK
  <2>2. active' \in Nat
    BY <1>1, <1>3 DEF Team!WorkersTypeOK
  <2> QED
    BY <1>1, <1>3, <2>1, <2>2 DEF Team!WorkersTypeOK
<1>7. Team!ThreadsInv'
  <2> SUFFICES ASSUME NEW t \in Team!Threads
               PROVE IF t \notin exists THEN ~tagged[t] /\ ~hasTeam[t] /\ id[t] = Team!None /\ wPc'[t] = "awake"
                     ELSE Team!Works(t)' \/ Team!Sleeps(t)'
    BY <1>3, <1>4 DEF Team!ThreadsInv
  <2>1. CASE t = p
    BY <1>3, <1>4, <1>5, <2>1 DEF Team!Works
  <2>2. CASE t # p
    <3>1. IF t \notin exists THEN ~tagged[t] /\ ~hasTeam[t] /\ id[t] = Team!None /\ wPc[t] = "awake"
          ELSE Team!Works(t) \/ Team!New(t) \/ Team!Told(t) \/ Team!Sleeps(t)
      BY <1>1, <1>4, <2>2 DEF Team!ThreadsInv
    <3>2. ~Team!New(t) /\ ~Team!Told(t)
      BY <1>3 DEF Team!New, Team!Told, Team!Taking
    <3> QED
      BY <1>3, <1>5, <2>2, <3>1, <3>2 DEF Team!Works, Team!Sleeps
  <2> QED
    BY <2>1, <2>2
<1>8. Team!PlaceInv'
  BY <1>3 DEF Team!PlaceInv, Team!Taking
<1>9. Team!MutexInv' /\ Team!TeamInv'
  BY <1>1, <1>3, <1>4, <1>5 DEF Team!MutexInv, Team!TeamInv, Team!WorkersTypeOK
<1>10. Team!CountInv'
  <2>1. Team!Counted' = Team!Counted \cup {p} /\ p \notin Team!Counted
    BY <1>1, <1>3, <1>4 DEF Team!Counted, Team!WorkersTypeOK
  <2>2. IsFiniteSet(Team!Counted)
    BY <1>1, CountedType
  <2>3. Cardinality(Team!Counted \cup {p}) = Cardinality(Team!Counted) + 1
    BY <2>1, <2>2, FS_AddElement
  <2> QED
    BY <1>1, <1>3, <2>1, <2>3, TeamCardinality DEF Team!CountInv
<1> QED
  BY <1>6, <1>7, <1>8, <1>9, <1>10 DEF Team!SpacedInv

(* A worker that a shrinking team can do without is picked. *)
LEMMA GetAssignedWorkerKeeps ==
  ASSUME Team!SpacedInv, manner = "spaced", Team!GetAssignedWorker
  PROVE  Team!SpacedInv'
<1>1. /\ Team!WorkersTypeOK /\ Team!ThreadsInv /\ Team!PlaceInv
      /\ Team!CountInv /\ Team!MutexInv /\ Team!TeamInv
  BY DEF Team!SpacedInv
<1>2. PICK p \in Team!Threads : Team!Assigned(p) /\ picked' = p
  BY DEF Team!GetAssignedWorker
<1>3. /\ at = "resize" /\ at' = "sleep" /\ target < active
      /\ UNCHANGED <<manner, exists, tagged, hasTeam, id, wPc, mutex, team, nextId, newId,
                     target, active>>
  BY DEF Team!GetAssignedWorker, Team!At, Team!Goto, Team!request, Team!worker
<1>4. ~Team!Taking /\ ~Team!Taking' /\ \A t \in Team!Threads : ~Team!Taken(t) /\ ~Team!Taken(t)'
  BY <1>3 DEF Team!Taking, Team!Taken
<1>5. Team!WorkersTypeOK'
  BY <1>1, <1>2, <1>3 DEF Team!WorkersTypeOK
<1>6. \A t \in exists : Team!Works(t) \/ Team!Told(t) \/ Team!Sleeps(t)
  BY <1>1, <1>3, <1>4 DEF Team!ThreadsInv, Team!New, Team!WorkersTypeOK
<1>7. Team!ThreadsInv'
  BY <1>1, <1>3, <1>4, <1>6 DEF Team!ThreadsInv, Team!Works, Team!Told, Team!Sleeps
<1>8. p \in exists /\ Team!Works(p)
  BY <1>2, <1>6 DEF Team!Assigned, Team!Told, Team!Sleeps
<1>9. Team!PlaceInv' /\ Team!MutexInv'
  BY <1>1, <1>2, <1>3, <1>4, <1>8 DEF Team!PlaceInv, Team!MutexInv, Team!Works
<1>10. Team!Counted' = Team!Counted
  BY <1>1, <1>3, <1>4 DEF Team!Counted, Team!WorkersTypeOK
<1>11. Team!CountInv' /\ Team!TeamInv'
  BY <1>1, <1>3, <1>10 DEF Team!CountInv, Team!TeamInv
<1> QED
  BY <1>5, <1>7, <1>9, <1>11 DEF Team!SpacedInv

(* It is told to sleep, and is counted no more. *)
LEMMA SleepKeeps ==
  ASSUME Team!SpacedInv, manner = "spaced", Team!Sleep
  PROVE  Team!SpacedInv'
<1>1. /\ Team!WorkersTypeOK /\ Team!ThreadsInv /\ Team!PlaceInv
      /\ Team!CountInv /\ Team!MutexInv /\ Team!TeamInv
  BY DEF Team!SpacedInv
<1>2. PICK p : p = picked
  OBVIOUS
<1>3. /\ at = "sleep" /\ at' = "resize" /\ active' = active - 1
      /\ tagged' = [tagged EXCEPT ![p] = TRUE]
      /\ UNCHANGED <<manner, exists, hasTeam, id, wPc, mutex, team, nextId, picked, newId, target>>
  BY <1>2 DEF Team!Sleep, Team!At, Team!Goto
<1>4. /\ p \in Team!Threads /\ p \in exists /\ Team!Works(p) /\ ~Team!Taking /\ ~Team!Taking'
      /\ target < active /\ target <= active' /\ active' \in Nat /\ active \in Nat
      /\ \A t \in Team!Threads : ~Team!Taken(t) /\ ~Team!Taken(t)'
  BY <1>1, <1>2, <1>3, WorkerNames DEF Team!WorkersTypeOK, Team!PlaceInv, Team!Taken, Team!Taking
<1>5. tagged'[p] /\ \A t \in Team!Threads : t # p => tagged'[t] = tagged[t]
  BY <1>1, <1>3, <1>4 DEF Team!WorkersTypeOK
<1>6. Team!WorkersTypeOK'
  BY <1>1, <1>3, <1>4 DEF Team!WorkersTypeOK
<1>7. Team!ThreadsInv'
  <2> SUFFICES ASSUME NEW t \in Team!Threads
               PROVE IF t \notin exists THEN ~tagged'[t] /\ ~hasTeam[t] /\ id[t] = Team!None /\ wPc[t] = "awake"
                     ELSE Team!Works(t)' \/ Team!Told(t)' \/ Team!Sleeps(t)'
    BY <1>3, <1>4 DEF Team!ThreadsInv
  <2>1. CASE t = p
    BY <1>3, <1>4, <1>5, <2>1 DEF Team!Works, Team!Told
  <2>2. CASE t # p
    <3>1. IF t \notin exists THEN ~tagged[t] /\ ~hasTeam[t] /\ id[t] = Team!None /\ wPc[t] = "awake"
          ELSE Team!Works(t) \/ Team!New(t) \/ Team!Told(t) \/ Team!Sleeps(t)
      BY <1>1, <1>4 DEF Team!ThreadsInv
    <3>2. ~Team!New(t)
      BY <1>3 DEF Team!New
    <3> QED
      BY <1>3, <1>4, <1>5, <2>2, <3>1, <3>2 DEF Team!Works, Team!Told, Team!Sleeps
  <2> QED
    BY <2>1, <2>2
<1>8. Team!PlaceInv' /\ Team!MutexInv' /\ Team!TeamInv'
  BY <1>1, <1>3, <1>4 DEF Team!PlaceInv, Team!MutexInv, Team!TeamInv
<1>9. Team!CountInv'
  <2>1. Team!Counted' = Team!Counted \ {p} /\ p \in Team!Counted
    BY <1>1, <1>3, <1>4, <1>5 DEF Team!Counted, Team!WorkersTypeOK, Team!Works
  <2>2. IsFiniteSet(Team!Counted)
    BY <1>1, CountedType
  <2>3. Cardinality(Team!Counted \ {p}) = Cardinality(Team!Counted) - 1
    BY <2>1, <2>2, FS_RemoveElement
  <2> QED
    BY <1>1, <1>3, <2>1, <2>3, TeamCardinality DEF Team!CountInv
<1> QED
  BY <1>6, <1>7, <1>8, <1>9 DEF Team!SpacedInv

(* No worker is new when the team has the size it was asked for. *)
LEMMA ResizedKeeps ==
  ASSUME Team!SpacedInv, manner = "spaced", Team!Resized
  PROVE  Team!SpacedInv'
<1>1. /\ Team!WorkersTypeOK /\ Team!ThreadsInv /\ Team!PlaceInv
      /\ Team!CountInv /\ Team!MutexInv /\ Team!TeamInv
  BY DEF Team!SpacedInv
<1>2. /\ at = "resize" /\ at' = "user" /\ target = active
      /\ UNCHANGED <<manner, exists, tagged, hasTeam, id, wPc, mutex, team, nextId, picked,
                     newId, target, active>>
  BY DEF Team!Resized, Team!At, Team!Goto, Team!request, Team!worker
<1>3. ~Team!Taking /\ ~Team!Taking' /\ \A t \in Team!Threads : ~Team!Taken(t) /\ ~Team!Taken(t)'
  BY <1>2 DEF Team!Taking, Team!Taken
<1>4. target \in Nat /\ active \in Nat
  BY <1>1, WorkerNames DEF Team!WorkersTypeOK
<1>5. \A t \in Team!Threads : ~Team!New(t)
  BY <1>2, <1>4 DEF Team!New
<1>6. Team!WorkersTypeOK'
  BY <1>1, <1>2 DEF Team!WorkersTypeOK
<1>7. Team!ThreadsInv'
  BY <1>1, <1>2, <1>3, <1>5 DEF Team!ThreadsInv, Team!Works, Team!Told, Team!Sleeps
<1>8. Team!PlaceInv' /\ Team!MutexInv' /\ Team!TeamInv'
  BY <1>1, <1>2, <1>3 DEF Team!PlaceInv, Team!MutexInv, Team!TeamInv
<1>9. Team!Counted' = Team!Counted
  BY <1>1, <1>2, <1>3 DEF Team!Counted, Team!WorkersTypeOK
<1> QED
  BY <1>1, <1>2, <1>6, <1>7, <1>8, <1>9 DEF Team!SpacedInv, Team!CountInv

(* A worker that is going to sleep has been told to, and nobody is taken meanwhile. *)
LEMMA WorkerLeaves ==
  ASSUME Team!SpacedInv, NEW t \in Team!Threads,
         wPc[t] \in {"leave", "left"} \/ (t \in exists /\ wPc[t] = "awake" /\ tagged[t])
  PROVE  /\ t \in exists /\ Team!Told(t) /\ ~Team!Taking /\ target <= active
         /\ \A u \in Team!Threads : ~Team!Taken(u) /\ ~Team!New(u)
         /\ at = "sleep" => picked # t
<1>1. Team!WorkersTypeOK /\ Team!ThreadsInv /\ Team!PlaceInv
  BY DEF Team!SpacedInv
<1>2. t \in exists
  BY <1>1 DEF Team!ThreadsInv
<1>3. ~Team!Taken(t)
  BY <1>1, <1>2 DEF Team!ThreadsInv
<1>4. Team!Told(t)
  BY <1>1, <1>2, <1>3 DEF Team!ThreadsInv, Team!Works, Team!New, Team!Sleeps
<1>5. target \in Nat /\ active \in Nat
  BY <1>1, WorkerNames DEF Team!WorkersTypeOK
<1> QED
  BY <1>1, <1>2, <1>4, <1>5 DEF Team!Told, Team!Taken, Team!New, Team!PlaceInv, Team!Works

(* A worker sees that it must sleep, and takes the mutex. *)
LEMMA SeeTagKeeps ==
  ASSUME Team!SpacedInv, manner = "spaced", NEW t \in Team!Threads, Team!SeeTag(t)
  PROVE  Team!SpacedInv'
<1>1. /\ Team!WorkersTypeOK /\ Team!ThreadsInv /\ Team!PlaceInv
      /\ Team!CountInv /\ Team!MutexInv /\ Team!TeamInv
  BY DEF Team!SpacedInv
<1>2. t \in exists /\ wPc[t] = "awake" /\ tagged[t] /\ mutex = Team!None
  BY DEF Team!SeeTag
<1>3. /\ Team!Told(t) /\ ~Team!Taking /\ target <= active /\ id[t] # Team!None
      /\ \A u \in Team!Threads : ~Team!Taken(u) /\ ~Team!New(u)
      /\ at = "sleep" => picked # t
  BY <1>2, WorkerLeaves DEF Team!Told
<1>4. /\ wPc' = [wPc EXCEPT ![t] = "leave"] /\ mutex' = t
      /\ UNCHANGED <<manner, exists, tagged, hasTeam, id, team, nextId, at, picked, newId,
                     target, active>>
  BY <1>3 DEF Team!SeeTag, Team!Move, Team!Rest, Team!request
<1>5. wPc'[t] = "leave" /\ \A u \in Team!Threads : u # t => wPc'[u] = wPc[u]
  BY <1>1, <1>4 DEF Team!WorkersTypeOK
<1>6. Team!WorkersTypeOK'
  BY <1>1, <1>4 DEF Team!WorkersTypeOK
<1>7. ~Team!Taking' /\ \A u \in Team!Threads : ~Team!Taken(u)'
  BY <1>3, <1>4 DEF Team!Taking, Team!Taken
<1>8. Team!ThreadsInv'
  <2> SUFFICES ASSUME NEW u \in Team!Threads
               PROVE IF u \notin exists THEN ~tagged[u] /\ ~hasTeam[u] /\ id[u] = Team!None /\ wPc'[u] = "awake"
                     ELSE Team!Works(u)' \/ Team!Told(u)' \/ Team!Sleeps(u)'
    BY <1>4, <1>7 DEF Team!ThreadsInv
  <2>1. CASE u = t
    BY <1>2, <1>3, <1>4, <1>5, <1>7, <2>1 DEF Team!Told
  <2>2. CASE u # t
    <3>1. IF u \notin exists THEN ~tagged[u] /\ ~hasTeam[u] /\ id[u] = Team!None /\ wPc[u] = "awake"
          ELSE Team!Works(u) \/ Team!Told(u) \/ Team!Sleeps(u)
      BY <1>1, <1>3 DEF Team!ThreadsInv
    <3> QED
      BY <1>3, <1>4, <1>5, <1>7, <2>2, <3>1 DEF Team!Works, Team!Told, Team!Sleeps
  <2> QED
    BY <2>1, <2>2
<1>9. Team!PlaceInv'
  <2>1. at = "sleep" => target < active /\ picked \in exists /\ Team!Works(picked) /\ picked \in Team!Threads
    BY <1>1 DEF Team!PlaceInv, Team!WorkersTypeOK
  <2>2. at = "sleep" => Team!Works(picked)'
    BY <1>3, <1>4, <1>5, <2>1 DEF Team!Works
  <2> QED
    BY <1>1, <1>3, <1>4, <1>7, <2>1, <2>2 DEF Team!PlaceInv, Team!Taking
<1>10. Team!MutexInv'
  BY <1>1, <1>2, <1>4, <1>5, WorkerNames DEF Team!MutexInv
<1>11. Team!TeamInv'
  BY <1>1, <1>2, <1>4, <1>5 DEF Team!TeamInv, Team!WorkersTypeOK
<1>12. Team!Counted' = Team!Counted
  BY <1>1, <1>3, <1>4, <1>7 DEF Team!Counted, Team!WorkersTypeOK
<1> QED
  BY <1>1, <1>4, <1>6, <1>8, <1>9, <1>10, <1>11, <1>12 DEF Team!SpacedInv, Team!CountInv

(* The team's map forgets it. *)
LEMMA RemoveThreadKeeps ==
  ASSUME Team!SpacedInv, manner = "spaced", NEW t \in Team!Threads, Team!RemoveThread(t)
  PROVE  Team!SpacedInv'
<1>1. /\ Team!WorkersTypeOK /\ Team!ThreadsInv /\ Team!PlaceInv
      /\ Team!CountInv /\ Team!MutexInv /\ Team!TeamInv
  BY DEF Team!SpacedInv
<1>2. /\ wPc[t] = "leave" /\ wPc' = [wPc EXCEPT ![t] = "left"]
      /\ team' = [i \in DOMAIN team \ {id[t]} |-> team[i]]
      /\ UNCHANGED <<manner, exists, tagged, hasTeam, id, mutex, nextId, at, picked, newId,
                     target, active>>
  BY DEF Team!RemoveThread, Team!Move, Team!Rest, Team!request, Team!Restrict
<1>3. /\ t \in exists /\ Team!Told(t) /\ ~Team!Taking /\ target <= active /\ id[t] # Team!None
      /\ \A u \in Team!Threads : ~Team!Taken(u) /\ ~Team!New(u)
      /\ at = "sleep" => picked # t
  BY <1>2, WorkerLeaves DEF Team!Told
<1>4. wPc'[t] = "left" /\ \A u \in Team!Threads : u # t => wPc'[u] = wPc[u]
  BY <1>1, <1>2 DEF Team!WorkersTypeOK
<1>5. /\ DOMAIN team' = DOMAIN team \ {id[t]} /\ \A i \in DOMAIN team' : team'[i] = team[i]
      /\ id[t] \in DOMAIN team /\ team[id[t]] = t
  BY <1>1, <1>2, <1>3 DEF Team!TeamInv
<1>6. Team!WorkersTypeOK'
  <2>1. /\ team' = [i \in DOMAIN team' |-> team'[i]]
        /\ DOMAIN team' \subseteq Nat /\ \A i \in DOMAIN team' : team'[i] \in Team!Threads
    BY <1>1, <1>2, <1>5 DEF Team!WorkersTypeOK
  <2> QED
    BY <1>1, <1>2, <2>1 DEF Team!WorkersTypeOK
<1>7. ~Team!Taking' /\ \A u \in Team!Threads : ~Team!Taken(u)'
  BY <1>2, <1>3 DEF Team!Taking, Team!Taken
<1>8. Team!ThreadsInv'
  <2> SUFFICES ASSUME NEW u \in Team!Threads
               PROVE IF u \notin exists THEN ~tagged[u] /\ ~hasTeam[u] /\ id[u] = Team!None /\ wPc'[u] = "awake"
                     ELSE Team!Works(u)' \/ Team!Told(u)' \/ Team!Sleeps(u)'
    BY <1>2, <1>7 DEF Team!ThreadsInv
  <2>1. CASE u = t
    BY <1>2, <1>3, <1>4, <1>7, <2>1 DEF Team!Told
  <2>2. CASE u # t
    <3>1. IF u \notin exists THEN ~tagged[u] /\ ~hasTeam[u] /\ id[u] = Team!None /\ wPc[u] = "awake"
          ELSE Team!Works(u) \/ Team!Told(u) \/ Team!Sleeps(u)
      BY <1>1, <1>3 DEF Team!ThreadsInv
    <3> QED
      BY <1>2, <1>3, <1>4, <1>7, <2>2, <3>1 DEF Team!Works, Team!Told, Team!Sleeps
  <2> QED
    BY <2>1, <2>2
<1>9. Team!PlaceInv'
  <2>1. at = "sleep" => target < active /\ picked \in exists /\ Team!Works(picked) /\ picked \in Team!Threads
    BY <1>1 DEF Team!PlaceInv, Team!WorkersTypeOK
  <2>2. at = "sleep" => Team!Works(picked)'
    BY <1>2, <1>3, <1>4, <2>1 DEF Team!Works
  <2> QED
    BY <1>1, <1>2, <1>3, <1>7, <2>1, <2>2 DEF Team!PlaceInv, Team!Taking
<1>10. Team!MutexInv'
  BY <1>1, <1>2, <1>4 DEF Team!MutexInv
<1>11. Team!TeamInv'
  <2>1. at # "enter"
    BY <1>3 DEF Team!Taking
  <2>2. ASSUME NEW i \in DOMAIN team' PROVE i < nextId /\ id[team'[i]] = i /\ wPc'[team'[i]] # "left"
    <3>1. i \in DOMAIN team /\ i # id[t] /\ team'[i] = team[i] /\ team[i] \in Team!Threads
      BY <1>1, <1>5, <2>2 DEF Team!WorkersTypeOK
    <3>2. i < nextId /\ id[team[i]] = i /\ wPc[team[i]] # "left"
      BY <1>1, <2>1, <3>1 DEF Team!TeamInv
    <3>3. team[i] # t
      BY <3>1, <3>2
    <3> QED
      BY <1>4, <3>1, <3>2, <3>3
  <2>3. ASSUME NEW u \in Team!Threads, id[u] # Team!None, wPc'[u] # "left"
        PROVE  id[u] \in DOMAIN team' /\ team'[id[u]] = u
    <3>1. u # t /\ id[u] \in DOMAIN team /\ team[id[u]] = u
      BY <1>1, <1>4, <2>3 DEF Team!TeamInv
    <3> QED
      BY <1>5, <3>1
  <2> QED
    BY <1>2, <2>1, <2>2, <2>3 DEF Team!TeamInv
<1>12. Team!Counted' = Team!Counted
  BY <1>1, <1>2, <1>3, <1>7 DEF Team!Counted, Team!WorkersTypeOK
<1> QED
  BY <1>1, <1>2, <1>6, <1>8, <1>9, <1>10, <1>11, <1>12 DEF Team!SpacedInv, Team!CountInv

(* It forgets the team, sleeps, and gives the mutex back. *)
LEMMA LeaveTeamKeeps ==
  ASSUME Team!SpacedInv, manner = "spaced", NEW t \in Team!Threads, Team!LeaveTeam(t)
  PROVE  Team!SpacedInv'
<1>1. /\ Team!WorkersTypeOK /\ Team!ThreadsInv /\ Team!PlaceInv
      /\ Team!CountInv /\ Team!MutexInv /\ Team!TeamInv
  BY DEF Team!SpacedInv
<1>2. /\ wPc[t] = "left" /\ wPc' = [wPc EXCEPT ![t] = "asleep"] /\ mutex' = Team!None
      /\ id' = [id EXCEPT ![t] = Team!None] /\ hasTeam' = [hasTeam EXCEPT ![t] = FALSE]
      /\ UNCHANGED <<manner, exists, tagged, team, nextId, at, picked, newId, target, active>>
  BY DEF Team!LeaveTeam, Team!Move, Team!Rest, Team!request
<1>3. /\ t \in exists /\ Team!Told(t) /\ ~Team!Taking /\ target <= active /\ tagged[t]
      /\ \A u \in Team!Threads : ~Team!Taken(u) /\ ~Team!New(u)
      /\ at = "sleep" => picked # t
  BY <1>2, WorkerLeaves DEF Team!Told
<1>4. /\ wPc'[t] = "asleep" /\ id'[t] = Team!None /\ ~hasTeam'[t]
      /\ \A u \in Team!Threads : u # t => wPc'[u] = wPc[u] /\ id'[u] = id[u] /\ hasTeam'[u] = hasTeam[u]
  BY <1>1, <1>2 DEF Team!WorkersTypeOK
<1>5. Team!WorkersTypeOK'
  BY <1>1, <1>2 DEF Team!WorkersTypeOK
<1>6. ~Team!Taking' /\ \A u \in Team!Threads : ~Team!Taken(u)'
  BY <1>2, <1>3 DEF Team!Taking, Team!Taken
<1>7. Team!ThreadsInv'
  <2> SUFFICES ASSUME NEW u \in Team!Threads
               PROVE IF u \notin exists THEN ~tagged[u] /\ ~hasTeam'[u] /\ id'[u] = Team!None /\ wPc'[u] = "awake"
                     ELSE Team!Works(u)' \/ Team!Told(u)' \/ Team!Sleeps(u)'
    BY <1>2, <1>6 DEF Team!ThreadsInv
  <2>1. CASE u = t
    BY <1>2, <1>3, <1>4, <2>1 DEF Team!Sleeps
  <2>2. CASE u # t
    <3>1. IF u \notin exists THEN ~tagged[u] /\ ~hasTeam[u] /\ id[u] = Team!None /\ wPc[u] = "awake"
          ELSE Team!Works(u) \/ Team!Told(u) \/ Team!Sleeps(u)
      BY <1>1, <1>3 DEF Team!ThreadsInv
    <3> QED
      BY <1>2, <1>3, <1>4, <1>6, <2>2, <3>1 DEF Team!Works, Team!Told, Team!Sleeps
  <2> QED
    BY <2>1, <2>2
<1>8. Team!PlaceInv'
  <2>1. at = "sleep" => target < active /\ picked \in exists /\ Team!Works(picked) /\ picked \in Team!Threads
    BY <1>1 DEF Team!PlaceInv, Team!WorkersTypeOK
  <2>2. at = "sleep" => Team!Works(picked)'
    BY <1>2, <1>3, <1>4, <2>1 DEF Team!Works
  <2> QED
    BY <1>1, <1>2, <1>3, <1>6, <2>1, <2>2 DEF Team!PlaceInv, Team!Taking
<1>9. Team!MutexInv'
  <2>1. mutex = t
    BY <1>1, <1>2 DEF Team!MutexInv
  <2> QED
    BY <1>1, <1>4, <2>1 DEF Team!MutexInv
<1>10. Team!TeamInv'
  <2>1. at # "enter"
    BY <1>3 DEF Team!Taking
  <2>2. ASSUME NEW i \in DOMAIN team PROVE i < nextId /\ id'[team[i]] = i /\ wPc'[team[i]] # "left"
    <3>1. team[i] \in Team!Threads /\ i < nextId /\ id[team[i]] = i /\ wPc[team[i]] # "left"
      BY <1>1, <2>1 DEF Team!TeamInv, Team!WorkersTypeOK
    <3> QED
      BY <1>2, <1>4, <3>1
  <2>3. \A u \in Team!Threads : id'[u] # Team!None /\ wPc'[u] # "left" => id'[u] \in DOMAIN team /\ team[id'[u]] = u
    BY <1>1, <1>4 DEF Team!TeamInv
  <2> QED
    BY <1>2, <2>1, <2>2, <2>3 DEF Team!TeamInv
<1>11. Team!Counted' = Team!Counted
  <2>1. \A u \in exists : (hasTeam'[u] /\ ~tagged[u]) <=> (hasTeam[u] /\ ~tagged[u])
    BY <1>1, <1>3, <1>4 DEF Team!WorkersTypeOK
  <2>2. Team!Counted = {u \in exists : hasTeam[u] /\ ~tagged[u]}
    BY <1>1, <1>3 DEF Team!Counted, Team!WorkersTypeOK
  <2>3. Team!Counted' = {u \in exists : hasTeam'[u] /\ ~tagged[u]}
    BY <1>1, <1>2, <1>6 DEF Team!Counted, Team!WorkersTypeOK
  <2> QED
    BY <2>1, <2>2, <2>3
<1> QED
  BY <1>1, <1>2, <1>5, <1>7, <1>8, <1>9, <1>10, <1>11 DEF Team!SpacedInv, Team!CountInv

(* The steps of other parts change nothing here. *)
LEMMA WorkersStutter ==
  ASSUME Team!SpacedInv, UNCHANGED Team!workersVars
  PROVE  Team!SpacedInv'
<1>1. /\ Team!WorkersTypeOK /\ Team!ThreadsInv /\ Team!PlaceInv
      /\ Team!CountInv /\ Team!MutexInv /\ Team!TeamInv
  BY DEF Team!SpacedInv
<1>2. UNCHANGED <<manner, exists, tagged, hasTeam, id, wPc, mutex, team, nextId, at, picked,
                  newId, target, active>>
  BY DEF Team!workersVars, Team!worker, Team!request
<1>3. Team!WorkersTypeOK'
  BY <1>1, <1>2 DEF Team!WorkersTypeOK
<1>4. Team!ThreadsInv'
  BY <1>1, <1>2 DEF Team!ThreadsInv, Team!Taken, Team!Taking, Team!Works, Team!New, Team!Told,
     Team!Sleeps, Team!Free
<1>5. Team!PlaceInv'
  BY <1>1, <1>2 DEF Team!PlaceInv, Team!Taking, Team!Works
<1>6. Team!CountInv'
  BY <1>1, <1>2 DEF Team!CountInv, Team!Counted, Team!Taken, Team!Taking
<1>7. Team!MutexInv' /\ Team!TeamInv'
  BY <1>1, <1>2 DEF Team!MutexInv, Team!TeamInv
<1> QED
  BY <1>3, <1>4, <1>5, <1>6, <1>7 DEF Team!SpacedInv

(* No step changes what may happen. *)
LEMMA MannerKept == [Team!WorkersNext]_(Team!workersVars) => manner' = manner
BY DEF Team!workersVars, Team!WorkersNext, Team!Resizer, Team!SetNumThreads,
   Team!GetUnassignedWorker, Team!CreateWorker, Team!AddThread,
       Team!EnterTeam, Team!Wakeup, Team!Signal, Team!GetAssignedWorker, Team!Sleep, Team!Resized, Team!Worker, Team!SeeTag, Team!RemoveThread,
       Team!LeaveTeam, Team!WakeSpuriously, Team!Rest

(* Every step keeps the invariant. *)
LEMMA WorkersKeep ==
  ASSUME Team!SpacedInv, manner = "spaced", [Team!WorkersNext]_(Team!workersVars)
  PROVE  Team!SpacedInv'
<1>1. CASE UNCHANGED Team!workersVars
  BY <1>1, WorkersStutter
<1>2. CASE Team!Resizer
  BY <1>2, SetNumThreadsKeeps, GetUnassignedWorkerKeeps, CreateWorkerKeeps, AddThreadKeeps,
     EnterTeamKeeps,
     WakeupKeeps, SignalKeeps, GetAssignedWorkerKeeps, SleepKeeps, ResizedKeeps DEF Team!Resizer
<1>3. CASE \E t \in Team!Threads : Team!Worker(t)
  <2>1. PICK t \in Team!Threads : Team!Worker(t)
    BY <1>3
  <2>2. ~Team!WakeSpuriously(t)
    BY DEF Team!WakeSpuriously
  <2> QED
    BY <2>1, <2>2, SeeTagKeeps, RemoveThreadKeeps, LeaveTeamKeeps DEF Team!Worker
<1> QED
  BY <1>1, <1>2, <1>3 DEF Team!WorkersNext

(* So does a step of any manner. *)
LEMMA WorkersGoOn == Team!Inductive /\ [Team!WorkersNext]_(Team!workersVars) => Team!Inductive'
BY MannerKept, WorkersKeep DEF Team!Inductive

(* Each thread is in the map once, and as many work as user code has asked for. *)
LEMMA WorkersRight ==
  ASSUME Team!SpacedInv
  PROVE  /\ Team!InTeamOnce
         /\ at = "user" => /\ Cardinality({t \in exists : ~tagged[t]}) = target
                           /\ \A t \in exists : ~tagged[t] => id[t] # Team!None
<1>1. Team!WorkersTypeOK /\ Team!ThreadsInv /\ Team!PlaceInv /\ Team!CountInv /\ Team!TeamInv
  BY DEF Team!SpacedInv
<1>2. Team!InTeamOnce
  <2>1. ASSUME NEW i \in DOMAIN team, NEW j \in DOMAIN team, team[i] = team[j] PROVE i = j
    <3>1. i # Team!None /\ j # Team!None /\ team[i] \in Team!Threads /\ picked \in Team!Threads
      BY <1>1, WorkerNames DEF Team!WorkersTypeOK
    <3>2. at = "enter" => id[picked] = Team!None
      BY <1>1, <3>1 DEF Team!ThreadsInv, Team!PlaceInv, Team!Taken, Team!Taking
    <3> QED
      BY <1>1, <2>1, <3>1, <3>2 DEF Team!TeamInv
  <2> QED
    BY <1>1, <2>1 DEF Team!InTeamOnce, Team!IsInjective, Team!TeamInv
<1>3. ASSUME at = "user"
      PROVE  /\ Cardinality({t \in exists : ~tagged[t]}) = target
             /\ \A t \in exists : ~tagged[t] => id[t] # Team!None
  <2>1. \A t \in Team!Threads : ~Team!Taken(t) /\ ~Team!New(t)
    BY <1>3 DEF Team!Taken, Team!Taking, Team!New
  <2>2. \A t \in exists : ~tagged[t] => Team!Works(t)
    BY <1>1, <2>1 DEF Team!ThreadsInv, Team!Told, Team!Sleeps, Team!WorkersTypeOK
  <2>3. {t \in exists : ~tagged[t]} = Team!Counted
    BY <1>1, <2>1, <2>2 DEF Team!Counted, Team!Works, Team!WorkersTypeOK
  <2> QED
    BY <1>1, <1>3, <2>2, <2>3, TeamCardinality DEF Team!CountInv, Team!PlaceInv, Team!Works
<1> QED
  BY <1>2, <1>3

-----------------------------------------------------------------------------
(* The guard of the singles. *)

(* Programs are sequences, and the threads of the team are numbered. *)
LEMMA ProgramLengths == \A p \in MCPrograms : Len(p) \in Nat
BY DEF MCPrograms, C

(* The first thread of the team. *)
LEMMA LoopThreads == 0 \in Loops!Threads
BY RuntimeAssumption DEF Loops!Threads

(* A set of naturals with an element has a least one. *)
LEMMA LeastNatural ==
  ASSUME NEW S \in SUBSET Nat, S # {}
  PROVE  \E m \in S : \A n \in S : m <= n
<1> DEFINE LessThan == OpToRel(<, Nat)
<1>1. IsWellFoundedOn(LessThan, Nat)
  BY NatLessThanWellFounded, Zenon
<1>2. \A m, n \in Nat : m < n => <<m, n>> \in LessThan
  BY DEF OpToRel
<1> HIDE DEF LessThan
<1>3. PICK m \in S : \A n \in S : ~(<<n, m>> \in LessThan)
  BY <1>1, WFMin, Zenon
<1>4. ASSUME NEW n \in S PROVE m <= n
  <2>1. ~(n < m)
    BY <1>2, <1>3, Zenon
  <2> QED
    BY <2>1
<1> QED
  BY <1>4

(* The costs of the constructs add up: a program with no sum would have a least part without. *)
LEMMA SumsExist ==
  ASSUME program \in MCPrograms
  PROVE  \E sum \in [0..Len(program) -> 0..(2 * Len(program))] : Loops!SumsUp(sum)
<1> DEFINE Adds(sum, n) == sum[0] = 0 /\ \A k \in 1..n : sum[k] = sum[k - 1] + Loops!Cost(k)
<1> DEFINE Has(n) == \E sum \in [0..n -> Nat] : Adds(sum, n) /\ \A k \in 0..n : sum[k] <= 2 * k
<1> DEFINE Lacking == {n \in Nat : ~Has(n)}
<1>1. Loops!Cost(1) = Loops!Cost(1) /\ \A k \in Nat : Loops!Cost(k) \in 0..2
  BY DEF Loops!Cost
<1>2. Has(0)
  <2> DEFINE zero == [k \in 0..0 |-> 0]
  <2>1. zero \in [0..0 -> Nat] /\ zero[0] = 0 /\ \A k \in 0..0 : zero[k] <= 2 * k
    OBVIOUS
  <2> HIDE DEF zero
  <2>2. Adds(zero, 0)
    BY <2>1
  <2> QED
    BY <2>1, <2>2
<1>3. ASSUME NEW n \in Nat, Has(n) PROVE Has(n + 1)
  <2>1. PICK sum \in [0..n -> Nat] : Adds(sum, n) /\ \A k \in 0..n : sum[k] <= 2 * k
    BY <1>3
  <2> DEFINE more == [k \in 0..(n + 1) |-> IF k = n + 1 THEN sum[n] + Loops!Cost(n + 1) ELSE sum[k]]
  <2>2. Loops!Cost(n + 1) \in 0..2 /\ sum[n] \in Nat /\ sum[n] <= 2 * n
    BY <1>1, <2>1
  <2>3. more \in [0..(n + 1) -> Nat]
    BY <2>1, <2>2
  <2>4. more[n + 1] = sum[n] + Loops!Cost(n + 1) /\ \A k \in 0..n : more[k] = sum[k]
    OBVIOUS
  <2>5. Adds(more, n + 1)
    <3>1. more[0] = 0
      BY <2>1, <2>4
    <3>2. ASSUME NEW k \in 1..(n + 1) PROVE more[k] = more[k - 1] + Loops!Cost(k)
      <4>1. CASE k = n + 1
        <5>1. k - 1 = n /\ n \in 0..n
          BY <4>1
        <5> QED
          BY <2>4, <4>1, <5>1
      <4>2. CASE k # n + 1
        <5>1. k \in 1..n /\ k - 1 \in 0..n /\ k \in 0..n
          BY <4>2
        <5> HIDE DEF more
        <5> QED
          BY <2>1, <2>4, <5>1
      <4> QED
        BY <4>1, <4>2
    <3> QED
      BY <3>1, <3>2
  <2>6. ASSUME NEW k \in 0..(n + 1) PROVE more[k] <= 2 * k
    BY <2>1, <2>2, <2>4
  <2> HIDE DEF more
  <2> QED
    BY <2>3, <2>5, <2>6
<1> HIDE DEF Has
<1>4. Lacking = {}
  <2> SUFFICES ASSUME Lacking # {} PROVE FALSE
    OBVIOUS
  <2>1. PICK m \in Lacking : \A n \in Lacking : m <= n
    BY LeastNatural
  <2>2. m \in Nat /\ m # 0 /\ m - 1 \in Nat /\ m - 1 \notin Lacking /\ (m - 1) + 1 = m
    BY <1>2, <2>1
  <2> QED
    BY <1>3, <2>1, <2>2
<1>5. Len(program) \in Nat
  BY ProgramLengths
<1>6. PICK sum \in [0..Len(program) -> Nat] :
         Adds(sum, Len(program)) /\ \A k \in 0..Len(program) : sum[k] <= 2 * k
  BY <1>4, <1>5 DEF Has
<1>7. \A k \in 0..Len(program) : sum[k] \in 0..(2 * Len(program))
  BY <1>5, <1>6
<1>8. sum \in [0..Len(program) -> 0..(2 * Len(program))]
  BY <1>6, <1>7
<1> QED
  BY <1>6, <1>8 DEF Loops!SumsUp

(* They only grow. *)
LEMMA SumsGrow ==
  ASSUME program \in MCPrograms, NEW sum \in [0..Len(program) -> 0..(2 * Len(program))], Loops!SumsUp(sum),
         NEW i \in 0..Len(program)
  PROVE  \A j \in i..Len(program) : sum[i] <= sum[j]
<1> DEFINE Wrong == {j \in i..Len(program) : ~(sum[i] <= sum[j])}
<1>1. Len(program) \in Nat /\ \A k \in 0..Len(program) : sum[k] \in Nat
  BY ProgramLengths
<1>2. \A k \in 1..Len(program) : sum[k] = sum[k - 1] + Loops!Cost(k) /\ Loops!Cost(k) \in Nat
  BY DEF Loops!SumsUp, Loops!Cost
<1> SUFFICES ASSUME Wrong # {} PROVE FALSE
  OBVIOUS
<1>3. PICK m \in Wrong : \A n \in Wrong : m <= n
  <2>1. Wrong \in SUBSET Nat
    BY <1>1
  <2> HIDE DEF Wrong
  <2> QED
    BY <2>1, LeastNatural
<1>4. m # i /\ m \in 1..Len(program) /\ m - 1 \in i..Len(program) /\ m - 1 \notin Wrong
  BY <1>1, <1>3
<1>5. sum[i] <= sum[m - 1] /\ sum[m] >= sum[m - 1]
  <2>1. sum[m] = sum[m - 1] + Loops!Cost(m) /\ Loops!Cost(m) \in Nat /\ sum[m - 1] \in Nat
    BY <1>1, <1>2, <1>4
  <2> QED
    BY <1>4, <2>1
<1> QED
  BY <1>1, <1>3, <1>4, <1>5

(* Within a guarded single the guard is where no other construct begins or ends. *)
LEMMA InsideSingle ==
  ASSUME program \in MCPrograms, NEW sum \in [0..Len(program) -> 0..(2 * Len(program))], Loops!SumsUp(sum),
         NEW k \in 1..Len(program), Loops!Cost(k) = 2, NEW j \in 0..Len(program)
  PROVE  sum[j] # sum[k] - 1
<1>1. Len(program) \in Nat /\ sum[j] \in Nat /\ sum[k] \in Nat /\ sum[k - 1] \in Nat
  BY ProgramLengths
<1>2. sum[k] = sum[k - 1] + 2
  BY DEF Loops!SumsUp
<1>3. CASE j < k
  <2>1. k - 1 \in j..Len(program)
    BY <1>1, <1>3
  <2>2. sum[j] <= sum[k - 1]
    BY <2>1, SumsGrow
  <2> QED
    BY <1>1, <1>2, <2>2
<1>4. CASE j >= k
  <2>1. j \in k..Len(program) /\ k \in 0..Len(program)
    BY <1>1, <1>4
  <2>2. sum[k] <= sum[j]
    BY <2>1, SumsGrow
  <2> QED
    BY <1>1, <2>2
<1> QED
  BY <1>1, <1>3, <1>4

(* Nobody is inside a construct, and the guard is at 0. *)
LEMMA GuardsBegin == Loops!Init => Loops!GuardsInductive
<1> SUFFICES ASSUME Loops!Init PROVE Loops!GuardsInductive
  OBVIOUS
<1>1. program \in MCPrograms /\ Len(program) \in Nat
  BY ProgramLengths DEF Loops!Init
<1>2. PICK sum \in [0..Len(program) -> 0..(2 * Len(program))] : Loops!SumsUp(sum)
  BY <1>1, SumsExist
<1>3. /\ cAt = [t \in Loops!Threads |-> 1] /\ cPc = [t \in Loops!Threads |-> "start"]
      /\ guard = 0 /\ cCount = [t \in Loops!Threads |-> 0]
  BY DEF Loops!Init
<1>4. \A t \in Loops!Threads : cCount[t] = sum[Loops!Entered(t)] /\ Loops!Learned(t, sum) /\ ~Loops!InGuarded(t)
  BY <1>2, <1>3 DEF Loops!SumsUp, Loops!Entered, Loops!Learned, Loops!InGuarded
<1>5. /\ cAt \in [Loops!Threads -> 1..(Len(program) + 1)] /\ cPc \in [Loops!Threads -> Loops!Places]
      /\ guard \in Nat /\ cCount \in [Loops!Threads -> Nat] /\ guard <= cCount[0]
  BY <1>1, <1>3, LoopThreads DEF Loops!Places
<1>6. Loops!GuardsInv(sum)
  BY <1>2, <1>4, <1>5, LoopThreads DEF Loops!GuardsInv
<1> QED
  BY <1>1, <1>2, <1>6 DEF Loops!GuardsInductive

(* What a thread knows of the guard is not disturbed by the others, unless it is in a guarded
   single when they move the guard. *)
LEMMA LearnedStays ==
  ASSUME NEW sum \in [0..Len(program) -> 0..(2 * Len(program))], Len(program) \in Nat, Loops!GuardsInv(sum),
         NEW u \in Loops!Threads, guard' \in Nat, guard <= guard', Loops!InGuarded(u) => guard' = guard,
         UNCHANGED program, cAt'[u] = cAt[u], cPc'[u] = cPc[u], cCount'[u] = cCount[u]
  PROVE  (cCount[u] = sum[Loops!Entered(u)])' /\ Loops!Learned(u, sum)' /\ (Loops!InGuarded(u)' <=> Loops!InGuarded(u))
<1>1. /\ guard \in Nat /\ cCount[u] \in Nat /\ cAt[u] \in 1..(Len(program) + 1)
      /\ cCount[u] = sum[Loops!Entered(u)] /\ Loops!Learned(u, sum)
  BY DEF Loops!GuardsInv
<1>2. (Loops!Inside(u)' <=> Loops!Inside(u)) /\ Loops!Kind(u)' = Loops!Kind(u) /\ Loops!Cost(cAt[u])' = Loops!Cost(cAt[u])
      /\ Loops!Entered(u)' = Loops!Entered(u)
  BY DEF Loops!Inside, Loops!Kind, Loops!Cost, Loops!Entered
<1>3. Loops!InGuarded(u)' <=> Loops!InGuarded(u)
  BY <1>2 DEF Loops!InGuarded
<1>4. cPc[u] \in {"guard", "swap"} => sum[cAt[u] - 1] \in Nat
  <2>1. ASSUME cPc[u] \in {"guard", "swap"} PROVE cAt[u] - 1 \in 0..Len(program)
    BY <1>1, <2>1
  <2> QED
    BY <2>1
<1> QED
  BY <1>1, <1>2, <1>3, <1>4 DEF Loops!Learned, Loops!Cost

(* Only t moves, and its count does not go down. *)
LEMMA StepKeeps ==
  ASSUME NEW sum \in [0..Len(program) -> 0..(2 * Len(program))], Len(program) \in Nat, Loops!GuardsInv(sum),
         NEW t \in Loops!Threads, program' = program,
         cAt' \in [Loops!Threads -> 1..(Len(program) + 1)], cPc' \in [Loops!Threads -> Loops!Places],
         cCount' \in [Loops!Threads -> Nat], guard' \in Nat,
         \A u \in Loops!Threads : u # t => cAt'[u] = cAt[u] /\ cPc'[u] = cPc[u] /\ cCount'[u] = cCount[u],
         guard <= guard', cCount[t] <= cCount'[t], guard' = guard \/ guard' <= cCount'[t],
         \A u \in Loops!Threads : u # t /\ Loops!InGuarded(u) => guard' = guard /\ ~Loops!InGuarded(t)',
         cCount'[t] = sum[Loops!Entered(t)'], Loops!Learned(t, sum)'
  PROVE  Loops!GuardsInv(sum)'
<1>1. /\ cAt \in [Loops!Threads -> 1..(Len(program) + 1)] /\ cPc \in [Loops!Threads -> Loops!Places]
      /\ guard \in Nat /\ cCount \in [Loops!Threads -> Nat] /\ Loops!SumsUp(sum)
      /\ \A u, v \in Loops!Threads : Loops!InGuarded(u) /\ Loops!InGuarded(v) => u = v
  BY DEF Loops!GuardsInv
<1>3. ASSUME NEW u \in Loops!Threads, u # t
      PROVE  (cCount[u] = sum[Loops!Entered(u)])' /\ Loops!Learned(u, sum)' /\ (Loops!InGuarded(u)' <=> Loops!InGuarded(u))
  BY <1>3, LearnedStays
<1>4. Loops!SumsUp(sum)'
  BY <1>1 DEF Loops!SumsUp, Loops!Cost
<1>5. \A u, v \in Loops!Threads : Loops!InGuarded(u)' /\ Loops!InGuarded(v)' => u = v
  BY <1>1, <1>3
<1>6. \E u \in Loops!Threads : guard' <= cCount'[u]
  <2>1. PICK u \in Loops!Threads : guard <= cCount[u]
    BY DEF Loops!GuardsInv
  <2>2. CASE guard' = guard
    <3>1. cCount'[u] \in Nat /\ cCount[u] \in Nat /\ guard \in Nat /\ cCount'[t] \in Nat
      BY <1>1
    <3>2. CASE u = t
      BY <2>1, <2>2, <3>1, <3>2
    <3>3. CASE u # t
      BY <2>1, <2>2, <3>3
    <3> QED
      BY <3>2, <3>3
  <2> QED
    BY <2>2
<1>7. \A u \in Loops!Threads : (cCount[u] = sum[Loops!Entered(u)])' /\ Loops!Learned(u, sum)'
  BY <1>3
<1> QED
  BY <1>4, <1>5, <1>6, <1>7 DEF Loops!GuardsInv

(* Loops leave the guard and the counts alone. *)
LEMMA LoopingKeeps ==
  ASSUME NEW sum \in [0..Len(program) -> 0..(2 * Len(program))], Len(program) \in Nat, Loops!GuardsInv(sum),
         NEW t \in Loops!Threads, Loops!LoopMove(t)
  PROVE  Loops!GuardsInv(sum)'
<1>1. /\ cAt \in [Loops!Threads -> 1..(Len(program) + 1)] /\ cPc \in [Loops!Threads -> Loops!Places]
      /\ guard \in Nat /\ cCount \in [Loops!Threads -> Nat] /\ Loops!SumsUp(sum)
      /\ cCount[t] = sum[Loops!Entered(t)] /\ Loops!Learned(t, sum)
  BY DEF Loops!GuardsInv
<1>2. /\ Loops!Inside(t) /\ UNCHANGED <<program, guard, cCount>>
      /\ cPc[t] \in {"start", "append", "fill", "publish", "spin", "item"}
      /\ cPc[t] = "start" => Loops!Cost(cAt[t]) = 0
  BY DEF Loops!LoopMove
<1>3. /\ cAt[t] \in 1..Len(program) /\ cCount[t] <= guard /\ ~Loops!InGuarded(t)
      /\ cCount[t] <= cCount'[t] /\ guard <= guard'
  BY <1>1, <1>2 DEF Loops!Inside, Loops!Learned, Loops!InGuarded
<1>4. cCount[t] = sum[cAt[t]]
  BY <1>1, <1>2, <1>3 DEF Loops!Entered, Loops!SumsUp
<1>5. CASE UNCHANGED <<cAt, cPc>>
  <2>1. program' = program /\ guard' = guard /\ cCount' = cCount /\ cAt' = cAt /\ cPc' = cPc
    BY <1>2, <1>5
  <2>2. Loops!Kind(t)' = Loops!Kind(t) /\ Loops!Inside(t)' = Loops!Inside(t) /\ Loops!Entered(t)' = Loops!Entered(t) /\ Loops!Cost(cAt[t])' = Loops!Cost(cAt[t])
    BY <2>1 DEF Loops!Entered, Loops!Kind, Loops!Cost, Loops!Inside
  <2>3. Loops!InGuarded(t)' = Loops!InGuarded(t)
    BY <2>1, <2>2 DEF Loops!InGuarded
  <2>4. Loops!Learned(t, sum)'
    BY <1>1, <2>1, <2>2, <2>3 DEF Loops!Learned
  <2>5. cCount'[t] = sum[Loops!Entered(t)']
    BY <1>1, <2>1, <2>2
  <2> QED
    BY <1>1, <1>3, <2>1, <2>3, <2>4, <2>5, StepKeeps
<1>6. ASSUME NEW place \in {"append", "fill", "publish", "spin", "item"}, cAt' = cAt,
             cPc' = [cPc EXCEPT ![t] = place]
      PROVE  Loops!GuardsInv(sum)'
  <2>1. /\ cPc' \in [Loops!Threads -> Loops!Places] /\ cPc'[t] = place
        /\ \A u \in Loops!Threads : u # t => cAt'[u] = cAt[u] /\ cPc'[u] = cPc[u]
    BY <1>1, <1>6 DEF Loops!Places
  <2>2. Loops!Learned(t, sum)' /\ cCount'[t] = sum[Loops!Entered(t)'] /\ ~Loops!InGuarded(t)'
    BY <1>2, <1>3, <1>4, <1>6, <2>1 DEF Loops!Learned, Loops!Entered, Loops!InGuarded, Loops!Inside
  <2> QED
    BY <1>1, <1>2, <1>3, <1>6, <2>1, <2>2, StepKeeps
<1>7. CASE cAt' = [cAt EXCEPT ![t] = cAt[t] + 1] /\ cPc' = [cPc EXCEPT ![t] = "start"]
  <2>1. /\ cAt' \in [Loops!Threads -> 1..(Len(program) + 1)] /\ cPc' \in [Loops!Threads -> Loops!Places]
        /\ cPc'[t] = "start" /\ cAt'[t] = cAt[t] + 1
        /\ \A u \in Loops!Threads : u # t => cAt'[u] = cAt[u] /\ cPc'[u] = cPc[u]
    BY <1>1, <1>3, <1>7 DEF Loops!Places
  <2>2. Loops!Learned(t, sum)' /\ cCount'[t] = sum[Loops!Entered(t)'] /\ ~Loops!InGuarded(t)'
    BY <1>1, <1>2, <1>3, <1>4, <2>1 DEF Loops!Learned, Loops!Entered, Loops!InGuarded
  <2> QED
    BY <1>1, <1>2, <1>3, <2>1, <2>2, StepKeeps
<1> QED
  BY <1>5, <1>6, <1>7 DEF Loops!LoopMove

(* Every step of a loop is such a move. *)
LEMMA LoopStepsKeep ==
  ASSUME program \in MCPrograms, NEW sum \in [0..Len(program) -> 0..(2 * Len(program))], Loops!GuardsInv(sum),
         NEW t \in Loops!Threads,
         \/ Loops!Look(t) \/ Loops!Append_(t) \/ Loops!Fill(t) \/ Loops!Publish(t) \/ Loops!Spin(t)
         \/ Loops!NextDynamicItem(t) \/ Loops!NextGuidedItem(t) \/ Loops!NextStaticItem(t)
  PROVE  Loops!GuardsInv(sum)' /\ UNCHANGED program
<1>1. Loops!Look(t) => Loops!LoopMove(t)
  BY DEF Loops!LoopMove, Loops!Look, Loops!At, Loops!Goto, Loops!Stay, Loops!singles, Loops!Kind,
     Loops!Cost
<1>2. Loops!Append_(t) \/ Loops!Fill(t) \/ Loops!Publish(t) \/ Loops!Spin(t) => Loops!LoopMove(t)
  BY DEF Loops!LoopMove, Loops!Append_, Loops!Fill, Loops!Publish, Loops!Spin, Loops!At, Loops!Goto,
     Loops!Stay, Loops!singles
<1>3. Loops!NextDynamicItem(t) \/ Loops!NextGuidedItem(t) \/ Loops!NextStaticItem(t) => Loops!LoopMove(t)
  BY DEF Loops!LoopMove, Loops!NextDynamicItem, Loops!NextGuidedItem, Loops!NextStaticItem,
     Loops!Run, Loops!At, Loops!Goto, Loops!Leave, Loops!Stay, Loops!singles
<1>4. Loops!LoopMove(t) => UNCHANGED program
  BY DEF Loops!LoopMove
<1> QED
  BY <1>1, <1>2, <1>3, <1>4, ProgramLengths, LoopingKeeps

(* Which constructs go by the guard. *)
LEMMA GuardCosts ==
  ASSUME NEW t \in Loops!Threads
  PROVE  /\ Loops!Kind(t) = "guarded" <=> Loops!Cost(cAt[t]) = 2
         /\ Loops!Kind(t) \in {"single", "static"} <=> Loops!Cost(cAt[t]) = 1
         /\ Loops!Cost(cAt[t]) \in {0, 1, 2}
BY DEF Loops!Kind, Loops!Cost

(* A thread counts the construct it enters. *)
LEMMA EnterKeeps ==
  ASSUME program \in MCPrograms, NEW sum \in [0..Len(program) -> 0..(2 * Len(program))], Loops!GuardsInv(sum),
         NEW t \in Loops!Threads, Loops!Enter(t)
  PROVE  Loops!GuardsInv(sum)' /\ UNCHANGED program
<1>1. Len(program) \in Nat
  BY ProgramLengths
<1>2. /\ cAt \in [Loops!Threads -> 1..(Len(program) + 1)] /\ cPc \in [Loops!Threads -> Loops!Places]
      /\ guard \in Nat /\ cCount \in [Loops!Threads -> Nat] /\ Loops!SumsUp(sum)
      /\ cCount[t] = sum[Loops!Entered(t)] /\ Loops!Learned(t, sum)
  BY DEF Loops!GuardsInv
<1>3. /\ Loops!Inside(t) /\ cPc[t] = "start" /\ Loops!Kind(t) \in {"single", "guarded", "static"}
      /\ cPc' = [cPc EXCEPT ![t] = "guard"] /\ UNCHANGED <<program, cAt, guard>>
  BY DEF Loops!Enter, Loops!At, Loops!Goto, Loops!Stay
<1>4. Loops!Cost(cAt[t]) \in {1, 2} /\ cCount' = [cCount EXCEPT ![t] = cCount[t] + Loops!Cost(cAt[t])]
  BY <1>3, GuardCosts DEF Loops!Enter
<1>5. /\ cAt[t] \in 1..Len(program) /\ cCount[t] = sum[cAt[t] - 1] /\ cCount[t] <= guard
      /\ sum[cAt[t]] = cCount[t] + Loops!Cost(cAt[t])
  BY <1>1, <1>2, <1>3 DEF Loops!Inside, Loops!Entered, Loops!SumsUp, Loops!Learned
<1>6. /\ cPc' \in [Loops!Threads -> Loops!Places] /\ cPc'[t] = "guard"
      /\ cCount' \in [Loops!Threads -> Nat] /\ cCount'[t] = cCount[t] + Loops!Cost(cAt[t]) /\ cCount[t] <= cCount'[t]
      /\ guard <= guard'
      /\ \A u \in Loops!Threads : u # t => cAt'[u] = cAt[u] /\ cPc'[u] = cPc[u] /\ cCount'[u] = cCount[u]
  BY <1>2, <1>3, <1>4 DEF Loops!Places
<1>7. Loops!Learned(t, sum)' /\ cCount'[t] = sum[Loops!Entered(t)'] /\ ~Loops!InGuarded(t)'
  BY <1>3, <1>4, <1>5, <1>6 DEF Loops!Learned, Loops!Entered, Loops!InGuarded, Loops!Inside,
     Loops!Cost
<1> QED
  BY <1>1, <1>2, <1>3, <1>6, <1>7, StepKeeps

(* What a thread knows that goes by the guard. *)
LEMMA AtGuard ==
  ASSUME program \in MCPrograms, NEW sum \in [0..Len(program) -> 0..(2 * Len(program))], Loops!GuardsInv(sum),
         NEW t \in Loops!Threads, cPc[t] \in {"guard", "swap"}
  PROVE  /\ cAt \in [Loops!Threads -> 1..(Len(program) + 1)] /\ cPc \in [Loops!Threads -> Loops!Places]
         /\ guard \in Nat /\ cCount \in [Loops!Threads -> Nat] /\ Len(program) \in Nat
         /\ cCount[t] = sum[cAt[t]] /\ Loops!Inside(t) /\ cAt[t] \in 1..Len(program)
         /\ Loops!Kind(t) \in {"guarded", "single", "static"}
         /\ sum[cAt[t] - 1] \in Nat /\ sum[cAt[t] - 1] <= guard
         /\ cCount[t] = sum[cAt[t] - 1] + Loops!Cost(cAt[t])
         /\ Loops!Cost(cAt[t]) = IF Loops!Kind(t) = "guarded" THEN 2 ELSE 1
<1>1. Len(program) \in Nat
  BY ProgramLengths
<1>2. /\ cAt \in [Loops!Threads -> 1..(Len(program) + 1)] /\ cPc \in [Loops!Threads -> Loops!Places]
      /\ guard \in Nat /\ cCount \in [Loops!Threads -> Nat] /\ Loops!SumsUp(sum)
      /\ cCount[t] = sum[cAt[t]] /\ Loops!Learned(t, sum)
  BY DEF Loops!GuardsInv, Loops!Entered
<1>3. Loops!Inside(t) /\ Loops!Cost(cAt[t]) > 0 /\ sum[cAt[t] - 1] <= guard
  BY <1>2 DEF Loops!Learned
<1>4. cAt[t] \in 1..Len(program)
  BY <1>1, <1>2, <1>3 DEF Loops!Inside
<1>5. Loops!Kind(t) \in {"guarded", "single", "static"} /\ Loops!Cost(cAt[t]) = IF Loops!Kind(t) = "guarded" THEN 2 ELSE 1
  BY <1>3, GuardCosts
<1>6. sum[cAt[t]] = sum[cAt[t] - 1] + Loops!Cost(cAt[t]) /\ sum[cAt[t] - 1] \in Nat
  BY <1>1, <1>2, <1>4 DEF Loops!SumsUp
<1> QED
  BY <1>1, <1>2, <1>3, <1>4, <1>5, <1>6

(* A thread that is not the one goes on, or waits for the end of a guarded single. *)
LEMMA LostKeeps ==
  ASSUME program \in MCPrograms, NEW sum \in [0..Len(program) -> 0..(2 * Len(program))], Loops!GuardsInv(sum),
         NEW t \in Loops!Threads, cPc[t] \in {"guard", "swap"}, Loops!Answer(t, FALSE), UNCHANGED <<guard, cCount>>,
         Loops!Kind(t) # "guarded" => cCount[t] <= guard
  PROVE  Loops!GuardsInv(sum)' /\ UNCHANGED program
<1>1. /\ cAt \in [Loops!Threads -> 1..(Len(program) + 1)] /\ cPc \in [Loops!Threads -> Loops!Places]
      /\ guard \in Nat /\ cCount \in [Loops!Threads -> Nat] /\ Len(program) \in Nat
      /\ cCount[t] = sum[cAt[t]] /\ Loops!Inside(t) /\ cAt[t] \in 1..Len(program)
      /\ Loops!Kind(t) \in {"guarded", "single", "static"}
      /\ cCount[t] <= cCount'[t] /\ guard <= guard'
  BY AtGuard
<1>2. CASE Loops!Kind(t) = "single"
  <2>1. /\ cAt' = [cAt EXCEPT ![t] = cAt[t] + 1] /\ cPc' = [cPc EXCEPT ![t] = "start"] /\ UNCHANGED program
    BY <1>2 DEF Loops!Answer, Loops!Leave, Loops!Goto
  <2>2. /\ cAt' \in [Loops!Threads -> 1..(Len(program) + 1)] /\ cPc' \in [Loops!Threads -> Loops!Places]
        /\ cAt'[t] = cAt[t] + 1 /\ cPc'[t] = "start"
        /\ \A u \in Loops!Threads : u # t => cAt'[u] = cAt[u] /\ cPc'[u] = cPc[u]
    BY <1>1, <2>1 DEF Loops!Places
  <2>3. Loops!Learned(t, sum)' /\ cCount'[t] = sum[Loops!Entered(t)'] /\ ~Loops!InGuarded(t)'
    BY <1>1, <1>2, <2>2 DEF Loops!Learned, Loops!Entered, Loops!InGuarded
  <2> QED
    BY <1>1, <2>1, <2>2, <2>3, StepKeeps
<1>3. ASSUME NEW place \in {"item", "wait"}, cPc' = [cPc EXCEPT ![t] = place],
             UNCHANGED <<program, cAt>>, place = "item" => Loops!Kind(t) = "static"
      PROVE  Loops!GuardsInv(sum)'
  <2>1. /\ cPc' \in [Loops!Threads -> Loops!Places] /\ cPc'[t] = place
        /\ \A u \in Loops!Threads : u # t => cAt'[u] = cAt[u] /\ cPc'[u] = cPc[u]
    BY <1>1, <1>3 DEF Loops!Places
  <2>2. Loops!Learned(t, sum)' /\ cCount'[t] = sum[Loops!Entered(t)'] /\ ~Loops!InGuarded(t)'
    BY <1>1, <1>3, <2>1 DEF Loops!Learned, Loops!Entered, Loops!InGuarded, Loops!Inside
  <2> QED
    BY <1>1, <1>3, <2>1, <2>2, StepKeeps
<1>4. CASE Loops!Kind(t) # "single"
  <2>1. UNCHANGED <<program, cAt>> /\ cPc' = [cPc EXCEPT ![t] = IF Loops!Kind(t) = "static" THEN "item" ELSE "wait"]
    BY <1>4 DEF Loops!Answer, Loops!Stay, Loops!Goto
  <2> QED
    BY <1>3, <2>1
<1> QED
  BY <1>2, <1>4 DEF Loops!Answer, Loops!Leave, Loops!Stay

(* The one goes to its body, with the guard moved on by 1. *)
LEMMA WonKeeps ==
  ASSUME program \in MCPrograms, NEW sum \in [0..Len(program) -> 0..(2 * Len(program))], Loops!GuardsInv(sum),
         NEW t \in Loops!Threads, cPc[t] \in {"guard", "swap"}, Loops!Answer(t, TRUE), guard = sum[cAt[t] - 1],
         guard' = guard + 1, cCount' = cCount, \A u \in Loops!Threads : ~Loops!InGuarded(u)
  PROVE  Loops!GuardsInv(sum)' /\ UNCHANGED program
<1>1. /\ cAt \in [Loops!Threads -> 1..(Len(program) + 1)] /\ cPc \in [Loops!Threads -> Loops!Places]
      /\ guard \in Nat /\ cCount \in [Loops!Threads -> Nat] /\ Len(program) \in Nat
      /\ cCount[t] = sum[cAt[t]] /\ Loops!Inside(t) /\ cAt[t] \in 1..Len(program)
      /\ Loops!Kind(t) \in {"guarded", "single", "static"}
      /\ cCount[t] = guard + IF Loops!Kind(t) = "guarded" THEN 2 ELSE 1
  BY AtGuard
<1>2. PICK place \in Loops!Places :
         /\ place = IF Loops!Kind(t) = "static" THEN "item" ELSE "body"
         /\ cPc' = [cPc EXCEPT ![t] = place] /\ UNCHANGED <<program, cAt>>
  BY DEF Loops!Answer, Loops!Stay, Loops!Goto, Loops!Places
<1>3. /\ cPc' \in [Loops!Threads -> Loops!Places] /\ cPc'[t] = place
      /\ \A u \in Loops!Threads : u # t => cAt'[u] = cAt[u] /\ cPc'[u] = cPc[u]
      /\ cCount[t] <= cCount'[t] /\ guard <= guard' /\ guard' <= cCount'[t] /\ guard' \in Nat
  <2>1. /\ cPc' \in [Loops!Threads -> Loops!Places] /\ cPc'[t] = place
        /\ \A u \in Loops!Threads : u # t => cAt'[u] = cAt[u] /\ cPc'[u] = cPc[u]
    BY <1>1, <1>2
  <2>2. cCount[t] \in Nat /\ cCount'[t] = cCount[t] /\ guard + 1 <= cCount[t]
    BY <1>1
  <2> QED
    BY <1>1, <2>1, <2>2
<1>4. cCount'[t] = sum[Loops!Entered(t)']
  BY <1>1, <1>2, <1>3 DEF Loops!Entered
<1>5. Loops!Learned(t, sum)'
  BY <1>1, <1>2, <1>3 DEF Loops!Learned, Loops!InGuarded, Loops!Kind, Loops!Inside
<1> QED
  BY <1>1, <1>2, <1>3, <1>4, <1>5, StepKeeps

(* A thread that is behind the guard has lost. *)
LEMMA GuardTestKeeps ==
  ASSUME program \in MCPrograms, NEW sum \in [0..Len(program) -> 0..(2 * Len(program))], Loops!GuardsInv(sum),
         NEW t \in Loops!Threads, Loops!GuardTest(t)
  PROVE  Loops!GuardsInv(sum)' /\ UNCHANGED program
<1>1. cPc[t] = "guard" /\ UNCHANGED <<guard, cCount>>
  BY DEF Loops!GuardTest, Loops!At, Loops!singles
<1>2. CASE Loops!Behind(t)
  <2>1. Loops!Answer(t, FALSE) /\ cCount[t] <= guard
    BY <1>2 DEF Loops!GuardTest, Loops!Behind
  <2> QED
    BY <1>1, <2>1, LostKeeps
<1>3. CASE ~Loops!Behind(t)
  <2>1. /\ cAt \in [Loops!Threads -> 1..(Len(program) + 1)] /\ cPc \in [Loops!Threads -> Loops!Places]
        /\ guard \in Nat /\ cCount \in [Loops!Threads -> Nat] /\ Len(program) \in Nat
        /\ cCount[t] = sum[cAt[t]] /\ Loops!Inside(t) /\ cAt[t] \in 1..Len(program)
        /\ Loops!Cost(cAt[t]) > 0 /\ sum[cAt[t] - 1] <= guard
    BY <1>1, AtGuard
  <2>2. cPc' = [cPc EXCEPT ![t] = "swap"] /\ UNCHANGED <<program, cAt>>
    BY <1>3 DEF Loops!GuardTest, Loops!Stay, Loops!Goto
  <2>3. /\ cPc' \in [Loops!Threads -> Loops!Places] /\ cPc'[t] = "swap"
        /\ \A u \in Loops!Threads : u # t => cAt'[u] = cAt[u] /\ cPc'[u] = cPc[u]
        /\ cCount[t] <= cCount'[t] /\ guard <= guard'
    BY <1>1, <2>1, <2>2 DEF Loops!Places
  <2>4. Loops!Learned(t, sum)' /\ cCount'[t] = sum[Loops!Entered(t)'] /\ ~Loops!InGuarded(t)'
    BY <1>1, <2>1, <2>2, <2>3 DEF Loops!Learned, Loops!Entered, Loops!InGuarded, Loops!Inside,
       Loops!Cost
  <2> QED
    BY <1>1, <2>1, <2>2, <2>3, <2>4, StepKeeps
<1> QED
  BY <1>2, <1>3

(* Where the construct of the thread begins, nobody is in a guarded single. *)
LEMMA GuardSwapKeeps ==
  ASSUME program \in MCPrograms, NEW sum \in [0..Len(program) -> 0..(2 * Len(program))], Loops!GuardsInv(sum),
         NEW t \in Loops!Threads, Loops!GuardSwap(t)
  PROVE  Loops!GuardsInv(sum)' /\ UNCHANGED program
<1>1. cPc[t] = "swap" /\ cCount' = cCount
  BY DEF Loops!GuardSwap, Loops!At
<1>2. /\ cAt \in [Loops!Threads -> 1..(Len(program) + 1)] /\ Len(program) \in Nat
      /\ guard \in Nat /\ cCount \in [Loops!Threads -> Nat] /\ cAt[t] \in 1..Len(program)
      /\ Loops!Kind(t) \in {"guarded", "single", "static"}
      /\ sum[cAt[t] - 1] \in Nat /\ sum[cAt[t] - 1] <= guard
      /\ cCount[t] = sum[cAt[t] - 1] + IF Loops!Kind(t) = "guarded" THEN 2 ELSE 1
  BY <1>1, AtGuard
<1>3. cCount[t] - (IF Loops!Kind(t) = "guarded" THEN 2 ELSE 1) = sum[cAt[t] - 1]
  BY <1>2
<1>4. CASE guard = sum[cAt[t] - 1]
  <2>1. guard' = guard + 1 /\ Loops!Answer(t, TRUE)
    BY <1>3, <1>4 DEF Loops!GuardSwap
  <2>2. ASSUME NEW u \in Loops!Threads, Loops!InGuarded(u) PROVE FALSE
    <3>1. Loops!SumsUp(sum) /\ cCount[u] = sum[Loops!Entered(u)] /\ Loops!Learned(u, sum)
      BY DEF Loops!GuardsInv
    <3>2. cAt[u] \in 1..Len(program) /\ Loops!Cost(cAt[u]) = 2 /\ guard = sum[cAt[u]] - 1
      BY <1>2, <2>2, <3>1, GuardCosts DEF Loops!InGuarded, Loops!Learned, Loops!Inside,
         Loops!Entered
    <3>3. cAt[t] - 1 \in 0..Len(program)
      BY <1>2
    <3> QED
      BY <1>4, <3>1, <3>2, <3>3, InsideSingle
  <2> QED
    BY <1>1, <1>4, <2>1, <2>2, WonKeeps
<1>5. CASE guard # sum[cAt[t] - 1]
  <2>1. guard' = guard /\ Loops!Answer(t, FALSE)
    <3>1. guard # cCount[t] - (IF Loops!Kind(t) = "guarded" THEN 2 ELSE 1)
      BY <1>3, <1>5
    <3>2. UNCHANGED <<guard, winner>> /\ Loops!Answer(t, FALSE)
      BY <3>1, Zenon DEF Loops!GuardSwap
    <3> QED
      BY <3>2
  <2>2. Loops!Kind(t) # "guarded" => cCount[t] <= guard
    BY <1>2, <1>5
  <2> QED
    BY <1>1, <2>1, <2>2, LostKeeps
<1> QED
  BY <1>4, <1>5

(* The end of a guarded single moves the guard on to the next construct. *)
LEMMA EndBodyKeeps ==
  ASSUME program \in MCPrograms, NEW sum \in [0..Len(program) -> 0..(2 * Len(program))], Loops!GuardsInv(sum),
         NEW t \in Loops!Threads, Loops!EndBody(t)
  PROVE  Loops!GuardsInv(sum)' /\ UNCHANGED program
<1>1. Len(program) \in Nat
  BY ProgramLengths
<1>2. /\ cAt \in [Loops!Threads -> 1..(Len(program) + 1)] /\ cPc \in [Loops!Threads -> Loops!Places]
      /\ guard \in Nat /\ cCount \in [Loops!Threads -> Nat]
      /\ cCount[t] = sum[Loops!Entered(t)] /\ Loops!Learned(t, sum)
      /\ \A u \in Loops!Threads : Loops!InGuarded(t) /\ Loops!InGuarded(u) => t = u
  BY DEF Loops!GuardsInv
<1>3. /\ Loops!Inside(t) /\ cPc[t] = "body" /\ cPc' = [cPc EXCEPT ![t] = "wait"] /\ UNCHANGED <<program, cAt, cCount>>
      /\ guard' = IF Loops!InGuarded(t) THEN guard + 1 ELSE guard
  BY DEF Loops!EndBody, Loops!At, Loops!Goto, Loops!Stay, Loops!InGuarded
<1>4. Loops!InGuarded(t) => guard = cCount[t] - 1
  BY <1>2 DEF Loops!Learned
<1>5. /\ cPc' \in [Loops!Threads -> Loops!Places] /\ cPc'[t] = "wait"
      /\ \A u \in Loops!Threads : u # t => cAt'[u] = cAt[u] /\ cPc'[u] = cPc[u]
      /\ cCount[t] <= cCount'[t] /\ guard' \in Nat /\ guard <= guard' /\ (guard' = guard \/ guard' <= cCount'[t])
  BY <1>2, <1>3, <1>4 DEF Loops!Places
<1>6. Loops!Learned(t, sum)' /\ cCount'[t] = sum[Loops!Entered(t)'] /\ ~Loops!InGuarded(t)'
  BY <1>2, <1>3, <1>5 DEF Loops!Learned, Loops!Entered, Loops!InGuarded, Loops!Inside
<1>7. \A u \in Loops!Threads : u # t /\ Loops!InGuarded(u) => guard' = guard
  BY <1>2, <1>3
<1> QED
  BY <1>1, <1>2, <1>3, <1>5, <1>6, <1>7, StepKeeps

(* Who waits for it goes on when the guard has come to where it stands. *)
LEMMA WaitKeeps ==
  ASSUME program \in MCPrograms, NEW sum \in [0..Len(program) -> 0..(2 * Len(program))], Loops!GuardsInv(sum),
         NEW t \in Loops!Threads, Loops!Wait(t)
  PROVE  Loops!GuardsInv(sum)' /\ UNCHANGED program
<1>1. Len(program) \in Nat
  BY ProgramLengths
<1>2. /\ cAt \in [Loops!Threads -> 1..(Len(program) + 1)] /\ cPc \in [Loops!Threads -> Loops!Places]
      /\ guard \in Nat /\ cCount \in [Loops!Threads -> Nat]
      /\ cCount[t] = sum[Loops!Entered(t)]
  BY DEF Loops!GuardsInv
<1>3. /\ Loops!Inside(t) /\ cPc[t] = "wait" /\ cCount[t] <= guard /\ UNCHANGED <<program, guard, cCount>>
      /\ cAt' = [cAt EXCEPT ![t] = cAt[t] + 1] /\ cPc' = [cPc EXCEPT ![t] = "start"]
  BY DEF Loops!Wait, Loops!At, Loops!Behind, Loops!Leave, Loops!Goto, Loops!singles
<1>4. cAt[t] \in 1..Len(program)
  BY <1>1, <1>2, <1>3 DEF Loops!Inside
<1>5. /\ cAt' \in [Loops!Threads -> 1..(Len(program) + 1)] /\ cPc' \in [Loops!Threads -> Loops!Places]
      /\ cAt'[t] = cAt[t] + 1 /\ cPc'[t] = "start"
      /\ \A u \in Loops!Threads : u # t => cAt'[u] = cAt[u] /\ cPc'[u] = cPc[u]
      /\ cCount[t] <= cCount'[t] /\ guard <= guard'
  BY <1>1, <1>2, <1>3, <1>4 DEF Loops!Places
<1>6. Loops!Learned(t, sum)' /\ cCount'[t] = sum[Loops!Entered(t)'] /\ ~Loops!InGuarded(t)'
  BY <1>2, <1>3, <1>4, <1>5 DEF Loops!Learned, Loops!Entered, Loops!InGuarded
<1> QED
  BY <1>1, <1>2, <1>3, <1>5, <1>6, StepKeeps

(* Every step keeps the invariant. *)
LEMMA GuardsGoOn == Loops!GuardsInductive /\ [Loops!Next]_(Loops!vars) => Loops!GuardsInductive'
<1> SUFFICES ASSUME Loops!GuardsInductive, [Loops!Next]_(Loops!vars) PROVE Loops!GuardsInductive'
  OBVIOUS
<1>1. PICK sum \in [0..Len(program) -> 0..(2 * Len(program))] : program \in MCPrograms /\ Loops!GuardsInv(sum)
  BY DEF Loops!GuardsInductive
<1>2. CASE UNCHANGED Loops!vars
  <2>1. UNCHANGED <<program, cAt, cPc, guard, cCount>>
    BY <1>2 DEF Loops!vars, Loops!singles
  <2>2. Loops!GuardsInv(sum)'
    BY <1>1, <2>1 DEF Loops!GuardsInv, Loops!SumsUp, Loops!Cost, Loops!Entered, Loops!Learned,
       Loops!InGuarded, Loops!Inside, Loops!Kind
  <2> QED
    BY <1>1, <2>1, <2>2 DEF Loops!GuardsInductive
<1>3. CASE Loops!Next
  <2>1. PICK t \in Loops!Threads : Loops!Step(t)
    BY <1>3 DEF Loops!Next
  <2>2. Loops!GuardsInv(sum)' /\ UNCHANGED program
    BY <1>1, <2>1, LoopStepsKeep, EnterKeeps, GuardTestKeeps, GuardSwapKeeps, EndBodyKeeps,
       WaitKeeps DEF Loops!Step
  <2> QED
    BY <1>1, <2>2 DEF Loops!GuardsInductive
<1> QED
  BY <1>2, <1>3

(* The guard is where it should be. *)
LEMMA GuardsRight == Loops!GuardsInductive => Loops!GuardBetween
<1> SUFFICES ASSUME Loops!GuardsInductive PROVE Loops!GuardBetween
  OBVIOUS
<1>1. PICK sum \in [0..Len(program) -> 0..(2 * Len(program))] : Loops!GuardsInv(sum)
  BY DEF Loops!GuardsInductive
<1>2. guard \in Nat /\ cCount \in [Loops!Threads -> Nat] /\ \A t \in Loops!Threads : Loops!Learned(t, sum)
  BY <1>1 DEF Loops!GuardsInv
<1>3. ASSUME NEW t \in Loops!Threads, cPc[t] \in {"start", "item", "body"} PROVE cCount[t] <= guard + 1
  BY <1>2, <1>3 DEF Loops!Learned, Loops!InGuarded
<1> QED
  BY <1>1, <1>3 DEF Loops!GuardsInv, Loops!GuardBetween

-----------------------------------------------------------------------------
(* All parts together. *)

(* Each part begins as its module says. *)
LEMMA RuntimeBegins ==
  RuntimeInit => /\ Pausing!Inductive /\ Regions!Inductive /\ MemoryInductive
                 /\ Team!Inductive /\ Loops!GuardsInductive
BY PausingInit, RegionInit, MemoriesBegin, WorkersBegin, GuardsBegin DEF RuntimeInit, Team!Inductive

(* A step of one part leaves the variables of the others alone. *)
LEMMA RuntimeSteps ==
  ASSUME [RuntimeNext]_runtimeVars
  PROVE  /\ [Pausing!PausesNext]_(Pausing!pausesVars) /\ [Regions!TeamsNext]_(Regions!teamsVars)
         /\ [CoherenceNext]_coherenceVars /\ [Team!WorkersNext]_(Team!workersVars)
         /\ [Loops!Next]_(Loops!vars)
<1>1. [Pausing!PausesNext]_(Pausing!pausesVars)
  BY DEF RuntimeNext, MemoryStep, ResizeStep, ConstructStep, RegionStep, LoopStep, SlicedStep,
         HysteresisStep, PausesStep, In, runtimeVars, pauseVars, Pausing!pausesVars,
         Pausing!flags, Pausing!tasks, Pausing!main
<1>2. [Regions!TeamsNext]_(Regions!teamsVars)
  BY DEF RuntimeNext, MemoryStep, ResizeStep, ConstructStep, RegionStep, LoopStep, SlicedStep,
         HysteresisStep, PausesStep, In, runtimeVars, constructVars, regionVars,
         Regions!teamsVars
<1>3. [CoherenceNext]_coherenceVars
  BY DEF RuntimeNext, MemoryStep, ResizeStep, ConstructStep, RegionStep, LoopStep, SlicedStep,
         HysteresisStep, PausesStep, In, runtimeVars
<1>4. [Team!WorkersNext]_(Team!workersVars)
  BY DEF RuntimeNext, MemoryStep, ResizeStep, ConstructStep, RegionStep, LoopStep, SlicedStep,
         HysteresisStep, PausesStep, In, runtimeVars, teamVars, Team!workersVars, Team!worker,
         Team!request
<1>5. [Loops!Next]_(Loops!vars)
  BY DEF RuntimeNext, MemoryStep, ResizeStep, ConstructStep, RegionStep, LoopStep, SlicedStep,
         HysteresisStep, PausesStep, In, runtimeVars, constructVars, loopVars, Loops!vars,
         Loops!list, Loops!singles, Loops!history
<1> QED
  BY <1>1, <1>2, <1>3, <1>4, <1>5

(* While all threads are paused no task runs, and none starts before user code starts the
   scheduler again, for every number of threads, of tasks and of stops (the counting of
   pausedThread and unpausedThread, system_decl.hpp:549-551). *)
THEOREM NothingInSectionHolds == RuntimeSpec => []NothingInSection
<1>1. Pausing!Inductive => NothingInSection
  BY DEF Pausing!Inductive, Pausing!ToldInv, Pausing!PausedInv, NothingInSection,
         Pausing!NothingInSection
<1>2. Pausing!Inductive /\ [RuntimeNext]_runtimeVars => Pausing!Inductive'
  BY RuntimeSteps, PausingStep
<1> QED
  BY <1>1, <1>2, RuntimeBegins, PTL DEF RuntimeSpec

(* The teams of the parallel regions keep their inductive invariant. *)
LEMMA RegionsKeep == RuntimeSpec => []Regions!Inductive
<1>1. Regions!Inductive /\ [RuntimeNext]_runtimeVars => Regions!Inductive'
  BY RuntimeSteps, RegionsStep
<1> QED
  BY <1>1, RuntimeBegins, PTL DEF RuntimeSpec

(* No thread is taken by two creators of teams at once, and no next team replaces another that
   the thread has not entered, for every number of threads, of teams and of threads in a team
   (system.cpp:1326-1356). *)
THEOREM ReservedOnceHolds == RuntimeSpec => []ReservedOnce
<1>1. Regions!Inductive => ReservedOnce
  BY ReservedThreads DEF ReservedOnce
<1> QED
  BY <1>1, RegionsKeep, PTL

(* No team is deleted while a thread is in it, has a job in it or has yet to leave its map, for
   every number of threads, of teams and of threads in a team (system.cpp:1494-1507). *)
THEOREM TeamOutlivesHolds == RuntimeSpec => []TeamOutlives
<1>1. Regions!Inductive => TeamOutlives
  BY LivingTeams DEF TeamOutlives
<1> QED
  BY <1>1, RegionsKeep, PTL

(* The workers keep their inductive invariant; the manner of user code never changes. *)
LEMMA WorkersHold == RuntimeSpec => []Team!Inductive
<1>1. Team!Inductive /\ [RuntimeNext]_runtimeVars => Team!Inductive'
  BY RuntimeSteps, WorkersGoOn
<1> QED
  BY <1>1, RuntimeBegins, PTL DEF RuntimeSpec

(* The team's map names each thread once, under the id that the thread knows, for every number
   of threads, where user code resizes again only when the workers have settled (addThread and
   removeThread against getTeamId). *)
THEOREM InTeamOnceIfSpacedHolds == RuntimeSpec => []InTeamOnceIfSpaced
<1>1. Team!Inductive => InTeamOnceIfSpaced
  BY WorkersRight DEF Team!Inductive, InTeamOnceIfSpaced, Team!InTeamOnceIfSpaced
<1> QED
  BY <1>1, WorkersHold, PTL

(* A resize ends with as many workers as user code asked for, each of them in the team, under
   the same condition (updateActiveWorkers). *)
THEOREM AsManyAsAskedHolds == RuntimeSpec => []AsManyAsAsked
<1>1. Team!Inductive => AsManyAsAsked
  BY WorkersRight, TeamCardinality DEF Team!Inductive, AsManyAsAsked, Team!AsManyAsAsked
<1> QED
  BY <1>1, WorkersHold, PTL

(* The shared guard of the singles never runs ahead of every thread, and a thread that is not in
   a guard is not ahead of it, so that a single is neither skipped by all nor taken twice: for
   every number of threads, however far one is ahead of another (threadteam.cpp:31-40). *)
THEOREM GuardBetweenHolds == RuntimeSpec => []GuardBetween
<1>1. Loops!GuardsInductive => GuardBetween
  BY GuardsRight DEF GuardBetween
<1>2. Loops!GuardsInductive /\ [RuntimeNext]_runtimeVars => Loops!GuardsInductive'
  BY RuntimeSteps, GuardsGoOn
<1> QED
  BY <1>1, <1>2, RuntimeBegins, PTL DEF RuntimeSpec

(* The memories keep their inductive invariant; their setup never changes. *)
LEMMA MemoriesKeep == RuntimeSpec => []MemoryInductive
<1>1. MemoryInductive /\ [RuntimeNext]_runtimeVars => MemoryInductive'
  BY RuntimeSteps, MemoriesGoOn
<1> QED
  BY <1>1, RuntimeBegins, PTL DEF RuntimeSpec

(* What a task reads is what the last writer of the block wrote, on whatever device or host that
   ran, for every number of devices, of host threads, of blocks and of tasks, where devices copy
   at once and write through or have room for all blocks (the versions and owners of
   cache.hpp and directory.hpp). *)
THEOREM ReadsLatestHolds == RuntimeSpec => [](AtOnce => ReadsLatest)
<1>1. MemoryInductive => (AtOnce => ReadsLatest)
  BY MemoriesRight
<1> QED
  BY <1>1, MemoriesKeep, PTL

(* Outside the accesses of a writer the newest data are where the directory says, under the same
   conditions (the owner of a DirectoryEntry). *)
THEOREM DirectoryKnowsHolds == RuntimeSpec => [](AtOnce => DirectoryKnows)
<1>1. MemoryInductive => (AtOnce => DirectoryKnows)
  BY MemoriesRight
<1> QED
  BY <1>1, MemoriesKeep, PTL

(* A full cache finds an entry that nobody references, a cache never fetches from itself, and
   the versions of a written block agree, under the same conditions and where a cache has room
   for a block at all (the ensures of cache.hpp:193, 259, 345 and freeSpaceToFit). *)
THEOREM EnsuresHoldAlways == RuntimeSpec => [](AtOnce /\ setup.room > 0 => EnsuresHold)
<1>1. MemoryInductive => (AtOnce /\ setup.room > 0 => EnsuresHold)
  BY MemoriesRight
<1> QED
  BY <1>1, MemoriesKeep, PTL
=============================================================================
