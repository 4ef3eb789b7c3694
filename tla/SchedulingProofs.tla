-------------------------- MODULE SchedulingProofs --------------------------
(***************************************************************************)
(* For every number of threads: under every policy and in every program a  *)
(* thread runs only the WDs that it may run, a WD is held once, and queues *)
(* with priorities stay in order; and what is proved of commutative        *)
(* accesses in their module holds for two programs of any kind beside the  *)
(* policies.                                                               *)
(***************************************************************************)
EXTENDS MCScheduling, FiniteSetTheorems, SequenceTheorems, WellFoundedInduction, TLAPS

-----------------------------------------------------------------------------
(* The policies. *)

Places == {"unborn", "new", "body", "wait", "blocked", "signal", "leave", "seek", "idle",
           "gone", "done"}

Born == {w \in WDs : pc[w] # "unborn"}

\* The variables that the search and the tying of WDs go by; only created WDs are queued.
PoliciesTypeOK ==
    /\ pc \in [WDs -> Places]
    /\ cur \in [Threads -> WDs]
    /\ queues \in [Queues -> Seq(Born)]
    /\ pushing \in [Threads -> Born \cup {None}]
    /\ tied \in [WDs -> Threads \cup {None}]
    /\ under \in [WDs -> Threads \cup {None}]

\* A WD that has not begun is tied to nobody, lies on nothing, and runs nowhere.
NotBegun ==
    /\ \A w \in WDs : pc[w] \in {"unborn", "new"} => tied[w] = None /\ under[w] = None
    /\ \A t \in Threads : pc[cur[t]] \notin {"unborn", "new"}

\* What is beneath an inlined WD is the own WD of the thread that the WD is tied to.
Inlined ==
    /\ \A w \in WDs : under[w] # None => tied[w] = under[w]
    /\ \A t \in Threads : pc[t] \notin {"unborn", "new"} /\ tied[t] \in {None, t}

\* Whoever created a task is a WD.
Parented == \A c \in Tasks : pc[c] # "unborn" => Parent[c] \in WDs

Inv == PoliciesTypeOK /\ NotBegun /\ Inlined /\ Parented /\ RunsWhatItMay

-----------------------------------------------------------------------------
LEMMA NamesApart ==
    /\ Threads \cap Tasks = {} /\ None \notin WDs /\ 0 \in Threads
    /\ Threads \subseteq WDs /\ Tasks \subseteq WDs
  BY PoliciesAssumption DEF Threads, WDs, None

\* What is left of a queue when the WD at i is taken.
LEMMA RemoveAtElements ==
  ASSUME NEW S, NEW s \in Seq(S), NEW i \in DOMAIN s
  PROVE  /\ RemoveAt(s, i) \in Seq(S) /\ DOMAIN RemoveAt(s, i) = 1..(Len(s) - 1)
         /\ \A j \in 1..(Len(s) - 1) : RemoveAt(s, i)[j] = s[IF j < i THEN j ELSE j + 1]
<1> DEFINE r == RemoveAt(s, i)
           front == SubSeq(s, 1, i - 1)
           back == SubSeq(s, i + 1, Len(s))
<1>1. i \in 1..Len(s) /\ Len(s) \in Nat
  OBVIOUS
<1>2. front \in Seq(S) /\ Len(front) = i - 1 /\ \A j \in 1..(i - 1) : front[j] = s[j]
  BY <1>1, SubSeqProperties
<1>3. back \in Seq(S) /\ Len(back) = Len(s) - i /\ \A j \in 1..(Len(s) - i) : back[j] = s[i + j]
  BY <1>1, SubSeqProperties
<1>4. r = front \o back
  BY DEF RemoveAt
<1> HIDE DEF front, back, r
<1>5. r \in Seq(S) /\ Len(r) = Len(s) - 1
  BY <1>1, <1>2, <1>3, <1>4, ConcatProperties
<1>6. ASSUME NEW j \in 1..(Len(s) - 1) PROVE r[j] = s[IF j < i THEN j ELSE j + 1]
  <2>1. j \in 1..(Len(front) + Len(back))
    BY <1>1, <1>2, <1>3
  <2>2. r[j] = IF j <= Len(front) THEN front[j] ELSE back[j - Len(front)]
    BY <1>2, <1>3, <1>4, <2>1, ConcatProperties
  <2>3. CASE j < i
    BY <1>1, <1>2, <2>2, <2>3
  <2>4. CASE ~(j < i)
    <3>1. j - (i - 1) \in 1..(Len(s) - i) /\ i + (j - (i - 1)) = j + 1
      BY <1>1, <2>4
    <3>2. r[j] = back[j - (i - 1)]
      BY <1>1, <1>2, <2>2, <2>4
    <3> QED
      BY <1>3, <2>4, <3>1, <3>2
  <2> QED
    BY <2>3, <2>4
<1> QED
  BY <1>5, <1>6 DEF r

\* A queue with a WD put behind the first i.
LEMMA InsertAtElements ==
  ASSUME NEW S, NEW s \in Seq(S), NEW i \in 0..Len(s), NEW e \in S
  PROVE  /\ InsertAt(s, i + 1, e) \in Seq(S) /\ DOMAIN InsertAt(s, i + 1, e) = 1..(Len(s) + 1)
         /\ \A j \in 1..(Len(s) + 1) :
               InsertAt(s, i + 1, e)[j] = IF j <= i THEN s[j] ELSE IF j = i + 1 THEN e ELSE s[j - 1]
<1> DEFINE r == InsertAt(s, i + 1, e)
           front == SubSeq(s, 1, i)
           back == SubSeq(s, i + 1, Len(s))
           middle == front \o <<e>>
<1>1. i \in 0..Len(s) /\ Len(s) \in Nat
  OBVIOUS
<1>2. front \in Seq(S) /\ Len(front) = i /\ \A j \in 1..i : front[j] = s[j]
  BY <1>1, SubSeqProperties
<1>3. back \in Seq(S) /\ Len(back) = Len(s) - i /\ \A j \in 1..(Len(s) - i) : back[j] = s[i + j]
  BY <1>1, SubSeqProperties
<1>4. r = middle \o back
  <2>1. (i + 1) - 1 = i
    BY <1>1
  <2> QED
    BY <2>1 DEF InsertAt
<1> HIDE DEF front, back, r
<1>5. /\ middle \in Seq(S) /\ Len(middle) = i + 1
      /\ \A j \in 1..(i + 1) : middle[j] = IF j <= i THEN s[j] ELSE e
  <2>1. <<e>> \in Seq(S) /\ Len(<<e>>) = 1 /\ <<e>>[1] = e
    OBVIOUS
  <2>2. middle \in Seq(S) /\ Len(middle) = i + 1
    BY <1>1, <1>2, <2>1, ConcatProperties
  <2>3. ASSUME NEW j \in 1..(i + 1) PROVE middle[j] = IF j <= i THEN s[j] ELSE e
    <3>1. j \in 1..(Len(front) + Len(<<e>>))
      BY <1>1, <1>2, <2>1
    <3>2. middle[j] = IF j <= Len(front) THEN front[j] ELSE <<e>>[j - Len(front)]
      BY <1>2, <2>1, <3>1, ConcatProperties
    <3>3. ~(j <= i) => j - i = 1
      BY <1>1
    <3> QED
      BY <1>1, <1>2, <2>1, <3>2, <3>3
  <2> QED
    BY <2>2, <2>3
<1> HIDE DEF middle
<1>6. r \in Seq(S) /\ Len(r) = Len(s) + 1
  BY <1>1, <1>3, <1>4, <1>5, ConcatProperties
<1>7. ASSUME NEW j \in 1..(Len(s) + 1)
      PROVE  r[j] = IF j <= i THEN s[j] ELSE IF j = i + 1 THEN e ELSE s[j - 1]
  <2>1. j \in 1..(Len(middle) + Len(back))
    BY <1>1, <1>3, <1>5
  <2>2. r[j] = IF j <= Len(middle) THEN middle[j] ELSE back[j - Len(middle)]
    BY <1>3, <1>4, <1>5, <2>1, ConcatProperties
  <2>3. CASE j <= i + 1
    <3>1. j \in 1..(i + 1)
      BY <1>1, <2>3
    <3> QED
      BY <1>1, <1>5, <2>2, <3>1
  <2>4. CASE ~(j <= i + 1)
    <3>1. j - (i + 1) \in 1..(Len(s) - i) /\ i + (j - (i + 1)) = j - 1 /\ ~(j <= i) /\ j # i + 1
      BY <1>1, <2>4
    <3>2. r[j] = back[j - (i + 1)]
      BY <1>5, <2>2, <2>4
    <3> QED
      BY <1>3, <3>1, <3>2
  <2> QED
    BY <2>3, <2>4
<1> QED
  BY <1>6, <1>7 DEF r

LEMMA RemoveAtOnce ==
  ASSUME NEW S, NEW s \in Seq(S), NEW i \in DOMAIN s, IsInjective(s)
  PROVE  IsInjective(RemoveAt(s, i)) /\ Range(RemoveAt(s, i)) = Range(s) \ {s[i]}
<1> DEFINE r == RemoveAt(s, i)
           from(j) == IF j < i THEN j ELSE j + 1
<1>1. i \in 1..Len(s) /\ Len(s) \in Nat /\ DOMAIN s = 1..Len(s)
  OBVIOUS
<1>2. DOMAIN r = 1..(Len(s) - 1) /\ \A j \in 1..(Len(s) - 1) : r[j] = s[from(j)]
  BY RemoveAtElements
<1> HIDE DEF r
<1>3. \A j \in DOMAIN r : from(j) \in DOMAIN s /\ from(j) # i
  BY <1>1, <1>2
<1>4. \A j, k \in DOMAIN r : from(j) = from(k) => j = k
  BY <1>1, <1>2
<1>5. \A k \in DOMAIN s : k # i => \E j \in DOMAIN r : from(j) = k
  <2> SUFFICES ASSUME NEW k \in DOMAIN s, k # i PROVE \E j \in DOMAIN r : from(j) = k
    OBVIOUS
  <2>1. CASE k < i
    <3>1. k \in DOMAIN r /\ from(k) = k
      BY <1>1, <1>2, <2>1
    <3> QED
      BY <3>1
  <2>2. CASE ~(k < i)
    <3>1. k - 1 \in DOMAIN r /\ from(k - 1) = k
      BY <1>1, <1>2, <2>2
    <3> QED
      BY <3>1
  <2> QED
    BY <2>1, <2>2
<1> HIDE DEF from
<1>6. IsInjective(r)
  BY <1>2, <1>3, <1>4 DEF IsInjective
<1>7. Range(r) = Range(s) \ {s[i]}
  <2>1. \A j \in DOMAIN r : r[j] \in Range(s) /\ r[j] # s[i]
    BY <1>2, <1>3 DEF IsInjective, Range
  <2>2. \A k \in DOMAIN s : s[k] # s[i] => s[k] \in Range(r)
    BY <1>2, <1>5 DEF Range
  <2> QED
    BY <2>1, <2>2 DEF Range
<1> QED
  BY <1>6, <1>7 DEF r

LEMMA InsertAtOnce ==
  ASSUME NEW S, NEW s \in Seq(S), NEW i \in 0..Len(s), NEW e \in S, IsInjective(s),
         e \notin Range(s)
  PROVE  /\ IsInjective(InsertAt(s, i + 1, e))
         /\ Range(InsertAt(s, i + 1, e)) = Range(s) \cup {e}
<1> DEFINE r == InsertAt(s, i + 1, e)
           to(k) == IF k <= i THEN k ELSE k + 1
<1>1. i \in 0..Len(s) /\ Len(s) \in Nat /\ DOMAIN s = 1..Len(s)
  OBVIOUS
<1>2. /\ DOMAIN r = 1..(Len(s) + 1)
      /\ \A j \in 1..(Len(s) + 1) : r[j] = IF j <= i THEN s[j] ELSE IF j = i + 1 THEN e ELSE s[j - 1]
  BY InsertAtElements
<1> HIDE DEF r
<1>3. \A k \in DOMAIN s : to(k) \in DOMAIN r /\ r[to(k)] = s[k]
  BY <1>1, <1>2
<1>4. i + 1 \in DOMAIN r /\ r[i + 1] = e
  BY <1>1, <1>2
<1>5. \A j \in DOMAIN r : j = i + 1 \/ \E k \in DOMAIN s : j = to(k)
  <2> SUFFICES ASSUME NEW j \in DOMAIN r, j # i + 1 PROVE \E k \in DOMAIN s : j = to(k)
    OBVIOUS
  <2>1. CASE j <= i
    <3>1. j \in DOMAIN s /\ j = to(j)
      BY <1>1, <1>2, <2>1
    <3> QED
      BY <3>1
  <2>2. CASE ~(j <= i)
    <3>1. j - 1 \in DOMAIN s /\ j = to(j - 1)
      BY <1>1, <1>2, <2>2
    <3> QED
      BY <3>1
  <2> QED
    BY <2>1, <2>2
<1> HIDE DEF to
<1>6. \A k \in DOMAIN s : s[k] # e
  BY DEF Range
<1>7. IsInjective(r)
  BY <1>3, <1>4, <1>5, <1>6 DEF IsInjective
<1>8. Range(r) = Range(s) \cup {e}
  BY <1>3, <1>4, <1>5 DEF Range
<1> QED
  BY <1>7, <1>8 DEF r

LEMMA InitInv == PoliciesInit => Inv
<1> SUFFICES ASSUME PoliciesInit PROVE Inv
  OBVIOUS
<1> USE NamesApart DEF PoliciesInit
<1>1. PoliciesTypeOK
  BY DEF PoliciesTypeOK, Places
<1>2. NotBegun
  BY DEF NotBegun, WDs
<1>3. Inlined
  BY DEF Inlined
<1>4. Parented
  BY DEF Parented
<1>5. RunsWhatItMay
  BY DEF RunsWhatItMay
<1> QED
  BY <1>1, <1>2, <1>3, <1>4, <1>5 DEF Inv

LEMMA SeqMonotone ==
  ASSUME NEW S, NEW T, S \subseteq T, NEW s \in Seq(S)
  PROVE  s \in Seq(T)
  OBVIOUS

\* The steps that leave the running WDs and what they are tied to as they are.
LEMMA SteadyStep ==
  ASSUME Inv, UNCHANGED <<setup, cur, tied>>,
         pc' \in [WDs -> Places], queues' \in [Queues -> Seq(Born')],
         pushing' \in [Threads -> Born' \cup {None}],
         under' = under,
         \A w \in WDs : pc'[w] \in {"unborn", "new"} => pc[w] \in {"unborn", "new"},
         \A c \in Tasks : pc'[c] # "unborn" => pc[c] # "unborn" \/ Parent[c] \in WDs
  PROVE  Inv'
<1>1. PoliciesTypeOK'
  BY DEF Inv, PoliciesTypeOK
<1>2. NotBegun'
  BY DEF Inv, NotBegun, PoliciesTypeOK
<1>3. Inlined'
  BY NamesApart DEF Inv, Inlined, PoliciesTypeOK
<1>4. RunsWhatItMay'
  BY DEF Inv, RunsWhatItMay, Fits, ForDevice
<1>5. Parented'
  BY DEF Inv, Parented, Parent
<1> QED
  BY <1>1, <1>2, <1>3, <1>4, <1>5 DEF Inv

\* The end of a search: the WD taken is one that the thread may run.
LEMMA TakeStep ==
  ASSUME Inv, NEW t \in Threads, NEW q \in Queues, NEW i \in DOMAIN queues[q],
         CanRun(queues[q][i], t), TakeFrom(t, q, i)
  PROVE  Inv'
<1> DEFINE x == queues[q][i]
           w == cur[t]
<1>1. x \in Born /\ w \in Born /\ x \in WDs /\ w \in WDs
  <2>1. queues[q] \in Seq(Born)
    BY DEF Inv, PoliciesTypeOK
  <2>2. x \in Born
    BY <2>1
  <2> HIDE DEF x
  <2> QED
    BY <2>2 DEF Inv, PoliciesTypeOK, NotBegun, Born
<1> HIDE DEF x, w
<1>2. /\ cur' = [cur EXCEPT ![t] = x]
      /\ tied' = [tied EXCEPT ![x] =
                     IF pc[x] = "new" /\ (x \in TiedTasks \/ pc[w] = "idle") THEN t ELSE @]
      /\ under' = [under EXCEPT ![x] = IF pc[x] = "new" /\ pc[w] = "idle" THEN t ELSE @]
      /\ pc' = [pc EXCEPT ![x] = IF @ = "new" THEN "body" ELSE @,
                          ![w] = CASE @ = "wait" -> "blocked" [] @ = "seek" -> "gone"
                                   [] OTHER -> @]
      /\ queues' = [queues EXCEPT ![q] = RemoveAt(@, i)]
      /\ pushing' \in {pushing, [pushing EXCEPT ![t] = w]}
      /\ setup' = setup
  BY DEF TakeFrom, SwitchTo, x, w
<1>3. pc' \in [WDs -> Places]
  BY <1>1, <1>2 DEF Inv, PoliciesTypeOK, Places
<1>4. \A v \in WDs : pc'[v] \in {"unborn", "new"} => v # x /\ pc[v] = pc'[v]
  BY <1>1, <1>2 DEF Inv, PoliciesTypeOK, Places, Born
<1>5. Born \subseteq Born'
  BY <1>4 DEF Born
<1>6. PoliciesTypeOK'
  <2>1. queues' \in [Queues -> Seq(Born')]
    <3>1. RemoveAt(queues[q], i) \in Seq(Born)
      BY RemoveAtElements DEF Inv, PoliciesTypeOK
    <3>2. queues' \in [Queues -> Seq(Born)]
      BY <1>2, <3>1 DEF Inv, PoliciesTypeOK
    <3> QED
      BY <1>5, <3>2, SeqMonotone
  <2>2. pushing' \in [Threads -> Born' \cup {None}]
    BY <1>1, <1>2, <1>5 DEF Inv, PoliciesTypeOK
  <2>3. cur' \in [Threads -> WDs] /\ tied' \in [WDs -> Threads \cup {None}]
          /\ under' \in [WDs -> Threads \cup {None}]
    BY <1>1, <1>2 DEF Inv, PoliciesTypeOK
  <2> QED
    BY <1>3, <2>1, <2>2, <2>3 DEF PoliciesTypeOK
<1>7. NotBegun'
  BY <1>1, <1>2, <1>4 DEF Inv, PoliciesTypeOK, NotBegun
<1>8. Inlined'
  BY <1>1, <1>2, <1>4, NamesApart DEF Inv, PoliciesTypeOK, NotBegun, Inlined
<1>9. RunsWhatItMay'
  <2>1. tied[x] \in {None, t} /\ Fits(x, t)
    BY DEF CanRun, x
  <2>2. \A u \in Threads : tied'[cur'[u]] \in {None, u}
    BY <1>1, <1>2, <2>1, NamesApart DEF Inv, PoliciesTypeOK, NotBegun, RunsWhatItMay
  <2>3. \A u \in Threads : cur'[u] \in Tasks => Fits(cur'[u], u)
    BY <1>1, <1>2, <2>1 DEF Inv, PoliciesTypeOK, RunsWhatItMay
  <2> QED
    BY <1>2, <2>2, <2>3 DEF RunsWhatItMay, Fits, ForDevice
<1>10. Parented'
  BY <1>1, <1>2, NamesApart DEF Inv, PoliciesTypeOK, Parented, Parent, Born
<1> QED
  BY <1>6, <1>7, <1>8, <1>9, <1>10 DEF Inv

\* A WD that exists is about to be put in a queue.
LEMMA StartPushType ==
  ASSUME Inv, NEW t \in Threads, NEW w \in Born', Born \subseteq Born', StartPush(t, w)
  PROVE  pushing' \in [Threads -> Born' \cup {None}]
  BY DEF Inv, PoliciesTypeOK, StartPush, StartPushTo

LEMMA CreateStep ==
  ASSUME Inv, NEW t \in Threads, NEW c \in Tasks, Create(t, cur[t], c)
  PROVE  Inv'
<1> DEFINE w == cur[t]
<1>1. /\ w \in WDs /\ w \in Born /\ pc[w] = "body" /\ c \in WDs /\ pc[c] = "unborn"
      /\ tied[c] = None /\ under[c] = None /\ Parent[c] = w
  BY NamesApart DEF Create, Free, Inv, PoliciesTypeOK, NotBegun, Born
<1>2. UNCHANGED <<setup, queues, under>>
  BY DEF Create
<1>3. CASE policy = "wf" /\ Fits(c, t)
  <2>1. /\ pc' = [pc EXCEPT ![c] = "body"] /\ cur' = [cur EXCEPT ![t] = c]
        /\ tied' = [tied EXCEPT ![c] = IF c \in TiedTasks THEN t ELSE @]
        /\ StartPush(t, w)
    BY <1>3 DEF Create
  <2>2. Born \subseteq Born' /\ w \in Born'
    BY <1>1, <2>1 DEF Born, Inv, PoliciesTypeOK
  <2>3. queues' \in [Queues -> Seq(Born')]
    BY <1>2, <2>2, SeqMonotone DEF Inv, PoliciesTypeOK
  <2>4. PoliciesTypeOK'
    BY <1>1, <1>2, <2>1, <2>2, <2>3, StartPushType DEF Inv, PoliciesTypeOK, Places
  <2>5. NotBegun'
    BY <1>1, <1>2, <2>1 DEF Inv, PoliciesTypeOK, NotBegun
  <2>6. Inlined'
    BY <1>1, <1>2, <2>1, NamesApart DEF Inv, PoliciesTypeOK, Inlined
  <2>7. RunsWhatItMay'
    <3>1. \A u \in Threads : tied'[cur'[u]] \in {None, u}
      BY <1>1, <2>1, NamesApart DEF Inv, PoliciesTypeOK, NotBegun, RunsWhatItMay
    <3>2. \A u \in Threads : cur'[u] \in Tasks => Fits(cur'[u], u)
      BY <1>1, <1>3, <2>1 DEF Inv, PoliciesTypeOK, RunsWhatItMay
    <3> QED
      BY <1>2, <3>1, <3>2 DEF RunsWhatItMay, Fits, ForDevice
  <2>8. Parented'
    BY <1>1, <1>2, <2>1, NamesApart DEF Inv, PoliciesTypeOK, Parented, Parent
  <2> QED
    BY <2>4, <2>5, <2>6, <2>7, <2>8 DEF Inv
<1>4. CASE ~(policy = "wf" /\ Fits(c, t))
  <2>1. pc' = [pc EXCEPT ![c] = "new"] /\ StartPush(t, c) /\ UNCHANGED <<cur, tied>>
    BY <1>4 DEF Create
  <2>2. Born \subseteq Born' /\ c \in Born'
    BY <1>1, <2>1 DEF Born, Inv, PoliciesTypeOK
  <2>3. queues' \in [Queues -> Seq(Born')]
    BY <1>2, <2>2, SeqMonotone DEF Inv, PoliciesTypeOK
  <2>4. /\ pc' \in [WDs -> Places]
        /\ \A v \in WDs : pc'[v] \in {"unborn", "new"} => pc[v] \in {"unborn", "new"}
        /\ \A v \in Tasks : pc'[v] # "unborn" => pc[v] # "unborn" \/ Parent[v] \in WDs
    BY <1>1, <2>1, NamesApart DEF Inv, PoliciesTypeOK, Places
  <2> QED
    BY <1>2, <2>1, <2>2, <2>3, <2>4, StartPushType, SteadyStep
<1> QED
  BY <1>3, <1>4

LEMMA PushStep ==
  ASSUME Inv, NEW t \in Threads, Push(t)
  PROVE  Inv'
<1>1. PICK q \in Queues : \E i \in 0..Len(queues[q]) :
         queues' = [queues EXCEPT ![q] = InsertAt(@, i + 1, pushing[t])]
  BY DEF Push
<1>0. PICK i \in 0..Len(queues[q]) :
         queues' = [queues EXCEPT ![q] = InsertAt(@, i + 1, pushing[t])]
  BY <1>1
<1>2. pushing[t] \in Born
  BY DEF Push, Inv, PoliciesTypeOK
<1>3. pushing' = [pushing EXCEPT ![t] = None] /\ UNCHANGED <<setup, pc, cur, under, tied>>
  BY DEF Push
<1>4. Born' = Born
  BY <1>3 DEF Born
<1>5. InsertAt(queues[q], i + 1, pushing[t]) \in Seq(Born)
  BY <1>2, InsertAtElements DEF Inv, PoliciesTypeOK
<1> QED
  BY <1>0, <1>3, <1>4, <1>5, SteadyStep DEF Inv, PoliciesTypeOK

\* The steps of a WD that waits, ends or begins to search change only its place.
LEMMA PlaceStep ==
  ASSUME Inv, NEW w \in Born, NEW place \in Places \ {"unborn", "new"},
         pc' = [pc EXCEPT ![w] = place], UNCHANGED <<setup, cur, queues, pushing, under, tied>>
  PROVE  Inv'
<1>1. /\ pc' \in [WDs -> Places]
      /\ \A v \in WDs : pc'[v] \in {"unborn", "new"} => pc[v] \in {"unborn", "new"}
      /\ \A v \in Tasks : pc'[v] # "unborn" => pc[v] # "unborn" \/ Parent[v] \in WDs
  BY NamesApart DEF Inv, PoliciesTypeOK, Born
<1>2. Born \subseteq Born'
  BY <1>1 DEF Inv, PoliciesTypeOK, Born
<1>3. queues' \in [Queues -> Seq(Born')] /\ pushing' \in [Threads -> Born' \cup {None}]
  BY <1>2, SeqMonotone DEF Inv, PoliciesTypeOK
<1> QED
  BY <1>1, <1>3, SteadyStep

LEMMA OverStep ==
  ASSUME Inv, NEW t \in Threads, WaitForChildren(t, cur[t]) \/ Over(t, cur[t])
  PROVE  Inv'
<1>1. cur[t] \in Born
  BY DEF Inv, PoliciesTypeOK, NotBegun, Born
<1>2. \E place \in Places \ {"unborn", "new"} : pc' = [pc EXCEPT ![cur[t]] = place]
  BY DEF WaitForChildren, Over, Places
<1> QED
  BY <1>1, <1>2, PlaceStep DEF WaitForChildren, Over

LEMMA SignalInv ==
  ASSUME Inv, NEW t \in Threads, NEW w \in Tasks, Signal(t, w), cur[t] = w
  PROVE  Inv'
<1> DEFINE p == Parent[w]
<1>1. pc' = [v \in WDs |-> IF v = w THEN "leave"
                          ELSE IF v = p /\ pc[p] = "blocked" THEN "wait" ELSE pc[v]]
  BY DEF Signal
<1>2. /\ pc' \in [WDs -> Places]
      /\ \A v \in WDs : pc'[v] \in {"unborn", "new"} => pc[v] \in {"unborn", "new"}
      /\ \A v \in Tasks : pc'[v] # "unborn" => pc[v] # "unborn" \/ Parent[v] \in WDs
  BY <1>1, NamesApart DEF Inv, PoliciesTypeOK, Places, Signal, Free
<1>3. Born \subseteq Born'
  BY <1>1 DEF Inv, PoliciesTypeOK, Born, Places
<1>4. queues' \in [Queues -> Seq(Born')]
  BY <1>3, SeqMonotone DEF Signal, Inv, PoliciesTypeOK
<1>5. pushing' \in [Threads -> Born' \cup {None}]
  <2>1. CASE pc[p] = "blocked"
    <3>1. WakeUp(t, p)
      BY <2>1 DEF Signal
    <3>2. pushing' = [pushing EXCEPT ![t] = p]
      BY <3>1 DEF WakeUp, StartPush, StartPushTo
    <3>3. p \in Born
      BY <2>1 DEF Signal, Free, Inv, Parented, Born
    <3> QED
      BY <1>3, <3>2, <3>3 DEF Inv, PoliciesTypeOK
  <2>2. CASE pc[p] # "blocked"
    BY <1>3, <2>2 DEF Signal, Inv, PoliciesTypeOK
  <2> QED
    BY <2>1, <2>2
<1> QED
  BY <1>2, <1>4, <1>5, SteadyStep DEF Signal

LEMMA LeaveStep ==
  ASSUME Inv, NEW t \in Threads, Leave(t, cur[t])
  PROVE  Inv'
<1> DEFINE w == cur[t]
<1>1. w \in Born /\ w \in WDs /\ pc[w] = "leave" /\ UNCHANGED <<setup, queues, pushing, tied>>
  BY DEF Leave, Free, Inv, PoliciesTypeOK, Born
<1>2. CASE under[w] = None
  <2>1. pc' = [pc EXCEPT ![w] = "seek"] /\ UNCHANGED <<cur, under>>
    BY <1>2 DEF Leave
  <2> QED
    BY <1>1, <2>1, PlaceStep DEF Places
<1>3. CASE under[w] # None
  <2>1. /\ pc' = [pc EXCEPT ![w] = "gone"] /\ cur' = [cur EXCEPT ![t] = under[w]]
        /\ under' = [under EXCEPT ![w] = None]
    BY <1>3 DEF Leave
  <2>2. under[w] = t /\ t \in WDs
    BY <1>1, <1>3, NamesApart DEF Inv, PoliciesTypeOK, Inlined, RunsWhatItMay
  <2>3. Born \subseteq Born'
    BY <1>1, <2>1 DEF Inv, PoliciesTypeOK, Born
  <2>4. PoliciesTypeOK'
    BY <1>1, <2>1, <2>2, <2>3, SeqMonotone DEF Inv, PoliciesTypeOK, Places
  <2>5. NotBegun'
    BY <1>1, <2>1, <2>2 DEF Inv, PoliciesTypeOK, NotBegun, Inlined
  <2>6. Inlined'
    BY <1>1, <2>1, NamesApart DEF Inv, PoliciesTypeOK, Inlined
  <2>7. RunsWhatItMay'
    BY <1>1, <2>1, <2>2, NamesApart DEF Inv, PoliciesTypeOK, RunsWhatItMay, Inlined, Fits, ForDevice
  <2>8. Parented'
    BY <1>1, <2>1, NamesApart DEF Inv, PoliciesTypeOK, Parented, Parent
  <2> QED
    BY <2>4, <2>5, <2>6, <2>7, <2>8 DEF Inv
<1> QED
  BY <1>2, <1>3

\* The steps of a search that find nothing change only what the search is at.
LEMMA SearchStep ==
  ASSUME Inv, UNCHANGED <<setup, pc, cur, queues, pushing, under, tied>>
  PROVE  Inv'
<1>1. Born' = Born
  BY DEF Born
<1> QED
  BY <1>1, SteadyStep DEF Inv, PoliciesTypeOK

LEMMA PopStep ==
  ASSUME Inv, NEW t \in Threads, NEW q \in Queues, NEW end, NEW over, PopFrom(t, q, end, over)
  PROVE  Inv'
<1>1. CASE \E i \in DOMAIN queues[q] : Found(t, q, end, i) /\ TakeFrom(t, q, i)
  BY <1>1, TakeStep DEF Found
<1>2. CASE UNCHANGED <<setup, pc, cur, queues, mine, pushing, under, tied, comps, wakeQ, crashed>>
  BY <1>2, SearchStep
<1> QED
  BY <1>1, <1>2 DEF PopFrom

LEMMA ThreadStepInv ==
  ASSUME Inv, NEW t \in Threads, ThreadStep(t)
  PROVE  Inv'
<1>1. CASE Push(t)
  BY <1>1, PushStep
<1>2. CASE \E c \in Tasks : Create(t, cur[t], c)
  BY <1>2, CreateStep
<1>3. CASE WaitForChildren(t, cur[t]) \/ Over(t, cur[t])
  BY <1>3, OverStep
<1>4. CASE Leave(t, cur[t])
  BY <1>4, LeaveStep
<1>5. CASE BeginSearch(t, cur[t]) \/ Choose(t) \/ SeeEnqueued(t) \/ ReadMyQueue(t)
  BY <1>5, SearchStep DEF BeginSearch, Choose, SeeEnqueued, ReadMyQueue
<1>6. CASE NextWD(t, cur[t])
  <2>1. NextQueue(t) \in Queues
    BY DEF Queues
  <2> QED
    BY <1>6, <2>1, TakeStep DEF NextWD, Found
<1>7. CASE Pop(t) \/ PopChosen(t)
  BY <1>7, PopStep DEF Pop, PopChosen
<1>8. CASE RemoveParent(t)
  <2>1. CASE UNCHANGED <<setup, pc, cur, queues, mine, pushing, under, tied, comps, wakeQ, crashed>>
    BY <2>1, SearchStep
  <2>2. CASE \E q \in Queues : \E i \in DOMAIN queues[q] :
               CanRun(queues[q][i], t) /\ TakeFrom(t, q, i)
    BY <2>2, TakeStep
  <2> QED
    BY <1>8, <2>1, <2>2 DEF RemoveParent
<1> QED
  BY <1>1, <1>2, <1>3, <1>4, <1>5, <1>6, <1>7, <1>8 DEF ThreadStep

(* Each step of the policies keeps the invariant. *)
LEMMA PoliciesStep == Inv /\ [PoliciesNext]_policiesVars => Inv'
<1> SUFFICES ASSUME Inv, [PoliciesNext]_policiesVars PROVE Inv'
  OBVIOUS
<1>1. CASE \E t \in Threads : ThreadStep(t)
  BY <1>1, ThreadStepInv
<1>2. CASE \E t \in Threads : SignalStep(t)
  BY <1>2, SignalInv DEF SignalStep
<1>3. CASE UNCHANGED policiesVars
  BY <1>3, SearchStep DEF policiesVars
<1> QED
  BY <1>1, <1>2, <1>3 DEF PoliciesNext

(* Whatever the policy, a thread never runs a WD that is tied to another thread or that
   it cannot run: the test is made of the very WD that is taken, under the lock of its
   queue (wddeque.hpp:99-116, 138-156, 178-190), and what is tied or inlined stays so. *)
THEOREM RunsWhatItMayHolds == PoliciesSpec => []RunsWhatItMay
<1>1. Inv => RunsWhatItMay
  BY DEF Inv
<1> QED
  BY InitInv, PoliciesStep, <1>1, PTL DEF PoliciesSpec

\* In the composition a step of commutative accesses leaves the policies alone.
LEMMA TogetherStep == [SchedulingNext]_allVars => [PoliciesNext]_policiesVars
  BY DEF SchedulingNext, PolicyStep, AccessStep, allVars

(* The same where the policies take turns with the programs with commutative accesses. *)
THEOREM RunsWhatItMayTogether == SchedulingSpec => []RunsWhatItMay
<1>1. SchedulingInit => Inv
  BY InitInv DEF SchedulingInit
<1>2. Inv /\ [SchedulingNext]_allVars => Inv'
  BY PoliciesStep, TogetherStep
<1>3. Inv => RunsWhatItMay
  BY DEF Inv
<1> QED
  BY <1>1, <1>2, <1>3, PTL DEF SchedulingSpec

-----------------------------------------------------------------------------
(* Where the WDs are. *)

Running == {cur[t] : t \in Threads}
Beneath == {under[v] : v \in WDs} \ {None}
InPush == {pushing[t] : t \in Threads} \ {None}
InQueue == {w \in WDs : \E q \in Queues : w \in Range(queues[q])}
Placed == {w \in WDs : pc[w] \notin {"unborn", "blocked", "gone"}}

\* No WD is at two places of a kind; that no two queues have it, MyQueue says.
Single ==
    /\ \A t, u \in Threads : cur[t] = cur[u] => t = u
    /\ \A v, w \in WDs : under[v] = under[w] /\ under[v] # None => v = w
    /\ \A t, u \in Threads : pushing[t] = pushing[u] /\ pushing[t] # None => t = u
    /\ \A q \in Queues : IsInjective(queues[q])

\* Nor at places of two kinds, and just the WDs that are alive and not blocked are somewhere.
Elsewhere ==
    /\ Running \cap Beneath = {} /\ Running \cap InPush = {} /\ Running \cap InQueue = {}
    /\ Beneath \cap InPush = {} /\ Beneath \cap InQueue = {} /\ InPush \cap InQueue = {}
    /\ Running \cup Beneath \cup InPush \cup InQueue = Placed

\* _myQueue is set where it has to be, and names the queue that a WD is in.
MyQueue ==
    /\ mine \in [WDs -> Nat \cup {None}]
    /\ \A w \in WDs : mine[w] # None <=> w \in InPush \cup InQueue
    /\ \A q \in Queues : \A w \in Range(queues[q]) : mine[w] = q

\* Who looks for a WD waits, is over or is idle, and has nothing to push.
SearchOK ==
    /\ look = [t \in Threads |-> look[t]]
    /\ \A t \in Threads :
          look[t] # NotLooking => pushing[t] = None /\ pc[cur[t]] \in {"wait", "seek", "idle"}

\* Workers' own WDs are idle for ever; a task of the socket policy has its queue from the start.
Settled ==
    /\ setup \in Setups
    /\ wakeQ \in [WDs -> Nat \cup {None}]
    /\ \A w \in WDs : pc[w] = "idle" <=> w \in Threads \ {0}
    /\ \A t \in Threads \ {0} : tied[t] = t
    /\ policy = "socket" => \A w \in Tasks : pc[w] # "unborn" => wakeQ[w] \in Nat

Held == Single /\ Elsewhere /\ MyQueue /\ SearchOK /\ Settled

LEMMA RunsInstead ==
  ASSUME Inv, Single, NEW t \in Threads, NEW x \in WDs, x \notin Running,
         cur' = [cur EXCEPT ![t] = x]
  PROVE  /\ Running' = (Running \ {cur[t]}) \cup {x}
         /\ \A u, v \in Threads : cur'[u] = cur'[v] => u = v
<1>1. \A u \in Threads : cur'[u] = IF u = t THEN x ELSE cur[u]
  BY DEF Inv, PoliciesTypeOK
<1>2. Running' = (Running \ {cur[t]}) \cup {x}
  BY <1>1 DEF Running, Single
<1>3. \A u, v \in Threads : cur'[u] = cur'[v] => u = v
  BY <1>1 DEF Running, Single
<1> QED
  BY <1>2, <1>3

LEMMA PushBegun ==
  ASSUME Inv, Single, NEW t \in Threads, NEW w \in WDs, w \notin InPush, pushing[t] = None,
         pushing' = [pushing EXCEPT ![t] = w]
  PROVE  /\ InPush' = InPush \cup {w}
         /\ \A u, v \in Threads : pushing'[u] = pushing'[v] /\ pushing'[u] # None => u = v
<1>1. w # None
  BY NamesApart
<1>2. \A u \in Threads : pushing'[u] = IF u = t THEN w ELSE pushing[u]
  BY DEF Inv, PoliciesTypeOK
<1>3. InPush' = InPush \cup {w}
  BY <1>1, <1>2 DEF InPush
<1>4. \A u, v \in Threads : pushing'[u] = pushing'[v] /\ pushing'[u] # None => u = v
  BY <1>1, <1>2 DEF InPush, Single
<1> QED
  BY <1>3, <1>4

LEMMA PushEnded ==
  ASSUME Inv, Single, NEW t \in Threads, pushing[t] # None,
         pushing' = [pushing EXCEPT ![t] = None]
  PROVE  /\ InPush' = InPush \ {pushing[t]}
         /\ \A u, v \in Threads : pushing'[u] = pushing'[v] /\ pushing'[u] # None => u = v
<1>1. \A u \in Threads : pushing'[u] = IF u = t THEN None ELSE pushing[u]
  BY DEF Inv, PoliciesTypeOK
<1> QED
  BY <1>1 DEF InPush, Single

LEMMA LaidBeneath ==
  ASSUME Inv, Single, NEW x \in WDs, NEW u \in WDs, u \notin Beneath, under[x] = None,
         under' = [under EXCEPT ![x] = u]
  PROVE  /\ Beneath' = Beneath \cup {u}
         /\ \A v, w \in WDs : under'[v] = under'[w] /\ under'[v] # None => v = w
<1>1. u # None
  BY NamesApart
<1>2. \A v \in WDs : under'[v] = IF v = x THEN u ELSE under[v]
  BY DEF Inv, PoliciesTypeOK
<1>3. Beneath' = Beneath \cup {u}
  BY <1>1, <1>2 DEF Beneath
<1>4. \A v, w \in WDs : under'[v] = under'[w] /\ under'[v] # None => v = w
  BY <1>1, <1>2 DEF Beneath, Single
<1> QED
  BY <1>3, <1>4

LEMMA LaidBare ==
  ASSUME Inv, Single, NEW x \in WDs, under[x] # None, under' = [under EXCEPT ![x] = None]
  PROVE  /\ Beneath' = Beneath \ {under[x]}
         /\ \A v, w \in WDs : under'[v] = under'[w] /\ under'[v] # None => v = w
<1>1. \A v \in WDs : under'[v] = IF v = x THEN None ELSE under[v]
  BY DEF Inv, PoliciesTypeOK
<1> QED
  BY <1>1 DEF Beneath, Single

LEMMA QueueTypes ==
  ASSUME Inv, NEW q \in Queues
  PROVE  queues[q] \in Seq(Born) /\ Range(queues[q]) \subseteq Born /\ Born \subseteq WDs
<1>1. queues[q] \in Seq(Born)
  BY DEF Inv, PoliciesTypeOK
<1>2. Range(queues[q]) \subseteq Born
  BY <1>1 DEF Range
<1> QED
  BY <1>1, <1>2 DEF Born

\* A WD is put in a queue.
LEMMA Inserted ==
  ASSUME Inv, Single, NEW q \in Queues, NEW i \in 0..Len(queues[q]), NEW w \in Born,
         w \notin InQueue, queues' = [queues EXCEPT ![q] = InsertAt(@, i + 1, w)]
  PROVE  /\ InQueue' = InQueue \cup {w}
         /\ \A r \in Queues : IsInjective(queues'[r])
         /\ \A r \in Queues :
               Range(queues'[r]) = Range(queues[r]) \cup IF r = q THEN {w} ELSE {}
<1>1. \A r \in Queues : queues'[r] = IF r = q THEN InsertAt(queues[q], i + 1, w) ELSE queues[r]
  BY DEF Inv, PoliciesTypeOK
<1>2. queues[q] \in Seq(Born) /\ w \notin Range(queues[q]) /\ w \in WDs
  BY QueueTypes DEF InQueue, Born
<1>3. IsInjective(queues[q])
  BY DEF Single
<1>4. /\ IsInjective(InsertAt(queues[q], i + 1, w))
      /\ Range(InsertAt(queues[q], i + 1, w)) = Range(queues[q]) \cup {w}
  BY <1>2, <1>3, InsertAtOnce
<1>5. \A r \in Queues : IsInjective(queues'[r])
  BY <1>1, <1>4 DEF Single
<1>6. \A r \in Queues : Range(queues'[r]) = Range(queues[r]) \cup IF r = q THEN {w} ELSE {}
  BY <1>1, <1>4
<1>7. InQueue' = InQueue \cup {w}
  BY <1>2, <1>6 DEF InQueue
<1> QED
  BY <1>5, <1>6, <1>7

\* A WD is taken from a queue.
LEMMA Taken ==
  ASSUME Inv, Single, MyQueue, NEW q \in Queues, NEW i \in DOMAIN queues[q],
         queues' = [queues EXCEPT ![q] = RemoveAt(@, i)]
  PROVE  /\ queues[q][i] \in InQueue \cap Born
         /\ InQueue' = InQueue \ {queues[q][i]}
         /\ \A r \in Queues : IsInjective(queues'[r])
         /\ \A r \in Queues : Range(queues'[r]) = Range(queues[r]) \ {queues[q][i]}
<1> DEFINE x == queues[q][i]
<1>1. \A r \in Queues : queues'[r] = IF r = q THEN RemoveAt(queues[q], i) ELSE queues[r]
  BY DEF Inv, PoliciesTypeOK
<1>2. queues[q] \in Seq(Born) /\ x \in Range(queues[q])
  BY QueueTypes DEF Range
<1>3. x \in Born /\ x \in WDs
  BY <1>2, QueueTypes
<1>4. IsInjective(queues[q])
  BY DEF Single
<1>5. /\ IsInjective(RemoveAt(queues[q], i))
      /\ Range(RemoveAt(queues[q], i)) = Range(queues[q]) \ {x}
  BY <1>2, <1>4, RemoveAtOnce
<1> HIDE DEF x
<1>6. \A r \in Queues : IsInjective(queues'[r])
  BY <1>1, <1>5 DEF Single
<1>7. \A r \in Queues : x \in Range(queues[r]) => r = q
  BY <1>2 DEF MyQueue
<1>8. \A r \in Queues : Range(queues'[r]) = Range(queues[r]) \ {x}
  BY <1>1, <1>5, <1>7
<1>9. InQueue' = InQueue \ {x}
  BY <1>8 DEF InQueue
<1>10. x \in InQueue \cap Born
  BY <1>2, <1>3 DEF InQueue
<1> QED
  BY <1>6, <1>8, <1>9, <1>10 DEF x

\* Who runs or is queued is alive, and a thread's search is its own.
LEMMA HeldFacts ==
  ASSUME Inv, Held, NEW t \in Threads
  PROVE  /\ cur[t] \in Running \cap Born \cap Placed /\ cur[t] \in WDs
         /\ pc[cur[t]] = "idle" => cur[t] = t /\ t # 0
<1>1. cur[t] \in WDs /\ cur[t] \in Born /\ cur[t] \in Running
  BY DEF Inv, PoliciesTypeOK, NotBegun, Born, Running
<1>2. cur[t] \in Placed
  BY <1>1 DEF Held, Elsewhere
<1>3. ASSUME pc[cur[t]] = "idle" PROVE cur[t] = t /\ t # 0
  <2>1. cur[t] \in Threads \ {0} /\ tied[cur[t]] = cur[t]
    BY <1>1, <1>3 DEF Held, Settled
  <2> QED
    BY <2>1, NamesApart DEF Inv, RunsWhatItMay
<1> QED
  BY <1>1, <1>2, <1>3

-----------------------------------------------------------------------------
(* Each step keeps them there. *)

LEMMA HeldInit == PoliciesInit => Held
<1> SUFFICES ASSUME PoliciesInit PROVE Held
  OBVIOUS
<1> USE DEF PoliciesInit
<1>1. Running = Threads /\ Beneath = {} /\ InPush = {} /\ InQueue = {}
  BY NamesApart DEF Running, Beneath, InPush, InQueue, Range
<1>2. Placed = Threads
  BY NamesApart DEF Placed, WDs
<1>3. Elsewhere
  BY <1>1, <1>2 DEF Elsewhere
<1>4. Single
  BY NamesApart DEF Single, IsInjective
<1>5. MyQueue
  BY <1>1 DEF MyQueue, Range
<1>6. SearchOK
  BY DEF SearchOK
<1>7. Settled
  <2>1. \A w \in WDs : pc[w] = "idle" <=> w \in Threads \ {0}
    BY NamesApart
  <2>2. \A w \in Tasks : pc[w] = "unborn"
    BY NamesApart
  <2> QED
    BY <2>1, <2>2, NamesApart DEF Settled
<1> QED
  BY <1>3, <1>4, <1>5, <1>6, <1>7 DEF Held

\* Settled goes by what wakeQ, tied and pc say.
LEMMA SettledKept ==
  ASSUME Inv, Settled, UNCHANGED setup,
         wakeQ' \in [WDs -> Nat \cup {None}],
         \A w \in WDs : wakeQ[w] \in Nat => wakeQ'[w] \in Nat,
         \A w \in WDs : pc'[w] = "idle" <=> pc[w] = "idle",
         \A w \in Threads \ {0} : tied'[w] = tied[w],
         policy = "socket" => \A w \in Tasks : pc'[w] # "unborn" /\ pc[w] = "unborn" => wakeQ'[w] \in Nat
  PROVE  Settled'
<1>1. policy' = policy
  BY DEF policy
<1>2. Tasks \subseteq WDs
  BY NamesApart
<1>3. policy = "socket" => \A w \in Tasks : pc'[w] # "unborn" => wakeQ'[w] \in Nat
  BY <1>2 DEF Settled
<1> QED
  BY <1>1, <1>3 DEF Settled

\* The steps that leave every WD where it is.
LEMMA HeldStill ==
  ASSUME Inv, Held, UNCHANGED <<setup, cur, queues, mine, pushing, under, tied, wakeQ>>,
         \A w \in WDs : \/ pc'[w] = pc[w]
                        \/ /\ w \in Running /\ pc[w] # "idle"
                           /\ pc'[w] \notin {"unborn", "blocked", "gone", "idle"},
         SearchOK'
  PROVE  Held'
<1>1. Running' = Running /\ Beneath' = Beneath /\ InPush' = InPush /\ InQueue' = InQueue
  BY DEF Running, Beneath, InPush, InQueue
<1>2. Running \subseteq Placed
  BY DEF Held, Elsewhere
<1>3. Placed' = Placed
  BY <1>2 DEF Placed
<1>4. Elsewhere'
  BY <1>1, <1>3 DEF Held, Elsewhere
<1>5. Single'
  BY DEF Held, Single
<1>6. MyQueue'
  BY <1>1 DEF Held, MyQueue
<1>7. Settled'
  <2>1. \A w \in WDs : pc'[w] = "idle" <=> pc[w] = "idle"
    OBVIOUS
  <2>2. \A w \in Tasks : pc'[w] # "unborn" => pc[w] # "unborn"
    BY <1>2, NamesApart DEF Placed
  <2> QED
    BY <2>1, <2>2, SettledKept DEF Held, Settled
<1> QED
  BY <1>4, <1>5, <1>6, <1>7 DEF Held

LEMMA SearchGoesOn ==
  ASSUME Held, NEW t \in Threads, NEW k, NEW q, GoOn(t, k, q), UNCHANGED <<pc, cur, pushing>>,
         pushing[t] = None, pc[cur[t]] \in {"wait", "seek", "idle"}
  PROVE  SearchOK'
<1>1. PICK l : look' = [look EXCEPT ![t] = l]
  BY DEF GoOn
<1>2. look' = [u \in Threads |-> IF u = t THEN l ELSE look[u]]
  BY <1>1 DEF Held, SearchOK
<1> QED
  BY <1>2 DEF Held, SearchOK

\* A search goes on from a step of the search.
LEMMA LooksOn ==
  ASSUME Inv, Held, NEW t \in Threads, look[t] # NotLooking, NEW k, NEW q, GoOn(t, k, q),
         UNCHANGED <<setup, pc, cur, queues, mine, pushing, under, tied, wakeQ>>
  PROVE  Held'
<1>1. SearchOK'
  BY SearchGoesOn DEF Held, SearchOK
<1> QED
  BY <1>1, HeldStill

LEMMA BeginHeld ==
  ASSUME Inv, Held, NEW t \in Threads, BeginSearch(t, cur[t])
  PROVE  Held'
<1>1. pushing[t] = None /\ pc[cur[t]] \in {"wait", "seek", "idle"} /\ GoOn(t, 1, None)
  BY DEF BeginSearch, Free
<1>2. SearchOK'
  BY <1>1, SearchGoesOn DEF BeginSearch
<1> QED
  BY <1>2, HeldStill DEF BeginSearch

\* A running WD goes to another place of its life.
LEMMA PlaceHeld ==
  ASSUME Inv, Held, NEW t \in Threads, look[t] = NotLooking, pc[cur[t]] # "idle",
         NEW place \in Places \ {"unborn", "blocked", "gone", "idle"},
         pc' = [pc EXCEPT ![cur[t]] = place],
         UNCHANGED <<setup, cur, queues, mine, pushing, under, tied, wakeQ, look>>
  PROVE  Held'
<1> DEFINE w == cur[t]
<1>1. w \in WDs /\ w \in Running
  BY HeldFacts
<1>2. \A u \in Threads \ {t} : cur[u] # w
  BY DEF Held, Single
<1> HIDE DEF w
<1>3. \A v \in WDs : pc'[v] = IF v = w THEN place ELSE pc[v]
  BY DEF Inv, PoliciesTypeOK, w
<1>4. \A u \in Threads \ {t} : pc'[cur[u]] = pc[cur[u]]
  BY <1>2, <1>3 DEF Inv, PoliciesTypeOK
<1>5. SearchOK'
  BY <1>4 DEF Held, SearchOK
<1> QED
  BY <1>1, <1>3, <1>5, HeldStill DEF w

LEMMA OverHeld ==
  ASSUME Inv, Held, NEW t \in Threads, WaitForChildren(t, cur[t]) \/ Over(t, cur[t])
  PROVE  Held'
<1>1. look[t] = NotLooking /\ pc[cur[t]] # "idle"
  BY DEF WaitForChildren, Over, Free
<1>2. \E place \in Places \ {"unborn", "blocked", "gone", "idle"} :
         pc' = [pc EXCEPT ![cur[t]] = place]
  BY DEF WaitForChildren, Over, Places
<1> QED
  BY <1>1, <1>2, PlaceHeld DEF WaitForChildren, Over

\* The queue that a WD goes to has a number.
LEMMA QueueNumbered ==
  ASSUME Inv, Settled, NEW t \in Threads, NEW w \in WDs,
         \/ policy # "socket" \/ w \in Threads
         \/ wakeQ[w] \in Nat \/ Parent[w] = 0 \/ wakeQ[Parent[w]] \in Nat
  PROVE  QueueFor(t, w) \in Nat
<1>1. /\ policy \in {"wf", "dbf", "affinity", "socket"}
      /\ setup.home \in [Tasks -> Nat] /\ setup.space \in [Threads -> Nat]
  BY SetupsAssumption DEF Settled, policy
<1>2. Threads \subseteq Nat /\ None \notin Nat /\ (w \in Tasks \/ w \in Threads)
  BY PoliciesAssumption DEF Threads, None, WDs
<1>3. CASE policy \in {"wf", "dbf"}
  BY <1>2, <1>3 DEF QueueFor
<1>4. CASE policy = "affinity"
  <2>1. tied[w] # None => setup.space[tied[w]] \in Nat
    BY <1>1 DEF Inv, PoliciesTypeOK
  <2>2. w \in Tasks => setup.home[w] \in Nat
    BY <1>1
  <2> QED
    BY <1>4, <2>1, <2>2 DEF QueueFor
<1>5. CASE policy = "socket"
  <2>1. Distributed(w) \in Nat \/ (wakeQ[w] \in Nat /\ Depth(w) # 0)
    <3>1. CASE w \in Threads
      <4>1. Depth(w) = 0
        BY <3>1 DEF Depth
      <4>2. Distributed(w) = 0
        BY <4>1 DEF Distributed
      <4> QED
        BY <4>2
    <3>2. CASE w \notin Threads /\ Parent[w] = 0
      <4>1. Depth(w) = 1 /\ setup.home[w] \in Nat
        BY <1>1, <1>2, <3>2 DEF Depth
      <4>2. BigQueue(setup.home[w]) \in Nat
        BY <4>1 DEF BigQueue
      <4> QED
        BY <4>1, <4>2 DEF Distributed
    <3>3. CASE w \notin Threads /\ Parent[w] # 0 /\ wakeQ[w] \in Nat
      BY <3>3 DEF Depth
    <3>4. CASE w \notin Threads /\ Parent[w] # 0 /\ wakeQ[Parent[w]] \in Nat
      <4>1. Depth(w) = 2
        BY <3>4 DEF Depth
      <4>2. \A q \in Nat : (IF q % 2 # 0 THEN q + 1 ELSE q) \in Nat
        OBVIOUS
      <4> QED
        BY <3>4, <4>1, <4>2 DEF Distributed
    <3> QED
      BY <1>5, <3>1, <3>2, <3>3, <3>4
  <2>2. wakeQ[w] = None \/ wakeQ[w] \in Nat
    BY DEF Settled
  <2>3. Depth(w) = 0 => Distributed(w) \in Nat
    BY DEF Distributed
  <2>4. Distributed(w) \in Nat \/ (wakeQ[w] # None /\ Depth(w) # 0)
    BY <1>2, <2>1
  <2>5. QueueFor(t, w) = IF wakeQ[w] = None \/ Depth(w) = 0 THEN Distributed(w) ELSE wakeQ[w]
    BY <1>5 DEF QueueFor
  <2> QED
    BY <2>2, <2>4, <2>5
<1> QED
  BY <1>1, <1>3, <1>4, <1>5

\* A push sets where the WD goes, and no queue that was set is lost.
Starts(t, w) ==
    /\ pushing' = [pushing EXCEPT ![t] = w]
    /\ \E q \in Nat : mine' = [mine EXCEPT ![w] = q]
    /\ wakeQ' \in [WDs -> Nat \cup {None}]
    /\ \A v \in WDs : wakeQ[v] \in Nat => wakeQ'[v] \in Nat

LEMMA PushStarts ==
  ASSUME Inv, Settled, NEW t \in Threads, NEW w \in WDs,
         \/ policy # "socket" \/ w \in Threads
         \/ wakeQ[w] \in Nat \/ Parent[w] = 0 \/ wakeQ[Parent[w]] \in Nat,
         StartPush(t, w)
  PROVE  Starts(t, w) /\ (policy = "socket" /\ w \in Tasks => wakeQ'[w] \in Nat)
<1> DEFINE q == QueueFor(t, w)
<1>1. q \in Nat
  BY QueueNumbered
<1>2. w \in Tasks => Depth(w) > 0
  BY NamesApart DEF Depth
<1>3. /\ pushing' = [pushing EXCEPT ![t] = w] /\ mine' = [mine EXCEPT ![w] = q]
      /\ wakeQ' = IF policy = "socket" /\ Depth(w) > 0 THEN [wakeQ EXCEPT ![w] = q] ELSE wakeQ
  BY DEF StartPush, StartPushTo
<1> HIDE DEF q
<1>4. wakeQ' \in [WDs -> Nat \cup {None}] /\ \A v \in WDs : wakeQ[v] \in Nat => wakeQ'[v] \in Nat
  BY <1>1, <1>3 DEF Settled
<1>5. policy = "socket" /\ w \in Tasks => wakeQ'[w] \in Nat
  BY <1>1, <1>2, <1>3 DEF Settled
<1> QED
  BY <1>1, <1>3, <1>4, <1>5 DEF Starts

LEMMA WakeStarts ==
  ASSUME Inv, Settled, NEW t \in Threads, NEW p \in WDs, pc[p] # "unborn", WakeUp(t, p)
  PROVE  Starts(t, p)
<1> DEFINE u == IF CanRun(p, t) THEN t ELSE tied[p]
<1>1. u = None \/ u \in Threads
  BY DEF Inv, PoliciesTypeOK
<1>2. CASE u = None
  <2>1. StartPush(t, p)
    BY <1>2 DEF WakeUp
  <2>2. policy # "socket" \/ p \in Threads \/ wakeQ[p] \in Nat
    BY DEF Settled, WDs
  <2> QED
    BY <2>1, <2>2, PushStarts
<1>3. CASE u \in Threads
  <2>1. u # None /\ NextQueue(u) \in Nat
    BY <1>3, PoliciesAssumption DEF Threads, None, NextQueue
  <2>2. StartPushTo(t, p, NextQueue(u)) /\ UNCHANGED wakeQ
    BY <2>1 DEF WakeUp
  <2> HIDE DEF u
  <2> QED
    BY <2>1, <2>2 DEF StartPushTo, Starts, Settled
<1> QED
  BY <1>1, <1>2, <1>3

\* A WD that was nowhere is on its way to a queue.
LEMMA StartsHeld ==
  ASSUME Inv, Held, NEW t \in Threads, NEW w \in WDs, pushing[t] = None,
         w \notin InPush \cup InQueue, Starts(t, w)
  PROVE  /\ InPush' = InPush \cup {w}
         /\ \A u, v \in Threads : pushing'[u] = pushing'[v] /\ pushing'[u] # None => u = v
         /\ mine' \in [WDs -> Nat \cup {None}]
         /\ \A v \in WDs : mine'[v] # None <=> v \in InPush \cup InQueue \cup {w}
         /\ \A v \in WDs : v # w => mine'[v] = mine[v]
<1>1. /\ InPush' = InPush \cup {w}
      /\ \A u, v \in Threads : pushing'[u] = pushing'[v] /\ pushing'[u] # None => u = v
  BY PushBegun DEF Held, Starts
<1>2. PICK q \in Nat : mine' = [mine EXCEPT ![w] = q]
  BY DEF Starts
<1>3. None \notin Nat
  BY DEF None
<1> QED
  BY <1>1, <1>2, <1>3 DEF Held, MyQueue

LEMMA PushHeld ==
  ASSUME Inv, Held, NEW t \in Threads, Push(t)
  PROVE  Held'
<1> DEFINE w == pushing[t]
<1>0. /\ w # None /\ pushing' = [pushing EXCEPT ![t] = None]
      /\ UNCHANGED <<setup, pc, cur, mine, under, tied, wakeQ, look>>
  BY DEF Push
<1>1. w \in Born /\ w \in InPush /\ w \in WDs
  BY <1>0 DEF Inv, PoliciesTypeOK, InPush, Born
<1>2. PICK q \in Queues : \E i \in 0..Len(queues[q]) :
         q = mine[w] /\ queues' = [queues EXCEPT ![q] = InsertAt(@, i + 1, w)]
  BY DEF Push
<1>3. PICK i \in 0..Len(queues[q]) :
         q = mine[w] /\ queues' = [queues EXCEPT ![q] = InsertAt(@, i + 1, w)]
  BY <1>2
<1>4. w \notin InQueue
  BY <1>1 DEF Held, Elsewhere
<1>5. /\ InPush' = InPush \ {w}
      /\ \A u, v \in Threads : pushing'[u] = pushing'[v] /\ pushing'[u] # None => u = v
  BY <1>0, PushEnded DEF Held
<1> HIDE DEF w
<1>6. /\ InQueue' = InQueue \cup {w}
      /\ \A r \in Queues : IsInjective(queues'[r])
      /\ \A r \in Queues : Range(queues'[r]) = Range(queues[r]) \cup IF r = q THEN {w} ELSE {}
  BY <1>1, <1>3, <1>4, Inserted DEF Held
<1>7. Running' = Running /\ Beneath' = Beneath /\ Placed' = Placed
  BY <1>0 DEF Running, Beneath, Placed
<1>8. Elsewhere'
  BY <1>1, <1>5, <1>6, <1>7 DEF Held, Elsewhere
<1>9. Single'
  BY <1>0, <1>5, <1>6 DEF Held, Single
<1>10. MyQueue'
  <2>1. \A v \in WDs : mine'[v] # None <=> v \in InPush' \cup InQueue'
    BY <1>0, <1>1, <1>5, <1>6 DEF Held, MyQueue
  <2>2. \A r \in Queues : \A v \in Range(queues'[r]) : mine'[v] = r
    BY <1>0, <1>3, <1>6 DEF Held, MyQueue
  <2> QED
    BY <1>0, <2>1, <2>2 DEF Held, MyQueue
<1>11. SearchOK'
  <2>1. pushing' = [u \in Threads |-> IF u = t THEN None ELSE pushing[u]]
    BY <1>0 DEF Inv, PoliciesTypeOK
  <2> QED
    BY <1>0, <2>1 DEF Held, SearchOK
<1>12. Settled'
  BY <1>0, SettledKept DEF Held, Settled
<1> QED
  BY <1>8, <1>9, <1>10, <1>11, <1>12 DEF Held

LEMMA CreateHeld ==
  ASSUME Inv, Held, NEW t \in Threads, NEW c \in Tasks, Create(t, cur[t], c)
  PROVE  Held'
<1> DEFINE w == cur[t]
<1>1. /\ pushing[t] = None /\ look[t] = NotLooking /\ pc[w] = "body" /\ Parent[c] = w
      /\ pc[c] = "unborn" /\ UNCHANGED <<setup, queues, under, look>>
  BY DEF Create, Free
<1>2. w \in WDs /\ w \in Running /\ w \in Born /\ c \in WDs /\ c # w
  BY <1>1, HeldFacts, NamesApart
<1>3. c \notin Running \cup Beneath \cup InPush \cup InQueue
  BY <1>1, <1>2 DEF Held, Elsewhere, Placed
<1>4. w \notin Beneath \cup InPush \cup InQueue /\ w \in Placed
  BY <1>2 DEF Held, Elsewhere
<1>5. Beneath' = Beneath /\ InQueue' = InQueue
  BY <1>1 DEF Beneath, InQueue
<1>6. w \in Threads => w = 0
  BY <1>1, <1>2 DEF Held, Settled
<1>7. CASE policy = "wf" /\ Fits(c, t)
  <2>1. /\ pc' = [pc EXCEPT ![c] = "body"] /\ cur' = [cur EXCEPT ![t] = c]
        /\ tied' = [tied EXCEPT ![c] = IF c \in TiedTasks THEN t ELSE @]
        /\ StartPush(t, w)
    BY <1>7 DEF Create
  <2>2. policy # "socket"
    BY <1>7
  <2>3. Starts(t, w)
    BY <1>2, <2>1, <2>2, PushStarts DEF Held
  <2> HIDE DEF w
  <2>4. /\ InPush' = InPush \cup {w}
        /\ \A u, v \in Threads : pushing'[u] = pushing'[v] /\ pushing'[u] # None => u = v
        /\ mine' \in [WDs -> Nat \cup {None}]
        /\ \A v \in WDs : mine'[v] # None <=> v \in InPush \cup InQueue \cup {w}
        /\ \A v \in WDs : v # w => mine'[v] = mine[v]
    BY <1>1, <1>2, <1>4, <2>3, StartsHeld
  <2>5. /\ Running' = (Running \ {w}) \cup {c}
        /\ \A u, v \in Threads : cur'[u] = cur'[v] => u = v
    BY <1>2, <1>3, <2>1, RunsInstead DEF Held, w
  <2>6. \A v \in WDs : pc'[v] = IF v = c THEN "body" ELSE pc[v]
    BY <2>1 DEF Inv, PoliciesTypeOK
  <2>7. Placed' = Placed \cup {c}
    BY <1>2, <2>6 DEF Placed
  <2>8. Elsewhere'
    BY <1>2, <1>3, <1>4, <1>5, <2>4, <2>5, <2>7 DEF Held, Elsewhere
  <2>9. Single'
    BY <1>1, <2>4, <2>5 DEF Held, Single
  <2>10. MyQueue'
    <3>1. \A q \in Queues : \A v \in Range(queues[q]) : v # w /\ v \in WDs
      BY <1>4, QueueTypes DEF InQueue
    <3>2. \A q \in Queues : \A v \in Range(queues'[q]) : mine'[v] = q
      BY <1>1, <2>4, <3>1 DEF Held, MyQueue
    <3> QED
      BY <1>5, <2>4, <3>2 DEF MyQueue
  <2>11. SearchOK'
    BY <1>1, <1>3, <2>1, <2>3, <2>6 DEF Held, SearchOK, Starts, Inv, PoliciesTypeOK, Running
  <2>12. Settled'
    <3>1. \A v \in Threads \ {0} : tied'[v] = tied[v]
      BY <2>1, NamesApart DEF Inv, PoliciesTypeOK
    <3>2. \A v \in WDs : pc'[v] = "idle" <=> pc[v] = "idle"
      BY <1>1, <2>6
    <3> QED
      BY <1>1, <2>2, <2>3, <3>1, <3>2, SettledKept DEF Held, Starts
  <2> QED
    BY <2>8, <2>9, <2>10, <2>11, <2>12 DEF Held
<1>8. CASE ~(policy = "wf" /\ Fits(c, t))
  <2>1. pc' = [pc EXCEPT ![c] = "new"] /\ StartPush(t, c) /\ UNCHANGED <<cur, tied>>
    BY <1>8 DEF Create
  <2>2. policy # "socket" \/ Parent[c] = 0 \/ wakeQ[Parent[c]] \in Nat
    <3>1. ASSUME policy = "socket", w # 0 PROVE wakeQ[w] \in Nat
      <4>1. w \in Tasks
        BY <1>2, <1>6, <3>1 DEF WDs
      <4> QED
        BY <1>1, <3>1, <4>1 DEF Held, Settled
    <3> QED
      BY <1>1, <3>1
  <2>3. Starts(t, c) /\ (policy = "socket" => wakeQ'[c] \in Nat)
    BY <1>2, <2>1, <2>2, PushStarts DEF Held
  <2> HIDE DEF w
  <2>4. /\ InPush' = InPush \cup {c}
        /\ \A u, v \in Threads : pushing'[u] = pushing'[v] /\ pushing'[u] # None => u = v
        /\ mine' \in [WDs -> Nat \cup {None}]
        /\ \A v \in WDs : mine'[v] # None <=> v \in InPush \cup InQueue \cup {c}
        /\ \A v \in WDs : v # c => mine'[v] = mine[v]
    BY <1>1, <1>2, <1>3, <2>3, StartsHeld
  <2>5. Running' = Running
    BY <2>1 DEF Running
  <2>6. \A v \in WDs : pc'[v] = IF v = c THEN "new" ELSE pc[v]
    BY <2>1 DEF Inv, PoliciesTypeOK
  <2>7. Placed' = Placed \cup {c}
    BY <1>2, <2>6 DEF Placed
  <2>8. Elsewhere'
    BY <1>2, <1>3, <1>5, <2>4, <2>5, <2>7 DEF Held, Elsewhere
  <2>9. Single'
    BY <1>1, <2>1, <2>4 DEF Held, Single
  <2>10. MyQueue'
    <3>1. \A q \in Queues : \A v \in Range(queues[q]) : v # c /\ v \in WDs
      BY <1>3, QueueTypes DEF InQueue
    <3>2. \A q \in Queues : \A v \in Range(queues'[q]) : mine'[v] = q
      BY <1>1, <2>4, <3>1 DEF Held, MyQueue
    <3> QED
      BY <1>5, <2>4, <3>2 DEF MyQueue
  <2>11. SearchOK'
    <3>1. \A u \in Threads : cur[u] # c /\ cur[u] \in WDs
      BY <1>3 DEF Running, Inv, PoliciesTypeOK
    <3>2. \A u \in Threads : pc'[cur'[u]] = pc[cur[u]]
      BY <2>1, <2>6, <3>1
    <3>3. \A u \in Threads \ {t} : pushing'[u] = pushing[u]
      BY <2>3 DEF Starts, Inv, PoliciesTypeOK
    <3> QED
      BY <1>1, <3>2, <3>3 DEF Held, SearchOK
  <2>12. Settled'
    <3>1. \A v \in WDs : pc'[v] = "idle" <=> pc[v] = "idle"
      BY <1>1, <2>6
    <3>2. \A v \in Tasks : pc'[v] # "unborn" /\ pc[v] = "unborn" => v = c
      BY <2>6, NamesApart
    <3> QED
      BY <1>1, <2>1, <2>3, <3>1, <3>2, SettledKept DEF Held, Starts
  <2> QED
    BY <2>8, <2>9, <2>10, <2>11, <2>12 DEF Held
<1> QED
  BY <1>7, <1>8

LEMMA SignalHeld ==
  ASSUME Inv, Held, NEW t \in Threads, SignalStep(t)
  PROVE  Held'
<1> DEFINE w == cur[t]
           p == Parent[w]
<1>1. /\ w \in Tasks /\ pushing[t] = None /\ look[t] = NotLooking /\ pc[w] = "signal"
      /\ pc' = [v \in WDs |-> IF v = w THEN "leave"
                              ELSE IF v = p /\ pc[p] = "blocked" THEN "wait" ELSE pc[v]]
      /\ IF pc[p] = "blocked" THEN WakeUp(t, p) ELSE UNCHANGED <<mine, pushing, wakeQ>>
      /\ UNCHANGED <<setup, cur, queues, under, tied, look>>
  BY DEF SignalStep, Signal, Free
<1>2. p \in WDs /\ w \in WDs /\ w \in Running
  BY <1>1, HeldFacts DEF Inv, Parented
<1>3. CASE pc[p] # "blocked"
  <2>1. pc' = [pc EXCEPT ![w] = "leave"]
    BY <1>1, <1>3 DEF Inv, PoliciesTypeOK
  <2> QED
    BY <1>1, <1>3, <2>1, PlaceHeld DEF Places
<1>4. CASE pc[p] = "blocked"
  <2>1. p # w /\ p \notin Placed /\ WakeUp(t, p)
    BY <1>1, <1>4 DEF Placed
  <2>2. p \notin Running \cup Beneath \cup InPush \cup InQueue
    BY <2>1 DEF Held, Elsewhere
  <2>3. Starts(t, p)
    BY <1>2, <1>4, <2>1, WakeStarts DEF Held
  <2>4. \A u \in Threads \ {t} : cur[u] # w
    BY DEF Held, Single
  <2> HIDE DEF w, p
  <2>5. /\ InPush' = InPush \cup {p}
        /\ \A u, v \in Threads : pushing'[u] = pushing'[v] /\ pushing'[u] # None => u = v
        /\ mine' \in [WDs -> Nat \cup {None}]
        /\ \A v \in WDs : mine'[v] # None <=> v \in InPush \cup InQueue \cup {p}
        /\ \A v \in WDs : v # p => mine'[v] = mine[v]
    BY <1>1, <1>2, <2>2, <2>3, StartsHeld
  <2>6. Running' = Running /\ Beneath' = Beneath /\ InQueue' = InQueue
    BY <1>1 DEF Running, Beneath, InQueue
  <2>7. \A v \in WDs : pc'[v] = IF v = w THEN "leave" ELSE IF v = p THEN "wait" ELSE pc[v]
    BY <1>1, <1>4
  <2>8. Placed' = Placed \cup {p}
    BY <1>1, <1>2, <2>7 DEF Placed
  <2>9. Elsewhere'
    BY <2>2, <2>5, <2>6, <2>8 DEF Held, Elsewhere
  <2>10. Single'
    BY <1>1, <2>5 DEF Held, Single
  <2>11. MyQueue'
    <3>1. \A q \in Queues : \A v \in Range(queues[q]) : v # p /\ v \in WDs
      BY <2>2, QueueTypes DEF InQueue
    <3>2. \A q \in Queues : \A v \in Range(queues'[q]) : mine'[v] = q
      BY <1>1, <2>5, <3>1 DEF Held, MyQueue
    <3> QED
      BY <2>5, <2>6, <3>2 DEF MyQueue
  <2>12. SearchOK'
    <3>1. \A u \in Threads : cur[u] # p /\ cur[u] \in WDs
      BY <2>2 DEF Running, Inv, PoliciesTypeOK
    <3>2. \A u \in Threads \ {t} : pc'[cur'[u]] = pc[cur[u]]
      BY <1>1, <2>4, <2>7, <3>1
    <3>3. \A u \in Threads \ {t} : pushing'[u] = pushing[u]
      BY <2>3 DEF Starts, Inv, PoliciesTypeOK
    <3> QED
      BY <1>1, <3>2, <3>3 DEF Held, SearchOK
  <2>13. Settled'
    <3>1. \A v \in WDs : pc'[v] = "idle" <=> pc[v] = "idle"
      BY <1>1, <1>4, <2>7
    <3>2. \A v \in Tasks : pc[v] = "unborn" => pc'[v] = "unborn"
      BY <1>1, <1>4, <2>7, NamesApart
    <3> QED
      BY <1>1, <2>3, <3>1, <3>2, SettledKept DEF Held, Starts
  <2> QED
    BY <2>9, <2>10, <2>11, <2>12, <2>13 DEF Held
<1> QED
  BY <1>3, <1>4

LEMMA LeaveHeld ==
  ASSUME Inv, Held, NEW t \in Threads, Leave(t, cur[t])
  PROVE  Held'
<1> DEFINE w == cur[t]
<1>1. /\ look[t] = NotLooking /\ pc[w] = "leave"
      /\ UNCHANGED <<setup, queues, mine, pushing, tied, wakeQ, look>>
  BY DEF Leave, Free
<1>2. w \in WDs /\ w \in Running /\ w \in Placed
  BY HeldFacts
<1>3. CASE under[w] = None
  <2>1. pc' = [pc EXCEPT ![w] = "seek"] /\ UNCHANGED <<cur, under>>
    BY <1>3 DEF Leave
  <2> QED
    BY <1>1, <2>1, PlaceHeld DEF Places
<1>4. CASE under[w] # None
  <2>1. /\ pc' = [pc EXCEPT ![w] = "gone"] /\ cur' = [cur EXCEPT ![t] = under[w]]
        /\ under' = [under EXCEPT ![w] = None]
    BY <1>4 DEF Leave
  <2> DEFINE u == under[w]
  <2>2. u \in Beneath /\ u \in WDs
    BY <1>2, <1>4, NamesApart DEF Beneath, Inv, PoliciesTypeOK
  <2>3. u \notin Running /\ u # w /\ w \notin Beneath
    BY <1>2, <2>2 DEF Held, Elsewhere
  <2>4. \A v \in Threads \ {t} : cur[v] # w
    BY DEF Held, Single
  <2>5. Beneath' = Beneath \ {u} /\ \A v, x \in WDs : under'[v] = under'[x] /\ under'[v] # None => v = x
    BY <1>2, <1>4, <2>1, LaidBare DEF Held
  <2> HIDE DEF u, w
  <2>6. Running' = (Running \ {w}) \cup {u} /\ \A v, x \in Threads : cur'[v] = cur'[x] => v = x
    BY <2>1, <2>2, <2>3, RunsInstead DEF Held, u, w
  <2>7. InPush' = InPush /\ InQueue' = InQueue
    BY <1>1 DEF InPush, InQueue
  <2>8. \A v \in WDs : pc'[v] = IF v = w THEN "gone" ELSE pc[v]
    BY <2>1 DEF Inv, PoliciesTypeOK
  <2>9. Placed' = Placed \ {w}
    BY <1>2, <2>8 DEF Placed
  <2>10. Elsewhere'
    BY <1>2, <2>2, <2>3, <2>5, <2>6, <2>7, <2>9 DEF Held, Elsewhere
  <2>11. Single'
    BY <1>1, <2>5, <2>6 DEF Held, Single
  <2>12. MyQueue'
    BY <1>1, <2>7 DEF Held, MyQueue
  <2>13. SearchOK'
    <3>1. \A v \in Threads \ {t} : cur'[v] = cur[v] /\ pc'[cur[v]] = pc[cur[v]]
      BY <2>1, <2>4, <2>8 DEF Inv, PoliciesTypeOK
    <3> QED
      BY <1>1, <3>1 DEF Held, SearchOK
  <2>14. Settled'
    <3>1. \A v \in WDs : pc'[v] = "idle" <=> pc[v] = "idle"
      BY <1>1, <2>8
    <3>2. \A v \in Tasks : pc[v] = "unborn" => pc'[v] = "unborn"
      BY <1>1, <2>8, NamesApart
    <3> QED
      BY <1>1, <3>1, <3>2, SettledKept DEF Held, Settled
  <2> QED
    BY <2>10, <2>11, <2>12, <2>13, <2>14 DEF Held
<1> QED
  BY <1>3, <1>4

\* The WD found leaves its queue and runs; who looked for it blocks, is over, or, a worker's
\* own WD, lies beneath it or is pushed.
LEMMA TakeHeld ==
  ASSUME Inv, Held, NEW t \in Threads, NEW q \in Queues, NEW i \in DOMAIN queues[q],
         pushing[t] = None, pc[cur[t]] \in {"wait", "seek", "idle"}, TakeFrom(t, q, i)
  PROVE  Held'
<1> DEFINE x == queues[q][i]
           w == cur[t]
           back == pc[w] = "idle" /\ pc[x] # "new"
           laid == pc[w] = "idle" /\ pc[x] = "new"
<1>1. /\ cur' = [cur EXCEPT ![t] = x]
      /\ tied' = [tied EXCEPT ![x] =
                     IF pc[x] = "new" /\ (x \in TiedTasks \/ pc[w] = "idle") THEN t ELSE @]
      /\ under' = [under EXCEPT ![x] = IF laid THEN t ELSE @]
      /\ pc' = [pc EXCEPT ![x] = IF @ = "new" THEN "body" ELSE @,
                          ![w] = CASE @ = "wait" -> "blocked" [] @ = "seek" -> "gone"
                                   [] OTHER -> @]
      /\ look' = [look EXCEPT ![t] = NotLooking]
      /\ queues' = [queues EXCEPT ![q] = RemoveAt(@, i)]
      /\ mine' = IF back THEN [[mine EXCEPT ![x] = None] EXCEPT ![w] = QueueFor(t, w)]
                         ELSE [mine EXCEPT ![x] = None]
      /\ pushing' = IF back THEN [pushing EXCEPT ![t] = w] ELSE pushing
      /\ UNCHANGED <<setup, wakeQ>>
  BY DEF TakeFrom, SwitchTo
<1>2. /\ x \in InQueue \cap Born
      /\ InQueue' = InQueue \ {x}
      /\ \A r \in Queues : IsInjective(queues'[r])
      /\ \A r \in Queues : Range(queues'[r]) = Range(queues[r]) \ {x}
  BY <1>1, Taken DEF Held
<1>3. w \in Running /\ w \in WDs /\ w \in Placed /\ (pc[w] = "idle" => w = t /\ t # 0)
  BY HeldFacts
<1>4. x \in WDs /\ x # w /\ x \in Placed /\ pc[x] # "unborn"
  BY <1>2, <1>3 DEF Held, Elsewhere, InQueue, Placed
<1>5. x \notin Running \cup Beneath \cup InPush /\ w \notin Beneath \cup InPush \cup InQueue
  BY <1>2, <1>3 DEF Held, Elsewhere
<1>6. \A u \in Threads \ {t} : cur[u] # w /\ cur[u] # x
  BY <1>5 DEF Held, Single, Running
<1>7. back => QueueFor(t, w) \in Nat
  BY <1>3, QueueNumbered DEF Held
<1> HIDE DEF x, w
<1>8. Running' = (Running \ {w}) \cup {x} /\ \A u, v \in Threads : cur'[u] = cur'[v] => u = v
  BY <1>1, <1>4, <1>5, RunsInstead DEF Held, w
<1>9. \A v \in WDs : pc'[v] = CASE v = x /\ pc[x] = "new" -> "body"
                               [] v = w /\ pc[w] = "wait" -> "blocked"
                               [] v = w /\ pc[w] = "seek" -> "gone"
                               [] OTHER -> pc[v]
  <2>1. \A v \in WDs \ {x, w} : pc'[v] = pc[v]
    BY <1>1 DEF Inv, PoliciesTypeOK
  <2>2. pc'[x] = IF pc[x] = "new" THEN "body" ELSE pc[x]
    BY <1>1, <1>4 DEF Inv, PoliciesTypeOK
  <2>3. pc'[w] = CASE pc[w] = "wait" -> "blocked" [] pc[w] = "seek" -> "gone" [] OTHER -> pc[w]
    BY <1>1, <1>3, <1>4 DEF Inv, PoliciesTypeOK
  <2> QED
    BY <1>4, <2>1, <2>2, <2>3
<1>10. Placed' = IF pc[w] = "idle" THEN Placed ELSE Placed \ {w}
  <2>1. pc[w] \in {"wait", "seek", "idle"}
    BY DEF w
  <2>2. \A v \in WDs : v # w => (v \in Placed' <=> v \in Placed)
    BY <1>4, <1>9 DEF Placed
  <2>3. w \in Placed' <=> pc[w] = "idle"
    BY <1>3, <1>4, <1>9, <2>1 DEF Placed
  <2>4. Placed \subseteq WDs /\ Placed' \subseteq WDs
    BY DEF Placed
  <2> QED
    BY <1>3, <2>2, <2>3, <2>4
<1>11. InPush' = (InPush \cup IF back THEN {w} ELSE {})
       /\ \A u, v \in Threads : pushing'[u] = pushing'[v] /\ pushing'[u] # None => u = v
  <2>1. CASE back
    BY <1>1, <1>3, <1>5, <2>1, PushBegun DEF Held
  <2>2. CASE ~back
    BY <1>1, <2>2 DEF Held, Single, InPush
  <2> QED
    BY <2>1, <2>2
<1>12. Beneath' = (Beneath \cup IF laid THEN {w} ELSE {})
       /\ \A u, v \in WDs : under'[u] = under'[v] /\ under'[u] # None => u = v
  <2>1. CASE laid
    <3>1. under[x] = None /\ w = t
      BY <1>3, <1>4, <2>1 DEF Inv, NotBegun
    <3>2. under' = [under EXCEPT ![x] = w]
      BY <1>1, <2>1, <3>1
    <3> QED
      BY <1>3, <1>4, <1>5, <2>1, <3>1, <3>2, LaidBeneath DEF Held
  <2>2. CASE ~laid
    <3>1. under' = under
      BY <1>1, <2>2 DEF Inv, PoliciesTypeOK
    <3> QED
      BY <2>2, <3>1 DEF Held, Single, Beneath
  <2> QED
    BY <2>1, <2>2
<1>13. Elsewhere'
  <2>1. /\ Running \cap Beneath = {} /\ Running \cap InPush = {} /\ Running \cap InQueue = {}
        /\ Beneath \cap InPush = {} /\ Beneath \cap InQueue = {} /\ InPush \cap InQueue = {}
        /\ Running \cup Beneath \cup InPush \cup InQueue = Placed
    BY DEF Held, Elsewhere
  <2>2. x \in InQueue
    BY <1>2
  <2>3. CASE laid
    <3>1. Beneath' = Beneath \cup {w} /\ InPush' = InPush /\ Placed' = Placed
      BY <1>10, <1>11, <1>12, <2>3
    <3> QED
      BY <1>2, <1>3, <1>4, <1>5, <1>8, <2>1, <2>2, <3>1 DEF Elsewhere
  <2>4. CASE back
    <3>1. Beneath' = Beneath /\ InPush' = InPush \cup {w} /\ Placed' = Placed
      BY <1>10, <1>11, <1>12, <2>4
    <3> QED
      BY <1>2, <1>3, <1>4, <1>5, <1>8, <2>1, <2>2, <3>1 DEF Elsewhere
  <2>5. CASE ~laid /\ ~back
    <3>1. Beneath' = Beneath /\ InPush' = InPush /\ Placed' = Placed \ {w}
      BY <1>10, <1>11, <1>12, <2>5
    <3> QED
      BY <1>2, <1>3, <1>4, <1>5, <1>8, <2>1, <2>2, <3>1 DEF Elsewhere
  <2> QED
    BY <2>3, <2>4, <2>5
<1>14. Single'
  BY <1>2, <1>8, <1>11, <1>12 DEF Single
<1>15. MyQueue'
  <2>1. None \notin Nat
    BY DEF None
  <2>2. mine \in [WDs -> Nat \cup {None}]
    BY DEF Held, MyQueue
  <2>3. \A v \in WDs : mine'[v] = IF v = x THEN None
                                  ELSE IF v = w /\ back THEN QueueFor(t, w) ELSE mine[v]
    BY <1>1, <1>3, <1>4, <2>2
  <2>4. mine' \in [WDs -> Nat \cup {None}]
    BY <1>1, <1>3, <1>4, <1>7, <2>2
  <2>5. \A v \in WDs : mine'[v] # None <=> v \in InPush' \cup InQueue'
    BY <1>2, <1>4, <1>5, <1>7, <1>11, <2>1, <2>3 DEF Held, MyQueue
  <2>6. \A r \in Queues : \A v \in Range(queues'[r]) : mine'[v] = r
    <3>1. \A r \in Queues : \A v \in Range(queues'[r]) : v # x /\ v \in Range(queues[r])
      BY <1>2
    <3>2. \A r \in Queues : \A v \in Range(queues[r]) : v \in WDs
      BY QueueTypes
    <3>3. \A r \in Queues : \A v \in Range(queues[r]) : v # w
      BY <1>3, <1>5 DEF InQueue
    <3>4. \A r \in Queues : \A v \in Range(queues[r]) : mine[v] = r
      BY DEF Held, MyQueue
    <3> QED
      BY <2>3, <3>1, <3>2, <3>3, <3>4
  <2> QED
    BY <2>4, <2>5, <2>6 DEF MyQueue
<1>16. SearchOK'
  <2>1. look' = [u \in Threads |-> IF u = t THEN NotLooking ELSE look[u]]
    BY <1>1 DEF Held, SearchOK
  <2>2. \A u \in Threads \ {t} : cur'[u] = cur[u] /\ pc'[cur[u]] = pc[cur[u]]
    BY <1>1, <1>6, <1>9 DEF Inv, PoliciesTypeOK
  <2>3. \A u \in Threads \ {t} : pushing'[u] = pushing[u]
    BY <1>1 DEF Inv, PoliciesTypeOK
  <2> QED
    BY <2>1, <2>2, <2>3 DEF Held, SearchOK
<1>17. Settled'
  <2>1. \A v \in WDs : pc'[v] = "idle" <=> pc[v] = "idle"
    BY <1>3, <1>4, <1>9
  <2>2. \A v \in Tasks : pc[v] = "unborn" => pc'[v] = "unborn"
    BY <1>3, <1>4, <1>9, NamesApart DEF Placed
  <2>3. \A v \in Threads \ {0} : tied'[v] = tied[v]
    <3>1. x \in Threads => pc[x] # "new"
      BY DEF Inv, Inlined
    <3> QED
      BY <1>1, <3>1, NamesApart DEF Inv, PoliciesTypeOK
  <2> QED
    BY <1>1, <2>1, <2>2, <2>3, SettledKept DEF Held, Settled
<1> QED
  BY <1>13, <1>14, <1>15, <1>16, <1>17 DEF Held

\* The pop of a search: it finds a WD, or the search goes on.
LEMMA PopHeld ==
  ASSUME Inv, Held, NEW t \in Threads, look[t] # NotLooking, NEW q \in Queues, NEW end, NEW over,
         PopFrom(t, q, end, over)
  PROVE  Held'
<1>1. pushing[t] = None /\ pc[cur[t]] \in {"wait", "seek", "idle"}
  BY DEF Held, SearchOK
<1>2. CASE \E i \in DOMAIN queues[q] : TakeFrom(t, q, i)
  BY <1>1, <1>2, TakeHeld
<1>3. CASE /\ \E k : GoOn(t, k, None)
           /\ UNCHANGED <<setup, pc, cur, queues, mine, pushing, under, tied, comps, wakeQ, crashed>>
  BY <1>3, LooksOn
<1> QED
  BY <1>2, <1>3 DEF PopFrom

LEMMA ThreadStepHeld ==
  ASSUME Inv, Held, NEW t \in Threads, ThreadStep(t)
  PROVE  Held'
<1>1. CASE Push(t)
  BY <1>1, PushHeld
<1>2. CASE \E c \in Tasks : Create(t, cur[t], c)
  BY <1>2, CreateHeld
<1>3. CASE WaitForChildren(t, cur[t]) \/ Over(t, cur[t])
  BY <1>3, OverHeld
<1>4. CASE Leave(t, cur[t])
  BY <1>4, LeaveHeld
<1>5. CASE BeginSearch(t, cur[t])
  BY <1>5, BeginHeld
<1>6. CASE NextWD(t, cur[t])
  <2>1. NextQueue(t) \in Queues
    BY DEF Queues
  <2>2. pushing[t] = None /\ pc[cur[t]] \in {"wait", "seek", "idle"}
    BY <1>6 DEF NextWD, Free
  <2> QED
    BY <1>6, <2>1, <2>2, TakeHeld DEF NextWD
<1>7. CASE Pop(t) \/ PopChosen(t)
  BY <1>7, PopHeld DEF Pop, PopChosen, Looking
<1>8. CASE Choose(t)
  BY <1>8, LooksOn DEF Choose, Looking
<1>9. CASE SeeEnqueued(t)
  BY <1>9, LooksOn DEF SeeEnqueued, Looking
<1>10. CASE ReadMyQueue(t)
  <2>1. look[t] # NotLooking /\ UNCHANGED <<setup, pc, cur, queues, mine, pushing, under, tied, wakeQ>>
    BY <1>10 DEF ReadMyQueue, Looking
  <2>2. CASE look' = look
    <3>1. SearchOK'
      BY <2>1, <2>2 DEF Held, SearchOK
    <3> QED
      BY <2>1, <3>1, HeldStill
  <2>3. CASE \E k, q : GoOn(t, k, q)
    BY <2>1, <2>3, LooksOn
  <2> QED
    BY <1>10, <2>2, <2>3 DEF ReadMyQueue
<1>11. CASE RemoveParent(t)
  <2>1. look[t] # NotLooking
    BY <1>11 DEF RemoveParent, Looking
  <2>2. pushing[t] = None /\ pc[cur[t]] \in {"wait", "seek", "idle"}
    BY <2>1 DEF Held, SearchOK
  <2>3. CASE \E q \in Queues : \E i \in DOMAIN queues[q] : TakeFrom(t, q, i)
    BY <2>2, <2>3, TakeHeld
  <2>4. CASE /\ \E k, q : GoOn(t, k, q)
             /\ UNCHANGED <<setup, pc, cur, queues, mine, pushing, under, tied, comps, wakeQ, crashed>>
    BY <2>1, <2>4, LooksOn
  <2> QED
    BY <1>11, <2>3, <2>4 DEF RemoveParent
<1> QED
  BY <1>1, <1>2, <1>3, <1>4, <1>5, <1>6, <1>7, <1>8, <1>9, <1>10, <1>11 DEF ThreadStep

(* Each step of the policies takes WDs from where they are to where they go. *)
LEMMA HeldStep == Inv /\ Held /\ [PoliciesNext]_policiesVars => Held'
<1> SUFFICES ASSUME Inv, Held, [PoliciesNext]_policiesVars PROVE Held'
  OBVIOUS
<1>1. CASE \E t \in Threads : ThreadStep(t)
  BY <1>1, ThreadStepHeld
<1>2. CASE \E t \in Threads : SignalStep(t)
  BY <1>2, SignalHeld
<1>3. CASE UNCHANGED policiesVars
  <2>1. SearchOK'
    BY <1>3 DEF Held, SearchOK, policiesVars
  <2> QED
    BY <1>3, <2>1, HeldStill DEF policiesVars
<1> QED
  BY <1>1, <1>2, <1>3 DEF PoliciesNext

-----------------------------------------------------------------------------
(* Holders counts the places. *)

LEMMA HoldersCounted ==
  ASSUME Inv, Held, NEW w \in WDs
  PROVE  Cardinality(Holders(w)) = IF w \in Placed THEN 1 ELSE 0
<1> DEFINE P == Holders(w)
           At(q, i) == q \in Queues /\ i \in DOMAIN queues[q] /\ queues[q][i] = w
<1>1. \A p : p \in P <=> \/ \E t \in Threads : cur[t] = w /\ p = <<"runs", t>>
                         \/ \E v \in WDs : under[v] = w /\ p = <<"under", v>>
                         \/ \E t \in Threads : pushing[t] = w /\ p = <<"pushing", t>>
                         \/ \E q, i : At(q, i) /\ p = <<"queue", q, i>>
  <2> SUFFICES ASSUME NEW p
               PROVE  p \in P <=> \/ \E t \in Threads : cur[t] = w /\ p = <<"runs", t>>
                                  \/ \E v \in WDs : under[v] = w /\ p = <<"under", v>>
                                  \/ \E t \in Threads : pushing[t] = w /\ p = <<"pushing", t>>
                                  \/ \E q, i : At(q, i) /\ p = <<"queue", q, i>>
    OBVIOUS
  <2> DEFINE R == {<<"runs", t>> : t \in {u \in Threads : cur[u] = w}}
             U == {<<"under", v>> : v \in {u \in WDs : under[u] = w}}
             H == {<<"pushing", t>> : t \in {u \in Threads : pushing[u] = w}}
             I(q) == {<<"queue", q, i>> : i \in {j \in DOMAIN queues[q] : queues[q][j] = w}}
             Q == UNION {I(q) : q \in Queues}
  <2>1. P = R \cup U \cup H \cup Q
    BY DEF Holders, PushedBy
  <2>2. p \in R <=> \E t \in Threads : cur[t] = w /\ p = <<"runs", t>>
    OBVIOUS
  <2>3. p \in U <=> \E v \in WDs : under[v] = w /\ p = <<"under", v>>
    OBVIOUS
  <2>4. p \in H <=> \E t \in Threads : pushing[t] = w /\ p = <<"pushing", t>>
    OBVIOUS
  <2>5. p \in Q <=> \E q, i : At(q, i) /\ p = <<"queue", q, i>>
    <3>1. \A q : p \in I(q) <=> \E i \in DOMAIN queues[q] : queues[q][i] = w /\ p = <<"queue", q, i>>
      OBVIOUS
    <3>2. p \in Q <=> \E q \in Queues : p \in I(q)
      OBVIOUS
    <3> HIDE DEF I, Q
    <3> QED
      BY <3>1, <3>2 DEF At
  <2> HIDE DEF P, R, U, H, Q, At
  <2> QED
    BY <2>1, <2>2, <2>3, <2>4, <2>5
<1>2. /\ w \in Running <=> \E t \in Threads : cur[t] = w
      /\ w \in Beneath <=> \E v \in WDs : under[v] = w
      /\ w \in InPush <=> \E t \in Threads : pushing[t] = w
      /\ w \in InQueue <=> \E q, i : At(q, i)
  BY NamesApart DEF Running, Beneath, InPush, InQueue, Range
<1>3. /\ \A t, u \in Threads : cur[t] = w /\ cur[u] = w => t = u
      /\ \A u, v \in WDs : under[u] = w /\ under[v] = w => u = v
      /\ \A t, u \in Threads : pushing[t] = w /\ pushing[u] = w => t = u
      /\ \A q, i, r, j : At(q, i) /\ At(r, j) => q = r /\ i = j
  <2>1. /\ \A t, u \in Threads : cur[t] = w /\ cur[u] = w => t = u
        /\ \A u, v \in WDs : under[u] = w /\ under[v] = w => u = v
        /\ \A t, u \in Threads : pushing[t] = w /\ pushing[u] = w => t = u
    BY NamesApart DEF Held, Single
  <2>2. ASSUME NEW q, NEW i, NEW r, NEW j, At(q, i), At(r, j) PROVE q = r /\ i = j
    <3>1. w \in Range(queues[q]) /\ w \in Range(queues[r])
      BY <2>2 DEF Range
    <3>2. q = r
      BY <2>2, <3>1 DEF Held, MyQueue
    <3> QED
      BY <2>2, <3>2 DEF Held, Single, IsInjective
  <2> HIDE DEF At
  <2> QED
    BY <2>1, <2>2
<1>4. /\ Running \cap Beneath = {} /\ Running \cap InPush = {} /\ Running \cap InQueue = {}
      /\ Beneath \cap InPush = {} /\ Beneath \cap InQueue = {} /\ InPush \cap InQueue = {}
      /\ Running \cup Beneath \cup InPush \cup InQueue = Placed
  BY DEF Held, Elsewhere
<1> HIDE DEF P, At
<1>5. CASE w \notin Placed
  <2>1. P = {}
    BY <1>1, <1>2, <1>4, <1>5
  <2> QED
    BY <1>5, <2>1, FS_EmptySet DEF P
<1>6. ASSUME NEW p, P = {p}, w \in Placed
      PROVE  Cardinality(Holders(w)) = IF w \in Placed THEN 1 ELSE 0
  BY <1>6, FS_Singleton DEF P
<1>7. CASE w \in Running
  <2>1. PICK t \in Threads : cur[t] = w
    BY <1>2, <1>7
  <2>2. w \notin Beneath /\ w \notin InPush /\ w \notin InQueue /\ w \in Placed
    BY <1>4, <1>7
  <2> DEFINE p == <<"runs", t>>
  <2>3. \A r : r \in P <=> r = p
    BY <1>1, <1>2, <1>3, <2>1, <2>2
  <2> HIDE DEF p
  <2>4. P = {p}
    BY <2>3
  <2> QED
    BY <1>6, <2>2, <2>4
<1>8. CASE w \in Beneath
  <2>1. PICK v \in WDs : under[v] = w
    BY <1>2, <1>8
  <2>2. w \notin Running /\ w \notin InPush /\ w \notin InQueue /\ w \in Placed
    BY <1>4, <1>8
  <2> DEFINE p == <<"under", v>>
  <2>3. \A r : r \in P <=> r = p
    BY <1>1, <1>2, <1>3, <2>1, <2>2
  <2> HIDE DEF p
  <2>4. P = {p}
    BY <2>3
  <2> QED
    BY <1>6, <2>2, <2>4
<1>9. CASE w \in InPush
  <2>1. PICK t \in Threads : pushing[t] = w
    BY <1>2, <1>9
  <2>2. w \notin Running /\ w \notin Beneath /\ w \notin InQueue /\ w \in Placed
    BY <1>4, <1>9
  <2> DEFINE p == <<"pushing", t>>
  <2>3. \A r : r \in P <=> r = p
    BY <1>1, <1>2, <1>3, <2>1, <2>2
  <2> HIDE DEF p
  <2>4. P = {p}
    BY <2>3
  <2> QED
    BY <1>6, <2>2, <2>4
<1>10. CASE w \in InQueue
  <2>1. PICK q, i : At(q, i)
    BY <1>2, <1>10
  <2>2. w \notin Running /\ w \notin Beneath /\ w \notin InPush /\ w \in Placed
    BY <1>4, <1>10
  <2> DEFINE p == <<"queue", q, i>>
  <2>3. \A r : r \in P <=> r = p
    BY <1>1, <1>2, <1>3, <2>1, <2>2
  <2> HIDE DEF p
  <2>4. P = {p}
    BY <2>3
  <2> QED
    BY <1>6, <2>2, <2>4
<1> QED
  BY <1>4, <1>5, <1>7, <1>8, <1>9, <1>10

LEMMA HeldOneHolder == Inv /\ Held => OneHolder
<1> SUFFICES ASSUME Inv, Held, NEW w \in WDs
             PROVE  /\ Cardinality(Holders(w)) = IF pc[w] \in {"unborn", "blocked", "gone"} THEN 0 ELSE 1
                    /\ (mine[w] # None) <=> (Queued(w) # {} \/ PushedBy(w) # {})
                    /\ Queued(w) \subseteq {mine[w]}
  BY DEF OneHolder
<1>1. Cardinality(Holders(w)) = IF pc[w] \in {"unborn", "blocked", "gone"} THEN 0 ELSE 1
  BY HoldersCounted DEF Placed
<1>2. \A q \in Queues : q \in Queued(w) <=> w \in Range(queues[q])
  <2> SUFFICES ASSUME NEW q \in Queues PROVE Contains(queues[q], w) <=> w \in Range(queues[q])
    BY DEF Queued
  <2>1. DOMAIN queues[q] = 1..Len(queues[q])
    BY QueueTypes
  <2> QED
    BY <2>1 DEF Contains, Range
<1>3. Queued(w) \subseteq Queues
  BY DEF Queued
<1>4. Queued(w) # {} <=> w \in InQueue
  BY <1>2, <1>3 DEF InQueue
<1>5. PushedBy(w) # {} <=> w \in InPush
  BY NamesApart DEF PushedBy, InPush
<1>6. Queued(w) \subseteq {mine[w]}
  BY <1>2, <1>3 DEF Held, MyQueue
<1> QED
  BY <1>1, <1>4, <1>5, <1>6 DEF Held, MyQueue

(* Under each policy a WD that is alive and not blocked is in one place, and _myQueue names
   its queue: none is lost and none is taken twice, whatever threads see of _myQueue before
   they have the lock (wddeque.hpp:40-58, 178-190). *)
THEOREM OneHolderHolds == PoliciesSpec => []OneHolder
<1>1. PoliciesInit => Inv /\ Held
  BY InitInv, HeldInit
<1>2. Inv /\ Held /\ [PoliciesNext]_policiesVars => (Inv /\ Held)'
  BY PoliciesStep, HeldStep
<1> QED
  BY <1>1, <1>2, HeldOneHolder, PTL DEF PoliciesSpec

\* The same in the composition: no WD is held twice, nor lost.
THEOREM OneHolderTogether == SchedulingSpec => []OneHolder
<1>1. SchedulingInit => Inv /\ Held
  BY InitInv, HeldInit DEF SchedulingInit
<1>2. Inv /\ Held /\ [SchedulingNext]_allVars => (Inv /\ Held)'
  BY PoliciesStep, HeldStep, TogetherStep
<1> QED
  BY <1>1, <1>2, HeldOneHolder, PTL DEF SchedulingSpec

-----------------------------------------------------------------------------
(* The queues with priorities. *)

\* Induction on the natural numbers, for a set of them.
LEMMA CountUp ==
  ASSUME NEW S \in SUBSET Nat, 0 \in S, \A n \in S : n + 1 \in S
  PROVE  S = Nat
<1> DEFINE LessThan == OpToRel(<, Nat)
           R == Nat \ S
<1>1. IsWellFoundedOn(LessThan, Nat)
  BY NatLessThanWellFounded, Zenon
<1>2. \A m, n \in Nat : m < n => <<m, n>> \in LessThan
  BY DEF OpToRel
<1> HIDE DEF LessThan
<1>3. ASSUME R # {} PROVE FALSE
  <2>1. R \in SUBSET Nat
    OBVIOUS
  <2> HIDE DEF R
  <2>2. PICK m \in R : \A n \in R : ~(<<n, m>> \in LessThan)
    BY <1>1, <1>3, <2>1, WFMin, Zenon
  <2>3. m \in Nat /\ m # 0 /\ m - 1 \in Nat
    BY <2>1 DEF R
  <2>4. m - 1 \in S
    <3>1. <<m - 1, m>> \in LessThan
      BY <1>2, <2>3
    <3> QED
      BY <2>2, <2>3, <3>1 DEF R
  <2>5. (m - 1) + 1 = m
    BY <2>3
  <2>6. m \in S
    BY <2>4, <2>5
  <2> QED
    BY <2>2, <2>6 DEF R
<1> QED
  BY <1>3

\* What a search of a list of length L makes of a range [first, last): a smaller one.
Narrows(L, next) ==
    /\ next \in [(0..L) \X (0..L) -> (0..L) \X (0..L)]
    /\ \A r \in (0..L) \X (0..L) : r[1] < r[2] =>
          next[r][1] <= next[r][2] /\ next[r][2] - next[r][1] < r[2] - r[1]

\* Such a search is a function: it ends.
LEMMA SearchDefined ==
  ASSUME NEW L \in Nat, NEW next, Narrows(L, next)
  PROVE  \E f : f = [r \in (0..L) \X (0..L) |-> IF r[1] >= r[2] THEN r[1] ELSE f[next[r]]]
<1> DEFINE D == (0..L) \X (0..L)
           Obeys(g, r) == g[r] = IF r[1] >= r[2] THEN r[1] ELSE g[next[r]]
           S == {n \in Nat : \E g : \A r \in D : r[2] - r[1] <= n => Obeys(g, r)}
<1>1. \A r \in D : r[1] \in 0..L /\ r[2] \in 0..L /\ next[r] \in D
  BY DEF Narrows
<1>2. \A r \in D : r[1] < r[2] => next[r][2] - next[r][1] < r[2] - r[1]
  BY DEF Narrows
<1> HIDE DEF D
<1>3. 0 \in S
  <2> DEFINE g == [r \in D |-> r[1]]
  <2>1. \A r \in D : r[2] - r[1] <= 0 => Obeys(g, r)
    BY <1>1
  <2> HIDE DEF g, Obeys
  <2> QED
    BY <2>1
<1>4. ASSUME NEW n \in S PROVE n + 1 \in S
  <2>1. PICK g : \A r \in D : r[2] - r[1] <= n => Obeys(g, r)
    OBVIOUS
  <2> DEFINE h == [r \in D |-> IF r[1] >= r[2] THEN r[1] ELSE g[next[r]]]
  <2>2. ASSUME NEW r \in D, r[2] - r[1] <= n + 1 PROVE Obeys(h, r)
    <3>1. h[r] = IF r[1] >= r[2] THEN r[1] ELSE g[next[r]]
      OBVIOUS
    <3>2. CASE r[1] >= r[2]
      BY <3>1, <3>2
    <3>3. CASE ~(r[1] >= r[2])
      <4> DEFINE s == next[r]
      <4>1. s \in D /\ s[1] \in Int /\ s[2] \in Int /\ r[1] \in Int /\ r[2] \in Int
        BY <1>1
      <4>2. s[2] - s[1] < r[2] - r[1]
        BY <1>2, <3>3, <4>1
      <4>3. n \in Nat /\ s[2] - s[1] <= n
        BY <2>2, <4>1, <4>2
      <4> HIDE DEF s
      <4>4. g[s] = IF s[1] >= s[2] THEN s[1] ELSE g[next[s]]
        BY <2>1, <4>1, <4>3
      <4>5. h[s] = g[s]
        BY <4>1, <4>4
      <4> QED
        BY <3>1, <3>3, <4>5 DEF s
    <3> QED
      BY <3>2, <3>3
  <2> HIDE DEF h, Obeys
  <2> QED
    BY <2>2
<1>5. S = Nat
  <2> HIDE DEF S
  <2>1. S \in SUBSET Nat
    BY DEF S
  <2> QED
    BY <1>3, <1>4, <2>1, CountUp
<1>6. PICK g : \A r \in D : r[2] - r[1] <= L => Obeys(g, r)
  BY <1>5
<1>7. \A r \in D : Obeys(g, r)
  <2>1. \A r \in D : r[2] - r[1] <= L
    BY <1>1
  <2> HIDE DEF Obeys
  <2> QED
    BY <1>6, <2>1
<1> DEFINE f == [r \in D |-> g[r]]
<1>8. f = [r \in D |-> IF r[1] >= r[2] THEN r[1] ELSE f[next[r]]]
  <2>1. \A r \in D : f[r] = g[r] /\ f[next[r]] = g[next[r]]
    BY <1>1
  <2>2. \A r \in D : g[r] = IF r[1] >= r[2] THEN r[1] ELSE f[next[r]]
    BY <1>7, <2>1
  <2> QED
    BY <2>2
<1> HIDE DEF f
<1> QED
  BY <1>8 DEF D

\* The ranges a search goes on with keep what was known of the positions outside them: those
\* before are in A, those behind in B.
KeepsSplit(L, next, A, B) ==
    \A r \in (0..L) \X (0..L) :
       r[1] < r[2] /\ 1..r[1] \subseteq A /\ (r[2] + 1)..L \subseteq B
          => 1..next[r][1] \subseteq A /\ (next[r][2] + 1)..L \subseteq B

\* f is the position at which the search that starts with a range ends.
Searches(L, next, f) ==
    \A r \in (0..L) \X (0..L) : f[r] = IF r[1] >= r[2] THEN r[1] ELSE f[next[r]]

SplitBy(L, A, B, k) == k \in 0..L /\ 1..k \subseteq A /\ (k + 1)..L \subseteq B


\* What is at least so much comes first: A are the positions of such elements, B of the others.
LEMMA SearchSplits ==
  ASSUME NEW L \in Nat, NEW next, NEW A, NEW B, NEW f,
         Narrows(L, next), KeepsSplit(L, next, A, B), Searches(L, next, f)
  PROVE  SplitBy(L, A, B, f[<<0, L>>])
<1> DEFINE D == (0..L) \X (0..L)
           Splits(r) == r[1] <= r[2] /\ 1..r[1] \subseteq A /\ (r[2] + 1)..L \subseteq B
           Finds(k) == SplitBy(L, A, B, k)
           S == {n \in Nat : \A r \in D : r[2] - r[1] <= n /\ Splits(r) => Finds(f[r])}
<1>1. \A r \in D : r[1] \in 0..L /\ r[2] \in 0..L /\ next[r] \in D
  BY DEF Narrows
<1>2. \A r \in D : r[1] < r[2] => next[r][1] <= next[r][2] /\ next[r][2] - next[r][1] < r[2] - r[1]
  BY DEF Narrows
<1>3. \A r \in D : f[r] = IF r[1] >= r[2] THEN r[1] ELSE f[next[r]]
  BY DEF Searches
<1>4. \A r \in D : r[1] < r[2] /\ Splits(r) => Splits(next[r])
  BY <1>2 DEF KeepsSplit
<1>5. \A r \in D : r[1] >= r[2] /\ Splits(r) => Finds(f[r])
  <2> SUFFICES ASSUME NEW r \in D, r[1] >= r[2], Splits(r) PROVE Finds(f[r])
    OBVIOUS
  <2>1. r[1] = r[2] /\ f[r] = r[1]
    BY <1>1, <1>3
  <2> QED
    BY <1>1, <2>1 DEF SplitBy
<1> HIDE DEF D, Splits, Finds
<1>6. 0 \in S
  <2>1. \A r \in D : r[2] - r[1] <= 0 => r[1] >= r[2]
    BY <1>1
  <2> QED
    BY <1>5, <2>1
<1>7. ASSUME NEW n \in S PROVE n + 1 \in S
  <2>1. ASSUME NEW r \in D, r[2] - r[1] <= n + 1, Splits(r) PROVE Finds(f[r])
    <3>1. CASE r[1] >= r[2]
      BY <1>5, <2>1, <3>1
    <3>2. CASE ~(r[1] >= r[2])
      <4> DEFINE s == next[r]
      <4>1. s \in D /\ s[1] \in Int /\ s[2] \in Int /\ r[1] \in Int /\ r[2] \in Int /\ n \in Nat
        BY <1>1
      <4>2. r[1] < r[2]
        BY <3>2, <4>1
      <4>3. s[2] - s[1] < r[2] - r[1]
        BY <1>2, <4>2
      <4>4. Splits(s)
        BY <1>4, <2>1, <4>2
      <4>5. f[r] = f[s]
        BY <1>3, <3>2
      <4>6. s[2] - s[1] <= n
        BY <2>1, <4>1, <4>3
      <4> HIDE DEF s
      <4> QED
        BY <4>1, <4>4, <4>5, <4>6
    <3> QED
      BY <3>1, <3>2
  <2> QED
    BY <2>1
<1>8. S = Nat
  <2> HIDE DEF S
  <2>1. S \in SUBSET Nat
    BY DEF S
  <2> QED
    BY <1>6, <1>7, <2>1, CountUp
<1>9. <<0, L>> \in D /\ Splits(<<0, L>>)
  BY DEF D, Splits
<1>10. Finds(f[<<0, L>>])
  <2>1. L \in S
    BY <1>8
  <2>2. <<0, L>>[2] - <<0, L>>[1] <= L
    OBVIOUS
  <2> QED
    BY <1>9, <2>1, <2>2
<1> QED
  BY <1>10 DEF Finds

\* Before position k there are only elements of priority at least p, and from there on only of
\* at most p.
SplitAt(s, prio, p, k) ==
    /\ k \in 0..Len(s)
    /\ \A j \in 1..k : prio[s[j]] >= p
    /\ \A j \in (k + 1)..Len(s) : prio[s[j]] <= p

LEMMA BoundSplits ==
  ASSUME NEW E, NEW s \in Seq(E), NEW prio \in [E -> Int], NEW p \in Int, NEW upper \in BOOLEAN,
         InOrder(s, prio)
  PROVE  SplitAt(s, prio, p, BoundOf(s, prio, p, upper))
<1> DEFINE L == Len(s)
           D == (0..L) \X (0..L)
           goesOn(i) == IF upper THEN prio[s[i]] >= p ELSE prio[s[i]] > p
           middle(r) == r[1] + ((r[2] - r[1]) \div 2)
           half(r) == IF goesOn(middle(r) + 1) THEN <<middle(r) + 1, r[2]>>
                                               ELSE <<r[1], middle(r)>>
           next == [r \in D |-> IF r[1] >= r[2] THEN r ELSE half(r)]
           search == CHOOSE f : f = [r \in D |-> IF r[1] >= r[2] THEN r[1] ELSE f[half(r)]]
           A == {j \in 1..L : prio[s[j]] >= p}
           B == {j \in 1..L : prio[s[j]] <= p}
<1>1. L \in Nat /\ DOMAIN s = 1..L /\ \A j \in 1..L : prio[s[j]] \in Int
  OBVIOUS
<1>2. BoundOf(s, prio, p, upper) = search[<<0, L>>]
  BY DEF BoundOf
<1>3. ASSUME NEW r \in D, r[1] < r[2] PROVE middle(r) \in r[1]..(r[2] - 1)
  <2>1. \A a, b \in Int : a < b => a + ((b - a) \div 2) \in a..(b - 1)
    OBVIOUS
  <2>2. r[1] \in Int /\ r[2] \in Int
    OBVIOUS
  <2> QED
    BY <1>3, <2>1, <2>2
<1> HIDE DEF L, middle, goesOn, search
<1>4. ASSUME NEW r \in D, r[1] < r[2]
      PROVE  half(r) \in D /\ half(r)[1] <= half(r)[2] /\ half(r)[2] - half(r)[1] < r[2] - r[1]
  <2>1. r[1] \in 0..L /\ r[2] \in 0..L /\ middle(r) \in Int /\ r[1] <= middle(r) /\ middle(r) + 1 <= r[2]
    BY <1>1, <1>3, <1>4
  <2>2. CASE goesOn(middle(r) + 1)
    BY <1>1, <2>1, <2>2
  <2>3. CASE ~goesOn(middle(r) + 1)
    BY <1>1, <2>1, <2>3
  <2> QED
    BY <2>2, <2>3
<1>5. ASSUME NEW r \in D, r[1] < r[2], 1..r[1] \subseteq A, (r[2] + 1)..L \subseteq B
      PROVE  1..half(r)[1] \subseteq A /\ (half(r)[2] + 1)..L \subseteq B
  <2> DEFINE m == middle(r) + 1
  <2>1. m \in 1..L /\ r[1] \in 0..L /\ r[2] \in 0..L
    BY <1>1, <1>3, <1>5
  <2> HIDE DEF m
  <2>2. CASE goesOn(m)
    <3>1. ASSUME NEW j \in 1..m PROVE prio[s[j]] >= prio[s[m]]
      <4>1. j \in DOMAIN s /\ m \in DOMAIN s /\ (j = m \/ j < m)
        BY <1>1, <2>1
      <4>2. j < m => prio[s[j]] >= prio[s[m]]
        BY <4>1 DEF InOrder
      <4> QED
        BY <1>1, <2>1, <4>1, <4>2
    <3>2. prio[s[m]] >= p
      BY <1>1, <2>1, <2>2 DEF goesOn
    <3>3. 1..m \subseteq A
      BY <1>1, <2>1, <3>1, <3>2
    <3> QED
      BY <1>5, <2>2, <3>3 DEF m
  <2>3. CASE ~goesOn(m)
    <3>1. ASSUME NEW j \in m..L PROVE prio[s[j]] <= prio[s[m]]
      <4>1. j \in DOMAIN s /\ m \in DOMAIN s /\ (j = m \/ m < j)
        BY <1>1, <2>1
      <4>2. m < j => prio[s[m]] >= prio[s[j]]
        BY <4>1 DEF InOrder
      <4>3. prio[s[m]] \in Int /\ prio[s[j]] \in Int
        BY <1>1, <4>1
      <4> QED
        BY <4>1, <4>2, <4>3
    <3>2. prio[s[m]] <= p
      BY <1>1, <2>1, <2>3 DEF goesOn
    <3>3. m..L \subseteq B
      BY <1>1, <2>1, <3>1, <3>2
    <3> QED
      BY <1>5, <2>3, <3>3 DEF m
  <2> QED
    BY <2>2, <2>3
<1> HIDE DEF half
<1>6. \A r \in D : r[1] < r[2] => next[r] = half(r)
  OBVIOUS
<1>7. Narrows(L, next)
  <2>1. \A r \in D : (IF r[1] >= r[2] THEN r ELSE half(r)) \in D
    BY <1>1, <1>4
  <2>2. next \in [D -> D]
    BY <2>1
  <2> HIDE DEF next
  <2> QED
    BY <1>4, <1>6, <2>2 DEF Narrows
<1>8. \A f : [r \in D |-> IF r[1] >= r[2] THEN r[1] ELSE f[half(r)]]
             = [r \in D |-> IF r[1] >= r[2] THEN r[1] ELSE f[next[r]]]
  BY <1>1, <1>6
<1> HIDE DEF next
<1>9. search = [r \in D |-> IF r[1] >= r[2] THEN r[1] ELSE search[next[r]]]
  <2>1. \E f : f = [r \in D |-> IF r[1] >= r[2] THEN r[1] ELSE f[half(r)]]
    <3>1. PICK f : f = [r \in D |-> IF r[1] >= r[2] THEN r[1] ELSE f[next[r]]]
      BY <1>1, <1>7, SearchDefined
    <3> QED
      BY <1>8, <3>1
  <2>2. search = [r \in D |-> IF r[1] >= r[2] THEN r[1] ELSE search[half(r)]]
    BY <2>1 DEF search
  <2> QED
    BY <1>8, <2>2
<1>10. KeepsSplit(L, next, A, B)
  BY <1>5, <1>6 DEF KeepsSplit
<1> DEFINE k == search[<<0, L>>]
<1>11. k \in 0..L /\ 1..k \subseteq A /\ (k + 1)..L \subseteq B
  <2>1. Searches(L, next, search)
    BY <1>9 DEF Searches
  <2>2. L \in Nat
    BY <1>1
  <2> HIDE DEF A, B
  <2>3. SplitBy(L, A, B, search[<<0, L>>])
    BY <1>7, <1>10, <2>1, <2>2, SearchSplits
  <2> QED
    BY <2>3 DEF SplitBy
<1> HIDE DEF k
<1>12. SplitAt(s, prio, p, k)
  BY <1>11 DEF SplitAt, L
<1> QED
  BY <1>2, <1>12 DEF k

LEMMA BehindSplits ==
  ASSUME NEW E, NEW s \in Seq(E), NEW prio \in [E -> Int], NEW p \in Int, NEW fifo \in BOOLEAN,
         InOrder(s, prio)
  PROVE  SplitAt(s, prio, p, Behind(s, prio, p, fifo))
<1> DEFINE L == Len(s)
<1>1. L \in Nat /\ DOMAIN s = 1..L /\ \A j \in 1..L : prio[s[j]] \in Int
  OBVIOUS
<1>2. SplitAt(s, prio, p, BoundOf(s, prio, p, TRUE)) /\ SplitAt(s, prio, p, BoundOf(s, prio, p, FALSE))
  BY BoundSplits
<1>3. CASE s = <<>>
  <2>1. Behind(s, prio, p, fifo) = 0 /\ L = 0
    BY <1>3 DEF Behind
  <2> QED
    BY <2>1 DEF SplitAt
<1>4. CASE s # <<>> /\ fifo
  <2>1. Last(s) = s[L] /\ L \in 1..L
    BY <1>1, <1>4 DEF Last
  <2>2. Behind(s, prio, p, fifo) = IF prio[s[L]] >= p THEN L ELSE BoundOf(s, prio, p, TRUE)
    BY <1>4, <2>1 DEF Behind
  <2>3. CASE prio[s[L]] >= p
    <3>1. \A j \in 1..L : prio[s[j]] >= p
      BY <1>1, <2>1, <2>3 DEF InOrder
    <3>2. SplitAt(s, prio, p, L)
      BY <1>1, <3>1 DEF SplitAt
    <3> QED
      BY <2>2, <2>3, <3>2
  <2>4. CASE ~(prio[s[L]] >= p)
    BY <1>2, <2>2, <2>4
  <2> QED
    BY <2>3, <2>4
<1>5. CASE s # <<>> /\ ~fifo
  <2>1. Head(s) = s[1] /\ 1 \in 1..L
    BY <1>1, <1>5
  <2>2. Behind(s, prio, p, fifo) = IF prio[s[1]] < p THEN 0 ELSE BoundOf(s, prio, p, FALSE)
    BY <1>5, <2>1 DEF Behind
  <2>3. CASE prio[s[1]] < p
    <3>1. ASSUME NEW j \in 1..L PROVE prio[s[j]] <= p
      <4>1. j = 1 \/ 1 < j
        BY <1>1
      <4>2. 1 < j => prio[s[1]] >= prio[s[j]]
        BY <1>1, <2>1 DEF InOrder
      <4>3. prio[s[1]] \in Int /\ prio[s[j]] \in Int
        BY <1>1, <2>1
      <4> QED
        BY <2>3, <4>1, <4>2, <4>3
    <3>2. SplitAt(s, prio, p, 0)
      BY <1>1, <3>1 DEF SplitAt
    <3> QED
      BY <2>2, <2>3, <3>2
  <2>4. CASE ~(prio[s[1]] < p)
    BY <1>2, <2>2, <2>4
  <2> QED
    BY <2>3, <2>4
<1> QED
  BY <1>3, <1>4, <1>5

\* A WD put where its priority splits the queue leaves the queue in order.
LEMMA InsertOrdered ==
  ASSUME NEW E, NEW s \in Seq(E), NEW prio \in [E -> Int], NEW e \in E,
         NEW i \in 0..Len(s), InOrder(s, prio), SplitAt(s, prio, prio[e], i)
  PROVE  InOrder(InsertAt(s, i + 1, e), prio)
<1> DEFINE r == InsertAt(s, i + 1, e)
<1>1. /\ i \in 0..Len(s) /\ Len(s) \in Nat /\ DOMAIN s = 1..Len(s) /\ prio[e] \in Int
      /\ \A j \in 1..Len(s) : prio[s[j]] \in Int
  OBVIOUS
<1>2. /\ DOMAIN r = 1..(Len(s) + 1)
      /\ \A j \in 1..(Len(s) + 1) : r[j] = IF j <= i THEN s[j] ELSE IF j = i + 1 THEN e ELSE s[j - 1]
  BY InsertAtElements
<1> HIDE DEF r
<1>3. ASSUME NEW j \in DOMAIN r, NEW k \in DOMAIN r, j < k PROVE prio[r[j]] >= prio[r[k]]
  <2>1. j \in 1..(Len(s) + 1) /\ k \in 1..(Len(s) + 1)
    BY <1>2
  <2>2. CASE j <= i
    <3>1. r[j] = s[j] /\ j \in 1..i /\ prio[s[j]] >= prio[e]
      BY <1>1, <1>2, <2>1, <2>2 DEF SplitAt
    <3>2. CASE k <= i
      BY <1>1, <1>2, <1>3, <2>1, <3>1, <3>2 DEF InOrder
    <3>3. CASE k = i + 1
      BY <1>1, <1>2, <2>1, <3>1, <3>3
    <3>4. CASE k > i + 1
      <4>1. r[k] = s[k - 1] /\ k - 1 \in DOMAIN s /\ j < k - 1
        BY <1>1, <1>2, <2>1, <2>2, <3>4
      <4> QED
        BY <1>1, <2>1, <2>2, <3>1, <4>1 DEF InOrder
    <3> QED
      BY <1>1, <2>1, <3>2, <3>3, <3>4
  <2>3. CASE j = i + 1
    <3>1. r[j] = e /\ r[k] = s[k - 1] /\ k - 1 \in (i + 1)..Len(s)
      BY <1>1, <1>2, <1>3, <2>1, <2>3
    <3> QED
      BY <1>1, <3>1 DEF SplitAt
  <2>4. CASE j > i + 1
    <3>1. r[j] = s[j - 1] /\ r[k] = s[k - 1] /\ j - 1 \in DOMAIN s /\ k - 1 \in DOMAIN s /\ j - 1 < k - 1
      BY <1>1, <1>2, <1>3, <2>1, <2>4
    <3> QED
      BY <3>1 DEF InOrder
  <2> QED
    BY <1>1, <2>1, <2>2, <2>3, <2>4
<1> QED
  BY <1>3 DEF InOrder, r

LEMMA RemoveOrdered ==
  ASSUME NEW E, NEW s \in Seq(E), NEW prio, NEW i \in DOMAIN s, InOrder(s, prio)
  PROVE  InOrder(RemoveAt(s, i), prio)
<1> DEFINE r == RemoveAt(s, i)
<1>1. i \in 1..Len(s) /\ Len(s) \in Nat /\ DOMAIN s = 1..Len(s)
  OBVIOUS
<1>2. DOMAIN r = 1..(Len(s) - 1) /\ \A j \in 1..(Len(s) - 1) : r[j] = s[IF j < i THEN j ELSE j + 1]
  BY RemoveAtElements
<1> HIDE DEF r
<1>3. ASSUME NEW j \in DOMAIN r, NEW k \in DOMAIN r, j < k PROVE prio[r[j]] >= prio[r[k]]
  <2> DEFINE a == IF j < i THEN j ELSE j + 1
             b == IF k < i THEN k ELSE k + 1
  <2>1. r[j] = s[a] /\ r[k] = s[b]
    BY <1>2
  <2>2. a \in DOMAIN s /\ b \in DOMAIN s /\ a < b
    BY <1>1, <1>2, <1>3
  <2> HIDE DEF a, b
  <2> QED
    BY <2>1, <2>2 DEF InOrder
<1> QED
  BY <1>3 DEF InOrder, r

\* Where priorities count, a push puts a WD where its priority splits the queue.
LEMMA PushOrdered ==
  ASSUME Inv, Settled, QueuesInOrder, NEW t \in Threads, Push(t)
  PROVE  QueuesInOrder'
<1> DEFINE w == pushing[t]
<1>1. UNCHANGED setup /\ w \in Born
  BY DEF Push, Inv, PoliciesTypeOK
<1>2. PICK q \in Queues : \E i \in 0..Len(queues[q]) :
         i = PlaceIn(q, w) /\ queues' = [queues EXCEPT ![q] = InsertAt(@, i + 1, w)]
  BY DEF Push
<1>3. queues' = [queues EXCEPT ![q] = InsertAt(@, PlaceIn(q, w) + 1, w)]
  BY <1>2
<1>4. (Prioritised <=> Prioritised') /\ setup.prio' = setup.prio
  BY <1>1 DEF Prioritised, policy
<1>5. SUFFICES ASSUME Prioritised, NEW r \in ReadyQueues PROVE InOrder(queues'[r], setup.prio)
  BY <1>4 DEF QueuesInOrder
<1>6. r \in Queues /\ InOrder(queues[r], setup.prio)
  BY <1>5 DEF QueuesInOrder, Queues
<1>7. CASE r # q
  BY <1>3, <1>6, <1>7 DEF Inv, PoliciesTypeOK
<1>8. CASE r = q
  <2> DEFINE i == PlaceIn(q, w)
  <2>1. queues[q] \in Seq(Born) /\ setup.prio \in [WDs -> Int] /\ w \in WDs /\ Born \subseteq WDs
    BY <1>1, QueueTypes, SetupsAssumption DEF Settled, Born
  <2>2. queues[q] \in Seq(WDs)
    BY <2>1, SeqMonotone
  <2>3. i = Behind(queues[q], setup.prio, setup.prio[w], policy = "socket")
    BY <1>5, <1>8 DEF PlaceIn
  <2> HIDE DEF i, w
  <2>4. setup.prio[w] \in Int /\ (policy = "socket") \in BOOLEAN
    BY <2>1
  <2>5. SplitAt(queues[q], setup.prio, setup.prio[w], i)
    BY <1>6, <1>8, <2>1, <2>2, <2>3, <2>4, BehindSplits
  <2>6. InOrder(InsertAt(queues[q], i + 1, w), setup.prio)
    BY <1>6, <1>8, <2>1, <2>2, <2>5, InsertOrdered DEF SplitAt
  <2>7. queues'[q] = InsertAt(queues[q], i + 1, w)
    BY <1>3, <1>6, <1>8 DEF Inv, PoliciesTypeOK, i, w
  <2> QED
    BY <1>8, <2>6, <2>7
<1> QED
  BY <1>7, <1>8

\* A WD is taken from the middle of a queue, or the queues stay as they are.
LEMMA TakeOrdered ==
  ASSUME Inv, QueuesInOrder, setup' = setup,
         \/ queues' = queues
         \/ \E q \in Queues : \E i \in DOMAIN queues[q] : queues' = [queues EXCEPT ![q] = RemoveAt(@, i)]
  PROVE  QueuesInOrder'
<1>1. (Prioritised <=> Prioritised') /\ setup.prio' = setup.prio
  BY DEF Prioritised, policy
<1>2. SUFFICES ASSUME Prioritised, NEW r \in ReadyQueues PROVE InOrder(queues'[r], setup.prio)
  BY <1>1 DEF QueuesInOrder
<1>3. r \in Queues /\ InOrder(queues[r], setup.prio) /\ queues[r] \in Seq(Born)
  BY <1>2, QueueTypes DEF QueuesInOrder, Queues
<1>4. CASE queues' = queues
  BY <1>3, <1>4
<1>5. ASSUME NEW q \in Queues, NEW i \in DOMAIN queues[q],
             queues' = [queues EXCEPT ![q] = RemoveAt(@, i)]
      PROVE  InOrder(queues'[r], setup.prio)
  <2>1. CASE r = q
    <3>1. InOrder(RemoveAt(queues[q], i), setup.prio)
      BY <1>3, <1>5, <2>1, RemoveOrdered
    <3> QED
      BY <1>3, <1>5, <2>1, <3>1 DEF Inv, PoliciesTypeOK
  <2>2. CASE r # q
    BY <1>3, <1>5, <2>2 DEF Inv, PoliciesTypeOK
  <2> QED
    BY <2>1, <2>2
<1> QED
  BY <1>4, <1>5

LEMMA OrderStep == Inv /\ Held /\ QueuesInOrder /\ [PoliciesNext]_policiesVars => QueuesInOrder'
<1> SUFFICES ASSUME Inv, Held, QueuesInOrder, [PoliciesNext]_policiesVars PROVE QueuesInOrder'
  OBVIOUS
<1>1. ASSUME NEW t \in Threads, Push(t) PROVE QueuesInOrder'
  BY <1>1, PushOrdered DEF Held
<1>2. ASSUME NEW t \in Threads,
             (\E c \in Tasks : Create(t, cur[t], c)) \/ WaitForChildren(t, cur[t]) \/ Over(t, cur[t])
               \/ Leave(t, cur[t]) \/ BeginSearch(t, cur[t]) \/ Choose(t) \/ SeeEnqueued(t)
               \/ ReadMyQueue(t) \/ SignalStep(t)
      PROVE  QueuesInOrder'
  <2>1. UNCHANGED <<setup, queues>>
    BY <1>2 DEF Create, WaitForChildren, Over, Leave, BeginSearch, Choose, SeeEnqueued, ReadMyQueue,
                SignalStep, Signal
  <2> QED
    BY <2>1, TakeOrdered
<1>3. ASSUME NEW t \in Threads, NextWD(t, cur[t]) \/ Pop(t) \/ PopChosen(t) \/ RemoveParent(t)
      PROVE  QueuesInOrder'
  <2>1. NextQueue(t) \in Queues
    BY DEF Queues
  <2>2. \/ UNCHANGED <<setup, queues>>
        \/ \E q \in Queues : \E i \in DOMAIN queues[q] : TakeFrom(t, q, i)
    BY <1>3, <2>1 DEF NextWD, Pop, PopChosen, RemoveParent, PopFrom
  <2>3. \A q, i : TakeFrom(t, q, i) => setup' = setup /\ queues' = [queues EXCEPT ![q] = RemoveAt(@, i)]
    BY DEF TakeFrom
  <2> QED
    BY <2>2, <2>3, TakeOrdered
<1>4. CASE UNCHANGED policiesVars
  BY <1>4, TakeOrdered DEF policiesVars
<1> QED
  BY <1>1, <1>2, <1>3, <1>4 DEF PoliciesNext, ThreadStep

LEMMA OrderInit == PoliciesInit => QueuesInOrder
BY DEF PoliciesInit, QueuesInOrder, InOrder, ReadyQueues, Queues

(* Where priorities count the queues stay in order, for insertions by halves at either side of
   the WDs of the same priority and removals from the middle (wddeque.hpp:368-411). *)
THEOREM QueuesInOrderHolds == PoliciesSpec => []QueuesInOrder
<1>1. PoliciesInit => Inv /\ Held /\ QueuesInOrder
  BY InitInv, HeldInit, OrderInit
<1>2. Inv /\ Held /\ QueuesInOrder /\ [PoliciesNext]_policiesVars => (Inv /\ Held /\ QueuesInOrder)'
  BY PoliciesStep, HeldStep, OrderStep
<1> QED
  BY <1>1, <1>2, PTL DEF PoliciesSpec

\* The same in the composition: insertions by halves keep the queues in order.
THEOREM QueuesInOrderTogether == SchedulingSpec => []QueuesInOrder
<1>1. SchedulingInit => Inv /\ Held /\ QueuesInOrder
  BY InitInv, HeldInit, OrderInit DEF SchedulingInit
<1>2. Inv /\ Held /\ QueuesInOrder /\ [SchedulingNext]_allVars
         => (Inv /\ Held /\ QueuesInOrder)'
  BY PoliciesStep, HeldStep, OrderStep, TogetherStep
<1> QED
  BY <1>1, <1>2, PTL DEF SchedulingSpec

-----------------------------------------------------------------------------
(* Commutative accesses. *)

\* The inductive invariant of each program with commutative accesses, while it runs.
SharingInductive ==
    /\ program = "siblings" => Siblings5!Inductive
    /\ program = "nested" => Nested5!Inductive

(* It holds at the start of each program (CommutativeAccesses, Init). *)
LEMMA SharingInit == SchedulingInit => SharingInductive
<1> SUFFICES ASSUME SchedulingInit PROVE SharingInductive
  OBVIOUS
<1>1. CASE program = "siblings"
  BY <1>1, ProgramAssumption, Siblings5!InitInductive DEF SchedulingInit, SharingInductive
<1>2. CASE program = "nested"
  BY <1>2, ProgramAssumption, Nested5!InitInductive DEF SchedulingInit, SharingInductive
<1> QED
  BY <1>1, <1>2 DEF SharingInductive

(* Steps of the policies leave the programs with commutative accesses alone, and the other way
   round. *)
LEMMA SharingStep == SharingInductive /\ [SchedulingNext]_allVars => SharingInductive'
<1> SUFFICES ASSUME SharingInductive, [SchedulingNext]_allVars PROVE SharingInductive'
  OBVIOUS
<1>1. program' = program
  BY DEF SchedulingNext, PolicyStep, AccessStep, allVars
<1>2. program = "siblings" => [Siblings5!Next]_(Siblings5!vars)
  BY DEF SchedulingNext, PolicyStep, AccessStep, allVars, accessVars, Siblings5!vars
<1>3. program = "nested" => [Nested5!Next]_(Nested5!vars)
  BY DEF SchedulingNext, PolicyStep, AccessStep, allVars, accessVars, Nested5!vars
<1>4. program = "siblings" => Siblings5!Inductive'
  BY <1>2, ProgramAssumption, Siblings5!StepInductive DEF SharingInductive
<1>5. program = "nested" => Nested5!Inductive'
  BY <1>3, ProgramAssumption, Nested5!StepInductive DEF SharingInductive
<1> QED
  BY <1>1, <1>4, <1>5 DEF SharingInductive

(* So it always holds, whatever the policies do. *)
LEMMA SharingHolds == SchedulingSpec => []SharingInductive
BY SharingInit, SharingStep, PTL DEF SchedulingSpec

(* One task at a time for an address, in two programs of any size with any number of threads
   (the owner words, core/workdescriptor.cpp:199-286). *)
THEOREM ExclusiveHolds == SchedulingSpec => []Exclusive
<1>1. SharingInductive => Exclusive
  BY ProgramAssumption, Siblings5!InductiveExclusive, Nested5!InductiveExclusive
  DEF SharingInductive, Exclusive
<1> QED
  BY <1>1, SharingHolds, PTL

(* A task owns all of its addresses when it is chosen, and none while it waits unchecked in
   the ready queue, in the same programs (core/workdescriptor.cpp:253-286). *)
THEOREM AllOrNothingHolds == SchedulingSpec => []AllOrNothing
<1>1. SharingInductive => AllOrNothing
  BY ProgramAssumption, Siblings5!InductiveAllOrNothing, Nested5!InductiveAllOrNothing
  DEF SharingInductive, AllOrNothing
<1> QED
  BY <1>1, SharingHolds, PTL
=============================================================================
