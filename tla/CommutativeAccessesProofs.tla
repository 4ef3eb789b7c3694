---------------------- MODULE CommutativeAccessesProofs ----------------------
(***************************************************************************)
(* For every program and every number of threads: no two tasks with an     *)
(* address in common are between the start and the end of their bodies,    *)
(* and a task takes all of its addresses or none.                          *)
(***************************************************************************)
EXTENDS CommutativeAccessesProps, FiniteSetTheorems, SequenceTheorems, WellFoundedInduction, TLAPS

-----------------------------------------------------------------------------
(* Names, least elements and sequences. *)

(* The WDs of the program and the threads' own are apart, and None is neither. *)
LEMMA Names ==
  ASSUME Program
  PROVE  /\ Tasks \subseteq WDs /\ Workers \subseteq WDs /\ Main \in WDs
         /\ Workers \subseteq Threads /\ Workers \cap Tasks = {} /\ Main \notin Tasks
         /\ Main \notin Workers /\ None \notin WDs /\ None \notin Threads
         /\ \A w \in WDs : w \notin Tasks => w = Main \/ w \in Workers
         /\ \A w \in Tasks : Parent[w] \in WDs
  BY DEF Program, WDs, Workers

(* A set of naturals with an element has a least one. *)
LEMMA MinIn ==
  ASSUME NEW S \in SUBSET Nat, S # {}
  PROVE  Min(S) \in S
<1> DEFINE LessThan == OpToRel(<, Nat)
<1>1. IsWellFoundedOn(LessThan, Nat)
  BY NatLessThanWellFounded, Zenon
<1>2. \A m, n \in Nat : m < n => <<m, n>> \in LessThan
  BY DEF OpToRel
<1> HIDE DEF LessThan
<1>3. PICK m \in S : \A n \in S : ~(<<n, m>> \in LessThan)
  BY <1>1, WFMin, Zenon
<1>4. ASSUME NEW n \in S PROVE m <= n
  <2>1. ~(n < m)
    BY <1>2, <1>3, Zenon
  <2> QED
    BY <2>1
<1> QED
  BY <1>4, Zenon DEF Min

(* The same for a range of positions. *)
LEMMA MinFrom ==
  ASSUME NEW from \in Nat, NEW to \in Nat, NEW S \in SUBSET (from..to), S # {}
  PROVE  Min(S) \in S
<1>1. S \in SUBSET Nat
  OBVIOUS
<1> QED
  BY <1>1, MinIn

(* A queue without one of its WDs: the others keep their order. *)
LEMMA WithoutSeq ==
  ASSUME NEW S, NEW s \in Seq(S), NEW w, NEW k \in DOMAIN s, s[k] = w
  PROVE  /\ Position(s, w) \in 1..Len(s) /\ s[Position(s, w)] = w
         /\ Without(s, w) \in Seq(S)
         /\ Len(Without(s, w)) = Len(s) - 1
         /\ \A i \in DOMAIN Without(s, w) :
              /\ i \in DOMAIN s /\ i + 1 \in DOMAIN s
              /\ Without(s, w)[i] = IF i < Position(s, w) THEN s[i] ELSE s[i + 1]
<1> DEFINE p == Position(s, w)
           front == SubSeq(s, 1, p - 1)
           back == SubSeq(s, p + 1, Len(s))
<1>1. p \in 1..Len(s) /\ s[p] = w
  BY DEF Position
<1> HIDE DEF p
<1>2. /\ front \in Seq(S) /\ Len(front) = p - 1
      /\ \A i \in 1..(p - 1) : front[i] = s[i]
  BY <1>1, SubSeqProperties
<1>3. /\ back \in Seq(S) /\ Len(back) = Len(s) - p
      /\ \A i \in 1..(Len(s) - p) : back[i] = s[p + i]
  BY <1>1, SubSeqProperties
<1> HIDE DEF front, back
<1>4. /\ front \o back \in Seq(S) /\ Len(front \o back) = Len(front) + Len(back)
      /\ \A i \in 1..(Len(front) + Len(back)) :
           (front \o back)[i] = IF i <= Len(front) THEN front[i] ELSE back[i - Len(front)]
  BY <1>2, <1>3, ConcatProperties
<1>5. Without(s, w) = front \o back
  BY DEF Without, RemoveAt, front, back, p
<1>6. \A i \in 1..(Len(s) - 1) : (front \o back)[i] = IF i < p THEN s[i] ELSE s[i + 1]
  <2> SUFFICES ASSUME NEW i \in 1..(Len(s) - 1)
               PROVE  (front \o back)[i] = IF i < p THEN s[i] ELSE s[i + 1]
    OBVIOUS
  <2>1. CASE i < p
    BY <1>1, <1>2, <1>3, <1>4, <2>1
  <2>2. CASE i >= p
    <3>1. i - (p - 1) \in 1..(Len(s) - p) /\ p + (i - (p - 1)) = i + 1
      BY <1>1, <2>2
    <3>2. (front \o back)[i] = back[i - (p - 1)]
      BY <1>1, <1>2, <1>3, <1>4, <2>2
    <3>3. back[i - (p - 1)] = s[p + (i - (p - 1))]
      BY <1>3, <3>1, Zenon
    <3>4. back[i - (p - 1)] = s[i + 1]
      BY <3>1, <3>3, Zenon
    <3>5. ~(i < p)
      BY <1>1, <2>2
    <3> QED
      BY <3>2, <3>4, <3>5, Zenon
  <2>3. i < p \/ i >= p
    BY <1>1
  <2> QED
    BY <2>1, <2>2, <2>3, Zenon
<1>7. Len(front \o back) = Len(s) - 1 /\ DOMAIN (front \o back) = 1..(Len(s) - 1)
  BY <1>1, <1>2, <1>3, <1>4
<1>8. \A i \in 1..(Len(s) - 1) : i \in DOMAIN s /\ i + 1 \in DOMAIN s
  OBVIOUS
<1> QED
  BY <1>1, <1>4, <1>5, <1>6, <1>7, <1>8, Zenon DEF p

(* The tasks in the order of their addresses. *)
LEMMA OrderSeq ==
  ASSUME Program
  PROVE  Order \in Seq(Tasks) /\ Len(Order) \in Nat
<1> DEFINE n == Cardinality(Tasks)
<1>1. IsFiniteSet(Tasks)
  BY Zenon DEF Program
<1>2. n \in Nat /\ ExistsBijection(1..n, Tasks)
  BY <1>1, FS_CardinalityType, Zenon
<1>3. PICK f \in Bijection(1..n, Tasks) : TRUE
  BY <1>2, Zenon DEF ExistsBijection
<1>4. f \in [1..n -> Tasks] /\ IsInjective(f)
  BY <1>3, Zenon DEF Bijection, Injection
<1>5. Order \in [1..n -> Tasks]
  BY <1>4, Zenon DEF Order, SetToSeq
<1> HIDE DEF n
<1> QED
  BY <1>2, <1>5

-----------------------------------------------------------------------------
(* One WD v moves: to a place of holder h. *)

Stays(v, kind, who, kind2, who2) ==
  \A u \in Users \ {v} : kind2[u] = kind[u] /\ who2[u] = who[u]

Moved(v, place, h, kind, who, kind2, who2) ==
  /\ kind2 \in [Users -> Kinds] /\ who2 \in [Users -> Holders]
  /\ Stays(v, kind, who, kind2, who2)
  /\ v \in Users => IsAt(v, kind2, who2, place, h)

(* A WD can be placed anew while the others stay. *)
LEMMA Move ==
  ASSUME NEW kind \in [Users -> Kinds], NEW who \in [Users -> Holders],
         NEW v, NEW place \in Kinds, NEW h \in Holders
  PROVE  \E kind2 \in [Users -> Kinds], who2 \in [Users -> Holders] :
           Moved(v, place, h, kind, who, kind2, who2)
<1> DEFINE k == [kind EXCEPT ![v] = place]
           w == [who EXCEPT ![v] = h]
<1>1. k \in [Users -> Kinds] /\ w \in [Users -> Holders]
  OBVIOUS
<1>2. Moved(v, place, h, kind, who, k, w)
  BY DEF Moved, Stays, IsAt
<1> QED
  BY <1>1, <1>2

Absent(q, v) == v \in Users => \A i \in DOMAIN q : q[i] # v

(* A WD whose place is another is not in a queue. *)
LEMMA NotQueued ==
  ASSUME NEW q, NEW kind, NEW who, NEW place, NEW h, NEW v,
         InQueue(q, kind, who, place, h), ~IsAt(v, kind, who, place, h)
  PROVE  Absent(q, v)
BY DEF InQueue, Absent

(* A queue that the moved WD is not in. *)
LEMMA QueueKept ==
  ASSUME NEW q, NEW kind, NEW who, NEW kind2, NEW who2, NEW place, NEW h, NEW v,
         InQueue(q, kind, who, place, h), Stays(v, kind, who, kind2, who2), Absent(q, v)
  PROVE  InQueue(q, kind2, who2, place, h)
BY DEF InQueue, Stays, IsAt, Absent

(* A queue to which the moved WD is appended. *)
LEMMA QueueAppend ==
  ASSUME NEW S, NEW q \in Seq(S), NEW v, NEW kind, NEW who, NEW kind2, NEW who2, NEW place, NEW h,
         InQueue(q, kind, who, place, h), Stays(v, kind, who, kind2, who2), Absent(q, v),
         v \in Users => IsAt(v, kind2, who2, place, h)
  PROVE  InQueue(Append(q, v), kind2, who2, place, h)
<1>1. InQueue(q, kind2, who2, place, h)
  BY QueueKept
<1>2. v \in Users => \A i \in DOMAIN q : q[i] # v
  BY DEF Absent
<1>3. /\ DOMAIN Append(q, v) = 1..(Len(q) + 1) /\ DOMAIN q = 1..Len(q) /\ Len(q) \in Nat
      /\ Append(q, v)[Len(q) + 1] = v
      /\ \A i \in 1..Len(q) : Append(q, v)[i] = q[i]
  BY AppendProperties
<1>4. \A i \in 1..(Len(q) + 1) : i \in 1..Len(q) \/ i = Len(q) + 1
  BY <1>3
<1> SUFFICES ASSUME NEW i \in DOMAIN Append(q, v), Append(q, v)[i] \in Users
             PROVE  /\ IsAt(Append(q, v)[i], kind2, who2, place, h)
                    /\ \A j \in DOMAIN Append(q, v) : Append(q, v)[j] = Append(q, v)[i] => j = i
  BY DEF InQueue
<1>5. CASE i \in 1..Len(q)
  <2>1. Append(q, v)[i] = q[i] /\ i \in DOMAIN q /\ q[i] \in Users
    BY <1>3, <1>5
  <2>2. q[i] # v
    BY <1>2, <2>1
  <2> QED
    BY <1>1, <1>3, <1>4, <2>1, <2>2 DEF InQueue
<1>6. CASE i = Len(q) + 1
  <2>1. Append(q, v)[i] = v
    BY <1>3, <1>6
  <2> QED
    BY <1>2, <1>3, <1>4, <1>6, <2>1
<1> QED
  BY <1>3, <1>4, <1>5, <1>6

(* A queue that the moved WD is taken from. *)
LEMMA QueueWithout ==
  ASSUME NEW S, NEW q \in Seq(S), NEW v, NEW kind, NEW who, NEW kind2, NEW who2, NEW place, NEW h,
         NEW k \in DOMAIN q, q[k] = v,
         InQueue(q, kind, who, place, h), Stays(v, kind, who, kind2, who2)
  PROVE  InQueue(Without(q, v), kind2, who2, place, h)
<1> DEFINE p == Position(q, v)
           r == Without(q, v)
<1>1. /\ p \in 1..Len(q) /\ q[p] = v /\ Len(q) \in Nat
      /\ r \in Seq(S) /\ Len(r) = Len(q) - 1
      /\ \A i \in DOMAIN r : /\ i \in DOMAIN q /\ i + 1 \in DOMAIN q
                             /\ r[i] = IF i < p THEN q[i] ELSE q[i + 1]
  BY WithoutSeq
<1>2. DOMAIN q = 1..Len(q) /\ DOMAIN r = 1..(Len(q) - 1)
  BY <1>1
<1> HIDE DEF p, r
<1>3. v \in Users => \A j \in DOMAIN q : q[j] = v => j = p
  BY <1>1, <1>2 DEF InQueue
<1> DEFINE At1(i) == IF i < p THEN i ELSE i + 1
<1>4. \A i \in DOMAIN r : At1(i) \in DOMAIN q /\ At1(i) # p /\ r[i] = q[At1(i)]
  BY <1>1, <1>2
<1>5. \A i, j \in DOMAIN r : At1(i) = At1(j) => i = j
  BY <1>1, <1>2
<1> HIDE DEF At1
<1> SUFFICES ASSUME NEW i \in DOMAIN r, r[i] \in Users
             PROVE  /\ IsAt(r[i], kind2, who2, place, h)
                    /\ \A j \in DOMAIN r : r[j] = r[i] => j = i
  BY DEF InQueue, r
<1>6. r[i] # v
  BY <1>3, <1>4
<1>7. IsAt(r[i], kind, who, place, h) /\ \A j \in DOMAIN q : q[j] = r[i] => j = At1(i)
  BY <1>4 DEF InQueue
<1>8. IsAt(r[i], kind2, who2, place, h)
  BY <1>6, <1>7 DEF Stays, IsAt
<1> QED
  BY <1>4, <1>5, <1>7, <1>8

-----------------------------------------------------------------------------
(* Types. *)

(* Positions and keys of the addresses of a WD: no key twice. *)
LEMMA Lengths ==
  ASSUME Program, NEW w \in WDs
  PROVE  /\ Len(Accesses[w]) \in Nat /\ DOMAIN Accesses[w] = 1..Len(Accesses[w])
         /\ w \notin Tasks => Len(Accesses[w]) = 0
         /\ \A i, j \in DOMAIN Accesses[w] : Key(w, i) = Key(w, j) => i = j
<1>1. /\ Accesses[w] \in Seq(Range(Accesses[w]))
      /\ \A i, j \in DOMAIN Accesses[w] : Accesses[w][i] = Accesses[w][j] => i = j
      /\ w \notin Tasks => Accesses[w] = <<>>
  BY DEF Program
<1>2. Len(Accesses[w]) \in Nat /\ DOMAIN Accesses[w] = 1..Len(Accesses[w])
  BY <1>1
<1> QED
  BY <1>1, <1>2 DEF Key

(* The owner word of every address of a task exists. *)
LEMMA KeyIn ==
  ASSUME NEW w \in Tasks, NEW i \in DOMAIN Accesses[w]
  PROVE  Key(w, i) \in UNION {Keys(u) : u \in Tasks}
BY DEF Keys

(* A queue without one of its WDs is a queue. *)
LEMMA WithoutType ==
  ASSUME NEW S, NEW q \in Seq(S), NEW v, \E i \in DOMAIN q : q[i] = v
  PROVE  Without(q, v) \in Seq(S)
BY WithoutSeq

(* A queue with one more WD is a queue. *)
LEMMA AppendType ==
  ASSUME NEW S, NEW q \in Seq(S), NEW v \in S
  PROVE  Append(q, v) \in Seq(S)
BY AppendProperties

(* GoOn() keeps types when it goes on with a WD. *)
LEMMA GoOnType ==
  ASSUME Program, TypeOK, NEW t \in Threads, NEW v \in WDs, NEW queue \in Seq(WDs), GoOn(t, v, queue)
  PROVE  /\ stage' \in [WDs -> Stages] /\ ready' \in Seq(WDs) /\ on' \in [Threads -> WDs]
         /\ tied' \in [WDs -> Workers \cup {None}]
         /\ pc' = [pc EXCEPT ![t] = "go"] /\ try' = [try EXCEPT ![t] = Idle]
<1>1. on[t] \in WDs
  BY DEF TypeOK
<1>2. stage' \in [WDs -> Stages]
  BY <1>1 DEF GoOn, TypeOK, Stages, Inside, Before, Over
<1>3. Append(queue, on[t]) \in Seq(WDs)
  BY <1>1, AppendType
<1>4. ready' \in Seq(WDs)
  BY <1>3 DEF GoOn
<1>5. tied' \in [WDs -> Workers \cup {None}]
  BY <1>1 DEF GoOn, TypeOK
<1> QED
  BY <1>2, <1>4, <1>5 DEF GoOn, Checked, TypeOK

Searches == {"go", "next", "scan", "ready", "prefetch", "wake"}
Checks == [wd : WDs \cup {None}, taken : Nat, undo : BOOLEAN]

SearchOK == /\ pc \in [Threads -> Searches] /\ try \in [Threads -> Checks]
            /\ \A t \in Threads : try[t] = Idle <=> pc[t] \in {"go", "scan"}

(* A thread that begins a check, or is done with one. *)
LEMMA CheckType ==
  ASSUME Program
  PROVE  /\ Idle \in Checks
         /\ \A v \in WDs : Begin(v) \in Checks /\ Begin(v) # Idle
BY Names DEF Idle, Begin, Checks

(* A thread changes its search and its check together. *)
LEMMA SearchType ==
  ASSUME SearchOK, NEW t \in Threads, NEW r \in Checks, NEW l \in Searches,
         r = Idle <=> l \in {"go", "scan"},
         pc' = [pc EXCEPT ![t] = l], try' = [try EXCEPT ![t] = r]
  PROVE  SearchOK'
BY DEF SearchOK

(* A step that changes neither. *)
LEMMA Same == ASSUME SearchOK, UNCHANGED <<pc, try>> PROVE SearchOK'
BY DEF SearchOK, Idle

(* A check that is over. *)
LEMMA CheckedType ==
  ASSUME Program, SearchOK, NEW t \in Threads, Checked(t)
  PROVE  SearchOK'
<1>1. "go" \in Searches /\ "go" \in {"go", "scan"}
  BY DEF Searches
<1> QED
  BY <1>1, CheckType, SearchType DEF Checked

(* A check that begins. *)
LEMMA BeginType ==
  ASSUME Program, SearchOK, NEW t \in Threads, NEW v \in WDs,
         NEW l \in Searches \ {"go", "scan"},
         pc' = [pc EXCEPT ![t] = l] \/ (pc' = pc /\ pc[t] = l),
         try' = [try EXCEPT ![t] = Begin(v)]
  PROVE  SearchOK'
<1>1. pc' = [pc EXCEPT ![t] = l]
  BY DEF SearchOK
<1>2. Begin(v) \in Checks /\ Begin(v) # Idle
  BY CheckType
<1> QED
  BY <1>1, <1>2, SearchType

(* What a search finds is a WD. *)
LEMMA FoundType ==
  ASSUME TypeOK, TryInv, NEW t \in Threads, try[t] # Idle
  PROVE  try[t].wd \in WDs /\ pc[t] \in Searches \ {"go", "scan"}
BY DEF TypeOK, TryInv, Found, Searches

(* The WDs a thread picks from a list of candidates. *)
LEMMA CandidatesIn ==
  ASSUME Program, NEW t, NEW from \in Nat \ {0}, NEW c, c = Candidates(t, from), c # {}
  PROVE  /\ Min(c) \in DOMAIN Order
         /\ Order[Min(c)] \in Successors(on[t]) /\ Order[Min(c)] \in Tasks
<1>1. Len(Order) \in Nat /\ c \in SUBSET (from..Len(Order))
  BY OrderSeq DEF Candidates
<1>2. Min(c) \in c
  BY <1>1, MinFrom
<1>3. Order[Min(c)] \in Successors(on[t])
  BY <1>2 DEF Candidates
<1>4. DOMAIN Order = 1..Len(Order) /\ DOMAIN Order \subseteq Nat
  BY OrderSeq
<1>5. Min(c) \in 1..Len(Order)
  <2>1. Min(c) \in from..Len(Order)
    BY <1>2 DEF Candidates
  <2>2. from # 0
    OBVIOUS
  <2> QED
    BY <1>1, <2>1, <2>2
<1>6. Order[Min(c)] \in Tasks
  BY <1>3 DEF Successors
<1> QED
  BY <1>3, <1>4, <1>5, <1>6

(* The WDs a thread picks from the ready queue. *)
LEMMA FittingIn ==
  ASSUME TypeOK, NEW t, NEW from \in Nat \ {0}, NEW c, c = Fitting(t, from), c # {}
  PROVE  Min(c) \in DOMAIN ready /\ ready[Min(c)] \in WDs /\ Fits(t, ready[Min(c)])
<1>1. ready \in Seq(WDs)
  BY DEF TypeOK
<1>2. Len(ready) \in Nat /\ c \in SUBSET (from..Len(ready)) /\ DOMAIN ready = 1..Len(ready)
  BY <1>1 DEF Fitting
<1>3. Min(c) \in c
  BY <1>2, MinFrom
<1>4. Min(c) \in DOMAIN ready /\ Fits(t, ready[Min(c)])
  BY <1>2, <1>3 DEF Fitting
<1> QED
  BY <1>1, <1>4

(* Every step keeps a thread checking constraints exactly in a search. *)
LEMMA SearchStep ==
  ASSUME Program, TypeOK, StageInv, TryInv, NEW t \in Threads, Step(t)
  PROVE  SearchOK'
<1>0. SearchOK
  BY DEF TypeOK, SearchOK, Searches, Checks
<1>a. ASSUME NoNext(t) PROVE SearchOK'
  <2>1. "go" \in Searches /\ "scan" \in Searches
    BY DEF Searches
  <2> QED
    BY <1>0, <1>a, <2>1, CheckType, SearchType DEF NoNext
<1>b. ASSUME NEW from \in Nat \ {0}, Consider(t, Candidates(t, from)) PROVE SearchOK'
  <2>1. CASE Candidates(t, from) = {}
    BY <1>0, <1>b, <2>1, CheckedType DEF Consider
  <2>2. CASE Candidates(t, from) # {}
    <3>1. Order[Min(Candidates(t, from))] \in WDs
      BY <2>2, CandidatesIn, Names
    <3>2. "prefetch" \in Searches \ {"go", "scan"}
      BY DEF Searches
    <3> QED
      BY <1>0, <1>b, <2>2, <3>1, <3>2, BeginType DEF Consider
  <2> QED
    BY <2>1, <2>2
<1>c. ASSUME NEW v \in WDs, NEW l \in {"next", "ready", "prefetch", "wake"},
             pc' = [pc EXCEPT ![t] = l] \/ (pc' = pc /\ pc[t] = l),
             try' = [try EXCEPT ![t] = Begin(v)]
      PROVE  SearchOK'
  <2>1. l \in Searches \ {"go", "scan"}
    BY DEF Searches
  <2> QED
    BY <1>0, <1>c, <2>1, BeginType
<1>d. ASSUME Checked(t) PROVE SearchOK'
  BY <1>0, <1>d, CheckedType
<1>e. ASSUME NEW v \in WDs, NEW queue, GoOn(t, v, queue) PROVE SearchOK'
  BY <1>d, <1>e DEF GoOn
<1>f. ASSUME NEW r \in Checks, r # Idle, try[t] # Idle, try' = [try EXCEPT ![t] = r], pc' = pc
      PROVE  SearchOK'
  BY <1>0, <1>f DEF SearchOK
<1>g. try[t] \in Checks /\ try[t].taken \in Nat /\ pc[t] \in Searches
  BY <1>0 DEF SearchOK, Checks
<1>1. ASSUME Acquire(t) PROVE SearchOK'
  <2> DEFINE r == [try[t] EXCEPT !.taken = @ + 1]
             u == [try[t] EXCEPT !.undo = TRUE]
  <2>1. r \in Checks
    BY <1>g DEF Checks
  <2>2. r # Idle
    <3>1. r.taken = try[t].taken + 1
      BY <1>g DEF Checks
    <3>2. Idle.taken = 0
      BY DEF Idle
    <3>3. r.taken # Idle.taken
      BY <1>g, <3>1, <3>2
    <3> QED
      BY <3>3, Zenon
  <2>3. u \in Checks
    BY <1>g DEF Checks
  <2>4. u # Idle
    BY <1>g DEF Checks, Idle
  <2>5. try[t] # Idle /\ pc' = pc /\ (try' = [try EXCEPT ![t] = r] \/ try' = [try EXCEPT ![t] = u])
    BY <1>1 DEF Acquire
  <2> HIDE DEF r, u
  <2> QED
    BY <1>f, <2>1, <2>2, <2>3, <2>4, <2>5
<1>2. ASSUME GiveBack(t) PROVE SearchOK'
  <2>1. /\ [try[t] EXCEPT !.taken = @ - 1] \in Checks /\ [try[t] EXCEPT !.taken = @ - 1] # Idle
        /\ try[t] # Idle
    BY <1>g, <1>2 DEF Checks, Idle, GiveBack
  <2> QED
    BY <1>2, <1>f, <2>1 DEF GiveBack
<1>3. ASSUME NEW c \in Tasks, Create(t, c) PROVE SearchOK'
  BY <1>0, <1>3, Same DEF Create
<1>4. ASSUME EndBody(t) \/ EndTaskwait(t) \/ Release(t) \/ Finished(t) \/ Return(t) PROVE SearchOK'
  BY <1>0, <1>4, Same DEF EndBody, EndTaskwait, Release, Finished, Return
<1>5. ASSUME Seek(t) PROVE SearchOK'
  <2>1. CASE nexts[t] = <<>>
    BY <1>5, <1>a, <2>1 DEF Seek
  <2>2. CASE nexts[t] # <<>>
    <3>1. Head(nexts[t]) \in WDs
      BY <2>2, HeadTailProperties DEF TypeOK
    <3> QED
      BY <1>5, <1>c, <2>2, <3>1 DEF Seek
  <2> QED
    BY <2>1, <2>2
<1>6. ASSUME NextGranted(t) PROVE SearchOK'
  <2>1. try[t].wd \in WDs
    BY <1>6 DEF NextGranted, TryInv, Found
  <2> QED
    BY <1>6, <1>d, <1>e, <2>1 DEF NextGranted
<1>7. ASSUME NextRefused(t) PROVE SearchOK'
  <2> DEFINE i == Position(nexts[t], try[t].wd) + 1
  <2>1. CASE i > Len(nexts[t])
    BY <1>7, <1>a, <2>1 DEF NextRefused
  <2>2. CASE ~(i > Len(nexts[t]))
    <3>1. nexts[t] \in Seq(WDs) /\ \E k \in DOMAIN nexts[t] : nexts[t][k] = try[t].wd
      BY <1>7 DEF NextRefused, TypeOK, TryInv, Found
    <3>2. Position(nexts[t], try[t].wd) \in 1..Len(nexts[t])
      BY <3>1, WithoutSeq
    <3>3. nexts[t][i] \in WDs
      BY <2>2, <3>1, <3>2
    <3> QED
      BY <1>7, <1>c, <2>2, <3>3 DEF NextRefused
  <2> QED
    BY <2>1, <2>2
<1>8. ASSUME Scan(t) PROVE SearchOK'
  <2>1. CASE Fitting(t, 1) = {}
    <3>1. /\ "go" \in Searches /\ [pc EXCEPT ![t] = "go"] = pc'
          /\ [try EXCEPT ![t] = Idle] = try'
      BY <1>0, <1>8, <2>1 DEF Scan, SearchOK, Searches
    <3> QED
      BY <1>0, <3>1, CheckType, SearchType
  <2>2. CASE Fitting(t, 1) # {}
    <3>1. ready[Min(Fitting(t, 1))] \in WDs
      BY <2>2, FittingIn
    <3> QED
      BY <1>8, <1>c, <2>2, <3>1 DEF Scan
  <2> QED
    BY <2>1, <2>2
<1>9. ASSUME ReadyGranted(t) PROVE SearchOK'
  <2>1. try[t].wd \in WDs
    BY <1>9 DEF ReadyGranted, TryInv, Found
  <2> QED
    BY <1>9, <1>e, <2>1 DEF ReadyGranted
<1>10. ASSUME ReadyRefused(t) PROVE SearchOK'
  <2> DEFINE rest == Fitting(t, Position(ready, try[t].wd) + 1)
  <2>1. CASE rest = {}
    BY <1>10, <1>d, <2>1 DEF ReadyRefused
  <2>2. CASE rest # {}
    <3>1. ready \in Seq(WDs) /\ \E k \in DOMAIN ready : ready[k] = try[t].wd
      BY <1>10 DEF ReadyRefused, TypeOK, TryInv, Found
    <3>2. Position(ready, try[t].wd) \in 1..Len(ready)
      BY <3>1, WithoutSeq
    <3>3. Position(ready, try[t].wd) + 1 \in Nat \ {0}
      BY <3>2
    <3>4. ready[Min(rest)] \in WDs
      BY <2>2, <3>3, FittingIn
    <3> QED
      BY <1>10, <1>c, <2>2, <3>4 DEF ReadyRefused
  <2> QED
    BY <2>1, <2>2
<1>11. ASSUME Prefetch(t) PROVE SearchOK'
  <2>1. 1 \in Nat \ {0}
    OBVIOUS
  <2> QED
    BY <1>11, <1>b, <2>1 DEF Prefetch
<1>12. ASSUME PrefetchGranted(t) \/ WakeGranted(t) \/ WakeRefused(t) PROVE SearchOK'
  BY <1>12, <1>d DEF PrefetchGranted, WakeGranted, WakeRefused
<1>13. ASSUME PrefetchRefused(t) PROVE SearchOK'
  <2>1. \E k \in DOMAIN Order : Order[k] = try[t].wd
    BY <1>13 DEF PrefetchRefused, TryInv, Found
  <2>2. Position(Order, try[t].wd) \in 1..Len(Order) /\ Len(Order) \in Nat
    BY <2>1, OrderSeq, WithoutSeq
  <2>3. Position(Order, try[t].wd) + 1 \in Nat \ {0}
    BY <2>2
  <2> QED
    BY <1>13, <1>b, <2>3 DEF PrefetchRefused
<1>14. ASSUME Leave(t) PROVE SearchOK'
  <2>1. CASE UNCHANGED <<pc, try>>
    BY <1>0, <2>1, Same
  <2>2. CASE ~UNCHANGED <<pc, try>>
    <3>1. Wakes(Parent[on[t]], on[t]) /\ pc' = [pc EXCEPT ![t] = "wake"]
          /\ try' = [try EXCEPT ![t] = Begin(Parent[on[t]])]
      BY <1>14, <2>2 DEF Leave
    <3>2. on[t] \in Tasks
      BY <1>14, Names DEF Leave, At, StageInv, TypeOK
    <3> QED
      BY <1>c, <3>1, <3>2, Names
  <2> QED
    BY <2>1, <2>2
<1>15. ASSUME ExitToHeld(t) PROVE SearchOK'
  <2>1. held[on[t]] \in WDs
    BY <1>15 DEF ExitToHeld, TypeOK
  <2> QED
    BY <1>15, <1>e, <2>1 DEF ExitToHeld
<1> QED
  BY <1>1, <1>2, <1>3, <1>4, <1>5, <1>6, <1>7, <1>8, <1>9, <1>10, <1>11, <1>12, <1>13, <1>14, <1>15 DEF Step

(* The lock of the ready queue belongs to the thread that scans it. *)
LockOK == \A t \in Threads : lock = t <=> pc[t] = "ready"

(* Every step keeps the lock with the thread that scans. *)
LEMMA LockStep ==
  ASSUME Program, TypeOK, NEW t \in Threads, Step(t)
  PROVE  LockOK'
<1>1. LockOK /\ pc \in [Threads -> Searches]
  BY DEF TypeOK, LockOK, Searches
<1>2. None \notin Threads
  BY DEF Program
<1>3. ASSUME lock' = lock, NEW l \in Searches \ {"ready"}, pc[t] # "ready",
             pc' = [pc EXCEPT ![t] = l] \/ pc' = pc
      PROVE  LockOK'
  BY <1>1, <1>3 DEF LockOK
<1>4. ASSUME lock = None, lock' = t, pc' = [pc EXCEPT ![t] = "ready"] PROVE LockOK'
  BY <1>1, <1>2, <1>4 DEF LockOK
<1>5. ASSUME pc[t] = "ready", Unlock, pc' = [pc EXCEPT ![t] = "go"] PROVE LockOK'
  BY <1>1, <1>2, <1>5 DEF LockOK, Unlock
<1>6. /\ "go" \in Searches \ {"ready"} /\ "next" \in Searches \ {"ready"}
      /\ "scan" \in Searches \ {"ready"}
      /\ "prefetch" \in Searches \ {"ready"} /\ "wake" \in Searches \ {"ready"}
  BY DEF Searches
<1>7. ASSUME pc' = pc, lock' = lock PROVE LockOK'
  BY <1>1, <1>7 DEF LockOK
<1>8. ASSUME \/ Acquire(t) \/ GiveBack(t) \/ \E c \in Tasks : Create(t, c)
             \/ EndBody(t) \/ EndTaskwait(t) \/ Release(t) \/ Finished(t) \/ Return(t)
      PROVE  LockOK'
  BY <1>7, <1>8 DEF Acquire, GiveBack, Create, EndBody, EndTaskwait, Release, Finished, Return
<1>9. ASSUME Seek(t) \/ NextRefused(t) PROVE LockOK'
  BY <1>3, <1>6, <1>9 DEF Seek, NextRefused, NoNext
<1>10. ASSUME NextGranted(t) \/ ExitToHeld(t) PROVE LockOK'
  BY <1>3, <1>6, <1>10 DEF NextGranted, ExitToHeld, GoOn, Checked
<1>11. ASSUME Scan(t) PROVE LockOK'
  BY <1>3, <1>4, <1>6, <1>11 DEF Scan
<1>12. ASSUME ReadyGranted(t) PROVE LockOK'
  BY <1>5, <1>12 DEF ReadyGranted, GoOn, Checked
<1>13. ASSUME ReadyRefused(t) PROVE LockOK'
  BY <1>5, <1>7, <1>13 DEF ReadyRefused, Checked
<1>14. ASSUME Prefetch(t) \/ PrefetchRefused(t) PROVE LockOK'
  BY <1>3, <1>6, <1>14 DEF Prefetch, PrefetchRefused, Consider, Checked
<1>15. ASSUME PrefetchGranted(t) \/ WakeGranted(t) \/ WakeRefused(t) PROVE LockOK'
  BY <1>3, <1>6, <1>15 DEF PrefetchGranted, WakeGranted, WakeRefused, Checked
<1>16. ASSUME Leave(t) PROVE LockOK'
  BY <1>3, <1>6, <1>7, <1>16 DEF Leave
<1> QED
  BY <1>8, <1>9, <1>10, <1>11, <1>12, <1>13, <1>14, <1>15, <1>16 DEF Step

(* The variables that a check does not touch. *)
LifeOK == /\ stage \in [WDs -> Stages]
          /\ owner \in [UNION {Keys(w) : w \in Tasks} -> Tasks \cup {None}]
          /\ ready \in Seq(WDs) /\ nexts \in [Threads -> Seq(WDs)]
          /\ on \in [Threads -> WDs]
          /\ tied \in [WDs -> Workers \cup {None}] /\ held \in [WDs -> WDs \cup {None}]
          /\ released \in [WDs -> Nat]

(* Every step keeps the types of the other variables. *)
LEMMA LifeStep ==
  ASSUME Program, TypeOK, StageInv, TryInv, NEW t \in Threads, Step(t)
  PROVE  LifeOK'
<1>1. LifeOK
  BY DEF TypeOK, LifeOK
<1>2. on[t] \in WDs /\ Tasks \subseteq WDs /\ Workers \subseteq Threads
  BY <1>1, Names DEF LifeOK
<1>3. /\ {"new", "depends", "ready", "body", "taskwait", "exit", "prefetch", "release", "finished",
          "children", "left", "gone"} \subseteq Stages
  BY DEF Stages, Before, Inside, Over
<1>4. ASSUME NEW u \in Threads, NEW v \in WDs, nexts' = [nexts EXCEPT ![u] = Append(@, v)]
      PROVE  nexts' \in [Threads -> Seq(WDs)]
  <2>1. Append(nexts[u], v) \in Seq(WDs)
    BY <1>1, AppendType DEF LifeOK
  <2> QED
    BY <1>1, <1>4, <2>1 DEF LifeOK
<1>5. ASSUME NEW v \in WDs, ready' = Append(ready, v) PROVE ready' \in Seq(WDs)
  BY <1>1, <1>5, AppendType DEF LifeOK
<1>6. ASSUME try[t] # Idle PROVE try[t].wd \in WDs
  BY <1>6, FoundType
<1>7. \A u \in Threads : pc[u] \notin {"go", "scan"} => try[u] # Idle
  BY DEF TypeOK
<1>8. ASSUME Acquire(t) PROVE LifeOK'
  <2>1. try[t].wd \in WDs /\ try[t].taken \in Nat /\ Len(Accesses[try[t].wd]) # 0
    <3>1. try[t].wd \in WDs /\ try[t].taken \in Nat
      BY <1>6, <1>8 DEF Acquire, TypeOK
    <3> QED
      BY <1>8, <3>1, Lengths DEF Acquire
  <2>2. try[t].wd \in Tasks
    BY <2>1, Lengths
  <2> QED
    BY <1>1, <1>8, <2>2 DEF Acquire, LifeOK
<1>9. ASSUME GiveBack(t) PROVE LifeOK'
  BY <1>1, <1>9 DEF GiveBack, LifeOK
<1>10. ASSUME NEW c \in Tasks, Create(t, c) PROVE LifeOK'
  <2>1. ready' \in Seq(WDs)
    BY <1>1, <1>2, <1>5, <1>10 DEF Create, Queue, LifeOK
  <2> QED
    BY <1>1, <1>2, <1>3, <1>10, <2>1 DEF Create, LifeOK
<1>11. ASSUME EndBody(t) \/ EndTaskwait(t) PROVE LifeOK'
  <2>1. End(on[t]) \in Stages /\ "taskwait" \in Stages
    BY <1>3 DEF End
  <2>2. stage' = [stage EXCEPT ![on[t]] = "taskwait"] \/ stage' = [stage EXCEPT ![on[t]] = End(on[t])]
    BY <1>11 DEF EndBody, EndTaskwait
  <2>3. UNCHANGED <<owner, ready, nexts, on, tied, held, released>>
    BY <1>11 DEF EndBody, EndTaskwait
  <2>4. stage' \in [WDs -> Stages]
    BY <1>1, <2>1, <2>2 DEF LifeOK
  <2> QED
    BY <1>1, <2>3, <2>4 DEF LifeOK
<1>12. ASSUME Seek(t) \/ NextRefused(t) PROVE LifeOK'
  BY <1>1, <1>2, <1>3, <1>12 DEF Seek, NextRefused, NoNext, LifeOK
<1>13. ASSUME NextGranted(t) PROVE LifeOK'
  <2>1. try[t].wd \in WDs /\ \E i \in DOMAIN nexts[t] : nexts[t][i] = try[t].wd
    BY <1>13 DEF NextGranted, TryInv, Found
  <2>2. nexts' \in [Threads -> Seq(WDs)]
    <3>1. Without(nexts[t], try[t].wd) \in Seq(WDs)
      BY <1>1, <2>1, WithoutType DEF LifeOK
    <3> QED
      BY <1>1, <1>13, <3>1 DEF NextGranted, LifeOK
  <2>3. CASE At(t) = "exit"
    <3>1. /\ held' = [held EXCEPT ![on[t]] = try[t].wd]
          /\ stage' = [stage EXCEPT ![on[t]] = "release"]
          /\ UNCHANGED <<owner, ready, on, tied, released>>
      BY <1>13, <2>3 DEF NextGranted
    <3>2. on[t] \in WDs /\ "release" \in Stages
      BY <1>1, <1>3 DEF LifeOK
    <3> QED
      BY <1>1, <2>1, <2>2, <3>1, <3>2 DEF LifeOK
  <2>4. CASE At(t) # "exit"
    <3>1. GoOn(t, try[t].wd, ready) /\ UNCHANGED <<held, owner, released>>
      BY <1>13, <2>4 DEF NextGranted
    <3> QED
      BY <1>1, <2>1, <2>2, <3>1, GoOnType DEF LifeOK
  <2> QED
    BY <2>3, <2>4
<1>14. ASSUME Scan(t) \/ ReadyRefused(t) PROVE LifeOK'
  BY <1>1, <1>14 DEF Scan, ReadyRefused, LifeOK
<1>15. ASSUME ReadyGranted(t) PROVE LifeOK'
  <2>1. try[t].wd \in WDs /\ \E i \in DOMAIN ready : ready[i] = try[t].wd
    BY <1>15 DEF ReadyGranted, TryInv, Found
  <2>2. Without(ready, try[t].wd) \in Seq(WDs)
    BY <1>1, <2>1, WithoutType DEF LifeOK
  <2> QED
    BY <1>1, <1>15, <2>1, <2>2, GoOnType DEF ReadyGranted, LifeOK
<1>16. ASSUME Prefetch(t) \/ PrefetchRefused(t) PROVE LifeOK'
  <2>1. stage' = stage \/ stage' = [stage EXCEPT ![on[t]] = "release"]
    BY <1>16 DEF Prefetch, PrefetchRefused, Consider
  <2>2. UNCHANGED <<owner, ready, nexts, on, tied, held, released>>
    BY <1>16 DEF Prefetch, PrefetchRefused
  <2> QED
    BY <1>1, <1>3, <2>1, <2>2 DEF LifeOK
<1>17. ASSUME PrefetchGranted(t) PROVE LifeOK'
  <2>1. try[t].wd \in WDs
    BY <1>17 DEF PrefetchGranted, TryInv, Found
  <2>2. nexts' \in [Threads -> Seq(WDs)]
    BY <1>4, <1>17, <2>1 DEF PrefetchGranted
  <2> QED
    BY <1>1, <1>2, <1>3, <1>17, <2>1, <2>2 DEF PrefetchGranted, LifeOK
<1>18. ASSUME Release(t) PROVE LifeOK'
  <2>1. released[on[t]] + 1 \in Nat
    BY <1>1, <1>2 DEF LifeOK
  <2> QED
    BY <1>1, <1>2, <1>3, <1>18, <2>1 DEF Release, LifeOK
<1>19. ASSUME Finished(t) PROVE LifeOK'
  <2>1. Successors(on[t]) \subseteq Tasks
    BY DEF Successors
  <2>2. ready' \in Seq(WDs)
    BY <1>1, <1>2, <1>5, <1>19, <2>1 DEF Finished, Queue, LifeOK
  <2> QED
    BY <1>1, <1>2, <1>3, <1>19, <2>1, <2>2 DEF Finished, LifeOK
<1>20. ASSUME Leave(t) PROVE LifeOK'
  <2> DEFINE p == Parent[on[t]]
  <2>1. ~UNCHANGED nexts => Wakes(p, on[t]) /\ ~Fits(t, p) /\ AddNext(tied[p], p)
    BY <1>20 DEF Leave
  <2>2. nexts' \in [Threads -> Seq(WDs)]
    <3>1. CASE UNCHANGED nexts
      BY <1>1, <3>1 DEF LifeOK
    <3>2. CASE ~UNCHANGED nexts
      <4>1. p \in WDs /\ tied[p] \in Threads
        BY <1>1, <1>2, <1>20, <2>1, <3>2, Names DEF Leave, At, StageInv, Wakes, Fits, LifeOK
      <4> QED
        BY <1>4, <2>1, <3>2, <4>1 DEF AddNext
    <3> QED
      BY <3>1, <3>2
  <2> QED
    BY <1>1, <1>2, <1>3, <1>20, <2>2 DEF Leave, LifeOK
<1>21. ASSUME WakeGranted(t) PROVE LifeOK'
  <2>1. try[t].wd \in WDs
    BY <1>21 DEF WakeGranted, TryInv, Found
  <2>2. nexts' \in [Threads -> Seq(WDs)]
    BY <1>4, <1>21, <2>1 DEF WakeGranted, AddNext
  <2> QED
    BY <1>1, <1>21, <2>2 DEF WakeGranted, LifeOK
<1>22. ASSUME WakeRefused(t) PROVE LifeOK'
  <2>1. try[t].wd \in WDs
    BY <1>22 DEF WakeRefused, TryInv, Found
  <2>2. CASE tied[try[t].wd] = None
    <3>1. ready' \in Seq(WDs)
      BY <1>5, <1>22, <2>1, <2>2 DEF WakeRefused, Queue
    <3> QED
      BY <1>1, <1>22, <2>2, <3>1 DEF WakeRefused, LifeOK
  <2>3. CASE tied[try[t].wd] # None
    <3>1. tied[try[t].wd] \in Threads
      BY <1>1, <1>2, <2>1, <2>3 DEF LifeOK
    <3>2. nexts' \in [Threads -> Seq(WDs)]
      BY <1>4, <1>22, <2>1, <2>3, <3>1 DEF WakeRefused, AddNext
    <3> QED
      BY <1>1, <1>22, <2>3, <3>2 DEF WakeRefused, LifeOK
  <2> QED
    BY <2>2, <2>3
<1>23. ASSUME Return(t) PROVE LifeOK'
  <2>1. tied[on[t]] \in WDs
    BY <1>1, <1>2, <1>23, Names DEF Return, LifeOK
  <2> QED
    BY <1>1, <1>2, <1>3, <1>23, <2>1 DEF Return, LifeOK
<1>24. ASSUME ExitToHeld(t) PROVE LifeOK'
  <2>1. held[on[t]] \in WDs /\ ready \in Seq(WDs) /\ GoOn(t, held[on[t]], ready)
    BY <1>1, <1>2, <1>24 DEF ExitToHeld, LifeOK
  <2> QED
    BY <1>1, <1>2, <1>24, <2>1, GoOnType DEF ExitToHeld, LifeOK
<1> QED
  BY <1>8, <1>9, <1>10, <1>11, <1>12, <1>13, <1>14, <1>15, <1>16, <1>17, <1>18, <1>19, <1>20,
     <1>21, <1>22, <1>23, <1>24 DEF Step

(* Every step keeps the type invariant. *)
LEMMA TypeStep ==
  ASSUME Program, TypeOK, StageInv, TryInv, NEW t \in Threads, Step(t)
  PROVE  TypeOK'
<1>1. SearchOK' /\ LockOK' /\ LifeOK'
  BY SearchStep, LockStep, LifeStep
<1> QED
  BY <1>1 DEF SearchOK, Searches, Checks, LockOK, LifeOK, TypeOK

-----------------------------------------------------------------------------
(* The life of a WD. *)

OwnMove(w, from, to) ==
  \/ from = "body" /\ to = "taskwait"
  \/ from \in {"body", "taskwait"} /\ w = Main /\ to = "left"
  \/ from \in {"body", "taskwait"} /\ w # Main /\ to \in {"exit", "prefetch"}
  \/ from = "exit" /\ to \in {"prefetch", "release"}
  \/ from = "prefetch" /\ to = "release"
  \/ from = "release" /\ to = "finished"
  \/ from = "finished" /\ to = "children"
  \/ from = "children" /\ to = "left" /\ Alive(w) = {} /\ ~CondLocked(Parent[w])
  \/ from = "left" /\ to = "gone"

(* Thread t moves its own WD, creates a task, queues a successor or starts a task. *)
StageMove(t, w, to) ==
  \/ w = on[t] /\ w \in Users /\ OwnMove(w, stage[w], to)
  \/ /\ w \in Tasks /\ stage[w] = "new" /\ to \in {"depends", "ready"}
     /\ on[t] = Parent[w] /\ At(t) = "body"
  \/ /\ stage[w] = "depends" /\ to = "ready"
     /\ w \in Successors(on[t]) /\ At(t) \in {"prefetch", "finished"}
  \/ stage[w] = "ready" /\ to = "body"

(* GoOn() starts a task or deletes the WD that has left. *)
LEMMA GoOnStage ==
  ASSUME StageInv, TypeOK, NEW t \in Threads, NEW v \in WDs, NEW queue, GoOn(t, v, queue),
         NEW w \in WDs, stage'[w] # stage[w]
  PROVE  StageMove(t, w, stage'[w])
<1>1. on[t] \in WDs /\ stage \in [WDs -> Stages]
  BY DEF TypeOK
<1>2. /\ w \in {v, on[t]} /\ (w # on[t] => w = v /\ stage[w] = "ready" /\ stage'[w] = "body")
      /\ w = on[t] => \/ stage[w] = "left" /\ stage'[w] = "gone"
                      \/ stage[w] = "ready" /\ stage'[w] = "body"
  BY <1>1 DEF GoOn
<1>3. stage[w] = "left" => w \in Users
  BY DEF StageInv, Users, WDs
<1> QED
  BY <1>2, <1>3 DEF StageMove, OwnMove

(* Whatever changes the stage of a WD is one of those moves. *)
LEMMA StageChange ==
  ASSUME Program, TypeOK, StageInv, TryInv, NEW t \in Threads, Step(t),
         NEW w \in WDs, stage'[w] # stage[w]
  PROVE  StageMove(t, w, stage'[w])
<1>1. on[t] \in WDs /\ stage \in [WDs -> Stages] /\ try \in [Threads -> Checks]
  BY DEF TypeOK, Checks
<1>2. At(t) # "loop" => on[t] \in Users
  BY <1>1 DEF StageInv, Users, WDs, At
<1>3. ASSUME NEW to, stage' = [stage EXCEPT ![on[t]] = to], At(t) # "loop",
             OwnMove(on[t], At(t), to)
      PROVE  StageMove(t, w, stage'[w])
  BY <1>1, <1>2, <1>3 DEF StageMove, At
<1>4. ASSUME UNCHANGED stage PROVE FALSE
  BY <1>4
<1>5. CASE Acquire(t) \/ GiveBack(t) \/ Scan(t) \/ ReadyRefused(t) \/ WakeGranted(t) \/ WakeRefused(t)
  BY <1>4, <1>5 DEF Acquire, GiveBack, Scan, ReadyRefused, WakeGranted, WakeRefused
<1>6. ASSUME NEW c \in Tasks, Create(t, c) PROVE StageMove(t, w, stage'[w])
  BY <1>1, <1>6 DEF Create, StageMove
<1>7. CASE EndBody(t)
  <2>1. At(t) = "body"
    BY <1>7 DEF EndBody
  <2>2. CASE stage' = [stage EXCEPT ![on[t]] = "taskwait"]
    BY <1>3, <2>1, <2>2 DEF OwnMove
  <2>3. CASE on[t] # Main /\ stage' = [stage EXCEPT ![on[t]] = End(on[t])]
    <3>1. OwnMove(on[t], At(t), End(on[t]))
      BY <2>1, <2>3 DEF OwnMove, End
    <3> QED
      BY <1>3, <2>1, <2>3, <3>1
  <2> QED
    BY <1>7, <2>2, <2>3 DEF EndBody
<1>8. CASE EndTaskwait(t)
  <2>1. At(t) = "taskwait" /\ stage' = [stage EXCEPT ![on[t]] = End(on[t])]
    BY <1>8 DEF EndTaskwait
  <2>2. OwnMove(on[t], At(t), End(on[t]))
    BY <2>1 DEF OwnMove, End
  <2> QED
    BY <1>3, <2>1, <2>2
<1>9. ASSUME NoNext(t), Looks(t) \/ At(t) = "exit" PROVE StageMove(t, w, stage'[w])
  <2>1. At(t) = "exit" /\ stage' = [stage EXCEPT ![on[t]] = "prefetch"]
    BY <1>9 DEF NoNext
  <2>2. OwnMove(on[t], At(t), "prefetch")
    BY <2>1 DEF OwnMove
  <2> QED
    BY <1>3, <2>1, <2>2
<1>10. CASE Seek(t) \/ NextRefused(t)
  <2>1. pc[t] = "next" => Looks(t) \/ At(t) = "exit"
    BY DEF TryInv, Searching
  <2> QED
    BY <1>9, <1>10, <2>1 DEF Seek, NextRefused
<1>11. CASE NextGranted(t)
  <2>1. try[t].wd \in WDs
    BY <1>11 DEF NextGranted, TryInv, Found
  <2>2. CASE At(t) = "exit"
    <3>1. stage' = [stage EXCEPT ![on[t]] = "release"] /\ OwnMove(on[t], At(t), "release")
      BY <1>11, <2>2 DEF NextGranted, OwnMove
    <3> QED
      BY <1>3, <2>2, <3>1
  <2>3. CASE At(t) # "exit"
    BY <1>11, <2>1, <2>3, GoOnStage DEF NextGranted
  <2> QED
    BY <2>2, <2>3
<1>12. CASE ReadyGranted(t)
  <2>1. try[t].wd \in WDs
    BY <1>12 DEF ReadyGranted, TryInv, Found
  <2> QED
    BY <1>12, <2>1, GoOnStage DEF ReadyGranted
<1>13. CASE Prefetch(t) \/ PrefetchRefused(t)
  <2>1. At(t) = "prefetch" /\ stage' = [stage EXCEPT ![on[t]] = "release"]
    BY <1>4, <1>13 DEF Prefetch, PrefetchRefused, Consider, TryInv, Searching
  <2>2. OwnMove(on[t], At(t), "release")
    BY <2>1 DEF OwnMove
  <2> QED
    BY <1>3, <2>1, <2>2
<1>14. CASE PrefetchGranted(t)
  <2> DEFINE v == try[t].wd
  <2>1. /\ At(t) = "prefetch" /\ v \in WDs /\ v \in Successors(on[t]) /\ stage[v] = "depends"
        /\ stage' = [stage EXCEPT ![v] = "ready", ![on[t]] = "release"]
    BY <1>14 DEF PrefetchGranted, TryInv, Searching, Found, Successors
  <2>2. v # on[t]
    BY <2>1 DEF At
  <2>3. OwnMove(on[t], At(t), "release")
    BY <2>1 DEF OwnMove
  <2>4. w \in {v, on[t]} /\ stage'[on[t]] = "release" /\ stage'[v] = "ready"
    BY <1>1, <2>1, <2>2
  <2> QED
    BY <1>2, <2>1, <2>3, <2>4 DEF StageMove, At
<1>15. CASE Release(t)
  <2>1. At(t) = "release" /\ stage' = [stage EXCEPT ![on[t]] = "finished"]
    BY <1>4, <1>15 DEF Release
  <2>2. OwnMove(on[t], At(t), "finished")
    BY <2>1 DEF OwnMove
  <2> QED
    BY <1>3, <2>1, <2>2
<1>16. CASE Finished(t)
  <2>1. At(t) = "finished"
    BY <1>16 DEF Finished
  <2>2. CASE Successors(on[t]) = {}
    <3>1. stage' = [stage EXCEPT ![on[t]] = "children"] /\ OwnMove(on[t], At(t), "children")
      BY <1>16, <2>1, <2>2 DEF Finished, OwnMove
    <3> QED
      BY <1>3, <2>1, <3>1
  <2>3. CASE Successors(on[t]) # {}
    <3>1. PICK c \in Successors(on[t]) : stage' = [stage EXCEPT ![c] = "ready"]
      BY <1>16, <2>3 DEF Finished
    <3>2. w = c /\ stage'[w] = "ready" /\ stage[w] = "depends"
      BY <1>1, <3>1 DEF Successors
    <3> QED
      BY <2>1, <3>1, <3>2 DEF StageMove
  <2> QED
    BY <2>2, <2>3
<1>17. CASE Leave(t)
  <2>1. At(t) = "children" /\ stage' = [stage EXCEPT ![on[t]] = "left"]
    BY <1>17 DEF Leave
  <2>2. OwnMove(on[t], At(t), "left")
    BY <1>17, <2>1 DEF Leave, OwnMove
  <2> QED
    BY <1>3, <2>1, <2>2
<1>18. CASE Return(t)
  <2>1. At(t) = "left" /\ stage' = [stage EXCEPT ![on[t]] = "gone"]
    BY <1>18 DEF Return
  <2>2. OwnMove(on[t], At(t), "gone")
    BY <2>1 DEF OwnMove
  <2> QED
    BY <1>3, <2>1, <2>2
<1>19. CASE ExitToHeld(t)
  <2>1. held[on[t]] \in WDs /\ GoOn(t, held[on[t]], ready)
    BY <1>1, <1>19 DEF ExitToHeld, TypeOK
  <2> QED
    BY <2>1, GoOnStage
<1> QED
  BY <1>5, <1>6, <1>7, <1>8, <1>10, <1>11, <1>12, <1>13, <1>14, <1>15, <1>16, <1>17, <1>18, <1>19
  DEF Step

(* Every step keeps the threads' own WDs in their loop, and Main where it may be. *)
LEMMA StageStep ==
  ASSUME Program, TypeOK, StageInv, TryInv, NEW t \in Threads, Step(t)
  PROVE  StageInv'
<1>1. TypeOK'
  BY TypeStep
<1>2. \A w \in WDs : stage'[w] # stage[w] => StageMove(t, w, stage'[w])
  BY StageChange
<1>3. \A w \in Workers : stage'[w] = "loop"
  BY <1>2, Names DEF StageMove, StageInv, Users, Successors
<1>4. stage'[Main] \in {"body", "taskwait", "left", "gone"}
  BY <1>2, Names DEF StageMove, OwnMove, StageInv, Successors
<1>5. \A w \in Tasks : stage'[w] # "loop"
  BY <1>2, Names DEF StageMove, OwnMove, StageInv
<1>6. \A w \in WDs : held'[w] # None => w \in Tasks
  <2>1. CASE UNCHANGED held
    BY <2>1 DEF StageInv
  <2>2. CASE NextGranted(t) /\ At(t) = "exit"
    <3>1. held' = [held EXCEPT ![on[t]] = try[t].wd] /\ stage[on[t]] = "exit" /\ on[t] \in WDs
      BY <2>2 DEF NextGranted, At, TypeOK
    <3>2. on[t] \in Tasks
      BY <3>1, Names DEF StageInv
    <3> QED
      BY <3>1, <3>2 DEF StageInv, TypeOK
  <2>3. CASE ExitToHeld(t)
    BY <2>3 DEF ExitToHeld, StageInv, TypeOK
  <2>4. UNCHANGED held \/ (NextGranted(t) /\ At(t) = "exit") \/ ExitToHeld(t)
    BY DEF Step, Acquire, GiveBack, Create, EndBody, EndTaskwait, Seek, NextGranted, NextRefused, Scan,
           ReadyGranted, ReadyRefused, Prefetch, PrefetchGranted, PrefetchRefused, Release, Finished,
           Leave, WakeGranted, WakeRefused, Return
  <2> QED
    BY <2>1, <2>2, <2>3, <2>4
<1> QED
  BY <1>3, <1>4, <1>5, <1>6 DEF StageInv

-----------------------------------------------------------------------------
(* Places: no two threads run, or check, the same WD of the program. *)

(* No two threads run one WD of the program. *)
LEMMA RunsAlone ==
  ASSUME NEW kind, NEW who, PlacedAt(kind, who),
         NEW t \in Threads, NEW u \in Threads \ {t}, on[t] \in Users
  PROVE  on[u] # on[t]
BY DEF PlacedAt, IsAt

(* Where the WD is that a thread checks. *)
LEMMA TriedPlace ==
  ASSUME NEW kind, NEW who, Inv(kind, who), NEW t \in Threads, try[t] # Idle, try[t].wd \in Users
  PROVE  LET w == try[t].wd
         IN \/ pc[t] = "next" /\ IsAt(w, kind, who, "next", t)
            \/ pc[t] = "ready" /\ IsAt(w, kind, who, "ready", None)
            \/ pc[t] = "wake" /\ IsAt(w, kind, who, "wake", t)
            \/ pc[t] = "prefetch" /\ stage[w] = "depends" /\ kind[w] = "nowhere"
<1>1. pc[t] \in {"next", "ready", "prefetch", "wake"}
  BY DEF Inv, TypeOK
<1>2. Found(t, try[t].wd)
  BY DEF Inv, TryInv
<1>3. PlacedAt(kind, who) /\ PlaceFits(kind)
  BY DEF Inv
<1>4. CASE pc[t] = "next"
  BY <1>2, <1>3, <1>4 DEF Found, PlacedAt, InQueue
<1>5. CASE pc[t] = "ready"
  BY <1>2, <1>3, <1>5 DEF Found, PlacedAt, InQueue
<1>6. CASE pc[t] = "prefetch"
  BY <1>2, <1>3, <1>6 DEF Found, PlaceFits, Successors
<1>7. CASE pc[t] = "wake"
  BY <1>3, <1>7 DEF PlacedAt
<1> QED
  BY <1>1, <1>4, <1>5, <1>6, <1>7

(* A WD that is checked waits for something. *)
LEMMA TriedStage ==
  ASSUME NEW kind, NEW who, Inv(kind, who), NEW t \in Threads, try[t] # Idle, try[t].wd \in Users
  PROVE  stage[try[t].wd] \in {"depends", "ready"} \cup Awaiting
BY TriedPlace DEF Inv, PlaceFits, IsAt

(* Two WDs that end cannot both be the last predecessor of a task. *)
LEMMA LastPredecessor ==
  ASSUME NEW v, NEW w, stage[v] \notin Over, stage[w] \notin Over, NEW c,
         c \in Successors(v), c \in Successors(w)
  PROVE  v = w
BY DEF Successors

(* No two threads check one WD of the program. *)
LEMMA TriedAlone ==
  ASSUME NEW kind, NEW who, Inv(kind, who),
         NEW t \in Threads, NEW u \in Threads \ {t}, try[t] # Idle, try[u] # Idle,
         try[t].wd \in Users
  PROVE  try[u].wd # try[t].wd
<1> SUFFICES ASSUME try[u].wd = try[t].wd PROVE FALSE
  OBVIOUS
<1>1. CASE pc[t] = "prefetch" /\ pc[u] = "prefetch"
  <2>1. try[t].wd \in Successors(on[t]) /\ try[t].wd \in Successors(on[u])
    BY <1>1 DEF Inv, TryInv, Found
  <2>2. stage[on[t]] = "prefetch" /\ stage[on[u]] = "prefetch"
    BY <1>1 DEF Inv, TryInv, Searching, At
  <2>3. on[t] = on[u]
    BY <2>1, <2>2, LastPredecessor DEF Over
  <2>4. on[t] \in Users
    BY <2>2 DEF Inv, TypeOK, StageInv, Users, WDs
  <2> QED
    BY <2>3, <2>4, RunsAlone DEF Inv
<1>2. CASE pc[t] = "ready" /\ pc[u] = "ready"
  BY <1>2 DEF Inv, TypeOK
<1> QED
  BY <1>1, <1>2, TriedPlace DEF IsAt

-----------------------------------------------------------------------------
(* The owners, in a step that neither takes nor gives back an address. *)

Restarts(t) == \A u \in Threads :
  \/ try'[u] = try[u]
  \/ u = t /\ try'[u] \in {Idle} \cup {Begin(v) : v \in WDs}

(* The owners stay right if what is chosen owned its addresses already. *)
LEMMA OwnKept ==
  ASSUME Program, NEW kind, NEW who, Inv(kind, who), NEW t \in Threads, Step(t), NEW kind2,
         UNCHANGED <<owner, released>>, Restarts(t),
         \A w \in Tasks : Chosen(w, kind2)' =>
           \/ Chosen(w, kind)
           \/ Owns(w, 1) /\ \A u \in Threads : try'[u].wd = w => ~try'[u].undo,
         \A w \in Tasks : stage'[w] \in Before /\ ~Chosen(w, kind2)' =>
           ~Chosen(w, kind) /\ (try[t].wd # w \/ try[t].taken = 0 \/ try'[t] = try[t])
  PROVE  OwnInv(kind2)'
<1>1. TypeOK /\ StageInv /\ TryInv /\ OwnInv(kind) /\ Tasks \subseteq WDs
  BY Names DEF Inv
<1>2. \A w \in Tasks : stage'[w] # stage[w] => StageMove(t, w, stage'[w])
  BY <1>1, StageChange
<1>3. ASSUME NEW w \in Tasks
      PROVE  /\ stage'[w] = "release" => stage[w] = "release" \/ stage[w] \in Inside
             /\ stage'[w] \in Before \cup Inside => stage[w] \in Before \cup Inside
             /\ stage'[w] \in Before => stage[w] \in Before
  BY <1>2 DEF StageMove, OwnMove, Before, Inside
<1>4. \A w \in Tasks : OwnedInv(w, kind)
  BY <1>1 DEF OwnInv
<1>5. \A w \in Tasks : stage[w] \in Inside => Owns(w, 1) /\ released[w] = 0
  BY <1>4 DEF OwnedInv, Chosen
<1>6. ASSUME NEW u \in Threads PROVE TakenInv(u, kind2)'
  <2>1. CASE try'[u] = try[u]
    <3> DEFINE v == try[u].wd
    <3>1. TakenInv(u, kind)
      BY <1>1 DEF OwnInv
    <3>2. v \in Tasks /\ try[u].undo /\ try[u] # Idle => ~Chosen(v, kind2)'
      BY <2>1, <3>1 DEF TakenInv
    <3> QED
      BY <2>1, <3>1, <3>2 DEF TakenInv
  <2>2. CASE try'[u] = Idle
    BY <2>2 DEF TakenInv
  <2>3. ASSUME NEW v \in WDs, try'[u] = Begin(v) PROVE TakenInv(u, kind2)'
    <3>1. try'[u].wd = v /\ try'[u].taken = 0 /\ ~try'[u].undo
      BY <2>3 DEF Begin
    <3>2. 0 <= Len(Accesses[v]) /\ 1..0 = {}
      BY <3>1, Lengths
    <3> QED
      BY <3>1, <3>2 DEF TakenInv
  <2> QED
    BY <2>1, <2>2, <2>3 DEF Restarts
<1>7. ASSUME NEW w \in Tasks PROVE OwnedInv(w, kind2)'
  <2>1. /\ Owns(w, 1)' = Owns(w, 1) /\ Owns(w, released[w] + 1)' = Owns(w, released[w] + 1)
        /\ released' = released
    BY Zenon DEF Owns
  <2>2. Chosen(w, kind2)' => Owns(w, 1)
    BY <1>4 DEF OwnedInv
  <2>3. stage'[w] = "release" => Owns(w, released[w] + 1)
    <3>1. CASE stage[w] = "release"
      BY <1>4, <3>1 DEF OwnedInv
    <3>2. CASE stage[w] \in Inside
      BY <1>5, <3>2 DEF Owns
    <3> QED
      BY <1>3, <3>1, <3>2
  <2>4. stage'[w] \in Before \cup Inside => released[w] = 0
    BY <1>3, <1>4 DEF OwnedInv
  <2>5. ASSUME stage'[w] \in Before, ~Chosen(w, kind2)',
               NEW i \in DOMAIN Accesses[w], owner[Key(w, i)] = w
        PROVE  \E u \in Threads : try'[u].wd = w /\ i <= try'[u].taken
    <3>1. stage[w] \in Before /\ ~Chosen(w, kind)
      BY <1>3, <2>5
    <3>2. PICK u \in Threads : try[u].wd = w /\ i <= try[u].taken
      BY <1>4, <2>5, <3>1 DEF OwnedInv
    <3>3. i \in Nat \ {0}
      BY <1>1, Lengths
    <3>4. try[u].taken # 0
      BY <1>1, <3>2, <3>3 DEF TypeOK
    <3>5. try'[u] = try[u]
      BY <2>5, <3>2, <3>4 DEF Restarts
    <3> QED
      BY <3>2, <3>5
  <2> QED
    BY <2>1, <2>2, <2>3, <2>4, <2>5 DEF OwnedInv
<1> QED
  BY <1>6, <1>7 DEF OwnInv

-----------------------------------------------------------------------------
(* Steps that leave every WD where it is. *)

Placing(kind, who) == PlacedAt(kind, who) /\ PlaceFits(kind) /\ OwnInv(kind)

StaysPut == UNCHANGED <<on, held, ready, nexts>>

Quiet(t) ==
  /\ \A u \in Threads : pc'[u] = "wake" => pc[u] = "wake" /\ try'[u].wd = try[u].wd
  /\ \A w \in WDs : stage'[w] # stage[w] => stage'[w] \notin {"ready", "body", "gone"}

(* A quiet step that moves no WD leaves the places right. *)
LEMMA PlaceKept ==
  ASSUME Program, NEW kind, NEW who, Inv(kind, who), NEW t \in Threads, Step(t), StaysPut, Quiet(t)
  PROVE  PlacedAt(kind, who)' /\ PlaceFits(kind)'
<1>1. PlacedAt(kind, who) /\ PlaceFits(kind) /\ TypeOK /\ StageInv /\ TryInv
  BY DEF Inv
<1>2. PlacedAt(kind, who)'
  BY <1>1 DEF PlacedAt, StaysPut, Quiet, InQueue
<1>3. Users \subseteq WDs
  BY DEF Users, WDs
<1>4. ASSUME NEW w \in Users, stage'[w] # stage[w]
      PROVE  \/ kind[w] = "on" /\ stage'[w] \notin {"new", "depends", "gone", "ready"}
             \/ kind[w] = "nowhere" /\ stage'[w] \notin {"ready"}
  <2>1. StageMove(t, w, stage'[w]) /\ stage'[w] \notin {"ready", "body", "gone"}
    BY <1>1, <1>3, <1>4, StageChange DEF Quiet
  <2>2. CASE w = on[t]
    <3>1. kind[w] = "on" /\ stage[w] \notin {"new", "depends", "ready"}
      BY <1>1, <2>2 DEF PlacedAt, PlaceFits, IsAt
    <3> QED
      BY <2>1, <3>1 DEF StageMove, OwnMove
  <2>3. CASE w # on[t]
    <3>1. stage[w] = "new"
      BY <2>1, <2>3 DEF StageMove
    <3> QED
      BY <1>1, <2>1, <3>1 DEF PlaceFits
  <2> QED
    BY <2>2, <2>3
<1>5. PlaceFits(kind)'
  BY <1>1, <1>4 DEF PlaceFits
<1> QED
  BY <1>2, <1>5

(* A quiet step that moves no WD and changes no owner leaves all three right. *)
LEMMA SamePlace ==
  ASSUME Program, NEW kind, NEW who, Inv(kind, who), NEW t \in Threads, Step(t), StaysPut, Quiet(t),
         UNCHANGED <<owner, released>>, Restarts(t), try[t].taken = 0 \/ try'[t] = try[t]
  PROVE  Placing(kind, who)'
<1>1. TypeOK /\ StageInv /\ TryInv /\ Tasks \subseteq WDs
  BY Names DEF Inv
<1>2. ASSUME NEW w \in Tasks, stage'[w] # stage[w]
      PROVE  /\ stage'[w] \in Inside => stage[w] \in Inside
             /\ stage'[w] \in Before => stage[w] = "new"
             /\ stage'[w] # "ready"
  <2>1. StageMove(t, w, stage'[w]) /\ stage'[w] \notin {"ready", "body", "gone"}
    BY <1>1, <1>2, StageChange DEF Quiet
  <2> QED
    BY <2>1 DEF StageMove, OwnMove, Inside, Before
<1>3. \A w \in Tasks : Chosen(w, kind)' => Chosen(w, kind)
  BY <1>2 DEF Chosen
<1>4. \A w \in Tasks : stage'[w] \in Before /\ ~Chosen(w, kind)' => ~Chosen(w, kind)
  BY <1>2 DEF Chosen, Inside
<1>5. OwnInv(kind)'
  BY <1>3, <1>4, OwnKept
<1> QED
  BY <1>5, PlaceKept DEF Placing

(* The ways a thread begins or ends a check. *)
LEMMA RestartsBy ==
  ASSUME TypeOK, TypeOK', NEW t \in Threads,
         \/ UNCHANGED try
         \/ Checked(t)
         \/ \E v : try' = [try EXCEPT ![t] = Begin(v)]
  PROVE  Restarts(t)
<1>1. CASE UNCHANGED try
  BY <1>1 DEF Restarts
<1>2. CASE Checked(t)
  BY <1>2 DEF Restarts, Checked, TypeOK
<1>3. ASSUME NEW v, try' = [try EXCEPT ![t] = Begin(v)] PROVE Restarts(t)
  <2>1. try'[t] = Begin(v) /\ \A u \in Threads \ {t} : try'[u] = try[u]
    BY <1>3 DEF TypeOK
  <2>2. try'[t].wd \in WDs \cup {None}
    BY DEF TypeOK
  <2>3. v \in WDs \/ v = None
    BY <2>1, <2>2 DEF Begin
  <2>4. v = None => Begin(v) = Idle
    BY DEF Begin, Idle
  <2> QED
    BY <2>1, <2>3, <2>4 DEF Restarts
<1> QED
  BY <1>1, <1>2, <1>3

(* The ways a step is quiet. *)
LEMMA QuietBy ==
  ASSUME TypeOK, NEW t \in Threads, pc'[t] # "wake",
         try' = try \/ \E r : try' = [try EXCEPT ![t] = r],
         pc' = pc \/ \E l : pc' = [pc EXCEPT ![t] = l],
         \/ UNCHANGED stage
         \/ \E w \in WDs : \E to : /\ stage' = [stage EXCEPT ![w] = to]
                                 /\ to \notin {"ready", "body", "gone"}
  PROVE  Quiet(t)
<1>1. \A u \in Threads \ {t} : pc'[u] = pc[u] /\ try'[u] = try[u]
  BY DEF TypeOK
<1>2. \A w \in WDs : stage'[w] # stage[w] => stage'[w] \notin {"ready", "body", "gone"}
  BY DEF TypeOK
<1> QED
  BY <1>1, <1>2 DEF Quiet

(* What these steps do not change, and how they search. *)
SameStep(t) == /\ StaysPut /\ UNCHANGED <<owner, released>>
               /\ Quiet(t) /\ Restarts(t)
               /\ try[t].taken = 0 \/ try'[t] = try[t]

(* The actions that are such steps. *)
LEMMA SameSteps ==
  ASSUME Program, TypeOK, StageInv, TryInv, NEW t \in Threads, Step(t),
         \/ \E c \in Tasks : Create(t, c) /\ stage'[c] = "depends"
         \/ EndBody(t) \/ EndTaskwait(t) \/ Seek(t) \/ NextRefused(t)
         \/ Scan(t) \/ ReadyRefused(t) \/ Prefetch(t) \/ PrefetchRefused(t)
         \/ Finished(t) /\ Successors(on[t]) = {}
         \/ Leave(t) /\ ~Wakes(Parent[on[t]], on[t])
  PROVE  SameStep(t)
<1>1. on[t] \in WDs /\ Tasks \subseteq WDs
  BY Names DEF TypeOK
<1>2. TypeOK'
  BY TypeStep
<1>3. pc[t] \in {"go", "scan"} => try[t].taken = 0
  BY DEF TypeOK, Idle
<1>4. ASSUME pc[t] = "go", UNCHANGED <<on, held, ready, nexts, owner, released, pc, try>>,
             NEW w \in WDs, NEW to, stage' = [stage EXCEPT ![w] = to], to \notin {"ready", "body", "gone"}
      PROVE  SameStep(t)
  <2>1. pc'[t] # "wake" /\ try' = try /\ pc' = pc
    BY <1>4
  <2>2. Quiet(t)
    BY <1>4, <2>1, QuietBy
  <2>3. Restarts(t)
    BY <1>2, <2>1, RestartsBy
  <2> QED
    BY <1>4, <2>1, <2>2, <2>3 DEF SameStep, StaysPut
<1>5. ASSUME try[t].taken = 0, UNCHANGED <<on, held, ready, nexts, owner, released>>,
             \/ Checked(t)
             \/ /\ \E v : try' = [try EXCEPT ![t] = Begin(v)]
                /\ \/ pc' = pc /\ pc[t] # "wake"
                   \/ \E l : l # "wake" /\ pc' = [pc EXCEPT ![t] = l],
             \/ UNCHANGED stage
             \/ \E to : stage' = [stage EXCEPT ![on[t]] = to] /\ to \notin {"ready", "body", "gone"}
      PROVE  SameStep(t)
  <2>1. Restarts(t)
    BY <1>2, <1>5, RestartsBy
  <2>2. pc'[t] # "wake"
    BY <1>5 DEF Checked, TypeOK
  <2>3. /\ try' = try \/ \E r : try' = [try EXCEPT ![t] = r]
        /\ pc' = pc \/ \E l : pc' = [pc EXCEPT ![t] = l]
    BY <1>5 DEF Checked
  <2>4. Quiet(t)
    BY <1>1, <1>5, <2>2, <2>3, QuietBy
  <2> QED
    BY <1>5, <2>1, <2>4 DEF SameStep, StaysPut
<1>6. ASSUME NoNext(t), try[t].taken = 0, UNCHANGED <<on, held, ready, nexts, owner, released>>
      PROVE  SameStep(t)
  <2>1. try' = [try EXCEPT ![t] = Begin(None)]
    BY <1>6 DEF NoNext, Begin, Idle
  <2>2. CASE Looks(t)
    BY <1>5, <1>6, <2>1, <2>2 DEF NoNext
  <2>3. CASE ~Looks(t)
    BY <1>5, <1>6, <2>1, <2>3 DEF NoNext
  <2> QED
    BY <2>2, <2>3
<1>7. ASSUME NEW c, Consider(t, c), try[t].taken = 0, UNCHANGED <<on, held, ready, nexts, owner, released>>
      PROVE  SameStep(t)
  <2>1. CASE c = {}
    BY <1>5, <1>7, <2>1 DEF Consider
  <2>2. CASE c # {}
    BY <1>5, <1>7, <2>2 DEF Consider
  <2> QED
    BY <2>1, <2>2
<1>8. ASSUME NEW c \in Tasks, Create(t, c), stage'[c] = "depends" PROVE SameStep(t)
  <2>1. stage' = [stage EXCEPT ![c] = "depends"] /\ UNCHANGED ready
    BY <1>1, <1>8 DEF Create, TypeOK
  <2> QED
    BY <1>1, <1>4, <1>8, <2>1 DEF Create
<1>9. CASE EndBody(t)
  <2>1. End(on[t]) \notin {"ready", "body", "gone"}
    BY DEF End
  <2> QED
    BY <1>1, <1>4, <1>9, <2>1 DEF EndBody
<1>10. CASE EndTaskwait(t)
  <2>1. End(on[t]) \notin {"ready", "body", "gone"}
    BY DEF End
  <2> QED
    BY <1>1, <1>4, <1>10, <2>1 DEF EndTaskwait
<1>11. CASE Seek(t)
  <2>1. CASE nexts[t] = <<>>
    BY <1>3, <1>6, <1>11, <2>1 DEF Seek
  <2>2. CASE nexts[t] # <<>>
    BY <1>3, <1>5, <1>11, <2>2 DEF Seek
  <2> QED
    BY <2>1, <2>2
<1>12. CASE NextRefused(t)
  <2>1. try[t].taken = 0 /\ pc[t] # "wake"
    BY <1>12 DEF NextRefused, Refused
  <2>2. CASE Position(nexts[t], try[t].wd) + 1 > Len(nexts[t])
    BY <1>6, <1>12, <2>1, <2>2 DEF NextRefused
  <2>3. CASE ~(Position(nexts[t], try[t].wd) + 1 > Len(nexts[t]))
    BY <1>5, <1>12, <2>1, <2>3 DEF NextRefused
  <2> QED
    BY <2>2, <2>3
<1>13. CASE Scan(t)
  <2>1. CASE Fitting(t, 1) = {}
    <3>1. try' = [try EXCEPT ![t] = Begin(None)]
      BY <1>13, <2>1 DEF Scan, TypeOK, Begin, Idle
    <3> QED
      BY <1>3, <1>5, <1>13, <2>1, <3>1 DEF Scan
  <2>2. CASE Fitting(t, 1) # {}
    BY <1>3, <1>5, <1>13, <2>2 DEF Scan
  <2> QED
    BY <2>1, <2>2
<1>14. CASE ReadyRefused(t)
  <2>1. try[t].taken = 0 /\ pc[t] # "wake"
    BY <1>14 DEF ReadyRefused, Refused
  <2>2. CASE Fitting(t, Position(ready, try[t].wd) + 1) = {}
    BY <1>5, <1>14, <2>1, <2>2 DEF ReadyRefused
  <2>3. CASE Fitting(t, Position(ready, try[t].wd) + 1) # {}
    BY <1>5, <1>14, <2>1, <2>3 DEF ReadyRefused
  <2> QED
    BY <2>2, <2>3
<1>15. CASE Prefetch(t)
  BY <1>3, <1>7, <1>15 DEF Prefetch
<1>16. CASE PrefetchRefused(t)
  BY <1>7, <1>16 DEF PrefetchRefused, Refused
<1>17. CASE Finished(t) /\ Successors(on[t]) = {}
  BY <1>1, <1>4, <1>17 DEF Finished
<1>18. CASE Leave(t) /\ ~Wakes(Parent[on[t]], on[t])
  <2>1. pc[t] = "go" /\ UNCHANGED <<on, held, ready, nexts, owner, released, pc, try>>
    BY <1>18 DEF Leave
  <2>2. stage' = [stage EXCEPT ![on[t]] = "left"]
    BY <1>18 DEF Leave
  <2>3. "left" \notin {"ready", "body", "gone"}
    OBVIOUS
  <2> QED
    BY <1>1, <1>4, <2>1, <2>2, <2>3, Zenon
<1> QED
  BY <1>8, <1>9, <1>10, <1>11, <1>12, <1>13, <1>14, <1>15, <1>16, <1>17, <1>18

-----------------------------------------------------------------------------
(* Steps that move WD v. *)

OnAt(kind, who)   == \A t \in Threads : on[t] \in Users => IsAt(on[t], kind, who, "on", t)
HeldAt(kind, who) == \A w \in WDs : held[w] \in Users => IsAt(held[w], kind, who, "held", w)
ReadyAt(kind, who) == InQueue(ready, kind, who, "ready", None)
NextAt(kind, who)  == \A t \in Threads : InQueue(nexts[t], kind, who, "next", t)
WakeAt(kind, who)  == \A t \in Threads : pc[t] = "wake" => IsAt(try[t].wd, kind, who, "wake", t)

(* A WD of one place is absent from the others. *)
LEMMA Elsewhere ==
  ASSUME NEW kind, NEW who, PlacedAt(kind, who), NEW v \in Users
  PROVE  /\ kind[v] # "on" => \A t \in Threads : on[t] # v
         /\ kind[v] # "held" => \A w \in WDs : held[w] # v
         /\ kind[v] # "ready" => Absent(ready, v)
         /\ \A t \in Threads : kind[v] # "next" \/ who[v] # t => Absent(nexts[t], v)
         /\ \A t \in Threads : pc[t] = "wake" /\ (kind[v] # "wake" \/ who[v] # t) => try[t].wd # v
<1>1. kind[v] # "on" => \A t \in Threads : on[t] # v
  BY DEF PlacedAt, IsAt
<1>2. kind[v] # "held" => \A w \in WDs : held[w] # v
  BY DEF PlacedAt, IsAt
<1>3. kind[v] # "ready" => Absent(ready, v)
  BY NotQueued DEF PlacedAt, IsAt
<1>4. ASSUME NEW t \in Threads, kind[v] # "next" \/ who[v] # t PROVE Absent(nexts[t], v)
  <2>1. InQueue(nexts[t], kind, who, "next", t) /\ ~IsAt(v, kind, who, "next", t)
    BY <1>4 DEF PlacedAt, IsAt
  <2> QED
    BY <2>1, NotQueued
<1>5. \A t \in Threads : pc[t] = "wake" /\ (kind[v] # "wake" \/ who[v] # t) => try[t].wd # v
  BY DEF PlacedAt, IsAt
<1> QED
  BY <1>1, <1>2, <1>3, <1>4, <1>5

(* The places that a moved WD does not concern. *)
LEMMA KeptParts ==
  ASSUME NEW kind, NEW who, NEW kind2, NEW who2, NEW v, PlacedAt(kind, who),
         \A u \in Threads : pc[u] = "wake" => try[u].wd \in Users,
         Stays(v, kind, who, kind2, who2)
  PROVE  /\ UNCHANGED on /\ (v \in Users => \A t \in Threads : on[t] # v) => OnAt(kind2, who2)'
         /\ UNCHANGED held /\ (v \in Users => \A w \in WDs : held[w] # v) => HeldAt(kind2, who2)'
         /\ UNCHANGED ready /\ Absent(ready, v) => ReadyAt(kind2, who2)'
         /\ UNCHANGED nexts /\ (\A t \in Threads : Absent(nexts[t], v)) => NextAt(kind2, who2)'
         /\ (\A t \in Threads : pc'[t] = "wake" =>
               pc[t] = "wake" /\ try'[t].wd = try[t].wd /\ (v \in Users => try[t].wd # v))
             => WakeAt(kind2, who2)'
<1>1. UNCHANGED on /\ (v \in Users => \A t \in Threads : on[t] # v) => OnAt(kind2, who2)'
  BY DEF PlacedAt, OnAt, Stays, IsAt
<1>2. UNCHANGED held /\ (v \in Users => \A w \in WDs : held[w] # v) => HeldAt(kind2, who2)'
  BY DEF PlacedAt, HeldAt, Stays, IsAt
<1>3. UNCHANGED ready /\ Absent(ready, v) => ReadyAt(kind2, who2)'
  BY QueueKept DEF PlacedAt, ReadyAt
<1>4. UNCHANGED nexts /\ (\A t \in Threads : Absent(nexts[t], v)) => NextAt(kind2, who2)'
  BY QueueKept DEF PlacedAt, NextAt
<1>5. (\A t \in Threads : pc'[t] = "wake" =>
         pc[t] = "wake" /\ try'[t].wd = try[t].wd /\ (v \in Users => try[t].wd # v))
      => WakeAt(kind2, who2)'
  BY DEF PlacedAt, WakeAt, Stays, IsAt
<1> QED
  BY <1>1, <1>2, <1>3, <1>4, <1>5

(* The stages still fit when one WD moves and the others run on. *)
LEMMA FitsMoved ==
  ASSUME NEW kind, NEW who, NEW kind2, NEW who2, NEW v, PlaceFits(kind),
         Stays(v, kind, who, kind2, who2),
         \A w \in Users \ {v} :
           \/ stage'[w] = stage[w]
           \/ kind[w] = "on" /\ stage'[w] \notin {"new", "depends", "gone", "ready"},
         v \in Users =>
           /\ stage'[v] \in {"new", "depends", "gone"} => kind2[v] = "nowhere"
           /\ stage'[v] = "ready" => kind2[v] \in {"held", "ready", "next"}
           /\ kind2[v] \in {"held", "ready", "next", "wake"} => stage'[v] \in {"ready"} \cup Awaiting
  PROVE  PlaceFits(kind2)'
BY DEF PlaceFits, Stays

(* The owners stay right when one WD moves. *)
LEMMA OwnMoved ==
  ASSUME Program, NEW kind, NEW who, Inv(kind, who), NEW t \in Threads, Step(t),
         NEW kind2, NEW who2, NEW v, Stays(v, kind, who, kind2, who2),
         UNCHANGED <<owner, released>>, Restarts(t),
         \A w \in Tasks \ {v} : stage'[w] # stage[w] => stage'[w] \notin {"depends", "ready", "body"},
         try[t].wd = v \/ try'[t] = try[t] \/ try[t].taken = 0,
         v \in Tasks =>
           /\ Chosen(v, kind2)' =>
                \/ Chosen(v, kind)
                \/ Owns(v, 1) /\ \A u \in Threads : try'[u].wd = v => ~try'[u].undo
           /\ stage'[v] \in Before /\ ~Chosen(v, kind2)' =>
                ~Chosen(v, kind) /\ (try[t].taken = 0 \/ try'[t] = try[t])
  PROVE  OwnInv(kind2)'
<1>1. TypeOK /\ StageInv /\ TryInv /\ Tasks \subseteq WDs /\ Tasks \subseteq Users
  BY Names DEF Inv, Users
<1>2. ASSUME NEW w \in Tasks \ {v}, stage'[w] # stage[w]
      PROVE  /\ stage'[w] \in Inside => stage[w] \in Inside
             /\ stage'[w] \notin Before
  <2>1. StageMove(t, w, stage'[w]) /\ stage'[w] \notin {"depends", "ready", "body"}
    BY <1>1, <1>2, StageChange
  <2> QED
    BY <2>1 DEF StageMove, OwnMove, Inside, Before
<1>3. \A w \in Tasks \ {v} : kind2[w] = kind[w]
  BY <1>1 DEF Stays
<1>4. \A w \in Tasks \ {v} : Chosen(w, kind2)' => Chosen(w, kind)
  BY <1>2, <1>3 DEF Chosen, Before
<1>5. \A w \in Tasks \ {v} : stage'[w] \in Before => stage'[w] = stage[w]
  BY <1>2
<1>6. \A w \in Tasks \ {v} : stage'[w] \in Before /\ ~Chosen(w, kind2)' => ~Chosen(w, kind)
  BY <1>3, <1>5 DEF Chosen
<1>7. \A w \in Tasks : Chosen(w, kind2)' =>
        \/ Chosen(w, kind)
        \/ Owns(w, 1) /\ \A u \in Threads : try'[u].wd = w => ~try'[u].undo
  <2> SUFFICES ASSUME NEW w \in Tasks, Chosen(w, kind2)', ~Chosen(w, kind)
               PROVE  Owns(w, 1) /\ \A u \in Threads : try'[u].wd = w => ~try'[u].undo
    OBVIOUS
  <2>1. w = v
    BY <1>4
  <2>2. Chosen(v, kind2)' /\ ~Chosen(v, kind) /\ v \in Tasks
    BY <2>1 DEF Chosen
  <2> QED
    BY <2>1, <2>2
<1>8. \A w \in Tasks : stage'[w] \in Before /\ ~Chosen(w, kind2)' =>
        ~Chosen(w, kind) /\ (try[t].wd # w \/ try[t].taken = 0 \/ try'[t] = try[t])
  <2> SUFFICES ASSUME NEW w \in Tasks, stage'[w] \in Before, ~Chosen(w, kind2)'
               PROVE  ~Chosen(w, kind) /\ (try[t].wd # w \/ try[t].taken = 0 \/ try'[t] = try[t])
    OBVIOUS
  <2>1. CASE w # v
    BY <1>6, <2>1
  <2>2. CASE w = v
    <3>1. ~Chosen(v, kind2)' /\ stage'[v] \in Before /\ v \in Tasks
      BY <2>2 DEF Chosen
    <3>2. ~Chosen(v, kind) /\ (try[t].taken = 0 \/ try'[t] = try[t])
      BY <3>1
    <3> QED
      BY <2>2, <3>2
  <2> QED
    BY <2>1, <2>2
<1> QED
  BY <1>7, <1>8, OwnKept

Placement == \E kind2 \in [Users -> Kinds], who2 \in [Users -> Holders] : Placing(kind2, who2)'

(* A new placement is one of its parts together. *)
LEMMA PlacedAnew ==
  ASSUME NEW kind2 \in [Users -> Kinds], NEW who2 \in [Users -> Holders],
         OnAt(kind2, who2)', HeldAt(kind2, who2)', ReadyAt(kind2, who2)',
         NextAt(kind2, who2)', WakeAt(kind2, who2)', PlaceFits(kind2)', OwnInv(kind2)'
  PROVE  Placement
<1>1. PlacedAt(kind2, who2)'
  BY Zenon DEF PlacedAt, OnAt, HeldAt, ReadyAt, NextAt, WakeAt
<1> QED
  BY <1>1 DEF Placement, Placing

(* The moved WD is added to a next-WD queue. *)
LEMMA AddedNext ==
  ASSUME TypeOK, NEW kind, NEW who, NEW kind2, NEW who2, NEW v, NEW h \in Threads, PlacedAt(kind, who),
         Stays(v, kind, who, kind2, who2), v \in Users => IsAt(v, kind2, who2, "next", h),
         \A t \in Threads : Absent(nexts[t], v), nexts' = [nexts EXCEPT ![h] = Append(@, v)]
  PROVE  NextAt(kind2, who2)'
<1> SUFFICES ASSUME NEW u \in Threads PROVE InQueue(nexts'[u], kind2, who2, "next", u)
  BY DEF NextAt
<1>1. nexts[u] \in Seq(WDs) /\ InQueue(nexts[u], kind, who, "next", u)
  BY DEF TypeOK, PlacedAt
<1>2. CASE u = h
  <2>1. InQueue(Append(nexts[u], v), kind2, who2, "next", u)
    BY <1>1, <1>2, QueueAppend
  <2> QED
    BY <1>2, <2>1 DEF TypeOK
<1>3. CASE u # h
  <2>1. InQueue(nexts[u], kind2, who2, "next", u)
    BY <1>1, QueueKept
  <2> QED
    BY <1>3, <2>1 DEF TypeOK
<1> QED
  BY <1>2, <1>3

(* A new task, or one whose predecessors are over, goes to the ready queue. *)
LEMMA Queued ==
  ASSUME Program, NEW kind \in [Users -> Kinds], NEW who \in [Users -> Holders], Inv(kind, who),
         NEW t \in Threads, Step(t), NEW c \in Tasks, stage[c] \in {"new", "depends"},
         ready' = Append(ready, c), stage' = [stage EXCEPT ![c] = "ready"],
         UNCHANGED <<on, held, nexts, pc, try, owner, released>>
  PROVE  Placement
<1>1. TypeOK /\ TryInv /\ PlacedAt(kind, who) /\ PlaceFits(kind) /\ c \in Users /\ c \in WDs
      /\ Users \subseteq WDs
  BY Names DEF Inv, Users
<1>2. PICK kind2 \in [Users -> Kinds], who2 \in [Users -> Holders] :
        Moved(c, "ready", None, kind, who, kind2, who2)
  BY Move DEF Kinds, Holders
<1>3. Stays(c, kind, who, kind2, who2) /\ IsAt(c, kind2, who2, "ready", None)
  BY <1>1, <1>2 DEF Moved
<1>4. kind[c] = "nowhere"
  BY <1>1 DEF PlaceFits
<1>5. /\ \A u \in Threads : on[u] # c /\ Absent(nexts[u], c)
      /\ \A w \in WDs : held[w] # c
      /\ Absent(ready, c)
      /\ \A u \in Threads : pc[u] = "wake" => try[u].wd # c
  BY <1>1, <1>4, Elsewhere
<1>6. \A u \in Threads : pc[u] = "wake" => try[u].wd \in Users
  BY <1>1 DEF TryInv, Found
<1>7. OnAt(kind2, who2)' /\ HeldAt(kind2, who2)' /\ NextAt(kind2, who2)' /\ WakeAt(kind2, who2)'
  BY <1>1, <1>3, <1>5, <1>6, KeptParts
<1>8. ReadyAt(kind2, who2)'
  <2>1. ready \in Seq(WDs) /\ InQueue(ready, kind, who, "ready", None)
    BY <1>1 DEF TypeOK, PlacedAt
  <2>2. InQueue(Append(ready, c), kind2, who2, "ready", None)
    BY <1>3, <1>5, <2>1, QueueAppend
  <2> QED
    BY <2>2 DEF ReadyAt
<1>9. stage'[c] = "ready" /\ \A w \in WDs \ {c} : stage'[w] = stage[w]
  BY <1>1 DEF TypeOK
<1>10. PlaceFits(kind2)'
  BY <1>1, <1>3, <1>9, FitsMoved DEF IsAt
<1>11. Restarts(t)
  BY DEF Restarts
<1>12. ~Chosen(c, kind2)' /\ ~Chosen(c, kind)
  BY <1>3, <1>9 DEF Chosen, Inside, IsAt
<1>13. OwnInv(kind2)'
  BY <1>3, <1>9, <1>11, <1>12, OwnMoved, Names
<1> QED
  BY <1>7, <1>8, <1>10, <1>13, PlacedAnew

(* A WD that no place has goes to a thread: the thread looks whether it may wake it, or it joins the
   thread's next WDs. *)
LEMMA Woken ==
  ASSUME Program, NEW kind \in [Users -> Kinds], NEW who \in [Users -> Holders], Inv(kind, who),
         NEW t \in Threads, Leave(t), NEW w, NEW p, w = on[t], p = Parent[w], Wakes(p, w)
  PROVE  Placement
<1>1. TypeOK /\ StageInv /\ TryInv /\ PlacedAt(kind, who) /\ PlaceFits(kind) /\ Users \subseteq WDs
      /\ Step(t)
  BY Names DEF Inv, Users, Step
<1>2. /\ pc[t] = "go" /\ stage[w] = "children" /\ stage' = [stage EXCEPT ![w] = "left"]
      /\ UNCHANGED <<owner, ready, lock, on, tied, held, released>>
  BY DEF Leave, At
<1>3. w \in Tasks /\ p \in Users /\ p \in WDs /\ w \in Users /\ w \in WDs
  <2>1. w \in Tasks
    BY <1>1, <1>2, Names DEF TypeOK, StageInv
  <2> QED
    BY <1>1, <2>1 DEF Program, Users
<1>4. stage[p] \in Awaiting /\ p \notin Placed /\ Alive(p) = {w}
  BY DEF Wakes, Blocked
<1>5. p # w
  BY <1>1, <1>4 DEF Placed, Range, TypeOK
<1>6. /\ \A u \in Threads : on[u] # p /\ Absent(nexts[u], p)
      /\ \A x \in WDs : held[x] # p
      /\ Absent(ready, p)
  BY <1>1, <1>4 DEF Placed, Range, TypeOK, Absent
<1>7. \A u \in Threads : pc[u] = "wake" => try[u].wd \in Users /\ try[u].wd # p
  BY <1>1, <1>4 DEF TryInv, Found
<1>8. stage'[p] = stage[p] /\ stage'[w] = "left" /\ \A x \in WDs \ {w} : stage'[x] = stage[x]
  BY <1>1, <1>2, <1>3, <1>5 DEF TypeOK
<1>9. kind[w] = "on"
  BY <1>1, <1>3 DEF PlacedAt, IsAt
<1>10. try[t].taken = 0
  BY <1>1, <1>2 DEF TypeOK, Idle
<1>11. Restarts(t)
  <2>1. TypeOK'
    BY <1>1, TypeStep
  <2> QED
    BY <1>1, <2>1, RestartsBy DEF Leave
<1>12. ASSUME NEW place \in {"next", "wake"}, NEW h \in Threads,
              NEW kind2 \in [Users -> Kinds], NEW who2 \in [Users -> Holders],
              Moved(p, place, h, kind, who, kind2, who2)
       PROVE  /\ Stays(p, kind, who, kind2, who2) /\ IsAt(p, kind2, who2, place, h)
              /\ OnAt(kind2, who2)' /\ HeldAt(kind2, who2)' /\ ReadyAt(kind2, who2)'
              /\ PlaceFits(kind2)' /\ OwnInv(kind2)'
  <2>1. Stays(p, kind, who, kind2, who2) /\ IsAt(p, kind2, who2, place, h)
    BY <1>3, <1>12 DEF Moved
  <2>2. OnAt(kind2, who2)' /\ HeldAt(kind2, who2)' /\ ReadyAt(kind2, who2)'
    BY <1>1, <1>2, <1>6, <1>7, <2>1, KeptParts
  <2>3. PlaceFits(kind2)'
    <3>1. \A x \in Users \ {p} : \/ stage'[x] = stage[x]
                                 \/ kind[x] = "on" /\ stage'[x] \notin {"new", "depends", "gone", "ready"}
      BY <1>1, <1>8, <1>9
    <3>2. /\ stage'[p] \in Awaiting /\ stage'[p] \notin {"new", "depends", "gone", "ready"}
      BY <1>4, <1>8 DEF Awaiting
    <3> QED
      BY <1>1, <2>1, <3>1, <3>2, FitsMoved
  <2>4. OwnInv(kind2)'
    <3>1. Chosen(p, kind2)' => Chosen(p, kind)
      BY <1>4, <1>8 DEF Chosen, Awaiting, Inside
    <3>2. stage'[p] \notin Before
      BY <1>4, <1>8 DEF Awaiting, Before
    <3>3. \A x \in Tasks \ {p} : stage'[x] # stage[x] => stage'[x] \notin {"depends", "ready", "body"}
      BY <1>8, Names
    <3> QED
      BY <1>1, <1>2, <1>10, <1>11, <2>1, <3>1, <3>2, <3>3, OwnMoved
  <2> QED
    BY <2>1, <2>2, <2>3, <2>4
<1>13. CASE Fits(t, p)
  <2>1. /\ pc' = [pc EXCEPT ![t] = "wake"] /\ try' = [try EXCEPT ![t] = Begin(p)] /\ UNCHANGED nexts
    BY <1>13 DEF Leave
  <2>2. PICK kind2 \in [Users -> Kinds], who2 \in [Users -> Holders] :
          Moved(p, "wake", t, kind, who, kind2, who2)
    BY Move DEF Kinds, Holders
  <2>3. /\ Stays(p, kind, who, kind2, who2) /\ IsAt(p, kind2, who2, "wake", t)
        /\ OnAt(kind2, who2)' /\ HeldAt(kind2, who2)' /\ ReadyAt(kind2, who2)'
        /\ PlaceFits(kind2)' /\ OwnInv(kind2)'
    BY <1>12, <2>2
  <2>4. NextAt(kind2, who2)'
    BY <1>1, <1>6, <1>7, <2>1, <2>3, KeptParts
  <2>5. WakeAt(kind2, who2)'
    <3> SUFFICES ASSUME NEW u \in Threads, pc'[u] = "wake" PROVE IsAt(try'[u].wd, kind2, who2, "wake", u)
      BY DEF WakeAt
    <3>1. CASE u = t
      BY <1>1, <2>1, <2>3, <3>1 DEF TypeOK, Begin
    <3>2. CASE u # t
      <4>1. pc[u] = "wake" /\ try'[u] = try[u]
        BY <1>1, <2>1, <3>2 DEF TypeOK
      <4>2. IsAt(try[u].wd, kind, who, "wake", u) /\ try[u].wd \in Users \ {p}
        BY <1>1, <1>7, <4>1 DEF PlacedAt
      <4> QED
        BY <2>3, <4>1, <4>2 DEF Stays, IsAt
    <3> QED
      BY <3>1, <3>2
  <2> QED
    BY <2>3, <2>4, <2>5, PlacedAnew
<1>14. CASE ~Fits(t, p)
  <2>1. nexts' = [nexts EXCEPT ![tied[p]] = Append(@, p)] /\ UNCHANGED <<pc, try>>
    BY <1>14 DEF Leave, AddNext
  <2>2. tied[p] \in Threads
    BY <1>1, <1>3, <1>14, Names DEF TypeOK, Fits
  <2>3. PICK kind2 \in [Users -> Kinds], who2 \in [Users -> Holders] :
          Moved(p, "next", tied[p], kind, who, kind2, who2)
    BY <2>2, Move DEF Kinds, Holders
  <2>4. /\ Stays(p, kind, who, kind2, who2) /\ IsAt(p, kind2, who2, "next", tied[p])
        /\ OnAt(kind2, who2)' /\ HeldAt(kind2, who2)' /\ ReadyAt(kind2, who2)'
        /\ PlaceFits(kind2)' /\ OwnInv(kind2)'
    BY <1>12, <2>2, <2>3
  <2>5. WakeAt(kind2, who2)'
    BY <1>1, <1>7, <2>1, <2>4, KeptParts
  <2>6. NextAt(kind2, who2)'
    BY <1>1, <1>6, <2>1, <2>2, <2>4, AddedNext
  <2> QED
    BY <2>4, <2>5, <2>6, PlacedAnew
<1> QED
  BY <1>13, <1>14

(* A WD that was to be woken is, for the thread or for all. *)
LEMMA WokenUp ==
  ASSUME Program, NEW kind \in [Users -> Kinds], NEW who \in [Users -> Holders], Inv(kind, who),
         NEW t \in Threads, WakeGranted(t) \/ WakeRefused(t), NEW p, p = try[t].wd
  PROVE  Placement
<1>1. TypeOK /\ StageInv /\ TryInv /\ PlacedAt(kind, who) /\ PlaceFits(kind) /\ Users \subseteq WDs
      /\ Step(t)
  BY Names DEF Inv, Users, Step
<1>2. /\ pc[t] = "wake" /\ Checked(t)
      /\ UNCHANGED <<stage, owner, on, held, released>>
  BY DEF WakeGranted, WakeRefused
<1>3. p \in Users /\ p \in WDs /\ stage[p] \in Awaiting /\ kind[p] = "wake" /\ who[p] = t
  BY <1>1, <1>2 DEF TryInv, Found, PlacedAt, IsAt
<1>4. /\ \A u \in Threads : on[u] # p /\ Absent(nexts[u], p)
      /\ \A x \in WDs : held[x] # p
      /\ Absent(ready, p)
      /\ \A u \in Threads \ {t} : pc[u] = "wake" => try[u].wd # p
  <2>1. kind[p] \notin {"on", "held", "ready", "next"}
    BY <1>3
  <2> QED
    BY <1>1, <1>3, <2>1, Elsewhere
<1>5. \A u \in Threads : pc[u] = "wake" => try[u].wd \in Users
  BY <1>1 DEF TryInv, Found
<1>6. \A u \in Threads : pc'[u] = "wake" => u # t /\ pc[u] = "wake" /\ try'[u] = try[u]
  BY <1>1, <1>2 DEF Checked, TypeOK
<1>7. Restarts(t)
  <2>1. TypeOK'
    BY <1>1, TypeStep
  <2> QED
    BY <1>1, <1>2, <2>1, RestartsBy
<1>8. ASSUME NEW place \in {"next", "ready"}, NEW h,
             NEW kind2 \in [Users -> Kinds], NEW who2 \in [Users -> Holders],
             Moved(p, place, h, kind, who, kind2, who2)
      PROVE  /\ Stays(p, kind, who, kind2, who2) /\ IsAt(p, kind2, who2, place, h)
             /\ OnAt(kind2, who2)' /\ HeldAt(kind2, who2)' /\ WakeAt(kind2, who2)'
             /\ UNCHANGED ready => ReadyAt(kind2, who2)'
             /\ UNCHANGED nexts => NextAt(kind2, who2)'
             /\ PlaceFits(kind2)' /\ OwnInv(kind2)'
  <2>1. Stays(p, kind, who, kind2, who2) /\ IsAt(p, kind2, who2, place, h)
    BY <1>3, <1>8 DEF Moved
  <2>2. /\ OnAt(kind2, who2)' /\ HeldAt(kind2, who2)' /\ WakeAt(kind2, who2)'
        /\ UNCHANGED ready => ReadyAt(kind2, who2)'
        /\ UNCHANGED nexts => NextAt(kind2, who2)'
    BY <1>1, <1>2, <1>4, <1>5, <1>6, <2>1, KeptParts
  <2>3. PlaceFits(kind2)'
    <3>1. stage' = stage /\ stage[p] \notin {"new", "depends", "gone", "ready"}
      BY <1>2, <1>3 DEF Awaiting
    <3> QED
      BY <1>1, <1>3, <2>1, <3>1, FitsMoved
  <2>4. OwnInv(kind2)'
    <3>1. stage' = stage /\ stage[p] \notin Before
      BY <1>2, <1>3 DEF Awaiting, Before
    <3>2. Chosen(p, kind2)' => Chosen(p, kind)
      BY <1>3, <3>1 DEF Chosen, Before
    <3> QED
      BY <1>1, <1>2, <1>7, <2>1, <3>1, <3>2, OwnMoved
  <2> QED
    BY <2>1, <2>2, <2>3, <2>4
<1>9. ASSUME NEW h \in Threads, UNCHANGED ready, nexts' = [nexts EXCEPT ![h] = Append(@, p)]
      PROVE  Placement
  <2>1. PICK kind2 \in [Users -> Kinds], who2 \in [Users -> Holders] :
          Moved(p, "next", h, kind, who, kind2, who2)
    BY Move DEF Kinds, Holders
  <2>2. /\ Stays(p, kind, who, kind2, who2) /\ IsAt(p, kind2, who2, "next", h)
        /\ OnAt(kind2, who2)' /\ HeldAt(kind2, who2)' /\ WakeAt(kind2, who2)' /\ ReadyAt(kind2, who2)'
        /\ PlaceFits(kind2)' /\ OwnInv(kind2)'
    BY <1>8, <1>9, <2>1
  <2>3. NextAt(kind2, who2)'
    BY <1>1, <1>4, <1>9, <2>2, AddedNext
  <2> QED
    BY <2>2, <2>3, PlacedAnew
<1>10. ASSUME ready' = Append(ready, p), UNCHANGED nexts PROVE Placement
  <2>1. PICK kind2 \in [Users -> Kinds], who2 \in [Users -> Holders] :
          Moved(p, "ready", None, kind, who, kind2, who2)
    BY Move DEF Kinds, Holders
  <2>2. /\ Stays(p, kind, who, kind2, who2) /\ IsAt(p, kind2, who2, "ready", None)
        /\ OnAt(kind2, who2)' /\ HeldAt(kind2, who2)' /\ WakeAt(kind2, who2)' /\ NextAt(kind2, who2)'
        /\ PlaceFits(kind2)' /\ OwnInv(kind2)'
    BY <1>8, <1>10, <2>1
  <2>3. ready \in Seq(WDs) /\ InQueue(ready, kind, who, "ready", None)
    BY <1>1 DEF TypeOK, PlacedAt
  <2>4. InQueue(Append(ready, p), kind2, who2, "ready", None)
    BY <1>4, <2>2, <2>3, QueueAppend
  <2> QED
    BY <1>10, <2>2, <2>4, PlacedAnew DEF ReadyAt
<1>11. CASE WakeGranted(t)
  BY <1>9, <1>11 DEF WakeGranted, AddNext
<1>12. CASE WakeRefused(t)
  <2>1. CASE tied[p] = None
    BY <1>10, <1>12, <2>1 DEF WakeRefused, Queue
  <2>2. CASE tied[p] # None
    <3>1. tied[p] \in Threads
      BY <1>1, <1>3, <2>2, Names DEF TypeOK
    <3> QED
      BY <1>9, <1>12, <2>2, <3>1 DEF WakeRefused, AddNext
  <2> QED
    BY <2>1, <2>2
<1> QED
  BY <1>11, <1>12

(* What a check that has been granted shows. *)
LEMMA GrantedOwns ==
  ASSUME Program, NEW kind, NEW who, Inv(kind, who), NEW t \in Threads, Granted(t), try[t] # Idle,
         NEW v, v = try[t].wd
  PROVE  /\ Owns(v, 1)
         /\ Checked(t) /\ v \in Users => \A u \in Threads : try'[u].wd # v
<1>1. TypeOK /\ TakenInv(t, kind) /\ v \in WDs
  BY FoundType DEF Inv, OwnInv
<1>2. /\ try[t].taken = Len(Accesses[v]) /\ DOMAIN Accesses[v] = 1..Len(Accesses[v])
      /\ \A i \in 1..try[t].taken : owner[Key(v, i)] = v
  BY <1>1, Lengths DEF Granted, TakenInv
<1>3. Owns(v, 1)
  BY <1>2 DEF Owns
<1>4. ASSUME Checked(t), v \in Users, NEW u \in Threads PROVE try'[u].wd # v
  <2>1. v # None
    BY <1>1, Names
  <2>2. CASE u = t
    BY <1>1, <1>4, <2>1, <2>2 DEF Checked, TypeOK, Idle
  <2>3. CASE u # t
    <3>1. try'[u] = try[u]
      BY <1>1, <1>4, <2>3 DEF Checked, TypeOK
    <3>2. try[u] = Idle \/ try[u].wd # v
      BY <1>4, <2>3, TriedAlone
    <3> QED
      BY <2>1, <3>1, <3>2 DEF Idle
  <2> QED
    BY <2>2, <2>3
<1> QED
  BY <1>3, <1>4

(* An immediate successor is chosen for the thread. *)
LEMMA Prefetched ==
  ASSUME Program, NEW kind \in [Users -> Kinds], NEW who \in [Users -> Holders], Inv(kind, who),
         NEW t \in Threads, PrefetchGranted(t), NEW w, NEW v, w = on[t], v = try[t].wd
  PROVE  Placement
<1>1. TypeOK /\ StageInv /\ TryInv /\ PlacedAt(kind, who) /\ PlaceFits(kind) /\ Users \subseteq WDs
      /\ Step(t)
  BY Names DEF Inv, Users, Step
<1>2. /\ pc[t] = "prefetch" /\ Granted(t) /\ nexts' = [nexts EXCEPT ![t] = Append(@, v)]
      /\ stage' = [stage EXCEPT ![v] = "ready", ![w] = "release"]
      /\ Checked(t) /\ UNCHANGED <<owner, ready, lock, on, tied, held, released>>
  BY DEF PrefetchGranted
<1>3. stage[w] = "prefetch" /\ v \in Tasks /\ stage[v] = "depends" /\ try[t] # Idle
  BY <1>1, <1>2 DEF TryInv, Found, Searching, Successors, TypeOK, At
<1>4. w \in Tasks /\ w # v /\ w \in WDs /\ v \in WDs /\ v \in Users /\ w \in Users
  <2>1. w \in WDs
    BY <1>1 DEF TypeOK
  <2> QED
    BY <1>1, <1>3, <2>1, Names DEF StageInv, Users
<1>5. /\ stage'[v] = "ready" /\ stage'[w] = "release"
      /\ \A x \in WDs \ {v, w} : stage'[x] = stage[x]
  BY <1>1, <1>2, <1>4 DEF TypeOK
<1>6. kind[v] = "nowhere" /\ kind[w] = "on"
  BY <1>1, <1>3, <1>4 DEF PlaceFits, PlacedAt, IsAt
<1>7. PICK kind2 \in [Users -> Kinds], who2 \in [Users -> Holders] :
        Moved(v, "next", t, kind, who, kind2, who2)
  BY Move DEF Kinds, Holders
<1>8. Stays(v, kind, who, kind2, who2) /\ IsAt(v, kind2, who2, "next", t)
  BY <1>4, <1>7 DEF Moved
<1>9. /\ \A u \in Threads : on[u] # v /\ Absent(nexts[u], v)
      /\ \A x \in WDs : held[x] # v
      /\ Absent(ready, v)
      /\ \A u \in Threads : pc[u] = "wake" => try[u].wd # v
  BY <1>1, <1>4, <1>6, Elsewhere
<1>10. \A u \in Threads : pc[u] = "wake" => try[u].wd \in Users
  BY <1>1 DEF TryInv, Found
<1>11. \A u \in Threads : pc'[u] = "wake" => pc[u] = "wake" /\ try'[u] = try[u]
  BY <1>1, <1>2 DEF Checked, TypeOK
<1>12. OnAt(kind2, who2)' /\ HeldAt(kind2, who2)' /\ ReadyAt(kind2, who2)' /\ WakeAt(kind2, who2)'
  BY <1>1, <1>2, <1>8, <1>9, <1>10, <1>11, KeptParts
<1>13. NextAt(kind2, who2)'
  BY <1>1, <1>2, <1>8, <1>9, AddedNext
<1>14. PlaceFits(kind2)'
  <2>1. \A x \in Users \ {v} : \/ stage'[x] = stage[x]
                               \/ kind[x] = "on" /\ stage'[x] \notin {"new", "depends", "gone", "ready"}
    BY <1>1, <1>5, <1>6
  <2>2. stage'[v] = "ready" /\ kind2[v] = "next"
    BY <1>5, <1>8 DEF IsAt
  <2> QED
    BY <1>1, <1>8, <2>1, <2>2, FitsMoved
<1>15. OwnInv(kind2)'
  <2>1. Restarts(t)
    <3>1. TypeOK'
      BY <1>1, TypeStep
    <3> QED
      BY <1>1, <1>2, <3>1, RestartsBy
  <2>2. Owns(v, 1) /\ \A u \in Threads : try'[u].wd # v
    BY <1>2, <1>3, <1>4, GrantedOwns
  <2>3. Chosen(v, kind2)'
    BY <1>5, <1>8 DEF Chosen, IsAt
  <2>4. \A x \in Tasks \ {v} : stage'[x] # stage[x] => stage'[x] \notin {"depends", "ready", "body"}
    BY <1>5, Names
  <2> QED
    BY <1>1, <1>2, <1>8, <2>1, <2>2, <2>3, <2>4, OwnMoved
<1> QED
  BY <1>12, <1>13, <1>14, <1>15, PlacedAnew

(* A thread takes a WD out of its own queue. *)
LEMMA TakenNext ==
  ASSUME TypeOK, NEW kind, NEW who, NEW kind2, NEW who2, NEW v, NEW t \in Threads, PlacedAt(kind, who),
         Stays(v, kind, who, kind2, who2), v \in Users => IsAt(v, kind, who, "next", t),
         \E i \in DOMAIN nexts[t] : nexts[t][i] = v, nexts' = [nexts EXCEPT ![t] = Without(@, v)]
  PROVE  NextAt(kind2, who2)'
<1> SUFFICES ASSUME NEW u \in Threads PROVE InQueue(nexts'[u], kind2, who2, "next", u)
  BY DEF NextAt
<1>1. nexts[u] \in Seq(WDs) /\ InQueue(nexts[u], kind, who, "next", u)
  BY DEF TypeOK, PlacedAt
<1>2. CASE u = t
  <2>1. InQueue(Without(nexts[u], v), kind2, who2, "next", u)
    BY <1>1, <1>2, QueueWithout
  <2> QED
    BY <1>2, <2>1 DEF TypeOK
<1>3. CASE u # t
  <2>1. Absent(nexts[u], v)
    BY <1>1, <1>3, NotQueued DEF IsAt, Absent
  <2>2. InQueue(nexts[u], kind2, who2, "next", u)
    BY <1>1, <2>1, QueueKept
  <2> QED
    BY <1>3, <2>2 DEF TypeOK
<1> QED
  BY <1>2, <1>3

(* Scheduler::exit() keeps the WD it has got from the queue of its thread. *)
LEMMA KeptForLater ==
  ASSUME Program, NEW kind \in [Users -> Kinds], NEW who \in [Users -> Holders], Inv(kind, who),
         NEW t \in Threads, NextGranted(t), At(t) = "exit", NEW w, NEW v, w = on[t], v = try[t].wd
  PROVE  Placement
<1>1. TypeOK /\ StageInv /\ TryInv /\ PlacedAt(kind, who) /\ PlaceFits(kind) /\ Users \subseteq WDs
      /\ Step(t)
  BY Names DEF Inv, Users, Step
<1>2. /\ pc[t] = "next" /\ Granted(t) /\ nexts' = [nexts EXCEPT ![t] = Without(@, v)]
      /\ held' = [held EXCEPT ![w] = v] /\ stage' = [stage EXCEPT ![w] = "release"] /\ stage[w] = "exit"
      /\ Checked(t) /\ UNCHANGED <<ready, on, tied, owner, lock, released>>
  BY DEF NextGranted, At
<1>3. \E i \in DOMAIN nexts[t] : nexts[t][i] = v
  BY <1>1, <1>2 DEF TryInv, Found
<1>4. w \in Users /\ w \in WDs /\ kind[w] = "on"
  <2>1. w \in WDs
    BY <1>1 DEF TypeOK
  <2>2. w \in Users
    BY <1>1, <1>2, <2>1, Names DEF StageInv, Users
  <2> QED
    BY <1>1, <2>1, <2>2 DEF PlacedAt, IsAt
<1>5. v \in Users => IsAt(v, kind, who, "next", t) /\ v # w /\ stage[v] \in {"ready"} \cup Awaiting
  BY <1>1, <1>3, <1>4 DEF PlacedAt, InQueue, IsAt, PlaceFits
<1>6. PICK kind2 \in [Users -> Kinds], who2 \in [Users -> Holders] :
        Moved(v, "held", w, kind, who, kind2, who2)
  BY <1>4, Move DEF Kinds, Holders
<1>7. Stays(v, kind, who, kind2, who2) /\ (v \in Users => IsAt(v, kind2, who2, "held", w))
  BY <1>6 DEF Moved
<1>8. v \in Users => /\ \A u \in Threads : on[u] # v
                     /\ \A x \in WDs : held[x] # v
                     /\ Absent(ready, v)
                     /\ \A u \in Threads : pc[u] = "wake" => try[u].wd # v
  BY <1>1, <1>5, Elsewhere DEF IsAt
<1>9. \A u \in Threads : pc[u] = "wake" => try[u].wd \in Users
  BY <1>1 DEF TryInv, Found
<1>10. \A u \in Threads : pc'[u] = "wake" => pc[u] = "wake" /\ try'[u] = try[u]
  BY <1>1, <1>2 DEF Checked, TypeOK
<1>11. OnAt(kind2, who2)' /\ ReadyAt(kind2, who2)' /\ WakeAt(kind2, who2)'
  <2>1. Absent(ready, v)
    BY <1>8 DEF Absent
  <2> QED
    BY <1>1, <1>2, <1>7, <1>8, <1>9, <1>10, <2>1, KeptParts
<1>12. NextAt(kind2, who2)'
  BY <1>1, <1>2, <1>3, <1>5, <1>7, TakenNext
<1>13. HeldAt(kind2, who2)'
  BY <1>1, <1>2, <1>4, <1>7, <1>8 DEF HeldAt, PlacedAt, TypeOK, Stays, IsAt
<1>14. stage'[w] = "release" /\ \A x \in WDs \ {w} : stage'[x] = stage[x]
  BY <1>1, <1>2, <1>4 DEF TypeOK
<1>15. v \in Users => stage'[v] = stage[v]
  BY <1>1, <1>5, <1>14
<1>16. PlaceFits(kind2)'
  <2>1. \A x \in Users \ {v} : \/ stage'[x] = stage[x]
                               \/ kind[x] = "on" /\ stage'[x] \notin {"new", "depends", "gone", "ready"}
    BY <1>1, <1>4, <1>14
  <2>2. v \in Users => kind2[v] = "held" /\ stage'[v] \in {"ready"} \cup Awaiting
    BY <1>5, <1>7, <1>15 DEF IsAt
  <2>3. v \in Users => stage'[v] \notin {"new", "depends", "gone"}
    BY <2>2 DEF Awaiting
  <2> QED
    BY <1>1, <1>7, <2>1, <2>2, <2>3, FitsMoved
<1>17. OwnInv(kind2)'
  <2>1. Restarts(t)
    <3>1. TypeOK'
      BY <1>1, TypeStep
    <3> QED
      BY <1>1, <1>2, <3>1, RestartsBy
  <2>2. v \in Tasks => /\ kind[v] = "next" /\ kind2[v] = "held" /\ stage'[v] = stage[v]
                       /\ stage[v] \in {"ready"} \cup Awaiting
    BY <1>5, <1>7, <1>15, Names DEF IsAt, Users
  <2>3. v \in Tasks => (Chosen(v, kind2)' => Chosen(v, kind))
    BY <2>2 DEF Chosen
  <2>4. v \in Tasks => ~(stage'[v] \in Before /\ ~Chosen(v, kind2)')
    BY <2>2 DEF Chosen, Awaiting, Before
  <2>5. \A x \in Tasks \ {v} : stage'[x] # stage[x] => stage'[x] \notin {"depends", "ready", "body"}
    BY <1>14, Names
  <2> QED
    BY <1>1, <1>2, <1>7, <2>1, <2>3, <2>4, <2>5, OwnMoved
<1> QED
  BY <1>11, <1>12, <1>13, <1>16, <1>17, PlacedAnew

(* A thread goes on with WD v, which was in one of its queues, in the ready queue or kept by the WD w
   it leaves. *)
Leaves(t, v, w, kind, who) ==
  \/ /\ v \in Users => IsAt(v, kind, who, "next", t)
     /\ \E i \in DOMAIN nexts[t] : nexts[t][i] = v
     /\ nexts' = [nexts EXCEPT ![t] = Without(@, v)] /\ UNCHANGED held
     /\ GoOn(t, v, ready)
  \/ /\ v \in Users => IsAt(v, kind, who, "ready", None)
     /\ \E i \in DOMAIN ready : ready[i] = v
     /\ UNCHANGED <<nexts, held>>
     /\ GoOn(t, v, Without(ready, v))
  \/ /\ v \in Users => IsAt(v, kind, who, "held", w)
     /\ held' = [held EXCEPT ![w] = None] /\ UNCHANGED nexts
     /\ GoOn(t, v, ready)

(* A thread leaves WD w, which may be gone by that, and goes on with WD v. *)
LEMMA WentOn ==
  ASSUME Program, NEW kind \in [Users -> Kinds], NEW who \in [Users -> Holders], Inv(kind, who),
         NEW t \in Threads, Step(t), NEW w, w = on[t], NEW v \in WDs, Leaves(t, v, w, kind, who),
         UNCHANGED <<owner, released>>,
         v \in Tasks => kind[v] \in {"next", "held"} \/ (Owns(v, 1) /\ \A u \in Threads : try'[u].wd # v),
         try[t].wd = v \/ try[t].taken = 0
  PROVE  Placement
<1>1. /\ TypeOK /\ StageInv /\ TryInv /\ PlacedAt(kind, who) /\ PlaceFits(kind)
      /\ Users \subseteq WDs /\ Tasks \subseteq Users /\ w \in WDs
  BY Names DEF Inv, Users, TypeOK
<1>2. PICK queue : GoOn(t, v, queue)
  BY DEF Leaves
<1>3. on' = [on EXCEPT ![t] = v] /\ Checked(t)
  BY <1>2 DEF GoOn
<1>4. w \in Users => kind[w] = "on" /\ stage[w] \notin {"new", "depends", "ready", "gone"}
  BY <1>1 DEF PlacedAt, PlaceFits, IsAt
<1>5. v \in Users => /\ kind[v] \in {"next", "ready", "held"} /\ v # w
                     /\ stage[v] \in {"ready"} \cup Awaiting
  BY <1>1, <1>4 DEF Leaves, IsAt, PlaceFits
<1>6. ASSUME NEW x \in Users
      PROVE  /\ x \notin {v, w} => stage'[x] = stage[x]
             /\ x = v => stage'[x] = IF stage[x] = "ready" THEN "body" ELSE stage[x]
             /\ x = w => stage'[x] = IF stage[x] = "left" THEN "gone" ELSE stage[x]
  <2>1. stage' = [stage EXCEPT ![v] = IF @ = "ready" THEN "body" ELSE @,
                              ![w] = IF @ = "left" THEN "gone" ELSE @]
    BY <1>2 DEF GoOn
  <2>2. v = w => x \notin {v, w}
    BY <1>5
  <2>3. x = v => stage[x] # "left"
    BY <1>5 DEF Awaiting
  <2> QED
    BY <1>1, <2>1, <2>2, <2>3 DEF TypeOK
<1>7. PICK kind1 \in [Users -> Kinds], who1 \in [Users -> Holders] :
        Moved(w, "nowhere", None, kind, who, kind1, who1)
  BY Move DEF Kinds, Holders
<1>8. PICK kind2 \in [Users -> Kinds], who2 \in [Users -> Holders] :
        Moved(v, "on", t, kind1, who1, kind2, who2)
  BY Move DEF Kinds, Holders
<1>9. Stays(w, kind, who, kind1, who1) /\ Stays(v, kind1, who1, kind2, who2)
  BY <1>7, <1>8 DEF Moved
<1>10. /\ \A x \in Users \ {v, w} : kind2[x] = kind[x] /\ who2[x] = who[x]
       /\ v \in Users => kind2[v] = "on" /\ who2[v] = t
       /\ w \in Users => kind2[w] = "nowhere"
  BY <1>5, <1>7, <1>8 DEF Moved, Stays, IsAt
<1>11. \A u \in Threads : pc'[u] = "wake" => u # t /\ pc[u] = "wake" /\ try'[u] = try[u]
  BY <1>1, <1>3 DEF Checked, TypeOK
<1>12. OnAt(kind2, who2)'
  <2> SUFFICES ASSUME NEW u \in Threads, on'[u] \in Users PROVE IsAt(on'[u], kind2, who2, "on", u)
    BY DEF OnAt
  <2>1. CASE u = t
    BY <1>1, <1>3, <1>10, <2>1 DEF TypeOK, IsAt
  <2>2. CASE u # t
    <3>1. on'[u] = on[u] /\ IsAt(on[u], kind, who, "on", u) /\ on[u] \in Users
      BY <1>1, <1>3, <2>2 DEF TypeOK, PlacedAt
    <3>2. on[u] # w
      BY <1>1, <2>2, <3>1, RunsAlone
    <3>3. on[u] # v
      BY <1>5, <3>1 DEF IsAt
    <3> QED
      BY <1>10, <3>1, <3>2, <3>3 DEF IsAt
  <2> QED
    BY <2>1, <2>2
<1>13. WakeAt(kind2, who2)'
  <2> SUFFICES ASSUME NEW u \in Threads, pc'[u] = "wake" PROVE IsAt(try'[u].wd, kind2, who2, "wake", u)
    BY DEF WakeAt
  <2>1. try'[u] = try[u] /\ try[u].wd \in Users /\ IsAt(try[u].wd, kind, who, "wake", u)
    BY <1>1, <1>11 DEF TryInv, Found, PlacedAt
  <2>2. try[u].wd \notin {v, w}
    BY <1>4, <1>5, <2>1 DEF IsAt
  <2> QED
    BY <1>10, <2>1, <2>2 DEF IsAt
<1>14. PlaceFits(kind2)'
  <2> SUFFICES ASSUME NEW x \in Users
               PROVE  /\ stage'[x] \in {"new", "depends", "gone"} => kind2[x] = "nowhere"
                      /\ stage'[x] = "ready" => kind2[x] \in {"held", "ready", "next"}
                      /\ kind2[x] \in {"held", "ready", "next", "wake"} => stage'[x] \in {"ready"} \cup Awaiting
    BY DEF PlaceFits
  <2>1. CASE x = v
    BY <1>5, <1>6, <1>10, <2>1 DEF Awaiting
  <2>2. CASE x = w
    BY <1>4, <1>6, <1>10, <2>2
  <2>3. CASE x \notin {v, w}
    BY <1>1, <1>6, <1>10, <2>3 DEF PlaceFits
  <2> QED
    BY <2>1, <2>2, <2>3
<1>15. OwnInv(kind2)'
  <2>1. Restarts(t)
    <3>1. TypeOK'
      BY <1>1, TypeStep
    <3> QED
      BY <1>1, <1>3, <3>1, RestartsBy
  <2>2. ASSUME NEW x \in Tasks, Chosen(x, kind2)', ~Chosen(x, kind)
        PROVE  Owns(x, 1) /\ \A u \in Threads : try'[u].wd = x => ~try'[u].undo
    <3>1. x \in Users
      BY <1>1
    <3>2. x # w
      BY <1>4, <1>6, <1>10, <2>2, <3>1 DEF Chosen, Inside
    <3>3. x = v
      BY <1>6, <1>10, <2>2, <3>1, <3>2 DEF Chosen
    <3>4. stage[v] = "ready" /\ kind[v] = "ready"
      BY <1>5, <1>6, <2>2, <3>1, <3>3 DEF Chosen, Awaiting, Inside
    <3> QED
      BY <3>3, <3>4
  <2>3. ASSUME NEW x \in Tasks, stage'[x] \in Before, ~Chosen(x, kind2)'
        PROVE  ~Chosen(x, kind) /\ (try[t].wd # x \/ try[t].taken = 0 \/ try'[t] = try[t])
    <3>1. x \in Users
      BY <1>1
    <3>2. x # w
      BY <1>4, <1>6, <2>3, <3>1 DEF Before
    <3>3. x # v
      BY <1>5, <1>6, <2>3, <3>1 DEF Before, Awaiting
    <3> QED
      BY <1>6, <1>10, <2>3, <3>1, <3>2, <3>3 DEF Chosen
  <2> QED
    BY <2>1, <2>2, <2>3, OwnKept
<1>16. /\ ready \in Seq(WDs) /\ InQueue(ready, kind, who, "ready", None)
       /\ \A u \in Threads : InQueue(nexts[u], kind, who, "next", u)
  BY <1>1 DEF TypeOK, PlacedAt
<1>17. /\ InQueue(ready, kind1, who1, "ready", None)
       /\ \A u \in Threads : InQueue(nexts[u], kind1, who1, "next", u)
  <2>1. /\ Absent(ready, w) /\ \A u \in Threads : Absent(nexts[u], w)
    BY <1>4, <1>16, NotQueued DEF IsAt, Absent
  <2> QED
    BY <1>9, <1>16, <2>1, QueueKept
<1>18. v \in Users => kind1[v] = kind[v] /\ who1[v] = who[v]
  BY <1>5, <1>9 DEF Stays
<1>19. ReadyAt(kind2, who2)'
  <2>1. ASSUME NEW q \in Seq(WDs), GoOn(t, v, q), InQueue(q, kind2, who2, "ready", None)
        PROVE  ReadyAt(kind2, who2)'
    <3>1. CASE ready' = q
      BY <2>1, <3>1 DEF ReadyAt
    <3>2. CASE ready' # q
      <4>1. ready' = Append(q, w) /\ stage[w] = "loop"
        BY <2>1, <3>2 DEF GoOn, At
      <4>2. w \notin Users
        BY <1>1, <4>1 DEF StageInv, Users
      <4>3. Stays(w, kind2, who2, kind2, who2) /\ Absent(q, w)
        BY <4>2 DEF Stays, Absent
      <4>4. InQueue(Append(q, w), kind2, who2, "ready", None)
        BY <2>1, <4>2, <4>3, QueueAppend
      <4> QED
        BY <4>1, <4>4 DEF ReadyAt
    <3> QED
      BY <3>1, <3>2
  <2>2. CASE v \in Users => kind[v] # "ready"
    <3>1. Absent(ready, v)
      BY <1>16, <2>2, NotQueued DEF IsAt, Absent
    <3>2. InQueue(ready, kind2, who2, "ready", None)
      BY <1>9, <1>17, <3>1, QueueKept
    <3>3. CASE GoOn(t, v, ready)
      BY <1>16, <2>1, <3>2, <3>3
    <3>4. CASE GoOn(t, v, Without(ready, v)) /\ \E i \in DOMAIN ready : ready[i] = v
      <4>1. Without(ready, v) \in Seq(WDs)
        BY <1>16, <3>4, WithoutType
      <4>2. InQueue(Without(ready, v), kind2, who2, "ready", None)
        BY <1>9, <1>16, <1>17, <3>4, QueueWithout
      <4> QED
        BY <2>1, <3>4, <4>1, <4>2
    <3> QED
      BY <3>3, <3>4 DEF Leaves
  <2>3. CASE v \in Users /\ kind[v] = "ready"
    <3>1. GoOn(t, v, Without(ready, v)) /\ \E i \in DOMAIN ready : ready[i] = v
      BY <2>3 DEF Leaves, IsAt
    <3>2. Without(ready, v) \in Seq(WDs)
      BY <1>16, <3>1, WithoutType
    <3>3. InQueue(Without(ready, v), kind2, who2, "ready", None)
      BY <1>9, <1>16, <1>17, <3>1, QueueWithout
    <3> QED
      BY <2>1, <3>1, <3>2, <3>3
  <2> QED
    BY <2>2, <2>3
<1>20. NextAt(kind2, who2)'
  <2>1. CASE UNCHANGED nexts /\ (v \in Users => kind[v] # "next")
    <3> SUFFICES ASSUME NEW u \in Threads PROVE InQueue(nexts[u], kind2, who2, "next", u)
      BY <2>1 DEF NextAt
    <3>1. Absent(nexts[u], v)
      BY <1>16, <2>1, NotQueued DEF IsAt, Absent
    <3> QED
      BY <1>9, <1>17, <3>1, QueueKept
  <2>2. CASE /\ v \in Users => IsAt(v, kind, who, "next", t)
             /\ \E i \in DOMAIN nexts[t] : nexts[t][i] = v
             /\ nexts' = [nexts EXCEPT ![t] = Without(@, v)]
    <3> SUFFICES ASSUME NEW u \in Threads PROVE InQueue(nexts'[u], kind2, who2, "next", u)
      BY DEF NextAt
    <3>1. nexts[u] \in Seq(WDs)
      BY <1>1 DEF TypeOK
    <3>2. CASE u = t
      <4>1. InQueue(Without(nexts[u], v), kind2, who2, "next", u)
        BY <1>9, <1>17, <2>2, <3>1, <3>2, QueueWithout
      <4> QED
        BY <1>1, <2>2, <3>2, <4>1 DEF TypeOK
    <3>3. CASE u # t
      <4>1. Absent(nexts[u], v)
        BY <1>16, <2>2, <3>3, NotQueued DEF IsAt, Absent
      <4>2. InQueue(nexts[u], kind2, who2, "next", u)
        BY <1>9, <1>17, <4>1, QueueKept
      <4> QED
        BY <1>1, <2>2, <3>3, <4>2 DEF TypeOK
    <3> QED
      BY <3>2, <3>3
  <2> QED
    BY <2>1, <2>2 DEF Leaves, IsAt
<1>21. HeldAt(kind2, who2)'
  <2> SUFFICES ASSUME NEW x \in WDs, held'[x] \in Users PROVE IsAt(held'[x], kind2, who2, "held", x)
    BY DEF HeldAt
  <2>1. None \notin Users
    BY <1>1, Names
  <2>2. held'[x] = held[x]
    BY <1>1, <2>1 DEF Leaves, TypeOK
  <2>3. IsAt(held[x], kind, who, "held", x)
    BY <1>1, <2>2 DEF PlacedAt
  <2>4. held[x] # w
    BY <1>4, <2>2, <2>3 DEF IsAt
  <2>5. held[x] # v
    BY <1>1, <2>1, <2>2, <2>3 DEF Leaves, IsAt, TypeOK
  <2> QED
    BY <1>10, <2>2, <2>3, <2>4, <2>5 DEF IsAt
<1> QED
  BY <1>12, <1>13, <1>14, <1>15, <1>19, <1>20, <1>21, PlacedAnew

(* The three actions in which a thread goes on with another WD. *)
LEMMA WentOnSteps ==
  ASSUME Program, NEW kind \in [Users -> Kinds], NEW who \in [Users -> Holders], Inv(kind, who),
         NEW t \in Threads, NEW w, w = on[t],
         \/ NextGranted(t) /\ At(t) # "exit"
         \/ ReadyGranted(t) \/ ExitToHeld(t)
  PROVE  Placement
<1>1. /\ TypeOK /\ StageInv /\ TryInv /\ PlacedAt(kind, who) /\ PlaceFits(kind) /\ Step(t)
      /\ Users \subseteq WDs /\ Tasks \subseteq Users /\ w \in WDs
  BY Names DEF Inv, Users, TypeOK, Step
<1>2. ASSUME NEW v, v = try[t].wd, NextGranted(t), At(t) # "exit" PROVE Placement
  <2>1. /\ pc[t] = "next" /\ GoOn(t, v, ready) /\ nexts' = [nexts EXCEPT ![t] = Without(@, v)]
        /\ UNCHANGED <<held, owner, released>>
    BY <1>2 DEF NextGranted
  <2>2. v \in WDs /\ \E i \in DOMAIN nexts[t] : nexts[t][i] = v
    BY <1>1, <1>2, <2>1 DEF TryInv, Found
  <2>3. v \in Users => IsAt(v, kind, who, "next", t)
    BY <1>1, <2>2 DEF PlacedAt, InQueue
  <2>4. Leaves(t, v, w, kind, who)
    BY <2>1, <2>2, <2>3 DEF Leaves
  <2>5. v \in Tasks => kind[v] \in {"next", "held"} \/ (Owns(v, 1) /\ \A u \in Threads : try'[u].wd # v)
    BY <1>1, <2>3 DEF IsAt
  <2>6. try[t].wd = v \/ try[t].taken = 0
    BY <1>2
  <2> QED
    BY <1>1, <2>1, <2>2, <2>4, <2>5, <2>6, WentOn, Zenon
<1>3. ASSUME NEW v, v = try[t].wd, ReadyGranted(t) PROVE Placement
  <2>1. /\ pc[t] = "ready" /\ GoOn(t, v, Without(ready, v)) /\ UNCHANGED <<nexts, held, owner, released>>
        /\ Granted(t) /\ Checked(t) /\ try[t] # Idle
    BY <1>1, <1>3 DEF ReadyGranted, GoOn, TypeOK
  <2>2. v \in WDs /\ \E i \in DOMAIN ready : ready[i] = v
    BY <1>1, <1>3, <2>1 DEF TryInv, Found
  <2>3. v \in Users => IsAt(v, kind, who, "ready", None)
    BY <1>1, <2>2 DEF PlacedAt, InQueue
  <2>4. Leaves(t, v, w, kind, who)
    BY <2>1, <2>2, <2>3 DEF Leaves
  <2>5. Owns(v, 1) /\ (v \in Users => \A u \in Threads : try'[u].wd # v)
    BY <1>3, <2>1, GrantedOwns
  <2> QED
    BY <1>1, <1>3, <2>1, <2>2, <2>4, <2>5, WentOn
<1>4. ASSUME NEW v, v = held[w], ExitToHeld(t) PROVE Placement
  <2>1. /\ pc[t] = "go" /\ v # None /\ GoOn(t, v, ready) /\ held' = [held EXCEPT ![w] = None]
        /\ UNCHANGED <<owner, lock, nexts, released>>
    BY <1>4 DEF ExitToHeld
  <2>2. v \in WDs /\ (v \in Users => IsAt(v, kind, who, "held", w))
    BY <1>1, <1>4, <2>1 DEF TypeOK, PlacedAt
  <2>3. Leaves(t, v, w, kind, who)
    BY <2>1, <2>2 DEF Leaves
  <2>4. v \in Tasks => kind[v] \in {"next", "held"} \/ (Owns(v, 1) /\ \A u \in Threads : try'[u].wd # v)
    BY <1>1, <2>2 DEF IsAt
  <2>5. try[t].wd = v \/ try[t].taken = 0
    BY <1>1, <2>1 DEF TypeOK, Idle
  <2> QED
    BY <1>1, <2>1, <2>2, <2>3, <2>4, <2>5, WentOn, Zenon
<1> QED
  BY <1>2, <1>3, <1>4

(* An inlined WD returns to the WD of the worker that inlined it. *)
LEMMA Returned ==
  ASSUME Program, NEW kind \in [Users -> Kinds], NEW who \in [Users -> Holders], Inv(kind, who),
         NEW t \in Threads, Return(t), NEW w, w = on[t]
  PROVE  Placement
<1>1. /\ TypeOK /\ StageInv /\ TryInv /\ PlacedAt(kind, who) /\ PlaceFits(kind) /\ Step(t)
      /\ Users \subseteq WDs /\ Tasks \subseteq Users /\ w \in WDs
  BY Names DEF Inv, Users, TypeOK, Step
<1>2. /\ pc[t] = "go" /\ stage[w] = "left" /\ on' = [on EXCEPT ![t] = tied[w]]
      /\ stage' = [stage EXCEPT ![w] = "gone"]
      /\ UNCHANGED <<owner, ready, lock, nexts, pc, try, tied, held, released>>
      /\ tied[w] \in Workers
  BY <1>1 DEF Return, At, TypeOK
<1>3. w \in Users /\ kind[w] = "on" /\ tied[w] \notin Users
  BY <1>1, <1>2, Names DEF StageInv, PlacedAt, IsAt, Users, WDs
<1>4. PICK kind2 \in [Users -> Kinds], who2 \in [Users -> Holders] :
        Moved(w, "nowhere", None, kind, who, kind2, who2)
  BY Move DEF Kinds, Holders
<1>5. Stays(w, kind, who, kind2, who2) /\ IsAt(w, kind2, who2, "nowhere", None)
  BY <1>3, <1>4 DEF Moved
<1>6. /\ \A u \in Threads : Absent(nexts[u], w)
      /\ \A x \in WDs : held[x] # w
      /\ Absent(ready, w)
      /\ \A u \in Threads : pc[u] = "wake" => try[u].wd # w /\ try[u].wd \in Users
  BY <1>1, <1>3, Elsewhere DEF TryInv, Found
<1>7. HeldAt(kind2, who2)' /\ ReadyAt(kind2, who2)' /\ NextAt(kind2, who2)' /\ WakeAt(kind2, who2)'
  BY <1>1, <1>2, <1>5, <1>6, KeptParts
<1>8. OnAt(kind2, who2)'
  <2> SUFFICES ASSUME NEW u \in Threads, on'[u] \in Users PROVE IsAt(on'[u], kind2, who2, "on", u)
    BY DEF OnAt
  <2>1. u # t /\ on'[u] = on[u]
    BY <1>1, <1>2, <1>3 DEF TypeOK
  <2>2. on[u] # w /\ IsAt(on[u], kind, who, "on", u)
    BY <1>1, <1>3, <2>1, RunsAlone DEF PlacedAt
  <2> QED
    BY <1>5, <2>1, <2>2 DEF Stays, IsAt
<1>9. stage'[w] = "gone" /\ \A x \in WDs \ {w} : stage'[x] = stage[x]
  BY <1>1, <1>2 DEF TypeOK
<1>10. PlaceFits(kind2)'
  BY <1>1, <1>5, <1>9, FitsMoved DEF IsAt
<1>11. Restarts(t)
  BY <1>2 DEF Restarts
<1>12. ~Chosen(w, kind2)' /\ stage'[w] \notin Before
  BY <1>9 DEF Chosen, Inside, Before
<1>13. OwnInv(kind2)'
  BY <1>1, <1>2, <1>5, <1>9, <1>11, <1>12, OwnMoved
<1> QED
  BY <1>7, <1>8, <1>10, <1>13, PlacedAnew

-----------------------------------------------------------------------------
(* Steps that take an address or give one back. *)

(* The next address is taken, or refused. *)
LEMMA Acquired ==
  ASSUME Program, NEW kind, NEW who, Inv(kind, who), NEW t \in Threads, Acquire(t), NEW w, w = try[t].wd
  PROVE  OwnInv(kind)'
<1> DEFINE n == try[t].taken + 1
<1>1. /\ TypeOK /\ TryInv /\ (\A u \in Threads : TakenInv(u, kind)) /\ \A x \in Tasks : OwnedInv(x, kind)
  BY DEF Inv, OwnInv
<1>2. /\ try[t] # Idle /\ ~try[t].undo /\ try[t].taken < Len(Accesses[w]) /\ try[t].taken \in Nat
      /\ UNCHANGED <<stage, ready, lock, nexts, on, pc, tied, held, released>>
  BY <1>1 DEF Acquire, TypeOK
<1>3. w \in Tasks /\ w \in WDs /\ n \in DOMAIN Accesses[w] /\ n \in Nat
  <2>1. w \in WDs
    BY <1>1, <1>2, FoundType
  <2> QED
    BY <1>2, <2>1, Lengths
<1>4. CASE ~Free(w, Key(w, n))
  <2>1. try' = [try EXCEPT ![t].undo = TRUE] /\ UNCHANGED owner
    BY <1>4 DEF Acquire
  <2>2. /\ try'[t].wd = w /\ try'[t].taken = try[t].taken
        /\ \A u \in Threads \ {t} : try'[u] = try[u]
    BY <1>1, <2>1 DEF TypeOK
  <2>3. ~Chosen(w, kind)
    <3>1. owner[Key(w, n)] # w
      BY <1>4 DEF Free
    <3>2. ~Owns(w, 1)
      BY <1>2, <1>3, <3>1 DEF Owns
    <3> QED
      BY <1>1, <1>3, <3>2 DEF OwnedInv
  <2>4. ASSUME NEW u \in Threads PROVE TakenInv(u, kind)'
    <3>1. TakenInv(u, kind) /\ \A x \in Tasks : Chosen(x, kind)' = Chosen(x, kind)
      BY <1>1, <1>2 DEF Chosen
    <3>2. CASE u = t
      BY <1>2, <2>1, <2>2, <2>3, <3>1, <3>2 DEF TakenInv
    <3>3. CASE u # t
      BY <2>1, <2>2, <3>1, <3>3 DEF TakenInv
    <3> QED
      BY <3>2, <3>3
  <2>5. ASSUME NEW x \in Tasks PROVE OwnedInv(x, kind)'
    <3>1. \A u \in Threads : try'[u].wd = try[u].wd /\ try'[u].taken = try[u].taken
      BY <2>2
    <3>2. OwnedInv(x, kind)
      BY <1>1
    <3> QED
      BY <1>2, <2>1, <3>1, <3>2 DEF OwnedInv, Chosen, Owns
  <2> QED
    BY <2>4, <2>5 DEF OwnInv
<1>5. CASE Free(w, Key(w, n))
  <2>1. owner' = [owner EXCEPT ![Key(w, n)] = w] /\ try' = [try EXCEPT ![t].taken = @ + 1]
    BY <1>5 DEF Acquire
  <2>2. /\ try'[t].wd = w /\ try'[t].taken = n /\ ~try'[t].undo
        /\ \A u \in Threads \ {t} : try'[u] = try[u]
    BY <1>1, <1>2, <2>1 DEF TypeOK
  <2>3. owner'[Key(w, n)] = w /\ \A k \in DOMAIN owner : k # Key(w, n) => owner'[k] = owner[k]
    BY <1>1, <1>3, <2>1, KeyIn DEF TypeOK
  <2>4. ASSUME NEW x \in WDs, NEW i \in DOMAIN Accesses[x], owner[Key(x, i)] = x
        PROVE  owner'[Key(x, i)] = x
    <3>1. x \in Tasks
      BY Lengths
    <3>2. Key(x, i) \in DOMAIN owner
      BY <1>1, <3>1, KeyIn DEF TypeOK
    <3>3. CASE Key(x, i) = Key(w, n)
      <4>1. x \in {w, None}
        BY <1>5, <2>4, <3>3 DEF Free
      <4>2. x = w
        BY <4>1, Names
      <4> QED
        BY <2>3, <3>3, <4>2
    <3> QED
      BY <2>3, <2>4, <3>2, <3>3
  <2>5. \A x \in Tasks : Chosen(x, kind)' = Chosen(x, kind)
    BY <1>2 DEF Chosen
  <2>6. ASSUME NEW u \in Threads PROVE TakenInv(u, kind)'
    <3>1. TakenInv(u, kind)
      BY <1>1
    <3>2. CASE u = t
      <4>1. \A i \in 1..n : i \in 1..try[t].taken \/ i = n
        BY <1>2
      <4>2. \A i \in 1..try[t].taken : i \in DOMAIN Accesses[w] /\ owner[Key(w, i)] = w
        BY <1>2, <1>3, <3>1, <3>2, Lengths DEF TakenInv
      <4>3. \A i \in 1..n : owner'[Key(w, i)] = w
        BY <1>3, <2>3, <2>4, <4>1, <4>2
      <4>4. n <= Len(Accesses[w])
        BY <1>2, <1>3, Lengths
      <4> QED
        BY <2>2, <3>2, <4>3, <4>4 DEF TakenInv
    <3>3. CASE u # t
      <4>1. try'[u] = try[u]
        BY <2>2, <3>3
      <4> SUFFICES ASSUME try[u] # Idle
                   PROVE  /\ try[u].taken <= Len(Accesses[try[u].wd])
                          /\ \A i \in 1..try[u].taken : owner'[Key(try[u].wd, i)] = try[u].wd
                          /\ try[u].wd \in Tasks /\ try[u].undo => ~Chosen(try[u].wd, kind)
        BY <2>5, <4>1 DEF TakenInv, Chosen, Idle
      <4>2. try[u].wd \in WDs /\ try[u].taken \in Nat
        BY <1>1, FoundType DEF TypeOK
      <4>3. \A i \in 1..try[u].taken : i \in DOMAIN Accesses[try[u].wd]
        BY <3>1, <4>2, Lengths DEF TakenInv
      <4> QED
        BY <2>4, <3>1, <4>2, <4>3 DEF TakenInv
    <3> QED
      BY <3>2, <3>3
  <2>7. ASSUME NEW x \in Tasks PROVE OwnedInv(x, kind)'
    <3>1. OwnedInv(x, kind) /\ x \in WDs
      BY <1>1, Names
    <3>2. \A from : Owns(x, from) => Owns(x, from)'
      BY <2>4, <3>1 DEF Owns
    <3>3. ASSUME stage[x] \in Before, ~Chosen(x, kind), NEW i \in DOMAIN Accesses[x], owner'[Key(x, i)] = x
          PROVE  \E u \in Threads : try'[u].wd = x /\ i <= try'[u].taken
      <4>1. CASE Key(x, i) = Key(w, n)
        <5>1. x = w
          BY <2>3, <3>3, <4>1
        <5>2. i = n
          BY <1>3, <4>1, <5>1, Lengths
        <5> QED
          BY <1>3, <2>2, <5>1, <5>2
      <4>2. CASE Key(x, i) # Key(w, n)
        <5>1. owner[Key(x, i)] = x
          BY <1>1, <2>3, <3>3, <4>2, KeyIn DEF TypeOK
        <5>2. PICK u \in Threads : try[u].wd = x /\ i <= try[u].taken
          BY <3>1, <3>3, <5>1 DEF OwnedInv
        <5>3. i \in Nat
          BY <3>1, Lengths
        <5> QED
          BY <1>2, <2>2, <5>2, <5>3
      <4> QED
        BY <4>1, <4>2
    <3>4. stage' = stage /\ released' = released /\ Chosen(x, kind)' = Chosen(x, kind)
      BY <1>2, <2>5
    <3> QED
      BY <3>1, <3>2, <3>3, <3>4 DEF OwnedInv
  <2> QED
    BY <2>6, <2>7 DEF OwnInv
<1> QED
  BY <1>4, <1>5

GivesUp(w, n) == owner[Key(w, n)] = w /\ owner' = [owner EXCEPT ![Key(w, n)] = None]

(* An address that its owner gives up is nobody's, and the others keep theirs. *)
LEMMA GivenUp ==
  ASSUME Program, TypeOK, NEW w \in Tasks, NEW n \in DOMAIN Accesses[w], GivesUp(w, n),
         NEW x \in Tasks, NEW i \in DOMAIN Accesses[x]
  PROVE  /\ owner[Key(x, i)] = x /\ (x # w \/ i # n) => owner'[Key(x, i)] = x
         /\ owner'[Key(x, i)] = x => owner[Key(x, i)] = x /\ (x # w \/ i # n)
<1>1. Key(x, i) \in DOMAIN owner /\ Key(w, n) \in DOMAIN owner
  BY KeyIn DEF TypeOK
<1>2. owner'[Key(w, n)] = None /\ (Key(x, i) # Key(w, n) => owner'[Key(x, i)] = owner[Key(x, i)])
  BY <1>1 DEF TypeOK, GivesUp
<1>3. x = w /\ i # n => Key(x, i) # Key(w, n)
  BY Lengths, Names
<1>4. owner[Key(x, i)] = x /\ x # w => Key(x, i) # Key(w, n)
  BY DEF GivesUp
<1>5. x # None
  BY Names
<1> QED
  BY <1>2, <1>3, <1>4, <1>5

(* A refused task gives back the last address it has taken. *)
LEMMA GivenBack ==
  ASSUME Program, NEW kind, NEW who, Inv(kind, who), NEW t \in Threads, GiveBack(t), NEW w, w = try[t].wd
  PROVE  OwnInv(kind)'
<1> PICK n : n = try[t].taken
  OBVIOUS
<1>1. /\ TypeOK /\ TryInv /\ (\A u \in Threads : TakenInv(u, kind)) /\ \A x \in Tasks : OwnedInv(x, kind)
  BY DEF Inv, OwnInv
<1>2. /\ try[t].undo /\ n > 0 /\ n \in Nat /\ try[t] # Idle
      /\ owner' = [owner EXCEPT ![Key(w, n)] = None] /\ try' = [try EXCEPT ![t].taken = @ - 1]
      /\ UNCHANGED <<stage, ready, lock, nexts, on, pc, tied, held, released>>
  BY <1>1 DEF GiveBack, TypeOK, Idle
<1>3. w \in WDs /\ n <= Len(Accesses[w]) /\ \A i \in 1..n : owner[Key(w, i)] = w
  BY <1>1, <1>2, FoundType DEF TakenInv
<1>4. w \in Tasks /\ n \in DOMAIN Accesses[w] /\ owner[Key(w, n)] = w
  BY <1>2, <1>3, Lengths
<1>5. /\ ~Chosen(w, kind) /\ stage[w] # "release" /\ Tasks \subseteq Users /\ Tasks \subseteq WDs
      /\ \A x \in Tasks : Chosen(x, kind)' = Chosen(x, kind)
  BY <1>1, <1>2, <1>4, TriedStage, Names DEF TakenInv, Awaiting, Users, Chosen
<1>6. /\ try'[t].wd = w /\ try'[t].taken = n - 1 /\ try'[t].undo
      /\ \A u \in Threads \ {t} : try'[u] = try[u]
  BY <1>1, <1>2 DEF TypeOK
<1>7. \A x \in Tasks : \A i \in DOMAIN Accesses[x] :
        /\ owner[Key(x, i)] = x /\ (x # w \/ i # n) => owner'[Key(x, i)] = x
        /\ owner'[Key(x, i)] = x => owner[Key(x, i)] = x /\ (x # w \/ i # n)
  <2> SUFFICES ASSUME NEW x \in Tasks, NEW i \in DOMAIN Accesses[x]
               PROVE  /\ owner[Key(x, i)] = x /\ (x # w \/ i # n) => owner'[Key(x, i)] = x
                      /\ owner'[Key(x, i)] = x => owner[Key(x, i)] = x /\ (x # w \/ i # n)
    BY Zenon
  <2>1. GivesUp(w, n)
    BY <1>2, <1>4 DEF GivesUp
  <2> QED
    BY <1>1, <1>4, <2>1, GivenUp
<1>8. ASSUME NEW u \in Threads PROVE TakenInv(u, kind)'
  <2>1. CASE u = t
    <3>1. \A i \in 1..(n - 1) : i \in 1..n /\ i # n /\ i \in DOMAIN Accesses[w]
      BY <1>2, <1>3, <1>4, Lengths
    <3>2. \A i \in 1..(n - 1) : owner'[Key(w, i)] = w
      BY <1>3, <1>4, <1>7, <3>1
    <3>3. n - 1 <= Len(Accesses[w])
      BY <1>2, <1>3, <1>4, Lengths
    <3> QED
      BY <1>4, <1>5, <1>6, <2>1, <3>2, <3>3 DEF TakenInv
  <2>2. CASE u # t
    <3>1. try'[u] = try[u] /\ TakenInv(u, kind)
      BY <1>1, <1>6, <2>2
    <3> SUFFICES ASSUME try[u] # Idle
                 PROVE  /\ try[u].taken <= Len(Accesses[try[u].wd])
                        /\ \A i \in 1..try[u].taken : owner'[Key(try[u].wd, i)] = try[u].wd
                        /\ try[u].wd \in Tasks /\ try[u].undo => ~Chosen(try[u].wd, kind)
      BY <1>5, <3>1 DEF TakenInv, Idle
    <3>2. try[u].wd \in WDs /\ try[u].taken \in Nat /\ try[u].wd # w
      BY <1>1, <1>2, <1>4, <1>5, <2>2, FoundType, TriedAlone DEF TypeOK
    <3>3. \A i \in 1..try[u].taken : i \in DOMAIN Accesses[try[u].wd] /\ try[u].wd \in Tasks
      BY <3>1, <3>2, Lengths DEF TakenInv
    <3> QED
      BY <1>7, <3>1, <3>2, <3>3 DEF TakenInv
  <2> QED
    BY <2>1, <2>2
<1>9. ASSUME NEW x \in Tasks PROVE OwnedInv(x, kind)'
  <2>1. OwnedInv(x, kind)
    BY <1>1
  <2>2. stage' = stage /\ released' = released /\ Chosen(x, kind)' = Chosen(x, kind)
    BY <1>2, <1>5
  <2>3. x # w => \A from : Owns(x, from) => Owns(x, from)'
    BY <1>7 DEF Owns
  <2>4. ASSUME stage[x] \in Before, ~Chosen(x, kind), NEW i \in DOMAIN Accesses[x], owner'[Key(x, i)] = x
        PROVE  \E u \in Threads : try'[u].wd = x /\ i <= try'[u].taken
    <3>1. owner[Key(x, i)] = x /\ (x # w \/ i # n)
      BY <1>7, <2>4
    <3>2. PICK u \in Threads : try[u].wd = x /\ i <= try[u].taken
      BY <2>1, <2>4, <3>1 DEF OwnedInv
    <3>3. try[u] # Idle /\ i \in Nat
      BY <1>5, <3>2, Names, Lengths DEF Idle
    <3>4. CASE u = t
      <4>1. x = w /\ i <= n
        BY <3>2, <3>4
      <4>2. i <= n - 1
        BY <1>2, <3>1, <3>3, <4>1
      <4> QED
        BY <1>6, <3>4, <4>1, <4>2
    <3>5. CASE u # t
      BY <1>6, <3>2, <3>5
    <3> QED
      BY <3>4, <3>5
  <2> QED
    BY <1>5, <2>1, <2>2, <2>3, <2>4 DEF OwnedInv
<1> QED
  BY <1>8, <1>9 DEF OwnInv

(* A task that ends releases an address that it owns. *)
LEMMA Released ==
  ASSUME Program, NEW kind, NEW who, Inv(kind, who), NEW t \in Threads, Release(t), NEW w, w = on[t],
         UNCHANGED stage
  PROVE  OwnInv(kind)'
<1> PICK n : n = released[w] + 1
  OBVIOUS
<1>1. /\ TypeOK /\ TryInv /\ (\A u \in Threads : TakenInv(u, kind)) /\ \A x \in Tasks : OwnedInv(x, kind)
  BY DEF Inv, OwnInv
<1>2. stage[w] = "release" /\ w \in WDs /\ released[w] \in Nat /\ stage[w] # "finished"
  BY <1>1 DEF Release, At, TypeOK
<1>3. /\ n <= Len(Accesses[w])
      /\ owner' = [owner EXCEPT ![Key(w, n)] = None] /\ released' = [released EXCEPT ![w] = n]
      /\ UNCHANGED <<try, stage>>
  <2>1. stage' # [stage EXCEPT ![w] = "finished"]
    BY <1>1, <1>2 DEF TypeOK
  <2> QED
    BY <2>1 DEF Release
<1>4. w \in Tasks /\ n \in DOMAIN Accesses[w] /\ n \in Nat
  BY <1>2, <1>3, Lengths
<1>5. owner[Key(w, n)] = w
  BY <1>1, <1>2, <1>4 DEF OwnedInv, Owns
<1>6. released'[w] = n /\ \A x \in WDs \ {w} : released'[x] = released[x]
  BY <1>1, <1>2, <1>3 DEF TypeOK
<1>7. /\ Tasks \subseteq Users /\ Tasks \subseteq WDs
      /\ \A x \in Tasks : Chosen(x, kind)' = Chosen(x, kind)
  BY <1>3, Names DEF Users, Chosen
<1>8. \A x \in Tasks : \A i \in DOMAIN Accesses[x] :
        /\ owner[Key(x, i)] = x /\ (x # w \/ i # n) => owner'[Key(x, i)] = x
        /\ owner'[Key(x, i)] = x => owner[Key(x, i)] = x /\ (x # w \/ i # n)
  <2> SUFFICES ASSUME NEW x \in Tasks, NEW i \in DOMAIN Accesses[x]
               PROVE  /\ owner[Key(x, i)] = x /\ (x # w \/ i # n) => owner'[Key(x, i)] = x
                      /\ owner'[Key(x, i)] = x => owner[Key(x, i)] = x /\ (x # w \/ i # n)
    BY Zenon
  <2>1. GivesUp(w, n)
    BY <1>3, <1>4, <1>5 DEF GivesUp
  <2> QED
    BY <1>1, <1>4, <2>1, GivenUp
<1>9. ASSUME NEW u \in Threads PROVE TakenInv(u, kind)'
  <2>1. TakenInv(u, kind)
    BY <1>1
  <2> SUFFICES ASSUME try[u] # Idle
               PROVE  /\ try[u].taken <= Len(Accesses[try[u].wd])
                      /\ \A i \in 1..try[u].taken : owner'[Key(try[u].wd, i)] = try[u].wd
                      /\ try[u].wd \in Tasks /\ try[u].undo => ~Chosen(try[u].wd, kind)
    BY <1>3, <1>7 DEF TakenInv, Idle
  <2>2. try[u].wd \in WDs /\ try[u].taken \in Nat
    BY <1>1, FoundType DEF TypeOK
  <2>3. try[u].wd # w
    BY <1>2, <1>4, <1>7, TriedStage DEF Awaiting
  <2>4. \A i \in 1..try[u].taken : i \in DOMAIN Accesses[try[u].wd] /\ try[u].wd \in Tasks
    BY <2>1, <2>2, Lengths DEF TakenInv
  <2> QED
    BY <1>8, <2>1, <2>2, <2>3, <2>4 DEF TakenInv
<1>10. ASSUME NEW x \in Tasks PROVE OwnedInv(x, kind)'
  <2>1. OwnedInv(x, kind)
    BY <1>1
  <2>2. CASE x = w
    <3>1. ~Chosen(w, kind) /\ stage[w] \notin Before \cup Inside
      BY <1>2 DEF Chosen, Before, Inside
    <3>2. Owns(w, n + 1)'
      <4>1. Owns(w, n)
        BY <1>1, <1>2, <1>4 DEF OwnedInv
      <4>2. \A i \in DOMAIN Accesses[w] : i >= n + 1 => i >= n /\ i # n
        BY <1>4, <1>7, Lengths
      <4>3. \A i \in DOMAIN Accesses[w] : i >= n + 1 => owner'[Key(w, i)] = w
        BY <1>4, <1>8, <4>1, <4>2 DEF Owns
      <4> QED
        BY <4>3 DEF Owns
    <3>3. Owns(w, released[w] + 1)'
      BY <1>6, <3>2 DEF Owns
    <3> QED
      BY <1>3, <1>7, <2>2, <3>1, <3>3 DEF OwnedInv
  <2>3. CASE x # w
    <3>1. /\ \A from : Owns(x, from) => Owns(x, from)'
          /\ released'[x] = released[x] /\ Chosen(x, kind)' = Chosen(x, kind)
      BY <1>6, <1>7, <1>8, <2>3 DEF Owns
    <3>2. \A i \in DOMAIN Accesses[x] : owner'[Key(x, i)] = x => owner[Key(x, i)] = x
      BY <1>8
    <3>3. Owns(x, released[x] + 1) => Owns(x, released[x] + 1)'
      BY <3>1 DEF Owns
    <3> QED
      BY <1>3, <2>1, <3>1, <3>2, <3>3 DEF OwnedInv
  <2> QED
    BY <2>2, <2>3
<1> QED
  BY <1>9, <1>10 DEF OwnInv

(* Every step leaves each WD in one place, and its addresses with their owner. *)
LEMMA PlacementStep ==
  ASSUME Program, NEW kind \in [Users -> Kinds], NEW who \in [Users -> Holders], Inv(kind, who),
         NEW t \in Threads, Step(t)
  PROVE  Placement
<1>1. TypeOK /\ StageInv /\ TryInv /\ PlaceFits(kind) /\ on[t] \in WDs /\ TypeOK'
  <2>1. TypeOK /\ StageInv /\ TryInv /\ PlaceFits(kind)
    BY DEF Inv
  <2>2. TypeOK'
    BY <2>1, TypeStep
  <2> QED
    BY <2>1, <2>2 DEF TypeOK
<1>2. ASSUME Placing(kind, who)' PROVE Placement
  BY <1>2 DEF Placement
<1>3. ASSUME StaysPut, Quiet(t), OwnInv(kind)' PROVE Placement
  BY <1>2, <1>3, PlaceKept DEF Placing
<1>4. ASSUME SameStep(t) PROVE Placement
  BY <1>2, <1>4, SamePlace DEF SameStep
<1>5. CASE Acquire(t) \/ GiveBack(t)
  <2>1. /\ UNCHANGED <<stage, ready, nexts, on, pc, held>>
        /\ \A u \in Threads : try'[u].wd = try[u].wd
    <3>1. UNCHANGED <<stage, ready, nexts, on, pc, held>>
      BY <1>5 DEF Acquire, GiveBack
    <3>2. \/ try' = [try EXCEPT ![t].taken = @ + 1]
          \/ try' = [try EXCEPT ![t].undo = TRUE]
          \/ try' = [try EXCEPT ![t].taken = @ - 1]
      <4>1. CASE Acquire(t) /\ Free(try[t].wd, Key(try[t].wd, try[t].taken + 1))
        BY <4>1 DEF Acquire
      <4>2. CASE Acquire(t) /\ ~Free(try[t].wd, Key(try[t].wd, try[t].taken + 1))
        BY <4>2 DEF Acquire
      <4>3. CASE GiveBack(t)
        BY <4>3 DEF GiveBack
      <4> QED
        BY <1>5, <4>1, <4>2, <4>3
    <3>3. \A u \in Threads : try'[u].wd = try[u].wd
      <4>1. try \in [Threads -> [wd : WDs \cup {None}, taken : Nat, undo : BOOLEAN]]
        BY <1>1 DEF TypeOK
      <4>2. CASE try' = [try EXCEPT ![t].undo = TRUE]
        BY <4>1, <4>2
      <4>3. CASE try' = [try EXCEPT ![t].taken = @ + 1]
        BY <4>1, <4>3
      <4>4. CASE try' = [try EXCEPT ![t].taken = @ - 1]
        BY <4>1, <4>4
      <4> QED
        BY <3>2, <4>2, <4>3, <4>4
    <3> QED
      BY <3>1, <3>3
  <2>2. StaysPut /\ Quiet(t)
    BY <2>1 DEF StaysPut, Quiet
  <2>3. \E w : w = try[t].wd
    OBVIOUS
  <2>4. OwnInv(kind)'
    BY <1>5, <2>3, Acquired, GivenBack
  <2> QED
    BY <1>3, <2>2, <2>4
<1>6. CASE Release(t)
  <2>1. /\ UNCHANGED <<ready, nexts, on, held, pc, try>> /\ stage[on[t]] = "release" /\ pc[t] = "go"
        /\ \/ UNCHANGED stage
           \/ stage' = [stage EXCEPT ![on[t]] = "finished"] /\ UNCHANGED <<owner, released>>
    BY <1>6 DEF Release, At
  <2>2. StaysPut /\ Quiet(t)
    BY <1>1, <2>1 DEF StaysPut, Quiet, TypeOK
  <2>3. CASE UNCHANGED stage
    <3>1. \E w : w = on[t]
      OBVIOUS
    <3>2. OwnInv(kind)'
      BY <1>6, <2>3, <3>1, Released
    <3> QED
      BY <1>3, <2>2, <3>2
  <2>4. CASE stage' = [stage EXCEPT ![on[t]] = "finished"] /\ UNCHANGED <<owner, released>>
    <3>1. Restarts(t) /\ try'[t] = try[t]
      BY <2>1 DEF Restarts
    <3> QED
      BY <1>4, <2>1, <2>2, <2>4, <3>1 DEF SameStep
  <2> QED
    BY <2>1, <2>3, <2>4
<1>7. ASSUME NEW c \in Tasks, Create(t, c) PROVE Placement
  <2>1. stage[c] = "new" /\ UNCHANGED <<on, held, nexts, pc, try, owner, released>>
    BY <1>7 DEF Create
  <2>2. CASE ready' = Append(ready, c) /\ stage' = [stage EXCEPT ![c] = "ready"]
    BY <2>1, <2>2, Queued
  <2>3. CASE stage' = [stage EXCEPT ![c] = "depends"]
    <3>1. stage'[c] = "depends"
      BY <1>1, <2>3, Names DEF TypeOK
    <3> QED
      BY <1>1, <1>4, <1>7, <3>1, SameSteps
  <2> QED
    BY <1>7, <2>2, <2>3 DEF Create, Queue
<1>8. CASE \/ EndBody(t) \/ EndTaskwait(t) \/ Seek(t) \/ NextRefused(t)
           \/ Scan(t) \/ ReadyRefused(t) \/ Prefetch(t) \/ PrefetchRefused(t)
  BY <1>1, <1>4, <1>8, SameSteps
<1>9. CASE Finished(t)
  <2>1. CASE Successors(on[t]) = {}
    BY <1>1, <1>4, <1>9, <2>1, SameSteps
  <2>2. CASE Successors(on[t]) # {}
    <3>1. PICK c \in Successors(on[t]) : Queue(c) /\ stage' = [stage EXCEPT ![c] = "ready"]
      BY <1>9, <2>2 DEF Finished
    <3>2. c \in Tasks /\ stage[c] = "depends" /\ ready' = Append(ready, c)
      BY <3>1 DEF Successors, Queue
    <3>3. UNCHANGED <<on, held, nexts, pc, try, owner, released>>
      BY <1>9 DEF Finished
    <3> QED
      BY <3>1, <3>2, <3>3, Queued
  <2> QED
    BY <2>1, <2>2
<1>10. CASE Leave(t)
  <2>1. CASE Wakes(Parent[on[t]], on[t])
    <3>1. PICK w : w = on[t]
      OBVIOUS
    <3>2. PICK p : p = Parent[w]
      OBVIOUS
    <3> QED
      BY <1>10, <2>1, <3>1, <3>2, Woken
  <2>2. CASE ~Wakes(Parent[on[t]], on[t])
    BY <1>1, <1>4, <1>10, <2>2, SameSteps
  <2> QED
    BY <2>1, <2>2
<1>11. CASE WakeGranted(t) \/ WakeRefused(t)
  <2>1. \E p : p = try[t].wd
    OBVIOUS
  <2> QED
    BY <1>11, <2>1, WokenUp
<1>12. CASE PrefetchGranted(t)
  <2>1. (\E w : w = on[t]) /\ \E v : v = try[t].wd
    OBVIOUS
  <2> QED
    BY <1>12, <2>1, Prefetched
<1>13. CASE NextGranted(t) /\ At(t) = "exit"
  <2>1. (\E w : w = on[t]) /\ \E v : v = try[t].wd
    OBVIOUS
  <2> QED
    BY <1>13, <2>1, KeptForLater
<1>14. CASE \/ NextGranted(t) /\ At(t) # "exit"
            \/ ReadyGranted(t) \/ ExitToHeld(t)
  <2>1. \E w : w = on[t]
    OBVIOUS
  <2> QED
    BY <1>14, <2>1, WentOnSteps
<1>15. CASE Return(t)
  <2>1. \E w : w = on[t]
    OBVIOUS
  <2> QED
    BY <1>15, <2>1, Returned
<1> QED
  BY <1>5, <1>6, <1>7, <1>8, <1>9, <1>10, <1>11, <1>12, <1>13, <1>14, <1>15 DEF Step

-----------------------------------------------------------------------------
(* What a thread has found stays where it is, whatever the others do. *)

(* A step of one thread leaves the search of another as it is, and what it searches. *)
LEMMA Others ==
  ASSUME Program, TypeOK, NEW t \in Threads, Step(t), NEW u \in Threads \ {t}
  PROVE  /\ on'[u] = on[u] /\ pc'[u] = pc[u] /\ try'[u] = try[u]
         /\ pc[u] = "next" => nexts'[u] = nexts[u]
         /\ pc[u] = "ready" => ready' = ready
<1>1. /\ on \in [Threads -> WDs] /\ nexts \in [Threads -> Seq(WDs)]
      /\ pc \in [Threads -> Searches] /\ try \in [Threads -> Checks]
      /\ pc[u] = "ready" => lock = u /\ lock # None /\ pc[t] # "ready"
  BY DEF TypeOK, Program, Searches, Checks
<1>2. ASSUME NEW v, NEW queue, GoOn(t, v, queue)
      PROVE  /\ on'[u] = on[u] /\ pc'[u] = pc[u] /\ try'[u] = try[u]
             /\ At(t) # "loop" /\ queue = ready => ready' = ready
  BY <1>1, <1>2 DEF GoOn, Checked
<1>3. ASSUME Checked(t) PROVE pc'[u] = pc[u] /\ try'[u] = try[u]
  BY <1>1, <1>3 DEF Checked
<1>4. ASSUME NEW h, NEW v, AddNext(h, v) PROVE pc[u] = "next" => nexts'[u] = nexts[u]
  BY <1>1, <1>4 DEF AddNext
<1>5. ASSUME NEW v, Queue(v) PROVE pc[u] # "ready"
  BY <1>1, <1>5 DEF Queue
<1>6. CASE Acquire(t) \/ GiveBack(t)
  <2>1. CASE Acquire(t) /\ Free(try[t].wd, Key(try[t].wd, try[t].taken + 1))
    BY <1>1, <2>1 DEF Acquire
  <2>2. CASE Acquire(t) /\ ~Free(try[t].wd, Key(try[t].wd, try[t].taken + 1))
    BY <1>1, <2>2 DEF Acquire
  <2>3. CASE GiveBack(t)
    BY <1>1, <2>3 DEF GiveBack
  <2> QED
    BY <1>6, <2>1, <2>2, <2>3
<1>7. CASE (\E c \in Tasks : Create(t, c)) \/ EndBody(t) \/ EndTaskwait(t) \/ Release(t) \/ Finished(t)
  BY <1>5, <1>7 DEF Create, EndBody, EndTaskwait, Release, Finished
<1>8. CASE Return(t)
  BY <1>1, <1>8 DEF Return
<1>9. CASE Seek(t) \/ NextRefused(t)
  <2>1. UNCHANGED <<on, nexts, ready>>
    BY <1>9 DEF Seek, NextRefused
  <2>2. \/ NoNext(t)
        \/ \E v : try' = [try EXCEPT ![t] = Begin(v)] /\ (pc' = [pc EXCEPT ![t] = "next"] \/ pc' = pc)
    BY <1>9 DEF Seek, NextRefused
  <2> QED
    BY <1>1, <2>1, <2>2 DEF NoNext
<1>10. CASE NextGranted(t)
  <2>1. nexts'[u] = nexts[u]
    BY <1>1, <1>10 DEF NextGranted
  <2>2. CASE At(t) = "exit"
    BY <1>3, <1>10, <2>1, <2>2 DEF NextGranted
  <2>3. CASE At(t) # "exit"
    <3>1. GoOn(t, try[t].wd, ready) /\ (At(t) = "loop" => lock = None)
      BY <1>10, <2>3 DEF NextGranted
    <3> QED
      BY <1>1, <1>2, <2>1, <3>1
  <2> QED
    BY <2>2, <2>3
<1>11. CASE Scan(t)
  BY <1>1, <1>11 DEF Scan
<1>12. CASE ReadyGranted(t)
  BY <1>1, <1>2, <1>12 DEF ReadyGranted
<1>13. CASE ReadyRefused(t)
  BY <1>1, <1>3, <1>13 DEF ReadyRefused
<1>14. CASE Prefetch(t) \/ PrefetchRefused(t)
  <2>1. UNCHANGED <<on, nexts, ready>> /\ \E c : Consider(t, c)
    BY <1>14 DEF Prefetch, PrefetchRefused
  <2> QED
    BY <1>1, <1>3, <2>1 DEF Consider
<1>15. CASE PrefetchGranted(t)
  BY <1>1, <1>3, <1>15 DEF PrefetchGranted
<1>16. CASE Leave(t)
  <2>1. UNCHANGED <<on, ready>>
    BY <1>16 DEF Leave
  <2>2. \/ UNCHANGED nexts
        \/ AddNext(tied[Parent[on[t]]], Parent[on[t]])
    BY <1>16 DEF Leave
  <2>3. \/ UNCHANGED <<pc, try>>
        \/ pc' = [pc EXCEPT ![t] = "wake"] /\ try' = [try EXCEPT ![t] = Begin(Parent[on[t]])]
    BY <1>16 DEF Leave
  <2> QED
    BY <1>1, <1>4, <2>1, <2>2, <2>3
<1>17. CASE WakeGranted(t)
  BY <1>3, <1>4, <1>17 DEF WakeGranted
<1>18. CASE WakeRefused(t)
  BY <1>3, <1>4, <1>5, <1>18 DEF WakeRefused
<1>19. CASE ExitToHeld(t)
  <2>1. GoOn(t, held[on[t]], ready) /\ At(t) = "left" /\ UNCHANGED nexts
    BY <1>19 DEF ExitToHeld
  <2> QED
    BY <1>2, <2>1
<1> QED
  BY <1>6, <1>7, <1>8, <1>9, <1>10, <1>11, <1>12, <1>13, <1>14, <1>15, <1>16, <1>17, <1>18, <1>19
  DEF Step

(* Only a new task is tied, and a WD keeps another one only on its own stack. *)
LEMMA TiesKept ==
  ASSUME TypeOK, NEW t \in Threads, Step(t), NEW w \in WDs, stage[w] # "ready"
  PROVE  tied'[w] = tied[w] /\ (w # on[t] => held'[w] = held[w])
<1>1. tied \in [WDs -> Workers \cup {None}] /\ held \in [WDs -> WDs \cup {None}]
  BY DEF TypeOK
<1>2. ASSUME NEW v, NEW queue, GoOn(t, v, queue) PROVE tied'[w] = tied[w]
  BY <1>1, <1>2 DEF GoOn
<1>3. CASE NextGranted(t) \/ ReadyGranted(t) \/ ExitToHeld(t)
  <2>1. tied'[w] = tied[w]
    BY <1>2, <1>3 DEF NextGranted, ReadyGranted, ExitToHeld
  <2>2. w # on[t] => held'[w] = held[w]
    BY <1>1, <1>3 DEF NextGranted, ReadyGranted, ExitToHeld
  <2> QED
    BY <2>1, <2>2
<1>4. CASE UNCHANGED <<tied, held>>
  BY <1>4
<1>5. ~(NextGranted(t) \/ ReadyGranted(t) \/ ExitToHeld(t)) => UNCHANGED <<tied, held>>
  BY DEF Step, Acquire, GiveBack, Create, EndBody, EndTaskwait, Seek, NextRefused, Scan,
         ReadyRefused, Prefetch, PrefetchGranted, PrefetchRefused, Release, Finished,
         Leave, WakeGranted, WakeRefused, Return
<1> QED
  BY <1>3, <1>4, <1>5

(* The stage of a WD that runs changes only by its own thread. *)
LEMMA StageAlone ==
  ASSUME Program, NEW kind, NEW who, Inv(kind, who), NEW t \in Threads, Step(t), NEW u \in Threads \ {t}
  PROVE  stage'[on[u]] = stage[on[u]]
<1>1. TypeOK /\ StageInv /\ TryInv /\ PlacedAt(kind, who) /\ PlaceFits(kind) /\ on[u] \in WDs
  BY DEF Inv, TypeOK
<1>2. SUFFICES ASSUME stage'[on[u]] # stage[on[u]] PROVE FALSE
  OBVIOUS
<1>3. StageMove(t, on[u], stage'[on[u]])
  BY <1>1, <1>2, StageChange
<1>4. on[u] \notin Users
  <2>1. on[u] \in Users => on[t] # on[u]
    BY <1>1, RunsAlone
  <2>2. on[u] \in Users => stage[on[u]] \notin {"new", "depends", "ready"}
    BY <1>1 DEF PlacedAt, PlaceFits, IsAt
  <2> QED
    BY <1>3, <2>1, <2>2 DEF StageMove
<1>5. stage[on[u]] = "loop" /\ on[u] \notin Tasks
  BY <1>1, <1>4 DEF StageInv, Users, WDs
<1> QED
  BY <1>3, <1>4, <1>5 DEF StageMove

(* A task that is alive stays so until it leaves its parent, which waits for that lock. *)
LEMMA AliveKept ==
  ASSUME Program, TypeOK, StageInv, TryInv, NEW t \in Threads, Step(t),
         NEW p, NEW c \in Alive(p), CondLocked(p)
  PROVE  c \in Alive(p)'
<1>1. c \in Tasks /\ Parent[c] = p /\ stage[c] \notin {"new", "left", "gone"} /\ c \in WDs /\ c # Main
  BY Names DEF Alive, Children
<1>2. stage'[c] # stage[c] => StageMove(t, c, stage'[c])
  BY <1>1, StageChange
<1>3. stage'[c] \notin {"new", "left", "gone"}
  BY <1>1, <1>2 DEF StageMove, OwnMove
<1> QED
  BY <1>1, <1>3 DEF Alive, Children

(* A thread that looks for another WD has still reason to. *)
LEMMA LooksKept ==
  ASSUME Program, NEW kind, NEW who, Inv(kind, who), NEW t \in Threads, Step(t), NEW u \in Threads \ {t},
         pc[u] \in {"next", "scan", "ready"}, Looks(u)
  PROVE  Looks(u)'
<1>1. TypeOK /\ StageInv /\ TryInv /\ PlacedAt(kind, who) /\ on[u] \in WDs
  BY DEF Inv, TypeOK
<1>2. on'[u] = on[u] /\ stage'[on[u]] = stage[on[u]]
  BY <1>1, Others, StageAlone
<1>3. At(u)' = At(u)
  BY <1>2 DEF At
<1>4. CASE At(u) = "loop"
  BY <1>3, <1>4 DEF Looks
<1>5. CASE At(u) \in Awaiting /\ Alive(on[u]) # {}
  <2>1. CondLocked(on[u])
    BY <1>5 DEF CondLocked
  <2>2. PICK c \in Alive(on[u]) : TRUE
    BY <1>5
  <2>3. c \in Alive(on[u])' /\ c \in Tasks /\ Parent[c] = on[u]
    <3>1. PICK p : p = on[u]
      OBVIOUS
    <3>2. c \in Alive(p)'
      BY <1>1, <2>1, <2>2, <3>1, AliveKept
    <3> QED
      BY <1>2, <2>2, <3>1, <3>2 DEF Alive, Children
  <2> QED
    BY <1>3, <1>5, <2>3 DEF Looks
<1>6. CASE At(u) = "left" /\ on[u] # Main /\ tied[on[u]] = None /\ held[on[u]] = None
  <2>1. on[u] \in Users /\ stage[on[u]] # "ready"
    BY <1>1, <1>6 DEF At, StageInv, Users, WDs
  <2>2. on[u] # on[t]
    BY <1>1, <2>1, RunsAlone
  <2>3. tied'[on[u]] = tied[on[u]] /\ held'[on[u]] = held[on[u]]
    BY <1>1, <2>1, <2>2, TiesKept
  <2> QED
    BY <1>2, <1>3, <1>6, <2>3 DEF Looks
<1> QED
  BY <1>4, <1>5, <1>6 DEF Looks

(* workFinished() is over for good. *)
LEMMA OverKept ==
  ASSUME Program, TypeOK, StageInv, TryInv, NEW t \in Threads, Step(t), NEW d \in WDs, stage[d] \in Over
  PROVE  stage'[d] \in Over
<1>1. stage'[d] # stage[d] => StageMove(t, d, stage'[d])
  BY StageChange
<1> QED
  BY <1>1 DEF StageMove, OwnMove, Over

(* The other threads find what they have found, and go on for the reason they began. *)
LEMMA OthersTry ==
  ASSUME Program, NEW kind, NEW who, Inv(kind, who), NEW t \in Threads, Step(t), NEW u \in Threads \ {t},
         NEW w, w = try[u].wd
  PROVE  Found(u, w)' /\ Searching(u)' /\ try'[u].wd = w
<1>1. TypeOK /\ StageInv /\ TryInv /\ PlacedAt(kind, who) /\ on[u] \in WDs
  BY DEF Inv, TypeOK
<1>2. /\ on'[u] = on[u] /\ pc'[u] = pc[u] /\ try'[u] = try[u]
      /\ pc[u] = "next" => nexts'[u] = nexts[u]
      /\ pc[u] = "ready" => ready' = ready
  BY <1>1, Others
<1>3. Found(u, w) /\ Searching(u)
  BY <1>1 DEF TryInv
<1>4. At(u)' = At(u)
  BY <1>2, StageAlone DEF At
<1>5. Searching(u)'
  BY <1>2, <1>3, <1>4, LooksKept DEF Searching
<1>6. ASSUME pc[u] = "prefetch" PROVE w \in Successors(on[u])'
  <2>1. w \in Tasks /\ w \in WDs /\ stage[w] = "depends" /\ on[u] \in After[w] /\ After[w] \subseteq WDs
        /\ \A d \in After[w] \ {on[u]} : stage[d] \in Over
    BY <1>3, <1>6, Names DEF Found, Successors, Program
  <2>2. stage[on[u]] = "prefetch"
    BY <1>3, <1>6 DEF Searching, At
  <2>3. stage'[w] = "depends"
    <3>1. SUFFICES ASSUME stage'[w] # stage[w] PROVE FALSE
      BY <2>1
    <3>2. StageMove(t, w, stage'[w])
      BY <1>1, <2>1, <3>1, StageChange
    <3>3. w \in Successors(on[t]) /\ stage[on[t]] \in {"prefetch", "finished"}
      BY <2>1, <3>2 DEF StageMove, OwnMove, At
    <3>4. on[t] = on[u]
      BY <1>3, <1>6, <2>2, <3>3, LastPredecessor DEF Over, Found
    <3>5. on[u] \in Users
      BY <1>1, <2>2 DEF StageInv, Users, WDs
    <3> QED
      BY <1>1, <3>4, <3>5, RunsAlone
  <2>4. \A d \in After[w] \ {on[u]} : stage'[d] \in Over
    BY <1>1, <2>1, OverKept
  <2> QED
    BY <1>2, <2>1, <2>3, <2>4 DEF Successors
<1>7. ASSUME pc[u] = "wake" PROVE w \in Users /\ stage'[w] \in Awaiting /\ Alive(w)' = {}
  <2>1. w \in Users /\ w \in WDs /\ stage[w] \in Awaiting /\ Alive(w) = {} /\ kind[w] = "wake"
    BY <1>1, <1>3, <1>7 DEF Found, PlacedAt, IsAt
  <2>2. w # on[t]
    BY <1>1, <2>1 DEF PlacedAt, IsAt
  <2>3. stage'[w] = stage[w]
    <3>1. stage'[w] # stage[w] => StageMove(t, w, stage'[w])
      BY <1>1, <2>1, StageChange
    <3> QED
      BY <2>1, <2>2, <3>1 DEF StageMove, Awaiting
  <2>4. ASSUME NEW c \in Tasks, Parent[c] = w PROVE stage'[c] \in {"new", "left", "gone"}
    <3>1. stage[c] \in {"new", "left", "gone"} /\ c \in WDs
      BY <2>1, <2>4, Names DEF Alive, Children
    <3>2. stage'[c] # stage[c] => StageMove(t, c, stage'[c])
      BY <1>1, <3>1, StageChange
    <3> QED
      BY <2>2, <2>4, <3>1, <3>2 DEF StageMove, OwnMove
  <2> QED
    BY <2>1, <2>3, <2>4 DEF Alive, Children
<1>8. Found(u, w)'
  <2>1. pc'[u] = "prefetch" => w \in Successors(on[u])' /\ \E i \in DOMAIN Order : Order[i] = w
    BY <1>2, <1>3, <1>6 DEF Found
  <2>2. /\ pc'[u] \notin {"go", "scan"} => w \in WDs
        /\ pc'[u] = "next" => \E i \in DOMAIN nexts'[u] : nexts'[u][i] = w
        /\ pc'[u] = "ready" => \E i \in DOMAIN ready' : ready'[i] = w
    BY <1>2, <1>3 DEF Found
  <2> QED
    BY <1>2, <1>7, <2>1, <2>2 DEF Found
<1> QED
  BY <1>2, <1>5, <1>8

(* A step that concerns none of what a search is for. *)
LEMMA LooksStill ==
  ASSUME NEW t, UNCHANGED <<stage, on, tied, held>>
  PROVE  Looks(t)' = Looks(t) /\ At(t)' = At(t)
BY DEF Looks, At, Alive, Children

(* What the thread that takes the step finds, and why it searches. *)
LEMMA OwnTry ==
  ASSUME Program, TypeOK, StageInv, TryInv, NEW t \in Threads, Step(t), NEW v, v = try'[t].wd
  PROVE  Found(t, v)' /\ Searching(t)'
<1>1. /\ on[t] \in WDs /\ ready \in Seq(WDs) /\ nexts \in [Threads -> Seq(WDs)]
      /\ pc \in [Threads -> Searches] /\ try \in [Threads -> Checks] /\ stage \in [WDs -> Stages]
  BY DEF TypeOK, Searches, Checks
<1>2. Found(t, try[t].wd) /\ Searching(t)
  BY DEF TryInv
<1>3. ASSUME pc'[t] = "go" PROVE Found(t, v)' /\ Searching(t)'
  BY <1>3 DEF Found, Searching
<1>4. ASSUME NoNext(t), UNCHANGED <<on, tied, held>> PROVE Found(t, v)' /\ Searching(t)'
  <2>1. CASE Looks(t)
    <3>1. pc'[t] = "scan" /\ UNCHANGED <<stage, on, tied, held>>
      BY <1>1, <1>4, <2>1 DEF NoNext
    <3>2. Looks(t)'
      BY <2>1, <3>1, LooksStill
    <3> QED
      BY <3>1, <3>2 DEF Found, Searching
  <2>2. CASE ~Looks(t)
    <3>1. pc'[t] = "go"
      BY <1>1, <1>4, <2>2 DEF NoNext
    <3> QED
      BY <1>3, <3>1
  <2> QED
    BY <2>1, <2>2
<1>5. ASSUME NEW q, q = nexts[t], NEW i \in DOMAIN q, v = q[i], pc'[t] = "next", Looks(t) \/ At(t) = "exit",
             UNCHANGED <<stage, on, nexts, tied, held>>
      PROVE  Found(t, v)' /\ Searching(t)'
  <2>1. Looks(t)' = Looks(t) /\ At(t)' = At(t)
    BY <1>5, LooksStill
  <2>2. v \in WDs /\ nexts'[t] = q
    BY <1>1, <1>5
  <2> QED
    BY <1>5, <2>1, <2>2 DEF Found, Searching
<1>6. ASSUME NEW i \in DOMAIN ready, v = ready[i], pc'[t] = "ready", Looks(t),
             UNCHANGED <<stage, on, ready, tied, held>>
      PROVE  Found(t, v)' /\ Searching(t)'
  <2>1. Looks(t)' = Looks(t)
    BY <1>6, LooksStill
  <2>2. v \in WDs
    BY <1>1, <1>6
  <2> QED
    BY <1>6, <2>1, <2>2 DEF Found, Searching
<1>7. ASSUME NEW from \in Nat \ {0}, NEW c, c = Candidates(t, from), Consider(t, c), At(t) = "prefetch", UNCHANGED on
      PROVE  Found(t, v)' /\ Searching(t)'
  <2>1. CASE c = {}
    <3>1. pc'[t] = "go"
      BY <1>1, <1>7, <2>1 DEF Consider, Checked
    <3> QED
      BY <1>3, <3>1
  <2>2. CASE c # {}
    <3>1. /\ pc'[t] = "prefetch" /\ try' = [try EXCEPT ![t] = Begin(Order[Min(c)])]
          /\ UNCHANGED <<stage, on>>
      BY <1>1, <1>7, <2>2 DEF Consider
    <3>2. v = Order[Min(c)]
      BY <1>1, <3>1 DEF Begin
    <3>3. v \in Tasks /\ v \in WDs /\ v \in Successors(on[t]) /\ \E i \in DOMAIN Order : Order[i] = v
      BY <1>7, <2>2, <3>2, CandidatesIn, Names
    <3>4. v \in Successors(on[t])' /\ At(t)' = "prefetch"
      BY <1>7, <3>1, <3>3 DEF Successors, At
    <3> QED
      BY <3>1, <3>3, <3>4 DEF Found, Searching
  <2> QED
    BY <2>1, <2>2
<1>8. CASE Acquire(t) \/ GiveBack(t)
  <2>1. UNCHANGED <<stage, ready, nexts, on, pc, tied, held>> /\ try'[t].wd = try[t].wd
    <3>1. CASE Acquire(t) /\ Free(try[t].wd, Key(try[t].wd, try[t].taken + 1))
      BY <1>1, <3>1 DEF Acquire, Checks
    <3>2. CASE Acquire(t) /\ ~Free(try[t].wd, Key(try[t].wd, try[t].taken + 1))
      BY <1>1, <3>2 DEF Acquire, Checks
    <3>3. CASE GiveBack(t)
      BY <1>1, <3>3 DEF GiveBack, Checks
    <3> QED
      BY <1>8, <3>1, <3>2, <3>3
  <2>2. Found(t, v) /\ v = try[t].wd
    BY <1>2, <2>1
  <2>3. Found(t, v)'
    BY <2>1, <2>2 DEF Found, Successors, Alive, Children
  <2>4. Searching(t)'
    BY <1>2, <2>1, LooksStill DEF Searching
  <2> QED
    BY <2>3, <2>4
<1>9. CASE \/ \E c \in Tasks : Create(t, c)
           \/ EndBody(t) \/ EndTaskwait(t) \/ Release(t) \/ Finished(t) \/ Return(t)
  <2>1. pc'[t] = "go"
    BY <1>9 DEF Create, EndBody, EndTaskwait, Release, Finished, Return
  <2> QED
    BY <1>3, <2>1
<1>10. CASE Seek(t)
  <2>1. CASE nexts[t] = <<>>
    BY <1>4, <1>10, <2>1 DEF Seek
  <2>2. CASE nexts[t] # <<>>
    <3>1. /\ pc'[t] = "next" /\ try' = [try EXCEPT ![t] = Begin(Head(nexts[t]))]
          /\ UNCHANGED <<stage, on, nexts, tied, held>> /\ (Looks(t) \/ At(t) = "exit")
      BY <1>1, <1>10, <2>2 DEF Seek
    <3>2. v = nexts[t][1] /\ 1 \in DOMAIN nexts[t]
      BY <1>1, <2>2, <3>1 DEF Begin
    <3> QED
      BY <1>5, <3>1, <3>2
  <2> QED
    BY <2>1, <2>2
<1>11. CASE NextRefused(t)
  <2>1. CASE Position(nexts[t], try[t].wd) + 1 > Len(nexts[t])
    BY <1>4, <1>11, <2>1 DEF NextRefused
  <2>2. CASE ~(Position(nexts[t], try[t].wd) + 1 > Len(nexts[t]))
    <3>1. PICK i : i = Position(nexts[t], try[t].wd) + 1
      OBVIOUS
    <3>2. /\ pc'[t] = "next" /\ try' = [try EXCEPT ![t] = Begin(nexts[t][i])]
          /\ UNCHANGED <<stage, on, nexts, tied, held>> /\ (Looks(t) \/ At(t) = "exit")
      BY <1>2, <1>11, <2>2, <3>1 DEF NextRefused, Searching
    <3>3. Position(nexts[t], try[t].wd) \in 1..Len(nexts[t])
      BY <1>1, <1>2, <1>11, WithoutSeq DEF NextRefused, Found
    <3>4. i \in DOMAIN nexts[t] /\ v = nexts[t][i]
      BY <1>1, <2>2, <3>1, <3>2, <3>3 DEF Begin
    <3> QED
      BY <1>5, <3>2, <3>4
  <2> QED
    BY <2>1, <2>2
<1>12. CASE Scan(t)
  <2>1. CASE Fitting(t, 1) = {}
    <3>1. pc'[t] = "go"
      BY <1>1, <1>12, <2>1 DEF Scan
    <3> QED
      BY <1>3, <3>1
  <2>2. CASE Fitting(t, 1) # {}
    <3>1. PICK i : i = Min(Fitting(t, 1))
      OBVIOUS
    <3>2. /\ pc'[t] = "ready" /\ try' = [try EXCEPT ![t] = Begin(ready[i])] /\ Looks(t)
          /\ UNCHANGED <<stage, on, ready, tied, held>>
      BY <1>1, <1>2, <1>12, <2>2, <3>1 DEF Scan, Searching
    <3>3. i \in DOMAIN ready /\ v = ready[i]
      <4>1. i \in DOMAIN ready
        BY <2>2, <3>1, FittingIn
      <4> QED
        BY <1>1, <3>2, <4>1 DEF Begin
    <3> QED
      BY <1>6, <3>2, <3>3
  <2> QED
    BY <2>1, <2>2
<1>13. CASE ReadyRefused(t)
  <2>1. PICK rest : rest = Fitting(t, Position(ready, try[t].wd) + 1)
    OBVIOUS
  <2>2. CASE rest = {}
    <3>1. pc'[t] = "go"
      BY <1>1, <1>13, <2>1, <2>2 DEF ReadyRefused, Checked
    <3> QED
      BY <1>3, <3>1
  <2>3. CASE rest # {}
    <3>1. PICK i : i = Min(rest)
      OBVIOUS
    <3>2. /\ pc'[t] = "ready" /\ try' = [try EXCEPT ![t] = Begin(ready[i])] /\ Looks(t)
          /\ UNCHANGED <<stage, on, ready, tied, held>>
      BY <1>1, <1>2, <1>13, <2>1, <2>3, <3>1 DEF ReadyRefused, Searching
    <3>3. Position(ready, try[t].wd) \in 1..Len(ready)
      BY <1>1, <1>2, <1>13, WithoutSeq DEF ReadyRefused, Found
    <3>4. Position(ready, try[t].wd) + 1 \in Nat \ {0}
      BY <3>3
    <3>5. i \in DOMAIN ready
      BY <2>1, <2>3, <3>1, <3>4, FittingIn
    <3>6. v = ready[i]
      BY <1>1, <3>2, <3>5 DEF Begin
    <3> QED
      BY <1>6, <3>2, <3>5, <3>6
  <2> QED
    BY <2>2, <2>3
<1>14. CASE Prefetch(t)
  <2>1. (\E c : c = Candidates(t, 1)) /\ 1 \in Nat \ {0}
    OBVIOUS
  <2> QED
    BY <1>7, <1>14, <2>1 DEF Prefetch
<1>15. CASE PrefetchRefused(t)
  <2>1. PICK from : from = Position(Order, try[t].wd) + 1
    OBVIOUS
  <2>2. At(t) = "prefetch" /\ \E k \in DOMAIN Order : Order[k] = try[t].wd
    BY <1>2, <1>15 DEF PrefetchRefused, Searching, Found
  <2>3. Position(Order, try[t].wd) \in 1..Len(Order)
    BY <2>2, OrderSeq, WithoutSeq
  <2>4. from \in Nat \ {0}
    BY <2>1, <2>3
  <2>5. PICK c : c = Candidates(t, from)
    OBVIOUS
  <2> QED
    BY <1>7, <1>15, <2>1, <2>2, <2>4, <2>5 DEF PrefetchRefused
<1>16. CASE PrefetchGranted(t) \/ WakeGranted(t) \/ WakeRefused(t) \/ NextGranted(t)
            \/ ReadyGranted(t) \/ ExitToHeld(t)
  <2>1. Checked(t)
    BY <1>16 DEF PrefetchGranted, WakeGranted, WakeRefused, NextGranted, ReadyGranted, ExitToHeld, GoOn
  <2>2. pc'[t] = "go"
    BY <1>1, <2>1 DEF Checked
  <2> QED
    BY <1>3, <2>2
<1>17. CASE Leave(t)
  <2>1. pc[t] = "go" /\ At(t) = "children" /\ Alive(on[t]) = {} /\ stage' = [stage EXCEPT ![on[t]] = "left"]
    BY <1>17 DEF Leave
  <2>2. CASE UNCHANGED pc
    BY <1>3, <2>1, <2>2
  <2>3. CASE ~UNCHANGED pc
    <3>1. PICK p : p = Parent[on[t]]
      OBVIOUS
    <3>2. Wakes(p, on[t]) /\ pc' = [pc EXCEPT ![t] = "wake"] /\ try' = [try EXCEPT ![t] = Begin(p)]
      BY <1>17, <2>3, <3>1 DEF Leave
    <3>3. v = p /\ pc'[t] = "wake"
      BY <1>1, <3>2 DEF Begin
    <3>4. on[t] \in Tasks
      BY <1>1, <2>1, Names DEF At, StageInv
    <3>5. p \in WDs /\ p \in Users
      BY <3>1, <3>4, Names DEF Program, Users
    <3>6. Alive(p) = {on[t]} /\ stage[p] \in Awaiting
      BY <3>2 DEF Wakes, Blocked
    <3>7. p # on[t]
      BY <2>1, <3>6
    <3>8. stage'[p] = stage[p] /\ stage'[on[t]] = "left" /\ \A c \in WDs \ {on[t]} : stage'[c] = stage[c]
      BY <1>1, <2>1, <3>5, <3>7
    <3>9. Alive(p)' = {}
      BY <3>6, <3>8, Names DEF Alive, Children
    <3>10. Alive(v)' = {} /\ stage'[v] \in Awaiting /\ v \in Users /\ v \in WDs
      BY <3>3, <3>5, <3>6, <3>8, <3>9
    <3>11. Found(t, v)'
      BY <3>3, <3>10 DEF Found
    <3> QED
      BY <3>3, <3>11 DEF Searching
  <2> QED
    BY <2>2, <2>3
<1> QED
  BY <1>8, <1>9, <1>10, <1>11, <1>12, <1>13, <1>14, <1>15, <1>16, <1>17 DEF Step

(* Every step keeps what the threads have found, and why they search. *)
LEMMA TryStep ==
  ASSUME Program, NEW kind, NEW who, Inv(kind, who), NEW t \in Threads, Step(t)
  PROVE  TryInv'
<1>1. TypeOK /\ StageInv /\ TryInv
  BY DEF Inv
<1>2. ASSUME NEW u \in Threads, NEW v, v = try'[u].wd PROVE Found(u, v)' /\ Searching(u)'
  <2>1. CASE u = t
    BY <1>1, <1>2, <2>1, OwnTry
  <2>2. CASE u # t
    <3>1. PICK w : w = try[u].wd
      OBVIOUS
    <3>2. Found(u, w)' /\ Searching(u)' /\ try'[u].wd = w
      BY <2>2, <3>1, OthersTry
    <3> QED
      BY <1>2, <3>2
  <2> QED
    BY <2>1, <2>2
<1>3. ASSUME NEW u \in Threads PROVE Found(u, try[u].wd)' /\ Searching(u)'
  <2>1. PICK v : v = try'[u].wd
    OBVIOUS
  <2>2. Found(u, v)' /\ Searching(u)'
    BY <1>2, <2>1
  <2> QED
    BY <2>1, <2>2 DEF Found
<1> QED
  BY <1>3 DEF TryInv

-----------------------------------------------------------------------------
(* The invariant, and what follows from it. *)

(* At first the master runs Main, and no task is anywhere. *)
LEMMA InitInductive ==
  ASSUME Program, Init
  PROVE  Inductive
<1> DEFINE kind == [u \in Users |-> IF u = Main THEN "on" ELSE "nowhere"]
           who == [u \in Users |-> IF u = Main THEN Master ELSE None]
<1>1. kind \in [Users -> Kinds] /\ who \in [Users -> Holders]
  BY DEF Program, Kinds, Holders
<1>2. /\ \A w \in WDs : stage[w] = IF w = Main THEN "body" ELSE IF w \in Workers THEN "loop" ELSE "new"
      /\ stage \in [WDs -> Stages]
  <2>1. stage = [w \in WDs |-> CASE w = Main -> "body" [] w \in Workers -> "loop" [] OTHER -> "new"]
    BY Zenon DEF Init
  <2>2. \A w \in WDs : stage[w] = CASE w = Main -> "body" [] w \in Workers -> "loop" [] OTHER -> "new"
    BY <2>1
  <2>3. \A w \in WDs : stage[w] = IF w = Main THEN "body" ELSE IF w \in Workers THEN "loop" ELSE "new"
    BY <2>2, Names
  <2>4. {"body", "loop", "new"} \subseteq Stages
    BY DEF Stages, Before, Inside
  <2>5. \A w \in WDs : stage[w] \in Stages
    BY <2>3, <2>4
  <2> QED
    BY <2>1, <2>3, <2>5
<1>3. /\ \A u \in Threads : on[u] = IF u = Master THEN Main ELSE u
      /\ Workers \cap Users = {} /\ None \notin Users /\ Master \in Threads /\ Main \in Users
  BY Names DEF Init, Users, Program
<1>4. TypeOK
  <2>1. owner \in [UNION {Keys(w) : w \in Tasks} -> Tasks \cup {None}]
    BY Zenon DEF Init
  <2>2. /\ ready \in Seq(WDs) /\ nexts \in [Threads -> Seq(WDs)]
        /\ pc \in [Threads -> {"go", "next", "scan", "ready", "prefetch", "wake"}]
        /\ \A u \in Threads : try[u] = Idle /\ pc[u] = "go" /\ lock # u
    BY Names DEF Init
  <2>3. on \in [Threads -> WDs]
    BY DEF Init, WDs, Workers
  <2>4. try \in [Threads -> [wd : WDs \cup {None}, taken : Nat, undo : BOOLEAN]]
    BY DEF Init, Idle
  <2>5. tied \in [WDs -> Workers \cup {None}] /\ held \in [WDs -> WDs \cup {None}] /\ released \in [WDs -> Nat]
    BY DEF Init
  <2> QED
    BY <1>2, <2>1, <2>2, <2>3, <2>4, <2>5 DEF TypeOK
<1>5. StageInv
  BY <1>2, Names DEF Init, StageInv
<1>6. TryInv
  BY DEF Init, TryInv, Found, Searching
<1>7. PlacedAt(kind, who)
  <2>1. \A u \in Threads : on[u] \in Users => u = Master /\ on[u] = Main
    BY <1>3 DEF Workers
  <2>2. \A u \in Threads : on[u] \in Users => IsAt(on[u], kind, who, "on", u)
    BY <1>3, <2>1 DEF IsAt
  <2>3. \A w \in WDs : held[w] \notin Users
    BY <1>3 DEF Init
  <2>4. InQueue(ready, kind, who, "ready", None) /\ \A u \in Threads : InQueue(nexts[u], kind, who, "next", u)
    BY DEF Init, InQueue
  <2>5. \A u \in Threads : pc[u] # "wake"
    BY DEF Init
  <2> QED
    BY <2>2, <2>3, <2>4, <2>5 DEF PlacedAt
<1>8. PlaceFits(kind)
  BY <1>2, Names DEF PlaceFits, Users
<1>9. OwnInv(kind)
  <2>1. \A u \in Threads : TakenInv(u, kind)
    BY DEF Init, TakenInv
  <2>2. ASSUME NEW w \in Tasks PROVE OwnedInv(w, kind)
    <3>1. stage[w] = "new" /\ released[w] = 0 /\ w # None
      BY <1>2, Names DEF Init
    <3>2. \A i \in DOMAIN Accesses[w] : owner[Key(w, i)] # w
      BY <3>1, KeyIn DEF Init
    <3> QED
      BY <3>1, <3>2 DEF OwnedInv, Chosen, Inside
  <2> QED
    BY <2>1, <2>2 DEF OwnInv
<1>10. Inv(kind, who)
  BY <1>4, <1>5, <1>6, <1>7, <1>8, <1>9 DEF Inv
<1> QED
  BY <1>1, <1>10 DEF Inductive

(* Every step keeps the invariant. *)
LEMMA StepInductive ==
  ASSUME Program, Inductive, [Next]_vars
  PROVE  Inductive'
<1>1. PICK kind \in [Users -> Kinds], who \in [Users -> Holders] : Inv(kind, who)
  BY DEF Inductive
<1>2. ASSUME NEW kind2 \in [Users -> Kinds], NEW who2 \in [Users -> Holders], Inv(kind2, who2)'
      PROVE  Inductive'
  BY <1>2 DEF Inductive
<1>3. CASE UNCHANGED vars
  <2>1. TypeOK' /\ StageInv' /\ TryInv'
    <3>1. TypeOK'
      BY <1>1, <1>3 DEF Inv, TypeOK, vars
    <3>2. StageInv'
      BY <1>1, <1>3 DEF Inv, StageInv, vars
    <3>3. ASSUME NEW u \in Threads PROVE Found(u, try[u].wd)' /\ Searching(u)'
      BY <1>1, <1>3 DEF Inv, TryInv, Found, Searching, Looks, At, Alive, Children, Successors, vars
    <3> QED
      BY <3>1, <3>2, <3>3 DEF TryInv
  <2>2. PlacedAt(kind, who)' /\ PlaceFits(kind)'
    BY <1>1, <1>3 DEF Inv, PlacedAt, PlaceFits, InQueue, vars
  <2>3. OwnInv(kind)'
    BY <1>1, <1>3 DEF Inv, OwnInv, TakenInv, OwnedInv, Chosen, Owns, vars
  <2>4. Inv(kind, who)'
    BY <2>1, <2>2, <2>3 DEF Inv
  <2> QED
    BY <1>2, <2>4
<1>4. ASSUME NEW t \in Threads, Step(t) PROVE Inductive'
  <2>1. TypeOK /\ StageInv /\ TryInv
    BY <1>1 DEF Inv
  <2>2. TypeOK' /\ StageInv' /\ TryInv'
    BY <1>1, <1>4, <2>1, TypeStep, StageStep, TryStep
  <2>3. PICK kind2 \in [Users -> Kinds], who2 \in [Users -> Holders] : Placing(kind2, who2)'
    BY <1>1, <1>4, PlacementStep DEF Placement
  <2>4. Inv(kind2, who2)'
    BY <2>2, <2>3 DEF Placing, Inv
  <2> QED
    BY <1>2, <2>4
<1> QED
  BY <1>3, <1>4 DEF Next

(* The invariant holds in every reachable state. *)
LEMMA InductiveHolds ==
  ASSUME Program
  PROVE  Spec => []Inductive
<1>1. Init => Inductive
  BY InitInductive
<1>2. Inductive /\ [Next]_vars => Inductive'
  BY StepInductive
<1> QED
  BY <1>1, <1>2, PTL DEF Spec

(* Each variable keeps its type; a thread checks a WD's constraints exactly in a search, and scans  *)
(* the ready queue exactly with its lock, for every program and every number of threads.            *)
THEOREM TypeHolds ==
  ASSUME Program
  PROVE  Spec => []TypeOK
<1>1. Inductive => TypeOK
  BY DEF Inductive, Inv
<1> QED
  BY <1>1, InductiveHolds, PTL

(* A task inside its body owns its addresses, and an address has one owner. *)
LEMMA InductiveExclusive ==
  ASSUME Program, Inductive
  PROVE  Exclusive
<1>1. PICK kind \in [Users -> Kinds], who \in [Users -> Holders] : Inv(kind, who)
  BY DEF Inductive
<1> SUFFICES ASSUME NEW v \in Tasks, NEW w \in Tasks, v # w, stage[v] \in Inside, stage[w] \in Inside,
                    NEW k \in Keys(v) \cap Keys(w)
             PROVE  FALSE
  BY DEF Exclusive
<1>2. Owns(v, 1) /\ Owns(w, 1)
  BY <1>1 DEF Inv, OwnInv, OwnedInv, Chosen
<1>3. PICK i \in DOMAIN Accesses[v] : k = Key(v, i)
  BY DEF Keys
<1>4. PICK j \in DOMAIN Accesses[w] : k = Key(w, j)
  BY DEF Keys
<1>5. i >= 1 /\ j >= 1
  BY <1>3, <1>4, Lengths, Names
<1> QED
  BY <1>2, <1>3, <1>4, <1>5 DEF Owns

(* No two tasks of one parent with an address in common are between the start and the end of their  *)
(* bodies, whichever threads check, take, give back and release the addresses meanwhile.            *)
THEOREM ExclusiveHolds ==
  ASSUME Program
  PROVE  Spec => []Exclusive
<1>1. Inductive => Exclusive
  BY InductiveExclusive
<1> QED
  BY <1>1, InductiveHolds, PTL

(* What the invariant says of a task that is ready, in the ready queue and chosen. *)
LEMMA InductiveAllOrNothing ==
  ASSUME Program, Inductive
  PROVE  AllOrNothing
<1>1. PICK kind \in [Users -> Kinds], who \in [Users -> Holders] : Inv(kind, who)
  BY DEF Inductive
<1>2. TypeOK /\ PlacedAt(kind, who) /\ \A w \in Tasks : OwnedInv(w, kind)
  BY <1>1 DEF Inv, OwnInv
<1> SUFFICES ASSUME NEW w \in Tasks, stage[w] = "ready"
             PROVE  /\ w \in Range(ready) /\ (\A t \in Threads : try[t].wd # w)
                         => \A k \in Keys(w) : owner[k] # w
                    /\ (\E t \in Threads : w \in Range(nexts[t]) \cup Range(held))
                         => \A k \in Keys(w) : owner[k] = w
  BY DEF AllOrNothing
<1>3. w \in Users /\ w \in WDs
  BY Names DEF Users
<1>4. ASSUME w \in Range(ready), \A t \in Threads : try[t].wd # w, NEW k \in Keys(w)
      PROVE  owner[k] # w
  <2>1. kind[w] = "ready"
    BY <1>2, <1>3, <1>4 DEF Range, PlacedAt, InQueue, IsAt
  <2>2. ~Chosen(w, kind)
    BY <2>1 DEF Chosen, Inside
  <2>3. \A i \in DOMAIN Accesses[w] : owner[Key(w, i)] # w
    BY <1>2, <1>4, <2>2 DEF OwnedInv, Before
  <2> QED
    BY <2>3 DEF Keys
<1>5. ASSUME NEW t \in Threads, w \in Range(nexts[t]) \cup Range(held), NEW k \in Keys(w)
      PROVE  owner[k] = w
  <2>1. kind[w] \in {"held", "next"}
    <3>1. CASE w \in Range(nexts[t])
      BY <1>2, <1>3, <3>1 DEF Range, PlacedAt, InQueue, IsAt
    <3>2. CASE w \in Range(held)
      BY <1>2, <1>3, <3>2 DEF Range, PlacedAt, IsAt, TypeOK
    <3> QED
      BY <1>5, <3>1, <3>2
  <2>2. Owns(w, 1)
    BY <1>2, <2>1 DEF Chosen, OwnedInv
  <2>3. \A i \in DOMAIN Accesses[w] : i >= 1
    BY <1>3, Lengths
  <2> QED
    BY <2>2, <2>3 DEF Owns, Keys
<1> QED
  BY <1>4, <1>5

(* A new task in the ready queue owns none of its addresses unless a thread is checking it, and one *)
(* that has been chosen for a thread owns all of them.                                              *)
THEOREM AllOrNothingHolds ==
  ASSUME Program
  PROVE  Spec => []AllOrNothing
<1>1. Inductive => AllOrNothing
  BY InductiveAllOrNothing
<1> QED
  BY <1>1, InductiveHolds, PTL
=============================================================================
