------------------------- MODULE DependencesProofs -------------------------
(***************************************************************************)
(* For every number of tasks and addresses: with plain accesses, the       *)
(* counts of predecessors are exact, nothing leads to a deleted object,    *)
(* and tasks run in the order of the data flow.                            *)
(***************************************************************************)
EXTENDS PlainDependences, FiniteSetTheorems, TLAPS

(* There are no commutation objects. *)
LEMMA PlainNames ==
    /\ Submissions \in Nat /\ Plain!Tasks = 1..Submissions /\ Plain!Tasks \subseteq Nat
         /\ 0 \notin Plain!Tasks
    /\ IsFiniteSet(Plain!Tasks) /\ Plain!Comms = {} /\ Plain!Objects = Plain!Tasks /\ Plain!None = 0
    /\ Plain!Runners = {0} \cup Plain!Tasks
<1>1. Submissions \in Nat /\ Plain!Tasks = 1..Submissions /\ Plain!Comms = {}
      /\ Plain!Objects = Plain!Tasks
  BY PlainAssumption DEF Plain!Tasks, Plain!Comms, Plain!Objects
<1>2. IsFiniteSet(1..Submissions)
  BY <1>1, FS_Interval
<1> QED
  BY <1>1, <1>2 DEF Plain!Tasks, Plain!None, Plain!Runners

(* The instance counts as FiniteSets does. *)
LEMMA PlainCardinality == \A S : Plain!Cardinality(S) = Cardinality(S)
BY Zenon DEF Plain!Cardinality, Cardinality

(* Whom a task has yet to tell. *)
LEMMA OutstandingOf ==
  ASSUME NEW p \in Plain!Tasks
  PROVE  /\ Plain!Outstanding(p) = (IF stage[p] = "gone" THEN {}
                              ELSE IF stage[p] = "succs" THEN pending[p] ELSE succs[p])
         /\ Plain!Outstanding(p)' = (IF stage'[p] = "gone" THEN {}
                               ELSE IF stage'[p] = "succs" THEN pending'[p] ELSE succs'[p])
BY PlainNames DEF Plain!Outstanding

(* What a task has to wait for depends on the accesses only. *)
LEMMA SameOrder ==
  ASSUME acc' = acc
  PROVE  /\ \A t, a : (Plain!Uses(t, a)' <=> Plain!Uses(t, a))
              /\ (Plain!Writes(t, a)' <=> Plain!Writes(t, a))
         /\ \A u, t, a : Plain!Before(u, t, a)' <=> Plain!Before(u, t, a)
BY DEF Plain!Uses, Plain!Writes, Plain!Before

(* If whoever drops an edge is over, nobody loses what it waits for. *)
LEMMA CoverKept ==
  ASSUME Plain!OrderInv, acc' = acc,
         \A v \in Plain!Tasks : Plain!Over(v) => Plain!Over(v)',
         \A p, v \in Plain!Tasks : v \in Plain!Outstanding(p) => v \in Plain!Outstanding(p)'
           \/ Plain!Over(p)
  PROVE  \A u, t \in Plain!Tasks : \A a \in Addresses : Plain!Covered(u, t, a)
           => Plain!Covered(u, t, a)'
<1> SUFFICES ASSUME NEW u \in Plain!Tasks, NEW t \in Plain!Tasks, NEW a \in Addresses,
                    Plain!Covered(u, t, a)
             PROVE  Plain!Covered(u, t, a)'
  OBVIOUS
<1>1. CASE Plain!Over(u)
  BY <1>1 DEF Plain!Covered
<1>2. CASE ~Plain!Over(u)
  <2>1. PICK w \in Plain!Tasks : (w = u \/ Plain!Before(u, w, a)) /\ t \in Plain!Outstanding(w)
    BY <1>2 DEF Plain!Covered
  <2>2. ~Plain!Over(w)
    BY <1>2, <2>1 DEF Plain!OrderInv, Plain!Over
  <2>3. w = u \/ Plain!Before(u, w, a)'
    BY <2>1, SameOrder
  <2> QED
    BY <2>1, <2>2, <2>3 DEF Plain!Covered
<1> QED
  BY <1>1, <1>2

(* A task of which nobody has anything left to tell has none before it. *)
LEMMA Released ==
  ASSUME Plain!OrderInv, Plain!CoverInv, NEW t \in Plain!Tasks, stage[t] = "submitted",
         \A a \in Addresses : Plain!Uses(t, a) => Plain!Entered(t, a),
         \A p \in Plain!Tasks : t \in Plain!Outstanding(p) => Plain!Over(p)
  PROVE  \A u \in Plain!Tasks : \A a \in Addresses : Plain!Before(u, t, a) => Plain!Over(u)
<1> SUFFICES ASSUME NEW u \in Plain!Tasks, NEW a \in Addresses, Plain!Before(u, t, a),
                    ~Plain!Over(u)
             PROVE  FALSE
  OBVIOUS
<1>1. Plain!Covered(u, t, a)
  BY DEF Plain!CoverInv, Plain!Before
<1>2. PICK w \in Plain!Tasks : (w = u \/ Plain!Before(u, w, a)) /\ t \in Plain!Outstanding(w)
  BY <1>1 DEF Plain!Covered
<1> QED
  BY <1>2 DEF Plain!OrderInv, Plain!Over

(* The order is kept if tasks start, and accesses are entered, only with what they have to
   wait for over or awaited. *)
LEMMA OrderKept ==
  ASSUME Plain!OrderInv, Plain!CoverInv, acc' = acc,
         \A v \in Plain!Tasks : Plain!Over(v) => Plain!Over(v)',
         \A p, v \in Plain!Tasks : v \in Plain!Outstanding(p) => v \in Plain!Outstanding(p)'
           \/ Plain!Over(p),
         \A t \in Plain!Tasks : Plain!Started(t)' => Plain!Started(t)
           \/ \A u \in Plain!Tasks : \A a \in Addresses : Plain!Before(u, t, a) => Plain!Over(u),
         \A t \in Plain!Tasks : stage'[t] = "submitted" => stage[t] = "submitted",
         \A t \in Plain!Tasks : \A a \in Addresses : Plain!Entered(t, a)' =>
            Plain!Entered(t, a) \/ \A u \in Plain!Tasks : Plain!Before(u, t, a)
              => Plain!Covered(u, t, a)'
  PROVE  Plain!OrderInv' /\ Plain!CoverInv'
<1>1. Plain!OrderInv'
  <2> SUFFICES ASSUME NEW u \in Plain!Tasks, NEW t \in Plain!Tasks, NEW a \in Addresses,
                      Plain!Before(u, t, a)', Plain!Started(t)'
               PROVE  Plain!Over(u)'
    BY DEF Plain!OrderInv
  <2>1. Plain!Before(u, t, a)
    BY SameOrder
  <2>2. Plain!Over(u)
    BY <2>1 DEF Plain!OrderInv
  <2> QED
    BY <2>2
<1>2. Plain!CoverInv'
  <2> SUFFICES ASSUME NEW u \in Plain!Tasks, NEW t \in Plain!Tasks, NEW a \in Addresses,
                      Plain!Before(u, t, a)', stage'[t] = "submitted", Plain!Entered(t, a)'
               PROVE  Plain!Covered(u, t, a)'
    BY DEF Plain!CoverInv
  <2>1. Plain!Before(u, t, a) /\ stage[t] = "submitted"
    BY SameOrder
  <2>2. CASE Plain!Entered(t, a)
    <3>1. Plain!Covered(u, t, a)
      BY <2>1, <2>2 DEF Plain!CoverInv
    <3> QED
      BY <3>1, CoverKept
  <2>3. CASE ~Plain!Entered(t, a)
    BY <2>1, <2>3
  <2> QED
    BY <2>2, <2>3
<1> QED
  BY <1>1, <1>2

(* The records of an address are kept if they lose only tasks that are over. *)
LEMMA TrackingKept ==
  ASSUME Plain!OrderInv, Plain!WriterInv, Plain!ReaderInv, Plain!LastInv, acc' = acc,
         \A v \in Plain!Tasks : Plain!Over(v) => Plain!Over(v)',
         \A t \in Plain!Tasks : \A a \in Addresses : Plain!Entered(t, a) => Plain!Entered(t, a)',
         \A t \in Plain!Tasks : \A a \in Addresses : Plain!Entered(t, a)' => Plain!Entered(t, a)
           \/ (t \in WaitOns /\ ~Plain!Writes(t, a)),
         \A a \in Addresses : lastWriter'[a] # Plain!None =>
            lastWriter'[a] = lastWriter[a]
              /\ stage'[lastWriter[a]] \in {"submitted", "ready", "ended", "writers"},
         \A a \in Addresses : \A r \in readers'[a] : r \in readers[a] /\ r \in Plain!Tasks
           /\ stage'[r] \notin {"unborn", "succs", "gone"},
         \A a \in Addresses : \A r \in readers[a] : r \in readers'[a] \/ Plain!Over(r)',
         \A a \in Addresses : \A w \in Plain!Tasks : Plain!Latest(w, a) => Plain!Latest(w, a)'
           \/ (Plain!Started(w) /\ Plain!Over(w)')
  PROVE  Plain!WriterInv' /\ Plain!ReaderInv' /\ Plain!LastInv'
<1>1. Plain!WriterInv'
  <2> SUFFICES ASSUME NEW a \in Addresses, NEW w, w = lastWriter'[a], w # Plain!None
               PROVE  /\ w \in Plain!Tasks \ WaitOns /\ Plain!Writes(w, a)' /\ Plain!Entered(w, a)'
                      /\ stage'[w] \in {"submitted", "ready", "ended", "writers"}
    BY DEF Plain!WriterInv, Plain!None
  <2>1. w = lastWriter[a] /\ stage'[w] \in {"submitted", "ready", "ended", "writers"}
    OBVIOUS
  <2>2. w \in Plain!Tasks \ WaitOns /\ Plain!Writes(w, a) /\ Plain!Entered(w, a)
    BY <2>1 DEF Plain!WriterInv
  <2> QED
    BY <2>1, <2>2, SameOrder
<1>2. Plain!ReaderInv'
  <2> SUFFICES ASSUME NEW a \in Addresses, NEW r \in readers'[a]
               PROVE  /\ r \notin WaitOns /\ acc'[r][a] = "in" /\ Plain!Entered(r, a)'
                      /\ stage'[r] \notin {"unborn", "succs", "gone"}
                      /\ \A x \in Plain!Tasks : Plain!Writes(x, a)' /\ Plain!Entered(x, a)' => x < r
    BY DEF Plain!ReaderInv
  <2>1. /\ r \in readers[a] /\ r \notin WaitOns /\ acc'[r][a] = "in" /\ Plain!Entered(r, a)
             /\ r \in Plain!Tasks
        /\ \A x \in Plain!Tasks : Plain!Writes(x, a) /\ Plain!Entered(x, a) => x < r
    BY DEF Plain!ReaderInv
  <2>2. \A x \in Plain!Tasks : Plain!Writes(x, a)' /\ Plain!Entered(x, a)' => Plain!Writes(x, a)
    /\ Plain!Entered(x, a)
    BY SameOrder
  <2> QED
    BY <2>1, <2>2
<1>3. Plain!LastInv'
  <2> SUFFICES ASSUME NEW a \in Addresses, NEW u \in Plain!Tasks, Plain!Entered(u, a)',
                      ~Plain!Over(u)', u \notin WaitOns, u \notin readers'[a]
               PROVE  \E w \in Plain!Tasks : u <= w /\ Plain!Writes(w, a)'
                        /\ Plain!Entered(w, a)' /\ Plain!Latest(w, a)'
    BY DEF Plain!LastInv
  <2>1. Plain!Entered(u, a) /\ ~Plain!Over(u) /\ u \notin readers[a]
    OBVIOUS
  <2>2. PICK w \in Plain!Tasks : u <= w /\ Plain!Writes(w, a) /\ Plain!Entered(w, a)
               /\ Plain!Latest(w, a)
    BY <2>1 DEF Plain!LastInv
  <2>3. CASE Plain!Started(w) /\ Plain!Over(w)'
    <3>1. w # u
      BY <2>3
    <3>2. u < w
      BY <2>2, <3>1, PlainNames
    <3>3. Plain!Before(u, w, a)
      BY <2>1, <2>2, <3>2, PlainNames DEF Plain!Before, Plain!Entered
    <3> QED
      BY <2>1, <2>3, <3>3 DEF Plain!OrderInv
  <2>4. CASE ~(Plain!Started(w) /\ Plain!Over(w)')
    BY <2>2, <2>4, SameOrder
  <2> QED
    BY <2>3, <2>4
<1> QED
  BY <1>1, <1>2, <1>3

(* The tasks that have yet to tell another are counted. *)
LEMMA Counted ==
  ASSUME Plain!TypeOK, Plain!CountInv, NEW t \in Plain!Tasks, stage[t] = "submitted"
  PROVE  /\ IsFiniteSet(Plain!Tellers(t)) /\ Cardinality(Plain!Tellers(t)) \in Nat
         /\ Plain!Tellers(t) = {p \in Plain!Tasks : t \in Plain!Outstanding(p)}
         /\ preds[t] = Cardinality(Plain!Tellers(t)) + (IF Plain!BeingSubmitted(t) THEN 1 ELSE 0)
<1>1. Plain!Tellers(t) = {p \in Plain!Tasks : t \in Plain!Outstanding(p)}
  BY PlainNames DEF Plain!Tellers
<1>2. IsFiniteSet(Plain!Tellers(t)) /\ Cardinality(Plain!Tellers(t)) \in Nat
  BY <1>1, PlainNames, FS_Subset, FS_CardinalityType
<1>3. preds[t] = Cardinality(Plain!Tellers(t)) + (IF Plain!BeingSubmitted(t) THEN 1 ELSE 0)
  BY PlainCardinality DEF Plain!CountInv, Plain!PredsExact
<1> QED
  BY <1>1, <1>2, <1>3

(* Every count is exact again if it changes with the tasks that tell. *)
LEMMA CountKept ==
  ASSUME \A t \in Plain!Tasks : stage'[t] = "submitted" =>
            preds'[t] = Cardinality(Plain!Tellers(t)') + (IF Plain!BeingSubmitted(t)' THEN 1 ELSE 0),
         \A t \in Plain!Tasks : stage'[t] = "unborn" => preds'[t] = 0
  PROVE  Plain!CountInv'
<1>1. ASSUME NEW t \in Plain!Tasks, stage'[t] = "submitted"
      PROVE  preds'[t] = Plain!Cardinality(Plain!Tellers(t))' + (IF Plain!BeingSubmitted(t)' THEN 1 ELSE 0)
  <2>1. Plain!Cardinality(Plain!Tellers(t))' = Cardinality(Plain!Tellers(t)')
    BY PlainCardinality
  <2> QED
    BY <1>1, <2>1
<1> QED
  BY <1>1 DEF Plain!CountInv, Plain!PredsExact

(* A task that is told by one of its predecessors, or by the submitter. *)
LEMMA DecreaseOf ==
  ASSUME NEW t \in Plain!Tasks, NEW r \in Plain!Runners, Plain!Decrease(t, r)
  PROVE  /\ preds' = [preds EXCEPT ![t] = @ - 1] /\ cpc' = cpc /\ in' = in
         /\ stage' = IF preds[t] = 1 THEN [stage EXCEPT ![t] = "ready"] ELSE stage
BY PlainNames DEF Plain!Decrease

(* While tasks finish the submitter stays where it is. *)
LEMMA SameEntries ==
  ASSUME acc' = acc, spc' = spc, task' = task, todo' = todo, addr' = addr
  PROVE  /\ \A t, a : Plain!Entered(t, a)' <=> Plain!Entered(t, a)
         /\ \A t : Plain!BeingSubmitted(t)' <=> Plain!BeingSubmitted(t)
BY DEF Plain!Entered, Plain!Uses, Plain!BeingSubmitted

(* What the submitter has found out stays true while tasks finish. *)
LEMMA PlaceKept ==
  ASSUME Plain!Inductive, acc' = acc, cpc' = cpc,
         UNCHANGED <<spc, task, todo, addr, seen>>,
         \A v \in Plain!Tasks : Plain!Over(v) => Plain!Over(v)',
         \A p, v \in Plain!Tasks : v \in Plain!Outstanding(p) => v \in Plain!Outstanding(p)'
           \/ Plain!Over(p),
         \A a \in Addresses : lastWriter'[a] \in {lastWriter[a], Plain!None},
         \A t \in Plain!Tasks : stage'[t] = "unborn" <=> stage[t] = "unborn",
         \A t \in Plain!Tasks : t \in WaitOns =>
            stage'[t] = stage[t] \/ (stage[t] = "submitted" /\ stage'[t] = "ready"),
         \A t \in Plain!Tasks : Plain!BeingSubmitted(t) /\ stage[t] = "submitted"
           => stage'[t] = "submitted",
         spc = "readers" /\ readers'[addr] = {} => readers[addr] = {} \/ Plain!WritersCovered
  PROVE  Plain!StageInv' /\ Plain!PlaceInv'
<1> USE DEF Plain!Inductive
<1>1. \A t, a : (Plain!Uses(t, a)' <=> Plain!Uses(t, a))
      /\ (Plain!Writes(t, a)' <=> Plain!Writes(t, a))
  BY SameOrder
<1>2. Plain!StageInv'
  <2> SUFFICES ASSUME NEW t \in Plain!Tasks
               PROVE  /\ t > task' => stage'[t] = "unborn"
                           /\ \A a \in Addresses : ~Plain!Uses(t, a)'
                      /\ t <= task' => stage'[t] # "unborn"
                      /\ t \in WaitOns => /\ stage'[t] \in {"unborn", "submitted", "ready", "gone"}
                                          /\ t < task' \/ (t = task' /\ spc' = "next")
                                               => stage'[t] = "gone"
    BY DEF Plain!StageInv
  <2>1. /\ t > task' => stage'[t] = "unborn" /\ \A a \in Addresses : ~Plain!Uses(t, a)'
        /\ t <= task' => stage'[t] # "unborn"
    BY <1>1 DEF Plain!StageInv
  <2>2. ASSUME t \in WaitOns
        PROVE  /\ stage'[t] \in {"unborn", "submitted", "ready", "gone"}
               /\ t < task' \/ (t = task' /\ spc' = "next") => stage'[t] = "gone"
    BY <2>2 DEF Plain!StageInv
  <2> QED
    BY <2>1, <2>2
<1>3. addr \in Addresses /\ spc' = spc /\ (spc # "next" => task \in Plain!Tasks)
  BY DEF Plain!TypeOK, Plain!PlaceInv
<1>4. ASSUME task \in Plain!Tasks
      PROVE  \A u \in Plain!Tasks : Plain!Covered(u, task, addr) => Plain!Covered(u, task, addr)'
  <2>1. PICK t \in Plain!Tasks, a \in Addresses : t = task /\ a = addr
    BY <1>3, <1>4
  <2>2. \A u \in Plain!Tasks : Plain!Covered(u, t, a) => Plain!Covered(u, t, a)'
    BY CoverKept
  <2>3. t = task' /\ a = addr'
    BY <2>1
  <2> QED
    BY <2>1, <2>2, <2>3
<1>5. task \in Plain!Tasks /\ Plain!WritersCovered => Plain!WritersCovered'
  BY <1>1, <1>4 DEF Plain!WritersCovered
<1>6. /\ spc \notin {"next", "wait"} => stage'[task] = "submitted"
      /\ spc = "wait" => stage'[task] # "gone"
  <2>1. CASE spc = "wait"
    BY <1>3, <2>1 DEF Plain!PlaceInv, Plain!Waits
  <2>2. CASE spc \notin {"next", "wait"}
    BY <1>3, <2>2 DEF Plain!PlaceInv, Plain!BeingSubmitted
  <2> QED
    BY <2>1, <2>2
<1>7. lastWriter'[addr] \in {lastWriter[addr], Plain!None}
  BY <1>3
<1>8. /\ spc' = "read" => Plain!Access' = "in" /\ ~Plain!Waits' /\ Plain!WritersCovered'
      /\ spc' = "readers" => Plain!Writes(task, addr)'
           /\ (readers'[addr'] = {} => Plain!WritersCovered')
      /\ spc' = "write" => /\ Plain!Writes(task, addr)'
                           /\ \A u \in Plain!Tasks : u < task' /\ Plain!Uses(u, addr)'
                                => Plain!Covered(u, task, addr)'
  <2>1. CASE spc = "read"
    BY <1>3, <1>5, <2>1 DEF Plain!PlaceInv, Plain!Access, Plain!Waits
  <2>2. CASE spc = "readers"
    BY <1>1, <1>3, <1>5, <2>2 DEF Plain!PlaceInv
  <2>3. CASE spc = "write"
    BY <1>1, <1>3, <1>4, <2>3 DEF Plain!PlaceInv
  <2> QED
    BY <1>3, <2>1, <2>2, <2>3
<1>9. Plain!PlaceInv'
  <2>1. /\ spc' \in Plain!PlainPlaces /\ \A r \in Plain!Runners : cpc'[r] = "idle"
        /\ spc' # "next" => task' \in Plain!Tasks
        /\ spc' \in {"next", "wait"} => todo' = {}
        /\ spc' = "versions" => Plain!Access' = "out"
    BY DEF Plain!PlaceInv, Plain!Access
  <2>2. /\ spc' = "wait" => Plain!Waits' /\ stage'[task'] # "gone"
        /\ spc' \notin {"next", "wait"} => stage'[task'] = "submitted"
    BY <1>6 DEF Plain!PlaceInv, Plain!Waits
  <2>3. /\ spc' \notin {"next", "wait", "access"} => Plain!Uses(task, addr)' /\ addr' \notin todo'
        /\ \A a \in todo' : Plain!Uses(task, a)'
    BY <1>1 DEF Plain!PlaceInv
  <2>4. spc' = "link" => seen' \in Plain!Tasks /\ lastWriter'[addr'] \in {Plain!None, seen'}
    BY <1>7 DEF Plain!PlaceInv
  <2> QED
    BY <1>8, <2>1, <2>2, <2>3, <2>4 DEF Plain!PlaceInv
<1> QED
  BY <1>2, <1>9

-----------------------------------------------------------------------------
(* The steps of tasks that finish. *)

(* Steps of tasks that are over already, or end now: nobody is told or starts. *)
LEMMA FinishKept ==
  ASSUME Plain!Inductive, Plain!TypeOK',
         UNCHANGED <<acc, preds, succs, cpc, spc, task, todo, addr, seen>>,
         NEW t \in Plain!Tasks, t \notin WaitOns, \A v \in Plain!Tasks : v # t
           => stage'[v] = stage[v],
         stage[t] \notin {"unborn", "submitted"}, Plain!Over(t)',
         \A p \in Plain!Tasks : Plain!Outstanding(p)' = Plain!Outstanding(p),
         \A a \in Addresses : lastWriter'[a] = lastWriter[a]
           \/ (lastWriter[a] = t /\ lastWriter'[a] = Plain!None),
         \A a \in Addresses : lastWriter'[a] = t => stage'[t] \in {"ready", "ended", "writers"},
         \A a \in Addresses : readers'[a] \in {readers[a], readers[a] \ {t}},
         \A a \in Addresses : t \in readers'[a] => stage'[t] \notin {"unborn", "succs", "gone"}
  PROVE  Plain!Inductive'
<1> USE DEF Plain!Inductive
<1>1. /\ \A v \in Plain!Tasks : Plain!Over(v) => Plain!Over(v)'
      /\ \A v \in Plain!Tasks : Plain!Started(v)' <=> Plain!Started(v)
      /\ \A v \in Plain!Tasks : stage'[v] = "submitted" <=> stage[v] = "submitted"
      /\ \A v \in Plain!Tasks : stage'[v] = "unborn" <=> stage[v] = "unborn"
      /\ Plain!Started(t)
  BY DEF Plain!Over, Plain!Started
<1>2. /\ \A v, a : Plain!Entered(v, a)' <=> Plain!Entered(v, a)
      /\ \A v : Plain!BeingSubmitted(v)' <=> Plain!BeingSubmitted(v)
  BY SameEntries
<1>3. Plain!OrderInv' /\ Plain!CoverInv'
  BY <1>1, <1>2, OrderKept
<1>4. Plain!CountInv'
  <2>1. \A v \in Plain!Tasks : Plain!Tellers(v)' = Plain!Tellers(v)
    BY PlainNames DEF Plain!Tellers
  <2> QED
    BY <1>1, <1>2, <2>1, Counted, CountKept DEF Plain!CountInv
<1>5. Plain!EdgeInv'
  BY <1>1 DEF Plain!EdgeInv
<1>6. Plain!WriterInv' /\ Plain!ReaderInv' /\ Plain!LastInv'
  <2>1. ASSUME NEW a \in Addresses, lastWriter'[a] # Plain!None
        PROVE  /\ lastWriter'[a] = lastWriter[a]
               /\ stage'[lastWriter[a]] \in {"submitted", "ready", "ended", "writers"}
    BY <2>1 DEF Plain!WriterInv
  <2>2. ASSUME NEW a \in Addresses, NEW r \in readers'[a]
        PROVE  r \in readers[a] /\ r \in Plain!Tasks /\ stage'[r] \notin {"unborn", "succs", "gone"}
    <3>0. r \in readers[a]
      <4>1. readers'[a] = readers[a] \/ readers'[a] = readers[a] \ {t}
        OBVIOUS
      <4> QED
        BY <2>2, <4>1
    <3>1. r \in readers[a] /\ r \in Plain!Tasks /\ stage[r] \notin {"unborn", "succs", "gone"}
      BY <3>0 DEF Plain!ReaderInv, Plain!TypeOK
    <3>2. CASE r = t
      BY <2>2, <3>1, <3>2
    <3>3. CASE r # t
      BY <3>1, <3>3
    <3> QED
      BY <3>1, <3>2, <3>3
  <2>3. ASSUME NEW a \in Addresses, NEW r \in readers[a]
        PROVE  r \in readers'[a] \/ Plain!Over(r)'
    OBVIOUS
  <2>4. ASSUME NEW a \in Addresses, NEW w \in Plain!Tasks, Plain!Latest(w, a)
        PROVE  Plain!Latest(w, a)' \/ (Plain!Started(w) /\ Plain!Over(w)')
    BY <1>1, <2>4 DEF Plain!Latest
  <2> QED
    BY <1>1, <1>2, <2>1, <2>2, <2>3, <2>4, TrackingKept
<1>7. Plain!StageInv' /\ Plain!PlaceInv'
  <2>1. ASSUME spc = "readers", readers'[addr] = {}
        PROVE  readers[addr] = {} \/ Plain!WritersCovered
    <3>1. PICK a \in Addresses : a = addr
      BY DEF Plain!TypeOK
    <3>2. CASE t \in readers[a]
      <4>1. ASSUME NEW u \in Plain!Tasks, u < task, Plain!Writes(u, a)
                     PROVE Plain!Covered(u, task, a)
        <5>1. Plain!Entered(u, a)
          BY <4>1, PlainNames DEF Plain!Entered, Plain!Uses, Plain!Writes, Plain!TypeOK
        <5>2. u < t /\ Plain!Entered(t, a)
          BY <3>2, <4>1, <5>1 DEF Plain!ReaderInv
        <5>3. Plain!Before(u, t, a)
          BY <4>1, <5>1, <5>2, PlainNames DEF Plain!Before, Plain!Entered
        <5> QED
          BY <1>1, <5>3 DEF Plain!OrderInv, Plain!Covered
      <4> QED
        BY <3>1, <4>1 DEF Plain!WritersCovered
    <3>3. CASE t \notin readers[a]
      BY <2>1, <3>1, <3>3
    <3> QED
      BY <3>2, <3>3
  <2>2. \A v \in Plain!Tasks : v \in WaitOns => stage'[v] = stage[v]
    OBVIOUS
  <2>3. \A a \in Addresses : lastWriter'[a] \in {lastWriter[a], Plain!None}
    OBVIOUS
  <2> QED
    BY <1>1, <2>1, <2>2, <2>3, PlaceKept
<1> QED
  BY <1>3, <1>4, <1>5, <1>6, <1>7

(* A task that runs or finishes is no waitOn. *)
LEMMA NoWait ==
  ASSUME Plain!TypeOK, Plain!StageInv, NEW t \in Plain!Tasks,
         stage[t] \in {"ended", "writers", "readers", "succs"}
  PROVE  t \notin WaitOns
BY DEF Plain!StageInv

LEMMA RunStep ==
  ASSUME Plain!Inductive, NEW t \in Plain!Tasks, Plain!Run(t)
  PROVE  Plain!Inductive'
<1> USE DEF Plain!Inductive
<1>1. /\ stage[t] = "ready" /\ t \notin WaitOns /\ stage' = [stage EXCEPT ![t] = "ended"]
      /\ UNCHANGED <<acc, preds, succs, lastWriter, readers, cpc, pending, spc, task, todo, addr,
           seen>>
  BY DEF Plain!Run, Plain!tracked, Plain!submitter, Plain!closing
<1>2. stage'[t] = "ended" /\ \A v \in Plain!Tasks : v # t => stage'[v] = stage[v]
  BY <1>1 DEF Plain!TypeOK
<1>3. Plain!TypeOK'
  BY <1>1 DEF Plain!Run, Plain!tracked, Plain!submitter, Plain!closing, Plain!objects, Plain!TypeOK
<1>4. \A p \in Plain!Tasks : Plain!Outstanding(p)' = Plain!Outstanding(p)
  BY <1>1, <1>2, OutstandingOf
<1> QED
  BY <1>1, <1>2, <1>3, <1>4, FinishKept DEF Plain!Over, Plain!Started

(* The last writer that is cleared is over: those before it are, too. *)
LEMMA DeleteLastWriterStep ==
  ASSUME Plain!Inductive, NEW t \in Plain!Tasks, Plain!DeleteLastWriter(t)
  PROVE  Plain!Inductive'
<1> USE DEF Plain!Inductive
<1>1. /\ stage[t] \in {"ended", "writers"} /\ stage' = [stage EXCEPT ![t] = "readers"]
      /\ lastWriter' = [a \in Addresses |-> IF lastWriter[a] = t THEN Plain!None ELSE lastWriter[a]]
      /\ UNCHANGED <<acc, preds, succs, readers, cpc, pending, spc, task, todo, addr, seen>>
  BY DEF Plain!DeleteLastWriter, Plain!NoLongerWriter, Plain!submitter, Plain!closing
<1>2. stage'[t] = "readers" /\ \A v \in Plain!Tasks : v # t => stage'[v] = stage[v]
  BY <1>1 DEF Plain!TypeOK
<1>3. Plain!TypeOK'
  <2>1. lastWriter' \in [Addresses -> Plain!Objects \cup {Plain!None}]
    BY <1>1 DEF Plain!TypeOK
  <2>2. stage' \in [Plain!Tasks -> {"unborn", "submitted", "ready", "ended", "writers",
    "readers", "succs", "gone"}]
    BY <1>1 DEF Plain!TypeOK
  <2> QED
    BY <2>1, <2>2 DEF Plain!DeleteLastWriter, Plain!submitter, Plain!closing, Plain!objects,
         Plain!TypeOK
<1>4. \A p \in Plain!Tasks : Plain!Outstanding(p)' = Plain!Outstanding(p)
  BY <1>1, <1>2, OutstandingOf
<1>5. \A a \in Addresses : /\ lastWriter'[a] = lastWriter[a]
                                \/ (lastWriter[a] = t /\ lastWriter'[a] = Plain!None)
                      /\ lastWriter'[a] # t
  BY <1>1, PlainNames
<1>6. t \notin WaitOns
  BY <1>1, NoWait
<1> QED
  BY <1>1, <1>2, <1>3, <1>4, <1>5, <1>6, FinishKept DEF Plain!Over, Plain!Started

LEMMA DeleteReaderStep ==
  ASSUME Plain!Inductive, NEW t \in Plain!Tasks, Plain!DeleteReader(t)
  PROVE  Plain!Inductive'
<1> USE DEF Plain!Inductive
<1>1. PICK b \in Addresses : t \in readers[b] /\ readers' = [readers EXCEPT ![b] = @ \ {t}]
  BY DEF Plain!DeleteReader
<1>2. /\ stage[t] = "readers"
      /\ UNCHANGED <<acc, stage, preds, succs, lastWriter, cpc, pending, spc, task, todo, addr,
           seen>>
  BY DEF Plain!DeleteReader, Plain!submitter, Plain!closing
<1>3. Plain!TypeOK'
  <2>1. readers' \in [Addresses -> SUBSET Plain!Tasks]
    BY <1>1 DEF Plain!TypeOK
  <2> QED
    BY <2>1 DEF Plain!DeleteReader, Plain!submitter, Plain!closing, Plain!objects, Plain!TypeOK
<1>4. \A p \in Plain!Tasks : Plain!Outstanding(p)' = Plain!Outstanding(p)
  BY <1>2, OutstandingOf
<1>5. \A a \in Addresses : readers'[a] \in {readers[a], readers[a] \ {t}}
  BY <1>1 DEF Plain!TypeOK
<1>6. \A a \in Addresses : lastWriter'[a] # t
  BY <1>2, PlainNames DEF Plain!WriterInv
<1>7. t \notin WaitOns
  BY <1>2, NoWait
<1> QED
  BY <1>2, <1>3, <1>4, <1>5, <1>6, <1>7, FinishKept DEF Plain!Over, Plain!Started

LEMMA StartSuccessorsStep ==
  ASSUME Plain!Inductive, NEW t \in Plain!Tasks, Plain!StartSuccessors(t)
  PROVE  Plain!Inductive'
<1> USE DEF Plain!Inductive
<1>1. /\ stage[t] = "readers" /\ \A a \in Addresses : t \notin readers[a]
      /\ stage' = [stage EXCEPT ![t] = "succs"] /\ pending' = [pending EXCEPT ![t] = succs[t]]
      /\ UNCHANGED <<acc, preds, succs, lastWriter, readers, cpc, spc, task, todo, addr, seen>>
  BY DEF Plain!StartSuccessors, Plain!tracked, Plain!submitter, Plain!closing
<1>2. /\ stage'[t] = "succs" /\ \A v \in Plain!Tasks : v # t => stage'[v] = stage[v]
           /\ pending'[v] = pending[v]
      /\ pending'[t] = succs[t]
  BY <1>1 DEF Plain!TypeOK
<1>3. Plain!TypeOK'
  <2>1. pending' \in [Plain!Tasks -> SUBSET Plain!Objects]
    BY <1>1, PlainNames DEF Plain!TypeOK
  <2> QED
    BY <1>1, <2>1 DEF Plain!StartSuccessors, Plain!tracked, Plain!submitter, Plain!closing,
         Plain!objects, Plain!TypeOK
<1>4. \A p \in Plain!Tasks : Plain!Outstanding(p)' = Plain!Outstanding(p)
  BY <1>1, <1>2, OutstandingOf
<1>5. \A a \in Addresses : lastWriter'[a] # t
  BY <1>1, PlainNames DEF Plain!WriterInv
<1>6. t \notin WaitOns
  BY <1>1, NoWait
<1> QED
  BY <1>1, <1>2, <1>3, <1>4, <1>5, <1>6, FinishKept DEF Plain!Over, Plain!Started

LEMMA DeleteStep ==
  ASSUME Plain!Inductive, NEW t \in Plain!Tasks, Plain!Delete(t)
  PROVE  Plain!Inductive'
<1> USE DEF Plain!Inductive
<1>1. /\ stage[t] = "succs" /\ pending[t] = {} /\ stage' = [stage EXCEPT ![t] = "gone"]
      /\ UNCHANGED <<acc, preds, succs, lastWriter, readers, cpc, pending, spc, task, todo, addr,
           seen>>
  BY DEF Plain!Delete, Plain!tracked, Plain!submitter, Plain!closing
<1>2. stage'[t] = "gone" /\ \A v \in Plain!Tasks : v # t => stage'[v] = stage[v]
  BY <1>1 DEF Plain!TypeOK
<1>3. Plain!TypeOK'
  BY <1>1 DEF Plain!Delete, Plain!tracked, Plain!submitter, Plain!closing, Plain!objects,
       Plain!TypeOK
<1>4. \A p \in Plain!Tasks : Plain!Outstanding(p)' = Plain!Outstanding(p)
  BY <1>1, <1>2, OutstandingOf
<1>5. \A a \in Addresses : lastWriter'[a] # t /\ t \notin readers[a]
  BY <1>1, PlainNames DEF Plain!WriterInv, Plain!ReaderInv
<1>6. t \notin WaitOns
  BY <1>1, NoWait
<1> QED
  BY <1>1, <1>2, <1>3, <1>4, <1>5, <1>6, FinishKept DEF Plain!Over, Plain!Started

(* The last one to tell a task is the only one, and the task has been submitted. *)
LEMMA TellerCounts ==
  ASSUME Plain!TypeOK, Plain!CountInv, NEW t \in Plain!Tasks, stage[t] = "submitted",
         NEW q \in Plain!Tasks, t \in Plain!Outstanding(q)
  PROVE  /\ preds[t] - 1 \in Nat
         /\ Cardinality(Plain!Tellers(t) \ {q}) = Cardinality(Plain!Tellers(t)) - 1
         /\ preds[t] = 1 => ~Plain!BeingSubmitted(t)
              /\ \A p \in Plain!Tasks : t \in Plain!Outstanding(p) => p = q
<1>1. /\ IsFiniteSet(Plain!Tellers(t)) /\ Cardinality(Plain!Tellers(t)) \in Nat
      /\ Plain!Tellers(t) = {p \in Plain!Tasks : t \in Plain!Outstanding(p)}
      /\ preds[t] = Cardinality(Plain!Tellers(t)) + (IF Plain!BeingSubmitted(t) THEN 1 ELSE 0)
  BY Counted
<1>2. q \in Plain!Tellers(t)
  BY <1>1
<1>3. Cardinality(Plain!Tellers(t) \ {q}) = Cardinality(Plain!Tellers(t)) - 1
  BY <1>1, <1>2, FS_RemoveElement
<1>4. IsFiniteSet(Plain!Tellers(t) \ {q}) /\ Cardinality(Plain!Tellers(t) \ {q}) \in Nat
  BY <1>1, FS_Subset, FS_CardinalityType
<1>5. preds[t] - 1 \in Nat /\ (preds[t] = 1 => ~Plain!BeingSubmitted(t)
      /\ Cardinality(Plain!Tellers(t) \ {q}) = 0)
  BY <1>1, <1>3, <1>4
<1>6. Cardinality(Plain!Tellers(t) \ {q}) = 0 => Plain!Tellers(t) \ {q} = {}
  BY <1>4, FS_EmptySet
<1> QED
  BY <1>1, <1>3, <1>5, <1>6

(* A task that has been submitted has entered all its accesses. *)
LEMMA AllEntered ==
  ASSUME Plain!TypeOK, Plain!PlaceInv, NEW t \in Plain!Tasks, ~Plain!BeingSubmitted(t)
  PROVE  \A a \in Addresses : Plain!Uses(t, a) => Plain!Entered(t, a)
BY DEF Plain!PlaceInv, Plain!BeingSubmitted, Plain!Entered

(* One task, which is over, tells another, and may release it. *)
LEMMA ToldKept ==
  ASSUME Plain!Inductive, Plain!TypeOK',
         UNCHANGED <<acc, lastWriter, readers, cpc, spc, task, todo, addr, seen>>,
         NEW q \in Plain!Tasks, NEW t \in Plain!Tasks, Plain!Over(q), q \notin WaitOns,
           t \in Plain!Outstanding(q),
         Plain!Outstanding(q)' = Plain!Outstanding(q) \ {t},
         \A p \in Plain!Tasks : p # q => Plain!Outstanding(p)' = Plain!Outstanding(p),
         \A p \in Plain!Tasks : succs'[p] \subseteq succs[p],
         \A v \in Plain!Tasks : v # t /\ v # q => stage'[v] = stage[v],
         stage'[q] = stage[q] \/ (stage[q] = "ended" /\ stage'[q] = "writers"),
         \A v \in Plain!Tasks : v # t => preds'[v] = preds[v],
         IF preds[t] = 1 THEN stage'[t] = "ready" ELSE stage'[t] = "submitted"
           /\ preds'[t] = preds[t] - 1
  PROVE  Plain!Inductive'
<1> USE DEF Plain!Inductive
<1>1. stage[t] = "submitted" /\ q < t /\ q # t
  BY PlainNames DEF Plain!EdgeInv
<1>2. /\ preds[t] - 1 \in Nat
      /\ Cardinality(Plain!Tellers(t) \ {q}) = Cardinality(Plain!Tellers(t)) - 1
      /\ preds[t] = 1 => ~Plain!BeingSubmitted(t)
           /\ \A p \in Plain!Tasks : t \in Plain!Outstanding(p) => p = q
  BY <1>1, TellerCounts
<1>3. /\ \A v \in Plain!Tasks : v # t => (Plain!Started(v)' <=> Plain!Started(v))
           /\ (Plain!Over(v)' <=> Plain!Over(v))
      /\ \A v \in Plain!Tasks : v # t => (stage'[v] = "submitted" <=> stage[v] = "submitted")
      /\ \A v \in Plain!Tasks : stage'[v] = "unborn" <=> stage[v] = "unborn"
      /\ ~Plain!Over(t) /\ ~Plain!Started(t)
  BY <1>1 DEF Plain!Over, Plain!Started
<1>4. /\ \A v, a : Plain!Entered(v, a)' <=> Plain!Entered(v, a)
      /\ \A v : Plain!BeingSubmitted(v)' <=> Plain!BeingSubmitted(v)
  BY SameEntries
<1>5. \A p, v \in Plain!Tasks : v \in Plain!Outstanding(p) => v \in Plain!Outstanding(p)'
      \/ Plain!Over(p)
  <2> SUFFICES ASSUME NEW p \in Plain!Tasks, NEW v \in Plain!Tasks, v \in Plain!Outstanding(p),
                      p # q
               PROVE  v \in Plain!Outstanding(p)'
    OBVIOUS
  <2> QED
    OBVIOUS
<1>6. Plain!OrderInv' /\ Plain!CoverInv'
  <2>1. ASSUME NEW v \in Plain!Tasks, Plain!Started(v)', ~Plain!Started(v),
               NEW u \in Plain!Tasks, NEW a \in Addresses, Plain!Before(u, v, a)
        PROVE  Plain!Over(u)
    <3>1. v = t
      BY <1>3, <2>1
    <3>2. preds[t] = 1
      BY <2>1, <3>1 DEF Plain!Started
    <3>3. \A b \in Addresses : Plain!Uses(t, b) => Plain!Entered(t, b)
      BY <1>2, <3>2, AllEntered
    <3> QED
      BY <1>1, <1>2, <2>1, <3>1, <3>2, <3>3, Released
  <2>2. \A v \in Plain!Tasks : Plain!Over(v) => Plain!Over(v)'
    BY <1>3
  <2>3. \A v \in Plain!Tasks : stage'[v] = "submitted" => stage[v] = "submitted"
    BY <1>1, <1>3
  <2> QED
    BY <1>4, <1>5, <2>1, <2>2, <2>3, OrderKept
<1>7. Plain!CountInv'
  <2>1. ASSUME NEW v \in Plain!Tasks, stage'[v] = "submitted"
        PROVE  preds'[v] = Cardinality(Plain!Tellers(v)') + (IF Plain!BeingSubmitted(v)' THEN 1 ELSE 0)
    <3>1. stage[v] = "submitted"
      BY <1>1, <1>3, <2>1
    <3>2. preds[v] = Cardinality(Plain!Tellers(v)) + (IF Plain!BeingSubmitted(v) THEN 1 ELSE 0)
      /\ Cardinality(Plain!Tellers(v)) \in Nat
      BY <3>1, Counted
    <3>3. CASE v # t
      <4>1. \A p \in Plain!Tasks : v \in Plain!Outstanding(p)' <=> v \in Plain!Outstanding(p)
        BY <3>3
      <4>2. Plain!Tellers(v)' = Plain!Tellers(v)
        BY <4>1, PlainNames DEF Plain!Tellers
      <4> QED
        BY <1>4, <3>2, <3>3, <4>2
    <3>4. CASE v = t
      <4>1. \A p \in Plain!Tasks : t \in Plain!Outstanding(p)' <=> t \in Plain!Outstanding(p)
        /\ p # q
        OBVIOUS
      <4>2. Plain!Tellers(t)' = Plain!Tellers(t) \ {q}
        BY <4>1, PlainNames DEF Plain!Tellers
      <4>3. preds'[t] = preds[t] - 1
        BY <2>1, <3>4
      <4> QED
        BY <1>2, <1>4, <3>2, <3>4, <4>2, <4>3
    <3> QED
      BY <3>3, <3>4
  <2>2. \A v \in Plain!Tasks : stage'[v] = "unborn" => preds'[v] = 0
    BY <1>1, <1>3 DEF Plain!CountInv
  <2> QED
    BY <2>1, <2>2, CountKept
<1>8. Plain!EdgeInv'
  <2> SUFFICES ASSUME NEW p \in Plain!Tasks
               PROVE  /\ \A v \in Plain!Outstanding(p)' : v \in Plain!Tasks /\ p < v
                           /\ stage'[v] = "submitted"
                      /\ p \in WaitOns => succs'[p] = {}
    BY DEF Plain!EdgeInv
  <2>1. ASSUME NEW v \in Plain!Outstanding(p)'
                 PROVE v \in Plain!Tasks /\ p < v /\ stage'[v] = "submitted"
    <3>1. v \in Plain!Outstanding(p) /\ ~(p = q /\ v = t)
      OBVIOUS
    <3>2. v \in Plain!Tasks /\ p < v /\ stage[v] = "submitted"
      BY <3>1 DEF Plain!EdgeInv
    <3>3. v = t => preds[t] # 1
      BY <1>2, <3>1
    <3> QED
      BY <1>3, <3>2, <3>3
  <2>2. p \in WaitOns => succs'[p] = {}
    BY DEF Plain!EdgeInv
  <2> QED
    BY <2>1, <2>2
<1>9. /\ \A v \in Plain!Tasks : v \in WaitOns => stage'[v] = stage[v]
           \/ (stage[v] = "submitted" /\ stage'[v] = "ready")
      /\ \A v \in Plain!Tasks : Plain!BeingSubmitted(v) /\ stage[v] = "submitted"
           => stage'[v] = "submitted"
      /\ \A v \in Plain!Tasks : stage[v] \in {"submitted", "ready", "ended", "writers"}
                          => stage'[v] \in {"submitted", "ready", "ended", "writers"}
      /\ \A v \in Plain!Tasks : stage[v] \notin {"succs", "gone"}
           => stage'[v] \notin {"succs", "gone"}
  <2>1. stage'[t] \in {"submitted", "ready"} /\ (Plain!BeingSubmitted(t) => stage'[t] = "submitted")
    BY <1>2
  <2>2. stage'[q] \notin {"submitted", "unborn"}
    BY DEF Plain!Over, Plain!Started
  <2> QED
    BY <1>1, <1>3, <2>1, <2>2
<1>10. Plain!WriterInv' /\ Plain!ReaderInv' /\ Plain!LastInv'
  <2>1. ASSUME NEW a \in Addresses, lastWriter'[a] # Plain!None
        PROVE  /\ lastWriter'[a] = lastWriter[a]
               /\ stage'[lastWriter[a]] \in {"submitted", "ready", "ended", "writers"}
    BY <1>9, <2>1 DEF Plain!WriterInv
  <2>2. ASSUME NEW a \in Addresses, NEW r \in readers'[a]
        PROVE  r \in readers[a] /\ r \in Plain!Tasks /\ stage'[r] \notin {"unborn", "succs", "gone"}
    BY <1>3, <1>9, <2>2 DEF Plain!ReaderInv, Plain!TypeOK
  <2>3. ASSUME NEW a \in Addresses, NEW w \in Plain!Tasks, Plain!Latest(w, a)
        PROVE  Plain!Latest(w, a)'
    BY <1>9, <2>3 DEF Plain!Latest
  <2>4. \A v \in Plain!Tasks : Plain!Over(v) => Plain!Over(v)'
    BY <1>3
  <2>5. \A a \in Addresses : readers'[a] = readers[a]
    OBVIOUS
  <2> QED
    BY <1>4, <2>1, <2>2, <2>3, <2>4, <2>5, TrackingKept
<1>11. Plain!StageInv' /\ Plain!PlaceInv'
  <2>1. \A v \in Plain!Tasks : Plain!Over(v) => Plain!Over(v)'
    BY <1>3
  <2>2. \A a \in Addresses : lastWriter'[a] \in {lastWriter[a], Plain!None}
    OBVIOUS
  <2>3. readers' = readers
    OBVIOUS
  <2> QED
    BY <1>3, <1>5, <1>9, <2>1, <2>2, <2>3, PlaceKept
<1> QED
  BY <1>6, <1>7, <1>8, <1>10, <1>11

(* The immediate successor is released without being told. *)
LEMMA ReleaseImmediateSuccessorStep ==
  ASSUME Plain!Inductive, NEW t \in Plain!Tasks, Plain!ReleaseImmediateSuccessor(t)
  PROVE  Plain!Inductive'
<1> USE DEF Plain!Inductive
<1>1. PICK u \in (succs[t] \cap Plain!Tasks) \ WaitOns :
        /\ preds[u] = 1
        /\ succs' = [succs EXCEPT ![t] = @ \ {u}]
        /\ stage' = [stage EXCEPT ![t] = "writers", ![u] = "ready"]
  BY DEF Plain!ReleaseImmediateSuccessor
<1>2. /\ stage[t] = "ended"
      /\ UNCHANGED <<acc, preds, lastWriter, readers, cpc, pending, spc, task, todo, addr, seen>>
  BY DEF Plain!ReleaseImmediateSuccessor, Plain!tracked, Plain!submitter, Plain!closing
<1>3. u \in Plain!Outstanding(t) /\ Plain!Over(t)
  BY <1>1, <1>2, OutstandingOf DEF Plain!Over, Plain!Started
<1>4. u # t
  BY <1>3, PlainNames DEF Plain!EdgeInv
<1>5. /\ stage'[t] = "writers" /\ stage'[u] = "ready"
      /\ \A v \in Plain!Tasks : v # t /\ v # u => stage'[v] = stage[v]
      /\ succs'[t] = succs[t] \ {u} /\ \A p \in Plain!Tasks : p # t => succs'[p] = succs[p]
  BY <1>1, <1>4, PlainNames DEF Plain!TypeOK
<1>6. Plain!TypeOK'
  <2>1. succs' \in [Plain!Objects -> SUBSET Plain!Objects]
    <3>1. succs[t] \ {u} \in SUBSET Plain!Objects
      BY PlainNames DEF Plain!TypeOK
    <3> QED
      BY <1>1, <3>1 DEF Plain!TypeOK
  <2>2. stage' \in [Plain!Tasks -> {"unborn", "submitted", "ready", "ended", "writers",
    "readers", "succs", "gone"}]
    BY <1>1 DEF Plain!TypeOK
  <2> QED
    BY <1>2, <2>1, <2>2 DEF Plain!ReleaseImmediateSuccessor, Plain!tracked, Plain!submitter,
         Plain!closing, Plain!objects, Plain!TypeOK
<1>7. /\ Plain!Outstanding(t)' = Plain!Outstanding(t) \ {u}
      /\ \A p \in Plain!Tasks : p # t => Plain!Outstanding(p)' = Plain!Outstanding(p)
  <2>1. Plain!Outstanding(t)' = Plain!Outstanding(t) \ {u}
    BY <1>2, <1>5, OutstandingOf
  <2>2. ASSUME NEW p \in Plain!Tasks, p # t PROVE Plain!Outstanding(p)' = Plain!Outstanding(p)
    <3>1. CASE p = u
      <4>1. stage[u] = "submitted"
        BY <1>3 DEF Plain!EdgeInv
      <4> QED
        BY <1>2, <1>5, <2>2, <3>1, <4>1, OutstandingOf
    <3>2. CASE p # u
      BY <1>2, <1>5, <2>2, <3>2, OutstandingOf
    <3> QED
      BY <3>1, <3>2
  <2> QED
    BY <2>1, <2>2
<1>8. t \notin WaitOns
  BY <1>2, NoWait
<1> QED
  BY <1>1, <1>2, <1>3, <1>5, <1>6, <1>7, <1>8, ToldKept

LEMMA SuccessorStep ==
  ASSUME Plain!Inductive, NEW t \in Plain!Tasks, Plain!Successor(t)
  PROVE  Plain!Inductive'
<1> USE DEF Plain!Inductive
<1>1. PICK o \in pending[t] : Plain!Decrease(o, t) /\ pending' = [pending EXCEPT ![t] = @ \ {o}]
  BY DEF Plain!Successor
<1>2. /\ stage[t] = "succs"
      /\ UNCHANGED <<acc, succs, lastWriter, readers, spc, task, todo, addr, seen>>
  BY DEF Plain!Successor, Plain!tracked, Plain!submitter
<1>3. o \in Plain!Outstanding(t) /\ Plain!Over(t)
  BY <1>2, OutstandingOf DEF Plain!Over, Plain!Started
<1>4. o \in Plain!Tasks /\ o # t /\ stage[o] = "submitted" /\ t \in Plain!Runners
  BY <1>3, PlainNames DEF Plain!EdgeInv
<1>5. /\ preds' = [preds EXCEPT ![o] = @ - 1] /\ cpc' = cpc /\ in' = in
      /\ stage' = IF preds[o] = 1 THEN [stage EXCEPT ![o] = "ready"] ELSE stage
  BY <1>1, <1>4, DecreaseOf
<1>6. preds[o] - 1 \in Nat
  BY <1>3, <1>4, TellerCounts
<1>7. /\ \A v \in Plain!Tasks : v # o => stage'[v] = stage[v] /\ preds'[v] = preds[v]
      /\ IF preds[o] = 1 THEN stage'[o] = "ready" ELSE stage'[o] = "submitted"
           /\ preds'[o] = preds[o] - 1
      /\ pending'[t] = pending[t] \ {o} /\ \A p \in Plain!Tasks : p # t => pending'[p] = pending[p]
  BY <1>1, <1>4, <1>5, PlainNames DEF Plain!TypeOK
<1>8. Plain!TypeOK'
  <2>1. preds' \in [Plain!Objects -> Nat]
    BY <1>5, <1>6 DEF Plain!TypeOK
  <2>2. stage' \in [Plain!Tasks -> {"unborn", "submitted", "ready", "ended", "writers",
    "readers", "succs", "gone"}]
    BY <1>5 DEF Plain!TypeOK
  <2>3. pending' \in [Plain!Tasks -> SUBSET Plain!Objects]
    BY <1>1 DEF Plain!TypeOK
  <2> QED
    BY <1>5, <2>1, <2>2, <2>3 DEF Plain!Successor, Plain!tracked, Plain!submitter, Plain!objects,
         Plain!TypeOK
<1>9. /\ Plain!Outstanding(t)' = Plain!Outstanding(t) \ {o}
      /\ \A p \in Plain!Tasks : p # t => Plain!Outstanding(p)' = Plain!Outstanding(p)
  <2>1. stage'[t] = "succs"
    BY <1>2, <1>4, <1>7
  <2>2. Plain!Outstanding(t)' = Plain!Outstanding(t) \ {o}
    BY <1>2, <1>7, <2>1, OutstandingOf
  <2>3. ASSUME NEW p \in Plain!Tasks, p # t PROVE Plain!Outstanding(p)' = Plain!Outstanding(p)
    <3>1. stage'[p] = stage[p] \/ (stage[p] = "submitted" /\ stage'[p] = "ready")
      BY <1>4, <1>7
    <3> QED
      BY <1>2, <1>7, <2>3, <3>1, OutstandingOf
  <2> QED
    BY <2>2, <2>3
<1>10. t \notin WaitOns /\ stage'[t] = stage[t]
  BY <1>2, <1>4, <1>7, NoWait
<1> QED
  BY <1>2, <1>3, <1>4, <1>5, <1>7, <1>8, <1>9, <1>10, ToldKept

-----------------------------------------------------------------------------
(* The steps of the submitter. *)

(* A reader has to wait for whom the writers before it have to wait for. *)
LEMMA ReaderCovered ==
  ASSUME Plain!OrderInv', NEW t \in Plain!Tasks, NEW a \in Addresses, ~Plain!Writes(t, a)',
         \A x \in Plain!Tasks : x < t /\ Plain!Writes(x, a)' => Plain!Covered(x, t, a)'
  PROVE  \A u \in Plain!Tasks : Plain!Before(u, t, a)' => Plain!Covered(u, t, a)'
<1> SUFFICES ASSUME NEW u \in Plain!Tasks, Plain!Before(u, t, a)', ~Plain!Over(u)'
             PROVE  Plain!Covered(u, t, a)'
  BY DEF Plain!Covered
<1>1. PICK x \in Plain!Tasks : u <= x /\ x <= t /\ Plain!Writes(x, a)'
  BY DEF Plain!Before
<1>2. x # t /\ x < t
  BY <1>1, PlainNames
<1>3. x = u \/ Plain!Before(u, x, a)'
  BY <1>1, <1>2, PlainNames DEF Plain!Before, Plain!Uses, Plain!Writes
<1>4. ~Plain!Over(x)'
  BY <1>3 DEF Plain!OrderInv, Plain!Over
<1>5. PICK w \in Plain!Tasks : (w = x \/ Plain!Before(x, w, a)') /\ t \in Plain!Outstanding(w)'
  BY <1>1, <1>2, <1>4 DEF Plain!Covered
<1>6. w = u \/ Plain!Before(u, w, a)'
  <2>1. CASE w = x
    BY <1>3, <2>1
  <2>2. CASE w # x
    <3>1. x < w /\ Plain!Uses(w, a)' /\ u < w /\ x <= w /\ Plain!Uses(u, a)'
      BY <1>1, <1>5, <2>2, PlainNames DEF Plain!Before
    <3> QED
      BY <1>1, <3>1 DEF Plain!Before
  <2> QED
    BY <2>1, <2>2
<1> QED
  BY <1>5, <1>6 DEF Plain!Covered

(* The submitter makes its task a successor of some that have not told theirs yet: each edge
   is counted once. *)
LEMMA EdgesAdded ==
  ASSUME Plain!Inductive, NEW S \in SUBSET Plain!Tasks, UNCHANGED <<stage, pending, task>>,
         spc \notin {"next", "wait"}, spc' \notin {"next", "wait"},
         \A p \in S : p < task /\ p \notin WaitOns /\ stage[p] \notin {"succs", "gone"},
         succs' = [p \in Plain!Objects |-> IF p \in S THEN succs[p] \cup {task} ELSE succs[p]],
         preds' = [preds EXCEPT ![task] = @ + Cardinality({p \in S : task \notin succs[p]})]
  PROVE  /\ Plain!EdgeInv' /\ Plain!CountInv'
         /\ \A p \in Plain!Tasks : Plain!Outstanding(p) \subseteq Plain!Outstanding(p)'
         /\ \A p \in S : task \in Plain!Outstanding(p)'
         /\ preds' \in [Plain!Objects -> Nat] /\ succs' \in [Plain!Objects -> SUBSET Plain!Objects]
<1> USE DEF Plain!Inductive
<1>1. PICK t \in Plain!Tasks : t = task /\ stage[t] = "submitted" /\ t = task'
  BY DEF Plain!PlaceInv
<1>2. \A p \in Plain!Tasks : Plain!Outstanding(p)' = IF p \in S THEN Plain!Outstanding(p) \cup {t} ELSE Plain!Outstanding(p)
  BY <1>1, PlainNames, OutstandingOf
<1>3. Plain!EdgeInv'
  <2> SUFFICES ASSUME NEW p \in Plain!Tasks
               PROVE  /\ \A v \in Plain!Outstanding(p)' : v \in Plain!Tasks /\ p < v
                           /\ stage'[v] = "submitted"
                      /\ p \in WaitOns => succs'[p] = {}
    BY DEF Plain!EdgeInv
  <2>1. \A v \in Plain!Outstanding(p)' : v \in Plain!Tasks /\ p < v /\ stage'[v] = "submitted"
    BY <1>1, <1>2 DEF Plain!EdgeInv
  <2>2. p \in WaitOns => succs'[p] = {}
    BY PlainNames DEF Plain!EdgeInv
  <2> QED
    BY <2>1, <2>2
<1>4. /\ IsFiniteSet(Plain!Tellers(t)) /\ Cardinality(Plain!Tellers(t)) \in Nat
      /\ Plain!Tellers(t) = {p \in Plain!Tasks : t \in Plain!Outstanding(p)}
      /\ preds[t] = Cardinality(Plain!Tellers(t)) + 1
  BY <1>1, Counted DEF Plain!BeingSubmitted
<1>5. PICK new : new = {p \in S : t \notin succs[p]}
  OBVIOUS
<1>6. IsFiniteSet(new) /\ Cardinality(new) \in Nat
  BY <1>5, PlainNames, FS_Subset, FS_CardinalityType
<1>7. Plain!Tellers(t)' = Plain!Tellers(t) \cup new /\ Plain!Tellers(t) \cap new = {}
  <2>1. \A p \in S : Plain!Outstanding(p) = succs[p]
    BY OutstandingOf
  <2>2. Plain!Tellers(t)' = {p \in Plain!Tasks : t \in Plain!Outstanding(p)'}
    BY PlainNames DEF Plain!Tellers
  <2>3. ASSUME NEW p \in Plain!Tasks PROVE t \in Plain!Outstanding(p)' <=> (t \in Plain!Outstanding(p) \/ p \in new)
    BY <1>2, <1>5, <2>1
  <2>4. ASSUME NEW p \in new PROVE p \notin Plain!Tellers(t)
    BY <1>4, <1>5, <2>1
  <2>5. new \subseteq Plain!Tasks
    BY <1>5
  <2> QED
    BY <1>4, <2>2, <2>3, <2>4, <2>5
<1>8. Cardinality(Plain!Tellers(t)') = Cardinality(Plain!Tellers(t)) + Cardinality(new)
  <2>1. Cardinality(Plain!Tellers(t) \cup new) = Cardinality(Plain!Tellers(t)) + Cardinality(new) - Cardinality(Plain!Tellers(t) \cap new)
    BY <1>4, <1>6, FS_Union
  <2>2. Cardinality({}) = 0
    BY FS_EmptySet
  <2>3. Cardinality(Plain!Tellers(t) \cap new) = 0
    /\ Cardinality(Plain!Tellers(t)') = Cardinality(Plain!Tellers(t) \cup new)
    BY <1>7, <2>2
  <2> QED
    BY <1>4, <1>6, <2>1, <2>3
<1>9. preds' = [preds EXCEPT ![t] = @ + Cardinality(new)]
  BY <1>1, <1>5
<1>10. preds' \in [Plain!Objects -> Nat] /\ succs' \in [Plain!Objects -> SUBSET Plain!Objects]
  <2>1. preds' \in [Plain!Objects -> Nat]
    <3>1. t \in Plain!Objects /\ preds[t] + Cardinality(new) \in Nat
      BY <1>6, PlainNames DEF Plain!TypeOK
    <3> QED
      BY <1>9, <3>1 DEF Plain!TypeOK
  <2>2. succs' \in [Plain!Objects -> SUBSET Plain!Objects]
    BY <1>1, PlainNames DEF Plain!TypeOK
  <2> QED
    BY <2>1, <2>2
<1>11. Plain!CountInv'
  <2>1. ASSUME NEW v \in Plain!Tasks, stage'[v] = "submitted"
        PROVE  preds'[v] = Cardinality(Plain!Tellers(v)') + (IF Plain!BeingSubmitted(v)' THEN 1 ELSE 0)
    <3>1. stage[v] = "submitted"
      BY <2>1
    <3>2. preds[v] = Cardinality(Plain!Tellers(v)) + (IF Plain!BeingSubmitted(v) THEN 1 ELSE 0)
      BY <3>1, Counted
    <3>3. Plain!BeingSubmitted(v)' <=> v = t
      BY <1>1 DEF Plain!BeingSubmitted
    <3>4. CASE v # t
      <4>1. Plain!Tellers(v)' = Plain!Tellers(v)
        <5>1. \A p \in Plain!Tasks : v \in Plain!Outstanding(p)' <=> v \in Plain!Outstanding(p)
          BY <1>2, <3>4
        <5> QED
          BY <5>1, PlainNames DEF Plain!Tellers
      <4>2. preds'[v] = preds[v] /\ ~Plain!BeingSubmitted(v)
        BY <1>1, <1>9, <3>4, PlainNames DEF Plain!BeingSubmitted, Plain!TypeOK
      <4> QED
        BY <3>2, <3>3, <3>4, <4>1, <4>2
    <3>5. CASE v = t
      <4>1. preds'[t] = preds[t] + Cardinality(new)
        BY <1>9, PlainNames DEF Plain!TypeOK
      <4> QED
        BY <1>4, <1>6, <1>8, <3>3, <3>5, <4>1
    <3> QED
      BY <3>4, <3>5
  <2>2. ASSUME NEW v \in Plain!Tasks, stage'[v] = "unborn" PROVE preds'[v] = 0
    BY <1>1, <1>9, <2>2, PlainNames DEF Plain!CountInv, Plain!TypeOK
  <2> QED
    BY <2>1, <2>2, CountKept
<1> QED
  BY <1>1, <1>2, <1>3, <1>10, <1>11

(* Nothing is added. *)
LEMMA EdgesKept ==
  ASSUME Plain!Inductive, UNCHANGED <<stage, pending, task, succs, preds>>,
         spc \notin {"next", "wait"}, spc' \notin {"next", "wait"}
  PROVE  /\ Plain!EdgeInv' /\ Plain!CountInv'
         /\ \A p \in Plain!Tasks : Plain!Outstanding(p)' = Plain!Outstanding(p)
<1> USE DEF Plain!Inductive
<1>1. \A p \in Plain!Tasks : Plain!Outstanding(p)' = Plain!Outstanding(p)
  BY OutstandingOf
<1>2. Plain!EdgeInv'
  BY <1>1 DEF Plain!EdgeInv
<1>3. \A v \in Plain!Tasks : (Plain!BeingSubmitted(v)' <=> Plain!BeingSubmitted(v))
      /\ Plain!Tellers(v)' = Plain!Tellers(v)
  BY <1>1, PlainNames DEF Plain!BeingSubmitted, Plain!Tellers
<1>4. Plain!CountInv'
  BY <1>3, Counted, CountKept DEF Plain!CountInv
<1> QED
  BY <1>1, <1>2, <1>4

(* The steps that ask for predecessors within an access. *)
LEMMA AskKept ==
  ASSUME Plain!Inductive, Plain!TypeOK', Plain!EdgeInv', Plain!CountInv', Plain!PlaceInv',
         UNCHANGED <<acc, stage, lastWriter, readers, task>>,
         spc \notin {"next", "wait"}, spc' \notin {"next", "wait"},
         \A p \in Plain!Tasks : Plain!Outstanding(p) \subseteq Plain!Outstanding(p)',
         \A t \in Plain!Tasks : \A a \in Addresses : Plain!Entered(t, a) => Plain!Entered(t, a)',
         \A t \in Plain!Tasks : \A a \in Addresses : Plain!Entered(t, a)' =>
            \/ Plain!Entered(t, a)
            \/ t \in WaitOns /\ ~Plain!Writes(t, a)
                 /\ \A u \in Plain!Tasks : Plain!Before(u, t, a) => Plain!Covered(u, t, a)'
  PROVE  Plain!Inductive'
<1> USE DEF Plain!Inductive
<1>1. \A v \in Plain!Tasks : (Plain!Over(v)' <=> Plain!Over(v))
      /\ (Plain!Started(v)' <=> Plain!Started(v))
  BY DEF Plain!Over, Plain!Started
<1>2. Plain!OrderInv' /\ Plain!CoverInv'
  BY <1>1, OrderKept
<1>3. Plain!WriterInv' /\ Plain!ReaderInv' /\ Plain!LastInv'
  <2>1. \A a \in Addresses : lastWriter[a] # Plain!None
    => stage[lastWriter[a]] \in {"submitted", "ready", "ended", "writers"}
    BY DEF Plain!WriterInv
  <2>2. \A a \in Addresses : \A r \in readers[a] : r \in Plain!Tasks
    /\ stage[r] \notin {"unborn", "succs", "gone"}
    BY DEF Plain!ReaderInv, Plain!TypeOK
  <2>3. \A a, w : Plain!Latest(w, a)' <=> Plain!Latest(w, a)
    BY DEF Plain!Latest
  <2> QED
    BY <1>1, <2>1, <2>2, <2>3, TrackingKept
<1>4. Plain!StageInv'
  BY SameOrder DEF Plain!StageInv
<1> QED
  BY <1>2, <1>3, <1>4

(* What an access is. *)
LEMMA AccessKinds ==
  ASSUME Plain!TypeOK, NEW t \in Plain!Tasks, NEW a \in Addresses
  PROVE  acc[t][a] \in {"none", "in", "out", "inout"}
<1>1. acc \in [Plain!Tasks -> [Addresses -> Accesses \cup {"none"}]]
  BY DEF Plain!TypeOK
<1>2. acc[t][a] \in Accesses \cup {"none"}
  BY <1>1
<1> QED
  BY <1>2, PlainAssumption

(* The places of the submitter within an access. *)
LEMMA PlainAccess ==
  ASSUME Plain!Inductive, spc \notin {"next", "wait", "access"}
  PROVE  /\ task \in Plain!Tasks /\ addr \in Addresses /\ stage[task] = "submitted"
         /\ Plain!Access \in {"in", "out", "inout"} /\ Plain!Uses(task, addr) /\ addr \notin todo
         /\ Plain!Writes(task, addr) <=> Plain!Access # "in"
         /\ ~Plain!Entered(task, addr)
<1>1. task \in Plain!Tasks /\ addr \in Addresses /\ stage[task] = "submitted"
      /\ Plain!Uses(task, addr) /\ addr \notin todo
  BY DEF Plain!Inductive, Plain!PlaceInv, Plain!TypeOK
<1>2. Plain!Access \in {"in", "out", "inout"}
  BY <1>1, AccessKinds DEF Plain!Inductive, Plain!Access, Plain!Uses
<1> QED
  BY <1>1, <1>2 DEF Plain!Access, Plain!Writes, Plain!Entered

LEMMA SubmitAccessStep ==
  ASSUME Plain!Inductive, Plain!SubmitAccess
  PROVE  Plain!Inductive'
<1> USE DEF Plain!Inductive
<1>1. PICK a \in todo :
        /\ addr' = a /\ todo' = todo \ {a}
        /\ spc' = IF acc[task][a] \in Plain!Shared THEN "initial" ELSE "finalize"
  BY DEF Plain!SubmitAccess, Plain!Goto
<1>2. /\ spc = "access" /\ task \in Plain!Tasks /\ a \in Addresses /\ stage[task] = "submitted"
           /\ Plain!Uses(task, a)
      /\ UNCHANGED <<acc, stage, preds, succs, lastWriter, readers, pending, task, seen, cpc>>
  BY DEF Plain!SubmitAccess, Plain!tracked, Plain!closing, Plain!PlaceInv, Plain!TypeOK
<1>3. acc[task][a] \in {"in", "out", "inout"}
  BY <1>2, AccessKinds DEF Plain!Uses
<1>4. spc' = "finalize"
  BY <1>1, <1>3 DEF Plain!Shared
<1>5. Plain!TypeOK'
  <2>1. addr' \in Addresses /\ todo' \subseteq Addresses /\ spc' \in Plain!Places
    BY <1>1, <1>2, <1>4 DEF Plain!TypeOK, Plain!Places
  <2> QED
    BY <2>1 DEF Plain!SubmitAccess, Plain!tracked, Plain!objects, Plain!closing, Plain!TypeOK
<1>6. Plain!EdgeInv' /\ Plain!CountInv' /\ \A p \in Plain!Tasks :
      Plain!Outstanding(p)' = Plain!Outstanding(p)
  BY <1>2, <1>4, EdgesKept
<1>7. \A t \in Plain!Tasks : \A b \in Addresses : Plain!Entered(t, b)' <=> Plain!Entered(t, b)
  BY <1>1, <1>2, <1>4 DEF Plain!Entered, Plain!Uses
<1>8. Plain!PlaceInv'
  BY <1>1, <1>2, <1>4 DEF Plain!PlaceInv, Plain!PlainPlaces, Plain!Uses
<1> QED
  BY <1>2, <1>4, <1>5, <1>6, <1>7, <1>8, AskKept

LEMMA FinalizeStep ==
  ASSUME Plain!Inductive, Plain!Finalize
  PROVE  Plain!Inductive'
<1> USE DEF Plain!Inductive
<1>1. /\ spc = "finalize"
      /\ UNCHANGED <<acc, stage, preds, succs, lastWriter, readers, pending, task, todo, addr,
           seen, cpc>>
  BY DEF Plain!Finalize, Plain!closing
<1>2. /\ task \in Plain!Tasks /\ addr \in Addresses /\ stage[task] = "submitted"
           /\ Plain!Access \in {"in", "out", "inout"}
      /\ Plain!Uses(task, addr) /\ addr \notin todo
  BY <1>1, PlainAccess
<1>3. commDO[addr] = Plain!None
  BY <1>2, PlainNames DEF Plain!TypeOK
<1>4. spc' = (IF Plain!Access = "out" THEN "versions" ELSE "look")
  BY <1>2, <1>3 DEF Plain!Finalize, Plain!Goto, Plain!AfterFinalize, Plain!Shared
<1>5. Plain!TypeOK'
  <2>1. comm' \in Plain!Comms \cup {Plain!None}
    /\ commDO' \in [Addresses -> Plain!Comms \cup {Plain!None}] /\ spc' \in Plain!Places
    BY <1>2, <1>3, <1>4 DEF Plain!Finalize, Plain!TypeOK, Plain!Places
  <2> QED
    BY <2>1 DEF Plain!Finalize, Plain!objects, Plain!closing, Plain!TypeOK
<1>6. Plain!EdgeInv' /\ Plain!CountInv' /\ \A p \in Plain!Tasks :
      Plain!Outstanding(p)' = Plain!Outstanding(p)
  BY <1>1, <1>4, EdgesKept
<1>7. \A t \in Plain!Tasks : \A b \in Addresses : Plain!Entered(t, b)' <=> Plain!Entered(t, b)
  BY <1>1, <1>4 DEF Plain!Entered, Plain!Uses
<1>8. Plain!PlaceInv'
  BY <1>1, <1>2, <1>4 DEF Plain!PlaceInv, Plain!PlainPlaces, Plain!Uses, Plain!Access
<1> QED
  BY <1>1, <1>4, <1>5, <1>6, <1>7, <1>8, AskKept

LEMMA VersionsStep ==
  ASSUME Plain!Inductive, Plain!Versions
  PROVE  Plain!Inductive'
<1> USE DEF Plain!Inductive
<1>1. /\ spc = "versions" /\ Plain!Access = "out"
      /\ spc' = (IF readers[addr] = {} THEN "look" ELSE "readers")
      /\ UNCHANGED <<acc, stage, preds, succs, lastWriter, readers, pending, task, todo, addr,
           seen, cpc>>
  BY DEF Plain!Versions, Plain!Goto, Plain!tracked, Plain!closing, Plain!PlaceInv
<1>2. /\ task \in Plain!Tasks /\ addr \in Addresses /\ stage[task] = "submitted"
           /\ Plain!Uses(task, addr) /\ addr \notin todo
      /\ Plain!Writes(task, addr)
  BY <1>1, PlainAccess
<1>3. Plain!TypeOK'
  BY <1>1 DEF Plain!Versions, Plain!Places, Plain!tracked, Plain!objects, Plain!closing,
       Plain!TypeOK
<1>4. Plain!EdgeInv' /\ Plain!CountInv' /\ \A p \in Plain!Tasks :
      Plain!Outstanding(p)' = Plain!Outstanding(p)
  BY <1>1, EdgesKept
<1>5. \A t \in Plain!Tasks : \A b \in Addresses : Plain!Entered(t, b)' <=> Plain!Entered(t, b)
  BY <1>1 DEF Plain!Entered, Plain!Uses
<1>6. Plain!PlaceInv'
  <2>1. /\ spc' \in Plain!PlainPlaces /\ spc' \in {"look", "readers"}
        /\ spc' = "readers" => readers[addr] # {}
    BY <1>1 DEF Plain!PlainPlaces
  <2>2. Plain!Writes(task, addr)' /\ Plain!Uses(task, addr)'
    /\ \A a \in todo' : Plain!Uses(task, a)'
    BY <1>1, <1>2 DEF Plain!PlaceInv, Plain!Writes, Plain!Uses
  <2> QED
    BY <1>1, <1>2, <2>1, <2>2 DEF Plain!PlaceInv
<1> QED
  BY <1>1, <1>3, <1>4, <1>5, <1>6, AskKept

(* Before the submitter has asked, an earlier writer is over or the last writer is behind it. *)
LEMMA Asked ==
  ASSUME Plain!Inductive, spc \notin {"next", "wait", "access"}, NEW u \in Plain!Tasks, u < task,
         Plain!Writes(u, addr), ~Plain!Over(u)
  PROVE  /\ lastWriter[addr] \in Plain!Tasks
         /\ u = lastWriter[addr] \/ Plain!Before(u, lastWriter[addr], addr)
<1> USE DEF Plain!Inductive
<1>1. PICK a \in Addresses : a = addr
  BY PlainAccess
<1>2. task \in Plain!Tasks /\ ~Plain!Entered(task, a)
  BY <1>1, PlainAccess
<1>3. Plain!Entered(u, a) /\ u \notin WaitOns /\ u \notin readers[a]
  <2>1. Plain!Entered(u, a)
    BY <1>1, PlainNames DEF Plain!Entered, Plain!Uses, Plain!Writes
  <2>2. u \notin WaitOns
    BY DEF Plain!StageInv, Plain!Over, Plain!Started
  <2>3. u \notin readers[a]
    BY <1>1 DEF Plain!ReaderInv, Plain!Writes
  <2> QED
    BY <2>1, <2>2, <2>3
<1>4. PICK w \in Plain!Tasks : u <= w /\ Plain!Writes(w, a) /\ Plain!Entered(w, a)
             /\ Plain!Latest(w, a)
  BY <1>3 DEF Plain!LastInv
<1>5. w = lastWriter[a]
  BY <1>2, <1>4 DEF Plain!Latest
<1>6. w = u \/ Plain!Before(u, w, a)
  BY <1>3, <1>4, PlainNames DEF Plain!Before, Plain!Entered
<1> QED
  BY <1>1, <1>5, <1>6

(* When the submitter has asked for the last writer of an address, each writer before its
   task is awaited. *)
LEMMA Looked ==
  ASSUME Plain!Inductive, Plain!TypeOK', Plain!EdgeInv', Plain!CountInv',
         spc \in {"look", "link"}, spc' = Plain!AfterLook,
         UNCHANGED <<acc, stage, lastWriter, readers, pending, task, todo, addr, cpc>>,
         \A p \in Plain!Tasks : Plain!Outstanding(p) \subseteq Plain!Outstanding(p)',
         \A w \in Plain!Tasks : w = lastWriter[addr] => task \in Plain!Outstanding(w)'
  PROVE  Plain!Inductive'
<1> USE DEF Plain!Inductive
<1>1. PICK t \in Plain!Tasks, a \in Addresses : t = task /\ a = addr /\ t = task' /\ a = addr'
  BY PlainAccess
<1>2. /\ stage[t] = "submitted" /\ acc[t][a] \in {"in", "out", "inout"} /\ Plain!Uses(t, a)
           /\ a \notin todo
      /\ Plain!Writes(t, a) <=> acc[t][a] # "in"
      /\ ~Plain!Entered(t, a)
  BY <1>1, PlainAccess DEF Plain!Access
<1>3. spc' = (IF acc[t][a] = "in" THEN IF t \in WaitOns THEN "access" ELSE "read" ELSE "readers")
  <2>1. Plain!Access = acc[t][a] /\ (Plain!Waits <=> t \in WaitOns)
    BY <1>1 DEF Plain!Access, Plain!Waits
  <2>2. ASSUME Plain!Access = "in", Plain!Waits PROVE Plain!AfterLook = "access"
    BY <2>2 DEF Plain!AfterLook, Plain!Shared
  <2>3. ASSUME Plain!Access = "in", ~Plain!Waits PROVE Plain!AfterLook = "read"
    BY <2>3 DEF Plain!AfterLook, Plain!Shared
  <2>4. ASSUME Plain!Access \in {"out", "inout"} PROVE Plain!AfterLook = "readers"
    BY <2>4 DEF Plain!AfterLook, Plain!Shared
  <2> QED
    BY <1>2, <2>1, <2>2, <2>3, <2>4
<1>4. Plain!OrderInv' /\ \A v \in Plain!Tasks : Plain!Over(v)' <=> Plain!Over(v)
  BY DEF Plain!Over, Plain!Started, Plain!OrderInv, Plain!Before, Plain!Uses, Plain!Writes
<1>5. ASSUME NEW u \in Plain!Tasks, u < t, Plain!Writes(u, a) PROVE Plain!Covered(u, t, a)'
  <2>1. CASE Plain!Over(u)
    BY <1>4, <2>1 DEF Plain!Covered
  <2>2. CASE ~Plain!Over(u)
    <3>1. PICK w \in Plain!Tasks : w = lastWriter[a] /\ (u = w \/ Plain!Before(u, w, a))
      BY <1>1, <1>5, <2>2, Asked
    <3>2. t \in Plain!Outstanding(w)'
      BY <1>1, <3>1, PlainNames
    <3>3. w = u \/ Plain!Before(u, w, a)'
      BY <3>1, SameOrder
    <3> QED
      BY <3>2, <3>3 DEF Plain!Covered
  <2> QED
    BY <2>1, <2>2
<1>6. Plain!WritersCovered'
  BY <1>1, <1>5, SameOrder DEF Plain!WritersCovered
<1>7. Plain!PlaceInv'
  <2>1. /\ Plain!Uses(t, a)' /\ (Plain!Writes(t, a)' <=> acc[t][a] # "in")
             /\ \A b \in todo' : Plain!Uses(t, b)'
    BY <1>1, <1>2, SameOrder DEF Plain!PlaceInv
  <2>2. Plain!Access' = acc[t][a] /\ (Plain!Waits' <=> t \in WaitOns)
    BY <1>1 DEF Plain!Access, Plain!Waits
  <2> QED
    BY <1>1, <1>2, <1>3, <1>6, <2>1, <2>2 DEF Plain!PlaceInv, Plain!PlainPlaces
<1>8. ASSUME NEW v \in Plain!Tasks, NEW b \in Addresses
      PROVE  /\ Plain!Entered(v, b) => Plain!Entered(v, b)'
             /\ ~Plain!Entered(v, b) /\ Plain!Entered(v, b)' => v = t /\ b = a
                  /\ acc[t][a] = "in" /\ t \in WaitOns
  <2>1. Plain!Uses(v, b)' <=> Plain!Uses(v, b)
    BY SameOrder
  <2>2. CASE v # t
    BY <1>1, <2>1, <2>2 DEF Plain!Entered
  <2>4. CASE v = t /\ b # a
    BY <1>1, <2>1, <2>4 DEF Plain!Entered
  <2>3. CASE v = t /\ b = a
    BY <1>1, <1>2, <1>3, <2>1, <2>3 DEF Plain!Entered
  <2> QED
    BY <2>2, <2>3, <2>4
<1>9. acc[t][a] = "in" => \A u \in Plain!Tasks : Plain!Before(u, t, a) => Plain!Covered(u, t, a)'
  <2>1. \A x \in Plain!Tasks : x < t /\ Plain!Writes(x, a)' => Plain!Covered(x, t, a)'
    BY <1>5, SameOrder
  <2> QED
    BY <1>2, <1>4, <2>1, ReaderCovered, SameOrder
<1>10. spc' \notin {"next", "wait"}
  BY <1>3
<1> QED
  BY <1>2, <1>7, <1>8, <1>9, <1>10, AskKept

LEMMA LookStep ==
  ASSUME Plain!Inductive, Plain!Look
  PROVE  Plain!Inductive'
<1> USE DEF Plain!Inductive
<1>1. /\ spc = "look" /\ seen' = lastWriter[addr]
      /\ spc' = (IF lastWriter[addr] = Plain!None THEN Plain!AfterLook ELSE "link")
      /\ UNCHANGED <<acc, stage, preds, succs, lastWriter, readers, pending, task, todo, addr, cpc>>
  BY DEF Plain!Look, Plain!Goto, Plain!tracked, Plain!closing
<1>2. task \in Plain!Tasks /\ addr \in Addresses /\ Plain!Access \in {"in", "out", "inout"}
      /\ Plain!Uses(task, addr) /\ addr \notin todo
  BY <1>1, PlainAccess
<1>3. Plain!AfterLook \in {"access", "read", "readers"}
  BY <1>2 DEF Plain!AfterLook, Plain!Shared
<1>4. Plain!TypeOK'
  <2>1. spc' \in Plain!Places /\ seen' \in Plain!Objects \cup {Plain!None}
    BY <1>1, <1>2, <1>3 DEF Plain!Places, Plain!TypeOK
  <2> QED
    BY <2>1 DEF Plain!Look, Plain!tracked, Plain!objects, Plain!closing, Plain!TypeOK
<1>5. spc' \notin {"next", "wait"}
  BY <1>1, <1>3
<1>6. Plain!EdgeInv' /\ Plain!CountInv' /\ \A p \in Plain!Tasks :
      Plain!Outstanding(p)' = Plain!Outstanding(p)
  BY <1>1, <1>5, EdgesKept
<1>7. CASE lastWriter[addr] = Plain!None
  BY <1>1, <1>4, <1>6, <1>7, PlainNames, Looked
<1>8. CASE lastWriter[addr] # Plain!None
  <2>1. \A t \in Plain!Tasks : \A b \in Addresses : Plain!Entered(t, b)' <=> Plain!Entered(t, b)
    BY <1>1, <1>8 DEF Plain!Entered, Plain!Uses
  <2>2. lastWriter[addr] \in Plain!Tasks
    BY <1>2, <1>8 DEF Plain!WriterInv
  <2>3. spc' = "link" /\ Plain!Uses(task, addr)' /\ \A a \in todo' : Plain!Uses(task, a)'
    BY <1>1, <1>2, <1>8 DEF Plain!PlaceInv, Plain!Uses
  <2>4. Plain!PlaceInv'
    BY <1>1, <1>2, <2>2, <2>3 DEF Plain!PlaceInv, Plain!PlainPlaces
  <2> QED
    BY <1>1, <1>4, <1>5, <1>6, <2>1, <2>4, AskKept
<1> QED
  BY <1>7, <1>8

(* The last writer is a successor at once or has gone from the record. *)
LEMMA LinkStep ==
  ASSUME Plain!Inductive, Plain!Link
  PROVE  Plain!Inductive'
<1> USE DEF Plain!Inductive
<1>1. /\ spc = "link" /\ seen' = Plain!None /\ spc' = Plain!AfterLook
      /\ UNCHANGED <<acc, stage, lastWriter, readers, pending, task, todo, addr, cpc>>
      /\ seen \in Plain!Tasks /\ lastWriter[addr] \in {Plain!None, seen}
  BY DEF Plain!Link, Plain!Goto, Plain!tracked, Plain!closing, Plain!PlaceInv
<1>2. task \in Plain!Tasks /\ addr \in Addresses /\ Plain!Access \in {"in", "out", "inout"}
      /\ ~Plain!Entered(task, addr)
  BY <1>1, PlainAccess
<1>3. Plain!AfterLook \in {"access", "read", "readers"}
  BY <1>2 DEF Plain!AfterLook, Plain!Shared
<1>4. PICK S \in SUBSET Plain!Tasks : S = (IF lastWriter[addr] = seen THEN {seen} ELSE {})
  BY <1>1
<1>5. /\ succs' = [p \in Plain!Objects |-> IF p \in S THEN succs[p] \cup {task} ELSE succs[p]]
      /\ preds' = [preds EXCEPT ![task] = @ + Cardinality({p \in S : task \notin succs[p]})]
  <2>1. CASE lastWriter[addr] = seen /\ task \notin succs[seen]
    <3>1. {p \in S : task \notin succs[p]} = {seen} /\ Cardinality({seen}) = 1
      BY <1>4, <2>1, FS_Singleton
    <3>2. succs' = [succs EXCEPT ![seen] = @ \cup {task}] /\ preds' = [preds EXCEPT ![task] = @ + 1]
      BY <2>1 DEF Plain!Link
    <3>3. succs' = [p \in Plain!Objects |-> IF p \in S THEN succs[p] \cup {task} ELSE succs[p]]
      BY <1>4, <2>1, <3>2 DEF Plain!TypeOK
    <3> QED
      BY <3>1, <3>2, <3>3
  <2>2. CASE ~(lastWriter[addr] = seen /\ task \notin succs[seen])
    <3>1. {p \in S : task \notin succs[p]} = {} /\ Cardinality({}) = 0
      BY <1>4, <2>2, FS_EmptySet
    <3>2. succs' = succs /\ preds' = preds
      BY <2>2 DEF Plain!Link
    <3>3. succs' = [p \in Plain!Objects |-> IF p \in S THEN succs[p] \cup {task} ELSE succs[p]]
      BY <1>4, <2>2, <3>2 DEF Plain!TypeOK
    <3>4. preds' = [preds EXCEPT ![task] = @ + 0]
      BY <1>2, <3>2, PlainNames DEF Plain!TypeOK
    <3> QED
      BY <3>1, <3>3, <3>4
  <2> QED
    BY <2>1, <2>2
<1>6. \A p \in S : p < task /\ p \notin WaitOns /\ stage[p] \notin {"succs", "gone"}
  <2> SUFFICES ASSUME lastWriter[addr] = seen
               PROVE  seen < task /\ seen \notin WaitOns /\ stage[seen] \notin {"succs", "gone"}
    BY <1>4
  <2>1. /\ seen \notin WaitOns /\ stage[seen] \in {"submitted", "ready", "ended", "writers"}
        /\ Plain!Entered(seen, addr)
    BY <1>1, <1>2, PlainNames DEF Plain!WriterInv
  <2>2. seen # task
    BY <1>2, <2>1
  <2>3. seen <= task
    BY <1>1, <1>2, <2>1, PlainNames DEF Plain!StageInv
  <2> QED
    BY <1>1, <1>2, <2>1, <2>2, <2>3, PlainNames
<1>7. spc \notin {"next", "wait"} /\ spc' \notin {"next", "wait"}
  BY <1>1, <1>3
<1>8. /\ Plain!EdgeInv' /\ Plain!CountInv'
      /\ \A p \in Plain!Tasks : Plain!Outstanding(p) \subseteq Plain!Outstanding(p)'
      /\ \A p \in S : task \in Plain!Outstanding(p)'
      /\ preds' \in [Plain!Objects -> Nat] /\ succs' \in [Plain!Objects -> SUBSET Plain!Objects]
  BY <1>1, <1>5, <1>6, <1>7, EdgesAdded
<1>9. Plain!TypeOK'
  <2>1. spc' \in Plain!Places /\ seen' \in Plain!Objects \cup {Plain!None}
    BY <1>1, <1>3 DEF Plain!Places
  <2> QED
    BY <1>8, <2>1 DEF Plain!Link, Plain!tracked, Plain!objects, Plain!closing, Plain!TypeOK
<1>10. \A w \in Plain!Tasks : w = lastWriter[addr] => task \in Plain!Outstanding(w)'
  BY <1>1, <1>4, <1>8, PlainNames
<1> QED
  BY <1>1, <1>8, <1>9, <1>10, Looked

(* Who is not over is awaited with the writer after it. *)
LEMMA CoverThrough ==
  ASSUME Plain!OrderInv, NEW u \in Plain!Tasks, NEW w \in Plain!Tasks, NEW t \in Plain!Tasks,
         NEW a \in Addresses,
         u <= w, Plain!Uses(u, a), Plain!Writes(w, a), ~Plain!Over(u), Plain!Covered(w, t, a)
  PROVE  Plain!Covered(u, t, a)
<1>1. w = u \/ Plain!Before(u, w, a)
  BY PlainNames DEF Plain!Before, Plain!Uses, Plain!Writes
<1>2. ~Plain!Over(w)
  BY <1>1 DEF Plain!OrderInv, Plain!Over
<1>3. PICK x \in Plain!Tasks : (x = w \/ Plain!Before(w, x, a)) /\ t \in Plain!Outstanding(x)
  BY <1>2 DEF Plain!Covered
<1>4. x = u \/ Plain!Before(u, x, a)
  <2>1. CASE x = w
    BY <1>1, <2>1
  <2>2. CASE x # w
    <3>1. w < x /\ Plain!Uses(x, a) /\ u < x /\ w <= x
      BY <1>3, <2>2, PlainNames DEF Plain!Before
    <3> QED
      BY <3>1 DEF Plain!Before
  <2> QED
    BY <2>1, <2>2
<1> QED
  BY <1>3, <1>4 DEF Plain!Covered

(* The task waits for the readers of the version, and thereby for whom they wait for. *)
LEMMA ReadersStep ==
  ASSUME Plain!Inductive, Plain!Readers
  PROVE  Plain!Inductive'
<1> USE DEF Plain!Inductive
<1>1. /\ spc = "readers" /\ spc' = "write"
      /\ UNCHANGED <<acc, stage, lastWriter, readers, pending, task, todo, addr, cpc>>
      /\ Plain!DependOnReaders(task)
  BY DEF Plain!Readers, Plain!Goto, Plain!tracked, Plain!closing
<1>2. PICK t \in Plain!Tasks, a \in Addresses : t = task /\ a = addr /\ t = task' /\ a = addr'
  BY <1>1, PlainAccess
<1>3. /\ stage[t] = "submitted" /\ Plain!Uses(t, a) /\ Plain!Writes(t, a) /\ a \notin todo
           /\ ~Plain!Entered(t, a)
      /\ readers[a] = {} => Plain!WritersCovered
  BY <1>1, <1>2, PlainAccess DEF Plain!PlaceInv
<1>4. PICK S \in SUBSET Plain!Tasks : S = readers[a]
  BY DEF Plain!TypeOK
<1>5. /\ succs' = [p \in Plain!Objects |-> IF p \in S THEN succs[p] \cup {task} ELSE succs[p]]
      /\ preds' = [preds EXCEPT ![task] = @ + Cardinality({p \in S : task \notin succs[p]})]
  BY <1>1, <1>2, <1>4, PlainCardinality DEF Plain!DependOnReaders
<1>6. \A p \in S : p < task /\ p \notin WaitOns /\ stage[p] \notin {"succs", "gone"}
  <2> SUFFICES ASSUME NEW p \in S
               PROVE  p < task /\ p \notin WaitOns /\ stage[p] \notin {"succs", "gone"}
    OBVIOUS
  <2>1. /\ p \notin WaitOns /\ stage[p] \notin {"unborn", "succs", "gone"} /\ Plain!Entered(p, a)
    BY <1>4 DEF Plain!ReaderInv
  <2>2. p # t /\ p <= task
    BY <1>2, <1>3, <2>1, PlainNames DEF Plain!StageInv
  <2> QED
    BY <1>2, <2>1, <2>2, PlainNames
<1>7. spc \notin {"next", "wait"} /\ spc' \notin {"next", "wait"}
  BY <1>1
<1>8. /\ Plain!EdgeInv' /\ Plain!CountInv'
      /\ \A p \in Plain!Tasks : Plain!Outstanding(p) \subseteq Plain!Outstanding(p)'
      /\ \A p \in S : task \in Plain!Outstanding(p)'
      /\ preds' \in [Plain!Objects -> Nat] /\ succs' \in [Plain!Objects -> SUBSET Plain!Objects]
  BY <1>1, <1>5, <1>6, <1>7, EdgesAdded
<1>9. Plain!TypeOK'
  <2>1. spc' \in Plain!Places
    BY <1>1 DEF Plain!Places
  <2> QED
    BY <1>8, <2>1 DEF Plain!Readers, Plain!tracked, Plain!objects, Plain!closing, Plain!TypeOK
<1>10. \A v \in Plain!Tasks : \A b \in Addresses : Plain!Entered(v, b)' <=> Plain!Entered(v, b)
  BY <1>1 DEF Plain!Entered, Plain!Uses
<1>11. ASSUME NEW u \in Plain!Tasks, u < t, Plain!Uses(u, a) PROVE Plain!Covered(u, t, a)'
  <2>1. CASE Plain!Over(u)
    BY <1>1, <2>1 DEF Plain!Covered, Plain!Over, Plain!Started
  <2>2. CASE ~Plain!Over(u)
    <3>1. Plain!Entered(u, a) /\ u \notin WaitOns
      <4>1. u # task /\ (u \in WaitOns => stage[u] = "gone")
        BY <1>2, <1>11, PlainNames DEF Plain!StageInv
      <4> QED
        BY <1>11, <2>2, <4>1 DEF Plain!Entered, Plain!Over, Plain!Started
    <3>2. CASE u \in readers[a]
      BY <1>2, <1>4, <1>8, <3>2 DEF Plain!Covered
    <3>3. CASE u \notin readers[a]
      <4>1. PICK w \in Plain!Tasks : u <= w /\ Plain!Writes(w, a) /\ Plain!Entered(w, a)
                   /\ Plain!Latest(w, a)
        BY <2>2, <3>1, <3>3 DEF Plain!LastInv
      <4>2. w = lastWriter[a] /\ w # t
        BY <1>2, <1>3, <4>1 DEF Plain!Latest
      <4>3. CASE readers[a] = {}
        <5>1. stage[w] # "unborn"
          BY <4>2, PlainNames DEF Plain!WriterInv
        <5>2. w < task
          BY <1>2, <4>2, <5>1, PlainNames DEF Plain!StageInv
        <5>3. Plain!Covered(w, t, a)
          BY <1>2, <1>3, <4>1, <4>3, <5>2 DEF Plain!WritersCovered
        <5>4. Plain!Covered(u, t, a)
          BY <1>11, <2>2, <4>1, <5>3, CoverThrough
        <5>5. PICK x \in Plain!Tasks : (x = u \/ Plain!Before(u, x, a))
                     /\ t \in Plain!Outstanding(x)
          BY <2>2, <5>4 DEF Plain!Covered
        <5>6. x = u \/ Plain!Before(u, x, a)'
          BY <1>1, <5>5, SameOrder
        <5> QED
          BY <1>8, <5>5, <5>6 DEF Plain!Covered
      <4>4. CASE readers[a] # {}
        <5>1. PICK r \in Plain!Tasks : r \in readers[a]
          BY <1>4, <4>4
        <5>2. w < r /\ acc[r][a] = "in"
          BY <4>1, <5>1 DEF Plain!ReaderInv
        <5>3. u < r /\ w <= r /\ Plain!Uses(r, a)
          BY <4>1, <5>2, PlainNames DEF Plain!Uses
        <5>4. Plain!Before(u, r, a)
          BY <1>11, <4>1, <5>3 DEF Plain!Before
        <5>5. Plain!Before(u, r, a)'
          BY <1>1, <5>4, SameOrder
        <5> QED
          BY <1>2, <1>4, <1>8, <5>1, <5>5 DEF Plain!Covered
      <4> QED
        BY <4>3, <4>4
    <3> QED
      BY <3>2, <3>3
  <2> QED
    BY <2>1, <2>2
<1>12. Plain!PlaceInv'
  <2>1. /\ Plain!Writes(t, a)' /\ Plain!Uses(t, a)' /\ \A b \in todo' : Plain!Uses(t, b)'
    BY <1>1, <1>2, <1>3, SameOrder DEF Plain!PlaceInv
  <2>2. \A u \in Plain!Tasks : u < t /\ Plain!Uses(u, a)' => Plain!Covered(u, t, a)'
    BY <1>1, <1>11, SameOrder
  <2> QED
    BY <1>1, <1>2, <1>3, <2>1, <2>2 DEF Plain!PlaceInv, Plain!PlainPlaces
<1> QED
  BY <1>1, <1>8, <1>9, <1>10, <1>12, AskKept

(* What holds when the submitter has entered an access. *)
LEMMA EnterKept ==
  ASSUME Plain!Inductive, Plain!TypeOK',
         UNCHANGED <<acc, stage, preds, succs, pending, task, todo, addr, cpc>>,
         spc \in {"write", "read"}, spc' = "access",
         \A u \in Plain!Tasks : Plain!Before(u, task, addr) => Plain!Covered(u, task, addr)'
  PROVE  /\ Plain!OrderInv' /\ Plain!CoverInv' /\ Plain!EdgeInv' /\ Plain!CountInv'
              /\ Plain!StageInv' /\ Plain!PlaceInv'
         /\ Plain!Entered(task, addr)'
         /\ \A v \in Plain!Tasks : \A b \in Addresses : Plain!Entered(v, b) => Plain!Entered(v, b)'
         /\ \A v \in Plain!Tasks : \A b \in Addresses : ~Plain!Entered(v, b)
              /\ Plain!Entered(v, b)' => v = task /\ b = addr
         /\ \A v \in Plain!Tasks : Plain!Over(v)' <=> Plain!Over(v)
<1> USE DEF Plain!Inductive
<1>1. PICK t \in Plain!Tasks, a \in Addresses : t = task /\ a = addr
  BY PlainAccess
<1>2. /\ stage[t] = "submitted" /\ Plain!Uses(t, a) /\ a \notin todo
  BY <1>1, PlainAccess
<1>3. Plain!EdgeInv' /\ Plain!CountInv' /\ \A p \in Plain!Tasks :
      Plain!Outstanding(p)' = Plain!Outstanding(p)
  BY EdgesKept
<1>4. /\ Plain!Entered(t, a)'
      /\ \A v \in Plain!Tasks : \A b \in Addresses : Plain!Entered(v, b) => Plain!Entered(v, b)'
      /\ \A v \in Plain!Tasks : \A b \in Addresses : ~Plain!Entered(v, b) /\ Plain!Entered(v, b)'
           => v = t /\ b = a
  BY <1>1, <1>2 DEF Plain!Entered, Plain!Uses
<1>5. \A v \in Plain!Tasks : (Plain!Over(v)' <=> Plain!Over(v))
      /\ (Plain!Started(v)' <=> Plain!Started(v))
  BY DEF Plain!Over, Plain!Started
<1>6. Plain!OrderInv' /\ Plain!CoverInv'
  <2>1. \A u \in Plain!Tasks : Plain!Before(u, t, a) => Plain!Covered(u, t, a)'
    BY <1>1
  <2>2. ASSUME NEW v \in Plain!Tasks, NEW b \in Addresses, Plain!Entered(v, b)',
               ~Plain!Entered(v, b)
        PROVE  \A u \in Plain!Tasks : Plain!Before(u, v, b) => Plain!Covered(u, v, b)'
    <3>1. v = t /\ b = a
      BY <1>4, <2>2
    <3> QED
      BY <2>1, <3>1
  <2> QED
    BY <1>3, <1>5, <2>2, OrderKept
<1>7. Plain!StageInv'
  BY SameOrder DEF Plain!StageInv
<1>8. Plain!PlaceInv'
  <2>1. \A b \in todo' : Plain!Uses(t, b)'
    BY <1>1, SameOrder DEF Plain!PlaceInv
  <2> QED
    BY <1>1, <1>2, <2>1 DEF Plain!PlaceInv, Plain!PlainPlaces
<1> QED
  BY <1>1, <1>3, <1>4, <1>5, <1>6, <1>7, <1>8

(* The task becomes the last writer; its version has no readers yet. *)
LEMMA WriteStep ==
  ASSUME Plain!Inductive, Plain!Write
  PROVE  Plain!Inductive'
<1> USE DEF Plain!Inductive
<1>1. /\ spc = "write" /\ spc' = "access" /\ readers' = [readers EXCEPT ![addr] = {}]
      /\ lastWriter' = IF Plain!Waits THEN lastWriter ELSE [lastWriter EXCEPT ![addr] = task]
      /\ UNCHANGED <<acc, stage, preds, succs, pending, task, todo, addr, cpc>>
  BY DEF Plain!Write, Plain!Goto, Plain!closing
<1>2. PICK t \in Plain!Tasks, a \in Addresses : t = task /\ a = addr /\ t = task' /\ a = addr'
  BY <1>1, PlainAccess
<1>3. stage[t] = "submitted" /\ Plain!Uses(t, a) /\ Plain!Writes(t, a)
      /\ (Plain!Waits <=> t \in WaitOns)
  BY <1>1, <1>2, PlainAccess DEF Plain!PlaceInv, Plain!Waits
<1>4. Plain!TypeOK'
  <2>1. spc' \in Plain!Places /\ readers' \in [Addresses -> SUBSET Plain!Tasks]
    BY <1>1 DEF Plain!Places, Plain!TypeOK
  <2>2. lastWriter' \in [Addresses -> Plain!Objects \cup {Plain!None}]
    BY <1>1, <1>2, PlainNames DEF Plain!TypeOK
  <2> QED
    BY <2>1, <2>2 DEF Plain!Write, Plain!objects, Plain!closing, Plain!TypeOK
<1>5. \A u \in Plain!Tasks : Plain!Before(u, t, a) => Plain!Covered(u, t, a)'
  <2>1. \A p \in Plain!Tasks : Plain!Outstanding(p)' = Plain!Outstanding(p)
    BY <1>1, OutstandingOf
  <2>2. \A v \in Plain!Tasks : Plain!Over(v) => Plain!Over(v)'
    BY <1>1 DEF Plain!Over, Plain!Started
  <2>3. \A u \in Plain!Tasks : Plain!Covered(u, t, a) => Plain!Covered(u, t, a)'
    BY <1>1, <2>1, <2>2, CoverKept
  <2>4. \A u \in Plain!Tasks : Plain!Before(u, t, a) => Plain!Covered(u, t, a)
    BY <1>1, <1>2 DEF Plain!PlaceInv, Plain!Before
  <2> QED
    BY <2>3, <2>4
<1>6. /\ Plain!OrderInv' /\ Plain!CoverInv' /\ Plain!EdgeInv' /\ Plain!CountInv'
           /\ Plain!StageInv' /\ Plain!PlaceInv'
      /\ Plain!Entered(t, a)'
      /\ \A v \in Plain!Tasks : \A b \in Addresses : Plain!Entered(v, b) => Plain!Entered(v, b)'
      /\ \A v \in Plain!Tasks : \A b \in Addresses : ~Plain!Entered(v, b) /\ Plain!Entered(v, b)'
           => v = t /\ b = a
      /\ \A v \in Plain!Tasks : Plain!Over(v)' <=> Plain!Over(v)
  <2>1. \A u \in Plain!Tasks : Plain!Before(u, task, addr) => Plain!Covered(u, task, addr)'
    BY <1>2, <1>5
  <2> QED
    BY <1>1, <1>2, <1>4, <2>1, EnterKept
<1>7. \A v, b : (Plain!Uses(v, b)' <=> Plain!Uses(v, b))
      /\ (Plain!Writes(v, b)' <=> Plain!Writes(v, b))
  BY <1>1, SameOrder
<1>8. /\ \A b \in Addresses : readers'[b] = IF b = a THEN {} ELSE readers[b]
      /\ \A b \in Addresses : lastWriter'[b] = IF b = a
           /\ t \notin WaitOns THEN t ELSE lastWriter[b]
  BY <1>1, <1>2, <1>3 DEF Plain!TypeOK
<1>9. Plain!WriterInv'
  <2> SUFFICES ASSUME NEW b \in Addresses, NEW w, w = lastWriter'[b], w # Plain!None
               PROVE  /\ w \in Plain!Tasks \ WaitOns /\ Plain!Writes(w, b)' /\ Plain!Entered(w, b)'
                      /\ stage'[w] \in {"submitted", "ready", "ended", "writers"}
    BY DEF Plain!WriterInv, Plain!None
  <2>1. CASE b = a /\ t \notin WaitOns
    BY <1>1, <1>3, <1>6, <1>7, <1>8, <2>1
  <2>2. CASE ~(b = a /\ t \notin WaitOns)
    <3>1. w = lastWriter[b]
      BY <1>8, <2>2
    <3>2. /\ w \in Plain!Tasks \ WaitOns /\ Plain!Writes(w, b) /\ Plain!Entered(w, b)
          /\ stage[w] \in {"submitted", "ready", "ended", "writers"}
      BY <3>1 DEF Plain!WriterInv
    <3> QED
      BY <1>1, <1>6, <1>7, <3>2
  <2> QED
    BY <2>1, <2>2
<1>10. Plain!ReaderInv'
  <2> SUFFICES ASSUME NEW b \in Addresses, NEW r \in readers'[b]
               PROVE  /\ r \notin WaitOns /\ acc'[r][b] = "in" /\ Plain!Entered(r, b)'
                      /\ stage'[r] \notin {"unborn", "succs", "gone"}
                      /\ \A x \in Plain!Tasks : Plain!Writes(x, b)' /\ Plain!Entered(x, b)' => x < r
    BY DEF Plain!ReaderInv
  <2>1. b # a /\ r \in readers[b] /\ r \in Plain!Tasks
    BY <1>8 DEF Plain!TypeOK
  <2>2. /\ r \notin WaitOns /\ acc[r][b] = "in" /\ Plain!Entered(r, b)
        /\ stage[r] \notin {"unborn", "succs", "gone"}
        /\ \A x \in Plain!Tasks : Plain!Writes(x, b) /\ Plain!Entered(x, b) => x < r
    BY <2>1 DEF Plain!ReaderInv
  <2>3. \A x \in Plain!Tasks : Plain!Writes(x, b)' /\ Plain!Entered(x, b)' => Plain!Writes(x, b)
    /\ Plain!Entered(x, b)
    BY <1>6, <1>7, <2>1
  <2> QED
    BY <1>1, <1>6, <2>1, <2>2, <2>3
<1>11. Plain!LastInv'
  <2> SUFFICES ASSUME NEW b \in Addresses, NEW u \in Plain!Tasks, Plain!Entered(u, b)',
                      ~Plain!Over(u)', u \notin WaitOns, u \notin readers'[b]
               PROVE  \E w \in Plain!Tasks : u <= w /\ Plain!Writes(w, b)'
                        /\ Plain!Entered(w, b)' /\ Plain!Latest(w, b)'
    BY DEF Plain!LastInv
  <2>1. CASE b = a
    <3>1. u <= t
      <4>1. Plain!Uses(u, a)
        BY <1>7, <2>1 DEF Plain!Entered
      <4> QED
        BY <1>2, <4>1, PlainNames DEF Plain!StageInv
    <3>2. Plain!Latest(t, a)'
      BY <1>1, <1>2, <1>3, <1>8 DEF Plain!Latest
    <3> QED
      BY <1>3, <1>6, <1>7, <2>1, <3>1, <3>2
  <2>2. CASE b # a
    <3>1. Plain!Entered(u, b) /\ ~Plain!Over(u) /\ u \notin readers[b]
      BY <1>6, <1>8, <2>2
    <3>2. PICK w \in Plain!Tasks : u <= w /\ Plain!Writes(w, b) /\ Plain!Entered(w, b)
                 /\ Plain!Latest(w, b)
      BY <3>1 DEF Plain!LastInv
    <3>3. Plain!Latest(w, b)'
      BY <1>1, <1>8, <2>2, <3>2 DEF Plain!Latest
    <3> QED
      BY <1>6, <1>7, <3>2, <3>3
  <2> QED
    BY <2>1, <2>2
<1> QED
  BY <1>4, <1>6, <1>9, <1>10, <1>11

(* The task becomes a reader of the version. *)
LEMMA ReadStep ==
  ASSUME Plain!Inductive, Plain!Read
  PROVE  Plain!Inductive'
<1> USE DEF Plain!Inductive
<1>1. /\ spc = "read" /\ spc' = "access" /\ readers' = [readers EXCEPT ![addr] = @ \cup {task}]
      /\ UNCHANGED <<acc, stage, preds, succs, lastWriter, pending, task, todo, addr, cpc>>
  BY DEF Plain!Read, Plain!Goto, Plain!closing
<1>2. PICK t \in Plain!Tasks, a \in Addresses : t = task /\ a = addr /\ t = task' /\ a = addr'
  BY <1>1, PlainAccess
<1>3. /\ stage[t] = "submitted" /\ Plain!Uses(t, a) /\ acc[t][a] = "in" /\ ~Plain!Writes(t, a)
           /\ t \notin WaitOns
      /\ \A x \in Plain!Tasks : x < t /\ Plain!Writes(x, a) => Plain!Covered(x, t, a)
  BY <1>1, <1>2, PlainAccess DEF Plain!PlaceInv, Plain!Waits, Plain!Access, Plain!WritersCovered
<1>4. Plain!TypeOK'
  <2>1. spc' \in Plain!Places /\ readers' \in [Addresses -> SUBSET Plain!Tasks]
    BY <1>1, <1>2 DEF Plain!Places, Plain!TypeOK
  <2> QED
    BY <1>1, <2>1 DEF Plain!Read, Plain!objects, Plain!closing, Plain!TypeOK
<1>5. \A v, b : (Plain!Uses(v, b)' <=> Plain!Uses(v, b))
      /\ (Plain!Writes(v, b)' <=> Plain!Writes(v, b))
  BY <1>1, SameOrder
<1>6. \A u \in Plain!Tasks : Plain!Before(u, t, a) => Plain!Covered(u, t, a)'
  <2>1. \A p \in Plain!Tasks : Plain!Outstanding(p)' = Plain!Outstanding(p)
    BY <1>1, OutstandingOf
  <2>2. \A v \in Plain!Tasks : (Plain!Over(v)' <=> Plain!Over(v))
    /\ (Plain!Started(v)' <=> Plain!Started(v))
    BY <1>1 DEF Plain!Over, Plain!Started
  <2>3. \A u \in Plain!Tasks : Plain!Covered(u, t, a) => Plain!Covered(u, t, a)'
    BY <1>1, <2>1, <2>2, CoverKept
  <2>4. Plain!OrderInv'
    BY <1>1, <2>2, SameOrder DEF Plain!OrderInv
  <2>5. \A u \in Plain!Tasks : Plain!Before(u, t, a)' => Plain!Covered(u, t, a)'
    BY <1>3, <1>5, <2>3, <2>4, ReaderCovered
  <2> QED
    BY <1>1, <2>5, SameOrder
<1>7. /\ Plain!OrderInv' /\ Plain!CoverInv' /\ Plain!EdgeInv' /\ Plain!CountInv'
           /\ Plain!StageInv' /\ Plain!PlaceInv'
      /\ Plain!Entered(t, a)'
      /\ \A v \in Plain!Tasks : \A b \in Addresses : Plain!Entered(v, b) => Plain!Entered(v, b)'
      /\ \A v \in Plain!Tasks : \A b \in Addresses : ~Plain!Entered(v, b) /\ Plain!Entered(v, b)'
           => v = t /\ b = a
      /\ \A v \in Plain!Tasks : Plain!Over(v)' <=> Plain!Over(v)
  <2>1. \A u \in Plain!Tasks : Plain!Before(u, task, addr) => Plain!Covered(u, task, addr)'
    BY <1>2, <1>6
  <2> QED
    BY <1>1, <1>2, <1>4, <2>1, EnterKept
<1>8. \A b \in Addresses : readers'[b] = IF b = a THEN readers[a] \cup {t} ELSE readers[b]
  BY <1>1, <1>2 DEF Plain!TypeOK
<1>9. Plain!WriterInv'
  <2> SUFFICES ASSUME NEW b \in Addresses, NEW w, w = lastWriter[b], w # Plain!None
               PROVE  /\ w \in Plain!Tasks \ WaitOns /\ Plain!Writes(w, b)' /\ Plain!Entered(w, b)'
                      /\ stage'[w] \in {"submitted", "ready", "ended", "writers"}
    BY <1>1 DEF Plain!WriterInv, Plain!None
  <2>1. /\ w \in Plain!Tasks \ WaitOns /\ Plain!Writes(w, b) /\ Plain!Entered(w, b)
        /\ stage[w] \in {"submitted", "ready", "ended", "writers"}
    BY DEF Plain!WriterInv
  <2> QED
    BY <1>1, <1>5, <1>7, <2>1
<1>10. Plain!ReaderInv'
  <2> SUFFICES ASSUME NEW b \in Addresses, NEW r \in readers'[b]
               PROVE  /\ r \notin WaitOns /\ acc'[r][b] = "in" /\ Plain!Entered(r, b)'
                      /\ stage'[r] \notin {"unborn", "succs", "gone"}
                      /\ \A x \in Plain!Tasks : Plain!Writes(x, b)' /\ Plain!Entered(x, b)' => x < r
    BY DEF Plain!ReaderInv
  <2>1. \A x \in Plain!Tasks : Plain!Writes(x, b)' /\ Plain!Entered(x, b)' => Plain!Writes(x, b)
    /\ Plain!Entered(x, b)
    BY <1>3, <1>5, <1>7
  <2>2. CASE r \in readers[b]
    <3>1. r \in Plain!Tasks
      BY <2>2 DEF Plain!TypeOK
    <3>2. /\ r \notin WaitOns /\ acc[r][b] = "in" /\ Plain!Entered(r, b)
          /\ stage[r] \notin {"unborn", "succs", "gone"}
          /\ \A x \in Plain!Tasks : Plain!Writes(x, b) /\ Plain!Entered(x, b) => x < r
      BY <2>2 DEF Plain!ReaderInv
    <3> QED
      BY <1>1, <1>7, <2>1, <3>1, <3>2
  <2>3. CASE r \notin readers[b]
    <3>1. r = t /\ b = a
      BY <1>8, <2>3
    <3>2. ASSUME NEW x \in Plain!Tasks, Plain!Writes(x, a), Plain!Entered(x, a) PROVE x < t
      <4>1. x # t /\ Plain!Uses(x, a)
        BY <1>3, <3>2 DEF Plain!Entered
      <4> QED
        BY <1>2, <4>1, PlainNames DEF Plain!StageInv
    <3> QED
      BY <1>1, <1>3, <1>7, <2>1, <3>1, <3>2
  <2> QED
    BY <2>2, <2>3
<1>11. Plain!LastInv'
  <2> SUFFICES ASSUME NEW b \in Addresses, NEW u \in Plain!Tasks, Plain!Entered(u, b)',
                      ~Plain!Over(u)', u \notin WaitOns, u \notin readers'[b]
               PROVE  \E w \in Plain!Tasks : u <= w /\ Plain!Writes(w, b)'
                        /\ Plain!Entered(w, b)' /\ Plain!Latest(w, b)'
    BY DEF Plain!LastInv
  <2>1. Plain!Entered(u, b) /\ ~Plain!Over(u) /\ u \notin readers[b]
    BY <1>7, <1>8
  <2>2. PICK w \in Plain!Tasks : u <= w /\ Plain!Writes(w, b) /\ Plain!Entered(w, b)
               /\ Plain!Latest(w, b)
    BY <2>1 DEF Plain!LastInv
  <2>3. Plain!Latest(w, b)'
    BY <1>1, <2>2 DEF Plain!Latest
  <2> QED
    BY <1>5, <1>7, <2>2, <2>3
<1> QED
  BY <1>4, <1>7, <1>9, <1>10, <1>11

(* The submitter has done with its task: at no predecessor left the task is released. *)
LEMMA DoneStep ==
  ASSUME Plain!Inductive, Plain!Done
  PROVE  Plain!Inductive'
<1> USE DEF Plain!Inductive
<1>1. PICK t \in Plain!Tasks : t = task /\ t = task'
  BY DEF Plain!Done, Plain!PlaceInv
<1>2. /\ spc = "access" /\ todo = {} /\ stage[t] = "submitted" /\ Plain!Decrease(t, 0)
      /\ spc' = (IF Plain!Waits THEN "wait" ELSE "next") /\ (Plain!Waits <=> t \in WaitOns)
      /\ UNCHANGED <<acc, succs, lastWriter, readers, pending, task, todo, addr>>
  BY <1>1 DEF Plain!Done, Plain!Goto, Plain!tracked, Plain!PlaceInv, Plain!Waits
<1>3. /\ preds' = [preds EXCEPT ![t] = @ - 1] /\ cpc' = cpc /\ in' = in
      /\ stage' = IF preds[t] = 1 THEN [stage EXCEPT ![t] = "ready"] ELSE stage
  BY <1>2, PlainNames, DecreaseOf
<1>4. /\ IsFiniteSet(Plain!Tellers(t)) /\ Cardinality(Plain!Tellers(t)) \in Nat
      /\ Plain!Tellers(t) = {p \in Plain!Tasks : t \in Plain!Outstanding(p)}
      /\ preds[t] = Cardinality(Plain!Tellers(t)) + 1
  BY <1>1, <1>2, Counted DEF Plain!BeingSubmitted
<1>5. preds[t] = 1 => \A p \in Plain!Tasks : t \notin Plain!Outstanding(p)
  <2>1. Cardinality(Plain!Tellers(t)) = 0 => Plain!Tellers(t) = {}
    BY <1>4, FS_EmptySet
  <2> QED
    BY <1>4, <2>1
<1>6. /\ \A v \in Plain!Tasks : v # t => stage'[v] = stage[v] /\ preds'[v] = preds[v]
      /\ IF preds[t] = 1 THEN stage'[t] = "ready" ELSE stage'[t] = "submitted"
      /\ preds'[t] = Cardinality(Plain!Tellers(t)) /\ preds[t] - 1 = Cardinality(Plain!Tellers(t))
  BY <1>2, <1>3, <1>4, PlainNames DEF Plain!TypeOK
<1>7. Plain!TypeOK'
  <2>1. preds' \in [Plain!Objects -> Nat]
    BY <1>3, <1>4, <1>6 DEF Plain!TypeOK
  <2>2. stage' \in [Plain!Tasks -> {"unborn", "submitted", "ready", "ended", "writers",
    "readers", "succs", "gone"}]
    BY <1>3 DEF Plain!TypeOK
  <2>3. spc' \in Plain!Places
    BY <1>2 DEF Plain!Places
  <2> QED
    BY <1>3, <2>1, <2>2, <2>3 DEF Plain!Done, Plain!tracked, Plain!objects, Plain!TypeOK
<1>8. \A p \in Plain!Tasks : Plain!Outstanding(p)' = Plain!Outstanding(p)
  BY <1>2, <1>6, OutstandingOf
<1>9. /\ \A v \in Plain!Tasks : \A a \in Addresses : Plain!Entered(v, a)' <=> Plain!Entered(v, a)
      /\ \A v \in Plain!Tasks : \A a \in Addresses : Plain!Entered(v, a) <=> Plain!Uses(v, a)
  BY <1>2 DEF Plain!Entered, Plain!Uses
<1>10. /\ \A v \in Plain!Tasks : v # t => (Plain!Started(v)' <=> Plain!Started(v))
            /\ (Plain!Over(v)' <=> Plain!Over(v))
       /\ ~Plain!Over(t) /\ ~Plain!Over(t)' /\ ~Plain!Started(t)
       /\ \A v \in Plain!Tasks : stage'[v] = "unborn" <=> stage[v] = "unborn"
       /\ \A v \in Plain!Tasks : stage'[v] = "submitted" => stage[v] = "submitted"
  BY <1>2, <1>6 DEF Plain!Over, Plain!Started
<1>11. Plain!OrderInv' /\ Plain!CoverInv'
  <2>1. ASSUME NEW v \in Plain!Tasks, Plain!Started(v)', ~Plain!Started(v),
               NEW u \in Plain!Tasks, NEW a \in Addresses, Plain!Before(u, v, a)
        PROVE  Plain!Over(u)
    <3>1. v = t
      BY <1>10, <2>1
    <3>2. preds[t] = 1
      BY <1>6, <2>1, <3>1 DEF Plain!Started
    <3> QED
      BY <1>2, <1>5, <1>9, <2>1, <3>1, <3>2, Released
  <2> QED
    BY <1>2, <1>8, <1>9, <1>10, <2>1, OrderKept
<1>12. Plain!CountInv'
  <2>1. ASSUME NEW v \in Plain!Tasks, stage'[v] = "submitted"
        PROVE  preds'[v] = Cardinality(Plain!Tellers(v)') + (IF Plain!BeingSubmitted(v)' THEN 1 ELSE 0)
    <3>1. Plain!Tellers(v)' = Plain!Tellers(v) /\ ~Plain!BeingSubmitted(v)'
      BY <1>2, <1>8, PlainNames DEF Plain!Tellers, Plain!BeingSubmitted
    <3>2. CASE v = t
      <4>1. Plain!Tellers(v)' = Plain!Tellers(t) /\ preds'[v] = Cardinality(Plain!Tellers(t))
        BY <1>6, <3>1, <3>2
      <4> QED
        BY <1>4, <3>1, <4>1
    <3>3. CASE v # t
      <4>1. stage[v] = "submitted" /\ ~Plain!BeingSubmitted(v) /\ preds'[v] = preds[v]
        BY <1>1, <1>6, <2>1, <3>3 DEF Plain!BeingSubmitted
      <4> QED
        BY <3>1, <4>1, Counted
    <3> QED
      BY <3>2, <3>3
  <2>2. \A v \in Plain!Tasks : stage'[v] = "unborn" => preds'[v] = 0
    BY <1>2, <1>6, <1>10 DEF Plain!CountInv
  <2> QED
    BY <2>1, <2>2, CountKept
<1>13. Plain!EdgeInv'
  <2> SUFFICES ASSUME NEW p \in Plain!Tasks
               PROVE  /\ \A v \in Plain!Outstanding(p)' : v \in Plain!Tasks /\ p < v
                           /\ stage'[v] = "submitted"
                      /\ p \in WaitOns => succs'[p] = {}
    BY DEF Plain!EdgeInv
  <2>1. ASSUME NEW v \in Plain!Outstanding(p)'
                 PROVE v \in Plain!Tasks /\ p < v /\ stage'[v] = "submitted"
    <3>1. v \in Plain!Outstanding(p)
      BY <1>8
    <3>2. v \in Plain!Tasks /\ p < v /\ stage[v] = "submitted"
      BY <3>1 DEF Plain!EdgeInv
    <3> QED
      BY <1>5, <1>6, <3>1, <3>2
  <2>2. p \in WaitOns => succs'[p] = {}
    BY <1>2 DEF Plain!EdgeInv
  <2> QED
    BY <2>1, <2>2
<1>14. Plain!WriterInv' /\ Plain!ReaderInv' /\ Plain!LastInv'
  <2>1. ASSUME NEW a \in Addresses, lastWriter'[a] # Plain!None
        PROVE  /\ lastWriter'[a] = lastWriter[a]
               /\ stage'[lastWriter[a]] \in {"submitted", "ready", "ended", "writers"}
    BY <1>2, <1>6, <2>1 DEF Plain!WriterInv
  <2>2. ASSUME NEW a \in Addresses, NEW r \in readers'[a]
        PROVE  r \in readers[a] /\ r \in Plain!Tasks /\ stage'[r] \notin {"unborn", "succs", "gone"}
    BY <1>2, <1>6, <2>2 DEF Plain!ReaderInv, Plain!TypeOK
  <2>3. ASSUME NEW a \in Addresses, NEW w \in Plain!Tasks, Plain!Latest(w, a)
        PROVE  Plain!Latest(w, a)'
    BY <1>2, <1>6, <2>3 DEF Plain!Latest
  <2> QED
    BY <1>2, <1>9, <1>10, <2>1, <2>2, <2>3, TrackingKept
<1>15. Plain!StageInv'
  <2> SUFFICES ASSUME NEW v \in Plain!Tasks
               PROVE  /\ v > task' => stage'[v] = "unborn"
                           /\ \A a \in Addresses : ~Plain!Uses(v, a)'
                      /\ v <= task' => stage'[v] # "unborn"
                      /\ v \in WaitOns => /\ stage'[v] \in {"unborn", "submitted", "ready", "gone"}
                                          /\ v < task' \/ (v = task' /\ spc' = "next")
                                               => stage'[v] = "gone"
    BY DEF Plain!StageInv
  <2>1. /\ v > task' => stage'[v] = "unborn" /\ \A a \in Addresses : ~Plain!Uses(v, a)'
        /\ v <= task' => stage'[v] # "unborn"
    BY <1>2, <1>10, SameOrder DEF Plain!StageInv
  <2>2. ASSUME v \in WaitOns
        PROVE  /\ stage'[v] \in {"unborn", "submitted", "ready", "gone"}
               /\ v < task' \/ (v = task' /\ spc' = "next") => stage'[v] = "gone"
    <3>1. CASE v = t
      <4>1. stage'[v] \in {"submitted", "ready"}
        BY <1>6, <3>1
      <4>2. spc' = "wait"
        BY <1>2, <2>2, <3>1
      <4>3. ~(v < task')
        BY <1>1, <3>1, PlainNames
      <4> QED
        BY <4>1, <4>2, <4>3
    <3>2. CASE v # t
      BY <1>1, <1>2, <1>6, <2>2, <3>2, PlainNames DEF Plain!StageInv
    <3> QED
      BY <3>1, <3>2
  <2> QED
    BY <2>1, <2>2
<1>16. Plain!PlaceInv'
  <2>1. /\ spc' \in {"next", "wait"} /\ spc' \in Plain!PlainPlaces
        /\ \A r \in Plain!Runners : cpc'[r] = "idle"
        /\ spc' = "wait" => Plain!Waits' /\ stage'[t] # "gone"
    BY <1>1, <1>2, <1>3, <1>6 DEF Plain!PlainPlaces, Plain!PlaceInv, Plain!Waits
  <2> QED
    BY <1>1, <1>2, <2>1 DEF Plain!PlaceInv
<1> QED
  BY <1>7, <1>11, <1>12, <1>13, <1>14, <1>15, <1>16

(* The thread that waits goes on: the waitOn is over. *)
LEMMA WaitStep ==
  ASSUME Plain!Inductive, Plain!Wait
  PROVE  Plain!Inductive'
<1> USE DEF Plain!Inductive
<1>1. PICK t \in Plain!Tasks : t = task /\ t = task'
  BY DEF Plain!Wait, Plain!PlaceInv
<1>2. /\ spc = "wait" /\ spc' = "next" /\ todo = {} /\ stage[t] = "ready" /\ t \in WaitOns
      /\ stage' = [stage EXCEPT ![t] = "gone"]
      /\ UNCHANGED <<acc, preds, succs, lastWriter, readers, pending, task, todo, addr, cpc>>
  BY <1>1 DEF Plain!Wait, Plain!Goto, Plain!tracked, Plain!closing, Plain!PlaceInv, Plain!Waits
<1>3. stage'[t] = "gone" /\ \A v \in Plain!Tasks : v # t => stage'[v] = stage[v]
  BY <1>2 DEF Plain!TypeOK
<1>4. Plain!TypeOK'
  <2>1. spc' \in Plain!Places /\ stage' \in [Plain!Tasks -> {"unborn", "submitted", "ready",
    "ended", "writers", "readers", "succs", "gone"}]
    BY <1>2 DEF Plain!Places, Plain!TypeOK
  <2> QED
    BY <2>1 DEF Plain!Wait, Plain!tracked, Plain!objects, Plain!closing, Plain!TypeOK
<1>5. \A p \in Plain!Tasks : Plain!Outstanding(p)' = Plain!Outstanding(p)
  <2>1. succs[t] = {}
    BY <1>2 DEF Plain!EdgeInv
  <2>2. Plain!Outstanding(t)' = Plain!Outstanding(t)
    BY <1>2, <1>3, <2>1, OutstandingOf
  <2>3. ASSUME NEW p \in Plain!Tasks, p # t PROVE Plain!Outstanding(p)' = Plain!Outstanding(p)
    BY <1>2, <1>3, <2>3, OutstandingOf
  <2> QED
    BY <2>2, <2>3
<1>6. \A v \in Plain!Tasks : \A a \in Addresses : Plain!Entered(v, a)' <=> Plain!Entered(v, a)
  BY <1>2 DEF Plain!Entered, Plain!Uses
<1>7. /\ \A v \in Plain!Tasks : (Plain!Started(v)' <=> Plain!Started(v))
           /\ (Plain!Over(v) => Plain!Over(v)')
      /\ Plain!Started(t) /\ Plain!Over(t)'
      /\ \A v \in Plain!Tasks : stage'[v] = "unborn" <=> stage[v] = "unborn"
      /\ \A v \in Plain!Tasks : stage'[v] = "submitted" <=> stage[v] = "submitted"
  BY <1>2, <1>3 DEF Plain!Over, Plain!Started
<1>8. Plain!OrderInv' /\ Plain!CoverInv'
  BY <1>2, <1>5, <1>6, <1>7, OrderKept
<1>9. Plain!CountInv' /\ Plain!EdgeInv'
  <2>1. \A v \in Plain!Tasks : Plain!Tellers(v)' = Plain!Tellers(v) /\ ~Plain!BeingSubmitted(v)
    /\ ~Plain!BeingSubmitted(v)'
    BY <1>2, <1>5, PlainNames DEF Plain!Tellers, Plain!BeingSubmitted
  <2>2. Plain!CountInv'
    BY <1>2, <1>7, <2>1, Counted, CountKept DEF Plain!CountInv
  <2>3. Plain!EdgeInv'
    BY <1>2, <1>5, <1>7 DEF Plain!EdgeInv
  <2> QED
    BY <2>2, <2>3
<1>10. Plain!WriterInv' /\ Plain!ReaderInv' /\ Plain!LastInv'
  <2>1. ASSUME NEW a \in Addresses, lastWriter'[a] # Plain!None
        PROVE  /\ lastWriter'[a] = lastWriter[a]
               /\ stage'[lastWriter[a]] \in {"submitted", "ready", "ended", "writers"}
    BY <1>2, <1>3, <2>1 DEF Plain!WriterInv
  <2>2. ASSUME NEW a \in Addresses, NEW r \in readers'[a]
        PROVE  r \in readers[a] /\ r \in Plain!Tasks /\ stage'[r] \notin {"unborn", "succs", "gone"}
    BY <1>2, <1>3, <2>2 DEF Plain!ReaderInv, Plain!TypeOK
  <2>3. ASSUME NEW a \in Addresses, NEW w \in Plain!Tasks, Plain!Latest(w, a)
        PROVE  Plain!Latest(w, a)' \/ (Plain!Started(w) /\ Plain!Over(w)')
    BY <1>1, <1>2, <1>3, <1>7, <2>3 DEF Plain!Latest
  <2> QED
    BY <1>2, <1>6, <1>7, <2>1, <2>2, <2>3, TrackingKept
<1>11. Plain!StageInv'
  <2> SUFFICES ASSUME NEW v \in Plain!Tasks
               PROVE  /\ v > task' => stage'[v] = "unborn"
                           /\ \A a \in Addresses : ~Plain!Uses(v, a)'
                      /\ v <= task' => stage'[v] # "unborn"
                      /\ v \in WaitOns => /\ stage'[v] \in {"unborn", "submitted", "ready", "gone"}
                                          /\ v < task' \/ (v = task' /\ spc' = "next")
                                               => stage'[v] = "gone"
    BY DEF Plain!StageInv
  <2>1. /\ v > task' => stage'[v] = "unborn" /\ \A a \in Addresses : ~Plain!Uses(v, a)'
        /\ v <= task' => stage'[v] # "unborn"
    BY <1>2, <1>7, SameOrder DEF Plain!StageInv
  <2>2. v \in WaitOns => /\ stage'[v] \in {"unborn", "submitted", "ready", "gone"}
                         /\ v < task' \/ (v = task' /\ spc' = "next") => stage'[v] = "gone"
    BY <1>1, <1>2, <1>3 DEF Plain!StageInv
  <2> QED
    BY <2>1, <2>2
<1>12. Plain!PlaceInv'
  BY <1>1, <1>2 DEF Plain!PlaceInv, Plain!PlainPlaces
<1> QED
  BY <1>4, <1>8, <1>9, <1>10, <1>11, <1>12

(* A new task: nobody tells it yet, it has entered nothing, and it is after all others. *)
LEMMA SubmitStep ==
  ASSUME Plain!Inductive, Plain!Submit
  PROVE  Plain!Inductive'
<1> USE DEF Plain!Inductive
<1>1. PICK t \in Plain!Tasks : t = task + 1 /\ t = task'
             /\ \A v \in Plain!Tasks : v < t <=> v <= task
  BY PlainNames DEF Plain!Submit, Plain!TypeOK
<1>2. PICK kinds \in [Addresses -> Accesses \cup {"none"}] :
        acc' = [acc EXCEPT ![t] = kinds] /\ todo' = {a \in Addresses : kinds[a] # "none"}
  BY <1>1 DEF Plain!Submit
<1>3. /\ spc = "next" /\ spc' = "access" /\ todo = {}
      /\ stage' = [stage EXCEPT ![t] = "submitted"] /\ preds' = [preds EXCEPT ![t] = @ + 1]
      /\ UNCHANGED <<succs, lastWriter, readers, pending, addr, cpc>>
  BY <1>1 DEF Plain!Submit, Plain!Goto, Plain!tracked, Plain!closing, Plain!PlaceInv
<1>4. /\ stage[t] = "unborn" /\ \A v \in Plain!Tasks : t <= v
           => \A a \in Addresses : ~Plain!Uses(v, a)
      /\ preds[t] = 0
  <2>1. \A v \in Plain!Tasks : t <= v => v > task
    BY <1>1, PlainNames DEF Plain!TypeOK
  <2>2. t > task
    BY <1>1, PlainNames DEF Plain!TypeOK
  <2> QED
    BY <2>1, <2>2 DEF Plain!StageInv, Plain!CountInv
<1>5. /\ \A v \in Plain!Tasks : v # t => stage'[v] = stage[v] /\ preds'[v] = preds[v]
           /\ acc'[v] = acc[v]
      /\ stage'[t] = "submitted" /\ preds'[t] = 1 /\ acc'[t] = kinds
  BY <1>2, <1>3, <1>4, PlainNames DEF Plain!TypeOK
<1>6. Plain!TypeOK'
  <2>1. preds' \in [Plain!Objects -> Nat]
    BY <1>3, <1>4, PlainNames DEF Plain!TypeOK
  <2>2. stage' \in [Plain!Tasks -> {"unborn", "submitted", "ready", "ended", "writers",
    "readers", "succs", "gone"}]
    BY <1>3 DEF Plain!TypeOK
  <2>3. acc' \in [Plain!Tasks -> [Addresses -> Accesses \cup {"none"}]]
    BY <1>2 DEF Plain!TypeOK
  <2>4. spc' \in Plain!Places /\ todo' \subseteq Addresses /\ task' \in 0..Submissions
    BY <1>1, <1>2, <1>3, PlainNames DEF Plain!Places
  <2> QED
    BY <2>1, <2>2, <2>3, <2>4 DEF Plain!Submit, Plain!tracked, Plain!objects, Plain!closing,
         Plain!TypeOK
<1>7. \A p \in Plain!Tasks : Plain!Outstanding(p)' = Plain!Outstanding(p)
  <2>1. Plain!Outstanding(t)' = succs[t] /\ Plain!Outstanding(t) = succs[t]
    BY <1>3, <1>4, <1>5, OutstandingOf
  <2>2. ASSUME NEW p \in Plain!Tasks, p # t PROVE Plain!Outstanding(p)' = Plain!Outstanding(p)
    BY <1>3, <1>5, <2>2, OutstandingOf
  <2> QED
    BY <2>1, <2>2
<1>8. \A v \in Plain!Tasks : v # t => \A a : (Plain!Uses(v, a)' <=> Plain!Uses(v, a))
      /\ (Plain!Writes(v, a)' <=> Plain!Writes(v, a))
  BY <1>5 DEF Plain!Uses, Plain!Writes
<1>9. ASSUME NEW v \in Plain!Tasks, NEW a \in Addresses
      PROVE  Plain!Entered(v, a)' <=> Plain!Entered(v, a)
  <2>1. CASE v # t
    BY <1>1, <1>3, <1>8, <2>1 DEF Plain!Entered
  <2>2. CASE v = t
    <3>1. ~Plain!Entered(t, a)
      BY <1>4, PlainNames DEF Plain!Entered
    <3>2. Plain!Uses(t, a)' => a \in todo'
      BY <1>2, <1>5 DEF Plain!Uses
    <3>3. ~Plain!Entered(t, a)'
      BY <1>1, <3>2 DEF Plain!Entered
    <3> QED
      BY <2>2, <3>1, <3>3
  <2> QED
    BY <2>1, <2>2
<1>10. ASSUME NEW u \in Plain!Tasks, NEW v \in Plain!Tasks, NEW a \in Addresses, v # t
       PROVE  Plain!Before(u, v, a)' <=> Plain!Before(u, v, a)
  <2>1. CASE t < v
    <3>1. ~Plain!Uses(v, a) /\ ~Plain!Uses(v, a)'
      BY <1>4, <1>8, <1>10, <2>1, PlainNames
    <3> QED
      BY <3>1 DEF Plain!Before
  <2>2. CASE v < t
    <3>1. \A x \in Plain!Tasks : x <= v => (Plain!Uses(x, a)' <=> Plain!Uses(x, a))
      /\ (Plain!Writes(x, a)' <=> Plain!Writes(x, a))
      BY <1>8, <2>2, PlainNames
    <3>2. u < v => u <= v
      BY PlainNames
    <3>3. v <= v
      BY PlainNames
    <3> QED
      BY <3>1, <3>2, <3>3 DEF Plain!Before
  <2> QED
    BY <1>10, <2>1, <2>2, PlainNames
<1>11. /\ \A v \in Plain!Tasks : v # t => (Plain!Started(v)' <=> Plain!Started(v))
            /\ (Plain!Over(v)' <=> Plain!Over(v))
       /\ ~Plain!Started(t) /\ ~Plain!Started(t)' /\ ~Plain!Over(t) /\ ~Plain!Over(t)'
  BY <1>4, <1>5 DEF Plain!Started, Plain!Over
<1>12. Plain!OrderInv'
  <2> SUFFICES ASSUME NEW u \in Plain!Tasks, NEW v \in Plain!Tasks, NEW a \in Addresses,
                      Plain!Before(u, v, a)', Plain!Started(v)'
               PROVE  Plain!Over(u)'
    BY DEF Plain!OrderInv
  <2>1. v # t /\ Plain!Started(v)
    BY <1>11
  <2>2. Plain!Over(u)
    BY <1>10, <2>1 DEF Plain!OrderInv
  <2> QED
    BY <1>11, <2>2
<1>13. Plain!CoverInv'
  <2> SUFFICES ASSUME NEW u \in Plain!Tasks, NEW v \in Plain!Tasks, NEW a \in Addresses,
                      Plain!Before(u, v, a)', stage'[v] = "submitted", Plain!Entered(v, a)'
               PROVE  Plain!Covered(u, v, a)'
    BY DEF Plain!CoverInv
  <2>1. v # t
    <3>1. ~Plain!Entered(t, a)
      BY <1>4, PlainNames DEF Plain!Entered
    <3> QED
      BY <1>9, <3>1
  <2>2. Plain!Covered(u, v, a)
    BY <1>5, <1>9, <1>10, <2>1 DEF Plain!CoverInv
  <2>3. CASE Plain!Over(u)
    BY <1>11, <2>3 DEF Plain!Covered
  <2>4. CASE ~Plain!Over(u)
    <3>1. PICK w \in Plain!Tasks : (w = u \/ Plain!Before(u, w, a)) /\ v \in Plain!Outstanding(w)
      BY <2>2, <2>4 DEF Plain!Covered
    <3>2. w = u \/ w # t
      BY <1>4, <3>1, PlainNames DEF Plain!Before
    <3>3. w = u \/ Plain!Before(u, w, a)'
      BY <1>10, <3>1, <3>2
    <3> QED
      BY <1>7, <3>1, <3>3 DEF Plain!Covered
  <2> QED
    BY <2>3, <2>4
<1>14. Plain!CountInv'
  <2>1. ASSUME NEW v \in Plain!Tasks, stage'[v] = "submitted"
        PROVE  preds'[v] = Cardinality(Plain!Tellers(v)') + (IF Plain!BeingSubmitted(v)' THEN 1 ELSE 0)
    <3>1. Plain!Tellers(v)' = Plain!Tellers(v)
      BY <1>7, PlainNames DEF Plain!Tellers
    <3>2. CASE v = t
      <4>1. Plain!Tellers(v) = {}
        BY <1>4, <3>2, PlainNames DEF Plain!Tellers, Plain!EdgeInv
      <4>2. Cardinality({}) = 0
        BY FS_EmptySet
      <4>3. Plain!BeingSubmitted(v)'
        BY <1>1, <1>3, <3>2 DEF Plain!BeingSubmitted
      <4> QED
        BY <1>5, <3>1, <3>2, <4>1, <4>2, <4>3
    <3>3. CASE v # t
      <4>1. stage[v] = "submitted" /\ ~Plain!BeingSubmitted(v) /\ ~Plain!BeingSubmitted(v)'
        /\ preds'[v] = preds[v]
        BY <1>1, <1>3, <1>5, <2>1, <3>3 DEF Plain!BeingSubmitted
      <4> QED
        BY <3>1, <4>1, Counted
    <3> QED
      BY <3>2, <3>3
  <2>2. \A v \in Plain!Tasks : stage'[v] = "unborn" => preds'[v] = 0
    BY <1>5 DEF Plain!CountInv
  <2> QED
    BY <2>1, <2>2, CountKept
<1>15. Plain!EdgeInv'
  <2> SUFFICES ASSUME NEW p \in Plain!Tasks
               PROVE  /\ \A v \in Plain!Outstanding(p)' : v \in Plain!Tasks /\ p < v
                           /\ stage'[v] = "submitted"
                      /\ p \in WaitOns => succs'[p] = {}
    BY DEF Plain!EdgeInv
  <2>1. ASSUME NEW v \in Plain!Outstanding(p)'
                 PROVE v \in Plain!Tasks /\ p < v /\ stage'[v] = "submitted"
    <3>1. v \in Plain!Tasks /\ p < v /\ stage[v] = "submitted"
      BY <1>7 DEF Plain!EdgeInv
    <3> QED
      BY <1>5, <3>1
  <2>2. p \in WaitOns => succs'[p] = {}
    BY <1>3 DEF Plain!EdgeInv
  <2> QED
    BY <2>1, <2>2
<1>16. Plain!WriterInv'
  <2> SUFFICES ASSUME NEW b \in Addresses, NEW w, w = lastWriter[b], w # Plain!None
               PROVE  /\ w \in Plain!Tasks \ WaitOns /\ Plain!Writes(w, b)' /\ Plain!Entered(w, b)'
                      /\ stage'[w] \in {"submitted", "ready", "ended", "writers"}
    BY <1>3 DEF Plain!WriterInv, Plain!None
  <2>1. /\ w \in Plain!Tasks \ WaitOns /\ Plain!Writes(w, b) /\ Plain!Entered(w, b)
        /\ stage[w] \in {"submitted", "ready", "ended", "writers"}
    BY DEF Plain!WriterInv
  <2>2. w # t
    BY <1>4, <2>1
  <2> QED
    BY <1>5, <1>8, <1>9, <2>1, <2>2
<1>17. Plain!ReaderInv'
  <2> SUFFICES ASSUME NEW b \in Addresses, NEW r \in readers[b]
               PROVE  /\ r \notin WaitOns /\ acc'[r][b] = "in" /\ Plain!Entered(r, b)'
                      /\ stage'[r] \notin {"unborn", "succs", "gone"}
                      /\ \A x \in Plain!Tasks : Plain!Writes(x, b)' /\ Plain!Entered(x, b)' => x < r
    BY <1>3 DEF Plain!ReaderInv
  <2>1. /\ r \notin WaitOns /\ acc[r][b] = "in" /\ Plain!Entered(r, b)
        /\ stage[r] \notin {"unborn", "succs", "gone"}
        /\ \A x \in Plain!Tasks : Plain!Writes(x, b) /\ Plain!Entered(x, b) => x < r
    BY DEF Plain!ReaderInv
  <2>2. r \in Plain!Tasks /\ r # t
    BY <1>4, <2>1 DEF Plain!TypeOK
  <2>3. \A x \in Plain!Tasks : Plain!Entered(x, b) => x # t
    BY <1>4, PlainNames DEF Plain!Entered
  <2> QED
    BY <1>5, <1>8, <1>9, <2>1, <2>2, <2>3
<1>18. Plain!LastInv'
  <2> SUFFICES ASSUME NEW b \in Addresses, NEW u \in Plain!Tasks, Plain!Entered(u, b)',
                      ~Plain!Over(u)', u \notin WaitOns, u \notin readers'[b]
               PROVE  \E w \in Plain!Tasks : u <= w /\ Plain!Writes(w, b)'
                        /\ Plain!Entered(w, b)' /\ Plain!Latest(w, b)'
    BY DEF Plain!LastInv
  <2>1. \A x \in Plain!Tasks : Plain!Entered(x, b) => x # t
    BY <1>4, PlainNames DEF Plain!Entered
  <2>2. Plain!Entered(u, b) /\ ~Plain!Over(u) /\ u \notin readers[b]
    BY <1>3, <1>9, <1>11, <2>1
  <2>3. PICK w \in Plain!Tasks : u <= w /\ Plain!Writes(w, b) /\ Plain!Entered(w, b)
               /\ Plain!Latest(w, b)
    BY <2>2 DEF Plain!LastInv
  <2>4. w = lastWriter[b]
    BY <1>3, <2>3 DEF Plain!Latest, Plain!StageInv
  <2>5. Plain!Latest(w, b)'
    BY <1>3, <2>4 DEF Plain!Latest
  <2> QED
    BY <1>8, <1>9, <2>1, <2>3, <2>5
<1>19. Plain!StageInv'
  <2> SUFFICES ASSUME NEW v \in Plain!Tasks
               PROVE  /\ v > task' => stage'[v] = "unborn"
                           /\ \A a \in Addresses : ~Plain!Uses(v, a)'
                      /\ v <= task' => stage'[v] # "unborn"
                      /\ v \in WaitOns => /\ stage'[v] \in {"unborn", "submitted", "ready", "gone"}
                                          /\ v < task' \/ (v = task' /\ spc' = "next")
                                               => stage'[v] = "gone"
    BY DEF Plain!StageInv
  <2>1. CASE v = t
    <3>1. ~(v > task') /\ ~(v < task')
      BY <1>1, <2>1, PlainNames
    <3> QED
      BY <1>3, <1>5, <2>1, <3>1
  <2>2. CASE t < v
    <3>1. v > task /\ v > task' /\ ~(v <= task') /\ ~(v < task') /\ v # task'
      BY <1>1, <2>2, PlainNames DEF Plain!TypeOK
    <3>2. stage[v] = "unborn" /\ \A a \in Addresses : ~Plain!Uses(v, a)
      BY <3>1 DEF Plain!StageInv
    <3>3. v # t
      BY <2>2, PlainNames
    <3> QED
      BY <1>5, <1>8, <3>1, <3>2, <3>3
  <2>3. CASE v < t
    <3>1. v <= task /\ ~(v > task') /\ v # t
      BY <1>1, <2>3, PlainNames
    <3>2. stage[v] # "unborn"
      BY <3>1 DEF Plain!StageInv
    <3>3. v < task \/ v = task
      BY <3>1, PlainNames DEF Plain!TypeOK
    <3>4. v \in WaitOns => stage[v] = "gone"
      BY <1>3, <3>3 DEF Plain!StageInv
    <3> QED
      BY <1>5, <3>1, <3>2, <3>4
  <2> QED
    BY <2>1, <2>2, <2>3, PlainNames
<1>20. Plain!PlaceInv'
  <2>1. \A b \in todo' : Plain!Uses(t, b)'
    BY <1>2, <1>5 DEF Plain!Uses
  <2> QED
    BY <1>1, <1>3, <1>5, <2>1 DEF Plain!PlaceInv, Plain!PlainPlaces
<1> QED
  BY <1>6, <1>12, <1>13, <1>14, <1>15, <1>16, <1>17, <1>18, <1>19, <1>20

-----------------------------------------------------------------------------
(* What is for commutation objects is never reached. *)
LEMMA Elsewhere ==
  ASSUME Plain!Inductive
  PROVE  /\ ~Plain!Join /\ ~Plain!Own /\ ~Plain!ResetReferences /\ ~Plain!Release
         /\ ~Plain!Initial /\ ~Plain!Gather /\ ~Plain!Front /\ ~Plain!Target /\ ~Plain!Grow
              /\ ~Plain!Create /\ ~Plain!Append /\ ~Plain!Drop
         /\ \A r \in Plain!Runners : ~Plain!Closing(r)
<1>1. spc \in Plain!PlainPlaces /\ \A r \in Plain!Runners : cpc[r] = "idle"
  BY DEF Plain!Inductive, Plain!PlaceInv
<1>2. ~Plain!Join /\ ~Plain!Own /\ ~Plain!ResetReferences /\ ~Plain!Release
  BY <1>1 DEF Plain!PlainPlaces, Plain!Join, Plain!Own, Plain!ResetReferences, Plain!Release
<1>3. ~Plain!Initial /\ ~Plain!Gather /\ ~Plain!Front /\ ~Plain!Target
  BY <1>1 DEF Plain!PlainPlaces, Plain!Initial, Plain!Gather, Plain!Front, Plain!Target
<1>4. ~Plain!Grow /\ ~Plain!Create /\ ~Plain!Append /\ ~Plain!Drop
  BY <1>1 DEF Plain!PlainPlaces, Plain!Grow, Plain!Create, Plain!Append, Plain!Drop
<1>5. ASSUME NEW r \in Plain!Runners, Plain!Closing(r) PROVE FALSE
  BY <1>1, <1>5 DEF Plain!Closing, Plain!Check, Plain!Clear, Plain!Ref, Plain!Unref,
       Plain!CommWriters, Plain!CommSuccessor, Plain!CommFinished
<1> QED
  BY <1>2, <1>3, <1>4, <1>5

LEMMA PlainStep ==
  ASSUME Plain!Inductive, Plain!Next
  PROVE  Plain!Inductive'
<1>1. CASE Plain!Submitter
  <2>1. CASE Plain!Submit
    BY <2>1, SubmitStep
  <2>2. CASE Plain!SubmitAccess
    BY <2>2, SubmitAccessStep
  <2>3. CASE Plain!Done
    BY <2>3, DoneStep
  <2>4. CASE Plain!Wait
    BY <2>4, WaitStep
  <2>5. CASE Plain!Finalize
    BY <2>5, FinalizeStep
  <2>6. CASE Plain!Look
    BY <2>6, LookStep
  <2>7. CASE Plain!Link
    BY <2>7, LinkStep
  <2>8. CASE Plain!Versions
    BY <2>8, VersionsStep
  <2>9. CASE Plain!Readers
    BY <2>9, ReadersStep
  <2>10. CASE Plain!Write
    BY <2>10, WriteStep
  <2>11. CASE Plain!Read
    BY <2>11, ReadStep
  <2> QED
    BY <1>1, <2>1, <2>2, <2>3, <2>4, <2>5, <2>6, <2>7, <2>8, <2>9, <2>10, <2>11, Elsewhere
         DEF Plain!Submitter
<1>2. ASSUME NEW t \in Plain!Tasks, Plain!Finishing(t) PROVE Plain!Inductive'
  <2>1. CASE Plain!Run(t)
    BY <2>1, RunStep
  <2>2. CASE Plain!ReleaseImmediateSuccessor(t)
    BY <2>2, ReleaseImmediateSuccessorStep
  <2>3. CASE Plain!DeleteLastWriter(t)
    BY <2>3, DeleteLastWriterStep
  <2>4. CASE Plain!DeleteReader(t)
    BY <2>4, DeleteReaderStep
  <2>5. CASE Plain!StartSuccessors(t)
    BY <2>5, StartSuccessorsStep
  <2>6. CASE Plain!Successor(t)
    BY <2>6, SuccessorStep
  <2>7. CASE Plain!Delete(t)
    BY <2>7, DeleteStep
  <2> QED
    BY <1>2, <2>1, <2>2, <2>3, <2>4, <2>5, <2>6, <2>7 DEF Plain!Finishing
<1> QED
  BY <1>1, <1>2, Elsewhere DEF Plain!Next

LEMMA PlainStart ==
  ASSUME Plain!Init
  PROVE  Plain!Inductive
<1>1. addr \in Addresses
  BY PlainAssumption DEF Plain!Init
<1>2. Plain!TypeOK
  <2>1. /\ acc \in [Plain!Tasks -> [Addresses -> Accesses \cup {"none"}]]
        /\ target \in [Plain!Comms -> Addresses] /\ kind \in [Plain!Comms -> Plain!Shared]
             /\ refs \in [Plain!Comms -> Int]
    BY PlainAssumption DEF Plain!Init, Plain!Shared
  <2>2. /\ preds \in [Plain!Objects -> Nat] /\ task \in 0..Submissions /\ made \in 0..0
        /\ stage \in [Plain!Tasks -> {"unborn", "submitted", "ready", "ended", "writers",
             "readers", "succs", "gone"}]
        /\ spc \in Plain!Places
    BY PlainNames DEF Plain!Init, Plain!Places
  <2>3. /\ cpc \in [Plain!Runners -> {"idle", "check", "clear", "ref", "unref", "writers", "succs"}]
        /\ count \in [Plain!Runners -> Int]
             /\ in \in [Plain!Runners -> Plain!Comms \cup {Plain!None}]
    BY DEF Plain!Init
  <2> QED
    BY <1>1, <2>1, <2>2, <2>3 DEF Plain!Init, Plain!TypeOK
<1>3. /\ \A t \in Plain!Tasks : stage[t] = "unborn" /\ succs[t] = {} /\ preds[t] = 0
           /\ ~Plain!Started(t)
      /\ \A t \in Plain!Tasks : \A a \in Addresses : ~Plain!Uses(t, a) /\ ~Plain!Entered(t, a)
      /\ \A a \in Addresses : lastWriter[a] = Plain!None /\ readers[a] = {}
      /\ spc = "next" /\ task = 0 /\ todo = {} /\ \A r \in Plain!Runners : cpc[r] = "idle"
  BY PlainNames DEF Plain!Init, Plain!Started, Plain!Uses, Plain!Entered
<1>4. \A p \in Plain!Tasks : Plain!Outstanding(p) = {}
  BY <1>3, OutstandingOf
<1>5. Plain!OrderInv /\ Plain!CoverInv /\ Plain!CountInv /\ Plain!EdgeInv
  BY <1>3, <1>4 DEF Plain!OrderInv, Plain!CoverInv, Plain!CountInv, Plain!PredsExact, Plain!EdgeInv
<1>6. Plain!WriterInv /\ Plain!ReaderInv /\ Plain!LastInv
  BY <1>3 DEF Plain!WriterInv, Plain!ReaderInv, Plain!LastInv
<1>7. Plain!StageInv
  <2>1. \A t \in Plain!Tasks : t > 0 /\ ~(t <= 0) /\ ~(t < 0) /\ t # 0
    BY PlainNames
  <2> QED
    BY <1>3, <2>1 DEF Plain!StageInv
<1>8. Plain!PlaceInv
  BY <1>3 DEF Plain!PlaceInv, Plain!PlainPlaces
<1> QED
  BY <1>2, <1>5, <1>6, <1>7, <1>8 DEF Plain!Inductive

LEMMA PlainStutter ==
  ASSUME Plain!Inductive, UNCHANGED Plain!vars
  PROVE  Plain!Inductive'
<1> USE DEF Plain!Inductive
<1>1. /\ UNCHANGED <<acc, stage, preds, succs, lastWriter, readers, spc, task, todo, addr, seen,
           cpc, pending>>
      /\ UNCHANGED <<commDO, made, target, kind, refs, comm, first, in, count, left, lost>>
  BY DEF Plain!vars, Plain!tracked, Plain!objects, Plain!submitter, Plain!closing
<1>2. Plain!TypeOK'
  BY <1>1 DEF Plain!TypeOK
<1>3. /\ \A p \in Plain!Tasks : Plain!Outstanding(p)' = Plain!Outstanding(p)
      /\ \A v, a : Plain!Entered(v, a)' <=> Plain!Entered(v, a)
      /\ \A v : Plain!BeingSubmitted(v)' <=> Plain!BeingSubmitted(v)
  BY <1>1, OutstandingOf, SameEntries
<1>4. \A v \in Plain!Tasks : (Plain!Over(v)' <=> Plain!Over(v))
      /\ (Plain!Started(v)' <=> Plain!Started(v))
  BY <1>1 DEF Plain!Over, Plain!Started
<1>5. Plain!OrderInv' /\ Plain!CoverInv'
  BY <1>1, <1>3, <1>4, OrderKept
<1>6. Plain!CountInv' /\ Plain!EdgeInv'
  <2>1. \A v \in Plain!Tasks : Plain!Tellers(v)' = Plain!Tellers(v)
    BY <1>3, PlainNames DEF Plain!Tellers
  <2>2. Plain!CountInv'
    BY <1>1, <1>3, <2>1, Counted, CountKept DEF Plain!CountInv
  <2>3. Plain!EdgeInv'
    BY <1>1, <1>3 DEF Plain!EdgeInv
  <2> QED
    BY <2>2, <2>3
<1>7. Plain!WriterInv' /\ Plain!ReaderInv' /\ Plain!LastInv'
  <2>1. \A a \in Addresses : lastWriter[a] # Plain!None
    => stage[lastWriter[a]] \in {"submitted", "ready", "ended", "writers"}
    BY DEF Plain!WriterInv
  <2>2. \A a \in Addresses : \A r \in readers[a] : r \in Plain!Tasks
    /\ stage[r] \notin {"unborn", "succs", "gone"}
    BY DEF Plain!ReaderInv, Plain!TypeOK
  <2>3. \A a, w : Plain!Latest(w, a)' <=> Plain!Latest(w, a)
    BY <1>1 DEF Plain!Latest
  <2> QED
    BY <1>1, <1>3, <1>4, <2>1, <2>2, <2>3, TrackingKept
<1>8. Plain!StageInv' /\ Plain!PlaceInv'
  BY <1>1, <1>3, <1>4, PlaceKept
<1> QED
  BY <1>2, <1>5, <1>6, <1>7, <1>8

LEMMA PlainInductive == PlainSpec => [](part = "plain" /\ Plain!Inductive)
<1>1. PlainInit => part = "plain" /\ Plain!Inductive
  BY PlainStart DEF PlainInit
<1>2. part = "plain" /\ Plain!Inductive /\ [PlainNext]_<<part, Plain!vars>>
      => (part = "plain" /\ Plain!Inductive)'
  <2> SUFFICES ASSUME part = "plain", Plain!Inductive, [PlainNext]_<<part, Plain!vars>>
               PROVE  part' = "plain" /\ Plain!Inductive'
    OBVIOUS
  <2>1. CASE PlainNext
    BY <2>1, PlainStep DEF PlainNext
  <2>2. CASE UNCHANGED <<part, Plain!vars>>
    BY <2>2, PlainStutter
  <2> QED
    BY <2>1, <2>2
<1> QED
  BY <1>1, <1>2, PTL DEF PlainSpec

(* For plain accesses, at any number of tasks and addresses: no edge is counted twice, told
   twice or lost (addSuccessor, decreasePredecessors), though the submitter reads the last
   writer and then locks it, and no record leads to a deleted object (finished). *)
THEOREM PlainRecordsHold == PlainSpec => []PlainRecords
<1>1. Plain!Inductive => Plain!PredsExact /\ Plain!NoDangling
  <2> SUFFICES ASSUME Plain!Inductive PROVE Plain!PredsExact /\ Plain!NoDangling
    OBVIOUS
  <2>1. \A a \in Addresses : lastWriter[a] \in Plain!Tasks => stage[lastWriter[a]] # "gone"
    BY PlainNames DEF Plain!Inductive, Plain!WriterInv
  <2>2. \A a \in Addresses : \A t \in readers[a] : stage[t] \notin {"succs", "gone"}
    BY DEF Plain!Inductive, Plain!ReaderInv
  <2>3. \A p \in Plain!Objects : \A t \in Plain!Outstanding(p) \cap Plain!Tasks :
    stage[t] = "submitted"
    BY PlainNames DEF Plain!Inductive, Plain!EdgeInv
  <2> QED
    BY <2>1, <2>2, <2>3 DEF Plain!Inductive, Plain!CountInv, Plain!NoDangling
<1>2. part = "plain" /\ Plain!Inductive => PlainRecords
  BY <1>1 DEF PlainRecords
<1> QED
  BY <1>2, PlainInductive, PTL

-----------------------------------------------------------------------------
(* The data flow: a step of the domain submits, releases or ends one task, or none. *)

(* Of a step of the data flow only these are seen. *)
LEMMA FlowOf ==
  ASSUME part = "plain", part' = "plain"
  PROVE  /\ flowAcc = acc /\ flowAcc' = acc'
         /\ flowStage = [v \in Plain!Tasks |-> IF Plain!Over(v) THEN "ended" ELSE stage[v]]
         /\ flowStage' = [v \in Plain!Tasks |-> IF Plain!Over(v)' THEN "ended" ELSE stage'[v]]
BY PlainNames DEF flowAcc, flowStage

(* Nothing is seen of a step in which nobody starts or ends. *)
LEMMA FlowKept ==
  ASSUME part = "plain", part' = "plain", acc' = acc,
         \A v \in Plain!Tasks : (Plain!Over(v)' <=> Plain!Over(v))
           /\ (Plain!Over(v) \/ stage'[v] = stage[v])
  PROVE  UNCHANGED <<flowAcc, flowStage>>
BY FlowOf

(* A task that starts has nothing to wait for left. *)
LEMMA FlowRelease ==
  ASSUME part = "plain", part' = "plain", Plain!TypeOK, Plain!OrderInv', acc' = acc,
         NEW t \in Plain!Tasks, stage[t] = "submitted", stage'[t] = "ready",
         \A v \in Plain!Tasks : v # t => (Plain!Over(v)' <=> Plain!Over(v))
           /\ (Plain!Over(v) \/ stage'[v] = stage[v])
  PROVE  PlainFlow!Release(t)
<1>1. ~Plain!Over(t) /\ ~Plain!Over(t)' /\ Plain!Started(t)'
  BY DEF Plain!Over, Plain!Started
<1>2. flowStage[t] = "submitted" /\ flowAcc' = flowAcc
  BY <1>1, FlowOf
<1>3. flowStage' = [flowStage EXCEPT ![t] = "ready"]
  BY <1>1, FlowOf
<1>4. ASSUME NEW u \in Plain!Tasks, u < t, PlainFlow!Conflict(u, t)
      PROVE  flowStage[u] = "ended"
  <2>1. PICK a \in Addresses : /\ acc[u][a] # "none" /\ acc[t][a] # "none"
                           /\ <<acc[u][a], acc[t][a]>> # <<"in", "in">>
    BY <1>4, FlowOf DEF PlainFlow!Conflict, PlainFlow!ConflictIn, PlainFlow!Compatible
  <2>2. acc[u][a] \in {"in", "out", "inout"} /\ acc[t][a] \in {"in", "out", "inout"}
    BY <2>1, AccessKinds
  <2>3. Plain!Writes(u, a)' \/ Plain!Writes(t, a)'
    BY <2>1, <2>2 DEF Plain!Writes
  <2>4. Plain!Before(u, t, a)'
    <3>1. u <= u /\ u <= t /\ t <= t
      BY <1>4, PlainNames
    <3> QED
      BY <1>4, <2>1, <2>3, <3>1 DEF Plain!Before, Plain!Uses
  <2>5. Plain!Over(u)' /\ u # t
    BY <1>1, <2>4 DEF Plain!OrderInv
  <2>6. Plain!Over(u)
    BY <2>5
  <2> QED
    BY <2>6, FlowOf
<1> QED
  BY <1>2, <1>3, <1>4, PlainNames DEF PlainFlow!Release

(* A task that is told its last predecessor is over may start. *)
LEMMA FlowTold ==
  ASSUME part = "plain", part' = "plain", Plain!TypeOK, Plain!OrderInv', acc' = acc,
         NEW t \in Plain!Tasks, stage[t] = "submitted", NEW r \in Plain!Runners,
           Plain!Decrease(t, r)
  PROVE  PlainFlow!Next \/ UNCHANGED <<flowAcc, flowStage>>
<1>1. stage' = IF preds[t] = 1 THEN [stage EXCEPT ![t] = "ready"] ELSE stage
  BY DecreaseOf
<1>2. CASE preds[t] = 1
  <2>1. stage'[t] = "ready" /\ \A v \in Plain!Tasks : v # t => stage'[v] = stage[v]
    BY <1>1, <1>2 DEF Plain!TypeOK
  <2>2. \A v \in Plain!Tasks : v # t => (Plain!Over(v)' <=> Plain!Over(v))
    BY <2>1 DEF Plain!Over, Plain!Started
  <2> QED
    BY <2>1, <2>2, FlowRelease, PlainNames DEF PlainFlow!Next
<1>3. CASE preds[t] # 1
  <2>1. stage' = stage
    BY <1>1, <1>3
  <2> QED
    BY <2>1, FlowKept DEF Plain!Over, Plain!Started
<1> QED
  BY <1>2, <1>3

(* A task that was running, or a waitOn that was waiting, ends. *)
LEMMA FlowEnd ==
  ASSUME part = "plain", part' = "plain", acc' = acc,
         NEW t \in Plain!Tasks, stage[t] = "ready", Plain!Over(t)', \A v \in Plain!Tasks : v # t
           => stage'[v] = stage[v]
  PROVE  PlainFlow!End(t)
<1>1. ~Plain!Over(t)
  BY DEF Plain!Over
<1>2. \A v \in Plain!Tasks : v # t => (Plain!Over(v)' <=> Plain!Over(v))
  BY DEF Plain!Over, Plain!Started
<1> QED
  BY <1>1, <1>2, FlowOf DEF PlainFlow!End

LEMMA FlowSubmit ==
  ASSUME part = "plain", part' = "plain", Plain!Inductive, Plain!Submit
  PROVE  PlainFlow!Next
<1> USE DEF Plain!Inductive
<1>1. PICK t \in Plain!Tasks : t = task + 1 /\ \A v \in Plain!Tasks : v < t <=> v <= task
  BY PlainNames DEF Plain!Submit, Plain!TypeOK
<1>2. PICK kinds \in [Addresses -> Accesses \cup {"none"}] : acc' = [acc EXCEPT ![t] = kinds]
  BY <1>1 DEF Plain!Submit
<1>3. stage' = [stage EXCEPT ![t] = "submitted"]
  BY <1>1 DEF Plain!Submit
<1>4. stage[t] = "unborn" /\ \A v \in Plain!Tasks : v < t => stage[v] # "unborn"
  <2>1. t > task
    BY <1>1, PlainNames DEF Plain!TypeOK
  <2> QED
    BY <1>1, <2>1 DEF Plain!StageInv
<1>5. stage'[t] = "submitted" /\ \A v \in Plain!Tasks : v # t => stage'[v] = stage[v]
  BY <1>3 DEF Plain!TypeOK
<1>6. /\ ~Plain!Over(t) /\ ~Plain!Over(t)'
      /\ \A v \in Plain!Tasks : v # t => (Plain!Over(v)' <=> Plain!Over(v))
  BY <1>4, <1>5 DEF Plain!Over, Plain!Started
<1>7. flowStage' = [flowStage EXCEPT ![t] = "submitted"] /\ flowStage[t] = "unborn"
  BY <1>4, <1>5, <1>6, FlowOf
<1>8. \A v \in Plain!Tasks : v < t => flowStage[v] # "unborn"
  BY <1>4, FlowOf
<1>9. flowAcc' = [flowAcc EXCEPT ![t] = kinds]
  BY <1>2, FlowOf
<1>10. PlainFlow!Submit(t)
  BY <1>7, <1>8, <1>9, PlainNames DEF PlainFlow!Submit
<1> QED
  BY <1>10, PlainNames DEF PlainFlow!Next

LEMMA FlowStep ==
  ASSUME part = "plain", part' = "plain", Plain!Inductive, Plain!Inductive', Plain!Next
  PROVE  PlainFlow!Next \/ UNCHANGED <<flowAcc, flowStage>>
<1> USE DEF Plain!Inductive
<1>1. CASE Plain!Submitter
  <2>1. CASE Plain!Submit
    BY <2>1, FlowSubmit
  <2>2. CASE Plain!Done
    <3>1. PICK t \in Plain!Tasks : t = task
      BY <2>2 DEF Plain!Done, Plain!PlaceInv
    <3>2. stage[t] = "submitted" /\ Plain!Decrease(t, 0) /\ acc' = acc
      BY <2>2, <3>1 DEF Plain!Done, Plain!PlaceInv
    <3> QED
      BY <3>2, PlainNames, FlowTold
  <2>3. CASE Plain!Wait
    <3>1. PICK t \in Plain!Tasks : t = task
      BY <2>3 DEF Plain!Wait, Plain!PlaceInv
    <3>2. stage[t] = "ready" /\ stage' = [stage EXCEPT ![t] = "gone"] /\ acc' = acc
      BY <2>3, <3>1 DEF Plain!Wait
    <3>3. stage'[t] = "gone" /\ \A v \in Plain!Tasks : v # t => stage'[v] = stage[v]
      BY <3>2 DEF Plain!TypeOK
    <3>4. PlainFlow!End(t)
      BY <3>2, <3>3, FlowEnd DEF Plain!Over, Plain!Started
    <3> QED
      BY <3>4, PlainNames DEF PlainFlow!Next
  <2>4. CASE Plain!SubmitAccess \/ Plain!Finalize \/ Plain!Look \/ Plain!Link \/ Plain!Versions
    \/ Plain!Readers \/ Plain!Write \/ Plain!Read
    <3>1. acc' = acc /\ stage' = stage
      BY <2>4 DEF Plain!SubmitAccess, Plain!Finalize, Plain!Look, Plain!Link, Plain!Versions,
           Plain!Readers, Plain!Write, Plain!Read
    <3> QED
      BY <3>1, FlowKept DEF Plain!Over, Plain!Started
  <2> QED
    BY <1>1, <2>1, <2>2, <2>3, <2>4, Elsewhere DEF Plain!Submitter
<1>2. ASSUME NEW t \in Plain!Tasks, Plain!Finishing(t)
               PROVE PlainFlow!Next \/ UNCHANGED <<flowAcc, flowStage>>
  <2>1. CASE Plain!Run(t)
    <3>1. stage[t] = "ready" /\ stage' = [stage EXCEPT ![t] = "ended"] /\ acc' = acc
      BY <2>1 DEF Plain!Run
    <3>2. stage'[t] = "ended" /\ \A v \in Plain!Tasks : v # t => stage'[v] = stage[v]
      BY <3>1 DEF Plain!TypeOK
    <3>3. PlainFlow!End(t)
      BY <3>1, <3>2, FlowEnd DEF Plain!Over, Plain!Started
    <3> QED
      BY <3>3, PlainNames DEF PlainFlow!Next
  <2>2. CASE Plain!ReleaseImmediateSuccessor(t)
    <3>1. PICK u \in succs[t] \cap Plain!Tasks :
                 stage' = [stage EXCEPT ![t] = "writers", ![u] = "ready"]
      BY <2>2 DEF Plain!ReleaseImmediateSuccessor
    <3>2. stage[t] = "ended" /\ acc' = acc
      BY <2>2 DEF Plain!ReleaseImmediateSuccessor
    <3>3. u \in Plain!Tasks /\ stage[u] = "submitted"
      <4>1. u \in Plain!Outstanding(t)
        BY <3>1, <3>2, OutstandingOf
      <4> QED
        BY <4>1 DEF Plain!EdgeInv
    <3>4. /\ stage'[u] = "ready" /\ stage'[t] = "writers"
          /\ \A v \in Plain!Tasks : v # t /\ v # u => stage'[v] = stage[v]
      BY <3>1, <3>2, <3>3 DEF Plain!TypeOK
    <3>5. \A v \in Plain!Tasks : v # u => (Plain!Over(v)' <=> Plain!Over(v))
      /\ (Plain!Over(v) \/ stage'[v] = stage[v])
      BY <3>2, <3>4 DEF Plain!Over, Plain!Started
    <3>6. PlainFlow!Release(u)
      BY <3>2, <3>3, <3>4, <3>5, FlowRelease
    <3> QED
      BY <3>3, <3>6, PlainNames DEF PlainFlow!Next
  <2>3. CASE Plain!Successor(t)
    <3>1. PICK o \in pending[t] : Plain!Decrease(o, t)
      BY <2>3 DEF Plain!Successor
    <3>2. o \in Plain!Outstanding(t)
      BY <2>3, OutstandingOf DEF Plain!Successor
    <3>3. o \in Plain!Tasks /\ stage[o] = "submitted" /\ t \in Plain!Runners /\ acc' = acc
      BY <2>3, <3>2, PlainNames DEF Plain!EdgeInv, Plain!Successor
    <3> QED
      BY <3>1, <3>3, FlowTold
  <2>4. CASE Plain!DeleteReader(t)
    <3>1. acc' = acc /\ stage' = stage
      BY <2>4 DEF Plain!DeleteReader
    <3> QED
      BY <3>1, FlowKept DEF Plain!Over, Plain!Started
  <2>5. CASE Plain!DeleteLastWriter(t) \/ Plain!StartSuccessors(t) \/ Plain!Delete(t)
    <3>1. /\ acc' = acc /\ Plain!Over(t) /\ Plain!Over(t)'
          /\ \A v \in Plain!Tasks : v # t => stage'[v] = stage[v]
      BY <2>5 DEF Plain!DeleteLastWriter, Plain!StartSuccessors, Plain!Delete, Plain!Over,
           Plain!Started, Plain!TypeOK
    <3>2. \A v \in Plain!Tasks : v # t => (Plain!Over(v)' <=> Plain!Over(v))
      BY <3>1 DEF Plain!Over, Plain!Started
    <3> QED
      BY <3>1, <3>2, FlowKept
  <2> QED
    BY <1>2, <2>1, <2>2, <2>3, <2>4, <2>5 DEF Plain!Finishing
<1> QED
  BY <1>1, <1>2, Elsewhere DEF Plain!Next

(* The domain keeps the order that the program asked for, whatever it drops: a task starts
   only when those before it that write what it accesses, and those that access what it
   writes, have ended (DependableObject, basedependenciesdomain.hpp). *)
THEOREM PlainFlowHolds == PlainSpec => PlainImplementsDataFlow
<1>1. PlainInit => PlainFlow!Init
  <2> SUFFICES ASSUME PlainInit PROVE PlainFlow!Init
    OBVIOUS
  <2>1. acc = [t \in Plain!Tasks |-> [a \in Addresses |-> "none"]]
    /\ stage = [t \in Plain!Tasks |-> "unborn"] /\ part = "plain"
    BY DEF PlainInit, Plain!Init
  <2>2. \A t \in Plain!Tasks : ~Plain!Over(t)
    BY <2>1 DEF Plain!Over, Plain!Started
  <2> QED
    BY <2>1, <2>2, PlainNames DEF PlainFlow!Init, flowAcc, flowStage
<1>2. /\ part = "plain" /\ Plain!Inductive /\ (part = "plain" /\ Plain!Inductive)'
           /\ [PlainNext]_<<part, Plain!vars>>
      => [PlainFlow!Next]_<<flowAcc, flowStage>>
  <2> SUFFICES ASSUME part = "plain", Plain!Inductive, part' = "plain", Plain!Inductive',
                      [PlainNext]_<<part, Plain!vars>>
               PROVE  PlainFlow!Next \/ UNCHANGED <<flowAcc, flowStage>>
    OBVIOUS
  <2>1. CASE PlainNext
    BY <2>1, FlowStep DEF PlainNext
  <2>2. CASE UNCHANGED <<part, Plain!vars>>
    <3>1. acc' = acc /\ stage' = stage
      BY <2>2 DEF Plain!vars
    <3> QED
      BY <3>1, FlowKept DEF Plain!Over, Plain!Started
  <2> QED
    BY <2>1, <2>2
<1> QED
  BY <1>1, <1>2, PlainInductive, PTL DEF PlainSpec, PlainImplementsDataFlow, PlainFlow!Spec
=============================================================================
