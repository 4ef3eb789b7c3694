-------------------------- MODULE CoherenceProofs --------------------------
(***************************************************************************)
(* For every number of devices, of host threads, of blocks and of tasks:   *)
(* tasks read what was written last, and the directory knows where it is,  *)
(* where nothing is copied back late.                                      *)
(***************************************************************************)
EXTENDS Coherence, FiniteSetTheorems, TLAPS

LEMMA MemoryNames ==
    /\ Host \notin Caches /\ NoCache \notin Caches /\ Host # NoCache
    /\ Caches \cap Hosts = {} /\ Threads = Caches \cup Hosts
BY MemoriesAssumption DEF Host, NoCache, Threads

(* An entry that is there is a record with all fields. *)
LEMMA EntryTypes ==
    ASSUME NEW e \in Entries, e.here
    PROVE  e \in Present
<1>1. ~Absent.here
  BY DEF Absent
<1> QED
  BY <1>1, Zenon DEF Entries

(* It stays one when fields are set, and keeps the others. *)
LEMMA EntryFields ==
    ASSUME NEW e \in Present, NEW n \in Nat, NEW b \in BOOLEAN
    PROVE  /\ [e EXCEPT !.refs = n] \in Present
           /\ [e EXCEPT !.refs = n].refs = n
           /\ [e EXCEPT !.refs = n].version = e.version
           /\ [e EXCEPT !.refs = n].ready = e.ready
           /\ [e EXCEPT !.ready = TRUE] \in Present
           /\ [e EXCEPT !.ready = TRUE].refs = e.refs
           /\ [e EXCEPT !.ready = TRUE].version = e.version
           /\ [e EXCEPT !.version = n] \in Present
           /\ [e EXCEPT !.version = n].version = n
           /\ [e EXCEPT !.version = n].refs = e.refs
           /\ [e EXCEPT !.version = n].ready = e.ready
           /\ [e EXCEPT !.copying = b] \in Present
           /\ [e EXCEPT !.copying = b].version = e.version
           /\ [e EXCEPT !.copying = b].refs = e.refs
           /\ [e EXCEPT !.copying = b].ready = e.ready
           /\ [e EXCEPT !.flushing = b] \in Present
           /\ [e EXCEPT !.flushing = b].version = e.version
           /\ [e EXCEPT !.flushing = b].refs = e.refs
           /\ [e EXCEPT !.flushing = b].ready = e.ready
           /\ [e EXCEPT !.dirty = b] \in Present
           /\ [e EXCEPT !.dirty = b].version = e.version
           /\ [e EXCEPT !.dirty = b].refs = e.refs
           /\ [e EXCEPT !.dirty = b].ready = e.ready
BY DEF Present

(* The memories are right at the start (CoherenceInit). *)
LEMMA MemoryInit == CoherenceInit /\ AtOnce => CoherenceInv
<1> SUFFICES ASSUME CoherenceInit, AtOnce PROVE CoherenceInv
  OBVIOUS
<1>1. (CHOOSE x \in Tags : TRUE) \in Tags
  BY BlocksAssumption
<1>2. MemoryTypeOK
  BY <1>1, MemoryNames DEF CoherenceInit, MemoryTypeOK, Entries, Records, DevicePlaces, HostPlaces
<1>3. \A t \in Threads : pc[t] = "idle"
  BY DEF CoherenceInit
<1>4. \A c \in Caches : \A x \in Tags : ~Entry(c, x).here
  BY DEF CoherenceInit, Entry, Absent
<1>5. \A x \in Tags : owner[x] = NoCache /\ mem[Host][x] = latest[x]
  BY MemoryNames DEF CoherenceInit
<1>6. JobInv /\ HeldInv /\ FetchedInv
  BY <1>3, MemoryNames DEF JobInv, HeldInv, FetchedInv, Busy, Writer
<1>7. OwnerInv /\ KnowsInv /\ VersionInv
  BY <1>3, <1>4, <1>5, MemoryNames DEF OwnerInv, KnowsInv, VersionInv, Busy, Writer, Knows
<1>8. UsedInv
  BY <1>4 DEF UsedInv
<1> QED
  BY <1>2, <1>6, <1>7, <1>8 DEF CoherenceInv

(* A task begins (copyDataIn). *)
LEMMA LookupKeeps ==
  ASSUME AtOnce, CoherenceInv, NEW t \in Threads, NEW j \in Jobs, Lookup(t, j), UNCHANGED setup
  PROVE  CoherenceInv'
<1> DEFINE x == j.tag
<1>1. /\ x \in Tags /\ j.input \in BOOLEAN /\ j.output \in BOOLEAN /\ j.sync \in BOOLEAN
      /\ j.input \/ j.output
      /\ x \in setup.tags
  BY DEF Lookup, Jobs, IsJob
<1>2. MemoryTypeOK /\ JobInv /\ HeldInv /\ OwnerInv /\ KnowsInv /\ FetchedInv /\ VersionInv
  BY DEF CoherenceInv
<1>3. /\ job'[t].tag = x /\ job'[t].input = j.input /\ job'[t].output = j.output
      /\ job'[t].seen = owner[x]
      /\ job' \in [Threads -> Records]
      /\ \A s \in Threads : s # t => job'[s] = job[s]
  <2>1. (t \in Caches /\ ~Entry(t, x).here) \in BOOLEAN
    OBVIOUS
  <2>2. job[t] \in Records /\ owner[x] \in Caches \cup {NoCache}
    BY <1>1, <1>2 DEF MemoryTypeOK
  <2>3. PICK r : r = [job[t] EXCEPT !.tag = x, !.input = j.input, !.output = j.output,
                        !.sync = j.sync, !.seen = owner[x],
                        !.fresh = (t \in Caches /\ ~Entry(t, x).here)]
    OBVIOUS
  <2>4. r \in Records /\ r.tag = x /\ r.input = j.input /\ r.output = j.output /\ r.seen = owner[x]
    BY <1>1, <2>1, <2>2, <2>3 DEF Records
  <2>5. job' = [job EXCEPT ![t] = r]
    BY <2>3 DEF Lookup
  <2> QED
    BY <1>2, <2>4, <2>5 DEF MemoryTypeOK
<1>4. /\ pc[t] = "idle" /\ pc'[t] \in {"hit", "miss", "register"}
      /\ t \in Caches => pc'[t] = IF Entry(t, x).here THEN "hit" ELSE "miss"
      /\ t \in Hosts => pc'[t] = "register"
      /\ \A s \in Threads : s # t => pc'[s] = pc[s]
      /\ pc' \in [Threads -> DevicePlaces \cup HostPlaces]
  BY <1>2, MemoryNames DEF Lookup, Goto, MemoryTypeOK, DevicePlaces, HostPlaces
<1>5. /\ entry' \in [Caches -> [Tags -> Entries]]
      /\ \A c \in Caches : \A y \in Tags : c # t \/ y # x => entry'[c][y] = entry[c][y]
      /\ t \in Caches =>
           /\ entry'[t][x].here /\ entry'[t][x].refs >= 1
           /\ entry[t][x].here => entry'[t][x].version = entry[t][x].version
           /\ ~entry[t][x].here => entry'[t][x].version = 0 /\ entry'[t][x].ready = FALSE
  <2>1. CASE t \in Caches /\ Entry(t, x).here
    <3>1. Entry(t, x) \in Present
      BY <1>1, <1>2, <2>1, EntryTypes DEF MemoryTypeOK, Entry
    <3>2. Entry(t, x).refs + 1 \in Nat /\ Entry(t, x).refs + 1 >= 1
      BY <3>1 DEF Present
    <3>3. PICK e : e = [Entry(t, x) EXCEPT !.refs = Entry(t, x).refs + 1]
      OBVIOUS
    <3>4. e \in Present /\ e.refs = Entry(t, x).refs + 1 /\ e.version = Entry(t, x).version
      BY <3>1, <3>2, <3>3, EntryFields
    <3>5. entry' = [entry EXCEPT ![t] = [entry[t] EXCEPT ![x] = e]]
      BY <2>1, <3>3 DEF Lookup, Entry
    <3>6. e.here /\ e \in Entries
      BY <3>4 DEF Present, Entries
    <3>7. /\ entry' \in [Caches -> [Tags -> Entries]] /\ entry'[t][x] = e
          /\ \A d \in Caches : \A y \in Tags : d # t \/ y # x => entry'[d][y] = entry[d][y]
      BY <1>1, <1>2, <2>1, <3>5, <3>6 DEF MemoryTypeOK
    <3> QED
      BY <2>1, <3>2, <3>4, <3>6, <3>7 DEF Entry
  <2>2. CASE t \in Caches /\ ~Entry(t, x).here
    <3>1. PICK e : e = [here |-> TRUE, ready |-> FALSE, version |-> 0, refs |-> 1,
                        dirty |-> j.output, copying |-> j.input, flushing |-> FALSE]
      OBVIOUS
    <3>2. e \in Entries /\ e.here /\ e.ready = FALSE /\ e.version = 0 /\ e.refs = 1
      BY <1>1, <3>1 DEF Entries, Present
    <3>3. entry' = [entry EXCEPT ![t] = [entry[t] EXCEPT ![x] = e]]
      BY <2>2, <3>1 DEF Lookup, Entry
    <3>4. /\ entry' \in [Caches -> [Tags -> Entries]] /\ entry'[t][x] = e
          /\ \A d \in Caches : \A y \in Tags : d # t \/ y # x => entry'[d][y] = entry[d][y]
      BY <1>1, <1>2, <2>2, <3>2, <3>3 DEF MemoryTypeOK
    <3> QED
      BY <2>2, <3>2, <3>4 DEF Entry
  <2>3. CASE t \notin Caches
    BY <1>2, <2>3 DEF Lookup, MemoryTypeOK, Entry
  <2> QED
    BY <2>1, <2>2, <2>3
<1>6. UNCHANGED <<setup, owner, version, invalidated, mem, latest, moves>>
  BY DEF Lookup, dirVars, dataVars
<1>7. \A s \in Threads : pc[s] # "idle" /\ Tag(s) = x => ~job[s].output /\ ~j.output
  BY DEF Lookup, Conflicts
<1> HIDE DEF x
<1>11. MemoryTypeOK'
  BY <1>1, <1>2, <1>3, <1>4, <1>5, <1>6, MemoryNames DEF MemoryTypeOK, DevicePlaces, HostPlaces
<1>12. JobInv'
  BY <1>1, <1>2, <1>3, <1>4, <1>7 DEF JobInv, Busy, Writer, Tag
<1>13. HeldInv'
  <2> SUFFICES ASSUME NEW c \in Caches
               PROVE  /\ pc'[c] # "idle" => /\ entry'[c][job'[c].tag].here
                                            /\ entry'[c][job'[c].tag].refs >= 1
                      /\ pc'[c] \in {"miss", "drain"} => ~entry'[c][job'[c].tag].ready
                      /\ pc'[c] = "drain" => setup'.through
    BY DEF HeldInv, Tag, Entry
  <2>1. CASE c = t
    BY <1>3, <1>4, <1>5, <2>1 DEF Entry
  <2>2. CASE c # t
    BY <1>1, <1>2, <1>3, <1>4, <1>5, <1>6, <2>2, MemoryNames DEF HeldInv, Tag, Entry, MemoryTypeOK, Records
  <2> QED
    BY <2>1, <2>2
<1>14. OwnerInv'
  <2>1. ASSUME NEW s \in Threads, s # t
        PROVE  pc'[s] = pc[s] /\ job'[s] = job[s]
               /\ \A y \in Tags : (Busy(s, y)' <=> Busy(s, y)) /\ (Writer(s, y)' <=> Writer(s, y))
    BY <1>3, <1>4, <2>1 DEF Busy, Writer, Tag
  <2>2. pc[t] \notin Published /\ pc'[t] \notin Published /\ pc'[t] \notin {"run", "done", "owned"}
    BY <1>4 DEF Published
  <2>3. ASSUME NEW d \in Caches, NEW y \in Tags, Writer(d, y)', pc'[d] \in Published
        PROVE  owner[y] = d
    <3>1. d # t /\ d \in Threads
      BY <2>2, <2>3, MemoryNames
    <3> QED
      BY <1>2, <2>1, <2>3, <3>1 DEF OwnerInv
  <2>4. ASSUME NEW h \in Hosts, NEW y \in Tags, Busy(h, y)',
               pc'[h] \in {"run", "done"} \/ (pc'[h] = "owned" /\ ~job'[h].input)
        PROVE  owner[y] = NoCache
    <3>1. h # t /\ h \in Threads
      BY <2>2, <2>4, MemoryNames
    <3> QED
      BY <1>2, <2>1, <2>4, <3>1 DEF OwnerInv
  <2>5. ASSUME NEW y \in Tags, setup.through, owner[y] # NoCache
        PROVE  Writer(owner[y], y)' /\ pc'[owner[y]] \in Published
    <3>1. Writer(owner[y], y) /\ pc[owner[y]] \in Published /\ owner[y] \in Threads
      BY <1>2, <2>5, MemoryNames DEF OwnerInv, MemoryTypeOK
    <3>2. PICK d \in Threads : d = owner[y]
      BY <3>1
    <3>3. d # t
      BY <2>2, <3>1, <3>2
    <3>4. Writer(d, y)' /\ pc'[d] \in Published
      BY <2>1, <3>1, <3>2, <3>3
    <3> QED
      BY <1>6, <3>2, <3>4 DEF Writer, Busy, Tag
  <2> QED
    BY <1>6, <2>3, <2>4, <2>5 DEF OwnerInv
<1>15. KnowsInv'
  <2>1. ASSUME NEW y \in Tags, Knows(y) PROVE Knows(y)'
    BY <1>2, <1>5, <1>6, <2>1 DEF Knows, MemoryTypeOK, Entry
  <2>2. ASSUME NEW y \in Tags, NEW s \in Threads, Writer(s, y) PROVE Writer(s, y)' /\ s # t
    BY <1>3, <1>4, <2>2 DEF Busy, Writer, Tag
  <2> QED
    BY <1>2, <1>3, <1>4, <2>1, <2>2 DEF KnowsInv
<1>16. FetchedInv'
  <2>1. ASSUME NEW s \in Threads, s # t
        PROVE  job'[s] = job[s] /\ pc'[s] = pc[s] /\ Tag(s)' = Tag(s) /\ Tag(s) \in Tags
    BY <1>2, <1>3, <1>4, <2>1 DEF Tag, MemoryTypeOK, Records
  <2>2. ASSUME NEW c \in Caches, NEW y \in Tags, Entry(c, y).here PROVE entry'[c][y].here
    BY <1>5, <2>2 DEF Entry
  <2> QED
    BY <1>2, <1>4, <1>6, <2>1, <2>2, MemoryNames DEF FetchedInv, Entry
<1>17. VersionInv'
  <2> SUFFICES ASSUME NEW y \in Tags, NEW c \in Caches, entry'[c][y].here
               PROVE  /\ entry'[c][y].version <= version[y]
                      /\ entry'[c][y].version = version[y] /\ (Busy(c, y)' => pc'[c] = "hit") =>
                           mem[c][y] = latest[y]
                      /\ \A s \in Threads : s # c /\ Writer(s, y)' /\ pc'[s] \in Published =>
                           entry'[c][y].version < version[y]
    BY <1>6 DEF VersionInv, Entry
  <2>1. ASSUME NEW s \in Threads, Writer(s, y)', pc'[s] \in Published
        PROVE  Writer(s, y) /\ pc[s] \in Published
    BY <1>3, <1>4, <2>1 DEF Writer, Busy, Tag, Published
  <2>2. CASE c = t /\ y = x
    <3>1. CASE entry[t][x].here
      <4>1. ~Busy(t, x) /\ (Busy(t, x)' => pc'[t] = "hit")
        BY <1>4, <2>2, <3>1 DEF Busy, Entry
      <4> QED
        BY <1>1, <1>2, <1>5, <2>1, <2>2, <3>1, <4>1 DEF VersionInv, Entry
    <3>2. CASE ~entry[t][x].here
      <4>1. Busy(t, x)' /\ pc'[t] = "miss" /\ entry'[t][x].version = 0 /\ version[x] \in Nat
        BY <1>1, <1>2, <1>3, <1>4, <1>5, <2>2, <3>2 DEF Busy, Tag, Entry, MemoryTypeOK
      <4>2. ~\E s \in Threads : Writer(s, x) /\ pc[s] \in Published
        BY <1>7 DEF Writer, Busy
      <4> QED
        BY <2>1, <2>2, <4>1, <4>2
    <3> QED
      BY <3>1, <3>2
  <2>3. CASE c # t \/ y # x
    <3>1. entry'[c][y] = entry[c][y]
      BY <1>5, <2>3
    <3>2. Busy(c, y) => Busy(c, y)' /\ pc'[c] = pc[c]
      BY <1>3, <1>4 DEF Busy, Tag, Threads
    <3> QED
      BY <1>2, <2>1, <3>1, <3>2 DEF VersionInv, Entry
  <2> QED
    BY <2>2, <2>3
<1>18. UsedInv'
  BY <1>1, <1>2, <1>5, <1>6 DEF CoherenceInv, UsedInv, Entry
<1> QED
  BY <1>11, <1>12, <1>13, <1>14, <1>15, <1>16, <1>17, <1>18 DEF CoherenceInv

(* A step within a task changes nobody's work. *)
LEMMA StepsOn ==
  ASSUME MemoryTypeOK, JobInv, NEW t \in Threads, NEW p \in DevicePlaces \cup HostPlaces,
         p # "idle", pc[t] # "idle", pc' = [pc EXCEPT ![t] = p],
         \A s \in Threads : /\ job'[s].tag = job[s].tag /\ job'[s].input = job[s].input
                            /\ job'[s].output = job[s].output
  PROVE  /\ pc'[t] = p /\ \A s \in Threads : s # t => pc'[s] = pc[s]
         /\ pc' \in [Threads -> DevicePlaces \cup HostPlaces]
         /\ \A s \in Threads : Tag(s)' = Tag(s)
         /\ \A s \in Threads : \A y \in Tags : Busy(s, y)' <=> Busy(s, y)
         /\ \A s \in Threads : \A y \in Tags : Writer(s, y)' <=> Writer(s, y)
         /\ JobInv'
<1>1. /\ pc'[t] = p /\ \A s \in Threads : s # t => pc'[s] = pc[s]
      /\ pc' \in [Threads -> DevicePlaces \cup HostPlaces]
  BY DEF MemoryTypeOK
<1>2. \A s \in Threads : Tag(s)' = Tag(s) /\ (pc'[s] = "idle" <=> pc[s] = "idle")
  BY <1>1 DEF Tag
<1>3. \A s \in Threads : \A y \in Tags : Busy(s, y)' <=> Busy(s, y)
  BY <1>2 DEF Busy
<1>4. \A s \in Threads : \A y \in Tags : Writer(s, y)' <=> Writer(s, y)
  BY <1>3 DEF Writer
<1>5. JobInv'
  BY <1>2, <1>3, <1>4 DEF JobInv
<1> QED
  BY <1>1, <1>2, <1>3, <1>4, <1>5

(* A task has its block for itself if it writes it, and with readers otherwise. *)
LEMMA OwnBlock ==
  ASSUME CoherenceInv, NEW t \in Threads, pc[t] # "idle"
  PROVE  /\ Tag(t) \in Tags /\ Busy(t, Tag(t)) /\ job[t].input \in BOOLEAN /\ job[t].output \in BOOLEAN
         /\ job[t].output => Writer(t, Tag(t))
         /\ \A s \in Threads : Writer(s, Tag(t)) => s = t
         /\ \A s \in Threads : Busy(s, Tag(t)) /\ job[t].output => s = t
         /\ job[t].input => Knows(Tag(t))
<1>1. MemoryTypeOK /\ JobInv /\ KnowsInv
  BY DEF CoherenceInv
<1>2. /\ Tag(t) \in Tags /\ Busy(t, Tag(t)) /\ job[t].input \in BOOLEAN /\ job[t].output \in BOOLEAN
      /\ job[t].output => Writer(t, Tag(t))
  BY <1>1 DEF MemoryTypeOK, Records, Tag, Busy, Writer
<1>3. /\ \A s \in Threads : Writer(s, Tag(t)) => s = t
      /\ \A s \in Threads : Busy(s, Tag(t)) /\ job[t].output => s = t
  BY <1>1, <1>2 DEF JobInv
<1>4. job[t].input => Knows(Tag(t))
  BY <1>1, <1>2, <1>3 DEF KnowsInv
<1> QED
  BY <1>2, <1>3, <1>4

(* The owners stay right when nobody publishes or ends. *)
LEMMA OwnersKept ==
  ASSUME MemoryTypeOK, OwnerInv, UNCHANGED <<setup, owner>>,
         \A s \in Threads : /\ pc'[s] = pc[s] \/ (pc'[s] \notin Published /\ pc[s] \notin Published)
                            /\ job'[s].input = job[s].input
                            /\ \A x \in Tags : (Busy(s, x)' <=> Busy(s, x)) /\ (Writer(s, x)' <=> Writer(s, x))
  PROVE  OwnerInv'
<1>1. \A s \in Threads : pc'[s] \in Published \/ pc[s] \in Published => pc'[s] = pc[s]
  OBVIOUS
<1>2. \A x \in Tags : owner[x] # NoCache => owner[x] \in Threads
  BY MemoryNames DEF MemoryTypeOK
<1> QED
  BY <1>1, <1>2, MemoryNames DEF OwnerInv, Published

(* So does the directory when nobody registers a write, memories get the newest or nothing,
   and owners keep their entries. *)
LEMMA KnowledgeKept ==
  ASSUME MemoryTypeOK, KnowsInv, UNCHANGED <<owner, latest>>,
         \A s \in Threads :
            /\ pc[s] \in {"inputs", "run", "owned"} => pc'[s] \in {"inputs", "run", "owned"}
            /\ job'[s].input = job[s].input
            /\ \A x \in Tags : Writer(s, x) => Writer(s, x)',
         \A x \in Tags : \A m \in Caches \cup {Host} :
            mem'[m][x] = mem[m][x] \/ mem'[m][x] = latest[x],
         \A x \in Tags : owner[x] \in Caches /\ Entry(owner[x], x).here =>
            entry'[owner[x]][x].here
  PROVE  KnowsInv'
<1>1. ASSUME NEW x \in Tags, Knows(x) PROVE Knows(x)'
  <2>1. owner[x] \in Caches \cup {NoCache}
    BY DEF MemoryTypeOK
  <2> QED
    BY <1>1, <2>1 DEF Knows, Entry
<1> QED
  BY <1>1 DEF KnowsInv

(* A cache with room for all blocks is not full at a miss (freeSpaceToFit). *)
LEMMA RoomForAll ==
  ASSUME AtOnce, CoherenceInv, NEW c \in Caches, pc[c] = "miss", Used(c) >= setup.room
  PROVE  setup.through
<1> SUFFICES ASSUME setup.room >= Cardinality(setup.tags) PROVE FALSE
  BY DEF AtOnce
<1>1. MemoryTypeOK /\ HeldInv /\ UsedInv /\ c \in Threads
  BY MemoryNames DEF CoherenceInv
<1>2. Tag(c) \in Tags /\ ~Entry(c, Tag(c)).ready /\ Entry(c, Tag(c)).here
  BY <1>1 DEF HeldInv, MemoryTypeOK, Records, Tag
<1>3. Tag(c) \in setup.tags /\ IsFiniteSet(setup.tags) /\ setup.room \in Nat
  BY <1>1, <1>2, BlocksAssumption, FS_Subset DEF UsedInv, MemoryTypeOK
<1> DEFINE U == {x \in Tags : Entry(c, x).here /\ Entry(c, x).ready}
           rest == setup.tags \ {Tag(c)}
<1>4. U \subseteq rest
  BY <1>1, <1>2 DEF UsedInv
<1>5. /\ IsFiniteSet(rest) /\ Cardinality(rest) = Cardinality(setup.tags) - 1
      /\ Cardinality(rest) \in Nat /\ Cardinality(setup.tags) \in Nat
  BY <1>3, FS_RemoveElement, FS_CardinalityType
<1>6. Cardinality(U) <= Cardinality(rest) /\ Cardinality(U) \in Nat
  BY <1>4, <1>5, FS_Subset, FS_CardinalityType
<1>7. Used(c) = Cardinality(U)
  BY DEF Used
<1> HIDE DEF U, rest
<1> QED
  BY <1>3, <1>5, <1>6, <1>7

(* An entry is given up only where blocks are written through, and goes to nobody's loss
   (freeSpaceToFit). *)
LEMMA EvictKeeps ==
  ASSUME AtOnce, CoherenceInv, NEW c \in Caches, NEW y \in Tags, Evict(c, y), UNCHANGED setup
  PROVE  CoherenceInv'
<1>1. /\ MemoryTypeOK /\ JobInv /\ HeldInv /\ OwnerInv /\ KnowsInv /\ FetchedInv
      /\ VersionInv
  BY DEF CoherenceInv
<1>2. /\ pc[c] = "miss" /\ Used(c) >= setup.room /\ c \in Threads
      /\ job' = [job EXCEPT ![c].victim = y]
      /\ UNCHANGED <<setup, owner, version, invalidated, mem, latest, moves>>
  BY MemoryNames DEF Evict, dirVars, dataVars
<1>3. setup.through
  BY <1>2, RoomForAll
<1>4. owner[y] # c
  BY <1>1, <1>2, <1>3, MemoryNames DEF OwnerInv, Published
<1>5. entry' = entry /\ pc' = [pc EXCEPT ![c] = "drain"]
  BY <1>4 DEF Evict, Goto
<1>6. /\ job' \in [Threads -> Records]
      /\ \A s \in Threads : /\ job'[s].tag = job[s].tag /\ job'[s].input = job[s].input
                            /\ job'[s].output = job[s].output /\ job'[s].seen = job[s].seen
  BY <1>1, <1>2 DEF MemoryTypeOK, Records
<1>7. /\ pc'[c] = "drain" /\ \A s \in Threads : s # c => pc'[s] = pc[s]
      /\ pc' \in [Threads -> DevicePlaces \cup HostPlaces]
      /\ \A s \in Threads : Tag(s)' = Tag(s)
      /\ \A s \in Threads : \A x \in Tags : Busy(s, x)' <=> Busy(s, x)
      /\ \A s \in Threads : \A x \in Tags : Writer(s, x)' <=> Writer(s, x)
      /\ JobInv'
  BY <1>1, <1>2, <1>5, <1>6, StepsOn DEF DevicePlaces
<1>11. MemoryTypeOK'
  BY <1>1, <1>2, <1>5, <1>6, <1>7, MemoryNames DEF MemoryTypeOK, DevicePlaces
<1>13. HeldInv'
  BY <1>1, <1>2, <1>3, <1>5, <1>7, MemoryNames DEF HeldInv, Entry
<1>14. OwnerInv'
  BY <1>1, <1>2, <1>6, <1>7, OwnersKept DEF Published
<1>15. KnowsInv'
  BY <1>1, <1>2, <1>5, <1>6, <1>7, KnowledgeKept DEF Entry
<1>16. FetchedInv'
  BY <1>1, <1>2, <1>5, <1>6, <1>7, MemoryNames DEF FetchedInv, Entry
<1>17. VersionInv'
  BY <1>1, <1>2, <1>5, <1>6, <1>7, MemoryNames DEF VersionInv, Published, Entry
<1>18. UsedInv'
  BY <1>2, <1>5 DEF CoherenceInv, UsedInv, Entry
<1> QED
  BY <1>7, <1>11, <1>13, <1>14, <1>15, <1>16, <1>17, <1>18 DEF CoherenceInv

(* The entry that nobody uses goes. *)
LEMMA EraseKeeps ==
  ASSUME AtOnce, CoherenceInv, NEW c \in Caches, Erase(c), UNCHANGED setup
  PROVE  CoherenceInv'
<1> DEFINE y == job[c].victim
<1>1. /\ MemoryTypeOK /\ JobInv /\ HeldInv /\ OwnerInv /\ KnowsInv /\ FetchedInv
      /\ VersionInv
  BY DEF CoherenceInv
<1>2. /\ pc[c] = "drain" /\ c \in Threads /\ job' = job /\ setup.through
      /\ UNCHANGED <<setup, owner, version, invalidated, mem, latest, moves>>
      /\ pc' = [pc EXCEPT ![c] = "miss"]
  BY <1>1, MemoryNames DEF Erase, dirVars, dataVars, Goto, HeldInv
<1>3. y \in Tags /\ Tag(c) \in Tags
  BY <1>1, <1>2 DEF MemoryTypeOK, Records, Tag
<1>4. /\ entry' \in [Caches -> [Tags -> Entries]]
      /\ \A d \in Caches : \A x \in Tags : entry'[d][x] = entry[d][x] \/
            (d = c /\ x # Tag(c) /\ ~entry'[d][x].here)
  <2>1. CASE Entry(c, y).refs = 0
    <3>1. entry' = [entry EXCEPT ![c][y] = Absent]
      BY <2>1 DEF Erase
    <3>2. Absent \in Entries /\ ~Absent.here
      BY DEF Entries, Absent
    <3>3. /\ entry' \in [Caches -> [Tags -> Entries]] /\ entry'[c][y] = Absent
          /\ \A d \in Caches : \A x \in Tags : d # c \/ x # y => entry'[d][x] = entry[d][x]
      BY <1>1, <1>3, <3>1, <3>2 DEF MemoryTypeOK
    <3>4. y # Tag(c)
      BY <1>1, <1>2, <2>1 DEF HeldInv
    <3> QED
      BY <3>2, <3>3, <3>4
  <2>2. CASE Entry(c, y).refs # 0
    BY <1>1, <2>2 DEF Erase, MemoryTypeOK
  <2> QED
    BY <2>1, <2>2
<1> HIDE DEF y
<1>5. \A x \in Tags : owner[x] # c
  BY <1>1, <1>2, MemoryNames DEF OwnerInv, Published
<1>7. /\ pc'[c] = "miss" /\ \A s \in Threads : s # c => pc'[s] = pc[s]
      /\ pc' \in [Threads -> DevicePlaces \cup HostPlaces]
      /\ \A s \in Threads : Tag(s)' = Tag(s)
      /\ \A s \in Threads : \A x \in Tags : Busy(s, x)' <=> Busy(s, x)
      /\ \A s \in Threads : \A x \in Tags : Writer(s, x)' <=> Writer(s, x)
      /\ JobInv'
  BY <1>1, <1>2, StepsOn DEF DevicePlaces
<1>11. MemoryTypeOK'
  BY <1>1, <1>2, <1>4, <1>7, MemoryNames DEF MemoryTypeOK, DevicePlaces
<1>13. HeldInv'
  <2> SUFFICES ASSUME NEW d \in Caches
               PROVE  /\ pc'[d] # "idle" => entry'[d][Tag(d)].here /\ entry'[d][Tag(d)].refs >= 1
                      /\ pc'[d] \in {"miss", "drain"} => ~entry'[d][Tag(d)].ready
                      /\ pc'[d] = "drain" => setup.through
    BY <1>2, <1>7, MemoryNames DEF HeldInv, Entry
  <2>1. entry'[d][Tag(d)] = entry[d][Tag(d)]
    BY <1>1, <1>4, MemoryNames DEF MemoryTypeOK, Records, Tag
  <2> QED
    BY <1>1, <1>2, <1>7, <2>1, MemoryNames DEF HeldInv, Entry
<1>14. OwnerInv'
  BY <1>1, <1>2, <1>7, OwnersKept DEF Published
<1>15. KnowsInv'
  BY <1>1, <1>2, <1>4, <1>5, <1>7, KnowledgeKept DEF Entry
<1>16. FetchedInv'
  BY <1>1, <1>2, <1>7, MemoryNames DEF FetchedInv
<1>17. VersionInv'
  BY <1>1, <1>2, <1>4, <1>7, MemoryNames DEF VersionInv, Published, Entry
<1>18. UsedInv'
  BY <1>2, <1>4 DEF CoherenceInv, UsedInv, Entry
<1> QED
  BY <1>7, <1>11, <1>13, <1>14, <1>15, <1>16, <1>17, <1>18 DEF CoherenceInv

(* The access misses, and the block gets its place (the end of registerAccess's loop). *)
LEMMA AllocateKeeps ==
  ASSUME AtOnce, CoherenceInv, NEW c \in Caches, Allocate(c), UNCHANGED setup
  PROVE  CoherenceInv'
<1> DEFINE x == Tag(c)
<1>1. /\ MemoryTypeOK /\ JobInv /\ HeldInv /\ OwnerInv /\ KnowsInv /\ FetchedInv
      /\ VersionInv
  BY DEF CoherenceInv
<1>2. /\ pc[c] = "miss" /\ c \in Threads
      /\ job' = [job EXCEPT ![c].seen = owner[x]]
      /\ UNCHANGED <<setup, owner, version, mem, latest, moves>>
      /\ pc' = [pc EXCEPT ![c] = IF job[c].input THEN "fetch" ELSE "publish"]
      /\ invalidated' = [invalidated EXCEPT ![x] = @ \/ (job[c].output /\ owner[x] # NoCache)]
  BY MemoryNames DEF Allocate, dataVars, Goto, SeeOwner
<1>3. /\ x \in Tags /\ job[c].input \in BOOLEAN /\ Busy(c, x)
      /\ \A s \in Threads : Writer(s, x) => s = c
      /\ job[c].input => Knows(x)
  BY <1>2, OwnBlock
<1>4. /\ entry' \in [Caches -> [Tags -> Entries]]
      /\ entry'[c][x].here /\ entry'[c][x].refs = entry[c][x].refs
      /\ entry'[c][x].version = entry[c][x].version /\ entry[c][x].here
      /\ \A d \in Caches : \A y \in Tags : d # c \/ y # x => entry'[d][y] = entry[d][y]
  <2>1. Entry(c, x) \in Present
    BY <1>1, <1>2, <1>3, EntryTypes DEF MemoryTypeOK, Entry, HeldInv
  <2>2. PICK e : e = [Entry(c, x) EXCEPT !.ready = TRUE]
    OBVIOUS
  <2>3. e \in Present /\ e.refs = Entry(c, x).refs /\ e.version = Entry(c, x).version
    BY <2>1, <2>2, EntryFields
  <2>4. entry' = [entry EXCEPT ![c] = [entry[c] EXCEPT ![x] = e]]
    BY <2>2 DEF Allocate, Entry
  <2>5. e.here /\ e \in Entries /\ Entry(c, x).here
    BY <2>1, <2>3 DEF Present, Entries
  <2>6. /\ entry' \in [Caches -> [Tags -> Entries]] /\ entry'[c][x] = e
        /\ \A d \in Caches : \A y \in Tags : d # c \/ y # x => entry'[d][y] = entry[d][y]
    BY <1>1, <1>3, <2>4, <2>5 DEF MemoryTypeOK
  <2> QED
    BY <2>3, <2>5, <2>6 DEF Entry
<1>6. /\ job' \in [Threads -> Records] /\ job'[c].seen = owner[x]
      /\ \A s \in Threads : /\ job'[s].tag = job[s].tag /\ job'[s].input = job[s].input
                            /\ job'[s].output = job[s].output
                            /\ s # c => job'[s] = job[s]
  BY <1>1, <1>2, <1>3 DEF MemoryTypeOK, Records
<1>7. /\ pc'[c] = (IF job[c].input THEN "fetch" ELSE "publish")
      /\ \A s \in Threads : s # c => pc'[s] = pc[s]
      /\ pc' \in [Threads -> DevicePlaces \cup HostPlaces]
      /\ \A s \in Threads : Tag(s)' = Tag(s)
      /\ \A s \in Threads : \A y \in Tags : Busy(s, y)' <=> Busy(s, y)
      /\ \A s \in Threads : \A y \in Tags : Writer(s, y)' <=> Writer(s, y)
      /\ JobInv'
  <2>1. PICK p : p = IF job[c].input THEN "fetch" ELSE "publish"
    OBVIOUS
  <2>2. p \in DevicePlaces \cup HostPlaces /\ p # "idle" /\ pc[c] # "idle"
    BY <1>2, <2>1 DEF DevicePlaces
  <2>3. pc' = [pc EXCEPT ![c] = p]
    BY <1>2, <2>1
  <2>4. \A s \in Threads : /\ job'[s].tag = job[s].tag /\ job'[s].input = job[s].input
                           /\ job'[s].output = job[s].output
    BY <1>6
  <2>5. /\ pc'[c] = p
        /\ \A s \in Threads : s # c => pc'[s] = pc[s]
        /\ pc' \in [Threads -> DevicePlaces \cup HostPlaces]
        /\ \A s \in Threads : Tag(s)' = Tag(s)
        /\ \A s \in Threads : \A y \in Tags : Busy(s, y)' <=> Busy(s, y)
        /\ \A s \in Threads : \A y \in Tags : Writer(s, y)' <=> Writer(s, y)
        /\ JobInv'
    <3> HIDE DEF x
    <3> QED
      BY <1>1, <1>2, <2>2, <2>3, <2>4, StepsOn
  <2> QED
    BY <2>1, <2>5
<1> HIDE DEF x
<1>8. Tag(c) = x /\ \A s \in Threads : Tag(s) \in Tags
  BY <1>1 DEF x, MemoryTypeOK, Records, Tag
<1>11. MemoryTypeOK'
  BY <1>1, <1>2, <1>3, <1>4, <1>6, <1>7, MemoryNames DEF MemoryTypeOK, DevicePlaces
<1>13. HeldInv'
  <2> SUFFICES ASSUME NEW d \in Caches
               PROVE  /\ pc'[d] # "idle" => entry'[d][Tag(d)].here /\ entry'[d][Tag(d)].refs >= 1
                      /\ pc'[d] \in {"miss", "drain"} => ~entry'[d][Tag(d)].ready
                      /\ pc'[d] = "drain" => setup.through
    BY <1>2, <1>7, MemoryNames DEF HeldInv, Entry
  <2>1. CASE d = c
    BY <1>1, <1>2, <1>4, <1>7, <1>8, <2>1 DEF HeldInv, Entry
  <2>2. CASE d # c
    BY <1>1, <1>2, <1>4, <1>7, <1>8, <2>2, MemoryNames DEF HeldInv, Entry
  <2> QED
    BY <2>1, <2>2
<1>14. OwnerInv'
  BY <1>1, <1>2, <1>6, <1>7, OwnersKept DEF Published
<1>15. KnowsInv'
  BY <1>1, <1>2, <1>4, <1>6, <1>7, KnowledgeKept DEF Entry
<1>16. FetchedInv'
  <2>1. pc'[c] = "fetch" => mem[IF owner[x] = NoCache THEN Host ELSE owner[x]][x] = latest[x]
    BY <1>3, <1>7 DEF Knows
  <2> QED
    BY <1>1, <1>2, <1>4, <1>6, <1>7, <1>8, <2>1, MemoryNames DEF FetchedInv, Entry
<1>17. VersionInv'
  BY <1>1, <1>2, <1>3, <1>4, <1>7, MemoryNames DEF VersionInv, Published, Entry
<1>18. UsedInv'
  BY <1>2, <1>4 DEF CoherenceInv, UsedInv, Entry
<1> QED
  BY <1>7, <1>11, <1>13, <1>14, <1>15, <1>16, <1>17, <1>18 DEF CoherenceInv

(* The block has an entry, and is fetched if that is old and the task reads. *)
LEMMA HitKeeps ==
  ASSUME AtOnce, CoherenceInv, NEW c \in Caches, Hit(c), UNCHANGED setup
  PROVE  CoherenceInv'
<1> DEFINE x == Tag(c)
           fetches == entry[c][x].version # version[x] /\ job[c].input
<1>1. /\ MemoryTypeOK /\ JobInv /\ HeldInv /\ OwnerInv /\ KnowsInv /\ FetchedInv
      /\ VersionInv
  BY DEF CoherenceInv
<1>2. /\ pc[c] = "hit" /\ c \in Threads
      /\ UNCHANGED <<setup, owner, version, mem, latest, moves>>
  BY MemoryNames DEF Hit, dataVars, dirVars, SeeOwner
<1>3. /\ x \in Tags /\ job[c].input \in BOOLEAN /\ Busy(c, x)
      /\ \A s \in Threads : Writer(s, x) => s = c
      /\ job[c].input => Knows(x)
  BY <1>2, OwnBlock
<1>4. /\ entry' \in [Caches -> [Tags -> Entries]]
      /\ entry'[c][x].here /\ entry'[c][x].refs = entry[c][x].refs
      /\ entry'[c][x].version = version[x] /\ entry[c][x].here
      /\ \A d \in Caches : \A y \in Tags : d # c \/ y # x => entry'[d][y] = entry[d][y]
  <2>1. Entry(c, x) \in Present /\ version[x] \in Nat
    BY <1>1, <1>2, <1>3, EntryTypes DEF MemoryTypeOK, Entry, HeldInv
  <2>2. PICK e1 : e1 = [Entry(c, x) EXCEPT !.version = version[x]]
    OBVIOUS
  <2>3. e1 \in Present /\ e1.refs = Entry(c, x).refs /\ e1.version = version[x]
    BY <2>1, <2>2, EntryFields
  <2>4. PICK e2 : e2 = [e1 EXCEPT !.copying = TRUE]
    OBVIOUS
  <2>5. e2 \in Present /\ e2.refs = Entry(c, x).refs /\ e2.version = version[x]
    BY <2>1, <2>3, <2>4, EntryFields
  <2>6. PICK e : e = IF fetches THEN e2 ELSE e1
    OBVIOUS
  <2>7. e \in Present /\ e.refs = Entry(c, x).refs /\ e.version = version[x]
    BY <2>3, <2>5, <2>6
  <2>8. entry' = [entry EXCEPT ![c] = [entry[c] EXCEPT ![x] = e]]
    <3>1. CASE fetches
      <4>1. entry' = [entry EXCEPT ![c][x].version = version[x], ![c][x].copying = TRUE]
        BY <3>1 DEF Hit, Entry
      <4> QED
        BY <1>1, <1>3, <2>2, <2>4, <2>6, <3>1, <4>1 DEF Entry, MemoryTypeOK
    <3>2. CASE ~fetches
      BY <2>2, <2>6, <3>2 DEF Hit, Entry
    <3> QED
      BY <3>1, <3>2
  <2>9. e.here /\ e \in Entries /\ Entry(c, x).here
    BY <2>1, <2>7 DEF Present, Entries
  <2>10. /\ entry' \in [Caches -> [Tags -> Entries]] /\ entry'[c][x] = e
         /\ \A d \in Caches : \A y \in Tags : d # c \/ y # x => entry'[d][y] = entry[d][y]
    BY <1>1, <1>3, <2>8, <2>9 DEF MemoryTypeOK
  <2> QED
    BY <2>7, <2>9, <2>10 DEF Entry
<1>5. invalidated' \in [Tags -> BOOLEAN]
  BY <1>1, <1>3 DEF Hit, SeeOwner, dirVars, MemoryTypeOK
<1>6. /\ job' \in [Threads -> Records]
      /\ fetches => job'[c].seen = owner[x]
      /\ \A s \in Threads : /\ job'[s].tag = job[s].tag /\ job'[s].input = job[s].input
                            /\ job'[s].output = job[s].output
                            /\ s # c => job'[s] = job[s]
  <2>1. CASE fetches
    <3>1. job' = [job EXCEPT ![c].seen = owner[x]]
      BY <2>1 DEF Hit, SeeOwner, Entry
    <3> QED
      BY <1>1, <1>2, <1>3, <3>1 DEF MemoryTypeOK, Records
  <2>2. CASE ~fetches
    <3>1. job' = job
      BY <2>2 DEF Hit, Entry
    <3> QED
      BY <1>1, <2>2, <3>1 DEF MemoryTypeOK
  <2> QED
    BY <2>1, <2>2
<1>7. /\ pc'[c] = (IF fetches THEN "fetch" ELSE "publish")
      /\ \A s \in Threads : s # c => pc'[s] = pc[s]
      /\ pc' \in [Threads -> DevicePlaces \cup HostPlaces]
      /\ \A s \in Threads : Tag(s)' = Tag(s)
      /\ \A s \in Threads : \A y \in Tags : Busy(s, y)' <=> Busy(s, y)
      /\ \A s \in Threads : \A y \in Tags : Writer(s, y)' <=> Writer(s, y)
      /\ JobInv'
  <2>1. PICK p : p = IF fetches THEN "fetch" ELSE "publish"
    OBVIOUS
  <2>2. p \in DevicePlaces \cup HostPlaces /\ p # "idle" /\ pc[c] # "idle"
    BY <1>2, <2>1 DEF DevicePlaces
  <2>3. pc' = [pc EXCEPT ![c] = p]
    BY <2>1 DEF Hit, Goto, Entry
  <2>4. \A s \in Threads : /\ job'[s].tag = job[s].tag /\ job'[s].input = job[s].input
                           /\ job'[s].output = job[s].output
    BY <1>6
  <2>5. /\ pc'[c] = p
        /\ \A s \in Threads : s # c => pc'[s] = pc[s]
        /\ pc' \in [Threads -> DevicePlaces \cup HostPlaces]
        /\ \A s \in Threads : Tag(s)' = Tag(s)
        /\ \A s \in Threads : \A y \in Tags : Busy(s, y)' <=> Busy(s, y)
        /\ \A s \in Threads : \A y \in Tags : Writer(s, y)' <=> Writer(s, y)
        /\ JobInv'
    <3> HIDE DEF x, fetches
    <3> QED
      BY <1>1, <1>2, <2>2, <2>3, <2>4, StepsOn
  <2> QED
    BY <2>1, <2>5
<1>9. ~fetches /\ job[c].input => mem[c][x] = latest[x]
  BY <1>1, <1>2, <1>3, <1>4 DEF VersionInv, Entry
<1>10. fetches => job[c].input
  OBVIOUS
<1> HIDE DEF x, fetches
<1>8. Tag(c) = x /\ \A s \in Threads : Tag(s) \in Tags
  BY <1>1 DEF x, MemoryTypeOK, Records, Tag
<1>11. MemoryTypeOK'
  <2>1. pc'[c] \in DevicePlaces
    BY <1>7 DEF DevicePlaces
  <2>2. \A d \in Caches : pc'[d] \in DevicePlaces
    BY <1>1, <1>7, <2>1, MemoryNames DEF MemoryTypeOK
  <2>3. \A h \in Hosts : pc'[h] \in HostPlaces
    BY <1>1, <1>2, <1>7, MemoryNames DEF MemoryTypeOK
  <2> QED
    BY <1>1, <1>2, <1>4, <1>5, <1>6, <1>7, <2>2, <2>3 DEF MemoryTypeOK
<1>13. HeldInv'
  <2> SUFFICES ASSUME NEW d \in Caches
               PROVE  /\ pc'[d] # "idle" => entry'[d][Tag(d)].here /\ entry'[d][Tag(d)].refs >= 1
                      /\ pc'[d] \in {"miss", "drain"} => ~entry'[d][Tag(d)].ready
                      /\ pc'[d] = "drain" => setup.through
    BY <1>2, <1>7, MemoryNames DEF HeldInv, Entry
  <2>1. CASE d = c
    BY <1>1, <1>2, <1>4, <1>7, <1>8, <2>1 DEF HeldInv, Entry
  <2>2. CASE d # c
    BY <1>1, <1>2, <1>4, <1>7, <1>8, <2>2, MemoryNames DEF HeldInv, Entry
  <2> QED
    BY <2>1, <2>2
<1>14. OwnerInv'
  BY <1>1, <1>2, <1>6, <1>7, OwnersKept DEF Published
<1>15. KnowsInv'
  BY <1>1, <1>2, <1>4, <1>6, <1>7, KnowledgeKept DEF Entry
<1>16. FetchedInv'
  <2>1. pc'[c] = "fetch" => mem[IF owner[x] = NoCache THEN Host ELSE owner[x]][x] = latest[x]
    BY <1>3, <1>7, <1>10 DEF Knows
  <2>2. ASSUME NEW d \in Caches
        PROVE  /\ \/ pc'[d] \in {"publish", "inputs", "run"} /\ job'[d].input
                  \/ pc'[d] = "done"
                  => mem[d][Tag(d)] = latest[Tag(d)]
               /\ pc'[d] = "fetch" =>
                     mem[IF job'[d].seen = NoCache THEN Host ELSE job'[d].seen][Tag(d)] = latest[Tag(d)]
    <3>1. CASE d # c
      BY <1>1, <1>6, <1>7, <3>1, MemoryNames DEF FetchedInv
    <3>2. CASE d = c /\ fetches
      BY <1>2, <1>6, <1>7, <1>8, <2>1, <3>2
    <3>3. CASE d = c /\ ~fetches
      BY <1>2, <1>6, <1>7, <1>8, <1>9, <3>3
    <3> QED
      BY <3>1, <3>2, <3>3
  <2>3. ASSUME NEW h \in Hosts, pc'[h] = "written"
        PROVE  /\ mem[Host][Tag(h)] = latest[Tag(h)] /\ job'[h].input
               /\ job'[h].seen \in Caches /\ entry'[job'[h].seen][Tag(h)].here /\ ~setup.through
    <3>1. h # c /\ h \in Threads /\ pc[h] = "written" /\ job'[h] = job[h] /\ Tag(h) \in Tags
      BY <1>6, <1>7, <1>8, <2>3, MemoryNames
    <3>2. /\ mem[Host][Tag(h)] = latest[Tag(h)] /\ job[h].input
          /\ job[h].seen \in Caches /\ entry[job[h].seen][Tag(h)].here /\ ~setup.through
      BY <1>1, <3>1 DEF FetchedInv, Entry
    <3> QED
      BY <1>4, <3>1, <3>2
  <2> QED
    BY <1>2, <1>7, <2>2, <2>3, MemoryNames DEF FetchedInv, Entry
<1>17. VersionInv'
  BY <1>1, <1>2, <1>3, <1>4, <1>7, MemoryNames DEF VersionInv, Published, Entry, MemoryTypeOK
<1>18. UsedInv'
  BY <1>2, <1>4 DEF CoherenceInv, UsedInv, Entry
<1> QED
  BY <1>7, <1>11, <1>13, <1>14, <1>15, <1>16, <1>17, <1>18 DEF CoherenceInv

(* The block comes from the host or from its owner. *)
LEMMA FetchKeeps ==
  ASSUME AtOnce, CoherenceInv, NEW c \in Caches, Fetch(c), UNCHANGED setup
  PROVE  CoherenceInv'
<1> DEFINE x == Tag(c)
           o == job[c].seen
           from == IF o = NoCache THEN Host ELSE o
<1>1. /\ MemoryTypeOK /\ JobInv /\ HeldInv /\ OwnerInv /\ KnowsInv /\ FetchedInv
      /\ VersionInv
  BY DEF CoherenceInv
<1>2. /\ pc[c] = "fetch" /\ c \in Threads /\ job' = job
      /\ mem' = [mem EXCEPT ![c][x] = mem[from][x]]
      /\ pc' = [pc EXCEPT ![c] = "publish"]
      /\ UNCHANGED <<setup, owner, version, invalidated, latest, moves>>
  BY MemoryNames DEF Fetch, dirVars, AtOnce, Copied, Goto
<1>3. /\ x \in Tags /\ o \in Caches \cup {NoCache}
      /\ o # NoCache => entry[o][x].here
      /\ entry[c][x].here /\ mem[from][x] = latest[x] /\ from \in Caches \cup {Host}
  <2>1. x \in Tags
    BY <1>2, OwnBlock
  <2>2. o \in Caches \cup {NoCache}
    BY <1>1, <1>2 DEF MemoryTypeOK, Records
  <2>3. o # NoCache => entry[o][x].here
    BY DEF Fetch, Entry
  <2>4. entry[c][x].here
    BY <1>1, <1>2 DEF HeldInv, Entry
  <2>5. mem[from][x] = latest[x]
    BY <1>1, <1>2 DEF FetchedInv
  <2>6. from \in Caches \cup {Host}
    BY <2>2
  <2> QED
    BY <2>1, <2>2, <2>3, <2>4, <2>5, <2>6
<1>4. /\ entry' \in [Caches -> [Tags -> Entries]]
      /\ \A d \in Caches : \A y \in Tags :
            /\ entry[d][y].here => /\ entry'[d][y].here
                                  /\ entry'[d][y].version = entry[d][y].version
                                  /\ entry'[d][y].ready = entry[d][y].ready
                                  /\ entry'[d][y].refs >= entry[d][y].refs
            /\ ~entry[d][y].here => entry'[d][y] = entry[d][y]
  <2> DEFINE more == IF c = o THEN 2 ELSE 1
             pinned == [d \in Caches |->
                     IF o # NoCache /\ d \in {c, o}
                     THEN [entry[d] EXCEPT ![x].refs = @ + IF c = o THEN 2 ELSE 1]
                     ELSE entry[d]]
  <2>1. entry' = [pinned EXCEPT ![c][x].copying = FALSE]
    BY DEF Fetch, AtOnce
  <2>2. /\ pinned \in [Caches -> [Tags -> Entries]]
        /\ \A d \in Caches : \A y \in Tags :
              /\ entry[d][y].here => /\ pinned[d][y].here
                                    /\ pinned[d][y].version = entry[d][y].version
                                    /\ pinned[d][y].ready = entry[d][y].ready
                                    /\ pinned[d][y].refs >= entry[d][y].refs
              /\ ~entry[d][y].here => pinned[d][y] = entry[d][y]
    <3> SUFFICES ASSUME NEW d \in Caches
                 PROVE  /\ pinned[d] \in [Tags -> Entries]
                        /\ \A y \in Tags :
                              /\ entry[d][y].here => /\ pinned[d][y].here
                                                    /\ pinned[d][y].version = entry[d][y].version
                                                    /\ pinned[d][y].ready = entry[d][y].ready
                                                    /\ pinned[d][y].refs >= entry[d][y].refs
                              /\ ~entry[d][y].here => pinned[d][y] = entry[d][y]
      OBVIOUS
    <3>0. entry[d] \in [Tags -> Entries]
      BY <1>1 DEF MemoryTypeOK
    <3>1. ASSUME NEW y \in Tags, entry[d][y].here PROVE entry[d][y].refs \in Nat
      <4>1. entry[d][y] \in Present
        BY <3>0, <3>1, EntryTypes
      <4> QED
        BY <4>1 DEF Present
    <3>2. CASE o # NoCache /\ d \in {c, o}
      <4>1. Entry(d, x) \in Present
        BY <1>3, <3>0, <3>2, EntryTypes DEF Entry
      <4>0. more \in {1, 2}
        OBVIOUS
      <4>9. Entry(d, x).refs \in Nat /\ Entry(d, x).here
        BY <4>1 DEF Present
      <4>2. /\ Entry(d, x).refs \in Nat /\ Entry(d, x).refs + more \in Nat /\ Entry(d, x).here
            /\ Entry(d, x).refs + more >= Entry(d, x).refs
        <5> HIDE DEF more
        <5> QED
          BY <4>0, <4>9
      <4>3. PICK e : e = [Entry(d, x) EXCEPT !.refs = Entry(d, x).refs + more]
        OBVIOUS
      <4>4. e \in Present /\ e.refs = Entry(d, x).refs + more /\ e.version = Entry(d, x).version
            /\ e.ready = Entry(d, x).ready
        BY <4>1, <4>2, <4>3, EntryFields
      <4>5. pinned[d] = [entry[d] EXCEPT ![x] = e]
        BY <3>2, <4>3 DEF Entry
      <4>6. e.here /\ e \in Entries /\ e.refs >= Entry(d, x).refs
        BY <4>2, <4>4 DEF Present, Entries
      <4>7. /\ pinned[d] \in [Tags -> Entries] /\ pinned[d][x] = e
            /\ \A y \in Tags : y # x => pinned[d][y] = entry[d][y]
        BY <1>3, <3>0, <4>5, <4>6
      <4> HIDE DEF pinned, x, o, more
      <4> QED
        BY <3>1, <4>2, <4>4, <4>6, <4>7 DEF Entry
    <3>3. CASE ~(o # NoCache /\ d \in {c, o})
      <4>1. pinned[d] = entry[d]
        BY <3>3
      <4> HIDE DEF pinned
      <4> QED
        BY <3>0, <3>1, <4>1
    <3> QED
      BY <3>2, <3>3
  <2> HIDE DEF pinned
  <2>3. pinned[c][x] \in Present
    BY <1>3, <2>2, EntryTypes
  <2>4. PICK e : e = [pinned[c][x] EXCEPT !.copying = FALSE]
    OBVIOUS
  <2>5. e \in Present /\ e.refs = pinned[c][x].refs /\ e.version = pinned[c][x].version
        /\ e.ready = pinned[c][x].ready
    BY <2>3, <2>4, EntryFields
  <2>6. entry' = [pinned EXCEPT ![c] = [pinned[c] EXCEPT ![x] = e]]
    BY <2>1, <2>4
  <2>7. e.here /\ e \in Entries
    BY <2>5 DEF Present, Entries
  <2>8. /\ entry' \in [Caches -> [Tags -> Entries]] /\ entry'[c][x] = e
        /\ \A d \in Caches : \A y \in Tags : d # c \/ y # x => entry'[d][y] = pinned[d][y]
    BY <1>3, <2>2, <2>6, <2>7
  <2> QED
    BY <1>3, <2>2, <2>5, <2>7, <2>8
<1>5. /\ mem' \in [Caches \cup {Host} -> [Tags -> Nat]] /\ mem'[c][x] = latest[x]
      /\ \A m \in Caches \cup {Host} : \A y \in Tags :
            mem'[m][y] = mem[m][y] \/ (m = c /\ y = x /\ mem'[m][y] = latest[y])
  <2>1. mem[from][x] \in Nat
    BY <1>1, <1>3 DEF MemoryTypeOK
  <2> HIDE DEF from
  <2> QED
    BY <1>1, <1>2, <1>3, <2>1 DEF MemoryTypeOK
<1>7. /\ pc'[c] = "publish"
      /\ \A s \in Threads : s # c => pc'[s] = pc[s]
      /\ pc' \in [Threads -> DevicePlaces \cup HostPlaces]
      /\ \A s \in Threads : Tag(s)' = Tag(s)
      /\ \A s \in Threads : \A y \in Tags : Busy(s, y)' <=> Busy(s, y)
      /\ \A s \in Threads : \A y \in Tags : Writer(s, y)' <=> Writer(s, y)
      /\ JobInv'
  BY <1>1, <1>2, StepsOn DEF DevicePlaces
<1> HIDE DEF x, o, from
<1>8. Tag(c) = x /\ \A s \in Threads : Tag(s) \in Tags
  BY <1>1 DEF x, MemoryTypeOK, Records, Tag
<1>11. MemoryTypeOK'
  BY <1>1, <1>2, <1>4, <1>5, <1>7, MemoryNames DEF MemoryTypeOK, DevicePlaces
<1>13. HeldInv'
  <2> SUFFICES ASSUME NEW d \in Caches
               PROVE  /\ pc'[d] # "idle" => entry'[d][Tag(d)].here /\ entry'[d][Tag(d)].refs >= 1
                      /\ pc'[d] \in {"miss", "drain"} => ~entry'[d][Tag(d)].ready
                      /\ pc'[d] = "drain" => setup.through
    BY <1>2, <1>7, MemoryNames DEF HeldInv, Entry
  <2>1. pc[d] # "idle" => entry[d][Tag(d)] \in Present /\ entry[d][Tag(d)].refs >= 1
    BY <1>1, <1>8, MemoryNames, EntryTypes DEF HeldInv, Entry, MemoryTypeOK
  <2>2. ASSUME pc'[d] # "idle"
        PROVE  /\ entry'[d][Tag(d)].here /\ entry'[d][Tag(d)].refs >= 1
               /\ entry'[d][Tag(d)].ready = entry[d][Tag(d)].ready
    <3>1. pc[d] # "idle" /\ Tag(d) \in Tags /\ entry[d][Tag(d)].here
      BY <1>1, <1>2, <1>7, <1>8, <2>1, <2>2, MemoryNames DEF Present
    <3>2. entry'[d][Tag(d)].here /\ entry'[d][Tag(d)].refs >= entry[d][Tag(d)].refs
      BY <1>4, <3>1
    <3>3. entry'[d][Tag(d)] \in Present
      BY <1>4, <3>1, <3>2, EntryTypes
    <3>4. entry'[d][Tag(d)].refs \in Nat /\ entry[d][Tag(d)].refs \in Nat
      BY <2>1, <3>1, <3>3 DEF Present
    <3> QED
      BY <1>4, <2>1, <3>1, <3>2, <3>4
  <2> QED
    BY <1>1, <1>2, <1>7, <2>2, MemoryNames DEF HeldInv, Entry
<1>14. OwnerInv'
  BY <1>1, <1>2, <1>7, OwnersKept DEF Published
<1>15. KnowsInv'
  BY <1>1, <1>2, <1>4, <1>5, <1>7, KnowledgeKept DEF Entry
<1>16. FetchedInv'
  BY <1>1, <1>2, <1>4, <1>5, <1>7, <1>8, MemoryNames DEF FetchedInv, Entry, MemoryTypeOK, Records
<1>17. VersionInv'
  BY <1>1, <1>2, <1>4, <1>5, <1>7, MemoryNames DEF VersionInv, Published, Entry
<1>18. UsedInv'
  BY <1>2, <1>4 DEF CoherenceInv, UsedInv, Entry
<1> QED
  BY <1>7, <1>11, <1>13, <1>14, <1>15, <1>16, <1>17, <1>18 DEF CoherenceInv

(* A writer publishes what it is about to write. *)
LEMMA PublishKeeps ==
  ASSUME AtOnce, CoherenceInv, NEW c \in Caches, Publish(c), UNCHANGED setup
  PROVE  CoherenceInv'
<1>1. /\ MemoryTypeOK /\ JobInv /\ HeldInv /\ OwnerInv /\ KnowsInv /\ FetchedInv
      /\ VersionInv
  BY DEF CoherenceInv
<1>2. PICK x : x = Tag(c)
  OBVIOUS
<1>3. /\ pc[c] = "publish" /\ c \in Threads /\ job' = job
      /\ pc' = [pc EXCEPT ![c] = "inputs"]
      /\ UNCHANGED <<setup, mem, latest, moves>>
  BY MemoryNames DEF Publish, dataVars, Goto
<1>4. /\ x \in Tags /\ job[c].input \in BOOLEAN /\ job[c].output \in BOOLEAN /\ Busy(c, x)
      /\ job[c].output => Writer(c, x)
      /\ \A s \in Threads : Writer(s, x) => s = c
      /\ \A s \in Threads : Busy(s, x) /\ job[c].output => s = c
      /\ job[c].input => Knows(x)
      /\ job[c].input \/ job[c].output
      /\ job[c].fresh \in BOOLEAN
  BY <1>1, <1>2, <1>3, OwnBlock DEF JobInv, MemoryTypeOK, Records
<1>5. PICK v : v = version[x] + IF job[c].output THEN 1 ELSE 0
  OBVIOUS
<1>6. /\ v \in Nat /\ version[x] \in Nat
      /\ job[c].output => v = version[x] + 1
      /\ ~job[c].output => v = version[x]
  BY <1>1, <1>4, <1>5 DEF MemoryTypeOK
<1>7. /\ version' \in [Tags -> Nat] /\ version'[x] = v
      /\ owner' \in [Tags -> Caches \cup {NoCache}]
      /\ owner'[x] = IF job[c].output THEN c ELSE owner[x]
      /\ \A y \in Tags : y # x => version'[y] = version[y] /\ owner'[y] = owner[y]
      /\ invalidated' \in [Tags -> BOOLEAN]
  <2>1. CASE job[c].output
    <3>1. /\ owner' = [owner EXCEPT ![x] = c]
          /\ invalidated' = [invalidated EXCEPT ![x] = FALSE]
          /\ version' = [version EXCEPT ![x] = v]
      BY <1>2, <1>5, <2>1 DEF Publish
    <3> QED
      BY <1>1, <1>4, <1>6, <2>1, <3>1 DEF MemoryTypeOK
  <2>2. CASE ~job[c].output
    BY <1>1, <1>4, <1>6, <2>2 DEF MemoryTypeOK, Publish, dirVars
  <2> QED
    BY <2>1, <2>2
<1>8. /\ entry' \in [Caches -> [Tags -> Entries]]
      /\ entry'[c][x].here /\ entry'[c][x].refs = entry[c][x].refs
      /\ entry'[c][x].version \in Nat /\ entry'[c][x].version <= v /\ entry[c][x].here
      /\ \A d \in Caches : \A y \in Tags : d # c \/ y # x => entry'[d][y] = entry[d][y]
  <2>1. entry[c][x].here
    BY <1>1, <1>2, <1>3 DEF HeldInv, Entry
  <2>2. entry[c][x] \in Present
    BY <1>1, <1>4, <2>1, EntryTypes DEF MemoryTypeOK
  <2>3. entry[c][x].version \in Nat
    BY <2>2 DEF Present
  <2>4. entry[c][x].version <= version[x]
    BY <1>1, <1>4, <2>1 DEF VersionInv, Entry
  <2>5. PICK n : n = IF job[c].fresh THEN v
                     ELSE IF job[c].output THEN entry[c][x].version + 1 ELSE entry[c][x].version
    OBVIOUS
  <2>6. n \in Nat /\ n <= v
    BY <1>4, <1>6, <2>3, <2>4, <2>5
  <2>7. PICK e : e = [entry[c][x] EXCEPT !.version = n]
    OBVIOUS
  <2>8. e \in Present /\ e.version = n /\ e.refs = entry[c][x].refs
    BY <2>2, <2>6, <2>7, EntryFields
  <2>9. entry' = [entry EXCEPT ![c] = [entry[c] EXCEPT ![x] = e]]
    BY <1>2, <1>5, <2>5, <2>7 DEF Publish
  <2>10. /\ entry' \in [Caches -> [Tags -> Entries]] /\ entry'[c][x] = e /\ entry'[c][x].here
         /\ \A d \in Caches : \A y \in Tags : d # c \/ y # x => entry'[d][y] = entry[d][y]
    <3>1. e.here /\ e \in Entries
      BY <2>8 DEF Present, Entries
    <3> QED
      BY <1>1, <1>4, <2>9, <3>1 DEF MemoryTypeOK
  <2> QED
    BY <2>1, <2>6, <2>8, <2>10
<1>9. /\ pc'[c] = "inputs"
      /\ \A s \in Threads : s # c => pc'[s] = pc[s]
      /\ pc' \in [Threads -> DevicePlaces \cup HostPlaces]
      /\ \A s \in Threads : Tag(s)' = Tag(s)
      /\ \A s \in Threads : \A y \in Tags : Busy(s, y)' <=> Busy(s, y)
      /\ \A s \in Threads : \A y \in Tags : Writer(s, y)' <=> Writer(s, y)
      /\ JobInv'
  BY <1>1, <1>3, StepsOn DEF DevicePlaces
<1>10. /\ \A s \in Threads : Tag(s) \in Tags
       /\ \A y \in Tags : Busy(c, y) => y = x
       /\ \A y \in Tags : Writer(c, y) => y = x /\ job[c].output
  BY <1>1, <1>2 DEF MemoryTypeOK, Records, Tag, Busy, Writer
<1>11. MemoryTypeOK'
  BY <1>1, <1>3, <1>7, <1>8, <1>9, MemoryNames DEF MemoryTypeOK, DevicePlaces
<1>13. HeldInv'
  <2> SUFFICES ASSUME NEW d \in Caches
               PROVE  /\ pc'[d] # "idle" => entry'[d][Tag(d)].here /\ entry'[d][Tag(d)].refs >= 1
                      /\ pc'[d] \in {"miss", "drain"} => ~entry'[d][Tag(d)].ready
                      /\ pc'[d] = "drain" => setup.through
    BY <1>3, <1>9, MemoryNames DEF HeldInv, Entry
  <2>1. CASE d = c
    BY <1>1, <1>2, <1>3, <1>8, <1>9, <2>1 DEF HeldInv, Entry
  <2>2. CASE d # c
    BY <1>1, <1>3, <1>8, <1>9, <1>10, <2>2, MemoryNames DEF HeldInv, Entry
  <2> QED
    BY <2>1, <2>2
<1>14. OwnerInv'
  <2>1. ASSUME NEW d \in Caches, NEW y \in Tags, Writer(d, y), pc'[d] \in Published
        PROVE  owner'[y] = d
    <3>1. CASE y = x
      BY <1>4, <1>7, <1>10, <2>1, <3>1, MemoryNames
    <3>2. CASE y # x
      BY <1>1, <1>7, <1>9, <1>10, <2>1, <3>2, MemoryNames DEF OwnerInv
    <3> QED
      BY <3>1, <3>2
  <2>2. ASSUME NEW h \in Hosts, NEW y \in Tags, Busy(h, y),
               pc'[h] \in {"run", "done"} \/ (pc'[h] = "owned" /\ ~job[h].input)
        PROVE  owner'[y] = NoCache
    <3>1. pc'[h] = pc[h] /\ h # c /\ h \in Threads
      BY <1>9, MemoryNames
    <3>2. owner[y] = NoCache
      BY <1>1, <2>2, <3>1 DEF OwnerInv
    <3>3. y = x => ~job[c].output
      BY <1>4, <2>2, <3>1
    <3> QED
      BY <1>4, <1>7, <3>2, <3>3
  <2>3. ASSUME NEW y \in Tags, NEW d \in Caches, setup.through, owner'[y] = d
        PROVE  Writer(d, y) /\ pc'[d] \in Published
    <3>1. CASE y = x /\ job[c].output
      BY <1>4, <1>7, <1>9, <2>3, <3>1 DEF Published
    <3>2. CASE ~(y = x /\ job[c].output)
      <4>1. owner[y] = d /\ d # NoCache
        BY <1>4, <1>7, <2>3, <3>2, MemoryNames
      <4>2. Writer(d, y) /\ pc[d] \in Published
        BY <1>1, <2>3, <4>1 DEF OwnerInv
      <4>3. d # c /\ d \in Threads
        BY <1>3, <4>2, MemoryNames DEF Published
      <4> QED
        BY <1>9, <4>2, <4>3
    <3> QED
      BY <3>1, <3>2
  <2>4. \A y \in Tags : owner'[y] # NoCache => owner'[y] \in Caches
    BY <1>7
  <2> QED
    <3>1. \A y \in Tags : setup.through /\ owner'[y] # NoCache =>
             \E d \in Caches : owner'[y] = d /\ Writer(d, y)' /\ pc'[d] \in Published
      BY <1>9, <2>3, <2>4, MemoryNames
    <3> QED
      BY <1>3, <1>9, <2>1, <2>2, <3>1, MemoryNames DEF OwnerInv
<1>15. KnowsInv'
  <2> SUFFICES ASSUME NEW y \in Tags,
                      \A t \in Threads : Writer(t, y)' /\ ~job'[t].input =>
                          pc'[t] \notin {"inputs", "run", "owned"}
               PROVE  Knows(y)'
    BY DEF KnowsInv
  <2>1. CASE y = x /\ job[c].output
    <3>1. job[c].input
      BY <1>3, <1>4, <1>9, <2>1
    <3>2. mem[c][x] = latest[x]
      BY <1>1, <1>2, <1>3, <3>1 DEF FetchedInv
    <3> QED
      BY <1>3, <1>7, <1>8, <2>1, <3>2, MemoryNames DEF Knows, Entry
  <2>2. CASE ~(y = x /\ job[c].output)
    <3>1. owner'[y] = owner[y] /\ owner[y] \in Caches \cup {NoCache}
      BY <1>1, <1>4, <1>7, <2>2 DEF MemoryTypeOK
    <3>2. Knows(y)
      <4>1. CASE y = x
        BY <1>4, <2>2, <4>1
      <4>2. CASE y # x
        <5>1. \A t \in Threads : Writer(t, y) => t # c
          BY <1>10, <4>2
        <5> QED
          BY <1>1, <1>3, <1>9, <5>1 DEF KnowsInv
      <4> QED
        BY <4>1, <4>2
    <3> QED
      BY <1>3, <1>8, <3>1, <3>2 DEF Knows, Entry
  <2> QED
    BY <2>1, <2>2
<1>16. FetchedInv'
  <2>1. ASSUME NEW d \in Caches
        PROVE  /\ \/ pc'[d] \in {"publish", "inputs", "run"} /\ job[d].input
                  \/ pc'[d] = "done"
                  => mem[d][Tag(d)] = latest[Tag(d)]
               /\ pc'[d] = "fetch" =>
                     mem[IF job[d].seen = NoCache THEN Host ELSE job[d].seen][Tag(d)] = latest[Tag(d)]
    <3>1. CASE d # c
      BY <1>1, <1>9, <3>1, MemoryNames DEF FetchedInv
    <3>2. CASE d = c
      BY <1>1, <1>3, <1>9, <3>2 DEF FetchedInv
    <3> QED
      BY <3>1, <3>2
  <2>2. ASSUME NEW h \in Hosts, pc'[h] = "written"
        PROVE  /\ mem[Host][Tag(h)] = latest[Tag(h)] /\ job[h].input
               /\ job[h].seen \in Caches /\ entry'[job[h].seen][Tag(h)].here /\ ~setup.through
    <3>1. h # c /\ h \in Threads /\ pc[h] = "written" /\ Tag(h) \in Tags
      BY <1>9, <1>10, <2>2, MemoryNames
    <3>2. /\ mem[Host][Tag(h)] = latest[Tag(h)] /\ job[h].input
          /\ job[h].seen \in Caches /\ entry[job[h].seen][Tag(h)].here /\ ~setup.through
      BY <1>1, <3>1 DEF FetchedInv, Entry
    <3> QED
      BY <1>8, <3>1, <3>2
  <2> QED
    BY <1>3, <1>9, <2>1, <2>2, MemoryNames DEF FetchedInv, Entry
<1>17. VersionInv'
  <2> SUFFICES ASSUME NEW y \in Tags, NEW d \in Caches, entry'[d][y].here
               PROVE  /\ entry'[d][y].version <= version'[y]
                      /\ entry'[d][y].version = version'[y] /\ (Busy(d, y) => pc'[d] = "hit") =>
                           mem[d][y] = latest[y]
                      /\ \A s \in Threads : s # d /\ Writer(s, y) /\ pc'[s] \in Published =>
                           entry'[d][y].version < version'[y]
    BY <1>3, <1>9, MemoryNames DEF VersionInv, Entry
  <2>1. CASE y # x
    <3>1. \A s \in Threads : Busy(s, y) => pc'[s] = pc[s]
      BY <1>9, <1>10, <2>1
    <3>2. \A s \in Threads : Writer(s, y) => pc'[s] = pc[s]
      BY <3>1 DEF Writer
    <3>3. entry'[d][y] = entry[d][y] /\ version'[y] = version[y] /\ entry[d][y].here
      BY <1>7, <1>8, <2>1
    <3>4. /\ entry[d][y].version <= version[y]
          /\ entry[d][y].version = version[y] /\ (Busy(d, y) => pc[d] = "hit") =>
               mem[d][y] = latest[y]
          /\ \A s \in Threads : s # d /\ Writer(s, y) /\ pc[s] \in Published =>
               entry[d][y].version < version[y]
      BY <1>1, <3>3 DEF VersionInv, Entry
    <3>5. Busy(d, y) => pc'[d] = pc[d]
      BY <3>1, MemoryNames
    <3> QED
      BY <3>2, <3>3, <3>4, <3>5
  <2>2. CASE y = x /\ d = c
    <3>1. ~\E s \in Threads : s # d /\ Writer(s, y)
      BY <1>4, <2>2
    <3> QED
      BY <1>4, <1>7, <1>8, <1>9, <2>2, <3>1
  <2>3. CASE y = x /\ d # c
    <3>1. entry'[d][x] = entry[d][x] /\ pc'[d] = pc[d]
      BY <1>4, <1>8, <1>9, <2>3, MemoryNames
    <3>2. entry[d][x] \in Present
      BY <1>1, <1>4, <2>3, <3>1, EntryTypes DEF MemoryTypeOK
    <3>3. entry[d][x].version \in Nat
      BY <3>2 DEF Present
    <3>4. entry[d][x].version <= version[x]
      BY <1>1, <1>4, <2>3, <3>1 DEF VersionInv, Entry
    <3>5. CASE job[c].output
      BY <1>6, <1>7, <2>3, <3>1, <3>3, <3>4, <3>5
    <3>6. CASE ~job[c].output
      <4>1. ~\E s \in Threads : Writer(s, x)
        BY <1>4, <1>10, <3>6
      <4>2. entry[d][x].version = version[x] /\ (Busy(d, x) => pc[d] = "hit") => mem[d][x] = latest[x]
        BY <1>1, <1>4, <2>3, <3>1 DEF VersionInv, Entry
      <4> QED
        BY <1>6, <1>7, <2>3, <3>1, <3>4, <3>6, <4>1, <4>2
    <3> QED
      BY <1>4, <3>5, <3>6
  <2> QED
    BY <2>1, <2>2, <2>3
<1>18. UsedInv'
  BY <1>3, <1>8 DEF CoherenceInv, UsedInv, Entry
<1> QED
  BY <1>9, <1>11, <1>13, <1>14, <1>15, <1>16, <1>17, <1>18 DEF CoherenceInv

(* The data of a reader have come. *)
LEMMA WaitInputsKeeps ==
  ASSUME AtOnce, CoherenceInv, NEW c \in Caches, WaitInputs(c), UNCHANGED setup
  PROVE  CoherenceInv'
<1>1. /\ MemoryTypeOK /\ JobInv /\ HeldInv /\ OwnerInv /\ KnowsInv /\ FetchedInv
      /\ VersionInv
  BY DEF CoherenceInv
<1>2. /\ pc[c] = "inputs" /\ c \in Threads /\ pc' = [pc EXCEPT ![c] = "run"]
      /\ UNCHANGED <<setup, owner, version, invalidated, mem, latest, moves, entry, job>>
  BY MemoryNames DEF WaitInputs, dirVars, dataVars, Goto
<1>3. /\ pc'[c] = "run"
      /\ \A s \in Threads : s # c => pc'[s] = pc[s]
      /\ pc' \in [Threads -> DevicePlaces \cup HostPlaces]
      /\ \A s \in Threads : Tag(s)' = Tag(s)
      /\ \A s \in Threads : \A y \in Tags : Busy(s, y)' <=> Busy(s, y)
      /\ \A s \in Threads : \A y \in Tags : Writer(s, y)' <=> Writer(s, y)
      /\ JobInv'
  BY <1>1, <1>2, StepsOn DEF DevicePlaces
<1>11. MemoryTypeOK'
  BY <1>1, <1>2, <1>3, MemoryNames DEF MemoryTypeOK, DevicePlaces
<1>13. HeldInv'
  BY <1>1, <1>2, <1>3, MemoryNames DEF HeldInv, Entry
<1>14. OwnerInv'
  <2>1. \A s \in Threads : pc'[s] \in Published <=> pc[s] \in Published
    BY <1>2, <1>3 DEF Published
  <2>2. \A y \in Tags : owner[y] # NoCache => owner[y] \in Threads
    BY <1>1, MemoryNames DEF MemoryTypeOK
  <2> QED
    BY <1>1, <1>2, <1>3, <2>1, <2>2, MemoryNames DEF OwnerInv
<1>15. KnowsInv'
  BY <1>1, <1>2, <1>3, KnowledgeKept DEF Entry
<1>16. FetchedInv'
  BY <1>1, <1>2, <1>3, MemoryNames DEF FetchedInv, Entry
<1>17. VersionInv'
  <2>1. \A s \in Threads : pc'[s] \in Published <=> pc[s] \in Published
    BY <1>2, <1>3 DEF Published
  <2>2. \A d \in Caches : pc'[d] = "hit" <=> pc[d] = "hit"
    BY <1>2, <1>3, MemoryNames
  <2> QED
    BY <1>1, <1>2, <1>3, <2>1, <2>2, MemoryNames DEF VersionInv, Entry
<1>18. UsedInv'
  BY <1>2 DEF CoherenceInv, UsedInv, Entry
<1> QED
  BY <1>3, <1>11, <1>13, <1>14, <1>15, <1>16, <1>17, <1>18 DEF CoherenceInv

(* The task runs, and writes the newest data where it runs. *)
LEMMA RunKeeps ==
  ASSUME AtOnce, CoherenceInv, NEW t \in Threads, Run(t), UNCHANGED setup
  PROVE  CoherenceInv'
<1>1. /\ MemoryTypeOK /\ JobInv /\ HeldInv /\ OwnerInv /\ KnowsInv /\ FetchedInv
      /\ VersionInv
  BY DEF CoherenceInv
<1>2. PICK x : x = Tag(t)
  OBVIOUS
<1>3. /\ pc[t] = "run" /\ pc' = [pc EXCEPT ![t] = "done"]
      /\ UNCHANGED <<setup, owner, version, invalidated, moves, entry, job>>
  BY DEF Run, dirVars, Goto
<1>4. /\ x \in Tags /\ job[t].input \in BOOLEAN /\ job[t].output \in BOOLEAN /\ Busy(t, x)
      /\ job[t].output => Writer(t, x)
      /\ \A s \in Threads : Writer(s, x) => s = t
      /\ \A s \in Threads : Busy(s, x) /\ job[t].output => s = t
      /\ job[t].input => Knows(x)
      /\ job[t].input \/ job[t].output
  BY <1>1, <1>2, <1>3, OwnBlock DEF JobInv
<1>5. PICK m : m = Memory(t)
  OBVIOUS
<1>6. /\ m \in Caches \cup {Host} /\ (t \in Caches => m = t) /\ (t \in Hosts => m = Host)
      /\ latest[x] \in Nat /\ latest[x] + 1 \in Nat
  BY <1>1, <1>4, <1>5, MemoryNames DEF Memory, MemoryTypeOK
<1>7. /\ mem' \in [Caches \cup {Host} -> [Tags -> Nat]] /\ latest' \in [Tags -> Nat]
      /\ job[t].output => mem'[m][x] = latest'[x]
      /\ \A y \in Tags : y # x \/ ~job[t].output =>
            latest'[y] = latest[y] /\ \A n \in Caches \cup {Host} : mem'[n][y] = mem[n][y]
  <2>1. CASE job[t].output
    <3>1. /\ latest' = [latest EXCEPT ![x] = latest[x] + 1]
          /\ mem' = [mem EXCEPT ![m] = [mem[m] EXCEPT ![x] = latest[x] + 1]]
      BY <1>2, <1>5, <2>1 DEF Run
    <3> QED
      BY <1>1, <1>4, <1>6, <2>1, <3>1 DEF MemoryTypeOK
  <2>2. CASE ~job[t].output
    BY <1>1, <2>2 DEF Run, dataVars, MemoryTypeOK
  <2> QED
    BY <2>1, <2>2
<1>9. /\ pc'[t] = "done"
      /\ \A s \in Threads : s # t => pc'[s] = pc[s]
      /\ pc' \in [Threads -> DevicePlaces \cup HostPlaces]
      /\ \A s \in Threads : Tag(s)' = Tag(s)
      /\ \A s \in Threads : \A y \in Tags : Busy(s, y)' <=> Busy(s, y)
      /\ \A s \in Threads : \A y \in Tags : Writer(s, y)' <=> Writer(s, y)
      /\ JobInv'
  BY <1>1, <1>3, StepsOn DEF DevicePlaces
<1>10. /\ \A s \in Threads : Tag(s) \in Tags
       /\ \A s \in Threads : pc[s] # "idle" => Busy(s, Tag(s))
       /\ \A y \in Tags : Busy(t, y) => y = x
       /\ \A y \in Tags : Writer(t, y) => y = x /\ job[t].output
  BY <1>1, <1>2 DEF MemoryTypeOK, Records, Tag, Busy, Writer
<1>11. MemoryTypeOK'
  BY <1>1, <1>3, <1>7, <1>9, MemoryNames DEF MemoryTypeOK, DevicePlaces, HostPlaces
<1>12. \A s \in Threads : pc'[s] \in Published <=> pc[s] \in Published
  BY <1>3, <1>9 DEF Published
<1>13. HeldInv'
  BY <1>1, <1>3, <1>9, MemoryNames DEF HeldInv, Entry
<1>14. OwnerInv'
  <2>1. \A y \in Tags : owner[y] # NoCache => owner[y] \in Threads
    BY <1>1, MemoryNames DEF MemoryTypeOK
  <2> QED
    BY <1>1, <1>3, <1>9, <1>12, <2>1, MemoryNames DEF OwnerInv
<1>15. KnowsInv'
  <2> SUFFICES ASSUME NEW y \in Tags,
                      \A s \in Threads : Writer(s, y)' /\ ~job'[s].input =>
                          pc'[s] \notin {"inputs", "run", "owned"}
               PROVE  Knows(y)'
    BY DEF KnowsInv
  <2>1. CASE y = x /\ job[t].output
    <3>1. CASE t \in Caches
      <4>1. owner[x] = t
        BY <1>1, <1>3, <1>4, <2>1, <3>1 DEF OwnerInv, Published
      <4>2. entry[t][x].here
        BY <1>1, <1>2, <1>3, <3>1 DEF HeldInv, Entry
      <4> QED
        BY <1>3, <1>6, <1>7, <2>1, <3>1, <4>1, <4>2, MemoryNames DEF Knows, Entry
    <3>2. CASE t \in Hosts
      <4>1. owner[x] = NoCache
        BY <1>1, <1>3, <1>4, <3>2 DEF OwnerInv
      <4> QED
        BY <1>3, <1>6, <1>7, <2>1, <3>2, <4>1 DEF Knows
    <3> QED
      BY <3>1, <3>2, MemoryNames
  <2>2. CASE ~(y = x /\ job[t].output)
    <3>1. Knows(y)
      <4>1. CASE y = x
        BY <1>4, <2>2, <4>1
      <4>2. CASE y # x
        <5>1. \A s \in Threads : Writer(s, y) => s # t
          BY <1>10, <4>2
        <5> QED
          BY <1>1, <1>3, <1>9, <5>1 DEF KnowsInv
      <4> QED
        BY <4>1, <4>2
    <3>2. y # x \/ ~job[t].output
      BY <2>2
    <3>3. owner[y] \in Caches \cup {NoCache}
      BY <1>1 DEF MemoryTypeOK
    <3> QED
      BY <1>3, <1>7, <3>1, <3>2, <3>3 DEF Knows, Entry
  <2> QED
    BY <2>1, <2>2
<1>16. FetchedInv'
  <2>1. ASSUME NEW s \in Threads, s # t, pc[s] # "idle"
        PROVE  /\ pc'[s] = pc[s] /\ latest'[Tag(s)] = latest[Tag(s)]
               /\ \A n \in Caches \cup {Host} : mem'[n][Tag(s)] = mem[n][Tag(s)]
    <3>1. Tag(s) # x \/ ~job[t].output
      BY <1>4, <1>10, <2>1
    <3> QED
      BY <1>7, <1>9, <1>10, <2>1, <3>1
  <2>2. ASSUME NEW d \in Caches
        PROVE  /\ \/ pc'[d] \in {"publish", "inputs", "run"} /\ job[d].input
                  \/ pc'[d] = "done"
                  => mem'[d][Tag(d)] = latest'[Tag(d)]
               /\ pc'[d] = "fetch" =>
                     mem'[IF job[d].seen = NoCache THEN Host ELSE job[d].seen][Tag(d)] = latest'[Tag(d)]
    <3>1. CASE d = t
      <4>1. mem'[d][x] = latest'[x]
        <5>1. CASE job[t].output
          BY <1>6, <1>7, <3>1, <5>1
        <5>2. CASE ~job[t].output
          <6>1. mem[d][x] = latest[x]
            BY <1>1, <1>2, <1>3, <1>4, <3>1, <5>2 DEF FetchedInv
          <6> QED
            BY <1>4, <1>7, <3>1, <5>2, <6>1
        <5> QED
          BY <5>1, <5>2
      <4> QED
        BY <1>2, <1>9, <3>1, <4>1
    <3>2. CASE d # t /\ pc[d] # "idle"
      <4>1. PICK n : n = IF job[d].seen = NoCache THEN Host ELSE job[d].seen
        OBVIOUS
      <4>2. n \in Caches \cup {Host} /\ d \in Threads
        BY <1>1, <4>1, MemoryNames DEF MemoryTypeOK, Records
      <4>3. /\ \/ pc[d] \in {"publish", "inputs", "run"} /\ job[d].input
               \/ pc[d] = "done"
               => mem[d][Tag(d)] = latest[Tag(d)]
            /\ pc[d] = "fetch" => mem[n][Tag(d)] = latest[Tag(d)]
        BY <1>1, <4>1 DEF FetchedInv
      <4> QED
        BY <2>1, <3>2, <4>1, <4>2, <4>3
    <3>3. CASE d # t /\ pc[d] = "idle"
      BY <1>9, <3>3, MemoryNames
    <3> QED
      BY <3>1, <3>2, <3>3
  <2>3. ASSUME NEW h \in Hosts, pc'[h] = "written"
        PROVE  /\ mem'[Host][Tag(h)] = latest'[Tag(h)] /\ job[h].input
               /\ job[h].seen \in Caches /\ entry[job[h].seen][Tag(h)].here /\ ~setup.through
    <3>1. h # t /\ h \in Threads /\ pc[h] = "written"
      BY <1>9, <2>3, MemoryNames
    <3>2. /\ mem[Host][Tag(h)] = latest[Tag(h)] /\ job[h].input
          /\ job[h].seen \in Caches /\ entry[job[h].seen][Tag(h)].here /\ ~setup.through
      BY <1>1, <3>1 DEF FetchedInv, Entry
    <3> QED
      BY <2>1, <3>1, <3>2
  <2> QED
    BY <1>3, <1>9, <2>2, <2>3, MemoryNames DEF FetchedInv, Entry
<1>17. VersionInv'
  <2> SUFFICES ASSUME NEW y \in Tags, NEW d \in Caches, entry[d][y].here
               PROVE  /\ entry[d][y].version <= version[y]
                      /\ entry[d][y].version = version[y] /\ (Busy(d, y) => pc'[d] = "hit") =>
                           mem'[d][y] = latest'[y]
                      /\ \A s \in Threads : s # d /\ Writer(s, y) /\ pc'[s] \in Published =>
                           entry[d][y].version < version[y]
    BY <1>3, <1>9, MemoryNames DEF VersionInv, Entry
  <2>1. /\ entry[d][y].version <= version[y]
        /\ entry[d][y].version = version[y] /\ (Busy(d, y) => pc[d] = "hit") => mem[d][y] = latest[y]
        /\ \A s \in Threads : s # d /\ Writer(s, y) /\ pc[s] \in Published =>
             entry[d][y].version < version[y]
    BY <1>1 DEF VersionInv, Entry
  <2>2. pc'[d] = "hit" <=> pc[d] = "hit"
    BY <1>3, <1>9, MemoryNames
  <2>3. ASSUME y = x, job[t].output, entry[d][y].version = version[y]
        PROVE  d = t
    <3>1. entry[d][y] \in Present /\ version[y] \in Nat
      BY <1>1, EntryTypes DEF MemoryTypeOK
    <3>2. entry[d][y].version \in Nat
      BY <3>1 DEF Present
    <3>3. Writer(t, y) /\ pc[t] \in Published
      BY <1>3, <1>4, <2>3 DEF Published
    <3> QED
      BY <2>1, <2>3, <3>1, <3>2, <3>3
  <2>4. ASSUME entry[d][y].version = version[y], Busy(d, y) => pc'[d] = "hit"
        PROVE  mem'[d][y] = latest'[y]
    <3>1. y # x \/ ~job[t].output
      BY <1>4, <1>9, <2>3, <2>4
    <3> QED
      BY <1>7, <2>1, <2>2, <2>4, <3>1
  <2> QED
    BY <1>12, <2>1, <2>4
<1>18. UsedInv'
  BY <1>3 DEF CoherenceInv, UsedInv, Entry
<1> QED
  BY <1>9, <1>11, <1>13, <1>14, <1>15, <1>16, <1>17, <1>18 DEF CoherenceInv

(* A task ends its accesses, and the others go on as before. *)
LEMMA StepsOff ==
  ASSUME MemoryTypeOK, JobInv, NEW t \in Threads, pc' = [pc EXCEPT ![t] = "idle"], job' = job
  PROVE  /\ pc'[t] = "idle" /\ \A s \in Threads : s # t => pc'[s] = pc[s]
         /\ pc' \in [Threads -> DevicePlaces \cup HostPlaces]
         /\ \A s \in Threads : Tag(s)' = Tag(s)
         /\ \A y \in Tags : ~Busy(t, y)' /\ ~Writer(t, y)'
         /\ \A s \in Threads : s # t => \A y \in Tags : Busy(s, y)' <=> Busy(s, y)
         /\ \A s \in Threads : s # t => \A y \in Tags : Writer(s, y)' <=> Writer(s, y)
         /\ JobInv'
<1>1. /\ pc'[t] = "idle" /\ \A s \in Threads : s # t => pc'[s] = pc[s]
      /\ pc' \in [Threads -> DevicePlaces \cup HostPlaces]
  BY DEF MemoryTypeOK, DevicePlaces
<1>2. \A s \in Threads : Tag(s)' = Tag(s)
  BY DEF Tag
<1>3. /\ \A y \in Tags : ~Busy(t, y)'
      /\ \A s \in Threads : s # t => \A y \in Tags : Busy(s, y)' <=> Busy(s, y)
  BY <1>1, <1>2 DEF Busy
<1>4. /\ \A y \in Tags : ~Writer(t, y)'
      /\ \A s \in Threads : s # t => \A y \in Tags : Writer(s, y)' <=> Writer(s, y)
  BY <1>3 DEF Writer
<1>5. JobInv'
  BY <1>1, <1>3, <1>4 DEF JobInv
<1> QED
  BY <1>1, <1>2, <1>3, <1>4, <1>5

(* What has been fetched stays the newest when one thread t steps and memories get the newest
   or nothing. *)
LEMMA FetchedKept ==
  ASSUME MemoryTypeOK, FetchedInv, NEW t \in Threads, UNCHANGED <<setup, latest, job>>,
         \A s \in Threads : s # t => pc'[s] = pc[s],
         \A m \in Caches \cup {Host} : \A y \in Tags :
            mem'[m][y] = mem[m][y] \/ mem'[m][y] = latest[y],
         \A d \in Caches : \A y \in Tags : entry[d][y].here => entry'[d][y].here,
         t \in Caches => pc'[t] = "idle",
         t \in Hosts /\ pc'[t] = "written" =>
            /\ mem'[Host][Tag(t)] = latest[Tag(t)] /\ job[t].input
            /\ job[t].seen \in Caches /\ entry'[job[t].seen][Tag(t)].here /\ ~setup.through
  PROVE  FetchedInv'
<1>1. \A s \in Threads : Tag(s)' = Tag(s) /\ Tag(s) \in Tags
  BY DEF MemoryTypeOK, Records, Tag
<1>2. ASSUME NEW d \in Caches
      PROVE  /\ \/ pc'[d] \in {"publish", "inputs", "run"} /\ job[d].input
                \/ pc'[d] = "done"
                => mem'[d][Tag(d)] = latest[Tag(d)]
             /\ pc'[d] = "fetch" =>
                   mem'[IF job[d].seen = NoCache THEN Host ELSE job[d].seen][Tag(d)] = latest[Tag(d)]
  <2>1. PICK n : n = IF job[d].seen = NoCache THEN Host ELSE job[d].seen
    OBVIOUS
  <2>2. n \in Caches \cup {Host} /\ d \in Threads /\ Tag(d) \in Tags
    BY <1>1, <2>1, MemoryNames DEF MemoryTypeOK, Records
  <2>3. CASE d = t
    BY <2>3
  <2>4. CASE d # t
    <3>1. /\ \/ pc[d] \in {"publish", "inputs", "run"} /\ job[d].input
             \/ pc[d] = "done"
             => mem[d][Tag(d)] = latest[Tag(d)]
          /\ pc[d] = "fetch" => mem[n][Tag(d)] = latest[Tag(d)]
      BY <2>1 DEF FetchedInv
    <3>2. pc'[d] = pc[d]
      BY <2>2, <2>4
    <3>3. /\ mem'[d][Tag(d)] = mem[d][Tag(d)] \/ mem'[d][Tag(d)] = latest[Tag(d)]
          /\ mem'[n][Tag(d)] = mem[n][Tag(d)] \/ mem'[n][Tag(d)] = latest[Tag(d)]
      BY <2>2
    <3> QED
      BY <2>1, <3>1, <3>2, <3>3
  <2> QED
    BY <2>3, <2>4
<1>3. ASSUME NEW h \in Hosts, pc'[h] = "written"
      PROVE  /\ mem'[Host][Tag(h)] = latest[Tag(h)] /\ job[h].input
             /\ job[h].seen \in Caches /\ entry'[job[h].seen][Tag(h)].here /\ ~setup.through
  <2>1. h \in Threads /\ Tag(h) \in Tags
    BY <1>1, MemoryNames
  <2>2. CASE h # t
    <3>1. /\ mem[Host][Tag(h)] = latest[Tag(h)] /\ job[h].input
          /\ job[h].seen \in Caches /\ entry[job[h].seen][Tag(h)].here /\ ~setup.through
      BY <1>3, <2>1, <2>2 DEF FetchedInv, Entry
    <3> QED
      BY <2>1, <3>1
  <2>3. CASE h = t
    BY <1>3, <2>3
  <2> QED
    BY <2>2, <2>3
<1> QED
  BY <1>1, <1>2, <1>3, MemoryNames DEF FetchedInv, Entry

(* A host changes no versions. *)
LEMMA VersionsKept ==
  ASSUME VersionInv, UNCHANGED <<version, latest>>,
         \A d \in Caches : \A y \in Tags :
            /\ entry'[d][y].here => entry[d][y].here /\ entry'[d][y].version = entry[d][y].version
            /\ mem'[d][y] = mem[d][y]
            /\ Busy(d, y)' <=> Busy(d, y)
            /\ pc'[d] = pc[d],
         \A s \in Threads : \A y \in Tags :
            Writer(s, y)' /\ pc'[s] \in Published => Writer(s, y) /\ pc[s] \in Published
  PROVE  VersionInv'
<1> SUFFICES ASSUME NEW y \in Tags, NEW d \in Caches, entry'[d][y].here
             PROVE  /\ entry'[d][y].version <= version[y]
                    /\ entry'[d][y].version = version[y] /\ (Busy(d, y)' => pc'[d] = "hit") =>
                         mem'[d][y] = latest[y]
                    /\ \A s \in Threads : s # d /\ Writer(s, y)' /\ pc'[s] \in Published =>
                         entry'[d][y].version < version[y]
  BY DEF VersionInv, Entry
<1>1. entry[d][y].here /\ entry'[d][y].version = entry[d][y].version
  OBVIOUS
<1>2. /\ entry[d][y].version <= version[y]
      /\ entry[d][y].version = version[y] /\ (Busy(d, y) => pc[d] = "hit") => mem[d][y] = latest[y]
      /\ \A s \in Threads : s # d /\ Writer(s, y) /\ pc[s] \in Published =>
           entry[d][y].version < version[y]
  BY <1>1 DEF VersionInv, Entry
<1> QED
  BY <1>1, <1>2

(* The host takes the block from the cache that owns it. *)
LEMMA InvalidateAndFlushKeeps ==
  ASSUME AtOnce, CoherenceInv, NEW h \in Hosts, InvalidateAndFlush(h), UNCHANGED setup
  PROVE  CoherenceInv'
<1>1. /\ MemoryTypeOK /\ JobInv /\ HeldInv /\ OwnerInv /\ KnowsInv /\ FetchedInv
      /\ VersionInv
  BY DEF CoherenceInv
<1>2. PICK x, c, flushes :
         /\ x = Tag(h) /\ c = job[h].seen
         /\ flushes = IF ~invalidated[x] /\ ~Entry(c, x).flushing /\ owner[x] = c THEN 1 ELSE 0
  OBVIOUS
<1>3. /\ pc[h] = "register" /\ h \in Threads /\ h \notin Caches /\ job[h].input /\ c # NoCache
      /\ UNCHANGED <<setup, owner, version, latest, job>>
      /\ invalidated' = [invalidated EXCEPT ![x] = TRUE]
      /\ flushes = 1 => /\ entry' = [entry EXCEPT ![c][x].flushing = TRUE]
                        /\ mem' = [mem EXCEPT ![Host][x] = mem[c][x]]
                        /\ UNCHANGED moves
                        /\ pc' = [pc EXCEPT ![h] = "written"]
      /\ flushes # 1 => /\ UNCHANGED <<entry, mem, moves>>
                        /\ pc' = [pc EXCEPT ![h] = "registered"]
  BY <1>2, MemoryNames DEF InvalidateAndFlush, dataVars, AtOnce, CopyOut, Copied, Goto
<1>4. /\ x \in Tags /\ c \in Caches /\ Busy(h, x)
      /\ \A s \in Threads : Writer(s, x) => s = h
      /\ Knows(x)
  BY <1>1, <1>2, <1>3, OwnBlock DEF MemoryTypeOK, Records
<1>5. flushes = 1 => /\ owner[x] = c /\ ~setup.through
                     /\ entry[c][x].here /\ mem[c][x] = latest[x]
  <2> SUFFICES ASSUME flushes = 1
               PROVE  owner[x] = c /\ ~setup.through /\ entry[c][x].here /\ mem[c][x] = latest[x]
    OBVIOUS
  <2>1. owner[x] = c
    BY <1>2
  <2>2. entry[c][x].here /\ mem[c][x] = latest[x]
    BY <1>3, <1>4, <2>1 DEF Knows, Entry
  <2>3. setup.through => Writer(c, x)
    BY <1>1, <1>3, <1>4, <2>1 DEF OwnerInv
  <2> QED
    BY <1>3, <1>4, <2>1, <2>2, <2>3, MemoryNames
<1>6. /\ entry' \in [Caches -> [Tags -> Entries]]
      /\ \A d \in Caches : \A y \in Tags :
            /\ entry'[d][y].here <=> entry[d][y].here
            /\ entry[d][y].here => /\ entry'[d][y].version = entry[d][y].version
                                  /\ entry'[d][y].ready = entry[d][y].ready
                                  /\ entry'[d][y].refs = entry[d][y].refs
  <2>1. CASE flushes = 1
    <3>1. entry[c][x] \in Present
      BY <1>1, <1>4, <1>5, <2>1, EntryTypes DEF MemoryTypeOK
    <3>2. PICK e : e = [entry[c][x] EXCEPT !.flushing = TRUE]
      OBVIOUS
    <3>3. e \in Present /\ e.version = entry[c][x].version /\ e.refs = entry[c][x].refs
          /\ e.ready = entry[c][x].ready
      BY <3>1, <3>2, EntryFields
    <3>4. entry' = [entry EXCEPT ![c] = [entry[c] EXCEPT ![x] = e]]
      BY <1>3, <2>1, <3>2
    <3>5. e.here /\ e \in Entries /\ entry[c][x].here
      BY <3>1, <3>3 DEF Present, Entries
    <3>6. /\ entry' \in [Caches -> [Tags -> Entries]] /\ entry'[c][x] = e
          /\ \A d \in Caches : \A y \in Tags : d # c \/ y # x => entry'[d][y] = entry[d][y]
      BY <1>1, <1>4, <3>4, <3>5 DEF MemoryTypeOK
    <3> QED
      BY <3>3, <3>5, <3>6
  <2>2. CASE flushes # 1
    BY <1>1, <1>3, <2>2 DEF MemoryTypeOK
  <2> QED
    BY <2>1, <2>2
<1>7. /\ mem' \in [Caches \cup {Host} -> [Tags -> Nat]]
      /\ \A d \in Caches : mem'[d] = mem[d]
      /\ flushes = 1 => mem'[Host][x] = latest[x]
      /\ \A m \in Caches \cup {Host} : \A y \in Tags :
            mem'[m][y] = mem[m][y] \/ mem'[m][y] = latest[y]
  <2>1. CASE flushes = 1
    <3>1. mem' = [mem EXCEPT ![Host] = [mem[Host] EXCEPT ![x] = latest[x]]]
      BY <1>3, <1>5, <2>1
    <3>2. latest[x] \in Nat
      BY <1>1, <1>4 DEF MemoryTypeOK
    <3> QED
      BY <1>1, <1>4, <3>1, <3>2, MemoryNames DEF MemoryTypeOK
  <2>2. CASE flushes # 1
    BY <1>1, <1>3, <2>2 DEF MemoryTypeOK
  <2> QED
    BY <2>1, <2>2
<1>8. PICK p : p = IF flushes = 1 THEN "written" ELSE "registered"
  OBVIOUS
<1>9. p \in HostPlaces /\ p # "idle" /\ p \in {"written", "registered"} /\ pc' = [pc EXCEPT ![h] = p]
  BY <1>3, <1>8 DEF HostPlaces
<1>10. /\ pc'[h] = p
       /\ \A s \in Threads : s # h => pc'[s] = pc[s]
       /\ pc' \in [Threads -> DevicePlaces \cup HostPlaces]
       /\ \A s \in Threads : Tag(s)' = Tag(s)
       /\ \A s \in Threads : \A y \in Tags : Busy(s, y)' <=> Busy(s, y)
       /\ \A s \in Threads : \A y \in Tags : Writer(s, y)' <=> Writer(s, y)
       /\ JobInv'
  <2>1. p \in DevicePlaces \cup HostPlaces /\ pc[h] # "idle"
    BY <1>3, <1>9
  <2> QED
    BY <1>1, <1>3, <1>9, <2>1, StepsOn
<1>11. MemoryTypeOK'
  <2>1. invalidated' \in [Tags -> BOOLEAN] /\ moves' = {}
    BY <1>1, <1>3, <1>4 DEF MemoryTypeOK
  <2> QED
    BY <1>1, <1>3, <1>6, <1>7, <1>9, <1>10, <2>1, MemoryNames DEF MemoryTypeOK
<1>13. HeldInv'
  <2> SUFFICES ASSUME NEW d \in Caches
               PROVE  /\ pc'[d] # "idle" => entry'[d][Tag(d)].here /\ entry'[d][Tag(d)].refs >= 1
                      /\ pc'[d] \in {"miss", "drain"} => ~entry'[d][Tag(d)].ready
                      /\ pc'[d] = "drain" => setup.through
    BY <1>3, <1>10, MemoryNames DEF HeldInv, Entry
  <2>1. pc'[d] = pc[d] /\ Tag(d) \in Tags
    BY <1>1, <1>3, <1>10, MemoryNames DEF MemoryTypeOK, Records, Tag
  <2> QED
    BY <1>1, <1>6, <2>1 DEF HeldInv, Entry
<1>14. OwnerInv'
  BY <1>1, <1>3, <1>9, <1>10, OwnersKept DEF Published
<1>15. KnowsInv'
  BY <1>1, <1>3, <1>6, <1>7, <1>10, KnowledgeKept DEF Entry
<1>16. FetchedInv'
  <2>1. pc'[h] = "written" =>
            /\ mem'[Host][Tag(h)] = latest[Tag(h)] /\ job[h].input
            /\ job[h].seen \in Caches /\ entry'[job[h].seen][Tag(h)].here /\ ~setup.through
    BY <1>2, <1>3, <1>4, <1>5, <1>6, <1>7, <1>8, <1>10
  <2> QED
    BY <1>1, <1>3, <1>6, <1>7, <1>10, <2>1, FetchedKept
<1>17. VersionInv'
  <2>1. \A s \in Threads : \A y \in Tags :
            Writer(s, y)' /\ pc'[s] \in Published => Writer(s, y) /\ pc[s] \in Published
    BY <1>3, <1>9, <1>10 DEF Published
  <2>2. \A d \in Caches : pc'[d] = pc[d] /\ \A y \in Tags : Busy(d, y)' <=> Busy(d, y)
    BY <1>3, <1>10, MemoryNames
  <2> QED
    BY <1>1, <1>3, <1>6, <1>7, <2>1, <2>2, VersionsKept
<1>18. UsedInv'
  BY <1>3, <1>6 DEF CoherenceInv, UsedInv, Entry
<1> QED
  BY <1>10, <1>11, <1>13, <1>14, <1>15, <1>16, <1>17, <1>18 DEF CoherenceInv

(* The host has the data, and no cache owns the block any more. *)
LEMMA HostDisownsKeeps ==
  ASSUME AtOnce, CoherenceInv, NEW h \in Hosts, HostDisowns(h), UNCHANGED setup
  PROVE  CoherenceInv'
<1>1. /\ MemoryTypeOK /\ JobInv /\ HeldInv /\ OwnerInv /\ KnowsInv /\ FetchedInv
      /\ VersionInv
  BY DEF CoherenceInv
<1>2. PICK x, c : x = Tag(h) /\ c = job[h].seen
  OBVIOUS
<1>3. /\ pc[h] = "written" /\ h \in Threads /\ h \notin Caches
      /\ UNCHANGED <<setup, version, invalidated, mem, latest, job, moves>>
      /\ owner' = [owner EXCEPT ![x] = NoCache]
      /\ entry' = [entry EXCEPT ![c][x].flushing = FALSE]
      /\ pc' = [pc EXCEPT ![h] = "registered"]
  BY <1>2, MemoryNames DEF HostDisowns, Disown, dataVars, Goto
<1>4. /\ x \in Tags /\ c \in Caches /\ Busy(h, x)
      /\ \A s \in Threads : Writer(s, x) => s = h
      /\ ~setup.through /\ entry[c][x].here /\ mem[Host][x] = latest[x]
  BY <1>1, <1>2, <1>3, OwnBlock DEF FetchedInv, Entry
<1>5. /\ owner' \in [Tags -> Caches \cup {NoCache}] /\ owner'[x] = NoCache
      /\ \A y \in Tags : y # x => owner'[y] = owner[y]
  BY <1>1, <1>3, <1>4 DEF MemoryTypeOK
<1>6. /\ entry' \in [Caches -> [Tags -> Entries]]
      /\ \A d \in Caches : \A y \in Tags :
            /\ entry'[d][y].here <=> entry[d][y].here
            /\ entry[d][y].here => /\ entry'[d][y].version = entry[d][y].version
                                  /\ entry'[d][y].ready = entry[d][y].ready
                                  /\ entry'[d][y].refs = entry[d][y].refs
  <2>1. entry[c][x] \in Present
    BY <1>1, <1>4, EntryTypes DEF MemoryTypeOK
  <2>2. PICK e : e = [entry[c][x] EXCEPT !.flushing = FALSE]
    OBVIOUS
  <2>3. e \in Present /\ e.version = entry[c][x].version /\ e.refs = entry[c][x].refs
        /\ e.ready = entry[c][x].ready
    BY <2>1, <2>2, EntryFields
  <2>4. entry' = [entry EXCEPT ![c] = [entry[c] EXCEPT ![x] = e]]
    BY <1>3, <2>2
  <2>5. e.here /\ e \in Entries
    BY <2>3 DEF Present, Entries
  <2>6. /\ entry' \in [Caches -> [Tags -> Entries]] /\ entry'[c][x] = e
        /\ \A d \in Caches : \A y \in Tags : d # c \/ y # x => entry'[d][y] = entry[d][y]
    BY <1>1, <1>4, <2>4, <2>5 DEF MemoryTypeOK
  <2> QED
    BY <1>4, <2>3, <2>5, <2>6
<1>10. /\ pc'[h] = "registered"
       /\ \A s \in Threads : s # h => pc'[s] = pc[s]
       /\ pc' \in [Threads -> DevicePlaces \cup HostPlaces]
       /\ \A s \in Threads : Tag(s)' = Tag(s)
       /\ \A s \in Threads : \A y \in Tags : Busy(s, y)' <=> Busy(s, y)
       /\ \A s \in Threads : \A y \in Tags : Writer(s, y)' <=> Writer(s, y)
       /\ JobInv'
  BY <1>1, <1>3, StepsOn DEF HostPlaces
<1>11. MemoryTypeOK'
  BY <1>1, <1>3, <1>5, <1>6, <1>10, MemoryNames DEF MemoryTypeOK, HostPlaces
<1>12. \A d \in Caches : pc'[d] = pc[d] /\ Tag(d) \in Tags
  BY <1>1, <1>3, <1>10, MemoryNames DEF MemoryTypeOK, Records, Tag
<1>13. HeldInv'
  <2> SUFFICES ASSUME NEW d \in Caches
               PROVE  /\ pc'[d] # "idle" => entry'[d][Tag(d)].here /\ entry'[d][Tag(d)].refs >= 1
                      /\ pc'[d] \in {"miss", "drain"} => ~entry'[d][Tag(d)].ready
                      /\ pc'[d] = "drain" => setup.through
    BY <1>3, <1>10, MemoryNames DEF HeldInv, Entry
  <2> QED
    BY <1>1, <1>6, <1>12 DEF HeldInv, Entry
<1>14. OwnerInv'
  <2>1. ASSUME NEW d \in Caches, NEW y \in Tags, Writer(d, y), pc'[d] \in Published
        PROVE  owner'[y] = d
    <3>1. y # x
      BY <1>3, <1>4, <2>1, MemoryNames
    <3> QED
      BY <1>1, <1>5, <1>12, <2>1, <3>1 DEF OwnerInv
  <2>2. ASSUME NEW g \in Hosts, NEW y \in Tags, Busy(g, y),
               pc'[g] \in {"run", "done"} \/ (pc'[g] = "owned" /\ ~job[g].input)
        PROVE  owner'[y] = NoCache
    <3>1. pc'[g] = pc[g]
      BY <1>10, <2>2, MemoryNames
    <3> QED
      BY <1>1, <1>5, <2>2, <3>1 DEF OwnerInv
  <2> QED
    BY <1>3, <1>4, <1>10, <2>1, <2>2, MemoryNames DEF OwnerInv
<1>15. KnowsInv'
  <2> SUFFICES ASSUME NEW y \in Tags,
                      \A s \in Threads : Writer(s, y)' /\ ~job'[s].input =>
                          pc'[s] \notin {"inputs", "run", "owned"}
               PROVE  Knows(y)'
    BY DEF KnowsInv
  <2>1. CASE y = x
    BY <1>3, <1>4, <1>5, <2>1 DEF Knows
  <2>2. CASE y # x
    <3>1. Knows(y)
      BY <1>1, <1>3, <1>10 DEF KnowsInv
    <3>2. owner[y] \in Caches \cup {NoCache}
      BY <1>1 DEF MemoryTypeOK
    <3> QED
      BY <1>3, <1>5, <1>6, <2>2, <3>1, <3>2 DEF Knows, Entry
  <2> QED
    BY <2>1, <2>2
<1>16. FetchedInv'
  BY <1>1, <1>3, <1>6, <1>10, FetchedKept
<1>17. VersionInv'
  <2>1. \A s \in Threads : \A y \in Tags :
            Writer(s, y)' /\ pc'[s] \in Published => Writer(s, y) /\ pc[s] \in Published
    BY <1>3, <1>10 DEF Published
  <2>2. \A d \in Caches : pc'[d] = pc[d] /\ \A y \in Tags : Busy(d, y)' <=> Busy(d, y)
    BY <1>10, <1>12, MemoryNames
  <2> QED
    BY <1>1, <1>3, <1>6, <2>1, <2>2, VersionsKept
<1>18. UsedInv'
  BY <1>3, <1>6 DEF CoherenceInv, UsedInv, Entry
<1> QED
  BY <1>10, <1>11, <1>13, <1>14, <1>15, <1>16, <1>17, <1>18 DEF CoherenceInv

(* A host that writes the block takes it from its owner and makes all copies old. *)
LEMMA RegisterKeeps ==
  ASSUME AtOnce, CoherenceInv, NEW h \in Hosts, Register(h), UNCHANGED setup
  PROVE  CoherenceInv'
<1>1. /\ MemoryTypeOK /\ JobInv /\ HeldInv /\ OwnerInv /\ KnowsInv /\ FetchedInv
      /\ VersionInv
  BY DEF CoherenceInv
<1>2. PICK x : x = Tag(h)
  OBVIOUS
<1>3. /\ pc[h] \in {"register", "registered"} /\ h \in Threads /\ h \notin Caches
      /\ UNCHANGED <<setup, invalidated, mem, latest, entry, job, moves>>
      /\ owner' = IF job[h].output /\ ~job[h].input THEN [owner EXCEPT ![x] = NoCache] ELSE owner
      /\ version' = IF job[h].output THEN [version EXCEPT ![x] = version[x] + 1] ELSE version
      /\ pc' = [pc EXCEPT ![h] = "owned"]
  BY <1>2, MemoryNames DEF Register, dataVars, Goto
<1>4. /\ x \in Tags /\ Busy(h, x) /\ job[h].input \in BOOLEAN /\ job[h].output \in BOOLEAN
      /\ \A s \in Threads : Writer(s, x) => s = h
      /\ job[h].output => Writer(h, x)
      /\ job[h].input => Knows(x)
      /\ job[h].input \/ job[h].output
      /\ version[x] \in Nat
  BY <1>1, <1>2, <1>3, OwnBlock DEF JobInv, MemoryTypeOK
<1>5. /\ owner' \in [Tags -> Caches \cup {NoCache}]
      /\ \A y \in Tags : owner'[y] = owner[y] \/ (y = x /\ owner'[y] = NoCache)
      /\ ~job[h].input => owner'[x] = NoCache
      /\ job[h].input => owner' = owner
  BY <1>1, <1>3, <1>4 DEF MemoryTypeOK
<1>6. /\ version' \in [Tags -> Nat]
      /\ job[h].output => version'[x] = version[x] + 1
      /\ \A y \in Tags : y # x \/ ~job[h].output => version'[y] = version[y]
  BY <1>1, <1>3, <1>4 DEF MemoryTypeOK
<1>10. /\ pc'[h] = "owned"
       /\ \A s \in Threads : s # h => pc'[s] = pc[s]
       /\ pc' \in [Threads -> DevicePlaces \cup HostPlaces]
       /\ \A s \in Threads : Tag(s)' = Tag(s)
       /\ \A s \in Threads : \A y \in Tags : Busy(s, y)' <=> Busy(s, y)
       /\ \A s \in Threads : \A y \in Tags : Writer(s, y)' <=> Writer(s, y)
       /\ JobInv'
  <2>1. pc[h] # "idle" /\ "owned" \in DevicePlaces \cup HostPlaces
    BY <1>3 DEF HostPlaces
  <2> QED
    BY <1>1, <1>3, <2>1, StepsOn
<1>11. MemoryTypeOK'
  BY <1>1, <1>3, <1>5, <1>6, <1>10, MemoryNames DEF MemoryTypeOK, HostPlaces
<1>12. /\ \A d \in Caches : pc'[d] = pc[d]
       /\ \A y \in Tags : Busy(h, y) => y = x
  BY <1>2, <1>3, <1>10, MemoryNames DEF Busy
<1>13. HeldInv'
  BY <1>1, <1>3, <1>10, <1>12, MemoryNames DEF HeldInv, Entry
<1>14. OwnerInv'
  <2>1. ASSUME NEW d \in Caches, NEW y \in Tags, Writer(d, y), pc'[d] \in Published
        PROVE  owner'[y] = d
    <3>1. y # x
      BY <1>3, <1>4, <2>1, MemoryNames
    <3> QED
      BY <1>1, <1>5, <1>12, <2>1, <3>1 DEF OwnerInv
  <2>2. ASSUME NEW g \in Hosts, NEW y \in Tags, Busy(g, y),
               pc'[g] \in {"run", "done"} \/ (pc'[g] = "owned" /\ ~job[g].input)
        PROVE  owner'[y] = NoCache
    <3>1. CASE g = h
      BY <1>5, <1>10, <1>12, <2>2, <3>1
    <3>2. CASE g # h
      <4>1. pc'[g] = pc[g]
        BY <1>10, <3>2, MemoryNames
      <4>2. owner[y] = NoCache
        BY <1>1, <2>2, <4>1 DEF OwnerInv
      <4> QED
        BY <1>5, <4>2
    <3> QED
      BY <3>1, <3>2
  <2>3. ASSUME NEW d \in Caches, NEW y \in Tags, setup.through, owner'[y] = d
        PROVE  Writer(d, y) /\ pc'[d] \in Published
    <3>1. owner[y] = d /\ d # NoCache
      BY <1>5, <2>3, MemoryNames
    <3> QED
      BY <1>1, <1>12, <2>3, <3>1 DEF OwnerInv
  <2>4. \A y \in Tags : setup.through /\ owner'[y] # NoCache =>
             \E d \in Caches : owner'[y] = d /\ Writer(d, y)' /\ pc'[d] \in Published
    BY <1>5, <1>10, <2>3, MemoryNames
  <2> QED
    BY <1>3, <1>10, <2>1, <2>2, <2>4, MemoryNames DEF OwnerInv
<1>15. KnowsInv'
  <2> SUFFICES ASSUME NEW y \in Tags,
                      \A s \in Threads : Writer(s, y)' /\ ~job'[s].input =>
                          pc'[s] \notin {"inputs", "run", "owned"}
               PROVE  Knows(y)'
    BY DEF KnowsInv
  <2>1. Knows(y) /\ owner'[y] = owner[y]
    <3>1. CASE y = x
      BY <1>3, <1>4, <1>5, <1>10, <3>1
    <3>2. CASE y # x
      <4>1. \A s \in Threads : Writer(s, y) => s # h
        BY <1>12, <3>2 DEF Writer
      <4> QED
        BY <1>1, <1>3, <1>5, <1>10, <3>2, <4>1 DEF KnowsInv
    <3> QED
      BY <3>1, <3>2
  <2> QED
    BY <1>3, <2>1 DEF Knows, Entry
<1>16. FetchedInv'
  BY <1>1, <1>3, <1>10, FetchedKept
<1>17. VersionInv'
  <2> SUFFICES ASSUME NEW y \in Tags, NEW d \in Caches, entry[d][y].here
               PROVE  /\ entry[d][y].version <= version'[y]
                      /\ entry[d][y].version = version'[y] /\ (Busy(d, y) => pc[d] = "hit") =>
                           mem[d][y] = latest[y]
                      /\ \A s \in Threads : s # d /\ Writer(s, y) /\ pc'[s] \in Published =>
                           entry[d][y].version < version'[y]
    BY <1>3, <1>10, <1>12, MemoryNames DEF VersionInv, Entry
  <2>1. /\ entry[d][y].version <= version[y]
        /\ entry[d][y].version = version[y] /\ (Busy(d, y) => pc[d] = "hit") => mem[d][y] = latest[y]
        /\ \A s \in Threads : s # d /\ Writer(s, y) /\ pc[s] \in Published =>
             entry[d][y].version < version[y]
    BY <1>1 DEF VersionInv, Entry
  <2>2. CASE y = x /\ job[h].output
    <3>1. entry[d][y] \in Present
      BY <1>1, EntryTypes DEF MemoryTypeOK
    <3>2. entry[d][y].version \in Nat
      BY <3>1 DEF Present
    <3> QED
      BY <1>4, <1>6, <2>1, <2>2, <3>2
  <2>3. CASE ~(y = x /\ job[h].output)
    <3>1. version'[y] = version[y]
      BY <1>6, <2>3
    <3>2. \A s \in Threads : Writer(s, y) => s # h
      BY <1>12, <2>3 DEF Writer
    <3> QED
      BY <1>10, <2>1, <3>1, <3>2
  <2> QED
    BY <2>2, <2>3
<1>18. UsedInv'
  BY <1>3 DEF CoherenceInv, UsedInv, Entry
<1> QED
  BY <1>10, <1>11, <1>13, <1>14, <1>15, <1>16, <1>17, <1>18 DEF CoherenceInv

(* A host that reads has waited until no cache owns the block. *)
LEMMA WaitOwnerKeeps ==
  ASSUME AtOnce, CoherenceInv, NEW h \in Hosts, WaitOwner(h), UNCHANGED setup
  PROVE  CoherenceInv'
<1>1. /\ MemoryTypeOK /\ JobInv /\ HeldInv /\ OwnerInv /\ KnowsInv /\ FetchedInv
      /\ VersionInv
  BY DEF CoherenceInv
<1>2. PICK x : x = Tag(h)
  OBVIOUS
<1>3. /\ pc[h] = "owned" /\ h \in Threads /\ h \notin Caches /\ pc' = [pc EXCEPT ![h] = "run"]
      /\ job[h].input => owner[x] = NoCache
      /\ UNCHANGED <<setup, owner, version, invalidated, mem, latest, moves, entry, job>>
  BY <1>2, MemoryNames DEF WaitOwner, dirVars, dataVars, Goto
<1>4. /\ pc'[h] = "run"
      /\ \A s \in Threads : s # h => pc'[s] = pc[s]
      /\ pc' \in [Threads -> DevicePlaces \cup HostPlaces]
      /\ \A s \in Threads : Tag(s)' = Tag(s)
      /\ \A s \in Threads : \A y \in Tags : Busy(s, y)' <=> Busy(s, y)
      /\ \A s \in Threads : \A y \in Tags : Writer(s, y)' <=> Writer(s, y)
      /\ JobInv'
  BY <1>1, <1>3, StepsOn DEF DevicePlaces
<1>5. /\ \A d \in Caches : pc'[d] = pc[d]
      /\ \A y \in Tags : Busy(h, y) => y = x
      /\ \A s \in Threads : pc'[s] \in Published <=> pc[s] \in Published
  BY <1>2, <1>3, <1>4, MemoryNames DEF Busy, Published
<1>11. MemoryTypeOK'
  BY <1>1, <1>3, <1>4, MemoryNames DEF MemoryTypeOK, HostPlaces
<1>13. HeldInv'
  BY <1>1, <1>3, <1>4, <1>5, MemoryNames DEF HeldInv, Entry
<1>14. OwnerInv'
  <2>1. ASSUME NEW g \in Hosts, NEW y \in Tags, Busy(g, y),
               pc'[g] \in {"run", "done"} \/ (pc'[g] = "owned" /\ ~job[g].input)
        PROVE  owner[y] = NoCache
    <3>1. CASE g = h
      <4>1. CASE job[h].input
        BY <1>3, <1>5, <2>1, <3>1, <4>1
      <4>2. CASE ~job[h].input
        BY <1>1, <1>3, <2>1, <3>1, <4>2 DEF OwnerInv
      <4> QED
        BY <4>1, <4>2
    <3>2. CASE g # h
      BY <1>1, <1>4, <2>1, <3>2, MemoryNames DEF OwnerInv
    <3> QED
      BY <3>1, <3>2
  <2>2. \A y \in Tags : owner[y] # NoCache => owner[y] \in Threads
    BY <1>1, MemoryNames DEF MemoryTypeOK
  <2> QED
    BY <1>1, <1>3, <1>4, <1>5, <2>1, <2>2, MemoryNames DEF OwnerInv
<1>15. KnowsInv'
  BY <1>1, <1>3, <1>4, KnowledgeKept DEF Entry
<1>16. FetchedInv'
  BY <1>1, <1>3, <1>4, FetchedKept
<1>17. VersionInv'
  BY <1>1, <1>3, <1>4, <1>5, MemoryNames, VersionsKept
<1>18. UsedInv'
  BY <1>3 DEF CoherenceInv, UsedInv, Entry
<1> QED
  BY <1>4, <1>11, <1>13, <1>14, <1>15, <1>16, <1>17, <1>18 DEF CoherenceInv

(* A host task, or a wait, ends: the copies of what it may have written are old. *)
LEMMA HostUnregisterKeeps ==
  ASSUME AtOnce, CoherenceInv, NEW h \in Hosts, HostUnregister(h), UNCHANGED setup
  PROVE  CoherenceInv'
<1>1. /\ MemoryTypeOK /\ JobInv /\ HeldInv /\ OwnerInv /\ KnowsInv /\ FetchedInv
      /\ VersionInv
  BY DEF CoherenceInv
<1>2. PICK x, more : x = Tag(h) /\ more = IF job[h].output \/ job[h].sync THEN 1 ELSE 0
  OBVIOUS
<1>3. /\ pc[h] = "done" /\ h \in Threads /\ h \notin Caches /\ pc' = [pc EXCEPT ![h] = "idle"]
      /\ UNCHANGED <<setup, owner, invalidated, mem, latest, moves, entry, job>>
      /\ version' = IF more = 1 THEN [version EXCEPT ![x] = version[x] + 1] ELSE version
  BY <1>2, MemoryNames DEF HostUnregister, dataVars, Goto
<1>4. /\ x \in Tags /\ version[x] \in Nat
      /\ \A s \in Threads : Writer(s, x) => s = h
  BY <1>1, <1>2, <1>3, OwnBlock DEF MemoryTypeOK
<1>5. /\ pc'[h] = "idle" /\ \A s \in Threads : s # h => pc'[s] = pc[s]
      /\ pc' \in [Threads -> DevicePlaces \cup HostPlaces]
      /\ \A s \in Threads : Tag(s)' = Tag(s)
      /\ \A y \in Tags : ~Busy(h, y)' /\ ~Writer(h, y)'
      /\ \A s \in Threads : s # h => \A y \in Tags : Busy(s, y)' <=> Busy(s, y)
      /\ \A s \in Threads : s # h => \A y \in Tags : Writer(s, y)' <=> Writer(s, y)
      /\ JobInv'
  BY <1>1, <1>3, StepsOff
<1>6. /\ version' \in [Tags -> Nat]
      /\ \A y \in Tags : version'[y] = version[y] \/ version'[y] = version[y] + 1
  BY <1>1, <1>3, <1>4 DEF MemoryTypeOK
<1>7. \A d \in Caches : /\ pc'[d] = pc[d] /\ d # h
                        /\ \A y \in Tags : Busy(d, y)' <=> Busy(d, y)
                        /\ \A y \in Tags : Writer(d, y)' <=> Writer(d, y)
  BY <1>3, <1>5, MemoryNames
<1>11. MemoryTypeOK'
  BY <1>1, <1>3, <1>5, <1>6, MemoryNames DEF MemoryTypeOK, HostPlaces
<1>13. HeldInv'
  BY <1>1, <1>3, <1>5, <1>7, MemoryNames DEF HeldInv, Entry
<1>14. OwnerInv'
  <2>1. ASSUME NEW g \in Hosts, NEW y \in Tags, Busy(g, y)',
               pc'[g] \in {"run", "done"} \/ (pc'[g] = "owned" /\ ~job[g].input)
        PROVE  owner[y] = NoCache
    <3>1. g # h /\ g \in Threads
      BY <1>5, <2>1, MemoryNames
    <3> QED
      BY <1>1, <1>5, <2>1, <3>1 DEF OwnerInv
  <2>2. \A y \in Tags : owner[y] # NoCache => owner[y] \in Caches
    BY <1>1 DEF MemoryTypeOK
  <2> QED
    BY <1>1, <1>3, <1>7, <2>1, <2>2 DEF OwnerInv
<1>15. KnowsInv'
  <2> SUFFICES ASSUME NEW y \in Tags,
                      \A s \in Threads : Writer(s, y)' /\ ~job'[s].input =>
                          pc'[s] \notin {"inputs", "run", "owned"}
               PROVE  Knows(y)'
    BY DEF KnowsInv
  <2>1. Knows(y)
    BY <1>1, <1>3, <1>5 DEF KnowsInv
  <2> QED
    BY <1>3, <2>1 DEF Knows, Entry
<1>16. FetchedInv'
  BY <1>1, <1>3, <1>5, FetchedKept
<1>17. VersionInv'
  <2> SUFFICES ASSUME NEW y \in Tags, NEW d \in Caches, entry[d][y].here
               PROVE  /\ entry[d][y].version <= version'[y]
                      /\ entry[d][y].version = version'[y] /\ (Busy(d, y) => pc[d] = "hit") =>
                           mem[d][y] = latest[y]
                      /\ \A s \in Threads : s # d /\ Writer(s, y)' /\ pc'[s] \in Published =>
                           entry[d][y].version < version'[y]
    BY <1>3, <1>7 DEF VersionInv, Entry
  <2>1. /\ entry[d][y].version <= version[y]
        /\ entry[d][y].version = version[y] /\ (Busy(d, y) => pc[d] = "hit") => mem[d][y] = latest[y]
        /\ \A s \in Threads : s # d /\ Writer(s, y) /\ pc[s] \in Published =>
             entry[d][y].version < version[y]
    BY <1>1 DEF VersionInv, Entry
  <2>2. entry[d][y] \in Present
    BY <1>1, EntryTypes DEF MemoryTypeOK
  <2>3. entry[d][y].version \in Nat /\ version[y] \in Nat
    BY <1>1, <2>2 DEF Present, MemoryTypeOK
  <2>4. \A s \in Threads : Writer(s, y)' /\ pc'[s] \in Published => Writer(s, y) /\ pc[s] \in Published
    BY <1>5
  <2>5. CASE version'[y] = version[y]
    BY <2>1, <2>4, <2>5
  <2>6. CASE version'[y] = version[y] + 1
    BY <2>1, <2>3, <2>6
  <2> QED
    BY <1>6, <2>5, <2>6
<1>18. UsedInv'
  BY <1>3 DEF CoherenceInv, UsedInv, Entry
<1> QED
  BY <1>5, <1>11, <1>13, <1>14, <1>15, <1>16, <1>17, <1>18 DEF CoherenceInv

(* A task of a device ends; what it wrote goes to the host if blocks are written through. *)
LEMMA UnregisterKeeps ==
  ASSUME AtOnce, CoherenceInv, NEW c \in Caches, Unregister(c), UNCHANGED setup
  PROVE  CoherenceInv'
<1>1. /\ MemoryTypeOK /\ JobInv /\ HeldInv /\ OwnerInv /\ KnowsInv /\ FetchedInv
      /\ VersionInv
  BY DEF CoherenceInv
<1>2. PICK x, refs, writes :
         /\ x = Tag(c) /\ refs = Less(Entry(c, x).refs + IF setup.through THEN 1 ELSE 0, 2)
         /\ writes = IF setup.through /\ job[c].output THEN 1 ELSE 0
  OBVIOUS
<1>3. /\ pc[c] = "done" /\ c \in Threads /\ job' = job /\ ~setup.async
      /\ pc' = [pc EXCEPT ![c] = "idle"]
      /\ UNCHANGED <<setup, version, invalidated, latest, moves>>
      /\ writes = 1 =>
           /\ mem' = [mem EXCEPT ![Host][x] = mem[c][x]]
           /\ entry' = [entry EXCEPT ![c][x].refs = refs, ![c][x].dirty = FALSE,
                                     ![c][x].flushing = setup.async]
           /\ owner' = [owner EXCEPT ![x] = NoCache]
      /\ writes # 1 => /\ entry' = [entry EXCEPT ![c][x].refs = refs]
                       /\ UNCHANGED <<owner, mem>>
  BY <1>2, MemoryNames DEF Unregister, dataVars, AtOnce, CopyOut, Copied, Goto
<1>4. /\ x \in Tags /\ Busy(c, x) /\ entry[c][x].here /\ mem[c][x] = latest[x]
      /\ job[c].output \in BOOLEAN /\ (job[c].output => Writer(c, x))
      /\ \A s \in Threads : Writer(s, x) => s = c
      /\ \A s \in Threads : Busy(s, x) /\ job[c].output => s = c
  BY <1>1, <1>2, <1>3, OwnBlock DEF HeldInv, FetchedInv, Entry
<1>5. entry[c][x] \in Present /\ refs \in Nat /\ setup.through \in BOOLEAN
  <2>1. entry[c][x] \in Present
    BY <1>1, <1>4, EntryTypes DEF MemoryTypeOK
  <2>2. entry[c][x].refs \in Nat
    BY <2>1 DEF Present
  <2>3. setup.through \in BOOLEAN
    BY <1>1, BlocksAssumption DEF MemoryTypeOK
  <2> QED
    BY <1>2, <2>1, <2>2, <2>3 DEF Less, Entry
<1>6. /\ entry' \in [Caches -> [Tags -> Entries]]
      /\ entry'[c][x].here /\ entry'[c][x].version = entry[c][x].version
      /\ \A d \in Caches : \A y \in Tags : d # c \/ y # x => entry'[d][y] = entry[d][y]
  <2>1. PICK e1 : e1 = [entry[c][x] EXCEPT !.refs = refs]
    OBVIOUS
  <2>2. e1 \in Present /\ e1.version = entry[c][x].version
    BY <1>5, <2>1, EntryFields
  <2>3. PICK e2 : e2 = [e1 EXCEPT !.dirty = FALSE]
    OBVIOUS
  <2>4. e2 \in Present /\ e2.version = entry[c][x].version
    BY <2>2, <2>3, EntryFields
  <2>5. PICK e3 : e3 = [e2 EXCEPT !.flushing = FALSE]
    OBVIOUS
  <2>6. e3 \in Present /\ e3.version = entry[c][x].version
    BY <2>4, <2>5, EntryFields
  <2>7. PICK e : e = IF writes = 1 THEN e3 ELSE e1
    OBVIOUS
  <2>8. e \in Present /\ e.version = entry[c][x].version
    BY <2>2, <2>6, <2>7
  <2>9. entry' = [entry EXCEPT ![c] = [entry[c] EXCEPT ![x] = e]]
    <3>1. CASE writes = 1
      <4>1. setup.async = FALSE
        BY <1>1, <1>3, BlocksAssumption DEF MemoryTypeOK
      <4>2. entry' = [entry EXCEPT ![c][x].refs = refs, ![c][x].dirty = FALSE,
                                   ![c][x].flushing = FALSE]
        BY <1>3, <3>1, <4>1
      <4>3. entry[c] \in [Tags -> Entries] /\ DOMAIN entry = Caches /\ DOMAIN entry[c] = Tags
        BY <1>1 DEF MemoryTypeOK
      <4> QED
        BY <1>4, <2>1, <2>3, <2>5, <2>7, <3>1, <4>2, <4>3
    <3>2. CASE writes # 1
      BY <1>3, <2>1, <2>7, <3>2
    <3> QED
      BY <3>1, <3>2
  <2>10. e.here /\ e \in Entries
    BY <2>8 DEF Present, Entries
  <2>11. /\ entry' \in [Caches -> [Tags -> Entries]] /\ entry'[c][x] = e
         /\ \A d \in Caches : \A y \in Tags : d # c \/ y # x => entry'[d][y] = entry[d][y]
    BY <1>1, <1>4, <2>9, <2>10 DEF MemoryTypeOK
  <2> QED
    BY <2>8, <2>10, <2>11
<1>7. /\ mem' \in [Caches \cup {Host} -> [Tags -> Nat]]
      /\ \A d \in Caches : mem'[d] = mem[d]
      /\ writes = 1 => mem'[Host][x] = latest[x]
      /\ writes # 1 => mem' = mem
      /\ \A y \in Tags : y # x => mem'[Host][y] = mem[Host][y]
      /\ \A m \in Caches \cup {Host} : \A y \in Tags :
            mem'[m][y] = mem[m][y] \/ mem'[m][y] = latest[y]
  <2>1. CASE writes = 1
    <3>1. mem' = [mem EXCEPT ![Host] = [mem[Host] EXCEPT ![x] = latest[x]]]
      BY <1>3, <1>4, <2>1
    <3>2. latest[x] \in Nat
      BY <1>1, <1>4 DEF MemoryTypeOK
    <3> QED
      BY <1>1, <1>4, <2>1, <3>1, <3>2, MemoryNames DEF MemoryTypeOK
  <2>2. CASE writes # 1
    BY <1>1, <1>3, <2>2 DEF MemoryTypeOK
  <2> QED
    BY <2>1, <2>2
<1>8. /\ owner' \in [Tags -> Caches \cup {NoCache}]
      /\ writes = 1 => owner'[x] = NoCache
      /\ writes # 1 => owner' = owner
      /\ \A y \in Tags : y # x => owner'[y] = owner[y]
  BY <1>1, <1>3, <1>4 DEF MemoryTypeOK
<1>9. /\ pc'[c] = "idle" /\ \A s \in Threads : s # c => pc'[s] = pc[s]
      /\ pc' \in [Threads -> DevicePlaces \cup HostPlaces]
      /\ \A s \in Threads : Tag(s)' = Tag(s)
      /\ \A y \in Tags : ~Busy(c, y)' /\ ~Writer(c, y)'
      /\ \A s \in Threads : s # c => \A y \in Tags : Busy(s, y)' <=> Busy(s, y)
      /\ \A s \in Threads : s # c => \A y \in Tags : Writer(s, y)' <=> Writer(s, y)
      /\ JobInv'
  BY <1>1, <1>3, StepsOff
<1>10. /\ \A s \in Threads : Tag(s) \in Tags
       /\ \A y \in Tags : Busy(c, y) => y = x
       /\ \A y \in Tags : Writer(c, y) => y = x /\ job[c].output
  BY <1>1, <1>2 DEF MemoryTypeOK, Records, Tag, Busy, Writer
<1>11. MemoryTypeOK'
  <2>1. moves' = {} /\ setup' \in Setups /\ version' \in [Tags -> Nat]
        /\ invalidated' \in [Tags -> BOOLEAN] /\ latest' \in [Tags -> Nat]
        /\ job' \in [Threads -> Records]
    BY <1>1, <1>3 DEF MemoryTypeOK
  <2>2. /\ \A d \in Caches : pc'[d] \in DevicePlaces
        /\ \A h \in Hosts : pc'[h] \in HostPlaces
    BY <1>1, <1>9, MemoryNames DEF MemoryTypeOK, DevicePlaces
  <2> QED
    BY <1>6, <1>7, <1>8, <1>9, <2>1, <2>2 DEF MemoryTypeOK
<1>13. HeldInv'
  <2> SUFFICES ASSUME NEW d \in Caches
               PROVE  /\ pc'[d] # "idle" => entry'[d][Tag(d)].here /\ entry'[d][Tag(d)].refs >= 1
                      /\ pc'[d] \in {"miss", "drain"} => ~entry'[d][Tag(d)].ready
                      /\ pc'[d] = "drain" => setup.through
    BY <1>3, <1>9, MemoryNames DEF HeldInv, Entry
  <2>1. CASE d = c
    BY <1>9, <2>1
  <2>2. CASE d # c
    BY <1>1, <1>6, <1>9, <1>10, <2>2, MemoryNames DEF HeldInv, Entry
  <2> QED
    BY <2>1, <2>2
<1>14. OwnerInv'
  <2>1. ASSUME NEW d \in Caches, NEW y \in Tags, Writer(d, y)', pc'[d] \in Published
        PROVE  owner'[y] = d
    <3>1. d # c /\ d \in Threads
      BY <1>9, <2>1, MemoryNames
    <3>2. Writer(d, y) /\ pc[d] \in Published
      BY <1>9, <2>1, <3>1
    <3>3. y # x
      BY <1>4, <3>1, <3>2
    <3> QED
      BY <1>1, <1>8, <3>2, <3>3 DEF OwnerInv
  <2>2. ASSUME NEW h \in Hosts, NEW y \in Tags, Busy(h, y)',
               pc'[h] \in {"run", "done"} \/ (pc'[h] = "owned" /\ ~job[h].input)
        PROVE  owner'[y] = NoCache
    <3>1. h # c /\ h \in Threads
      BY MemoryNames
    <3>2. Busy(h, y) /\ pc'[h] = pc[h]
      BY <1>9, <2>2, <3>1
    <3>3. owner[y] = NoCache
      BY <1>1, <2>2, <3>2 DEF OwnerInv
    <3> QED
      BY <1>8, <3>3
  <2>3. ASSUME NEW d \in Caches, NEW y \in Tags, setup.through, owner'[y] = d
        PROVE  Writer(d, y)' /\ pc'[d] \in Published
    <3>1. owner[y] = d /\ d # NoCache
      BY <1>8, <2>3, MemoryNames
    <3>2. Writer(d, y) /\ pc[d] \in Published
      BY <1>1, <2>3, <3>1 DEF OwnerInv
    <3>3. d # c
      BY <1>2, <1>8, <1>10, <2>3, <3>1, <3>2
    <3> QED
      BY <1>9, <3>2, <3>3, MemoryNames
  <2>4. \A y \in Tags : setup.through /\ owner'[y] # NoCache =>
             \E d \in Caches : owner'[y] = d /\ Writer(d, y)' /\ pc'[d] \in Published
    BY <1>8, <2>3
  <2> QED
    BY <1>3, <2>1, <2>2, <2>4 DEF OwnerInv
<1>15. KnowsInv'
  <2> SUFFICES ASSUME NEW y \in Tags,
                      \A s \in Threads : Writer(s, y)' /\ ~job'[s].input =>
                          pc'[s] \notin {"inputs", "run", "owned"}
               PROVE  Knows(y)'
    BY DEF KnowsInv
  <2>1. Knows(y)
    BY <1>1, <1>3, <1>9 DEF KnowsInv
  <2>2. \A d \in Caches : entry[d][y].here => entry'[d][y].here
    BY <1>6
  <2>3. owner[y] \in Caches \cup {NoCache}
    BY <1>1 DEF MemoryTypeOK
  <2>4. CASE y = x /\ writes = 1
    BY <1>3, <1>7, <1>8, <2>4 DEF Knows
  <2>5. CASE ~(y = x /\ writes = 1)
    <3>1. owner'[y] = owner[y] /\ mem'[Host][y] = mem[Host][y]
      BY <1>7, <1>8, <2>5
    <3> QED
      BY <1>3, <1>7, <2>1, <2>2, <2>3, <3>1 DEF Knows, Entry
  <2> QED
    BY <2>4, <2>5
<1>16. FetchedInv'
  <2>1. \A d \in Caches : \A y \in Tags : entry[d][y].here => entry'[d][y].here
    BY <1>6
  <2> QED
    BY <1>1, <1>3, <1>7, <1>9, <2>1, MemoryNames, FetchedKept
<1>17. VersionInv'
  <2> SUFFICES ASSUME NEW y \in Tags, NEW d \in Caches, entry'[d][y].here
               PROVE  /\ entry'[d][y].version <= version[y]
                      /\ entry'[d][y].version = version[y] /\ (Busy(d, y)' => pc'[d] = "hit") =>
                           mem'[d][y] = latest[y]
                      /\ \A s \in Threads : s # d /\ Writer(s, y)' /\ pc'[s] \in Published =>
                           entry'[d][y].version < version[y]
    BY <1>3 DEF VersionInv, Entry
  <2>1. entry[d][y].here /\ entry'[d][y].version = entry[d][y].version
    BY <1>4, <1>6
  <2>2. /\ entry[d][y].version <= version[y]
        /\ entry[d][y].version = version[y] /\ (Busy(d, y) => pc[d] = "hit") => mem[d][y] = latest[y]
        /\ \A s \in Threads : s # d /\ Writer(s, y) /\ pc[s] \in Published =>
             entry[d][y].version < version[y]
    BY <1>1, <2>1 DEF VersionInv, Entry
  <2>3. \A s \in Threads : Writer(s, y)' /\ pc'[s] \in Published => Writer(s, y) /\ pc[s] \in Published
    BY <1>9
  <2>4. CASE d = c /\ y = x
    BY <1>4, <1>7, <2>1, <2>2, <2>3, <2>4
  <2>5. CASE d = c /\ y # x
    BY <1>7, <1>10, <2>1, <2>2, <2>3, <2>5
  <2>6. CASE d # c
    BY <1>7, <1>9, <2>1, <2>2, <2>3, <2>6, MemoryNames
  <2> QED
    BY <2>4, <2>5, <2>6
<1>18. UsedInv'
  BY <1>3, <1>4, <1>6 DEF CoherenceInv, UsedInv, Entry
<1> QED
  BY <1>9, <1>11, <1>13, <1>14, <1>15, <1>16, <1>17, <1>18 DEF CoherenceInv

(* Every step of the memories keeps the invariant (CoherenceNext). *)
LEMMA MemoryStepKeeps == AtOnce /\ CoherenceInv /\ CoherenceNext => CoherenceInv'
<1> SUFFICES ASSUME AtOnce, CoherenceInv, CoherenceNext PROVE CoherenceInv'
  OBVIOUS
<1>1. MemoryTypeOK /\ UNCHANGED setup
  BY DEF CoherenceInv, CoherenceNext
<1>2. CASE \E t \in Threads, j \in Jobs : Lookup(t, j)
  BY <1>1, <1>2, LookupKeeps
<1>3. CASE \E t \in Threads : Run(t)
  BY <1>1, <1>3, RunKeeps
<1>4. ASSUME NEW c \in Caches, DeviceStep(c) PROVE CoherenceInv'
  <2>1. ~WriteBack(c) /\ ~EvictorDisowns(c)
    BY <1>1 DEF WriteBack, EvictorDisowns, MemoryTypeOK, DevicePlaces
  <2>2. CASE \E x \in Tags : Evict(c, x)
    BY <1>1, <2>2, EvictKeeps
  <2>3. CASE Erase(c)
    BY <1>1, <2>3, EraseKeeps
  <2>4. CASE Allocate(c)
    BY <1>1, <2>4, AllocateKeeps
  <2>5. CASE Hit(c)
    BY <1>1, <2>5, HitKeeps
  <2>6. CASE Fetch(c)
    BY <1>1, <2>6, FetchKeeps
  <2>7. CASE Publish(c)
    BY <1>1, <2>7, PublishKeeps
  <2>8. CASE WaitInputs(c)
    BY <1>1, <2>8, WaitInputsKeeps
  <2>9. CASE Unregister(c)
    BY <1>1, <2>9, UnregisterKeeps
  <2> QED
    BY <1>4, <2>1, <2>2, <2>3, <2>4, <2>5, <2>6, <2>7, <2>8, <2>9 DEF DeviceStep
<1>5. ASSUME NEW h \in Hosts, HostStep(h) PROVE CoherenceInv'
  <2>1. CASE InvalidateAndFlush(h)
    BY <1>1, <2>1, InvalidateAndFlushKeeps
  <2>2. CASE HostDisowns(h)
    BY <1>1, <2>2, HostDisownsKeeps
  <2>3. CASE Register(h)
    BY <1>1, <2>3, RegisterKeeps
  <2>4. CASE WaitOwner(h)
    BY <1>1, <2>4, WaitOwnerKeeps
  <2>5. CASE HostUnregister(h)
    BY <1>1, <2>5, HostUnregisterKeeps
  <2> QED
    BY <1>5, <2>1, <2>2, <2>3, <2>4, <2>5 DEF HostStep
<1>6. ~\E m \in moves : Transferred(m)
  BY <1>1 DEF MemoryTypeOK
<1> QED
  BY <1>2, <1>3, <1>4, <1>5, <1>6 DEF CoherenceNext

(* What the tasks read is the newest, and the directory knows where it is. *)
LEMMA MemoryRight == CoherenceInv => ReadsLatest /\ DirectoryKnows
<1> SUFFICES ASSUME CoherenceInv PROVE ReadsLatest /\ DirectoryKnows
  OBVIOUS
<1>1. /\ MemoryTypeOK /\ JobInv /\ HeldInv /\ OwnerInv /\ KnowsInv /\ FetchedInv
      /\ VersionInv
  BY DEF CoherenceInv
<1>2. ASSUME NEW t \in Threads, pc[t] = "run", job[t].input
      PROVE  mem[Memory(t)][Tag(t)] = latest[Tag(t)]
  <2>1. CASE t \in Caches
    BY <1>1, <1>2, <2>1 DEF FetchedInv, Memory
  <2>2. CASE t \in Hosts
    <3>1. Busy(t, Tag(t)) /\ Knows(Tag(t)) /\ Tag(t) \in Tags
      BY <1>2, OwnBlock
    <3>2. owner[Tag(t)] = NoCache
      BY <1>1, <1>2, <2>2, <3>1 DEF OwnerInv
    <3> QED
      BY <2>2, <3>1, <3>2, MemoryNames DEF Knows, Memory
  <2> QED
    BY <2>1, <2>2, MemoryNames
<1>3. DirectoryKnows
  BY <1>1 DEF DirectoryKnows, KnowsInv, Knows, Writer, Busy
<1> QED
  BY <1>2, <1>3 DEF ReadsLatest

(* Nothing else touches the memories. *)
LEMMA MemoryUntouched == AtOnce /\ CoherenceInv /\ UNCHANGED coherenceVars => AtOnce' /\ CoherenceInv'
<1> SUFFICES ASSUME AtOnce, CoherenceInv, UNCHANGED coherenceVars PROVE AtOnce' /\ CoherenceInv'
  OBVIOUS
<1>1. UNCHANGED <<setup, owner, version, invalidated, entry, mem, latest, job, pc, moves>>
  BY DEF coherenceVars
<1>2. MemoryTypeOK' /\ JobInv' /\ HeldInv' /\ UsedInv'
  BY <1>1 DEF CoherenceInv, MemoryTypeOK, JobInv, HeldInv, UsedInv, Writer, Busy, Tag, Entry
<1>3. OwnerInv' /\ KnowsInv'
  BY <1>1 DEF CoherenceInv, OwnerInv, KnowsInv, Knows, Writer, Busy, Tag, Entry
<1>4. FetchedInv' /\ VersionInv'
  BY <1>1 DEF CoherenceInv, FetchedInv, VersionInv, Writer, Busy, Tag, Entry
<1> QED
  BY <1>1, <1>2, <1>3, <1>4 DEF CoherenceInv, AtOnce

(* An access in a cache stays right when another thread steps. *)
LEMMA AccessesKept ==
  ASSUME CoherenceInv, EnsuresInv, NEW t \in Threads, UNCHANGED setup,
         \A s \in Threads : s # t => pc'[s] = pc[s] /\ job'[s] = job[s],
         \A y \in Tags : version'[y] = version[y] \/ (pc[t] # "idle" /\ y = Tag(t)),
         \A d \in Caches : \A y \in Tags : d # t /\ entry[d][y].here =>
            entry'[d][y].version = entry[d][y].version
  PROVE  \A d \in Caches : d # t => AccessRight(d)'
<1> SUFFICES ASSUME NEW d \in Caches, d # t PROVE AccessRight(d)'
  OBVIOUS
<1>1. d \in Threads /\ pc'[d] = pc[d] /\ job'[d] = job[d] /\ Tag(d)' = Tag(d) /\ AccessRight(d)
  BY MemoryNames DEF Tag, EnsuresInv
<1>2. ASSUME pc[d] # "idle"
      PROVE  entry'[d][Tag(d)].version = entry[d][Tag(d)].version
  BY <1>1, <1>2, OwnBlock DEF CoherenceInv, HeldInv, Entry
<1>3. ASSUME pc[d] # "idle", job[d].output
      PROVE  version'[Tag(d)] = version[Tag(d)]
  <2>1. Tag(d) \in Tags /\ \A s \in Threads : Busy(s, Tag(d)) => s = d
    BY <1>1, <1>3, OwnBlock
  <2> QED
    BY <2>1 DEF Busy
<1>4. /\ pc[d] \in {"miss", "drain"} => job[d].fresh
      /\ (\/ pc[d] \in {"fetch", "publish"} /\ ~job[d].fresh
          \/ pc[d] = "inputs") /\ job[d].output => entry[d][Tag(d)].version = version[Tag(d)]
      /\ pc[d] = "fetch" => job[d].seen # d /\ (setup.through => job[d].seen = NoCache)
  BY <1>1 DEF AccessRight, Entry
<1> QED
  BY <1>1, <1>2, <1>3, <1>4 DEF AccessRight, Entry

(* An entry stays right when it keeps its version and references, and so does the directory. *)
LEMMA EntryKept ==
  ASSUME NEW d \in Caches, NEW y \in Tags, EntryRight(d, y), UNCHANGED setup,
         entry'[d][y].here <=> entry[d][y].here,
         entry[d][y].here => /\ entry'[d][y].version = entry[d][y].version
                             /\ (setup.through => entry'[d][y].refs = entry[d][y].refs),
         version'[y] = version[y],
         owner'[y] = owner[y] \/ owner'[y] = NoCache,
         Busy(d, y)' <=> Busy(d, y),
         pc'[d] \in {"miss", "drain"} => pc[d] \in {"miss", "drain"},
         \A h \in Hosts : Writer(h, y) /\ pc[h] = "owned" =>
            (Writer(h, y)' /\ pc'[h] = "owned") \/ owner'[y] = NoCache
  PROVE  EntryRight(d, y)'
<1>1. setup.through /\ entry'[d][y].here =>
         entry'[d][y].refs = 0 \/ (entry'[d][y].refs = 1 /\ Busy(d, y)')
  BY DEF EntryRight, Entry
<1>2. ASSUME owner'[y] = d
      PROVE  /\ entry'[d][y].here
             /\ Busy(d, y)' => pc'[d] \notin {"miss", "drain"}
             /\ \/ entry'[d][y].version = version'[y]
                \/ \E h \in Hosts : Writer(h, y)' /\ pc'[h] = "owned"
  <2>1. owner[y] = d /\ owner'[y] # NoCache
    BY <1>2, MemoryNames
  <2> QED
    BY <1>2, <2>1 DEF EntryRight, Entry
<1> QED
  BY <1>1, <1>2 DEF EntryRight, Entry

(* Together, where no version changes and no entry comes, goes or is referenced. *)
LEMMA EnsuresKept ==
  ASSUME CoherenceInv, EnsuresInv, NEW t \in Threads, UNCHANGED <<setup, version>>,
         \A s \in Threads : s # t => pc'[s] = pc[s] /\ job'[s] = job[s],
         pc[t] # "idle", pc'[t] # "idle",
         job'[t].tag = job[t].tag, job'[t].output = job[t].output,
         \A d \in Caches : \A y \in Tags :
            /\ entry'[d][y].here <=> entry[d][y].here
            /\ entry[d][y].here => /\ entry'[d][y].version = entry[d][y].version
                                  /\ (setup.through => entry'[d][y].refs = entry[d][y].refs),
         \A y \in Tags : owner'[y] = owner[y] \/ owner'[y] = NoCache,
         pc'[t] \in {"miss", "drain"} => pc[t] \in {"miss", "drain"},
         t \in Hosts /\ pc[t] = "owned" => owner'[Tag(t)] = NoCache,
         t \in Caches => AccessRight(t)'
  PROVE  EnsuresInv'
<1>0. UNCHANGED setup /\ UNCHANGED version
  OBVIOUS
<1>1. \A d \in Caches : AccessRight(d)'
  <2>1. \A d \in Caches : d # t => AccessRight(d)'
    BY <1>0, AccessesKept
  <2> QED
    BY <2>1
<1>2. ASSUME NEW d \in Caches, NEW y \in Tags PROVE EntryRight(d, y)'
  <2>1. \A s \in Threads : Tag(s)' = Tag(s) /\ (pc'[s] = "idle" <=> pc[s] = "idle")
                           /\ job'[s].output = job[s].output
    BY DEF Tag
  <2>2. \A s \in Threads : (Busy(s, y)' <=> Busy(s, y)) /\ (Writer(s, y)' <=> Writer(s, y))
    BY <2>1 DEF Busy, Writer
  <2>3. d \in Threads /\ (pc'[d] \in {"miss", "drain"} => pc[d] \in {"miss", "drain"})
    BY MemoryNames
  <2>4. ASSUME NEW h \in Hosts, Writer(h, y), pc[h] = "owned"
        PROVE  (Writer(h, y)' /\ pc'[h] = "owned") \/ owner'[y] = NoCache
    <3>1. h \in Threads /\ Tag(h) = y
      BY <2>4, MemoryNames DEF Writer, Busy
    <3> QED
      BY <2>2, <2>4, <3>1
  <2>5. EntryRight(d, y) /\ version'[y] = version[y] /\ (Busy(d, y)' <=> Busy(d, y))
    BY <1>0, <2>2, <2>3 DEF EnsuresInv
  <2>6. /\ entry'[d][y].here <=> entry[d][y].here
        /\ entry[d][y].here => /\ entry'[d][y].version = entry[d][y].version
                              /\ (setup.through => entry'[d][y].refs = entry[d][y].refs)
        /\ owner'[y] = owner[y] \/ owner'[y] = NoCache
    OBVIOUS
  <2> QED
    BY <1>0, <2>3, <2>4, <2>5, <2>6, EntryKept
<1> QED
  BY <1>1, <1>2 DEF EnsuresInv

(* Under write-through nobody owns the block that a device has yet to publish. *)
LEMMA NobodyOwns ==
  ASSUME CoherenceInv, NEW c \in Caches, pc[c] \notin Published, pc[c] # "idle", setup.through
  PROVE  owner[Tag(c)] = NoCache
<1>1. c \in Threads /\ MemoryTypeOK /\ OwnerInv
  BY MemoryNames DEF CoherenceInv
<1>2. Tag(c) \in Tags /\ \A s \in Threads : Writer(s, Tag(c)) => s = c
  BY <1>1, OwnBlock
<1>3. owner[Tag(c)] \in Caches \cup {NoCache}
  BY <1>1, <1>2 DEF MemoryTypeOK
<1> QED
  BY <1>1, <1>2, <1>3, MemoryNames DEF OwnerInv

(* A victim is chosen (freeSpaceToFit). *)
LEMMA EvictEnsures ==
  ASSUME CoherenceInv, CoherenceInv', EnsuresInv, NEW c \in Caches, NEW y \in Tags, Evict(c, y),
         UNCHANGED setup
  PROVE  EnsuresInv'
<1>1. MemoryTypeOK /\ MemoryTypeOK' /\ c \in Threads
  BY MemoryNames DEF CoherenceInv
<1>2. /\ pc[c] = "miss" /\ UNCHANGED <<owner, version>>
      /\ job' = [job EXCEPT ![c].victim = y]
  BY DEF Evict, dirVars
<1>3. pc'[c] # "write back"
  BY <1>1 DEF MemoryTypeOK, DevicePlaces
<1>4. entry' = entry /\ pc' = [pc EXCEPT ![c] = "drain"]
  BY <1>1, <1>3 DEF Evict, Goto, MemoryTypeOK
<1>5. /\ pc'[c] = "drain" /\ \A s \in Threads : s # c => pc'[s] = pc[s] /\ job'[s] = job[s]
      /\ job'[c].tag = job[c].tag /\ job'[c].output = job[c].output
      /\ job'[c].fresh = job[c].fresh
  BY <1>1, <1>2, <1>4 DEF MemoryTypeOK, Records
<1>6. AccessRight(c)'
  BY <1>2, <1>5 DEF AccessRight, EnsuresInv
<1> QED
  BY <1>1, <1>2, <1>4, <1>5, <1>6, MemoryNames, EnsuresKept

(* Its entry goes; nobody owns what a device that writes through gives up. *)
LEMMA EraseEnsures ==
  ASSUME CoherenceInv, EnsuresInv, NEW c \in Caches, Erase(c), UNCHANGED setup
  PROVE  EnsuresInv'
<1>1. MemoryTypeOK /\ HeldInv /\ OwnerInv /\ c \in Threads
  BY MemoryNames DEF CoherenceInv
<1>2. /\ pc[c] = "drain" /\ UNCHANGED <<owner, version, job>> /\ setup.through
      /\ pc' = [pc EXCEPT ![c] = "miss"]
  BY <1>1 DEF Erase, dirVars, Goto, HeldInv
<1>3. /\ pc'[c] = "miss" /\ \A s \in Threads : s # c => pc'[s] = pc[s]
      /\ \A s \in Threads : \A x \in Tags : Busy(s, x)' <=> Busy(s, x)
      /\ \A s \in Threads : \A x \in Tags : Writer(s, x)' <=> Writer(s, x)
  <2>1. pc'[c] = "miss" /\ \A s \in Threads : s # c => pc'[s] = pc[s]
    BY <1>1, <1>2 DEF MemoryTypeOK
  <2>2. \A s \in Threads : Tag(s)' = Tag(s) /\ (pc'[s] = "idle" <=> pc[s] = "idle")
    BY <1>2, <2>1 DEF Tag
  <2> QED
    BY <1>2, <2>1, <2>2 DEF Busy, Writer
<1>4. \A d \in Caches : \A x \in Tags : entry'[d][x] = entry[d][x] \/ (d = c /\ ~entry'[d][x].here)
  <2>1. job[c].victim \in Tags
    BY <1>1 DEF MemoryTypeOK, Records
  <2>2. PICK y : y = job[c].victim
    OBVIOUS
  <2>3. entry' = [entry EXCEPT ![c][y] = Absent] \/ entry' = entry
    BY <2>2 DEF Erase
  <2>4. ~Absent.here
    BY DEF Absent
  <2> QED
    BY <1>1, <2>1, <2>2, <2>3, <2>4 DEF MemoryTypeOK
<1>5. \A x \in Tags : owner[x] # c
  BY <1>1, <1>2, MemoryNames DEF OwnerInv, Published
<1>6. AccessRight(c)'
  BY <1>2, <1>3 DEF AccessRight, EnsuresInv
<1>7. \A d \in Caches : AccessRight(d)'
  BY <1>1, <1>2, <1>3, <1>4, <1>6, AccessesKept
<1>8. ASSUME NEW d \in Caches, NEW x \in Tags PROVE EntryRight(d, x)'
  <2>1. CASE entry'[d][x] = entry[d][x]
    <3>1. EntryRight(d, x) /\ d \in Threads
      BY MemoryNames DEF EnsuresInv
    <3>2. pc'[d] \in {"miss", "drain"} => pc[d] \in {"miss", "drain"}
      BY <1>2, <1>3, <3>1
    <3>3. \A h \in Hosts : Writer(h, x) /\ pc[h] = "owned" => Writer(h, x)' /\ pc'[h] = "owned"
      BY <1>2, <1>3, MemoryNames
    <3> QED
      BY <1>2, <1>3, <2>1, <3>1, <3>2, <3>3, EntryKept
  <2>2. CASE d = c /\ ~entry'[d][x].here
    BY <1>2, <1>5, <2>2 DEF EntryRight, Entry
  <2> QED
    BY <1>4, <2>1, <2>2
<1> QED
  BY <1>7, <1>8 DEF EnsuresInv

(* An assignment to one entry. *)
LEMMA OneEntry ==
  ASSUME MemoryTypeOK, NEW c \in Caches, NEW x \in Tags, NEW e, entry[c][x].here,
         entry' = [entry EXCEPT ![c] = [entry[c] EXCEPT ![x] = e]]
  PROVE  /\ entry'[c][x] = e /\ entry[c][x] \in Present
         /\ \A d \in Caches : \A y \in Tags : d # c \/ y # x => entry'[d][y] = entry[d][y]
BY EntryTypes DEF MemoryTypeOK

(* A step of a device with its own block leaves the others right. *)
LEMMA DeviceEnsures ==
  ASSUME CoherenceInv, EnsuresInv, NEW c \in Caches, NEW x \in Tags, x = Tag(c), UNCHANGED setup,
         pc[c] # "idle",
         \A s \in Threads : s # c => pc'[s] = pc[s] /\ job'[s] = job[s],
         job'[c].tag = job[c].tag, job'[c].output = job[c].output,
         pc'[c] \notin {"miss", "drain"},
         \A y \in Tags : y # x => version'[y] = version[y] /\ owner'[y] = owner[y],
         \A d \in Caches : \A y \in Tags : d # c \/ y # x => entry'[d][y] = entry[d][y],
         \/ version'[x] = version[x] /\ owner'[x] = owner[x]
         \/ owner'[x] \in {c, NoCache},
         AccessRight(c)', EntryRight(c, x)'
  PROVE  EnsuresInv'
<1>1. c \in Threads /\ c \notin Hosts
  BY MemoryNames
<1>2. \A d \in Caches : AccessRight(d)'
  <2>1. \A d \in Caches : \A y \in Tags : d # c /\ entry[d][y].here =>
            entry'[d][y].version = entry[d][y].version
    OBVIOUS
  <2>2. \A y \in Tags : version'[y] = version[y] \/ (pc[c] # "idle" /\ y = x)
    OBVIOUS
  <2>3. \A d \in Caches : d # c => AccessRight(d)'
    BY <1>1, <2>1, <2>2, AccessesKept
  <2> QED
    BY <2>3
<1>3. /\ \A s \in Threads : Tag(s)' = Tag(s) /\ job'[s].output = job[s].output
      /\ \A s \in Threads : s # c => pc'[s] = pc[s]
  BY DEF Tag
<1>4. \A s \in Threads : \A y \in Tags : s # c \/ y # x =>
         (Busy(s, y)' <=> Busy(s, y)) /\ (Writer(s, y)' <=> Writer(s, y))
  BY <1>3 DEF Busy, Writer
<1>5. ASSUME NEW d \in Caches, NEW y \in Tags, d # c \/ y # x PROVE EntryRight(d, y)'
  <2>1. /\ EntryRight(d, y) /\ entry'[d][y] = entry[d][y]
        /\ Busy(d, y)' <=> Busy(d, y)
        /\ pc'[d] \in {"miss", "drain"} => pc[d] \in {"miss", "drain"}
    BY <1>3, <1>4, <1>5, MemoryNames DEF EnsuresInv
  <2>2. \A h \in Hosts : Writer(h, y) /\ pc[h] = "owned" => Writer(h, y)' /\ pc'[h] = "owned"
    BY <1>1, <1>3, <1>4, MemoryNames
  <2>3. CASE version'[y] = version[y] /\ owner'[y] = owner[y]
    BY <2>1, <2>2, <2>3, EntryKept
  <2>4. CASE y = x /\ owner'[y] \in {c, NoCache}
    <3>1. owner'[y] # d
      BY <1>5, <2>4, MemoryNames
    <3> QED
      BY <2>1, <3>1 DEF EntryRight, Entry
  <2> QED
    BY <2>3, <2>4
<1> QED
  BY <1>2, <1>5 DEF EnsuresInv

(* A task begins (copyDataIn): a new entry is not its cache's to be owned, nor to be referenced. *)
LEMMA LookupEnsures ==
  ASSUME CoherenceInv, EnsuresInv, NEW t \in Threads, NEW j \in Jobs, Lookup(t, j),
         UNCHANGED setup
  PROVE  EnsuresInv'
<1>1. MemoryTypeOK
  BY DEF CoherenceInv
<1>2. PICK x : x = j.tag
  OBVIOUS
<1>3. x \in Tags /\ pc[t] = "idle" /\ UNCHANGED <<owner, version>>
  BY <1>2 DEF Lookup, Jobs, dirVars
<1>4. /\ job'[t].tag = x
      /\ t \in Caches => job'[t].fresh = ~entry[t][x].here
      /\ \A s \in Threads : s # t => job'[s] = job[s]
  <2>1. job[t] \in Records
    BY <1>1 DEF MemoryTypeOK
  <2>2. job' = [job EXCEPT ![t] = [job[t] EXCEPT !.tag = x, !.input = j.input,
                 !.output = j.output, !.sync = j.sync, !.seen = owner[x],
                 !.fresh = (t \in Caches /\ ~Entry(t, x).here)]]
    BY <1>2 DEF Lookup
  <2> QED
    BY <1>1, <2>1, <2>2 DEF MemoryTypeOK, Records, Entry
<1>5. /\ \A s \in Threads : s # t => pc'[s] = pc[s]
      /\ t \in Caches => pc'[t] = IF entry[t][x].here THEN "hit" ELSE "miss"
      /\ t \notin Caches => pc'[t] = "register"
  BY <1>1, <1>2 DEF Lookup, Goto, MemoryTypeOK, Entry
<1>6. /\ \A d \in Caches : \A y \in Tags : d # t \/ y # x => entry'[d][y] = entry[d][y]
      /\ t \in Caches =>
            /\ entry'[t][x].here
            /\ entry[t][x].here => /\ entry'[t][x].refs = entry[t][x].refs + 1
                                   /\ entry'[t][x].version = entry[t][x].version
            /\ ~entry[t][x].here => entry'[t][x].refs = 1
  <2>1. CASE t \in Caches /\ entry[t][x].here
    <3>1. entry[t][x] \in Present
      BY <1>1, <1>3, <2>1, EntryTypes DEF MemoryTypeOK
    <3>2. PICK e : e = [entry[t][x] EXCEPT !.refs = entry[t][x].refs + 1]
      OBVIOUS
    <3>3. e.here /\ e.refs = entry[t][x].refs + 1 /\ e.version = entry[t][x].version
      BY <3>1, <3>2 DEF Present
    <3>4. entry' = [entry EXCEPT ![t] = [entry[t] EXCEPT ![x] = e]]
      BY <1>2, <2>1, <3>2 DEF Lookup, Entry
    <3>5. /\ entry'[t][x] = e
          /\ \A d \in Caches : \A y \in Tags : d # t \/ y # x => entry'[d][y] = entry[d][y]
      BY <1>1, <1>3, <2>1, <3>4 DEF MemoryTypeOK
    <3> QED
      BY <2>1, <3>3, <3>5
  <2>2. CASE t \in Caches /\ ~entry[t][x].here
    <3>1. PICK e : e = [here |-> TRUE, ready |-> FALSE, version |-> 0, refs |-> 1,
                        dirty |-> j.output, copying |-> j.input, flushing |-> FALSE]
      OBVIOUS
    <3>2. entry' = [entry EXCEPT ![t] = [entry[t] EXCEPT ![x] = e]]
      BY <1>2, <2>2, <3>1 DEF Lookup, Entry
    <3>3. /\ entry'[t][x] = e
          /\ \A d \in Caches : \A y \in Tags : d # t \/ y # x => entry'[d][y] = entry[d][y]
      BY <1>1, <1>3, <2>2, <3>2 DEF MemoryTypeOK
    <3> QED
      BY <2>2, <3>1, <3>3
  <2>3. CASE t \notin Caches
    BY <2>3 DEF Lookup
  <2> QED
    BY <2>1, <2>2, <2>3
<1>7. t \in Caches => AccessRight(t)'
  BY <1>4, <1>5 DEF AccessRight
<1>8. \A d \in Caches : AccessRight(d)'
  <2>1. /\ \A d \in Caches : \A y \in Tags : d # t /\ entry[d][y].here =>
            entry'[d][y].version = entry[d][y].version
        /\ \A y \in Tags : version'[y] = version[y]
        /\ \A s \in Threads : s # t => pc'[s] = pc[s] /\ job'[s] = job[s]
    BY <1>3, <1>4, <1>5, <1>6
  <2>2. \A d \in Caches : d # t => AccessRight(d)'
    BY <2>1, AccessesKept
  <2> QED
    BY <1>7, <2>2
<1>9. \A s \in Threads : s # t => \A y \in Tags : /\ Busy(s, y)' <=> Busy(s, y)
                                                  /\ Writer(s, y)' <=> Writer(s, y)
  BY <1>4, <1>5 DEF Busy, Writer, Tag
<1>10. \A h \in Hosts : \A y \in Tags :
          Writer(h, y) /\ pc[h] = "owned" => Writer(h, y)' /\ pc'[h] = "owned"
  BY <1>3, <1>5, <1>9, MemoryNames
<1>11. ASSUME NEW d \in Caches, NEW y \in Tags PROVE EntryRight(d, y)'
  <2>1. EntryRight(d, y) /\ d \in Threads
    BY MemoryNames DEF EnsuresInv
  <2>2. CASE d # t
    <3>1. pc'[d] = pc[d] /\ (Busy(d, y)' <=> Busy(d, y)) /\ entry'[d][y] = entry[d][y]
      BY <1>5, <1>6, <1>9, <2>1, <2>2
    <3> QED
      BY <1>3, <1>10, <2>1, <3>1, EntryKept
  <2>3. CASE d = t /\ y # x
    <3>1. ~Busy(d, y) /\ ~Busy(d, y)'
      BY <1>3, <1>4, <2>3 DEF Busy, Tag
    <3>2. entry'[d][y] = entry[d][y]
      BY <1>6, <2>3
    <3> QED
      BY <1>3, <1>10, <2>1, <3>1, <3>2 DEF EntryRight, Entry
  <2>4. CASE d = t /\ y = x
    <3>1. ~Busy(d, y) /\ Busy(d, y)'
      BY <1>3, <1>4, <1>5, <2>4 DEF Busy, Tag
    <3>2. setup.through => entry'[d][y].refs = 1
      BY <1>6, <2>1, <2>4, <3>1 DEF EntryRight, Entry
    <3>3. ASSUME owner[y] = d
          PROVE  /\ entry'[d][y].here /\ pc'[d] \notin {"miss", "drain"}
                 /\ \/ entry'[d][y].version = version[y]
                    \/ \E h \in Hosts : Writer(h, y)' /\ pc'[h] = "owned"
      <4>1. /\ entry[d][y].here
            /\ \/ entry[d][y].version = version[y]
               \/ \E h \in Hosts : Writer(h, y) /\ pc[h] = "owned"
        BY <2>1, <3>3 DEF EntryRight, Entry
      <4> QED
        BY <1>5, <1>6, <1>10, <2>4, <4>1
    <3> QED
      BY <1>3, <3>1, <3>2, <3>3 DEF EntryRight, Entry
  <2> QED
    BY <2>2, <2>3, <2>4
<1> QED
  BY <1>8, <1>11 DEF EnsuresInv

(* A miss sees the owner, which is another cache. *)
LEMMA AllocateEnsures ==
  ASSUME CoherenceInv, EnsuresInv, NEW c \in Caches, Allocate(c), UNCHANGED setup
  PROVE  EnsuresInv'
<1>1. MemoryTypeOK /\ HeldInv /\ c \in Threads
  BY MemoryNames DEF CoherenceInv
<1>2. PICK x : x = Tag(c)
  OBVIOUS
<1>3. /\ pc[c] = "miss" /\ UNCHANGED <<owner, version>>
      /\ job' = [job EXCEPT ![c].seen = owner[x]]
      /\ pc' = [pc EXCEPT ![c] = IF job[c].input THEN "fetch" ELSE "publish"]
  BY <1>2 DEF Allocate, SeeOwner, Goto
<1>4. x \in Tags /\ Busy(c, x) /\ entry[c][x].here
  BY <1>1, <1>2, <1>3, OwnBlock DEF HeldInv, Entry
<1>5. PICK e : e = [entry[c][x] EXCEPT !.ready = TRUE]
  OBVIOUS
<1>6. /\ entry'[c][x] = e /\ entry[c][x] \in Present
      /\ \A d \in Caches : \A y \in Tags : d # c \/ y # x => entry'[d][y] = entry[d][y]
  <2>1. entry' = [entry EXCEPT ![c] = [entry[c] EXCEPT ![x] = e]]
    BY <1>2, <1>5 DEF Allocate
  <2> QED
    BY <1>1, <1>4, <2>1, OneEntry
<1>7. e.here /\ e.version = entry[c][x].version /\ e.refs = entry[c][x].refs
  BY <1>5, <1>6 DEF Present
<1>8. /\ pc'[c] \in {"fetch", "publish"}
      /\ \A s \in Threads : s # c => pc'[s] = pc[s] /\ job'[s] = job[s]
      /\ job'[c].tag = job[c].tag /\ job'[c].output = job[c].output
      /\ job'[c].fresh = job[c].fresh /\ job'[c].seen = owner[x]
  BY <1>1, <1>3 DEF MemoryTypeOK, Records
<1>9. AccessRight(c)'
  <2>1. job[c].fresh /\ owner[x] # c
    BY <1>3, <1>4 DEF EnsuresInv, AccessRight, EntryRight
  <2>2. setup.through => owner[x] = NoCache
    BY <1>2, <1>3, NobodyOwns DEF Published
  <2> QED
    BY <1>8, <2>1, <2>2 DEF AccessRight
<1>10. EntryRight(c, x)'
  <2>1. Busy(c, x)'
    BY <1>4, <1>8 DEF Busy, Tag
  <2>2. EntryRight(c, x)
    BY <1>4 DEF EnsuresInv
  <2>3. \A h \in Hosts : Writer(h, x) /\ pc[h] = "owned" => Writer(h, x)' /\ pc'[h] = "owned"
    BY <1>8, MemoryNames DEF Writer, Busy, Tag
  <2> QED
    BY <1>3, <1>4, <1>6, <1>7, <1>8, <2>1, <2>2, <2>3, EntryKept
<1> QED
  <2>1. /\ pc[c] # "idle" /\ pc'[c] \notin {"miss", "drain"}
        /\ \A y \in Tags : y # x => version'[y] = version[y] /\ owner'[y] = owner[y]
        /\ version'[x] = version[x] /\ owner'[x] = owner[x]
    BY <1>3, <1>8
  <2> QED
    BY <1>2, <1>4, <1>6, <1>8, <1>9, <1>10, <2>1, DeviceEnsures

(* So does a hit with an old version (registerAccess). *)
LEMMA HitEnsures ==
  ASSUME CoherenceInv, EnsuresInv, NEW c \in Caches, Hit(c), UNCHANGED setup
  PROVE  EnsuresInv'
<1>1. MemoryTypeOK /\ HeldInv /\ c \in Threads
  BY MemoryNames DEF CoherenceInv
<1>2. PICK x : x = Tag(c)
  OBVIOUS
<1>3. pc[c] = "hit" /\ UNCHANGED <<owner, version>>
  BY DEF Hit, SeeOwner, dirVars
<1>4. /\ x \in Tags /\ Busy(c, x) /\ entry[c][x].here
      /\ \A s \in Threads : Writer(s, x) => s = c
  BY <1>1, <1>2, <1>3, OwnBlock DEF HeldInv, Entry
<1>5. PICK fetches : fetches = IF entry[c][x].version # version[x] /\ job[c].input THEN 1 ELSE 0
  OBVIOUS
<1>6. PICK e : e = IF fetches = 1
                   THEN [entry[c][x] EXCEPT !.version = version[x], !.copying = TRUE]
                   ELSE [entry[c][x] EXCEPT !.version = version[x]]
  OBVIOUS
<1>7. /\ entry'[c][x] = e /\ entry[c][x] \in Present
      /\ \A d \in Caches : \A y \in Tags : d # c \/ y # x => entry'[d][y] = entry[d][y]
  <2>1. entry' = [entry EXCEPT ![c] = [entry[c] EXCEPT ![x] = e]]
    <3>1. CASE fetches = 1
      <4>1. entry' = [entry EXCEPT ![c][x].version = version[x], ![c][x].copying = TRUE]
        BY <1>2, <1>5, <3>1 DEF Hit, Entry
      <4> QED
        BY <1>1, <1>4, <1>6, <3>1, <4>1 DEF MemoryTypeOK
    <3>2. CASE fetches # 1
      BY <1>2, <1>5, <1>6, <3>2 DEF Hit, Entry
    <3> QED
      BY <3>1, <3>2
  <2> QED
    BY <1>1, <1>4, <2>1, OneEntry
<1>8. e.here /\ e.version = version[x] /\ e.refs = entry[c][x].refs
  BY <1>6, <1>7 DEF Present
<1>9. /\ pc'[c] = IF fetches = 1 THEN "fetch" ELSE "publish"
      /\ \A s \in Threads : s # c => pc'[s] = pc[s] /\ job'[s] = job[s]
      /\ job'[c].tag = job[c].tag /\ job'[c].output = job[c].output
      /\ fetches = 1 => job'[c].seen = owner[x]
  <2>1. CASE fetches = 1
    <3>1. /\ job' = [job EXCEPT ![c].seen = owner[x]]
          /\ pc' = [pc EXCEPT ![c] = "fetch"]
      BY <1>2, <1>5, <2>1 DEF Hit, Entry, SeeOwner, Goto
    <3> QED
      BY <1>1, <2>1, <3>1 DEF MemoryTypeOK, Records
  <2>2. CASE fetches # 1
    <3>1. job' = job /\ pc' = [pc EXCEPT ![c] = "publish"]
      BY <1>2, <1>5, <2>2 DEF Hit, Entry, Goto
    <3> QED
      BY <1>1, <2>2, <3>1 DEF MemoryTypeOK
  <2> QED
    BY <2>1, <2>2
<1>10. AccessRight(c)'
  <2>1. Tag(c)' = x /\ entry'[c][x].version = version'[x]
    BY <1>2, <1>3, <1>7, <1>8, <1>9 DEF Tag
  <2>2. ASSUME fetches = 1 PROVE owner[x] # c
    <3>1. entry[c][x].version # version[x]
      BY <1>5, <2>2
    <3>2. \A h \in Hosts : ~Writer(h, x)
      BY <1>4, MemoryNames
    <3>3. EntryRight(c, x)
      BY <1>4 DEF EnsuresInv
    <3> QED
      BY <3>1, <3>2, <3>3 DEF EntryRight, Entry
  <2>3. setup.through => owner[x] = NoCache
    BY <1>2, <1>3, NobodyOwns DEF Published
  <2> QED
    BY <1>9, <2>1, <2>2, <2>3 DEF AccessRight, Entry
<1>11. EntryRight(c, x)'
  <2>1. Busy(c, x)'
    BY <1>4, <1>9 DEF Busy, Tag
  <2>2. pc'[c] \notin {"miss", "drain"} /\ entry'[c][x].here /\ entry'[c][x].version = version'[x]
    BY <1>3, <1>7, <1>8, <1>9
  <2>3. setup.through => entry'[c][x].refs = 0 \/ entry'[c][x].refs = 1
    BY <1>4, <1>7, <1>8 DEF EnsuresInv, EntryRight, Entry
  <2> QED
    BY <2>1, <2>2, <2>3 DEF EntryRight, Entry
<1> QED
  <2>1. /\ pc[c] # "idle" /\ pc'[c] \notin {"miss", "drain"}
        /\ \A y \in Tags : y # x => version'[y] = version[y] /\ owner'[y] = owner[y]
        /\ version'[x] = version[x] /\ owner'[x] = owner[x]
    BY <1>3, <1>9
  <2> QED
    BY <1>2, <1>4, <1>7, <1>9, <1>10, <1>11, <2>1, DeviceEnsures

(* A fetch references the owner's entry only where nothing is written through (getEntry). *)
LEMMA FetchEnsures ==
  ASSUME AtOnce, CoherenceInv, EnsuresInv, NEW c \in Caches, Fetch(c), UNCHANGED setup
  PROVE  EnsuresInv'
<1>1. MemoryTypeOK /\ HeldInv /\ c \in Threads
  BY MemoryNames DEF CoherenceInv
<1>2. PICK x, o : x = Tag(c) /\ o = job[c].seen
  OBVIOUS
<1>3. /\ pc[c] = "fetch" /\ UNCHANGED <<owner, version, job>>
      /\ pc' = [pc EXCEPT ![c] = "publish"]
      /\ o # NoCache => entry[o][x].here
  BY <1>2 DEF Fetch, dirVars, Goto, Entry
<1>4. /\ x \in Tags /\ Busy(c, x) /\ entry[c][x].here
  BY <1>1, <1>2, <1>3, OwnBlock DEF HeldInv, Entry
<1>5. o # c /\ (setup.through => o = NoCache)
  BY <1>2, <1>3 DEF EnsuresInv, AccessRight
<1>6. /\ pc'[c] = "publish"
      /\ \A s \in Threads : s # c => pc'[s] = pc[s]
  BY <1>1, <1>3 DEF MemoryTypeOK
<1>7. \A d \in Caches : \A y \in Tags :
         /\ entry'[d][y].here <=> entry[d][y].here
         /\ entry[d][y].here => /\ entry'[d][y].version = entry[d][y].version
                                /\ (setup.through => entry'[d][y].refs = entry[d][y].refs)
  <2> DEFINE pinned == [d \in Caches |->
                          IF o # NoCache /\ d \in {c, o}
                          THEN [entry[d] EXCEPT ![x].refs = @ + IF c = o THEN 2 ELSE 1]
                          ELSE entry[d]]
  <2>1. entry' = [pinned EXCEPT ![c][x].copying = FALSE]
    BY <1>2 DEF Fetch, AtOnce
  <2>2. ASSUME NEW d \in Caches
        PROVE  /\ DOMAIN pinned[d] = Tags
               /\ d \in {c, o} => pinned[d][x] \in Present
               /\ \A y \in Tags :
                  /\ pinned[d][y].here <=> entry[d][y].here
                  /\ entry[d][y].here => /\ pinned[d][y].version = entry[d][y].version
                                         /\ (setup.through => pinned[d][y].refs = entry[d][y].refs)
    <3>1. entry[d] \in [Tags -> Entries]
      BY <1>1 DEF MemoryTypeOK
    <3>2. CASE o # NoCache /\ d \in {c, o}
      <4>1. entry[d][x] \in Present
        BY <1>3, <1>4, <3>1, <3>2, EntryTypes
      <4>2. PICK n : n = entry[d][x].refs + IF c = o THEN 2 ELSE 1
        OBVIOUS
      <4>3. n \in Nat
        <5>1. entry[d][x].refs \in Nat
          BY <4>1 DEF Present
        <5>2. n = entry[d][x].refs + 1
          BY <1>5, <4>2
        <5> HIDE DEF pinned
        <5> QED
          BY <5>1, <5>2
      <4>4. PICK e : e = [entry[d][x] EXCEPT !.refs = n]
        OBVIOUS
      <4>5. e \in Present /\ e.here /\ entry[d][x].here /\ e.version = entry[d][x].version
        BY <4>1, <4>3, <4>4 DEF Present
      <4>6. pinned[d] = [entry[d] EXCEPT ![x] = e]
        BY <3>2, <4>2, <4>4
      <4> HIDE DEF pinned
      <4> QED
        BY <1>4, <1>5, <3>1, <3>2, <4>5, <4>6
    <3>3. CASE ~(o # NoCache /\ d \in {c, o})
      <4>1. pinned[d] = entry[d]
        BY <3>3
      <4>2. d \in {c, o} => d = c
        BY <3>3, MemoryNames
      <4>3. entry[c][x] \in Present
        BY <1>1, <1>4, EntryTypes DEF MemoryTypeOK
      <4> HIDE DEF pinned
      <4> QED
        BY <3>1, <4>1, <4>2, <4>3
    <3> QED
      BY <3>2, <3>3
  <2>3. DOMAIN pinned = Caches
    OBVIOUS
  <2> HIDE DEF pinned
  <2>4. PICK e : e = [pinned[c][x] EXCEPT !.copying = FALSE]
    OBVIOUS
  <2>5. e.here = pinned[c][x].here /\ e.version = pinned[c][x].version /\ e.refs = pinned[c][x].refs
    BY <2>2, <2>4 DEF Present
  <2>6. /\ entry'[c][x] = e
        /\ \A d \in Caches : \A y \in Tags : d # c \/ y # x => entry'[d][y] = pinned[d][y]
    BY <1>4, <2>1, <2>2, <2>3, <2>4
  <2> QED
    BY <1>4, <2>2, <2>5, <2>6
<1>8. AccessRight(c)'
  BY <1>2, <1>3, <1>4, <1>6, <1>7 DEF EnsuresInv, AccessRight, Entry, Tag
<1>9. UNCHANGED <<setup, version>>
  BY <1>3
<1> QED
  BY <1>1, <1>3, <1>6, <1>7, <1>8, <1>9, MemoryNames, EnsuresKept

(* A writer becomes the owner, with the version of the directory. *)
LEMMA PublishEnsures ==
  ASSUME CoherenceInv, EnsuresInv, NEW c \in Caches, Publish(c), UNCHANGED setup
  PROVE  EnsuresInv'
<1>1. MemoryTypeOK /\ HeldInv /\ c \in Threads
  BY MemoryNames DEF CoherenceInv
<1>2. PICK x : x = Tag(c)
  OBVIOUS
<1>3. /\ pc[c] = "publish" /\ job' = job /\ pc' = [pc EXCEPT ![c] = "inputs"]
  BY <1>2 DEF Publish, Goto
<1>4. /\ x \in Tags /\ Busy(c, x) /\ entry[c][x].here /\ version[x] \in Nat
      /\ job[c].output \in BOOLEAN /\ job[c].fresh \in BOOLEAN
  BY <1>1, <1>2, <1>3, OwnBlock DEF HeldInv, Entry, MemoryTypeOK, Records
<1>5. /\ job[c].output => version'[x] = version[x] + 1 /\ owner'[x] = c
      /\ ~job[c].output => version'[x] = version[x] /\ owner'[x] = owner[x]
      /\ \A y \in Tags : y # x => version'[y] = version[y] /\ owner'[y] = owner[y]
  <2>1. CASE job[c].output
    <3>1. owner' = [owner EXCEPT ![x] = c] /\ version' = [version EXCEPT ![x] = version[x] + 1]
      BY <1>2, <2>1 DEF Publish
    <3> QED
      BY <1>1, <1>4, <2>1, <3>1 DEF MemoryTypeOK
  <2>2. CASE ~job[c].output
    BY <2>2 DEF Publish, dirVars
  <2> QED
    BY <2>1, <2>2
<1>6. PICK n : n = IF job[c].fresh THEN version'[x]
                   ELSE IF job[c].output THEN entry[c][x].version + 1 ELSE entry[c][x].version
  OBVIOUS
<1>7. PICK e : e = [entry[c][x] EXCEPT !.version = n]
  OBVIOUS
<1>8. /\ entry'[c][x] = e /\ entry[c][x] \in Present
      /\ \A d \in Caches : \A y \in Tags : d # c \/ y # x => entry'[d][y] = entry[d][y]
  <2>1. version'[x] = version[x] + IF job[c].output THEN 1 ELSE 0
    BY <1>4, <1>5
  <2>2. entry' = [entry EXCEPT ![c] = [entry[c] EXCEPT ![x] = e]]
    BY <1>2, <1>6, <1>7, <2>1 DEF Publish
  <2> QED
    BY <1>1, <1>4, <2>2, OneEntry
<1>9. e.here /\ e.version = n /\ e.refs = entry[c][x].refs
  BY <1>7, <1>8 DEF Present
<1>10. pc'[c] = "inputs" /\ \A s \in Threads : s # c => pc'[s] = pc[s]
  BY <1>1, <1>3 DEF MemoryTypeOK
<1>11. /\ job[c].output \/ job[c].fresh => n = version'[x]
       /\ ~(job[c].output \/ job[c].fresh) => n = entry[c][x].version
  <2>1. job[c].output /\ ~job[c].fresh => entry[c][x].version = version[x]
    BY <1>2, <1>3 DEF EnsuresInv, AccessRight, Entry
  <2> QED
    BY <1>4, <1>5, <1>6, <2>1
<1>12. AccessRight(c)'
  BY <1>2, <1>3, <1>8, <1>9, <1>10, <1>11 DEF AccessRight, Entry, Tag
<1>13. EntryRight(c, x)'
  <2>1. Busy(c, x)'
    BY <1>3, <1>4, <1>10 DEF Busy, Tag
  <2>2. EntryRight(c, x) /\ entry'[c][x].here
    BY <1>4, <1>8, <1>9 DEF EnsuresInv
  <2>3. setup.through => entry'[c][x].refs = 0 \/ entry'[c][x].refs = 1
    BY <1>4, <1>8, <1>9, <2>2 DEF EntryRight, Entry
  <2>4. ASSUME owner'[x] = c
        PROVE  entry'[c][x].version = version'[x] \/ \E h \in Hosts : Writer(h, x)' /\ pc'[h] = "owned"
    <3>1. CASE job[c].output \/ job[c].fresh
      BY <1>8, <1>9, <1>11, <3>1
    <3>2. CASE ~(job[c].output \/ job[c].fresh)
      <4>1. \/ entry[c][x].version = version[x]
            \/ \E h \in Hosts : Writer(h, x) /\ pc[h] = "owned"
        BY <1>5, <2>2, <2>4, <3>2 DEF EntryRight, Entry
      <4>2. \A h \in Hosts : Writer(h, x) /\ pc[h] = "owned" => Writer(h, x)' /\ pc'[h] = "owned"
        BY <1>3, <1>10, MemoryNames DEF Writer, Busy, Tag
      <4> QED
        BY <1>5, <1>8, <1>9, <1>11, <3>2, <4>1, <4>2
    <3> QED
      BY <3>1, <3>2
  <2> QED
    BY <1>10, <2>1, <2>2, <2>3, <2>4 DEF EntryRight, Entry
<1> QED
  <2>1. /\ pc[c] # "idle" /\ pc'[c] \notin {"miss", "drain"}
        /\ \/ version'[x] = version[x] /\ owner'[x] = owner[x]
           \/ owner'[x] \in {c, NoCache}
    BY <1>3, <1>4, <1>5, <1>10
  <2> QED
    BY <1>2, <1>3, <1>4, <1>5, <1>8, <1>10, <1>12, <1>13, <2>1, DeviceEnsures

(* The data are there (waitInputs). *)
LEMMA WaitInputsEnsures ==
  ASSUME CoherenceInv, EnsuresInv, NEW c \in Caches, WaitInputs(c), UNCHANGED setup
  PROVE  EnsuresInv'
<1>1. MemoryTypeOK /\ c \in Threads /\ c \notin Hosts
  BY MemoryNames DEF CoherenceInv
<1>2. /\ pc[c] = "inputs" /\ UNCHANGED <<owner, version, entry, job>>
      /\ pc'[c] = "run" /\ \A s \in Threads : s # c => pc'[s] = pc[s]
  BY <1>1 DEF WaitInputs, dirVars, Goto, MemoryTypeOK
<1>3. AccessRight(c)'
  BY <1>2 DEF AccessRight
<1>4. UNCHANGED <<setup, version>>
  BY <1>2
<1> QED
  BY <1>1, <1>2, <1>3, <1>4, EnsuresKept

(* The task runs. *)
LEMMA RunEnsures ==
  ASSUME CoherenceInv, EnsuresInv, NEW t \in Threads, Run(t), UNCHANGED setup
  PROVE  EnsuresInv'
<1>1. MemoryTypeOK
  BY DEF CoherenceInv
<1>2. /\ pc[t] = "run" /\ UNCHANGED <<owner, version, entry, job>>
      /\ pc'[t] = "done" /\ \A s \in Threads : s # t => pc'[s] = pc[s]
  BY <1>1 DEF Run, dirVars, Goto, MemoryTypeOK
<1>3. t \in Caches => AccessRight(t)'
  BY <1>2 DEF AccessRight
<1>4. UNCHANGED <<setup, version>>
  BY <1>2
<1> QED
  BY <1>2, <1>3, <1>4, EnsuresKept

(* What a host does to an entry is to mark it. *)
LEMMA FlushingOnly ==
  ASSUME MemoryTypeOK, NEW c \in Caches, NEW x \in Tags, NEW b \in BOOLEAN, entry[c][x].here,
         entry' = [entry EXCEPT ![c][x].flushing = b]
  PROVE  \A d \in Caches : \A y \in Tags :
            /\ entry'[d][y].here <=> entry[d][y].here
            /\ entry[d][y].here => /\ entry'[d][y].version = entry[d][y].version
                                   /\ (setup.through => entry'[d][y].refs = entry[d][y].refs)
<1>1. PICK e : e = [entry[c][x] EXCEPT !.flushing = b]
  OBVIOUS
<1>2. /\ entry'[c][x] = e /\ entry[c][x] \in Present
      /\ \A d \in Caches : \A y \in Tags : d # c \/ y # x => entry'[d][y] = entry[d][y]
  <2>1. entry' = [entry EXCEPT ![c] = [entry[c] EXCEPT ![x] = e]]
    BY <1>1
  <2>2. entry[c][x] \in Present
    BY EntryTypes DEF MemoryTypeOK
  <2> QED
    BY <2>1, <2>2 DEF MemoryTypeOK
<1>3. e.here /\ e.version = entry[c][x].version /\ e.refs = entry[c][x].refs
  BY <1>1, <1>2 DEF Present
<1> QED
  BY <1>2, <1>3

(* A host task has the block copied back (invalidateAndFlush). *)
LEMMA InvalidateAndFlushEnsures ==
  ASSUME AtOnce, CoherenceInv, EnsuresInv, NEW h \in Hosts, InvalidateAndFlush(h), UNCHANGED setup
  PROVE  EnsuresInv'
<1>1. MemoryTypeOK /\ h \in Threads /\ h \notin Caches
  BY MemoryNames DEF CoherenceInv
<1>2. PICK x, c, flushes :
         /\ x = Tag(h) /\ c = job[h].seen
         /\ flushes = IF ~invalidated[x] /\ ~Entry(c, x).flushing /\ owner[x] = c THEN 1 ELSE 0
  OBVIOUS
<1>3. /\ pc[h] = "register" /\ c # NoCache /\ UNCHANGED <<owner, version, job>>
      /\ flushes = 1 => /\ entry' = [entry EXCEPT ![c][x].flushing = TRUE]
                        /\ pc' = [pc EXCEPT ![h] = "written"]
                        /\ entry[c][x].here
      /\ flushes # 1 => entry' = entry /\ pc' = [pc EXCEPT ![h] = "registered"]
  BY <1>2 DEF InvalidateAndFlush, AtOnce, Goto, Entry
<1>4. x \in Tags /\ c \in Caches
  BY <1>1, <1>2, <1>3, OwnBlock DEF MemoryTypeOK, Records
<1>5. \A d \in Caches : \A y \in Tags :
         /\ entry'[d][y].here <=> entry[d][y].here
         /\ entry[d][y].here => /\ entry'[d][y].version = entry[d][y].version
                                /\ (setup.through => entry'[d][y].refs = entry[d][y].refs)
  <2>1. CASE flushes = 1
    BY <1>1, <1>3, <1>4, <2>1, FlushingOnly
  <2>2. CASE flushes # 1
    BY <1>3, <2>2
  <2> QED
    BY <2>1, <2>2
<1>6. pc'[h] \in {"written", "registered"} /\ \A s \in Threads : s # h => pc'[s] = pc[s]
  BY <1>1, <1>3 DEF MemoryTypeOK
<1>7. UNCHANGED <<setup, version>>
  BY <1>3
<1> QED
  BY <1>1, <1>3, <1>5, <1>6, <1>7, EnsuresKept

(* It takes the block from its owner. *)
LEMMA HostDisownsEnsures ==
  ASSUME CoherenceInv, EnsuresInv, NEW h \in Hosts, HostDisowns(h), UNCHANGED setup
  PROVE  EnsuresInv'
<1>1. MemoryTypeOK /\ FetchedInv /\ h \in Threads /\ h \notin Caches
  BY MemoryNames DEF CoherenceInv
<1>2. PICK x, c : x = Tag(h) /\ c = job[h].seen
  OBVIOUS
<1>3. /\ pc[h] = "written" /\ UNCHANGED <<version, job>>
      /\ owner' = [owner EXCEPT ![x] = NoCache]
      /\ entry' = [entry EXCEPT ![c][x].flushing = FALSE]
      /\ pc' = [pc EXCEPT ![h] = "registered"]
  BY <1>2 DEF HostDisowns, Disown, Goto
<1>4. x \in Tags /\ c \in Caches /\ entry[c][x].here
  BY <1>1, <1>2, <1>3, OwnBlock DEF FetchedInv, Entry
<1>5. \A d \in Caches : \A y \in Tags :
         /\ entry'[d][y].here <=> entry[d][y].here
         /\ entry[d][y].here => /\ entry'[d][y].version = entry[d][y].version
                                /\ (setup.through => entry'[d][y].refs = entry[d][y].refs)
  BY <1>1, <1>3, <1>4, FlushingOnly
<1>6. /\ pc'[h] = "registered" /\ \A s \in Threads : s # h => pc'[s] = pc[s]
      /\ \A y \in Tags : owner'[y] = owner[y] \/ owner'[y] = NoCache
  BY <1>1, <1>3, <1>4 DEF MemoryTypeOK
<1>7. UNCHANGED <<setup, version>>
  BY <1>3
<1> QED
  BY <1>1, <1>3, <1>5, <1>6, <1>7, EnsuresKept

(* Nobody owns the block any more (waitInput). *)
LEMMA WaitOwnerEnsures ==
  ASSUME CoherenceInv, EnsuresInv, NEW h \in Hosts, WaitOwner(h), UNCHANGED setup
  PROVE  EnsuresInv'
<1>1. MemoryTypeOK /\ OwnerInv /\ h \in Threads /\ h \notin Caches
  BY MemoryNames DEF CoherenceInv
<1>2. /\ pc[h] = "owned" /\ UNCHANGED <<owner, version, entry, job>>
      /\ job[h].input => owner[Tag(h)] = NoCache
      /\ pc'[h] = "run" /\ \A s \in Threads : s # h => pc'[s] = pc[s]
  BY <1>1 DEF WaitOwner, dirVars, Goto, MemoryTypeOK
<1>3. owner'[Tag(h)] = NoCache
  BY <1>1, <1>2, OwnBlock DEF OwnerInv
<1>4. UNCHANGED <<setup, version>>
  BY <1>2
<1> QED
  BY <1>1, <1>2, <1>3, <1>4, EnsuresKept

(* A host task that rewrites a block makes the owner's version old while it waits for it. *)
LEMMA RegisterEnsures ==
  ASSUME CoherenceInv, EnsuresInv, NEW h \in Hosts, Register(h), UNCHANGED setup
  PROVE  EnsuresInv'
<1>1. MemoryTypeOK /\ h \in Threads /\ h \notin Caches
  BY MemoryNames DEF CoherenceInv
<1>2. PICK x : x = Tag(h)
  OBVIOUS
<1>3. /\ pc[h] \in {"register", "registered"} /\ UNCHANGED <<entry, job>>
      /\ owner' = IF job[h].output /\ ~job[h].input THEN [owner EXCEPT ![x] = NoCache] ELSE owner
      /\ version' = IF job[h].output THEN [version EXCEPT ![x] = version[x] + 1] ELSE version
      /\ pc' = [pc EXCEPT ![h] = "owned"]
  BY <1>2 DEF Register, Goto
<1>4. x \in Tags /\ Busy(h, x) /\ (job[h].output => Writer(h, x))
  BY <1>1, <1>2, <1>3, OwnBlock
<1>5. /\ \A y \in Tags : owner'[y] = owner[y] \/ owner'[y] = NoCache
      /\ \A y \in Tags : version'[y] = version[y] \/ (y = x /\ job[h].output)
      /\ pc'[h] = "owned" /\ \A s \in Threads : s # h => pc'[s] = pc[s]
  BY <1>1, <1>3, <1>4 DEF MemoryTypeOK
<1>6. \A s \in Threads : \A y \in Tags : (Busy(s, y)' <=> Busy(s, y)) /\ (Writer(s, y)' <=> Writer(s, y))
  <2>1. \A s \in Threads : Tag(s)' = Tag(s) /\ (pc'[s] = "idle" <=> pc[s] = "idle")
    BY <1>3, <1>5 DEF Tag
  <2> QED
    BY <1>3, <2>1 DEF Busy, Writer
<1>7. \A d \in Caches : AccessRight(d)'
  <2>1. \A y \in Tags : version'[y] = version[y] \/ (pc[h] # "idle" /\ y = Tag(h))
    BY <1>2, <1>3, <1>5
  <2>2. \A d \in Caches : d # h => AccessRight(d)'
    BY <1>1, <1>3, <1>5, <2>1, AccessesKept
  <2> QED
    BY <1>1, <2>2
<1>8. ASSUME NEW d \in Caches, NEW y \in Tags PROVE EntryRight(d, y)'
  <2>1. EntryRight(d, y) /\ pc'[d] = pc[d] /\ (Busy(d, y)' <=> Busy(d, y))
    BY <1>1, <1>5, <1>6, MemoryNames DEF EnsuresInv
  <2>2. CASE version'[y] = version[y]
    <3>1. \A g \in Hosts : Writer(g, y) /\ pc[g] = "owned" => Writer(g, y)' /\ pc'[g] = "owned"
      BY <1>5, <1>6, MemoryNames
    <3> QED
      BY <1>3, <1>5, <2>1, <2>2, <3>1, EntryKept
  <2>3. CASE y = x /\ job[h].output
    <3>1. Writer(h, y)' /\ pc'[h] = "owned"
      BY <1>1, <1>4, <1>5, <1>6, <2>3
    <3>2. owner'[y] = d => owner[y] = d
      BY <1>5, MemoryNames
    <3> QED
      BY <1>3, <2>1, <3>1, <3>2 DEF EntryRight, Entry
  <2> QED
    BY <1>5, <2>2, <2>3
<1> QED
  BY <1>7, <1>8 DEF EnsuresInv

(* Nobody owns the block of a host task that ends. *)
LEMMA HostUnregisterEnsures ==
  ASSUME CoherenceInv, EnsuresInv, NEW h \in Hosts, HostUnregister(h), UNCHANGED setup
  PROVE  EnsuresInv'
<1>1. MemoryTypeOK /\ OwnerInv /\ h \in Threads /\ h \notin Caches
  BY MemoryNames DEF CoherenceInv
<1>2. PICK x : x = Tag(h)
  OBVIOUS
<1>3. /\ pc[h] = "done" /\ UNCHANGED <<entry, job, owner>>
      /\ version' = [version EXCEPT ![x] = version[x] + 1] \/ version' = version
      /\ pc' = [pc EXCEPT ![h] = "idle"]
  BY <1>2 DEF HostUnregister, Goto
<1>4. x \in Tags /\ owner[x] = NoCache
  BY <1>1, <1>2, <1>3, OwnBlock DEF OwnerInv
<1>5. /\ \A y \in Tags : version'[y] = version[y] \/ y = x
      /\ \A s \in Threads : s # h => pc'[s] = pc[s]
  BY <1>1, <1>3, <1>4 DEF MemoryTypeOK
<1>6. \A s \in Threads : s # h => \A y \in Tags :
         (Busy(s, y)' <=> Busy(s, y)) /\ (Writer(s, y)' <=> Writer(s, y))
  BY <1>3, <1>5 DEF Busy, Writer, Tag
<1>7. \A d \in Caches : AccessRight(d)'
  <2>1. \A y \in Tags : version'[y] = version[y] \/ (pc[h] # "idle" /\ y = Tag(h))
    BY <1>2, <1>3, <1>5
  <2>2. \A d \in Caches : d # h => AccessRight(d)'
    BY <1>1, <1>3, <1>5, <2>1, AccessesKept
  <2> QED
    BY <1>1, <2>2
<1>8. ASSUME NEW d \in Caches, NEW y \in Tags PROVE EntryRight(d, y)'
  <2>1. EntryRight(d, y) /\ pc'[d] = pc[d] /\ (Busy(d, y)' <=> Busy(d, y))
    BY <1>1, <1>5, <1>6, MemoryNames DEF EnsuresInv
  <2>2. CASE version'[y] = version[y]
    <3>1. \A g \in Hosts : Writer(g, y) /\ pc[g] = "owned" => Writer(g, y)' /\ pc'[g] = "owned"
      BY <1>3, <1>5, <1>6, MemoryNames
    <3> QED
      BY <1>3, <2>1, <2>2, <3>1, EntryKept
  <2>3. CASE y = x
    <3>1. owner'[y] # d
      BY <1>3, <1>4, <2>3, MemoryNames
    <3> QED
      BY <1>3, <2>1, <3>1 DEF EntryRight, Entry
  <2> QED
    BY <1>5, <2>2, <2>3
<1> QED
  BY <1>7, <1>8 DEF EnsuresInv

(* A task that ends gives its reference back, and under write-through the block (copyDataOut). *)
LEMMA UnregisterEnsures ==
  ASSUME AtOnce, CoherenceInv, EnsuresInv, NEW c \in Caches, Unregister(c), UNCHANGED setup
  PROVE  EnsuresInv'
<1>1. MemoryTypeOK /\ HeldInv /\ OwnerInv /\ c \in Threads
  BY MemoryNames DEF CoherenceInv
<1>2. PICK x, refs, writes :
         /\ x = Tag(c) /\ refs = Less(Entry(c, x).refs + IF setup.through THEN 1 ELSE 0, 2)
         /\ writes = IF setup.through /\ job[c].output THEN 1 ELSE 0
  OBVIOUS
<1>3. /\ pc[c] = "done" /\ UNCHANGED <<job, version>> /\ pc' = [pc EXCEPT ![c] = "idle"]
      /\ writes = 1 =>
           /\ entry' = [entry EXCEPT ![c][x].refs = refs, ![c][x].dirty = FALSE,
                                     ![c][x].flushing = setup.async]
           /\ owner' = [owner EXCEPT ![x] = NoCache]
      /\ writes # 1 => entry' = [entry EXCEPT ![c][x].refs = refs] /\ owner' = owner
  BY <1>2 DEF Unregister, AtOnce, Goto
<1>4. x \in Tags /\ Busy(c, x) /\ entry[c][x].here /\ entry[c][x].refs >= 1 /\ EntryRight(c, x)
  BY <1>1, <1>2, <1>3, OwnBlock DEF HeldInv, Entry, EnsuresInv
<1>5. PICK e, e1, e2, e3 :
         /\ e1 = [entry[c][x] EXCEPT !.refs = refs] /\ e2 = [e1 EXCEPT !.dirty = FALSE]
         /\ e3 = [e2 EXCEPT !.flushing = setup.async] /\ e = IF writes = 1 THEN e3 ELSE e1
  OBVIOUS
<1>6. /\ entry'[c][x] = e /\ entry[c][x] \in Present
      /\ \A d \in Caches : \A y \in Tags : d # c \/ y # x => entry'[d][y] = entry[d][y]
  <2>1. entry' = [entry EXCEPT ![c] = [entry[c] EXCEPT ![x] = e]]
    <3>1. entry[c] \in [Tags -> Entries] /\ DOMAIN entry = Caches /\ DOMAIN entry[c] = Tags
      BY <1>1 DEF MemoryTypeOK
    <3>2. CASE writes = 1
      <4>1. entry' = [entry EXCEPT ![c][x].refs = refs, ![c][x].dirty = FALSE,
                                   ![c][x].flushing = setup.async]
        BY <1>3, <3>2
      <4>2. x \in Tags /\ e = e3
        BY <1>4, <1>5, <3>2
      <4>3. e1 = [entry[c][x] EXCEPT !.refs = refs]
        BY <1>5
      <4>4. e2 = [e1 EXCEPT !.dirty = FALSE]
        BY <1>5
      <4>5. e3 = [e2 EXCEPT !.flushing = setup.async]
        BY <1>5
      <4> QED
        BY <3>1, <4>1, <4>2, <4>3, <4>4, <4>5
    <3>3. CASE writes # 1
      BY <1>3, <1>5, <3>3
    <3> QED
      BY <3>2, <3>3
  <2> QED
    BY <1>1, <1>4, <2>1, OneEntry
<1>7. e.here /\ e.version = entry[c][x].version /\ e.refs = refs
  <2>1. /\ e1.here /\ e1.version = entry[c][x].version /\ e1.refs = refs
        /\ DOMAIN e1 = DOMAIN entry[c][x]
    BY <1>5, <1>6 DEF Present
  <2>2. /\ e2.here /\ e2.version = entry[c][x].version /\ e2.refs = refs
        /\ DOMAIN e2 = DOMAIN entry[c][x]
    BY <1>5, <1>6, <2>1 DEF Present
  <2>3. e3.here /\ e3.version = entry[c][x].version /\ e3.refs = refs
    BY <1>5, <1>6, <2>2 DEF Present
  <2> QED
    BY <1>5, <2>1, <2>3
<1>8. setup.through => refs = 0
  <2> SUFFICES ASSUME setup.through PROVE refs = 0
    OBVIOUS
  <2>1. entry[c][x].refs = 1
    BY <1>4 DEF EntryRight, Entry
  <2> QED
    BY <1>2, <2>1 DEF Less, Entry
<1>9. /\ \A y \in Tags : y # x => owner'[y] = owner[y]
      /\ owner'[x] = owner[x] \/ owner'[x] = NoCache
      /\ pc'[c] = "idle" /\ \A s \in Threads : s # c => pc'[s] = pc[s]
  BY <1>1, <1>3, <1>4 DEF MemoryTypeOK
<1>10. AccessRight(c)'
  BY <1>9 DEF AccessRight
<1>11. EntryRight(c, x)'
  <2>1. setup.through => entry'[c][x].refs = 0
    BY <1>6, <1>7, <1>8
  <2>2. ~Busy(c, x)'
    BY <1>9 DEF Busy
  <2>3. ASSUME owner'[x] = c
        PROVE  /\ entry'[c][x].here
               /\ entry'[c][x].version = version[x] \/ \E h \in Hosts : Writer(h, x)' /\ pc'[h] = "owned"
    <3>1. owner[x] = c
      BY <1>9, <2>3, MemoryNames
    <3>2. \A h \in Hosts : Writer(h, x) /\ pc[h] = "owned" => Writer(h, x)' /\ pc'[h] = "owned"
      BY <1>3, <1>9, MemoryNames DEF Writer, Busy, Tag
    <3> QED
      BY <1>4, <1>6, <1>7, <3>1, <3>2 DEF EntryRight, Entry
  <2> QED
    BY <1>3, <2>1, <2>2, <2>3 DEF EntryRight, Entry
<1> QED
  <2>1. /\ pc[c] # "idle" /\ pc'[c] \notin {"miss", "drain"}
        /\ \A y \in Tags : y # x => version'[y] = version[y] /\ owner'[y] = owner[y]
        /\ \/ version'[x] = version[x] /\ owner'[x] = owner[x]
           \/ owner'[x] \in {c, NoCache}
    BY <1>3, <1>9
  <2> QED
    BY <1>2, <1>3, <1>4, <1>6, <1>9, <1>10, <1>11, <2>1, DeviceEnsures

(* Every step keeps what the cache asserts (CoherenceNext). *)
LEMMA EnsuresStepKeeps ==
  ASSUME AtOnce, CoherenceInv, EnsuresInv, CoherenceNext
  PROVE  EnsuresInv'
<1>1. MemoryTypeOK /\ UNCHANGED setup /\ CoherenceInv'
  BY MemoryStepKeeps DEF CoherenceInv, CoherenceNext
<1>2. CASE \E t \in Threads, j \in Jobs : Lookup(t, j)
  BY <1>1, <1>2, LookupEnsures
<1>3. CASE \E t \in Threads : Run(t)
  BY <1>1, <1>3, RunEnsures
<1>4. ASSUME NEW c \in Caches, DeviceStep(c) PROVE EnsuresInv'
  <2>1. ~WriteBack(c) /\ ~EvictorDisowns(c)
    BY <1>1 DEF WriteBack, EvictorDisowns, MemoryTypeOK, DevicePlaces
  <2>2. CASE \E x \in Tags : Evict(c, x)
    BY <1>1, <2>2, EvictEnsures
  <2>3. CASE Erase(c)
    BY <1>1, <2>3, EraseEnsures
  <2>4. CASE Allocate(c)
    BY <1>1, <2>4, AllocateEnsures
  <2>5. CASE Hit(c)
    BY <1>1, <2>5, HitEnsures
  <2>6. CASE Fetch(c)
    BY <1>1, <2>6, FetchEnsures
  <2>7. CASE Publish(c)
    BY <1>1, <2>7, PublishEnsures
  <2>8. CASE WaitInputs(c)
    BY <1>1, <2>8, WaitInputsEnsures
  <2>9. CASE Unregister(c)
    BY <1>1, <2>9, UnregisterEnsures
  <2> QED
    BY <1>4, <2>1, <2>2, <2>3, <2>4, <2>5, <2>6, <2>7, <2>8, <2>9 DEF DeviceStep
<1>5. ASSUME NEW h \in Hosts, HostStep(h) PROVE EnsuresInv'
  <2>1. CASE InvalidateAndFlush(h)
    BY <1>1, <2>1, InvalidateAndFlushEnsures
  <2>2. CASE HostDisowns(h)
    BY <1>1, <2>2, HostDisownsEnsures
  <2>3. CASE Register(h)
    BY <1>1, <2>3, RegisterEnsures
  <2>4. CASE WaitOwner(h)
    BY <1>1, <2>4, WaitOwnerEnsures
  <2>5. CASE HostUnregister(h)
    BY <1>1, <2>5, HostUnregisterEnsures
  <2> QED
    BY <1>5, <2>1, <2>2, <2>3, <2>4, <2>5 DEF HostStep
<1>6. ~\E m \in moves : Transferred(m)
  BY <1>1 DEF MemoryTypeOK
<1> QED
  BY <1>2, <1>3, <1>4, <1>5, <1>6 DEF CoherenceNext

(* A full cache has an entry to evict, the owner is elsewhere, the versions agree: the
   assertions of cache.hpp hold in a cache that has room for a block at all. *)
LEMMA EnsuresRight ==
  ASSUME AtOnce, CoherenceInv, EnsuresInv, setup.room > 0
  PROVE  EnsuresHold
<1>1. MemoryTypeOK /\ HeldInv
  BY DEF CoherenceInv
<1>2. ASSUME NEW c \in Caches, pc[c] = "miss", Used(c) >= setup.room
      PROVE  Unreferenced(c) # {}
  <2>1. setup.through /\ setup.room \in Nat
    BY <1>1, <1>2, RoomForAll, BlocksAssumption DEF MemoryTypeOK
  <2> DEFINE U == {x \in Tags : Entry(c, x).here /\ Entry(c, x).ready}
  <2>2. U # {}
    <3>1. Used(c) = Cardinality(U)
      BY DEF Used
    <3> HIDE DEF U
    <3> QED
      BY <1>2, <2>1, <3>1, FS_EmptySet
  <2>3. PICK x \in Tags : Entry(c, x).here /\ Entry(c, x).ready
    BY <2>2
  <2>4. ~Busy(c, x)
    BY <1>1, <1>2, <2>3 DEF HeldInv, Busy
  <2>5. Entry(c, x).refs = 0
    BY <2>1, <2>3, <2>4 DEF EnsuresInv, EntryRight
  <2> QED
    BY <2>3, <2>5 DEF Unreferenced
<1>3. \A c \in Caches : AccessRight(c)
  BY DEF EnsuresInv
<1>4. ASSUME NEW c \in Caches
      PROVE  /\ pc[c] = "fetch" => job[c].seen # c
             /\ pc[c] = "inputs" /\ job[c].output => Entry(c, Tag(c)).version = version[Tag(c)]
  BY <1>3 DEF AccessRight
<1> QED
  BY <1>2, <1>4 DEF EnsuresHold

(* The memories begin right (CoherenceInit). *)
LEMMA MemoriesBegin == CoherenceInit => MemoryInductive
<1> SUFFICES ASSUME CoherenceInit, AtOnce PROVE CoherenceInv /\ EnsuresInv
  BY DEF MemoryInductive
<1>1. \A t \in Threads : pc[t] = "idle"
  BY DEF CoherenceInit
<1>2. \A c \in Caches : \A x \in Tags : ~Entry(c, x).here /\ owner[x] # c
  BY MemoryNames DEF CoherenceInit, Entry, Absent
<1>3. ASSUME NEW c \in Caches PROVE AccessRight(c)
  BY <1>1, MemoryNames DEF AccessRight
<1>4. ASSUME NEW c \in Caches, NEW x \in Tags PROVE EntryRight(c, x)
  BY <1>2 DEF EntryRight
<1> QED
  BY <1>3, <1>4, MemoryInit DEF EnsuresInv

(* Every step keeps them right, and so does whatever else happens. *)
LEMMA MemoriesGoOn == MemoryInductive /\ [CoherenceNext]_coherenceVars => MemoryInductive'
<1> SUFFICES ASSUME MemoryInductive, [CoherenceNext]_coherenceVars, AtOnce'
             PROVE  CoherenceInv' /\ EnsuresInv'
  BY DEF MemoryInductive
<1>1. UNCHANGED setup
  BY DEF CoherenceNext, coherenceVars
<1>2. AtOnce /\ CoherenceInv /\ EnsuresInv
  BY <1>1 DEF AtOnce, MemoryInductive
<1>3. CASE CoherenceNext
  BY <1>2, <1>3, MemoryStepKeeps, EnsuresStepKeeps
<1>4. CASE UNCHANGED coherenceVars
  <2>1. CoherenceInv'
    BY <1>2, <1>4, MemoryUntouched
  <2>2. UNCHANGED <<setup, owner, version, entry, job, pc>>
    BY <1>4 DEF coherenceVars
  <2>3. \A c \in Caches : AccessRight(c)'
    BY <1>2, <2>2 DEF EnsuresInv, AccessRight, Entry, Tag
  <2>4. \A c \in Caches : \A x \in Tags : EntryRight(c, x)'
    BY <1>2, <2>2 DEF EnsuresInv, EntryRight, Entry, Tag, Busy, Writer
  <2> QED
    BY <2>1, <2>3, <2>4 DEF EnsuresInv
<1> QED
  BY <1>3, <1>4

(* What the invariant is for. *)
LEMMA MemoriesRight ==
  MemoryInductive => /\ AtOnce => ReadsLatest
                     /\ AtOnce => DirectoryKnows
                     /\ AtOnce /\ setup.room > 0 => EnsuresHold
BY MemoryRight, EnsuresRight DEF MemoryInductive
=============================================================================
