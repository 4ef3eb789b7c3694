----------------------------- MODULE Coherence -----------------------------
(***************************************************************************)
(* The copies of the program's data in the memories of devices:            *)
(* support/cache.hpp and core/directory.hpp.  A tag is the host address of *)
(* one block of data, version its entry's version in the directory of the  *)
(* tasks' parent, owner the cache whose copy is newer than the host's.     *)
(* Each cache belongs to the one thread of its device; host threads use    *)
(* the host's memory.  A task accesses one block, which it reads, writes   *)
(* or both; the dependences let a writer of a block run alone, and a task  *)
(* ends for them after copyDataOut.                                        *)
(*                                                                         *)
(* latest is the number of the last write of a block, and the contents of  *)
(* a memory are the number of the write they come from; 0 is rubbish.      *)
(***************************************************************************)
EXTENDS Naturals, FiniteSets

CONSTANTS Caches, Hosts, Tags,
          Setups  \* [through: WriteThroughPolicy, or WriteBackPolicy; async: the devices
                  \* queue their copies (copyIn and copyOut return false); room: the blocks
                  \* a cache has space for; threads, tags, tasks: bounds, the threads and
                  \* blocks used and the number of tasks]

VARIABLES setup, owner, version, invalidated,  \* DirectoryEntry of each tag
          entry,                        \* CacheEntry of each tag in each cache
          mem, latest,
          job, pc, made,
          moves                         \* the queued copies of the devices

ASSUME MemoriesAssumption == {"host", "null"} \cap Caches = {} /\ Caches \cap Hosts = {}
ASSUME BlocksAssumption ==
    /\ Tags # {} /\ IsFiniteSet(Tags)
    /\ \A s \in Setups : /\ s.through \in BOOLEAN /\ s.async \in BOOLEAN /\ s.room \in Nat
                         /\ s.tags \subseteq Tags

coherenceVars == <<setup, owner, version, invalidated, entry, mem, latest, job, pc, made, moves>>

Threads == Caches \union Hosts
NoCache == "null"
Host == "host"
Absent == [here |-> FALSE]

\* sync: not a task but the wait of the parent for the block.  What a thread works on has
\* also seen, the owner it read; fresh, the access missed; victim, the block to evict.
Jobs == [tag : Tags, input : BOOLEAN, output : BOOLEAN, sync : BOOLEAN]
IsJob(t, j) ==
    /\ t \in setup.threads /\ j.tag \in setup.tags
    /\ j.input \/ j.output
    /\ j.sync => t \in Hosts /\ j.input /\ ~j.output

Entry(c, x) == entry[c][x]
Tag(t) == job[t].tag
\* The dependences: a task that writes x has x for itself.
Conflicts(j) ==
    \E s \in Threads : pc[s] # "idle" /\ Tag(s) = j.tag /\ (job[s].output \/ j.output)

CoherenceInit ==
    /\ setup \in Setups
    /\ owner = [x \in Tags |-> NoCache]
    /\ version = [x \in Tags |-> 0]
    /\ invalidated = [x \in Tags |-> FALSE]
    /\ entry = [c \in Caches |-> [x \in Tags |-> Absent]]
    /\ latest = [x \in Tags |-> 1]
    /\ mem = [m \in Caches \union {Host} |-> [x \in Tags |-> IF m = Host THEN 1 ELSE 0]]
    /\ pc = [t \in Threads |-> "idle"]
    /\ job = [t \in Threads |-> [tag |-> CHOOSE x \in Tags : TRUE, input |-> FALSE,
                                 output |-> FALSE, sync |-> FALSE, seen |-> NoCache,
                                 fresh |-> FALSE, victim |-> CHOOSE x \in Tags : TRUE]]
    /\ made = 0
    /\ moves = {}

Goto(t, p) == pc' = [pc EXCEPT ![t] = p]
dirVars == <<owner, version, invalidated>>
dataVars == <<mem, latest>>

-----------------------------------------------------------------------------
(* A task begins: copyDataIn looks the block up in the device's cache and gives it a new
   entry when there is none. *)
Lookup(t, j) ==
    LET x == j.tag IN
    /\ pc[t] = "idle" /\ made < setup.tasks
    /\ IsJob(t, j) /\ ~Conflicts(j)
    /\ made' = made + 1
    /\ job' = [job EXCEPT ![t] = [@ EXCEPT !.tag = x, !.input = j.input, !.output = j.output,
                                           !.sync = j.sync, !.seen = owner[x],
                                           !.fresh = t \in Caches /\ ~Entry(t, x).here]]
    /\ IF t \in Caches
       THEN IF Entry(t, x).here
            THEN /\ entry' = [entry EXCEPT ![t][x].refs = @ + 1]
                 /\ Goto(t, "hit")
            ELSE /\ entry' = [entry EXCEPT ![t][x] =
                                [here |-> TRUE, ready |-> FALSE, version |-> 0, refs |-> 1,
                                 dirty |-> j.output, copying |-> j.input, flushing |-> FALSE]]
                 /\ Goto(t, "miss")
       ELSE entry' = entry /\ Goto(t, "register")
    /\ UNCHANGED <<dirVars, dataVars, moves>>

Used(c) == Cardinality({x \in Tags : Entry(c, x).here /\ Entry(c, x).ready})
Unreferenced(c) == {x \in Tags : Entry(c, x).here /\ Entry(c, x).refs = 0}

(* freeSpaceToFit takes an entry nobody uses; a dirty one is copied back first if its cache
   still owns the block. *)
Evict(c, x) ==
    /\ pc[c] = "miss" /\ Used(c) >= setup.room /\ x \in Unreferenced(c)
    /\ job' = [job EXCEPT ![c].victim = x]
    /\ IF Entry(c, x).dirty /\ ~Entry(c, x).flushing /\ owner[x] = c
       THEN entry' = [entry EXCEPT ![c][x].flushing = TRUE] /\ Goto(c, "write back")
       ELSE entry' = entry /\ Goto(c, "drain")
    /\ UNCHANGED <<dirVars, dataVars, made, moves>>

(* The entry goes once no copy back is under way, unless someone took it meanwhile. *)
Erase(c) ==
    LET x == job[c].victim IN
    /\ pc[c] = "drain" /\ ~Entry(c, x).flushing
    /\ entry' = IF Entry(c, x).refs = 0 THEN [entry EXCEPT ![c][x] = Absent] ELSE entry
    /\ Goto(c, "miss")
    /\ UNCHANGED <<dirVars, dataVars, job, made, moves>>

(* The cache whose copy is the newest is read; a writer tells it that its copy is over. *)
SeeOwner(t, x) ==
    /\ job' = [job EXCEPT ![t].seen = owner[x]]
    /\ invalidated' = [invalidated EXCEPT ![x] = @ \/ (job[t].output /\ owner[x] # NoCache)]
    /\ UNCHANGED <<owner, version>>

Allocate(c) ==
    LET x == Tag(c) IN
    /\ pc[c] = "miss" /\ (Used(c) < setup.room \/ Unreferenced(c) = {})
    /\ entry' = [entry EXCEPT ![c][x].ready = TRUE]
    /\ SeeOwner(c, x)
    /\ Goto(c, IF job[c].input THEN "fetch" ELSE "publish")
    /\ UNCHANGED <<dataVars, made, moves>>

\* Mutant of Hit: the versions are not compared.
HitStale(c) ==
    /\ pc[c] = "hit"
    /\ entry' = [entry EXCEPT ![c][Tag(c)].version = version[Tag(c)]]
    /\ UNCHANGED <<job, dirVars, dataVars, made, moves>>
    /\ Goto(c, "publish")

(* The block has an entry: only a reader whose version is old must fetch it. *)
Hit(c) ==
    LET x == Tag(c)
        old == Entry(c, x).version # version[x] IN
    /\ pc[c] = "hit"
    /\ IF old /\ job[c].input
       THEN /\ entry' = [entry EXCEPT ![c][x].version = version[x], ![c][x].copying = TRUE]
            /\ SeeOwner(c, x)
            /\ Goto(c, "fetch")
       ELSE /\ entry' = [entry EXCEPT ![c][x].version = version[x]]
            /\ UNCHANGED <<job, dirVars>>
            /\ Goto(c, "publish")
    /\ UNCHANGED <<dataVars, made, moves>>

Copied(from, to, x) == mem' = [mem EXCEPT ![to][x] = mem[from][x]] /\ UNCHANGED latest

(* The block is copied from the host or from the owner; owner->getEntry and _cache.getEntry
   each leave a reference behind.  An owner without the entry ends the program. *)
Fetch(c) ==
    LET x == Tag(c)
        o == job[c].seen
        from == IF o = NoCache THEN Host ELSE o
        pinned == [d \in Caches |->
                     IF o # NoCache /\ d \in {c, o}
                     THEN [entry[d] EXCEPT ![x].refs = @ + IF c = o THEN 2 ELSE 1]
                     ELSE entry[d]] IN
    /\ pc[c] = "fetch"
    /\ o # NoCache => Entry(o, x).here
    /\ IF setup.async
       THEN /\ moves' = moves \union
                          {[cache |-> c, tag |-> x, from |-> from, to |-> c, version |-> 0]}
            /\ entry' = pinned /\ UNCHANGED dataVars
       ELSE /\ Copied(from, c, x)
            /\ entry' = [pinned EXCEPT ![c][x].copying = FALSE]
            /\ UNCHANGED moves
    /\ Goto(c, "publish")
    /\ UNCHANGED <<dirVars, job, made>>

(* A writer becomes the owner and makes the version of all other copies old. *)
Publish(c) ==
    LET x == Tag(c)
        v == version[x] + IF job[c].output THEN 1 ELSE 0 IN
    /\ pc[c] = "publish"
    /\ IF job[c].output
       THEN /\ owner' = [owner EXCEPT ![x] = c]
            /\ invalidated' = [invalidated EXCEPT ![x] = FALSE]
            /\ version' = [version EXCEPT ![x] = v]
       ELSE UNCHANGED dirVars
    /\ entry' = [entry EXCEPT ![c][x].version =
                   IF job[c].fresh THEN v ELSE IF job[c].output THEN @ + 1 ELSE @]
    /\ Goto(c, "inputs")
    /\ UNCHANGED <<dataVars, job, made, moves>>

WaitInputs(c) ==
    /\ pc[c] = "inputs" /\ (job[c].input => ~Entry(c, Tag(c)).copying)
    /\ Goto(c, "run")
    /\ UNCHANGED <<dirVars, dataVars, entry, job, made, moves>>

-----------------------------------------------------------------------------
(* A copy back, as the evictor or the host asks for it: invalidateAndFlush sets flushing
   before it looks whether the cache still owns the block. *)
CopyOut(c, x) ==
    IF setup.async
    THEN /\ moves' = moves \union {[cache |-> c, tag |-> x, from |-> c, to |-> Host,
                                    version |-> version[x]]}
         /\ UNCHANGED dataVars
    ELSE Copied(c, Host, x) /\ UNCHANGED moves

WriteBack(c) ==
    /\ pc[c] = "write back"
    /\ CopyOut(c, job[c].victim)
    /\ Goto(c, IF setup.async THEN "drain" ELSE "written")
    /\ UNCHANGED <<dirVars, entry, job, made>>

(* After a copy that is not queued the thread takes the block from its owner, whoever that
   is by now. *)
Disown(t, c, x, next) ==
    /\ entry' = [entry EXCEPT ![c][x].flushing = FALSE]
    /\ owner' = [owner EXCEPT ![x] = NoCache]
    /\ Goto(t, next)
    /\ UNCHANGED <<version, invalidated, dataVars, job, made, moves>>

EvictorDisowns(c) == pc[c] = "written" /\ Disown(c, c, job[c].victim, "drain")

\* The host reads the block: registerAccess, or synchronizeHost for a wait.  The two flags
\* and the owner are tested in one step: who has the first flag is alone with the rest but
\* for an evictor, and no evictor runs beside a host thread in these setups.
InvalidateAndFlush(h) ==
    LET x == Tag(h)
        c == job[h].seen
        mine == ~invalidated[x] /\ ~Entry(c, x).flushing IN
    /\ pc[h] = "register" /\ job[h].input /\ c # NoCache
    /\ ~invalidated[x] => Entry(c, x).here
    /\ invalidated' = [invalidated EXCEPT ![x] = TRUE]
    /\ IF mine /\ owner[x] = c
       THEN /\ entry' = [entry EXCEPT ![c][x].flushing = TRUE]
            /\ CopyOut(c, x)
            /\ Goto(h, IF setup.async THEN "registered" ELSE "written")
       ELSE UNCHANGED <<entry, dataVars, moves>> /\ Goto(h, "registered")
    /\ UNCHANGED <<owner, version, job, made>>

HostDisowns(h) ==
    /\ h \in Hosts /\ pc[h] = "written"
    /\ Disown(h, job[h].seen, Tag(h), "registered")

\* Mutant of Register: a host task that only writes leaves the block to its owner.
RegisterOwned(h) ==
    /\ \/ pc[h] = "registered"
       \/ pc[h] = "register" /\ (~job[h].input \/ job[h].seen = NoCache)
    /\ version' = IF job[h].output THEN [version EXCEPT ![Tag(h)] = @ + 1] ELSE version
    /\ Goto(h, "owned")
    /\ UNCHANGED <<owner, invalidated, dataVars, entry, job, made, moves>>

Register(h) ==
    LET x == Tag(h) IN
    /\ \/ pc[h] = "registered"
       \/ pc[h] = "register" /\ (~job[h].input \/ job[h].seen = NoCache)
    /\ owner' = IF job[h].output /\ ~job[h].input THEN [owner EXCEPT ![x] = NoCache] ELSE owner
    /\ version' = IF job[h].output THEN [version EXCEPT ![x] = @ + 1] ELSE version
    /\ Goto(h, "owned")
    /\ UNCHANGED <<invalidated, dataVars, entry, job, made, moves>>

(* waitInput and synchronizeHost spin until no cache owns the block. *)
WaitOwner(h) ==
    /\ pc[h] = "owned" /\ (job[h].input => owner[Tag(h)] = NoCache)
    /\ Goto(h, "run")
    /\ UNCHANGED <<dirVars, dataVars, entry, job, made, moves>>

-----------------------------------------------------------------------------
Memory(t) == IF t \in Caches THEN t ELSE Host

Run(t) ==
    LET x == Tag(t) IN
    /\ pc[t] = "run"
    /\ IF job[t].output
       THEN /\ latest' = [latest EXCEPT ![x] = @ + 1]
            /\ mem' = [mem EXCEPT ![Memory(t)][x] = latest[x] + 1]
       ELSE UNCHANGED dataVars
    /\ Goto(t, "done")
    /\ UNCHANGED <<dirVars, entry, job, made, moves>>

Less(n, k) == IF n > k THEN n - k ELSE 0

\* Mutant of Unregister: the reference that getEntry adds is not given back.
UnregisterOnce(c) ==
    LET x == Tag(c)
        writes == setup.through /\ job[c].output IN
    /\ c \in Caches /\ pc[c] = "done"
    /\ IF writes
       THEN /\ CopyOut(c, x)
            /\ entry' = [entry EXCEPT ![c][x].dirty = FALSE, ![c][x].flushing = setup.async]
            /\ owner' = IF setup.async THEN owner ELSE [owner EXCEPT ![x] = NoCache]
       ELSE /\ entry' = entry
            /\ UNCHANGED <<owner, dataVars, moves>>
    /\ Goto(c, "idle")
    /\ UNCHANGED <<version, invalidated, job, made>>

(* copyDataOut: write-through copies what was written back to the host. *)
Unregister(c) ==
    LET x == Tag(c)
        refs == Less(Entry(c, x).refs + IF setup.through THEN 1 ELSE 0, 2)
        writes == setup.through /\ job[c].output IN
    /\ c \in Caches /\ pc[c] = "done"
    /\ IF writes
       THEN /\ CopyOut(c, x)
            /\ entry' = [entry EXCEPT ![c][x].refs = refs, ![c][x].dirty = FALSE,
                                      ![c][x].flushing = setup.async]
            /\ owner' = IF setup.async THEN owner ELSE [owner EXCEPT ![x] = NoCache]
       ELSE /\ entry' = [entry EXCEPT ![c][x].refs = refs]
            /\ UNCHANGED <<owner, dataVars, moves>>
    /\ Goto(c, "idle")
    /\ UNCHANGED <<version, invalidated, job, made>>

HostUnregister(h) ==
    /\ h \in Hosts /\ pc[h] = "done"
    /\ version' = IF job[h].output \/ job[h].sync THEN [version EXCEPT ![Tag(h)] = @ + 1]
                                                  ELSE version
    /\ Goto(h, "idle")
    /\ UNCHANGED <<owner, invalidated, dataVars, entry, job, made, moves>>

(* The device has done a queued copy: synchronizeInternal takes it for a copy back when the
   entry is flushing, and then takes the block from its owner unless that is another cache
   or the entry has a newer version. *)
Transferred(m) ==
    LET c == m.cache
        x == m.tag IN
    /\ Copied(m.from, m.to, x)
    /\ moves' = moves \ {m}
    /\ IF Entry(c, x).flushing
       THEN /\ entry' = [entry EXCEPT ![c][x].flushing = FALSE]
            /\ owner' = IF owner[x] = c /\ Entry(c, x).version = m.version
                        THEN [owner EXCEPT ![x] = NoCache] ELSE owner
       ELSE entry' = [entry EXCEPT ![c][x].copying = FALSE] /\ UNCHANGED owner
    /\ UNCHANGED <<version, invalidated, job, pc, made>>

DeviceStep(c) ==
    \/ \E x \in Tags : Evict(c, x)
    \/ WriteBack(c) \/ EvictorDisowns(c) \/ Erase(c) \/ Allocate(c) \/ Hit(c) \/ Fetch(c)
    \/ Publish(c) \/ WaitInputs(c) \/ Unregister(c)

HostStep(h) ==
    \/ InvalidateAndFlush(h) \/ HostDisowns(h) \/ Register(h) \/ WaitOwner(h)
    \/ HostUnregister(h)

CoherenceNext ==
    /\ \/ \E t \in Threads, j \in Jobs : Lookup(t, j)
       \/ \E t \in Threads : Run(t)
       \/ \E c \in Caches : DeviceStep(c)
       \/ \E h \in Hosts : HostStep(h)
       \/ \E m \in moves : Transferred(m)
    /\ UNCHANGED setup

CoherenceSpec ==
    CoherenceInit /\ [][CoherenceNext]_coherenceVars /\ WF_coherenceVars(CoherenceNext)

-----------------------------------------------------------------------------
(* What a task reads is what the last task before it wrote, wherever that ran. *)
ReadsLatest ==
    \A t \in Threads : pc[t] = "run" /\ job[t].input => mem[Memory(t)][Tag(t)] = latest[Tag(t)]

(* Outside the accesses of a writer the newest data are where the directory says. *)
DirectoryKnows ==
    \A x \in Tags :
       (\A t \in Threads : Tag(t) = x /\ job[t].output => pc[t] = "idle")
          => IF owner[x] = NoCache THEN mem[Host][x] = latest[x]
             ELSE Entry(owner[x], x).here /\ mem[owner[x]][x] = latest[x]

(* A block that was written is not lost: some memory that can still be read has it, unless a
   task is about to overwrite it all. *)
NothingLost ==
    \A x \in Tags : \/ \E t \in Threads : Tag(t) = x /\ pc[t] # "idle" /\ ~job[t].input
                    \/ mem[Host][x] = latest[x]
                    \/ \E c \in Caches : Entry(c, x).here /\ mem[c][x] = latest[x]

(* The assertions of the cache: room is found, a cache does not fetch from itself, and the
   versions of a written block agree. *)
EnsuresHold ==
    \A c \in Caches :
       /\ pc[c] = "miss" /\ Used(c) >= setup.room => Unreferenced(c) # {}
       /\ pc[c] = "fetch" => job[c].seen # c
       /\ pc[c] = "inputs" /\ job[c].output => Entry(c, Tag(c)).version = version[Tag(c)]

AllEnded == made = setup.tasks /\ \A t \in Threads : pc[t] = "idle"

(* No task waits for ever for its data. *)
AllTasksEnd == <>[]AllEnded
-----------------------------------------------------------------------------
(* The inductive invariant behind ReadsLatest, DirectoryKnows and          *)
(* EnsuresHold where nothing is copied back late: devices copy at once,    *)
(* and write through or have room for everything.                          *)

AtOnce == ~setup.async /\ (setup.through \/ setup.room >= Cardinality(setup.tags))

Present == [here : {TRUE}, ready : BOOLEAN, version : Nat, refs : Nat, dirty : BOOLEAN,
            copying : BOOLEAN, flushing : BOOLEAN]
Entries == {Absent} \cup Present
Records == [tag : Tags, input : BOOLEAN, output : BOOLEAN, sync : BOOLEAN,
            seen : Caches \cup {NoCache}, fresh : BOOLEAN, victim : Tags]
DevicePlaces == {"idle", "miss", "drain", "hit", "fetch", "publish", "inputs", "run", "done"}
HostPlaces == {"idle", "register", "written", "registered", "owned", "run", "done"}

MemoryTypeOK ==
    /\ setup \in Setups /\ moves = {}
    /\ owner \in [Tags -> Caches \cup {NoCache}]
    /\ version \in [Tags -> Nat] /\ invalidated \in [Tags -> BOOLEAN]
    /\ entry \in [Caches -> [Tags -> Entries]]
    /\ mem \in [Caches \cup {Host} -> [Tags -> Nat]] /\ latest \in [Tags -> Nat]
    /\ job \in [Threads -> Records]
    /\ pc \in [Threads -> DevicePlaces \cup HostPlaces]
    /\ \A c \in Caches : pc[c] \in DevicePlaces
    /\ \A h \in Hosts : pc[h] \in HostPlaces

Busy(t, x) == pc[t] # "idle" /\ Tag(t) = x
Writer(t, x) == Busy(t, x) /\ job[t].output

\* A writer is alone with its block; who is busy reads or writes.
JobInv ==
    /\ \A s, t \in Threads : \A x \in Tags : Writer(s, x) /\ Busy(t, x) => s = t
    /\ \A t \in Threads : pc[t] # "idle" => job[t].input \/ job[t].output

\* What a device works on is in its cache, and referenced, so that it is not the victim.
HeldInv == \A c \in Caches :
    /\ pc[c] # "idle" => Entry(c, Tag(c)).here /\ Entry(c, Tag(c)).refs >= 1
    /\ pc[c] \in {"miss", "drain"} => ~Entry(c, Tag(c)).ready
    /\ pc[c] = "drain" => setup.through

\* Caches hold the blocks that tasks use.
UsedInv == \A c \in Caches : \A x \in Tags : Entry(c, x).here => x \in setup.tags

Published == {"inputs", "run", "done", "owned"}

\* The owner of a block that is being written, or written through.
OwnerInv == \A x \in Tags :
    /\ \A c \in Caches : Writer(c, x) /\ pc[c] \in Published => owner[x] = c
    /\ \A h \in Hosts : Busy(h, x) /\ (pc[h] \in {"run", "done"} \/ (pc[h] = "owned" /\ ~job[h].input))
                           => owner[x] = NoCache
    /\ setup.through /\ owner[x] # NoCache =>
          Writer(owner[x], x) /\ pc[owner[x]] \in Published

Knows(x) ==
    IF owner[x] = NoCache THEN mem[Host][x] = latest[x]
    ELSE Entry(owner[x], x).here /\ mem[owner[x]][x] = latest[x]

\* The directory is right but for a block that is about to be overwritten.
KnowsInv == \A x \in Tags :
    (\A t \in Threads : Writer(t, x) /\ ~job[t].input => pc[t] \notin {"inputs", "run", "owned"})
       => Knows(x)

\* Who has fetched or written a block has the newest, and who fetches finds it.
FetchedInv ==
    /\ \A c \in Caches :
          /\ \/ pc[c] \in {"publish", "inputs", "run"} /\ job[c].input
             \/ pc[c] = "done"
             => mem[c][Tag(c)] = latest[Tag(c)]
          /\ pc[c] = "fetch" => LET o == job[c].seen
                                IN  mem[IF o = NoCache THEN Host ELSE o][Tag(c)] = latest[Tag(c)]
    /\ \A h \in Hosts : pc[h] = "written" =>
          /\ mem[Host][Tag(h)] = latest[Tag(h)] /\ job[h].input
          /\ job[h].seen \in Caches /\ Entry(job[h].seen, Tag(h)).here /\ ~setup.through

\* A copy with the version of the directory is the newest, and a writer has made all others old.
VersionInv == \A x \in Tags : \A c \in Caches : Entry(c, x).here =>
    /\ Entry(c, x).version <= version[x]
    /\ Entry(c, x).version = version[x] /\ (Busy(c, x) => pc[c] = "hit") => mem[c][x] = latest[x]
    /\ \A t \in Threads : t # c /\ Writer(t, x) /\ pc[t] \in Published =>
          Entry(c, x).version < version[x]

\* Under write-through only the task at an entry references it; the owner of a block has it, with
\* the version of the directory unless a host task that rewrites the block waits for it.
EntryRight(c, x) ==
    /\ setup.through /\ Entry(c, x).here =>
          Entry(c, x).refs = 0 \/ (Entry(c, x).refs = 1 /\ Busy(c, x))
    /\ owner[x] = c =>
          /\ Entry(c, x).here
          /\ Busy(c, x) => pc[c] \notin {"miss", "drain"}
          /\ \/ Entry(c, x).version = version[x]
             \/ \E h \in Hosts : Writer(h, x) /\ pc[h] = "owned"

\* An access is fresh from the miss on, a writer that is not has compared the versions, and what
\* is fetched is elsewhere.
AccessRight(c) ==
    /\ pc[c] \in {"miss", "drain"} => job[c].fresh
    /\ (\/ pc[c] \in {"fetch", "publish"} /\ ~job[c].fresh
        \/ pc[c] = "inputs") /\ job[c].output => Entry(c, Tag(c)).version = version[Tag(c)]
    /\ pc[c] = "fetch" => job[c].seen # c /\ (setup.through => job[c].seen = NoCache)

EnsuresInv == \A c \in Caches : AccessRight(c) /\ \A x \in Tags : EntryRight(c, x)

CoherenceInv ==
    /\ MemoryTypeOK /\ JobInv /\ HeldInv /\ UsedInv /\ OwnerInv /\ KnowsInv /\ FetchedInv
    /\ VersionInv
MemoryInductive == AtOnce => CoherenceInv /\ EnsuresInv
=============================================================================
