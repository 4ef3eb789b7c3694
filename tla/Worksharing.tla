---------------------------- MODULE Worksharing ----------------------------
(***************************************************************************)
(* The threads of a team in the loops and singles of a program, none of    *)
(* which has a barrier of its own: TeamData::getTeamWorkSharingDescriptor  *)
(* (src/src/core/basethread.hpp), the worksharing plugins, and the single  *)
(* guards of ThreadTeam (threadteam.cpp).                                  *)
(*                                                                         *)
(* The descriptors of dynamic and guided loops form a list that starts in  *)
(* the team and only grows: descriptor d + 1 is the next of d, and made    *)
(* of them exist, so that "the next of d is NULL" is made = d.             *)
(*                                                                         *)
(* pc: start   about to enter the construct                                *)
(*     append  found no next descriptor, about to compare and swap         *)
(*     fill    appended one, writing its data       publish   setting ws   *)
(*     spin    waiting for ws                       item   asks for items  *)
(*     guard   about to test the single guard       swap   about to swap   *)
(*     body    in the body of a single, as its one  wait   waits for it    *)
(***************************************************************************)
EXTENDS LoopItems, Bags, Sequences

CONSTANTS N, Programs

Threads == 0..(N - 1)     \* by team id

VARIABLES
    program,   \* what user code does, chosen at the start
    at, pc,    \* the construct a thread is in, and where in it
    made,      \* how many descriptors the list has
    ws,        \* the descriptors whose field ws is set
    data,      \* the loop, current chunk and iterations left of each descriptor
    mine,      \* TeamData::_wsDescriptor
    local,     \* BaseThread::_wsDescriptor, of static loops
    guard,     \* ThreadTeam::_singleGuardCount
    count,     \* TeamData::_singleCount
    given, winner, over,  \* history: see TeamConstructs
    told       \* history: the constructs whose last item has been given out as such

list == <<made, ws, data>>
singles == <<guard, count>>
history == <<given, winner, over, told>>
vars == <<program, at, pc, list, mine, local, singles, history>>

Kind(t) == program[at[t]].kind
Loop(t) == program[at[t]].loop
Inside(t) == at[t] <= Len(program)

Init ==
    /\ program \in Programs
    /\ at = [t \in Threads |-> 1]
    /\ pc = [t \in Threads |-> "start"]
    /\ made = 0 /\ ws = {} /\ data = <<>>
    /\ mine = [t \in Threads |-> 0]
    /\ local = [t \in Threads |-> Loop(t)]
    /\ guard = 0 /\ count = [t \in Threads |-> 0]
    /\ given = [k \in 1..Len(program) |-> EmptyBag]
    /\ winner = [k \in 1..Len(program) |-> {}]
    /\ over = {} /\ told = {}

At(t, place) == Inside(t) /\ pc[t] = place
Goto(t, place) == pc' = [pc EXCEPT ![t] = place]
Stay == UNCHANGED <<program, at>>
Leave(t) == at' = [at EXCEPT ![t] = @ + 1] /\ Goto(t, "start") /\ UNCHANGED program
Win(t) == winner' = [winner EXCEPT ![at[t]] = @ \cup {t}]

----------------------------------------------------------------------------
(* The list of descriptors *)

Look(t) ==
    /\ At(t, "start") /\ Kind(t) \in {"dynamic", "guided"}
    /\ IF made > mine[t]
       THEN mine' = [mine EXCEPT ![t] = @ + 1] /\ Goto(t, "spin")
       ELSE UNCHANGED mine /\ Goto(t, "append")
    /\ Stay /\ UNCHANGED <<list, local, singles, history>>

\* Mutant of Append_: a thread that loses the race appends its own all the same.
AppendOwn(t) ==
    /\ At(t, "append")
    /\ made' = made + 1
    /\ mine' = [mine EXCEPT ![t] = made + 1]
    /\ Win(t) /\ Goto(t, "fill")
    /\ Stay /\ UNCHANGED <<ws, data, local, singles, given, over, told>>

\* The winner of the swap is the creator; the others delete what they made.
Append_(t) ==
    /\ At(t, "append")
    /\ mine' = [mine EXCEPT ![t] = @ + 1]
    /\ IF made = mine[t]
       THEN made' = made + 1 /\ Win(t) /\ Goto(t, "fill")
       ELSE UNCHANGED <<made, winner>> /\ Goto(t, "spin")
    /\ Stay /\ UNCHANGED <<ws, data, local, singles, given, over, told>>

Fill(t) ==
    /\ At(t, "fill")
    /\ data' = Append(data, [loop |-> Loop(t), chunk |-> 0, left |-> Count(Loop(t))])
    /\ Goto(t, "publish")
    /\ Stay /\ UNCHANGED <<made, ws, mine, local, singles, history>>

Publish(t) ==
    /\ At(t, "publish")
    /\ ws' = ws \cup {mine[t]}
    /\ Goto(t, "spin")
    /\ Stay /\ UNCHANGED <<made, data, mine, local, singles, history>>

Spin(t) ==
    /\ At(t, "spin") /\ mine[t] \in ws
    /\ Goto(t, "item")
    /\ Stay /\ UNCHANGED <<list, mine, local, singles, history>>

----------------------------------------------------------------------------
(* Items: an empty one ends the loop for the thread. *)

Run(t, item) ==
    /\ given' = [given EXCEPT ![at[t]] = @ (+) SetToBag(item.iterations)]
    /\ told' = IF item.last /\ item.iterations # {} THEN told \cup {at[t]} ELSE told
    /\ IF item.iterations = {} THEN Leave(t) ELSE Stay /\ UNCHANGED pc

NextDynamicItem(t) ==
    /\ At(t, "item") /\ Kind(t) = "dynamic"
    /\ data' = [data EXCEPT ![mine[t]].chunk = @ + 1]
    /\ LET d == data[mine[t]]
       IN  IF d.chunk > DynamicChunks(d.loop) THEN Leave(t) /\ UNCHANGED <<given, told>>
           ELSE Run(t, DynamicItem(d.loop, d.chunk))
    /\ UNCHANGED <<made, ws, mine, local, singles, winner, over>>

NextGuidedItem(t) ==
    /\ At(t, "item") /\ Kind(t) = "guided"
    /\ LET d == data[mine[t]]
       IN  /\ data' = [data EXCEPT ![mine[t]].left = @ - Share(d.loop, @, N)]
           /\ Run(t, GuidedItem(d.loop, d.left, N))
    /\ UNCHANGED <<made, ws, mine, local, singles, winner, over>>

NextStaticItem(t) ==
    /\ At(t, "item") /\ Kind(t) = "static"
    /\ IF StaticAgain(local[t])
       THEN /\ local' = [local EXCEPT ![t] = StaticRest(@, N)]
            /\ Run(t, StaticItem(local[t], t, N))
       ELSE Leave(t) /\ UNCHANGED <<local, given, told>>
    /\ UNCHANGED <<list, mine, singles, winner, over>>

----------------------------------------------------------------------------
(* Singles.  A static loop has a descriptor per thread, and its creator is  *)
(* the one that a single guard finds.                                       *)

Enter(t) ==
    /\ At(t, "start") /\ Kind(t) \in {"single", "guarded", "static"}
    /\ local' = IF Kind(t) = "static" THEN [local EXCEPT ![t] = Loop(t)] ELSE local
    /\ count' = [count EXCEPT ![t] = @ + (IF Kind(t) = "guarded" THEN 2 ELSE 1)]
    /\ Goto(t, "guard")
    /\ Stay /\ UNCHANGED <<list, mine, guard, history>>

\* What a thread does with the answer of singleGuard or enterSingleBarrierGuard.
Answer(t, won) ==
    IF Kind(t) = "single" /\ ~won THEN Leave(t)
    ELSE Stay /\ Goto(t, IF Kind(t) = "static" THEN "item" ELSE IF won THEN "body" ELSE "wait")

Behind(t) == count[t] <= guard

GuardTest(t) ==
    /\ At(t, "guard")
    /\ IF Behind(t) THEN Answer(t, FALSE) ELSE Stay /\ Goto(t, "swap")
    /\ UNCHANGED <<list, mine, local, singles, history>>

\* Mutant of GuardSwap: the count is incremented without a comparison.
GuardIncrement(t) ==
    /\ At(t, "swap")
    /\ guard' = guard + 1 /\ Win(t) /\ Answer(t, TRUE)
    /\ UNCHANGED <<list, mine, local, count, given, over, told>>

GuardSwap(t) ==
    /\ At(t, "swap")
    /\ LET from == count[t] - (IF Kind(t) = "guarded" THEN 2 ELSE 1)
       IN  IF guard = from THEN guard' = from + 1 /\ Win(t) /\ Answer(t, TRUE)
           ELSE UNCHANGED <<guard, winner>> /\ Answer(t, FALSE)
    /\ UNCHANGED <<list, mine, local, count, given, over, told>>

EndBody(t) ==
    /\ At(t, "body")
    /\ IF Kind(t) = "guarded" THEN guard' = guard + 1 ELSE UNCHANGED guard
    /\ over' = over \cup {at[t]}
    /\ Goto(t, "wait")
    /\ Stay /\ UNCHANGED <<list, mine, local, count, given, winner, told>>

\* The one that ran the body has nothing to wait for.
Wait(t) ==
    /\ At(t, "wait") /\ Behind(t)
    /\ Leave(t)
    /\ UNCHANGED <<list, mine, local, singles, history>>

----------------------------------------------------------------------------
Step(t) ==
    \/ Look(t) \/ Append_(t) \/ Fill(t) \/ Publish(t) \/ Spin(t)
    \/ NextDynamicItem(t) \/ NextGuidedItem(t) \/ NextStaticItem(t)
    \/ Enter(t) \/ GuardTest(t) \/ GuardSwap(t) \/ EndBody(t) \/ Wait(t)

Next == \E t \in Threads : Step(t)

\* Some thread that can go on does: less than the fairness of the operating system,
\* and enough, for no thread does anything while it waits.
Spec == Init /\ [][Next]_vars /\ WF_vars(Next)

----------------------------------------------------------------------------
(* What loops and singles owe the threads of a team. *)

Constructs == INSTANCE TeamConstructs

(* An iteration is given out once, none is left when the last thread leaves, one
   thread is single in each construct, and a guarded single is waited for: however
   far one thread is ahead of another in a program without barriers
   (basethread.hpp:44-99, threadteam.cpp:29-52, the nextItem of each plugin). *)
ImplementsConstructs == Constructs!Spec

Last(l) == CHOOSE i \in LoopIterations(l) :
              \A j \in LoopIterations(l) : j * Sign(l.step) <= i * Sign(l.step)

\* A static loop knows its last item by the upper bound, which the step may pass over.
KnowsLast(k) ==
    LET l == program[k].loop IN program[k].kind = "static" => Last(l) = l.upper

(* The item reported as the last one is the one with the last iteration, and it
   is reported when it is given out (the assignments of loop_item->last). *)
LastTold ==
    \A k \in 1..Len(program) :
       program[k].kind \in {"static", "dynamic", "guided"} /\ Constructs!Todo(k) # {} /\ KnowsLast(k) =>
          (k \in told <=> BagIn(Last(program[k].loop), given[k]))

(* The shared guard never runs ahead of every thread, and a thread that is not in a
   guard is not ahead of it: a single is neither skipped by all nor taken twice
   (threadteam.cpp:31-40). *)
GuardBetween ==
    /\ \E t \in Threads : guard <= count[t]
    /\ \A t \in Threads : pc[t] \in {"start", "item", "body"} => count[t] <= guard + 1

Places == {"start", "append", "fill", "publish", "spin", "item", "guard", "swap", "body", "wait"}
TypeOK ==
    /\ program \in Programs
    /\ at \in [Threads -> 1..(Len(program) + 1)]
    /\ pc \in [Threads -> Places]
    /\ made \in 0..Len(program)
    /\ ws \subseteq 1..made
    /\ Len(data) <= made
    /\ mine \in [Threads -> 0..made]
    /\ guard \in Nat /\ count \in [Threads -> Nat]

NobodyInside == \A t \in Threads : ~Inside(t)

(* Every thread gets through: nobody spins for ever on ws or on the guard. *)
AllThrough == <>NobodyInside
----------------------------------------------------------------------------
(* The inductive invariant behind GuardBetween.  sum[k] is what the count of a thread has come
   to when it has entered the first k constructs: the same for all threads. *)

Cost(k) ==
    CASE program[k].kind = "guarded" -> 2
      [] program[k].kind \in {"single", "static"} -> 1
      [] OTHER -> 0

SumsUp(sum) == sum[0] = 0 /\ \A k \in 1..Len(program) : sum[k] = sum[k - 1] + Cost(k)

Entered(t) == IF pc[t] = "start" THEN at[t] - 1 ELSE at[t]
InGuarded(t) == pc[t] = "body" /\ Kind(t) = "guarded"

\* What a thread has learned from the guard: that others are done with what it has passed.
Learned(t, sum) ==
    /\ pc[t] # "start" => Inside(t)
    /\ pc[t] \in {"start", "append", "fill", "publish", "spin", "item"} => count[t] <= guard
    /\ pc[t] \in {"guard", "swap"} => Cost(at[t]) > 0 /\ sum[at[t] - 1] <= guard
    /\ pc[t] = "body" => Kind(t) \in {"single", "guarded"}
    /\ pc[t] = "body" /\ Kind(t) = "single" => count[t] <= guard
    /\ InGuarded(t) => guard = count[t] - 1

\* A move of t that has nothing to do with the guard: into, within or out of a loop.
LoopMove(t) ==
    /\ Inside(t) /\ UNCHANGED <<program, guard, count>>
    /\ \/ /\ pc[t] = "start" /\ Cost(at[t]) = 0
          /\ at' = at /\ \E place \in {"append", "spin"} : pc' = [pc EXCEPT ![t] = place]
       \/ /\ pc[t] \in {"append", "fill", "publish", "spin"}
          /\ at' = at
          /\ \E place \in {"fill", "publish", "spin", "item"} : pc' = [pc EXCEPT ![t] = place]
       \/ /\ pc[t] = "item"
          /\ \/ UNCHANGED <<at, pc>>
             \/ at' = [at EXCEPT ![t] = at[t] + 1] /\ pc' = [pc EXCEPT ![t] = "start"]

GuardsInv(sum) ==
    /\ at \in [Threads -> 1..(Len(program) + 1)] /\ pc \in [Threads -> Places]
    /\ guard \in Nat /\ count \in [Threads -> Nat]
    /\ SumsUp(sum)
    /\ \A t \in Threads : count[t] = sum[Entered(t)] /\ Learned(t, sum)
    /\ \A t, u \in Threads : InGuarded(t) /\ InGuarded(u) => t = u
    /\ \E t \in Threads : guard <= count[t]

\* No construct costs more than 2.
GuardsInductive ==
    /\ program \in Programs
    /\ \E sum \in [0..Len(program) -> 0..(2 * Len(program))] : GuardsInv(sum)
=============================================================================
