------------------------------ MODULE Slicers ------------------------------
(***************************************************************************)
(* A sliced WD (src/src/core/slicer_decl.hpp) from its submission to its   *)
(* last slice, under each slicer of src/src/plugins/slicers.  The slicers  *)
(* that split when a thread takes the WD from its queue do it under the    *)
(* lock of the queue, one slice at a time.  A unit of work is an iteration *)
(* of a loop, a repetition, a section or a thread's copy.                  *)
(***************************************************************************)
EXTENDS LoopItems, Bags

CONSTANTS Works,   \* the sliced WDs: slicer, loop, and n of repeat_n and compound_wd
          N,       \* the threads of the team
          Valid    \* those that can run the WD, by team id

VARIABLES work,    \* the WD as user code made it
          stage,   \* made, queued or gone
          rest,    \* its data, from which slices have been cut
          given    \* how many times each unit has been given to a slice

vars == <<work, stage, rest, given>>

ForQueue == {"dynamic_for", "guided_for", "repeat_n", "compound_wd"}

Init ==
    /\ work \in Works
    /\ stage = "made"
    /\ rest = work
    /\ given = EmptyBag

Is(slicer, where) == work.slicer = slicer /\ stage = where /\ UNCHANGED work
Slice(units) == given' = given (+) SetToBag(units)

\* The last slice is the WD itself.
Cut(units, left) == Slice(units) /\ rest' = left /\ UNCHANGED stage
Finish(units) == Slice(units) /\ stage' = "gone" /\ UNCHANGED rest

Submit ==
    /\ work.slicer \in ForQueue /\ Is(work.slicer, "made")
    /\ stage' = "queued"
    /\ rest' = IF work.slicer \in {"dynamic_for", "guided_for"}
               THEN [rest EXCEPT !.loop.chunk = Chunk(rest.loop)] ELSE rest
    /\ UNCHANGED given

SubmitStatic ==
    /\ Is("static_for", "made")
    /\ LET part == [i \in StaticSlices(work.loop, Valid) |->
                       StaticLoop(work.loop, StaticSlice(work.loop, Valid, i))]
       IN  given' = [u \in UNION {part[i] : i \in DOMAIN part} |->
                        Cardinality({i \in DOMAIN part : u \in part[i]})]
    /\ stage' = "gone" /\ UNCHANGED rest

\* A copy for each thread of the team but the one that submits, thread 0.
SubmitReplicate ==
    /\ Is("replicate", "made")
    /\ Finish(1..(N - 1))

\* Mutant of DequeueFor: the bound of a slice is taken to be exclusive.
DequeueForNext(slicer, upper) ==
    /\ Is(slicer, "queued")
    /\ IF LastSlice(rest.loop, upper)
       THEN Finish(LoopIterations(rest.loop))
       ELSE Cut(Iterations(rest.loop.lower, upper, rest.loop.step),
                [rest EXCEPT !.loop.lower = upper])

DequeueFor(slicer, upper) ==
    /\ Is(slicer, "queued")
    /\ IF LastSlice(rest.loop, upper)
       THEN Finish(LoopIterations(rest.loop))
       ELSE Cut(Iterations(rest.loop.lower, upper, rest.loop.step),
                [rest EXCEPT !.loop.lower = upper + rest.loop.step])

DequeueDynamic == DequeueFor("dynamic_for", DynamicUpper(rest.loop))
DequeueGuided == DequeueFor("guided_for", GuidedUpper(rest.loop, Cardinality(Valid)))

DequeueRepeat ==
    /\ Is("repeat_n", "queued")
    /\ IF rest.n - 1 > 0 THEN Cut({rest.n}, [rest EXCEPT !.n = @ - 1]) ELSE Finish({rest.n})

\* Sections are cut from the end until the rest is run as one, which the policies
\* decide by the state of the scheduler.
DequeueCompound ==
    /\ Is("compound_wd", "queued")
    /\ \E serialize \in BOOLEAN :
          IF serialize \/ rest.n = 1 THEN Finish(1..rest.n)
          ELSE Cut({rest.n}, [rest EXCEPT !.n = @ - 1])

Dequeue == DequeueDynamic \/ DequeueGuided \/ DequeueRepeat \/ DequeueCompound

Next == Submit \/ SubmitStatic \/ SubmitReplicate \/ Dequeue

Spec == Init /\ [][Next]_vars /\ WF_vars(Next)

----------------------------------------------------------------------------
Units ==
    CASE work.slicer \in {"static_for", "dynamic_for", "guided_for"} -> LoopIterations(work.loop)
      [] work.slicer = "replicate" -> 1..(N - 1)
      [] OTHER -> 1..work.n

\* What the WD would still do if it were run as it is.
Remaining ==
    CASE stage = "gone" -> {}
      [] work.slicer \in {"repeat_n", "compound_wd"} -> 1..rest.n
      [] work.slicer = "replicate" -> Units
      [] OTHER -> LoopIterations(rest.loop)

(* The pieces add up: at any time the slices made so far and what is left make the
   work that was submitted, each unit once ("decompose a WorkDescriptor in a set of
   several WorkDescriptors", slicer_decl.hpp:81-83). *)
PiecesAddUp ==
    /\ \A u \in DOMAIN given : given[u] = 1
    /\ DOMAIN given \cup Remaining = Units
    /\ DOMAIN given \cap Remaining = {}

(* Slicing ends ("avoid infinite task generation", dynamic_for.cpp:45). *)
SlicingEnds == <>(stage = "gone")
=============================================================================
