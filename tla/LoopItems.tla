----------------------------- MODULE LoopItems -----------------------------
(***************************************************************************)
(* How a loop is divided: the items of the worksharing plugins             *)
(* (src/src/plugins/worksharing) and the slices of the slicers             *)
(* (src/src/plugins/slicers).  A loop has inclusive bounds, a step of      *)
(* either sign and a chunk, which counts iterations; an item is a range of *)
(* the loop, run from lower to upper by step.                              *)
(***************************************************************************)
EXTENDS Integers, FiniteSets

Abs(a) == IF a < 0 THEN -a ELSE a
Sign(a) == IF a < 0 THEN -1 ELSE 1
Larger(a, b) == IF a > b THEN a ELSE b

\* Integer division of C, which rounds towards zero, and its remainder.
Quot(a, b) == Sign(a) * Sign(b) * (Abs(a) \div Abs(b))
Rem(a, b) == a - b * Quot(a, b)

\* The iterations of lower, lower + step, ... that do not pass upper.
Iterations(lower, upper, step) ==
    {lower + k * step : k \in {j \in 0..(Abs(upper - lower) \div Abs(step)) :
                                  (lower + j * step) * Sign(step) <= upper * Sign(step)}}

LoopIterations(l) == Iterations(l.lower, l.upper, l.step)

Count(l) == Quot(l.upper - l.lower, l.step) + 1

\* Mutant of Chunk: a chunk of 0 is taken as it is.
ChunkAsGiven(l) == l.chunk

Chunk(l) == Larger(1, l.chunk)

Item(l, lower, upper, last) ==
    [last |-> last, iterations |-> Iterations(lower, upper, l.step)]

Clamp(l, upper) == IF l.upper * Sign(l.step) < upper * Sign(l.step) THEN l.upper ELSE upper

----------------------------------------------------------------------------
(* Worksharing *)

\* static: what thread id of n gets from the bounds l of its own descriptor, and
\* the lower bound it leaves there.
StaticItem(l, id, n) ==
    LET adjust == Rem(Count(l), n)
        size == Quot(Count(l), n) * l.step
        more == IF adjust > id THEN l.step ELSE 0
        block == l.lower + size * id + (IF adjust > id THEN id ELSE adjust) * l.step
        lower == l.lower + l.chunk * l.step * id
        upper == lower + l.chunk * l.step - l.step
    IN  IF l.chunk = 0
        THEN Item(l, block, block + size - l.step + more, block + size - l.step + more = l.upper)
        ELSE Item(l, lower, Clamp(l, upper), upper * Sign(l.step) >= l.upper * Sign(l.step))

StaticAgain(l) == l.lower * Sign(l.step) <= l.upper * Sign(l.step)

StaticRest(l, n) ==
    [l EXCEPT !.lower = IF l.chunk = 0 THEN l.upper + l.step ELSE @ + l.chunk * l.step * n]

\* dynamic: chunks of one size, numbered from 0.
DynamicChunks(l) == Quot(Count(l), Chunk(l)) + (IF Rem(Count(l), Chunk(l)) # 0 THEN 1 ELSE 0)

\* Mutant of DynamicItem: the chunks are taken to be numbered from 1.
DynamicItemLate(l, k) ==
    LET lower == l.lower + k * Chunk(l) * l.step
    IN  Item(l, lower, Clamp(l, lower + Chunk(l) * l.step - Sign(l.step)),
             k = DynamicChunks(l))

DynamicItem(l, k) ==
    LET lower == l.lower + k * Chunk(l) * l.step
    IN  Item(l, lower, Clamp(l, lower + Chunk(l) * l.step - Sign(l.step)),
             k = DynamicChunks(l) - 1)

\* guided: a share of what is left for twice the threads, and a chunk at least.
Share(l, left, n) == Larger(Quot(left, 2 * n), Chunk(l))

\* The item when left iterations are left.  The code counts the chunks beforehand and
\* replays the shares of the earlier ones to find left.
GuidedItem(l, left, n) ==
    LET lower == l.lower + (Count(l) - left) * l.step
    IN  Item(l, lower, Clamp(l, lower + Share(l, left, n) * l.step - l.step),
             left > 0 /\ left <= Share(l, left, n))

----------------------------------------------------------------------------
(* Slicers *)

\* static_for: the slices are tied to the threads of valid, those of the n in the team
\* that can run the WD; Place is the position a thread has among them.  The chunk of
\* a slice and its stride are in units of the loop variable.
Place(valid, j) == Cardinality({i \in valid : i < j})
NthThread(valid, i) == CHOOSE j \in valid : Place(valid, j) = i

\* The lower bounds without a chunk: each slice adds to the bound of the one before.
BlockLower(l, valid) ==
    LET adjust == Rem(Count(l), Cardinality(valid))
        size == Quot(Count(l), Cardinality(valid)) * l.step
        lower[i \in Nat] ==
            IF i = 0 THEN l.lower
            ELSE lower[i - 1] + size + (IF adjust > NthThread(valid, i) - 1 THEN l.step ELSE 0)
    IN  lower

StaticSlice(l, valid, i) ==
    LET m == Cardinality(valid)
        j == IF i = 0 THEN 0 ELSE NthThread(valid, i)
        more == IF Rem(Count(l), m) > j THEN l.step ELSE 0
    IN  IF l.chunk = 0
        THEN [lower |-> BlockLower(l, valid)[i], chunk |-> Quot(Count(l), m) * l.step + more,
              stride |-> Count(l) * l.step]
        ELSE [lower |-> l.lower + j * l.chunk * l.step, chunk |-> l.chunk * l.step,
              stride |-> l.chunk * l.step * m]

\* A slice whose first iteration is past the end is not made, nor any after it.
StaticSlices(l, valid) ==
    LET Past(i) == StaticSlice(l, valid, i).lower * Sign(l.step) > l.upper * Sign(l.step)
    IN  {i \in 0..(Cardinality(valid) - 1) :
            l.chunk = 0 \/ \A h \in 1..i : ~Past(h)}

\* staticLoop: the body is called for a chunk at each stride.
StaticLoop(l, slice) ==
    IF (l.upper > slice.lower /\ l.step <= 0) \/ (l.upper < slice.lower /\ l.step >= 0)
    THEN {}
    ELSE UNION {Iterations(first, Clamp(l, first + slice.chunk - Sign(l.step)), l.step) :
                   first \in Iterations(slice.lower, l.upper, slice.stride)}

\* dynamic_for and guided_for: the upper bound of the next slice of what is left,
\* and whether the sliced WD is itself the last one.
DynamicUpper(l) == l.lower + Chunk(l) * l.step - l.step
GuidedUpper(l, n) == l.lower + Share(l, Count(l), n) * l.step

Empty(l) == (l.step > 0 /\ l.lower > l.upper) \/ (l.step < 0 /\ l.lower < l.upper)
LastSlice(l, upper) == upper >= l.upper \/ Empty(l)
=============================================================================
