------------------------------ MODULE Regions ------------------------------
(***************************************************************************)
(* The regions of memory an access may name (src/src/support: Region,      *)
(* RegionBuilder, RegionPart, RegionCollection): strings of Width bits,    *)
(* highest first, where X stands for both values.  The code keeps them as  *)
(* a value and a mask and moves along a string by shifts.                  *)
(*                                                                         *)
(* The elements accessed have two bytes or more, so that the last bit is   *)
(* always X: to cut a region at it the code shifts a word by all its bits, *)
(* which C++ leaves undefined (regionpart.hpp:116-137).                    *)
(***************************************************************************)
EXTENDS Integers, SequencesExt

CONSTANT Width   \* the bits of a size_t

X == 2
Positions == 1..Width
Everything == [i \in Positions |-> X]

Bit(n, i) == (n \div 2^(Width - i)) % 2

Meet(r, s) == \A i \in DOMAIN r : r[i] = s[i] \/ X \in {r[i], s[i]}
Subsumes(r, s) == \E i \in DOMAIN r : r[i] = X /\ s[i] # X
Encloses(r, s) == Meet(r, s) /\ ~Subsumes(s, r)

-----------------------------------------------------------------------------
(* An access is an address and its dimensions, the first counted in bytes: *)
(* the size of a dimension is the stride of the next.                      *)

Stride(access, d) ==
    FoldLeft(LAMBDA s, dim : s * dim.size, 1, SubSeq(access.dims, 1, d - 1))

\* Bits from which multiples of a stride leave a bit alone: above the lowest one of
\* base - 1 and not in it.
Strided(base, i) ==
    base = 1 \/ (Bit(base - 1, i) = 0 /\ \E j \in i..Width : Bit(base - 1, j) = 1)

\* The bits in which two addresses differ, and all lower ones.
Reached(a, b, i) == \E j \in 1..i : Bit(a, j) # Bit(b, j)

Build(at, base, last) ==
    [i \in Positions |-> IF Strided(base, i) /\ Reached(at, last, i) THEN X ELSE Bit(at, i)]

Union(r, s) == [i \in Positions |-> IF r[i] = s[i] THEN r[i] ELSE X]

\* The region of the dimensions so far, and the address of the last byte in it.
RegionOf(access) ==
    LET Add(so, d) ==
            LET last == so.last + (access.dims[d].length - 1) * Stride(access, d)
                region == Build(access.at, Stride(access, d), last)
            IN  [last |-> last, region |-> IF d = 1 THEN region ELSE Union(so.region, region)]
    IN  FoldLeft(Add, [last |-> access.at, region |-> <<>>],
                 [d \in DOMAIN access.dims |-> d]).region

-----------------------------------------------------------------------------
(* Cutting a region along another.                                         *)

From(s, i) == SubSeq(s, i, Len(s))

\* The bit at which r first takes in more than s, unless they differ before it; 0 if none.
FirstSubsumed(r, s) ==
    LET Stops == {i \in DOMAIN r : s[i] # X /\ r[i] # s[i]}
        first == Min(Stops)
    IN  IF Stops # {} /\ r[first] = X THEN first ELSE 0

\* The parts of r inside and outside s that are asked for.
RECURSIVE Partition(_, _, _, _)
Partition(r, s, inside, outside) ==
    LET Glue(i, b, rest) == Append(SubSeq(r, 1, i - 1), b) \o rest
        Wanted(p) == \/ inside /\ (outside \/ Meet(p, s))
                     \/ outside /\ (~Meet(p, s) \/ Subsumes(p, s))
        Glued(i, cut) == SelectSeq([k \in DOMAIN cut |-> Glue(i, s[i], cut[k])], Wanted)
        CutAt(i) ==
            (IF outside THEN <<Glue(i, 1 - s[i], From(r, i + 1))>> ELSE <<>>)
            \o Glued(i, Partition(From(r, i + 1), From(s, i + 1), TRUE, TRUE))
    IN  IF FirstSubsumed(r, s) # 0 THEN CutAt(FirstSubsumed(r, s))
        ELSE IF IF Meet(r, s) THEN inside ELSE outside THEN <<r>> ELSE <<>>

\* What is left of regions when others are taken out of them, one after another.
Minus(regions, others) ==
    FoldLeft(LAMBDA left, s :
                 FlattenSeq([k \in DOMAIN left |-> Partition(left[k], s, FALSE, TRUE)]),
             regions, others)
=============================================================================
