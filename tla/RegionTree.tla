----------------------------- MODULE RegionTree -----------------------------
(***************************************************************************)
(* RegionTree (src/src/support/regiontree.hpp, regiontreenode.hpp): a trie *)
(* from regions to data.  A node has the segment of the string that all    *)
(* regions below it share; an inner node has kids by the bit that follows, *)
(* a leaf has data.  A tree with nothing in it is a root without kids.     *)
(*                                                                         *)
(* REGION_TREE_BOUNDING is not defined; no bound is given to the parts.    *)
(***************************************************************************)
EXTENDS Regions

Nothing == [seg |-> <<>>, kids |-> <<>>]
Leaf(seg, data) == [seg |-> seg, data |-> data]
IsLeaf(node) == "data" \in DOMAIN node

\* The bit behind the segment of an inner node, and what comes after it.
Branch(node, r) == r[Len(node.seg) + 1]
Beyond(node, r) == From(r, Len(node.seg) + 2)

\* Mutant of Found: a region with a bit in a place where the tree branches on X is missed.
RECURSIVE FoundExactly(_, _)
FoundExactly(node, s) ==
    LET Follow(b) ==
            IF b \in DOMAIN node.kids /\ Branch(node, s) \in {b, X}
            THEN LET below == FoundExactly(node.kids[b], Beyond(node, s))
                 IN  [k \in DOMAIN below |-> Append(node.seg, b) \o below[k]]
            ELSE <<>>
    IN  IF ~Meet(node.seg, s) THEN <<>>
        ELSE IF IsLeaf(node) THEN <<node.seg>>
        ELSE Follow(X) \o Follow(1) \o Follow(0)

\* The regions of the tree that meet s, in the order they are popped from the stack.
RECURSIVE Found(_, _)
Found(node, s) ==
    LET Follow(b) ==
            IF b \in DOMAIN node.kids /\ (b = X \/ Branch(node, s) \in {b, X})
            THEN LET below == Found(node.kids[b], Beyond(node, s))
                 IN  [k \in DOMAIN below |-> Append(node.seg, b) \o below[k]]
            ELSE <<>>
    IN  IF ~Meet(node.seg, s) THEN <<>>
        ELSE IF IsLeaf(node) THEN <<node.seg>>
        ELSE Follow(X) \o Follow(1) \o Follow(0)

\* The data of a region that is in the tree.
RECURSIVE At(_, _)
At(node, r) ==
    IF IsLeaf(node) THEN node.data ELSE At(node.kids[Branch(node, r)], Beyond(node, r))

\* The tree with data for a region, which need not have been in it.
RECURSIVE With(_, _, _)
With(node, r, data) ==
    LET p == Cardinality({i \in DOMAIN node.seg : SubSeq(node.seg, 1, i) = SubSeq(r, 1, i)})
        b == Branch(node, r)
        kid == IF b \in DOMAIN node.kids THEN With(node.kids[b], Beyond(node, r), data)
               ELSE Leaf(Beyond(node, r), data)
    IN  CASE node = Nothing -> Leaf(r, data)
          [] node # Nothing /\ p < Len(node.seg) ->
               [seg |-> SubSeq(r, 1, p),
                kids |-> node.seg[p + 1] :> [node EXCEPT !.seg = From(@, p + 2)]
                         @@ r[p + 1] :> Leaf(From(r, p + 2), data)]
          [] p = Len(node.seg) /\ IsLeaf(node) -> [node EXCEPT !.data = data]
          [] OTHER -> [node EXCEPT !.kids = b :> kid @@ @]

\* The tree without a region, nor the nodes that led to it alone.
RECURSIVE Without(_, _)
Without(node, r) ==
    LET b == Branch(node, r)
        kid == Without(node.kids[b], Beyond(node, r))
        others == Restrict(node.kids, DOMAIN node.kids \ {b})
    IN  CASE IsLeaf(node) -> Nothing
          [] ~IsLeaf(node) /\ kid # Nothing -> [node EXCEPT !.kids[b] = kid]
          [] ~IsLeaf(node) /\ kid = Nothing /\ DOMAIN others = {} -> Nothing
          [] OTHER -> [node EXCEPT !.kids = others]

WithoutAll(tree, regions) == FoldLeft(Without, tree, regions)

-----------------------------------------------------------------------------
(* findAndPopulate: the regions that meet s are cut along it, s is in the  *)
(* tree or covered by parts of it, and the parts inside s are given back.  *)

WithAll(tree, regions, data) == FoldLeft(LAMBDA t, r : With(t, r, data), tree, regions)

\* One region of the tree cut: each part gets a copy of its data.
PutParts(so, r, parts, s, data) ==
    [so EXCEPT !.tree = WithAll(Without(@, r), parts, data),
               !.inside = @ \o SelectSeq(parts, LAMBDA p : Meet(p, s))]

CutAlong(s, so, r, Copy(_)) ==
    IF Subsumes(r, s)
    THEN PutParts(so, r, SelectSeq(Partition(r, s, TRUE, TRUE), LAMBDA p : ~so.whole \/ p # s),
                  s, Copy(At(so.tree, r)))
    ELSE [so EXCEPT !.inside = Append(@, r)]

AddMissing(so, missing, fresh) ==
    [tree |-> WithAll(so.tree, missing, fresh), regions |-> so.inside \o missing]

Complete(so, s, fresh) ==
    IF so.whole THEN [tree |-> so.tree, regions |-> Append(so.inside, s)]
    ELSE AddMissing(so, Minus(<<s>>, so.inside), fresh)

Populate(tree, s, Copy(_), fresh) ==
    Complete(FoldLeft(LAMBDA so, r : CutAlong(s, so, r, Copy),
                      [tree |-> tree, whole |-> Contains(Found(tree, s), s), inside |-> <<>>],
                      Remove(Found(tree, s), s)),
             s, fresh)
=============================================================================
