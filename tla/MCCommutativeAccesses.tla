------------------------ MODULE MCCommutativeAccesses ------------------------
(***************************************************************************)
(* Main creates A on x, B on y and x, and C on y after A.  A creates D.    *)
(***************************************************************************)
EXTENDS CommutativeAccessesProps

CONSTANTS A, B, C, D, x, y

MCParent   == [w \in Tasks |-> IF w = D THEN A ELSE Main]
MCAfter    == [w \in Tasks |-> IF w = C THEN {A} ELSE {}]
MCAccesses == [w \in WDs |-> CASE w = A -> <<x>> [] w = B -> <<y, x>>
                               [] w = C -> <<y>> [] OTHER -> <<>>]
=============================================================================
