-------------------------- MODULE MCTaskScheduler --------------------------
(* Programs of a few nested tasks for TLC. *)
EXTENDS TaskSchedulerProps

CONSTANTS a, b, a1, b1, b2

\* The main WD creates a and b, a creates a1, b creates b1 and b2.
NestedParent == [w \in Tasks |-> IF w = a1 THEN a ELSE IF w \in {b1, b2} THEN b ELSE Main]

\* A chain: the main WD creates a, a creates a1, a1 creates b1.
ChainParent == [w \in Tasks |-> IF w = a1 THEN a ELSE IF w = b1 THEN a1 ELSE Main]
=============================================================================
