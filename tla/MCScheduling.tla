---------------------------- MODULE MCScheduling ----------------------------
(***************************************************************************)
(* How WDs get to threads: under the policies with several queues, and     *)
(* under the breadth-first one when the tasks, 3 to 5, have commutative    *)
(* accesses.  program never changes; the part that it leaves out stays as  *)
(* it begins.                                                              *)
(***************************************************************************)
EXTENDS MCPolicies

VARIABLES program,
          stage, owner, ready, lock, nexts, on, cPc, try, cTied, held, released

CONSTANTS Main,     \* the main WD
          Sharers,  \* the tasks that it and they create
          Brothers, Family   \* two programs: Parent, After and Accesses of CommutativeAccesses

Siblings5 == INSTANCE CommutativeAccessesProofs WITH
    Master <- 0, Tasks <- Sharers, None <- -1, pc <- cPc, tied <- cTied,
    Parent <- Brothers.parent, After <- Brothers.after, Accesses <- Brothers.accesses

Nested5 == INSTANCE CommutativeAccessesProofs WITH
    Master <- 0, Tasks <- Sharers, None <- -1, pc <- cPc, tied <- cTied,
    Parent <- Family.parent, After <- Family.after, Accesses <- Family.accesses

\* No WD of either lists an address twice, and the WDs of the threads are no tasks.
ASSUME ProgramAssumption == Siblings5!Program /\ Nested5!Program

\* 3 accesses x, 4 accesses y and x, and 5 accesses y.
Commutative == [w \in {0, 1, 2, 3, 4, 5, 7} |->
                  CASE w = 3 -> <<"x">> [] w = 4 -> <<"y", "x">> [] w = 5 -> <<"y">>
                    [] OTHER -> <<>>]

\* Main, 7, creates 3, 4, and 5 after 3.
MCBrothers == [parent |-> [w \in 3..5 |-> 7],
               after |-> [w \in 3..5 |-> IF w = 5 THEN {3} ELSE {}], accesses |-> Commutative]

\* Main creates 3 and 4, and 3 creates 5.
MCFamily == [parent |-> [w \in 3..5 |-> IF w = 5 THEN 3 ELSE 7],
             after |-> [w \in 3..5 |-> {}], accesses |-> Commutative]

accessVars == <<stage, owner, ready, lock, nexts, on, cPc, try, cTied, held, released>>
allVars == <<program, policiesVars, accessVars>>

SchedulingInit ==
    /\ program \in {"policies", "siblings", "nested"}
    /\ PoliciesInit /\ (program # "policies" => setup = Plain("wf", FALSE, Nested))
    /\ IF program = "nested" THEN Nested5!Init ELSE Siblings5!Init

PolicyStep(act) == program = "policies" /\ act /\ UNCHANGED <<program, accessVars>>
AccessStep(p, act) == program = p /\ act /\ UNCHANGED <<program, policiesVars>>

SchedulingNext ==
    \/ PolicyStep(PoliciesNext)
    \/ AccessStep("siblings", Siblings5!Next)
    \/ AccessStep("nested", Nested5!Next)

\* The fairness of Policies and of CommutativeAccesses.
SchedulingSpec ==
    /\ SchedulingInit
    /\ [][SchedulingNext]_allVars
    /\ \A t \in Threads :
          /\ WF_allVars(\/ PolicyStep(ThreadStep(t))
                        \/ AccessStep("siblings", Siblings5!Step(t))
                        \/ AccessStep("nested", Nested5!Step(t)))
          /\ SF_allVars(\/ PolicyStep(SignalStep(t))
                        \/ AccessStep("siblings", Siblings5!Locking(t))
                        \/ AccessStep("nested", Nested5!Locking(t)))

(* See CommutativeAccessesProps: one task at a time for an address. *)
Exclusive ==
    /\ program = "siblings" => Siblings5!Exclusive
    /\ program = "nested" => Nested5!Exclusive

(* See CommutativeAccessesProps: a task owns all of its addresses, or none. *)
AllOrNothing ==
    /\ program = "siblings" => Siblings5!AllOrNothing
    /\ program = "nested" => Nested5!AllOrNothing

(* Under each policy the program ends: every task is found by a thread that may run it (the
   atIdle of each policy, atWakeUp for the WDs that are tied).  Every task gets its
   commutative addresses, unless one is left with a task that is gone. *)
SchedulingEnds ==
    <>[](/\ program = "policies" => ProgramOver
         /\ program = "siblings" => stage[Main] = "left" \/ ~Siblings5!NoneGone
         /\ program = "nested" => stage[Main] = "left" \/ ~Nested5!NoneGone)
=============================================================================
