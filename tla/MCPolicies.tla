----------------------------- MODULE MCPolicies -----------------------------
(* The policies, programs and machines that Policies is checked with. *)
EXTENDS Policies

PolicyTasks == 3..6

\* The creators of 3, 4, 5 and 6; a task that nobody creates has the creator -1.
Creators(p) == [c \in PolicyTasks |-> p[c - 2]]
Nested == Creators(<<0, 3, 0, -1>>)
Siblings == Creators(<<0, 0, 0, -1>>)
Late == Creators(<<0, 0, 4, 0>>)      \* 0 goes on creating while 4 waits for 5

\* One space, no device, no priorities.
Plain(name, option, parent) ==
    [policy |-> name, option |-> option, parent |-> parent,
     home |-> [c \in PolicyTasks |-> 0], space |-> [t \in 0..2 |-> 0], device |-> {},
     prio |-> [w \in 0..6 |-> 0]]

ThreePriorities == [w \in 0..6 |-> (w + 2) % 3]
\* Thread 2 has a space of its own.
Apart == [t \in 0..2 |-> t \div 2]
Home(tasks) == [c \in PolicyTasks |-> IF c \in tasks THEN 1 ELSE 0]

PolicySetups ==
    {Plain("wf", FALSE, Nested), Plain("wf", TRUE, Late), Plain("dbf", FALSE, Nested),
     [Plain("dbf", TRUE, Siblings) EXCEPT !.prio = ThreePriorities],
     [Plain("socket", FALSE, Nested) EXCEPT !.home = Home({3}), !.space = Apart],
     [Plain("socket", TRUE, Nested) EXCEPT !.prio = ThreePriorities, !.home = Home({3}),
                                           !.space = Apart]}
    \cup {[Plain("affinity", FALSE, Nested) EXCEPT !.home = Home(h), !.device = {2},
                                                  !.space = Apart] : h \in {{5}, {4, 5}}}

\* Work first alone, where the parent of a waiting task is looked for.
StealParent == {Plain("wf", TRUE, Late)}
=============================================================================
