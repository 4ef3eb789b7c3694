------------------------------ MODULE ForkJoin ------------------------------
(***************************************************************************)
(* What the runtime promises to a program made of nested tasks: a taskwait *)
(* returns, and a task finishes, only when every child the task has        *)
(* created is finished (WorkGroup::waitCompletion and WorkGroup::done,     *)
(* src/src/core/workgroup.cpp:54-86).  Threads, queues and stacks do not   *)
(* exist at this level.                                                    *)
(***************************************************************************)
CONSTANTS Tasks, Main, Parent

VARIABLE stage

Stages == {"unborn", "running", "joining", "ending", "finished"}

Children(w) == {c \in Tasks : Parent[c] = w}

Joined(w) == \A c \in Children(w) : stage[c] \in {"unborn", "finished"}

Init == stage = [w \in Tasks \cup {Main} |-> IF w = Main THEN "running" ELSE "unborn"]

Move(w, from, to) == stage[w] = from /\ stage' = [stage EXCEPT ![w] = to]

Create(w, c) == stage[w] = "running" /\ Parent[c] = w /\ Move(c, "unborn", "running")

Taskwait(w) == Move(w, "running", "joining")

Join(w) == Joined(w) /\ Move(w, "joining", "running")

End(w) == Move(w, "running", "ending")

Finish(w) == Joined(w) /\ Move(w, "ending", "finished")

Next ==
    \/ \E w \in Tasks \cup {Main} : Taskwait(w) \/ Join(w) \/ End(w) \/ Finish(w)
    \/ \E c \in Tasks : Create(Parent[c], c)

Spec == Init /\ [][Next]_stage
=============================================================================
