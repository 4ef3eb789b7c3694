--------------------------- MODULE BarrierPlugins ---------------------------
(***************************************************************************)
(* A team's barrier is a plugin chosen at start-up (--barrier, System::    *)
(* getDefaultBarrier): the centralized, the old centralized or the tree    *)
(* barrier, over the same participants.  plugin never changes; the two     *)
(* that are not chosen stay as they are created.                           *)
(***************************************************************************)
EXTENDS CentralizedBarrierProps

VARIABLES plugin,
          oldPc, oldSem, oldFlag, oldEp, oldReduced, oldAt, oldOn, oldOwner, oldWaiters,
          treePc, treeSems, treePhase, treeEp, treeAt, treeOn, treeOwner, treeWaiters

Old == INSTANCE OldCentralizedBarrier WITH
    pc <- oldPc, sem <- oldSem, flag <- oldFlag, ep <- oldEp, reduced <- oldReduced,
    at <- oldAt, on <- oldOn, owner <- oldOwner, waiters <- oldWaiters

Tree == INSTANCE TreeBarrier WITH
    pc <- treePc, sems <- treeSems, phase <- treePhase, ep <- treeEp,
    at <- treeAt, on <- treeOn, owner <- treeOwner, waiters <- treeWaiters

ASSUME NodesAssumption == Procs = 0..(N - 1)

oldVars ==
    <<oldPc, oldSem, oldFlag, oldEp, oldReduced, oldAt, oldOn, oldOwner, oldWaiters>>
treeLocals == <<treePc, treeSems, treePhase, treeEp>>
treeVars == <<treeLocals, treeAt, treeOn, treeOwner, treeWaiters>>
allVars == <<plugin, vars, oldVars, treeVars>>

PluginInit ==
    /\ plugin \in {"centralized", "old", "tree"}
    /\ Init
    /\ Old!Init
    /\ Tree!Init

PluginAct(p) ==
    \/ plugin = "centralized" /\ Act(p) /\ UNCHANGED <<plugin, oldVars, treeVars>>
    \/ plugin = "old" /\ Old!Act(p) /\ UNCHANGED <<plugin, vars, treeVars>>
    \/ plugin = "tree" /\ Tree!Act(p) /\ UNCHANGED <<plugin, vars, oldVars>>

\* The lock of a condition is a spin lock without a queue.  Only in the tree can its
\* holder be back before a signaller outside gets in, and it spins between two tries.
TreeLock(p) ==
    /\ plugin = "tree"
    /\ Tree!SignalLock(p)
    /\ UNCHANGED <<plugin, vars, oldVars, treeLocals>>

PluginNext == \E p \in Procs : PluginAct(p)

\* Every participant has a thread of its own, which the system schedules.
PluginSpec ==
    /\ PluginInit
    /\ [][PluginNext]_allVars
    /\ \A p \in Procs : WF_allVars(PluginAct(p)) /\ SF_allVars(TreeLock(p))

-----------------------------------------------------------------------------
(* The old barrier and the tree keep the promise of barrier_decl.hpp:51-55, and with the
   old one the reductions, though they run after the release, run once per episode and
   before anyone leaves (old_centralized_barrier.cpp:104). *)
OthersImplement == Old!ImplementsBarrier /\ Tree!ImplementsBarrier /\ []Old!ReducedBetween

AllReturned ==
    CASE plugin = "centralized" -> \A p \in Procs : pc[p] = "out" /\ ep[p] = MaxEpisodes
      [] plugin = "old" -> \A p \in Procs : oldPc[p] = "out" /\ oldEp[p] = MaxEpisodes
      [] plugin = "tree" -> \A p \in Procs : treePc[p] = "out" /\ treeEp[p] = MaxEpisodes

(* Whichever the plugin, everyone gets through every barrier: no wake-up is lost, though
   the next barrier begins before everyone has left (SynchronizedCondition::signal). *)
EveryoneReturns == <>AllReturned
=============================================================================
