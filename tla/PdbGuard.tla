------------------------------ MODULE PdbGuard ------------------------------
(***************************************************************************)
(* The upgrade of a single-node bare-metal cluster and its                 *)
(* PodDisruptionBudgets: UpgradeClusterUsingKubeOne, with                  *)
(* neutralizeSingleNodePDBs, the keepPDBsDeleted goroutine and restorePDBs. *)
(* Three actors share the budgets: the upgrade, the goroutine that deletes  *)
(* them again every ten seconds, and ArgoCD, which puts back its own.       *)
(* The upgrade may be killed, and every failed assertion kills it.  A       *)
(* DELETE whose sender is cancelled or killed is still with the API server, *)
(* which carries it out later or not at all.                               *)
(***************************************************************************)
EXTENDS Naturals, FiniteSets

CONSTANTS
    Pdb,          \* the PodDisruptionBudgets that select running pods
    Argo,         \* those that carry an ArgoCD tracking label or annotation
    NodeCounts,   \* numbers of nodes the cluster may have
    MayBeCutOff,  \* the API server may be unreachable at the preflight
    MaxCrash      \* bound: how often the upgrade is killed

ASSUME ArgoAssumption == Argo \subseteq Pdb
ASSUME NodesAssumption == NodeCounts \subseteq Nat \ {0}
ASSUME FlagsAssumption == MayBeCutOff \in BOOLEAN
ASSUME BoundsAssumption == MaxCrash \in Nat

VARIABLES
    nodes,      \* number of nodes
    live,       \* budgets that exist in the cluster
    evicted,    \* budgets whose pods the drain has evicted
    upgraded,   \* the node runs the target kubelet and is Ready
    pc,
    removed,    \* removedPDB list of the run
    todo,       \* budgets the run has listed and still has to delete or restore
    guard,      \* the goroutine: "off", "on" or "cancelled"
    sweep,      \* budgets left in the goroutine's current tick
    inflight,   \* the goroutine's outstanding DELETE, a set of at most one
    late,       \* budgets of DELETEs that are under way and have no sender any more
    crashes

vars == <<nodes, live, evicted, upgraded, pc, removed, todo, guard, sweep,
          inflight, late, crashes>>
routine == <<guard, sweep, inflight>>
cluster == <<nodes, live, evicted, upgraded>>

PCs == {"idle", "neutralize", "ask", "deleting", "apply", "wait", "restore", "done"}

TypeOK ==
    /\ nodes \in NodeCounts
    /\ live \subseteq Pdb /\ evicted \subseteq Pdb
    /\ upgraded \in BOOLEAN
    /\ pc \in PCs
    /\ removed \subseteq Pdb /\ todo \subseteq Pdb
    /\ guard \in {"off", "on", "cancelled"}
    /\ sweep \subseteq Pdb
    /\ inflight \subseteq Pdb /\ Cardinality(inflight) <= 1
    /\ late \subseteq Pdb
    /\ crashes \in 0 .. MaxCrash

Init ==
    /\ nodes \in NodeCounts
    /\ live = Pdb /\ evicted = {} /\ upgraded = FALSE
    /\ pc = "idle" /\ removed = {} /\ todo = {}
    /\ guard = "off" /\ sweep = {} /\ inflight = {}
    /\ late = {} /\ crashes = 0

-----------------------------------------------------------------------------
(* The upgrade.                                                            *)

\* Pre-flight up to the host checks; a live cluster at the target version has
\* nothing to upgrade and the command returns.
Start ==
    /\ pc = "idle"
    /\ pc' = IF upgraded THEN "done" ELSE "neutralize"
    /\ UNCHANGED <<cluster, removed, todo, routine, late, crashes>>

\* neutralizeSingleNodePDBs returns without touching anything: several nodes,
\* no blocking budget, or a cluster it cannot reach.
NothingToNeutralize ==
    /\ pc = "neutralize"
    /\ nodes # 1 \/ live = {} \/ MayBeCutOff
    /\ pc' = "apply"
    /\ UNCHANGED <<cluster, removed, todo, routine, late, crashes>>

\* The budgets that would wedge the drain are listed, and shown to the operator.
ListBlocking ==
    /\ pc = "neutralize" /\ nodes = 1 /\ live # {}
    /\ todo' = live
    /\ pc' = "ask"
    /\ UNCHANGED <<cluster, removed, routine, late, crashes>>

\* The operator declines, or there is no terminal to ask on.
Decline ==
    /\ pc = "ask"
    /\ pc' = "idle" /\ todo' = {}
    /\ UNCHANGED <<cluster, removed, routine, late, crashes>>

\* What was listed is deleted: not what ArgoCD put back while the prompt was open.
Approve ==
    /\ pc = "ask"
    /\ pc' = "deleting"
    /\ UNCHANGED <<cluster, removed, todo, routine, late, crashes>>

\* One budget deleted (NotFound is as good) and recorded for the restore.
DeletePdb(p) ==
    /\ pc = "deleting" /\ p \in todo
    /\ live' = live \ {p}
    /\ removed' = removed \cup {p}
    /\ todo' = todo \ {p}
    /\ UNCHANGED <<nodes, evicted, upgraded, pc, routine, late, crashes>>

\* All deleted: the goroutine starts, then kubeone apply.
BeginApply ==
    /\ pc = "deleting" /\ todo = {}
    /\ guard' = "on"
    /\ pc' = "apply"
    /\ UNCHANGED <<cluster, removed, todo, sweep, inflight, late, crashes>>

\* KubeOne's drain evicts the pods of one budget: never against a budget on the
\* only node, while several nodes leave room for the replacement.
Evict(p) ==
    /\ pc = "apply" /\ p \notin evicted
    /\ nodes # 1 \/ p \notin live
    /\ evicted' = evicted \cup {p}
    /\ UNCHANGED <<nodes, live, upgraded, pc, removed, todo, routine, late, crashes>>

\* Mutant: the goroutine is left running.
ApplyDoneUnstopped ==
    /\ pc = "apply" /\ evicted = Pdb
    /\ upgraded' = TRUE
    /\ pc' = "wait"
    /\ UNCHANGED <<nodes, live, evicted, removed, todo, routine, late, crashes>>

\* kubeone apply is over; stopPDBGuard cancels the goroutine's context, and
\* nothing waits for the goroutine.
ApplyDone ==
    /\ pc = "apply" /\ evicted = Pdb
    /\ upgraded' = TRUE
    /\ guard' = IF guard = "on" THEN "cancelled" ELSE guard
    /\ sweep' = {} /\ inflight' = {} /\ late' = late \cup inflight
    /\ pc' = "wait"
    /\ UNCHANGED <<nodes, live, evicted, removed, todo, crashes>>

\* Mutant: the ownership test the wrong way round.
ToRestoreArgo == removed \cap Argo

\* restorePDBs skips what ArgoCD manages.
ToRestore == removed \ Argo

\* waitForNodesAtKubeletVersion: every node Ready at the target version.
WaitDone ==
    /\ pc = "wait"
    /\ todo' = ToRestore
    /\ pc' = "restore"
    /\ UNCHANGED <<cluster, removed, routine, late, crashes>>

\* Create; AlreadyExists is as good.
RestorePdb(p) ==
    /\ pc = "restore" /\ p \in todo
    /\ live' = live \cup {p}
    /\ todo' = todo \ {p}
    /\ UNCHANGED <<nodes, evicted, upgraded, pc, removed, routine, late, crashes>>

RestoreDone ==
    /\ pc = "restore" /\ todo = {}
    /\ pc' = "done"
    /\ UNCHANGED <<cluster, removed, todo, routine, late, crashes>>

Return ==
    /\ pc = "done"
    /\ pc' = "idle" /\ removed' = {} /\ guard' = "off"
    /\ UNCHANGED <<cluster, todo, sweep, inflight, late, crashes>>

\* kubeone apply fails, a wait runs into its ten minutes, Ctrl+C: the process
\* is gone and the goroutine with it.  The DELETE one of them had sent is not.
Crash ==
    /\ pc \notin {"idle", "done"} /\ crashes < MaxCrash
    /\ crashes' = crashes + 1
    /\ pc' = "idle" /\ removed' = {} /\ todo' = {}
    /\ guard' = "off" /\ sweep' = {} /\ inflight' = {}
    /\ \/ late' = late \cup inflight
       \/ pc = "deleting" /\ \E p \in todo : late' = late \cup {p}
    /\ UNCHANGED cluster

-----------------------------------------------------------------------------
(* keepPDBsDeleted.                                                        *)

\* Mutant: the goroutine re-deletes only what this run will restore.
TickRestorable ==
    /\ guard = "on" /\ sweep = {} /\ inflight = {}
    /\ sweep' = removed \ Argo
    /\ UNCHANGED <<cluster, pc, removed, todo, guard, inflight, late, crashes>>

Tick ==
    /\ guard = "on" /\ sweep = {} /\ inflight = {}
    /\ sweep' = removed
    /\ UNCHANGED <<cluster, pc, removed, todo, guard, inflight, late, crashes>>

SendDelete(p) ==
    /\ guard = "on" /\ p \in sweep /\ inflight = {}
    /\ inflight' = {p}
    /\ sweep' = sweep \ {p}
    /\ UNCHANGED <<cluster, pc, removed, todo, guard, late, crashes>>

\* The API server carries it out, by name, whoever owns the budget now.
DeleteLands ==
    /\ inflight # {}
    /\ live' = live \ inflight
    /\ inflight' = {}
    /\ UNCHANGED <<nodes, evicted, upgraded, pc, removed, todo, guard, sweep, late, crashes>>

\* ... or fails it: errors are ignored, and the sweep goes on.
DeleteLost ==
    /\ inflight # {}
    /\ inflight' = {}
    /\ UNCHANGED <<cluster, pc, removed, todo, guard, sweep, late, crashes>>

-----------------------------------------------------------------------------
(* A DELETE without a sender.                                              *)

LateLands(p) ==
    /\ p \in late
    /\ live' = live \ {p}
    /\ late' = late \ {p}
    /\ UNCHANGED <<nodes, evicted, upgraded, pc, removed, todo, routine, crashes>>

LateDropped(p) ==
    /\ p \in late
    /\ late' = late \ {p}
    /\ UNCHANGED <<cluster, pc, removed, todo, routine, crashes>>

-----------------------------------------------------------------------------
(* ArgoCD self-heal.                                                       *)

SelfHeal(p) ==
    /\ p \in Argo \ live
    /\ live' = live \cup {p}
    /\ UNCHANGED <<nodes, evicted, upgraded, pc, removed, todo, routine, late, crashes>>

-----------------------------------------------------------------------------
Upgrade ==
    \/ NothingToNeutralize \/ ListBlocking \/ Approve
    \/ \E p \in Pdb : DeletePdb(p) \/ RestorePdb(p)
    \/ BeginApply \/ ApplyDone \/ WaitDone \/ RestoreDone \/ Return

Guard == Tick \/ (\E p \in Pdb : SendDelete(p)) \/ DeleteLands

Next ==
    \/ Start \/ Upgrade \/ Guard \/ Decline \/ Crash \/ DeleteLost
    \/ \E p \in Pdb : Evict(p) \/ SelfHeal(p) \/ LateLands(p) \/ LateDropped(p)

Spec == Init /\ [][Next]_vars

\* A live process goes on, the operator re-runs it, ArgoCD reconciles, and
\* the eviction loop, which retries without a pause, gets its turn between a
\* re-delete and the next self-heal; of DELETEs sent for ever some succeed.
FairSpec ==
    /\ Spec
    /\ WF_vars(Start) /\ WF_vars(Upgrade) /\ WF_vars(Guard)
    /\ \A p \in Pdb : SF_vars(inflight = {p} /\ DeleteLands)
    /\ \A p \in Pdb : SF_vars(Evict(p)) /\ WF_vars(SelfHeal(p))

-----------------------------------------------------------------------------
(* What must hold.                                                         *)

\* An upgrade that comes to its end has put back the budgets it took down and
\* ArgoCD does not manage ("the rest get restored by this run",
\* pdb_guard.go:111), but for DELETEs that nobody waits for: the one under way
\* when stopPDBGuard is called, and one for each run that was killed.
RestoredWhenDone ==
    pc = "done" => Cardinality((removed \ Argo) \ live) <= 1 + crashes

\* A budget goes down only between the operator's approval and the end of
\* kubeone apply, and never after: not by the goroutine of a run that is over,
\* nor by a re-delete that overtakes the restore ("stopPDBGuard" comes first).
\* The exception is a DELETE that was under way when its sender was stopped.
DownOnlyWhileDraining ==
    [][live \ live' # {} => pc \in {"deleting", "apply"} \/ live \ live' \subseteq late]_vars

\* On a single node the drain gets past every budget the run has taken down,
\* although ArgoCD keeps putting its own back and every DELETE may fail.
DrainEnds ==
    \A p \in Pdb : (pc = "apply" /\ guard = "on" /\ p \in removed)
                      ~> (p \in evicted \/ pc # "apply")

\* Stricter forms of the three, as the code's own words have them; each fails.
\* "the rest get restored by this run", pdb_guard.go:111.
AllRestored == pc = "done" => removed \ Argo \subseteq live

\* "... only wedges the (0s-retrying) eviction loop briefly", pdb_guard.go:121-122.
DrainWedgesBriefly == (pc = "apply" /\ guard = "on") ~> (pc # "apply")

\* "Idempotent - rerun to resume after a failure", upgrade_cluster_kubeone.go:45:
\* once re-runs come to their end, what an interrupted run took down is back.
RerunsRestore ==
    []<>(pc = "done") => \A p \in Pdb \ Argo : []<>(p \in live)
=============================================================================
