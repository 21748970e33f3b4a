--------------------------- MODULE KubeOneUpgrade ---------------------------
(***************************************************************************)
(* "cluster upgrade" and "cluster sync" of a bare-metal cluster             *)
(* (pkg/core/upgrade_cluster_kubeone.go, sync_cluster_kubeone.go,           *)
(* baremetal_preflight.go): which versions of Kubernetes its hosts go       *)
(* through.  Three places name a version: general.yaml, the KubeOne manifest *)
(* on the default branch, and the kubelets.  A run brings the second and the *)
(* third to the first; it may die between any two steps, and the operator   *)
(* edits general.yaml, repairs hosts and runs either command again.         *)
(*                                                                         *)
(* The budgets of a single node are PdbGuard's subject, the commits behind  *)
(* a push ConfigRepo's.  KubeOne itself is external: control plane first,   *)
(* one host at a time, and it refuses an unhealthy cluster.                 *)
(***************************************************************************)
EXTENDS Naturals, FiniteSets

CONSTANTS
    Host,        \* bare-metal hosts that general.yaml may list
    Master,      \* the control-plane hosts
    Version,     \* Kubernetes versions, as <<minor, patch>>
    First,       \* the version the cluster was bootstrapped with
    V1Minor,     \* MaxCGroupV1CompatibleK8sVersion
    Commands,    \* "upgrade", "sync"
    MayBeCutOff, \* kube-apiserver may be out of the workstation's reach
    MaxEdits,    \* bound: edits of general.yaml
    MaxFaults    \* bound: kills, failures, lost connections

ASSUME HostAssumption == Master \subseteq Host /\ Master # {} /\ IsFiniteSet(Host)
ASSUME VersionAssumption == Version \subseteq Nat \X Nat /\ First \in Version
ASSUME CommandAssumption == Commands \subseteq {"upgrade", "sync"}
ASSUME FlagsAssumption == MayBeCutOff \in BOOLEAN
ASSUME BoundsAssumption == V1Minor \in Nat /\ MaxEdits \in Nat /\ MaxFaults \in Nat

NotJoined == <<0, 0>>
Nobody    == "nobody"
ASSUME NameAssumption == NotJoined \notin Version /\ Nobody \notin Host

VARIABLES
    declared,   \* general.yaml: cluster.k8sVersion
    listed,     \* general.yaml: hosts
    manifest,   \* version in kubeone-cluster.yaml on the default branch
    known,      \* the same, in the clone's default branch
    prs,        \* open pull requests: the version they start from and theirs
    kubelet,    \* version of each host's kubelet, or NotJoined
    down,       \* joined hosts whose kubelet is stopped
    apiDown,    \* control-plane hosts on which no kube-apiserver listens
    broken,     \* hosts on which apt-get check fails
    v2,         \* hosts on cgroup v2
    connected,  \* the workstation reaches kube-apiserver's endpoint
    pc, cmd,
    target, hosts,      \* general.yaml as parsed when the run began
    tree,       \* version in the clone's working tree
    fromLive,   \* the current version was read from the live cluster
    forced,     \* --force-upgrade
    cur,        \* the host KubeOne is working on
    rolled,     \* hosts this apply has finished
    edits, faults

config  == <<declared, listed>>
repo    == <<manifest, known, prs>>
cluster == <<kubelet, down, apiDown, broken, v2>>
parsed  == <<cmd, target, hosts>>
apply   == <<forced, cur, rolled>>
bounds  == <<edits, faults>>
vars == <<config, repo, cluster, connected, pc, parsed, tree, fromLive, apply, bounds>>

PullRequest == [base : Version, version : Version]

TypeOK ==
    /\ declared \in Version /\ listed \subseteq Host
    /\ manifest \in Version /\ known \in Version /\ prs \subseteq PullRequest
    /\ kubelet \in [Host -> Version \cup {NotJoined}]
    /\ down \subseteq Host /\ apiDown \subseteq Master
    /\ broken \subseteq Host /\ v2 \subseteq Host
    /\ connected \in BOOLEAN
    /\ pc \in {"idle", "version", "nodes", "cgroup", "push", "merge", "hosts",
               "apply", "wait", "done"}
    /\ cmd \in {"upgrade", "sync"}
    /\ target \in Version /\ hosts \subseteq Host /\ tree \in Version
    /\ fromLive \in BOOLEAN /\ forced \in BOOLEAN
    /\ cur \in Host \cup {Nobody} /\ rolled \subseteq Host
    /\ cur # Nobody => pc = "apply" /\ cur \in hosts \ rolled
    /\ edits \in 0 .. MaxEdits /\ faults \in 0 .. MaxFaults

Init ==
    /\ declared = First /\ listed \in SUBSET Host /\ Master \subseteq listed
    /\ manifest = First /\ known = First /\ prs = {}
    /\ kubelet = [h \in Host |-> IF h \in listed THEN First ELSE NotJoined]
    /\ down = {} /\ apiDown = {} /\ broken = {}
    /\ v2 \in SUBSET Host
    /\ First[1] > V1Minor => listed \subseteq v2
    /\ connected = TRUE
    /\ pc = "idle" /\ cmd = "upgrade" /\ target = First /\ hosts = listed
    /\ tree = First /\ fromLive = FALSE
    /\ forced = FALSE /\ cur = Nobody /\ rolled = {}
    /\ edits = 0 /\ faults = 0

-----------------------------------------------------------------------------
(* Versions.                                                               *)

Older(a, b) == a[1] < b[1] \/ (a[1] = b[1] /\ a[2] < b[2])
AtLeast(a, b) == ~Older(a, b)
Beyond(v) == v[1] > V1Minor

\* validateK8sVersionHop, which has an error of its own for equal versions.
LegalHop(current, goal) == Older(current, goal) /\ goal[1] <= current[1] + 1

Joined == {h \in Host : kubelet[h] # NotJoined}

\* The kubelet does not start on a cgroup v1 host beyond the boundary.
Stuck == {h \in Joined : Beyond(kubelet[h]) /\ h \notin v2}
Ready == Joined \ (down \cup Stuck)

Reachable == connected /\ \E m \in Master : m \in Joined \ apiDown

\* Mutant: the version of the control plane, which KubeOne upgrades first.
MasterRuns(v) == \E m \in Master : v = kubelet[m]

\* Mutant: the highest version instead of the lowest.
HighestIs(v) ==
    /\ \E h \in Joined : v = kubelet[h]
    /\ \A h \in Joined : AtLeast(v, kubelet[h])

\* getLowestNodeKubeletVersion.
LowestIs(v) ==
    /\ \E h \in Joined : v = kubelet[h]
    /\ \A h \in Joined : AtLeast(kubelet[h], v)

-----------------------------------------------------------------------------
(* The run.                                                                *)
Goto(l) == pc' = l

\* The configuration is parsed once; CloneRepo checks out the clone's default
\* branch and fetches, which moves the branch under the tree.
Start(c) ==
    /\ pc \in {"idle", "done"}
    /\ cmd' = c /\ target' = declared /\ hosts' = listed
    /\ tree' = known /\ known' = manifest
    /\ forced' = FALSE /\ cur' = Nobody /\ rolled' = {}
    /\ Goto("version")
    /\ UNCHANGED <<config, manifest, prs, cluster, connected, fromLive, bounds>>

\* Mutant: sync lets a pending version bump through.
ProceedWithBump(current, live) ==
    CASE current = target -> IF live THEN (IF cmd = "sync" THEN "nodes" ELSE "done") ELSE "cgroup"
      [] LegalHop(current, target) -> IF live THEN "nodes" ELSE "cgroup"
      [] OTHER -> "idle"

\* What follows the version check.  An upgrade that finds the live cluster at
\* its target is over; sync accepts nothing but that version.
Proceed(current, live) ==
    CASE current = target ->
             IF cmd = "sync" THEN (IF live THEN "nodes" ELSE "push")
             ELSE IF live THEN "done" ELSE "cgroup"
      [] LegalHop(current, target) /\ cmd = "upgrade" -> IF live THEN "nodes" ELSE "cgroup"
      [] OTHER -> "idle"

\* getCurrentBareMetalClusterK8sVersion, with the rendered manifest to fall back on.
ReadVersion ==
    /\ pc = "version"
    /\ fromLive' = Reachable
    /\ \E v \in Version : /\ IF Reachable THEN LowestIs(v) ELSE v = tree
                         /\ Goto(Proceed(v, Reachable))
    /\ UNCHANGED <<config, repo, cluster, connected, parsed, tree, apply, bounds>>

\* assertAllNodesReady.
CheckNodes ==
    /\ pc = "nodes"
    /\ Goto(IF ~Reachable \/ Joined # Ready THEN "idle"
            ELSE IF cmd = "upgrade" THEN "cgroup" ELSE "push")
    /\ UNCHANGED <<config, repo, cluster, connected, parsed, tree, fromLive, apply, bounds>>

\* Mutant: only the hosts of the control plane are looked at.
CheckCGroupOfMasters ==
    /\ pc = "cgroup"
    /\ Goto(IF Beyond(target) /\ ~(Master \subseteq v2) THEN "idle" ELSE "push")
    /\ UNCHANGED <<config, repo, cluster, connected, parsed, tree, fromLive, apply, bounds>>

\* verifyCGroupV2OnBareMetalHosts, of every host general.yaml lists.
CheckCGroup ==
    /\ pc = "cgroup"
    /\ Goto(IF Beyond(target) /\ ~(hosts \subseteq v2) THEN "idle" ELSE "push")
    /\ UNCHANGED <<config, repo, cluster, connected, parsed, tree, fromLive, apply, bounds>>

\* confirmClusterSync: nothing pushed, nothing applied.
DeclineSync ==
    /\ pc = "push" /\ cmd = "sync"
    /\ Goto("idle")
    /\ UNCHANGED <<config, repo, cluster, connected, parsed, tree, fromLive, apply, bounds>>

\* pushKubeOneManifestChanges with nothing to commit.
NothingToPush ==
    /\ pc = "push" /\ known = target
    /\ tree' = target
    /\ Goto("hosts")
    /\ UNCHANGED <<config, repo, cluster, connected, parsed, fromLive, apply, bounds>>

\* The render of another version, or of other changes: a pull request.
OpenPR ==
    /\ pc = "push"
    /\ tree' = target
    /\ prs' = prs \cup {[base |-> known, version |-> target]}
    /\ Goto("merge")
    /\ UNCHANGED <<config, manifest, known, cluster, connected, parsed, fromLive, apply, bounds>>

\* --skip-pr-workflow: a push that fast-forwards, or the end of the run.
PushDirectly ==
    /\ pc = "push"
    /\ tree' = target
    /\ IF manifest = known
       THEN manifest' = target /\ known' = target /\ Goto("hosts")
       ELSE Goto("idle") /\ UNCHANGED <<manifest, known>>
    /\ UNCHANGED <<config, prs, cluster, connected, parsed, fromLive, apply, bounds>>

\* WaitUntilPRMerged has found its commit in the fetched default branch.
PRMerged ==
    /\ pc = "merge"
    /\ [base |-> known, version |-> target] \notin prs
    /\ known' = manifest
    /\ Goto("hosts")
    /\ UNCHANGED <<config, manifest, prs, cluster, connected, parsed, tree, fromLive, apply, bounds>>

\* assertControlPlaneHostsNotHalfInitialized, assertBareMetalHostsPackageStateHealthy.
HostsHealthy == apiDown \cap hosts \cap Joined = {} /\ broken \cap hosts = {}

\* The host preflights, and the drift check of sync with its consent.
CheckHosts ==
    /\ pc = "hosts"
    /\ IF HostsHealthy
       THEN /\ Goto("apply")
            /\ forced' \in IF cmd = "sync" THEN BOOLEAN ELSE {FALSE}
       ELSE Goto("idle") /\ UNCHANGED forced
    /\ UNCHANGED <<config, repo, cluster, connected, parsed, tree, fromLive, cur, rolled, bounds>>

-----------------------------------------------------------------------------
(* kubeone apply (external).                                               *)

NeedsWork(h) ==
    /\ h \in hosts \ rolled
    /\ forced \/ kubelet[h] = NotJoined \/ Older(kubelet[h], target)

\* The next host: control plane first; hosts that are up to date are not touched.
Turn(h) == NeedsWork(h) /\ (h \in Master \/ \A m \in Master : ~NeedsWork(m))

Healthy == Joined = Ready /\ apiDown \cap Joined = {}

\* Cordon, drain, stop the kubelet; a host that joins has nothing to drain.
TakeHost(h) ==
    /\ pc = "apply" /\ cur = Nobody /\ Healthy /\ Turn(h)
    /\ cur' = h
    /\ down' = IF h \in Joined THEN down \cup {h} ELSE down
    /\ UNCHANGED <<config, repo, kubelet, apiDown, broken, v2, connected, pc,
                   parsed, tree, fromLive, forced, rolled, bounds>>

\* The new kubelet starts and the host is uncordoned.  One that already runs a
\* newer kubelet keeps it.
FinishHost ==
    /\ pc = "apply" /\ cur # Nobody
    /\ kubelet' = [kubelet EXCEPT ![cur] = IF Older(@, target) THEN target ELSE @]
    /\ down' = down \ {cur} /\ rolled' = rolled \cup {cur} /\ cur' = Nobody
    /\ UNCHANGED <<config, repo, apiDown, broken, v2, connected, pc, parsed,
                   tree, fromLive, forced, bounds>>

\* Mutant: KubeOne gives up with a host in hand.
RefusedInHand ==
    /\ pc = "apply" /\ ~Healthy
    /\ Goto("idle")
    /\ UNCHANGED <<config, repo, cluster, connected, parsed, tree, fromLive, apply, bounds>>

\* What KubeOne may refuse: an unhealthy cluster, a host ahead of the manifest.
Refusal == ~Healthy \/ \E h \in Joined : Older(target, kubelet[h])

ApplyRefused ==
    /\ pc = "apply" /\ cur = Nobody /\ Refusal
    /\ Goto("idle")
    /\ UNCHANGED <<config, repo, cluster, connected, parsed, tree, fromLive, apply, bounds>>

ApplyDone ==
    /\ pc = "apply" /\ cur = Nobody /\ Healthy
    /\ \A h \in Host : ~NeedsWork(h)
    /\ Goto("wait")
    /\ UNCHANGED <<config, repo, cluster, connected, parsed, tree, fromLive, apply, bounds>>

-----------------------------------------------------------------------------
(* The end of the run.                                                     *)

AllAt(v) == Joined = Ready /\ \A h \in Joined : AtLeast(kubelet[h], v)

\* waitForNodesAtKubeletVersion.
Confirmed ==
    /\ pc = "wait" /\ Reachable /\ AllAt(target)
    /\ Goto("done")
    /\ UNCHANGED <<config, repo, cluster, connected, parsed, tree, fromLive, apply, bounds>>

\* Ten minutes without it.
WaitTimeout ==
    /\ pc = "wait" /\ ~(Reachable /\ AllAt(target))
    /\ Goto("idle")
    /\ UNCHANGED <<config, repo, cluster, connected, parsed, tree, fromLive, apply, bounds>>

\* Ctrl+C, or a call that fails.  The host in hand stays down, with either
\* kubelet, perhaps with half-configured packages or without its API server.
Crash ==
    /\ pc \notin {"idle", "done"} /\ faults < MaxFaults
    /\ faults' = faults + 1
    /\ Goto("idle")
    /\ IF cur = Nobody
       THEN UNCHANGED <<kubelet, apiDown, broken>>
       ELSE /\ \/ UNCHANGED kubelet
               \/ cur \in Joined /\ Older(kubelet[cur], target)
                  /\ kubelet' = [kubelet EXCEPT ![cur] = target]
            /\ apiDown' \in {apiDown, apiDown \cup ({cur} \cap Master)}
            /\ broken' \in {broken, broken \cup {cur}}
    /\ cur' = Nobody
    /\ UNCHANGED <<config, repo, down, v2, connected, parsed, tree, fromLive,
                   forced, rolled, edits>>

-----------------------------------------------------------------------------
(* The operator, the forge and the network (external).                     *)
run == <<pc, parsed, tree, fromLive, apply>>

\* Pull requests alike are one.  One that a killed run left behind merges while
\* its line of the manifest is as it found it; the run's own, the operator
\* brings up to date.
Merge(p) ==
    /\ p \in prs
    /\ \/ p.version = p.base /\ UNCHANGED manifest
       \/ /\ p.version # p.base
          /\ manifest \in {p.base, p.version} \/ (pc = "merge" /\ p.version = target)
          /\ manifest' = p.version
    /\ prs' = prs \ {p}
    /\ UNCHANGED <<config, known, cluster, connected, run, bounds>>

Edit == edits < MaxEdits /\ edits' = edits + 1

Declare(v) ==
    /\ v # declared /\ Edit
    /\ declared' = v
    /\ UNCHANGED <<listed, repo, cluster, connected, run, faults>>

ListHost(h) ==
    /\ h \notin listed /\ Edit
    /\ listed' = listed \cup {h}
    /\ UNCHANGED <<declared, repo, cluster, connected, run, faults>>

\* The operator sees to a host that no run is working on.
Repair(h) ==
    /\ h \in down \cup apiDown \cup broken /\ h # cur
    /\ down' = down \ {h} /\ apiDown' = apiDown \ {h} /\ broken' = broken \ {h}
    /\ UNCHANGED <<config, repo, kubelet, v2, connected, run, bounds>>

\* systemd.unified_cgroup_hierarchy=1, and a reboot.
SwitchToV2(h) ==
    /\ h \notin v2
    /\ v2' = v2 \cup {h}
    /\ UNCHANGED <<config, repo, kubelet, down, apiDown, broken, connected, run, bounds>>

LoseConnection ==
    /\ MayBeCutOff /\ connected /\ faults < MaxFaults
    /\ connected' = FALSE /\ faults' = faults + 1
    /\ UNCHANGED <<config, repo, cluster, run, edits>>

Connect ==
    /\ ~connected
    /\ connected' = TRUE
    /\ UNCHANGED <<config, repo, cluster, run, bounds>>

-----------------------------------------------------------------------------
Upgrade == "upgrade" \in Commands /\ Start("upgrade")
Sync == "sync" \in Commands /\ Start("sync")

KubeOne == (\E h \in Host : TakeHost(h)) \/ FinishHost \/ ApplyRefused \/ ApplyDone

Step ==
    \/ ReadVersion \/ CheckNodes \/ CheckCGroup \/ DeclineSync
    \/ NothingToPush \/ OpenPR \/ PushDirectly \/ PRMerged
    \/ CheckHosts \/ KubeOne \/ Confirmed \/ WaitTimeout

Environment ==
    \/ \E p \in prs : Merge(p)
    \/ \E v \in Version : Declare(v)
    \/ \E h \in Host : ListHost(h) \/ Repair(h) \/ SwitchToV2(h)
    \/ LoseConnection \/ Connect

Next == Upgrade \/ Sync \/ Step \/ Crash \/ Environment

Spec == Init /\ [][Next]_vars

\* A run goes on by itself; the operator answers what it waits for, repairs what
\* the preflights name, and runs the upgrade again.
FairSpec ==
    /\ Spec
    /\ WF_vars(Step) /\ SF_vars(Upgrade)
    /\ \A p \in PullRequest : WF_vars(pc = "merge" /\ Merge(p))
    /\ \A h \in Host : WF_vars(Repair(h)) /\ WF_vars(SwitchToV2(h))
    /\ WF_vars(Connect)

-----------------------------------------------------------------------------
(* Properties.                                                             *)

Moved(h) == kubelet[h] # NotJoined /\ kubelet'[h] # kubelet[h]

\* A run that has read the live cluster takes a kubelet forward by a patch or by
\* one minor version, also over a cluster that killed runs and changed targets
\* have left with several versions (validateK8sVersionHop against the lowest).
UpgradesByHops ==
    [][\A h \in Host : Moved(h) /\ fromLive => LegalHop(kubelet[h], kubelet'[h])]_vars

\* No kubelet is more than one minor version ahead of another.
OneMinorApart == \A g, h \in Joined : kubelet[g][1] <= kubelet[h][1] + 1

\* A run that has read the live cluster never spreads its kubelets over more than two
\* neighbouring minor versions: not by the hosts it upgrades before it is killed, not by
\* those that join at the target, and not over what a killed run before it has left
\* (the hop is checked against the lowest kubelet, getLowestNodeKubeletVersion).
SkewKept == [][fromLive /\ OneMinorApart => OneMinorApart']_vars

\* "cluster sync" leaves every version alone when it has read the live cluster:
\* version changes are the upgrade's (sync_cluster_kubeone.go:32).
LiveSyncKeepsVersions ==
    [][\A h \in Host : Moved(h) /\ cmd = "sync" => ~fromLive]_vars

\* The same of every sync, reachable cluster or not.
SyncKeepsVersions == [][\A h \in Host : Moved(h) => cmd = "upgrade"]_vars

\* An upgrade never takes a host beyond the boundary that could not start its
\* kubelet afterwards, whatever the operator edits while the run waits for its
\* merge (verifyCGroupV2OnBareMetalHosts, against the configuration it parsed).
NoHostBricked ==
    [][\A h \in Host : Beyond(kubelet'[h]) /\ kubelet'[h] # kubelet[h] /\ cmd = "upgrade"
                       => h \in v2]_vars

\* The run refuses downgrades (docs/upgrade-bare-metal.md:36): it does not come to
\* kubeone apply with a manifest behind one of the kubelets.
NeverAppliesBehind ==
    pc = "apply" /\ cmd = "upgrade" /\ fromLive => \A h \in Joined : AtLeast(target, kubelet[h])

\* No worker's kubelet is newer than the control plane of any of its masters, which
\* Kubernetes does not support: not in a roll that was killed half way, not after the
\* target was changed or the manifest's version was taken for the cluster's, and not in
\* a worker that joins.
WorkersFollow == \A m \in Master, h \in Joined \ Master : AtLeast(kubelet[m], kubelet[h])

\* Some hop still leads to what general.yaml declares.
Attainable ==
    /\ \E v \in Version : LowestIs(v) /\ (v = declared \/ LegalHop(v, declared))
    /\ \A h \in Joined : AtLeast(declared, kubelet[h])

\* Rerun to resume (upgrade_cluster_kubeone.go:589): however runs are killed, a
\* declared version that is one hop away is reached by every host.
Settles == []<>(Attainable => AllAt(declared))
=============================================================================
