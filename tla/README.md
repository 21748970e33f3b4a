# kubeaid-cli in TLA+

This directory specifies `kubeaid-cli`, the program that bootstraps, upgrades
and deletes KubeAid-managed Kubernetes clusters. Every definition is translated from the Go
source of this repository; `PROJECT.json` maps each one to the lines it stands
for. TLC checks the specifications on small instances, TLAPS proves the
central properties for all values of the constants.

## 1. The system

`kubeaid-cli` is a one-shot command. Nearly every error goes to
`assert.AssertErrNil`, which ends the process, so *a failed call and a killed
process are the same event*, and the design relies on running the command again.
No progress file is written (the configuration prompt is the exception): each run
finds out where an earlier one got to by looking at the outside world. That
world has several stores which outlive the process and disagree with each other
after a crash:

| store | who writes it | who reads it |
|---|---|---|
| the local clone of kubeaid-config (under the temp directory) | the CLI | the next run of the CLI |
| the forge: default branch, feature branches, pull requests | the CLI, the operator, other people | ArgoCD, the CLI |
| the k3d management cluster | the CLI, Cluster API, the Sealed Secrets controller | the CLI |
| the main cluster | KubeOne or Cluster API, ArgoCD, the CLI | the CLI |
| the cloud (Hetzner, AWS, Azure) | the CLI, Cluster API | all |

So the hard behaviours are crash and re-run over half-done work, values read
earlier and stale when used, people and controllers acting in between, and
waits without a timeout. Goroutines are few: the budget guard of an upgrade is
the one that shares state with the main flow.

### Inventory

Paths are relative to `src/pkg`.

| component | state | operations | what makes it right | module |
|---|---|---|---|---|
| kubeaid-config repository (`utils/git`, `core/setup_kubeaid_config.go`) | clone: branches, HEAD, index, files; forge: default branch, pull requests | clone, fetch, hard reset, branch, render, commit, push with retry, wait for the merge | a successful run has published what it rendered; only its own files; other people's changes stay; the wait ends | `ConfigRepo`, `ConfigPublication` |
| Sealed Secrets (`utils/kubernetes/sealed_secrets*.go`, `helm.go`) | keys per cluster, Helm release, seal cache in the clone, files on the default branch | install, copy keys, parity check, health check, seal, sync | what is on the default branch can be decrypted where it is synced; re-runs converge | `SealedKeys` |
| Cluster API life cycle (`core/bootstrap_cluster.go`, `delete_cluster.go`, `utils/kubernetes/clusterapi.go`) | the Cluster and its machines in either cluster, paused flags, kubeconfigs | provision, pivot, IsClusterctlMoveExecuted, move back, delete | one owner at a time; a finished bootstrap leaves a managed cluster; deletion ends | `Pivot`, `ClusterOwner` |
| end of a Hetzner bootstrap (`core/lockdown.go`, `core/netbird`, `cloud/hetzner/loadbalancer.go`) | NetBird key, host firewall policy, load balancer, lockdown pull request | token gate, apply, pull request, close the load balancer | no lock before a key; the own path is cut last; a locked cluster stays locked | `Lockdown` |
| budgets of a single-node upgrade (`core/pdb_guard.go`, `upgrade_cluster_kubeone.go`) | PodDisruptionBudgets, the list of removed ones, a goroutine | neutralise, keep deleted, restore | the drain ends; afterwards every budget is back | `PdbGuard` |
| ArgoCD apps (`utils/kubernetes/argo.go`) | Applications, sync operations, repo-server cache, two API clients | sync with retries, ordered apps with gates, the root app's children | budgets per error class; a gate before its dependants; a failed sync is reported; re-runs get through | `ArgoSync` |
| KubeOne upgrade and sync (`core/upgrade_cluster_kubeone.go`, `sync_cluster_kubeone.go`, `baremetal_preflight.go`) | general.yaml, manifest on the default branch, kubelets, host preflights | hop validation, manifest push, `kubeone apply`, the final wait | never skips a minor version; no skew beyond one minor, no worker ahead of a master; a sync changes none; bricks no host; resumes after a kill | `KubeOneUpgrade` |
| Cluster API upgrade (`core/upgrade_cluster.go`, `cloud/*/cluster_upgrade.go`) | values on the default branch, KubeadmControlPlane, MachineDeployments, MachineTemplates | edit and publish the values, delete and recreate templates, sync, request the roll-out | a finished upgrade leaves every group rolling to its version and image; control plane first; re-runs get through | `CapiUpgrade` |
| Hetzner infrastructure (`cloud/hetzner`) | SSH keys, hosts in and out of rescue, network, NAT gateway, load balancer, floating IP, vSwitch and its members, failover IP | ensure each, in order; take the protection off before a deletion | every ensure step recognises and finishes what an earlier, killed run made; no live node is reset | `HetznerInfra` |
| storage planner (`storageplanner`, `cmd/kubeaid-storagectl`, `cloud/hetzner/storageplan.go`) | sizes in general.yaml and in memory, the approved plans, the values file, each node's own plan, its partitions and pool | scan, approve, persist, render; plan and carve on the node | the node's plan is the approved one; the OS is spared; a pool is imported, never remade | `StoragePlan`, `ApprovedStorage` |
| prompt, resume and parser (`config/prompt`, `config/parser`) | PromptedConfig, the steps answered, general.yaml, secrets.yaml and the state file per directory, generated secrets | ask, go back, abort and save, resume, confirm, write; parse and fill the secrets | what a confirmed session writes validates; no answer and no secret is lost; files go to the right directory | `PromptSession` |
| Keycloak and NetBird bootstrap (`keycloak`, `core/keycloak_bootstrap.go`, `core/netbird/postgres.go`) | a realm, its clients, scopes and users in Keycloak | find or create each over one HTTP API | repeatable; generated secrets agree with the cluster's | not modelled |
| disaster recovery, backup status, Obmondo connection, AWS/Azure infrastructure, command line | see `PROJECT.json` | | | not modelled (section 7) |

## 2. Plan

The order is that of the damage a mistake does.

1. `ConfigRepo` — everything else publishes through it. Abstract specification
   `ConfigPublication`: what ArgoCD and other users see. *Done, proved.*
2. `SealedKeys` — losing the key loses every secret. *Done, proved.*
3. `Pivot` with `ClusterOwner` as its abstract specification. *Done, proved.*
4. `PdbGuard` — the only shared-memory concurrency. *Done, proved.*
5. `Lockdown` — *done, proved.*
6. `ArgoSync` — retry budgets, ordered apps and gates. *Done, proved.*
7. `KubeOneUpgrade` — hop validation, manifest and hosts. *Done, proved.*
8. `CapiUpgrade` — templates, sync and roll-out, group by group. *Done, proved.* Still to do: which
   cluster is upgraded is a constant flag there (`moved`), without the half-moved copies of `Pivot`.
9. `HetznerInfra` — two APIs that finish later than they answer. *Done, proved.*
10. `StoragePlan` — the two plans nobody compares. Abstract specification `ApprovedStorage`: what the operator was promised. *Done, proved.*
11. `PromptSession` — the session and the parser that share a configs directory. *Done, proved.*
12. Still to come, in this order: the reconciliation of Keycloak and NetBird; the Obmondo
    fetch as a second writer in `PromptSession`; clones pinned to a ref in `ConfigRepo`;
    the half-moved copies of `Pivot` in `CapiUpgrade`.
13. Proofs: every safety invariant and action property that a run checks is a theorem (section 5).

One passing run of each module fires every action. Where a sentence of the repository, or
what an operator would expect, fails, a configuration shows it (section 6). Bounds: one process at a
time, two or three kills or faults, as few data values as the properties
tell apart.

## 3. Modules

### ConfigRepo, ConfigPublication

A branch is a tree (a version for each file) and the set of commits reachable
from it. `remote` (the forge), `main` and `feature` (the clone's branches), `head` and the
working tree `work` are apart, because the forced refspec of `CloneRepo` moves the local
branch under a tree that stays. One action per step: `Clone`, `CheckoutDefault` and the fetch, the feature
branch, rendering one file at a time (a run may die between two), the
clean-tree shortcut, commit, push with its transient errors (applied or not),
the prompt, the fetch-and-search after it, and the second `SetupKubeAidConfig`
of a process, which does not clone again. An empty forge is a remote without commits
(`Unborn`): `InitCommit` and `InitPush` are `initRepo`, whose push fails when somebody else
was first. A kill while cloning (`CloneCut`) or before that push leaves a clone that does not open
(`Opens`); `DeleteClone` is a reboot. Three callers (setup, KubeOne, Cluster API) differ in
what they do with the zero hash. Others commit foreign files and merge pull
requests, by merge commit or squash.

### SealedKeys

Keys are numbers; each cluster has a set of them, a controller that is up or
not, and a Helm release that is absent, pending, failed or deployed. Sealing records the
key and the plaintext's version; the cache compares what `sealed_secrets.go`
compares. The run goes through the management phase and the main phase as
`SetupCluster` does; `DeleteK3D` and `RotateKey` are the environment's.

### Pivot, ClusterOwner

`objs` says which Cluster API resources each cluster holds. `clusterctl move` is a
sequence of steps (pause, create, delete, unpause) that may fail between any two;
`IsClusterctlMoveExecuted` is one question asked of the main cluster, with
the two answers the code gives when it cannot be reached or has only half of it. A delete that
finds no Cluster to delete ends there (`delete_cluster.go:119`), without waiting for the machines. `front` is the
load balancer and the NAT gateway of a Hetzner cluster: a deletion that has not taken their protection off
(`DisableDeletionProtection`) hangs in Cluster API.

### PdbGuard

The main flow (snapshot, delete, start the goroutine, `kubeone apply`, cancel, restore), the
goroutine's ticks, the drain's evictions and ArgoCD's self-heal interleave
freely. A DELETE does not end with its sender: one that is under way when the goroutine is cancelled or the
process killed is in `late`, and the API server carries it out at any time or not at all. The budgets are listed
(`ListBlocking`) before the operator is asked, so one that ArgoCD puts back in between is never swept, and its
drain waits for ever, as the code says it would. That is why deadlock is not checked.

### Lockdown

The tail of `BootstrapCluster`: token gate, apply, lockdown pull request, load
balancer, with re-runs that open the load balancer and render the policy off. Only
the pull-request workflow of the render is modelled. The `Reachable` it
computes is the one `Pivot` takes as `lbPublic`.

### ArgoSync

`SyncAllArgoCDApps` of the main cluster: the root App, the Apps synced by name,
the list, the ordered steps with their `AfterSync` gates, and the rest of that list. The
three loops share one `todo`; `cur` is the App in `syncArgoCDApp`, with its budgets for
transport and for repository errors. A look (`Get` with a hard refresh) that fails
reconnects without end, a sync has budgets, the wait for root's children a
timeout. `server` is up, starting (a pod that does not serve yet) or gone; a reconnect that finds no pod to forward to
ends the process (`NewClientOrDie`). `conn` holds the two clients apart: the manager's and the package's
global one, because a reconnect of the wait renews the global client only. ArgoCD's
operations, its comparison of the root App, its server's restarts (the
`argocd` App restarts it), the repository's outages, drift and other people's
commits are the environment. Velero passes without being in sync while it has
no resources, as `isArgoCDAppSynced` has it. `Steps` lists an App at most once, because
`bootstrap_cluster.go:148` puts it into its ordered list at most once.

### KubeOneUpgrade

`cluster upgrade` and `cluster sync` are one machine with two commands, as in the code.
Three places name a version: general.yaml (parsed once), the manifest on the default
branch and the kubelets. The working tree of the clone is what the last run left
(`CloneRepo` moves the branch under it); it is the version's fallback when kube-apiserver
cannot be reached. `kubeone apply` is external: hosts one by one, control
plane first, every host in a forced roll, refusal of an unhealthy cluster. A kill with a host in hand leaves it
down, perhaps with half-configured packages or without its API server: what
the host preflights look for. The operator edits general.yaml, merges stale pull
requests, repairs hosts and switches them to cgroup v2 at any time.

### CapiUpgrade

Three stores hold a version or an image: general.yaml (parsed once), the values file on the
default branch, and the Cluster API resources. A run publishes the values, chooses the
cluster, and then, for the control plane and for each node-group in the order of
general.yaml, deletes the immutable MachineTemplate, creates it with general.yaml's image, has ArgoCD
sync the owner (which applies what the branch says *at that time*) and requests a roll-out. It
awaits no roll-out, so `Roll` is a step of Cluster API that may come at any time after. A
kill between the deletion and the creation leaves the group without a template, which no
re-run repairs: `RestoreTemplate` is somebody's sync in ArgoCD. A clean tree commits nothing and
the run then waits for the merge of the zero hash, which is why `GiveUp` is there. Only
Hetzner gets past the edit of the values file.

### HetznerInfra

`pc` walks the stages in the order of `prerequisite_infrastructure.go`; `mode` says which of
them a configuration has (`Needed`). Each resource is a record of the flags later steps ask for:
made, protected, attached, public, listening. A request is applied when the environment says
so (`LBSettles`, `MemberAttached`, `SwitchLands`), so a run may die with one under way and the next
one meets it. `proc` is what the process remembers and loses: the name the SSH key goes
by, which hosts it has armed, reset or skipped, which live ones it missed, which members it still has to post. `Init`
includes what older releases and other people left: a load balancer without label or wiring, a
cancelled vSwitch, our key under an old name, a foreign key under ours, another vSwitch on the network. Bare-metal hosts are
booted to rescue one by one with the waits interleaved, and a host that is up may miss the one probe of three seconds
that decides whether it is reset; CAPH installs them later. The
failover IP is looked up, switched, and looked at again when Robot answers late or by a conflict.

### StoragePlan, ApprovedStorage

`Allocate` is the planner: sort by score and device name, take the first two with room, for the OS
and then for ZFS, and leave the rest to Ceph. It is applied twice: by kubeaid-cli in rescue, for
every host, and by `kubeaid-storagectl` on the node, from the sizes in the values file. The two plans are
never compared by the code; `AsApproved` compares them. `file` and `mem` are apart because
general.yaml is parsed once and the approved size written afterwards, so that the values of an edited file may ask a
node for another size than the operator saw. A boot of a host in `Renames` gives its devices other names. `Carve` is the script, one disk at a
time, `Pool` its import-or-create. `ApprovedStorage` has no planner at all: one yes, hosts that serve what it was given for
(`Serving`: the plan of a node that is up), and pools that are made once; scans, renderings, the node's own plan and
every interrupted script are stutters. It is implemented as seen through the hosts whose plan no boot can change (`Steady`:
the names stay, or no two disks tie) and through pools of the approved size. Boxes have finitely many disks. Assumed: `wipeDisks` is off; the installation leaves other
disks and ZFS labels alone; one member is enough to import a pool; kinds, sizes and NIC speed look the same in
rescue and on the node.

### PromptSession

`c` is PromptedConfig, `done` the prompt state; `General`, `Secrets` and `Loaded` are the templates
and the reading back, with every field a later step, a resume or the parser can tell apart.
A form is one action (the Hetzner form is two, since the mode decides what is asked next);
`Skip` is a step taken for done, `Completed` derives the steps of a config without a state
file. `Confirm`, `AbortAndSave` and the three `Write…` actions are apart, and `Kill` comes between
two of the files, so general.yaml may be new with secrets.yaml old; a kill before the first leaves what
`Leave` does. `Parse` is any other command: it mints and uses the generated secrets that
are missing (`FillMissingSecrets`), also when it then refuses the config. `Accepts` is the conditions
of `validate.go`. `told` and `toldAt` are history: what the operator last
answered; `dropped` are the directories whose config a session replaced by defaults, one aborted after "Load existing?" came up and
before it had loaded anything or asked anything (`origin` = "unasked"). Assumed: an SSH agent is reachable, file writes are whole, EKS and AKS are not
chosen. There is no fairness: all is up to the operator.

## 4. Runs

`MC<module>` gives each module its instance. Passing runs:

| run | instance | states | shows |
|---|---|---|---|
| `ConfigRepo_run` | 2 own files, 1 foreign, all callers, both modes, 3 commits, 2 render versions, 2 push attempts, a forge that may be empty | 769,912 | success means published; with pull requests a cluster's files change together; a merged request ends the prompt |
| `SealedKeys_run` | 2 secrets, both topologies, k3d recreated or not, 3 keys, 2 faults | 934,560 | one canonical key; what is synced can be decrypted; runs get through |
| `PdbGuard_run` | 1 ArgoCD budget, 3 others, 1 or 3 nodes, 1 kill | 28,953 | budgets down only while draining; the drain gets past what the run took down; at most one budget is lost, and one for each killed run |
| `Pivot_run` | all commands, with and without VPN, with and without the move, 3 faults | 12,804 | implements `ClusterOwner`; managed when done; path open; deletion ends |
| `Lockdown_run` | all 8 kinds of cluster, 3 faults | 7,220 | key before lock; path closed last |
| `ArgoSync_run` | 5 Apps: one by name, two gated steps, ArgoCD's own and Velero in the rest; budgets of 1, 1 fault | 301,268 | gates first; done means synced; re-runs get through |
| `KubeOneUpgrade_run` | 1 master, 1 worker, 4 versions over 3 minors, 2 edits, 2 faults | 386,807 | one hop at a time; at most two neighbouring minors; a sync changes no version; no host bricked; settles |
| `CapiUpgrade_run` | AWS and Hetzner, moved or not, 1 node-group, 2 versions, 2 images, 1 edit, 2 faults | 242,769 | done means rolling to what was asked; control plane first; Hetzner upgrades settle |
| `HetznerInfra_run` | hybrid VPN cluster, HCloud joining a VPN, bare metal behind a failover IP, a single node; 2 hosts, 2 VPN servers, 2 faults | 238,993 | wired when done; re-runs keep the nodes that answer and get through |
| `StoragePlan_run` | 2 hosts of a group, the second with boots that rename, 3 boxes on the planner's boundaries, 2 NICs, 2 orders of names, 2 files, 2 faults | 698,624 | the OS is spared; nodes carve what was approved; pools are kept; implements `ApprovedStorage` |
| `PromptSession_run` | 2 clusters, 2 servers, 4 kinds of cluster, 2 sessions, 1 round | 2,162,496 | a confirmed config validates; no server twice; answers kept; the right directory |

Violated run, checking a sentence of the repository (section 6): `PromptSession_secrets`.

Section 6 lists further configurations, each of which also ends in a counterexample. They
mark the edge of what the passing runs say.

Some properties carry their own limits, and say so in the formula; a stricter form that fails stands beside each (section 6).
`RestoredWhenDone` allows one lost budget for the goroutine that nobody waits for and one for each killed run (`AllRestored`,
`RerunsRestore`); `DownOnlyWhileDraining` excepts DELETEs without a sender; `DrainEnds` is about the budgets on the list
(`DrainWedgesBriefly`). `ManagedWhenDone` is about histories without a fault (`Managed`), and `DeletionEnds` excepts a Cluster that a
killed or failed move left paused (`Deleted`). `OneCanonicalKey` and `Converges` are about histories without a rotated key or a recreated
management cluster (`eventful`; `GetsThrough` of `SealedKeys` is the other case), and `Converges` leaves a pending release to the operator; those of `KubeOneUpgrade` are about runs that
have read the live version (`KubeOneUpgrade_cutoff`). `ControlPlaneFirst` is about a branch that stays as the run
published it (`NodeGroupsFollow`), and `Settles` of `CapiUpgrade` about Hetzner (`CapiUpgrade_aws`). `PublishedTogether` is about
runs with the pull-request workflow (`ConfigRepo_direct_revert`), `PromptEnds` about the callers that return without a prompt when the tree is clean
(`CapiPromptEnds`). `LiveNodesKept` excepts a node that missed the probe (`LiveNodesNeverReset`, `NodesStayUp`).
`OSKept`, `AsApproved`, `PoolKept` and `ImplementsHandover` are about steady hosts, where no tie between disks is left to device names a boot may change
(`OSKeptOnAnyBox`), and the last three about pools of the approved size (`UpAsApproved`). `AnswersKept` excepts a config replaced by defaults
(`AnswersNeverDropped`); `WrittenParses` is for Hetzner, bare metal and local (`PromptSession_cloud`).

Why the bounds are enough: two rendered files show a half-rendered tree, a third
adds nothing the properties tell apart; two render versions make a stale
and a fresh one; three commits fit a run's own, a dead run's and somebody
else's; two faults make a re-run of a re-run, and three let each of the three
commands of `Pivot` be killed once. In `PdbGuard` three budgets of the operator's are one more
than the run and a killed one may lose, so that the bound of `RestoredWhenDone` is reached and could be passed. In `ArgoSync` a budget of one is spent and exceeded, and one fault
already meets every state of the run. In `KubeOneUpgrade` three minors show a
skipped one, two patches a hop within a minor, a master and a worker a half
finished roll; the boundary of cgroup v1 lies between the minors. In `CapiUpgrade` the
control plane and one node-group make an order, and two faults a foreign commit and a kill, or two kills.
In `HetznerInfra` the four configurations need every stage between them, two hosts let one be reset while the other serves,
and two VPN servers let a run die between them. In `StoragePlan` the sizes are the boundaries themselves: one box
has disks with exactly room for OS and pool and is all ties, one a disk a unit too small, one leaves Ceph exactly its minimum or a unit
less and has no tie; one host keeps its names and one does not, and one file has only the top-level size edited, so
that all restrictions of the properties are met and missed. In `PromptSession` two sessions are one that leaves something behind and one that finds it, two clusters allow a
renaming, two servers a server in both roles; hosts and clusters are symmetric.

Fairness. `FairSpec` of each module says that a live run goes on (weak fairness
of the run's own steps: a sequential program that does not block), that the
operator starts it again and answers prompts where the property is
about that, and that controllers reconcile. Kills are never fair; faults are bounded by `MaxFaults`
or `MaxCrash`, so a property under fairness speaks of runs that are killed
finitely often. What goes beyond that:

* `PdbGuard`: strong fairness of `Evict` — KubeOne retries evictions without a pause
  while the goroutine sweeps and ArgoCD heals every few seconds, so the eviction
  gets in between infinitely often — and of the landing of a DELETE on its way.
* `ArgoSync`: `FairSpec` has outages of argocd-server and of the repository end;
  `OutageSpec` lets argocd-server stay away for good, with a pod or without.
* `Pivot`: a run's own steps, and Cluster API's provisioning and deletion of machines; nobody has to run a command.
* `KubeOneUpgrade`: the operator starts an upgrade again and again (strong, because a
  sync may be started in between), merges the request a run waits for, repairs what is
  broken, switches hosts to cgroup v2, and restores the connection.
* `CapiUpgrade`: strong fairness of `Roll`, because Cluster API's controllers retry while a
  template comes and goes, and of starting an upgrade with `--skip-pr-workflow`, because
  some runs end at the zero hash; the operator merges what a run waits for, restores lost
  templates and reconnects.
* `HetznerInfra`: the command goes on and is started again; each outside party is fair by
  itself (each host that boots or installs, each vSwitch member, the gateway, the load balancer, the
  failover switch, the operator's DNS record). Deadlock is not checked, since a deleted cluster is the end.
* `StoragePlan` and `PromptSession` have safety properties only and assume no fairness; in
  `StoragePlan` all nodes may be up with no fault left.

## 5. Proofs

Every safety invariant and every action property that a passing run checks is a theorem, for all
values of the constants. Most of them are not inductive as they stand; the paragraphs below
name the invariant that is, and why it is needed. A module
holds the proofs of one or two components: `Lockdown`, `PdbGuard` and `CapiUpgrade` are there by INSTANCE,
in `Pivot_proofs`, `KubeOneUpgrade_proofs` and `HetznerInfra_proofs`.

`ConfigRepo_proofs`:

* `TypeCorrect`: `Spec => []TypeOK`, one step per action.
* `PublishedWhenDone`: `Spec => []DoneMeansPublished`. The property is not inductive:
  the strengthening says where each program counter can stand relative to the
  forge: a commit known as merged is in the default branch's history and its tree has
  the files as rendered, and the clean-tree shortcut is only taken on a
  branch cut from a fetched default branch.
* `AlwaysPublishedTogether` for `PublishedTogether`, in any mix of runs that open pull requests and runs that push
  directly: whatever moves the default branch while a pull request run is up is a `ConfigPublication` step or a stutter. `RenderInv`
  says where in the clone whole renders are to be found: a pull request run commits one in full or nothing, also
  when a direct run killed between two files left the tree it starts with. The first commit of an empty forge changes no file, and is pushed only
  where nobody was first.
* `PullRequestsImplementPublication` and `ForeignStays`, with the pull-request workflow only: then the whole specification implements
  `ConfigPublication`, and no foreign file goes back. `ConfigRepo_direct_revert` is why direct pushes are left out.

`SealedKeys_proofs`, for any Secrets, keys, edits and faults:

* `TypeCorrect`, with `KeyInv`: a controller that is ready has a key.
* `AlwaysDecryptable` for `DecryptableAtSync`, by `SealInv`: from the sealing of the first Secret to the sync, what has been
  sealed in this phase is sealed with a key that the phase's cluster has. No hypothesis is needed: rotated keys are
  added and never taken away, and the cache is only trusted for a certificate the cluster presents.
* `KeyStaysCanonical` for `OneCanonicalKey`, by `SeedInv`: while the management cluster keeps its key, what
  the main cluster and the copy in hand hold are keys of the management cluster's, and before the main cluster's
  controller can start there is one, wherever between listing, copying and installing a run was killed.

`Pivot_proofs`, from `OneOwner` on without `devenv create` on a VPN cluster (`Pivot_locked` is why):
`TypeCorrect`; `OneOwner` for `SingleOwner`; `PivotImplementsOwner`, the refinement;
`PathStaysOpen` for `PublicThroughout`. `PivotInv` carries them: of two copies of a
Cluster both are paused, a copy that controllers act on is the only one; `BootstrapInv`
adds what each program counter of bootstrap knows of the load balancer and the machines.
`ManagedUntilKilled` for `ManagedWhenDone`, by `SettledInv`: as long as there was no fault, there is between two
commands at most one copy, whole and unpaused; a move goes through the states `clusterctl` means it to; and a
bootstrap that has found the cluster keeps it.

Of `Lockdown`: `LockdownTypeCorrect`; `KeyAlwaysFirst` for `KeyBeforeLock`, by `KeyInv`: the key
exists once the run is past its gate, while a lockdown pull request exists, while the
policy is on the default branch and while it is live, which covers the three ways
a cluster is closed (this run, a merged pull request, ArgoCD); `PathClosedLast` for the action
property `ClosedLast`, whose only exception is ArgoCD's enforcement.

`ArgoSync_proofs`, for any Apps, order of steps, retries and faults: `TypeCorrect`; `GatesAlwaysFirst` for
`GatesFirst`; `SyncedWhenDone` for `DoneMeansSynced`. Both compare a run with the branch as it was when
the run began. `RootInv` carries that to the list of Apps: the children the run waits for are read off a comparison of
the root App that the run has itself asked for (a cached one would miss them). `StepsInv` and `GateInv` say that
`todo` is a tail of `Steps` with every gate behind it passed; `SeenInv`, that an App of the list has been found in
sync, is in hand or is still to come.

`KubeOneUpgrade_proofs`: `TypeCorrect`; `HopByHop` for `UpgradesByHops`;
`SkewStaysSmall` for `SkewKept`; `SyncLeavesVersions`; `UpgradeBricksNone`; `WorkersAlwaysFollow` for the invariant `WorkersFollow`. `UpgradeInv` says that past the version check of
a live cluster no kubelet is more than one hop behind the target (`OneHopAhead`), that in a sync none is behind it at
all (`NothingBehind`), and that past the cgroup check an upgrade beyond the boundary has all
hosts it lists on v2 (`HostsReady`). A kill in the middle of a roll keeps it, because the version check
takes the lowest kubelet and KubeOne moves none but towards the target. `SkewStaysSmall` needs besides that a host
behind the target ends up level with the others or one minor above them, and that one which joins comes at the target
(`NotBehindAll`). `WorkersAlwaysFollow` needs no live version: `RollInv` says that KubeOne has a worker in hand, or behind it, only when it has
left no master of its list behind the target, and that its list has all masters on it; so whatever a killed roll, an
edited target or the manifest's version for the cluster's does, it does to the masters first.

Of `PdbGuard`: `BudgetsTypeCorrect`; `DownOnlyInTheDrain` for `DownOnlyWhileDraining`;
`Restored` for `RestoredWhenDone`. `GuardInv` says that the goroutine is on, and a DELETE of its own
on its way, only during the apply. `GoneInv` counts: each kill leaves one DELETE without a sender, so does the one apply that
succeeds, and what an upgrade has taken down and not put back, or may still lose (`Gone`), is never more.

`HetznerInfra_proofs`, for any hosts, servers and configurations: `TypeCorrect`; `WiredAlways` for `WiredWhenDone`;
`LiveNodesStay` for `LiveNodesKept` (`HetznerInfra_noanswer` shows why it excepts a missed probe).
`WiringInv` says for every stage the run has left behind that what the stage was for is there, and stays there;
`StageInv`, what the steps inside a stage have reached, which matters because a stage skips the steps an earlier run has
done; `FailoverInv`, that the failover IP is only ever switched to the init master, so that a late answer of Robot cannot
lead it elsewhere. `LiveInv` says that the run arms and resets a host that was a node when it began only after missing it.

Of `CapiUpgrade`, with its assumptions as the hypothesis `UpgradeConstants`: `UpgradeTypeCorrect`; `RollingWhenDone` for `DoneMeansRolling`; `ControlPlaneGoesFirst` for
`ControlPlaneFirst`. `UpgradeInv` says that the groups behind `at` have been handled (the template has
the image, the version is one the branch has had since the run published, the machines are as
requested or about to be), that the branch's version is among those it has had (`BranchKnown`),
and what each program counter knows of the current group. Both properties need it: the first at
the end of the loop, the second because a node-group is synced only with the control plane handled.

`StoragePlan_proofs`, for any hosts, boxes, boots and contents of general.yaml, without further hypotheses: `OSKeptAlways` for `OSKept`, `AsApprovedAlways`
for `AsApproved`, `PoolKeptAlways` for `PoolKept`, and `NodesServeTheApproved`, the refinement of `ApprovedStorage`. `SettledPlan` is
the lemma that makes two planners one: where no two disks compete for a place, the first two of a sort are the same
under every order of the names, so both sides compute one function of hardware and size (and of the hardware alone for the OS,
which is allocated first and from the full disks). `PlanInv` then holds each plan together with the others of its
size. `ValuesInv`: the rendered hints are those of the plan, and the first host of a group, compared with the others, speaks for all.
`SizeInv`: what has been approved is what general.yaml asks of the cluster, so every later scan asks for the same plan
again, and the values have another size only until a second run renders them. `NodeInv`: the plan being carved
spares the disks the OS is on, and a pool of that other size loses a member only to a script that was told the new one.

`PromptSession_proofs`, for any hosts, clusters and directories: `TypeCorrect`; `ServersOnceAlways` for
`ServersOnce`; `DirNamesClusterAlways` for `DirNamesCluster`. `IInv` has three parts. `SessionInv`: the
config in memory is `Sound` (typed, no server in both roles). `DiskInv`: so is every general.yaml, and
a directory without one has no file at all. `JoinInv`: where the session loads a file or writes the second of
them, general.yaml exists. Soundness is carried through rendering, loading and each form by a lemma of its own;
the worker form keeps it because it rejects servers of the control plane, and the other way round on the way back.
`AnswersKeptAlways` for `AnswersKept` assumes that no workload cluster is turned into a VPN cluster on the way
(`WorkloadStays`), which puts it on the mesh it declined. `CarriesInv`: the config in memory carries what the operator has
answered, in every phase of the session, and every general.yaml carries what was answered for it, or for one that was
`dropped` nothing. `UnaskedInv`: a session that has found a config and not yet asked anything has been told nothing, so that the exception
covers defaults only. `WrittenParsesAlways`
for `WrittenParses` assumes `PlainAnswers` (no AWS or Azure, VPN clusters in HCloud, nobody hesitating between hcloud and hybrid)
and `TypesStay`; the configurations of section 6 show that it fails without any of the three. `ProgressInv` says what a session has
answered at each step and in each phase of a form, also after going back or resuming; `WrittenInv`, what the files
hold while it writes them, so that a resume takes no step for done that is not.

Assumptions: the named ASSUMEs of each module, which type the constants, and the
restrictions named above. No restriction is there for the proof's sake: without any one of them TLC finds the property
violated (`PublicThroughout` and `ManagedWhenDone` with `devenv create` on a VPN cluster and a deletion; `WrittenParses` with a workload
cluster turned into a VPN cluster; the others by the configurations of section 6). Where a proof needs the least or first element of a set (a key, a stage, a host), it takes it by
the well-foundedness of the order on the naturals; no induction over data is used.

Only model-checked: the properties under fairness, `PromptEnds`, `Converges`, `DrainEnds`,
`DeletionEnds`, `GetsThrough` and `Settles`. They are out of the prover's reach, since it does not handle ENABLED.

## 6. Findings

Listed, with the quoted line in `PROJECT.json`: `PromptSession_secrets`. Loading and confirming the config of a
running cluster rewrites secrets.yaml without the generated secrets, and the next command generates others.

### Configurations kept as files

Run one with `tlc -config <name>.cfg MC<module>`.

| configuration | property | what its counterexample shows |
|---|---|---|
| `ConfigRepo_direct_revert` | `ForeignNeverReverted` | with `--skip-pr-workflow` a re-run commits the last run's tree over a newer branch |
| `PdbGuard_crash` | `RerunsRestore` | the re-run of a killed upgrade does not restore what that one removed |
| `PdbGuard_linger` | `AllRestored` | the guard is cancelled, not awaited: a late DELETE removes a restored budget, while `pdb_guard.go:111` says the rest get restored by this run |
| `Pivot_locked` | `SingleOwner` | an unreachable cluster counts as not moved; every closed cluster is unreachable |
| `Pivot_paused` | `Deleted` | a paused Cluster is updated unchanged, and its deletion waits for ever |
| `Lockdown_rerun` | `LockdownFailureContinues` | the second lockdown trips over its own branch |
| `KubeOneUpgrade_cutoff` | `SyncKeepsVersions` | a sync that cannot reach the cluster takes the manifest's version, which a killed upgrade has already set, and upgrades the hosts |
| `CapiUpgrade_aws` | `UpgradesGetThrough` | on AWS and Azure the values file is edited with flags yq does not have, so no upgrade gets through |
| `HetznerInfra_console` | `WiredWhenDone` | a gateway recreated by hand: the default route still leads to the old one, and `server.go:246` takes it for set |
| `HetznerInfra_noanswer` | `LiveNodesNeverReset` | a live node that misses the one SSH probe of three seconds is reset by a re-run, while `os_install.go:31` says hosts already reachable are skipped |
| `StoragePlan_sizes` | `UpAsApproved` | the operator edits only the top-level `zfs.size`: it is approved and written to all three places (`storageplan.go:115`), and the same run renders the size parsed before |
| `StoragePlan_renamed` | `OSKeptOnAnyBox` | device names that change between rescue and node move the tie between equal disks, and the script carves a disk of the OS |
| `PromptSession_cloud` | `WrittenParses` | a resumed AWS or Azure session takes the machines' AMI or size for answered and writes none |

### Further configurations

Start from `<module>_run.cfg`, change the constants and check the one property.

| module | changes | property | what it shows |
|---|---|---|---|
| `ConfigRepo` | | INVARIANT `CloneUsable` | a run killed while it clones, or in `initRepo` before its push, leaves a clone that no later run opens, unlike `clone.go:44` |
| `ConfigRepo` | `Own = {"values"}`, `Callers = {"capi"}`, `Modes = {"pr"}` | PROPERTY `CapiPromptEnds` | a clean tree makes the Cluster API upgrade wait for the merge of the zero hash |
| `ConfigRepo` | `Callers = {"setup"}`, `Modes = {"pr"}`, `MergeKinds = {"squash"}` | PROPERTY `MergedIsConfirmed` | a squash merge is never recognised |
| `SealedKeys` | `Secret = {"root"}`, `Topologies = {TRUE}`, `Lives = {TRUE}`, `MaxKey = 2`, `MaxPlain = 0`, `MaxFaults = 0` | PROPERTY `GetsThrough` | after a recreated management cluster the parity check fails for ever |
| `Pivot` | `VpnKinds = {FALSE}`, `Commands <- Killed`, `SkipMoves = {FALSE}`, `MaxFaults = 1` | INVARIANT `Managed` | half a move counts as a move |
| `PdbGuard` | `MayBeCutOff = FALSE` | PROPERTY `DrainWedgesBriefly` | a killed upgrade has taken down a budget of ArgoCD's, which is back only after the re-run has listed them: nobody sweeps it and the drain waits for ever, unlike `pdb_guard.go:121` |
| `Lockdown` | `Kinds <- BareMetalOnly`, `MaxFaults = 0` | PROPERTY `PolicyPersists` | a re-run publishes the policy switched off |
| `ArgoSync` | SPECIFICATION `OutageSpec` | PROPERTY `DownEndsRun` | `argo.go:650` says an argocd-server that stays down ends the run; the `Get` before a sync retries for ever while the server has a pod that does not serve (without one, the reconnect ends the process) |
| `KubeOneUpgrade` | | INVARIANT `NeverAppliesBehind` | after a killed roll a target between the two versions passes the hop check against the lowest, and `kubeone apply` gets a manifest behind a kubelet, while `docs/upgrade-bare-metal.md:36` has it refuse downgrades |
| `CapiUpgrade` | | PROPERTY `NodeGroupsFollow` | a commit between two syncs gives a node-group a version the control plane does not have |
| `HetznerInfra` | SPECIFICATION `Spec`, `MaxFaults = 1` | PROPERTY `NodesStayUp` | the reset of `os_install.go:99` follows a probe made earlier: a host that became a node meanwhile is reset |
| `HetznerInfra` | SPECIFICATION `Spec`, `Modes <- CloudModes`, `MaxFaults = 1` | INVARIANT `ProtectedWhenDone` | a kill between creation and protection (`loadbalancer.go:64`, `floatingip.go:25`) is never made up for |
| `PromptSession` | | INVARIANT `AnswersNeverDropped` | Ctrl+C and saving at "Load existing?" replaces a finished config by defaults, right under the promise that files are rewritten only after the final confirm (`resume.go:97`) |
| `PromptSession` | `Hosts <- ThreeServers`, `Answers <- BareMetal` | INVARIANT `OddControlPlane` | an interrupted control-plane list counts as answered: two hosts, which the forms never accept |
| `PromptSession` | `Answers <- AllAnswers`, `Switches <- AnySwitch` | INVARIANT `WrittenParses` | a VPN cluster that becomes a workload cluster keeps its keycloak block, which the parser refuses |
| `PromptSession` | `Answers <- AllAnswers` | INVARIANT `WrittenParses` | a hybrid cluster sent round again and turned to hcloud, aborted and killed before the state file: the resume takes the provider step for done, and the parser refuses a single-node HCloud cluster without node groups (`validate.go:713`) |
| `PromptSession` | `Answers <- AllAnswers` | INVARIANT `LockdownOnMesh`, `PoolsAsked` or `MeshKeyKept` | answers given before a change of mind stay: a lockdown without the mesh, hcloud pools in a hybrid cluster; and a kill between general.yaml and secrets.yaml leaves a mesh whose API key is not asked for again |

And four that pass: `KubeOneUpgrade` has INVARIANT `WorkersFollow`, which section 5 proves (386,807 states); `ConfigRepo` with `Modes = {"pr"}`, `Callers = {"setup"}`, SPECIFICATION `Spec` has
`ImplementsPublication` (76,023 states); the same with `MergeKinds = {"squash"}` has `DoneMeansPublished` (282,103);
`PromptSession` with `Hosts <- Servers`, `SpelledOut <- OnePath`, `Answers <- AllAnswers`, `Replicas <- Sizes`,
`MaxSessions = 1`, SYMMETRY `Symmetry` has `WrittenParses`, `ServersOnce` and `AnswersKept` for four servers,
a directory given by path and control planes of three (174,871).

### Seen while reading

* Saving an aborted session overwrites the config of the directory at any question, not only at "Load existing?"
  (`AnswersNeverDropped`). Renaming to another existing cluster overwrites that one without a question.
* The security answers are asked again after a resume; `HetznerBMCPRegions` is never reset; a rewrite drops every field
  PromptedConfig does not carry (storage sizes, disaster recovery, extra users).
* The mode select offers a VPN cluster bare metal and hybrid (`provider_hetzner.go:208`), which the parser refuses (`validate.go:632`).
* `failover_ip.go:137` takes the first bare-metal machine of the control plane without asking whether there is one.
* A `cluster bootstrap --token` re-run (`connect.go:44` says it needs no new link) overwrites secrets.yaml with the portal's copy, and
  with it the secrets `FillMissingSecrets` generated, as the prompt does in `PromptSession_secrets`. Killed before general.yaml, the
  last file written, it leaves a mixture that `Complete` takes for whole. A cluster renamed on the portal leaves two directories with
  one certificate name, of which `FindOnDisk` takes the first in alphabetical order.
* The shared Robot client retries POSTs too (`hetzner.go:155`), hardware resets among them; only the failover switch has a client without retries.

## 7. Not modelled

* Whole components. *Keycloak and NetBird*: idempotent reconciliation over one HTTP API, the largest piece
  left; only its token gate is here (`Lockdown`). *Obmondo connection*: fetches a cluster's general.yaml,
  secrets.yaml and mTLS material with a bootstrap token and reuses them on a re-run, a second writer of a configs directory. *Disaster
  recovery and backups*: straight-line cloud calls around `BootstrapCluster`, and a report that keeps no state.
  *AWS and Azure infrastructure*: sequences of cloud calls with little control of their own; *command line, logging, templates*:
  no state of the system.
* In modelled components: clones pinned to a ref; that a sync has no cgroup check for the hosts it joins;
  `UpdateMachineTemplate` of AWS and Azure, which no run reaches (Azure's takes the control plane's template for every group); the
  skew between machines of two groups, whose roll-outs nobody orders; `wipeDisks` and the Ceph OSDs; EKS and AKS; formats
  of single fields (addresses, CIDRs, versions); the retries of single HTTP requests.
* Below the models: rendering, logging, flag parsing and progress output; the cloud SDKs; the contents of manifests.

`PROJECT.json` has the reason for each component.
