----------------------------- MODULE CapiUpgrade -----------------------------
(***************************************************************************)
(* "cluster upgrade" of a cluster that Cluster API manages                  *)
(* (pkg/core/upgrade_cluster.go, pkg/cloud/*/cluster_upgrade.go).  The new   *)
(* version and machine image go into values-capi-cluster.yaml on the default *)
(* branch; then, for the control plane and for each node-group in turn, the *)
(* immutable MachineTemplate is deleted and created again with the image of  *)
(* general.yaml, ArgoCD syncs the owner to the version of the default branch, *)
(* and a rollout is requested that nobody waits for.                        *)
(*                                                                         *)
(* The commits behind a push are ConfigRepo's subject, where the Cluster API *)
(* resources live Pivot's.  Cluster API and ArgoCD are external.            *)
(***************************************************************************)
EXTENDS Naturals, Sequences

CONSTANTS
    Providers,   \* subset of "aws", "azure", "hetzner"
    NodeGroups,  \* node-groups, in the order of general.yaml
    Version,     \* Kubernetes versions
    Image,       \* machine images (the hcloud and the bare metal one together)
    First,       \* the version and image the cluster was bootstrapped with
    Moves,       \* values of moved
    MaxEdits,    \* bound: edits of general.yaml
    MaxFaults    \* bound: kills, lost connections, foreign commits

ControlPlane == "control-plane"
Missing == "missing"

ASSUME ProviderAssumption == Providers \subseteq {"aws", "azure", "hetzner"}
ASSUME GroupAssumption ==
    /\ NodeGroups \in Seq(STRING)
    /\ \A i, j \in DOMAIN NodeGroups : NodeGroups[i] = NodeGroups[j] => i = j
    /\ \A i \in DOMAIN NodeGroups : NodeGroups[i] # ControlPlane
ASSUME ValuesAssumption == First \in [version : Version, image : Image] /\ Missing \notin Image
ASSUME BoundsAssumption == Moves \subseteq BOOLEAN /\ MaxEdits \in Nat /\ MaxFaults \in Nat

VARIABLES
    provider,
    moved,      \* 'clusterctl move' was executed: the resources are in the main cluster
    connected,  \* the workstation reaches the main cluster
    declared,   \* general.yaml: version and image
    branch,     \* values-capi-cluster.yaml on the default branch
    prs,        \* open pull requests: the values they start from and theirs
    template,   \* image of each group's MachineTemplate, or Missing
    spec,       \* version in the KubeadmControlPlane and the MachineDeployments
    pending,    \* groups whose machines are to be replaced
    machines,   \* version and image of each group's machines
    pc,
    skipPR,     \* --skip-pr-workflow
    target,     \* general.yaml as parsed when the run began
    committed,  \* the run has a commit whose merge it can wait for
    at,         \* which of Groups is being upgraded
    had,        \* (history) versions the branch has had since the run published
    edits, faults

external == <<provider, moved>>
git      == <<branch, prs>>
capi     == <<template, spec, pending, machines>>
cli      == <<pc, skipPR, target, committed, at>>
vars == <<external, connected, declared, git, capi, cli, had, edits, faults>>

Values == [version : Version, image : Image]
Change == [base : Values, values : Values]
\* Mutant: the node-groups come first.
NodeGroupsFirst == NodeGroups \o <<ControlPlane>>

Groups == <<ControlPlane>> \o NodeGroups

Group == {Groups[i] : i \in DOMAIN Groups}

TypeOK ==
    /\ provider \in Providers /\ moved \in Moves /\ connected \in BOOLEAN
    /\ declared \in Values /\ branch \in Values /\ prs \subseteq Change
    /\ template \in [Group -> Image \cup {Missing}]
    /\ spec \in [Group -> Version] /\ pending \subseteq Group
    /\ machines \in [Group -> Values]
    /\ pc \in {"idle", "values", "merge", "place", "template", "create", "sync",
               "restart", "done"}
    /\ skipPR \in BOOLEAN /\ target \in Values /\ committed \in BOOLEAN
    /\ at \in 1 .. Len(Groups) + 1
    /\ pc \notin {"idle", "done"} => at <= Len(Groups)
    /\ had \subseteq Version
    /\ edits \in 0 .. MaxEdits /\ faults \in 0 .. MaxFaults

Init ==
    /\ provider \in Providers /\ moved \in Moves /\ connected = TRUE
    /\ declared = First /\ branch = First /\ prs = {}
    /\ template = [g \in Group |-> First.image]
    /\ spec = [g \in Group |-> First.version] /\ pending = {}
    /\ machines = [g \in Group |-> First]
    /\ pc = "idle" /\ skipPR = FALSE /\ target = First
    /\ committed = FALSE /\ at = 1 /\ had = {}
    /\ edits = 0 /\ faults = 0

-----------------------------------------------------------------------------
(* updateCapiClusterValuesFile.                                            *)
Goto(l) == pc' = l
Cur == Groups[at]
Fault == faults < MaxFaults /\ faults' = faults + 1

Start(skip) ==
    /\ pc \in {"idle", "done"}
    /\ skipPR' = skip /\ target' = declared
    /\ committed' = FALSE /\ at' = 1 /\ had' = {}
    /\ Goto("values")
    /\ UNCHANGED <<external, connected, declared, git, capi, edits, faults>>

\* yq is called with flags it does not have.
EditFails == provider \in {"aws", "azure"}

ValuesNotEdited ==
    /\ pc = "values" /\ EditFails
    /\ Goto("idle")
    /\ UNCHANGED <<external, connected, declared, git, capi, skipPR, target,
                   committed, at, had, edits, faults>>

PushDirectly ==
    /\ pc = "values" /\ ~EditFails /\ skipPR
    /\ branch' = target /\ had' = {target.version}
    /\ Goto("place")
    /\ UNCHANGED <<external, connected, declared, prs, capi, skipPR, target,
                   committed, at, edits, faults>>

\* A clean tree makes no commit, and the run waits for its merge all the same.
OpenPR ==
    /\ pc = "values" /\ ~EditFails /\ ~skipPR
    /\ committed' = (branch # target)
    /\ prs' = IF branch = target THEN prs ELSE prs \cup {[base |-> branch, values |-> target]}
    /\ Goto("merge")
    /\ UNCHANGED <<external, connected, declared, branch, capi, skipPR, target,
                   at, had, edits, faults>>

PRMerged ==
    /\ pc = "merge" /\ committed /\ \A p \in prs : p.values # target
    /\ had' = {branch.version}
    /\ Goto("place")
    /\ UNCHANGED <<external, connected, declared, git, capi, skipPR, target,
                   committed, at, edits, faults>>

\* Ctrl+C, at the wait for a commit that does not exist.
GiveUp ==
    /\ pc = "merge" /\ ~committed
    /\ Goto("idle")
    /\ UNCHANGED <<external, connected, declared, git, capi, skipPR, target,
                   committed, at, had, edits, faults>>

-----------------------------------------------------------------------------
(* UpgradeCluster: the cluster to talk to, then group by group.            *)

\* IsClusterctlMoveExecuted, and the clients.  A main cluster out of reach counts
\* as one without the resources, and the management cluster has them no more.
ChooseCluster ==
    /\ pc = "place"
    /\ Goto(IF moved => connected THEN "template" ELSE "idle")
    /\ UNCHANGED <<external, connected, declared, git, capi, skipPR, target,
                   committed, at, had, edits, faults>>

\* UpdateMachineTemplate reads the template, deletes it ...
DeleteTemplate ==
    /\ pc = "template"
    /\ IF template[Cur] = Missing
       THEN Goto("idle") /\ UNCHANGED template
       ELSE Goto("create") /\ template' = [template EXCEPT ![Cur] = Missing]
    /\ UNCHANGED <<external, connected, declared, git, spec, pending, machines,
                   skipPR, target, committed, at, had, edits, faults>>

\* ... and creates it again, unless someone else has.
CreateTemplate ==
    /\ pc = "create"
    /\ IF template[Cur] = Missing
       THEN Goto("sync") /\ template' = [template EXCEPT ![Cur] = target.image]
       ELSE Goto("idle") /\ UNCHANGED template
    /\ UNCHANGED <<external, connected, declared, git, spec, pending, machines,
                   skipPR, target, committed, at, had, edits, faults>>

\* What ArgoCD applies is what the branch says now.
Applied(g) ==
    /\ spec' = [spec EXCEPT ![g] = branch.version]
    /\ pending' = IF spec[g] = branch.version THEN pending ELSE pending \cup {g}

\* SyncArgoCDApp, of the resources of one group; skipped when they are in sync.
SyncGroup ==
    /\ pc = "sync"
    /\ Applied(Cur)
    /\ Goto("restart")
    /\ UNCHANGED <<external, connected, declared, git, template, machines,
                   skipPR, target, committed, at, had, edits, faults>>

\* Mutant: a change of the version is trusted to roll the group.
RestartOnChange ==
    /\ pc = "restart"
    /\ at' = at + 1
    /\ Goto(IF at = Len(Groups) THEN "done" ELSE "template")
    /\ UNCHANGED <<external, connected, declared, git, capi, skipPR, target,
                   committed, had, edits, faults>>

\* Mutant: the end of the loop is missed.
RestartPastTheEnd ==
    /\ pc = "restart"
    /\ pending' = pending \cup {Cur}
    /\ at' = at + 1
    /\ Goto(IF at > Len(Groups) THEN "done" ELSE "template")
    /\ UNCHANGED <<external, connected, declared, git, template, spec, machines,
                   skipPR, target, committed, had, edits, faults>>

\* RolloutRestart, and on to the next group.
Restart ==
    /\ pc = "restart"
    /\ pending' = pending \cup {Cur}
    /\ at' = at + 1
    /\ Goto(IF at = Len(Groups) THEN "done" ELSE "template")
    /\ UNCHANGED <<external, connected, declared, git, template, spec, machines,
                   skipPR, target, committed, had, edits, faults>>

\* A kill, or a call that fails.
Crash ==
    /\ pc \notin {"idle", "done"} /\ Fault
    /\ Goto("idle")
    /\ UNCHANGED <<external, connected, declared, git, capi, skipPR, target,
                   committed, at, had, edits>>

-----------------------------------------------------------------------------
(* Cluster API, the forge, the operator and other people (external).       *)

\* New machines need the template, at whatever image it has.
Roll(g) ==
    /\ g \in pending /\ template[g] # Missing
    /\ machines' = [machines EXCEPT ![g] = [version |-> spec[g], image |-> template[g]]]
    /\ pending' = pending \ {g}
    /\ UNCHANGED <<external, connected, declared, git, template, spec, cli, had,
                   edits, faults>>

SetBranch(v) ==
    /\ branch' = v
    /\ had' = IF had = {} THEN {} ELSE had \cup {v.version}

\* A request merges while the values are as it found them, or as it wants them;
\* the one a run waits for, the operator brings up to date.
Merge(p) ==
    /\ p \in prs
    /\ branch \in {p.base, p.values} \/ (pc = "merge" /\ committed /\ p.values = target)
    /\ prs' = prs \ {p}
    /\ SetBranch(p.values)
    /\ UNCHANGED <<external, connected, declared, capi, cli, edits, faults>>

\* Someone else changes the values on the default branch.
ForeignCommit(v) ==
    /\ v # branch /\ Fault
    /\ SetBranch(v)
    /\ UNCHANGED <<external, connected, declared, prs, capi, cli, edits>>

Declare(v) ==
    /\ v # declared /\ edits < MaxEdits
    /\ edits' = edits + 1
    /\ declared' = v
    /\ UNCHANGED <<external, connected, git, capi, cli, had, faults>>

\* Syncing one resource in ArgoCD brings back a template that is gone, now and
\* then one that a run is about to create.
RestoreTemplate(g) ==
    /\ template[g] = Missing
    /\ IF pc = "create" /\ g = Cur THEN Fault ELSE UNCHANGED faults
    /\ template' = [template EXCEPT ![g] = branch.image]
    /\ UNCHANGED <<external, connected, declared, git, spec, pending, machines,
                   cli, had, edits>>

LoseConnection ==
    /\ connected /\ Fault
    /\ connected' = FALSE
    /\ UNCHANGED <<external, declared, git, capi, cli, had, edits>>

Connect ==
    /\ ~connected
    /\ connected' = TRUE
    /\ UNCHANGED <<external, declared, git, capi, cli, had, edits, faults>>

-----------------------------------------------------------------------------
RunStep ==
    \/ ValuesNotEdited \/ PushDirectly \/ OpenPR \/ PRMerged \/ GiveUp
    \/ ChooseCluster \/ DeleteTemplate \/ CreateTemplate \/ SyncGroup \/ Restart

Environment ==
    \/ \E p \in prs : Merge(p)
    \/ \E v \in Values : ForeignCommit(v) \/ Declare(v)
    \/ \E g \in Group : Roll(g) \/ RestoreTemplate(g)
    \/ LoseConnection \/ Connect

Next ==
    \/ \E skip \in BOOLEAN : Start(skip)
    \/ RunStep \/ Crash \/ Environment

Spec == Init /\ [][Next]_vars

\* A run goes on; Cluster API replaces machines, and tries again when it finds no
\* template; the operator merges what a run
\* waits for, brings a lost template back, reconnects, and upgrades again and
\* again, now and then without the pull request workflow.
FairSpec ==
    /\ Spec
    /\ WF_vars(RunStep) /\ SF_vars(Start(TRUE))
    /\ \A g \in Group : SF_vars(Roll(g)) /\ WF_vars(RestoreTemplate(g))
    /\ \A p \in Change : WF_vars(pc = "merge" /\ Merge(p))
    /\ WF_vars(Connect)

-----------------------------------------------------------------------------
(* Properties.                                                             *)

AsRequested(g) == machines[g] = [version |-> spec[g], image |-> template[g]]

\* A run that ends without an error has left every group with the image of
\* general.yaml, with a version the branch has had since it was published, and
\* with machines that have both or are about to (RolloutRestart, whether or not
\* the version changed), however other people commit and templates are restored.
DoneMeansRolling ==
    pc = "done" => \A g \in Group :
        /\ template[g] = target.image /\ spec[g] \in had
        /\ g \in pending \/ AsRequested(g)

\* (1) the control plane, (2) each node-group (upgrade_cluster.go:77-81): unless
\* the branch moves on under the run, a node-group gets no version that the
\* control plane has not been given before.
ControlPlaneFirst ==
    [][\A g \in Group \ {ControlPlane} :
         spec'[g] # spec[g] /\ had = {spec'[g]} => spec'[g] = spec[ControlPlane]]_vars

\* The same with people who commit during the run.
NodeGroupsFollow ==
    [][\A g \in Group \ {ControlPlane} :
         spec'[g] # spec[g] => spec'[g] = spec[ControlPlane]]_vars

\* On Hetzner upgrades get through, wherever earlier ones were killed: all
\* machines come to what general.yaml declares.
Upgraded == \A g \in Group : machines[g] = declared
Settles == provider # "hetzner" \/ []<>Upgraded

\* README.md:138-140: clusters on AWS and Azure can be upgraded.
UpgradesGetThrough == []<>Upgraded
=============================================================================
