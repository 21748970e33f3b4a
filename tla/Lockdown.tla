------------------------------ MODULE Lockdown ------------------------------
(***************************************************************************)
(* How a bootstrap on Hetzner ends: the NetBird token gate, the host        *)
(* firewall applied live and persisted through a pull request, and last     *)
(* the control-plane load balancer taken off the public internet            *)
(* (BootstrapCluster from the app sync on; lockdown.go; operator_token.go;  *)
(* DisableControlPlaneLBPublicInterface).  Each of the two closes the very  *)
(* path the CLI and the operator reach kube-apiserver by, and a re-run      *)
(* renders values-cilium.yaml again, with the policy switched off.          *)
(*                                                                         *)
(* The pull requests of this module carry one bit: hostNetworkPolicy.enabled *)
(* of that file.  Module ConfigRepo has how they are made and merged.       *)
(***************************************************************************)
EXTENDS Naturals

CONSTANTS
    Kinds,      \* the clusters: records of the three flags below
    MaxFaults   \* bound: kills of a run, failed pushes, waits that time out

\* bareMetal: the nodes have a public NIC, so there is a host firewall;
\* lb: kube-apiserver is behind a load balancer that gets closed;
\* operator: the cluster hosts the netbird-operator.
Kind == [bareMetal: BOOLEAN, lb: BOOLEAN, operator: BOOLEAN]

ASSUME KindsAssumption == Kinds \subseteq Kind
ASSUME BoundsAssumption == MaxFaults \in Nat

VARIABLES
    kind,
    persisted,  \* hostNetworkPolicy.enabled on the default branch
    known,      \* the same, on the clone's default branch
    prs,        \* open pull requests: "lockdown" enables, "render" disables
    branch,     \* the clone has a branch enable-host-firewall-<cluster>
    ccnp,       \* the CiliumClusterwideNetworkPolicy is live
    lb,         \* the control-plane load balancer: "none", "public", "private"
    secret,     \* netbird/netbird-mgmt-api-key exists, with a key
    pc,
    phase,      \* cluster SetupCluster is at: "management" or "main"
    faults

vars == <<kind, persisted, known, prs, branch, ccnp, lb, secret, pc, phase, faults>>
config  == <<persisted, known, prs, branch>>
network == <<kind, ccnp, lb, secret>>

PCs == {"idle", "prereq", "open", "render", "merge", "main", "sync", "gate", "await",
        "lockdown", "apply", "raise", "push", "disable", "done"}

TypeOK ==
    /\ kind \in Kinds
    /\ persisted \in BOOLEAN /\ known \in BOOLEAN /\ branch \in BOOLEAN
    /\ prs \subseteq {"lockdown", "render"}
    /\ ccnp \in BOOLEAN /\ secret \in BOOLEAN
    /\ lb \in {"none", "public", "private"}
    /\ pc \in PCs /\ phase \in {"management", "main"}
    /\ faults \in 0 .. MaxFaults

Init ==
    /\ kind \in Kinds
    /\ persisted = FALSE /\ known = FALSE /\ prs = {} /\ branch = FALSE
    /\ ccnp = FALSE /\ lb = "none" /\ secret = FALSE
    /\ pc = "idle" /\ phase = "management"
    /\ faults = 0

-----------------------------------------------------------------------------
\* The operator's machine, outside the mesh, reaches kube-apiserver: the policy
\* opens 6443 to the nodes only.
Reachable == ~ccnp /\ (kind.lb => lb = "public")

Goto(s) == pc' = s

\* Mutant: failures are repeated without end.
FaultUncounted == faults' = faults + 1

Fault == faults < MaxFaults /\ faults' = faults + 1

StartRun ==
    /\ pc = "idle"
    /\ Goto("prereq") /\ phase' = "management"
    /\ UNCHANGED <<config, network, faults>>

\* ProvisionPrerequisiteInfrastructure: a re-run opens the load balancer again.
ProvisionPrerequisites ==
    /\ pc = "prereq"
    /\ lb' = IF kind.lb THEN "public" ELSE lb
    /\ Goto("open")
    /\ UNCHANGED <<config, kind, ccnp, secret, phase, faults>>

\* CloneRepo: the clone's default branch follows the forge.
OpenClone ==
    /\ pc = "open"
    /\ known' = persisted
    /\ Goto("render")
    /\ UNCHANGED <<persisted, prs, branch, network, phase, faults>>

AfterRender == IF phase = "management" THEN "main" ELSE "sync"

\* SetupKubeAidConfig: the template says enabled: false, and what differs from
\* the default branch goes into the pull request.
Render ==
    /\ pc = "render"
    /\ IF kind.bareMetal /\ known
       THEN prs' = prs \cup {"render"} /\ Goto("merge")
       ELSE UNCHANGED prs /\ Goto(AfterRender)
    /\ UNCHANGED <<persisted, known, branch, network, phase, faults>>

RenderMerged ==
    /\ pc = "merge" /\ "render" \notin prs
    /\ known' = persisted
    /\ Goto(AfterRender)
    /\ UNCHANGED <<persisted, prs, branch, network, phase, faults>>

\* The main cluster is provisioned (or found), and set up in its turn.
SetupMain ==
    /\ pc = "main"
    /\ IF Reachable THEN phase' = "main" /\ Goto("render")
                    ELSE UNCHANGED phase /\ Goto("idle")
    /\ UNCHANGED <<config, network, faults>>

\* SyncAllArgoCDApps, the cilium app among them.
SyncApps ==
    /\ pc = "sync"
    /\ Goto(IF Reachable THEN "gate" ELSE "idle")
    /\ IF Reachable THEN ccnp' \in {ccnp, persisted} ELSE UNCHANGED ccnp
    /\ UNCHANGED <<config, kind, lb, secret, phase, faults>>

-----------------------------------------------------------------------------
(* AwaitOperatorToken.                                                     *)

\* Mutant: the load balancer is closed before the firewall step, not after it.
GatePassedDisabling ==
    /\ pc = "gate"
    /\ kind.operator => Reachable /\ secret
    /\ lb' = IF kind.lb THEN "private" ELSE lb
    /\ Goto("lockdown")
    /\ UNCHANGED <<config, kind, ccnp, secret, phase, faults>>

\* No operator, or its Secret is there.
GatePassed ==
    /\ pc = "gate"
    /\ kind.operator => Reachable /\ secret
    /\ Goto("lockdown")
    /\ UNCHANGED <<config, network, phase, faults>>

GateUnreachable ==
    /\ pc = "gate" /\ kind.operator /\ ~Reachable
    /\ Goto("idle")
    /\ UNCHANGED <<config, network, phase, faults>>

\* The operator pastes the token, waits while they create the Secret (as does
\* a run without a terminal), or defers, which skips all of the lockdown.
PasteToken ==
    /\ pc = "gate" /\ kind.operator /\ ~secret /\ Reachable
    /\ secret' = TRUE
    /\ Goto("lockdown")
    /\ UNCHANGED <<config, kind, ccnp, lb, phase, faults>>

WaitOrDefer ==
    /\ pc = "gate" /\ kind.operator /\ ~secret /\ Reachable
    /\ \E s \in {"await", "done"} : Goto(s)
    /\ UNCHANGED <<config, network, phase, faults>>

AwaitDone ==
    /\ pc = "await" /\ Reachable /\ secret
    /\ Goto("lockdown")
    /\ UNCHANGED <<config, network, phase, faults>>

\* Mutant: the error of the wait is dropped.
AwaitTimeoutProceeds ==
    /\ pc = "await"
    /\ Fault
    /\ Goto("lockdown")
    /\ UNCHANGED <<config, network, phase>>

\* After 30 minutes: the same as deferring, or an error without a terminal.
AwaitTimeout ==
    /\ pc = "await"
    /\ Fault
    /\ \E s \in {"done", "idle"} : Goto(s)
    /\ UNCHANGED <<config, network, phase>>

-----------------------------------------------------------------------------
(* lockdownInBootstrap.                                                    *)

\* Not bare metal, no Cluster found in the main cluster, cluster.lockdown =
\* false, a failed pre-flight or an operator who declines.
SkipLockdown ==
    /\ pc = "lockdown"
    /\ Goto("disable")
    /\ UNCHANGED <<config, network, phase, faults>>

ConfirmLockdown ==
    /\ pc = "lockdown" /\ kind.bareMetal /\ Reachable
    /\ Goto("apply")
    /\ UNCHANGED <<config, network, phase, faults>>

\* The file flipped in the working tree, the chart rendered with it, the policy
\* applied by server-side apply.
ApplyCCNP ==
    /\ pc = "apply" /\ Reachable
    /\ ccnp' = TRUE
    /\ Goto("raise")
    /\ UNCHANGED <<config, kind, lb, secret, phase, faults>>

\* An error is logged, and the bootstrap goes on.
ApplyCCNPFails ==
    /\ pc = "apply"
    /\ Goto("disable")
    /\ UNCHANGED <<config, network, phase, faults>>

\* CreateAndCheckoutToBranch exits when the clone has the branch already;
\* a clone that knows the policy as enabled leaves nothing to commit.
RaiseLockdownPR ==
    /\ pc = "raise"
    /\ branch' = TRUE
    /\ Goto(IF branch THEN "idle" ELSE IF known THEN "disable" ELSE "push")
    /\ UNCHANGED <<persisted, known, prs, network, phase, faults>>

PushLockdown ==
    /\ pc = "push" /\ "lockdown" \notin prs
    /\ prs' = prs \cup {"lockdown"}
    /\ Goto("disable")
    /\ UNCHANGED <<persisted, known, branch, network, phase, faults>>

\* The forge has a branch of that name with another commit.
PushRejected ==
    /\ pc = "push" /\ "lockdown" \in prs
    /\ Goto("idle")
    /\ UNCHANGED <<config, network, phase, faults>>

DisableLB ==
    /\ pc = "disable"
    /\ lb' = IF kind.lb THEN "private" ELSE lb
    /\ Goto("done")
    /\ UNCHANGED <<config, kind, ccnp, secret, phase, faults>>

Exit ==
    /\ pc = "done"
    /\ Goto("idle")
    /\ UNCHANGED <<config, network, phase, faults>>

Crash ==
    /\ pc \notin {"idle", "done"}
    /\ Fault
    /\ Goto("idle")
    /\ UNCHANGED <<config, network, phase>>

-----------------------------------------------------------------------------
(* The operator, the forge and ArgoCD (external).                          *)

CreateSecret ==
    /\ kind.operator /\ ~secret /\ Reachable
    /\ secret' = TRUE
    /\ UNCHANGED <<config, kind, ccnp, lb, pc, phase, faults>>

MergePR(p) ==
    /\ p \in prs
    /\ persisted' = (p = "lockdown")
    /\ prs' = prs \ {p}
    /\ UNCHANGED <<known, branch, network, pc, phase, faults>>

\* "Merge the PR before ArgoCD sync, or it reverts."
ArgoSync ==
    /\ ccnp # persisted
    /\ ccnp' = persisted
    /\ UNCHANGED <<config, kind, lb, secret, pc, phase, faults>>

\* The clone lives under the temp directory.
LoseClone ==
    /\ pc = "idle" /\ branch
    /\ branch' = FALSE
    /\ UNCHANGED <<persisted, known, prs, network, pc, phase, faults>>

-----------------------------------------------------------------------------
Gate ==
    \/ GatePassed \/ GateUnreachable \/ PasteToken \/ WaitOrDefer \/ AwaitDone

LockdownStep ==
    \/ SkipLockdown \/ ConfirmLockdown \/ ApplyCCNP \/ ApplyCCNPFails
    \/ RaiseLockdownPR \/ PushLockdown \/ PushRejected

RunStep ==
    \/ ProvisionPrerequisites \/ OpenClone \/ Render \/ RenderMerged \/ SetupMain
    \/ SyncApps \/ Gate \/ LockdownStep \/ DisableLB \/ Exit

Environment ==
    \/ CreateSecret \/ (\E p \in prs : MergePR(p)) \/ ArgoSync \/ LoseClone

Next == StartRun \/ RunStep \/ AwaitTimeout \/ Crash \/ Environment

Spec == Init /\ [][Next]_vars

\* A live run goes on.
FairSpec == Spec /\ WF_vars(RunStep)

-----------------------------------------------------------------------------
(* What must hold.                                                         *)

\* A cluster that hosts the netbird-operator is never closed, by the firewall
\* or at the load balancer, before the operator's key exists, whatever was
\* chosen, timed out, killed and run again: "without a mesh key they'd have no
\* path back to kube-apiserver", bootstrap_cluster.go:258-259.
KeyBeforeLock ==
    kind.operator /\ ~secret => ~ccnp /\ lb # "private"

\* A run cuts its own path to kube-apiserver only behind its last call to the
\* cluster ("must run after every CLI->cluster operation above", bootstrap_cluster.go:275);
\* otherwise it takes a merged policy that ArgoCD enforces.
ClosedLast ==
    [][Reachable /\ ~Reachable' => pc' \in {"raise", "done"} \/ persisted]_vars

\* "Any actual failure is warn-logged and bootstrap continues", lockdown.go:91.
LockdownFailureContinues == (pc = "raise") ~> (pc = "disable")

\* "CCNP applied now; PR persists it", lockdown.go:280: once merged, the policy
\* stays in the repository.
PolicyPersists == [][persisted => persisted']_vars
=============================================================================
