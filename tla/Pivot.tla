------------------------------- MODULE Pivot -------------------------------
(***************************************************************************)
(* The Cluster API resources of the main cluster on their way through      *)
(* BootstrapCluster, "devenv create" and DeleteCluster: created in the k3d *)
(* management cluster, handed over to the main cluster by 'clusterctl move'*)
(* and moved back to be deleted.  No file records how far a run came:      *)
(* every run asks IsClusterctlMoveExecuted, which looks for the Cluster    *)
(* resource in the main cluster, over a load balancer whose public         *)
(* interface the end of a VPN cluster's bootstrap takes away.              *)
(***************************************************************************)
EXTENDS Naturals

CONSTANTS
    VpnKinds,    \* TRUE: a VPN (or VPN-connected) Hetzner cluster
    Commands,    \* for each of them, the commands the operator runs:
                 \* "bootstrap", "devenv" and "delete"
    SkipMoves,   \* values of --skip-clusterctl-move
    MaxTries,    \* tries of the move back, at least 1
    MaxFaults    \* bound: kills of a run and failed webhook calls

Command == {"bootstrap", "devenv", "delete"}

ASSUME FlagsAssumption ==
    VpnKinds \subseteq BOOLEAN /\ SkipMoves \subseteq BOOLEAN
ASSUME CommandsAssumption == Commands \in [VpnKinds -> SUBSET Command]
ASSUME BoundsAssumption == MaxTries \in Nat \ {0} /\ MaxFaults \in Nat

VARIABLES
    vpn,         \* this is a VPN cluster
    objs,        \* Cluster API resources present in each cluster
    paused,      \* spec.paused of the Cluster resource of each cluster
    deleting,    \* the management cluster's Cluster has a deletion timestamp
    infra,       \* the main cluster's machines: "none" or "up"
    kubeconfig,  \* the main cluster's kubeconfig has been saved locally
    lbPublic,    \* the control-plane load balancer has its public interface
    front,       \* the load balancer and the NAT gateway that Hetzner clusters get
                 \* beforehand: "none", "protected" against deletion, or "open"
    pc, cmd, skip,
    from, to,    \* the clusterctl move under way
    tries,       \* tries of WithRetry
    faults

vars == <<vpn, objs, paused, deleting, infra, kubeconfig, lbPublic, front,
          pc, cmd, skip, from, to, tries, faults>>
capi  == <<objs, paused, deleting, infra>>
path  == <<vpn, kubeconfig, lbPublic, front>>
run   == <<cmd, skip, from, to, tries>>

Place == {"management", "main"}
\* The Cluster, and everything it owns (machines, their templates, ...).
Obj == {"Cluster", "Machines"}

PCs == {"idle", "prereq", "devenv", "provision", "setup", "pivot", "pause", "create",
        "createDeps", "deleteDeps", "delete", "unpause", "finish",
        "checkMoved", "get", "unprotect", "request", "wait", "done"}
Moving == {"pause", "create", "createDeps", "deleteDeps", "delete", "unpause"}

TypeOK ==
    /\ vpn \in VpnKinds
    /\ objs \in [Place -> SUBSET Obj] /\ paused \in [Place -> BOOLEAN]
    /\ deleting \in BOOLEAN
    /\ infra \in {"none", "up"}
    /\ kubeconfig \in BOOLEAN /\ lbPublic \in BOOLEAN
    /\ front \in {"none", "protected", "open"}
    /\ pc \in PCs
    /\ cmd \in Command /\ skip \in BOOLEAN
    /\ from \in Place /\ to \in Place
    /\ tries \in 0 .. MaxTries
    /\ faults \in 0 .. MaxFaults

Init ==
    /\ vpn \in VpnKinds
    /\ objs = [c \in Place |-> {}] /\ paused = [c \in Place |-> FALSE]
    /\ deleting = FALSE
    /\ infra = "none"
    /\ kubeconfig = FALSE /\ lbPublic = FALSE /\ front = "none"
    /\ pc = "idle" /\ cmd = "bootstrap" /\ skip = FALSE
    /\ from = "management" /\ to = "main" /\ tries = 0
    /\ faults = 0

-----------------------------------------------------------------------------
\* CreateKubernetesClient pings the main cluster through the saved kubeconfig.
Reachable ==
    /\ kubeconfig /\ infra # "none"
    /\ vpn => lbPublic

\* IsClusterctlMoveExecuted: every error means "no".
Moved == Reachable /\ "Cluster" \in objs["main"]

\* The controllers of a cluster act on a Cluster that is not paused.
Active(c) == "Cluster" \in objs[c] /\ ~paused[c]

Goto(s) == pc' = s

-----------------------------------------------------------------------------
(* Bootstrap and devenv create.                                            *)

StartRun(c, s) ==
    /\ pc = "idle"
    /\ cmd' = c /\ skip' = s /\ tries' = 0
    /\ Goto(CASE c = "bootstrap" -> "prereq"
              [] c = "devenv"    -> "devenv"
              [] c = "delete"    -> "checkMoved")
    /\ UNCHANGED <<capi, path, from, to, faults>>

\* What is created is protected at once, and what exists is left as it is; only
\* on Hetzner, where every VPN cluster is.
Fronts == CASE front # "none" -> {front}
            [] vpn            -> {"protected"}
            [] OTHER          -> {"none", "protected"}

\* Mutant: the public interface is set only when the load balancer is created.
ProvisionPrerequisitesOnce ==
    /\ pc = "prereq"
    /\ lbPublic' = (lbPublic \/ (vpn /\ infra = "none"))
    /\ front' \in Fronts
    /\ Goto("devenv")
    /\ UNCHANGED <<capi, vpn, kubeconfig, run, faults>>

\* ProvisionPrerequisiteInfrastructure: a re-run re-enables the interface.
ProvisionPrerequisites ==
    /\ pc = "prereq"
    /\ lbPublic' = (lbPublic \/ vpn)
    /\ front' \in Fronts
    /\ Goto("devenv")
    /\ UNCHANGED <<capi, vpn, kubeconfig, run, faults>>

\* Mutant: the app is synced on the management cluster in every run.
SyncCapiClusterAlways ==
    /\ pc = "devenv"
    /\ objs' = [objs EXCEPT !["management"] = Obj]
    /\ Goto(IF cmd = "devenv" THEN "done" ELSE "provision")
    /\ UNCHANGED <<paused, deleting, infra, path, run, faults>>

\* SetupCluster for the management cluster ends with a sync of the
\* capi-cluster app, unless the resources have been moved; the sync puts back
\* what is missing and leaves spec.paused of an existing Cluster alone.
SyncCapiCluster ==
    /\ pc = "devenv"
    /\ objs' = IF Moved THEN objs ELSE [objs EXCEPT !["management"] = Obj]
    /\ Goto(IF cmd = "devenv" THEN "done" ELSE "provision")
    /\ UNCHANGED <<paused, deleting, infra, path, run, faults>>

\* Mutant: any Cluster with machines will do, a terminating one too.
ProvisionMainAnyPhase ==
    /\ pc = "provision"
    /\ \/ Moved /\ UNCHANGED kubeconfig
       \/ /\ ~Moved /\ infra = "up" /\ objs["management"] = Obj
          /\ kubeconfig' = TRUE
    /\ Goto("setup")
    /\ UNCHANGED <<capi, vpn, lbPublic, front, run, faults>>

\* provisionMainClusterUsingClusterAPI: nothing to do once moved, otherwise it
\* waits for the machines of a Cluster that is Provisioned, which a terminating
\* one is not, and saves the kubeconfig.
ProvisionMain ==
    /\ pc = "provision"
    /\ \/ Moved /\ UNCHANGED kubeconfig
       \/ /\ ~Moved /\ infra = "up" /\ objs["management"] = Obj /\ ~deleting
          /\ kubeconfig' = TRUE
    /\ Goto("setup")
    /\ UNCHANGED <<capi, vpn, lbPublic, front, run, faults>>

\* The waits for nodes, and SetupCluster for the main cluster.
SetupMain ==
    /\ pc = "setup"
    /\ Goto(IF Reachable THEN "pivot" ELSE "idle")
    /\ UNCHANGED <<capi, path, run, faults>>

\* Pivot, unless the operator opted out or it is done; WaitForAllMachinesRunning.
BeginPivot ==
    /\ pc = "pivot"
    /\ from' = "management" /\ to' = "main"
    /\ IF skip \/ Moved THEN Goto("finish")
       ELSE objs["management"] = Obj /\ infra = "up" /\ ~deleting /\ Goto("pause")
    /\ UNCHANGED <<capi, path, cmd, skip, tries, faults>>

\* Syncing the apps, the endpoint checks, the NetBird token gate, and last of
\* all DisableControlPlaneLBPublicInterface, unless the operator defers.
Finish ==
    /\ pc = "finish"
    /\ IF Reachable
       THEN Goto("done") /\ lbPublic' \in IF vpn THEN {lbPublic, FALSE} ELSE {lbPublic}
       ELSE Goto("idle") /\ UNCHANGED lbPublic
    /\ UNCHANGED <<capi, vpn, kubeconfig, front, run, faults>>

-----------------------------------------------------------------------------
(* 'clusterctl move' (external): pause, create owners first, delete owners  *)
(* last, unpause.  A resource the target has already is updated; from a     *)
(* source without the Cluster there is nothing to move.                     *)

AfterMove == IF cmd = "delete" THEN "get" ELSE "finish"

MovePause ==
    /\ pc = "pause" /\ Reachable
    /\ IF "Cluster" \in objs[from]
       THEN paused' = [paused EXCEPT ![from] = TRUE] /\ Goto("create")
       ELSE UNCHANGED paused /\ Goto(AfterMove)
    /\ UNCHANGED <<objs, deleting, infra, path, run, faults>>

MoveCreate(o) ==
    /\ pc = IF o = "Cluster" THEN "create" ELSE "createDeps"
    /\ Reachable
    /\ objs' = [objs EXCEPT ![to] = @ \cup ({o} \cap objs[from])]
    /\ paused' = IF o = "Cluster" THEN [paused EXCEPT ![to] = TRUE] ELSE paused
    /\ Goto(IF o = "Cluster" THEN "createDeps" ELSE "deleteDeps")
    /\ UNCHANGED <<deleting, infra, path, run, faults>>

MoveDelete(o) ==
    /\ pc = IF o = "Cluster" THEN "delete" ELSE "deleteDeps"
    /\ Reachable
    /\ objs' = [objs EXCEPT ![from] = @ \ {o}]
    /\ paused' = IF o = "Cluster" THEN [paused EXCEPT ![from] = FALSE] ELSE paused
    /\ Goto(IF o = "Cluster" THEN "unpause" ELSE "delete")
    /\ UNCHANGED <<deleting, infra, path, run, faults>>

MoveUnpause ==
    /\ pc = "unpause" /\ Reachable
    /\ paused' = [paused EXCEPT ![to] = FALSE]
    /\ Goto(AfterMove)
    /\ UNCHANGED <<objs, deleting, infra, path, run, faults>>

\* "failed to call webhook" at a creation: bootstrap gives up at once,
\* DeleteCluster starts the move over, MaxTries times.
MoveFails ==
    /\ pc \in {"create", "createDeps"}
    /\ faults < MaxFaults /\ faults' = faults + 1
    /\ IF cmd = "delete" /\ tries + 1 < MaxTries
       THEN tries' = tries + 1 /\ Goto("pause")
       ELSE UNCHANGED tries /\ Goto("idle")
    /\ UNCHANGED <<capi, path, cmd, skip, from, to>>

-----------------------------------------------------------------------------
(* DeleteCluster.                                                          *)

MoveBack ==
    /\ pc = "checkMoved"
    /\ from' = "main" /\ to' = "management"
    /\ Goto(IF Moved THEN "pause" ELSE "get")
    /\ UNCHANGED <<capi, path, cmd, skip, tries, faults>>

\* "If the cluster gets marked as paused, then unmark it first": the Update
\* writes back the resource as it was read.
UnmarkedPaused == paused

GetCluster ==
    /\ pc = "get"
    /\ IF "Cluster" \in objs["management"]
       THEN paused' = UnmarkedPaused /\ Goto("unprotect")
       ELSE UNCHANGED paused /\ Goto("idle")
    /\ UNCHANGED <<objs, deleting, infra, path, run, faults>>

\* Mutant: the load balancer's protection is left in place.
DisableNothing ==
    /\ pc = "unprotect"
    /\ Goto("request")
    /\ UNCHANGED <<capi, path, run, faults>>

DisableDeletionProtection ==
    /\ pc = "unprotect"
    /\ front' = IF front = "protected" THEN "open" ELSE front
    /\ Goto("request")
    /\ UNCHANGED <<capi, vpn, kubeconfig, lbPublic, run, faults>>

\* The Cluster may be gone by then, after a deletion an earlier run asked for; the
\* request is then an error that ends this one.
RequestDeletion ==
    /\ pc = "request"
    /\ IF "Cluster" \in objs["management"]
       THEN deleting' = TRUE /\ Goto("wait")
       ELSE UNCHANGED deleting /\ Goto("idle")
    /\ UNCHANGED <<objs, paused, infra, path, run, faults>>

\* Polls without a timeout until the Cluster is NotFound.
DeletionDone ==
    /\ pc = "wait" /\ "Cluster" \notin objs["management"]
    /\ Goto("done")
    /\ UNCHANGED <<capi, path, run, faults>>

Exit ==
    /\ pc = "done"
    /\ Goto("idle")
    /\ UNCHANGED <<capi, path, run, faults>>

Crash ==
    /\ pc \notin {"idle", "done"}
    /\ faults < MaxFaults /\ faults' = faults + 1
    /\ Goto("idle")
    /\ UNCHANGED <<capi, path, run>>

\* The waits of bootstrap run into their timeout; the wait of DeleteCluster has
\* none, and the operator may press Ctrl+C.
GiveUpWaiting ==
    /\ pc \in {"provision", "pivot", "wait"}
    /\ Goto("idle")
    /\ UNCHANGED <<capi, path, run, faults>>

-----------------------------------------------------------------------------
(* Cluster API's controllers (external).                                   *)

\* The machines of a Cluster the management cluster's controllers act on.
Build ==
    /\ Active("management") /\ "Machines" \in objs["management"] /\ ~deleting
    /\ infra = "none" /\ infra' = "up"
    /\ UNCHANGED <<objs, paused, deleting, path, pc, run, faults>>

\* Deletion destroys the machines the management cluster knows of, with the load
\* balancer and the gateway, and hangs on one that is protected; the main
\* cluster's own resources go with it.
Teardown ==
    /\ deleting /\ Active("management") /\ front # "protected"
    /\ infra' = IF "Machines" \in objs["management"] THEN "none" ELSE infra
    /\ objs' = [c \in Place |-> IF c = "main" /\ infra' = "up" THEN objs[c] ELSE {}]
    /\ paused' = [c \in Place |-> c = "main" /\ infra' = "up" /\ paused[c]]
    /\ deleting' = FALSE /\ front' = "none"
    /\ UNCHANGED <<vpn, kubeconfig, lbPublic, pc, run, faults>>

-----------------------------------------------------------------------------
MoveStep ==
    \/ MovePause
    \/ \E o \in Obj : MoveCreate(o) \/ MoveDelete(o)
    \/ MoveUnpause

RunStep ==
    \/ ProvisionPrerequisites \/ SyncCapiCluster \/ ProvisionMain \/ SetupMain
    \/ BeginPivot \/ MoveStep \/ Finish
    \/ MoveBack \/ GetCluster \/ DisableDeletionProtection \/ RequestDeletion \/ DeletionDone \/ Exit

Next ==
    \/ \E c \in Commands[vpn], s \in SkipMoves : StartRun(c, s)
    \/ RunStep \/ MoveFails \/ Crash \/ GiveUpWaiting
    \/ Build \/ Teardown

Spec == Init /\ [][Next]_vars

\* A live run goes on, and the controllers work.
FairSpec == Spec /\ WF_vars(RunStep) /\ WF_vars(Build) /\ WF_vars(Teardown)

-----------------------------------------------------------------------------
(* What must hold.                                                         *)

\* Whatever commands are run, killed and run again, the machines never have two
\* sets of controllers acting on them, change hands only through a moment with
\* none, and are destroyed by the management cluster alone.
Owner == INSTANCE ClusterOwner WITH
    owners   <- {c \in Place : Active(c)},
    machines <- infra # "none"
ImplementsOwner == Owner!Spec

\* IsClusterctlMoveExecuted says whether the resources have been moved: "Main
\* cluster isn't reachable, which means 'clusterctl move' hasn't been executed",
\* clusterapi.go:1439.  Trusting it never makes a second owner.
SingleOwner == ~(Active("management") /\ Active("main"))

\* "If the Cluster resource is found in the main cluster, that means 'clusterctl
\* move' has been executed", clusterapi.go:1445: a bootstrap that ends well
\* leaves a cluster that some controllers manage, with all its resources.
Managed == pc = "done" /\ cmd = "bootstrap" => \E c \in Place : Active(c) /\ objs[c] = Obj

\* The same while no run has been killed and no move has failed: after that a
\* half-executed move counts as executed.
ManagedWhenDone == faults = 0 => Managed

\* While bootstrap talks to the main cluster, the operator's way to it is open:
\* a re-run on a locked-down VPN cluster opens it first, and it is closed last
\* ("must run after every CLI->cluster operation above", bootstrap_cluster.go:275).
PublicThroughout ==
    cmd = "bootstrap" /\ pc \in {"setup", "pivot"} \cup Moving => Reachable

\* The deletion of a cluster comes to its end: "If the cluster gets marked as
\* paused, then unmark it first", delete_cluster.go:102.
Deleted == (pc = "wait") ~> (pc # "wait")

\* What the code delivers of it, for every history of kills, failed moves and
\* commands run again: a deletion moves the resources back, takes the
\* protection off and waits, without a timeout, for controllers that do come to
\* the end of it.  The one wait that has no end is for a Cluster that a killed
\* move has left paused.
DeletionEnds ==
    (cmd = "delete" /\ pc # "idle")
        ~> (pc \in {"done", "idle"} \/ (pc = "wait" /\ paused["management"] /\ faults > 0))
=============================================================================
