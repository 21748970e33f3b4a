------------------------------ MODULE ArgoSync ------------------------------
(***************************************************************************)
(* SyncAllArgoCDApps: how a bootstrap brings every ArgoCD App of the main   *)
(* cluster in sync (pkg/utils/kubernetes/argo.go).  The root App creates    *)
(* the others; a few come first by name, then the ordered steps with their  *)
(* gates (DNS, certificates, Keycloak's realm), then what is left of the    *)
(* list taken before.                                                      *)
(*                                                                         *)
(* Meanwhile ArgoCD runs its operations, its server restarts (the argocd    *)
(* App restarts it), the git repository comes and goes, and other people    *)
(* change the default branch.  A failed call ends the process; the operator *)
(* runs it again, over whatever is there.                                   *)
(***************************************************************************)
EXTENDS Naturals, Sequences, FiniteSets, SequencesExt

CONSTANTS
    App,           \* the child Apps that may be on the default branch
    Root,          \* the root App
    Early,         \* Apps synced by name before the list is taken, in order
    Steps,         \* orderedApps, in order
    Gated,         \* the steps that have an AfterSync hook
    SelfApp,       \* the App that restarts argocd-server when it is synced
    ByResource,    \* Velero: judged by its resources, not by its sync status
    MaxTransport,  \* argoCDPortForwardMaxAttempts
    MaxRepo,       \* argoCDRepoFetchMaxAttempts
    MaxFaults      \* bound: outages, failed operations and calls, kills, commits

InSeq(s) == {s[i] : i \in DOMAIN s}

ASSUME RootAssumption == IsFiniteSet(App) /\ Root \notin App
\* BootstrapCluster puts each App into orderedApps at most once.
ASSUME OrderAssumption ==
    /\ Early \in Seq(App) /\ Steps \in Seq(App)
    /\ \A i, j \in DOMAIN Steps : Steps[i] = Steps[j] => i = j
ASSUME RolesAssumption ==
    Gated \subseteq InSeq(Steps) /\ SelfApp \in App /\ ByResource \subseteq App
ASSUME BoundsAssumption == MaxTransport \in Nat /\ MaxRepo \in Nat /\ MaxFaults \in Nat

VARIABLES
    desired,     \* child Apps the default branch declares
    resources,   \* root's status.resources, of its last comparison
    reconciled,  \* root's sync status is Synced or OutOfSync, not Unknown
    known,       \* Apps with a status.resources: compared at least once
    exists,      \* child Apps present in the cluster
    clean,       \* Apps whose live resources are what git says
    deployed,    \* Apps applied at least once
    op,          \* Apps with a sync operation running
    server,      \* argocd-server: serves, has a pod that does not yet, or none
    repoUp,      \* repo-server reaches the git repository
    conn,        \* the clients whose port-forward works: the manager's, the global one
    pc,
    stage,       \* which of the three loops
    todo,        \* Apps the loop still has to visit
    cur,         \* the App being synced
    transport, repo,   \* syncRetryAttempts
    listed,      \* the Apps List returned
    wanted,      \* (history) what the branch declared when the run began
    seen,        \* (history) Apps this run has found in sync
    passed,      \* (history) gates this run has passed
    faults

git     == <<desired, resources, reconciled, known>>
apps    == <<exists, clean, deployed, op>>
outages == <<server, repoUp, conn>>
loop    == <<stage, todo, cur, listed>>
budgets == <<transport, repo>>
history == <<wanted, seen, passed>>
vars    == <<git, apps, outages, pc, loop, budgets, history, faults>>

All == App \cup {Root}
Client == {"manager", "global"}

TypeOK ==
    /\ desired \subseteq App /\ resources \subseteq App
    /\ reconciled \in BOOLEAN /\ known \subseteq All
    /\ exists \subseteq App /\ clean \subseteq App /\ deployed \subseteq App
    /\ op \subseteq All
    /\ server \in {"up", "starting", "gone"} /\ repoUp \in BOOLEAN
    /\ conn \subseteq Client /\ (conn # {} => server = "up")
    /\ pc \in {"idle", "next", "check", "sync", "recheck", "children", "gate",
               "list", "done"}
    /\ stage \in {"early", "steps", "rest"}
    /\ todo \in Seq(All) /\ cur \in All /\ listed \subseteq All
    /\ transport \in 0 .. MaxTransport /\ repo \in 0 .. MaxRepo
    /\ wanted \subseteq App /\ seen \subseteq All /\ passed \subseteq Gated
    /\ faults \in 0 .. MaxFaults

\* A cluster on which InstallAndSetupArgoCD has just created the root App.
Init ==
    /\ desired \in SUBSET App /\ App \ InSeq(Steps) \subseteq desired
    /\ resources = {} /\ reconciled = FALSE /\ known = {}
    /\ exists = {} /\ clean = {} /\ deployed = {} /\ op = {}
    /\ server = "up" /\ repoUp = TRUE /\ conn = Client
    /\ pc = "idle" /\ stage = "early" /\ todo = <<>> /\ cur = Root
    /\ transport = 0 /\ repo = 0 /\ listed = {}
    /\ wanted = {} /\ seen = {} /\ passed = {}
    /\ faults = 0

-----------------------------------------------------------------------------
Goto(l) == pc' = l

Fault == faults < MaxFaults /\ faults' = faults + 1

InSync(a) == IF a = Root THEN desired \subseteq exists ELSE a \in clean

\* Mutant: a status that could not be computed passes for Synced.
ReportsSyncedUnlessOutOfSync(a) == ~repoUp \/ InSync(a)

\* isArgoCDAppSynced, after the hard refresh: without the repository the status
\* is Unknown, and Velero's list of resources is whatever it was.
ReportsSynced(a) ==
    \/ repoUp /\ InSync(a)
    \/ a \in ByResource /\ ~repoUp /\ a \notin known

\* What a comparison leaves in an App's status.
Compare(a) ==
    /\ known' = IF repoUp THEN known \cup {a} ELSE known
    /\ IF a = Root
       THEN /\ reconciled' = repoUp
            /\ resources' = IF repoUp THEN desired ELSE resources
       ELSE UNCHANGED <<reconciled, resources>>
    /\ UNCHANGED desired

\* Mutant: the new client is taken over although its session could not be made.
ReconnectBlindly(clients) == conn' = conn \cup clients /\ UNCHANGED pc

\* RecreateArgoCDApplicationClient replaces the global client; the manager's
\* reconnect takes it over.  A server that does not serve yet refuses the session,
\* and the caller goes on; without a pod to forward a port to, the OrDie
\* constructors of the client end the process.
Reconnect(clients) ==
    /\ conn' = IF server = "up" THEN conn \cup clients ELSE conn
    /\ IF server = "gone" THEN pc' = "idle" ELSE UNCHANGED pc

\* Get of an App that is there, over a live port-forward.
Served(a) == "manager" \in conn /\ (a = Root \/ a \in exists)

-----------------------------------------------------------------------------
(* syncAllArgoCDApps.                                                      *)

\* Another process: SetupCluster has just made its port-forward and client.
StartRun ==
    /\ pc \in {"idle", "done"} /\ server = "up"
    /\ conn' = Client
    /\ stage' = "early" /\ todo' = <<Root>> \o Early /\ listed' = {}
    /\ wanted' = desired /\ seen' = {} /\ passed' = {}
    /\ Goto("next")
    /\ UNCHANGED <<git, apps, server, repoUp, cur, budgets, faults>>

\* A step whose App the list does not have is skipped, and its gate with it.
Skipped(a) == stage = "steps" /\ a \notin listed

NextApp ==
    /\ pc = "next" /\ todo # <<>>
    /\ todo' = Tail(todo)
    /\ IF Skipped(Head(todo))
       THEN UNCHANGED <<pc, cur, budgets>>
       ELSE /\ cur' = Head(todo) /\ transport' = 0 /\ repo' = 0
            /\ Goto("check")
    /\ UNCHANGED <<git, apps, outages, stage, listed, history, faults>>

EndOfLoop ==
    /\ pc = "next" /\ todo = <<>>
    /\ CASE stage = "early" -> Goto("list") /\ UNCHANGED <<stage, todo>>
         [] stage = "steps" -> /\ stage' = "rest"
                               /\ todo' = SetToSeq(listed \ InSeq(Steps))
                               /\ UNCHANGED pc
         [] stage = "rest"  -> Goto("done") /\ UNCHANGED <<stage, todo>>
    /\ UNCHANGED <<git, apps, outages, cur, listed, budgets, history, faults>>

\* One List, without a retry.
ListApps ==
    /\ pc = "list"
    /\ IF "manager" \in conn
       THEN /\ listed' = exists \cup {Root}
            /\ stage' = "steps" /\ todo' = Steps
            /\ Goto("next")
       ELSE Goto("idle") /\ UNCHANGED <<stage, todo, listed>>
    /\ UNCHANGED <<git, apps, outages, cur, budgets, history, faults>>

-----------------------------------------------------------------------------
(* syncArgoCDApp, of cur.                                                   *)

Leave == Goto(IF stage = "steps" /\ cur \in Gated THEN "gate" ELSE "next")

\* Mutant: after the first Sync the App is only looked at again.
LookOnly ==
    /\ pc \in {"check", "recheck"} /\ Served(cur)
    /\ Compare(cur)
    /\ IF ReportsSynced(cur)
       THEN Leave /\ seen' = IF InSync(cur) THEN seen \cup {cur} ELSE seen
       ELSE Goto(IF pc = "check" THEN "sync" ELSE pc) /\ UNCHANGED seen
    /\ UNCHANGED <<apps, outages, loop, budgets, wanted, passed, faults>>

\* Before the first Sync and after each: synced, or another Sync.
Look ==
    /\ pc \in {"check", "recheck"} /\ Served(cur)
    /\ Compare(cur)
    /\ IF ReportsSynced(cur)
       THEN Leave /\ seen' = IF InSync(cur) THEN seen \cup {cur} ELSE seen
       ELSE Goto("sync") /\ UNCHANGED seen
    /\ UNCHANGED <<apps, outages, loop, budgets, wanted, passed, faults>>

\* Any error of that Get: reconnect and try again, as often as it takes.
LookFails ==
    /\ pc \in {"check", "recheck"} /\ ~Served(cur)
    /\ Reconnect(Client)
    /\ UNCHANGED <<git, apps, server, repoUp, loop, budgets, history, faults>>

\* codes.Unavailable: the port-forward is dead, before the call reached the
\* server or after.
SyncUnavailable ==
    /\ pc = "sync"
    /\ \/ "manager" \notin conn /\ UNCHANGED <<op, faults>>
       \/ "manager" \in conn /\ repoUp /\ Fault /\ op' = op \cup {cur}
    /\ IF transport < MaxTransport
       THEN transport' = transport + 1 /\ Reconnect(Client)
       ELSE Goto("idle") /\ UNCHANGED <<transport, conn>>
    /\ UNCHANGED <<git, exists, clean, deployed, server, repoUp, loop, repo, history>>

\* The revision cannot be resolved: a hard refresh, and again.
SyncRepoFails ==
    /\ pc = "sync" /\ "manager" \in conn /\ ~repoUp
    /\ IF repo < MaxRepo
       THEN repo' = repo + 1 /\ Compare(cur) /\ UNCHANGED pc
       ELSE Goto("idle") /\ UNCHANGED <<repo, git>>
    /\ UNCHANGED <<apps, outages, loop, transport, history, faults>>

\* While an operation of this App is running, the call is repeated until it is
\* over; otherwise it begins one.
SyncStarts ==
    /\ pc = "sync" /\ "manager" \in conn /\ repoUp
    /\ cur \notin op
    /\ op' = op \cup {cur}
    /\ Goto(IF cur = Root THEN "children" ELSE "recheck")
    /\ UNCHANGED <<git, exists, clean, deployed, outages, loop, budgets, history, faults>>

\* Every other error (permission denied, an App being deleted) ends the run.
SyncRefused ==
    /\ pc = "sync" /\ Fault
    /\ Goto("idle")
    /\ UNCHANGED <<git, apps, outages, loop, budgets, history>>

-----------------------------------------------------------------------------
(* waitForRootArgoCDChildren, over the global client.                       *)

\* Mutant: the wait is over as soon as root has been compared.
ChildrenReadyUnseen == reconciled /\ resources # {}

ChildrenReady == reconciled /\ resources # {} /\ resources \subseteq exists

ChildrenDone ==
    /\ pc = "children" /\ "global" \in conn
    /\ ChildrenReady
    /\ seen' = seen \cup {Root}
    /\ Leave
    /\ UNCHANGED <<git, apps, outages, loop, budgets, wanted, passed, faults>>

\* A failed query renews the global client only.
ChildrenQueryFails ==
    /\ pc = "children" /\ "global" \notin conn
    /\ Reconnect({"global"})
    /\ UNCHANGED <<git, apps, server, repoUp, loop, budgets, history, faults>>

\* Three minutes: for an operation that is slow (a fault) or that has failed.
ChildrenTimeout ==
    /\ pc = "children" /\ ~ChildrenReady
    /\ IF Root \in op THEN Fault ELSE UNCHANGED faults
    /\ Goto("idle")
    /\ UNCHANGED <<git, apps, outages, loop, budgets, history>>

-----------------------------------------------------------------------------
(* The AfterSync hooks.                                                     *)

Before(g) == {Steps[i] : i \in {j \in DOMAIN Steps : \E k \in DOMAIN Steps : j < k /\ Steps[k] = g}}

\* What a gate waits for (DNS, a certificate, a database) comes when the App and
\* those ordered before it have been applied.
Ready(g) == g \in deployed /\ Before(g) \cap desired \subseteq deployed

GatePasses ==
    /\ pc = "gate" /\ Ready(cur)
    /\ passed' = passed \cup {cur}
    /\ Goto("next")
    /\ UNCHANGED <<git, apps, outages, loop, budgets, wanted, seen, faults>>

\* Ten minutes without it, or an error.
GateFails ==
    /\ pc = "gate"
    /\ IF Ready(cur) THEN Fault ELSE UNCHANGED faults
    /\ Goto("idle")
    /\ UNCHANGED <<git, apps, outages, loop, budgets, history>>

Crash ==
    /\ pc \notin {"idle", "done"} /\ Fault
    /\ Goto("idle")
    /\ UNCHANGED <<git, apps, outages, loop, budgets, history>>

-----------------------------------------------------------------------------
(* ArgoCD and the default branch (external).                                *)
cli == <<pc, loop, budgets, history>>

\* Root's operation creates its children one by one.
CreateChild(a) ==
    /\ Root \in op /\ repoUp /\ a \in desired \ exists
    /\ exists' = exists \cup {a}
    /\ UNCHANGED <<git, clean, deployed, op, outages, cli, faults>>

OpSucceeds(a) ==
    /\ a \in op /\ repoUp
    /\ a = Root => desired \subseteq exists
    /\ op' = op \ {a}
    /\ clean' = clean \cup ({a} \cap App) /\ deployed' = deployed \cup ({a} \cap App)
    /\ Compare(a)
    /\ IF a = SelfApp THEN server' \in {"starting", "gone"} /\ conn' = {}
                      ELSE UNCHANGED <<server, conn>>
    /\ UNCHANGED <<exists, repoUp, cli, faults>>

OpFails(a) ==
    /\ a \in op /\ Fault
    /\ op' = op \ {a}
    /\ Compare(a)
    /\ UNCHANGED <<exists, clean, deployed, outages, cli>>

Drift(a) ==
    /\ a \in clean /\ Fault
    /\ clean' = clean \ {a}
    /\ UNCHANGED <<git, exists, deployed, op, outages, cli>>

\* Someone merges another App into the default branch.
Grow(a) ==
    /\ a \in App \ desired /\ Fault
    /\ desired' = desired \cup {a}
    /\ UNCHANGED <<resources, reconciled, known, apps, outages, cli>>

\* ArgoCD's own periodic comparison of the root App.
ReconcileRoot ==
    /\ repoUp
    /\ Compare(Root)
    /\ UNCHANGED <<apps, outages, cli, faults>>

ServerDown ==
    /\ server = "up" /\ Fault
    /\ server' \in {"starting", "gone"} /\ conn' = {}
    /\ UNCHANGED <<git, apps, repoUp, cli>>

ServerUp ==
    /\ server # "up" /\ server' = "up"
    /\ UNCHANGED <<git, apps, repoUp, conn, cli, faults>>

RepoDown ==
    /\ repoUp /\ Fault
    /\ repoUp' = FALSE
    /\ UNCHANGED <<git, apps, server, conn, cli>>

RepoUp ==
    /\ ~repoUp /\ repoUp' = TRUE
    /\ UNCHANGED <<git, apps, server, conn, cli, faults>>

-----------------------------------------------------------------------------
RunStep ==
    \/ NextApp \/ EndOfLoop \/ ListApps
    \/ Look \/ LookFails \/ SyncUnavailable \/ SyncRepoFails \/ SyncStarts
    \/ ChildrenDone \/ ChildrenQueryFails \/ ChildrenTimeout
    \/ GatePasses \/ GateFails

Operations ==
    \/ \E a \in App : CreateChild(a)
    \/ \E a \in All : OpSucceeds(a)

Next ==
    \/ StartRun \/ RunStep \/ SyncRefused \/ Crash
    \/ Operations \/ ReconcileRoot
    \/ \E a \in All : OpFails(a)
    \/ \E a \in App : Drift(a) \/ Grow(a)
    \/ ServerDown \/ ServerUp \/ RepoDown \/ RepoUp

Spec == Init /\ [][Next]_vars

\* A live run goes on, and the operator starts another one after it.
RunsGoOn == WF_vars(RunStep) /\ WF_vars(StartRun)

\* ArgoCD works off its operations and outages end.
FairSpec ==
    /\ Spec /\ RunsGoOn
    /\ WF_vars(Operations) /\ WF_vars(ReconcileRoot)
    /\ WF_vars(ServerUp) /\ WF_vars(RepoUp)

\* Outages of argocd-server need not end.
OutageSpec ==
    /\ Spec /\ RunsGoOn
    /\ WF_vars(Operations) /\ WF_vars(ReconcileRoot) /\ WF_vars(RepoUp)

-----------------------------------------------------------------------------
(* What must hold.                                                         *)

\* "each step's AfterSync hook firing right after that App syncs, before the
\* next step and before the remaining-apps loop" (TestSyncAllArgoCDAppsOrderedSteps):
\* no App is touched before the gates ordered ahead of it have been passed, for
\* every step the branch declared when the run began, however late ArgoCD
\* creates the Apps and whatever an earlier run left behind.
Ahead == IF stage = "steps" THEN Before(cur) ELSE InSeq(Steps)
GatesFirst ==
    pc \in {"check", "sync", "recheck"} /\ stage # "early"
        => wanted \cap Gated \cap Ahead \subseteq passed

\* A run that returns without an error has found every App of the branch in sync
\* at some moment (Velero aside, which passes as long as it has no resources).
DoneMeansSynced == pc = "done" => wanted \ ByResource \subseteq seen

\* However runs are interrupted, ArgoCD's operations fail or its server restarts
\* under the sync, re-running gets through: an operation that failed is issued
\* again (TestSyncArgoCDAppReissuesSync), and no retry budget wedges.
GetsThrough == []<>(pc = "done")

\* "A genuinely-down argocd-server still terminates the bootstrap", argo.go:650.
DownEndsRun == (pc = "check" /\ server # "up") ~> (server = "up" \/ pc = "idle")
=============================================================================
