---------------------------- MODULE Pivot_proofs ----------------------------
(***************************************************************************)
(* Theorems of Pivot, for every number of kills, webhook failures and tries *)
(* of the move back.  Where "devenv create" is run on a VPN cluster the      *)
(* claims are false (a closed load balancer passes for a cluster that has    *)
(* not been moved), so the theorems about owners assume that it is not.      *)
(*                                                                         *)
(* That there is one owner is not inductive: what a killed move leaves must  *)
(* be known.  PivotInv says that two copies of the Cluster are both paused,  *)
(* and where a move stands.  SettledInv says what runs that are not killed   *)
(* leave between two commands: one whole, unpaused copy.                     *)
(***************************************************************************)
EXTENDS Pivot, TLAPS

Copied(c) == "Cluster" \in objs[c]

\* Of two copies neither is acted on.
CopiesPaused == Copied("management") /\ Copied("main") => paused["management"] /\ paused["main"]

\* Whatever is in the main cluster was moved there over a working path.
MainBuilt == Copied("main") => kubeconfig /\ infra = "up"

\* Where the Cluster is while clusterctl moves it.
MovePosition ==
    /\ {from, to} = Place
    /\ pc = "checkMoved" => cmd = "delete"
    /\ pc = "create" => Copied(from) /\ paused[from]
    /\ pc \in {"createDeps", "deleteDeps", "delete"} => Copied(from) /\ Copied(to)
    /\ pc = "unpause" => ~Copied(from) /\ Copied(to) /\ paused[to]

\* A bootstrap reopens the load balancer before it asks whether to sync.
PathOpen ==
    /\ pc = "devenv" => (vpn => lbPublic)
    /\ cmd = "bootstrap" /\ pc \in {"provision", "setup", "pivot"} \cup Moving => (vpn => lbPublic)

PivotInv == TypeOK /\ CopiesPaused /\ MainBuilt /\ MovePosition /\ PathOpen

\* The machines stay up under a bootstrap that has found them up.
BootstrapInv ==
    cmd = "bootstrap" /\ pc \in {"setup", "pivot"} \cup Moving =>
        /\ kubeconfig /\ infra = "up"
        /\ ~deleting \/ Copied("main")
        /\ pc \in Moving => from = "management" /\ to = "main"

\* Every action keeps every variable in its range.
LEMMA TypeStep == TypeOK /\ [Next]_vars => TypeOK'
<1> SUFFICES ASSUME TypeOK, [Next]_vars PROVE TypeOK'
    OBVIOUS
<1> USE FlagsAssumption, CommandsAssumption, BoundsAssumption
    DEF TypeOK, PCs, Place, Obj, Goto, capi, path, run
<1>1. ASSUME NEW c \in Commands[vpn], NEW s \in SkipMoves, StartRun(c, s) PROVE TypeOK'
    <2>1. vpn \in VpnKinds => c \in Command
        OBVIOUS
    <2> QED BY <1>1, <2>1 DEF StartRun, Command
<1>2. CASE RunStep
    <2>1. CASE ProvisionPrerequisites
        BY <2>1 DEF ProvisionPrerequisites, Fronts
    <2>5. CASE SyncCapiCluster
        BY <2>5 DEF SyncCapiCluster
    <2>6. CASE ProvisionMain
        BY <2>6 DEF ProvisionMain
    <2>7. CASE SetupMain
        BY <2>7 DEF SetupMain
    <2>2. CASE BeginPivot \/ Finish
        BY <2>2 DEF BeginPivot, Finish
    <2>3. CASE MoveStep
        <3>1. CASE MovePause
            BY <3>1 DEF MovePause, AfterMove
        <3>2. ASSUME NEW o \in Obj, MoveCreate(o) PROVE TypeOK'
            BY <3>2 DEF MoveCreate
        <3>3. ASSUME NEW o \in Obj, MoveDelete(o) PROVE TypeOK'
            BY <3>3 DEF MoveDelete
        <3>4. CASE MoveUnpause
            BY <3>4 DEF MoveUnpause, AfterMove
        <3> QED BY <2>3, <3>1, <3>2, <3>3, <3>4 DEF MoveStep
    <2>4. CASE MoveBack
        BY <2>4 DEF MoveBack
    <2>8. CASE GetCluster
        BY <2>8 DEF GetCluster, UnmarkedPaused
    <2>9. CASE RequestDeletion
        BY <2>9 DEF RequestDeletion
    <2>10. CASE DisableDeletionProtection
        BY <2>10 DEF DisableDeletionProtection
    <2>11. CASE DeletionDone \/ Exit
        BY <2>11 DEF DeletionDone, Exit
    <2> QED BY <1>2, <2>1, <2>2, <2>3, <2>4, <2>5, <2>6, <2>7, <2>8, <2>9, <2>10, <2>11
            DEF RunStep
<1>3. CASE MoveFails
    BY <1>3 DEF MoveFails
<1>4. CASE Crash \/ GiveUpWaiting
    BY <1>4 DEF Crash, GiveUpWaiting
<1>5. CASE Build
    BY <1>5 DEF Build
<1>6. CASE Teardown
    BY <1>6 DEF Teardown
<1>7. CASE UNCHANGED vars
    BY <1>7 DEF vars
<1> QED BY <1>1, <1>2, <1>3, <1>4, <1>5, <1>6, <1>7 DEF Next

\* TypeOK holds of every reachable state, whatever the constants are.
THEOREM TypeCorrect == Spec => []TypeOK
<1>1. Init => TypeOK
    <2> SUFFICES ASSUME Init PROVE TypeOK
        OBVIOUS
    <2>1. /\ deleting \in BOOLEAN /\ kubeconfig \in BOOLEAN /\ lbPublic \in BOOLEAN
          /\ skip \in BOOLEAN
        BY Zenon DEF Init
    <2>2. tries \in 0 .. MaxTries /\ faults \in 0 .. MaxFaults
        BY BoundsAssumption DEF Init
    <2>3. objs \in [Place -> SUBSET Obj] /\ paused \in [Place -> BOOLEAN]
        BY DEF Init
    <2> QED BY <2>1, <2>2, <2>3 DEF Init, TypeOK, PCs, Place, Command
<1> QED BY <1>1, TypeStep, PTL DEF Spec

-----------------------------------------------------------------------------
\* "devenv create", which does not open the load balancer, is left to clusters
\* that have no private one.
NoDevenvOnVpn == TRUE \in VpnKinds => "devenv" \notin Commands[TRUE]

\* One step of the invariant, action by action: a second copy is only made of a
\* paused Cluster and is itself paused, and a copy is only resumed when it is
\* the last one.
LEMMA PivotStep == ASSUME NoDevenvOnVpn PROVE PivotInv /\ [Next]_vars => PivotInv'
<1> SUFFICES ASSUME PivotInv, [Next]_vars PROVE PivotInv'
    OBVIOUS
<1>0. TypeOK /\ TypeOK'
    BY TypeStep DEF PivotInv
<1> USE <1>0 DEF PivotInv, CopiesPaused, MainBuilt, MovePosition, PathOpen, Copied,
                 Goto, capi, path, run, Moving, Place, Obj
<1>1. ASSUME NEW c \in Commands[vpn], NEW s \in SkipMoves, StartRun(c, s) PROVE PivotInv'
    <2>1. c \in Command /\ (c = "devenv" => ~vpn)
        BY FlagsAssumption, CommandsAssumption DEF TypeOK, NoDevenvOnVpn
    <2> QED BY <1>1, <2>1 DEF StartRun, Command
<1>2. CASE RunStep
    <2>1. CASE ProvisionPrerequisites
        BY <2>1 DEF ProvisionPrerequisites
    <2>2. CASE SyncCapiCluster
        <3>1. ~Moved => ~Copied("main")
            BY <2>2 DEF SyncCapiCluster, Moved, Reachable
        <3> QED BY <2>2, <3>1 DEF SyncCapiCluster, TypeOK
    <2>3. CASE ProvisionMain
        BY <2>3 DEF ProvisionMain
    <2>4. CASE SetupMain
        BY <2>4 DEF SetupMain
    <2>5. CASE BeginPivot
        BY <2>5 DEF BeginPivot
    <2>6. CASE Finish
        BY <2>6 DEF Finish
    <2>7. CASE MoveStep
        <3>1. CASE MovePause
            BY <3>1 DEF MovePause, AfterMove, TypeOK
        <3>2. CASE MoveCreate("Cluster")
            BY <3>2 DEF MoveCreate, Reachable, TypeOK
        <3>3. CASE MoveCreate("Machines")
            BY <3>3 DEF MoveCreate, Reachable, TypeOK
        <3>4. CASE MoveDelete("Cluster")
            BY <3>4 DEF MoveDelete, Reachable, TypeOK
        <3>5. CASE MoveDelete("Machines")
            BY <3>5 DEF MoveDelete, Reachable, TypeOK
        <3>6. CASE MoveUnpause
            BY <3>6 DEF MoveUnpause, AfterMove, TypeOK
        <3> QED BY <2>7, <3>1, <3>2, <3>3, <3>4, <3>5, <3>6 DEF MoveStep
    <2>8. CASE MoveBack
        BY <2>8 DEF MoveBack
    <2>9. CASE GetCluster \/ DisableDeletionProtection \/ RequestDeletion \/ DeletionDone \/ Exit
        BY <2>9 DEF GetCluster, UnmarkedPaused, DisableDeletionProtection, RequestDeletion,
                    DeletionDone, Exit
    <2> QED BY <1>2, <2>1, <2>2, <2>3, <2>4, <2>5, <2>6, <2>7, <2>8, <2>9 DEF RunStep
<1>3. CASE MoveFails
    BY <1>3 DEF MoveFails
<1>4. CASE Crash \/ GiveUpWaiting
    BY <1>4 DEF Crash, GiveUpWaiting
<1>5. CASE Build
    BY <1>5 DEF Build
<1>6. CASE Teardown
    BY <1>6 DEF Teardown, Active, TypeOK
<1>7. CASE UNCHANGED vars
    BY <1>7 DEF vars
<1> QED BY <1>1, <1>2, <1>3, <1>4, <1>5, <1>6, <1>7 DEF Next

LEMMA PivotInvariant == ASSUME NoDevenvOnVpn PROVE Spec => []PivotInv
<1>1. Init => CopiesPaused /\ MainBuilt /\ MovePosition /\ PathOpen
    BY DEF Init, CopiesPaused, MainBuilt, MovePosition, PathOpen, Copied, Moving, Place
<1>2. Init /\ TypeOK => PivotInv
    BY <1>1 DEF PivotInv
<1> QED BY <1>2, TypeCorrect, PivotStep, PTL DEF Spec

\* The machines never have two sets of controllers acting on them, however
\* bootstrap, devenv create and delete are killed and run again.
THEOREM OneOwner == ASSUME NoDevenvOnVpn PROVE Spec => []SingleOwner
<1>1. PivotInv => SingleOwner
    BY DEF PivotInv, CopiesPaused, Copied, SingleOwner, Active
<1> QED BY <1>1, PivotInvariant, PTL

-----------------------------------------------------------------------------
(* The refinement.                                                         *)

LEMMA OwnerInit == Init => Owner!Init
BY DEF Init, Owner!Init, Active, Place

\* Only the move's pause and its resume change who acts on the Cluster, besides
\* the sync that creates it and the teardown that ends it.
LEMMA OwnerStep ==
    ASSUME NoDevenvOnVpn, PivotInv, PivotInv', [Next]_vars
    PROVE  [Owner!Next]_<<{c \in Place : Active(c)}, infra # "none">>
<1> DEFINE owners == {c \in Place : Active(c)}
<1> USE DEF PivotInv, CopiesPaused, MainBuilt, MovePosition, Copied, Active, Goto,
            capi, path, run, Place
<1> SUFFICES Owner!Next \/ (owners' = owners /\ (infra # "none")' = (infra # "none"))
    OBVIOUS
<1>1. ASSUME UNCHANGED <<objs, paused, infra>>
      PROVE  owners' = owners /\ (infra # "none")' = (infra # "none")
    BY <1>1
<1>2. CASE SyncCapiCluster
    <2>1. CASE Moved
        BY <1>2, <2>1, <1>1 DEF SyncCapiCluster
    <2>2. CASE ~Moved
        <3>1. ~Copied("main") /\ infra' = infra /\ paused' = paused
            BY <1>2, <2>2 DEF SyncCapiCluster, Moved, Reachable, PathOpen
        <3>2. objs' = [objs EXCEPT !["management"] = Obj]
            BY <1>2, <2>2 DEF SyncCapiCluster
        <3>3. objs'["main"] = objs["main"] /\ objs'["management"] = Obj
            BY <3>2 DEF TypeOK
        <3>4. CASE paused["management"]
            BY <3>1, <3>3, <3>4
        <3>5. CASE ~paused["management"]
            <4>1. owners' = {"management"} /\ owners \subseteq {"management"}
                BY <3>1, <3>3, <3>5 DEF Obj
            <4>2. CASE owners = {}
                BY <3>1, <4>1, <4>2 DEF Owner!Next, Owner!Claim
            <4>3. CASE owners = {"management"}
                BY <3>1, <4>1, <4>3
            <4> QED BY <4>1, <4>2, <4>3
        <3> QED BY <3>4, <3>5
    <2> QED BY <2>1, <2>2
<1>3. CASE MovePause
    <2>1. CASE "Cluster" \notin objs[from]
        BY <1>3, <2>1, <1>1 DEF MovePause
    <2>2. CASE "Cluster" \in objs[from]
        <3>1. objs' = objs /\ infra' = infra /\ paused'[from] /\ paused'[to] = paused[to]
            BY <1>3, <2>2 DEF MovePause, TypeOK
        <3>2. CASE Active(from)
            <4>1. owners' = {}
                BY <3>1, <3>2 DEF TypeOK
            <4> QED BY <3>1, <4>1 DEF Owner!Next, Owner!Release
        <3>3. CASE ~Active(from)
            BY <3>1, <3>3 DEF TypeOK
        <3> QED BY <3>2, <3>3
    <2> QED BY <2>1, <2>2
<1>4. CASE MoveCreate("Cluster")
    BY <1>4 DEF MoveCreate, TypeOK, Obj
<1>5. CASE MoveCreate("Machines")
    BY <1>5 DEF MoveCreate, TypeOK, Obj
<1>6. CASE MoveDelete("Cluster")
    BY <1>6 DEF MoveDelete, TypeOK, Obj
<1>7. CASE MoveDelete("Machines")
    BY <1>7 DEF MoveDelete, TypeOK, Obj
<1>8. CASE MoveUnpause
    <2>1. owners = {} /\ owners' = {to} /\ infra' = infra
        BY <1>8 DEF MoveUnpause, TypeOK
    <2> QED BY <2>1 DEF Owner!Next, Owner!Claim
<1>9. CASE Build
    <2>1. owners = {"management"} /\ owners' = owners
        BY <1>9 DEF Build, TypeOK
    <2> QED BY <1>9, <2>1 DEF Build, Owner!Next, Owner!Build
<1>10. CASE Teardown
    <2>1. owners = {"management"} /\ owners' = {}
        BY <1>10 DEF Teardown, TypeOK
    <2>2. CASE infra' = infra
        BY <2>1, <2>2 DEF Owner!Next, Owner!Release
    <2>3. CASE infra' # infra
        BY <1>10, <2>1, <2>3 DEF Teardown, TypeOK, Owner!Next, Owner!Destroy
    <2> QED BY <2>2, <2>3
<1>11. CASE GetCluster
    BY <1>11, <1>1 DEF GetCluster, UnmarkedPaused
<1>12. ASSUME NEW c \in Commands[vpn], NEW s \in SkipMoves, StartRun(c, s)
       PROVE  UNCHANGED <<objs, paused, infra>>
    BY <1>12 DEF StartRun
<1>13. CASE \/ ProvisionPrerequisites \/ ProvisionMain \/ SetupMain \/ BeginPivot \/ Finish
            \/ MoveBack \/ DisableDeletionProtection \/ RequestDeletion \/ DeletionDone \/ Exit
            \/ MoveFails \/ Crash \/ GiveUpWaiting \/ UNCHANGED vars
    BY <1>13, <1>1 DEF ProvisionPrerequisites, ProvisionMain, SetupMain, BeginPivot, Finish,
       MoveBack, DisableDeletionProtection, RequestDeletion, DeletionDone, Exit, MoveFails, Crash,
       GiveUpWaiting, vars
<1> QED BY <1>1, <1>2, <1>3, <1>4, <1>5, <1>6, <1>7, <1>8, <1>9, <1>10, <1>11, <1>12, <1>13
        DEF Next, RunStep, MoveStep, Obj

\* Pivot implements ClusterOwner: one owner at a time, an unowned moment between
\* two, and machines that only the management cluster destroys.
THEOREM PivotImplementsOwner == ASSUME NoDevenvOnVpn PROVE Spec => ImplementsOwner
BY OwnerInit, OwnerStep, PivotInvariant, PTL DEF Spec, ImplementsOwner, Owner!Spec

-----------------------------------------------------------------------------
\* The path stays open while bootstrap needs it.
LEMMA BootstrapStep ==
    ASSUME NoDevenvOnVpn PROVE PivotInv /\ BootstrapInv /\ [Next]_vars => BootstrapInv'
<1> SUFFICES ASSUME PivotInv, BootstrapInv, [Next]_vars PROVE BootstrapInv'
    OBVIOUS
<1> USE DEF PivotInv, CopiesPaused, MainBuilt, BootstrapInv, Copied, Goto,
            capi, path, run, Moving, Place, Obj
<1>1. ASSUME NEW c \in Commands[vpn], NEW s \in SkipMoves, StartRun(c, s)
      PROVE  BootstrapInv'
    BY <1>1 DEF StartRun
<1>2. CASE RunStep
    <2>1. CASE ProvisionPrerequisites \/ SyncCapiCluster \/ SetupMain \/ Finish \/ Exit
        BY <2>1 DEF ProvisionPrerequisites, SyncCapiCluster, SetupMain, Finish, Exit
    <2>2. CASE ProvisionMain
        BY <2>2 DEF ProvisionMain, Moved, Reachable
    <2>3. CASE BeginPivot
        BY <2>3 DEF BeginPivot
    <2>4. CASE MoveStep
        <3>1. CASE MovePause \/ MoveUnpause
            BY <3>1 DEF MovePause, MoveUnpause, AfterMove
        <3>2. ASSUME NEW o \in Obj, MoveCreate(o) PROVE BootstrapInv'
            BY <3>2 DEF MoveCreate, TypeOK
        <3>3. ASSUME NEW o \in Obj, MoveDelete(o) PROVE BootstrapInv'
            BY <3>3 DEF MoveDelete, TypeOK
        <3> QED BY <2>4, <3>1, <3>2, <3>3 DEF MoveStep
    <2>5. CASE \/ MoveBack \/ GetCluster \/ DisableDeletionProtection
               \/ RequestDeletion \/ DeletionDone
        BY <2>5 DEF MoveBack, GetCluster, DisableDeletionProtection, RequestDeletion,
                    DeletionDone, MovePosition
    <2> QED BY <1>2, <2>1, <2>2, <2>3, <2>4, <2>5 DEF RunStep
<1>3. CASE MoveFails
    BY <1>3 DEF MoveFails
<1>4. CASE Crash \/ GiveUpWaiting
    BY <1>4 DEF Crash, GiveUpWaiting
<1>5. CASE Build
    BY <1>5 DEF Build
<1>6. CASE Teardown
    BY <1>6 DEF Teardown, Active, TypeOK
<1>7. CASE UNCHANGED vars
    BY <1>7 DEF vars
<1> QED BY <1>1, <1>2, <1>3, <1>4, <1>5, <1>6, <1>7 DEF Next

\* While bootstrap talks to the main cluster, the way to it is open: nothing
\* closes the load balancer or tears the machines down under it.
THEOREM PathStaysOpen == ASSUME NoDevenvOnVpn PROVE Spec => []PublicThroughout
<1>1. Init => BootstrapInv
    BY DEF Init, BootstrapInv, Moving
<1>2. PivotInv /\ BootstrapInv => PublicThroughout
    BY DEF PivotInv, PathOpen, BootstrapInv, PublicThroughout, Reachable, Moving
<1> QED BY <1>1, <1>2, BootstrapStep, PivotInvariant, PTL DEF Spec
-----------------------------------------------------------------------------
\* While nothing has been killed and no move has failed, the resources are whole, in
\* one place and not paused, and a move goes through the states clusterctl means it to.
Settled ==
    /\ \A c \in Place : objs[c] \in {{}, Obj} /\ ~paused[c]
    /\ \E c \in Place : objs[c] = {}

MoveSettled ==
    /\ pc = "pause" => objs[from] = Obj /\ objs[to] = {} /\ ~paused[from] /\ ~paused[to]
    /\ pc = "create" => objs[from] = Obj /\ objs[to] = {} /\ paused[from] /\ ~paused[to]
    /\ pc = "createDeps" =>
          objs[from] = Obj /\ objs[to] = {"Cluster"} /\ paused[from] /\ paused[to]
    /\ pc = "deleteDeps" => objs[from] = Obj /\ objs[to] = Obj /\ paused[from] /\ paused[to]
    /\ pc = "delete" =>
          objs[from] = {"Cluster"} /\ objs[to] = Obj /\ paused[from] /\ paused[to]
    /\ pc = "unpause" => objs[from] = {} /\ objs[to] = Obj /\ ~paused[from] /\ paused[to]

\* A bootstrap that has found the cluster keeps it: no deletion is under way.
Found ==
    /\ cmd = "bootstrap" /\ pc \in {"setup", "pivot", "finish", "done"} =>
          (objs["management"] = Obj /\ ~deleting) \/ objs["main"] = Obj
    /\ pc \in {"prereq", "provision", "setup", "pivot"} => cmd = "bootstrap"
    /\ pc = "devenv" => cmd # "delete"
    /\ pc \in {"checkMoved", "get", "unprotect", "request", "wait"} => cmd = "delete"
    /\ pc \in Moving =>
          \/ cmd = "bootstrap" /\ from = "management" /\ ~deleting
          \/ cmd = "delete" /\ from = "main"

SettledInv == faults = 0 => (pc \notin Moving => Settled) /\ MoveSettled /\ Found

LEMMA SettledStep ==
    ASSUME NoDevenvOnVpn PROVE PivotInv /\ SettledInv /\ [Next]_vars => SettledInv'
<1> SUFFICES ASSUME PivotInv, SettledInv, [Next]_vars, faults' = 0
             PROVE  (pc' \notin Moving => Settled') /\ MoveSettled' /\ Found'
    BY DEF SettledInv
<1>0. TypeOK /\ faults = 0 /\ MovePosition /\ (pc \notin Moving => Settled) /\ MoveSettled /\ Found
    <2>1. faults' = faults \/ faults' = faults + 1
        BY Zenon DEF Next, vars, StartRun, RunStep, ProvisionPrerequisites,
           SyncCapiCluster, ProvisionMain, SetupMain, BeginPivot, Finish, MoveStep, MovePause,
           MoveCreate, MoveDelete, MoveUnpause, MoveBack, GetCluster, DisableDeletionProtection,
           RequestDeletion,
           DeletionDone, Exit, MoveFails, Crash, GiveUpWaiting, Build, Teardown
    <2>2. faults = 0
        BY <2>1, BoundsAssumption DEF PivotInv, TypeOK
    <2> QED BY <2>2 DEF PivotInv, SettledInv
<1> USE <1>0 DEF MovePosition, Settled, MoveSettled, Found, Goto, capi, path, run, Moving, Place,
                 Obj, Copied
<1>1. ASSUME NEW c \in Commands[vpn], NEW s \in SkipMoves, StartRun(c, s)
      PROVE  (pc' \notin Moving => Settled') /\ MoveSettled' /\ Found'
    <2>1. c \in Command
        BY FlagsAssumption, CommandsAssumption DEF TypeOK
    <2>2. pc' \in {"prereq", "devenv", "checkMoved"} /\ pc = "idle"
        BY <1>1, <2>1 DEF StartRun, Command
    <2> QED BY <1>1, <2>1, <2>2 DEF StartRun, Command
<1>2. CASE RunStep
    <2>1. CASE ProvisionPrerequisites
        BY <2>1 DEF ProvisionPrerequisites
    <2>2. CASE SyncCapiCluster
        <3>1. ~Moved => ~Copied("main")
            BY <2>2 DEF SyncCapiCluster, Moved, Reachable, PivotInv, MainBuilt, PathOpen
        <3>2. pc' \in {"done", "provision"} /\ pc = "devenv"
            BY <2>2 DEF SyncCapiCluster
        <3> QED BY <2>2, <3>1, <3>2 DEF SyncCapiCluster, TypeOK, Command
    <2>3. CASE ProvisionMain
        BY <2>3 DEF ProvisionMain, Moved
    <2>4. CASE SetupMain
        BY <2>4 DEF SetupMain
    <2>5. CASE BeginPivot
        BY <2>5 DEF BeginPivot, Moved
    <2>6. CASE Finish
        BY <2>6 DEF Finish
    <2>7. CASE MoveStep
        <3> USE DEF TypeOK
        <3>1. CASE MovePause
            BY <3>1 DEF MovePause
        <3>2. CASE MoveCreate("Cluster")
            BY <3>2 DEF MoveCreate
        <3>3. CASE MoveCreate("Machines")
            BY <3>3 DEF MoveCreate
        <3>4. CASE MoveDelete("Cluster")
            BY <3>4 DEF MoveDelete
        <3>5. CASE MoveDelete("Machines")
            BY <3>5 DEF MoveDelete
        <3>6. CASE MoveUnpause
            BY <3>6 DEF MoveUnpause, AfterMove
        <3> QED BY <2>7, <3>1, <3>2, <3>3, <3>4, <3>5, <3>6 DEF MoveStep
    <2>8. CASE MoveBack
        BY <2>8 DEF MoveBack, Moved
    <2>9. CASE GetCluster
        BY <2>9 DEF GetCluster, UnmarkedPaused
    <2>10. CASE DisableDeletionProtection \/ RequestDeletion
        BY <2>10 DEF DisableDeletionProtection, RequestDeletion
    <2>11. CASE DeletionDone \/ Exit
        BY <2>11 DEF DeletionDone, Exit
    <2> QED BY <1>2, <2>1, <2>2, <2>3, <2>4, <2>5, <2>6, <2>7, <2>8, <2>9, <2>10, <2>11
            DEF RunStep
<1>3. CASE MoveFails \/ Crash
    BY <1>3 DEF MoveFails, Crash
<1>4. CASE GiveUpWaiting
    BY <1>4 DEF GiveUpWaiting
<1>5. CASE Build
    BY <1>5 DEF Build
<1>6. CASE Teardown
    <2>1. pc \notin Moving
        BY <1>6 DEF Teardown, Active
    <2>2. objs["management"] = Obj /\ objs["main"] = {}
        BY <1>6, <2>1 DEF Teardown, Active
    <2>3. /\ objs'["management"] = {} /\ objs'["main"] = {}
          /\ ~paused'["management"] /\ ~paused'["main"]
        BY <1>6, <2>1, <2>2 DEF Teardown
    <2> QED BY <1>6, <2>1, <2>2, <2>3 DEF Teardown, Active
<1>7. CASE UNCHANGED vars
    BY <1>7 DEF vars
<1> QED BY <1>1, <1>2, <1>3, <1>4, <1>5, <1>6, <1>7 DEF Next

\* A bootstrap that ends well leaves the whole cluster to controllers that act on it, as
\* long as nothing has been killed: this is what IsClusterctlMoveExecuted can be trusted for.
THEOREM ManagedUntilKilled == ASSUME NoDevenvOnVpn PROVE Spec => []ManagedWhenDone
<1>1. Init => SettledInv
    BY DEF Init, SettledInv, Settled, MoveSettled, Found, Moving, Place
<1>2. SettledInv => ManagedWhenDone
    BY DEF SettledInv, Settled, Found, ManagedWhenDone, Managed, Active, Moving, Place, Obj
<1> QED BY <1>1, <1>2, SettledStep, PivotInvariant, PTL DEF Spec

-----------------------------------------------------------------------------
(* The end of a bootstrap: theorems of Lockdown, for every set of clusters  *)
(* and every number of faults.  KeyBeforeLock is not inductive: a policy     *)
(* that is not live yet may be merged already, or wait in an open pull       *)
(* request, and a run may be past the gate.  KeyInv says of all four that    *)
(* the key comes first.                                                     *)

CONSTANT Kinds
VARIABLES kind, persisted, known, prs, branch, ccnp, lb, secret, phase

\* The other parameters and variables, MaxFaults, pc and faults, have the same names.
L == INSTANCE Lockdown

\* The steps of a run that the token gate has let through.
PastGate == {"lockdown", "apply", "raise", "push", "disable"}

KeyInv ==
    kind.operator /\ ~secret =>
        /\ ~ccnp /\ lb # "private"
        /\ ~persisted /\ "lockdown" \notin prs
        /\ pc \notin PastGate

\* Every action keeps every variable in its range.
LEMMA LockdownTypeStep == L!TypeOK /\ [L!Next]_(L!vars) => L!TypeOK'
<1> SUFFICES ASSUME L!TypeOK, [L!Next]_(L!vars) PROVE L!TypeOK'
    OBVIOUS
<1> USE BoundsAssumption DEF L!TypeOK, L!PCs, L!Goto, L!Fault, L!config, L!network
<1>1. CASE L!StartRun
    BY <1>1 DEF L!StartRun
<1>2. CASE L!RunStep
    <2>1. CASE L!ProvisionPrerequisites \/ L!OpenClone \/ L!Render \/ L!RenderMerged \/ L!SetupMain
        BY <2>1 DEF L!ProvisionPrerequisites, L!OpenClone, L!Render, L!RenderMerged, L!SetupMain,
                    L!AfterRender
    <2>2. CASE L!SyncApps \/ L!DisableLB \/ L!Exit
        BY <2>2 DEF L!SyncApps, L!DisableLB, L!Exit
    <2>3. CASE L!Gate
        BY <2>3 DEF L!Gate, L!GatePassed, L!GateUnreachable, L!PasteToken, L!WaitOrDefer,
            L!AwaitDone
    <2>4. CASE L!LockdownStep
        BY <2>4 DEF L!LockdownStep, L!SkipLockdown, L!ConfirmLockdown, L!ApplyCCNP,
            L!ApplyCCNPFails,
                    L!RaiseLockdownPR, L!PushLockdown, L!PushRejected
    <2> QED BY <1>2, <2>1, <2>2, <2>3, <2>4 DEF L!RunStep
<1>3. CASE L!AwaitTimeout
    BY <1>3 DEF L!AwaitTimeout
<1>4. CASE L!Crash
    BY <1>4 DEF L!Crash
<1>5. CASE L!Environment
    <2>1. CASE L!CreateSecret \/ L!LoseClone
        BY <2>1 DEF L!CreateSecret, L!LoseClone
    <2>2. ASSUME NEW p \in prs, L!MergePR(p) PROVE L!TypeOK'
        BY <2>2 DEF L!MergePR
    <2>3. CASE L!ArgoSync
        BY <2>3 DEF L!ArgoSync
    <2> QED BY <1>5, <2>1, <2>2, <2>3 DEF L!Environment
<1>6. CASE UNCHANGED L!vars
    BY <1>6 DEF L!vars
<1> QED BY <1>1, <1>2, <1>3, <1>4, <1>5, <1>6 DEF L!Next

\* TypeOK holds of every reachable state, whatever Kinds and MaxFaults are.
THEOREM LockdownTypeCorrect == L!Spec => []L!TypeOK
<1>1. L!Init => L!TypeOK
    <2> SUFFICES ASSUME L!Init PROVE L!TypeOK
        OBVIOUS
    <2>1. faults \in 0 .. MaxFaults
        BY BoundsAssumption DEF L!Init
    <2>2. /\ persisted \in BOOLEAN /\ known \in BOOLEAN /\ branch \in BOOLEAN
          /\ ccnp \in BOOLEAN /\ secret \in BOOLEAN
        BY Zenon DEF L!Init
    <2> QED BY <2>1, <2>2 DEF L!Init, L!TypeOK, L!PCs
<1> QED BY <1>1, LockdownTypeStep, PTL DEF L!Spec

\* The key comes first in every step: only the gate lets a run past, only a
\* run past the gate closes something or opens the pull request, and only that
\* pull request makes ArgoCD close something.
LEMMA KeyStep == KeyInv /\ [L!Next]_(L!vars) => KeyInv'
<1> SUFFICES ASSUME KeyInv, [L!Next]_(L!vars) PROVE KeyInv'
    OBVIOUS
<1> USE DEF KeyInv, PastGate, L!Goto, L!Fault, L!config, L!network
<1>1. CASE L!StartRun
    BY <1>1 DEF L!StartRun
<1>2. CASE L!RunStep
    <2>1. CASE L!ProvisionPrerequisites \/ L!OpenClone \/ L!Render \/ L!RenderMerged \/ L!SetupMain
        BY <2>1 DEF L!ProvisionPrerequisites, L!OpenClone, L!Render, L!RenderMerged, L!SetupMain,
                    L!AfterRender
    <2>2. CASE L!SyncApps \/ L!DisableLB \/ L!Exit
        BY <2>2 DEF L!SyncApps, L!DisableLB, L!Exit
    <2>3. CASE L!Gate
        BY <2>3 DEF L!Gate, L!GatePassed, L!GateUnreachable, L!PasteToken, L!WaitOrDefer,
            L!AwaitDone
    <2>4. CASE L!LockdownStep
        BY <2>4 DEF L!LockdownStep, L!SkipLockdown, L!ConfirmLockdown, L!ApplyCCNP,
            L!ApplyCCNPFails,
                    L!RaiseLockdownPR, L!PushLockdown, L!PushRejected
    <2> QED BY <1>2, <2>1, <2>2, <2>3, <2>4 DEF L!RunStep
<1>3. CASE L!AwaitTimeout \/ L!Crash
    BY <1>3 DEF L!AwaitTimeout, L!Crash
<1>4. CASE L!Environment
    BY <1>4 DEF L!Environment, L!CreateSecret, L!MergePR, L!ArgoSync, L!LoseClone
<1>5. CASE UNCHANGED L!vars
    BY <1>5 DEF L!vars
<1> QED BY <1>1, <1>2, <1>3, <1>4, <1>5 DEF L!Next

\* No cluster that hosts the netbird-operator is closed before its key exists.
THEOREM KeyAlwaysFirst == L!Spec => []L!KeyBeforeLock
<1>1. L!Init => KeyInv
    BY DEF L!Init, KeyInv, PastGate
<1>2. KeyInv => L!KeyBeforeLock
    BY DEF KeyInv, L!KeyBeforeLock
<1> QED BY <1>1, <1>2, KeyStep, PTL DEF L!Spec

\* A step that closes the path to kube-apiserver is the last but for calls that
\* need no cluster, or ArgoCD's.
THEOREM PathClosedLast == L!Spec => L!ClosedLast
<1> DEFINE Cut == L!Reachable /\ ~L!Reachable' => pc' \in {"raise", "done"} \/ persisted
<1>1. L!TypeOK /\ [L!Next]_(L!vars) => [Cut]_(L!vars)
    <2> SUFFICES ASSUME L!TypeOK, [L!Next]_(L!vars), ~UNCHANGED L!vars PROVE Cut
        OBVIOUS
    <2> USE DEF L!TypeOK, L!Reachable, L!Goto, L!config, L!network
    <2>1. CASE L!StartRun
        BY <2>1 DEF L!StartRun
    <2>2. CASE L!RunStep
        <3>1. CASE \/ L!ProvisionPrerequisites \/ L!OpenClone
                   \/ L!Render \/ L!RenderMerged \/ L!SetupMain
            BY <3>1 DEF L!ProvisionPrerequisites, L!OpenClone, L!Render, L!RenderMerged, L!SetupMain
        <3>2. CASE L!SyncApps \/ L!DisableLB \/ L!Exit
            BY <3>2 DEF L!SyncApps, L!DisableLB, L!Exit
        <3>3. CASE L!Gate
            BY <3>3 DEF L!Gate, L!GatePassed, L!GateUnreachable, L!PasteToken, L!WaitOrDefer,
                L!AwaitDone
        <3>4. CASE L!LockdownStep
            BY <3>4 DEF L!LockdownStep, L!SkipLockdown, L!ConfirmLockdown, L!ApplyCCNP,
                        L!ApplyCCNPFails, L!RaiseLockdownPR, L!PushLockdown, L!PushRejected
        <3> QED BY <2>2, <3>1, <3>2, <3>3, <3>4 DEF L!RunStep
    <2>3. CASE L!AwaitTimeout \/ L!Crash
        BY <2>3 DEF L!AwaitTimeout, L!Crash
    <2>4. CASE L!Environment
        BY <2>4 DEF L!Environment, L!CreateSecret, L!MergePR, L!ArgoSync, L!LoseClone
    <2> QED BY <2>1, <2>2, <2>3, <2>4 DEF L!Next
<1> QED BY <1>1, LockdownTypeCorrect, PTL DEF L!Spec, L!ClosedLast
=============================================================================
