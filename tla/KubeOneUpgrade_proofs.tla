------------------------ MODULE KubeOneUpgrade_proofs ------------------------
(***************************************************************************)
(* What KubeOneUpgrade guarantees for any hosts, versions and bounds, while  *)
(* a run reads the live cluster: hop by hop, sync without version changes,  *)
(* a skew that stays small, workers behind their masters, and no host taken *)
(* beyond the cgroup v1 boundary that could not start.                      *)
(* And, of the same command, the theorems of PdbGuard.                      *)
(***************************************************************************)
EXTENDS KubeOneUpgrade, FiniteSetTheorems, TLAPS

\* The program counters after the version check of a run that goes on, and those
\* after the cgroup check.
PastVersion == {"nodes", "cgroup", "push", "merge", "hosts", "apply", "wait"}
PastCGroup  == {"push", "merge", "hosts", "apply", "wait"}

\* An upgrade that read the live cluster is at most one hop ahead of each kubelet,
\* from the check to the last host.
OneHopAhead ==
    fromLive /\ cmd = "upgrade" /\ pc \in PastVersion =>
        \A h \in Host : kubelet[h] # NotJoined =>
            AtLeast(kubelet[h], target) \/ LegalHop(kubelet[h], target)

\* A sync that did is behind none of them, or level.
NothingBehind ==
    fromLive /\ cmd = "sync" /\ pc \in PastVersion =>
        \A h \in Host : kubelet[h] # NotJoined => AtLeast(kubelet[h], target)

\* And neither is behind all of them: a host that joins at the target is not left behind.
NotBehindAll ==
    fromLive /\ pc \in PastVersion =>
        \E h \in Host : kubelet[h] # NotJoined /\ kubelet[h][1] <= target[1]

\* Past the check every host of the parsed configuration is on cgroup v2.
HostsReady ==
    cmd = "upgrade" /\ pc \in PastCGroup /\ Beyond(target) => hosts \subseteq v2

UpgradeInv == TypeOK /\ OneHopAhead /\ NothingBehind /\ HostsReady

-----------------------------------------------------------------------------
(* Versions.                                                               *)

\* The order of versions is total on those there are.
LEMMA OlderOrLevel ==
    ASSUME NEW a \in Nat \X Nat, NEW b \in Nat \X Nat
    PROVE  Older(a, b) \/ AtLeast(a, b)
BY DEF AtLeast

\* A hop that is legal from the lowest version is legal from each one that is
\* behind the target.
LEMMA HopFromLowest ==
    ASSUME NEW low \in Nat \X Nat, NEW v \in Nat \X Nat, NEW goal \in Nat \X Nat,
           AtLeast(v, low), LegalHop(low, goal)
    PROVE  AtLeast(v, goal) \/ LegalHop(v, goal)
BY DEF AtLeast, LegalHop, Older

\* A host that has not joined is behind every version.
LEMMA NotJoinedIsOld ==
    ASSUME NEW v \in Version
    PROVE  Older(NotJoined, v)
BY VersionAssumption, NameAssumption DEF Older, NotJoined

-----------------------------------------------------------------------------
LEMMA TypeInit == Init => TypeOK
<1> SUFFICES ASSUME Init PROVE TypeOK
    OBVIOUS
<1> USE VersionAssumption, NameAssumption, BoundsAssumption, HostAssumption
<1>1. kubelet \in [Host -> Version \cup {NotJoined}]
    BY DEF Init
<1>2. prs \subseteq PullRequest /\ edits \in 0 .. MaxEdits /\ faults \in 0 .. MaxFaults
    BY DEF Init
<1> QED
    BY <1>1, <1>2 DEF Init, TypeOK

LEMMA TypeStep == TypeOK /\ [Next]_vars => TypeOK'
<1> SUFFICES ASSUME TypeOK, [Next]_vars PROVE TypeOK'
    OBVIOUS
<1> USE VersionAssumption, NameAssumption, BoundsAssumption, HostAssumption
<1>1. CASE Upgrade
    BY <1>1 DEF TypeOK, Upgrade, Start, Goto, config, cluster, bounds
<1>2. CASE Sync
    BY <1>2 DEF TypeOK, Sync, Start, Goto, config, cluster, bounds
<1>3. CASE ReadVersion
    BY <1>3 DEF TypeOK, ReadVersion, Goto, Proceed, Reachable, config, repo, cluster, parsed,
                apply, bounds
<1>4. CASE CheckNodes
    BY <1>4 DEF TypeOK, CheckNodes, Goto, config, repo, cluster, parsed, apply, bounds
<1>5. CASE CheckCGroup
    BY <1>5 DEF TypeOK, CheckCGroup, Goto, config, repo, cluster, parsed, apply, bounds
<1>6. CASE DeclineSync
    BY <1>6 DEF TypeOK, DeclineSync, Goto, config, repo, cluster, parsed, apply, bounds
<1>7. CASE NothingToPush
    BY <1>7 DEF TypeOK, NothingToPush, Goto, config, repo, cluster, parsed, apply, bounds
<1>8. CASE OpenPR
    BY <1>8 DEF TypeOK, OpenPR, Goto, PullRequest, config, cluster, parsed, apply, bounds
<1>9. CASE PushDirectly
    BY <1>9 DEF TypeOK, PushDirectly, Goto, config, cluster, parsed, apply, bounds
<1>10. CASE PRMerged
    BY <1>10 DEF TypeOK, PRMerged, Goto, config, cluster, parsed, apply, bounds
<1>11. CASE CheckHosts
    BY <1>11 DEF TypeOK, CheckHosts, Goto, config, repo, cluster, parsed, bounds
<1>12. ASSUME NEW h \in Host, TakeHost(h) PROVE TypeOK'
    BY <1>12 DEF TypeOK, TakeHost, Turn, NeedsWork, config, repo, parsed, bounds
<1>13. CASE FinishHost
    BY <1>13 DEF TypeOK, FinishHost, config, repo, parsed, bounds
<1>14. CASE ApplyRefused
    BY <1>14 DEF TypeOK, ApplyRefused, Goto, config, repo, cluster, parsed, apply, bounds
<1>15. CASE ApplyDone
    BY <1>15 DEF TypeOK, ApplyDone, Goto, config, repo, cluster, parsed, apply, bounds
<1>16. CASE Confirmed
    BY <1>16 DEF TypeOK, Confirmed, Goto, config, repo, cluster, parsed, apply, bounds
<1>17. CASE WaitTimeout
    BY <1>17 DEF TypeOK, WaitTimeout, Goto, config, repo, cluster, parsed, apply, bounds
<1>18. CASE Crash
    BY <1>18 DEF TypeOK, Crash, Goto, config, repo, parsed
<1>19. ASSUME NEW p \in prs, Merge(p) PROVE TypeOK'
    BY <1>19 DEF TypeOK, Merge, PullRequest, config, cluster, run, parsed, apply, bounds
<1>20. ASSUME NEW v \in Version, Declare(v) PROVE TypeOK'
    BY <1>20 DEF TypeOK, Declare, Edit, repo, cluster, run, parsed, apply
<1>21. ASSUME NEW h \in Host, ListHost(h) PROVE TypeOK'
    BY <1>21 DEF TypeOK, ListHost, Edit, repo, cluster, run, parsed, apply
<1>22. ASSUME NEW h \in Host, Repair(h) PROVE TypeOK'
    BY <1>22 DEF TypeOK, Repair, config, repo, run, parsed, apply, bounds
<1>23. ASSUME NEW h \in Host, SwitchToV2(h) PROVE TypeOK'
    BY <1>23 DEF TypeOK, SwitchToV2, config, repo, run, parsed, apply, bounds
<1>24. CASE LoseConnection
    <2>1. faults' \in 0 .. MaxFaults
        BY <1>24 DEF TypeOK, LoseConnection
    <2> QED
        BY <1>24, <2>1 DEF TypeOK, LoseConnection, config, repo, cluster, run, parsed, apply
<1>25. CASE Connect
    BY <1>25 DEF TypeOK, Connect, config, repo, cluster, run, parsed, apply, bounds
<1>26. CASE UNCHANGED vars
    BY <1>26 DEF TypeOK, vars, config, repo, cluster, parsed, apply, bounds
<1> QED
    BY <1>1, <1>2, <1>3, <1>4, <1>5, <1>6, <1>7, <1>8, <1>9, <1>10, <1>11, <1>12,
       <1>13, <1>14, <1>15, <1>16, <1>17, <1>18, <1>19, <1>20, <1>21, <1>22, <1>23,
       <1>24, <1>25, <1>26
       DEF Next, Step, KubeOne, Environment

\* Every variable stays in its range; KubeOne has a host in hand only during an
\* apply, one of the configuration, not yet finished.
THEOREM TypeCorrect == Spec => []TypeOK
BY TypeInit, TypeStep, PTL DEF Spec

-----------------------------------------------------------------------------
(* The invariant.                                                          *)

LEMMA UpgradeInvInit == Init => UpgradeInv
BY TypeInit DEF Init, UpgradeInv, OneHopAhead, NothingBehind, HostsReady, PastVersion, PastCGroup

\* The actions of the environment leave the run alone, and v2 only grows.
LEMMA EnvironmentKeeps ==
    ASSUME UpgradeInv, UNCHANGED <<run, kubelet>>, v2 \subseteq v2'
    PROVE  OneHopAhead' /\ NothingBehind' /\ HostsReady'
BY DEF UpgradeInv, OneHopAhead, NothingBehind, HostsReady, run, parsed, AtLeast, LegalHop,
       Older, Beyond

\* So do the steps of a run that only move it on, from behind both checks.
LEMMA MovingOnKeeps ==
    ASSUME UpgradeInv, UNCHANGED <<parsed, fromLive, kubelet, v2>>,
           pc' \in PastVersion => pc \in PastVersion,
           pc' \in PastCGroup /\ cmd = "upgrade" => pc \in PastCGroup
    PROVE  OneHopAhead' /\ NothingBehind' /\ HostsReady'
BY DEF UpgradeInv, OneHopAhead, NothingBehind, HostsReady, parsed, AtLeast, LegalHop,
       Older, Beyond

LEMMA UpgradeInvStep == UpgradeInv /\ [Next]_vars => UpgradeInv'
<1> SUFFICES ASSUME UpgradeInv, [Next]_vars PROVE UpgradeInv'
    OBVIOUS
<1>t. TypeOK /\ TypeOK'
    BY TypeStep DEF UpgradeInv
<1> SUFFICES OneHopAhead' /\ NothingBehind' /\ HostsReady'
    BY <1>t DEF UpgradeInv
<1>1. CASE Upgrade \/ Sync
    BY <1>1 DEF Upgrade, Sync, Start, Goto, OneHopAhead, NothingBehind, HostsReady,
                PastVersion, PastCGroup
<1>2. CASE ReadVersion
    <2>1. PICK v \in Version : /\ IF Reachable THEN LowestIs(v) ELSE v = tree
                              /\ pc' = Proceed(v, Reachable)
        BY <1>2 DEF ReadVersion, Goto
    <2>2. UNCHANGED <<kubelet, v2, cmd, target, hosts>> /\ fromLive' = Reachable
        BY <1>2 DEF ReadVersion, cluster, parsed
    <2>3. pc' \in PastVersion => v = target \/ (LegalHop(v, target) /\ cmd = "upgrade")
        BY <2>1 DEF Proceed, PastVersion
    <2>4. ASSUME fromLive', pc' \in PastVersion, NEW h \in Host, kubelet[h] # NotJoined
          PROVE  /\ cmd = "upgrade" => AtLeast(kubelet[h], target) \/ LegalHop(kubelet[h], target)
                 /\ cmd = "sync" => AtLeast(kubelet[h], target)
        <3>1. AtLeast(kubelet[h], v)
            BY <2>1, <2>2, <2>4 DEF LowestIs, Joined
        <3>2. kubelet[h] \in Nat \X Nat /\ v \in Nat \X Nat /\ target \in Nat \X Nat
            BY <1>t, <2>4, VersionAssumption DEF TypeOK
        <3> QED
            BY <2>3, <2>4, <3>1, <3>2, HopFromLowest
    <2>5. OneHopAhead' /\ NothingBehind'
        BY <2>2, <2>4 DEF OneHopAhead, NothingBehind, AtLeast, LegalHop, Older
    <2>6. HostsReady'
        BY <2>1, <2>2 DEF HostsReady, Proceed, PastCGroup
    <2> QED BY <2>5, <2>6
<1>3. CASE CheckNodes
    BY <1>3, MovingOnKeeps DEF CheckNodes, Goto, cluster, PastVersion, PastCGroup
<1>4. CASE CheckCGroup
    <2>1. OneHopAhead' /\ NothingBehind'
        BY <1>4 DEF UpgradeInv, CheckCGroup, Goto, OneHopAhead, NothingBehind, PastVersion,
                    cluster, parsed, AtLeast, LegalHop, Older
    <2>2. HostsReady'
        BY <1>4 DEF CheckCGroup, Goto, HostsReady, PastCGroup, cluster, parsed, Beyond
    <2> QED BY <2>1, <2>2
<1>5. CASE DeclineSync
    BY <1>5, MovingOnKeeps DEF DeclineSync, Goto, cluster, PastVersion, PastCGroup
<1>6. CASE NothingToPush
    BY <1>6, MovingOnKeeps DEF NothingToPush, Goto, cluster, PastVersion, PastCGroup
<1>7. CASE OpenPR
    BY <1>7, MovingOnKeeps DEF OpenPR, Goto, cluster, PastVersion, PastCGroup
<1>8. CASE PushDirectly
    BY <1>8, MovingOnKeeps DEF PushDirectly, Goto, cluster, PastVersion, PastCGroup
<1>9. CASE PRMerged
    BY <1>9, MovingOnKeeps DEF PRMerged, Goto, cluster, PastVersion, PastCGroup
<1>10. CASE CheckHosts
    BY <1>10, MovingOnKeeps DEF CheckHosts, Goto, cluster, PastVersion, PastCGroup
<1>11. ASSUME NEW h \in Host, TakeHost(h)
       PROVE  OneHopAhead' /\ NothingBehind' /\ HostsReady'
    BY <1>11, MovingOnKeeps DEF TakeHost, PastVersion, PastCGroup
<1>12. CASE FinishHost
    <2>1. UNCHANGED <<pc, cmd, target, hosts, fromLive, v2>>
        BY <1>12 DEF FinishHost, parsed
    <2>2. ASSUME NEW h \in Host
          PROVE  kubelet'[h] = kubelet[h] \/ kubelet'[h] = target
        BY <1>12, <1>t DEF FinishHost, TypeOK
    <2>3. AtLeast(target, target)
        BY <1>t, VersionAssumption DEF TypeOK, AtLeast, Older
    <2>4. OneHopAhead' /\ NothingBehind'
        BY <2>1, <2>2, <2>3 DEF UpgradeInv, OneHopAhead, NothingBehind, AtLeast, LegalHop, Older
    <2>5. HostsReady'
        BY <2>1 DEF UpgradeInv, HostsReady, Beyond
    <2> QED BY <2>4, <2>5
<1>13. CASE ApplyRefused
    BY <1>13, MovingOnKeeps DEF ApplyRefused, Goto, cluster, PastVersion, PastCGroup
<1>14. CASE ApplyDone
    BY <1>14, MovingOnKeeps DEF ApplyDone, Goto, cluster, PastVersion, PastCGroup
<1>15. CASE Confirmed
    BY <1>15, MovingOnKeeps DEF Confirmed, Goto, cluster, PastVersion, PastCGroup
<1>16. CASE WaitTimeout
    BY <1>16, MovingOnKeeps DEF WaitTimeout, Goto, cluster, PastVersion, PastCGroup
<1>17. CASE Crash
    BY <1>17 DEF Crash, Goto, OneHopAhead, NothingBehind, HostsReady, PastVersion, PastCGroup
<1>18. ASSUME NEW p \in prs, Merge(p)
       PROVE  OneHopAhead' /\ NothingBehind' /\ HostsReady'
    BY <1>18, EnvironmentKeeps DEF Merge, cluster
<1>19. ASSUME NEW v \in Version, Declare(v)
       PROVE  OneHopAhead' /\ NothingBehind' /\ HostsReady'
    BY <1>19, EnvironmentKeeps DEF Declare, cluster
<1>20. ASSUME NEW h \in Host, ListHost(h) \/ Repair(h) \/ SwitchToV2(h)
       PROVE  OneHopAhead' /\ NothingBehind' /\ HostsReady'
    BY <1>20, EnvironmentKeeps DEF ListHost, Repair, SwitchToV2, cluster
<1>21. CASE LoseConnection \/ Connect
    BY <1>21, EnvironmentKeeps DEF LoseConnection, Connect, cluster
<1>22. CASE UNCHANGED vars
    BY <1>22, EnvironmentKeeps DEF vars, run, cluster
<1> QED
    BY <1>1, <1>2, <1>3, <1>4, <1>5, <1>6, <1>7, <1>8, <1>9, <1>10, <1>11, <1>12, <1>13,
       <1>14, <1>15, <1>16, <1>17, <1>18, <1>19, <1>20, <1>21, <1>22
       DEF Next, Step, KubeOne, Environment

THEOREM UpgradeInvAlways == Spec => []UpgradeInv
BY UpgradeInvInit, UpgradeInvStep, PTL DEF Spec

-----------------------------------------------------------------------------
(* What follows from it.                                                   *)

\* A kubelet changes in two ways: KubeOne finishes its host, or dies with it in
\* hand; each time it was behind the target, and has the target.
LEMMA OnlyTheHostInHand ==
    ASSUME TypeOK, [Next]_vars, NEW h \in Host, kubelet'[h] # kubelet[h]
    PROVE  /\ h = cur /\ pc = "apply" /\ h \in hosts
           /\ Older(kubelet[h], target) /\ kubelet'[h] = target
<1>1. CASE FinishHost
    BY <1>1 DEF TypeOK, FinishHost
<1>2. CASE Crash
    BY <1>2 DEF TypeOK, Crash
<1>3. CASE ~FinishHost /\ ~Crash
    <2>1. UNCHANGED kubelet
        BY <1>3 DEF Next, Step, KubeOne, Environment, vars, cluster, Upgrade, Sync, Start,
            ReadVersion, CheckNodes, CheckCGroup, DeclineSync, NothingToPush, OpenPR,
            PushDirectly, PRMerged, CheckHosts, TakeHost, ApplyRefused, ApplyDone, Confirmed,
            WaitTimeout, Merge, Declare, ListHost, Repair, SwitchToV2, LoseConnection, Connect
    <2> QED BY <2>1
<1> QED BY <1>1, <1>2, <1>3

\* The target is not behind every kubelet: from the version check, which has found the
\* lowest of them level with it or a hop behind, over each host that moves, to the target.
LEMMA NotBehindAllStep == TypeOK /\ NotBehindAll /\ [Next]_vars => NotBehindAll'
<1> SUFFICES ASSUME TypeOK, NotBehindAll, [Next]_vars, fromLive', pc' \in PastVersion
             PROVE  \E h \in Host : kubelet'[h] # NotJoined /\ kubelet'[h][1] <= target'[1]
    BY DEF NotBehindAll
<1>t. target \in Nat \X Nat /\ \A h \in Host : kubelet[h] # NotJoined => kubelet[h] \in Nat \X Nat
    BY VersionAssumption DEF TypeOK
<1>1. CASE ReadVersion
    <2>1. PICK v \in Version : /\ IF Reachable THEN LowestIs(v) ELSE v = tree
                              /\ pc' = Proceed(v, Reachable)
        BY <1>1 DEF ReadVersion, Goto
    <2>2. UNCHANGED <<kubelet, target>> /\ Reachable
        BY <1>1 DEF ReadVersion, cluster, parsed
    <2>3. v = target \/ LegalHop(v, target)
        BY <2>1 DEF Proceed, PastVersion
    <2>4. PICK h \in Host : kubelet[h] # NotJoined /\ v = kubelet[h]
        BY <2>1, <2>2 DEF LowestIs, Joined
    <2>5. v[1] <= target[1]
        BY <1>t, <2>3, <2>4 DEF LegalHop, Older
    <2> QED BY <2>2, <2>4, <2>5
<1>2. CASE ~ReadVersion /\ UNCHANGED <<target, fromLive>> /\ pc \in PastVersion
    <2>1. PICK h \in Host : kubelet[h] # NotJoined /\ kubelet[h][1] <= target[1]
        BY <1>2 DEF NotBehindAll
    <2>2. kubelet'[h] = kubelet[h] \/ kubelet'[h] = target
        BY OnlyTheHostInHand
    <2>3. target # NotJoined
        BY NameAssumption DEF TypeOK
    <2> QED BY <1>t, <1>2, <2>1, <2>2, <2>3
<1>3. ReadVersion \/ (UNCHANGED <<target, fromLive>> /\ pc \in PastVersion)
    BY Zenon DEF Next, Step, KubeOne, Environment, vars, run, parsed, apply, cluster, Goto,
        PastVersion, Upgrade, Sync, Start, CheckNodes, CheckCGroup, DeclineSync, NothingToPush,
        OpenPR, PushDirectly, PRMerged, CheckHosts, TakeHost, FinishHost, ApplyRefused, ApplyDone,
        Confirmed, WaitTimeout, Crash, Merge, Declare, ListHost, Repair, SwitchToV2,
        LoseConnection, Connect
<1> QED BY <1>1, <1>2, <1>3

\* No run that has read the live cluster skips a minor version or takes a kubelet
\* back, for any history of kills and edits before it.
THEOREM HopByHop == Spec => UpgradesByHops
<1>1. UpgradeInv /\ [Next]_vars
        => [\A h \in Host : Moved(h) /\ fromLive => LegalHop(kubelet[h], kubelet'[h])]_vars
    <2> SUFFICES ASSUME UpgradeInv, [Next]_vars, NEW h \in Host, Moved(h), fromLive
                 PROVE  LegalHop(kubelet[h], kubelet'[h])
        OBVIOUS
    <2>1. pc = "apply" /\ Older(kubelet[h], target) /\ kubelet'[h] = target
        BY OnlyTheHostInHand DEF UpgradeInv, Moved
    <2>2. cmd \in {"upgrade", "sync"}
        BY DEF UpgradeInv, TypeOK
    <2> QED
        BY <2>1, <2>2 DEF UpgradeInv, OneHopAhead, NothingBehind, PastVersion, Moved, AtLeast
<1> QED BY <1>1, UpgradeInvAlways, PTL DEF Spec, UpgradesByHops

\* Nor does it spread the kubelets: whoever moves, moves to the target, from which no
\* kubelet is more than a minor version away.
THEOREM SkewStaysSmall == Spec => SkewKept
<1>1. Init => NotBehindAll
    BY DEF Init, NotBehindAll
<1>2. UpgradeInv /\ NotBehindAll /\ [Next]_vars
        => [fromLive /\ OneMinorApart => OneMinorApart']_vars
    <2> SUFFICES ASSUME UpgradeInv, NotBehindAll, [Next]_vars, fromLive, OneMinorApart,
                        NEW g \in Joined', NEW h \in Joined'
                 PROVE  kubelet'[g][1] <= kubelet'[h][1] + 1
        BY DEF OneMinorApart
    <2>t. /\ target \in Nat \X Nat
          /\ \A k \in Host : kubelet[k] # NotJoined => kubelet[k] \in Nat \X Nat
        BY VersionAssumption DEF UpgradeInv, TypeOK
    <2>1. \A k \in {g, h} : kubelet'[k] = kubelet[k] \/ kubelet'[k] = target
        BY OnlyTheHostInHand DEF UpgradeInv, Joined
    <2>2. CASE kubelet'[g] = kubelet[g] /\ kubelet'[h] = kubelet[h]
        BY <2>2 DEF Joined, OneMinorApart
    <2>3. CASE kubelet'[g] # kubelet[g] \/ kubelet'[h] # kubelet[h]
        <3>1. pc \in PastVersion /\ cmd \in {"upgrade", "sync"}
            BY <2>3, OnlyTheHostInHand DEF UpgradeInv, TypeOK, Joined, PastVersion
        \* No kubelet is more than a minor version behind the target, ...
        <3>2. \A k \in Joined : target[1] <= kubelet[k][1] + 1
            BY <2>t, <3>1 DEF UpgradeInv, OneHopAhead, NothingBehind, Joined, AtLeast,
               LegalHop, Older
        \* ... nor ahead of it: they are a version at most from one that is not.
        <3>3. \A k \in Joined : kubelet[k][1] <= target[1] + 1
            <4>1. PICK low \in Joined : kubelet[low][1] <= target[1]
                BY <3>1 DEF NotBehindAll, Joined
            <4> QED BY <2>t, <4>1 DEF OneMinorApart, Joined
        <3>4. g \in Joined \/ kubelet'[g] = target
            BY <2>1 DEF Joined
        <3>5. h \in Joined \/ kubelet'[h] = target
            BY <2>1 DEF Joined
        <3>6. \A k \in Joined : kubelet[k][1] \in Nat
            BY <2>t DEF Joined
        <3> QED BY <2>t, <2>1, <3>2, <3>3, <3>4, <3>5, <3>6 DEF OneMinorApart
    <2> QED BY <2>2, <2>3
<1> QED BY <1>1, <1>2, NotBehindAllStep, UpgradeInvAlways, PTL DEF Spec, UpgradeInv, SkewKept

\* A sync that has read the live cluster changes no version.
THEOREM SyncLeavesVersions == Spec => LiveSyncKeepsVersions
<1>1. UpgradeInv /\ [Next]_vars
        => [\A h \in Host : Moved(h) /\ cmd = "sync" => ~fromLive]_vars
    <2> SUFFICES ASSUME UpgradeInv, [Next]_vars, NEW h \in Host, Moved(h), cmd = "sync", fromLive
                 PROVE  FALSE
        OBVIOUS
    <2>1. pc = "apply" /\ Older(kubelet[h], target)
        BY OnlyTheHostInHand DEF UpgradeInv, Moved
    <2> QED
        BY <2>1 DEF UpgradeInv, NothingBehind, PastVersion, Moved, AtLeast
<1> QED BY <1>1, UpgradeInvAlways, PTL DEF Spec, LiveSyncKeepsVersions

\* No upgrade takes a host beyond the boundary that is on cgroup v1.
THEOREM UpgradeBricksNone == Spec => NoHostBricked
<1>1. UpgradeInv /\ [Next]_vars
        => [\A h \in Host : Beyond(kubelet'[h]) /\ kubelet'[h] # kubelet[h] /\ cmd = "upgrade"
                             => h \in v2]_vars
    <2> SUFFICES ASSUME UpgradeInv, [Next]_vars, NEW h \in Host, Beyond(kubelet'[h]),
                        kubelet'[h] # kubelet[h], cmd = "upgrade"
                 PROVE  h \in v2
        OBVIOUS
    <2>1. pc = "apply" /\ h \in hosts /\ kubelet'[h] = target
        BY OnlyTheHostInHand DEF UpgradeInv
    <2> QED
        BY <2>1 DEF UpgradeInv, HostsReady, PastCGroup
<1> QED BY <1>1, UpgradeInvAlways, PTL DEF Spec, NoHostBricked

-----------------------------------------------------------------------------
(* Workers behind masters.                                                 *)

\* What the order of a roll has reached: the masters are always among the hosts of the
\* run, whoever was rolled is at the target, and so are all masters once a worker is in hand.
RollInv ==
    /\ Master \subseteq listed /\ Master \subseteq hosts /\ Master \subseteq Joined
    /\ pc \notin {"idle", "done"} => \A h \in rolled : AtLeast(kubelet[h], target)
    /\ cur \in Host \ Master => \A m \in Master : AtLeast(kubelet[m], target)

FollowInv == TypeOK /\ RollInv /\ WorkersFollow

\* Steps that neither move a host nor take one in hand leave it as it is.
LEMMA RollKept ==
    ASSUME RollInv, UNCHANGED <<hosts, target, kubelet, cur, rolled>>, listed \subseteq listed',
           pc' \notin {"idle", "done"} => pc \notin {"idle", "done"}
    PROVE  RollInv'
BY DEF RollInv, Joined, AtLeast, Older

LEMMA RollStep == TypeOK /\ RollInv /\ [Next]_vars => RollInv'
<1> SUFFICES ASSUME TypeOK, RollInv, [Next]_vars PROVE RollInv'
    OBVIOUS
<1>t. /\ target \in Version /\ Version \subseteq Nat \X Nat /\ Nobody \notin Host
      /\ \A h \in Host : kubelet[h] # NotJoined => kubelet[h] \in Nat \X Nat
    BY VersionAssumption, NameAssumption DEF TypeOK
\* Kubelets only go forward, to the target.
<1>0. ASSUME NEW h \in Host
      PROVE  /\ kubelet[h] # NotJoined => kubelet'[h] # NotJoined
             /\ AtLeast(kubelet[h], target) => AtLeast(kubelet'[h], target)
    <2>1. kubelet'[h] = kubelet[h] \/ kubelet'[h] = target
        BY OnlyTheHostInHand
    <2>2. target # NotJoined /\ AtLeast(target, target)
        BY <1>t, NameAssumption DEF AtLeast, Older
    <2> QED BY <2>1, <2>2
<1>1. CASE Upgrade \/ Sync
    BY <1>1, <1>t DEF RollInv, Upgrade, Sync, Start, Goto, Joined, config, cluster
<1>2. ASSUME NEW h \in Host, TakeHost(h) PROVE RollInv'
    <2>1. ASSUME NEW m \in Master, ~NeedsWork(m) PROVE AtLeast(kubelet[m], target)
        BY <1>2, <2>1 DEF RollInv, TakeHost, NeedsWork, Joined, AtLeast
    <2>2. h \notin Master => \A m \in Master : AtLeast(kubelet[m], target)
        BY <1>2, <2>1 DEF TakeHost, Turn
    <2> QED BY <1>2, <2>2 DEF RollInv, TakeHost, Joined, config, parsed, AtLeast, Older
<1>3. CASE FinishHost
    <2>1. /\ UNCHANGED <<listed, hosts, target, pc>>
          /\ rolled' = rolled \cup {cur} /\ cur' = Nobody /\ pc = "apply"
        BY <1>3 DEF FinishHost, config, parsed
    <2>2. cur \in Host /\ rolled \subseteq Host
        BY <1>3 DEF TypeOK, FinishHost
    <2>3. AtLeast(kubelet'[cur], target)
        BY <1>3, <1>t, <2>2 DEF FinishHost, TypeOK, AtLeast, Older
    <2>4. \A h \in rolled' : AtLeast(kubelet'[h], target)
        BY <1>0, <2>1, <2>2, <2>3 DEF RollInv
    <2>5. Master \subseteq Joined'
        BY <1>0, HostAssumption DEF RollInv, Joined
    <2> QED BY <1>t, <2>1, <2>4, <2>5 DEF RollInv, AtLeast
<1>4. CASE Crash
    <2>1. UNCHANGED <<listed, hosts>> /\ pc' = "idle" /\ cur' = Nobody
        BY <1>4 DEF Crash, Goto, config, parsed
    <2>2. Master \subseteq Joined'
        BY <1>0, HostAssumption DEF RollInv, Joined
    <2> QED BY <1>t, <2>1, <2>2 DEF RollInv
<1>5. CASE \/ ReadVersion \/ CheckNodes \/ CheckCGroup \/ DeclineSync
           \/ NothingToPush \/ OpenPR \/ PushDirectly \/ PRMerged \/ CheckHosts
           \/ ApplyRefused \/ ApplyDone \/ Confirmed \/ WaitTimeout
    BY <1>5, RollKept DEF ReadVersion, CheckNodes, CheckCGroup, DeclineSync, NothingToPush,
       OpenPR, PushDirectly, PRMerged, CheckHosts, ApplyRefused, ApplyDone, Confirmed,
       WaitTimeout, Goto, config, cluster, parsed, apply
<1>6. CASE Environment \/ UNCHANGED vars
    BY <1>6, RollKept DEF Environment, vars, Merge, Declare, ListHost, Repair, SwitchToV2,
       LoseConnection, Connect, config, cluster, run, parsed, apply
<1> QED BY <1>1, <1>2, <1>3, <1>4, <1>5, <1>6 DEF Next, Step, KubeOne

\* A host that moves is a master, or a worker whose masters have moved.
LEMMA FollowStep == FollowInv /\ [Next]_vars => WorkersFollow'
<1> SUFFICES ASSUME FollowInv, [Next]_vars, NEW m \in Master, NEW h \in (Joined \ Master)'
             PROVE  AtLeast(kubelet'[m], kubelet'[h])
    BY DEF WorkersFollow
<1>t. /\ m \in Host /\ h \in Host /\ target \in Nat \X Nat
      /\ kubelet[m] # NotJoined /\ kubelet[m] \in Nat \X Nat
      /\ kubelet[h] # NotJoined => kubelet[h] \in Nat \X Nat
    BY VersionAssumption, HostAssumption DEF FollowInv, TypeOK, RollInv, Joined
<1>1. CASE kubelet'[h] = kubelet[h]
    <2>1. AtLeast(kubelet[m], kubelet[h])
        BY <1>1 DEF FollowInv, WorkersFollow, Joined
    <2>2. kubelet'[m] = kubelet[m] \/ (Older(kubelet[m], target) /\ kubelet'[m] = target)
        BY <1>t, OnlyTheHostInHand DEF FollowInv
    <2> QED BY <1>t, <1>1, <2>1, <2>2 DEF AtLeast, Older, Joined
<1>2. CASE kubelet'[h] # kubelet[h]
    <2>1. h = cur /\ kubelet'[h] = target
        BY <1>t, <1>2, OnlyTheHostInHand DEF FollowInv
    <2>2. AtLeast(kubelet[m], target)
        BY <1>t, <2>1 DEF FollowInv, RollInv
    <2>3. kubelet'[m] = kubelet[m]
        BY <1>t, <2>1, OnlyTheHostInHand DEF FollowInv
    <2> QED BY <2>1, <2>2, <2>3
<1> QED BY <1>1, <1>2

\* No worker ever gets ahead of a master, whatever is killed, edited or cut off.
THEOREM WorkersAlwaysFollow == Spec => []WorkersFollow
<1>1. Init => FollowInv
    <2> SUFFICES ASSUME Init PROVE FollowInv
        OBVIOUS
    <2>1. /\ kubelet = [h \in Host |-> IF h \in listed THEN First ELSE NotJoined]
          /\ Master \subseteq listed /\ hosts = listed /\ pc = "idle" /\ cur = Nobody
        BY DEF Init
    <2>2. First \in Nat \X Nat /\ First # NotJoined
        BY VersionAssumption, NameAssumption
    <2>3. RollInv
        BY <2>1, <2>2, HostAssumption, NameAssumption DEF RollInv, Joined
    <2>4. WorkersFollow
        BY <2>1, <2>2, HostAssumption DEF WorkersFollow, Joined, AtLeast, Older
    <2> QED BY <2>3, <2>4, TypeInit DEF FollowInv
<1>2. FollowInv /\ [Next]_vars => FollowInv'
    BY TypeStep, RollStep, FollowStep DEF FollowInv
<1> QED BY <1>1, <1>2, PTL DEF Spec, FollowInv

-----------------------------------------------------------------------------
(* The budgets of a single node during the same upgrade: theorems of        *)
(* PdbGuard, for every set of budgets, every number of nodes and every       *)
(* number of kills.  RestoredWhenDone is about the last step; GoneInv        *)
(* follows each budget the run took down from the list to the cluster, and   *)
(* counts those that a DELETE without a sender may take down again.          *)

CONSTANTS Pdb, Argo, NodeCounts
VARIABLES nodes, live, evicted, upgraded, removed, todo, guard, sweep, inflight, late, crashes

\* pc and MayBeCutOff have the same names.
G == INSTANCE PdbGuard WITH MaxCrash <- MaxFaults

LEMMA SameCardinality == \A S : G!Cardinality(S) = Cardinality(S)
BY DEF G!Cardinality, Cardinality

\* The goroutine lives inside the drain, and has at most one DELETE under way.
GuardInv ==
    /\ guard = "on" => pc = "apply"
    /\ inflight # {} => guard = "on"
    /\ inflight = {} \/ \E p \in Pdb : inflight = {p}

\* What the run has taken down for good, or may still lose to a late DELETE.
Gone == late \cup ((removed \ Argo) \ (live \cup todo))

\* Every kill leaves one DELETE behind at most, and the end of the one drain
\* that succeeds another; the restore adds none.
GoneInv ==
    /\ IsFiniteSet(late)
    /\ Cardinality(late) <= crashes + (IF upgraded THEN 1 ELSE 0)
    /\ pc \in {"wait", "restore", "done"} => upgraded
    /\ pc = "apply" => ~upgraded
    /\ pc \in {"neutralize", "ask", "deleting"} => ~upgraded
    /\ pc \in {"idle", "neutralize", "ask"} => removed = {}
    /\ pc \in {"idle", "done"} => todo = {}
    /\ pc \in {"restore", "done"} =>
          IsFiniteSet(Gone) /\ Cardinality(Gone) <= crashes + 1

\* Every action keeps every variable in its range.
LEMMA BudgetsTypeStep ==
    ASSUME Argo \subseteq Pdb
    PROVE  G!TypeOK /\ [G!Next]_(G!vars) => G!TypeOK'
<1> SUFFICES ASSUME G!TypeOK, [G!Next]_(G!vars) PROVE G!TypeOK'
    OBVIOUS
<1> USE BoundsAssumption DEF G!TypeOK, G!PCs, G!cluster, G!routine
<1>1. CASE G!Start
    BY <1>1 DEF G!Start
<1>2. CASE G!Upgrade
    <2>1. CASE G!NothingToNeutralize \/ G!ListBlocking \/ G!Approve \/ G!BeginApply
        BY <1>2, <2>1 DEF G!NothingToNeutralize, G!ListBlocking, G!Approve, G!BeginApply
    <2>2. ASSUME NEW p \in Pdb, G!DeletePdb(p) \/ G!RestorePdb(p) PROVE G!TypeOK'
        BY <2>2 DEF G!DeletePdb, G!RestorePdb
    <2>3. CASE G!ApplyDone
        BY <2>3, FS_EmptySet, SameCardinality DEF G!ApplyDone
    <2>4. CASE G!WaitDone \/ G!RestoreDone \/ G!Return
        BY <2>4 DEF G!WaitDone, G!RestoreDone, G!Return, G!ToRestore
    <2> QED BY <1>2, <2>1, <2>2, <2>3, <2>4 DEF G!Upgrade
<1>3. CASE G!Guard
    <2>1. CASE G!Tick
        BY <2>1 DEF G!Tick
    <2>2. ASSUME NEW p \in Pdb, G!SendDelete(p) PROVE G!TypeOK'
        <3>1. G!Cardinality({p}) = 1
            BY FS_Singleton, SameCardinality
        <3> QED BY <2>2, <3>1 DEF G!SendDelete
    <2>3. CASE G!DeleteLands
        BY <2>3, FS_EmptySet, SameCardinality DEF G!DeleteLands
    <2> QED BY <1>3, <2>1, <2>2, <2>3 DEF G!Guard
<1>4. CASE G!Decline
    BY <1>4 DEF G!Decline
<1>5. CASE G!Crash
    BY <1>5, FS_EmptySet, SameCardinality DEF G!Crash
<1>6. CASE G!DeleteLost
    BY <1>6, FS_EmptySet, SameCardinality DEF G!DeleteLost
<1>7. ASSUME NEW p \in Pdb, G!Evict(p) \/ G!SelfHeal(p) \/ G!LateLands(p) \/ G!LateDropped(p)
      PROVE  G!TypeOK'
    BY <1>7, Argo \subseteq Pdb DEF G!Evict, G!SelfHeal, G!LateLands, G!LateDropped
<1>8. CASE UNCHANGED G!vars
    BY <1>8 DEF G!vars
<1> QED BY <1>1, <1>2, <1>3, <1>4, <1>5, <1>6, <1>7, <1>8 DEF G!Next

\* TypeOK holds of every reachable state, whatever the constants are.
THEOREM BudgetsTypeCorrect == ASSUME Argo \subseteq Pdb PROVE G!Spec => []G!TypeOK
<1>1. G!Init => G!TypeOK
    <2> SUFFICES ASSUME G!Init PROVE G!TypeOK
        OBVIOUS
    <2>1. crashes \in 0 .. MaxFaults
        BY BoundsAssumption DEF G!Init
    <2>2. G!Cardinality(inflight) <= 1
        BY FS_EmptySet, SameCardinality DEF G!Init
    <2>3. nodes \in NodeCounts /\ upgraded \in BOOLEAN
        BY Zenon DEF G!Init
    <2> QED BY <2>1, <2>2, <2>3 DEF G!Init, G!TypeOK, G!PCs
<1> QED BY <1>1, BudgetsTypeStep, PTL DEF G!Spec

-----------------------------------------------------------------------------
\* Only BeginApply starts the goroutine, and every end of the drain cancels it.
LEMMA GuardStep == GuardInv /\ [G!Next]_(G!vars) => GuardInv'
<1> SUFFICES ASSUME GuardInv, [G!Next]_(G!vars) PROVE GuardInv'
    OBVIOUS
<1> USE DEF GuardInv, G!cluster, G!routine
<1>1. CASE G!Start
    BY <1>1 DEF G!Start
<1>2. CASE G!Upgrade
    BY <1>2 DEF G!Upgrade, G!NothingToNeutralize, G!ListBlocking, G!Approve, G!DeletePdb,
                G!RestorePdb, G!BeginApply, G!ApplyDone, G!WaitDone, G!RestoreDone, G!Return
<1>3. CASE G!Guard
    BY <1>3 DEF G!Guard, G!Tick, G!SendDelete, G!DeleteLands
<1>4. CASE G!Decline \/ G!Crash \/ G!DeleteLost
    BY <1>4 DEF G!Decline, G!Crash, G!DeleteLost
<1>5. ASSUME NEW p \in Pdb, G!Evict(p) \/ G!SelfHeal(p) \/ G!LateLands(p) \/ G!LateDropped(p)
      PROVE  GuardInv'
    BY <1>5 DEF G!Evict, G!SelfHeal, G!LateLands, G!LateDropped
<1>6. CASE UNCHANGED G!vars
    BY <1>6 DEF G!vars
<1> QED BY <1>1, <1>2, <1>3, <1>4, <1>5, <1>6 DEF G!Next

LEMMA GuardInvariant == G!Spec => []GuardInv
<1>1. G!Init => GuardInv
    BY DEF G!Init, GuardInv
<1> QED BY <1>1, GuardStep, PTL DEF G!Spec

\* No budget goes down outside of the deletions the operator approved and the
\* drain, for any interleaving of upgrade, goroutine, kills and ArgoCD, but by
\* a DELETE that was under way when its sender was stopped.
THEOREM DownOnlyInTheDrain == G!Spec => G!DownOnlyWhileDraining
<1>1. GuardInv /\ [G!Next]_(G!vars) =>
        [live \ live' # {} => pc \in {"deleting", "apply"} \/ live \ live' \subseteq late]_(G!vars)
    <2> SUFFICES ASSUME GuardInv, [G!Next]_(G!vars), live \ live' # {}
                 PROVE pc \in {"deleting", "apply"} \/ live \ live' \subseteq late
        OBVIOUS
    <2> USE DEF GuardInv, G!cluster, G!routine
    <2>1. CASE G!Upgrade
        BY <2>1 DEF G!Upgrade, G!NothingToNeutralize, G!ListBlocking, G!Approve, G!DeletePdb,
                    G!RestorePdb, G!BeginApply, G!ApplyDone, G!WaitDone, G!RestoreDone, G!Return
    <2>2. CASE G!Guard
        BY <2>2 DEF G!Guard, G!Tick, G!SendDelete, G!DeleteLands
    <2>3. CASE G!Start \/ G!Decline \/ G!Crash \/ G!DeleteLost \/ UNCHANGED G!vars
        BY <2>3 DEF G!Start, G!Decline, G!Crash, G!DeleteLost, G!vars
    <2>4. ASSUME NEW p \in Pdb, G!Evict(p) \/ G!SelfHeal(p) \/ G!LateDropped(p) PROVE FALSE
        BY <2>4 DEF G!Evict, G!SelfHeal, G!LateDropped
    <2>5. ASSUME NEW p \in Pdb, G!LateLands(p) PROVE live \ live' \subseteq late
        BY <2>5 DEF G!LateLands
    <2> QED BY <2>1, <2>2, <2>3, <2>4, <2>5 DEF G!Next
<1> QED BY <1>1, GuardInvariant, PTL DEF G!Spec, G!DownOnlyWhileDraining

-----------------------------------------------------------------------------
\* A set that grows by one element at most, or not at all, stays finite and
\* grows by one at most.
LEMMA GrowsByOne ==
    ASSUME NEW S, NEW T, NEW e, IsFiniteSet(S), T \subseteq S \cup {e}
    PROVE  IsFiniteSet(T) /\ Cardinality(T) \in Nat /\ Cardinality(S) \in Nat
           /\ Cardinality(T) <= Cardinality(S) + 1
<1>0. Cardinality(S) \in Nat
    BY FS_CardinalityType
<1>1. IsFiniteSet(S \cup {e}) /\ Cardinality(S \cup {e}) <= Cardinality(S) + 1
    <2>1. /\ IsFiniteSet(S \cup {e})
          /\ Cardinality(S \cup {e}) = IF e \in S THEN Cardinality(S) ELSE Cardinality(S) + 1
        BY FS_AddElement, Zenon
    <2> QED BY <1>0, <2>1
<1>2. Cardinality(S \cup {e}) \in Nat /\ Cardinality(S) \in Nat
    BY <1>1, FS_CardinalityType
<1>3. IsFiniteSet(T) /\ Cardinality(T) <= Cardinality(S \cup {e})
    BY <1>1, FS_Subset
<1>4. Cardinality(T) \in Nat
    BY <1>3, FS_CardinalityType
<1> QED BY <1>1, <1>2, <1>3, <1>4

LEMMA Shrinks ==
    ASSUME NEW S, NEW T, IsFiniteSet(S), T \subseteq S
    PROVE  IsFiniteSet(T) /\ Cardinality(T) \in Nat /\ Cardinality(S) \in Nat
           /\ Cardinality(T) <= Cardinality(S)
BY FS_Subset, FS_CardinalityType

\* A step that leaves the DELETEs without a sender alone, or takes from them,
\* and does not touch crashes and upgraded keeps their bound.
LEMMA LateStays ==
    ASSUME G!TypeOK, GoneInv, late' \subseteq late, UNCHANGED <<crashes, upgraded>>
    PROVE  /\ IsFiniteSet(late')
           /\ Cardinality(late') <= crashes' + (IF upgraded' THEN 1 ELSE 0)
<1>1. /\ IsFiniteSet(late') /\ Cardinality(late') <= Cardinality(late)
      /\ Cardinality(late') \in Nat /\ Cardinality(late) \in Nat
    BY Shrinks DEF GoneInv
<1>2. crashes \in Nat
    BY BoundsAssumption DEF G!TypeOK
<1> QED BY <1>1, <1>2 DEF GoneInv

\* The same of what is gone: it never grows while the run restores.
LEMMA GoneStays ==
    ASSUME G!TypeOK, GoneInv, pc \in {"restore", "done"}, Gone' \subseteq Gone, crashes' = crashes
    PROVE  IsFiniteSet(Gone') /\ Cardinality(Gone') <= crashes' + 1
<1>1. IsFiniteSet(Gone) /\ Cardinality(Gone) <= crashes + 1
    BY DEF GoneInv
<1>2. /\ IsFiniteSet(Gone') /\ Cardinality(Gone') <= Cardinality(Gone)
      /\ Cardinality(Gone') \in Nat /\ Cardinality(Gone) \in Nat
    BY <1>1, Shrinks
<1>3. crashes \in Nat
    BY BoundsAssumption DEF G!TypeOK
<1> QED BY <1>1, <1>2, <1>3

LEMMA GoneStep ==
    ASSUME Argo \subseteq Pdb
    PROVE  G!TypeOK /\ GuardInv /\ GoneInv /\ [G!Next]_(G!vars) => GoneInv'
<1> SUFFICES ASSUME G!TypeOK, GuardInv, GoneInv, [G!Next]_(G!vars) PROVE GoneInv'
    OBVIOUS
<1> USE DEF G!cluster, G!routine
<1>0. crashes \in Nat /\ upgraded \in BOOLEAN
    BY BoundsAssumption DEF G!TypeOK
<1>1. CASE G!Start
    <2>1. late' \subseteq late /\ UNCHANGED <<crashes, upgraded>> /\ pc = "idle"
        BY <1>1 DEF G!Start
    <2>2. /\ IsFiniteSet(late')
          /\ Cardinality(late') <= crashes' + (IF upgraded' THEN 1 ELSE 0)
        BY <2>1, LateStays
    <2>3. CASE upgraded
        <3>1. Gone' = late' /\ pc' = "done"
            BY <1>1, <2>1, <2>3 DEF G!Start, GoneInv, Gone
        <3> QED BY <1>1, <2>1, <2>2, <2>3, <3>1 DEF G!Start, GoneInv
    <2>4. CASE ~upgraded
        BY <1>1, <2>1, <2>2, <2>4 DEF G!Start, GoneInv
    <2> QED BY <2>3, <2>4
<1>2. CASE G!NothingToNeutralize \/ G!ListBlocking \/ G!Approve \/ G!BeginApply
    <2>1. late' \subseteq late /\ UNCHANGED <<crashes, upgraded>>
        BY <1>2 DEF G!NothingToNeutralize, G!ListBlocking, G!Approve, G!BeginApply
    <2>2. /\ IsFiniteSet(late')
          /\ Cardinality(late') <= crashes' + (IF upgraded' THEN 1 ELSE 0)
        BY <2>1, LateStays
    <2> QED BY <1>2, <2>1, <2>2
            DEF G!NothingToNeutralize, G!ListBlocking, G!Approve, G!BeginApply, GoneInv
<1>3. ASSUME NEW p \in Pdb, G!DeletePdb(p) PROVE GoneInv'
    <2>1. late' \subseteq late /\ UNCHANGED <<crashes, upgraded>>
        BY <1>3 DEF G!DeletePdb
    <2>2. /\ IsFiniteSet(late')
          /\ Cardinality(late') <= crashes' + (IF upgraded' THEN 1 ELSE 0)
        BY <2>1, LateStays
    <2> QED BY <1>3, <2>1, <2>2 DEF G!DeletePdb, GoneInv
<1>4. ASSUME NEW p \in Pdb, G!RestorePdb(p) PROVE GoneInv'
    <2>1. late' \subseteq late /\ UNCHANGED <<crashes, upgraded, pc>> /\ pc = "restore"
        BY <1>4 DEF G!RestorePdb
    <2>2. /\ IsFiniteSet(late')
          /\ Cardinality(late') <= crashes' + (IF upgraded' THEN 1 ELSE 0)
        BY <2>1, LateStays
    <2>3. Gone' \subseteq Gone
        BY <1>4 DEF G!RestorePdb, Gone
    <2>4. IsFiniteSet(Gone') /\ Cardinality(Gone') <= crashes' + 1
        BY <2>1, <2>3, GoneStays
    <2> QED BY <2>1, <2>2, <2>4 DEF GoneInv
<1>5. CASE G!ApplyDone
    <2>1. PICK e : late' \subseteq late \cup {e}
        BY <1>5 DEF G!ApplyDone, GuardInv
    <2>2. /\ IsFiniteSet(late') /\ Cardinality(late') <= Cardinality(late) + 1
          /\ Cardinality(late') \in Nat /\ Cardinality(late) \in Nat
        BY <2>1, GrowsByOne DEF GoneInv
    <2>3. Cardinality(late) <= crashes
        BY <1>0, <1>5 DEF G!ApplyDone, GoneInv
    <2> QED BY <1>0, <1>5, <2>2, <2>3 DEF G!ApplyDone, GoneInv
<1>6. CASE G!WaitDone
    <2>1. late' \subseteq late /\ UNCHANGED <<crashes, upgraded>> /\ pc' = "restore" /\ upgraded
        BY <1>6 DEF G!WaitDone, GoneInv
    <2>2. /\ IsFiniteSet(late')
          /\ Cardinality(late') <= crashes' + (IF upgraded' THEN 1 ELSE 0)
        BY <2>1, LateStays
    <2>3. Gone' = late'
        BY <1>6 DEF G!WaitDone, G!ToRestore, Gone
    <2> QED BY <2>1, <2>2, <2>3 DEF GoneInv
<1>7. CASE G!RestoreDone
    <2>1. /\ late' \subseteq late /\ UNCHANGED <<crashes, upgraded>>
          /\ pc = "restore" /\ pc' = "done" /\ Gone' \subseteq Gone /\ todo' = {}
        BY <1>7 DEF G!RestoreDone, Gone
    <2>2. /\ IsFiniteSet(late')
          /\ Cardinality(late') <= crashes' + (IF upgraded' THEN 1 ELSE 0)
        BY <2>1, LateStays
    <2>3. IsFiniteSet(Gone') /\ Cardinality(Gone') <= crashes' + 1
        BY <2>1, GoneStays
    <2> QED BY <2>1, <2>2, <2>3 DEF GoneInv
<1>8. CASE G!Return \/ G!Decline
    <2>1. late' \subseteq late /\ UNCHANGED <<crashes, upgraded>> /\ pc' = "idle"
        BY <1>8 DEF G!Return, G!Decline
    <2>2. /\ IsFiniteSet(late')
          /\ Cardinality(late') <= crashes' + (IF upgraded' THEN 1 ELSE 0)
        BY <2>1, LateStays
    <2>3. removed' = {} /\ todo' = {}
        BY <1>8 DEF G!Return, G!Decline, GoneInv
    <2> QED BY <2>1, <2>2, <2>3 DEF GoneInv
<1>9. CASE G!Crash
    <2>1. PICK e : late' \subseteq late \cup {e}
        BY <1>9 DEF G!Crash, GuardInv
    <2>2. /\ IsFiniteSet(late') /\ Cardinality(late') <= Cardinality(late) + 1
          /\ Cardinality(late') \in Nat /\ Cardinality(late) \in Nat
        BY <2>1, GrowsByOne DEF GoneInv
    <2> QED BY <1>0, <1>9, <2>2 DEF G!Crash, GoneInv
<1>10. CASE G!Guard \/ G!DeleteLost
    <2>1. late' \subseteq late /\ UNCHANGED <<crashes, upgraded, pc>> /\ pc = "apply"
        BY <1>10 DEF G!Guard, G!Tick, G!SendDelete, G!DeleteLands, G!DeleteLost, GuardInv
    <2>2. /\ IsFiniteSet(late')
          /\ Cardinality(late') <= crashes' + (IF upgraded' THEN 1 ELSE 0)
        BY <2>1, LateStays
    <2> QED BY <2>1, <2>2 DEF GoneInv
<1>11. ASSUME NEW p \in Pdb, G!Evict(p) \/ G!SelfHeal(p) \/ G!LateLands(p) \/ G!LateDropped(p)
       PROVE  GoneInv'
    <2>1. late' \subseteq late /\ UNCHANGED <<crashes, upgraded, pc, removed, todo>>
        BY <1>11 DEF G!Evict, G!SelfHeal, G!LateLands, G!LateDropped
    <2>2. /\ IsFiniteSet(late')
          /\ Cardinality(late') <= crashes' + (IF upgraded' THEN 1 ELSE 0)
        BY <2>1, LateStays
    <2>3. Gone' \subseteq Gone
        BY <1>11 DEF G!Evict, G!SelfHeal, G!LateLands, G!LateDropped, Gone
    <2>4. CASE pc \in {"restore", "done"}
        <3>1. IsFiniteSet(Gone') /\ Cardinality(Gone') <= crashes' + 1
            BY <2>1, <2>3, <2>4, GoneStays
        <3> QED BY <2>1, <2>2, <3>1 DEF GoneInv
    <2>5. CASE pc \notin {"restore", "done"}
        BY <2>1, <2>2, <2>5 DEF GoneInv
    <2> QED BY <2>4, <2>5
<1>12. CASE UNCHANGED G!vars
    BY <1>12 DEF G!vars, GoneInv, Gone
<1> QED BY <1>1, <1>2, <1>3, <1>4, <1>5, <1>6, <1>7, <1>8, <1>9, <1>10, <1>11, <1>12
        DEF G!Next, G!Upgrade

\* An upgrade ends with the budgets of the operator that it took down back in
\* the cluster, but for one DELETE nobody waited for and one per killed run,
\* whatever ArgoCD, the goroutine and the API server did meanwhile.
THEOREM Restored == ASSUME Argo \subseteq Pdb PROVE G!Spec => []G!RestoredWhenDone
<1>1. G!Init => GoneInv
    BY FS_EmptySet DEF G!Init, GoneInv
<1>2. G!TypeOK /\ GoneInv => G!RestoredWhenDone
    <2> SUFFICES ASSUME G!TypeOK, GoneInv, pc = "done"
                 PROVE  Cardinality((removed \ Argo) \ live) <= 1 + crashes
        BY SameCardinality DEF G!RestoredWhenDone
    <2>1. IsFiniteSet(Gone) /\ Cardinality(Gone) <= crashes + 1
        BY DEF GoneInv
    <2>2. (removed \ Argo) \ live \subseteq Gone
        BY DEF GoneInv, Gone
    <2>3. /\ Cardinality((removed \ Argo) \ live) <= Cardinality(Gone)
          /\ Cardinality((removed \ Argo) \ live) \in Nat /\ Cardinality(Gone) \in Nat
        BY <2>1, <2>2, Shrinks
    <2>4. crashes \in Nat
        BY BoundsAssumption DEF G!TypeOK
    <2> QED BY <2>1, <2>3, <2>4
<1> QED BY <1>1, <1>2, GoneStep, GuardInvariant, BudgetsTypeCorrect, PTL DEF G!Spec
=============================================================================
