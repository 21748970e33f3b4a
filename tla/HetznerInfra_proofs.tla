------------------------- MODULE HetznerInfra_proofs -------------------------
(***************************************************************************)
(* Theorems of HetznerInfra, for every set of hosts, servers and modes and   *)
(* every number of faults.                                                  *)
(*                                                                         *)
(* WiredWhenDone is about the end of a run that may have met half of every   *)
(* resource.  WiringInv follows the run: what each stage it has left behind  *)
(* was for is there, and what the steps inside a stage have reached so far.  *)
(* LiveInv says that the run never arms a node that answered its probe.     *)
(***************************************************************************)
EXTENDS HetznerInfra, WellFoundedInduction, SequenceTheorems, TLAPS

\* The place of the stage a run is in; 0 outside of a bootstrap.
At(p) ==
    CASE p \in {"natProtect", "natAttach", "natRoute", "natSsh"} -> 6
      [] p \in {"lbProtect", "lbReady", "lbLabel", "lbAttach", "lbAttached", "lbPublic",
                "lbPublished", "lbService", "lbTarget", "lbDns"} -> 7
      [] p = "fipProtect" -> 8
      [] p = "membersPost" -> 11
      [] p \in {"failoverMaster", "failoverPost", "failoverWait"} -> 13
      [] p \in {"idle", "unprotectLb", "unprotectNat", "deleted"} -> 0
      [] OTHER -> Place(p)

Behind(stage) == Needed(stage) /\ Place(stage) < At(pc)

\* What a stage leaves behind.
WiringInv ==
    /\ Behind("robotKey") => key["robot"] # "none"
    /\ Behind("network") => net.made
    /\ Behind("hcloudKey") => key["hcloud"] # "none"
    /\ Behind("nat") => nat.made /\ nat.attached /\ nat.masq /\ net.route = "gateway"
    /\ Behind("lb") => /\ lb.owned /\ lb.net = "yes" /\ lb.service /\ lb.target
                       /\ mode.hostname => dns
    /\ Behind("fip") => fip.made
    /\ Behind("vswitch") => vswitch = "ours"
    /\ Behind("subnet") => net.bridged
    /\ Behind("members") => \A h \in Host : member[h] = "ready"
    /\ Behind("vpn") => joined = VpnServer
    /\ Behind("failover") => failover.active = master

\* What the steps inside a stage have reached.
StageInv ==
    /\ net.route # "stale"
    /\ pc \in {"natProtect", "natAttach", "natRoute", "natSsh"} => nat.made
    /\ pc \in {"natRoute", "natSsh"} => nat.attached
    /\ pc = "natSsh" => net.route = "gateway"
    /\ At(pc) = 7 /\ pc \notin {"lb", "lbLabel"} => lb.owned
    /\ pc \in {"lbPublic", "lbPublished", "lbService", "lbTarget", "lbDns"} => lb.net = "yes"
    /\ pc \in {"lbTarget", "lbDns"} => lb.service
    /\ pc = "lbDns" => lb.target
    /\ pc = "fipProtect" => fip.made

\* The only host the failover IP is ever switched to is the init master.
FailoverInv ==
    /\ failover.flight # "none" => failover.flight = master
    /\ pc \in {"failoverPost", "failoverWait"} => master # "none"
    /\ pc = "failoverMaster" => failover.active \in {proc.seen, master}
    /\ Behind("failover") => master # "none"
    /\ pc = "failoverMaster" /\ failover.active # proc.seen => master # "none"

\* A node that was there when the run began is skipped, or was not seen by its probe.
LiveInv ==
    \A h \in proc.live \ proc.missed :
        machine[h] = "node" /\ proc.boot[h] \in {"todo", "ok"}

-----------------------------------------------------------------------------
(* The order of the stages.                                                *)

StageNames == {"robotKey", "boot", "plan", "network", "hcloudKey", "nat", "lb", "fip", "vswitch",
               "subnet", "members", "vpn", "failover", "provision", "finalize", "done"}

LEMMA StageOrder ==
    /\ DOMAIN Stages = 1 .. 16
    /\ \A i \in 1 .. 16 : Stages[i] \in StageNames
    /\ \A i, j \in 1 .. 16 : Stages[i] = Stages[j] => i = j
    /\ \A s \in StageNames : \E i \in 1 .. 16 : Stages[i] = s
BY DEF Stages, StageNames

LEMMA PlaceOf == \A i \in 1 .. 16 : Place(Stages[i]) = i
BY StageOrder DEF Place

LEMMA Places ==
    /\ Place("robotKey") = 1 /\ Place("boot") = 2 /\ Place("plan") = 3 /\ Place("network") = 4
    /\ Place("hcloudKey") = 5 /\ Place("nat") = 6 /\ Place("lb") = 7 /\ Place("fip") = 8
    /\ Place("vswitch") = 9 /\ Place("subnet") = 10 /\ Place("members") = 11
    /\ Place("vpn") = 12 /\ Place("failover") = 13 /\ Place("provision") = 14
    /\ Place("finalize") = 15 /\ Place("done") = 16
<1>1. /\ Stages[1] = "robotKey" /\ Stages[2] = "boot" /\ Stages[3] = "plan"
      /\ Stages[4] = "network" /\ Stages[5] = "hcloudKey" /\ Stages[6] = "nat"
      /\ Stages[7] = "lb" /\ Stages[8] = "fip" /\ Stages[9] = "vswitch"
      /\ Stages[10] = "subnet" /\ Stages[11] = "members" /\ Stages[12] = "vpn"
      /\ Stages[13] = "failover" /\ Stages[14] = "provision" /\ Stages[15] = "finalize"
      /\ Stages[16] = "done"
    BY DEF Stages
<1>2. \A i \in 1 .. 16 : Place(Stages[i]) = i
    BY PlaceOf
<1> QED BY <1>1, <1>2

LEMMA AtStages == \A s \in StageNames : At(s) = Place(s) /\ Place(s) \in 1 .. 16
BY Places DEF At, StageNames

LEMMA AtSteps ==
    /\ \A p \in {"natProtect", "natAttach", "natRoute", "natSsh"} : At(p) = 6
    /\ \A p \in {"lbProtect", "lbReady", "lbLabel", "lbAttach", "lbAttached", "lbPublic",
                 "lbPublished", "lbService", "lbTarget", "lbDns"} : At(p) = 7
    /\ At("fipProtect") = 8 /\ At("membersPost") = 11
    /\ \A p \in {"failoverMaster", "failoverPost", "failoverWait"} : At(p) = 13
    /\ \A p \in {"idle", "unprotectLb", "unprotectNat", "deleted"} : At(p) = 0
BY DEF At

LEMMA LessThan == \E R : IsWellFoundedOn(R, Nat) /\ \A n, m \in Nat : m < n => <<m, n>> \in R
<1>1. \A n, m \in Nat : m < n => <<m, n>> \in OpToRel(<, Nat)
    BY DEF OpToRel
<1> QED BY <1>1, NatLessThanWellFounded, Zenon

LEMMA NextNeeded ==
    ASSUME NEW i \in 0 .. 15
    PROVE  /\ NeededAfter(i) \in StageNames /\ Place(NeededAfter(i)) > i
           /\ \A u \in StageNames :
                 Needed(u) /\ Place(u) > i => Place(u) >= Place(NeededAfter(i))
<1> DEFINE ahead == {j \in 1 .. 16 : j > i /\ Needed(Stages[j])}
<1>1. ahead \subseteq Nat /\ ahead # {}
    <2>1. Stages[16] = "done" /\ Needed("done")
        BY DEF Stages, Needed
    <2> QED BY <2>1
<1>2. PICK R : IsWellFoundedOn(R, Nat) /\ \A n, m \in Nat : m < n => <<m, n>> \in R
    BY LessThan
<1>3. PICK n \in ahead : \A m \in ahead : ~(<<m, n>> \in R)
    <2> HIDE DEF ahead
    <2> QED BY <1>1, <1>2, WFMin, Zenon
<1>4. \A m \in ahead : ~(m < n)
    <2> HIDE DEF ahead
    <2> QED BY <1>1, <1>2, <1>3, Zenon
<1> DEFINE First(j) == /\ j > i /\ Needed(Stages[j])
                       /\ \A k \in (i + 1) .. (j - 1) : ~Needed(Stages[k])
<1>5. n \in DOMAIN Stages /\ First(n)
    BY <1>3, <1>4, StageOrder
<1>6. PICK j \in DOMAIN Stages : First(j) /\ NeededAfter(i) = Stages[j]
    BY <1>5 DEF NeededAfter
<1>7. \A u \in StageNames : Needed(u) /\ Place(u) > i => Place(u) >= j
    <2> SUFFICES ASSUME NEW u \in StageNames, Needed(u), Place(u) > i, Place(u) < j
                 PROVE  FALSE
        BY <1>6, StageOrder, AtStages
    <2>1. PICK k \in 1 .. 16 : Stages[k] = u
        BY StageOrder
    <2>2. Place(u) = k
        BY <2>1, PlaceOf
    <2>3. k \in (i + 1) .. (j - 1)
        BY <1>6, <2>1, <2>2, StageOrder
    <2> QED BY <1>6, <2>1, <2>3
<1>8. j \in 1 .. 16 /\ Place(Stages[j]) = j /\ Stages[j] \in StageNames
    BY <1>6, PlaceOf, StageOrder
<1> QED BY <1>6, <1>7, <1>8

\* A stage handed over leaves nothing needed out.
LEMMA Handover ==
    ASSUME NEW s \in StageNames, s # "done", Pass(s), At(pc) = Place(s), UNCHANGED mode
    PROVE  /\ pc' \in StageNames /\ At(pc') = Place(pc')
           /\ \A u \in StageNames : Behind(u)' => u = s \/ Behind(u)
<1>1. Place(s) \in 0 .. 15
    BY Places DEF StageNames
<1>2. pc' = NeededAfter(Place(s))
    BY DEF Pass, Following
<1>3. pc' \in StageNames /\ At(pc') = Place(pc')
    BY <1>1, <1>2, NextNeeded, AtStages
<1>4. ASSUME NEW u \in StageNames, Behind(u)' PROVE u = s \/ Behind(u)
    <2>1. Needed(u) /\ Place(u) < Place(pc')
        BY <1>3, <1>4 DEF Behind, Needed
    <2>2. ~(Place(u) > Place(s))
        BY <1>1, <1>2, <2>1, NextNeeded, AtStages, <1>3
    <2>3. Place(u) = Place(s) => u = s
        BY Places DEF StageNames
    <2> QED BY <2>1, <2>2, <2>3, AtStages DEF Behind
<1> QED BY <1>3, <1>4

-----------------------------------------------------------------------------
(* Types.                                                                  *)

\* A hand-over keeps pc and applied in their ranges, an exit pc and proc.
LEMMA PassType ==
    ASSUME NEW s \in StageNames, s # "done", Pass(s), applied \in BOOLEAN
    PROVE  pc' \in Pcs /\ applied' \in BOOLEAN
<1>1. Place(s) \in 0 .. 15
    BY Places DEF StageNames
<1>2. pc' \in StageNames
    BY <1>1, NextNeeded DEF Pass, Following
<1>3. StageNames \subseteq Pcs
    BY DEF StageNames, Pcs
<1>4. applied' \in BOOLEAN
    BY Zenon DEF Pass
<1> QED BY <1>2, <1>3, <1>4

LEMMA FreshType == Fresh \in Memory /\ Fresh.live = {}
BY DEF Fresh, Memory, KeyNames

LEMMA ExitType == Exit => pc' \in Pcs /\ proc' \in Memory
BY FreshType DEF Exit, Pcs

LEMMA BootedType ==
    ASSUME proc \in Memory, NEW h \in Host, NEW to \in {"armed", "reset", "ok", "failed"},
           Booted(h, to)
    PROVE  proc' \in Memory
BY DEF Memory, Booted

LEMMA TypeInit == Init => TypeOK
<1> SUFFICES ASSUME Init PROVE TypeOK
    OBVIOUS
<1>1. pc \in Pcs /\ proc \in Memory
    BY FreshType DEF Init, Pcs
<1>2. /\ mode \in Modes /\ dns \in BOOLEAN /\ applied \in BOOLEAN
    BY Zenon DEF Init
<1>3. nat \in Gateway /\ fip \in FloatingIP /\ net \in Network
    <2>1. ("subnet" \in wrong) \in BOOLEAN
        OBVIOUS
    <2> QED BY <2>1 DEF Init, NoGateway, Gateway, FloatingIP, Network
<1>4. lb \in LoadBalancer
    <2>1. NoLB \in LoadBalancer
        BY DEF NoLB, LoadBalancer
    <2>2. OldLB \in LoadBalancer
        BY DEF NoLB, OldLB, LoadBalancer
    <2> QED BY <2>1, <2>2 DEF Init
<1>5. faults \in 0 .. MaxFaults
    BY HetznerInfraAssumption DEF Init, HetznerInfraAssumption
<1>6. /\ key \in [Services -> KeyNames \cup {"none"}] /\ wrong \subseteq Foreign
    BY DEF Init, Services, KeyNames
<1>7. /\ machine \in [Host -> MachineStates] /\ armed \subseteq Host
      /\ member \in [Host -> MemberStates]
    BY DEF Init, MachineStates, MemberStates
<1>8. /\ vswitch \in {"none", "ours", "cancelled"}
      /\ joined \subseteq VpnServer /\ master \in Host \cup {"none"}
      /\ failover \in FailoverIP
    BY DEF Init, FailoverIP
<1> QED BY <1>1, <1>2, <1>3, <1>4, <1>5, <1>6, <1>7, <1>8 DEF TypeOK

LEMMA TypeStep == TypeOK /\ [Next]_vars => TypeOK'
<1> SUFFICES ASSUME TypeOK, [Next]_vars PROVE TypeOK'
    OBVIOUS
<1>0. MaxFaults \in Nat /\ (Fault => faults' \in 0 .. MaxFaults)
    BY HetznerInfraAssumption DEF HetznerInfraAssumption, TypeOK, Fault
<1>p. \A s \in StageNames : s # "done" /\ Pass(s) => pc' \in Pcs /\ applied' \in BOOLEAN
    BY PassType DEF TypeOK
<1>n. /\ {"robotKey", "boot", "plan", "network", "hcloudKey", "nat", "lb", "fip", "vswitch",
          "subnet", "members", "vpn", "failover", "provision", "finalize"} \subseteq StageNames
      /\ "done" \notin {"robotKey", "boot", "plan", "network", "hcloudKey", "nat", "lb", "fip",
          "vswitch", "subnet", "members", "vpn", "failover", "provision", "finalize"}
    BY DEF StageNames
<1> USE DEF TypeOK, hosts, hcloud, robot, caph
<1>1. ASSUME Exit, faults' \in 0 .. MaxFaults,
             UNCHANGED <<mode, key, wrong, hosts, hcloud, dns, robot, caph>>
      PROVE  TypeOK'
    BY <1>1, ExitType
<1>2. CASE Start
    <2>1. pc' \in StageNames
        BY <1>2, NextNeeded DEF Start
    <2>2. proc' \in Memory
        BY <1>2, FreshType DEF Start, Memory, Nodes
    <2>3. pc' \in Pcs
        BY <2>1 DEF StageNames, Pcs
    <2> QED BY <1>2, <2>2, <2>3 DEF Start
<1>3. CASE Crash \/ Rerun \/ RefusePlans \/ GatewayUnavailable \/ AttachRefused
           \/ AttachLBRefused \/ DnsTimesOut \/ VSwitchRefused \/ SubnetRefused \/ MembersTimeOut
           \/ FailoverTimesOut
    BY <1>0, <1>1, <1>3
       DEF Crash, Rerun, RefusePlans, GatewayUnavailable, AttachRefused, AttachLBRefused,
           DnsTimesOut, VSwitchRefused, SubnetRefused, MembersTimeOut, FailoverTimesOut, unmoved
<1>4. ASSUME NEW s \in Services, CreateKey(s) \/ KeyClash(s) PROVE TypeOK'
    <2>1. CASE KeyClash(s)
        BY <1>1, <2>1 DEF KeyClash
    <2>2. CASE CreateKey(s)
        <3>1. pc' \in Pcs /\ applied' \in BOOLEAN
            BY <1>p, <1>n, <2>2 DEF CreateKey, KeyStage
        <3>2. key' \in [Services -> KeyNames \cup {"none"}] /\ key'[s] \in KeyNames
            <4>1. proc.name \in KeyNames
                BY DEF Memory
            <4> QED BY <2>2, <4>1 DEF CreateKey
        <3>3. proc' \in Memory
            BY <2>2, <3>2 DEF CreateKey, Memory
        <3> QED BY <2>2, <3>1, <3>2, <3>3 DEF CreateKey
    <2> QED BY <1>4, <2>1, <2>2
<1>5. ASSUME NEW h \in Host, BootStep(h) PROVE TypeOK'
    <2>1. proc' \in Memory
        <3>1. CASE ActivateRescue(h)
            BY <3>1 DEF ActivateRescue, Memory, Nodes
        <3> QED BY <1>5, <3>1, BootedType
                DEF BootStep, SkipBoot, ResetHost, HostReachable, BootTimesOut
    <2>2. /\ machine' \in [Host -> MachineStates] /\ armed' \subseteq Host
          /\ faults' \in 0 .. MaxFaults /\ UNCHANGED others
        BY <1>0, <1>5 DEF BootStep, SkipBoot, ActivateRescue, ResetHost, HostReachable,
           BootTimesOut, MachineStates
    <2> QED BY <2>1, <2>2 DEF others
<1>6. CASE BootsEnd
    <2>1. CASE Exit /\ UNCHANGED applied
        BY <1>1, <1>6, <2>1 DEF BootsEnd
    <2>2. CASE Pass("boot") /\ UNCHANGED proc
        BY <1>6, <1>p, <1>n, <2>2 DEF BootsEnd
    <2> QED BY <1>6, <2>1, <2>2 DEF BootsEnd
<1>7. CASE ApprovePlans \/ DnsResolves \/ ServersJoined \/ FailoverSeen \/ MainClusterProvisioned
    BY <1>7, <1>p, <1>n DEF ApprovePlans, DnsResolves, ServersJoined, FailoverSeen,
       MainClusterProvisioned
<1>8. CASE CreateNetwork \/ ConnectVSwitch \/ CreateVSwitch
    <2>1. net' \in Network
        BY <1>8 DEF CreateNetwork, ConnectVSwitch, CreateVSwitch, Network
    <2> QED BY <1>8, <1>p, <1>n, <2>1 DEF CreateNetwork, ConnectVSwitch, CreateVSwitch
<1>9. CASE FindOrCreateGateway
    <2>1. CASE nat' = nat /\ Exit
        BY <1>1, <1>9, <2>1 DEF FindOrCreateGateway, unmoved
    <2>2. CASE nat' \in {nat, [NoGateway EXCEPT !.made = TRUE]} /\ UNCHANGED proc
               /\ pc' \in {"natAttach", "natProtect"}
        <3>1. nat' \in Gateway
            BY <2>2 DEF NoGateway, Gateway
        <3> QED BY <1>9, <2>2, <3>1 DEF FindOrCreateGateway, unmoved, Pcs
    <2> QED BY <1>9, <2>1, <2>2 DEF FindOrCreateGateway
<1>10. CASE ProtectGateway \/ GatewayAttached \/ EnsureRoute \/ UnprotectGateway
    <2>1. nat' \in Gateway
        BY <1>10 DEF ProtectGateway, GatewayAttached, EnsureRoute, UnprotectGateway, Gateway
    <2>2. net' \in Network
        BY <1>10 DEF ProtectGateway, GatewayAttached, EnsureRoute, UnprotectGateway, Network
    <2> QED BY <1>10, <2>1, <2>2
            DEF ProtectGateway, GatewayAttached, EnsureRoute, UnprotectGateway, unmoved, Step, Pcs
<1>11. CASE ConfigureGateway
    <2>1. nat' \in Gateway
        BY <1>11 DEF ConfigureGateway, Gateway
    <2> QED BY <1>11, <1>p, <1>n, <2>1 DEF ConfigureGateway
<1>12. CASE FindOrCreateLB \/ ProtectLB \/ LBReady \/ LabelLB \/ AttachLB
            \/ LBAttached \/ OpenLB \/ LBOpen \/ AddService \/ UnprotectLB
    <2>1. lb' \in LoadBalancer
        <3>1. CASE FindOrCreateLB
            <4>1. NoLB \in LoadBalancer
                BY DEF NoLB, LoadBalancer
            <4> QED BY <3>1, <4>1 DEF FindOrCreateLB, LoadBalancer
        <3>2. CASE ProtectLB \/ LBReady \/ LabelLB \/ AttachLB
            BY <3>2 DEF ProtectLB, LBReady, LabelLB, AttachLB, LoadBalancer
        <3>3. CASE LBAttached \/ OpenLB \/ LBOpen \/ AddService \/ UnprotectLB
            BY <3>3 DEF LBAttached, OpenLB, LBOpen, AddService, UnprotectLB, LoadBalancer
        <3> QED BY <1>12, <3>1, <3>2, <3>3
    <2>2. pc' \in Pcs /\ UNCHANGED lbOnly
        BY <1>12 DEF FindOrCreateLB, ProtectLB, LBReady, LabelLB, AttachLB, LBAttached, OpenLB,
           LBOpen, AddService, UnprotectLB, Step, Pcs
    <2> QED BY <2>1, <2>2 DEF lbOnly, unmoved
<1>13. CASE AddTarget
    <2>1. lb' \in LoadBalancer
        BY <1>13 DEF AddTarget, LoadBalancer
    <2>2. pc' \in Pcs /\ applied' \in BOOLEAN
        BY <1>13, <1>p, <1>n DEF AddTarget, Pcs
    <2> QED BY <1>13, <2>1, <2>2 DEF AddTarget
<1>14. CASE CreateFloatingIP \/ ProtectFloatingIP
    <2>1. fip' \in FloatingIP
        BY <1>14 DEF CreateFloatingIP, ProtectFloatingIP, FloatingIP
    <2>2. pc' \in Pcs /\ applied' \in BOOLEAN
        BY <1>14, <1>p, <1>n DEF CreateFloatingIP, ProtectFloatingIP, Pcs
    <2> QED BY <1>14, <2>1, <2>2 DEF CreateFloatingIP, ProtectFloatingIP
<1>15. CASE PollMembers
    <2>1. pc' \in Pcs /\ applied' \in BOOLEAN
        BY <1>15, <1>p, <1>n DEF PollMembers, Pcs
    <2>2. proc' \in Memory
        BY <1>15 DEF PollMembers, Memory
    <2> QED BY <1>15, <2>1, <2>2 DEF PollMembers
<1>16. CASE PostMembers
    <2>1. member' \in [Host -> MemberStates]
        BY <1>16 DEF PostMembers, MemberStates
    <2> QED BY <1>16, <2>1 DEF PostMembers, Step, Pcs
<1>17. ASSUME NEW s \in VpnServer, JoinServer(s) PROVE TypeOK'
    BY <1>17 DEF JoinServer
<1>18. CASE ReadActive
    <2>1. proc' \in Memory
        BY <1>18 DEF ReadActive, Memory, FailoverIP
    <2> QED BY <1>18, <2>1 DEF ReadActive, Step, unmoved, Pcs
<1>19. CASE FindInitMaster
    <2>1. pc' \in Pcs /\ applied' \in BOOLEAN
        BY <1>19, <1>p, <1>n DEF FindInitMaster, Pcs
    <2> QED BY <1>19, <2>1 DEF FindInitMaster
<1>20. CASE PostFailover
    <2>1. failover' \in FailoverIP
        BY <1>20 DEF PostFailover, FailoverIP
    <2> QED BY <1>0, <1>20, <2>1 DEF PostFailover, Step, Pcs
<1>21. CASE DisablePublicInterface
    <2>1. lb' \in LoadBalancer
        BY <1>21 DEF DisablePublicInterface, LoadBalancer
    <2> QED BY <1>21, <1>p, <1>n, <2>1 DEF DisablePublicInterface
<1>22. CASE DeleteCluster \/ DeletionCutShort
    BY <1>0, <1>22 DEF DeleteCluster, DeletionCutShort, unmoved, Pcs
<1>23. ASSUME NEW h \in Host, MemberFails(h) \/ MemberAttached(h) PROVE TypeOK'
    <2>1. member' \in [Host -> MemberStates]
        BY <1>23 DEF MemberFails, MemberAttached, MemberStates
    <2> QED BY <1>0, <1>23, <2>1 DEF MemberFails, MemberAttached, program
<1>24. CASE GatewayComesUp
    <2>1. nat' \in Gateway
        BY <1>24 DEF GatewayComesUp, Gateway
    <2> QED BY <1>24, <2>1 DEF GatewayComesUp, program
<1>25. CASE LBSettles
    <2>1. lb' \in LoadBalancer
        BY <1>25 DEF LBSettles, LoadBalancer
    <2> QED BY <1>25, <2>1 DEF LBSettles, program
<1>26. CASE OperatorAddsRecord \/ OperatorFixes \/ VSwitchGone
    <2>1. dns' \in BOOLEAN
        <3>1. dns' = TRUE \/ UNCHANGED dns
            BY <1>26 DEF OperatorAddsRecord, OperatorFixes, VSwitchGone
        <3> QED BY <3>1, Zenon
    <2> QED BY <1>26, <2>1 DEF OperatorAddsRecord, OperatorFixes, VSwitchGone, program
<1>27. CASE SwitchLands
    <2>1. failover' \in FailoverIP
        BY <1>27 DEF SwitchLands, FailoverIP
    <2> QED BY <1>27, <2>1 DEF SwitchLands, program
<1>28. ASSUME NEW h \in Host, Boots(h) \/ Installs(h) \/ Installed(h) PROVE TypeOK'
    <2>1. machine' \in [Host -> MachineStates]
        BY <1>28 DEF Boots, Installs, Installed, MachineStates
    <2> QED BY <1>28, <2>1 DEF Boots, Installs, Installed, program
<1>29. CASE UNCHANGED vars
    BY <1>29 DEF vars
<1> QED BY <1>2, <1>3, <1>4, <1>5, <1>6, <1>7, <1>8, <1>9, <1>10, <1>11, <1>12, <1>13, <1>14,
           <1>15, <1>16, <1>17, <1>18, <1>19, <1>20, <1>21, <1>22, <1>23, <1>24, <1>25, <1>26,
           <1>27, <1>28, <1>29 DEF Next, Command, Failure, Operator, Environment

-----------------------------------------------------------------------------
(* What a run leaves behind.                                               *)

RunInv == WiringInv /\ StageInv /\ FailoverInv

LEMMA SameStage ==
    ASSUME At(pc') = At(pc), UNCHANGED mode
    PROVE  \A u \in StageNames : Behind(u)' <=> Behind(u)
BY DEF Behind, Needed

LEMMA NothingBehind ==
    ASSUME At(pc') = 0
    PROVE  \A u \in StageNames : ~Behind(u)'
BY AtStages DEF Behind

LEMMA FirstStage ==
    ASSUME Start
    PROVE  /\ pc' \in StageNames /\ At(pc') = Place(pc')
           /\ \A u \in StageNames : ~Behind(u)'
<1>1. pc' = NeededAfter(0) /\ UNCHANGED mode
    BY DEF Start
<1>2. pc' \in StageNames /\ At(pc') = Place(pc')
    BY <1>1, NextNeeded, AtStages
<1>3. \A u \in StageNames : ~Behind(u)'
    BY <1>1, <1>2, NextNeeded, AtStages DEF Behind, Needed
<1> QED BY <1>2, <1>3

\* At the first step of a stage StageInv and FailoverInv ask for little.
LEMMA StageBegins ==
    ASSUME pc' \in StageNames, net'.route # "stale"
    PROVE  StageInv'
<1>1. At(pc') = 7 => pc' = "lb"
    BY AtStages, Places DEF StageNames
<1> QED BY <1>1 DEF StageInv, StageNames

\* A command that ends, or a deletion, leaves nothing to say.
LEMMA RunEnds ==
    ASSUME RunInv, pc' \in {"idle", "unprotectLb", "unprotectNat", "deleted"},
           net'.route # "stale", UNCHANGED <<failover, master>>
    PROVE  RunInv'
<1>1. At(pc') = 0
    BY AtSteps
<1>2. \A u \in StageNames : ~Behind(u)'
    BY <1>1, NothingBehind
<1>3. WiringInv'
    BY <1>2 DEF WiringInv, StageNames
<1>4. StageInv' /\ FailoverInv'
    BY <1>1, <1>2 DEF RunInv, StageInv, FailoverInv, StageNames
<1> QED BY <1>3, <1>4 DEF RunInv

LEMMA RunStep == TypeOK /\ RunInv /\ [Next]_vars => RunInv'
<1> SUFFICES ASSUME TypeOK, RunInv, [Next]_vars PROVE RunInv'
    OBVIOUS
<1>n. StageNames = {"robotKey", "boot", "plan", "network", "hcloudKey", "nat", "lb", "fip",
                    "vswitch", "subnet", "members", "vpn", "failover", "provision", "finalize",
                    "done"}
    BY DEF StageNames
<1>s. \A s \in StageNames : s # "done" /\ Pass(s) /\ pc = s /\ UNCHANGED mode =>
          /\ pc' \in StageNames
          /\ \A u \in StageNames : Behind(u)' => u = s \/ Behind(u)
    BY AtStages, Handover
<1> USE <1>n DEF RunInv, WiringInv, StageInv, FailoverInv, hosts, hcloud, robot, caph
<1>1. CASE Crash \/ Rerun \/ RefusePlans \/ GatewayUnavailable \/ AttachRefused
           \/ AttachLBRefused \/ DnsTimesOut \/ VSwitchRefused \/ SubnetRefused \/ MembersTimeOut
           \/ FailoverTimesOut \/ DeleteCluster \/ DeletionCutShort \/ UnprotectLB
           \/ UnprotectGateway \/ \E s \in Services : KeyClash(s)
    <2>1. /\ pc' \in {"idle", "unprotectLb", "unprotectNat", "deleted"}
                \/ (DeleteCluster /\ pc' \in {"unprotectLb", "deleted"})
          /\ UNCHANGED <<net, failover, master>>
        BY <1>1 DEF Crash, Rerun, RefusePlans, GatewayUnavailable, AttachRefused, AttachLBRefused,
           DnsTimesOut, VSwitchRefused, SubnetRefused, MembersTimeOut, FailoverTimesOut,
           DeleteCluster, DeletionCutShort, UnprotectLB, UnprotectGateway, KeyClash, Exit, Step, unmoved, lbOnly
    <2> QED BY <2>1, RunEnds
<1>2. CASE Start
    <2>1. pc' \in StageNames /\ \A u \in StageNames : ~Behind(u)'
        BY <1>2, FirstStage
    <2>2. StageInv'
        BY <1>2, <2>1, StageBegins DEF Start
    <2> QED BY <1>2, <2>1, <2>2 DEF Start
<1>3. CASE CreateNetwork
    <2>1. pc' \in StageNames /\ \A u \in StageNames : Behind(u)' => u = "network" \/ Behind(u)
        BY <1>3, <1>s DEF CreateNetwork
    <2>2. StageInv'
        BY <1>3, <2>1, StageBegins DEF CreateNetwork, TypeOK, Network
    <2> QED BY <1>3, <2>1, <2>2 DEF CreateNetwork, TypeOK, Network, Gateway, LoadBalancer
<1>4. CASE ConfigureGateway
    <2>1. pc' \in StageNames /\ \A u \in StageNames : Behind(u)' => u = "nat" \/ Behind(u)
        BY <1>4, Handover, AtSteps, Places DEF ConfigureGateway
    <2>2. StageInv'
        BY <1>4, <2>1, StageBegins DEF ConfigureGateway, TypeOK, Network
    <2> QED BY <1>4, <2>1, <2>2 DEF ConfigureGateway, TypeOK, Network, Gateway, LoadBalancer
<1>5. CASE ConnectVSwitch
    <2>1. pc' \in StageNames /\ \A u \in StageNames : Behind(u)' => u = "subnet" \/ Behind(u)
        BY <1>5, <1>s DEF ConnectVSwitch
    <2>2. StageInv'
        BY <1>5, <2>1, StageBegins DEF ConnectVSwitch, TypeOK, Network
    <2> QED BY <1>5, <2>1, <2>2 DEF ConnectVSwitch, TypeOK, Network, Gateway, LoadBalancer
<1>6. CASE CreateVSwitch
    <2>1. pc' \in StageNames /\ \A u \in StageNames : Behind(u)' => u = "vswitch" \/ Behind(u)
        BY <1>6, <1>s DEF CreateVSwitch
    <2>2. StageInv'
        BY <1>6, <2>1, StageBegins DEF CreateVSwitch, TypeOK, Network
    <2> QED BY <1>6, <2>1, <2>2 DEF CreateVSwitch, TypeOK, Network, Gateway, LoadBalancer
<1>7. CASE ApprovePlans
    <2>1. pc' \in StageNames /\ \A u \in StageNames : Behind(u)' => u = "plan" \/ Behind(u)
        BY <1>7, <1>s DEF ApprovePlans
    <2>2. StageInv'
        BY <1>7, <2>1, StageBegins DEF ApprovePlans, TypeOK, Network
    <2> QED BY <1>7, <2>1, <2>2 DEF ApprovePlans, TypeOK, Network, Gateway, LoadBalancer
<1>8. CASE DnsResolves
    <2>1. pc' \in StageNames /\ \A u \in StageNames : Behind(u)' => u = "lb" \/ Behind(u)
        BY <1>8, Handover, AtSteps, Places DEF DnsResolves
    <2>2. StageInv'
        BY <1>8, <2>1, StageBegins DEF DnsResolves, TypeOK, Network
    <2> QED BY <1>8, <2>1, <2>2, AtSteps DEF DnsResolves, TypeOK, Network, Gateway, LoadBalancer
<1>9. CASE ServersJoined
    <2>1. pc' \in StageNames /\ \A u \in StageNames : Behind(u)' => u = "vpn" \/ Behind(u)
        BY <1>9, <1>s DEF ServersJoined
    <2>2. StageInv'
        BY <1>9, <2>1, StageBegins DEF ServersJoined, TypeOK, Network
    <2> QED BY <1>9, <2>1, <2>2 DEF ServersJoined, TypeOK, Network, Gateway, LoadBalancer
<1>10. CASE FailoverSeen
    <2>1. pc' \in StageNames /\ \A u \in StageNames : Behind(u)' => u = "failover" \/ Behind(u)
        BY <1>10, Handover, AtSteps, Places DEF FailoverSeen
    <2>2. StageInv'
        BY <1>10, <2>1, StageBegins DEF FailoverSeen, TypeOK, Network
    <2> QED BY <1>10, <2>1, <2>2 DEF FailoverSeen, TypeOK, Network, Gateway, LoadBalancer
<1>11. CASE MainClusterProvisioned
    <2>1. pc' \in StageNames /\ \A u \in StageNames : Behind(u)' => u = "provision" \/ Behind(u)
        BY <1>11, <1>s DEF MainClusterProvisioned
    <2>2. StageInv'
        BY <1>11, <2>1, StageBegins DEF MainClusterProvisioned, TypeOK, Network
    <2> QED BY <1>11, <2>1, <2>2 DEF MainClusterProvisioned, TypeOK, Network, Gateway, LoadBalancer
<1>12. CASE ProtectFloatingIP
    <2>1. pc' \in StageNames /\ \A u \in StageNames : Behind(u)' => u = "fip" \/ Behind(u)
        BY <1>12, Handover, AtSteps, Places DEF ProtectFloatingIP
    <2>2. StageInv'
        BY <1>12, <2>1, StageBegins DEF ProtectFloatingIP, TypeOK, Network
    <2> QED BY <1>12, <2>1, <2>2 DEF ProtectFloatingIP, TypeOK, Network, Gateway, LoadBalancer
<1>13. CASE DisablePublicInterface
    <2>1. pc' \in StageNames /\ \A u \in StageNames : Behind(u)' => u = "finalize" \/ Behind(u)
        BY <1>13, <1>s DEF DisablePublicInterface
    <2>2. StageInv'
        BY <1>13, <2>1, StageBegins DEF DisablePublicInterface, TypeOK, Network
    <2> QED BY <1>13, <2>1, <2>2 DEF DisablePublicInterface, TypeOK, Network, Gateway, LoadBalancer
<1>14. ASSUME NEW s \in Services, CreateKey(s) PROVE RunInv'
    <2>1. KeyStage(s) \in {"robotKey", "hcloudKey"} /\ (KeyStage(s) = "robotKey" => s = "robot")
          /\ (KeyStage(s) = "hcloudKey" => s = "hcloud")
        BY DEF KeyStage, Services
    <2>2. pc' \in StageNames /\ \A u \in StageNames : Behind(u)' => u = KeyStage(s) \/ Behind(u)
        BY <1>14, <1>s, <2>1 DEF CreateKey
    <2>3. key'[s] # "none" /\ \A t \in Services : key[t] # "none" => key'[t] # "none"
        BY <1>14 DEF CreateKey, TypeOK, Memory, KeyNames
    <2>4. StageInv'
        BY <1>14, <2>2, StageBegins DEF CreateKey
    <2> QED BY <1>14, <2>1, <2>2, <2>3, <2>4 DEF CreateKey, Services
<1>15. CASE BootsEnd
    <2>1. CASE pc' = "idle"
        BY <1>15, <2>1, RunEnds DEF BootsEnd
    <2>2. CASE Pass("boot")
        <3>1. pc' \in StageNames /\ \A u \in StageNames : Behind(u)' => u = "boot" \/ Behind(u)
            BY <1>15, <1>s, <2>2 DEF BootsEnd
        <3>2. StageInv'
            BY <1>15, <3>1, StageBegins DEF BootsEnd
        <3> QED BY <1>15, <3>1, <3>2 DEF BootsEnd
    <2> QED BY <1>15, <2>1, <2>2 DEF BootsEnd, Exit
<1>16. CASE AddTarget
    <2>1. CASE pc' = "lbDns"
        <3>1. \A u \in StageNames : Behind(u)' <=> Behind(u)
            BY <1>16, <2>1, AtSteps, SameStage DEF AddTarget
        <3> QED BY <1>16, <2>1, <3>1, AtSteps DEF AddTarget, TypeOK, LoadBalancer
    <2>2. CASE Pass("lb") /\ ~mode.hostname
        <3>1. pc' \in StageNames /\ \A u \in StageNames : Behind(u)' => u = "lb" \/ Behind(u)
            BY <1>16, <2>2, Handover, AtSteps, Places DEF AddTarget
        <3>2. StageInv'
            BY <1>16, <3>1, StageBegins DEF AddTarget
        <3> QED BY <1>16, <2>2, <3>1, <3>2, AtSteps DEF AddTarget, TypeOK, LoadBalancer
    <2> QED BY <1>16, <2>1, <2>2 DEF AddTarget
<1>17. CASE CreateFloatingIP
    <2>1. CASE Pass("fip") /\ fip.made
        <3>1. pc' \in StageNames /\ \A u \in StageNames : Behind(u)' => u = "fip" \/ Behind(u)
            BY <1>17, <1>s, <2>1 DEF CreateFloatingIP
        <3>2. StageInv'
            BY <1>17, <3>1, StageBegins DEF CreateFloatingIP
        <3> QED BY <1>17, <2>1, <3>1, <3>2 DEF CreateFloatingIP
    <2>2. CASE pc' = "fipProtect" /\ fip'.made
        <3>1. \A u \in StageNames : Behind(u)' <=> Behind(u)
            BY <1>17, <2>2, AtSteps, AtStages, Places, SameStage DEF CreateFloatingIP
        <3> QED BY <1>17, <2>2, <3>1, AtSteps DEF CreateFloatingIP
    <2> QED BY <1>17, <2>1, <2>2 DEF CreateFloatingIP, TypeOK, FloatingIP
<1>18. CASE PollMembers
    <2>1. CASE Pass("members") /\ \A h \in Host : member[h] = "ready"
        <3>1. pc' \in StageNames /\ \A u \in StageNames : Behind(u)' => u = "members" \/ Behind(u)
            BY <1>18, <1>s, <2>1 DEF PollMembers
        <3>2. StageInv'
            BY <1>18, <3>1, StageBegins DEF PollMembers
        <3> QED BY <1>18, <2>1, <3>1, <3>2 DEF PollMembers
    <2>2. CASE pc' \in {"members", "membersPost"}
        <3>1. \A u \in StageNames : Behind(u)' <=> Behind(u)
            BY <1>18, <2>2, AtSteps, AtStages, Places, SameStage DEF PollMembers
        <3> QED BY <1>18, <2>2, <3>1, AtSteps, AtStages, Places DEF PollMembers
    <2> QED BY <1>18, <2>1, <2>2 DEF PollMembers
<1>19. CASE FindInitMaster
    <2>1. CASE Pass("failover") /\ proc.seen = master
        <3>1. pc' \in StageNames /\ \A u \in StageNames : Behind(u)' => u = "failover" \/ Behind(u)
            BY <1>19, <2>1, Handover, AtSteps, Places DEF FindInitMaster
        <3>2. StageInv'
            BY <1>19, <3>1, StageBegins DEF FindInitMaster
        <3> QED BY <1>19, <2>1, <3>1, <3>2 DEF FindInitMaster
    <2>2. CASE pc' = "failoverPost"
        <3>1. \A u \in StageNames : Behind(u)' <=> Behind(u)
            BY <1>19, <2>2, AtSteps, SameStage DEF FindInitMaster
        <3> QED BY <1>19, <2>2, <3>1, AtSteps DEF FindInitMaster
    <2> QED BY <1>19, <2>1, <2>2 DEF FindInitMaster
<1>20. CASE FindOrCreateGateway
    <2>1. CASE pc' = "idle"
        BY <1>20, <2>1, RunEnds DEF FindOrCreateGateway, unmoved
    <2>2. CASE pc' \in {"natAttach", "natProtect"} /\ nat'.made /\ (nat.made => nat' = nat)
        <3>1. \A u \in StageNames : Behind(u)' <=> Behind(u)
            BY <1>20, <2>2, AtSteps, AtStages, Places, SameStage DEF FindOrCreateGateway, unmoved
        <3> QED BY <1>20, <2>2, <3>1, AtSteps DEF FindOrCreateGateway, unmoved
    <2> QED BY <1>20, <2>1, <2>2 DEF FindOrCreateGateway, Exit, NoGateway
<1>21. CASE ProtectGateway \/ GatewayAttached \/ EnsureRoute
    <2>1. \A u \in StageNames : Behind(u)' <=> Behind(u)
        BY <1>21, AtSteps, SameStage DEF ProtectGateway, GatewayAttached, EnsureRoute, Step, unmoved
    <2> QED BY <1>21, <2>1, AtSteps DEF ProtectGateway, GatewayAttached, EnsureRoute, Step, unmoved,
            TypeOK, Network, Gateway
<1>22. CASE FindOrCreateLB
    <2>1. \A u \in StageNames : Behind(u)' <=> Behind(u)
        BY <1>22, AtSteps, AtStages, Places, SameStage DEF FindOrCreateLB, lbOnly, unmoved
    <2>2. ~Behind("lb")
        BY <1>22, AtStages, Places DEF FindOrCreateLB, Behind
    <2>3. pc' \in {"lbLabel", "lbProtect"} /\ (pc' = "lbProtect" => lb'.owned)
        BY <1>22 DEF FindOrCreateLB, NoLB
    <2> QED BY <1>22, <2>1, <2>2, <2>3, AtSteps DEF FindOrCreateLB, lbOnly, unmoved
<1>23. CASE ProtectLB \/ LBReady \/ LabelLB \/ AttachLB \/ LBAttached \/ OpenLB \/ LBOpen
            \/ AddService
    <2>1. \A u \in StageNames : Behind(u)' <=> Behind(u)
        BY <1>23, AtSteps, SameStage DEF ProtectLB, LBReady, LabelLB, AttachLB, LBAttached, OpenLB,
           LBOpen, AddService, Step, lbOnly, unmoved
    <2>2. CASE ProtectLB \/ LBReady \/ LabelLB \/ AttachLB
        BY <2>1, <2>2, AtSteps DEF ProtectLB, LBReady, LabelLB, AttachLB, Step, lbOnly, unmoved,
           TypeOK, LoadBalancer
    <2>3. CASE LBAttached \/ OpenLB \/ LBOpen \/ AddService
        BY <2>1, <2>3, AtSteps DEF LBAttached, OpenLB, LBOpen, AddService, Step, lbOnly, unmoved,
           TypeOK, LoadBalancer
    <2> QED BY <1>23, <2>2, <2>3
<1>24. CASE PostMembers
    <2>1. /\ pc = "membersPost" /\ pc' = "members"
          /\ UNCHANGED <<mode, key, hcloud, dns, vswitch, failover, master>>
        BY <1>24 DEF PostMembers, Step
    <2>2. At(pc) = 11 /\ At(pc') = 11 /\ Place("members") = 11
        BY <2>1, AtSteps, AtStages, Places
    <2>3. \A u \in StageNames : Behind(u)' <=> Behind(u)
        BY <2>1, <2>2, SameStage
    <2>4. ~Behind("members")
        BY <2>2 DEF Behind
    <2> QED BY <2>1, <2>2, <2>3, <2>4
<1>25. CASE ReadActive \/ PostFailover
    <2>1. \A u \in StageNames : Behind(u)' <=> Behind(u)
        BY <1>25, AtSteps, AtStages, Places, SameStage DEF ReadActive, PostFailover, Step, unmoved
    <2> QED BY <1>25, <2>1, AtSteps DEF ReadActive, PostFailover, Step, unmoved, TypeOK, Memory,
            FailoverIP
\* Steps beside the run's own place.
<1>26. ASSUME UNCHANGED <<mode, pc>> PROVE \A u \in StageNames : Behind(u)' <=> Behind(u)
    BY <1>26, SameStage
<1>27. ASSUME NEW h \in Host, BootStep(h) PROVE RunInv'
    <2>1. UNCHANGED others /\ pc = "boot"
        BY <1>27 DEF BootStep, SkipBoot, ActivateRescue, ResetHost, HostReachable, BootTimesOut,
           Booting
    <2> QED BY <1>26, <2>1, AtStages, Places DEF others
<1>28. ASSUME NEW s \in VpnServer, JoinServer(s) PROVE RunInv'
    BY <1>26, <1>28 DEF JoinServer, TypeOK
<1>29. ASSUME NEW h \in Host, MemberFails(h) \/ MemberAttached(h) PROVE RunInv'
    <2>1. \A g \in Host : member[g] = "ready" => member'[g] = "ready"
        BY <1>29 DEF MemberFails, MemberAttached, TypeOK
    <2>2. UNCHANGED <<mode, pc, proc, key, hcloud, dns, vswitch, failover, master>>
        BY <1>29 DEF MemberFails, MemberAttached, program
    <2> QED BY <1>26, <2>1, <2>2
<1>30. CASE GatewayComesUp
    <2>1. nat'.made = nat.made /\ nat'.masq = nat.masq /\ (nat.attached => nat'.attached)
        BY <1>30 DEF GatewayComesUp, TypeOK, Gateway
    <2> QED BY <1>26, <1>30, <2>1 DEF GatewayComesUp, program
<1>31. CASE LBSettles
    <2>1. /\ UNCHANGED <<lb.owned, lb.service, lb.target>>
          /\ lb.net = "yes" => lb'.net = "yes"
        BY <1>31 DEF LBSettles, TypeOK, LoadBalancer
    <2> QED BY <1>26, <1>31, <2>1 DEF LBSettles, program
<1>32. CASE OperatorAddsRecord \/ OperatorFixes \/ VSwitchGone
    BY <1>26, <1>32 DEF OperatorAddsRecord, OperatorFixes, VSwitchGone, program
<1>33. CASE SwitchLands
    BY <1>26, <1>33 DEF SwitchLands, program
<1>34. ASSUME NEW h \in Host, Boots(h) \/ Installs(h) \/ Installed(h) PROVE RunInv'
    <2>1. UNCHANGED <<program, key, hcloud, dns, robot>> /\ master' \in {master, h}
          /\ (master # "none" => master' = master)
        BY <1>34 DEF Boots, Installs, Installed
    <2> QED BY <1>26, <2>1 DEF program, TypeOK
<1>35. CASE UNCHANGED vars
    BY <1>26, <1>35 DEF vars
<1> QED BY <1>1, <1>2, <1>3, <1>4, <1>5, <1>6, <1>7, <1>8, <1>9, <1>10, <1>11, <1>12, <1>13,
           <1>14, <1>15, <1>16, <1>17, <1>18, <1>19, <1>20, <1>21, <1>22, <1>23, <1>24, <1>25,
           <1>27, <1>28, <1>29, <1>30, <1>31, <1>32, <1>33, <1>34, <1>35
        DEF Next, Command, Failure, Operator, Environment

-----------------------------------------------------------------------------
(* The nodes that are there when a run begins.                              *)

LEMMA LiveStep == TypeOK /\ LiveInv /\ [Next]_vars => LiveInv'
<1> SUFFICES ASSUME TypeOK, LiveInv, [Next]_vars PROVE LiveInv'
    OBVIOUS
<1> USE DEF LiveInv, hosts, hcloud, robot, caph
<1>1. CASE Exit
    BY <1>1, FreshType DEF Exit
<1>2. CASE Start
    BY <1>2 DEF Start, Fresh, Nodes
<1>3. ASSUME NEW h \in Host, BootStep(h) PROVE LiveInv'
    <2>1. /\ proc'.live = proc.live /\ proc.missed \subseteq proc'.missed
          /\ \A g \in Host : g # h => proc'.boot[g] = proc.boot[g] /\ machine'[g] = machine[g]
        <3>1. CASE ActivateRescue(h)
            BY <3>1 DEF ActivateRescue, TypeOK, Memory
        <3> QED BY <1>3, <3>1 DEF BootStep, SkipBoot, ResetHost, HostReachable, BootTimesOut,
                Booted, TypeOK, Memory
    <2>2. ASSUME h \in proc.live \ proc'.missed
          PROVE  machine'[h] = "node" /\ proc'.boot[h] \in {"todo", "ok"}
        <3>1. machine[h] = "node" /\ proc.boot[h] \in {"todo", "ok"}
            BY <2>1, <2>2
        <3>2. ~ActivateRescue(h)
            <4>1. ActivateRescue(h) => proc'.missed = proc.missed \cup ({h} \cap Nodes)
                BY DEF ActivateRescue, TypeOK, Memory
            <4> QED BY <2>2, <3>1, <4>1 DEF Nodes
        <3>3. SkipBoot(h)
            BY <1>3, <3>1, <3>2 DEF BootStep, ResetHost, HostReachable, BootTimesOut, Booting
        <3> QED BY <3>1, <3>3 DEF SkipBoot, Booted, TypeOK, Memory
    <2>3. proc.live \subseteq Host
        BY DEF TypeOK, Memory
    <2> QED BY <2>1, <2>2, <2>3
<1>4. ASSUME NEW h \in Host, Boots(h) \/ Installs(h) \/ Installed(h) PROVE LiveInv'
    <2>1. UNCHANGED proc /\ machine[h] # "node"
        BY <1>4 DEF Boots, Installs, Installed, program
    <2>2. \A g \in Host : g # h => machine'[g] = machine[g]
        BY <1>4 DEF Boots, Installs, Installed, TypeOK
    <2> QED BY <2>1, <2>2 DEF TypeOK, Memory
<1>5. ASSUME UNCHANGED machine, proc'.live = proc.live, proc'.boot = proc.boot,
             proc'.missed = proc.missed
      PROVE  LiveInv'
    BY <1>5
<1>6. CASE \E s \in Services : CreateKey(s)
    BY <1>5, <1>6 DEF CreateKey, TypeOK, Memory
<1>7. CASE PollMembers \/ ReadActive
    BY <1>5, <1>7 DEF PollMembers, ReadActive, unmoved, TypeOK, Memory
<1>8. CASE UNCHANGED <<machine, proc>>
    BY <1>5, <1>8
<1>9. CASE Crash \/ Rerun \/ RefusePlans \/ GatewayUnavailable \/ AttachRefused
           \/ AttachLBRefused \/ DnsTimesOut \/ VSwitchRefused \/ SubnetRefused \/ MembersTimeOut
           \/ FailoverTimesOut \/ \E s \in Services : KeyClash(s)
    BY <1>1, <1>9 DEF Crash, Rerun, RefusePlans, GatewayUnavailable, AttachRefused,
       AttachLBRefused, DnsTimesOut, VSwitchRefused, SubnetRefused, MembersTimeOut,
       FailoverTimesOut, KeyClash
<1>10. CASE BootsEnd \/ FindOrCreateGateway
    <2>1. Exit \/ UNCHANGED <<machine, proc>>
        BY <1>10 DEF BootsEnd, FindOrCreateGateway, unmoved
    <2> QED BY <1>1, <1>8, <2>1
<1>11. CASE \/ ApprovePlans \/ CreateNetwork \/ ProtectGateway \/ GatewayAttached \/ EnsureRoute
            \/ ConfigureGateway \/ CreateFloatingIP \/ ProtectFloatingIP \/ CreateVSwitch
            \/ ConnectVSwitch \/ PostMembers \/ (\E s \in VpnServer : JoinServer(s))
            \/ ServersJoined \/ FindInitMaster \/ PostFailover \/ FailoverSeen
            \/ MainClusterProvisioned \/ DisablePublicInterface \/ UnprotectGateway
            \/ DeleteCluster \/ DeletionCutShort
    BY <1>8, <1>11 DEF ApprovePlans, CreateNetwork, ProtectGateway, GatewayAttached, EnsureRoute,
       ConfigureGateway, CreateFloatingIP, ProtectFloatingIP, CreateVSwitch, ConnectVSwitch,
       PostMembers, JoinServer, ServersJoined, FindInitMaster, PostFailover, FailoverSeen,
       MainClusterProvisioned, DisablePublicInterface, UnprotectGateway, DeleteCluster,
       DeletionCutShort, unmoved
<1>12. CASE \/ FindOrCreateLB \/ ProtectLB \/ LBReady \/ LabelLB \/ AttachLB \/ LBAttached \/ OpenLB
            \/ LBOpen \/ AddService \/ AddTarget \/ DnsResolves \/ UnprotectLB
    BY <1>8, <1>12 DEF FindOrCreateLB, ProtectLB, LBReady, LabelLB, AttachLB, LBAttached, OpenLB,
       LBOpen, AddService, AddTarget, DnsResolves, UnprotectLB, lbOnly, unmoved
<1>13. CASE GatewayComesUp \/ LBSettles \/ OperatorAddsRecord \/ OperatorFixes \/ VSwitchGone
            \/ SwitchLands \/ (\E h \in Host : MemberAttached(h) \/ MemberFails(h))
            \/ UNCHANGED vars
    BY <1>8, <1>13 DEF GatewayComesUp, LBSettles, OperatorAddsRecord, OperatorFixes, VSwitchGone,
       SwitchLands, MemberAttached, MemberFails, program, vars
<1> QED BY <1>2, <1>3, <1>4, <1>6, <1>7, <1>9, <1>10, <1>11, <1>12, <1>13
        DEF Next, Command, Failure, Operator, Environment

-----------------------------------------------------------------------------
(* Theorems.                                                               *)

\* Every variable of the infrastructure keeps its type.
THEOREM TypeCorrect == Spec => []TypeOK
BY TypeInit, TypeStep, PTL DEF Spec

LEMMA RunInvariant == Spec => [](TypeOK /\ RunInv)
<1>1. ASSUME Init PROVE RunInv
    <2>1. /\ pc = "idle" /\ net.route = "none" /\ failover.flight = "none"
        BY <1>1 DEF Init
    <2>2. At(pc) = 0
        BY <2>1, AtSteps
    <2>3. \A u \in StageNames : ~Behind(u)
        BY <2>2, AtStages DEF Behind
    <2> QED BY <2>1, <2>2, <2>3 DEF RunInv, WiringInv, StageInv, FailoverInv, StageNames
<1> QED BY <1>1, TypeInit, TypeStep, RunStep, PTL DEF Spec

\* A bootstrap that says it is done has wired everything it was asked for, whichever of it
\* this run, an earlier one that was killed, or an older release had made.
THEOREM WiredAlways == Spec => []WiredWhenDone
<1>1. RunInv => WiredWhenDone
    <2> SUFFICES ASSUME RunInv, pc = "done" PROVE WiredWhenDone
        BY DEF WiredWhenDone
    <2>1. \A u \in StageNames : u # "done" /\ Needed(u) => Behind(u)
        <3>1. At(pc) = 16
            BY AtStages, Places DEF StageNames
        <3> QED BY <3>1, Places DEF Behind, StageNames
    <2> QED BY <2>1 DEF RunInv, WiringInv, WiredWhenDone, Needed, StageNames
<1> QED BY <1>1, RunInvariant, PTL

\* Running the command again resets no host that is a node of the cluster when the run begins,
\* unless the host did not answer the one probe of it (bootHBMSIntoRescue).
THEOREM LiveNodesStay == Spec => []LiveNodesKept
<1>1. Init => LiveInv
    BY FreshType DEF Init, LiveInv
<1>2. TypeOK /\ LiveInv => LiveNodesKept
    BY DEF LiveInv, LiveNodesKept, Nodes, TypeOK, Memory
<1>3. TypeOK /\ LiveInv /\ [Next]_vars => LiveInv'
    BY LiveStep
<1> QED BY <1>1, <1>2, <1>3, TypeCorrect, PTL DEF Spec

-----------------------------------------------------------------------------
(* The upgrade of the cluster that stands on this infrastructure: theorems  *)
(* of CapiUpgrade, for all providers, node-groups, versions, images and      *)
(* numbers of edits and faults.  DoneMeansRolling is about the last step;    *)
(* UpgradeInv says for every step which groups the run is through with, and  *)
(* how far it is with the current one.                                      *)

CONSTANTS Providers, NodeGroups, Version, Image, First, Moves, MaxEdits
VARIABLES provider, moved, connected, declared, branch, prs, template, spec, pending,
          machines, skipPR, target, committed, at, had, edits

\* MaxFaults, pc and faults have the same names.
U == INSTANCE CapiUpgrade

\* What CapiUpgrade assumes of its constants.
UpgradeConstants ==
    /\ NodeGroups \in Seq(STRING)
    /\ \A i, j \in DOMAIN NodeGroups : NodeGroups[i] = NodeGroups[j] => i = j
    /\ \A i \in DOMAIN NodeGroups : NodeGroups[i] # U!ControlPlane
    /\ First \in [version : Version, image : Image] /\ U!Missing \notin Image
    /\ Moves \subseteq BOOLEAN /\ MaxEdits \in Nat

Rolling == {"template", "create", "sync", "restart", "done"}

\* A group the run is through with.
Handled(g) ==
    /\ template[g] = target.image /\ spec[g] \in had
    /\ g \in pending \/ U!AsRequested(g)

\* The version a sync would apply is one of those the branch has had.
BranchKnown == pc \in Rolling \cup {"place"} => branch.version \in had

BehindHandled == pc \in Rolling => \A i \in 1 .. (at - 1) : Handled(U!Groups[i])

\* What the steps of the current group have done so far.
CurrentGroup ==
    /\ pc \in {"values", "merge", "place"} => at = 1
    /\ pc \in {"sync", "restart"} => template[U!Cur] = target.image
    /\ pc = "restart" => spec[U!Cur] \in had
    /\ pc = "done" => at = Len(U!Groups) + 1

UpgradeInv == U!TypeOK /\ BranchKnown /\ BehindHandled /\ CurrentGroup

-----------------------------------------------------------------------------
\* The order of the groups: the control plane, then every node-group once.
LEMMA GroupOrder ==
    ASSUME UpgradeConstants PROVE
    /\ Len(U!Groups) \in Nat \ {0}
    /\ \A i \in 1 .. Len(U!Groups) : U!Groups[i] \in U!Group
    /\ \A g \in U!Group : \E i \in 1 .. Len(U!Groups) : g = U!Groups[i]
    /\ \A i, j \in 1 .. Len(U!Groups) : U!Groups[i] = U!Groups[j] => i = j
    /\ U!Groups[1] = U!ControlPlane
<1> DEFINE n == Len(NodeGroups)
<1>1. /\ NodeGroups \in Seq(STRING) /\ n \in Nat
      /\ \A i, j \in 1 .. n : NodeGroups[i] = NodeGroups[j] => i = j
      /\ \A i \in 1 .. n : NodeGroups[i] # U!ControlPlane
    BY UpgradeConstants DEF UpgradeConstants
<1>2. /\ Len(U!Groups) = n + 1 /\ DOMAIN U!Groups = 1 .. (n + 1)
      /\ U!Groups[1] = U!ControlPlane
      /\ \A i \in 2 .. (n + 1) : U!Groups[i] = NodeGroups[i - 1]
    <2> DEFINE S == STRING \cup {U!ControlPlane}
    <2>1. NodeGroups \in Seq(S)
        BY <1>1
    <2>2. /\ <<U!ControlPlane>> \in Seq(S) /\ Len(<<U!ControlPlane>>) = 1
          /\ <<U!ControlPlane>>[1] = U!ControlPlane
        OBVIOUS
    <2> HIDE DEF S
    <2>3. /\ U!Groups \in Seq(S) /\ Len(U!Groups) = n + 1
          /\ \A i \in 1 .. (n + 1) :
                U!Groups[i] = IF i <= 1 THEN <<U!ControlPlane>>[i] ELSE NodeGroups[i - 1]
        BY <1>1, <2>1, <2>2, ConcatProperties DEF U!Groups
    <2> QED BY <1>1, <2>2, <2>3
<1>3. \A i, j \in 1 .. Len(U!Groups) : U!Groups[i] = U!Groups[j] => i = j
    <2> HIDE DEF n
    <2> TAKE i, j \in 1 .. Len(U!Groups)
    <2>1. CASE i = 1 /\ j # 1
        <3>1. j \in 2 .. (n + 1) /\ j - 1 \in 1 .. n
            BY <1>1, <1>2, <2>1
        <3> QED BY <1>1, <1>2, <2>1, <3>1
    <2>2. CASE i # 1 /\ j = 1
        <3>1. i \in 2 .. (n + 1) /\ i - 1 \in 1 .. n
            BY <1>1, <1>2, <2>2
        <3> QED BY <1>1, <1>2, <2>2, <3>1
    <2>3. CASE i # 1 /\ j # 1
        <3>1. i \in 2 .. (n + 1) /\ i - 1 \in 1 .. n /\ j \in 2 .. (n + 1) /\ j - 1 \in 1 .. n
            BY <1>1, <1>2, <2>3
        <3>2. U!Groups[i] = U!Groups[j] => i - 1 = j - 1
            BY <1>1, <1>2, <3>1
        <3> QED BY <3>1, <3>2, <1>1
    <2> QED BY <2>1, <2>2, <2>3
<1> QED BY <1>1, <1>2, <1>3 DEF U!Group

-----------------------------------------------------------------------------
(* Types.                                                                  *)

\* Every action keeps every variable in its range.
LEMMA UpgradeTypeStep ==
    ASSUME UpgradeConstants PROVE U!TypeOK /\ [U!Next]_(U!vars) => U!TypeOK'
<1> SUFFICES ASSUME U!TypeOK, [U!Next]_(U!vars) PROVE U!TypeOK'
    OBVIOUS
<1>0. Len(U!Groups) \in Nat \ {0} /\ \A i \in 1 .. Len(U!Groups) : U!Groups[i] \in U!Group
    BY GroupOrder
<1> USE <1>0, UpgradeConstants, HetznerInfraAssumption DEF UpgradeConstants,
    HetznerInfraAssumption, U!TypeOK, U!Goto, U!Fault, U!external, U!git, U!capi, U!cli
<1>1. ASSUME NEW skip \in BOOLEAN, U!Start(skip) PROVE U!TypeOK'
    <2>1. skipPR' \in BOOLEAN /\ committed' \in BOOLEAN /\ connected' \in BOOLEAN
        BY <1>1 DEF U!Start
    <2> QED BY <1>1, <2>1 DEF U!Start
<1>2. CASE U!ValuesNotEdited
    BY <1>2 DEF U!ValuesNotEdited
<1>3. CASE U!PushDirectly
    BY <1>3 DEF U!PushDirectly, U!Values
<1>4. CASE U!OpenPR
    BY <1>4 DEF U!OpenPR, U!Change
<1>5. CASE U!PRMerged
    BY <1>5 DEF U!PRMerged, U!Values
<1>6. CASE U!GiveUp
    BY <1>6 DEF U!GiveUp
<1>7. CASE U!ChooseCluster
    BY <1>7 DEF U!ChooseCluster
<1>8. CASE U!DeleteTemplate
    BY <1>8 DEF U!DeleteTemplate
<1>9. CASE U!CreateTemplate
    BY <1>9 DEF U!CreateTemplate, U!Values
<1>10. CASE U!SyncGroup
    BY <1>10 DEF U!SyncGroup, U!Applied, U!Values, U!Cur
<1>11. CASE U!Restart
    BY <1>11 DEF U!Restart, U!Cur
<1>12. CASE U!Crash
    BY <1>12 DEF U!Crash
<1>13. ASSUME NEW g \in U!Group, U!Roll(g) PROVE U!TypeOK'
    BY <1>13 DEF U!Roll, U!Values
<1>14. ASSUME NEW p \in prs, U!Merge(p) PROVE U!TypeOK'
    BY <1>14 DEF U!Merge, U!SetBranch, U!Change, U!Values
<1>15. ASSUME NEW v \in U!Values, U!ForeignCommit(v) PROVE U!TypeOK'
    BY <1>15 DEF U!ForeignCommit, U!SetBranch, U!Values
<1>16. ASSUME NEW v \in U!Values, U!Declare(v) PROVE U!TypeOK'
    BY <1>16 DEF U!Declare
<1>17. ASSUME NEW g \in U!Group, U!RestoreTemplate(g) PROVE U!TypeOK'
    BY <1>17 DEF U!RestoreTemplate, U!Values
<1>18. CASE U!LoseConnection
    <2>1. connected' \in BOOLEAN
        BY <1>18 DEF U!LoseConnection
    <2> QED BY <1>18, <2>1 DEF U!LoseConnection
<1>19. CASE U!Connect
    BY <1>19 DEF U!Connect
<1>20. CASE UNCHANGED U!vars
    BY <1>20 DEF U!vars
<1> QED
    BY <1>1, <1>2, <1>3, <1>4, <1>5, <1>6, <1>7, <1>8, <1>9, <1>10, <1>11, <1>12,
       <1>13, <1>14, <1>15, <1>16, <1>17, <1>18, <1>19, <1>20
    DEF U!Next, U!RunStep, U!Environment

\* The initial states are in range.
LEMMA UpgradeInitTypes ==
    ASSUME UpgradeConstants PROVE U!Init => U!TypeOK
<1> SUFFICES ASSUME U!Init PROVE U!TypeOK
    OBVIOUS
<1>1. /\ provider \in Providers /\ moved \in Moves /\ connected \in BOOLEAN
      /\ skipPR \in BOOLEAN /\ committed \in BOOLEAN
    BY Zenon DEF U!Init
<1>2. First \in U!Values
    BY UpgradeConstants DEF UpgradeConstants, U!Values
<1>3. Len(U!Groups) \in Nat \ {0}
    BY GroupOrder
<1> QED BY <1>1, <1>2, <1>3, UpgradeConstants, HetznerInfraAssumption
    DEF UpgradeConstants, HetznerInfraAssumption, U!Init, U!TypeOK, U!Values

\* Every variable stays in its range, whatever the constants.
THEOREM UpgradeTypeCorrect ==
    ASSUME UpgradeConstants PROVE U!Spec => []U!TypeOK
BY UpgradeInitTypes, UpgradeTypeStep, PTL DEF U!Spec

-----------------------------------------------------------------------------
(* What the run knows about the groups behind it.                          *)

\* The version of the branch stays among those it has had.
LEMMA BranchKnownStep ==
    ASSUME UpgradeConstants PROVE UpgradeInv /\ [U!Next]_(U!vars) => BranchKnown'
<1> SUFFICES ASSUME UpgradeInv, [U!Next]_(U!vars) PROVE BranchKnown'
    OBVIOUS
<1> USE DEF UpgradeInv, BranchKnown, Rolling, U!Goto, U!git, U!cli
<1>1. ASSUME NEW skip \in BOOLEAN, U!Start(skip) PROVE BranchKnown'
    BY <1>1 DEF U!Start
<1>2. CASE U!RunStep \/ U!Crash
    BY <1>2 DEF U!RunStep, U!ValuesNotEdited, U!PushDirectly, U!OpenPR, U!PRMerged, U!GiveUp,
        U!ChooseCluster, U!DeleteTemplate, U!CreateTemplate, U!SyncGroup, U!Restart, U!Crash
<1>3. CASE (\E p \in prs : U!Merge(p)) \/ (\E v \in U!Values : U!ForeignCommit(v))
    BY <1>3 DEF U!Merge, U!ForeignCommit, U!SetBranch
<1>4. CASE (\E v \in U!Values : U!Declare(v)) \/ U!LoseConnection \/ U!Connect
    BY <1>4 DEF U!Declare, U!LoseConnection, U!Connect
<1>5. CASE \E g \in U!Group : U!Roll(g) \/ U!RestoreTemplate(g)
    BY <1>5 DEF U!Roll, U!RestoreTemplate
<1>6. CASE UNCHANGED U!vars
    BY <1>6 DEF U!vars
<1> QED BY <1>1, <1>2, <1>3, <1>4, <1>5, <1>6 DEF U!Next, U!Environment

\* Everybody but the run leaves a group it is through with as it is, or carries
\* out its rollout.
LEMMA EnvironmentKeepsHandled ==
    ASSUME UpgradeConstants, UpgradeInv,
           U!Environment \/ UNCHANGED U!vars, NEW g \in U!Group, Handled(g)
    PROVE  Handled(g)'
<1> USE DEF UpgradeInv, U!TypeOK, Handled, U!AsRequested, U!capi, U!git, U!cli
<1>1. CASE \E p \in prs : U!Merge(p)
    BY <1>1 DEF U!Merge, U!SetBranch
<1>2. ASSUME NEW v \in U!Values, U!ForeignCommit(v) \/ U!Declare(v) PROVE Handled(g)'
    BY <1>2 DEF U!ForeignCommit, U!SetBranch, U!Declare
<1>3. ASSUME NEW h \in U!Group, U!Roll(h) PROVE Handled(g)'
    <2>1. CASE h = g
        BY <1>3, <2>1 DEF U!Roll
    <2>2. CASE h # g
        BY <1>3, <2>2 DEF U!Roll
    <2> QED BY <2>1, <2>2
<1>4. ASSUME NEW h \in U!Group, U!RestoreTemplate(h) PROVE Handled(g)'
    <2>1. h # g
        BY <1>4, UpgradeConstants DEF UpgradeConstants, U!RestoreTemplate, U!Values
    <2> QED BY <1>4, <2>1 DEF U!RestoreTemplate
<1>5. CASE U!LoseConnection \/ U!Connect
    BY <1>5 DEF U!LoseConnection, U!Connect
<1>6. CASE UNCHANGED U!vars
    BY <1>6 DEF U!vars
<1> QED BY <1>1, <1>2, <1>3, <1>4, <1>5, <1>6 DEF U!Environment

\* The run touches the templates and versions of no group but its current one.
LEMMA OthersKept ==
    ASSUME UpgradeConstants, UpgradeInv, NEW g \in U!Group, g # U!Cur, Handled(g),
           U!ChooseCluster \/ U!DeleteTemplate \/ U!CreateTemplate \/ U!SyncGroup \/ U!Restart
    PROVE  Handled(g)'
<1> USE DEF UpgradeInv, U!TypeOK, Handled, U!AsRequested, U!capi, U!git
<1>1. CASE U!ChooseCluster
    BY <1>1 DEF U!ChooseCluster
<1>2. CASE U!DeleteTemplate
    BY <1>2 DEF U!DeleteTemplate
<1>3. CASE U!CreateTemplate
    BY <1>3 DEF U!CreateTemplate
<1>4. CASE U!SyncGroup
    BY <1>4 DEF U!SyncGroup, U!Applied
<1>5. CASE U!Restart
    BY <1>5 DEF U!Restart
<1> QED BY <1>1, <1>2, <1>3, <1>4, <1>5

\* The steps of the loop leave the groups behind the current one handled.
LEMMA BehindHandledStep ==
    ASSUME UpgradeConstants PROVE UpgradeInv /\ [U!Next]_(U!vars) => BehindHandled'
<1> SUFFICES ASSUME UpgradeInv, [U!Next]_(U!vars) PROVE BehindHandled'
    OBVIOUS
<1>0. /\ at \in Nat /\ Len(U!Groups) \in Nat /\ at <= Len(U!Groups) + 1
      /\ \A k \in 1 .. Len(U!Groups) : U!Groups[k] \in U!Group
    BY GroupOrder DEF UpgradeInv, U!TypeOK
<1>1. ASSUME NEW skip \in BOOLEAN, U!Start(skip) PROVE BehindHandled'
    BY <1>1 DEF U!Start, BehindHandled, Rolling, U!Goto
<1>2. CASE U!ValuesNotEdited \/ U!PushDirectly \/ U!OpenPR \/ U!PRMerged \/ U!GiveUp \/ U!Crash
    BY <1>2 DEF U!ValuesNotEdited, U!PushDirectly, U!OpenPR, U!PRMerged, U!GiveUp, U!Crash,
        BehindHandled, Rolling, U!Goto
<1>3. CASE U!ChooseCluster
    BY <1>3 DEF U!ChooseCluster, UpgradeInv, CurrentGroup, BehindHandled, Rolling, U!Goto
<1>4. CASE U!DeleteTemplate \/ U!CreateTemplate \/ U!SyncGroup
    <2> SUFFICES ASSUME NEW k \in 1 .. (at - 1), pc' \in Rolling PROVE Handled(U!Groups[k])'
        BY <1>4 DEF U!DeleteTemplate, U!CreateTemplate, U!SyncGroup, BehindHandled
    <2>1. pc \in {"template", "create", "sync"}
        BY <1>4 DEF U!DeleteTemplate, U!CreateTemplate, U!SyncGroup
    <2>2. at <= Len(U!Groups) /\ k \in 1 .. Len(U!Groups) /\ at \in 1 .. Len(U!Groups) /\ k # at
        BY <1>0, <2>1 DEF UpgradeInv, U!TypeOK
    <2>3. U!Groups[k] \in U!Group /\ U!Groups[k] # U!Cur
        BY <2>2, GroupOrder DEF U!Cur
    <2>4. Handled(U!Groups[k])
        BY <2>1 DEF UpgradeInv, BehindHandled, Rolling
    <2> QED BY <1>4, <2>3, <2>4, OthersKept
<1>5. CASE U!Restart
    <2> SUFFICES ASSUME NEW k \in 1 .. at PROVE Handled(U!Groups[k])'
        BY <1>5, <1>0 DEF U!Restart, BehindHandled
    <2>1. /\ pc = "restart" /\ at <= Len(U!Groups)
          /\ at \in 1 .. Len(U!Groups) /\ k \in 1 .. Len(U!Groups)
        BY <1>0, <1>5 DEF U!Restart, UpgradeInv, U!TypeOK
    <2>2. CASE k = at
        <3>1. U!Groups[k] \in pending'
            BY <1>5, <2>2 DEF U!Restart, U!Cur
        <3>2. template[U!Groups[k]] = target.image /\ spec[U!Groups[k]] \in had
            BY <2>1, <2>2 DEF UpgradeInv, CurrentGroup, U!Cur
        <3> QED BY <1>5, <3>1, <3>2 DEF U!Restart, Handled
    <2>3. CASE k # at
        <3>1. k \in 1 .. (at - 1)
            BY <1>0, <2>3
        <3>2. U!Groups[k] \in U!Group /\ U!Groups[k] # U!Cur
            BY <2>1, <2>3, GroupOrder DEF U!Cur
        <3>3. Handled(U!Groups[k])
            BY <2>1, <3>1 DEF UpgradeInv, BehindHandled, Rolling
        <3> QED BY <1>5, <3>2, <3>3, OthersKept
    <2> QED BY <2>2, <2>3
<1>6. CASE U!Environment \/ UNCHANGED U!vars
    <2>1. pc' = pc /\ at' = at
        BY <1>6 DEF U!Environment, U!Merge, U!ForeignCommit, U!Declare, U!Roll, U!RestoreTemplate,
            U!LoseConnection, U!Connect, U!vars, U!cli
    <2> SUFFICES ASSUME NEW k \in 1 .. (at - 1), pc \in Rolling PROVE Handled(U!Groups[k])'
        BY <2>1 DEF BehindHandled
    <2>2. U!Groups[k] \in U!Group
        BY <1>0
    <2> QED BY <1>6, <2>2, EnvironmentKeepsHandled DEF UpgradeInv, BehindHandled
<1> QED BY <1>1, <1>2, <1>3, <1>4, <1>5, <1>6 DEF U!Next, U!RunStep

\* What the current group has been given stays until the run goes on.
LEMMA CurrentGroupStep ==
    ASSUME UpgradeConstants PROVE UpgradeInv /\ [U!Next]_(U!vars) => CurrentGroup'
<1> SUFFICES ASSUME UpgradeInv, [U!Next]_(U!vars) PROVE CurrentGroup'
    OBVIOUS
<1>0. /\ at \in Nat /\ Len(U!Groups) \in Nat \ {0} /\ U!Missing \notin Image
      /\ pc \notin {"idle", "done"} => U!Cur \in U!Group
    BY GroupOrder, UpgradeConstants DEF UpgradeConstants, UpgradeInv, U!TypeOK, U!Cur
<1>1. ASSUME NEW skip \in BOOLEAN, U!Start(skip) PROVE CurrentGroup'
    BY <1>1 DEF U!Start, CurrentGroup, U!Goto
<1>2. CASE U!ValuesNotEdited \/ U!PushDirectly \/ U!OpenPR \/ U!PRMerged \/ U!GiveUp \/ U!Crash
             \/ U!ChooseCluster \/ U!DeleteTemplate
    BY <1>2 DEF U!ValuesNotEdited, U!PushDirectly, U!OpenPR, U!PRMerged, U!GiveUp, U!Crash,
        U!ChooseCluster, U!DeleteTemplate, UpgradeInv, CurrentGroup, U!Goto
<1>3. CASE U!CreateTemplate
    BY <1>3, <1>0 DEF U!CreateTemplate, UpgradeInv, U!TypeOK, CurrentGroup, U!Cur, U!Goto
<1>4. CASE U!SyncGroup
    BY <1>4, <1>0 DEF U!SyncGroup, U!Applied, UpgradeInv, U!TypeOK, BranchKnown, Rolling,
        CurrentGroup, U!Cur, U!Goto, U!git
<1>5. CASE U!Restart
    BY <1>5, <1>0 DEF U!Restart, CurrentGroup, U!Goto
<1>6. CASE (\E p \in prs : U!Merge(p)) \/ (\E v \in U!Values : U!ForeignCommit(v) \/ U!Declare(v))
             \/ U!LoseConnection \/ U!Connect \/ UNCHANGED U!vars
    BY <1>6 DEF U!Merge, U!ForeignCommit, U!SetBranch, U!Declare, U!LoseConnection, U!Connect,
        U!vars,
        UpgradeInv, CurrentGroup, U!Cur, U!cli, U!capi, U!git
<1>7. ASSUME NEW g \in U!Group, U!Roll(g) \/ U!RestoreTemplate(g) PROVE CurrentGroup'
    <2>1. pc' = pc /\ at' = at /\ target' = target /\ had' = had /\ spec' = spec
        BY <1>7 DEF U!Roll, U!RestoreTemplate, U!cli
    <2>2. pc \in {"sync", "restart"} => template'[U!Cur] = template[U!Cur]
        BY <1>7, <1>0 DEF U!Roll, U!RestoreTemplate, UpgradeInv, U!TypeOK, CurrentGroup, U!Values
    <2> QED BY <2>1, <2>2 DEF UpgradeInv, CurrentGroup, U!Cur
<1> QED BY <1>1, <1>2, <1>3, <1>4, <1>5, <1>6, <1>7 DEF U!Next, U!RunStep, U!Environment

\* The inductive invariant holds in every reachable state.
LEMMA UpgradeInvariant ==
    ASSUME UpgradeConstants PROVE U!Spec => []UpgradeInv
<1>1. U!Init => UpgradeInv
    <2>1. U!Init => U!TypeOK
        BY UpgradeInitTypes
    <2> QED BY <2>1 DEF U!Init, UpgradeInv, BranchKnown, BehindHandled, CurrentGroup, Rolling
<1>2. UpgradeInv /\ [U!Next]_(U!vars) => UpgradeInv'
    BY UpgradeTypeStep, BranchKnownStep, BehindHandledStep, CurrentGroupStep DEF UpgradeInv
<1> QED BY <1>1, <1>2, PTL DEF U!Spec

-----------------------------------------------------------------------------
(* The properties.                                                         *)

\* A run that ends without an error has every group rolled or rolling, whatever
\* other people commit and restore meanwhile.
THEOREM RollingWhenDone ==
    ASSUME UpgradeConstants PROVE U!Spec => []U!DoneMeansRolling
<1>1. UpgradeInv => U!DoneMeansRolling
    <2> SUFFICES ASSUME UpgradeInv, pc = "done", NEW g \in U!Group PROVE Handled(g)
        BY DEF U!DoneMeansRolling, Handled
    <2>1. PICK k \in 1 .. Len(U!Groups) : g = U!Groups[k]
        BY GroupOrder
    <2>2. k \in 1 .. (at - 1)
        BY <2>1, GroupOrder DEF UpgradeInv, CurrentGroup
    <2> QED BY <2>1, <2>2 DEF UpgradeInv, BehindHandled, Rolling
<1> QED BY <1>1, UpgradeInvariant, PTL

\* A node-group's version changes in SyncGroup only, and the control plane has
\* been through it: with one version of the branch that is the same version.
THEOREM ControlPlaneGoesFirst ==
    ASSUME UpgradeConstants PROVE U!Spec => U!ControlPlaneFirst
<1> DEFINE Follows == \A g \in U!Group \ {U!ControlPlane} :
                         spec'[g] # spec[g] /\ had = {spec'[g]} => spec'[g] = spec[U!ControlPlane]
<1>1. UpgradeInv /\ [U!Next]_(U!vars) => [Follows]_(U!vars)
    <2> SUFFICES ASSUME UpgradeInv, U!Next, NEW g \in U!Group, g # U!ControlPlane,
                        spec'[g] # spec[g], had = {spec'[g]}
                 PROVE  spec'[g] = spec[U!ControlPlane]
        BY DEF U!vars
    <2>1. U!SyncGroup
        BY DEF U!Next, U!RunStep, U!Environment, U!Start, U!ValuesNotEdited, U!PushDirectly,
            U!OpenPR,
            U!PRMerged, U!GiveUp, U!ChooseCluster, U!DeleteTemplate, U!CreateTemplate,
            U!Restart, U!Crash,
            U!Roll, U!Merge, U!ForeignCommit, U!Declare, U!RestoreTemplate, U!LoseConnection,
            U!Connect, U!capi
    <2>2. g = U!Cur /\ at \in 1 .. Len(U!Groups) /\ pc = "sync"
        BY <2>1, GroupOrder DEF U!SyncGroup, U!Applied, UpgradeInv, U!TypeOK
    <2>3. at # 1 /\ 1 \in 1 .. (at - 1)
        BY <2>2, GroupOrder DEF U!Cur
    <2>4. Handled(U!ControlPlane)
        BY <2>2, <2>3, GroupOrder DEF UpgradeInv, BehindHandled, Rolling
    <2> QED BY <2>4 DEF Handled
<1>2. U!Spec => [][Follows]_(U!vars)
    BY <1>1, UpgradeInvariant, PTL DEF U!Spec
<1> QED BY <1>2 DEF U!ControlPlaneFirst
=============================================================================
