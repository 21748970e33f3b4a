---------------------------- MODULE HetznerInfra ----------------------------
(***************************************************************************)
(* The infrastructure of a Hetzner cluster, ensured step by step through   *)
(* two APIs (HCloud and Robot) that finish most requests later than they   *)
(* answer them, by a command that may be killed after any step and is then *)
(* simply run again:                                                       *)
(*                                                                         *)
(*   pkg/cloud/hetzner/prerequisite_infrastructure.go   the order          *)
(*   ssh_key.go, os_install.go, network.go, server.go, loadbalancer.go,    *)
(*   dns_wait.go, floatingip.go, vswitch.go             the steps before   *)
(*   failover_ip.go                                     while provisioning *)
(*   deletion_protection.go                             before a deletion  *)
(*                                                                         *)
(* A step finds what an earlier run made or creates it, waits until the    *)
(* API has applied it, and goes on; any error ends the process.  Memory    *)
(* (proc) is lost with it, the resources stay.  The storage plan approved  *)
(* between the rescue boot and the network is the module StoragePlan, the  *)
(* DNS and certificate gates after the pivot are the module ArgoSync, what *)
(* CAPH does with an applied cluster is external.                          *)
(***************************************************************************)
EXTENDS Naturals, Sequences

CONSTANTS
    Host,           \* the bare-metal servers of the configuration
    VpnServer,      \* the HCloud servers of the VPN cluster to be joined
    Modes,          \* the configurations explored (a set of mode records)
    MaxFaults       \* bound on crashes, timeouts, refusals and re-runs

Services == {"robot", "hcloud"}

\* What a configuration asks for: bare-metal hosts, HCloud servers, a NAT
\* gateway (not for a single public node), a pre-created control-plane load
\* balancer, its host name, a floating IP for Coturn, the servers of a VPN
\* cluster, a failover IP as the endpoint of a bare-metal control plane.
ModeType == [bm : BOOLEAN, hcloud : BOOLEAN, nat : BOOLEAN, lb : BOOLEAN,
             hostname : BOOLEAN, fip : BOOLEAN, vpn : BOOLEAN,
             failover : BOOLEAN]

\* What the validation of the configuration lets through.
HetznerInfraAssumption ==
    /\ MaxFaults \in Nat
    /\ Modes \subseteq ModeType
    /\ \A m \in Modes :
          /\ m.bm \/ m.hcloud
          /\ m.hcloud /\ ~m.nat => ~(m.bm \/ m.lb)  \* a single public node
          /\ m.nat \/ m.lb => m.hcloud
          /\ m.hostname \/ m.vpn => m.lb
          /\ m.fip => m.lb /\ ~m.vpn                \* only in a VPN cluster
          /\ m.failover => m.bm /\ ~m.hcloud
    /\ Host # {} /\ "none" \notin Host
ASSUME HetznerInfraAssumption

VARIABLES
    mode,     \* the configuration of this cluster
    pc,       \* the step the running command is at, "idle" when none runs
    proc,     \* memory of the run: the key name, the boot of each host,
              \* members to post, the active server last read; and (history)
              \* the hosts that were nodes when the run began, and those
              \* that did not answer its probe although they were
    key,      \* per service, the name our SSH key is registered under
    wrong,    \* foreign things in the way: a "key" name, a "vlan" id, a
              \* vSwitch "subnet" of the network
    machine,  \* what each bare-metal server runs
    armed,    \* servers whose next boot is the rescue system
    net,      \* the HCloud network, its default route, its vSwitch subnet
    nat,      \* the NAT gateway server
    lb,       \* the control-plane load balancer
    fip,      \* the floating IP of Coturn
    dns,      \* does the operator's A record point at the load balancer?
    vswitch,  \* the vSwitch of the configured name and VLAN
    member,   \* per host, its status on the vSwitch
    joined,   \* VPN servers attached to our network
    applied,  \* is the cluster in CAPH's hands?
    master,   \* the host CAPH chose as init master
    failover, \* where the failover IP leads, and the switch in flight
    faults

vars == <<mode, pc, proc, key, wrong, machine, armed, net, nat, lb, fip, dns,
          vswitch, member, joined, applied, master, failover, faults>>

Nodes == {h \in Host : machine[h] = "node"}

hosts == <<machine, armed>>
hcloud == <<net, nat, lb, fip, joined>>
robot == <<vswitch, member, failover>>
caph == <<applied, master>>

(***************************************************************************)
(* Types.                                                                  *)
(***************************************************************************)
KeyNames == {"cfg", "old"}           \* the configured name, an earlier one
Foreign == {"key", "vlan", "subnet"}
MachineStates == {"disk", "resetting", "rescue", "installing", "node"}

NoGateway == [made |-> FALSE, protected |-> FALSE, attached |-> FALSE,
              ssh |-> FALSE, masq |-> FALSE]
NoLB == [made |-> FALSE, owned |-> FALSE, protected |-> FALSE,
         net |-> "no", public |-> "off", service |-> FALSE, target |-> FALSE]
\* A load balancer an older release made: never labelled, never wired.
OldLB == [NoLB EXCEPT !.made = TRUE, !.protected = TRUE]

Pcs == {"idle", "robotKey", "boot", "plan", "network", "hcloudKey", "nat",
        "natProtect", "natAttach", "natRoute", "natSsh", "lb", "lbProtect",
        "lbReady", "lbLabel", "lbAttach", "lbAttached", "lbPublic",
        "lbPublished", "lbService", "lbTarget", "lbDns", "fip", "fipProtect",
        "vswitch", "subnet", "members", "membersPost", "vpn", "failover",
        "failoverMaster", "failoverPost", "failoverWait", "provision",
        "finalize", "done", "unprotectLb", "unprotectNat", "deleted"}

Memory == [name : KeyNames, boot : [Host -> {"todo", "armed", "reset", "ok", "failed"}],
           post : SUBSET Host, seen : Host \cup {"none"}, live : SUBSET Host,
           missed : SUBSET Host]
Network == [made : BOOLEAN, route : {"none", "gateway", "stale"}, bridged : BOOLEAN]
Gateway == [made : BOOLEAN, protected : BOOLEAN, attached : BOOLEAN,
            ssh : BOOLEAN, masq : BOOLEAN]
LoadBalancer == [made : BOOLEAN, owned : BOOLEAN, protected : BOOLEAN,
                 net : {"no", "pending", "yes"}, public : {"off", "pending", "on"},
                 service : BOOLEAN, target : BOOLEAN]
FloatingIP == [made : BOOLEAN, protected : BOOLEAN]
FailoverIP == [active : Host \cup {"none"}, flight : Host \cup {"none"}]
MemberStates == {"absent", "in process", "ready", "failed"}

TypeOK ==
    /\ mode \in Modes /\ pc \in Pcs /\ proc \in Memory
    /\ key \in [Services -> KeyNames \cup {"none"}] /\ wrong \subseteq Foreign
    /\ machine \in [Host -> MachineStates] /\ armed \subseteq Host
    /\ net \in Network /\ nat \in Gateway /\ lb \in LoadBalancer /\ fip \in FloatingIP
    /\ dns \in BOOLEAN
    /\ vswitch \in {"none", "ours", "cancelled"}
    /\ member \in [Host -> MemberStates]
    /\ joined \subseteq VpnServer
    /\ applied \in BOOLEAN /\ master \in Host \cup {"none"}
    /\ failover \in FailoverIP
    /\ faults \in 0 .. MaxFaults

(***************************************************************************)
(* The order of the stages, and which of them a configuration needs.       *)
(***************************************************************************)
Stages == <<"robotKey", "boot", "plan", "network", "hcloudKey", "nat", "lb",
            "fip", "vswitch", "subnet", "members", "vpn", "failover",
            "provision", "finalize", "done">>

Needed(stage) ==
    \/ stage \in {"provision", "finalize", "done"}
    \/ stage \in {"robotKey", "boot", "plan", "vswitch", "members"} /\ mode.bm
    \/ stage \in {"network", "hcloudKey"} /\ mode.hcloud
    \/ stage = "nat" /\ mode.nat
    \/ stage = "lb" /\ mode.lb
    \/ stage = "fip" /\ mode.fip
    \/ stage = "subnet" /\ mode.bm /\ mode.hcloud
    \/ stage = "vpn" /\ mode.vpn
    \/ stage = "failover" /\ mode.failover

Place(stage) == CHOOSE i \in DOMAIN Stages : Stages[i] = stage

\* The first needed stage after place i.
NeededAfter(i) ==
    Stages[CHOOSE j \in DOMAIN Stages :
              /\ j > i /\ Needed(Stages[j])
              /\ \A k \in (i + 1)..(j - 1) : ~Needed(Stages[k])]

Following(stage) == NeededAfter(Place(stage))

\* A stage hands over to the next one; the cluster is applied when all the
\* prerequisites are there (CreateDevEnv follows the infrastructure).
Pass(stage) ==
    /\ pc' = Following(stage)
    /\ applied' = (applied \/ Place(pc') >= Place("failover"))

Fresh == [name |-> "cfg", boot |-> [h \in Host |-> "todo"],
          post |-> {}, seen |-> "none", live |-> {}, missed |-> {}]

Exit == pc' = "idle" /\ proc' = Fresh

Fault == faults < MaxFaults /\ faults' = faults + 1

Init ==
    /\ mode \in Modes
    /\ pc = "idle"
    /\ proc = Fresh
    /\ wrong \in SUBSET Foreign
    /\ key \in [Services -> {"none", "old"}]
    /\ machine = [h \in Host |-> "disk"]
    /\ armed = {}
    /\ net = [made |-> "subnet" \in wrong, route |-> "none", bridged |-> FALSE]
    /\ nat = NoGateway
    /\ lb \in {NoLB, OldLB}
    /\ fip = [made |-> FALSE, protected |-> FALSE]
    /\ dns = FALSE
    /\ vswitch \in {"none", "cancelled"}
    /\ member = [h \in Host |-> "absent"]
    /\ joined = {}
    /\ applied = FALSE
    /\ master = "none"
    /\ failover \in [active : Host \cup {"none"}, flight : {"none"}]
    /\ faults = 0
    \* Only what the mode can meet.
    /\ ~mode.bm => /\ key["robot"] = "none" /\ vswitch = "none"
                   /\ "vlan" \notin wrong
    /\ ~mode.hcloud => key["hcloud"] = "none"
    /\ ~mode.lb => lb = NoLB
    /\ ~mode.failover => failover.active = "none"
    /\ "vlan" \in wrong => vswitch = "none"
    /\ "subnet" \in wrong => mode.bm /\ mode.hcloud

(***************************************************************************)
(* Starting, dying, and starting again.                                    *)
(***************************************************************************)
Start ==
    /\ pc = "idle"
    /\ pc' = NeededAfter(0)
    /\ proc' = [Fresh EXCEPT !.live = Nodes]
    /\ UNCHANGED <<mode, key, wrong, hosts, hcloud, dns, robot, caph,
                   faults>>

\* Killed, or stopped by an error of the API that nothing explains.
Crash ==
    /\ pc \notin {"idle", "done", "unprotectLb", "unprotectNat", "deleted"}
    /\ Fault
    /\ Exit
    /\ UNCHANGED <<mode, key, wrong, hosts, hcloud, dns, robot, caph>>

\* The operator runs the whole command again over a finished cluster.
Rerun ==
    /\ pc = "done"
    /\ Fault
    /\ Exit
    /\ UNCHANGED <<mode, key, wrong, hosts, hcloud, dns, robot, caph>>

(***************************************************************************)
(* SSH keys: an entry with our fingerprint is reused under whatever name   *)
(* it has, and the name in memory follows it; a foreign key of our name is *)
(* an error unless our own entry is listed first.                          *)
(***************************************************************************)
KeyStage(s) == IF s = "robot" THEN "robotKey" ELSE "hcloudKey"

NameTaken == "key" \in wrong /\ proc.name = "cfg"

\* Mutant: the name follows the listing also when it has no entry of ours.
NameFollowsListing(s) ==
    /\ pc = KeyStage(s)
    /\ key[s] # "none" \/ ~NameTaken
    /\ key' = [key EXCEPT ![s] = IF @ = "none" THEN proc.name ELSE @]
    /\ proc' = [proc EXCEPT !.name = key[s]]
    /\ Pass(KeyStage(s))
    /\ UNCHANGED <<mode, wrong, hosts, hcloud, dns, robot, master, faults>>

\* Mutant: an entry under another name is reused, the name in memory stays.
NameStays(s) ==
    /\ pc = KeyStage(s)
    /\ key[s] # "none" \/ ~NameTaken
    /\ key' = [key EXCEPT ![s] = IF @ = "none" THEN proc.name ELSE @]
    /\ Pass(KeyStage(s))
    /\ UNCHANGED <<mode, proc, wrong, hosts, hcloud, dns, robot, master, faults>>

CreateKey(s) ==
    /\ pc = KeyStage(s)
    /\ key[s] # "none" \/ ~NameTaken
    /\ key' = [key EXCEPT ![s] = IF @ = "none" THEN proc.name ELSE @]
    /\ proc' = [proc EXCEPT !.name = key'[s]]
    /\ Pass(KeyStage(s))
    /\ UNCHANGED <<mode, wrong, hosts, hcloud, dns, robot, master, faults>>

KeyClash(s) ==
    /\ pc = KeyStage(s)
    /\ NameTaken
    /\ Exit
    /\ UNCHANGED <<mode, key, wrong, hosts, hcloud, dns, robot, caph, faults>>

(***************************************************************************)
(* Booting every host into the rescue system, one goroutine per host.      *)
(* What serves SSH may still miss a probe, one connection within 3 s.      *)
(***************************************************************************)
Reachable(h) == machine[h] \in {"rescue", "node"}

Booting(h, from) == pc = "boot" /\ proc.boot[h] = from

Booted(h, to) == proc' = [proc EXCEPT !.boot[h] = to]

others == <<mode, pc, key, wrong, hcloud, dns, robot, caph>>

SkipBoot(h) ==
    /\ Booting(h, "todo")
    /\ Reachable(h)
    /\ Booted(h, "ok")
    /\ UNCHANGED <<others, hosts, faults>>

\* Mutant: every host of the list is booted into the rescue system.
ActivateAlways(h) ==
    /\ Booting(h, "todo")
    /\ armed' = armed \cup {h}
    /\ Booted(h, "armed")
    /\ UNCHANGED <<others, machine, faults>>

ActivateRescue(h) ==
    /\ Booting(h, "todo")
    /\ IF Reachable(h) THEN Fault ELSE UNCHANGED faults
    /\ armed' = armed \cup {h}
    /\ proc' = [proc EXCEPT !.boot[h] = "armed",
                             !.missed = @ \cup ({h} \cap Nodes)]
    /\ UNCHANGED <<others, machine>>

ResetHost(h) ==
    /\ Booting(h, "armed")
    /\ machine' = [machine EXCEPT ![h] = "resetting"]
    /\ Booted(h, "reset")
    /\ UNCHANGED <<others, armed, faults>>

HostReachable(h) ==
    /\ Booting(h, "reset")
    /\ Reachable(h)
    /\ Booted(h, "ok")
    /\ UNCHANGED <<others, hosts, faults>>

\* HBMSRescueBootMaxWaitTime is over.  A host that came up from its disk
\* will not be reached however long one waits.
BootTimesOut(h) ==
    /\ Booting(h, "reset")
    /\ ~Reachable(h)
    /\ IF machine[h] = "disk" THEN UNCHANGED faults ELSE Fault
    /\ Booted(h, "failed")
    /\ UNCHANGED <<others, hosts>>

\* wg.Wait(): one failed host fails the stage, after all have ended.
BootsEnd ==
    /\ pc = "boot"
    /\ \A h \in Host : proc.boot[h] \in {"ok", "failed"}
    /\ IF \A h \in Host : proc.boot[h] = "ok"
          THEN Pass("boot") /\ UNCHANGED proc
          ELSE Exit /\ UNCHANGED applied
    /\ UNCHANGED <<mode, key, wrong, hosts, hcloud, dns, robot, master, faults>>

BootStep(h) ==
    \/ SkipBoot(h) \/ ActivateRescue(h) \/ ResetHost(h)
    \/ HostReachable(h) \/ BootTimesOut(h)

\* The plans are shown; without the operator's yes the process ends.
ApprovePlans ==
    /\ pc = "plan"
    /\ Pass("plan")
    /\ UNCHANGED <<mode, proc, key, wrong, hosts, hcloud, dns, robot, master,
                   faults>>

RefusePlans ==
    /\ pc = "plan"
    /\ Fault
    /\ Exit
    /\ UNCHANGED <<mode, key, wrong, hosts, hcloud, dns, robot, caph>>

(***************************************************************************)
(* HCloud: the network and the NAT gateway.                                *)
(***************************************************************************)
CreateNetwork ==
    /\ pc = "network"
    /\ net' = [net EXCEPT !.made = TRUE]
    /\ Pass("network")
    /\ UNCHANGED <<mode, proc, key, wrong, hosts, nat, lb, fip, joined, dns,
                   robot, master, faults>>

\* The steps of the HCloud part that stay inside a stage.
Step(from, to) == pc = from /\ pc' = to
unmoved == <<mode, key, wrong, hosts, dns, robot, caph>>

\* A new server is attached to the network later than Create answers.  The
\* key is looked up by the name in memory; no such key is a nil dereference.
FindOrCreateGateway ==
    /\ pc = "nat"
    /\ IF nat.made \/ key["hcloud"] # proc.name
          THEN /\ nat' = nat
               /\ IF nat.made THEN pc' = "natAttach" /\ UNCHANGED proc
                              ELSE Exit
          ELSE /\ nat' = [NoGateway EXCEPT !.made = TRUE]
               /\ pc' = "natProtect" /\ UNCHANGED proc
    /\ UNCHANGED <<unmoved, net, lb, fip, joined, faults>>

\* Out of stock in every location.
GatewayUnavailable ==
    /\ pc = "nat" /\ ~nat.made
    /\ Fault
    /\ Exit
    /\ UNCHANGED <<unmoved, hcloud>>

ProtectGateway ==
    /\ Step("natProtect", "natAttach")
    /\ nat' = [nat EXCEPT !.protected = TRUE]
    /\ UNCHANGED <<unmoved, proc, net, lb, fip, joined, faults>>

GatewayAttached ==
    /\ Step("natAttach", "natRoute")
    /\ nat.attached
    /\ UNCHANGED <<unmoved, proc, hcloud, faults>>

\* 30 s of polling are over and the attachment is still pending: the
\* explicit one is refused.
AttachRefused ==
    /\ pc = "natAttach" /\ ~nat.attached
    /\ Fault
    /\ Exit
    /\ UNCHANGED <<unmoved, hcloud>>

\* Any default route counts, wherever it leads.
EnsureRoute ==
    /\ Step("natRoute", "natSsh")
    /\ net' = [net EXCEPT !.route = IF @ = "none" THEN "gateway" ELSE @]
    /\ UNCHANGED <<unmoved, proc, nat, lb, fip, joined, faults>>

\* waitForNATGatewaySSH has no bound.
ConfigureGateway ==
    /\ pc = "natSsh" /\ nat.ssh
    /\ nat' = [nat EXCEPT !.masq = TRUE]
    /\ Pass("nat")
    /\ UNCHANGED <<mode, proc, key, wrong, hosts, net, lb, fip, joined, dns,
                   robot, master, faults>>

(***************************************************************************)
(* The control-plane load balancer.                                        *)
(***************************************************************************)
lbOnly == <<unmoved, proc, net, nat, fip, joined, faults>>

\* Mutant: a load balancer that exists is taken for a finished one.
FoundIsReady ==
    /\ pc = "lb"
    /\ IF lb.made
          THEN lb' = lb /\ pc' = IF mode.hostname THEN "lbDns" ELSE Following("lb")
          ELSE /\ lb' = [NoLB EXCEPT !.made = TRUE, !.owned = TRUE,
                                     !.net = "pending",
                                     !.public = IF mode.hostname
                                                THEN "pending" ELSE "off"]
               /\ pc' = "lbProtect"
    /\ UNCHANGED lbOnly

FindOrCreateLB ==
    /\ pc = "lb"
    /\ IF lb.made
          THEN lb' = lb /\ pc' = "lbLabel"
          ELSE /\ lb' = [NoLB EXCEPT !.made = TRUE, !.owned = TRUE,
                                     !.net = "pending",
                                     !.public = IF mode.hostname
                                                THEN "pending" ELSE "off"]
               /\ pc' = "lbProtect"
    /\ UNCHANGED lbOnly

ProtectLB ==
    /\ Step("lbProtect", "lbReady")
    /\ lb' = [lb EXCEPT !.protected = TRUE]
    /\ UNCHANGED lbOnly

LBReady ==
    /\ Step("lbReady", "lbService")
    /\ lb.net = "yes" /\ (mode.hostname => lb.public = "on")
    /\ UNCHANGED <<lbOnly, lb>>

LabelLB ==
    /\ Step("lbLabel", "lbAttach")
    /\ lb' = [lb EXCEPT !.owned = TRUE]
    /\ UNCHANGED lbOnly

AttachLB ==
    /\ pc = "lbAttach" /\ lb.net # "pending"
    /\ lb' = [lb EXCEPT !.net = IF @ = "no" THEN "pending" ELSE @]
    /\ pc' = IF lb.net = "no" THEN "lbAttached" ELSE "lbPublic"
    /\ UNCHANGED lbOnly

\* An attachment an earlier run asked for is still pending: the API refuses
\* the second one.
AttachLBRefused ==
    /\ pc = "lbAttach" /\ lb.net = "pending"
    /\ Exit
    /\ UNCHANGED <<unmoved, hcloud, faults>>

LBAttached ==
    /\ Step("lbAttached", "lbPublic")
    /\ lb.net = "yes"
    /\ UNCHANGED <<lbOnly, lb>>

OpenLB ==
    /\ pc = "lbPublic"
    /\ IF mode.hostname /\ lb.public # "on"
          THEN lb' = [lb EXCEPT !.public = "pending"] /\ pc' = "lbPublished"
          ELSE lb' = lb /\ pc' = "lbService"
    /\ UNCHANGED lbOnly

LBOpen ==
    /\ Step("lbPublished", "lbService")
    /\ lb.public = "on"
    /\ UNCHANGED <<lbOnly, lb>>

AddService ==
    /\ Step("lbService", "lbTarget")
    /\ lb' = [lb EXCEPT !.service = TRUE]
    /\ UNCHANGED lbOnly

AddTarget ==
    /\ pc = "lbTarget"
    /\ lb' = [lb EXCEPT !.target = TRUE]
    /\ IF mode.hostname THEN pc' = "lbDns" /\ UNCHANGED applied ELSE Pass("lb")
    /\ UNCHANGED <<mode, proc, key, wrong, hosts, net, nat, fip, joined, dns,
                   robot, master, faults>>

DnsResolves ==
    /\ pc = "lbDns" /\ dns
    /\ Pass("lb")
    /\ UNCHANGED <<mode, proc, key, wrong, hosts, hcloud, dns, robot, master,
                   faults>>

DnsTimesOut ==
    /\ pc = "lbDns" /\ ~dns
    /\ Fault
    /\ Exit
    /\ UNCHANGED <<unmoved, hcloud>>

CreateFloatingIP ==
    /\ pc = "fip"
    /\ IF fip.made
          THEN fip' = fip /\ Pass("fip")
          ELSE /\ fip' = [fip EXCEPT !.made = TRUE]
               /\ pc' = "fipProtect" /\ UNCHANGED applied
    /\ UNCHANGED <<mode, proc, key, wrong, hosts, net, nat, lb, joined, dns,
                   robot, master, faults>>

ProtectFloatingIP ==
    /\ pc = "fipProtect"
    /\ fip' = [fip EXCEPT !.protected = TRUE]
    /\ Pass("fip")
    /\ UNCHANGED <<mode, proc, key, wrong, hosts, net, nat, lb, joined, dns,
                   robot, master, faults>>

(***************************************************************************)
(* Robot: the vSwitch and its members.                                     *)
(***************************************************************************)
CreateVSwitch ==
    /\ pc = "vswitch"
    /\ vswitch # "cancelled" /\ "vlan" \notin wrong
    /\ vswitch' = "ours"
    /\ Pass("vswitch")
    /\ UNCHANGED <<mode, proc, key, wrong, hosts, hcloud, dns, member,
                   failover, master, faults>>

\* The VLAN belongs to another vSwitch, or to ours while it is deleted.
VSwitchRefused ==
    /\ pc = "vswitch"
    /\ vswitch = "cancelled" \/ "vlan" \in wrong
    /\ Exit
    /\ UNCHANGED <<unmoved, hcloud, faults>>

\* The network already has the subnet of another vSwitch.
SubnetRefused ==
    /\ pc = "subnet" /\ "subnet" \in wrong
    /\ Exit
    /\ UNCHANGED <<unmoved, hcloud, faults>>

ConnectVSwitch ==
    /\ pc = "subnet" /\ "subnet" \notin wrong
    /\ net' = [net EXCEPT !.bridged = TRUE]
    /\ Pass("subnet")
    /\ UNCHANGED <<mode, proc, key, wrong, hosts, nat, lb, fip, joined, dns,
                   robot, master, faults>>

\* GET /vswitch/{id}: every host ready ends the stage; the absent and the
\* failed ones are posted, in one request, after this answer.
PollMembers ==
    /\ pc = "members"
    /\ LET post == {h \in Host : member[h] \in {"absent", "failed"}}
       IN  /\ proc' = [proc EXCEPT !.post = post]
           /\ CASE \A h \in Host : member[h] = "ready" -> Pass("members")
                [] post # {} -> pc' = "membersPost" /\ UNCHANGED applied
                [] OTHER -> UNCHANGED <<pc, applied>>
    /\ UNCHANGED <<mode, key, wrong, hosts, hcloud, dns, robot, master, faults>>

\* Answered 409 while any server is still in process; the next poll retries.
PostMembers ==
    /\ Step("membersPost", "members")
    /\ member' = IF \E h \in Host : member[h] = "in process" THEN member
                 ELSE [h \in Host |-> IF h \in proc.post THEN "in process"
                                                         ELSE member[h]]
    /\ UNCHANGED <<mode, proc, key, wrong, hosts, hcloud, dns, vswitch,
                   failover, caph, faults>>

MembersTimeOut ==
    /\ pc = "members"
    /\ \E h \in Host : member[h] # "ready"
    /\ Fault
    /\ Exit
    /\ UNCHANGED <<unmoved, hcloud>>

\* The servers of the VPN cluster, one by one; already attached is fine.
JoinServer(s) ==
    /\ pc = "vpn" /\ s \notin joined
    /\ joined' = joined \cup {s}
    /\ UNCHANGED <<mode, pc, proc, key, wrong, hosts, net, nat, lb, fip, dns,
                   robot, caph, faults>>

ServersJoined ==
    /\ pc = "vpn" /\ joined = VpnServer
    /\ Pass("vpn")
    /\ UNCHANGED <<mode, proc, key, wrong, hosts, hcloud, dns, robot, master,
                   faults>>

(***************************************************************************)
(* The failover IP, switched to the init master while CAPH provisions.     *)
(***************************************************************************)
ReadActive ==
    /\ Step("failover", "failoverMaster")
    /\ proc' = [proc EXCEPT !.seen = failover.active]
    /\ UNCHANGED <<unmoved, hcloud, faults>>

\* The answer read before the wait for the master is the one compared.
FindInitMaster ==
    /\ pc = "failoverMaster" /\ master # "none"
    /\ IF proc.seen = master THEN Pass("failover")
                             ELSE pc' = "failoverPost" /\ UNCHANGED applied
    /\ UNCHANGED <<mode, proc, key, wrong, hosts, hcloud, dns, robot, master,
                   faults>>

\* 200; 409 while a switch is in flight or has landed; a lost request or a
\* lost answer: all are settled by polling.
PostFailover ==
    /\ Step("failoverPost", "failoverWait")
    /\ \/ /\ failover.flight = "none" /\ failover.active # master
          /\ failover' = [failover EXCEPT !.flight = master]
          /\ UNCHANGED faults
       \/ /\ failover.flight # "none" \/ failover.active = master
          /\ UNCHANGED <<failover, faults>>
       \/ Fault /\ UNCHANGED failover
    /\ UNCHANGED <<mode, proc, key, wrong, hosts, hcloud, dns, vswitch, member,
                   caph>>

FailoverSeen ==
    /\ pc = "failoverWait" /\ failover.active = master
    /\ Pass("failover")
    /\ UNCHANGED <<mode, proc, key, wrong, hosts, hcloud, dns, robot, master,
                   faults>>

FailoverTimesOut ==
    /\ pc = "failoverWait" /\ failover.active # master
    /\ IF failover.flight = "none" THEN UNCHANGED faults ELSE Fault
    /\ Exit
    /\ UNCHANGED <<unmoved, hcloud>>

(***************************************************************************)
(* The end of the bootstrap, and what a deletion does first.               *)
(***************************************************************************)
\* WaitForMainClusterToBeProvisioned: a first machine with a node, which the
\* init master only becomes when the endpoint leads to it.
MainClusterProvisioned ==
    /\ pc = "provision"
    /\ mode.bm => \E h \in Host : machine[h] = "node"
    /\ mode.failover => failover.active = master
    /\ Pass("provision")
    /\ UNCHANGED <<mode, proc, key, wrong, hosts, hcloud, dns, robot, master,
                   faults>>

DisablePublicInterface ==
    /\ pc = "finalize"
    /\ lb' = IF mode.lb /\ mode.hostname THEN [lb EXCEPT !.public = "off"]
                                         ELSE lb
    /\ Pass("finalize")
    /\ UNCHANGED <<mode, proc, key, wrong, hosts, net, nat, fip, joined, dns,
                   robot, master, faults>>

DeleteCluster ==
    /\ pc = "done"
    /\ pc' = IF mode.hcloud THEN "unprotectLb" ELSE "deleted"
    /\ UNCHANGED <<unmoved, proc, hcloud, faults>>

UnprotectLB ==
    /\ Step("unprotectLb", "unprotectNat")
    /\ lb' = [lb EXCEPT !.protected = FALSE]
    /\ UNCHANGED lbOnly

UnprotectGateway ==
    /\ Step("unprotectNat", "deleted")
    /\ nat' = [nat EXCEPT !.protected = FALSE]
    /\ UNCHANGED <<unmoved, proc, net, lb, fip, joined, faults>>

DeletionCutShort ==
    /\ pc = "unprotectNat"
    /\ Fault
    /\ pc' = "unprotectLb"
    /\ UNCHANGED <<unmoved, proc, hcloud>>

(***************************************************************************)
(* The two services, the operator, and CAPH.                               *)
(***************************************************************************)
program == <<mode, pc, proc, faults>>

\* A reset host takes the rescue system if it is armed, its disk otherwise.
Boots(h) ==
    /\ machine[h] = "resetting"
    /\ machine' = [machine EXCEPT ![h] = IF h \in armed THEN "rescue"
                                                        ELSE "disk"]
    /\ armed' = armed \ {h}
    /\ UNCHANGED <<program, key, wrong, hcloud, dns, robot, caph>>

GatewayComesUp ==
    /\ nat.made
    /\ \/ ~nat.attached /\ nat' = [nat EXCEPT !.attached = TRUE]
       \/ ~nat.ssh /\ nat' = [nat EXCEPT !.ssh = TRUE]
    /\ UNCHANGED <<program, key, wrong, hosts, net, lb, fip, joined, dns,
                   robot, caph>>

LBSettles ==
    /\ \/ lb.net = "pending" /\ lb' = [lb EXCEPT !.net = "yes"]
       \/ lb.public = "pending" /\ lb' = [lb EXCEPT !.public = "on"]
    /\ UNCHANGED <<program, key, wrong, hosts, net, nat, fip, joined, dns,
                   robot, caph>>

OperatorAddsRecord ==
    /\ lb.public = "on" /\ ~dns
    /\ dns' = TRUE
    /\ UNCHANGED <<program, key, wrong, hosts, hcloud, robot, caph>>

\* The operator removes the foreign key, vSwitch or subnet an error named.
OperatorFixes ==
    /\ wrong # {} /\ wrong' = {}
    /\ UNCHANGED <<program, key, hosts, hcloud, dns, robot, caph>>

VSwitchGone ==
    /\ vswitch = "cancelled" /\ vswitch' = "none"
    /\ UNCHANGED <<program, key, wrong, hosts, hcloud, dns, member, failover,
                   caph>>

MemberAttached(h) ==
    /\ member[h] = "in process"
    /\ member' = [member EXCEPT ![h] = "ready"]
    /\ UNCHANGED <<program, key, wrong, hosts, hcloud, dns, vswitch, failover,
                   caph>>

MemberFails(h) ==
    /\ member[h] = "in process"
    /\ Fault
    /\ member' = [member EXCEPT ![h] = "failed"]
    /\ UNCHANGED <<mode, pc, proc, key, wrong, hosts, hcloud, dns, vswitch,
                   failover, caph>>

SwitchLands ==
    /\ failover.flight # "none"
    /\ failover' = [active |-> failover.flight, flight |-> "none"]
    /\ UNCHANGED <<program, key, wrong, hosts, hcloud, dns, vswitch, member,
                   caph>>

\* CAPH takes a host (the first becomes the init master), restarts it for
\* the installation, and goes on with the others once the API answers.
Installs(h) ==
    /\ applied /\ mode.bm
    /\ machine[h] = "rescue"
    /\ master \in {"none", h} \/ (mode.failover => failover.active = master)
    /\ machine' = [machine EXCEPT ![h] = "installing"]
    /\ master' = IF master = "none" THEN h ELSE master
    /\ UNCHANGED <<program, key, wrong, armed, hcloud, dns, robot, applied>>

Installed(h) ==
    /\ machine[h] = "installing"
    /\ machine' = [machine EXCEPT ![h] = "node"]
    /\ UNCHANGED <<program, key, wrong, armed, hcloud, dns, robot, caph>>

\* An accident in the console; protection is what prevents it.
GatewayDeleted ==
    /\ nat.made /\ ~nat.protected
    /\ pc = "idle"
    /\ nat' = NoGateway
    /\ net' = [net EXCEPT !.route = IF @ = "gateway" THEN "stale" ELSE @]
    /\ UNCHANGED <<program, key, wrong, hosts, lb, fip, joined, dns, robot,
                   caph>>

Command ==
    \/ Start
    \/ \E s \in Services : CreateKey(s) \/ KeyClash(s)
    \/ \E h \in Host : BootStep(h)
    \/ BootsEnd \/ ApprovePlans
    \/ CreateNetwork \/ FindOrCreateGateway \/ ProtectGateway
    \/ GatewayAttached \/ EnsureRoute \/ ConfigureGateway
    \/ FindOrCreateLB \/ ProtectLB \/ LBReady \/ LabelLB \/ AttachLB
    \/ AttachLBRefused \/ LBAttached \/ OpenLB \/ LBOpen \/ AddService
    \/ AddTarget \/ DnsResolves \/ CreateFloatingIP \/ ProtectFloatingIP
    \/ CreateVSwitch \/ VSwitchRefused \/ SubnetRefused \/ ConnectVSwitch
    \/ PollMembers \/ PostMembers \/ (\E s \in VpnServer : JoinServer(s)) \/ ServersJoined
    \/ ReadActive \/ FindInitMaster \/ PostFailover \/ FailoverSeen
    \/ FailoverTimesOut \/ MainClusterProvisioned \/ DisablePublicInterface
    \/ UnprotectLB \/ UnprotectGateway

Failure ==
    \/ Crash \/ RefusePlans \/ GatewayUnavailable \/ AttachRefused
    \/ DnsTimesOut \/ MembersTimeOut
    \/ \E h \in Host : MemberFails(h)

Operator ==
    \/ Rerun \/ DeleteCluster \/ DeletionCutShort

Environment ==
    \/ GatewayComesUp \/ LBSettles \/ OperatorAddsRecord \/ OperatorFixes
    \/ VSwitchGone \/ SwitchLands
    \/ \E h \in Host : Boots(h) \/ MemberAttached(h) \/ Installs(h)
                       \/ Installed(h)

Next == Command \/ Failure \/ Operator \/ Environment

Spec == Init /\ [][Next]_vars

\* With accidents in the console.
AccidentSpec == Init /\ [][Next \/ GatewayDeleted]_vars

\* The command goes on, the operator starts it again, and every outside party
\* does its part: each host, each attachment, each record in turn.
FairSpec ==
    /\ Spec
    /\ WF_vars(Command)
    /\ WF_vars(GatewayComesUp) /\ WF_vars(LBSettles)
    /\ WF_vars(OperatorAddsRecord) /\ WF_vars(OperatorFixes)
    /\ WF_vars(VSwitchGone) /\ WF_vars(SwitchLands)
    /\ \A h \in Host : /\ WF_vars(Boots(h)) /\ WF_vars(MemberAttached(h))
                       /\ WF_vars(Installs(h)) /\ WF_vars(Installed(h))
(***************************************************************************)
(* Properties.                                                             *)
(***************************************************************************)
\* A bootstrap that says it is done has wired everything it was asked for,
\* whichever of it this run, an earlier one that was killed, or an older
\* release had made: the network leads out through a gateway that
\* masquerades, the load balancer is labelled, attached, listens and has its
\* targets, the vSwitch is bridged and every host is on it, the VPN servers
\* share the network, the failover IP leads to the init master.
WiredWhenDone ==
    pc = "done" =>
        /\ mode.hcloud => net.made /\ key["hcloud"] # "none"
        /\ mode.nat => nat.made /\ nat.attached /\ nat.masq
                       /\ net.route = "gateway"
        /\ mode.lb => /\ lb.owned /\ lb.net = "yes" /\ lb.service /\ lb.target
                      /\ mode.hostname => dns
        /\ mode.fip => fip.made
        /\ mode.bm => /\ key["robot"] # "none" /\ vswitch = "ours"
                      /\ \A h \in Host : member[h] = "ready"
        /\ mode.bm /\ mode.hcloud => net.bridged
        /\ mode.vpn => joined = VpnServer
        /\ mode.failover => failover.active = master

\* Running the command again over a cluster, whole or half done, resets no
\* host that is a node of it when the run begins, unless the one probe that
\* skips a reachable host went unanswered: nothing else tells the run that
\* the host is in use.
LiveNodesKept == \A h \in proc.live : h \in Nodes \/ h \in proc.missed

\* "HBMS already SSH-reachable are skipped (idempotency)", os_install.go:31,
\* taken to mean that a run over a cluster leaves its nodes alone: no, since
\* a probe that is missed counts as a host to be reset.
LiveNodesNeverReset == proc.live \subseteq Nodes

\* And a host may become a node between its probe and its reset.
NodesStayUp ==
    [][\A h \in Host : machine[h] = "node" => machine'[h] = "node"]_vars

\* Kills, refusals, timeouts and requests still pending from an earlier run
\* never lead into a state from which running the command again cannot
\* finish: in the end the bootstrap is done (or the cluster deleted).
GetsThrough == []<>(pc \in {"done", "deleted"})

\* What the load balancer, the gateway and the floating IP are created for
\* is not lost by accident: a finished cluster has them protected.
ProtectedWhenDone ==
    pc = "done" => /\ mode.nat => nat.protected
                   /\ mode.lb => lb.protected
                   /\ mode.fip => fip.protected
=============================================================================
