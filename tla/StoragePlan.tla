---------------------------- MODULE StoragePlan ----------------------------
(***************************************************************************)
(* The storage of Hetzner bare-metal nodes is planned twice: kubeaid-cli   *)
(* scans every host in the rescue system, shows the plans, has them        *)
(* approved and renders what Cluster API needs (root device hints, sizes); *)
(* and every node, once Cluster API has installed its OS, plans again from *)
(* the disks it sees and carves them (kubeaid-storagectl plan execute).    *)
(* The two plans are never compared: they agree because both sides compute *)
(* the same function of the same facts, or they do not agree.              *)
(* Sizes are in units of 10 GB; the 2 GB kept aside are left out.          *)
(***************************************************************************)
EXTENDS Integers, FiniteSets, Sequences

CONSTANTS
    HostSeq,      \* the hosts, in the order kubeaid-cli scans them
    GroupOf,      \* [host -> node group]; a group's hosts are next to each other
    Boxes,        \* hardware a host may have: [disk -> [kind, size]]
    Orders,       \* orders of the disks' device names: [disk -> rank]
    Renames,      \* the hosts on which a boot may name the disks in another order
    Files,        \* contents of general.yaml: [top, own], size 0 when the key is absent
    VgSize,       \* cloud.hetzner.bareMetal.installImage.vg0.size
    ZfsDefault,   \* the default:"220" tag of ZFSConfig.Size
    CephMin,      \* constants.CEPHNodeMinSize
    MaxFaults     \* bound on crashes and broken scripts, together

Hosts == {HostSeq[i] : i \in DOMAIN HostSeq}
Groups == {GroupOf[h] : h \in Hosts}
Kinds == {"HDD", "SSD", "NVMe"}

ASSUME HostsAssumption ==
    /\ HostSeq \in Seq(Hosts)
    /\ \A i, j \in DOMAIN HostSeq : HostSeq[i] = HostSeq[j] => i = j
ASSUME BoxesAssumption ==
    \A b \in Boxes : IsFiniteSet(DOMAIN b) /\ \A o \in Orders, d \in DOMAIN b : o[d] \in Nat
ASSUME SizesAssumption ==
    /\ {VgSize, ZfsDefault, CephMin} \subseteq Nat \ {0}
    /\ \A f \in Files : f.top \in Nat /\ f.own \in [Groups -> Nat]
ASSUME BoundsAssumption == MaxFaults \in Nat /\ Renames \subseteq Hosts

VARIABLES
    box,        \* box[h]: the host's disks, "Unknown" ones included
    fast,       \* fast[h]: a NIC of 5 Gbit/s or more
    rank,       \* rank[h]: the current order of its device names
    file,       \* general.yaml
    mem,        \* what the running kubeaid-cli parsed from it
    stage,      \* where kubeaid-cli is
    plans,      \* plans[h]: the plan of this run's scan, or NoPlan
    approved,   \* approved[h]: the plan the operator last said yes to
    shown,      \* shown[g]: what the approved box said of the group
    values,     \* what is in kubeaid-config: [size, hints, nvme], or NoValues
    node,       \* node[h]: the machine's life
    nplan,      \* nplan[h]: the plan the node computed for itself
    todo,       \* todo[h]: disks the node's script still has to carve
    os,         \* os[h]: disks that hold half of the OS volume
    p5,         \* p5[h][d]: size of partition 5, 0 for a placeholder or none
    pool,       \* pool[h]: [members, size, nth] of the ZFS pool "primary"
    faults

cli == <<file, mem, stage, plans, approved, shown, values>>
machine == <<node, nplan, todo, os, p5, pool>>
hardware == <<box, fast>>
vars == <<hardware, rank, cli, machine, faults>>

NoPlan == [ok |-> FALSE, size |-> 0]
NoValues == [size |-> [g \in Groups |-> 0]]
NoPool == [members |-> {}, size |-> 0, nth |-> 0]

---------------------------------------------------------------------------
(* The planner. *)

\* The disks lsblk lists, less those of a transport the planner does not know.
GetDisks(b) == {d \in DOMAIN b : b[d].kind \in Kinds}

OsScore(kind) == CASE kind = "HDD" -> 3 [] kind = "SSD" -> 2 [] OTHER -> 1

\* A fast NIC leaves the fast disks to Ceph.
ZfsScore(kind, nic) ==
    CASE kind = "HDD" -> 3
      [] kind = "SSD" -> IF nic THEN 2 ELSE 4
      [] OTHER -> IF nic THEN 1 ELSE 5

\* slices.SortFunc: higher score first, then by device name.
Before(score, order, c, d) ==
    score[c] > score[d] \/ (score[c] = score[d] /\ order[c] < order[d])

\* allocateTwoDisks: the first two with room for the allocation.
FirstTwo(disks, score, order, free, size) ==
    LET roomy == {d \in disks : free[d] >= size}
    IN {d \in roomy : Cardinality({c \in roomy : Before(score, order, c, d)}) < 2}

\* The disks of the OS: the slowest, so that the fast ones are left to the pool and Ceph.
OsDisks(b, order, vg) ==
    LET disks == GetDisks(b)
    IN FirstTwo(disks, [d \in disks |-> OsScore(b[d].kind)], order, [d \in disks |-> b[d].size], vg)

\* Unallocated, once the OS has its share.
Left(b, onOs, vg) == [d \in GetDisks(b) |-> b[d].size - (IF d \in onOs THEN vg ELSE 0)]

\* allocateStoragePlan: OS, then ZFS from what is left, then Ceph takes the rest.
Allocate(b, nic, order, vg, zfs) ==
    LET disks == GetDisks(b)
        onOs == OsDisks(b, order, vg)
        left == Left(b, onOs, vg)
        onZfs == FirstTwo(disks, [d \in disks |-> ZfsScore(b[d].kind, nic)], order, left, zfs)
        rest == [d \in disks |-> left[d] - (IF d \in onZfs THEN zfs ELSE 0)]
    IN IF Cardinality(onOs) # 2 \/ Cardinality(onZfs) # 2 THEN NoPlan
       ELSE [ok |-> TRUE, os |-> onOs, zfs |-> onZfs, size |-> zfs,
             ceph |-> [d \in disks |-> IF rest[d] < CephMin THEN 0 ELSE rest[d]]]

\* zfsDiskTypes: the kinds under the pool, as a bag.
PoolKinds(b, plan) == [k \in Kinds |-> Cardinality({d \in plan.zfs : b[d].kind = k})]

\* CheckStoragePlansAlike over the hosts of one group.
Alike(g, ps) ==
    LET members == {h \in Hosts : GroupOf[h] = g}
    IN \A h, i \in members : PoolKinds(box[h], ps[h]) = PoolKinds(box[i], ps[i])

\* The first host of a group, whose plan speaks for the group.
First(g) ==
    HostSeq[CHOOSE i \in DOMAIN HostSeq :
              GroupOf[HostSeq[i]] = g /\ \A j \in 1 .. i - 1 : GroupOf[HostSeq[j]] # g]

\* groupItems, zfsRows, cephRows: the rows of a group, from its first host's plan.
Rows(g) ==
    LET h == First(g)
        p == plans[h]
        profiles == {[kind |-> box[h][d].kind, size |-> p.ceph[d]] :
                        d \in {d \in DOMAIN p.ceph : p.ceph[d] > 0}}
    IN [pool |-> PoolKinds(box[h], p), size |-> p.size,
        osds |-> [q \in profiles |-> Cardinality({d \in DOMAIN p.ceph :
                                        q = [kind |-> box[h][d].kind, size |-> p.ceph[d]]})]]

\* plan.ZFS[0], the disk of the pool that was picked first.
FirstZfs(h, plan) ==
    CHOOSE d \in plan.zfs : \A c \in plan.zfs \ {d} :
        ZfsScore(box[h][d].kind, fast[h]) >= ZfsScore(box[h][c].kind, fast[h])

---------------------------------------------------------------------------
(* kubeaid-cli. *)

\* A host out of the rescue system: nothing of ours on its disks.
Init ==
    /\ box \in [Hosts -> Boxes]
    /\ fast \in [Hosts -> BOOLEAN]
    /\ rank \in [Hosts -> Orders]
    /\ file \in Files
    /\ mem = file /\ stage = "idle"
    /\ plans = [h \in Hosts |-> NoPlan]
    /\ approved = [h \in Hosts |-> NoPlan] /\ shown = [g \in Groups |-> NoPlan]
    /\ values = NoValues
    /\ node = [h \in Hosts |-> "rescue"]
    /\ nplan = [h \in Hosts |-> NoPlan]
    /\ todo = [h \in Hosts |-> {}]
    /\ os = [h \in Hosts |-> {}]
    /\ p5 = [h \in Hosts |-> [d \in DOMAIN box[h] |-> 0]]
    /\ pool = [h \in Hosts |-> NoPool]
    /\ faults = 0

OrDefault(size) == IF size = 0 THEN ZfsDefault ELSE size

\* ParseConfigFiles: read the file, then fill the sizes that are absent.
Parse ==
    /\ stage = "idle"
    /\ mem' = [top |-> OrDefault(file.top), own |-> [g \in Groups |-> OrDefault(file.own[g])]]
    /\ plans' = [h \in Hosts |-> NoPlan]
    /\ stage' = "scan"
    /\ UNCHANGED <<hardware, rank, file, approved, shown, values, machine, faults>>

\* generateStoragePlan of the next host; a host without two disks for each ends the run.
\* What lsblk says of kinds and sizes is the same in the rescue system and on a live node.
Scan ==
    /\ stage = "scan"
    /\ \E i \in DOMAIN HostSeq :
        LET h == HostSeq[i]
            p == Allocate(box[h], fast[h], rank[h], VgSize, mem.top)
            seen == [plans EXCEPT ![h] = p]
            groupDone == i = Len(HostSeq) \/ GroupOf[HostSeq[i + 1]] # GroupOf[h]
        IN /\ plans[h] = NoPlan /\ \A j \in 1 .. i - 1 : plans[HostSeq[j]] # NoPlan
           /\ plans' = seen
           /\ stage' = IF ~p.ok \/ (groupDone /\ ~Alike(GroupOf[h], seen)) THEN "failed"
                       ELSE IF i = Len(HostSeq) THEN "ask" ELSE "scan"
    /\ UNCHANGED <<hardware, rank, file, mem, approved, shown, values, machine, faults>>

\* GetApproval: yes, or no and the process exits.
Approve ==
    /\ stage = "ask"
    /\ \/ stage' = "persist" /\ approved' = plans /\ shown' = [g \in Groups |-> Rows(g)]
       \/ stage' = "failed" /\ UNCHANGED <<approved, shown>>
    /\ UNCHANGED <<hardware, rank, file, mem, plans, values, machine, faults>>

\* Mutant: what the file now says is the default, not the size that was approved.
PersistDefault ==
    /\ stage = "persist"
    /\ file' = [top |-> ZfsDefault, own |-> [g \in Groups |-> ZfsDefault]]
    /\ stage' = "render"
    /\ UNCHANGED <<hardware, rank, mem, plans, approved, shown, values, machine, faults>>

\* persistApprovedZFSSize: all three positions of the file, none of those in memory.
Persist ==
    /\ stage = "persist"
    /\ file' = [top |-> mem.top, own |-> [g \in Groups |-> mem.top]]
    /\ stage' = "render"
    /\ UNCHANGED <<hardware, rank, mem, plans, approved, shown, values, machine, faults>>

\* The first host's plan decides the disk=nvme label of its group.
Labelled(g) == box[First(g)][FirstZfs(First(g), plans[First(g)])].kind = "NVMe"

\* values-capi-cluster.yaml: the sizes in memory, the WWNs of the OS disks as a set.
Render ==
    /\ stage = "render"
    /\ values' = [size |-> mem.own,
                  hints |-> [h \in Hosts |-> plans[h].os],
                  nvme |-> [g \in Groups |-> Labelled(g)]]
    /\ stage' = "done"
    /\ UNCHANGED <<hardware, rank, file, mem, plans, approved, shown, machine, faults>>

\* The process ends where it is, or the operator runs the command again later.
Rerun ==
    /\ stage # "idle" /\ faults < MaxFaults /\ faults' = faults + 1
    /\ stage' = "idle"
    /\ UNCHANGED <<hardware, rank, file, mem, plans, approved, shown, values, machine>>

---------------------------------------------------------------------------
(* The machines. *)

\* Linux may enumerate the devices anew on every boot.
Boot(h) == IF h \in Renames THEN \E o \in Orders : rank' = [rank EXCEPT ![h] = o] ELSE rank' = rank

\* Cluster API installs the OS on the disks of the root device hints, and only there.
Install(h) ==
    /\ node[h] = "rescue" /\ values # NoValues /\ Boot(h)
    /\ os' = [os EXCEPT ![h] = values.hints[h]]
    /\ p5' = [p5 EXCEPT ![h] = [d \in DOMAIN box[h] |->
                                  IF d \in values.hints[h] THEN 0 ELSE @[d]]]
    /\ node' = [node EXCEPT ![h] = "installed"]
    /\ UNCHANGED <<hardware, cli, nplan, todo, pool, faults>>

\* Mutant: plan execute without --os-size, so with the flag's own default.
PlanOnNodeDefault(h) ==
    /\ node[h] = "installed"
    /\ LET p == Allocate(box[h], fast[h], rank[h], 5, values.size[GroupOf[h]])
       IN /\ nplan' = [nplan EXCEPT ![h] = p]
          /\ todo' = [todo EXCEPT ![h] = IF p.ok THEN GetDisks(box[h]) ELSE {}]
          /\ node' = [node EXCEPT ![h] = IF p.ok THEN "carving" ELSE "broken"]
    /\ UNCHANGED <<hardware, rank, cli, os, p5, pool, faults>>

\* generateAndPrintStoragePlan on the node, with the sizes of the values file.
PlanOnNode(h) ==
    /\ node[h] = "installed"
    /\ LET p == Allocate(box[h], fast[h], rank[h], VgSize, values.size[GroupOf[h]])
       IN /\ nplan' = [nplan EXCEPT ![h] = p]
          /\ todo' = [todo EXCEPT ![h] = IF p.ok THEN GetDisks(box[h]) ELSE {}]
          /\ node' = [node EXCEPT ![h] = IF p.ok THEN "carving" ELSE "broken"]
    /\ UNCHANGED <<hardware, rank, cli, os, p5, pool, faults>>

\* The script's next disk, in the order of the plan's last sort (for ZFS).
NextDisk(h) ==
    LET disks == GetDisks(box[h])
        score == [d \in disks |-> ZfsScore(box[h][d].kind, fast[h])]
    IN CHOOSE d \in todo[h] : \A c \in todo[h] \ {d} : Before(score, rank[h], d, c)

\* Mutant: partitions 1 to 3 are rewritten on the disks without a share of the pool.
CarveByZfs(h) ==
    /\ node[h] = "carving" /\ todo[h] # {}
    /\ LET d == NextDisk(h)
           size == IF d \in nplan[h].zfs THEN nplan[h].size ELSE 0
       IN /\ os' = [os EXCEPT ![h] = IF d \in nplan[h].zfs THEN @ ELSE @ \ {d}]
          /\ p5' = [p5 EXCEPT ![h][d] = size]
          /\ pool' = [pool EXCEPT ![h] =
                        IF d \in @.members /\ @.size # size
                        THEN [@ EXCEPT !.members = pool[h].members \ {d}] ELSE @]
          /\ todo' = [todo EXCEPT ![h] = @ \ {d}]
    /\ UNCHANGED <<hardware, rank, cli, node, nplan, faults>>

\* One disk: partitions 1 to 3 unless the OS is on it, then 4, 5 and 6. A member of
\* the pool outlives this when partition 5 comes back as it was.
Carve(h) ==
    /\ node[h] = "carving" /\ todo[h] # {}
    /\ LET d == NextDisk(h)
           size == IF d \in nplan[h].zfs THEN nplan[h].size ELSE 0
       IN /\ os' = [os EXCEPT ![h] = IF d \in nplan[h].os THEN @ ELSE @ \ {d}]
          /\ p5' = [p5 EXCEPT ![h][d] = size]
          /\ pool' = [pool EXCEPT ![h] =
                        IF d \in @.members /\ @.size # size
                        THEN [@ EXCEPT !.members = pool[h].members \ {d}] ELSE @]
          /\ todo' = [todo EXCEPT ![h] = @ \ {d}]
    /\ UNCHANGED <<hardware, rank, cli, node, nplan, faults>>

\* Mutant: creates the pool without trying to import it.
PoolAlwaysCreated(h) ==
    /\ node[h] = "carving" /\ todo[h] = {}
    /\ pool' = [pool EXCEPT ![h] = [members |-> nplan[h].zfs, size |-> nplan[h].size,
                                    nth |-> @.nth + 1]]
    /\ node' = [node EXCEPT ![h] = "up"]
    /\ UNCHANGED <<hardware, rank, cli, nplan, todo, os, p5, faults>>

\* zpool import -f primary, which one member is enough for; or zpool create.
Pool(h) ==
    /\ node[h] = "carving" /\ todo[h] = {}
    /\ pool' = [pool EXCEPT ![h] =
                  IF @.members # {} THEN @
                  ELSE [members |-> nplan[h].zfs, size |-> nplan[h].size, nth |-> @.nth + 1]]
    /\ node' = [node EXCEPT ![h] = "up"]
    /\ UNCHANGED <<hardware, rank, cli, nplan, todo, os, p5, faults>>

\* set -e: the script ends before its next command.
ScriptBreaks(h) ==
    /\ node[h] = "carving" /\ faults < MaxFaults /\ faults' = faults + 1
    /\ node' = [node EXCEPT ![h] = "broken"]
    /\ UNCHANGED <<hardware, rank, cli, nplan, todo, os, p5, pool>>

\* Cluster API takes a broken host, or one whose machine is replaced, through the
\* rescue system again.
Reprovision(h) ==
    /\ node[h] = "broken" \/ (node[h] = "up" /\ faults < MaxFaults)
    /\ faults' = IF node[h] = "up" THEN faults + 1 ELSE faults
    /\ node' = [node EXCEPT ![h] = "rescue"] /\ Boot(h)
    /\ UNCHANGED <<hardware, cli, nplan, todo, os, p5, pool>>

Machine(h) ==
    \/ Install(h) \/ PlanOnNode(h) \/ Carve(h) \/ Pool(h)
    \/ ScriptBreaks(h) \/ Reprovision(h)

Next ==
    \/ Parse \/ Scan \/ Approve \/ Persist \/ Render \/ Rerun
    \/ \E h \in Hosts : Machine(h)

Spec == Init /\ [][Next]_vars

---------------------------------------------------------------------------
(* Properties. *)

\* Every size a group's or the cluster's pool can get.
Sizes ==
    {OrDefault(f.top) : f \in Files} \cup {OrDefault(f.own[g]) : f \in Files, g \in Groups}

\* The device names have no say in which two disks are first: each disk with room has at
\* most one other that is as good, or two that are better.
Settled(disks, score, free, size) ==
    LET roomy == {d \in disks : free[d] >= size}
    IN \A d \in roomy : \/ Cardinality({c \in roomy \ {d} : score[c] >= score[d]}) < 2
                        \/ Cardinality({c \in roomy : score[c] > score[d]}) >= 2

\* The boxes of which no two disks compete for a place, under the OS or under a pool.
Untied ==
    [nic \in BOOLEAN |->
        {b \in Boxes :
            LET disks == GetDisks(b)
            IN /\ Settled(disks, [d \in disks |-> OsScore(b[d].kind)],
                          [d \in disks |-> b[d].size], VgSize)
               /\ \A o \in Orders, s \in Sizes :
                     Settled(disks, [d \in disks |-> ZfsScore(b[d].kind, nic)],
                             Left(b, OsDisks(b, o, VgSize), VgSize), s)}]

\* The hosts whose plan is the same after every boot: the names stay, or do not matter.
Steady(h) == h \notin Renames \/ box[h] \in Untied[fast[h]]

\* The OS volume is a RAID 1 across two disks: from the installation on, no step of
\* the node's own script may take its partitions from one of them. The script spares
\* the disks that its own plan gives to the OS, not those the OS is on, whatever the
\* boots in between have made of the disks' names.
OSKept == \A h \in Hosts : node[h] # "rescue" /\ Steady(h) => Cardinality(os[h]) = 2

\* A node that is up with a pool of the approved size has carved the plan that was made
\* for it in the approved run: the same disks and the same rest for Ceph, although nobody
\* sent it that plan. Its pool is the one the operator was shown for the group, of whose
\* hosts the box describes only the first; and a group labelled disk=nvme has NVMe under
\* each pool.
AsApproved ==
    \A h \in Hosts : node[h] = "up" /\ nplan[h].size = approved[h].size /\ Steady(h) =>
        /\ nplan[h] = approved[h]
        /\ LET rows == shown[GroupOf[h]]
           IN PoolKinds(box[h], nplan[h]) = rows.pool /\ pool[h].size = rows.size
        /\ values.nvme[GroupOf[h]] => \E d \in nplan[h].zfs : box[h][d].kind = "NVMe"

\* A pool that was made once is kept, with both of its halves, by every later run of
\* the script: after an interruption, and after a new installation of the OS. Only a
\* script that was told another size may take it away.
PoolKept ==
    [][\A h \in Hosts :
         /\ pool[h].nth > 0
         /\ node[h] = "carving" => nplan[h].size = pool[h].size /\ Steady(h)
         => pool'[h] = pool[h]]_vars

\* Seen from the outside: of the steady hosts, what was approved, the plan that a node
\* that is up has made for itself, and the pool, where they have the approved size.
Promised == [h \in Hosts |-> IF Steady(h) THEN approved[h] ELSE NoPlan]
Serving ==
    [h \in Hosts |-> IF node[h] = "up" /\ nplan[h].size = approved[h].size /\ Steady(h)
                     THEN nplan[h] ELSE NoPlan]
PoolSeen ==
    [h \in Hosts |-> IF pool[h].size = approved[h].size /\ Steady(h) THEN pool[h] ELSE NoPool]

Handover == INSTANCE ApprovedStorage
    WITH Host <- Hosts, approved <- Promised, serving <- Serving, pool <- PoolSeen

\* Together, two programs that never compare notes are one that keeps its word: the first
\* yes decides the plan of every host for good (a later run of the command, after whatever
\* was interrupted, asks for the same one, because it persisted what was approved), and no
\* node told the approved size comes up with another plan, or with a pool of another one.
ImplementsHandover == Handover!Spec

\* Stronger, and false where disks tie: "Linux re-enumerates PCIe / NVMe devices on every
\* boot" (storageplan.go:126-128), and each side breaks a tie by the device name.
OSKeptOnAnyBox == \A h \in Hosts : node[h] # "rescue" => Cardinality(os[h]) = 2

\* Stronger, and false after an edit of one of the three sizes: "Keeping the three in
\* lock-step at write time is what makes 'the operator approved one number' actually
\* true" (storageplan.go:149-152), but what is rendered is what was parsed before.
UpAsApproved == \A h \in Hosts : node[h] = "up" => nplan[h].size = approved[h].size

=============================================================================
