------------------------- MODULE StoragePlan_proofs -------------------------
(***************************************************************************)
(* Theorems of StoragePlan, for every set of hosts, hardware, sizes and      *)
(* orders of the disks' names, and for any hosts whose boots change them.    *)
(*                                                                         *)
(* On a host where no two disks compete for a place (Untied) both planners   *)
(* compute one function of the hardware and a size, whatever the names are:  *)
(* SettledPlan. So on a Steady host the hints, the disks under the OS and    *)
(* the plans of both sides agree for good, each plan with the others of its  *)
(* size. The sizes need not agree: SizeInv says that the approved one stays  *)
(* what general.yaml asks of the cluster, and that values may have another   *)
(* one only until a second run renders them; NodeInv, that a pool of that    *)
(* other size loses a member only to a script that was told the new one.     *)
(***************************************************************************)
EXTENDS StoragePlan, TLAPS, FiniteSetTheorems, WellFoundedInduction

\* Where the OS of a host belongs, and its plan for a size, by the names of the moment.
OsOf(h) == OsDisks(box[h], rank[h], VgSize)
PlanFor(h, s) == Allocate(box[h], fast[h], rank[h], VgSize, s)

\* The pool's share that is asked for: the same through every run, for an approval
\* writes what it read.
PoolSize == OrDefault(file.top)

\* general.yaml has one size in all three places, as an approval leaves it.
Even == \A g \in Groups : OrDefault(file.own[g]) = PoolSize

\* A plan for the size s that was not refused.
GoodPlan(h, p, s) ==
    /\ p.ok = TRUE /\ p.size = s
    /\ Cardinality(p.os) = 2
    /\ p.zfs \subseteq GetDisks(box[h]) /\ Cardinality(p.zfs) = 2

\* A plan for the size s as either side may have made it, now or before.
PlanIs(h, p, s) == GoodPlan(h, p, s) /\ (Steady(h) => p = PlanFor(h, s))

HardInv ==
    /\ box \in [Hosts -> Boxes]
    /\ fast \in [Hosts -> BOOLEAN]
    /\ rank \in [Hosts -> Orders]

SizeInv ==
    /\ PoolSize \in Sizes /\ \A g \in Groups : OrDefault(file.own[g]) \in Sizes
    /\ stage # "idle" => mem.top = PoolSize /\ \A g \in Groups : mem.own[g] \in Sizes
    /\ stage = "render" => Even
    /\ values # NoValues =>
          /\ Even
          /\ stage \in {"scan", "ask", "persist", "render"} =>
                \A g \in Groups : mem.own[g] = PoolSize

LastOfGroup(i) == \A j \in DOMAIN HostSeq : j > i => GroupOf[HostSeq[j]] # GroupOf[HostSeq[i]]

\* While kubeaid-cli scans, a group is compared once its last host is planned.
ScanInv ==
    /\ DOMAIN plans = Hosts
    /\ \A h \in Hosts : plans[h] = NoPlan \/ PlanIs(h, plans[h], PoolSize)
    /\ stage = "scan" =>
          \A i \in DOMAIN HostSeq : plans[HostSeq[i]] # NoPlan =>
              /\ \A j \in 1 .. i - 1 : plans[HostSeq[j]] # NoPlan
              /\ LastOfGroup(i) => Alike(GroupOf[HostSeq[i]], plans)
    /\ stage \in {"ask", "persist", "render"} =>
          /\ \A h \in Hosts : plans[h] # NoPlan
          /\ \A g \in Groups : Alike(g, plans)

\* What the operator has approved, and was shown.
Approved ==
    \A h \in Hosts :
        /\ PlanIs(h, approved[h], PoolSize)
        /\ shown[GroupOf[h]].size = PoolSize
        /\ Steady(h) => shown[GroupOf[h]].pool = PoolKinds(box[h], PlanFor(h, PoolSize))

HasNvme(h, p) == \E d \in p.zfs : box[h][d].kind = "NVMe"

ValuesInv ==
    /\ DOMAIN approved = Hosts
    /\ Approved \/ \A h \in Hosts : approved[h] = NoPlan
    /\ stage \in {"persist", "render"} => Approved
    /\ values # NoValues =>
          /\ Approved
          /\ \A h \in Hosts :
                /\ values.size[GroupOf[h]] \in Sizes
                /\ Steady(h) =>
                      /\ values.hints[h] = OsOf(h) /\ Cardinality(OsOf(h)) = 2
                      /\ values.nvme[GroupOf[h]] => HasNvme(h, PlanFor(h, PoolSize))

\* A pool that was made on the host h. It is whole, or it has another size than the
\* approved one, and the script that is to replace it has begun.
PoolInv(h) ==
    LET p == pool[h]
        whole == PlanFor(h, p.size).zfs
    IN /\ p = [members |-> p.members, size |-> p.size, nth |-> p.nth]
       /\ p.size \in Sizes /\ p.nth \in Nat \ {0}
       /\ nplan[h] # NoPlan /\ nplan[h].size # PoolSize => p.size = nplan[h].size
       /\ Steady(h) =>
             /\ PlanFor(h, p.size).ok = TRUE /\ p.members \subseteq whole
             /\ \/ p.members = whole
                \/ /\ p.size # PoolSize /\ nplan[h].size # p.size
                   /\ values.size[GroupOf[h]] = PoolSize
             /\ node[h] = "carving" /\ p.size # nplan[h].size => p.members \subseteq todo[h]

HostInv(h) ==
    /\ node[h] # "rescue" => values # NoValues
    /\ values = NoValues => nplan[h] = NoPlan /\ pool[h] = NoPool
    /\ nplan[h] = NoPlan \/ (nplan[h].size \in Sizes /\ PlanIs(h, nplan[h], nplan[h].size))
    /\ node[h] \in {"carving", "up"} => nplan[h] # NoPlan
    /\ values # NoValues /\ values.size[GroupOf[h]] # PoolSize =>
          /\ nplan[h].size \in {0, values.size[GroupOf[h]]}
          /\ pool[h].size \in {0, values.size[GroupOf[h]]}
    /\ pool[h] = NoPool \/ PoolInv(h)
    /\ node[h] = "up" => pool[h] # NoPool /\ (Steady(h) => pool[h].size = nplan[h].size)
    /\ node[h] # "rescue" /\ Steady(h) => os[h] = OsOf(h)

NodeInv ==
    /\ DOMAIN node = Hosts /\ DOMAIN nplan = Hosts /\ DOMAIN pool = Hosts
    /\ DOMAIN os = Hosts /\ DOMAIN todo = Hosts
    /\ \A h \in Hosts : HostInv(h)

PlanInv == HardInv /\ SizeInv /\ ScanInv /\ ValuesInv /\ NodeInv

---------------------------------------------------------------------------
(* The planner. *)

\* Where disks do not compete, the two that are first are the same under all names.
Firsts(disks, score, free, size) ==
    LET roomy == {d \in disks : free[d] >= size}
    IN {d \in roomy : Cardinality({c \in roomy \ {d} : score[c] >= score[d]}) < 2}

LEMMA FirstTwoSettled ==
    ASSUME NEW disks, IsFiniteSet(disks), NEW score, \A d \in disks : score[d] \in Nat,
           NEW order, \A d \in disks : order[d] \in Nat, NEW free, NEW size,
           Settled(disks, score, free, size)
    PROVE  FirstTwo(disks, score, order, free, size) = Firsts(disks, score, free, size)
<1> DEFINE roomy == {d \in disks : free[d] >= size}
           Ahead(d) == {c \in roomy : Before(score, order, c, d)}
           AsGood(d) == {c \in roomy \ {d} : score[c] >= score[d]}
           Better(d) == {c \in roomy : score[c] > score[d]}
<1>1. roomy \subseteq disks /\ IsFiniteSet(roomy)
    BY FS_Subset
<1>2. ASSUME NEW d \in roomy
      PROVE  Cardinality(Ahead(d)) < 2 <=> Cardinality(AsGood(d)) < 2
    <2>1. Better(d) \subseteq Ahead(d) /\ Ahead(d) \subseteq AsGood(d) /\ AsGood(d) \subseteq roomy
        BY <1>1 DEF Before
    <2>2. Cardinality(AsGood(d)) < 2 \/ Cardinality(Better(d)) >= 2
        BY DEF Settled
    <2> HIDE DEF roomy, Ahead, AsGood, Better
    <2>3. IsFiniteSet(AsGood(d)) /\ IsFiniteSet(Ahead(d)) /\ IsFiniteSet(Better(d))
        BY <1>1, <2>1, FS_Subset
    <2>4. /\ Cardinality(Better(d)) <= Cardinality(Ahead(d))
          /\ Cardinality(Ahead(d)) <= Cardinality(AsGood(d))
        BY <2>1, <2>3, FS_Subset
    <2>5. /\ Cardinality(Better(d)) \in Nat /\ Cardinality(Ahead(d)) \in Nat
          /\ Cardinality(AsGood(d)) \in Nat
        BY <2>3, FS_CardinalityType
    <2> QED BY <2>2, <2>4, <2>5
<1>3. /\ FirstTwo(disks, score, order, free, size) = {d \in roomy : Cardinality(Ahead(d)) < 2}
      /\ Firsts(disks, score, free, size) = {d \in roomy : Cardinality(AsGood(d)) < 2}
    BY DEF FirstTwo, Firsts
<1> HIDE DEF roomy, Ahead, AsGood
<1> QED BY <1>2, <1>3

\* The two steps of the allocation, and what it returns.
OnZfs(b, nic, order, s) ==
    FirstTwo(GetDisks(b), [d \in GetDisks(b) |-> ZfsScore(b[d].kind, nic)], order,
             Left(b, OsDisks(b, order, VgSize), VgSize), s)

Rest(b, onOs, onZfs, s) ==
    LET rest == [d \in GetDisks(b) |->
                    Left(b, onOs, VgSize)[d] - (IF d \in onZfs THEN s ELSE 0)]
    IN [d \in GetDisks(b) |-> IF rest[d] < CephMin THEN 0 ELSE rest[d]]

LEMMA AllocateIs ==
    ASSUME NEW b, NEW nic, NEW order, NEW s
    PROVE  LET onOs == OsDisks(b, order, VgSize)
               onZfs == OnZfs(b, nic, order, s)
           IN Allocate(b, nic, order, VgSize, s) =
                IF Cardinality(onOs) # 2 \/ Cardinality(onZfs) # 2 THEN NoPlan
                ELSE [ok |-> TRUE, os |-> onOs, zfs |-> onZfs, size |-> s,
                      ceph |-> Rest(b, onOs, onZfs, s)]
BY Zenon DEF Allocate, OnZfs, Rest

\* On a box without competing disks, the names have no say in the plan.
LEMMA SettledPlan ==
    ASSUME NEW nic \in BOOLEAN, NEW b \in Untied[nic], NEW o1 \in Orders, NEW o2 \in Orders
    PROVE  /\ OsDisks(b, o1, VgSize) = OsDisks(b, o2, VgSize)
           /\ \A s \in Sizes :
                Allocate(b, nic, o1, VgSize, s) = Allocate(b, nic, o2, VgSize, s)
<1> DEFINE disks == GetDisks(b)
           byOs == [d \in disks |-> OsScore(b[d].kind)]
           byZfs == [d \in disks |-> ZfsScore(b[d].kind, nic)]
           free == [d \in disks |-> b[d].size]
           left(o) == Left(b, OsDisks(b, o, VgSize), VgSize)
<1>1. /\ b \in Boxes /\ Settled(disks, byOs, free, VgSize)
      /\ \A o \in Orders, s \in Sizes : Settled(disks, byZfs, left(o), s)
    BY DEF Untied
<1>2. disks \subseteq DOMAIN b /\ IsFiniteSet(disks)
    BY <1>1, BoxesAssumption, FS_Subset DEF GetDisks
<1>3. \A o \in Orders, d \in disks : o[d] \in Nat
    BY <1>1, <1>2, BoxesAssumption
<1>4. \A d \in disks : byOs[d] \in Nat /\ byZfs[d] \in Nat
    BY DEF OsScore, ZfsScore
<1>5. /\ OsDisks(b, o1, VgSize) = FirstTwo(disks, byOs, o1, free, VgSize)
      /\ OsDisks(b, o2, VgSize) = FirstTwo(disks, byOs, o2, free, VgSize)
      /\ \A s : OnZfs(b, nic, o1, s) = FirstTwo(disks, byZfs, o1, left(o1), s)
      /\ \A s : OnZfs(b, nic, o2, s) = FirstTwo(disks, byZfs, o2, left(o2), s)
    BY Zenon DEF OsDisks, OnZfs
<1> HIDE DEF disks, byOs, byZfs, free
<1>6. OsDisks(b, o1, VgSize) = OsDisks(b, o2, VgSize)
    BY <1>1, <1>2, <1>3, <1>4, <1>5, FirstTwoSettled
<1>7. ASSUME NEW s \in Sizes PROVE OnZfs(b, nic, o1, s) = OnZfs(b, nic, o2, s)
    <2> DEFINE l == left(o1)
    <2>1. l = left(o2) /\ Settled(disks, byZfs, l, s)
        BY <1>1, <1>6
    <2>2. /\ OnZfs(b, nic, o1, s) = FirstTwo(disks, byZfs, o1, l, s)
          /\ OnZfs(b, nic, o2, s) = FirstTwo(disks, byZfs, o2, l, s)
        BY <1>5, <2>1
    <2> HIDE DEF l
    <2> QED BY <1>2, <1>3, <1>4, <2>1, <2>2, FirstTwoSettled
<1>8. ASSUME NEW s \in Sizes
      PROVE  Allocate(b, nic, o1, VgSize, s) = Allocate(b, nic, o2, VgSize, s)
    <2> DEFINE Plan(onOs, onZfs) ==
                  IF Cardinality(onOs) # 2 \/ Cardinality(onZfs) # 2 THEN NoPlan
                  ELSE [ok |-> TRUE, os |-> onOs, zfs |-> onZfs, size |-> s,
                        ceph |-> Rest(b, onOs, onZfs, s)]
    <2>1. /\ Allocate(b, nic, o1, VgSize, s) = Plan(OsDisks(b, o1, VgSize), OnZfs(b, nic, o1, s))
          /\ Allocate(b, nic, o2, VgSize, s) = Plan(OsDisks(b, o2, VgSize), OnZfs(b, nic, o2, s))
        BY AllocateIs, Zenon
    <2> HIDE DEF Plan
    <2> QED BY <1>6, <1>7, <2>1, Zenon
<1> QED BY <1>6, <1>8

LEMMA PlanFacts ==
    ASSUME NEW h \in Hosts, NEW s
    PROVE  /\ PlanFor(h, s).ok \in BOOLEAN
           /\ PlanFor(h, s).ok => GoodPlan(h, PlanFor(h, s), s) /\ PlanFor(h, s).os = OsOf(h)
           /\ ~PlanFor(h, s).ok => PlanFor(h, s) = NoPlan
<1> DEFINE onOs == OsOf(h)
           onZfs == OnZfs(box[h], fast[h], rank[h], s)
           good == [ok |-> TRUE, os |-> onOs, zfs |-> onZfs, size |-> s,
                    ceph |-> Rest(box[h], onOs, onZfs, s)]
<1>1. PlanFor(h, s) = IF Cardinality(onOs) # 2 \/ Cardinality(onZfs) # 2 THEN NoPlan ELSE good
    BY AllocateIs, Zenon DEF PlanFor, OsOf
<1>2. good.ok = TRUE /\ good.os = onOs /\ good.zfs = onZfs /\ good.size = s
    OBVIOUS
<1>3. NoPlan.ok = FALSE
    BY DEF NoPlan
<1>4. onZfs \subseteq GetDisks(box[h])
    BY DEF OnZfs, FirstTwo
<1> HIDE DEF good, onOs, onZfs
<1> QED BY <1>1, <1>2, <1>3, <1>4 DEF GoodPlan, onOs

LEMMA GoodPlanFacts ==
    ASSUME NEW h \in Hosts, NEW p, NEW s, GoodPlan(h, p, s)
    PROVE  p # NoPlan /\ p.zfs # {} /\ p.size = s
<1>1. Cardinality({}) = 0
    BY FS_EmptySet
<1> QED BY <1>1 DEF GoodPlan, NoPlan

LEMMA SizesPositive == \A s \in Sizes : s \in Nat /\ s # 0
BY SizesAssumption DEF Sizes, OrDefault

---------------------------------------------------------------------------
(* What stays. *)

LEMMA HardStep ==
    ASSUME HardInv, [Next]_vars
    PROVE  HardInv' /\ UNCHANGED hardware /\ \A h \in Hosts : h \notin Renames => rank'[h] = rank[h]
<1>1. UNCHANGED hardware
    BY DEF Next, vars, hardware, Parse, Scan, Approve, Persist, Render, Rerun, Machine, Install,
           PlanOnNode, Carve, Pool, ScriptBreaks, Reprovision
<1>2. CASE rank' = rank
    BY <1>1, <1>2 DEF HardInv, hardware
<1>3. ASSUME NEW h \in Hosts, Boot(h) PROVE HardInv' /\ \A k \in Hosts : k \notin Renames => rank'[k] = rank[k]
    BY <1>1, <1>3 DEF HardInv, hardware, Boot
<1>4. rank' = rank \/ \E h \in Hosts : Boot(h)
    BY DEF Next, vars, Parse, Scan, Approve, Persist, Render, Rerun, Machine, Install,
           PlanOnNode, Carve, Pool, ScriptBreaks, Reprovision
<1> QED BY <1>1, <1>2, <1>3, <1>4

\* Whatever a boot does to the names, a steady host is planned as before.
LEMMA SteadyStays ==
    ASSUME HardInv, [Next]_vars, NEW h \in Hosts
    PROVE  /\ Steady(h)' <=> Steady(h)
           /\ box'[h] = box[h] /\ fast'[h] = fast[h]
           /\ Steady(h) => /\ OsOf(h)' = OsOf(h)
                           /\ \A s \in Sizes : PlanFor(h, s)' = PlanFor(h, s)
<1>1. /\ HardInv' /\ box' = box /\ fast' = fast
      /\ h \notin Renames => rank'[h] = rank[h]
    BY HardStep DEF hardware
<1>2. Steady(h)' <=> Steady(h)
    BY <1>1 DEF Steady
<1>3. CASE h \notin Renames
    BY <1>1, <1>2, <1>3 DEF OsOf, PlanFor
<1>4. CASE Steady(h) /\ h \in Renames
    <2>1. box[h] \in Untied[fast[h]] /\ fast[h] \in BOOLEAN
        BY <1>4 DEF Steady, HardInv
    <2>2. rank[h] \in Orders /\ rank'[h] \in Orders
        BY <1>1 DEF HardInv
    <2>3. /\ OsDisks(box[h], rank[h], VgSize) = OsDisks(box[h], rank'[h], VgSize)
          /\ \A s \in Sizes : Allocate(box[h], fast[h], rank[h], VgSize, s)
                                = Allocate(box[h], fast[h], rank'[h], VgSize, s)
        BY <2>1, <2>2, SettledPlan
    <2> QED BY <1>1, <1>2, <2>3 DEF OsOf, PlanFor
<1>5. CASE ~Steady(h)
    BY <1>1, <1>2, <1>5
<1> QED BY <1>3, <1>4, <1>5

\* An approval writes into the file the size that was read from it.
LEMMA PoolSizeStays ==
    ASSUME SizeInv, [Next]_vars
    PROVE  PoolSize' = PoolSize
<1>1. CASE Persist
    <2>1. file'.top = PoolSize /\ PoolSize \in Nat /\ PoolSize # 0
        BY <1>1, SizesPositive DEF Persist, SizeInv
    <2> HIDE DEF PoolSize
    <2>2. OrDefault(file'.top) = PoolSize
        BY <2>1 DEF OrDefault
    <2> QED BY <2>2 DEF PoolSize
<1>2. CASE ~Persist
    <2>1. file' = file
        BY <1>2 DEF Next, vars, cli, Parse, Scan, Approve, Render, Rerun, Machine, Install,
               PlanOnNode, Carve, Pool, ScriptBreaks, Reprovision
    <2> QED BY <2>1 DEF PoolSize
<1> QED BY <1>1, <1>2

\* A plan that either side made stays what it was, and so does what it asks for.
LEMMA PlansStay ==
    ASSUME HardInv, [Next]_vars, NEW h \in Hosts, NEW p, NEW s \in Sizes, PlanIs(h, p, s)
    PROVE  PlanIs(h, p, s)' /\ PoolKinds(box[h], p)' = PoolKinds(box[h], p)
BY SteadyStays DEF PlanIs, GoodPlan

LEMMA MachineIsApart ==
    ASSUME NEW h \in Hosts, Machine(h)
    PROVE  UNCHANGED <<hardware, cli>>
BY DEF Machine, Install, PlanOnNode, Carve, Pool, ScriptBreaks, Reprovision

---------------------------------------------------------------------------
(* The steps. *)

LEMMA PlanInit == Init => PlanInv
<1> SUFFICES ASSUME Init PROVE PlanInv
    OBVIOUS
<1>1. HardInv
    BY DEF Init, HardInv
<1>2. SizeInv
    BY DEF Init, SizeInv, PoolSize, Sizes
<1>3. ScanInv
    BY DEF Init, ScanInv
<1>4. ValuesInv
    BY DEF Init, ValuesInv
<1>5. NodeInv
    BY DEF Init, NodeInv, HostInv
<1> QED BY <1>1, <1>2, <1>3, <1>4, <1>5 DEF PlanInv

LEMMA SizeStep == PlanInv /\ [Next]_vars => SizeInv'
<1> SUFFICES ASSUME PlanInv, [Next]_vars PROVE SizeInv'
    OBVIOUS
<1>0. SizeInv /\ PoolSize' = PoolSize /\ PoolSize \in Nat /\ PoolSize # 0
    BY PoolSizeStays, SizesPositive DEF PlanInv, SizeInv
<1>1. CASE Parse
    <2>1. /\ file' = file /\ values' = values /\ stage' = "scan" /\ mem'.top = PoolSize
          /\ \A g \in Groups : mem'.own[g] = OrDefault(file.own[g])
        BY <1>1 DEF Parse, PoolSize
    <2> HIDE DEF PoolSize
    <2> QED BY <1>0, <2>1 DEF SizeInv, Even
<1>2. CASE Persist
    <2>1. /\ file'.top = PoolSize /\ \A g \in Groups : file'.own[g] = PoolSize
          /\ UNCHANGED <<mem, values>> /\ stage = "persist" /\ stage' = "render"
        BY <1>0, <1>2 DEF Persist, SizeInv
    <2>2. Even'
        BY <1>0, <2>1 DEF Even, OrDefault
    <2>3. \A g \in Groups : OrDefault(file'.own[g]) = PoolSize
        BY <1>0, <2>2 DEF Even
    <2> HIDE DEF PoolSize
    <2> QED BY <1>0, <2>1, <2>2, <2>3 DEF SizeInv
<1>3. CASE Render
    <2>1. UNCHANGED <<file, mem>> /\ stage = "render" /\ stage' = "done"
        BY <1>3 DEF Render
    <2> QED BY <1>0, <2>1 DEF SizeInv, Even
<1>4. CASE ~Parse /\ ~Persist /\ ~Render
    <2>1. /\ UNCHANGED <<file, mem, values>>
          /\ stage' # "idle" => stage # "idle"
          /\ stage' = "render" => stage = "render"
          /\ stage' \in {"scan", "ask", "persist", "render"} =>
                stage \in {"scan", "ask", "persist", "render"}
        BY <1>4, MachineIsApart DEF Next, vars, cli, Scan, Approve, Rerun
    <2> QED BY <1>0, <2>1 DEF SizeInv, Even
<1> QED BY <1>1, <1>2, <1>3, <1>4

LEMMA LessThan == \E R : IsWellFoundedOn(R, Nat) /\ \A n, m \in Nat : m < n => <<m, n>> \in R
<1>1. \A n, m \in Nat : m < n => <<m, n>> \in OpToRel(<, Nat)
    BY DEF OpToRel
<1> QED BY <1>1, NatLessThanWellFounded, Zenon

LEMMA LeastNat ==
    ASSUME NEW T \in SUBSET Nat, T # {}
    PROVE  \E n \in T : \A m \in T : n <= m
<1>1. PICK R : IsWellFoundedOn(R, Nat) /\ \A n, m \in Nat : m < n => <<m, n>> \in R
    BY LessThan
<1>2. PICK n \in T : \A m \in T : ~(<<m, n>> \in R)
    BY <1>1, WFMin, Zenon
<1>3. \A m \in T : ~(m < n)
    BY <1>1, <1>2, Zenon
<1> QED BY <1>3

LEMMA HostIndex ==
    /\ DOMAIN HostSeq = 1 .. Len(HostSeq) /\ Len(HostSeq) \in Nat
    /\ \A h \in Hosts : \E i \in 1 .. Len(HostSeq) : HostSeq[i] = h
    /\ \A i \in 1 .. Len(HostSeq) : HostSeq[i] \in Hosts /\ GroupOf[HostSeq[i]] \in Groups
    /\ \A h \in Hosts : GroupOf[h] \in Groups
    /\ \A g \in Groups : \E i \in 1 .. Len(HostSeq) : GroupOf[HostSeq[i]] = g
<1>1. DOMAIN HostSeq = 1 .. Len(HostSeq) /\ Len(HostSeq) \in Nat
    BY HostsAssumption
<1>2. \A h \in Hosts : \E i \in 1 .. Len(HostSeq) : HostSeq[i] = h
    BY <1>1 DEF Hosts
<1> QED BY <1>1, <1>2 DEF Hosts, Groups

\* The host that speaks for a group is one of its hosts.
LEMMA FirstInGroup ==
    ASSUME NEW g \in Groups
    PROVE  First(g) \in Hosts /\ GroupOf[First(g)] = g
<1> DEFINE T == {i \in 1 .. Len(HostSeq) : GroupOf[HostSeq[i]] = g}
           IsFirst(i) == GroupOf[HostSeq[i]] = g /\ \A j \in 1 .. i - 1 : GroupOf[HostSeq[j]] # g
<1>1. T \in SUBSET Nat /\ T # {}
    BY HostIndex
<1>2. PICK i \in T : \A j \in T : i <= j
    <2> HIDE DEF T
    <2> QED BY <1>1, LeastNat
<1>3. i \in DOMAIN HostSeq /\ IsFirst(i)
    BY <1>2, HostIndex
<1>4. \E k \in DOMAIN HostSeq : IsFirst(k) /\ First(g) = HostSeq[k]
    <2> DEFINE k == CHOOSE k \in DOMAIN HostSeq : IsFirst(k)
    <2>1. k \in DOMAIN HostSeq /\ IsFirst(k)
        BY <1>3
    <2>2. First(g) = HostSeq[k]
        BY DEF First
    <2> QED BY <2>1, <2>2
<1> QED BY <1>4, HostIndex

\* And it has a last host, after which the group is compared.
LEMMA LastInGroup ==
    ASSUME NEW g \in Groups
    PROVE  \E i \in 1 .. Len(HostSeq) : GroupOf[HostSeq[i]] = g /\ LastOfGroup(i)
<1> DEFINE n == Len(HostSeq)
           T == {n - i : i \in {i \in 1 .. n : GroupOf[HostSeq[i]] = g}}
<1>1. T \in SUBSET Nat /\ T # {}
    BY HostIndex
<1>2. PICK m \in T : \A k \in T : m <= k
    <2> HIDE DEF T
    <2> QED BY <1>1, LeastNat
<1>3. PICK i \in 1 .. n : m = n - i /\ GroupOf[HostSeq[i]] = g
    BY <1>2
<1>4. \A j \in 1 .. n : GroupOf[HostSeq[j]] = g => n - i <= n - j
    BY <1>2, <1>3
<1>5. LastOfGroup(i)
    BY <1>3, <1>4, HostIndex DEF LastOfGroup
<1> QED BY <1>3, <1>5

\* The plans of this run, and what was compared, stay; a scanned group is not scanned again.
LEMMA ScanStep == PlanInv /\ [Next]_vars => ScanInv'
<1> SUFFICES ASSUME PlanInv, [Next]_vars PROVE ScanInv'
    OBVIOUS
<1>0. /\ ScanInv /\ SizeInv /\ HardInv /\ UNCHANGED hardware
      /\ PoolSize' = PoolSize /\ PoolSize \in Sizes
    BY PoolSizeStays, HardStep DEF PlanInv, SizeInv
<1>1. CASE Parse
    <2>1. plans' = [h \in Hosts |-> NoPlan] /\ stage' = "scan"
        BY <1>1 DEF Parse
    <2> QED BY <2>1, HostIndex DEF ScanInv
<1>2. CASE Scan
    <2>1. PICK i \in DOMAIN HostSeq :
            LET h == HostSeq[i]
                p == Allocate(box[h], fast[h], rank[h], VgSize, mem.top)
                seen == [plans EXCEPT ![h] = p]
                groupDone == i = Len(HostSeq) \/ GroupOf[HostSeq[i + 1]] # GroupOf[h]
            IN /\ plans[h] = NoPlan /\ \A j \in 1 .. i - 1 : plans[HostSeq[j]] # NoPlan
               /\ plans' = seen
               /\ stage' = IF ~p.ok \/ (groupDone /\ ~Alike(GroupOf[h], seen)) THEN "failed"
                           ELSE IF i = Len(HostSeq) THEN "ask" ELSE "scan"
        BY <1>2, Zenon DEF Scan
    <2> DEFINE h == HostSeq[i]
               p == PlanFor(h, PoolSize)
    <2>2. stage = "scan" /\ mem.top = PoolSize
        BY <1>0, <1>2 DEF Scan, SizeInv
    <2>3. Allocate(box[h], fast[h], rank[h], VgSize, mem.top) = p
        BY <2>2 DEF PlanFor
    <2>4. /\ plans' = [plans EXCEPT ![h] = p] /\ plans[h] = NoPlan
          /\ \A j \in 1 .. i - 1 : plans[HostSeq[j]] # NoPlan
          /\ stage' \in {"failed", "ask", "scan"}
          /\ stage' = "ask" <=> (stage' # "failed" /\ i = Len(HostSeq))
          /\ stage' # "failed" =>
                /\ p.ok
                /\ i = Len(HostSeq) \/ GroupOf[HostSeq[i + 1]] # GroupOf[h] =>
                      Alike(GroupOf[h], plans')
        BY <2>1, <2>3
    <2>5. h \in Hosts /\ i \in 1 .. Len(HostSeq) /\ Len(HostSeq) \in Nat
        BY HostIndex
    <2>6. p = NoPlan \/ PlanIs(h, p, PoolSize)
        BY <2>5, PlanFacts DEF PlanIs
    <2>7. stage' # "failed" => p # NoPlan
        BY <2>4, <2>5, PlanFacts, GoodPlanFacts
    <2> HIDE DEF p
    <2>8. /\ DOMAIN plans' = Hosts
          /\ \A k \in Hosts : plans'[k] = IF k = h THEN p ELSE plans[k]
        BY <1>0, <2>4, <2>5 DEF ScanInv
    <2>9. \A k \in Hosts : plans'[k] = NoPlan \/ (PlanIs(k, plans[k], PoolSize))'
        <3> SUFFICES ASSUME NEW k \in Hosts, plans'[k] # NoPlan
                     PROVE  (PlanIs(k, plans[k], PoolSize))'
            OBVIOUS
        <3>1. PlanIs(k, plans'[k], PoolSize)
            BY <1>0, <2>6, <2>8 DEF ScanInv
        <3> QED BY <1>0, <3>1, PlansStay DEF PlanIs, GoodPlan
    \* The plans made so far are the first ones, and every finished group's hosts are alike.
    <2>10. ASSUME stage' # "failed", NEW j \in 1 .. Len(HostSeq), plans'[HostSeq[j]] # NoPlan
           PROVE  /\ \A l \in 1 .. j - 1 : plans'[HostSeq[l]] # NoPlan
                  /\ LastOfGroup(j) => Alike(GroupOf[HostSeq[j]], plans')
        <3>1. CASE j = i
            <4>1. \A l \in 1 .. j - 1 : plans'[HostSeq[l]] # NoPlan
                BY <3>1, <2>4, <2>5, <2>7, <2>8, <2>10, HostIndex
            <4>2. ASSUME LastOfGroup(j) PROVE i = Len(HostSeq) \/ GroupOf[HostSeq[i + 1]] # GroupOf[h]
                BY <3>1, <4>2, <2>5, HostIndex DEF LastOfGroup
            <4> QED BY <3>1, <4>1, <4>2, <2>4, <2>10
        <3>2. CASE j # i
            <4>1. HostSeq[j] # h
                BY <3>2, <2>5, HostsAssumption, HostIndex
            <4>2. plans[HostSeq[j]] # NoPlan
                BY <4>1, <2>8, <2>10, HostIndex
            <4>3. /\ \A l \in 1 .. j - 1 : plans[HostSeq[l]] # NoPlan
                  /\ LastOfGroup(j) => Alike(GroupOf[HostSeq[j]], plans)
                BY <1>0, <2>2, <4>2, HostIndex DEF ScanInv
            <4>4. j < i
                BY <2>4, <2>5, <3>2, <4>3
            <4>5. \A l \in 1 .. j - 1 : plans'[HostSeq[l]] # NoPlan
                BY <4>3, <2>7, <2>8, <2>10, HostIndex
            <4>6. ASSUME LastOfGroup(j) PROVE Alike(GroupOf[HostSeq[j]], plans')
                <5>1. GroupOf[h] # GroupOf[HostSeq[j]]
                    BY <4>4, <4>6, <2>5, HostIndex DEF LastOfGroup
                <5>2. \A k \in Hosts : GroupOf[k] = GroupOf[HostSeq[j]] => plans'[k] = plans[k]
                    BY <5>1, <2>8
                <5> QED BY <4>3, <4>6, <5>2 DEF Alike
            <4> QED BY <4>5, <4>6
        <3> QED BY <3>1, <3>2
    <2>11. ASSUME stage' = "ask"
           PROVE  (\A k \in Hosts : plans'[k] # NoPlan) /\ \A g \in Groups : Alike(g, plans')
        <3>1. \A j \in 1 .. Len(HostSeq) : plans'[HostSeq[j]] # NoPlan
            <4>1. \A j \in 1 .. Len(HostSeq) : j \in 1 .. i - 1 \/ j = i
                BY <2>4, <2>5, <2>11
            <4> QED BY <4>1, <2>4, <2>7, <2>8, <2>11, HostIndex
        <3>2. \A g \in Groups : Alike(g, plans')
            BY <3>1, <2>10, <2>11, LastInGroup
        <3> QED BY <3>1, <3>2, HostIndex
    <2>12. \A g : Alike(g, plans') <=> Alike(g, plans)'
        BY <1>0 DEF Alike, PoolKinds, hardware
    <2> QED BY <1>0, <2>4, <2>8, <2>9, <2>10, <2>11, <2>12, HostIndex DEF ScanInv
<1>3. CASE ~Parse /\ ~Scan
    <2>1. /\ plans' = plans
          /\ stage' = "scan" => stage = "scan"
          /\ stage' \in {"ask", "persist", "render"} => stage \in {"ask", "persist", "render"}
        BY <1>3, MachineIsApart DEF Next, vars, cli, Approve, Persist, Render, Rerun
    <2>2. \A h \in Hosts : plans'[h] = NoPlan \/ (PlanIs(h, plans[h], PoolSize))'
        <3> SUFFICES ASSUME NEW k \in Hosts, plans[k] # NoPlan
                     PROVE  (PlanIs(k, plans[k], PoolSize))'
            BY <2>1
        <3>1. PlanIs(k, plans[k], PoolSize)
            BY <1>0 DEF ScanInv
        <3> QED BY <1>0, <2>1, <3>1, PlansStay DEF PlanIs, GoodPlan
    <2>3. \A g : Alike(g, plans)' <=> Alike(g, plans)
        BY <1>0, <2>1 DEF Alike, PoolKinds, hardware
    <2> QED BY <1>0, <2>1, <2>2, <2>3, HostIndex DEF ScanInv
<1> QED BY <1>1, <1>2, <1>3

\* The disk whose kind labels the group is in the pool of the group's first host.
LEMMA FirstZfsInPool ==
    ASSUME NEW h \in Hosts, IsFiniteSet(DOMAIN box[h]), NEW p, NEW s, GoodPlan(h, p, s)
    PROVE  IsFiniteSet(p.zfs) /\ FirstZfs(h, p) \in p.zfs
<1> DEFINE zfs == p.zfs
           Score(d) == ZfsScore(box[h][d].kind, fast[h])
           IsBest(d) == \A c \in zfs \ {d} : Score(d) >= Score(c)
<1>1. Cardinality(zfs) = 2 /\ zfs \subseteq DOMAIN box[h]
    BY DEF GoodPlan, GetDisks
<1>2. IsFiniteSet(zfs)
    BY <1>1, FS_Subset
<1>3. PICK a \in zfs : zfs # {}
    BY <1>1, <1>2, FS_EmptySet
<1>4. IsFiniteSet(zfs \ {a}) /\ Cardinality(zfs \ {a}) = 1
    <2> HIDE DEF zfs
    <2> QED BY <1>1, <1>2, <1>3, FS_RemoveElement
<1>5. PICK b : zfs \ {a} = {b}
    <2> HIDE DEF zfs
    <2> QED BY <1>4, FS_Singleton
<1>6. \A d : Score(d) \in Int
    BY DEF ZfsScore
<1>7. \E d \in zfs : IsBest(d)
    <2> HIDE DEF Score, zfs
    <2>1. Score(a) >= Score(b) => IsBest(a)
        BY <1>3, <1>5
    <2>2. Score(b) >= Score(a) => IsBest(b)
        BY <1>3, <1>5
    <2> QED BY <2>1, <2>2, <1>3, <1>5, <1>6
<1>8. FirstZfs(h, p) = CHOOSE d \in zfs : IsBest(d)
    BY DEF FirstZfs
<1> HIDE DEF IsBest, zfs
<1> QED BY <1>2, <1>7, <1>8 DEF zfs

\* Where the pools of two hosts are alike, the label of one is right for the other.
LEMMA NvmeAlike ==
    ASSUME HardInv, NEW f \in Hosts, NEW h \in Hosts, NEW p, NEW q, NEW s,
           GoodPlan(f, p, s), GoodPlan(h, q, s), PoolKinds(box[f], p) = PoolKinds(box[h], q),
           box[f][FirstZfs(f, p)].kind = "NVMe"
    PROVE  HasNvme(h, q)
<1> DEFINE Nvme(k, plan) == {d \in plan.zfs : box[k][d].kind = "NVMe"}
<1>1. IsFiniteSet(DOMAIN box[f]) /\ IsFiniteSet(DOMAIN box[h])
    BY BoxesAssumption DEF HardInv
<1>2. FirstZfs(f, p) \in p.zfs /\ IsFiniteSet(p.zfs) /\ IsFiniteSet(q.zfs)
    BY <1>1, FirstZfsInPool
<1>3. IsFiniteSet(Nvme(f, p)) /\ IsFiniteSet(Nvme(h, q))
    BY <1>2, FS_Subset
<1>4. Cardinality(Nvme(f, p)) # 0
    BY <1>2, <1>3, FS_EmptySet
<1>5. Cardinality(Nvme(f, p)) = Cardinality(Nvme(h, q))
    <2>1. "NVMe" \in Kinds
        BY DEF Kinds
    <2>2. /\ PoolKinds(box[f], p)["NVMe"] = Cardinality(Nvme(f, p))
          /\ PoolKinds(box[h], q)["NVMe"] = Cardinality(Nvme(h, q))
        BY <2>1 DEF PoolKinds
    <2> QED BY <2>2
<1>6. Nvme(h, q) # {}
    BY <1>3, <1>4, <1>5, FS_EmptySet
<1> QED BY <1>6 DEF HasNvme

LEMMA ApprovedStays ==
    ASSUME PlanInv, [Next]_vars, Approved, UNCHANGED <<approved, shown>>
    PROVE  Approved'
<1>0. HardInv /\ PoolSize' = PoolSize /\ PoolSize \in Sizes
    BY PoolSizeStays DEF PlanInv, SizeInv
<1> SUFFICES ASSUME NEW h \in Hosts
             PROVE  /\ (PlanIs(h, approved[h], PoolSize))'
                    /\ (shown[GroupOf[h]].size = PoolSize)'
                    /\ Steady(h)' => (shown[GroupOf[h]].pool = PoolKinds(box[h], PlanFor(h, PoolSize)))'
    BY DEF Approved
<1>1. /\ PlanIs(h, approved[h], PoolSize) /\ shown[GroupOf[h]].size = PoolSize
      /\ Steady(h) => shown[GroupOf[h]].pool = PoolKinds(box[h], PlanFor(h, PoolSize))
    BY DEF Approved
<1>2. (PlanIs(h, approved[h], PoolSize))'
    BY <1>0, <1>1, PlansStay DEF PlanIs, GoodPlan
<1>3. Steady(h)' => (PoolKinds(box[h], PlanFor(h, PoolSize)))' = PoolKinds(box[h], PlanFor(h, PoolSize))
    BY <1>0, SteadyStays DEF PoolKinds
<1> QED BY <1>0, <1>1, <1>2, <1>3, SteadyStays

\* Saying yes approves the plans of this run, which are those of every earlier run.
LEMMA ApproveApproves ==
    ASSUME PlanInv, [Next]_vars, Approve, approved' = plans, shown' = [g \in Groups |-> Rows(g)]
    PROVE  Approved' /\ DOMAIN approved' = Hosts
<1>0. /\ HardInv /\ UNCHANGED hardware /\ ScanInv /\ stage = "ask" /\ plans' = plans
      /\ PoolSize' = PoolSize /\ PoolSize \in Sizes
    BY PoolSizeStays, HardStep DEF PlanInv, SizeInv, Approve
<1> SUFFICES ASSUME NEW h \in Hosts
             PROVE  /\ (PlanIs(h, approved[h], PoolSize))'
                    /\ (shown[GroupOf[h]].size = PoolSize)'
                    /\ Steady(h)' => (shown[GroupOf[h]].pool = PoolKinds(box[h], PlanFor(h, PoolSize)))'
    BY <1>0 DEF Approved, ScanInv
<1> DEFINE g == GroupOf[h]
           f == First(g)
<1>1. g \in Groups /\ f \in Hosts /\ GroupOf[f] = g
    BY HostIndex, FirstInGroup
<1>2. PlanIs(h, plans[h], PoolSize) /\ PlanIs(f, plans[f], PoolSize) /\ Alike(g, plans)
    BY <1>0, <1>1 DEF ScanInv
<1>3. shown'[g] = Rows(g) /\ Rows(g).pool = PoolKinds(box[f], plans[f]) /\ Rows(g).size = plans[f].size
    BY <1>1 DEF Rows
<1>4. plans[f].size = PoolSize
    BY <1>2 DEF PlanIs, GoodPlan
<1>5. PoolKinds(box[h], plans[h]) = PoolKinds(box[f], plans[f])
    BY <1>1, <1>2 DEF Alike
<1>6. (PlanIs(h, approved[h], PoolSize))'
    BY <1>0, <1>2, PlansStay DEF PlanIs, GoodPlan
<1>7. ASSUME Steady(h) PROVE (PoolKinds(box[h], PlanFor(h, PoolSize)))' = PoolKinds(box[h], plans[h])
    <2>1. plans[h] = PlanFor(h, PoolSize) /\ PlanFor(h, PoolSize)' = PlanFor(h, PoolSize)
        BY <1>0, <1>2, <1>7, SteadyStays DEF PlanIs
    <2> QED BY <1>0, <2>1 DEF PoolKinds, hardware
<1> QED BY <1>0, <1>3, <1>4, <1>5, <1>6, <1>7, SteadyStays

\* What is rendered is right for every steady host of a group, though the label is read
\* off the plan of the group's first host, which may be another one after a boot.
LEMMA RenderIsRight ==
    ASSUME PlanInv, [Next]_vars, Render, NEW h \in Hosts
    PROVE  /\ values'.size[GroupOf[h]] \in Sizes
           /\ Steady(h) =>
                 /\ values'.hints[h] = OsOf(h) /\ Cardinality(OsOf(h)) = 2
                 /\ values'.nvme[GroupOf[h]] => HasNvme(h, PlanFor(h, PoolSize))
<1> DEFINE g == GroupOf[h]
           f == First(g)
<1>1. g \in Groups /\ f \in Hosts /\ GroupOf[f] = g
    BY HostIndex, FirstInGroup
<1>2. /\ values' = [size |-> mem.own, hints |-> [k \in Hosts |-> plans[k].os],
                    nvme |-> [k \in Groups |-> Labelled(k)]]
      /\ stage = "render"
    BY DEF Render
<1>3. mem.own[g] \in Sizes
    BY <1>1, <1>2 DEF PlanInv, SizeInv
<1>4. PlanIs(h, plans[h], PoolSize) /\ PlanIs(f, plans[f], PoolSize) /\ Alike(g, plans)
    BY <1>1, <1>2 DEF PlanInv, ScanInv
<1>5. ASSUME Steady(h) PROVE plans[h].os = OsOf(h) /\ Cardinality(OsOf(h)) = 2
    BY <1>4, <1>5, PlanFacts DEF PlanIs, GoodPlan
<1>6. ASSUME Steady(h), Labelled(g) PROVE HasNvme(h, PlanFor(h, PoolSize))
    <2>1. PoolKinds(box[f], plans[f]) = PoolKinds(box[h], plans[h])
        BY <1>1, <1>4 DEF Alike
    <2>2. box[f][FirstZfs(f, plans[f])].kind = "NVMe"
        BY <1>6 DEF Labelled
    <2>3. HasNvme(h, plans[h])
        BY <1>1, <1>4, <2>1, <2>2, NvmeAlike DEF PlanIs, PlanInv
    <2> QED BY <1>4, <1>6, <2>3 DEF PlanIs
<1> QED BY <1>1, <1>2, <1>3, <1>5, <1>6

LEMMA ValuesStep == PlanInv /\ [Next]_vars => ValuesInv'
<1> SUFFICES ASSUME PlanInv, [Next]_vars PROVE ValuesInv'
    OBVIOUS
<1>0. /\ HardInv /\ ValuesInv /\ PoolSize' = PoolSize /\ PoolSize \in Sizes
    BY PoolSizeStays DEF PlanInv, SizeInv
<1>1. ASSUME NEW h \in Hosts
      PROVE  /\ Steady(h)' <=> Steady(h)
             /\ Steady(h) => /\ OsOf(h)' = OsOf(h)
                             /\ HasNvme(h, PlanFor(h, PoolSize))' <=> HasNvme(h, PlanFor(h, PoolSize))
    BY <1>0, SteadyStays DEF HasNvme
<1>2. CASE Approve
    <2>1. CASE stage' = "persist" /\ approved' = plans /\ shown' = [g \in Groups |-> Rows(g)]
        <3>1. Approved' /\ DOMAIN approved' = Hosts
            BY <1>2, <2>1, ApproveApproves
        <3>2. values' = values
            BY <1>2 DEF Approve
        <3> QED BY <1>0, <1>1, <3>1, <3>2 DEF ValuesInv
    <2>2. CASE stage' = "failed" /\ UNCHANGED <<approved, shown>>
        <3>1. values' = values /\ (Approved => Approved')
            BY <1>2, <2>2, ApprovedStays DEF Approve
        <3> QED BY <1>0, <1>1, <2>2, <3>1 DEF ValuesInv
    <2> QED BY <1>2, <2>1, <2>2 DEF Approve
<1>3. CASE Render
    <2>1. stage = "render" /\ UNCHANGED <<approved, shown>>
        BY <1>3 DEF Render
    <2>2. Approved /\ Approved'
        BY <1>0, <2>1, ApprovedStays DEF ValuesInv
    <2>3. ASSUME NEW h \in Hosts
          PROVE  /\ values'.size[GroupOf[h]] \in Sizes
                 /\ Steady(h)' =>
                      /\ values'.hints[h] = OsOf(h)' /\ Cardinality(OsOf(h)') = 2
                      /\ values'.nvme[GroupOf[h]] => HasNvme(h, PlanFor(h, PoolSize))'
        BY <1>1, <1>3, RenderIsRight
    <2> QED BY <1>0, <2>1, <2>2, <2>3 DEF ValuesInv
<1>4. CASE ~Approve /\ ~Render
    <2>1. /\ UNCHANGED <<approved, shown, values>>
          /\ stage' \in {"persist", "render"} => stage \in {"persist", "render"}
        BY <1>4, MachineIsApart, Zenon DEF Next, vars, cli, Parse, Scan, Persist, Rerun
    <2>2. Approved => Approved'
        BY <2>1, ApprovedStays
    <2> QED BY <1>0, <1>1, <2>1, <2>2 DEF ValuesInv
<1> QED BY <1>2, <1>3, <1>4

LEMMA NodePlanStays ==
    ASSUME HardInv, [Next]_vars, NEW h \in Hosts, NEW p, p.size \in Sizes, PlanIs(h, p, p.size),
           nplan'[h] = p
    PROVE  (PlanIs(h, nplan[h], nplan[h].size))'
<1>1. PICK s \in Sizes : s = p.size
    OBVIOUS
<1>2. PlanIs(h, p, s)'
    BY <1>1, PlansStay
<1> QED BY <1>1, <1>2 DEF PlanIs, GoodPlan

\* The values stay, or a second run renders the approved size for every group.
LEMMA ValuesStay ==
    ASSUME PlanInv, [Next]_vars, NEW h \in Hosts
    PROVE  /\ values # NoValues =>
                /\ values' # NoValues
                /\ values'.size[GroupOf[h]] \in {PoolSize, values.size[GroupOf[h]]}
<1>1. CASE Render /\ values # NoValues
    <2>1. /\ values' = [size |-> mem.own, hints |-> [k \in Hosts |-> plans[k].os],
                        nvme |-> [k \in Groups |-> Labelled(k)]]
          /\ stage = "render" /\ GroupOf[h] \in Groups
        BY <1>1, HostIndex DEF Render
    <2>2. values'.size[GroupOf[h]] = PoolSize
        BY <1>1, <2>1 DEF PlanInv, SizeInv
    <2>3. PoolSize # 0
        BY SizesPositive DEF PlanInv, SizeInv
    <2>4. NoValues.size[GroupOf[h]] = 0
        BY <2>1 DEF NoValues
    <2> QED BY <2>2, <2>3, <2>4
<1>2. CASE ~Render
    BY <1>2, MachineIsApart DEF Next, vars, cli, Parse, Scan, Approve, Persist, Rerun
<1> QED BY <1>1, <1>2

\* A step that is not the host's own leaves it as it was.
LEMMA HostStays ==
    ASSUME PlanInv, [Next]_vars, NEW h \in Hosts,
           node'[h] = node[h], nplan'[h] = nplan[h], pool'[h] = pool[h],
           os'[h] = os[h], todo'[h] = todo[h]
    PROVE  HostInv(h)'
<1>0. /\ HardInv /\ PoolSize' = PoolSize /\ PoolSize \in Sizes /\ HostInv(h)
      /\ NoPlan.size = 0 /\ NoPool.size = 0
    BY PoolSizeStays DEF PlanInv, SizeInv, NodeInv, NoPlan, NoPool
<1>1. /\ Steady(h)' <=> Steady(h)
      /\ Steady(h) => OsOf(h)' = OsOf(h) /\ \A s \in Sizes : PlanFor(h, s)' = PlanFor(h, s)
    BY <1>0, SteadyStays
<1>2. /\ values # NoValues =>
            values' # NoValues /\ values'.size[GroupOf[h]] \in {PoolSize, values.size[GroupOf[h]]}
      /\ values = NoValues => nplan[h] = NoPlan /\ pool[h] = NoPool
    BY <1>0, ValuesStay DEF HostInv
<1>3. ASSUME nplan[h] # NoPlan PROVE (PlanIs(h, nplan[h], nplan[h].size))'
    <2>1. PlanIs(h, nplan[h], nplan[h].size) /\ nplan[h].size \in Sizes
        BY <1>0, <1>3 DEF HostInv
    <2> QED BY <1>0, <2>1, NodePlanStays
<1>4. ASSUME pool[h] # NoPool PROVE PoolInv(h)'
    <2>1. PoolInv(h) /\ values # NoValues
        BY <1>0, <1>2, <1>4 DEF HostInv
    <2> QED BY <1>0, <1>1, <1>2, <2>1 DEF PoolInv
<1> QED BY <1>0, <1>1, <1>2, <1>3, <1>4 DEF HostInv

\* What a step of the host's own finds, for each of the steps below.
LEMMA HostFacts ==
    ASSUME PlanInv, [Next]_vars, NEW h \in Hosts, Machine(h)
    PROVE  /\ HostInv(h) /\ HardInv /\ values' = values
           /\ PoolSize' = PoolSize /\ PoolSize \in Sizes /\ PoolSize # 0
           /\ NoPlan.size = 0 /\ NoPool.size = 0 /\ NoPool.members = {} /\ NoPool.nth = 0
           /\ Steady(h)' <=> Steady(h)
           /\ Steady(h) => OsOf(h)' = OsOf(h) /\ \A s \in Sizes : PlanFor(h, s)' = PlanFor(h, s)
<1>1. HardInv /\ HostInv(h) /\ PoolSize' = PoolSize /\ PoolSize \in Sizes /\ PoolSize # 0
    BY PoolSizeStays, SizesPositive DEF PlanInv, SizeInv, NodeInv
<1>2. values' = values
    BY MachineIsApart DEF cli
<1> QED BY <1>1, <1>2, SteadyStays DEF NoPlan, NoPool

LEMMA InstallStep ==
    ASSUME PlanInv, [Next]_vars, NEW h \in Hosts, Install(h)
    PROVE  HostInv(h)'
<1>0. Machine(h)
    BY DEF Machine
<1>1. /\ node'[h] = "installed" /\ os'[h] = values.hints[h] /\ values # NoValues
      /\ UNCHANGED <<nplan, pool>>
    BY DEF Install, PlanInv, NodeInv
<1>2. Steady(h) => values.hints[h] = OsOf(h)
    BY <1>1 DEF PlanInv, ValuesInv
<1>3. nplan[h] # NoPlan => (PlanIs(h, nplan[h], nplan[h].size))'
    BY <1>0, <1>1, HostFacts, NodePlanStays DEF HostInv
<1>4. pool[h] # NoPool => PoolInv(h)'
    BY <1>0, <1>1, HostFacts DEF HostInv, PoolInv
<1> QED BY <1>0, <1>1, <1>2, <1>3, <1>4, HostFacts DEF HostInv

LEMMA PlanOnNodeStep ==
    ASSUME PlanInv, [Next]_vars, NEW h \in Hosts, PlanOnNode(h)
    PROVE  HostInv(h)'
<1> DEFINE v == values.size[GroupOf[h]]
           p == PlanFor(h, v)
<1>0. Machine(h)
    BY DEF Machine
<1>1. /\ node[h] = "installed" /\ UNCHANGED <<rank, pool, os>>
      /\ nplan'[h] = p /\ node'[h] = IF p.ok THEN "carving" ELSE "broken"
      /\ todo'[h] = IF p.ok THEN GetDisks(box[h]) ELSE {}
    BY DEF PlanOnNode, PlanFor, PlanInv, NodeInv
<1>2. v \in Sizes /\ v # 0 /\ values # NoValues
    BY <1>0, <1>1, HostFacts, SizesPositive DEF HostInv, PlanInv, ValuesInv
<1>3. p = NoPlan \/ (PlanIs(h, p, v) /\ p.size = v)
    BY PlanFacts, GoodPlanFacts DEF PlanIs
<1>4. p.ok => p # NoPlan
    BY PlanFacts, GoodPlanFacts
<1>5. p # NoPlan => (PlanIs(h, nplan[h], nplan[h].size))'
    BY <1>0, <1>1, <1>2, <1>3, HostFacts, NodePlanStays
<1> HIDE DEF p
<1>6. ASSUME pool[h] # NoPool PROVE PoolInv(h)'
    <2>1. PoolInv(h) /\ (v # PoolSize => pool[h].size \in {0, v}) /\ pool[h].size # 0
        BY <1>0, <1>2, <1>6, HostFacts, SizesPositive DEF HostInv, PoolInv
    <2>2. Steady(h) => PlanFor(h, pool[h].size).zfs \subseteq GetDisks(box[h])
        BY <2>1, PlanFacts DEF PoolInv, GoodPlan
    <2>3. p # NoPlan => p.ok
        BY <1>3 DEF PlanIs, GoodPlan
    <2>4. Steady(h) => (node'[h] = "carving" => pool[h].members \subseteq todo'[h])
        BY <1>1, <2>1, <2>2, <2>3 DEF PoolInv
    <2> QED BY <1>0, <1>1, <1>2, <1>3, <2>1, <2>4, HostFacts DEF PoolInv
<1>7. values' = values /\ (Steady(h) => os'[h] = OsOf(h)')
    BY <1>0, <1>1, HostFacts DEF HostInv
<1> QED BY <1>0, <1>1, <1>2, <1>3, <1>4, <1>5, <1>6, <1>7, HostFacts DEF HostInv

\* What a disk's turn does to the pool: nothing, where the script was told the pool's size.
LEMMA CarvePool ==
    ASSUME PlanInv, [Next]_vars, NEW h \in Hosts, Carve(h)
    PROVE  /\ pool[h] = NoPool => pool'[h] = NoPool
           /\ pool[h] # NoPool =>
                /\ pool'[h].size = pool[h].size /\ pool'[h].nth = pool[h].nth
                /\ pool'[h].members \subseteq pool[h].members
                /\ Steady(h) /\ nplan[h].size = pool[h].size => pool'[h] = pool[h]
                /\ pool[h].size # nplan[h].size /\ pool[h].members \subseteq todo[h]
                     => pool'[h].members \subseteq todo'[h]
<1>0. Machine(h)
    BY DEF Machine
<1>1. node[h] = "carving" /\ h \in DOMAIN pool
    BY DEF Carve, PlanInv, NodeInv
<1>2. PICK d, size :
        /\ size \in {0, nplan[h].size} /\ (d \in nplan[h].zfs => size = nplan[h].size)
        /\ pool'[h] = IF d \in pool[h].members /\ pool[h].size # size
                      THEN [pool[h] EXCEPT !.members = pool[h].members \ {d}] ELSE pool[h]
        /\ todo'[h] = todo[h] \ {d}
    <2> DEFINE d == NextDisk(h)
               size == IF d \in nplan[h].zfs THEN nplan[h].size ELSE 0
    <2>1. /\ pool'[h] = IF d \in pool[h].members /\ pool[h].size # size
                        THEN [pool[h] EXCEPT !.members = pool[h].members \ {d}] ELSE pool[h]
          /\ todo'[h] = todo[h] \ {d}
        BY DEF Carve, PlanInv, NodeInv
    <2>2. size \in {0, nplan[h].size} /\ (d \in nplan[h].zfs => size = nplan[h].size)
        OBVIOUS
    <2> HIDE DEF d, size
    <2> QED BY <2>1, <2>2
<1>3. CASE pool[h] = NoPool
    <2>1. d \notin pool[h].members
        BY <1>3 DEF NoPool
    <2> QED BY <1>2, <1>3, <2>1
<1>4. CASE pool[h] # NoPool
    <2>1. /\ PoolInv(h) /\ pool[h].size # 0 /\ nplan[h] # NoPlan
          /\ PlanIs(h, nplan[h], nplan[h].size)
        BY <1>0, <1>1, <1>4, HostFacts, SizesPositive DEF HostInv, PoolInv
    <2>2. /\ pool'[h].size = pool[h].size /\ pool'[h].nth = pool[h].nth
          /\ pool'[h].members =
                IF pool[h].size # size THEN pool[h].members \ {d} ELSE pool[h].members
        <3>1. pool[h] = [members |-> pool[h].members, size |-> pool[h].size, nth |-> pool[h].nth]
            BY <2>1 DEF PoolInv
        <3> QED BY <1>2, <3>1
    <2>3. ASSUME Steady(h), nplan[h].size = pool[h].size PROVE pool'[h] = pool[h]
        <3>1. nplan[h] = PlanFor(h, nplan[h].size)
            BY <2>1, <2>3 DEF PlanIs
        <3>2. pool[h].members \subseteq nplan[h].zfs
            BY <2>1, <2>3, <3>1 DEF PoolInv
        <3> QED BY <1>2, <2>3, <3>2
    <2>4. ASSUME pool[h].size # nplan[h].size, pool[h].members \subseteq todo[h]
          PROVE  pool'[h].members \subseteq todo'[h]
        BY <1>2, <2>1, <2>2, <2>4
    <2> QED BY <1>4, <2>2, <2>3, <2>4
<1> QED BY <1>3, <1>4

LEMMA CarveStep ==
    ASSUME PlanInv, [Next]_vars, NEW h \in Hosts, Carve(h)
    PROVE  HostInv(h)'
<1>0. Machine(h)
    BY DEF Machine
<1>1. /\ node[h] = "carving" /\ UNCHANGED <<node, nplan>>
      /\ \E d : os'[h] = IF d \in nplan[h].os THEN os[h] ELSE os[h] \ {d}
    BY DEF Carve, PlanInv, NodeInv
<1>2. nplan[h] # NoPlan /\ PlanIs(h, nplan[h], nplan[h].size) /\ nplan[h].size \in Sizes
    BY <1>0, <1>1, HostFacts DEF HostInv
<1>3. (PlanIs(h, nplan[h], nplan[h].size))'
    BY <1>0, <1>1, <1>2, HostFacts, NodePlanStays
\* The disks that the script spares are those that the OS is on.
<1>4. ASSUME Steady(h) PROVE os'[h] = OsOf(h)
    <2>1. nplan[h] = PlanFor(h, nplan[h].size) /\ nplan[h].ok
        BY <1>2, <1>4 DEF PlanIs, GoodPlan
    <2>2. nplan[h].os = OsOf(h)
        BY <2>1, PlanFacts
    <2>3. os[h] = OsOf(h)
        BY <1>0, <1>1, <1>4, HostFacts DEF HostInv
    <2> QED BY <1>1, <2>2, <2>3
<1>5. ASSUME pool[h] # NoPool PROVE PoolInv(h)' /\ pool'[h].size = pool[h].size
    <2>1. PoolInv(h)
        BY <1>0, <1>5, HostFacts DEF HostInv
    <2>2. /\ pool'[h].size = pool[h].size /\ pool'[h].nth = pool[h].nth
          /\ pool'[h].members \subseteq pool[h].members
          /\ Steady(h) /\ nplan[h].size = pool[h].size => pool'[h] = pool[h]
          /\ pool[h].size # nplan[h].size /\ pool[h].members \subseteq todo[h]
               => pool'[h].members \subseteq todo'[h]
        BY <1>5, CarvePool
    <2>3. pool'[h] = [members |-> pool'[h].members, size |-> pool'[h].size, nth |-> pool'[h].nth]
        <3>1. h \in DOMAIN pool
            BY DEF PlanInv, NodeInv
        <3>2. \/ pool'[h] = pool[h]
              \/ \E m : pool'[h] = [pool[h] EXCEPT !.members = m]
            BY <3>1 DEF Carve
        <3>3. pool[h] = [members |-> pool[h].members, size |-> pool[h].size, nth |-> pool[h].nth]
            BY <2>1 DEF PoolInv
        <3> QED BY <3>2, <3>3
    \* Told another size, the script replaces the pool: only the approved size does that.
    <2>4. ASSUME nplan[h].size # pool[h].size
          PROVE  pool[h].size # PoolSize /\ values.size[GroupOf[h]] = PoolSize
        <3>1. nplan[h].size = PoolSize
            BY <1>2, <2>1, <2>4 DEF PoolInv
        <3>2. values # NoValues
            BY <1>0, <1>1, HostFacts DEF HostInv
        <3>3. nplan[h].size # 0
            BY <1>2, SizesPositive
        <3> QED BY <1>0, <2>4, <3>1, <3>2, <3>3, HostFacts DEF HostInv
    <2> QED BY <1>0, <1>1, <1>2, <2>1, <2>2, <2>3, <2>4, HostFacts DEF PoolInv
<1>6. pool[h] = NoPool => pool'[h] = NoPool
    BY CarvePool
<1> QED BY <1>0, <1>1, <1>2, <1>3, <1>4, <1>5, <1>6, HostFacts DEF HostInv

LEMMA PoolStep ==
    ASSUME PlanInv, [Next]_vars, NEW h \in Hosts, Pool(h)
    PROVE  /\ HostInv(h)'
           /\ Steady(h) /\ pool[h] # NoPool /\ pool[h].size = nplan[h].size => pool'[h] = pool[h]
<1> DEFINE new == [members |-> nplan[h].zfs, size |-> nplan[h].size, nth |-> pool[h].nth + 1]
<1>0. Machine(h)
    BY DEF Machine
<1>1. /\ node[h] = "carving" /\ todo[h] = {} /\ node'[h] = "up" /\ UNCHANGED <<nplan, todo, os>>
      /\ pool'[h] = IF pool[h].members # {} THEN pool[h] ELSE new
    BY DEF Pool, PlanInv, NodeInv
<1>2. /\ nplan[h] # NoPlan /\ PlanIs(h, nplan[h], nplan[h].size) /\ nplan[h].size \in Sizes
      /\ nplan[h].size # 0
    BY <1>0, <1>1, HostFacts, SizesPositive DEF HostInv
<1>3. (PlanIs(h, nplan[h], nplan[h].size))'
    BY <1>0, <1>1, <1>2, HostFacts, NodePlanStays
<1>4. nplan[h].zfs # {}
    BY <1>2, GoodPlanFacts DEF PlanIs
<1>5. pool[h] = NoPool \/ PoolInv(h)
    BY <1>0, HostFacts DEF HostInv
<1>6. pool[h].nth \in Nat
    BY <1>5 DEF PoolInv, NoPool
<1>7. CASE pool[h].members # {}
    <2>1. pool'[h] = pool[h] /\ pool[h] # NoPool
        BY <1>1, <1>7 DEF NoPool
    <2>2. PoolInv(h)
        BY <1>5, <2>1
    \* A pool of another size has lost all its members to the script by now.
    <2>3. Steady(h) => pool[h].size = nplan[h].size
        BY <1>1, <1>7, <2>2 DEF PoolInv
    <2>4. PoolInv(h)'
        BY <1>0, <1>1, <2>1, <2>2, HostFacts DEF PoolInv
    <2> QED BY <1>0, <1>1, <1>2, <1>3, <2>1, <2>3, <2>4, HostFacts DEF HostInv
<1>8. CASE pool[h].members = {}
    <2>1. pool'[h] = new /\ new.nth \in Nat \ {0} /\ new # NoPool
        BY <1>1, <1>6, <1>8 DEF NoPool
    <2>2. Steady(h) => nplan[h] = PlanFor(h, nplan[h].size) /\ PlanFor(h, nplan[h].size).ok = TRUE
        BY <1>2 DEF PlanIs, GoodPlan
    <2>3. PoolInv(h)'
        BY <1>0, <1>1, <1>2, <2>1, <2>2, HostFacts DEF PoolInv
    \* Where the script was told the pool's size, a member was left.
    <2>4. ~(Steady(h) /\ pool[h] # NoPool /\ pool[h].size = nplan[h].size)
        BY <1>4, <1>5, <1>8, <2>2 DEF PoolInv
    <2> QED BY <1>0, <1>1, <1>2, <1>3, <2>1, <2>3, <2>4, HostFacts DEF HostInv
<1> QED BY <1>7, <1>8

LEMMA OutStep ==
    ASSUME PlanInv, [Next]_vars, NEW h \in Hosts, ScriptBreaks(h) \/ Reprovision(h)
    PROVE  HostInv(h)'
<1>0. Machine(h)
    BY DEF Machine
<1>1. node'[h] \in {"broken", "rescue"} /\ (node'[h] = "broken" => node[h] = "carving")
    BY DEF ScriptBreaks, Reprovision, PlanInv, NodeInv
<1>2. UNCHANGED <<nplan, todo, os, pool>>
    BY DEF ScriptBreaks, Reprovision
<1>3. nplan[h] # NoPlan => (PlanIs(h, nplan[h], nplan[h].size))'
    BY <1>0, <1>2, HostFacts, NodePlanStays DEF HostInv
<1>4. pool[h] # NoPool => PoolInv(h)'
    BY <1>0, <1>1, <1>2, HostFacts DEF HostInv, PoolInv
<1> QED BY <1>0, <1>1, <1>2, <1>3, <1>4, HostFacts DEF HostInv

LEMMA NodeStep == PlanInv /\ [Next]_vars => NodeInv'
<1> SUFFICES ASSUME PlanInv, [Next]_vars PROVE NodeInv'
    OBVIOUS
<1>1. ASSUME NEW h \in Hosts, Machine(h) PROVE HostInv(h)'
    BY <1>1, InstallStep, PlanOnNodeStep, CarveStep, PoolStep, OutStep DEF Machine
<1>2. ASSUME NEW h \in Hosts, Machine(h), NEW k \in Hosts, k # h PROVE HostInv(k)'
    <2>1. /\ node'[k] = node[k] /\ nplan'[k] = nplan[k] /\ pool'[k] = pool[k]
          /\ os'[k] = os[k] /\ todo'[k] = todo[k]
        BY <1>2 DEF PlanInv, NodeInv, Machine, Install, PlanOnNode, Carve, Pool, ScriptBreaks,
           Reprovision
    <2> QED BY <2>1, HostStays
<1>3. ASSUME UNCHANGED machine, NEW k \in Hosts PROVE HostInv(k)'
    BY <1>3, HostStays DEF machine
<1>4. UNCHANGED machine \/ \E h \in Hosts : Machine(h)
    BY DEF Next, vars, Parse, Scan, Approve, Persist, Render, Rerun
<1>5. (DOMAIN node = Hosts /\ DOMAIN nplan = Hosts /\ DOMAIN pool = Hosts
        /\ DOMAIN os = Hosts /\ DOMAIN todo = Hosts)'
    BY <1>4 DEF machine, PlanInv, NodeInv, Machine, Install, PlanOnNode, Carve, Pool, ScriptBreaks,
       Reprovision
<1> QED BY <1>1, <1>2, <1>3, <1>4, <1>5 DEF NodeInv

LEMMA PlanStep == PlanInv /\ [Next]_vars => PlanInv'
BY HardStep, SizeStep, ScanStep, ValuesStep, NodeStep DEF PlanInv

---------------------------------------------------------------------------
(* The theorems. *)

\* The OS volume of every steady host stays whole, whatever every boot makes of the names
\* of its disks: the node's script, which is not told where the OS is, never rewrites a
\* disk that the OS is on.
THEOREM OSKeptAlways == Spec => []OSKept
<1>1. ASSUME PlanInv PROVE OSKept
    <2> SUFFICES ASSUME NEW h \in Hosts, node[h] # "rescue", Steady(h)
                 PROVE  Cardinality(os[h]) = 2
        BY DEF OSKept
    <2>1. os[h] = OsOf(h) /\ values # NoValues
        BY <1>1 DEF PlanInv, NodeInv, HostInv
    <2> QED BY <1>1, <2>1 DEF PlanInv, ValuesInv
<1> QED BY <1>1, PlanInit, PlanStep, PTL DEF Spec

\* A steady node that is up with a pool of the approved size has the approved plan.
LEMMA UpServes ==
    ASSUME PlanInv, NEW h \in Hosts, node[h] \in {"carving", "up"}, Steady(h),
           nplan[h].size = approved[h].size
    PROVE  /\ Approved /\ values # NoValues
           /\ nplan[h].size = PoolSize
           /\ nplan[h] = PlanFor(h, PoolSize) /\ approved[h] = nplan[h]
           /\ PlanIs(h, approved[h], PoolSize)
<1>1. values # NoValues /\ PlanIs(h, nplan[h], nplan[h].size)
    BY DEF PlanInv, NodeInv, HostInv
<1>2. Approved
    BY <1>1 DEF PlanInv, ValuesInv
<1>3. PlanIs(h, approved[h], PoolSize)
    BY <1>2 DEF Approved
<1>4. nplan[h].size = PoolSize
    BY <1>3 DEF PlanIs, GoodPlan
<1> QED BY <1>1, <1>2, <1>3, <1>4 DEF PlanIs

\* Each node that is up and was told the approved size has carved the plan approved for
\* it, and has the pool that its operator was shown for the group.
THEOREM AsApprovedAlways == Spec => []AsApproved
<1>1. ASSUME PlanInv PROVE AsApproved
    <2> SUFFICES ASSUME NEW h \in Hosts, node[h] = "up", Steady(h),
                        nplan[h].size = approved[h].size
                 PROVE  /\ nplan[h] = approved[h]
                        /\ PoolKinds(box[h], nplan[h]) = shown[GroupOf[h]].pool
                        /\ pool[h].size = shown[GroupOf[h]].size
                        /\ values.nvme[GroupOf[h]] =>
                              \E d \in nplan[h].zfs : box[h][d].kind = "NVMe"
        BY DEF AsApproved
    <2>1. /\ Approved /\ values # NoValues /\ nplan[h].size = PoolSize
          /\ nplan[h] = PlanFor(h, PoolSize) /\ approved[h] = nplan[h]
        BY <1>1, UpServes
    <2>2. /\ shown[GroupOf[h]].size = PoolSize
          /\ shown[GroupOf[h]].pool = PoolKinds(box[h], PlanFor(h, PoolSize))
        BY <2>1 DEF Approved
    <2>3. pool[h].size = nplan[h].size
        BY <1>1 DEF PlanInv, NodeInv, HostInv
    <2>4. values.nvme[GroupOf[h]] => HasNvme(h, PlanFor(h, PoolSize))
        BY <1>1, <2>1 DEF PlanInv, ValuesInv
    <2> QED BY <2>1, <2>2, <2>3, <2>4 DEF HasNvme
<1> QED BY <1>1, PlanInit, PlanStep, PTL DEF Spec

\* And no later run of the script, after an interruption, an approval or a new
\* installation of the OS under other names, makes another pool of it or takes a half
\* away, unless it was told another size.
THEOREM PoolKeptAlways == Spec => PoolKept
<1> DEFINE Kept ==
        \A h \in Hosts :
            /\ pool[h].nth > 0
            /\ node[h] = "carving" => nplan[h].size = pool[h].size /\ Steady(h)
            => pool'[h] = pool[h]
<1>1. ASSUME PlanInv, [Next]_vars PROVE [Kept]_vars
    <2> SUFFICES ASSUME NEW k \in Hosts, pool[k].nth > 0,
                        node[k] = "carving" => nplan[k].size = pool[k].size /\ Steady(k)
                 PROVE  pool'[k] = pool[k]
        OBVIOUS
    <2>1. pool[k] # NoPool
        BY DEF NoPool
    <2>2. ASSUME NEW h \in Hosts, Machine(h) PROVE pool'[k] = pool[k]
        <3>1. CASE Carve(h)
            <4>1. CASE k = h
                BY <1>1, <2>1, <3>1, <4>1, CarvePool DEF Carve
            <4>2. CASE k # h
                BY <1>1, <3>1, <4>2 DEF Carve, PlanInv, NodeInv
            <4> QED BY <4>1, <4>2
        <3>2. CASE Pool(h)
            <4>1. CASE k = h
                BY <1>1, <2>1, <3>2, <4>1, PoolStep DEF Pool
            <4>2. CASE k # h
                BY <1>1, <3>2, <4>2 DEF Pool, PlanInv, NodeInv
            <4> QED BY <4>1, <4>2
        <3>3. CASE Install(h) \/ PlanOnNode(h) \/ ScriptBreaks(h) \/ Reprovision(h)
            BY <3>3 DEF Install, PlanOnNode, ScriptBreaks, Reprovision
        <3> QED BY <2>2, <3>1, <3>2, <3>3 DEF Machine
    <2>3. CASE UNCHANGED machine
        BY <2>3 DEF machine
    <2>4. UNCHANGED machine \/ \E h \in Hosts : Machine(h)
        BY <1>1 DEF Next, vars, Parse, Scan, Approve, Persist, Render, Rerun
    <2> QED BY <2>2, <2>3, <2>4
<1> QED BY <1>1, PlanInit, PlanStep, PTL DEF Spec, PoolKept, Kept

---------------------------------------------------------------------------
(* From the outside: StoragePlan implements ApprovedStorage. *)

\* Saying yes again promises the same plans.
LEMMA PromisedStep ==
    ASSUME PlanInv, [Next]_vars
    PROVE  \/ Promised' = Promised
           \/ /\ Promised = [h \in Hosts |-> NoPlan]
              /\ Approve /\ UNCHANGED machine
<1>0. HardInv /\ ScanInv /\ ValuesInv
    BY DEF PlanInv
<1>1. \A h \in Hosts : Steady(h)' <=> Steady(h)
    BY <1>0, SteadyStays
<1>2. CASE approved' = approved
    BY <1>1, <1>2 DEF Promised
<1>3. CASE Approve /\ approved' = plans
    <2>1. \A h \in Hosts : PlanIs(h, plans[h], PoolSize)
        BY <1>0, <1>3 DEF Approve, ScanInv
    <2>2. CASE Approved
        <3>1. \A h \in Hosts : Steady(h) => plans[h] = approved[h]
            BY <2>1, <2>2 DEF Approved, PlanIs
        <3> QED BY <1>1, <1>3, <3>1 DEF Promised
    <2>3. CASE \A h \in Hosts : approved[h] = NoPlan
        <3>1. Promised = [h \in Hosts |-> NoPlan]
            BY <2>3 DEF Promised
        <3>2. UNCHANGED machine
            BY <1>3 DEF Approve
        <3> QED BY <1>3, <3>1, <3>2
    <2> QED BY <1>0, <2>2, <2>3 DEF ValuesInv
<1>4. approved' = approved \/ (Approve /\ approved' = plans)
    BY MachineIsApart, Zenon DEF Next, vars, cli, Parse, Scan, Approve, Persist, Render, Rerun
<1> QED BY <1>2, <1>3, <1>4

\* Where the pool has the approved size, the plan that made it is the approved one.
LEMMA SeenPool ==
    ASSUME PlanInv, NEW h \in Hosts, Steady(h), pool[h] # NoPool, approved[h].size = pool[h].size
    PROVE  /\ pool[h] = Handover!PoolOf(approved[h], pool[h].nth)
           /\ nplan[h] # NoPlan => nplan[h].size = approved[h].size
<1>1. PoolInv(h) /\ values # NoValues
    BY DEF PlanInv, NodeInv, HostInv
<1>2. PlanIs(h, approved[h], PoolSize)
    BY <1>1 DEF PlanInv, ValuesInv, Approved
<1>3. approved[h].size = PoolSize /\ approved[h] = PlanFor(h, PoolSize)
    BY <1>2 DEF PlanIs, GoodPlan
<1>4. pool[h].members = approved[h].zfs
    BY <1>1, <1>3 DEF PoolInv
<1>5. nplan[h] # NoPlan => nplan[h].size = PoolSize
    BY <1>1, <1>3 DEF PoolInv
<1> QED BY <1>1, <1>3, <1>4, <1>5 DEF PoolInv, Handover!PoolOf

\* The last step of a script: the host serves the plan that was approved for it.
LEMMA ServeStep ==
    ASSUME PlanInv, [Next]_vars, NEW h \in Hosts, Pool(h), Steady(h),
           nplan[h].size = approved[h].size, Promised' = Promised,
           \A k \in Hosts \ {h} : Serving'[k] = Serving[k] /\ PoolSeen'[k] = PoolSeen[k]
    PROVE  Handover!Serve(h)
<1>0. /\ node[h] = "carving" /\ node'[h] = "up" /\ nplan' = nplan /\ approved' = approved
      /\ pool'[h] = IF pool[h].members # {} THEN pool[h]
                    ELSE [members |-> nplan[h].zfs, size |-> nplan[h].size, nth |-> pool[h].nth + 1]
    BY DEF Pool, PlanInv, NodeInv, cli
<1>1. approved[h] = nplan[h] /\ approved[h] # NoPlan /\ Promised[h] = approved[h]
    BY <1>0, UpServes, GoodPlanFacts DEF PlanIs, Promised
<1>2. /\ HostInv(h)' /\ (Steady(h)' <=> Steady(h))
      /\ pool[h] # NoPool /\ pool[h].size = nplan[h].size => pool'[h] = pool[h]
    BY PoolStep, SteadyStays DEF PlanInv
<1>3. Serving[h] = NoPlan /\ Serving'[h] = approved[h]
    BY <1>0, <1>1, <1>2 DEF Serving
<1>4. pool'[h] # NoPool /\ pool'[h].size = approved[h].size
    BY <1>0, <1>1, <1>2 DEF HostInv
<1>5. PoolSeen'[h] = pool'[h] /\ PoolSeen[h] \in {NoPool, pool'[h]}
    BY <1>0, <1>1, <1>2, <1>4 DEF PoolSeen
<1>6. pool'[h] = Handover!PoolOf(approved[h], pool'[h].nth)
    <2>1. CASE pool[h].members # {}
        <3>1. pool'[h] = pool[h]
            BY <1>0, <2>1
        <3> QED BY <1>4, <3>1, SeenPool
    <2>2. CASE pool[h].members = {}
        BY <1>0, <1>1, <2>2 DEF Handover!PoolOf
    <2> QED BY <2>1, <2>2
<1>7. Serving' = [Serving EXCEPT ![h] = approved[h]]
    BY <1>3 DEF Serving
<1>8. PoolSeen' = [PoolSeen EXCEPT ![h] = Handover!PoolOf(approved[h], pool'[h].nth)]
    BY <1>5, <1>6 DEF PoolSeen
<1> QED BY <1>1, <1>3, <1>5, <1>6, <1>7, <1>8 DEF Handover!Serve

\* Each step is one of ApprovedStorage, or changes nothing that is seen from the outside.
LEMMA HandoverStep ==
    ASSUME PlanInv, [Next]_vars
    PROVE  [Handover!Next]_<<Promised, Serving, PoolSeen>>
<1>0. /\ HardInv /\ \A h \in Hosts : HostInv(h)
      /\ \A h \in Hosts : Steady(h)' <=> Steady(h)
    BY SteadyStays DEF PlanInv, NodeInv
<1>1. CASE Promised = [h \in Hosts |-> NoPlan] /\ Approve /\ UNCHANGED machine
    <2>1. ASSUME NEW h \in Hosts, Steady(h) PROVE node[h] = "rescue" /\ pool[h] = NoPool
        <3>1. approved[h] = NoPlan
            BY <1>1, <2>1 DEF Promised
        <3>2. ~Approved
            BY <3>1, GoodPlanFacts DEF Approved, PlanIs
        <3>3. values = NoValues
            BY <3>2 DEF PlanInv, ValuesInv
        <3> QED BY <1>0, <3>3 DEF HostInv
    <2>2. Serving' = Serving
        BY <1>0, <1>1, <2>1 DEF Serving, machine
    <2>3. PoolSeen' = PoolSeen
        BY <1>0, <1>1, <2>1 DEF PoolSeen, machine
    <2>4. DOMAIN Promised' = Hosts
        BY DEF Promised
    <2> QED BY <1>1, <2>2, <2>3, <2>4 DEF Handover!Next, Handover!Approve
<1>2. CASE Promised' = Promised /\ UNCHANGED machine
    <2>1. \A h \in Hosts : Steady(h) => approved'[h] = approved[h]
        BY <1>0, <1>2 DEF Promised
    <2>2. Serving' = Serving
        BY <1>0, <1>2, <2>1 DEF Serving, machine
    <2>3. PoolSeen' = PoolSeen
        BY <1>0, <1>2, <2>1 DEF PoolSeen, machine
    <2> QED BY <1>2, <2>2, <2>3
<1>3. ASSUME NEW h \in Hosts, Machine(h), Promised' = Promised
      PROVE  [Handover!Next]_<<Promised, Serving, PoolSeen>>
    <2>0. approved' = approved
        BY <1>3, MachineIsApart DEF cli
    <2>1. ASSUME NEW k \in Hosts \ {h} PROVE Serving'[k] = Serving[k] /\ PoolSeen'[k] = PoolSeen[k]
        <3>1. node'[k] = node[k] /\ nplan'[k] = nplan[k] /\ pool'[k] = pool[k]
            BY <1>3 DEF PlanInv, NodeInv, Machine, Install, PlanOnNode, Carve, Pool, ScriptBreaks,
               Reprovision
        <3> QED BY <1>0, <2>0, <3>1 DEF Serving, PoolSeen
    <2>2. ASSUME Serving'[h] = Serving[h], PoolSeen'[h] = PoolSeen[h]
          PROVE  [Handover!Next]_<<Promised, Serving, PoolSeen>>
        <3>1. Serving' = Serving
            BY <2>1, <2>2 DEF Serving
        <3>2. PoolSeen' = PoolSeen
            BY <2>1, <2>2 DEF PoolSeen
        <3> QED BY <1>3, <3>1, <3>2
    <2>3. CASE ~Steady(h)
        BY <1>0, <2>2, <2>3 DEF Serving, PoolSeen
    <2>4. CASE /\ Steady(h)
               /\ \/ Install(h) \/ PlanOnNode(h) \/ ScriptBreaks(h)
                  \/ (Reprovision(h) /\ node[h] # "up")
        <3>1. pool' = pool /\ node[h] # "up" /\ node'[h] # "up"
            BY <2>4 DEF Install, PlanOnNode, ScriptBreaks, Reprovision, PlanInv, NodeInv
        <3> QED BY <1>0, <2>0, <2>2, <3>1 DEF Serving, PoolSeen
    <2>5. CASE Steady(h) /\ Carve(h)
        <3>1. node[h] = "carving" /\ UNCHANGED <<node, nplan>>
            BY <2>5 DEF Carve
        <3>2. nplan[h] # NoPlan
            BY <1>0, <3>1 DEF HostInv
        <3>3. PoolSeen'[h] = PoolSeen[h]
            <4>1. CASE pool[h] = NoPool
                BY <1>0, <2>0, <2>5, <4>1, CarvePool DEF PoolSeen
            <4>2. CASE pool[h] # NoPool /\ pool[h].size = approved[h].size
                BY <1>0, <2>0, <2>5, <3>2, <4>2, CarvePool, SeenPool DEF PoolSeen
            <4>3. CASE pool[h] # NoPool /\ pool[h].size # approved[h].size
                BY <1>0, <2>0, <2>5, <4>3, CarvePool DEF PoolSeen
            <4> QED BY <4>1, <4>2, <4>3
        <3> QED BY <2>2, <3>1, <3>3 DEF Serving
    <2>6. CASE Steady(h) /\ Pool(h)
        <3>1. node[h] = "carving" /\ nplan'[h] = nplan[h] /\ nplan[h] # NoPlan
            BY <1>0, <2>6 DEF Pool, HostInv
        <3>2. CASE nplan[h].size = approved[h].size
            BY <1>3, <2>1, <2>6, <3>2, ServeStep DEF Handover!Next
        <3>3. CASE nplan[h].size # approved[h].size
            <4>1. pool'[h].size = nplan[h].size
                BY <1>0, <2>6, <3>1, PoolStep DEF HostInv, Pool, PlanInv, NodeInv
            <4>2. pool[h] = NoPool \/ pool[h].size # approved[h].size
                BY <2>6, <3>1, <3>3, SeenPool
            <4> QED BY <1>0, <2>0, <2>2, <3>1, <3>3, <4>1, <4>2 DEF Serving, PoolSeen
        <3> QED BY <3>2, <3>3
    <2>7. CASE Steady(h) /\ Reprovision(h) /\ node[h] = "up"
        <3>1. node'[h] = "rescue" /\ UNCHANGED <<nplan, pool>>
            BY <2>7 DEF Reprovision, PlanInv, NodeInv
        <3>2. PoolSeen'[h] = PoolSeen[h] /\ Serving'[h] = NoPlan
            BY <1>0, <2>0, <3>1 DEF PoolSeen, Serving
        <3>3. CASE Serving[h] = NoPlan
            BY <2>2, <3>2, <3>3
        <3>4. CASE Serving[h] # NoPlan
            <4>1. PoolSeen' = PoolSeen
                BY <2>1, <3>2 DEF PoolSeen
            <4>2. Serving' = [Serving EXCEPT ![h] = NoPlan]
                BY <2>1, <3>2 DEF Serving
            <4> QED BY <1>3, <3>4, <4>1, <4>2 DEF Handover!Next, Handover!Withdraw
        <3> QED BY <3>3, <3>4
    <2> QED BY <1>3, <2>3, <2>4, <2>5, <2>6, <2>7 DEF Machine
<1>4. UNCHANGED machine \/ \E h \in Hosts : Machine(h)
    BY DEF Next, vars, Parse, Scan, Approve, Persist, Render, Rerun
<1> QED BY <1>1, <1>2, <1>3, <1>4, PromisedStep

\* The two programs together keep the promise of ApprovedStorage: what the operator has
\* approved once is what every steady host that is told the approved size serves, with one
\* pool, through re-runs of the command, interrupted scripts, boots and new installations.
THEOREM NodesServeTheApproved == Spec => ImplementsHandover
<1>1. Init => Handover!Init
    BY DEF Init, Handover!Init, Promised, Serving, PoolSeen
<1> QED BY <1>1, PlanInit, PlanStep, HandoverStep, PTL
        DEF Spec, Handover!Spec, ImplementsHandover
=============================================================================
