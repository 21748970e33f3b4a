-------------------------- MODULE ApprovedStorage --------------------------
(***************************************************************************)
(* What the operator of a bare-metal cluster is promised of its storage,    *)
(* seen from the outside: one yes decides the plan of every host for good,  *)
(* a host serves that plan and no other, as often as it is taken out and    *)
(* installed again, and its pool is made once, from that plan, and kept.    *)
(***************************************************************************)

CONSTANTS Host, NoPlan, NoPool

VARIABLES
    approved,  \* approved[h]: the plan the operator said yes to; NoPlan if none is promised
    serving,   \* serving[h]: the plan the host is up with, or NoPlan
    pool       \* pool[h]: the disks and the size of its pool, or NoPool

Init ==
    /\ approved = [h \in Host |-> NoPlan]
    /\ serving = [h \in Host |-> NoPlan]
    /\ pool = [h \in Host |-> NoPool]

Approve ==
    /\ \A h \in Host : approved[h] = NoPlan
    /\ DOMAIN approved' = Host
    /\ UNCHANGED <<serving, pool>>

\* A pool of the plan, made for the nth time.
PoolOf(plan, n) == [members |-> plan.zfs, size |-> plan.size, nth |-> n]

Serve(h) ==
    /\ approved[h] # NoPlan /\ serving[h] = NoPlan
    /\ serving' = [serving EXCEPT ![h] = approved[h]]
    /\ pool' = [pool EXCEPT ![h] = PoolOf(approved[h], pool'[h].nth)]
    /\ pool[h] \in {NoPool, pool'[h]}
    /\ UNCHANGED approved

Withdraw(h) ==
    /\ serving[h] # NoPlan
    /\ serving' = [serving EXCEPT ![h] = NoPlan]
    /\ UNCHANGED <<approved, pool>>

Next == Approve \/ \E h \in Host : Serve(h) \/ Withdraw(h)

Spec == Init /\ [][Next]_<<approved, serving, pool>>
=============================================================================
