---------------------------- MODULE ClusterOwner ----------------------------
(***************************************************************************)
(* Who manages a Cluster API cluster, seen from the outside: at most one    *)
(* cluster's controllers at a time, with an unowned moment between two      *)
(* owners; machines are created by an owner, and destroyed only by the      *)
(* management cluster (a cluster that manages itself cannot).               *)
(***************************************************************************)

VARIABLES
    owners,    \* clusters whose controllers act on the Cluster resource
    machines   \* whether the cluster's machines exist

Init == owners = {} /\ machines = FALSE

Claim(c) ==
    /\ owners = {} /\ owners' = {c}
    /\ UNCHANGED machines

Release ==
    /\ owners' = {}
    /\ UNCHANGED machines

Build ==
    /\ owners = {"management"} /\ ~machines /\ machines'
    /\ UNCHANGED owners

Destroy ==
    /\ owners = {"management"} /\ owners' = {}
    /\ machines /\ ~machines'

Next == (\E c \in {"management", "main"} : Claim(c)) \/ Release \/ Build \/ Destroy

Spec == Init /\ [][Next]_<<owners, machines>>
=============================================================================
