------------------------- MODULE ConfigPublication -------------------------
(***************************************************************************)
(* What the default branch of kubeaid-config shows to ArgoCD and to the    *)
(* people who share it, whatever the CLI does on the way: a cluster's      *)
(* rendered files change together and to one render, and nothing else      *)
(* changes with them.                                                      *)
(***************************************************************************)
EXTENDS Naturals

CONSTANTS Own, Foreign, MaxWanted

VARIABLES
    published,   \* version of each rendered file on the default branch
    foreign      \* version of each other file on the default branch

Init ==
    /\ published = [f \in Own |-> 0]
    /\ foreign = [f \in Foreign |-> 0]

\* One merge or push: all the rendered files, and only those.
Publish ==
    /\ \E v \in 0 .. MaxWanted : published' = [f \in Own |-> v]
    /\ UNCHANGED foreign

\* Someone else's change.
ForeignChange ==
    /\ \E f \in Foreign : foreign' = [foreign EXCEPT ![f] = @ + 1]
    /\ UNCHANGED published

Next == Publish \/ ForeignChange

Spec == Init /\ [][Next]_<<published, foreign>>
=============================================================================
