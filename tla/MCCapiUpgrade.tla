--------------------------- MODULE MCCapiUpgrade ----------------------------
(* A small cluster of CapiUpgrade: a control plane and one node-group.      *)
EXTENDS CapiUpgrade

OneGroup     == <<"workers">>
Bootstrapped == [version |-> 1, image |-> "jammy"]
=============================================================================
