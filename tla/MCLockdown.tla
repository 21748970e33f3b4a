----------------------------- MODULE MCLockdown -----------------------------
(* The clusters the configurations of Lockdown choose from.                 *)
EXTENDS Lockdown

AllKinds == Kind
BareMetalOnly == {[bareMetal |-> TRUE, lb |-> FALSE, operator |-> FALSE]}
=============================================================================
