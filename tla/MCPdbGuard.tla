----------------------------- MODULE MCPdbGuard -----------------------------
(* Small instances of PdbGuard: a budget of ArgoCD's and two or three others.   *)
EXTENDS PdbGuard
=============================================================================
