----------------------------- MODULE MCArgoSync -----------------------------
(* A small cluster of ArgoSync: one App by name, two gated steps, and the    *)
(* argocd App itself among the rest.                                        *)
EXTENDS ArgoSync

ByName  == <<"sealed-secrets">>
Ordered == <<"traefik", "netbird">>
=============================================================================
