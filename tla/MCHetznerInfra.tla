--------------------------- MODULE MCHetznerInfra ---------------------------
(***************************************************************************)
(* Instances of HetznerInfra: the shapes of cluster the validation knows.  *)
(***************************************************************************)
EXTENDS HetznerInfra

Off == [bm |-> FALSE, hcloud |-> FALSE, nat |-> FALSE, lb |-> FALSE,
        hostname |-> FALSE, fip |-> FALSE, vpn |-> FALSE, failover |-> FALSE]

\* A hybrid VPN cluster: HCloud control plane, bare-metal workers.
HybridVpn == [Off EXCEPT !.bm = TRUE, !.hcloud = TRUE, !.nat = TRUE,
                         !.lb = TRUE, !.hostname = TRUE, !.fip = TRUE]
\* An HCloud workload cluster behind an existing VPN, without host name.
JoinsVpn == [Off EXCEPT !.hcloud = TRUE, !.nat = TRUE, !.lb = TRUE,
                        !.vpn = TRUE]
\* Bare metal behind a failover IP; a single public HCloud node.
Metal == [Off EXCEPT !.bm = TRUE, !.failover = TRUE]
Single == [Off EXCEPT !.hcloud = TRUE]

AllModes == {HybridVpn, JoinsVpn, Metal, Single}
CloudModes == {JoinsVpn, Single}
=============================================================================
