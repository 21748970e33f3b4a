------------------------------ MODULE MCPivot ------------------------------
(* Small instances of Pivot: a few kills and webhook failures.  "devenv      *)
(* create" on a VPN cluster has configurations of its own.                  *)
EXTENDS Pivot

Everywhere == [v \in BOOLEAN |-> IF v THEN {"bootstrap", "delete"} ELSE Command]
Rebuilding == [v \in {TRUE} |-> {"bootstrap", "devenv"}]
Killed     == [v \in {FALSE} |-> {"bootstrap", "delete"}]
=============================================================================
