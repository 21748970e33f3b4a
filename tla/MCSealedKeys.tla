---------------------------- MODULE MCSealedKeys ----------------------------
(* Small instances of SealedKeys: two Secrets, three keys.                  *)
EXTENDS SealedKeys
=============================================================================
