---------------------------- MODULE MCConfigRepo ----------------------------
(* Small instances of ConfigRepo: two rendered files, one foreign file.    *)
EXTENDS ConfigRepo
=============================================================================
