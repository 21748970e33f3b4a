-------------------------- MODULE MCKubeOneUpgrade --------------------------
(* Small instances of KubeOneUpgrade: one control-plane host, one worker, one *)
(* host that may join; two minor versions below the cgroup v1 boundary and   *)
(* one beyond it.                                                           *)
EXTENDS KubeOneUpgrade

Released == {<<3, 0>>, <<3, 1>>, <<4, 0>>, <<5, 0>>}
Bootstrapped == <<3, 0>>
=============================================================================
