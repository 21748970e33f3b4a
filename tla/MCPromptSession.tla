-------------------------- MODULE MCPromptSession --------------------------
(* Instances of PromptSession for TLC. *)
EXTENDS PromptSession, TLC

CONSTANTS n1, n2, h1, h2, h3, h4, out

Names == {n1, n2}

NoPaths == {}

OnePath == {out}

Servers == {h1, h2, h3, h4}

TwoServers == {h1, h2}

ThreeServers == {h1, h2, h3}

Workload(p, m) == [kind |-> <<p, "workload">>, mode |-> m]

VPN(m) == [kind |-> <<"hetzner", "vpn">>, mode |-> m]

Hetzner == {Workload("hetzner", m) : m \in {"hcloud", "hybrid", "bare-metal"}}

BareMetal == {Workload("bare-metal", "hcloud")}

AllAnswers == Hetzner \cup BareMetal \cup {VPN("hcloud"), Workload("local", "hcloud")}

FewAnswers == {Workload("hetzner", "bare-metal"), Workload("bare-metal", "hcloud"),
               Workload("local", "hcloud"), VPN("hcloud")}

VPNAnswers == {VPN("hcloud")}

CloudAnswers == {Workload("aws", "hcloud"), Workload("azure", "hcloud")}

(* A workload cluster may become another one; a VPN cluster stays one. *)
SameType == {s \in Kinds \X Kinds : s[1][2] = s[2][2]}

AnySwitch == Kinds \X Kinds

Sizes == {1, 3}

Single == {1}

Symmetry == Permutations(Servers) \cup Permutations(Names)

Symmetry2 == Permutations(TwoServers) \cup Permutations(Names)
=============================================================================
