--------------------------- MODULE PromptSession ---------------------------
(***************************************************************************)
(* The two programs that share a configs directory:                        *)
(*                                                                         *)
(*  - `config generate` (pkg/config/prompt): asks the operator for a       *)
(*    cluster step by step, may be interrupted at any question and saved,  *)
(*    resumes from what it saved or from a finished config, lets the       *)
(*    operator go round again at the final confirm, and writes             *)
(*    general.yaml, then secrets.yaml, then the prompt's state file;       *)
(*  - the parser every other command starts with (pkg/config/parser): fills*)
(*    the generated secrets into secrets.yaml and refuses a config that    *)
(*    does not validate.                                                   *)
(*                                                                         *)
(* A cluster's configs directory is named after the cluster, so the        *)
(* directories are Clusters plus SpelledOut, those given by path.          *)
(* Answers are abstracted to what a later step, a resume or the parser can *)
(* tell apart: a text field is a BOOLEAN "given", the servers are Hosts.   *)
(* A form's answers are taken together, but for the mode of a Hetzner      *)
(* cluster. AWS and Azure are the self-managed kinds; an SSH agent is      *)
(* reachable, so no form asks for key files.                               *)
(***************************************************************************)
EXTENDS Integers, FiniteSets

CONSTANTS
    Clusters,     \* the names an operator may type
    SpelledOut,   \* configs directories the operator names by path
    NoName,       \* the empty cluster name
    NoFile,       \* a file that does not exist
    Hosts,        \* bare-metal servers (Robot IDs, addresses)
    Answers,      \* the kinds of cluster operators set up
    Switches,     \* how an operator may change their mind about the kind
    Replicas,     \* sizes of a Hetzner control plane (the HA question)
    MaxSessions,  \* bound: runs of `config generate`
    MaxNew,       \* bound: the first of them, that may start in an empty directory
    MaxRedos      \* bound: times the operator goes round or back again

None == ""

Providers == {"aws", "azure", "hetzner", "bare-metal", "local"}

Kinds == Providers \X {"workload", "vpn"}

ASSUME AnswersAssumption ==
    /\ Answers \subseteq [kind : Kinds, mode : {"hcloud", "bare-metal", "hybrid"}]
    /\ Switches \subseteq Kinds \X Kinds
    /\ \A a \in Answers : a.kind[2] = "vpn" => a.kind[1] = "hetzner"

ASSUME NamesAssumption ==
    /\ SpelledOut \cap Clusters = {}
    /\ NoName \notin Clusters \cup SpelledOut
    /\ Replicas \subseteq Nat \ {0}
    /\ MaxSessions \in Nat /\ MaxNew \in Nat /\ MaxRedos \in Nat

Dirs == Clusters \cup SpelledOut

Racks == {"hetzner", "bare-metal"}

Steps == {"k8s", "basics", "idp", "endpoints", "mesh", "provider", "lockdown",
          "security", "git", "obmondo"}

VARIABLES
    pc,         \* where the session is; "idle" without one
    dir,        \* the directory it was started on
    c,          \* PromptedConfig
    done,       \* promptState: the steps answered
    told,       \* what the operator answered last, as far as a file keeps it
    origin,     \* what it started from, see Origins
    saving,     \* it is writing an interrupted config, not a confirmed one
    files,      \* per directory: general.yaml, secrets.yaml, the state file
    toldAt,     \* what the operator answered for the general.yaml there
    confirmed,  \* directories whose files a confirmed session finished
    used,       \* generated secrets that commands run from there have used
    dropped,    \* directories whose config a session replaced by defaults
    sessions, redos

session == <<dir, told, origin, saving>>

disk == <<files, toldAt, confirmed, used, dropped>>

bounds == <<sessions, redos>>

vars == <<pc, c, done, session, disk, bounds>>

(***************************************************************************)
(* PromptedConfig, the files it renders to, and what a resume reads back.  *)
(***************************************************************************)
NoHosts == [p \in Racks |-> {}]

Default(name) ==
    [name |-> name, provider |-> None, type |-> "workload", mode |-> "hcloud",
     idp |-> None, idpSecret |-> FALSE,
     mgmt |-> FALSE, zone |-> FALSE, apiKey |-> FALSE, endpoint |-> FALSE,
     spec |-> {}, creds |-> {}, robot |-> FALSE, nodeSpec |-> {},
     replicas |-> 0, pools |-> FALSE, vswitch |-> FALSE,
     cp |-> NoHosts, wk |-> NoHosts, apiHost |-> {},
     lockdown |-> "unset", security |-> FALSE, git |-> FALSE]

UsesHCloud(x) == x.provider = "hetzner" /\ x.mode \in {"hcloud", "hybrid"}

UsesServers(x) == x.provider = "hetzner" /\ x.mode \in {"bare-metal", "hybrid"}

(* The control plane runs on hosts the operator lists. *)
OwnControlPlane(x) ==
    x.provider = "bare-metal" \/ (x.provider = "hetzner" /\ x.mode = "bare-metal")

OwnWorkers(x) == x.provider = "bare-metal" \/ UsesServers(x)

(* The hosts the template lists: those of the provider, in the roles its   *)
(* mode gives to them.                                                     *)
Listed(x, hosts, role) == [p \in Racks |-> IF p = x.provider /\ role THEN hosts[p] ELSE {}]

General(x) ==
    [x EXCEPT
        !.mode     = IF x.provider = "hetzner" THEN @ ELSE "hcloud",
        !.mgmt     = @ /\ (x.type = "vpn" \/ x.zone),
        !.endpoint = @ /\ x.type = "vpn",
        !.spec     = {p \in {x.provider} : p \in x.spec /\ (p = "hetzner" => UsesHCloud(x))},
        !.nodeSpec = @ \cap {x.provider},
        !.replicas = IF UsesHCloud(x) THEN @ ELSE 0,
        !.pools    = @ /\ UsesHCloud(x),
        !.vswitch  = @ /\ UsesServers(x),
        !.cp       = Listed(x, @, OwnControlPlane(x)),
        !.wk       = Listed(x, @, OwnWorkers(x)),
        !.apiHost  = {p \in @ : p = x.provider /\ OwnControlPlane(x)},
        !.idpSecret = FALSE, !.apiKey = FALSE, !.creds = {}, !.robot = FALSE]

Secrets(x) ==
    [creds     |-> x.creds \cap {x.provider},
     robot     |-> x.robot /\ x.provider = "hetzner",
     idpSecret |-> x.idpSecret /\ x.idp = "external",
     apiKey    |-> x.apiKey,
     minted    |-> {}]

NoSecrets == [creds |-> {}, robot |-> FALSE, idpSecret |-> FALSE, apiKey |-> FALSE, minted |-> {}]

\* Mutant: the mesh zone is not read back.
LoadedNoZone(name, g, s) ==
    [g EXCEPT
        !.name      = IF @ = NoName THEN name ELSE @,
        !.replicas  = IF g.cp["hetzner"] # {} THEN Cardinality(g.cp["hetzner"]) ELSE @,
        !.nodeSpec  = {}, !.security = FALSE, !.zone = FALSE,
        !.creds     = s.creds, !.robot = s.robot, !.apiKey = s.apiKey,
        !.idpSecret = s.idpSecret \/ "keycloak" \in s.minted]

(* The security answers and the worker machines of AWS and Azure are not   *)
(* read back; a bare-metal control plane has as many replicas as hosts.    *)
Loaded(name, g, s) ==
    [g EXCEPT
        !.name      = IF @ = NoName THEN name ELSE @,
        !.replicas  = IF g.cp["hetzner"] # {} THEN Cardinality(g.cp["hetzner"]) ELSE @,
        !.nodeSpec  = {}, !.security = FALSE,
        !.creds     = s.creds, !.robot = s.robot, !.apiKey = s.apiKey,
        !.idpSecret = s.idpSecret \/ "keycloak" \in s.minted]

(***************************************************************************)
(* Which steps still have something to ask.                                *)
(***************************************************************************)
MissingBasics(x) == x.provider = None \/ x.name = NoName

MissingIdp(x) == x.idp = None \/ (x.idp = "external" /\ ~x.idpSecret)

MissingEndpoints(x) == ~x.mgmt \/ ~x.endpoint

MeshDone(x) == IF x.type = "vpn" THEN x.zone ELSE x.mgmt = x.zone

\* Mutant: the API token counts as given in every session.
MissingProviderNoToken(x) ==
    \/ x.provider = None
    \/ x.provider \in {"aws", "azure"} /\ x.provider \notin x.spec
    \/ UsesHCloud(x) /\ ("hetzner" \notin x.spec \/ x.replicas = 0)
    \/ UsesServers(x) /\ (~x.robot \/ ~x.vswitch \/ x.wk["hetzner"] = {})
    \/ OwnControlPlane(x) /\ (x.cp[x.provider] = {} \/ x.provider \notin x.apiHost)

MissingProvider(x) ==
    \/ x.provider = None
    \/ x.provider \in {"aws", "azure"} /\ x.provider \notin x.spec
    \/ x.provider \in {"azure", "hetzner"} /\ x.provider \notin x.creds
    \/ UsesHCloud(x) /\ ("hetzner" \notin x.spec \/ x.replicas = 0)
    \/ UsesServers(x) /\ (~x.robot \/ ~x.vswitch \/ x.wk["hetzner"] = {})
    \/ OwnControlPlane(x) /\ (x.cp[x.provider] = {} \/ x.provider \notin x.apiHost)

(* The state a finished config without a state file stands for. *)
Completed(x) ==
    {s \in Steps :
        CASE s = "basics"    -> ~MissingBasics(x)
          [] s = "idp"       -> x.type = "vpn" => ~MissingIdp(x)
          [] s = "endpoints" -> x.type = "vpn" => ~MissingEndpoints(x)
          [] s = "mesh"      -> MeshDone(x)
          [] s = "provider"  -> ~MissingProvider(x)
          [] s = "lockdown"  -> x.type = "vpn" \/ x.lockdown # "unset"
          [] s = "security"  -> x.security
          [] s = "git"       -> x.git
          [] OTHER           -> TRUE}

Asks(s) ==
    CASE s = "k8s"       -> s \notin done
      [] s = "basics"    -> s \notin done \/ MissingBasics(c)
      [] s = "idp"       -> c.type = "vpn" /\ (s \notin done \/ MissingIdp(c))
      [] s = "endpoints" -> c.type = "vpn" /\ (s \notin done \/ MissingEndpoints(c))
      [] s = "mesh"      -> s \notin done \/ ~MeshDone(c)
      [] s = "provider"  -> s \notin done \/ MissingProvider(c)
      [] s = "lockdown"  -> /\ c.type = "workload" /\ s \notin done
                            /\ c.mgmt /\ c.mode \in {"bare-metal", "hybrid"}
      [] s = "security"  -> s \notin done
      [] s = "git"       -> s \notin done \/ ~c.git
      [] s = "obmondo"   -> s \notin done

After == [k8s |-> "basics", basics |-> "idp", idp |-> "endpoints", endpoints |-> "mesh",
          mesh |-> "provider", provider |-> "lockdown", lockdown |-> "security",
          security |-> "git", git |-> "confirm", obmondo |-> "general"]

(* applyVPNDefaults: once the Keycloak step is behind, what can be derived *)
(* from its domain is.                                                     *)
WithDefaults(x) ==
    IF x.type = "vpn" /\ x.idp # None THEN [x EXCEPT !.mgmt = TRUE, !.endpoint = TRUE] ELSE x

(***************************************************************************)
(* The parser.                                                             *)
(***************************************************************************)
(* The secrets FillMissingSecrets generates for a config. *)
Wanted(g) == {s \in {"netbird", "keycloak"} :
                IF s = "netbird" THEN g.type = "vpn" ELSE g.idp = "managed"}

(* validateKeycloakConfig, validateHetznerConfig: a VPN cluster runs in     *)
(* HCloud on top of a Keycloak; a workload cluster has none.               *)
AcceptsIdp(g, s) ==
    IF g.type = "vpn"
    THEN /\ g.provider = "hetzner" /\ g.mode = "hcloud"
         /\ g.idp # None /\ g.mgmt /\ g.endpoint
         /\ g.idp = "external" => s.idpSecret
    ELSE g.idp = None

AcceptsAWS(g) == g.provider = "aws" => "aws" \in g.spec \cap g.nodeSpec

AcceptsAzure(g, s) ==
    g.provider = "azure" => "azure" \in g.spec \cap g.nodeSpec \cap s.creds

(* A single-node HCloud cluster has no load balancer, so it needs the name *)
(* of its API server.                                                      *)
AcceptsHCloud(g) ==
    UsesHCloud(g) =>
        /\ "hetzner" \in g.spec /\ g.replicas > 0
        /\ g.mode = "hcloud" /\ g.replicas = 1 /\ ~g.pools => g.endpoint

AcceptsHetzner(g, s) ==
    g.provider = "hetzner" =>
        /\ "hetzner" \in s.creds /\ AcceptsHCloud(g)
        /\ UsesServers(g) => s.robot /\ g.vswitch /\ g.wk["hetzner"] # {}

AcceptsHosts(g) ==
    OwnControlPlane(g) => g.cp[g.provider] # {} /\ g.provider \in g.apiHost

(* validateConfigs. *)
Accepts(g, s) ==
    /\ g.name # NoName /\ g.provider # None /\ g.git
    /\ AcceptsIdp(g, s)
    /\ AcceptsAWS(g) /\ AcceptsAzure(g, s) /\ AcceptsHetzner(g, s) /\ AcceptsHosts(g)

(***************************************************************************)
(* The values a config, the files and the answers range over.              *)
(***************************************************************************)
Config == [name : Clusters \cup {NoName}, provider : Providers \cup {None},
           type : {"workload", "vpn"}, mode : {"hcloud", "bare-metal", "hybrid"},
           idp : {None, "managed", "external"}, idpSecret : BOOLEAN,
           mgmt : BOOLEAN, zone : BOOLEAN, apiKey : BOOLEAN, endpoint : BOOLEAN,
           spec : SUBSET Providers, creds : SUBSET Providers, robot : BOOLEAN,
           nodeSpec : SUBSET Providers, replicas : Nat, pools : BOOLEAN,
           vswitch : BOOLEAN, cp : [Racks -> SUBSET Hosts], wk : [Racks -> SUBSET Hosts],
           apiHost : SUBSET Providers, lockdown : {"unset", "no", "yes"},
           security : BOOLEAN, git : BOOLEAN]

SecretsFile == [creds : SUBSET Providers, robot : BOOLEAN, idpSecret : BOOLEAN,
                apiKey : BOOLEAN, minted : SUBSET {"netbird", "keycloak"}]

Told == [kind : Kinds \cup {<<>>}, mode : {None, "hcloud", "bare-metal", "hybrid"},
         idp : {None, "managed", "external"}, mesh : {None, "joined", "declined"},
         cp : [Racks -> SUBSET Hosts], wk : [Racks -> SUBSET Hosts]]

ASSUME FilesAssumption ==
    /\ IsFiniteSet(Hosts)
    /\ NoFile \notin Config /\ NoFile \notin SecretsFile

(***************************************************************************)
(* Sessions.                                                               *)
(***************************************************************************)
(* A session asks for everything, continues the config of its directory,   *)
(* or has found one there that it neither continues nor has asked anew for.*)
Origins == {"fresh", "loaded", "unasked"}

NothingTold == [kind |-> <<>>, mode |-> None, idp |-> None, mesh |-> None,
                cp |-> NoHosts, wk |-> NoHosts]

(* What general.yaml keeps of the answers for the kind of cluster it has. *)
ToldFor(x) ==
    [told EXCEPT !.mode = IF x.provider = "hetzner" THEN @ ELSE None,
                 !.cp   = Listed(x, @, OwnControlPlane(x)),
                 !.wk   = Listed(x, @, OwnWorkers(x))]

Nothing == [general |-> NoFile, secrets |-> NoFile, state |-> NoFile]

Init ==
    /\ pc = "idle" /\ dir = NoName /\ c = Default(NoName) /\ done = {}
    /\ told = NothingTold /\ origin = "fresh" /\ saving = FALSE
    /\ files = [d \in Dirs |-> Nothing]
    /\ toldAt = [d \in Dirs |-> NothingTold]
    /\ confirmed = {}
    /\ used = [d \in Dirs |-> {}] /\ dropped = {}
    /\ sessions = 0 /\ redos = 0

End ==
    /\ pc' = "idle" /\ dir' = NoName /\ c' = Default(NoName) /\ done' = {}
    /\ told' = NothingTold /\ origin' = "fresh" /\ saving' = FALSE

(* `config generate` for a cluster (its directory, the name pre-filled) or *)
(* for a directory the operator spelled out.                               *)
Start(d) ==
    /\ pc = "idle" /\ sessions < MaxSessions
    /\ files[d] = Nothing => sessions < MaxNew
    /\ IF files[d] = Nothing
       THEN pc' = "k8s" /\ origin' = "fresh"
       ELSE pc' = "load" /\ origin' = "unasked"
    /\ dir' = d
    /\ c' = Default(IF d \in Clusters THEN d ELSE NoName)
    /\ sessions' = sessions + 1
    /\ UNCHANGED <<done, told, saving, disk, redos>>

(* What was dropped cannot be read back: those answers are as if never     *)
(* given.                                                                  *)
LoadExisting ==
    /\ pc = "load"
    /\ LET f == files[dir]
           s == IF f.secrets = NoFile THEN NoSecrets ELSE f.secrets
           x == Loaded(c.name, f.general, s)
       IN  /\ c' = x
           /\ done' = IF f.state = NoFile THEN Completed(x) ELSE f.state
    /\ told' = IF dir \in dropped THEN NothingTold ELSE toldAt[dir]
    /\ origin' = "loaded"
    /\ pc' = "k8s"
    /\ UNCHANGED <<dir, saving, disk, bounds>>

(* Declining clears the pre-filled name, so that it is asked for. *)
StartFresh ==
    /\ pc = "load"
    /\ c' = [c EXCEPT !.name = NoName]
    /\ pc' = "k8s"
    /\ UNCHANGED <<done, session, disk, bounds>>

Skip ==
    /\ pc \in Steps /\ ~Asks(pc)
    /\ c' = IF pc = "idp" THEN WithDefaults(c) ELSE c
    /\ done' = IF pc = "lockdown" /\ c.type = "workload" THEN done \cup {pc} ELSE done
    /\ pc' = After[pc]
    /\ UNCHANGED <<session, disk, bounds>>

(* The form of step s turns the config into x and the record of the        *)
(* answers into t.                                                         *)
Answer(s, x, t) ==
    /\ Asks(s)
    /\ c' = x /\ told' = t
    /\ done' = done \cup {s}
    /\ pc' = After[s]
    /\ origin' = IF s = "basics" /\ origin = "unasked" THEN "fresh" ELSE origin
    /\ UNCHANGED <<dir, saving, disk, bounds>>

PickK8sProfile == pc = "k8s" /\ Answer("k8s", c, told)

Basics ==
    /\ pc = "basics"
    /\ \E k \in {a.kind : a \in Answers}, n \in Clusters :
          /\ c.provider # None => <<<<c.provider, c.type>>, k>> \in Switches
          /\ Answer("basics", [c EXCEPT !.name = n, !.provider = k[1], !.type = k[2]],
                    [told EXCEPT !.kind = k])

Keycloak ==
    /\ pc = "idp"
    /\ \E m \in {"managed", "external"} :
          Answer("idp", WithDefaults([c EXCEPT !.idp = m, !.idpSecret = @ \/ m = "external"]),
                 [told EXCEPT !.idp = m])

Endpoints ==
    /\ pc = "endpoints"
    /\ Answer("endpoints", [c EXCEPT !.mgmt = TRUE, !.endpoint = TRUE], told)

MeshZone ==
    /\ pc = "mesh" /\ c.type = "vpn"
    /\ Answer("mesh", [c EXCEPT !.zone = TRUE], [told EXCEPT !.mesh = "joined"])

JoinMesh ==
    /\ pc = "mesh" /\ c.type = "workload"
    /\ Answer("mesh", [c EXCEPT !.mgmt = TRUE, !.zone = TRUE, !.apiKey = TRUE],
              [told EXCEPT !.mesh = "joined"])

DeclineMesh ==
    /\ pc = "mesh" /\ c.type = "workload"
    /\ Answer("mesh", [c EXCEPT !.mgmt = FALSE, !.zone = FALSE, !.apiKey = FALSE],
              [told EXCEPT !.mesh = "declined"])

Lockdown ==
    /\ pc = "lockdown"
    /\ \E v \in {"no", "yes"} : Answer("lockdown", [c EXCEPT !.lockdown = v], told)

Security == pc = "security" /\ Answer("security", [c EXCEPT !.security = TRUE], told)

GitSSH == pc = "git" /\ Answer("git", [c EXCEPT !.git = TRUE], told)

Obmondo == pc = "obmondo" /\ Answer("obmondo", c, told)

(***************************************************************************)
(* The provider's forms. The Hetzner and the bare-metal one walk phases    *)
(* forwards on Continue and backwards on Back; a phase that collects hosts *)
(* starts from an empty list.                                              *)
(***************************************************************************)
EnterControlPlane(x) ==
    /\ pc' = "cp"
    /\ c' = [x EXCEPT !.cp[x.provider] = {}]
    /\ told' = [told EXCEPT !.cp[x.provider] = {}]

EnterWorkers(x) ==
    /\ pc' = "workers"
    /\ c' = [x EXCEPT !.wk[x.provider] = {}]
    /\ told' = [told EXCEPT !.wk[x.provider] = {}]

ProviderDone(x) ==
    /\ c' = x
    /\ done' = done \cup {"provider"}
    /\ pc' = After["provider"]
    /\ UNCHANGED told

Phase == UNCHANGED <<dir, origin, saving, disk, bounds>>

PickMode ==
    /\ pc = "provider" /\ Asks("provider") /\ c.provider = "hetzner"
    /\ \E a \in Answers :
          /\ a.kind = <<c.provider, c.type>>
          /\ c' = [c EXCEPT !.mode = a.mode]
          /\ told' = [told EXCEPT !.mode = a.mode]
    /\ pc' = "credentials"
    /\ UNCHANGED done /\ Phase

HetznerForm ==
    /\ pc = "credentials"
    /\ \E r \in Replicas :
          LET x == [c EXCEPT !.creds = @ \cup {"hetzner"}, !.replicas = r,
                             !.robot = @ \/ UsesServers(c),
                             !.spec = IF UsesHCloud(c) THEN @ \cup {"hetzner"} ELSE @ \ {"hetzner"}]
          IN  IF c.mode = "hcloud"
              THEN ProviderDone([x EXCEPT !.pools = TRUE])
              ELSE pc' = "vswitch" /\ c' = x /\ UNCHANGED <<done, told>>
    /\ Phase

VSwitch ==
    /\ pc = "vswitch"
    /\ LET x == [c EXCEPT !.vswitch = TRUE]
       IN  IF OwnControlPlane(c) THEN EnterControlPlane(x) ELSE EnterWorkers(x)
    /\ UNCHANGED done /\ Phase

(* AWS credentials may be left to ~/.aws, where the parser finds them.      *)
AWSAnswers(x) == [x EXCEPT !.spec = @ \cup {"aws"}, !.nodeSpec = @ \cup {"aws"}]

AzureAnswers(x) ==
    [x EXCEPT !.spec = @ \cup {"azure"}, !.nodeSpec = @ \cup {"azure"},
              !.creds = @ \cup {"azure"}]

(* One form, with what postProcess derives; nothing to ask for local.      *)
CloudForm ==
    /\ pc = "provider" /\ Asks("provider") /\ c.provider \in {"aws", "azure", "local"}
    /\ ProviderDone(CASE c.provider = "aws"   -> AWSAnswers(c)
                      [] c.provider = "azure" -> AzureAnswers(c)
                      [] OTHER                -> c)
    /\ Phase

BareMetalForm ==
    /\ pc = "provider" /\ Asks("provider") /\ c.provider = "bare-metal"
    /\ EnterControlPlane(c)
    /\ UNCHANGED done /\ Phase

\* Mutant: the form looks at the list it is filling only.
FreeInRole(h) == h \notin IF pc = "cp" THEN c.cp[c.provider] ELSE c.wk[c.provider]

(* The form refuses a server it already has in either role. *)
Free(h) == h \notin c.cp[c.provider] \cup c.wk[c.provider]

(* A Hetzner control plane has as many servers as the HA question said; a  *)
(* bare-metal one as many as the operator wants, an even number of which   *)
(* is asked for again.                                                     *)
AddControlPlane(h) ==
    /\ pc = "cp" /\ Free(h)
    /\ LET p == c.provider
           hosts == c.cp[p] \cup {h}
           x == [c EXCEPT !.cp[p] = hosts]
       IN  \/ /\ p = "bare-metal" \/ Cardinality(hosts) < c.replicas
              /\ pc' = "cp" /\ c' = x /\ told' = [told EXCEPT !.cp[p] = hosts]
           \/ /\ p = "hetzner" => Cardinality(hosts) >= c.replicas
              /\ Cardinality(hosts) % 2 = 1
              /\ pc' = "cpDone" /\ c' = x /\ told' = [told EXCEPT !.cp[p] = hosts]
           \/ /\ p = "bare-metal" /\ Cardinality(hosts) % 2 = 0
              /\ EnterControlPlane(x)
    /\ UNCHANGED done /\ Phase

AddWorker(h) ==
    /\ pc = "workers" /\ Free(h)
    /\ c' = [c EXCEPT !.wk[c.provider] = @ \cup {h}]
    /\ told' = [told EXCEPT !.wk[c.provider] = @ \cup {h}]
    /\ UNCHANGED <<pc, done>> /\ Phase

NoMoreWorkers ==
    /\ pc = "workers"
    /\ c.provider = "hetzner" => c.wk["hetzner"] # {}
    /\ pc' = "workersDone"
    /\ UNCHANGED <<c, done, told>> /\ Phase

Continue ==
    /\ \/ pc = "cpDone" /\ EnterWorkers(c) /\ UNCHANGED done
       \/ /\ pc = "workersDone" /\ OwnControlPlane(c)
          /\ pc' = "apiHost" /\ UNCHANGED <<c, done, told>>
       \/ pc = "workersDone" /\ ~OwnControlPlane(c) /\ ProviderDone(c)
    /\ Phase

Again == redos < MaxRedos /\ redos' = redos + 1

Back ==
    /\ Again
    /\ \/ /\ \/ pc = "cpDone" /\ c.provider = "hetzner"
             \/ pc = "workersDone" /\ ~OwnControlPlane(c)
          /\ pc' = "vswitch" /\ UNCHANGED <<c, told>>
       \/ /\ \/ pc = "cpDone" /\ c.provider = "bare-metal"
             \/ pc = "workersDone" /\ OwnControlPlane(c)
          /\ EnterControlPlane(c)
    /\ UNCHANGED <<done, dir, origin, saving, disk, sessions>>

ApiHost ==
    /\ pc = "apiHost"
    /\ ProviderDone([c EXCEPT !.apiHost = @ \cup {c.provider}])
    /\ Phase

(***************************************************************************)
(* The end of a session: the final confirm, Ctrl+C, the files.             *)
(***************************************************************************)
Confirm ==
    /\ pc = "confirm"
    /\ pc' = "obmondo"
    /\ UNCHANGED <<c, done, session, disk, bounds>>

(* No: round again, with the last answers pre-filled. *)
Redo ==
    /\ pc = "confirm"
    /\ Again
    /\ pc' = "basics" /\ done' = {}
    /\ UNCHANGED <<c, session, disk, sessions>>

Writing == {"general", "secrets", "state"}

(* Ctrl+C without saving, or an error that ends the prompt: a Robot lookup *)
(* given up, an Azure key that cannot be read.                             *)
Leave ==
    /\ pc \notin Writing \cup {"idle"}
    /\ End
    /\ UNCHANGED <<disk, bounds>>

AbortAndSave ==
    /\ pc \notin Writing \cup {"idle"}
    /\ saving' = TRUE /\ pc' = "general"
    /\ UNCHANGED <<c, done, dir, told, origin, disk, bounds>>

\* Mutant: a config goes where the session was started.
TargetStarted == dir

(* resolveWriteTarget: a config of a named cluster goes where its name     *)
(* says.                                                                   *)
Target == IF dir \in SpelledOut \/ c.name = NoName THEN dir ELSE c.name

(* Ctrl+C offers to save at "Load existing?" too, and after "Start fresh"  *)
(* before anything is asked: defaults replace a config whose answers       *)
(* nobody took back.                                                       *)
WriteGeneral ==
    /\ pc = "general"
    /\ files' = [files EXCEPT ![Target].general = General(c)]
    /\ IF origin = "unasked"
       THEN toldAt' = toldAt /\ dropped' = dropped \cup {Target}
       ELSE /\ toldAt' = [toldAt EXCEPT ![Target] = ToldFor(c)]
            /\ dropped' = dropped \ {Target}
    /\ confirmed' = confirmed \ {Target}
    /\ used' = [used EXCEPT ![Target] = IF origin # "fresh" /\ dir = Target THEN @ ELSE {}]
    /\ pc' = "secrets"
    /\ UNCHANGED <<c, done, session, bounds>>

WriteSecrets ==
    /\ pc = "secrets"
    /\ files' = [files EXCEPT ![Target].secrets = Secrets(c)]
    /\ pc' = "state"
    /\ UNCHANGED <<c, done, session, toldAt, confirmed, used, dropped, bounds>>

WriteState ==
    /\ pc = "state" /\ saving
    /\ files' = [files EXCEPT ![Target].state = done]
    /\ End
    /\ UNCHANGED <<toldAt, confirmed, used, dropped, bounds>>

RemoveState ==
    /\ pc = "state" /\ ~saving
    /\ files' = [files EXCEPT ![Target].state = NoFile]
    /\ confirmed' = confirmed \cup {Target}
    /\ End
    /\ UNCHANGED <<toldAt, used, dropped, bounds>>

(* The session dies, or a write fails, between two files. *)
Kill ==
    /\ pc \in {"secrets", "state"}
    /\ End
    /\ UNCHANGED <<disk, bounds>>

(* A command is run from d: it fills in the secrets it needs (atomically,  *)
(* never replacing one), whether or not it then refuses the config.        *)
Parse(d) ==
    /\ pc = "idle"
    /\ files[d].general # NoFile /\ files[d].secrets # NoFile
    /\ LET wanted == Wanted(files[d].general)
       IN  /\ ~ wanted \subseteq files[d].secrets.minted
           /\ files' = [files EXCEPT ![d].secrets.minted = @ \cup wanted]
           /\ used' = [used EXCEPT ![d] = @ \cup wanted]
    /\ UNCHANGED <<pc, c, done, session, toldAt, confirmed, dropped, bounds>>

(* Nobody has to run the next one. *)
Rest == pc = "idle" /\ UNCHANGED vars

Next ==
    \/ \E d \in Dirs : Start(d) \/ Parse(d)
    \/ LoadExisting \/ StartFresh \/ Skip
    \/ PickK8sProfile \/ Basics \/ Keycloak \/ Endpoints
    \/ MeshZone \/ JoinMesh \/ DeclineMesh
    \/ PickMode \/ HetznerForm \/ VSwitch \/ CloudForm \/ BareMetalForm
    \/ \E h \in Hosts : AddControlPlane(h) \/ AddWorker(h)
    \/ NoMoreWorkers \/ Continue \/ Back \/ ApiHost
    \/ Lockdown \/ Security \/ GitSSH \/ Obmondo
    \/ Confirm \/ Redo \/ Leave \/ AbortAndSave
    \/ WriteGeneral \/ WriteSecrets \/ WriteState \/ RemoveState \/ Kill
    \/ Rest

Spec == Init /\ [][Next]_vars

(***************************************************************************)
(* Properties.                                                             *)
(***************************************************************************)
(* Type invariant of the session, the directories and the bounds. *)
TypeOK ==
    /\ pc \in Steps \cup Writing \cup
          {"idle", "load", "credentials", "vswitch", "cp", "cpDone", "workers", "workersDone",
           "apiHost", "confirm"}
    /\ dir \in Dirs \cup {NoName} /\ c \in Config /\ done \subseteq Steps /\ told \in Told
    /\ origin \in Origins /\ saving \in BOOLEAN
    /\ \A d \in Dirs :
          /\ files[d].general = NoFile \/ files[d].general \in Config
          /\ files[d].secrets = NoFile \/ files[d].secrets \in SecretsFile
          /\ files[d].state = NoFile \/ files[d].state \subseteq Steps
          /\ toldAt[d] \in Told
    /\ confirmed \subseteq Dirs /\ dropped \subseteq Dirs
    /\ used \in [Dirs -> SUBSET {"netbird", "keycloak"}]
    /\ sessions \in 0 .. MaxSessions /\ redos \in 0 .. MaxRedos

(* What the prompt writes after the operator confirmed, the parser         *)
(* accepts: whatever was answered, skipped, gone back on, saved and        *)
(* resumed, or lost with a session killed between two files, no question   *)
(* the parser needs an answer to is left unasked.                          *)
WrittenParses == \A d \in confirmed : Accepts(files[d].general, files[d].secrets)

(* No server is both a control-plane and a worker host: not in a session,  *)
(* whatever phases it went back through or resumed into, nor in a file.    *)
ServersOnce ==
    \A x \in {c} \cup {files[d].general : d \in Dirs} :
        x # NoFile => \A p \in Racks : x.cp[p] \cap x.wk[p] = {}

(* The general.yaml of d carries the answers last given for it: the kind   *)
(* of cluster, the mode, the identity provider, whether it joins the mesh, *)
(* its servers.                                                            *)
Carried(d) ==
    LET g == files[d].general
        t == toldAt[d]
    IN  g # NoFile =>
          /\ t.kind # <<>> => t.kind = <<g.provider, g.type>>
          /\ t.mode # None => g.mode = t.mode
          /\ t.idp # None => g.idp = t.idp
          /\ t.mesh = "joined" => g.mgmt /\ g.zone
          /\ t.mesh = "declined" => ~g.mgmt /\ ~g.zone
          /\ g.cp = t.cp /\ g.wk = t.wk

(* Answers are lost in two ways only: Ctrl+C at "Load existing?", or after *)
(* "Start fresh" before the first answer, and then saving. Loading,        *)
(* deriving the state of a config without a state file, skipping, going    *)
(* back, saving later, dying between two files and rendering lose none.    *)
AnswersKept == \A d \in Dirs \ dropped : Carried(d)

(* The prompt's promise at that question, "Files are rewritten only after  *)
(* the final confirm" (resume.go:97), as far as the answers go: an         *)
(* interrupted session costs none. False of the code, see AnswersKept.     *)
AnswersNeverDropped == \A d \in Dirs : Carried(d)

(* The directory of a cluster holds that cluster's config, or one saved    *)
(* before it was named: a session started on one cluster that went on to   *)
(* name another never leaves its files with the first.                     *)
DirNamesCluster ==
    \A d \in Clusters :
        files[d].general # NoFile => files[d].general.name \in {d, NoName}

(* Secrets generated for a cluster and used by a command are there on the  *)
(* next run as long as the operator continues its config (FillMissingSecrets*)
(* promises that "re-runs read the persisted values").                     *)
SecretsKept ==
    \A d \in confirmed : used[d] \subseteq files[d].secrets.minted

(* A config with a firewall lockdown is on a mesh to fall back to.         *)
LockdownOnMesh ==
    \A d \in confirmed : files[d].general.lockdown = "yes" => files[d].general.mgmt

(* A hybrid cluster gets no hcloud pool nobody asked for: pools there are  *)
(* an opt-in in general.yaml.                                              *)
PoolsAsked ==
    \A d \in confirmed : files[d].general.mode = "hybrid" => ~files[d].general.pools

(* A confirmed config's bare-metal control plane has an odd number of      *)
(* hosts.                                                                  *)
OddControlPlane ==
    \A d \in confirmed : \A p \in Racks :
        LET n == Cardinality(files[d].general.cp[p]) IN n = 0 \/ n % 2 = 1

(* A confirmed workload config on a mesh has the operator's API key.       *)
MeshKeyKept ==
    \A d \in confirmed :
        files[d].general.type = "workload" /\ files[d].general.zone => files[d].secrets.apiKey
=============================================================================
