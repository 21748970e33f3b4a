------------------------ MODULE PromptSession_proofs ------------------------
(***************************************************************************)
(* Proofs about PromptSession. TypeOK and ServersOnce follow from IInv,    *)
(* DirNamesCluster from one more step lemma. AnswersKept needs CarriesInv: *)
(* the session's config, not only its files, carries what was answered.    *)
(* WrittenParses needs ProgressInv, what a session has answered wherever   *)
(* it is, in a phase of a form too, and WrittenInv, what the files hold    *)
(* while it writes them. Both have hypotheses on the operators, since both *)
(* are false of some (PromptSession_cloud.cfg, and README, section 6).     *)
(***************************************************************************)
EXTENDS PromptSession, FiniteSetTheorems, TLAPS

(* A config with every field in its range and no server in two roles.      *)
Sound(x) == x \in Config /\ \A p \in Racks : x.cp[p] \cap x.wk[p] = {}

File == [general : Config \cup {NoFile}, secrets : SecretsFile \cup {NoFile},
         state : (SUBSET Steps) \cup {NoFile}]

(* Where a session is while it asks, but for the API server's name.        *)
Asking == Steps \cup {"credentials", "vswitch", "cp", "cpDone", "workers", "workersDone",
                      "confirm", "general"}

\* The session's own part of the invariant.
SessionInv ==
    /\ pc \in Asking \cup Writing \cup {"idle", "load", "apiHost"}
    /\ dir \in Dirs \cup {NoName}
    /\ pc # "idle" => dir \in Dirs
    /\ Sound(c) /\ done \subseteq Steps /\ told \in Told
    /\ origin \in Origins /\ saving \in BOOLEAN
    /\ sessions \in 0 .. MaxSessions /\ redos \in 0 .. MaxRedos

\* The directories' part: a directory without a general.yaml has no file.
DiskInv ==
    /\ files \in [Dirs -> File]
    /\ \A d \in Dirs : files[d].general # NoFile => Sound(files[d].general)
    /\ \A d \in Dirs : files[d].general = NoFile => files[d] = Nothing
    /\ toldAt \in [Dirs -> Told]
    /\ confirmed \subseteq Dirs /\ dropped \subseteq Dirs
    /\ used \in [Dirs -> SUBSET {"netbird", "keycloak"}]

\* What joins the two: a config is loaded from a general.yaml, the other two
\* files are written where one has been, and the API server's name is asked
\* for of clusters on listed servers.
JoinInv ==
    /\ pc = "apiHost" => c.provider \in Racks
    /\ pc = "load" => files[dir].general # NoFile
    /\ pc \in {"secrets", "state"} => files[Target].general # NoFile

IInv == SessionInv /\ DiskInv /\ JoinInv

-----------------------------------------------------------------------------
(* Configs and answers.                                                    *)

LEMMA DefaultSound ==
    ASSUME NEW n \in Clusters \cup {NoName}
    PROVE  Sound(Default(n))
BY DEF Sound, Default, Config, NoHosts, Racks, None

LEMMA NothingToldTyped == NothingTold \in Told
BY DEF NothingTold, Told, NoHosts, Racks, None

LEMMA BasicsSound ==
    ASSUME NEW x, Sound(x), NEW n \in Clusters, NEW k \in Kinds
    PROVE  Sound([x EXCEPT !.name = n, !.provider = k[1], !.type = k[2]])
BY DEF Sound, Config, Kinds

\* General keeps a subset of the hosts in either role.
LEMMA ListedHosts ==
    ASSUME NEW x \in Config, NEW hosts \in [Racks -> SUBSET Hosts], NEW b \in BOOLEAN
    PROVE  /\ Listed(x, hosts, b) \in [Racks -> SUBSET Hosts]
           /\ \A p \in Racks : Listed(x, hosts, b)[p] \subseteq hosts[p]
BY DEF Listed

LEMMA GeneralSound ==
    ASSUME NEW x, Sound(x)
    PROVE  Sound(General(x))
<1> DEFINE cp == Listed(x, x.cp, OwnControlPlane(x))
           wk == Listed(x, x.wk, OwnWorkers(x))
<1>1. x \in Config /\ x.cp \in [Racks -> SUBSET Hosts] /\ x.wk \in [Racks -> SUBSET Hosts]
  BY DEF Sound, Config
<1>2. OwnControlPlane(x) \in BOOLEAN /\ OwnWorkers(x) \in BOOLEAN /\ UsesHCloud(x) \in BOOLEAN
      /\ UsesServers(x) \in BOOLEAN
  BY DEF OwnControlPlane, OwnWorkers, UsesHCloud, UsesServers
<1>3. cp \in [Racks -> SUBSET Hosts] /\ wk \in [Racks -> SUBSET Hosts]
      /\ \A p \in Racks : cp[p] \subseteq x.cp[p] /\ wk[p] \subseteq x.wk[p]
  BY <1>1, <1>2, ListedHosts
<1> DEFINE mode == IF x.provider = "hetzner" THEN x.mode ELSE "hcloud"
           mgmt == x.mgmt /\ (x.type = "vpn" \/ x.zone)
           end  == x.endpoint /\ x.type = "vpn"
           spec == {p \in {x.provider} : p \in x.spec /\ (p = "hetzner" => UsesHCloud(x))}
           node == x.nodeSpec \cap {x.provider}
           size == IF UsesHCloud(x) THEN x.replicas ELSE 0
           pool == x.pools /\ UsesHCloud(x)
           vsw  == x.vswitch /\ UsesServers(x)
           api  == {p \in x.apiHost : p = x.provider /\ OwnControlPlane(x)}
<1>4. /\ mode \in {"hcloud", "bare-metal", "hybrid"} /\ mgmt \in BOOLEAN /\ end \in BOOLEAN
      /\ pool \in BOOLEAN /\ vsw \in BOOLEAN
      /\ spec \subseteq Providers /\ node \subseteq Providers /\ api \subseteq Providers
      /\ size \in Nat
  <2>1. /\ x.mode \in {"hcloud", "bare-metal", "hybrid"} /\ x.spec \subseteq Providers
        /\ x.nodeSpec \subseteq Providers /\ x.apiHost \subseteq Providers /\ x.replicas \in Nat
        /\ x.mgmt \in BOOLEAN /\ x.endpoint \in BOOLEAN /\ x.pools \in BOOLEAN
        /\ x.vswitch \in BOOLEAN /\ x.zone \in BOOLEAN
    BY <1>1 DEF Config
  <2> QED
    BY <2>1, <1>2
<1> DEFINE y == [x EXCEPT !.mode = mode, !.mgmt = mgmt, !.endpoint = end, !.spec = spec,
                          !.nodeSpec = node]
           z == [y EXCEPT !.replicas = size, !.pools = pool, !.vswitch = vsw]
           w == [z EXCEPT !.cp = cp, !.wk = wk, !.apiHost = api]
<1>5. General(x) = [w EXCEPT !.idpSecret = FALSE, !.apiKey = FALSE, !.creds = {}, !.robot = FALSE]
  BY DEF General
<1> HIDE DEF mode, mgmt, end, spec, node, size, pool, vsw, api, cp, wk
<1>y. y \in Config
  BY <1>1, <1>4 DEF Config
<1> HIDE DEF y
<1>z. z \in Config
  BY <1>y, <1>4 DEF Config
<1> HIDE DEF z
<1>w. w \in Config /\ w.cp = cp /\ w.wk = wk
  BY <1>z, <1>3, <1>4 DEF Config
<1> HIDE DEF w
<1>6. General(x) \in Config
  BY <1>w, <1>5 DEF Config
<1>7. General(x).cp = cp /\ General(x).wk = wk
  BY <1>w, <1>5 DEF Config
<1> QED
  BY <1>1, <1>3, <1>6, <1>7 DEF Sound

LEMMA LoadedSound ==
    ASSUME NEW n \in Clusters \cup {NoName}, NEW g, Sound(g), NEW s \in SecretsFile \cup {NoSecrets}
    PROVE  Sound(Loaded(n, g, s))
<1>1. g.cp["hetzner"] \in SUBSET Hosts
  BY DEF Sound, Config, Racks
<1>2. IsFiniteSet(g.cp["hetzner"])
  BY <1>1, FilesAssumption, FS_Subset
<1>3. Cardinality(g.cp["hetzner"]) \in Nat
  BY <1>2, FS_CardinalityType
<1>4. /\ s.creds \in SUBSET Providers /\ s.robot \in BOOLEAN /\ s.idpSecret \in BOOLEAN
      /\ s.apiKey \in BOOLEAN /\ s.minted \in SUBSET {"netbird", "keycloak"}
  <2>1. NoSecrets \in SecretsFile
    BY DEF SecretsFile, NoSecrets
  <2> QED
    BY <2>1 DEF SecretsFile
<1> DEFINE r == IF g.cp["hetzner"] # {} THEN Cardinality(g.cp["hetzner"]) ELSE g.replicas
           k == s.idpSecret \/ "keycloak" \in s.minted
           m == IF g.name = NoName THEN n ELSE g.name
<1>5. r \in Nat /\ k \in BOOLEAN /\ m \in Clusters \cup {NoName} /\ g \in Config
  BY <1>3, <1>4 DEF Sound, Config
<1> DEFINE y == [g EXCEPT !.name = m, !.replicas = r, !.nodeSpec = {}, !.security = FALSE]
<1>6. Loaded(n, g, s) = [y EXCEPT !.creds = s.creds, !.robot = s.robot,
                                  !.apiKey = s.apiKey, !.idpSecret = k]
  BY DEF Loaded
<1> HIDE DEF r, k, m
<1>y. y \in Config /\ y.cp = g.cp /\ y.wk = g.wk
  BY <1>5 DEF Config
<1> HIDE DEF y
<1>7. Loaded(n, g, s) \in Config
  <2>1. ASSUME NEW a \in SUBSET Providers, NEW b \in BOOLEAN, NEW d \in BOOLEAN,
               NEW e \in BOOLEAN
        PROVE  [y EXCEPT !.creds = a, !.robot = b, !.apiKey = d, !.idpSecret = e] \in Config
    BY <1>y DEF Config
  <2>2. [y EXCEPT !.creds = s.creds, !.robot = s.robot, !.apiKey = s.apiKey,
                  !.idpSecret = k] \in Config
    BY <1>4, <1>5, <2>1, Zenon
  <2> QED
    BY <1>6, <2>2, Zenon
<1>8. Loaded(n, g, s).cp = g.cp /\ Loaded(n, g, s).wk = g.wk
  BY <1>6, <1>y DEF Config
<1> QED
  BY <1>7, <1>8 DEF Sound

LEMMA SecretsTyped ==
    ASSUME NEW x \in Config
    PROVE  Secrets(x) \in SecretsFile
BY DEF Secrets, SecretsFile, Config

LEMMA CompletedSteps ==
    ASSUME NEW x
    PROVE  Completed(x) \subseteq Steps
BY DEF Completed

LEMMA AfterSteps == \A s \in Steps : After[s] \in Steps \cup {"confirm", "general"}
BY DEF After, Steps

LEMMA DefaultsSound ==
    ASSUME NEW x, Sound(x)
    PROVE  Sound(WithDefaults(x))
<1>1. x \in Config /\ [x EXCEPT !.mgmt = TRUE, !.endpoint = TRUE] \in Config
  BY DEF Sound, Config
<1>2. [x EXCEPT !.mgmt = TRUE, !.endpoint = TRUE].cp = x.cp
      /\ [x EXCEPT !.mgmt = TRUE, !.endpoint = TRUE].wk = x.wk
  BY <1>1 DEF Config
<1> QED
  BY <1>1, <1>2 DEF WithDefaults, Sound

\* Either list of hosts replaced.
LEMMA RackUpdate ==
    ASSUME NEW x \in Config, NEW hs \in [Racks -> SUBSET Hosts]
    PROVE  /\ [x EXCEPT !.cp = hs] \in Config /\ [x EXCEPT !.wk = hs] \in Config
           /\ [x EXCEPT !.cp = hs].cp = hs /\ [x EXCEPT !.cp = hs].wk = x.wk
           /\ [x EXCEPT !.wk = hs].wk = hs /\ [x EXCEPT !.wk = hs].cp = x.cp
<1>1. [x EXCEPT !.cp = hs] \in Config
  BY DEF Config
<1>2. [x EXCEPT !.wk = hs] \in Config
  BY DEF Config
<1>3. [x EXCEPT !.cp = hs].cp = hs /\ [x EXCEPT !.cp = hs].wk = x.wk
  BY DEF Config
<1>4. [x EXCEPT !.wk = hs].wk = hs /\ [x EXCEPT !.wk = hs].cp = x.cp
  BY DEF Config
<1> QED
  BY <1>1, <1>2, <1>3, <1>4

\* A list of hosts of one provider replaced by one the other role has none of.
LEMMA HostsSound ==
    ASSUME NEW x, Sound(x), NEW p, NEW hs \in SUBSET Hosts
    PROVE  /\ (p \in Racks => hs \cap x.wk[p] = {}) => Sound([x EXCEPT !.cp[p] = hs])
           /\ (p \in Racks => hs \cap x.cp[p] = {}) => Sound([x EXCEPT !.wk[p] = hs])
<1> DEFINE cp == [x.cp EXCEPT ![p] = hs]
           wk == [x.wk EXCEPT ![p] = hs]
<1>1. x \in Config /\ x.cp \in [Racks -> SUBSET Hosts] /\ x.wk \in [Racks -> SUBSET Hosts]
      /\ \A q \in Racks : x.cp[q] \cap x.wk[q] = {}
  BY DEF Sound, Config
<1>2. cp \in [Racks -> SUBSET Hosts] /\ \A q \in Racks : cp[q] = IF q = p THEN hs ELSE x.cp[q]
  BY <1>1
<1>3. wk \in [Racks -> SUBSET Hosts] /\ \A q \in Racks : wk[q] = IF q = p THEN hs ELSE x.wk[q]
  BY <1>1
<1>4. [x EXCEPT !.cp[p] = hs] = [x EXCEPT !.cp = cp]
  OBVIOUS
<1>5. [x EXCEPT !.wk[p] = hs] = [x EXCEPT !.wk = wk]
  OBVIOUS
<1> HIDE DEF cp, wk
<1>6. ASSUME p \in Racks => hs \cap x.wk[p] = {}
      PROVE  Sound([x EXCEPT !.cp[p] = hs])
  <2>1. /\ [x EXCEPT !.cp = cp] \in Config
        /\ [x EXCEPT !.cp = cp].cp = cp /\ [x EXCEPT !.cp = cp].wk = x.wk
    BY <1>1, <1>2, RackUpdate
  <2>2. \A q \in Racks : cp[q] \cap x.wk[q] = {}
    BY <1>1, <1>2, <1>6
  <2> QED
    BY <1>4, <2>1, <2>2 DEF Sound
<1>7. ASSUME p \in Racks => hs \cap x.cp[p] = {}
      PROVE  Sound([x EXCEPT !.wk[p] = hs])
  <2>1. /\ [x EXCEPT !.wk = wk] \in Config
        /\ [x EXCEPT !.wk = wk].wk = wk /\ [x EXCEPT !.wk = wk].cp = x.cp
    BY <1>1, <1>3, RackUpdate
  <2>2. \A q \in Racks : x.cp[q] \cap wk[q] = {}
    BY <1>1, <1>3, <1>7
  <2> QED
    BY <1>5, <2>1, <2>2 DEF Sound
<1> QED
  BY <1>6, <1>7

LEMMA HostsTold ==
    ASSUME NEW t \in Told, NEW p, NEW hs \in SUBSET Hosts
    PROVE  [t EXCEPT !.cp[p] = hs] \in Told /\ [t EXCEPT !.wk[p] = hs] \in Told
BY DEF Told

-----------------------------------------------------------------------------
(* The initial states, and what a step of a session has to show.           *)

LEMMA InitInv == Init => IInv
<1> SUFFICES ASSUME Init PROVE IInv
  OBVIOUS
<1>1. Sound(c)
  BY DefaultSound DEF Init
<1>2. SessionInv
  <2>1. 0 \in 0 .. MaxSessions /\ 0 \in 0 .. MaxRedos
    BY NamesAssumption
  <2>2. pc \in Asking \cup Writing \cup {"idle", "load", "apiHost"} /\ pc = "idle" /\ dir = NoName
    BY DEF Init
  <2>3. told \in Told /\ done \subseteq Steps /\ origin \in Origins /\ saving \in BOOLEAN
        /\ sessions \in 0 .. MaxSessions /\ redos \in 0 .. MaxRedos
    BY <2>1, NothingToldTyped DEF Init, Origins
  <2> QED
    BY <1>1, <2>2, <2>3 DEF SessionInv
<1>3. Nothing \in File
  BY DEF Nothing, File
<1>4. DiskInv
  BY <1>3, NothingToldTyped DEF Init, DiskInv, Nothing
<1> QED
  BY <1>2, <1>4 DEF Init, IInv, JoinInv

\* A step that leaves the files alone and goes on asking.
LEMMA AskingStep ==
    ASSUME IInv, pc # "idle", dir' = dir, UNCHANGED disk,
           pc' \in Asking, Sound(c'), done' \subseteq Steps, told' \in Told,
           origin' \in Origins, saving' \in BOOLEAN,
           sessions' = sessions, redos' \in 0 .. MaxRedos
    PROVE  IInv'
<1>1. SessionInv'
  BY DEF IInv, SessionInv
<1>2. DiskInv'
  <2>1. files' = files /\ toldAt' = toldAt /\ confirmed' = confirmed /\ used' = used
      /\ dropped' = dropped
    BY DEF disk
  <2> QED
    BY <2>1 DEF IInv, DiskInv
<1>3. JoinInv'
  BY DEF JoinInv, Asking, Steps
<1> QED
  BY <1>1, <1>2, <1>3 DEF IInv

\* A session that is over.
LEMMA EndStep ==
    ASSUME IInv, End, DiskInv', UNCHANGED bounds
    PROVE  IInv'
<1>1. Sound(c')
  BY DefaultSound DEF End
<1>2. SessionInv'
  BY <1>1, NothingToldTyped DEF IInv, SessionInv, End, bounds, Origins
<1>3. JoinInv'
  BY DEF JoinInv, End
<1> QED
  BY <1>2, <1>3 DEF IInv

\* The answer to one step.
LEMMA AnswerStep ==
    ASSUME IInv, NEW s \in Steps, pc = s, NEW x, NEW t, Sound(x), t \in Told, Answer(s, x, t)
    PROVE  IInv'
<1>1. After[s] \in Asking
  BY AfterSteps DEF Asking
<1>2. /\ c' = x /\ told' = t /\ done' = done \cup {s} /\ pc' = After[s]
      /\ dir' = dir /\ origin' \in {"fresh", origin} /\ saving' = saving
      /\ sessions' = sessions /\ redos' = redos /\ UNCHANGED disk
  BY DEF Answer, bounds
<1>3. /\ pc # "idle" /\ done \subseteq Steps /\ origin \in Origins /\ saving \in BOOLEAN
      /\ redos \in 0 .. MaxRedos
  BY DEF IInv, SessionInv, Steps
<1>4. origin' \in Origins
  BY <1>2, <1>3 DEF Origins
<1> QED
  BY <1>1, <1>2, <1>3, <1>4, AskingStep

-----------------------------------------------------------------------------
(* The steps of a session, in the order of the module.                     *)

LEMMA StartLoadStep ==
    ASSUME IInv, NEW d \in Dirs, Start(d) \/ LoadExisting \/ StartFresh
    PROVE  IInv'
<1>1. CASE Start(d)
  <2>1. Sound(c')
    BY <1>1, DefaultSound DEF Start
  <2>2. SessionInv'
    BY <1>1, <2>1, NamesAssumption DEF Start, IInv, SessionInv, Asking, Steps, Origins
  <2>3. files' = files /\ toldAt' = toldAt /\ confirmed' = confirmed /\ used' = used
      /\ dropped' = dropped
    BY <1>1 DEF Start, disk
  <2>4. DiskInv'
    BY <2>3 DEF IInv, DiskInv
  <2>5. JoinInv'
    BY <1>1, <2>3 DEF Start, IInv, DiskInv, JoinInv
  <2> QED
    BY <2>2, <2>4, <2>5 DEF IInv
<1>2. CASE LoadExisting
  <2> DEFINE f == files[dir]
             s == IF f.secrets = NoFile THEN NoSecrets ELSE f.secrets
             x == Loaded(c.name, f.general, s)
  <2>1. /\ dir \in Dirs /\ Sound(f.general) /\ toldAt[dir] \in Told
        /\ f \in File /\ c.name \in Clusters \cup {NoName}
    BY <1>2 DEF LoadExisting, IInv, SessionInv, DiskInv, JoinInv, Sound, Config
  <2>2. s \in SecretsFile \cup {NoSecrets} /\ (f.state = NoFile \/ f.state \subseteq Steps)
    BY <2>1 DEF File
  <2>3. Sound(x)
    BY <2>1, <2>2, LoadedSound
  <2>4. (IF f.state = NoFile THEN Completed(x) ELSE f.state) \subseteq Steps
    BY <2>2, CompletedSteps
  <2>5. /\ c' = x /\ done' = (IF f.state = NoFile THEN Completed(x) ELSE f.state)
        /\ told' \in {NothingTold, toldAt[dir]} /\ origin' \in Origins
        /\ pc' = "k8s" /\ pc = "load"
        /\ dir' = dir /\ saving' = saving /\ UNCHANGED disk
        /\ sessions' = sessions /\ redos' = redos
    BY <1>2 DEF LoadExisting, bounds, Origins
  <2>6. saving \in BOOLEAN /\ redos \in 0 .. MaxRedos /\ "k8s" \in Asking
    BY DEF IInv, SessionInv, Asking, Steps
  <2> HIDE DEF x, s, f
  <2> QED
    BY <2>1, <2>3, <2>4, <2>5, <2>6, NothingToldTyped, AskingStep
<1>3. CASE StartFresh
  <2>1. c \in Config /\ \A p \in Racks : c.cp[p] \cap c.wk[p] = {}
    BY DEF IInv, SessionInv, Sound
  <2>2. [c EXCEPT !.name = NoName] \in Config
    BY <2>1 DEF Config
  <2>3. [c EXCEPT !.name = NoName].cp = c.cp /\ [c EXCEPT !.name = NoName].wk = c.wk
    BY <2>1 DEF Config
  <2>4. Sound(c')
    BY <1>3, <2>1, <2>2, <2>3 DEF StartFresh, Sound
  <2>5. /\ dir' = dir /\ told' = told /\ origin' = origin /\ saving' = saving /\ done' = done
        /\ sessions' = sessions /\ redos' = redos /\ pc' = "k8s" /\ pc = "load"
        /\ UNCHANGED disk
    BY <1>3 DEF StartFresh, session, bounds
  <2>6. /\ done \subseteq Steps /\ told \in Told /\ origin \in Origins /\ saving \in BOOLEAN
        /\ redos \in 0 .. MaxRedos /\ "k8s" \in Asking
    BY DEF IInv, SessionInv, Asking, Steps
  <2> QED
    BY <2>4, <2>5, <2>6, AskingStep
<1> QED
  BY <1>1, <1>2, <1>3

LEMMA SkipStep ==
    ASSUME IInv, Skip
    PROVE  IInv'
<1>1. /\ pc \in Steps /\ pc' = After[pc] /\ dir' = dir /\ told' = told
      /\ origin' = origin /\ saving' = saving /\ sessions' = sessions /\ redos' = redos
      /\ UNCHANGED disk
  BY DEF Skip, session, bounds
<1>2. pc' \in Asking /\ pc # "idle"
  BY <1>1, AfterSteps DEF Asking, Steps
<1>3. Sound(c')
  BY DefaultsSound DEF Skip, IInv, SessionInv
<1>4. done' \subseteq Steps
  BY <1>1 DEF Skip, IInv, SessionInv
<1>5. told \in Told /\ origin \in Origins /\ saving \in BOOLEAN /\ redos \in 0 .. MaxRedos
  BY DEF IInv, SessionInv
<1> QED
  BY <1>1, <1>2, <1>3, <1>4, <1>5, AskingStep

\* The questions that are one form each.
LEMMA FormStep ==
    ASSUME IInv,
           \/ PickK8sProfile \/ Basics \/ Keycloak \/ Endpoints \/ MeshZone \/ JoinMesh
           \/ DeclineMesh \/ Lockdown \/ Security \/ GitSSH \/ Obmondo
    PROVE  IInv'
<1>1. Sound(c) /\ c \in Config /\ (\A p \in Racks : c.cp[p] \cap c.wk[p] = {}) /\ told \in Told
  BY DEF IInv, SessionInv, Sound
<1>2. CASE PickK8sProfile \/ Obmondo
  BY <1>1, <1>2, AnswerStep DEF PickK8sProfile, Obmondo, Steps
<1>3. CASE Basics
  <2>1. PICK k \in {a.kind : a \in Answers}, n \in Clusters :
          /\ Answer("basics", [c EXCEPT !.name = n, !.provider = k[1], !.type = k[2]],
                    [told EXCEPT !.kind = k])
          /\ pc = "basics"
    BY <1>3 DEF Basics
  <2>2. k \in Kinds
    BY AnswersAssumption
  <2>3. Sound([c EXCEPT !.name = n, !.provider = k[1], !.type = k[2]])
    BY <1>1, <2>2, BasicsSound
  <2>4. [told EXCEPT !.kind = k] \in Told
    BY <1>1, <2>2 DEF Told
  <2> QED
    BY <2>1, <2>3, <2>4, AnswerStep DEF Steps
<1>4. CASE Keycloak
  <2>1. PICK m \in {"managed", "external"} :
          /\ Answer("idp", WithDefaults([c EXCEPT !.idp = m, !.idpSecret = @ \/ m = "external"]),
                    [told EXCEPT !.idp = m])
          /\ pc = "idp"
    BY <1>4 DEF Keycloak
  <2> DEFINE b == c.idpSecret \/ m = "external"
             x == [c EXCEPT !.idp = m, !.idpSecret = b]
  <2>2. b \in BOOLEAN
    BY <1>1 DEF Config
  <2>3. Answer("idp", WithDefaults(x), [told EXCEPT !.idp = m])
    BY <2>1
  <2> HIDE DEF b
  <2>4. x \in Config /\ x.cp = c.cp /\ x.wk = c.wk
    BY <1>1, <2>2 DEF Config
  <2>5. Sound(x)
    BY <1>1, <2>4 DEF Sound
  <2>6. Sound(WithDefaults(x))
    BY <2>5, DefaultsSound
  <2>7. [told EXCEPT !.idp = m] \in Told
    BY <1>1 DEF Told
  <2> QED
    BY <2>1, <2>3, <2>6, <2>7, AnswerStep DEF Steps
<1>5. CASE Endpoints
  <2> DEFINE x == [c EXCEPT !.mgmt = TRUE, !.endpoint = TRUE]
  <2>1. x \in Config /\ x.cp = c.cp /\ x.wk = c.wk
    BY <1>1 DEF Config
  <2>2. Sound(x)
    BY <1>1, <2>1 DEF Sound
  <2> QED
    BY <1>1, <1>5, <2>2, AnswerStep DEF Endpoints, Steps
<1>6. CASE MeshZone
  <2> DEFINE x == [c EXCEPT !.zone = TRUE]
  <2>1. x \in Config /\ x.cp = c.cp /\ x.wk = c.wk
    BY <1>1 DEF Config
  <2>2. Sound(x) /\ [told EXCEPT !.mesh = "joined"] \in Told
    BY <1>1, <2>1 DEF Sound, Told
  <2> QED
    BY <1>6, <2>2, AnswerStep DEF MeshZone, Steps
<1>7. CASE JoinMesh
  <2> DEFINE x == [c EXCEPT !.mgmt = TRUE, !.zone = TRUE, !.apiKey = TRUE]
  <2>1. x \in Config /\ x.cp = c.cp /\ x.wk = c.wk
    BY <1>1 DEF Config
  <2>2. Sound(x) /\ [told EXCEPT !.mesh = "joined"] \in Told
    BY <1>1, <2>1 DEF Sound, Told
  <2> QED
    BY <1>7, <2>2, AnswerStep DEF JoinMesh, Steps
<1>8. CASE DeclineMesh
  <2> DEFINE x == [c EXCEPT !.mgmt = FALSE, !.zone = FALSE, !.apiKey = FALSE]
  <2>1. x \in Config /\ x.cp = c.cp /\ x.wk = c.wk
    BY <1>1 DEF Config
  <2>2. Sound(x) /\ [told EXCEPT !.mesh = "declined"] \in Told
    BY <1>1, <2>1 DEF Sound, Told
  <2> QED
    BY <1>8, <2>2, AnswerStep DEF DeclineMesh, Steps
<1>9. CASE Lockdown
  <2>1. PICK v \in {"no", "yes"} : Answer("lockdown", [c EXCEPT !.lockdown = v], told)
    BY <1>9 DEF Lockdown
  <2> DEFINE x == [c EXCEPT !.lockdown = v]
  <2>2. x \in Config /\ x.cp = c.cp /\ x.wk = c.wk
    BY <1>1 DEF Config
  <2>3. Sound(x)
    BY <1>1, <2>2 DEF Sound
  <2> QED
    BY <1>1, <1>9, <2>1, <2>3, AnswerStep DEF Lockdown, Steps
<1>10. CASE Security
  <2> DEFINE x == [c EXCEPT !.security = TRUE]
  <2>1. x \in Config /\ x.cp = c.cp /\ x.wk = c.wk
    BY <1>1 DEF Config
  <2>2. Sound(x)
    BY <1>1, <2>1 DEF Sound
  <2> QED
    BY <1>1, <1>10, <2>2, AnswerStep DEF Security, Steps
<1>11. CASE GitSSH
  <2> DEFINE x == [c EXCEPT !.git = TRUE]
  <2>1. x \in Config /\ x.cp = c.cp /\ x.wk = c.wk
    BY <1>1 DEF Config
  <2>2. Sound(x)
    BY <1>1, <2>1 DEF Sound
  <2> QED
    BY <1>1, <1>11, <2>2, AnswerStep DEF GitSSH, Steps
<1> QED
  BY <1>2, <1>3, <1>4, <1>5, <1>6, <1>7, <1>8, <1>9, <1>10, <1>11

\* What the phases of a provider's form have in common.
LEMMA PhaseStep ==
    ASSUME IInv, pc # "idle", pc' \in Asking, Sound(c'), told' \in Told,
           done' \in {done, done \cup {"provider"}}, Phase
    PROVE  IInv'
<1>1. /\ done \subseteq Steps /\ origin \in Origins /\ saving \in BOOLEAN
      /\ redos \in 0 .. MaxRedos /\ "provider" \in Steps
  BY DEF IInv, SessionInv, Steps
<1>2. /\ dir' = dir /\ origin' = origin /\ saving' = saving /\ UNCHANGED disk
      /\ sessions' = sessions /\ redos' = redos
  BY DEF Phase, bounds
<1> QED
  BY <1>1, <1>2, AskingStep

\* Emptying the list of one role keeps the roles apart.
LEMMA EnterStep ==
    ASSUME IInv, NEW x, Sound(x), EnterControlPlane(x) \/ EnterWorkers(x)
    PROVE  pc' \in Asking /\ Sound(c') /\ told' \in Told
<1>1. told \in Told /\ {} \in SUBSET Hosts
  BY DEF IInv, SessionInv
<1>2. CASE EnterControlPlane(x)
  BY <1>1, <1>2, HostsSound, HostsTold DEF EnterControlPlane, Asking
<1>3. CASE EnterWorkers(x)
  BY <1>1, <1>3, HostsSound, HostsTold DEF EnterWorkers, Asking
<1> QED
  BY <1>2, <1>3

LEMMA ProviderDoneStep ==
    ASSUME IInv, pc # "idle", NEW x, Sound(x), ProviderDone(x), Phase
    PROVE  IInv'
<1>1. pc' \in Asking
  BY DEF ProviderDone, After, Asking, Steps
<1>2. told \in Told
  BY DEF IInv, SessionInv
<1> QED
  BY <1>1, <1>2, PhaseStep DEF ProviderDone

LEMMA HetznerStep ==
    ASSUME IInv, PickMode \/ HetznerForm \/ VSwitch
    PROVE  IInv'
<1>1. Sound(c) /\ c \in Config /\ (\A p \in Racks : c.cp[p] \cap c.wk[p] = {}) /\ told \in Told
  BY DEF IInv, SessionInv, Sound
<1>2. CASE PickMode
  <2>1. PICK a \in Answers : /\ c' = [c EXCEPT !.mode = a.mode]
                             /\ told' = [told EXCEPT !.mode = a.mode]
    BY <1>2 DEF PickMode
  <2>2. a.mode \in {"hcloud", "bare-metal", "hybrid"}
    BY AnswersAssumption
  <2>3. c' \in Config /\ c'.cp = c.cp /\ c'.wk = c.wk
    BY <1>1, <2>1, <2>2 DEF Config
  <2>4. Sound(c') /\ told' \in Told
    BY <1>1, <2>1, <2>2, <2>3 DEF Sound, Told
  <2> QED
    BY <1>2, <2>4, PhaseStep DEF PickMode, Asking
<1>3. CASE HetznerForm
  <2> DEFINE robot == c.robot \/ UsesServers(c)
             spec == IF UsesHCloud(c) THEN c.spec \cup {"hetzner"} ELSE c.spec \ {"hetzner"}
             x(r) == [c EXCEPT !.creds = @ \cup {"hetzner"}, !.replicas = r,
                               !.robot = robot, !.spec = spec]
  <2>1. PICK r \in Replicas :
          IF c.mode = "hcloud" THEN ProviderDone([x(r) EXCEPT !.pools = TRUE])
                               ELSE pc' = "vswitch" /\ c' = x(r) /\ UNCHANGED <<done, told>>
    BY <1>3 DEF HetznerForm
  <2>2. /\ r \in Nat /\ robot \in BOOLEAN /\ spec \in SUBSET Providers
        /\ c.creds \cup {"hetzner"} \in SUBSET Providers
    BY <1>1, NamesAssumption DEF Config, Providers, UsesServers
  <2> HIDE DEF robot, spec
  <2>3. x(r) \in Config /\ x(r).cp = c.cp /\ x(r).wk = c.wk
    BY <1>1, <2>2 DEF Config
  <2>4. Sound(x(r))
    BY <1>1, <2>3 DEF Sound
  <2> HIDE DEF x
  <2>5. CASE c.mode = "hcloud"
    <3> DEFINE y == [x(r) EXCEPT !.pools = TRUE]
    <3>1. y \in Config /\ y.cp = x(r).cp /\ y.wk = x(r).wk
      BY <2>3 DEF Config
    <3>2. Sound(y)
      BY <2>4, <3>1 DEF Sound
    <3> QED
      BY <1>3, <2>1, <2>5, <3>2, ProviderDoneStep DEF HetznerForm
  <2>6. CASE c.mode # "hcloud"
    BY <1>1, <1>3, <2>1, <2>4, <2>6, PhaseStep DEF HetznerForm, Asking
  <2> QED
    BY <2>5, <2>6
<1>4. CASE VSwitch
  <2> DEFINE x == [c EXCEPT !.vswitch = TRUE]
  <2>1. x \in Config /\ x.cp = c.cp /\ x.wk = c.wk
    BY <1>1 DEF Config
  <2>2. Sound(x)
    BY <1>1, <2>1 DEF Sound
  <2>3. EnterControlPlane(x) \/ EnterWorkers(x)
    BY <1>4 DEF VSwitch
  <2>4. pc' \in Asking /\ Sound(c') /\ told' \in Told
    BY <2>2, <2>3, EnterStep
  <2> QED
    BY <1>4, <2>4, PhaseStep DEF VSwitch
<1> QED
  BY <1>2, <1>3, <1>4

LEMMA CloudStep ==
    ASSUME IInv, CloudForm \/ BareMetalForm
    PROVE  IInv'
<1>1. Sound(c) /\ c \in Config /\ (\A p \in Racks : c.cp[p] \cap c.wk[p] = {})
  BY DEF IInv, SessionInv, Sound
<1>2. AWSAnswers(c) \in Config /\ AWSAnswers(c).cp = c.cp /\ AWSAnswers(c).wk = c.wk
  BY <1>1 DEF AWSAnswers, Config, Providers
<1>3. AzureAnswers(c) \in Config /\ AzureAnswers(c).cp = c.cp /\ AzureAnswers(c).wk = c.wk
  BY <1>1 DEF AzureAnswers, Config, Providers
<1>4. Sound(AWSAnswers(c)) /\ Sound(AzureAnswers(c))
  BY <1>1, <1>2, <1>3 DEF Sound
<1>5. CASE CloudForm
  <2>1. PICK x \in {AWSAnswers(c), AzureAnswers(c), c} : ProviderDone(x)
    BY <1>5 DEF CloudForm
  <2> QED
    BY <1>1, <1>4, <1>5, <2>1, ProviderDoneStep DEF CloudForm
<1>6. CASE BareMetalForm
  <2>1. pc' \in Asking /\ Sound(c') /\ told' \in Told
    BY <1>1, <1>6, EnterStep DEF BareMetalForm
  <2> QED
    BY <1>6, <2>1, PhaseStep DEF BareMetalForm
<1> QED
  BY <1>5, <1>6

\* The loops that collect hosts: the form refuses a host of either role.
LEMMA HostStep ==
    ASSUME IInv, NEW h \in Hosts, AddControlPlane(h) \/ AddWorker(h)
    PROVE  IInv'
<1> DEFINE p == c.provider
           cps == c.cp[p] \cup {h}
           wks == c.wk[p] \cup {h}
<1>1. /\ Sound(c) /\ c \in Config /\ (\A q \in Racks : c.cp[q] \cap c.wk[q] = {})
      /\ told \in Told
  BY DEF IInv, SessionInv, Sound
<1>2. /\ p \in Racks => cps \in SUBSET Hosts /\ cps \cap c.wk[p] = {}
      /\ p \in Racks => wks \in SUBSET Hosts /\ wks \cap c.cp[p] = {}
  <2>1. c.cp \in [Racks -> SUBSET Hosts] /\ c.wk \in [Racks -> SUBSET Hosts]
    BY <1>1 DEF Config
  <2>2. h \notin c.cp[p] \cup c.wk[p]
    BY DEF AddControlPlane, AddWorker, Free
  <2> QED
    BY <1>1, <2>1, <2>2
<1>3. p \notin Racks => /\ [c EXCEPT !.cp[p] = cps] = c /\ [c EXCEPT !.wk[p] = wks] = c
                        /\ [told EXCEPT !.cp[p] = cps] = told
                        /\ [told EXCEPT !.wk[p] = wks] = told
  BY <1>1 DEF Config, Told
<1> HIDE DEF cps, wks
<1>4. Sound([c EXCEPT !.cp[p] = cps]) /\ Sound([c EXCEPT !.wk[p] = wks])
  BY <1>1, <1>2, <1>3, HostsSound
<1>5. [told EXCEPT !.cp[p] = cps] \in Told /\ [told EXCEPT !.wk[p] = wks] \in Told
  BY <1>1, <1>2, <1>3, HostsTold
<1>6. CASE AddControlPlane(h)
  <2> DEFINE x == [c EXCEPT !.cp[p] = cps]
  <2>1. \/ /\ pc' \in {"cp", "cpDone"} /\ c' = x /\ told' = [told EXCEPT !.cp[p] = cps]
        \/ EnterControlPlane(x)
    BY <1>6 DEF AddControlPlane, cps
  <2>2. pc' \in Asking /\ Sound(c') /\ told' \in Told
    BY <1>4, <1>5, <2>1, EnterStep DEF Asking
  <2> QED
    BY <1>6, <2>2, PhaseStep DEF AddControlPlane
<1>7. CASE AddWorker(h)
  <2>1. c' = [c EXCEPT !.wk[p] = wks]
    BY <1>7 DEF AddWorker, wks
  <2>2. told' \in Told
    BY <1>7, <1>1 DEF AddWorker, Told
  <2> QED
    BY <1>4, <1>7, <2>1, <2>2, PhaseStep DEF AddWorker, Asking
<1> QED
  BY <1>6, <1>7

LEMMA PhasesStep ==
    ASSUME IInv, NoMoreWorkers \/ Continue \/ Back \/ ApiHost
    PROVE  IInv'
<1>1. Sound(c) /\ c \in Config /\ (\A q \in Racks : c.cp[q] \cap c.wk[q] = {}) /\ told \in Told
  BY DEF IInv, SessionInv, Sound
<1>2. CASE NoMoreWorkers
  BY <1>1, <1>2, PhaseStep DEF NoMoreWorkers, Asking
<1>3. CASE Continue
  <2>1. CASE ProviderDone(c)
    BY <1>1, <1>3, <2>1, ProviderDoneStep DEF Continue
  <2>2. CASE EnterWorkers(c) /\ UNCHANGED done
    BY <1>1, <1>3, <2>2, EnterStep, PhaseStep DEF Continue
  <2>3. CASE pc' = "apiHost" /\ OwnControlPlane(c) /\ UNCHANGED <<c, done, told>>
    <3>1. c.provider \in Racks
      BY <2>3 DEF OwnControlPlane, Racks
    <3>2. UNCHANGED <<c, done, told, dir, origin, saving, disk, sessions, redos>> /\ pc # "idle"
      BY <1>3, <2>3 DEF Continue, Phase, bounds
    <3>3. SessionInv'
      BY <2>3, <3>2 DEF IInv, SessionInv
    <3>4. DiskInv'
      BY <3>2 DEF IInv, DiskInv, disk
    <3>5. JoinInv'
      BY <2>3, <3>1, <3>2 DEF JoinInv
    <3> QED
      BY <3>3, <3>4, <3>5 DEF IInv
  <2> QED
    BY <1>3, <2>1, <2>2, <2>3 DEF Continue
<1>4. CASE Back
  <2>1. pc' \in Asking /\ Sound(c') /\ told' \in Told
    BY <1>1, <1>4, EnterStep DEF Back, Asking
  <2>2. redos' \in 0 .. MaxRedos
    BY <1>4, NamesAssumption DEF Back, Again, IInv, SessionInv
  <2>3. /\ pc # "idle" /\ done' = done /\ dir' = dir /\ origin' = origin /\ saving' = saving
        /\ UNCHANGED disk /\ sessions' = sessions
    BY <1>4 DEF Back
  <2>4. done \subseteq Steps /\ origin \in Origins /\ saving \in BOOLEAN
    BY DEF IInv, SessionInv
  <2> QED
    BY <2>1, <2>2, <2>3, <2>4, AskingStep
<1>5. CASE ApiHost
  <2> DEFINE api == c.apiHost \cup {c.provider}
             x == [c EXCEPT !.apiHost = api]
  <2>1. ProviderDone(x) /\ pc = "apiHost" /\ Phase
    BY <1>5 DEF ApiHost
  <2>2. api \in SUBSET Providers
    BY <1>1, <2>1 DEF IInv, JoinInv, Config, Racks, Providers
  <2> HIDE DEF api
  <2>3. x \in Config /\ x.cp = c.cp /\ x.wk = c.wk
    BY <1>1, <2>2 DEF Config
  <2>4. Sound(x)
    BY <1>1, <2>3 DEF Sound
  <2> QED
    BY <2>1, <2>4, ProviderDoneStep
<1> QED
  BY <1>2, <1>3, <1>4, <1>5

\* The final confirm, and an interrupted session on its way to the files.
LEMMA ConfirmStep ==
    ASSUME IInv, Confirm \/ Redo \/ AbortAndSave
    PROVE  IInv'
<1>1. /\ Sound(c) /\ done \subseteq Steps /\ told \in Told /\ origin \in Origins
      /\ saving \in BOOLEAN /\ redos \in 0 .. MaxRedos
  BY DEF IInv, SessionInv
<1>2. CASE Confirm
  BY <1>1, <1>2, AskingStep DEF Confirm, session, bounds, Asking, Steps
<1>3. CASE Redo
  <2>1. redos' \in 0 .. MaxRedos
    BY <1>3, NamesAssumption DEF Redo, Again, IInv, SessionInv
  <2> QED
    BY <1>1, <1>3, <2>1, AskingStep DEF Redo, session, Asking, Steps
<1>4. CASE AbortAndSave
  BY <1>1, <1>4, AskingStep DEF AbortAndSave, bounds, Asking
<1> QED
  BY <1>2, <1>3, <1>4

\* The directory the files go to is one of the directories.
LEMMA TargetDir ==
    ASSUME IInv, pc # "idle"
    PROVE  Target \in Dirs
BY DEF IInv, SessionInv, Sound, Config, Target, Dirs

LEMMA WriteGeneralStep ==
    ASSUME IInv, WriteGeneral
    PROVE  IInv'
<1> DEFINE g == General(c)
<1>1. Sound(c) /\ Sound(g) /\ g # NoFile /\ g \in Config
  BY GeneralSound, FilesAssumption DEF IInv, SessionInv, Sound
<1>2. ToldFor(c) \in Told
  <2> DEFINE m == IF c.provider = "hetzner" THEN told.mode ELSE None
             cp == Listed(c, told.cp, OwnControlPlane(c))
             wk == Listed(c, told.wk, OwnWorkers(c))
  <2>1. told \in Told /\ c \in Config /\ OwnControlPlane(c) \in BOOLEAN /\ OwnWorkers(c) \in BOOLEAN
    BY <1>1 DEF IInv, SessionInv, Sound, OwnControlPlane, OwnWorkers, UsesServers
  <2>2. cp \in [Racks -> SUBSET Hosts] /\ wk \in [Racks -> SUBSET Hosts]
    BY <2>1, ListedHosts DEF Told
  <2>3. m \in {None, "hcloud", "bare-metal", "hybrid"}
    BY <2>1 DEF Told
  <2>4. ToldFor(c) = [told EXCEPT !.mode = m, !.cp = cp, !.wk = wk]
    BY DEF ToldFor
  <2> HIDE DEF m, cp, wk
  <2> QED
    BY <2>1, <2>2, <2>3, <2>4 DEF Told
<1>3. /\ Target \in Dirs /\ Target' = Target /\ pc' = "secrets"
      /\ files' = [files EXCEPT ![Target].general = g]
  BY TargetDir DEF WriteGeneral, Target, session
<1> HIDE DEF g
<1>4. SessionInv'
  BY <1>1 DEF WriteGeneral, IInv, SessionInv, session, bounds, Writing
<1>5. DiskInv'
  <2>1. files \in [Dirs -> File] /\ DiskInv
    BY DEF IInv, DiskInv
  <2>2. files' \in [Dirs -> File]
    BY <1>1, <1>3, <2>1 DEF File
  <2>3. \A d \in Dirs : files'[d] = IF d = Target THEN [files[d] EXCEPT !.general = g] ELSE files[d]
    BY <1>3, <2>1
  <2>4. files'[Target].general = g
    BY <1>3, <2>1, <2>3 DEF File
  <2>5. /\ \A d \in Dirs : files'[d].general # NoFile => Sound(files'[d].general)
        /\ \A d \in Dirs : files'[d].general = NoFile => files'[d] = Nothing
    BY <1>1, <2>1, <2>3, <2>4 DEF DiskInv
  <2>6. toldAt' \in [Dirs -> Told] /\ confirmed' \subseteq Dirs /\ dropped' \subseteq Dirs
    BY <1>2, <1>3, <2>1 DEF WriteGeneral, DiskInv
  <2>7. used' \in [Dirs -> SUBSET {"netbird", "keycloak"}]
    BY <2>1 DEF WriteGeneral, DiskInv
  <2> QED
    BY <2>2, <2>5, <2>6, <2>7 DEF DiskInv
<1>6. JoinInv'
  <2>1. files'[Target].general = g
    BY <1>3 DEF IInv, DiskInv, File
  <2> QED
    BY <1>1, <1>3, <2>1 DEF JoinInv
<1> QED
  BY <1>4, <1>5, <1>6 DEF IInv

\* A file of a directory that has a general.yaml replaced by another.
LEMMA FileUpdate ==
    ASSUME IInv, NEW d \in Dirs, NEW f \in File, f.general = files[d].general,
           f.general # NoFile, files' = [files EXCEPT ![d] = f],
           toldAt' = toldAt, confirmed' \subseteq Dirs, dropped' \subseteq Dirs,
           used' \in [Dirs -> SUBSET {"netbird", "keycloak"}]
    PROVE  DiskInv'
<1>1. files \in [Dirs -> File]
  BY DEF IInv, DiskInv
<1>2. files' \in [Dirs -> File] /\ \A e \in Dirs : files'[e] = IF e = d THEN f ELSE files[e]
  BY <1>1
<1>3. /\ \A e \in Dirs : files'[e].general # NoFile => Sound(files'[e].general)
      /\ \A e \in Dirs : files'[e].general = NoFile => files'[e] = Nothing
  BY <1>2 DEF IInv, DiskInv
<1> QED
  BY <1>2, <1>3 DEF IInv, DiskInv

LEMMA WriteSecretsStep ==
    ASSUME IInv, WriteSecrets
    PROVE  IInv'
<1> DEFINE f == [files[Target] EXCEPT !.secrets = Secrets(c)]
<1>1. Target \in Dirs /\ Target' = Target /\ files[Target].general # NoFile
  BY TargetDir DEF WriteSecrets, Target, session, IInv, JoinInv
<1>2. files \in [Dirs -> File] /\ Secrets(c) \in SecretsFile
  BY SecretsTyped DEF IInv, DiskInv, SessionInv, Sound
<1>3. f \in File /\ f.general = files[Target].general
  BY <1>1, <1>2 DEF File
<1>4. files' = [files EXCEPT ![Target] = f]
  BY DEF WriteSecrets
<1>5. /\ toldAt' = toldAt /\ confirmed' \subseteq Dirs /\ dropped' \subseteq Dirs
      /\ used' \in [Dirs -> SUBSET {"netbird", "keycloak"}]
  BY DEF WriteSecrets, IInv, DiskInv
<1> HIDE DEF f
<1>6. DiskInv'
  BY <1>1, <1>3, <1>4, <1>5, FileUpdate
<1>7. SessionInv'
  BY DEF WriteSecrets, IInv, SessionInv, session, bounds, Writing
<1>8. JoinInv'
  BY <1>1, <1>2, <1>3, <1>4 DEF WriteSecrets, JoinInv
<1> QED
  BY <1>6, <1>7, <1>8 DEF IInv

LEMMA StateFileStep ==
    ASSUME IInv, WriteState \/ RemoveState
    PROVE  IInv'
<1> DEFINE state == IF saving THEN done ELSE NoFile
           f == [files[Target] EXCEPT !.state = state]
<1>1. Target \in Dirs /\ files[Target].general # NoFile
  BY TargetDir DEF WriteState, RemoveState, IInv, JoinInv
<1>2. files \in [Dirs -> File] /\ state \in (SUBSET Steps) \cup {NoFile}
  BY DEF IInv, DiskInv, SessionInv
<1>3. files' = [files EXCEPT ![Target] = f]
  BY DEF WriteState, RemoveState
<1> HIDE DEF state
<1>4. f \in File /\ f.general = files[Target].general
  BY <1>1, <1>2 DEF File
<1>5. /\ toldAt' = toldAt /\ confirmed' \subseteq Dirs /\ dropped' \subseteq Dirs
      /\ used' \in [Dirs -> SUBSET {"netbird", "keycloak"}]
  BY <1>1 DEF WriteState, RemoveState, IInv, DiskInv
<1> HIDE DEF f
<1>6. DiskInv'
  BY <1>1, <1>3, <1>4, <1>5, FileUpdate
<1> QED
  BY <1>6, EndStep DEF WriteState, RemoveState

\* A session given up, or killed between two files.
LEMMA LeaveStep ==
    ASSUME IInv, Leave \/ Kill
    PROVE  IInv'
<1>1. files' = files /\ toldAt' = toldAt /\ confirmed' = confirmed /\ used' = used
      /\ dropped' = dropped
  BY DEF Leave, Kill, disk
<1>2. DiskInv'
  BY <1>1 DEF IInv, DiskInv
<1> QED
  BY <1>2, EndStep DEF Leave, Kill

LEMMA ParseStep ==
    ASSUME IInv, NEW d \in Dirs, Parse(d)
    PROVE  IInv'
<1> DEFINE wanted == Wanted(files[d].general)
           minted == files[d].secrets.minted \cup wanted
           f == [files[d] EXCEPT !.secrets.minted = minted]
<1>1. /\ files[d].general # NoFile /\ files[d].secrets # NoFile
      /\ files' = [files EXCEPT ![d] = f]
      /\ used' = [used EXCEPT ![d] = @ \cup wanted]
      /\ pc = "idle" /\ UNCHANGED <<pc, c, done, session, toldAt, confirmed, dropped, bounds>>
  BY DEF Parse
<1>2. files \in [Dirs -> File] /\ files[d].secrets \in SecretsFile
  BY <1>1 DEF IInv, DiskInv, File
<1>3. wanted \subseteq {"netbird", "keycloak"}
  BY DEF Wanted
<1> HIDE DEF wanted
<1>4. [files[d].secrets EXCEPT !.minted = minted] \in SecretsFile
  BY <1>2, <1>3 DEF SecretsFile
<1>5. f \in File /\ f.general = files[d].general
  BY <1>2, <1>4 DEF File
<1>6. /\ toldAt' = toldAt /\ confirmed' \subseteq Dirs /\ dropped' \subseteq Dirs
      /\ used' \in [Dirs -> SUBSET {"netbird", "keycloak"}]
  BY <1>1, <1>3 DEF IInv, DiskInv
<1> HIDE DEF f
<1>7. DiskInv'
  BY <1>1, <1>5, <1>6, FileUpdate
<1>8. SessionInv'
  BY <1>1 DEF IInv, SessionInv, session, bounds
<1>9. JoinInv'
  BY <1>1 DEF JoinInv
<1> QED
  BY <1>7, <1>8, <1>9 DEF IInv

LEMMA InvStep == IInv /\ [Next]_vars => IInv'
<1> SUFFICES ASSUME IInv, [Next]_vars PROVE IInv'
  OBVIOUS
<1>1. ASSUME NEW d \in Dirs, Start(d) PROVE IInv'
  BY <1>1, StartLoadStep
<1>2. ASSUME NEW d \in Dirs, Parse(d) PROVE IInv'
  BY <1>2, ParseStep
<1>3. CASE LoadExisting \/ StartFresh
  <2>1. PICK d \in Dirs : TRUE
    BY <1>3 DEF LoadExisting, StartFresh, IInv, SessionInv
  <2> QED
    BY <1>3, <2>1, StartLoadStep
<1>4. CASE Skip
  BY <1>4, SkipStep
<1>5. CASE \/ PickK8sProfile \/ Basics \/ Keycloak \/ Endpoints \/ MeshZone \/ JoinMesh
           \/ DeclineMesh \/ Lockdown \/ Security \/ GitSSH \/ Obmondo
  BY <1>5, FormStep
<1>6. CASE PickMode \/ HetznerForm \/ VSwitch
  BY <1>6, HetznerStep
<1>7. CASE CloudForm \/ BareMetalForm
  BY <1>7, CloudStep
<1>8. ASSUME NEW h \in Hosts, AddControlPlane(h) \/ AddWorker(h) PROVE IInv'
  BY <1>8, HostStep
<1>9. CASE NoMoreWorkers \/ Continue \/ Back \/ ApiHost
  BY <1>9, PhasesStep
<1>10. CASE Confirm \/ Redo \/ AbortAndSave
  BY <1>10, ConfirmStep
<1>11. CASE WriteGeneral
  BY <1>11, WriteGeneralStep
<1>12. CASE WriteSecrets
  BY <1>12, WriteSecretsStep
<1>13. CASE WriteState \/ RemoveState
  BY <1>13, StateFileStep
<1>14. CASE Leave \/ Kill
  BY <1>14, LeaveStep
<1>15. CASE UNCHANGED vars
  <2>1. /\ pc' = pc /\ c' = c /\ done' = done /\ dir' = dir /\ told' = told /\ origin' = origin
        /\ saving' = saving /\ files' = files /\ toldAt' = toldAt /\ confirmed' = confirmed
        /\ used' = used /\ dropped' = dropped /\ sessions' = sessions /\ redos' = redos
    BY <1>15 DEF vars, session, disk, bounds
  <2>2. SessionInv' /\ DiskInv'
    BY <2>1 DEF IInv, SessionInv, DiskInv
  <2>3. JoinInv'
    BY <2>1 DEF IInv, JoinInv, Target
  <2> QED
    BY <2>2, <2>3 DEF IInv
<1> QED
  BY <1>1, <1>2, <1>3, <1>4, <1>5, <1>6, <1>7, <1>8, <1>9, <1>10, <1>11, <1>12, <1>13,
     <1>14, <1>15 DEF Next, Rest

LEMMA Invariance == Spec => []IInv
<1>1. Init => IInv
  BY InitInv
<1>2. IInv /\ [Next]_vars => IInv'
  BY InvStep
<1> QED
  BY <1>1, <1>2, PTL DEF Spec

-----------------------------------------------------------------------------
(* The theorems.                                                           *)

(* The session, the files and the bounds keep their types, whatever the    *)
(* operator answers, saves, resumes or leaves half written.                *)
THEOREM TypeCorrect == Spec => []TypeOK
<1>1. ASSUME IInv PROVE TypeOK
  <2>1. /\ pc \in Asking \cup Writing \cup {"idle", "load", "apiHost"}
        /\ dir \in Dirs \cup {NoName} /\ c \in Config /\ done \subseteq Steps /\ told \in Told
        /\ origin \in Origins /\ saving \in BOOLEAN
        /\ sessions \in 0 .. MaxSessions /\ redos \in 0 .. MaxRedos
    BY <1>1 DEF IInv, SessionInv, Sound
  <2>2. /\ files \in [Dirs -> File] /\ toldAt \in [Dirs -> Told] /\ confirmed \subseteq Dirs
        /\ dropped \subseteq Dirs
        /\ used \in [Dirs -> SUBSET {"netbird", "keycloak"}]
    BY <1>1 DEF IInv, DiskInv
  <2>3. ASSUME NEW d \in Dirs
        PROVE  /\ files[d].general = NoFile \/ files[d].general \in Config
               /\ files[d].secrets = NoFile \/ files[d].secrets \in SecretsFile
               /\ files[d].state = NoFile \/ files[d].state \subseteq Steps
               /\ toldAt[d] \in Told
    BY <2>2 DEF File
  <2>4. pc \in Steps \cup Writing \cup
           {"idle", "load", "credentials", "vswitch", "cp", "cpDone", "workers", "workersDone",
            "apiHost", "confirm"}
    BY <2>1 DEF Asking, Writing
  <2> QED
    BY <2>1, <2>2, <2>3, <2>4 DEF TypeOK
<1> QED
  BY <1>1, Invariance, PTL

(* ServersOnce for any hosts, any kinds of cluster and any number of       *)
(* sessions and rounds: the forms' two loops are the only places a server  *)
(* enters a list, and rendering and loading only take servers away.        *)
THEOREM ServersOnceAlways == Spec => []ServersOnce
<1>1. IInv => ServersOnce
  BY DEF IInv, SessionInv, DiskInv, Sound, ServersOnce
<1> QED
  BY <1>1, Invariance, PTL

\* Rendering keeps the cluster's name.
LEMMA GeneralName ==
    ASSUME NEW x \in Config
    PROVE  General(x).name = x.name
BY DEF General, Config

\* Only a session that writes its config changes a general.yaml.
LEMMA GeneralStays ==
    ASSUME IInv, [Next]_vars, ~WriteGeneral
    PROVE  /\ \A d \in Dirs : files'[d].general = files[d].general
           /\ toldAt' = toldAt /\ dropped' = dropped
<1> DEFINE Stays == \A d \in Dirs : files'[d].general = files[d].general
<1>1. files \in [Dirs -> File]
  BY DEF IInv, DiskInv
<1>2. ASSUME NEW e \in Dirs, NEW f, f.general = files[e].general,
             files' = [files EXCEPT ![e] = f]
      PROVE  Stays
  BY <1>1, <1>2
<1>3. CASE WriteSecrets
  <2> DEFINE f == [files[Target] EXCEPT !.secrets = Secrets(c)]
  <2>1. /\ Target \in Dirs /\ files' = [files EXCEPT ![Target] = f]
        /\ f.general = files[Target].general
    BY <1>1, <1>3, TargetDir DEF WriteSecrets, File
  <2> HIDE DEF f
  <2>2. Stays
    BY <2>1, <1>2
  <2> QED
    BY <1>3, <2>2 DEF WriteSecrets
<1>4. CASE WriteState \/ RemoveState
  <2> DEFINE f == [files[Target] EXCEPT !.state = IF saving THEN done ELSE NoFile]
  <2>1. /\ Target \in Dirs /\ files' = [files EXCEPT ![Target] = f]
        /\ f.general = files[Target].general
    BY <1>1, <1>4, TargetDir DEF WriteState, RemoveState, File
  <2> HIDE DEF f
  <2>2. Stays
    BY <2>1, <1>2
  <2> QED
    BY <1>4, <2>2 DEF WriteState, RemoveState
<1>5. ASSUME NEW d \in Dirs, Parse(d) PROVE Stays /\ toldAt' = toldAt /\ dropped' = dropped
  <2> DEFINE f == [files[d] EXCEPT !.secrets.minted = @ \cup Wanted(files[d].general)]
  <2>1. files' = [files EXCEPT ![d] = f] /\ f.general = files[d].general
    BY <1>1, <1>5 DEF Parse, File
  <2> HIDE DEF f
  <2>2. Stays
    BY <2>1, <1>2
  <2> QED
    BY <1>5, <2>2 DEF Parse
<1>6. CASE UNCHANGED <<files, toldAt, dropped>>
  BY <1>6
<1>7. CASE Next
  <2>1. \/ \E d \in Dirs : Parse(d)
        \/ WriteSecrets \/ WriteState \/ RemoveState
        \/ UNCHANGED <<files, toldAt, dropped>>
    BY <1>7, Zenon DEF Next, Start, LoadExisting, StartFresh, Skip, PickK8sProfile, Basics,
       Keycloak, Endpoints, MeshZone, JoinMesh, DeclineMesh, PickMode, HetznerForm, VSwitch,
       CloudForm, BareMetalForm, AddControlPlane, AddWorker, NoMoreWorkers, Continue, Back, ApiHost,
       Lockdown, Security, GitSSH, Obmondo, Confirm, Redo, Leave, AbortAndSave, Kill, Rest,
       Answer, Phase, disk, vars
  <2> QED
    BY <1>3, <1>4, <1>5, <1>6, <2>1
<1> QED
  BY <1>6, <1>7 DEF vars, disk

\* Writing it puts the session's config in one directory.
LEMMA GeneralWritten ==
    ASSUME IInv, WriteGeneral
    PROVE  /\ Target \in Dirs /\ dir \in Dirs
           /\ files'[Target].general = General(c)
           /\ \A d \in Dirs \ {Target} : files'[d].general = files[d].general
<1> DEFINE g == General(c)
<1>1. /\ files \in [Dirs -> File] /\ Target \in Dirs /\ dir \in Dirs
      /\ files' = [files EXCEPT ![Target].general = g]
  BY TargetDir DEF IInv, DiskInv, SessionInv, WriteGeneral
<1> HIDE DEF g
<1>2. files'[Target].general = g
  BY <1>1 DEF File
<1>3. \A d \in Dirs \ {Target} : files'[d].general = files[d].general
  BY <1>1
<1> QED
  BY <1>1, <1>2, <1>3 DEF g

LEMMA DirNamesStep == IInv /\ DirNamesCluster /\ [Next]_vars => DirNamesCluster'
<1> SUFFICES ASSUME IInv, DirNamesCluster, [Next]_vars PROVE DirNamesCluster'
  OBVIOUS
<1>1. Clusters \subseteq Dirs
  BY DEF Dirs
<1>2. CASE WriteGeneral
  <2>1. General(c).name = c.name
    BY GeneralName DEF IInv, SessionInv, Sound
  <2>2. Target \in Clusters => c.name \in {Target, NoName}
    BY <1>2, GeneralWritten, NamesAssumption DEF Target
  <2>3. /\ files'[Target].general = General(c)
        /\ \A d \in Dirs \ {Target} : files'[d].general = files[d].general
    BY <1>2, GeneralWritten
  <2> QED
    BY <1>1, <2>1, <2>2, <2>3 DEF DirNamesCluster
<1>3. CASE ~WriteGeneral
  BY <1>1, <1>3, GeneralStays DEF DirNamesCluster
<1> QED
  BY <1>2, <1>3

(* DirNamesCluster for any clusters and directories: a session that names  *)
(* its cluster on the way writes to that cluster's directory from then on, *)
(* and the three files of one session go to one directory.                 *)
THEOREM DirNamesClusterAlways == Spec => []DirNamesCluster
<1>1. Init => DirNamesCluster
  BY DEF Init, DirNamesCluster, Nothing, Dirs
<1> QED
  BY <1>1, DirNamesStep, Invariance, PTL DEF Spec

-----------------------------------------------------------------------------
(* What the operator answered is what the files say.                       *)

\* A config carries the answers t. A declined mesh is one of a workload cluster.
Carries(x, t) ==
    /\ t.kind # <<>> => t.kind = <<x.provider, x.type>>
    /\ t.mode # None => x.mode = t.mode
    /\ t.idp # None => x.idp = t.idp
    /\ t.mesh = "joined" => x.mgmt /\ x.zone
    /\ t.mesh = "declined" => ~x.mgmt /\ ~x.zone /\ x.type = "workload"
    /\ t.mesh # None => x.provider # None
    /\ x.cp = t.cp /\ x.wk = t.wk

\* The questions that come after the one about the kind of cluster.
PastBasics ==
    (Steps \ {"k8s", "basics"}) \cup
        {"credentials", "vswitch", "cp", "cpDone", "workers", "workersDone", "apiHost", "confirm"}

SessionCarries ==
    /\ Carries(c, told)
    /\ pc = "idle" => told = NothingTold /\ c = Default(NoName)
    /\ pc \in PastBasics => c.provider # None
    /\ pc = "mesh" /\ c.type = "vpn" => c.mgmt

\* A session that found a config, and neither continues it nor has asked for
\* another one, has been told nothing.
UnaskedInv ==
    origin = "unasked" =>
        pc \in {"load", "k8s", "basics"} \cup Writing /\ told = NothingTold /\ c.provider = None

\* What a session that loads the config of d has been told.
ToldOf(d) == IF d \in dropped THEN NothingTold ELSE toldAt[d]

DiskCarries ==
    \A d \in Dirs : files[d].general # NoFile => Carries(files[d].general, ToldOf(d))

CarriesInv == SessionCarries /\ UnaskedInv /\ DiskCarries

\* A workload cluster is not turned into a VPN cluster on the way: that puts it
\* on the mesh it declined.
WorkloadStays == \A s \in Switches : s[1][2] = "workload" => s[2][2] = "workload"

\* The fields a file keeps of the answers.
SameAnswers(x, y) ==
    /\ y.provider = x.provider /\ y.type = x.type /\ y.mode = x.mode /\ y.idp = x.idp
    /\ y.mgmt = x.mgmt /\ y.zone = x.zone /\ y.cp = x.cp /\ y.wk = x.wk

LEMMA CarriesSame ==
    ASSUME NEW x, NEW y, NEW t, Carries(x, t), SameAnswers(x, y)
    PROVE  Carries(y, t)
BY DEF Carries, SameAnswers

LEMMA CarriesNothing == \A n : Carries(Default(n), NothingTold)
BY DEF Carries, Default, NothingTold, None

LEMMA CarriesHosts ==
    ASSUME NEW x \in Config, NEW t \in Told, Carries(x, t), NEW p, NEW hs
    PROVE  /\ Carries([x EXCEPT !.cp[p] = hs], [t EXCEPT !.cp[p] = hs])
           /\ Carries([x EXCEPT !.wk[p] = hs], [t EXCEPT !.wk[p] = hs])
BY DEF Carries, Config, Told

\* Rendering loses no answer about the cluster rendered.
LEMMA CarriesGeneral ==
    ASSUME Sound(c), told \in Told, Carries(c, told)
    PROVE  Carries(General(c), ToldFor(c))
<1> DEFINE g == General(c)
           t == ToldFor(c)
<1>1. c \in Config
  BY DEF Sound
<1>2. /\ g.provider = c.provider /\ g.type = c.type /\ g.idp = c.idp /\ g.zone = c.zone
      /\ g.mode = (IF c.provider = "hetzner" THEN c.mode ELSE "hcloud")
      /\ g.mgmt = (c.mgmt /\ (c.type = "vpn" \/ c.zone))
  BY <1>1 DEF General, Config
<1>3. /\ g.cp = Listed(c, c.cp, OwnControlPlane(c))
      /\ g.wk = Listed(c, c.wk, OwnWorkers(c))
  BY <1>1 DEF General, Config
<1>4. /\ t.kind = told.kind /\ t.idp = told.idp /\ t.mesh = told.mesh
      /\ t.mode = (IF c.provider = "hetzner" THEN told.mode ELSE None)
      /\ t.cp = Listed(c, told.cp, OwnControlPlane(c))
      /\ t.wk = Listed(c, told.wk, OwnWorkers(c))
  BY DEF ToldFor, Told
<1> HIDE DEF g, t
<1>5. Carries(g, t)
  BY <1>2, <1>3, <1>4 DEF Carries
<1> QED
  BY <1>5 DEF g, t

\* Nor does reading it back.
LEMMA SameLoaded ==
    ASSUME NEW n, NEW g \in Config, NEW s
    PROVE  SameAnswers(g, Loaded(n, g, s))
BY DEF SameAnswers, Loaded, Config

LEMMA AfterBasics == \A s \in Steps \ {"k8s"} : After[s] \in PastBasics \cup {"general"}
BY DEF After, Steps, PastBasics

LEMMA CarriesInit == Init => CarriesInv
BY CarriesNothing DEF Init, CarriesInv, SessionCarries, UnaskedInv, DiskCarries, PastBasics,
   Nothing, Steps

\* A step of the session that changes no answer.
LEMMA QuietStep ==
    ASSUME SessionCarries, SameAnswers(c, c'), told' = told, pc' # "idle", pc' # "mesh",
           pc' \in PastBasics => c.provider # None
    PROVE  SessionCarries'
<1>1. Carries(c', told')
  BY CarriesSame DEF SessionCarries
<1> QED
  BY <1>1 DEF SessionCarries, SameAnswers

\* Emptying a list of hosts empties the answer.
LEMMA EnterCarries ==
    ASSUME NEW x \in Config, told \in Told, Carries(x, told), x.provider # None,
           EnterControlPlane(x) \/ EnterWorkers(x)
    PROVE  SessionCarries'
<1> DEFINE p == x.provider
<1>1. Carries(c', told')
  <2>1. CASE EnterControlPlane(x)
    <3>1. c' = [x EXCEPT !.cp[p] = {}] /\ told' = [told EXCEPT !.cp[p] = {}]
      BY <2>1 DEF EnterControlPlane
    <3> QED
      BY <3>1, CarriesHosts
  <2>2. CASE EnterWorkers(x)
    <3>1. c' = [x EXCEPT !.wk[p] = {}] /\ told' = [told EXCEPT !.wk[p] = {}]
      BY <2>2 DEF EnterWorkers
    <3> QED
      BY <3>1, CarriesHosts
  <2> QED
    BY <2>1, <2>2
<1>2. c'.provider = x.provider /\ pc' \in {"cp", "workers"}
  BY DEF EnterControlPlane, EnterWorkers, Config
<1> QED
  BY <1>1, <1>2 DEF SessionCarries

LEMMA DoneCarries ==
    ASSUME SessionCarries, c.provider # None, NEW x, SameAnswers(c, x), ProviderDone(x)
    PROVE  SessionCarries'
BY QuietStep DEF ProviderDone, After, PastBasics, Steps

LEMMA OpenCarries ==
    ASSUME IInv, CarriesInv, (\E d \in Dirs : Start(d)) \/ LoadExisting \/ StartFresh \/ Skip
    PROVE  SessionCarries'
<1> USE DEF CarriesInv
<1>1. c \in Config /\ told \in Told
  BY DEF IInv, SessionInv, Sound
<1>2. ASSUME NEW d \in Dirs, Start(d) PROVE SessionCarries'
  BY <1>2, CarriesNothing DEF Start, SessionCarries, PastBasics, Steps
<1>3. CASE LoadExisting
  <2> DEFINE s == IF files[dir].secrets = NoFile THEN NoSecrets ELSE files[dir].secrets
             g == files[dir].general
  <2>1. /\ c' = Loaded(c.name, g, s) /\ told' = ToldOf(dir) /\ pc' = "k8s"
        /\ origin' = "loaded"
    BY <1>3 DEF LoadExisting, ToldOf
  <2>2. g \in Config /\ Carries(g, ToldOf(dir))
    BY <1>3 DEF LoadExisting, IInv, SessionInv, JoinInv, DiskInv, Sound, DiskCarries
  <2> HIDE DEF g, s
  <2>3. Carries(c', told')
    BY <2>1, <2>2, SameLoaded, CarriesSame
  <2> QED
    BY <2>1, <2>3 DEF SessionCarries, PastBasics, Steps
<1>4. CASE StartFresh
  <2>1. SameAnswers(c, c')
    BY <1>1, <1>4 DEF StartFresh, SameAnswers, Config
  <2> QED
    BY <1>4, <2>1, QuietStep DEF StartFresh, session, PastBasics, Steps
<1>5. CASE Skip
  <2>1. /\ pc \in Steps /\ ~Asks(pc) /\ told' = told /\ pc' = After[pc]
        /\ c' = IF pc = "idp" THEN WithDefaults(c) ELSE c
    BY <1>5 DEF Skip, session
  <2>2. pc # "k8s" => pc' \in PastBasics \cup {"general"}
    BY <2>1, AfterBasics
  <2>3. pc = "k8s" => pc' = "basics" /\ pc' \notin PastBasics
    BY <2>1 DEF After, PastBasics, Steps
  <2>4. pc \notin {"k8s"} => c.provider # None \/ pc = "obmondo"
    BY <2>1 DEF SessionCarries, Asks, MissingBasics, PastBasics, Steps
  <2>5. pc' # "idle"
    BY <2>2, <2>3 DEF PastBasics, Steps
  <2>6. CASE pc = "idp" /\ WithDefaults(c) # c
    <3>1. c' = [c EXCEPT !.mgmt = TRUE, !.endpoint = TRUE] /\ c.type = "vpn"
      BY <2>1, <2>6 DEF WithDefaults
    <3>2. /\ c'.provider = c.provider /\ c'.type = c.type /\ c'.mode = c.mode /\ c'.idp = c.idp
          /\ c'.mgmt = TRUE /\ c'.zone = c.zone /\ c'.cp = c.cp /\ c'.wk = c.wk
      BY <1>1, <3>1 DEF Config
    <3>3. pc' = "endpoints"
      BY <2>1, <2>6 DEF After
    <3> QED
      BY <2>1, <2>4, <2>6, <3>1, <3>2, <3>3 DEF SessionCarries, Carries
  <2>7. CASE c' = c
    <3>1. pc' = "mesh" => pc = "endpoints"
      BY <2>1 DEF After, Steps
    <3>2. pc' = "mesh" /\ c.type = "vpn" => c.mgmt
      BY <2>1, <3>1 DEF Asks, MissingEndpoints
    <3>3. pc' \in PastBasics => c.provider # None
      <4>1. pc = "obmondo" => pc' = "general"
        BY <2>1 DEF After
      <4> QED
        BY <2>2, <2>3, <2>4, <4>1 DEF PastBasics, Steps
    <3> QED
      BY <2>1, <2>5, <2>7, <3>2, <3>3 DEF SessionCarries
  <2> QED
    BY <2>1, <2>6, <2>7
<1> QED
  BY <1>2, <1>3, <1>4, <1>5

\* The answer to one question after the one about the profile.
LEMMA AnswerCarries ==
    ASSUME NEW s \in Steps \ {"k8s"}, NEW x, NEW t, Answer(s, x, t),
           Carries(x, t), x.provider # None, s = "endpoints" /\ x.type = "vpn" => x.mgmt
    PROVE  SessionCarries'
<1>1. c' = x /\ told' = t /\ pc' = After[s] /\ pc' \in PastBasics \cup {"general"}
  BY AfterBasics DEF Answer
<1>2. pc' # "idle" /\ (pc' = "mesh" => s = "endpoints")
  BY <1>1 DEF After, PastBasics, Steps
<1> QED
  BY <1>1, <1>2 DEF SessionCarries

\* The forms that record an answer the files keep.
LEMMA RecordedCarries ==
    ASSUME IInv, SessionCarries, WorkloadStays,
           Basics \/ Keycloak \/ MeshZone \/ JoinMesh \/ DeclineMesh
    PROVE  SessionCarries'
<1>1. c \in Config /\ told \in Told /\ Carries(c, told)
  BY DEF IInv, SessionInv, Sound, SessionCarries
<1>2. pc \in PastBasics => c.provider # None
  BY DEF SessionCarries
<1>3. CASE Basics
  <2>1. PICK k \in {a.kind : a \in Answers}, n \in Clusters :
          /\ c.provider # None => <<<<c.provider, c.type>>, k>> \in Switches
          /\ Answer("basics", [c EXCEPT !.name = n, !.provider = k[1], !.type = k[2]],
                    [told EXCEPT !.kind = k])
    BY <1>3 DEF Basics
  <2> DEFINE x == [c EXCEPT !.name = n, !.provider = k[1], !.type = k[2]]
             t == [told EXCEPT !.kind = k]
  <2>2. k \in Kinds
    BY AnswersAssumption
  <2>3. k = <<k[1], k[2]>> /\ k[1] # None /\ k[2] \in {"workload", "vpn"}
    <3>1. k \in Providers \X {"workload", "vpn"}
      BY <2>2 DEF Kinds
    <3>2. PICK q \in Providers, r \in {"workload", "vpn"} : k = <<q, r>>
      BY <3>1
    <3> QED
      BY <3>2 DEF Providers, None
  <2>4. c.provider # None /\ c.type = "workload" => k[2] = "workload"
    <3> SUFFICES ASSUME c.provider # None, c.type = "workload" PROVE k[2] = "workload"
      OBVIOUS
    <3> DEFINE s == <<<<c.provider, c.type>>, k>>
    <3>1. s \in Switches /\ s[1][2] = "workload" /\ s[2] = k
      BY <2>1
    <3> QED
      BY <3>1 DEF WorkloadStays
  <2>5. /\ x.provider = k[1] /\ x.type = k[2] /\ x.mode = c.mode /\ x.idp = c.idp
        /\ x.mgmt = c.mgmt /\ x.zone = c.zone /\ x.cp = c.cp /\ x.wk = c.wk
    BY <1>1 DEF Config
  <2>6. /\ t.kind = k /\ t.mode = told.mode /\ t.idp = told.idp /\ t.mesh = told.mesh
        /\ t.cp = told.cp /\ t.wk = told.wk
    BY <1>1 DEF Told
  <2>7. Answer("basics", x, t)
    BY <2>1
  <2> HIDE DEF x, t
  <2>8. Carries(x, t)
    BY <1>1, <2>3, <2>4, <2>5, <2>6 DEF Carries, None
  <2> QED
    BY <2>3, <2>5, <2>7, <2>8, AnswerCarries DEF Steps
<1>4. CASE Keycloak
  <2>1. PICK m \in {"managed", "external"} :
          Answer("idp", WithDefaults([c EXCEPT !.idp = m, !.idpSecret = @ \/ m = "external"]),
                 [told EXCEPT !.idp = m])
    BY <1>4 DEF Keycloak
  <2> DEFINE x == [c EXCEPT !.idp = m, !.idpSecret = @ \/ m = "external"]
             y == WithDefaults(x)
             t == [told EXCEPT !.idp = m]
  <2>2. c.type = "vpn" /\ c.provider # None
    BY <1>2, <1>4, <2>1 DEF Keycloak, Answer, Asks, PastBasics, Steps
  <2>3. /\ x.provider = c.provider /\ x.type = c.type /\ x.mode = c.mode /\ x.idp = m
        /\ x.mgmt = c.mgmt /\ x.zone = c.zone /\ x.cp = c.cp /\ x.wk = c.wk
    BY <1>1 DEF Config
  <2>4. y = [x EXCEPT !.mgmt = TRUE, !.endpoint = TRUE]
    BY <2>2, <2>3 DEF WithDefaults, None
  <2>6. /\ y.provider = c.provider /\ y.type = c.type /\ y.mode = c.mode /\ y.idp = m
        /\ y.mgmt = TRUE /\ y.zone = c.zone /\ y.cp = c.cp /\ y.wk = c.wk
    BY <1>1, <2>3, <2>4 DEF Config
  <2>7. /\ t.kind = told.kind /\ t.mode = told.mode /\ t.idp = m /\ t.mesh = told.mesh
        /\ t.cp = told.cp /\ t.wk = told.wk
    BY <1>1 DEF Told
  <2>8. Answer("idp", y, t)
    BY <2>1
  <2> HIDE DEF x, y, t
  <2>9. Carries(y, t)
    BY <1>1, <2>2, <2>6, <2>7 DEF Carries
  <2> QED
    BY <2>2, <2>6, <2>8, <2>9, AnswerCarries DEF Steps
<1>5. CASE MeshZone
  <2> DEFINE x == [c EXCEPT !.zone = TRUE]
             t == [told EXCEPT !.mesh = "joined"]
  <2>1. pc = "mesh" /\ c.type = "vpn" /\ Answer("mesh", x, t)
    BY <1>5 DEF MeshZone
  <2>2. c.provider # None /\ c.mgmt
    BY <1>2, <2>1 DEF SessionCarries, PastBasics, Steps
  <2>3. Carries(x, t) /\ x.provider # None
    BY <1>1, <2>1, <2>2 DEF Carries, Config, Told
  <2> HIDE DEF x, t
  <2> QED
    BY <2>1, <2>3, AnswerCarries DEF Steps
<1>6. CASE JoinMesh
  <2> DEFINE x == [c EXCEPT !.mgmt = TRUE, !.zone = TRUE, !.apiKey = TRUE]
             t == [told EXCEPT !.mesh = "joined"]
  <2>1. pc = "mesh" /\ Answer("mesh", x, t)
    BY <1>6 DEF JoinMesh
  <2>2. c.provider # None
    BY <1>2, <2>1 DEF PastBasics, Steps
  <2>3. Carries(x, t) /\ x.provider # None
    BY <1>1, <2>1, <2>2 DEF Carries, Config, Told
  <2> HIDE DEF x, t
  <2> QED
    BY <2>1, <2>3, AnswerCarries DEF Steps
<1>7. CASE DeclineMesh
  <2> DEFINE x == [c EXCEPT !.mgmt = FALSE, !.zone = FALSE, !.apiKey = FALSE]
             t == [told EXCEPT !.mesh = "declined"]
  <2>1. pc = "mesh" /\ c.type = "workload" /\ Answer("mesh", x, t)
    BY <1>7 DEF DeclineMesh
  <2>2. c.provider # None
    BY <1>2, <2>1 DEF PastBasics, Steps
  <2>3. Carries(x, t) /\ x.provider # None
    BY <1>1, <2>1, <2>2 DEF Carries, Config, Told
  <2> HIDE DEF x, t
  <2> QED
    BY <2>1, <2>3, AnswerCarries DEF Steps
<1> QED
  BY <1>3, <1>4, <1>5, <1>6, <1>7

\* The forms whose answers are not recorded.
LEMMA OtherFormsCarry ==
    ASSUME IInv, SessionCarries,
           PickK8sProfile \/ Endpoints \/ Lockdown \/ Security \/ GitSSH \/ Obmondo
    PROVE  SessionCarries'
<1>1. c \in Config /\ told \in Told /\ Carries(c, told)
  BY DEF IInv, SessionInv, Sound, SessionCarries
<1>2. pc \in PastBasics => c.provider # None
  BY DEF SessionCarries
<1>3. CASE PickK8sProfile
  BY <1>1, <1>3 DEF PickK8sProfile, Answer, SessionCarries, After, PastBasics, Steps
<1>4. CASE Endpoints
  <2> DEFINE x == [c EXCEPT !.mgmt = TRUE, !.endpoint = TRUE]
  <2>1. pc = "endpoints" /\ Answer("endpoints", x, told) /\ c.type = "vpn"
    BY <1>4 DEF Endpoints, Answer, Asks
  <2>2. /\ x.provider = c.provider /\ x.type = c.type /\ x.mode = c.mode /\ x.idp = c.idp
        /\ x.mgmt = TRUE /\ x.zone = c.zone /\ x.cp = c.cp /\ x.wk = c.wk
    BY <1>1 DEF Config
  <2> HIDE DEF x
  <2>3. Carries(x, told) /\ x.provider # None
    BY <1>1, <1>2, <2>1, <2>2 DEF Carries, PastBasics, Steps
  <2> QED
    BY <2>1, <2>2, <2>3, AnswerCarries DEF Steps
<1>5. ASSUME NEW s \in Steps \ {"k8s", "basics", "endpoints"}, pc = s,
             NEW x, SameAnswers(c, x), Answer(s, x, told)
      PROVE  SessionCarries'
  <2>1. c.provider # None /\ x.provider # None
    BY <1>2, <1>5 DEF PastBasics, SameAnswers
  <2>2. Carries(x, told)
    BY <1>1, <1>5, CarriesSame
  <2> QED
    BY <1>5, <2>1, <2>2, AnswerCarries
<1>6. CASE Lockdown
  <2>1. PICK v \in {"no", "yes"} : Answer("lockdown", [c EXCEPT !.lockdown = v], told)
    BY <1>6 DEF Lockdown
  <2>2. SameAnswers(c, [c EXCEPT !.lockdown = v])
    BY <1>1 DEF SameAnswers, Config
  <2> QED
    BY <1>5, <1>6, <2>1, <2>2 DEF Lockdown, Steps
<1>7. CASE Security
  <2>1. SameAnswers(c, [c EXCEPT !.security = TRUE])
    BY <1>1 DEF SameAnswers, Config
  <2> QED
    BY <1>5, <1>7, <2>1 DEF Security, Steps
<1>8. CASE GitSSH
  <2>1. SameAnswers(c, [c EXCEPT !.git = TRUE])
    BY <1>1 DEF SameAnswers, Config
  <2> QED
    BY <1>5, <1>8, <2>1 DEF GitSSH, Steps
<1>9. CASE Obmondo
  BY <1>5, <1>9 DEF Obmondo, SameAnswers, Steps
<1> QED
  BY <1>3, <1>4, <1>6, <1>7, <1>8, <1>9

\* The provider's forms, in the order of their phases.
LEMMA ProviderCarries ==
    ASSUME IInv, SessionCarries,
           PickMode \/ HetznerForm \/ VSwitch \/ CloudForm \/ BareMetalForm
    PROVE  SessionCarries'
<1>1. c \in Config /\ told \in Told /\ Carries(c, told)
  BY DEF IInv, SessionInv, Sound, SessionCarries
<1>2. c.provider # None
  BY DEF SessionCarries, PastBasics, Steps, PickMode, HetznerForm, VSwitch, CloudForm, BareMetalForm
<1>3. CASE PickMode
  <2>1. PICK a \in Answers : /\ c' = [c EXCEPT !.mode = a.mode]
                             /\ told' = [told EXCEPT !.mode = a.mode]
    BY <1>3 DEF PickMode
  <2>2. Carries(c', told') /\ c'.provider = c.provider
    BY <1>1, <2>1 DEF Carries, Config, Told
  <2> QED
    BY <1>2, <1>3, <2>2 DEF PickMode, SessionCarries
<1>4. CASE HetznerForm
  <2> DEFINE robot == c.robot \/ UsesServers(c)
             spec == IF UsesHCloud(c) THEN c.spec \cup {"hetzner"} ELSE c.spec \ {"hetzner"}
             x(r) == [c EXCEPT !.creds = @ \cup {"hetzner"}, !.replicas = r,
                               !.robot = robot, !.spec = spec]
  <2>1. PICK r \in Replicas :
          IF c.mode = "hcloud" THEN ProviderDone([x(r) EXCEPT !.pools = TRUE])
                               ELSE pc' = "vswitch" /\ c' = x(r) /\ UNCHANGED <<done, told>>
    BY <1>4 DEF HetznerForm
  <2> HIDE DEF robot, spec
  <2>2. SameAnswers(c, x(r)) /\ SameAnswers(c, [x(r) EXCEPT !.pools = TRUE])
    BY <1>1 DEF SameAnswers, Config
  <2> HIDE DEF x
  <2> QED
    BY <1>2, <2>1, <2>2, DoneCarries, QuietStep
<1>5. CASE VSwitch
  <2> DEFINE x == [c EXCEPT !.vswitch = TRUE]
  <2>1. x \in Config /\ SameAnswers(c, x)
    BY <1>1 DEF SameAnswers, Config
  <2>2. EnterControlPlane(x) \/ EnterWorkers(x)
    BY <1>5 DEF VSwitch
  <2>3. x.provider # None
    BY <1>2, <2>1 DEF SameAnswers
  <2> HIDE DEF x
  <2> QED
    BY <1>1, <2>1, <2>2, <2>3, EnterCarries, CarriesSame
<1>6. CASE CloudForm
  <2>1. PICK x \in {AWSAnswers(c), AzureAnswers(c), c} : ProviderDone(x)
    BY <1>6 DEF CloudForm
  <2>2. SameAnswers(c, x)
    BY <1>1 DEF SameAnswers, AWSAnswers, AzureAnswers, Config
  <2> QED
    BY <1>2, <2>1, <2>2, DoneCarries
<1>7. CASE BareMetalForm
  BY <1>1, <1>2, <1>7, EnterCarries DEF BareMetalForm
<1> QED
  BY <1>3, <1>4, <1>5, <1>6, <1>7

\* A host enters the config and the record of the answers together.
LEMMA HostsCarry ==
    ASSUME IInv, SessionCarries, NEW h \in Hosts, AddControlPlane(h) \/ AddWorker(h)
    PROVE  SessionCarries'
<1> DEFINE p == c.provider
<1>1. c \in Config /\ told \in Told /\ Carries(c, told) /\ p # None
  BY DEF IInv, SessionInv, Sound, SessionCarries, PastBasics, AddControlPlane, AddWorker
<1>2. ASSUME NEW hs,
             \/ c' = [c EXCEPT !.cp[p] = hs] /\ told' = [told EXCEPT !.cp[p] = hs]
             \/ c' = [c EXCEPT !.wk[p] = hs] /\ told' = [told EXCEPT !.wk[p] = hs],
             pc' \in {"cp", "cpDone", "workers"}
      PROVE  SessionCarries'
  <2>1. Carries(c', told')
    <3>1. CASE c' = [c EXCEPT !.cp[p] = hs] /\ told' = [told EXCEPT !.cp[p] = hs]
      BY <1>1, <3>1, CarriesHosts
    <3>2. CASE c' = [c EXCEPT !.wk[p] = hs] /\ told' = [told EXCEPT !.wk[p] = hs]
      BY <1>1, <3>2, CarriesHosts
    <3> QED
      BY <1>2, <3>1, <3>2
  <2>2. c'.provider = p
    BY <1>1, <1>2 DEF Config
  <2> QED
    BY <1>1, <1>2, <2>1, <2>2 DEF SessionCarries
<1>3. CASE AddControlPlane(h)
  <2> DEFINE cps == c.cp[p] \cup {h}
             x == [c EXCEPT !.cp[p] = cps]
  <2>1. \/ /\ pc' \in {"cp", "cpDone"} /\ c' = x /\ told' = [told EXCEPT !.cp[p] = cps]
        \/ EnterControlPlane(x)
    BY <1>3 DEF AddControlPlane
  <2> HIDE DEF cps
  <2>2. CASE EnterControlPlane(x)
    <3>1. c' = [x EXCEPT !.cp[p] = {}] /\ told' = [told EXCEPT !.cp[p] = {}] /\ pc' = "cp"
      BY <1>1, <2>2 DEF EnterControlPlane, Config
    <3>2. [x EXCEPT !.cp[p] = {}] = [c EXCEPT !.cp[p] = {}]
      BY <1>1 DEF Config
    <3> QED
      BY <1>2, <3>1, <3>2
  <2> QED
    BY <1>2, <2>1, <2>2
<1>4. CASE AddWorker(h)
  <2> DEFINE wks == c.wk[p] \cup {h}
  <2>1. told.wk = c.wk /\ pc' = "workers"
    BY <1>1, <1>4 DEF AddWorker, Carries
  <2>2. c' = [c EXCEPT !.wk[p] = wks]
    BY <1>4 DEF AddWorker
  <2>3. told' = [told EXCEPT !.wk[p] = told.wk[p] \cup {h}]
    BY <1>4 DEF AddWorker
  <2>4. told' = [told EXCEPT !.wk[p] = wks]
    BY <2>1, <2>3
  <2> HIDE DEF wks
  <2> QED
    BY <1>2, <2>1, <2>2, <2>4
<1> QED
  BY <1>3, <1>4

LEMMA PhasesCarry ==
    ASSUME IInv, SessionCarries, NoMoreWorkers \/ Continue \/ Back \/ ApiHost
    PROVE  SessionCarries'
<1>1. /\ c \in Config /\ told \in Told /\ Carries(c, told) /\ c.provider # None
      /\ SameAnswers(c, c)
  BY DEF IInv, SessionInv, Sound, SessionCarries, PastBasics, NoMoreWorkers, Continue, Back,
     ApiHost, SameAnswers
<1>2. CASE NoMoreWorkers
  BY <1>1, <1>2, QuietStep DEF NoMoreWorkers
<1>3. CASE Continue
  <2>1. CASE ProviderDone(c)
    BY <1>1, <2>1, DoneCarries
  <2>2. CASE EnterWorkers(c)
    BY <1>1, <2>2, EnterCarries
  <2>3. CASE pc' = "apiHost" /\ UNCHANGED <<c, told>>
    BY <1>1, <2>3, QuietStep
  <2> QED
    BY <1>3, <2>1, <2>2, <2>3 DEF Continue
<1>4. CASE Back
  <2>1. CASE EnterControlPlane(c)
    BY <1>1, <2>1, EnterCarries
  <2>2. CASE pc' = "vswitch" /\ UNCHANGED <<c, told>>
    BY <1>1, <2>2, QuietStep
  <2> QED
    BY <1>4, <2>1, <2>2 DEF Back
<1>5. CASE ApiHost
  <2> DEFINE x == [c EXCEPT !.apiHost = @ \cup {c.provider}]
  <2>1. ProviderDone(x) /\ SameAnswers(c, x)
    BY <1>1, <1>5 DEF ApiHost, SameAnswers, Config
  <2> HIDE DEF x
  <2> QED
    BY <1>1, <2>1, DoneCarries
<1> QED
  BY <1>2, <1>3, <1>4, <1>5

\* The end of a session, and what a command does between two.
LEMMA EndCarries ==
    ASSUME IInv, SessionCarries,
           \/ Confirm \/ Redo \/ Leave \/ AbortAndSave
           \/ WriteGeneral \/ WriteSecrets \/ WriteState \/ RemoveState \/ Kill
           \/ (\E d \in Dirs : Parse(d)) \/ UNCHANGED vars
    PROVE  SessionCarries'
<1>1. CASE End
  BY <1>1, CarriesNothing DEF End, SessionCarries, PastBasics, Steps
<1>2. CASE UNCHANGED <<pc, c, told>>
  BY <1>2 DEF SessionCarries
<1>3. CASE /\ UNCHANGED <<c, told>> /\ pc # "idle"
           /\ \/ pc' \in {"basics", "general", "secrets", "state"}
              \/ pc = "confirm" /\ pc' = "obmondo"
  <2>1. pc' \in PastBasics => c.provider # None
    BY <1>3 DEF SessionCarries, PastBasics, Steps
  <2> QED
    BY <1>3, <2>1, QuietStep DEF SameAnswers
<1> QED
  BY <1>1, <1>2, <1>3 DEF Confirm, Redo, Leave, AbortAndSave, WriteGeneral, WriteSecrets,
     WriteState, RemoveState, Kill, Parse, Writing, session, vars

LEMMA SessionCarriesStep ==
    ASSUME IInv, CarriesInv, WorkloadStays, [Next]_vars
    PROVE  SessionCarries'
<1> USE DEF CarriesInv
<1>1. CASE \/ \E d \in Dirs : Start(d)
           \/ LoadExisting \/ StartFresh \/ Skip
  BY <1>1, OpenCarries
<1>2. CASE Basics \/ Keycloak \/ MeshZone \/ JoinMesh \/ DeclineMesh
  BY <1>2, RecordedCarries
<1>3. CASE PickK8sProfile \/ Endpoints \/ Lockdown \/ Security \/ GitSSH \/ Obmondo
  BY <1>3, OtherFormsCarry
<1>4. CASE PickMode \/ HetznerForm \/ VSwitch \/ CloudForm \/ BareMetalForm
  BY <1>4, ProviderCarries
<1>5. CASE \E h \in Hosts : AddControlPlane(h) \/ AddWorker(h)
  BY <1>5, HostsCarry
<1>6. CASE NoMoreWorkers \/ Continue \/ Back \/ ApiHost
  BY <1>6, PhasesCarry
<1>7. CASE \/ Confirm \/ Redo \/ Leave \/ AbortAndSave
           \/ WriteGeneral \/ WriteSecrets \/ WriteState \/ RemoveState \/ Kill
           \/ (\E d \in Dirs : Parse(d)) \/ UNCHANGED vars
  BY <1>7, EndCarries
<1> QED
  BY <1>1, <1>2, <1>3, <1>4, <1>5, <1>6, <1>7, Zenon DEF Next, Rest

\* The question about the kind of cluster is asked before any other, and is what
\* such a session cannot skip.
LEMMA UnaskedStep ==
    ASSUME IInv, SessionCarries, UnaskedInv, [Next]_vars
    PROVE  UnaskedInv'
<1> DEFINE Early == {"load", "k8s", "basics"}
<1> SUFFICES ASSUME origin' = "unasked"
             PROVE  pc' \in Early \cup Writing /\ told' = NothingTold /\ c'.provider = None
  BY DEF UnaskedInv
<1>1. CASE \E d \in Dirs : Start(d)
  BY <1>1 DEF Start, SessionCarries, Default
<1>2. CASE origin = "unasked"
  <2>1. pc \in Early \cup Writing /\ told = NothingTold /\ c.provider = None /\ c \in Config
    BY <1>2 DEF UnaskedInv, IInv, SessionInv, Sound
  <2>2. CASE UNCHANGED <<told, c>> /\ pc' \in Early \cup Writing
    BY <2>1, <2>2
  <2>3. CASE StartFresh
    BY <2>1, <2>3 DEF StartFresh, session, Config
  <2>4. CASE Skip
    <3>1. pc = "k8s"
      BY <2>1, <2>4 DEF Skip, Asks, MissingBasics, Writing, Steps
    <3> QED
      BY <2>1, <2>4, <3>1 DEF Skip, session, After
  <2>5. CASE Basics
    BY <1>2, <2>5 DEF Basics, Answer
  <2>6. CASE PickK8sProfile
    BY <2>1, <2>6 DEF PickK8sProfile, Answer, After
  <2>7. CASE AbortAndSave \/ WriteGeneral \/ WriteSecrets \/ UNCHANGED vars
    BY <2>1, <2>7 DEF AbortAndSave, WriteGeneral, WriteSecrets, session, vars, Writing
  <2>8. CASE End \/ LoadExisting
    BY <2>8 DEF End, LoadExisting
  <2>9. ~ \/ Keycloak \/ Endpoints \/ MeshZone \/ JoinMesh \/ DeclineMesh
          \/ Lockdown \/ Security \/ GitSSH \/ Obmondo \/ Confirm \/ Redo
          \/ \E d \in Dirs : Parse(d)
    BY <2>1 DEF Keycloak, Endpoints, MeshZone, JoinMesh, DeclineMesh, Lockdown, Security, GitSSH,
       Obmondo, Confirm, Redo, Parse, Writing
  <2>10. ~ \/ PickMode \/ HetznerForm \/ VSwitch \/ CloudForm \/ BareMetalForm
           \/ (\E h \in Hosts : AddControlPlane(h) \/ AddWorker(h))
           \/ NoMoreWorkers \/ Continue \/ Back \/ ApiHost
    BY <2>1 DEF PickMode, HetznerForm, VSwitch, CloudForm, BareMetalForm, AddControlPlane,
       AddWorker, NoMoreWorkers, Continue, Back, ApiHost, Writing
  <2>11. Leave \/ WriteState \/ RemoveState \/ Kill => End
    BY DEF Leave, WriteState, RemoveState, Kill
  <2> QED
    BY <1>1, <2>3, <2>4, <2>5, <2>6, <2>7, <2>8, <2>9, <2>10, <2>11, Zenon DEF Next, Rest
<1>3. CASE origin # "unasked" /\ ~ \E d \in Dirs : Start(d)
  <2>1. ~ (End \/ LoadExisting \/ origin' \in {"fresh", origin})
    BY <1>3 DEF End, LoadExisting
  <2>2. ASSUME NEW s, NEW x, NEW t, Answer(s, x, t) PROVE origin' \in {"fresh", origin}
    BY <2>2 DEF Answer
  <2>3. ~ \/ PickK8sProfile \/ Basics \/ Keycloak \/ Endpoints \/ MeshZone \/ JoinMesh
          \/ DeclineMesh \/ Lockdown \/ Security \/ GitSSH \/ Obmondo
    BY <2>1, <2>2 DEF PickK8sProfile, Basics, Keycloak, Endpoints, MeshZone, JoinMesh,
       DeclineMesh, Lockdown, Security, GitSSH, Obmondo
  <2>4. ~ \/ PickMode \/ HetznerForm \/ VSwitch \/ CloudForm \/ BareMetalForm
          \/ (\E h \in Hosts : AddControlPlane(h) \/ AddWorker(h))
          \/ NoMoreWorkers \/ Continue \/ Back \/ ApiHost
    BY <2>1 DEF PickMode, HetznerForm, VSwitch, CloudForm, BareMetalForm, AddControlPlane,
       AddWorker, NoMoreWorkers, Continue, Back, ApiHost, Phase
  <2>5. ~ \/ StartFresh \/ Skip \/ Confirm \/ Redo \/ AbortAndSave
          \/ WriteGeneral \/ WriteSecrets \/ (\E d \in Dirs : Parse(d)) \/ UNCHANGED vars
    BY <2>1 DEF StartFresh, Skip, Confirm, Redo, AbortAndSave, WriteGeneral, WriteSecrets, Parse,
       session, vars
  <2>6. Leave \/ WriteState \/ RemoveState \/ Kill => End
    BY DEF Leave, WriteState, RemoveState, Kill
  <2> QED
    BY <1>3, <2>1, <2>3, <2>4, <2>5, <2>6, Zenon DEF Next, Rest
<1> QED
  BY <1>1, <1>2, <1>3

LEMMA DiskCarriesStep ==
    ASSUME IInv, CarriesInv, [Next]_vars
    PROVE  DiskCarries'
<1>1. SessionCarries /\ UnaskedInv /\ DiskCarries
  BY DEF CarriesInv
<1>2. CASE WriteGeneral
  <2>1. Carries(General(c), ToldFor(c))
    BY <1>1, CarriesGeneral DEF IInv, SessionInv, SessionCarries
  <2>2. /\ Target \in Dirs /\ files'[Target].general = General(c)
        /\ \A d \in Dirs \ {Target} : files'[d].general = files[d].general
    BY <1>2, GeneralWritten
  <2>3. ASSUME NEW d \in Dirs \ {Target} PROVE ToldOf(d)' = ToldOf(d)
    <3>1. toldAt \in [Dirs -> Told]
      BY DEF IInv, DiskInv
    <3>2. toldAt'[d] = toldAt[d] /\ (d \in dropped') = (d \in dropped)
      BY <1>2, <3>1 DEF WriteGeneral
    <3> QED
      BY <3>2 DEF ToldOf
  <2>4. ToldOf(Target)' = ToldFor(c)
    <3>1. toldAt \in [Dirs -> Told] /\ Target \in Dirs /\ Target' = Target
      BY <1>2, <2>2 DEF IInv, DiskInv, WriteGeneral, Target, session
    <3>2. CASE origin = "unasked"
      <4>1. told = NothingTold /\ Target \in dropped'
        BY <1>1, <1>2, <3>2 DEF UnaskedInv, WriteGeneral
      <4>2. Listed(c, NoHosts, OwnControlPlane(c)) = NoHosts
            /\ Listed(c, NoHosts, OwnWorkers(c)) = NoHosts
        BY DEF Listed, NoHosts
      <4>3. ToldFor(c) = NothingTold
        <5>1. told.cp = NoHosts /\ told.wk = NoHosts /\ told.mode = None
          BY <4>1 DEF NothingTold
        <5>2. ToldFor(c) = [told EXCEPT !.mode = None, !.cp = NoHosts, !.wk = NoHosts]
          BY <4>2, <5>1 DEF ToldFor
        <5> QED
          BY <4>1, <5>2 DEF NothingTold
      <4> QED
        BY <3>1, <4>1, <4>3 DEF ToldOf
    <3>3. CASE origin # "unasked"
      <4>1. toldAt'[Target] = ToldFor(c) /\ Target \notin dropped'
        BY <1>2, <3>1, <3>3 DEF WriteGeneral
      <4> QED
        BY <3>1, <4>1 DEF ToldOf
    <3> QED
      BY <3>2, <3>3
  <2>5. Target' = Target
    BY <1>2 DEF WriteGeneral, Target, session
  <2>6. ASSUME NEW d \in Dirs, files'[d].general # NoFile
        PROVE  Carries(files'[d].general, ToldOf(d)')
    BY <1>1, <2>1, <2>2, <2>3, <2>4, <2>5, <2>6 DEF DiskCarries
  <2> QED
    BY <2>6 DEF DiskCarries
<1>3. CASE ~WriteGeneral
  BY <1>1, <1>3, GeneralStays DEF DiskCarries, ToldOf
<1> QED
  BY <1>2, <1>3

(* AnswersKept for any clusters, hosts, answers and number of sessions, if *)
(* no operator turns a workload cluster into a VPN cluster on the way:     *)
(* every form leaves the config and the record of what was answered alike, *)
(* rendering, saving and loading keep them so, and a config not loaded is  *)
(* replaced by defaults only before the first answer of a session.         *)
THEOREM AnswersKeptAlways == WorkloadStays => (Spec => []AnswersKept)
<1> SUFFICES ASSUME WorkloadStays PROVE Spec => []AnswersKept
  OBVIOUS
<1>1. Init => CarriesInv
  BY CarriesInit
<1>2. IInv /\ CarriesInv /\ [Next]_vars => CarriesInv'
  BY SessionCarriesStep, UnaskedStep, DiskCarriesStep DEF CarriesInv
<1>3. CarriesInv => AnswersKept
  BY DEF CarriesInv, DiskCarries, ToldOf, Carries, Carried, AnswersKept
<1> QED
  BY <1>1, <1>2, <1>3, Invariance, PTL DEF Spec

-----------------------------------------------------------------------------
(* What a confirmed session writes, the parser accepts.                    *)

\* An operator who may choose hybrid for a kind of cluster.
HybridOffered(type) == \E a \in Answers : a.kind = <<"hetzner", type>> /\ a.mode = "hybrid"

\* The operators the theorem is about. None sets up AWS or Azure, whose machines
\* are not read back; a VPN cluster is in HCloud, as the parser wants it; nobody
\* hesitates between hcloud and hybrid, whose form leaves no node group.
PlainAnswers ==
    \A a \in Answers :
        /\ a.kind[1] \notin {"aws", "azure"}
        /\ a.kind[2] = "vpn" => a.mode = "hcloud"
        /\ a.mode = "hcloud" => ~ \E b \in Answers : b.kind = a.kind /\ b.mode = "hybrid"

\* No cluster changes its type: a keycloak block stays when it does.
TypesStay == \A s \in Switches : s[1][2] = s[2][2]

\* What holds of a config at any time, the ones saved half-way included.
Fit(x) ==
    /\ x.provider \in {None, "hetzner", "bare-metal", "local"}
    /\ IF x.type = "vpn" THEN x.provider = "hetzner" /\ x.mode = "hcloud" ELSE x.idp = None
    /\ x.provider = None => x.spec = {} /\ x.mode = "hcloud"
    /\ "hetzner" \in x.spec => IF HybridOffered(x.type) THEN x.mode # "hcloud" ELSE x.pools

IdpKnown(x) == x.type = "vpn" => ~MissingIdp(x)

EndpointsKnown(x) == x.type = "vpn" => ~MissingEndpoints(x)

\* What a session has answered once it is past a question.
Beyond == PastBasics \cup Writing

PastProvider == {"lockdown", "security", "git", "confirm", "obmondo"} \cup Writing

Answered ==
    /\ pc \in Beyond => ~MissingBasics(c)
    /\ pc \in Beyond \ {"idp"} => IdpKnown(c)
    /\ pc \in Beyond \ {"idp", "endpoints"} => EndpointsKnown(c)
    /\ pc \in PastProvider => ~MissingProvider(c)
    /\ pc \in {"confirm", "obmondo"} \cup Writing => c.git

\* The same for the phases of the provider's form.
Phases == {"vswitch", "cp", "cpDone", "workers", "workersDone", "apiHost"}

PhasesInv ==
    /\ pc = "credentials" =>
          /\ c.provider = "hetzner"
          /\ \E a \in Answers : a.kind = <<"hetzner", c.type>> /\ a.mode = c.mode
    /\ pc \in Phases => UsesServers(c) \/ (c.provider = "bare-metal" /\ pc # "vswitch")
    /\ pc \in Phases /\ c.provider = "hetzner" =>
          /\ "hetzner" \in c.creds /\ c.robot
          /\ UsesHCloud(c) => "hetzner" \in c.spec /\ c.replicas # 0
    /\ pc \in Phases \ {"vswitch"} /\ c.provider = "hetzner" => c.vswitch
    /\ pc \in {"cp", "cpDone", "apiHost"} => OwnControlPlane(c)
    /\ pc \in Phases \ {"vswitch", "cp"} /\ OwnControlPlane(c) => c.cp[c.provider] # {}
    /\ pc \in {"workersDone", "apiHost"} /\ c.provider = "hetzner" => c.wk["hetzner"] # {}

ProgressInv == Fit(c) /\ (saving => pc \in Writing) /\ (~saving => Answered /\ PhasesInv)

\* What the files hold while a session writes them, and afterwards.
WrittenInv ==
    /\ \A d \in Dirs : files[d].general # NoFile => Fit(files[d].general)
    /\ pc \in {"secrets", "state"} => Target \notin confirmed /\ files[Target].general = General(c)
    /\ pc = "state" => files[Target].secrets = Secrets(c)
    /\ WrittenParses

\* Two configs alike in what names the cluster, and in what it is made of.
SameIdentity(x, y) ==
    /\ y.name = x.name /\ y.provider = x.provider /\ y.type = x.type
    /\ y.idp = x.idp /\ y.idpSecret = x.idpSecret
    /\ y.mgmt = x.mgmt /\ y.endpoint = x.endpoint /\ y.git = x.git

SameMachines(x, y) ==
    /\ y.provider = x.provider /\ y.mode = x.mode /\ y.spec = x.spec /\ y.pools = x.pools
    /\ y.creds = x.creds /\ y.robot = x.robot /\ y.replicas = x.replicas
    /\ y.vswitch = x.vswitch /\ y.cp = x.cp /\ y.wk = x.wk /\ y.apiHost = x.apiHost

LEMMA IdentityKeeps ==
    ASSUME NEW x, NEW y, SameIdentity(x, y)
    PROVE  /\ MissingBasics(x) <=> MissingBasics(y)
           /\ IdpKnown(x) <=> IdpKnown(y)
           /\ EndpointsKnown(x) <=> EndpointsKnown(y)
BY DEF SameIdentity, MissingBasics, IdpKnown, MissingIdp, EndpointsKnown, MissingEndpoints

LEMMA MachinesKeep ==
    ASSUME NEW x, NEW y, SameMachines(x, y)
    PROVE  /\ MissingProvider(x) <=> MissingProvider(y)
           /\ y.type = x.type /\ (x.type # "vpn" => y.idp = None) => (Fit(x) => Fit(y))
BY DEF SameMachines, MissingProvider, UsesHCloud, UsesServers, OwnControlPlane, Fit

LEMMA FitDefault == \A n : Fit(Default(n))
BY DEF Fit, Default, None

LEMMA FitLoaded ==
    ASSUME NEW n, NEW g \in Config, NEW s, Fit(g)
    PROVE  Fit(Loaded(n, g, s))
<1> DEFINE x == Loaded(n, g, s)
<1>1. /\ x.provider = g.provider /\ x.type = g.type /\ x.mode = g.mode /\ x.idp = g.idp
      /\ x.spec = g.spec /\ x.pools = g.pools
  BY DEF Loaded, Config
<1> HIDE DEF x
<1>2. Fit(x)
  BY <1>1 DEF Fit
<1> QED
  BY <1>2 DEF x

\* The fields of a rendered config that the parser looks at.
LEMMA GeneralFields ==
    ASSUME NEW x \in Config, NEW g, g = General(x)
    PROVE  /\ g.name = x.name /\ g.provider = x.provider /\ g.type = x.type /\ g.idp = x.idp
           /\ g.git = x.git
           /\ g.mode = (IF x.provider = "hetzner" THEN x.mode ELSE "hcloud")
           /\ g.mgmt = (x.mgmt /\ (x.type = "vpn" \/ x.zone))
           /\ g.endpoint = (x.endpoint /\ x.type = "vpn")
           /\ g.spec = {p \in {x.provider} : p \in x.spec /\ (p = "hetzner" => UsesHCloud(x))}
           /\ g.replicas = (IF UsesHCloud(x) THEN x.replicas ELSE 0)
           /\ g.pools = (x.pools /\ UsesHCloud(x))
           /\ g.vswitch = (x.vswitch /\ UsesServers(x))
           /\ g.cp = Listed(x, x.cp, OwnControlPlane(x))
           /\ g.wk = Listed(x, x.wk, OwnWorkers(x))
           /\ g.apiHost = {p \in x.apiHost : p = x.provider /\ OwnControlPlane(x)}
BY DEF General, Config

LEMMA FitGeneral ==
    ASSUME NEW x \in Config, Fit(x)
    PROVE  Fit(General(x))
<1>1. PICK g : g = General(x)
  OBVIOUS
<1>2. /\ g.provider = x.provider /\ g.type = x.type /\ g.idp = x.idp
      /\ g.mode = (IF x.provider = "hetzner" THEN x.mode ELSE "hcloud")
      /\ g.spec = {p \in {x.provider} : p \in x.spec /\ (p = "hetzner" => UsesHCloud(x))}
      /\ g.pools = (x.pools /\ UsesHCloud(x))
  BY <1>1, GeneralFields
<1>3. Fit(g)
  BY <1>2 DEF Fit, None
<1> QED
  BY <1>1, <1>3

\* What a session that has answered everything renders is accepted.
LEMMA RenderedAccepted ==
    ASSUME NEW x \in Config, Fit(x), ~MissingBasics(x), IdpKnown(x), EndpointsKnown(x),
           ~MissingProvider(x), x.git
    PROVE  Accepts(General(x), Secrets(x))
<1>1. PICK g : g = General(x)
  OBVIOUS
<1>2. PICK s : s = Secrets(x)
  OBVIOUS
<1>3. /\ g.name = x.name /\ g.provider = x.provider /\ g.type = x.type /\ g.idp = x.idp
      /\ g.git = x.git
      /\ g.mode = (IF x.provider = "hetzner" THEN x.mode ELSE "hcloud")
      /\ g.mgmt = (x.mgmt /\ (x.type = "vpn" \/ x.zone))
      /\ g.endpoint = (x.endpoint /\ x.type = "vpn")
      /\ g.spec = {p \in {x.provider} : p \in x.spec /\ (p = "hetzner" => UsesHCloud(x))}
      /\ g.replicas = (IF UsesHCloud(x) THEN x.replicas ELSE 0)
      /\ g.pools = (x.pools /\ UsesHCloud(x))
      /\ g.vswitch = (x.vswitch /\ UsesServers(x))
  BY <1>1, GeneralFields
<1>4. /\ g.cp = Listed(x, x.cp, OwnControlPlane(x)) /\ g.wk = Listed(x, x.wk, OwnWorkers(x))
      /\ g.apiHost = {p \in x.apiHost : p = x.provider /\ OwnControlPlane(x)}
  BY <1>1, GeneralFields
<1>5. /\ s.creds = x.creds \cap {x.provider} /\ s.robot = (x.robot /\ x.provider = "hetzner")
      /\ s.idpSecret = (x.idpSecret /\ x.idp = "external")
  BY <1>2 DEF Secrets
<1>6. /\ x.provider \in {"hetzner", "bare-metal", "local"} /\ x.provider # None
      /\ g.name # NoName /\ g.provider # None /\ g.git
  BY <1>3 DEF Fit, MissingBasics
<1>7. AcceptsIdp(g, s)
  BY <1>3, <1>5 DEF AcceptsIdp, Fit, IdpKnown, MissingIdp, EndpointsKnown, MissingEndpoints
<1>8. AcceptsAWS(g) /\ AcceptsAzure(g, s)
  BY <1>3, <1>6 DEF AcceptsAWS, AcceptsAzure
<1>9. /\ UsesHCloud(g) <=> UsesHCloud(x)
      /\ UsesServers(g) <=> UsesServers(x)
      /\ OwnControlPlane(g) <=> OwnControlPlane(x)
  BY <1>3 DEF UsesHCloud, UsesServers, OwnControlPlane
<1>10. AcceptsHCloud(g)
  <2> SUFFICES ASSUME UsesHCloud(g) PROVE AcceptsHCloud(g)
    BY DEF AcceptsHCloud
  <2>1. UsesHCloud(x) /\ x.provider = "hetzner"
    BY <1>9 DEF UsesHCloud
  <2>2. "hetzner" \in x.spec /\ x.replicas # 0 /\ x.replicas \in Nat
    BY <2>1 DEF MissingProvider, Config
  <2>3. "hetzner" \in g.spec /\ g.replicas = x.replicas /\ g.mode = x.mode
    BY <1>3, <2>1, <2>2
  <2>4. g.mode = "hcloud" => x.pools
    BY <2>2, <2>3 DEF Fit
  <2>5. x.pools => g.pools
    BY <1>3, <2>1
  <2> QED
    BY <2>2, <2>3, <2>4, <2>5 DEF AcceptsHCloud
<1>11. AcceptsHetzner(g, s)
  <2> SUFFICES ASSUME g.provider = "hetzner" PROVE AcceptsHetzner(g, s)
    BY DEF AcceptsHetzner
  <2>1. x.provider = "hetzner" /\ "hetzner" \in s.creds
    BY <1>3, <1>5 DEF MissingProvider
  <2>2. ASSUME UsesServers(g) PROVE s.robot /\ g.vswitch /\ g.wk["hetzner"] # {}
    <3>1. x.robot /\ x.vswitch /\ x.wk["hetzner"] # {}
      BY <1>9, <2>2 DEF MissingProvider
    <3>2. OwnWorkers(x)
      BY <1>9, <2>2 DEF OwnWorkers
    <3>3. UsesServers(x)
      BY <1>9, <2>2
    <3>4. g.vswitch /\ s.robot
      BY <1>3, <1>5, <2>1, <3>1, <3>3
    <3>5. g.wk["hetzner"] # {}
      BY <1>4, <2>1, <3>1, <3>2 DEF Listed, Racks
    <3> QED
      BY <3>4, <3>5
  <2> QED
    BY <1>10, <2>1, <2>2 DEF AcceptsHetzner
<1>12. AcceptsHosts(g)
  <2> SUFFICES ASSUME OwnControlPlane(g) PROVE g.cp[g.provider] # {} /\ g.provider \in g.apiHost
    BY DEF AcceptsHosts
  <2>1. OwnControlPlane(x) /\ x.provider \in Racks
    BY <1>9 DEF OwnControlPlane, Racks
  <2>2. x.cp[x.provider] # {} /\ x.provider \in x.apiHost
    BY <2>1 DEF MissingProvider
  <2> QED
    BY <1>3, <1>4, <2>1, <2>2 DEF Listed
<1>13. Accepts(g, s)
  BY <1>6, <1>7, <1>8, <1>11, <1>12 DEF Accepts
<1> QED
  BY <1>1, <1>2, <1>13

LEMMA ProgressInit == Init => ProgressInv
BY FitDefault DEF Init, ProgressInv, Answered, PhasesInv, Beyond, PastBasics, PastProvider,
   Phases, Writing, Steps

\* A session that is over, or has not asked which cluster yet.
LEMMA EarlyProgress ==
    ASSUME Fit(c'), ~saving', pc' \in {"idle", "load", "k8s", "basics"}
    PROVE  ProgressInv'
BY DEF ProgressInv, Answered, PhasesInv, Beyond, PastBasics, PastProvider, Phases, Writing, Steps

\* A question answered or skipped.
LEMMA NextQuestion ==
    ASSUME ProgressInv, NEW s \in Steps \ {"k8s"}, pc = s, pc' = After[s],
           saving' = saving, Fit(c'), ~MissingBasics(c'),
           s # "basics" => IdpKnown(c'),
           s \notin {"basics", "idp"} => EndpointsKnown(c'),
           s \in {"provider", "lockdown", "security", "git", "obmondo"} => ~MissingProvider(c'),
           s \in {"git", "obmondo"} => c'.git
    PROVE  ProgressInv'
<1>1. ~saving
  BY DEF ProgressInv, Writing, Steps
<1>2. /\ s = "basics" => pc' = "idp"
      /\ s = "idp" => pc' = "endpoints"
      /\ s = "endpoints" => pc' = "mesh"
      /\ s = "mesh" => pc' = "provider"
      /\ s = "provider" => pc' = "lockdown"
      /\ s = "lockdown" => pc' = "security"
      /\ s = "security" => pc' = "git"
      /\ s = "git" => pc' = "confirm"
      /\ s = "obmondo" => pc' = "general"
  BY DEF After
<1>3. s \in {"basics", "idp", "endpoints", "mesh", "provider", "lockdown", "security", "git",
             "obmondo"}
  BY DEF Steps
<1>4. pc' \notin Phases \cup {"credentials"}
  BY <1>2, <1>3 DEF Phases
<1>5. PhasesInv'
  BY <1>4 DEF PhasesInv, Phases
<1>6. pc' \in Beyond \ {"idp"} => s # "basics"
  BY <1>2
<1>7. pc' \in Beyond \ {"idp", "endpoints"} => s \notin {"basics", "idp"}
  BY <1>2
<1>8. pc' \in PastProvider => s \in {"provider", "lockdown", "security", "git", "obmondo"}
  BY <1>2, <1>3 DEF PastProvider, Writing
<1>9. pc' \in {"confirm", "obmondo"} \cup Writing => s \in {"git", "obmondo"}
  BY <1>2, <1>3 DEF Writing
<1>10. Answered'
  BY <1>6, <1>7, <1>8, <1>9 DEF Answered
<1> QED
  BY <1>1, <1>5, <1>10 DEF ProgressInv

\* A phase of the provider's form.
LEMMA NextPhase ==
    ASSUME ProgressInv, pc \in {"provider", "credentials"} \cup Phases,
           pc' \in {"credentials"} \cup Phases, saving' = saving,
           SameIdentity(c, c'), Fit(c'), PhasesInv'
    PROVE  ProgressInv'
<1>1. /\ ~saving /\ Answered
      /\ pc \in Beyond \ {"idp", "endpoints"}
  BY DEF ProgressInv, Beyond, PastBasics, Writing, Steps, Phases
<1>2. ~MissingBasics(c') /\ IdpKnown(c') /\ EndpointsKnown(c')
  BY <1>1, IdentityKeeps DEF Answered
<1>3. pc' \notin PastProvider \cup {"confirm", "obmondo"} \cup Writing
  BY DEF PastProvider, Writing, Phases
<1> QED
  BY <1>1, <1>2, <1>3 DEF ProgressInv, Answered

\* The last one.
LEMMA ProviderAnswered ==
    ASSUME ProgressInv, pc \in {"provider", "credentials"} \cup Phases, saving' = saving,
           NEW x, ProviderDone(x), SameIdentity(c, x), Fit(x), ~MissingProvider(x)
    PROVE  ProgressInv'
<1>1. /\ ~saving /\ Answered
      /\ pc \in Beyond \ {"idp", "endpoints"}
  BY DEF ProgressInv, Beyond, PastBasics, Writing, Steps, Phases
<1>2. ~MissingBasics(x) /\ IdpKnown(x) /\ EndpointsKnown(x)
  BY <1>1, IdentityKeeps DEF Answered
<1>3. c' = x /\ pc' = "lockdown"
  BY DEF ProviderDone, After
<1>4. PhasesInv'
  BY <1>3 DEF PhasesInv, Phases
<1> QED
  BY <1>1, <1>2, <1>3, <1>4 DEF ProgressInv, Answered, Writing

\* The two openings, and the questions skipped.
LEMMA OpenProgress ==
    ASSUME IInv, ProgressInv, WrittenInv,
           (\E d \in Dirs : Start(d)) \/ LoadExisting \/ StartFresh \/ Skip
    PROVE  ProgressInv'
<1>1. c \in Config /\ Fit(c) /\ pc \notin Writing
  BY DEF IInv, SessionInv, Sound, ProgressInv, Start, LoadExisting, StartFresh, Skip, Writing, Steps
<1>2. ~saving /\ Answered
  BY <1>1 DEF ProgressInv
<1>3. ASSUME NEW d \in Dirs, Start(d) PROVE ProgressInv'
  BY <1>2, <1>3, FitDefault, EarlyProgress DEF Start
<1>4. CASE LoadExisting
  <2> DEFINE s == IF files[dir].secrets = NoFile THEN NoSecrets ELSE files[dir].secrets
             g == files[dir].general
  <2>1. c' = Loaded(c.name, g, s) /\ pc' = "k8s" /\ saving' = saving
    BY <1>4 DEF LoadExisting
  <2>2. g \in Config /\ Fit(g)
    BY <1>4 DEF LoadExisting, IInv, SessionInv, JoinInv, DiskInv, Sound, WrittenInv
  <2> HIDE DEF g, s
  <2>3. Fit(c')
    BY <2>1, <2>2, FitLoaded
  <2> QED
    BY <1>2, <2>1, <2>3, EarlyProgress
<1>5. CASE StartFresh
  <2>1. c' = [c EXCEPT !.name = NoName] /\ pc' = "k8s" /\ saving' = saving
    BY <1>5 DEF StartFresh, session
  <2>2. SameMachines(c, c') /\ c'.type = c.type /\ c'.idp = c.idp
    BY <1>1, <2>1 DEF SameMachines, Config
  <2>3. Fit(c')
    BY <1>1, <2>2, MachinesKeep DEF Fit
  <2> QED
    BY <1>2, <2>1, <2>3, EarlyProgress
<1>6. CASE Skip
  <2>1. /\ pc \in Steps /\ ~Asks(pc) /\ pc' = After[pc] /\ saving' = saving
        /\ c' = IF pc = "idp" THEN WithDefaults(c) ELSE c
    BY <1>6 DEF Skip, session
  <2>2. CASE pc = "k8s"
    BY <1>1, <1>2, <2>1, <2>2, EarlyProgress DEF After
  <2>3. CASE pc = "basics"
    BY <1>1, <2>1, <2>3, NextQuestion DEF Asks
  <2>4. pc \notin {"k8s", "basics"} => pc \in Beyond
    BY <2>1 DEF Beyond, PastBasics
  <2>5. CASE pc = "idp"
    <3>1. /\ c'.name = c.name /\ c'.type = c.type /\ c'.idp = c.idp /\ c'.idpSecret = c.idpSecret
          /\ SameMachines(c, c')
      BY <1>1, <2>1, <2>5 DEF WithDefaults, SameMachines, Config
    <3>2. Fit(c')
      BY <1>1, <3>1, MachinesKeep DEF Fit
    <3>3. ~MissingBasics(c')
      BY <1>2, <2>4, <2>5, <3>1 DEF Answered, MissingBasics, SameMachines
    <3>4. IdpKnown(c')
      BY <2>1, <2>5, <3>1 DEF Asks, IdpKnown, MissingIdp
    <3> QED
      BY <2>1, <2>5, <3>2, <3>3, <3>4, NextQuestion
  <2>6. CASE pc = "endpoints"
    <3>1. EndpointsKnown(c)
      BY <2>1, <2>6 DEF Asks, EndpointsKnown
    <3> QED
      BY <1>1, <1>2, <2>1, <2>4, <2>6, <3>1, NextQuestion DEF Answered
  <2>7. CASE pc \in {"mesh", "provider", "lockdown", "security", "git", "obmondo"}
    <3>1. c' = c /\ ~MissingBasics(c) /\ IdpKnown(c) /\ EndpointsKnown(c)
      BY <1>2, <2>1, <2>4, <2>7 DEF Answered
    <3>2. pc # "mesh" => ~MissingProvider(c)
      BY <1>2, <2>1, <2>7 DEF Answered, PastProvider, Asks
    <3>3. pc \in {"git", "obmondo"} => c.git
      BY <1>2, <2>1, <2>7 DEF Answered, Asks
    <3> QED
      BY <1>1, <2>1, <2>7, <3>1, <3>2, <3>3, NextQuestion
  <2> QED
    BY <2>1, <2>2, <2>3, <2>5, <2>6, <2>7 DEF Steps
<1> QED
  BY <1>3, <1>4, <1>5, <1>6

\* The questions that are one form each.
LEMMA FormProgress ==
    ASSUME IInv, ProgressInv, PlainAnswers, TypesStay,
           \/ PickK8sProfile \/ Basics \/ Keycloak \/ Endpoints \/ MeshZone \/ JoinMesh
           \/ DeclineMesh \/ Lockdown \/ Security \/ GitSSH \/ Obmondo
    PROVE  ProgressInv'
<1>1. c \in Config /\ Fit(c)
  BY DEF IInv, SessionInv, Sound, ProgressInv
<1>2. pc \in Steps => ~saving /\ Answered
  BY DEF ProgressInv, Writing, Steps
<1>3. CASE PickK8sProfile
  BY <1>1, <1>2, <1>3, EarlyProgress DEF PickK8sProfile, Answer, After, Steps
<1>4. CASE Basics
  <2>1. PICK a \in Answers, n \in Clusters :
          /\ c.provider # None => <<<<c.provider, c.type>>, a.kind>> \in Switches
          /\ c' = [c EXCEPT !.name = n, !.provider = a.kind[1], !.type = a.kind[2]]
    BY <1>4 DEF Basics, Answer
  <2> DEFINE p == a.kind[1]
             t == a.kind[2]
  <2>2. /\ p \in {"hetzner", "bare-metal", "local"} /\ t \in {"workload", "vpn"}
        /\ t = "vpn" => p = "hetzner" /\ a.mode = "hcloud"
    <3>1. a.kind \in Providers \X {"workload", "vpn"}
      BY AnswersAssumption DEF Kinds
    <3>2. p \in Providers /\ t \in {"workload", "vpn"}
      BY <3>1
    <3> QED
      BY <3>2, AnswersAssumption DEF PlainAnswers, Providers
  <2>3. c.provider # None => t = c.type
    <3> SUFFICES ASSUME c.provider # None PROVE t = c.type
      OBVIOUS
    <3> DEFINE s == <<<<c.provider, c.type>>, a.kind>>
    <3>1. s \in Switches /\ s[1][2] = c.type /\ s[2] = a.kind
      BY <2>1
    <3> QED
      BY <3>1 DEF TypesStay
  <2> HIDE DEF p, t
  <2>4. /\ c'.name = n /\ c'.provider = p /\ c'.type = t /\ c'.mode = c.mode /\ c'.idp = c.idp
        /\ c'.spec = c.spec /\ c'.pools = c.pools
    BY <1>1, <2>1 DEF Config, p, t
  <2>5. c.provider = None => c.type = "workload" /\ c.spec = {} /\ c.idp = None
    BY <1>1 DEF Fit, Config, None
  <2>6. t = "vpn" => c.mode = "hcloud"
    BY <1>1, <2>3, <2>5 DEF Fit
  <2>7. Fit(c')
    BY <1>1, <2>2, <2>3, <2>4, <2>5, <2>6 DEF Fit, None
  <2>8. ~MissingBasics(c')
    BY <2>2, <2>4, NamesAssumption DEF MissingBasics, None
  <2>9. pc = "basics" /\ pc' = After["basics"] /\ saving' = saving
    BY <1>4 DEF Basics, Answer
  <2> QED
    BY <2>7, <2>8, <2>9, NextQuestion DEF Steps
<1>5. ASSUME NEW s \in Steps \ {"k8s", "basics", "idp"}, pc = s, pc' = After[s],
             saving' = saving, c'.name = c.name, c'.type = c.type, c'.idp = c.idp,
             c'.idpSecret = c.idpSecret, SameMachines(c, c'), EndpointsKnown(c'),
             s # "provider", s \in {"git", "obmondo"} => c'.git
      PROVE  ProgressInv'
  <2>1. /\ ~saving /\ Answered /\ pc \in Beyond \ {"idp"}
        /\ pc \in {"lockdown", "security", "git", "obmondo"} => pc \in PastProvider
    BY <1>2, <1>5 DEF Beyond, PastBasics, PastProvider
  <2>2. Fit(c')
    BY <1>1, <1>5, MachinesKeep DEF Fit
  <2>3. ~MissingBasics(c') /\ IdpKnown(c')
    BY <1>5, <2>1 DEF Answered, MissingBasics, SameMachines, IdpKnown, MissingIdp
  <2>4. s \in {"provider", "lockdown", "security", "git", "obmondo"} => ~MissingProvider(c')
    BY <1>5, <2>1, MachinesKeep DEF Answered
  <2> QED
    BY <1>5, <2>2, <2>3, <2>4, NextQuestion
<1>6. CASE Keycloak
  <2>1. PICK m \in {"managed", "external"} :
          Answer("idp", WithDefaults([c EXCEPT !.idp = m, !.idpSecret = @ \/ m = "external"]),
                 [told EXCEPT !.idp = m])
    BY <1>6 DEF Keycloak
  <2> DEFINE x == [c EXCEPT !.idp = m, !.idpSecret = @ \/ m = "external"]
             y == WithDefaults(x)
  <2>2. /\ pc = "idp" /\ c.type = "vpn" /\ c' = y /\ pc' = After["idp"] /\ saving' = saving
        /\ ~MissingBasics(c)
    BY <1>2, <1>6, <2>1 DEF Keycloak, Answer, Asks, Answered, Beyond, PastBasics, Steps
  <2>3. /\ x \in Config /\ x.name = c.name /\ x.type = c.type /\ x.idp = m
        /\ SameMachines(c, x) /\ (m = "external" => x.idpSecret)
    <3> DEFINE b == c.idpSecret \/ m = "external"
    <3>1. b \in BOOLEAN /\ x = [c EXCEPT !.idp = m, !.idpSecret = b]
      BY <1>1 DEF Config
    <3> HIDE DEF b, x
    <3>2. x \in Config /\ x.name = c.name /\ x.type = c.type /\ x.idp = m /\ x.idpSecret = b
      BY <1>1, <3>1 DEF Config
    <3>3. SameMachines(c, x)
      BY <1>1, <3>1 DEF SameMachines, Config
    <3> QED
      BY <3>2, <3>3 DEF b
  <2>4. y = [x EXCEPT !.mgmt = TRUE, !.endpoint = TRUE]
    BY <2>2, <2>3 DEF WithDefaults, None
  <2> HIDE DEF x, y
  <2>5. /\ y.name = c.name /\ y.type = c.type /\ y.idp = m /\ SameMachines(c, y)
        /\ m = "external" => y.idpSecret
    BY <2>3, <2>4 DEF SameMachines, Config
  <2>6. Fit(y)
    BY <1>1, <2>2, <2>5, MachinesKeep
  <2>7. ~MissingBasics(y) /\ IdpKnown(y)
    BY <2>2, <2>5 DEF MissingBasics, SameMachines, IdpKnown, MissingIdp, None
  <2> QED
    BY <2>2, <2>6, <2>7, NextQuestion DEF Steps
<1>7. CASE Endpoints
  <2>1. c' = [c EXCEPT !.mgmt = TRUE, !.endpoint = TRUE]
    BY <1>7 DEF Endpoints, Answer
  <2>2. /\ c'.name = c.name /\ c'.type = c.type /\ c'.idp = c.idp /\ c'.idpSecret = c.idpSecret
        /\ SameMachines(c, c') /\ c'.mgmt /\ c'.endpoint
    BY <1>1, <2>1 DEF SameMachines, Config
  <2>3. EndpointsKnown(c')
    BY <2>2 DEF EndpointsKnown, MissingEndpoints
  <2> QED
    BY <1>5, <1>7, <2>2, <2>3 DEF Endpoints, Answer, Steps
<1>8. CASE MeshZone \/ JoinMesh \/ DeclineMesh
  <2>1. pc = "mesh" /\ pc' = After["mesh"] /\ saving' = saving /\ EndpointsKnown(c)
    BY <1>2, <1>8 DEF MeshZone, JoinMesh, DeclineMesh, Answer, Answered, Beyond, PastBasics, Steps
  <2>2. /\ c'.name = c.name /\ c'.type = c.type /\ c'.idp = c.idp /\ c'.idpSecret = c.idpSecret
        /\ SameMachines(c, c')
        /\ c.type = "vpn" => c'.mgmt = c.mgmt /\ c'.endpoint = c.endpoint
    <3>1. CASE MeshZone
      <4>1. c' = [c EXCEPT !.zone = TRUE]
        BY <3>1 DEF MeshZone, Answer
      <4> QED
        BY <1>1, <4>1 DEF SameMachines, Config
    <3>2. CASE JoinMesh
      <4>1. c' = [c EXCEPT !.mgmt = TRUE, !.zone = TRUE, !.apiKey = TRUE] /\ c.type = "workload"
        BY <3>2 DEF JoinMesh, Answer
      <4> QED
        BY <1>1, <4>1 DEF SameMachines, Config
    <3>3. CASE DeclineMesh
      <4>1. c' = [c EXCEPT !.mgmt = FALSE, !.zone = FALSE, !.apiKey = FALSE] /\ c.type = "workload"
        BY <3>3 DEF DeclineMesh, Answer
      <4> QED
        BY <1>1, <4>1 DEF SameMachines, Config
    <3> QED
      BY <1>8, <3>1, <3>2, <3>3
  <2>3. EndpointsKnown(c')
    BY <2>1, <2>2 DEF EndpointsKnown, MissingEndpoints
  <2> QED
    BY <1>5, <2>1, <2>2, <2>3 DEF Steps
<1>9. ASSUME NEW s \in {"lockdown", "security", "git", "obmondo"}, pc = s, pc' = After[s],
             saving' = saving, SameMachines(c, c'), c'.name = c.name, c'.type = c.type,
             c'.idp = c.idp, c'.idpSecret = c.idpSecret, c'.mgmt = c.mgmt,
             c'.endpoint = c.endpoint, s \in {"git", "obmondo"} => c'.git
      PROVE  ProgressInv'
  <2>1. EndpointsKnown(c)
    BY <1>2, <1>9 DEF Answered, Beyond, PastBasics, Steps
  <2>2. EndpointsKnown(c')
    BY <1>9, <2>1 DEF EndpointsKnown, MissingEndpoints
  <2>3. s \in Steps \ {"k8s", "basics", "idp"} /\ s # "provider"
    BY <1>9 DEF Steps
  <2> QED
    BY <1>5, <1>9, <2>2, <2>3
<1>10. CASE Lockdown
  <2>1. PICK v \in {"no", "yes"} : c' = [c EXCEPT !.lockdown = v]
    BY <1>10 DEF Lockdown, Answer
  <2>2. /\ SameMachines(c, c') /\ c'.name = c.name /\ c'.type = c.type /\ c'.idp = c.idp
        /\ c'.idpSecret = c.idpSecret /\ c'.mgmt = c.mgmt /\ c'.endpoint = c.endpoint
    BY <1>1, <2>1 DEF SameMachines, Config
  <2> QED
    BY <1>9, <1>10, <2>2 DEF Lockdown, Answer
<1>11. CASE Security
  <2>1. /\ SameMachines(c, c') /\ c'.name = c.name /\ c'.type = c.type /\ c'.idp = c.idp
        /\ c'.idpSecret = c.idpSecret /\ c'.mgmt = c.mgmt /\ c'.endpoint = c.endpoint
    BY <1>1, <1>11 DEF Security, Answer, SameMachines, Config
  <2> QED
    BY <1>9, <1>11, <2>1 DEF Security, Answer
<1>12. CASE GitSSH
  <2>1. /\ SameMachines(c, c') /\ c'.name = c.name /\ c'.type = c.type /\ c'.idp = c.idp
        /\ c'.idpSecret = c.idpSecret /\ c'.mgmt = c.mgmt /\ c'.endpoint = c.endpoint
        /\ c'.git
    BY <1>1, <1>12 DEF GitSSH, Answer, SameMachines, Config
  <2> QED
    BY <1>9, <1>12, <2>1 DEF GitSSH, Answer
<1>13. CASE Obmondo
  <2>1. c.git
    BY <1>2, <1>13 DEF Obmondo, Answered, Steps
  <2> QED
    BY <1>9, <1>13, <2>1 DEF Obmondo, Answer, SameMachines
<1> QED
  BY <1>3, <1>4, <1>6, <1>7, <1>8, <1>10, <1>11, <1>12, <1>13

\* The phases before the hosts.
LEMMA ModeProgress ==
    ASSUME IInv, ProgressInv, PlainAnswers, PickMode \/ HetznerForm \/ VSwitch
    PROVE  ProgressInv'
<1>1. c \in Config /\ Fit(c) /\ ~saving /\ Answered /\ PhasesInv
  BY DEF IInv, SessionInv, Sound, ProgressInv, PickMode, HetznerForm, VSwitch, Writing
<1>2. CASE PickMode
  <2>1. PICK a \in Answers : a.kind = <<c.provider, c.type>> /\ c' = [c EXCEPT !.mode = a.mode]
    BY <1>2 DEF PickMode
  <2>2. c.provider = "hetzner" /\ pc = "provider" /\ pc' = "credentials" /\ saving' = saving
    BY <1>2 DEF PickMode, Phase
  <2>3. /\ SameIdentity(c, c') /\ c'.mode = a.mode /\ c'.spec = c.spec /\ c'.pools = c.pools
    BY <1>1, <2>1 DEF SameIdentity, Config
  <2>4. a.kind = <<"hetzner", c.type>> /\ (c.type = "vpn" => a.mode = "hcloud")
    BY <2>1, <2>2 DEF PlainAnswers
  <2>5. HybridOffered(c.type) => a.mode # "hcloud"
    BY <2>4 DEF HybridOffered, PlainAnswers
  <2>6. Fit(c')
    BY <1>1, <2>2, <2>3, <2>4, <2>5 DEF Fit, SameIdentity, None
  <2>7. PhasesInv'
    BY <2>2, <2>3, <2>4 DEF PhasesInv, Phases, SameIdentity
  <2> QED
    BY <2>2, <2>3, <2>6, <2>7, NextPhase
<1>3. CASE HetznerForm
  <2> DEFINE robot == c.robot \/ UsesServers(c)
             creds == c.creds \cup {"hetzner"}
             spec == IF UsesHCloud(c) THEN c.spec \cup {"hetzner"} ELSE c.spec \ {"hetzner"}
             x(r) == [c EXCEPT !.creds = creds, !.replicas = r, !.robot = robot, !.spec = spec]
  <2>1. PICK r \in Replicas :
          IF c.mode = "hcloud" THEN ProviderDone([x(r) EXCEPT !.pools = TRUE])
                               ELSE pc' = "vswitch" /\ c' = x(r) /\ UNCHANGED <<done, told>>
    BY <1>3 DEF HetznerForm
  <2>2. PICK a \in Answers : a.kind = <<"hetzner", c.type>> /\ a.mode = c.mode
    BY <1>1, <1>3 DEF HetznerForm, PhasesInv
  <2>3. pc = "credentials" /\ c.provider = "hetzner" /\ saving' = saving /\ r \in Nat \ {0}
    BY <1>1, <1>3, NamesAssumption DEF HetznerForm, PhasesInv, Phase
  <2>4. c.mode \in {"hcloud", "bare-metal", "hybrid"}
    BY <1>1 DEF Config
  <2>5. /\ c.mode = "hybrid" => HybridOffered(c.type)
        /\ c.mode = "hcloud" => ~HybridOffered(c.type)
    BY <2>2 DEF HybridOffered, PlainAnswers
  <2>6. CASE c.mode = "hcloud"
    <3> DEFINE y == [x(r) EXCEPT !.pools = TRUE]
    <3>1. spec = c.spec \cup {"hetzner"}
      BY <2>3, <2>6 DEF UsesHCloud
    <3> HIDE DEF spec, creds, robot
    <3>2. /\ SameIdentity(c, y) /\ y.mode = c.mode /\ y.spec = spec /\ y.pools = TRUE
          /\ y.creds = creds /\ y.replicas = r
      BY <1>1 DEF SameIdentity, Config
    <3>3. ProviderDone(y)
      BY <2>1, <2>6
    <3> HIDE DEF y
    <3>4. Fit(y)
      BY <1>1, <2>3, <2>5, <2>6, <3>1, <3>2 DEF Fit, SameIdentity, None
    <3>5. ~MissingProvider(y)
      BY <2>3, <2>6, <3>1, <3>2 DEF MissingProvider, UsesHCloud, UsesServers, OwnControlPlane,
         SameIdentity, None, creds
    <3> QED
      BY <2>3, <3>2, <3>3, <3>4, <3>5, ProviderAnswered
  <2>7. CASE c.mode # "hcloud"
    <3>1. c' = x(r) /\ pc' = "vswitch"
      BY <2>1, <2>7
    <3>2. UsesServers(c) /\ robot
      BY <2>3, <2>4, <2>7 DEF UsesServers
    <3>3. spec = IF c.mode = "hybrid" THEN c.spec \cup {"hetzner"} ELSE c.spec \ {"hetzner"}
      BY <2>3, <2>4, <2>7 DEF UsesHCloud
    <3> HIDE DEF spec, creds, robot
    <3>4. /\ SameIdentity(c, c') /\ c'.mode = c.mode /\ c'.spec = spec /\ c'.pools = c.pools
          /\ c'.creds = creds /\ c'.replicas = r /\ c'.robot = robot
      BY <1>1, <3>1 DEF SameIdentity, Config
    <3>5. Fit(c')
      BY <1>1, <2>3, <2>5, <2>7, <3>3, <3>4 DEF Fit, SameIdentity, None
    <3>6. UsesServers(c') /\ c'.provider = "hetzner"
      BY <2>3, <3>2, <3>4 DEF UsesServers, SameIdentity
    <3>7. UsesHCloud(c') => "hetzner" \in c'.spec
      BY <2>7, <3>3, <3>4 DEF UsesHCloud
    <3>8. "hetzner" \in c'.creds /\ c'.robot /\ c'.replicas # 0
      BY <2>3, <3>2, <3>4 DEF creds
    <3>9. PhasesInv'
      BY <3>1, <3>6, <3>7, <3>8 DEF PhasesInv, Phases
    <3> QED
      BY <2>3, <3>1, <3>4, <3>5, <3>9, NextPhase DEF Phases
  <2> QED
    BY <2>6, <2>7
<1>4. CASE VSwitch
  <2> DEFINE x == [c EXCEPT !.vswitch = TRUE]
  <2>1. /\ pc = "vswitch" /\ saving' = saving /\ UsesServers(c) /\ c.provider = "hetzner"
        /\ "hetzner" \in c.creds /\ c.robot
        /\ UsesHCloud(c) => "hetzner" \in c.spec /\ c.replicas # 0
    BY <1>1, <1>4 DEF VSwitch, Phase, PhasesInv, Phases, UsesServers
  <2>2. IF OwnControlPlane(c) THEN EnterControlPlane(x) ELSE EnterWorkers(x)
    BY <1>4 DEF VSwitch
  <2>3. x \in Config /\ x.provider = c.provider
    BY <1>1 DEF Config
  <2>4. \/ OwnControlPlane(c) /\ pc' = "cp" /\ c' = [x EXCEPT !.cp["hetzner"] = {}]
        \/ ~OwnControlPlane(c) /\ pc' = "workers" /\ c' = [x EXCEPT !.wk["hetzner"] = {}]
    BY <2>1, <2>2, <2>3 DEF EnterControlPlane, EnterWorkers
  <2>5. /\ SameIdentity(c, c') /\ c'.mode = c.mode /\ c'.spec = c.spec /\ c'.pools = c.pools
        /\ c'.creds = c.creds /\ c'.replicas = c.replicas /\ c'.robot = c.robot
        /\ c'.vswitch = TRUE
    <3>1. CASE c' = [x EXCEPT !.cp["hetzner"] = {}]
      BY <1>1, <3>1 DEF SameIdentity, Config
    <3>2. CASE c' = [x EXCEPT !.wk["hetzner"] = {}]
      BY <1>1, <3>2 DEF SameIdentity, Config
    <3> QED
      BY <2>4, <3>1, <3>2
  <2> HIDE DEF x
  <2>6. Fit(c')
    BY <1>1, <2>1, <2>5 DEF Fit, SameIdentity
  <2>7. /\ UsesServers(c') /\ (UsesHCloud(c') <=> UsesHCloud(c))
        /\ OwnControlPlane(c') <=> OwnControlPlane(c)
    BY <2>1, <2>5 DEF UsesServers, UsesHCloud, OwnControlPlane, SameIdentity
  <2>8. PhasesInv'
    BY <2>1, <2>4, <2>5, <2>7 DEF PhasesInv, Phases
  <2> QED
    BY <2>1, <2>4, <2>5, <2>6, <2>8, NextPhase DEF Phases
<1> QED
  BY <1>2, <1>3, <1>4

\* What the phases have in common: only the hosts change.
LEMMA HostPhase ==
    ASSUME IInv, ProgressInv, pc \in Phases \ {"vswitch"}, saving' = saving,
           pc' \in Phases, NEW p, NEW hs, p = c.provider,
           c' \in {c, [c EXCEPT !.cp[p] = hs], [c EXCEPT !.wk[p] = hs]},
           pc' = "vswitch" => p = "hetzner",
           pc' \in {"cp", "cpDone", "apiHost"} => OwnControlPlane(c),
           pc' \in Phases \ {"vswitch", "cp"} /\ OwnControlPlane(c) => c'.cp[p] # {},
           pc' \in {"workersDone", "apiHost"} /\ p = "hetzner" => c'.wk["hetzner"] # {}
    PROVE  ProgressInv'
<1>1. c \in Config /\ Fit(c) /\ ~saving /\ Answered /\ PhasesInv
  BY DEF IInv, SessionInv, Sound, ProgressInv, Writing, Phases
<1>2. /\ SameIdentity(c, c') /\ c'.mode = c.mode /\ c'.spec = c.spec /\ c'.pools = c.pools
      /\ c'.creds = c.creds /\ c'.replicas = c.replicas /\ c'.robot = c.robot
      /\ c'.vswitch = c.vswitch
  <2>1. CASE c' = c
    BY <2>1 DEF SameIdentity
  <2>2. CASE c' = [c EXCEPT !.cp[p] = hs]
    BY <1>1, <2>2 DEF SameIdentity, Config
  <2>3. CASE c' = [c EXCEPT !.wk[p] = hs]
    BY <1>1, <2>3 DEF SameIdentity, Config
  <2> QED
    BY <2>1, <2>2, <2>3
<1>3. /\ UsesServers(c') <=> UsesServers(c)
      /\ UsesHCloud(c') <=> UsesHCloud(c)
      /\ OwnControlPlane(c') <=> OwnControlPlane(c)
      /\ c'.provider = p
  BY <1>2 DEF UsesServers, UsesHCloud, OwnControlPlane, SameIdentity
<1>4. Fit(c')
  BY <1>1, <1>2 DEF Fit, SameIdentity
<1>5. PhasesInv'
  BY <1>1, <1>2, <1>3 DEF PhasesInv, Phases
<1> QED
  BY <1>2, <1>4, <1>5, NextPhase

LEMMA HostsProgress ==
    ASSUME IInv, ProgressInv,
           \/ CloudForm \/ BareMetalForm
           \/ \E h \in Hosts : AddControlPlane(h) \/ AddWorker(h)
    PROVE  ProgressInv'
<1> DEFINE p == c.provider
<1>1. c \in Config /\ Fit(c) /\ ~saving /\ Answered /\ PhasesInv
  BY DEF IInv, SessionInv, Sound, ProgressInv, CloudForm, BareMetalForm, AddControlPlane,
     AddWorker, Writing
<1>2. c.cp \in [Racks -> SUBSET Hosts] /\ c.wk \in [Racks -> SUBSET Hosts]
  BY <1>1 DEF Config
<1>3. CASE CloudForm
  <2>1. p = "local" /\ ProviderDone(c) /\ pc = "provider" /\ saving' = saving
    BY <1>1, <1>3 DEF CloudForm, Fit, None, Phase
  <2>2. ~MissingProvider(c)
    BY <2>1 DEF MissingProvider, UsesHCloud, UsesServers, OwnControlPlane, None
  <2> QED
    BY <1>1, <2>1, <2>2, ProviderAnswered DEF SameIdentity
<1>4. CASE BareMetalForm
  <2>1. /\ p = "bare-metal" /\ pc = "provider" /\ saving' = saving /\ pc' = "cp"
        /\ c' = [c EXCEPT !.cp["bare-metal"] = {}]
    BY <1>4 DEF BareMetalForm, EnterControlPlane, Phase
  <2>2. /\ SameIdentity(c, c') /\ c'.mode = c.mode /\ c'.spec = c.spec /\ c'.pools = c.pools
    BY <1>1, <2>1 DEF SameIdentity, Config
  <2>3. Fit(c') /\ OwnControlPlane(c') /\ c'.provider = "bare-metal"
    BY <1>1, <2>1, <2>2 DEF Fit, SameIdentity, OwnControlPlane
  <2>4. PhasesInv'
    BY <2>1, <2>3 DEF PhasesInv, Phases
  <2> QED
    BY <2>1, <2>2, <2>3, <2>4, NextPhase DEF Phases
<1>5. ASSUME NEW h \in Hosts, AddControlPlane(h) PROVE ProgressInv'
  <2> DEFINE cps == c.cp[p] \cup {h}
             x == [c EXCEPT !.cp[p] = cps]
  <2>1. /\ pc = "cp" /\ saving' = saving
        /\ \/ pc' = "cp" /\ c' = x
           \/ pc' = "cpDone" /\ c' = x
           \/ EnterControlPlane(x)
    BY <1>5 DEF AddControlPlane, Phase
  <2>2. OwnControlPlane(c) /\ p \in Racks /\ cps # {}
    BY <1>1, <2>1 DEF PhasesInv, OwnControlPlane, Racks
  <2> HIDE DEF cps
  <2>3. x.cp[p] = cps /\ x.provider = p
    BY <1>1, <1>2, <2>2 DEF Config
  <2>4. [x EXCEPT !.cp[p] = {}] = [c EXCEPT !.cp[p] = {}]
    BY <1>1 DEF Config
  <2>5. CASE pc' = "cp" /\ c' = x
    BY <2>1, <2>2, <2>5, HostPhase DEF Phases
  <2>6. CASE pc' = "cpDone" /\ c' = x
    BY <2>1, <2>2, <2>3, <2>6, HostPhase DEF Phases
  <2>7. CASE EnterControlPlane(x)
    <3>1. pc' = "cp" /\ c' = [c EXCEPT !.cp[p] = {}]
      BY <2>3, <2>4, <2>7 DEF EnterControlPlane
    <3> QED
      BY <2>1, <2>2, <3>1, HostPhase DEF Phases
  <2> QED
    BY <2>1, <2>5, <2>6, <2>7
<1>6. ASSUME NEW h \in Hosts, AddWorker(h) PROVE ProgressInv'
  <2> DEFINE wks == c.wk[p] \cup {h}
  <2>1. /\ pc = "workers" /\ saving' = saving /\ pc' = "workers"
        /\ c' = [c EXCEPT !.wk[p] = wks]
    BY <1>6 DEF AddWorker, Phase
  <2> HIDE DEF wks
  <2>2. c'.cp = c.cp /\ (OwnControlPlane(c) => c.cp[p] # {})
    BY <1>1, <2>1 DEF Config, PhasesInv, Phases
  <2> QED
    BY <2>1, <2>2, HostPhase DEF Phases
<1> QED
  BY <1>3, <1>4, <1>5, <1>6

LEMMA PhasesProgress ==
    ASSUME IInv, ProgressInv, NoMoreWorkers \/ Continue \/ Back \/ ApiHost
    PROVE  ProgressInv'
<1> DEFINE p == c.provider
<1>1. /\ c \in Config /\ Fit(c) /\ ~saving /\ Answered /\ PhasesInv /\ saving' = saving
      /\ pc \in Phases \ {"vswitch"}
  BY DEF IInv, SessionInv, Sound, ProgressInv, NoMoreWorkers, Continue, Back, ApiHost, Writing,
     Phase, Phases
<1>2. /\ p \in Racks /\ (p = "bare-metal" => OwnControlPlane(c))
      /\ p = "hetzner" => UsesServers(c)
  BY <1>1 DEF PhasesInv, UsesServers, OwnControlPlane, Racks
<1>3. pc # "cp" /\ OwnControlPlane(c) => c.cp[p] # {}
  BY <1>1 DEF PhasesInv
<1>4. pc = "workersDone" /\ ~OwnControlPlane(c) => p = "hetzner"
  BY <1>2 DEF Racks
<1>5. CASE NoMoreWorkers
  <2>1. pc = "workers" /\ pc' = "workersDone" /\ c' = c /\ (p = "hetzner" => c.wk["hetzner"] # {})
    BY <1>5 DEF NoMoreWorkers
  <2> QED
    BY <1>1, <1>3, <2>1, HostPhase DEF Phases
<1>6. CASE pc = "cpDone" /\ EnterWorkers(c)
  <2>1. pc' = "workers" /\ c' = [c EXCEPT !.wk[p] = {}]
    BY <1>6 DEF EnterWorkers
  <2>2. c'.cp = c.cp
    BY <1>1, <2>1 DEF Config
  <2> QED
    BY <1>1, <1>3, <1>6, <2>1, <2>2, HostPhase DEF Phases
<1>7. CASE pc = "workersDone" /\ OwnControlPlane(c) /\ pc' = "apiHost" /\ c' = c
  <2>1. p = "hetzner" => c.wk["hetzner"] # {}
    BY <1>1, <1>7 DEF PhasesInv
  <2> QED
    BY <1>1, <1>3, <1>7, <2>1, HostPhase DEF Phases
<1>8. CASE pc = "workersDone" /\ ~OwnControlPlane(c) /\ ProviderDone(c)
  <2>1. ~MissingProvider(c)
    BY <1>1, <1>2, <1>4, <1>8 DEF PhasesInv, Phases, MissingProvider, None
  <2> QED
    BY <1>1, <1>8, <2>1, ProviderAnswered DEF SameIdentity
<1>9. CASE pc' = "vswitch" /\ c' = c /\ Back
  <2>1. p = "hetzner"
    BY <1>4, <1>9 DEF Back, EnterControlPlane
  <2> QED
    BY <1>1, <1>9, <2>1, HostPhase DEF Phases
<1>10. CASE pc \in {"cpDone", "workersDone"} /\ EnterControlPlane(c) /\ Back
  <2>1. pc' = "cp" /\ c' = [c EXCEPT !.cp[p] = {}]
    BY <1>10 DEF EnterControlPlane
  <2>2. OwnControlPlane(c)
    BY <1>1, <1>2, <1>10, <2>1 DEF Back, PhasesInv
  <2> QED
    BY <1>1, <2>1, <2>2, HostPhase DEF Phases
<1>11. CASE ApiHost
  <2> DEFINE x == [c EXCEPT !.apiHost = @ \cup {c.provider}]
  <2>1. ProviderDone(x) /\ pc = "apiHost"
    BY <1>11 DEF ApiHost
  <2>2. OwnControlPlane(c) /\ (p = "hetzner" => ~UsesHCloud(c))
    BY <1>1, <2>1 DEF PhasesInv, OwnControlPlane, UsesHCloud
  <2>3. /\ SameIdentity(c, x) /\ x.mode = c.mode /\ x.spec = c.spec /\ x.pools = c.pools
        /\ x.creds = c.creds /\ x.robot = c.robot /\ x.vswitch = c.vswitch
        /\ x.wk = c.wk /\ x.cp = c.cp /\ p \in x.apiHost /\ x.provider = p
    BY <1>1 DEF SameIdentity, Config
  <2> HIDE DEF x
  <2>4. Fit(x)
    BY <1>1, <2>3 DEF Fit, SameIdentity
  <2>5. /\ ~UsesHCloud(x) /\ (UsesServers(x) => p = "hetzner")
        /\ x.provider \notin {None, "aws", "azure"}
    BY <1>2, <2>2, <2>3 DEF UsesHCloud, UsesServers, Racks, None
  <2>6. p = "hetzner" => /\ "hetzner" \in x.creds /\ x.robot /\ x.vswitch
                         /\ x.wk["hetzner"] # {}
    BY <1>1, <2>1, <2>3 DEF PhasesInv, Phases
  <2>7. x.cp[p] # {}
    BY <1>3, <2>1, <2>2, <2>3
  <2>8. ~MissingProvider(x)
    BY <2>3, <2>5, <2>6, <2>7 DEF MissingProvider
  <2> QED
    BY <1>1, <2>1, <2>3, <2>4, <2>8, ProviderAnswered
<1>12. CASE Continue
  BY <1>6, <1>7, <1>8, <1>12 DEF Continue
<1>13. CASE Back
  BY <1>9, <1>10, <1>13 DEF Back
<1> QED
  BY <1>5, <1>11, <1>12, <1>13

\* The end of a session, and what a command does between two.
LEMMA EndProgress ==
    ASSUME IInv, ProgressInv,
           \/ Confirm \/ Redo \/ Leave \/ AbortAndSave
           \/ WriteGeneral \/ WriteSecrets \/ WriteState \/ RemoveState \/ Kill
           \/ (\E d \in Dirs : Parse(d)) \/ UNCHANGED vars
    PROVE  ProgressInv'
<1>1. Fit(c) /\ (~saving => Answered /\ PhasesInv) /\ (saving => pc \in Writing)
  BY DEF ProgressInv
<1>2. CASE End
  BY <1>2, FitDefault, EarlyProgress DEF End
<1>3. CASE UNCHANGED <<pc, c, saving>>
  BY <1>1, <1>3 DEF ProgressInv, Answered, PhasesInv, UsesServers, OwnControlPlane, UsesHCloud
<1>4. CASE Redo
  BY <1>1, <1>4, EarlyProgress DEF Redo, session, Writing
<1>5. CASE AbortAndSave
  BY <1>1, <1>5 DEF AbortAndSave, ProgressInv, Writing
<1>6. CASE /\ UNCHANGED <<c, saving>>
           /\ \/ pc = "confirm" /\ pc' = "obmondo"
              \/ pc \in Writing /\ pc' \in Writing
  <2>1. PhasesInv'
    BY <1>6 DEF PhasesInv, Phases, Writing
  <2>2. Answered => Answered'
    BY <1>6 DEF Answered, Beyond, PastBasics, PastProvider, Writing, Steps
  <2>3. saving' => pc' \in Writing
    BY <1>1, <1>6 DEF Writing
  <2>4. Fit(c')
    BY <1>1, <1>6
  <2> QED
    BY <1>1, <1>6, <2>1, <2>2, <2>3, <2>4 DEF ProgressInv
<1> QED
  BY <1>2, <1>3, <1>4, <1>5, <1>6 DEF Confirm, Leave, WriteGeneral, WriteSecrets, WriteState,
     RemoveState, Kill, Parse, Writing, session, vars

LEMMA ProgressStep ==
    ASSUME IInv, ProgressInv, WrittenInv, PlainAnswers, TypesStay, [Next]_vars
    PROVE  ProgressInv'
<1>1. CASE \/ \E d \in Dirs : Start(d)
           \/ LoadExisting \/ StartFresh \/ Skip
  BY <1>1, OpenProgress
<1>2. CASE \/ PickK8sProfile \/ Basics \/ Keycloak \/ Endpoints \/ MeshZone \/ JoinMesh
           \/ DeclineMesh \/ Lockdown \/ Security \/ GitSSH \/ Obmondo
  BY <1>2, FormProgress
<1>3. CASE PickMode \/ HetznerForm \/ VSwitch
  BY <1>3, ModeProgress
<1>4. CASE \/ CloudForm \/ BareMetalForm
           \/ \E h \in Hosts : AddControlPlane(h) \/ AddWorker(h)
  BY <1>4, HostsProgress
<1>5. CASE NoMoreWorkers \/ Continue \/ Back \/ ApiHost
  BY <1>5, PhasesProgress
<1>6. CASE \/ Confirm \/ Redo \/ Leave \/ AbortAndSave
           \/ WriteGeneral \/ WriteSecrets \/ WriteState \/ RemoveState \/ Kill
           \/ (\E d \in Dirs : Parse(d)) \/ UNCHANGED vars
  BY <1>6, EndProgress
<1> QED
  BY <1>1, <1>2, <1>3, <1>4, <1>5, <1>6, Zenon DEF Next, Rest

\* A step that writes nothing leads to no file but a general.yaml.
LEMMA NoWrite ==
    ASSUME [Next]_vars, ~WriteGeneral, ~WriteSecrets, ~WriteState, ~RemoveState,
           ~ \E d \in Dirs : Parse(d)
    PROVE  /\ files' = files /\ confirmed' = confirmed
           /\ pc' \notin {"secrets", "state"} \/ UNCHANGED <<pc, c, dir>>
<1>1. \A s \in Steps : After[s] \notin {"secrets", "state"}
  BY DEF After, Steps
<1>2. CASE \/ \E d \in Dirs : Start(d)
           \/ LoadExisting \/ StartFresh
  BY <1>2 DEF Start, LoadExisting, StartFresh, disk
<1>3. CASE Skip
  BY <1>1, <1>3 DEF Skip, disk
<1>4. ASSUME NEW s \in Steps, NEW x, NEW t, Answer(s, x, t)
      PROVE  files' = files /\ confirmed' = confirmed /\ pc' \notin {"secrets", "state"}
  BY <1>1, <1>4 DEF Answer, disk
<1>5. CASE \/ PickK8sProfile \/ Basics \/ Keycloak \/ Endpoints \/ MeshZone \/ JoinMesh
           \/ DeclineMesh \/ Lockdown \/ Security \/ GitSSH \/ Obmondo
  <2>1. \E s \in Steps : \E x, t : Answer(s, x, t)
    BY <1>5 DEF PickK8sProfile, Basics, Keycloak, Endpoints, MeshZone, JoinMesh, DeclineMesh,
       Lockdown, Security, GitSSH, Obmondo, Steps
  <2> QED
    BY <1>4, <2>1
<1>6. CASE \/ PickMode \/ HetznerForm \/ VSwitch \/ CloudForm \/ BareMetalForm
           \/ \E h \in Hosts : AddControlPlane(h) \/ AddWorker(h)
           \/ NoMoreWorkers \/ Continue \/ Back \/ ApiHost
  <2>1. UNCHANGED disk
    BY <1>6 DEF PickMode, HetznerForm, VSwitch, CloudForm, BareMetalForm, AddControlPlane,
       AddWorker, NoMoreWorkers, Continue, Back, ApiHost, Phase
  <2>2. pc' \in {"credentials", "lockdown"} \cup Phases
    BY <1>6 DEF PickMode, HetznerForm, VSwitch, CloudForm, BareMetalForm, AddControlPlane,
       AddWorker, NoMoreWorkers, Continue, Back, ApiHost, EnterControlPlane, EnterWorkers,
       ProviderDone, After, Phases
  <2> QED
    BY <2>1, <2>2 DEF disk, Phases
<1>7. CASE Confirm \/ Redo \/ Leave \/ AbortAndSave \/ Kill
  BY <1>7 DEF Confirm, Redo, Leave, AbortAndSave, Kill, End, disk
<1>8. CASE UNCHANGED vars
  BY <1>8 DEF vars, session, disk
<1> QED
  BY <1>2, <1>3, <1>5, <1>6, <1>7, <1>8, Zenon DEF Next, Rest

LEMMA WrittenStep ==
    ASSUME IInv, ProgressInv, WrittenInv, [Next]_vars
    PROVE  WrittenInv'
<1>1. c \in Config /\ Fit(c) /\ files \in [Dirs -> File]
  BY DEF IInv, SessionInv, DiskInv, Sound, ProgressInv
<1>2. CASE WriteGeneral
  <2>1. /\ Target' = Target /\ c' = c /\ pc' = "secrets" /\ confirmed' = confirmed \ {Target}
        /\ confirmed \subseteq Dirs /\ dropped \subseteq Dirs
        /\ files' = [files EXCEPT ![Target].general = General(c)]
    BY <1>2 DEF WriteGeneral, Target, session, IInv, DiskInv
  <2>2. \A d \in Dirs \ {Target} : files'[d] = files[d]
    BY <1>1, <2>1
  <2>3. \A d \in Dirs : files'[d].general # NoFile => Fit(files'[d].general)
    BY <1>1, <1>2, <2>2, FitGeneral, GeneralWritten DEF WrittenInv
  <2>4. WrittenParses'
    BY <2>1, <2>2 DEF WrittenInv, WrittenParses
  <2> QED
    BY <1>2, <2>1, <2>3, <2>4, GeneralWritten DEF WrittenInv
<1>3. CASE ~WriteGeneral
  <2>1. \A d \in Dirs : files'[d].general = files[d].general
    BY <1>3, GeneralStays
  <2>2. \A d \in Dirs : files'[d].general # NoFile => Fit(files'[d].general)
    BY <2>1 DEF WrittenInv
  <2>3. confirmed \subseteq Dirs
    BY DEF IInv, DiskInv
  <2>4. ASSUME NEW d \in confirmed, NEW s, Accepts(files[d].general, files[d].secrets),
               s.creds = files[d].secrets.creds, s.robot = files[d].secrets.robot,
               s.idpSecret = files[d].secrets.idpSecret
        PROVE  Accepts(files'[d].general, s)
    BY <2>1, <2>3, <2>4 DEF Accepts, AcceptsIdp, AcceptsAWS, AcceptsAzure, AcceptsHetzner
  <2>5. CASE WriteSecrets
    <3>1. /\ Target' = Target /\ c' = c /\ pc = "secrets" /\ pc' = "state"
          /\ confirmed' = confirmed /\ Target \in Dirs
          /\ files' = [files EXCEPT ![Target].secrets = Secrets(c)]
      BY <2>5, TargetDir DEF WriteSecrets, Target, session
    <3>2. files'[Target].secrets = Secrets(c)
      BY <1>1, <3>1 DEF File
    <3>3. \A d \in Dirs \ {Target} : files'[d] = files[d]
      BY <1>1, <3>1
    <3>4. Target \notin confirmed /\ files[Target].general = General(c)
      BY <3>1 DEF WrittenInv
    <3>5. WrittenParses'
      BY <2>3, <3>1, <3>3, <3>4 DEF WrittenInv, WrittenParses
    <3> QED
      BY <2>1, <2>2, <3>1, <3>2, <3>4, <3>5 DEF WrittenInv
  <2>6. CASE WriteState \/ RemoveState
    <3>1. pc = "state" /\ pc' = "idle" /\ Target \in Dirs
      BY <2>6, TargetDir DEF WriteState, RemoveState, End
    <3>2. /\ confirmed' \subseteq confirmed \cup {Target}
          /\ saving => confirmed' = confirmed
      BY <2>6 DEF WriteState, RemoveState
    <3>3. \A d \in Dirs : files'[d].secrets = files[d].secrets
      BY <1>1, <2>6 DEF WriteState, RemoveState, File
    <3>4. files[Target].general = General(c) /\ files[Target].secrets = Secrets(c)
      BY <3>1 DEF WrittenInv
    <3>5. ~saving => Accepts(General(c), Secrets(c))
      <4> SUFFICES ASSUME ~saving PROVE Accepts(General(c), Secrets(c))
        OBVIOUS
      <4>1. pc \in Beyond \ {"idp", "endpoints"} /\ pc \in PastProvider /\ pc \in Writing
        BY <3>1 DEF Beyond, PastProvider, Writing
      <4>2. /\ ~MissingBasics(c) /\ IdpKnown(c) /\ EndpointsKnown(c) /\ ~MissingProvider(c)
            /\ c.git
        BY <4>1 DEF ProgressInv, Answered
      <4> QED
        BY <1>1, <4>2, RenderedAccepted
    <3>6. ASSUME NEW d \in confirmed' PROVE Accepts(files'[d].general, files'[d].secrets)
      <4>1. CASE d \in confirmed
        <5>1. files'[d].general = files[d].general /\ files'[d].secrets = files[d].secrets
          BY <2>1, <2>3, <3>3, <4>1
        <5> QED
          BY <4>1, <5>1 DEF WrittenInv, WrittenParses
      <4>2. CASE d \notin confirmed
        <5>1. d = Target /\ ~saving
          BY <3>2, <3>6, <4>2
        <5>2. files'[d].general = General(c) /\ files'[d].secrets = Secrets(c)
          BY <2>1, <3>1, <3>3, <3>4, <5>1
        <5> QED
          BY <3>5, <5>1, <5>2
      <4> QED
        BY <4>1, <4>2
    <3> QED
      BY <2>2, <3>1, <3>6 DEF WrittenInv, WrittenParses
  <2>7. ASSUME NEW e \in Dirs, Parse(e) PROVE WrittenInv'
    <3> DEFINE m == files[e].secrets.minted \cup Wanted(files[e].general)
               s == [files[e].secrets EXCEPT !.minted = m]
    <3>1. /\ pc' = "idle" /\ confirmed' = confirmed /\ files[e].secrets # NoFile
          /\ files' = [files EXCEPT ![e].secrets.minted = m]
      BY <2>7 DEF Parse
    <3> HIDE DEF m
    <3>2. files[e].secrets \in SecretsFile
      BY <1>1, <3>1 DEF File
    <3>3. files'[e].secrets = s
      BY <1>1, <3>1 DEF File
    <3>4. /\ s.creds = files[e].secrets.creds /\ s.robot = files[e].secrets.robot
          /\ s.idpSecret = files[e].secrets.idpSecret
      BY <3>2 DEF SecretsFile
    <3> HIDE DEF s
    <3>5. \A d \in Dirs \ {e} : files'[d] = files[d]
      BY <1>1, <3>1
    <3>6. ASSUME NEW d \in confirmed PROVE Accepts(files'[d].general, files'[d].secrets)
      <4>1. Accepts(files[d].general, files[d].secrets)
        BY DEF WrittenInv, WrittenParses
      <4>2. CASE d = e
        BY <2>4, <3>3, <3>4, <4>1, <4>2
      <4>3. CASE d # e
        BY <2>3, <3>5, <4>1, <4>3
      <4> QED
        BY <4>2, <4>3
    <3> QED
      BY <2>2, <3>1, <3>6 DEF WrittenInv, WrittenParses
  <2>8. CASE /\ files' = files /\ confirmed' = confirmed
             /\ pc' \notin {"secrets", "state"} \/ UNCHANGED <<pc, c, dir>>
    BY <2>2, <2>8 DEF WrittenInv, WrittenParses, Target
  <2> QED
    BY <1>3, <2>5, <2>6, <2>7, <2>8, NoWrite
<1> QED
  BY <1>2, <1>3

(* WrittenParses for any clusters, hosts and number of sessions, rounds    *)
(* and kills, if the operators are plain and no cluster changes its type:  *)
(* a session past a question has its answer, whatever state file, config   *)
(* or phase it came from, and what it then renders validates.              *)
THEOREM WrittenParsesAlways == PlainAnswers /\ TypesStay => (Spec => []WrittenParses)
<1> SUFFICES ASSUME PlainAnswers, TypesStay PROVE Spec => []WrittenParses
  OBVIOUS
<1>1. Init => ProgressInv /\ WrittenInv
  BY ProgressInit DEF Init, WrittenInv, WrittenParses, Nothing
<1>2. IInv /\ ProgressInv /\ WrittenInv /\ [Next]_vars => (ProgressInv /\ WrittenInv)'
  BY ProgressStep, WrittenStep
<1>3. WrittenInv => WrittenParses
  BY DEF WrittenInv
<1> QED
  BY <1>1, <1>2, <1>3, Invariance, PTL DEF Spec
=============================================================================
