----------------------------- MODULE SealedKeys -----------------------------
(***************************************************************************)
(* The Sealed Secrets keys of a bootstrap.  kubeaid-cli seals the cluster's *)
(* Secrets first with the key of the throw-away management cluster's        *)
(* controller, later with that of the main cluster's, and seeds the main    *)
(* cluster with the management cluster's keys before it installs the        *)
(* controller there (SetupCluster; sealed_secrets_keys.go;                  *)
(* sealed_secrets.go; helm.go).                                             *)
(*                                                                         *)
(* A key is a number, given in order of creation: a controller serves the   *)
(* certificate of the youngest key of its cluster and decrypts with all of  *)
(* them.  The process may die in any step and be started again.             *)
(***************************************************************************)
EXTENDS Naturals, FiniteSets

CONSTANTS
    Secret,      \* the Secret templates of the cluster
    Topologies,  \* TRUE: with a management cluster; FALSE: bare metal
    Lives,       \* values of eventful
    MaxKey,      \* bound: keys generated
    MaxPlain,    \* bound: changes of a Secret's plaintext
    MaxFaults    \* bound: crashes, timeouts and controller failures

Cluster == {"management", "main"}

ASSUME TopologyAssumption == Topologies \subseteq BOOLEAN /\ Lives \subseteq BOOLEAN
ASSUME BoundsAssumption ==
    MaxKey \in Nat \ {0} /\ MaxPlain \in Nat /\ MaxFaults \in Nat

VARIABLES
    hasMgmt,     \* this provider uses a management cluster
    eventful,    \* controllers renew their keys (30 days), and the operator may
                 \* delete the k3d cluster between two runs
    k3dUp,       \* the k3d management cluster exists
    keys,        \* active key Secrets of each cluster
    release,     \* status of the sealed-secrets Helm release
    deployment,  \* the controller: "absent", "settling" or "ready"
    files,       \* SealedSecret files on the default branch
    local,       \* the same files in the run's working tree
    plain,       \* current plaintext of each Secret
    nextKey,
    pc,
    phase,       \* cluster being set up
    toCopy,      \* keys listed on the management cluster, still to be written
    mgmtCount,   \* management keys the parity check counted before it re-ran
                 \* the copy, 0 while it has not
    retried,     \* the one reinstall has been used
    sealed,      \* Secrets handled by the run in this phase
    faults

vars == <<hasMgmt, eventful, k3dUp, keys, release, deployment, files, local, plain, nextKey,
          pc, phase, toCopy, mgmtCount, retried, sealed, faults>>

Key    == 1 .. MaxKey
NoFile == [plain |-> 0, key |-> 0]
File   == [plain: 0 .. MaxPlain + 1, key: 0 .. MaxKey]

PCs == {"idle", "k3d", "list", "copy", "install", "installing", "parity",
        "health", "reinstalling", "seal", "publish", "sync", "provision"}

TypeOK ==
    /\ hasMgmt \in BOOLEAN /\ eventful \in BOOLEAN /\ k3dUp \in BOOLEAN
    /\ keys \in [Cluster -> SUBSET Key]
    /\ release \in [Cluster -> {"none", "pending", "failed", "deployed"}]
    /\ deployment \in [Cluster -> {"absent", "settling", "ready"}]
    /\ files \in [Secret -> File] /\ local \in [Secret -> File]
    /\ plain \in [Secret -> 1 .. MaxPlain + 1]
    /\ nextKey \in 1 .. MaxKey + 1
    /\ pc \in PCs /\ phase \in Cluster
    /\ toCopy \subseteq Key
    /\ mgmtCount \in 0 .. MaxKey /\ retried \in BOOLEAN
    /\ sealed \subseteq Secret
    /\ faults \in 0 .. MaxFaults

Init ==
    /\ hasMgmt \in Topologies /\ eventful \in Lives
    /\ k3dUp = FALSE
    /\ keys = [c \in Cluster |-> {}]
    /\ release = [c \in Cluster |-> "none"]
    /\ deployment = [c \in Cluster |-> "absent"]
    /\ files = [s \in Secret |-> NoFile] /\ local = [s \in Secret |-> NoFile]
    /\ plain = [s \in Secret |-> 1]
    /\ nextKey = 1
    /\ pc = "idle" /\ phase = "management"
    /\ toCopy = {} /\ mgmtCount = 0 /\ retried = FALSE /\ sealed = {}
    /\ faults = 0

kind     == <<hasMgmt, eventful>>
clusters == <<hasMgmt, eventful, k3dUp, keys, release, deployment, nextKey>>
inputs   == <<plain, faults>>
locals   == <<toCopy, mgmtCount, retried, sealed, local>>

Abort == pc' = "idle" /\ UNCHANGED phase

\* Mutant: the waits have no bounded number of attempts.
GivesUpAnyTime == deployment[phase] # "ready"

\* Waiting for the controller ends without it: the Deployment is missing, the
\* time is over, or the API server answers with an error (the last two are
\* faults, so that there are finitely many).
GivesUp == deployment[phase] = "absent" \/ faults < MaxFaults

Count == IF deployment[phase] = "absent" THEN UNCHANGED faults ELSE faults' = faults + 1

-----------------------------------------------------------------------------
(* The run.                                                                *)

\* A new process: nothing of the last one's progress is remembered.
StartRun ==
    /\ pc = "idle"
    /\ IF hasMgmt THEN pc' = "k3d" /\ phase' = "management"
                  ELSE pc' = "install" /\ phase' = "main"
    /\ toCopy' = {} /\ mgmtCount' = 0 /\ retried' = FALSE /\ sealed' = {}
    /\ UNCHANGED <<clusters, files, local, inputs>>

\* CreateK3DCluster creates the management cluster when there is none.
CreateK3D ==
    /\ pc = "k3d"
    /\ k3dUp' = TRUE
    /\ pc' = "install"
    /\ UNCHANGED <<kind, keys, release, deployment, nextKey, files, phase,
                   locals, inputs>>

\* CopySealedSecretsKeysFromManagement: one List, then an upsert per key.  It
\* runs before the install, and again when the parity check finds a mismatch.
ListKeys ==
    /\ pc = "list"
    /\ toCopy' = keys["management"]
    /\ pc' = "copy"
    /\ UNCHANGED <<clusters, files, phase, mgmtCount, retried, sealed, local, inputs>>

CopyKey(k) ==
    /\ pc = "copy" /\ k \in toCopy
    /\ keys' = [keys EXCEPT !["main"] = @ \cup {k}]
    /\ toCopy' = toCopy \ {k}
    /\ UNCHANGED <<kind, k3dUp, release, deployment, nextKey, files, pc, phase,
                   mgmtCount, retried, sealed, local, inputs>>

CopyDone ==
    /\ pc = "copy" /\ toCopy = {}
    /\ pc' = IF mgmtCount # 0 THEN "parity" ELSE "install"
    /\ UNCHANGED <<clusters, files, phase, locals, inputs>>

\* InstallSealedSecrets: a deployed release is left alone, a failed one is
\* upgraded, a missing one installed, one that holds Helm's lock is an error.
SkipInstall ==
    /\ pc = "install" /\ release[phase] = "deployed"
    /\ pc' = "parity"
    /\ UNCHANGED <<clusters, files, phase, locals, inputs>>

BeginInstall ==
    /\ pc = "install" /\ release[phase] \in {"none", "failed"}
    /\ release' = [release EXCEPT ![phase] = "pending"]
    /\ deployment' = [deployment EXCEPT ![phase] = IF @ = "ready" THEN @ ELSE "settling"]
    /\ pc' = "installing"
    /\ UNCHANGED <<kind, k3dUp, keys, nextKey, files, phase, locals, inputs>>

InstallLocked ==
    /\ pc = "install" /\ release[phase] = "pending"
    /\ Abort
    /\ UNCHANGED <<clusters, files, locals, inputs>>

\* Helm's Wait ends with a ready controller, or after 10 minutes without.
HelmDone ==
    /\ pc \in {"installing", "reinstalling"}
    /\ deployment[phase] = "ready"
    /\ release' = [release EXCEPT ![phase] = "deployed"]
    /\ pc' = IF pc = "installing" THEN "parity" ELSE "health"
    /\ UNCHANGED <<kind, k3dUp, keys, deployment, nextKey, files, phase, locals, inputs>>

HelmTimeout ==
    /\ pc \in {"installing", "reinstalling"}
    /\ GivesUp /\ Count
    /\ release' = [release EXCEPT ![phase] = "failed"]
    /\ Abort
    /\ UNCHANGED <<kind, k3dUp, keys, deployment, nextKey, files, locals, plain>>

\* The cluster the parity check compares with: SetupCluster passes the same
\* client twice unless it sets up a main cluster next to a management cluster.
Source == IF phase = "main" /\ hasMgmt THEN "management" ELSE phase

\* ensureSealedSecretsKeysReplicated compares the number of keys; after the
\* copy it compares with the number counted before.
Wanted == IF mgmtCount = 0 THEN Cardinality(keys[Source]) ELSE mgmtCount

\* Mutant: the comparison of the two counts is off by one.
ParityOffByOne == Cardinality(keys[phase]) > Wanted

Parity == Cardinality(keys[phase]) = Wanted

ParityOK ==
    /\ pc = "parity"
    /\ Parity \/ Wanted = 0
    /\ pc' = "health"
    /\ UNCHANGED <<clusters, files, phase, locals, inputs>>

ParityRecopy ==
    /\ pc = "parity" /\ mgmtCount = 0
    /\ ~Parity /\ Wanted # 0
    /\ mgmtCount' = Wanted
    /\ pc' = "list"
    /\ UNCHANGED <<clusters, files, phase, toCopy, retried, sealed, local, inputs>>

ParityFails ==
    /\ pc = "parity" /\ mgmtCount # 0
    /\ ~Parity
    /\ Abort
    /\ UNCHANGED <<clusters, files, locals, inputs>>

\* waitForControllerHealthy, and the single reinstall of EnsureSealedSecretsHealthy.
Healthy ==
    /\ pc = "health" /\ deployment[phase] = "ready"
    /\ local' = files /\ sealed' = {}
    /\ pc' = "seal"
    /\ UNCHANGED <<clusters, files, phase, toCopy, mgmtCount, retried, inputs>>

Reinstall ==
    /\ pc = "health" /\ GivesUp /\ ~retried
    /\ retried' = TRUE
    /\ release' = [release EXCEPT ![phase] = "pending"]
    /\ deployment' = [deployment EXCEPT ![phase] = IF @ = "ready" THEN @ ELSE "settling"]
    /\ pc' = "reinstalling"
    /\ Count
    /\ UNCHANGED <<kind, k3dUp, keys, nextKey, files, phase, toCopy, mgmtCount,
                   sealed, local, plain>>

StillUnhealthy ==
    /\ pc = "health" /\ GivesUp /\ retried
    /\ Count
    /\ Abort
    /\ UNCHANGED <<clusters, files, locals, plain>>

\* The certificate the controller of the cluster serves.
Cert(c) == CHOOSE k \in keys[c] : \A j \in keys[c] : j <= k

\* Mutant: the cache key is the plaintext alone.
CacheHitOnPlaintext(file, p, k) == file.plain = p

\* readKubeaidHashHeader = sha256(plaintext, certificate).
CacheHit(file, p, k) == file.plain = p /\ file.key = k

\* SealIfPlaintextChanged, for one template.
Seal(s) ==
    /\ pc = "seal" /\ s \notin sealed
    /\ deployment[phase] = "ready"
    /\ LET k == Cert(phase) IN
       local' = [local EXCEPT ![s] = IF CacheHit(@, plain[s], k) THEN @
                                     ELSE [plain |-> plain[s], key |-> k]]
    /\ sealed' = sealed \cup {s}
    /\ UNCHANGED <<clusters, files, pc, phase, toCopy, mgmtCount, retried, inputs>>

\* The certificate cannot be read from a controller that is down.
SealFails ==
    /\ pc = "seal" /\ sealed # Secret
    /\ deployment[phase] # "ready"
    /\ Abort
    /\ UNCHANGED <<clusters, files, locals, inputs>>

SealDone ==
    /\ pc = "seal" /\ sealed = Secret
    /\ pc' = "publish"
    /\ UNCHANGED <<clusters, files, phase, locals, inputs>>

\* AddCommitAndPushChanges and the merge (module ConfigRepo).
Publish ==
    /\ pc = "publish"
    /\ files' = local
    /\ pc' = "sync"
    /\ UNCHANGED <<clusters, phase, locals, inputs>>

Decryptable(c) == \A s \in Secret : files[s].key \in keys[c]

\* SyncArgoCDApp("secrets") in the cluster being set up, which does not get in
\* sync with a Secret missing; then on to the main cluster or to the end of the run.
SyncSecrets ==
    /\ pc = "sync"
    /\ IF Decryptable(phase)
       THEN /\ pc' = IF phase = "management" THEN "provision" ELSE "idle"
            /\ UNCHANGED phase
       ELSE Abort
    /\ UNCHANGED <<clusters, files, locals, inputs>>

\* Mutant: the controller is installed before the keys are copied.
ProvisionMainUnseeded ==
    /\ pc = "provision"
    /\ phase' = "main"
    /\ mgmtCount' = 0 /\ retried' = FALSE /\ sealed' = {}
    /\ pc' = "install"
    /\ UNCHANGED <<clusters, files, toCopy, local, inputs>>

\* The main cluster is provisioned; SetupCluster starts again, for it.
ProvisionMain ==
    /\ pc = "provision"
    /\ phase' = "main"
    /\ mgmtCount' = 0 /\ retried' = FALSE /\ sealed' = {}
    /\ pc' = "list"
    /\ UNCHANGED <<clusters, files, toCopy, local, inputs>>

Crash ==
    /\ pc # "idle"
    /\ faults < MaxFaults /\ faults' = faults + 1
    /\ Abort
    /\ UNCHANGED <<clusters, files, locals, plain>>

-----------------------------------------------------------------------------
(* The controllers and the operator.                                       *)

\* A controller that starts generates a key when its cluster has none.
ControllerUp(c) ==
    /\ deployment[c] = "settling"
    /\ keys[c] = {} => nextKey <= MaxKey
    /\ deployment' = [deployment EXCEPT ![c] = "ready"]
    /\ IF keys[c] = {}
       THEN keys' = [keys EXCEPT ![c] = {nextKey}] /\ nextKey' = nextKey + 1
       ELSE UNCHANGED <<keys, nextKey>>
    /\ UNCHANGED <<kind, k3dUp, release, files, pc, phase, locals, inputs>>

ControllerDown(c) ==
    /\ deployment[c] = "ready"
    /\ faults < MaxFaults /\ faults' = faults + 1
    /\ \E d \in {"settling", "absent"} : deployment' = [deployment EXCEPT ![c] = d]
    /\ UNCHANGED <<kind, k3dUp, keys, release, nextKey, files, pc, phase, locals, plain>>

\* The bound leaves a key for each cluster that still needs its first one.
SpareKey == nextKey + Cardinality({c \in Cluster : keys[c] = {}}) <= MaxKey

RotateKey(c) ==
    /\ eventful /\ deployment[c] = "ready" /\ SpareKey
    /\ keys' = [keys EXCEPT ![c] = @ \cup {nextKey}]
    /\ nextKey' = nextKey + 1
    /\ UNCHANGED <<kind, k3dUp, release, deployment, files, pc, phase, locals, inputs>>

\* "management cluster delete", or a reboot of the operator's machine.
DeleteK3D ==
    /\ eventful /\ pc = "idle" /\ k3dUp /\ SpareKey
    /\ k3dUp' = FALSE
    /\ keys' = [keys EXCEPT !["management"] = {}]
    /\ release' = [release EXCEPT !["management"] = "none"]
    /\ deployment' = [deployment EXCEPT !["management"] = "absent"]
    /\ UNCHANGED <<kind, nextKey, files, pc, phase, locals, inputs>>

EditSecret(s) ==
    /\ pc = "idle" /\ plain[s] <= MaxPlain
    /\ plain' = [plain EXCEPT ![s] = @ + 1]
    /\ UNCHANGED <<clusters, files, pc, phase, locals, faults>>

-----------------------------------------------------------------------------
RunStep ==
    \/ CreateK3D \/ ListKeys \/ (\E k \in Key : CopyKey(k)) \/ CopyDone
    \/ SkipInstall \/ BeginInstall \/ InstallLocked \/ HelmDone
    \/ ParityOK \/ ParityRecopy \/ ParityFails
    \/ Healthy \/ (\E s \in Secret : Seal(s)) \/ SealFails \/ SealDone
    \/ Publish \/ SyncSecrets \/ ProvisionMain

\* GivesUp with an absent Deployment needs no timeout, so it is progress too.
RecoverStep == deployment[phase] = "absent" /\ (HelmTimeout \/ Reinstall \/ StillUnhealthy)

Next ==
    \/ StartRun \/ RunStep \/ Reinstall \/ StillUnhealthy \/ HelmTimeout \/ Crash
    \/ \E c \in Cluster : ControllerUp(c) \/ ControllerDown(c) \/ RotateKey(c)
    \/ DeleteK3D
    \/ \E s \in Secret : EditSecret(s)

Spec == Init /\ [][Next]_vars

\* The operator re-runs the command after every failure, a live process goes
\* on, and a controller with nothing wrong settles.
FairSpec ==
    /\ Spec
    /\ WF_vars(StartRun) /\ WF_vars(RunStep \/ RecoverStep)
    /\ \A c \in Cluster : WF_vars(ControllerUp(c))

-----------------------------------------------------------------------------
(* What must hold.                                                         *)

\* Whatever cluster syncs the "secrets" app, it can decrypt every SealedSecret
\* on the default branch then: those kept from earlier runs too, after a re-key
\* (the reason the cache key holds the certificate, sealed_secrets.go:199).
DecryptableAtSync == pc = "sync" => Decryptable(phase)

\* Seeded before its controller first starts, the main cluster never makes a
\* key of its own: "leaving the cluster with one canonical key",
\* setup_cluster.go:140.
OneCanonicalKey == hasMgmt /\ ~eventful => keys["main"] \subseteq keys["management"]

\* Re-running the bootstrap gets through, however often it was interrupted:
\* "a re-bootstrap on top of a partially-pivoted cluster converges cleanly",
\* sealed_secrets_keys.go:60.  A release left locked by a process killed inside
\* Helm is excepted, as ErrReleaseExistsNonDeployed documents (helm.go:132).
Finished == pc = "sync" /\ phase = "main"
GetsThrough == []<>Finished \/ <>[](\E c \in Cluster : release[c] = "pending")

\* The same while keys are not renewed and the management cluster is kept.
Converges == eventful \/ GetsThrough
=============================================================================
