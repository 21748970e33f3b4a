------------------------- MODULE SealedKeys_proofs -------------------------
(***************************************************************************)
(* Theorems of SealedKeys, for every set of Secrets and every number of     *)
(* keys, edits and faults.                                                  *)
(*                                                                         *)
(* DecryptableAtSync looks at one program counter; SealInv follows the       *)
(* SealedSecrets from the certificate they are sealed with to the branch.    *)
(* OneCanonicalKey hangs on a race the run must win, its copy of the keys    *)
(* against the first start of the main cluster's controller.  SeedInv says   *)
(* how far the copy is, wherever the run has been interrupted.               *)
(***************************************************************************)
EXTENDS SealedKeys, TLAPS, FiniteSetTheorems, WellFoundedInduction

\* A controller that is ready has a key.
KeyInv == \A c \in Cluster : deployment[c] = "ready" => keys[c] # {}

\* Once sealed in this phase, a Secret can be decrypted in this phase's cluster.
SealInv ==
    /\ pc = "seal" => \A s \in sealed : local[s].key \in keys[phase]
    /\ pc = "publish" => \A s \in Secret : local[s].key \in keys[phase]
    /\ pc = "sync" => Decryptable(phase)

\* While the management cluster keeps its keys.
SeedInv ==
    hasMgmt /\ ~eventful =>
        /\ toCopy \cup keys["main"] \subseteq keys["management"]
        /\ pc \in {"seal", "publish", "sync", "provision"} \/ phase = "main" =>
              keys["management"] # {}
        /\ phase = "main" /\ pc = "copy" => toCopy \cup keys["main"] # {}
        /\ phase = "main" /\ pc \notin {"idle", "list", "copy"} => keys["main"] # {}
        /\ deployment["main"] # "absent" => keys["main"] # {}

-----------------------------------------------------------------------------
(* Certificates and counts.                                                 *)

LEMMA LessThan == \E R : IsWellFoundedOn(R, Nat) /\ \A n, m \in Nat : m < n => <<m, n>> \in R
<1>1. \A n, m \in Nat : m < n => <<m, n>> \in OpToRel(<, Nat)
    BY DEF OpToRel
<1> QED BY <1>1, NatLessThanWellFounded, Zenon

\* The certificate is that of one of the cluster's keys.
LEMMA CertIsKey ==
    ASSUME NEW c \in Cluster, keys[c] \subseteq Key, keys[c] # {}
    PROVE  Cert(c) \in keys[c]
<1> DEFINE left == {MaxKey - k : k \in keys[c]}
<1>1. left \subseteq Nat /\ left # {}
    BY BoundsAssumption DEF Key
<1>2. PICK R : IsWellFoundedOn(R, Nat) /\ \A n, m \in Nat : m < n => <<m, n>> \in R
    BY LessThan
<1>3. PICK n \in left : \A m \in left : ~(<<m, n>> \in R)
    <2> HIDE DEF left
    <2> QED BY <1>1, <1>2, WFMin, Zenon
<1>4. \A m \in left : ~(m < n)
    <2> HIDE DEF left
    <2> QED BY <1>1, <1>2, <1>3, Zenon
<1>5. PICK k \in keys[c] : n = MaxKey - k
    BY <1>3
<1>6. \A j \in keys[c] : j <= k
    <2> SUFFICES ASSUME NEW j \in keys[c] PROVE j <= k
        OBVIOUS
    <2>1. ~(MaxKey - j < MaxKey - k)
        BY <1>4, <1>5
    <2> QED BY <2>1, BoundsAssumption DEF Key
<1> QED BY <1>5, <1>6 DEF Cert

\* A cluster has no more keys than were generated.
LEMMA KeyCount ==
    ASSUME NEW S \in SUBSET Key
    PROVE  Cardinality(S) \in 0 .. MaxKey
<1>1. IsFiniteSet(Key) /\ Cardinality(Key) = MaxKey
    BY FS_Interval, BoundsAssumption DEF Key
<1>2. IsFiniteSet(S) /\ Cardinality(S) <= MaxKey
    BY <1>1, FS_Subset
<1> QED BY <1>2, FS_CardinalityType, BoundsAssumption

\* A key is generated only where the bound leaves room for it.
LEMMA SpareKeyRoom ==
    ASSUME TypeOK, SpareKey PROVE nextKey \in Key
<1> DEFINE S == {c \in Cluster : keys[c] = {}}
<1>1. IsFiniteSet(Cluster)
    <2>1. Cluster = {"management"} \cup {"main"}
        BY DEF Cluster
    <2> QED BY <2>1, FS_Singleton, FS_Union
<1>2. Cardinality(S) \in Nat
    BY <1>1, FS_Subset, FS_CardinalityType
<1> HIDE DEF S
<1>3. nextKey + Cardinality(S) <= MaxKey
    BY DEF SpareKey, S
<1> QED BY <1>2, <1>3, BoundsAssumption DEF TypeOK, Key

LEMMA NextKeyFits ==
    ASSUME TypeOK, nextKey \in Key PROVE nextKey + 1 \in 1 .. MaxKey + 1
BY BoundsAssumption DEF TypeOK, Key

-----------------------------------------------------------------------------
(* Types.                                                                  *)

LEMMA TypeInit == Init => TypeOK /\ KeyInv
<1> SUFFICES ASSUME Init PROVE TypeOK /\ KeyInv
    OBVIOUS
<1>1. hasMgmt \in BOOLEAN /\ eventful \in BOOLEAN
    BY TopologyAssumption DEF Init
<1>2. phase \in Cluster
    BY DEF Init, Cluster
<1>3. files \in [Secret -> File] /\ local \in [Secret -> File]
    BY BoundsAssumption DEF Init, NoFile, File
<1>4. /\ keys \in [Cluster -> SUBSET Key] /\ nextKey \in 1 .. MaxKey + 1
      /\ plain \in [Secret -> 1 .. MaxPlain + 1]
    BY BoundsAssumption DEF Init, Key
<1>5. \A c \in Cluster : deployment[c] = "absent"
    BY DEF Init
<1>6. k3dUp \in BOOLEAN /\ retried \in BOOLEAN
    BY DEF Init
<1>7. /\ release \in [Cluster -> {"none", "pending", "failed", "deployed"}]
      /\ deployment \in [Cluster -> {"absent", "settling", "ready"}]
    BY DEF Init
<1>8. /\ pc \in PCs /\ toCopy \subseteq Key /\ mgmtCount \in 0 .. MaxKey
      /\ sealed \subseteq Secret /\ faults \in 0 .. MaxFaults
    BY BoundsAssumption DEF Init, PCs
<1> QED BY <1>1, <1>2, <1>3, <1>4, <1>5, <1>6, <1>7, <1>8 DEF TypeOK, KeyInv

LEMMA TypeStep == TypeOK /\ KeyInv /\ [Next]_vars => TypeOK' /\ KeyInv'
<1> SUFFICES ASSUME TypeOK, KeyInv, [Next]_vars PROVE TypeOK' /\ KeyInv'
    OBVIOUS
<1>0. "management" \in Cluster /\ "main" \in Cluster
    BY DEF Cluster
<1> USE <1>0, BoundsAssumption DEF TypeOK, KeyInv, PCs, kind, clusters, inputs, locals, Abort
<1>1. CASE StartRun
    <2>1. pc' \in PCs /\ phase' \in Cluster
        BY <1>1 DEF StartRun
    <2>2. /\ toCopy' = {} /\ mgmtCount' = 0 /\ retried' = FALSE /\ sealed' = {}
          /\ UNCHANGED <<clusters, files, local, inputs>>
        BY <1>1 DEF StartRun
    <2>3. retried' \in BOOLEAN
        BY <2>2, Zenon
    <2> QED BY <2>1, <2>2, <2>3
<1>2. CASE RunStep
    <2>1. CASE CreateK3D \/ ListKeys \/ CopyDone
        BY <2>1 DEF CreateK3D, ListKeys, CopyDone
    <2>a. ASSUME NEW k \in Key, CopyKey(k) PROVE TypeOK' /\ KeyInv'
        BY <2>a DEF CopyKey
    <2>2. CASE SkipInstall \/ BeginInstall \/ InstallLocked \/ HelmDone
        BY <2>2 DEF SkipInstall, BeginInstall, InstallLocked, HelmDone
    <2>3. CASE ParityOK \/ ParityRecopy \/ ParityFails
        <3>1. Source \in Cluster /\ Cardinality(keys[Source]) \in 0 .. MaxKey
            <4>1. Source \in Cluster
                BY DEF Source
            <4> QED BY <4>1, KeyCount
        <3>2. Wanted \in 0 .. MaxKey
            BY <3>1 DEF Wanted
        <3> QED BY <2>3, <3>2 DEF ParityOK, ParityRecopy, ParityFails
    <2>4. CASE Healthy
        BY <2>4 DEF Healthy
    <2>5. ASSUME NEW s \in Secret, Seal(s) PROVE TypeOK' /\ KeyInv'
        <3>1. Cert(phase) \in 0 .. MaxKey
            <4>1. keys[phase] \subseteq Key /\ keys[phase] # {}
                BY <2>5 DEF Seal
            <4>2. Cert(phase) \in Key
                BY <4>1, CertIsKey
            <4> QED BY <4>2 DEF Key
        <3>2. [plain |-> plain[s], key |-> Cert(phase)] \in File
            BY <3>1 DEF File
        <3>3. local' \in [Secret -> File]
            BY <2>5, <3>2 DEF Seal
        <3>4. sealed' \subseteq Secret
            BY <2>5 DEF Seal
        <3> QED BY <2>5, <3>3, <3>4 DEF Seal
    <2>6. CASE SealFails \/ SealDone \/ Publish
        BY <2>6 DEF SealFails, SealDone, Publish
    <2>7. CASE SyncSecrets
        <3>1. pc' \in PCs /\ UNCHANGED phase
            BY <2>7 DEF SyncSecrets
        <3>2. UNCHANGED <<clusters, files, locals, inputs>>
            BY <2>7 DEF SyncSecrets
        <3>3. KeyInv'
            BY <3>1, <3>2
        <3> QED BY <3>1, <3>2, <3>3
    <2>8. CASE ProvisionMain
        <3>1. retried' = FALSE
            BY <2>8 DEF ProvisionMain
        <3>2. retried' \in BOOLEAN
            BY <3>1, Zenon
        <3> QED BY <2>8, <3>2 DEF ProvisionMain
    <2> QED BY <1>2, <2>1, <2>a, <2>2, <2>3, <2>4, <2>5, <2>6, <2>7, <2>8 DEF RunStep
<1>3. CASE Reinstall \/ StillUnhealthy \/ HelmTimeout \/ Crash
    <2>1. faults' \in 0 .. MaxFaults
        BY <1>3 DEF Reinstall, StillUnhealthy, HelmTimeout, Crash, Count, GivesUp
    <2> QED BY <1>3, <2>1 DEF Reinstall, StillUnhealthy, HelmTimeout, Crash
<1>4. ASSUME NEW c \in Cluster, ControllerUp(c) PROVE TypeOK' /\ KeyInv'
    <2>1. keys[c] = {} => nextKey \in Key
        BY <1>4 DEF ControllerUp, Key
    <2> QED BY <1>4, <2>1, NextKeyFits DEF ControllerUp
<1>5. ASSUME NEW c \in Cluster, ControllerDown(c) PROVE TypeOK' /\ KeyInv'
    BY <1>5 DEF ControllerDown
<1>6. ASSUME NEW c \in Cluster, RotateKey(c) PROVE TypeOK' /\ KeyInv'
    <2>1. nextKey \in Key
        BY <1>6, SpareKeyRoom DEF RotateKey
    <2> QED BY <1>6, <2>1, NextKeyFits DEF RotateKey
<1>7. CASE DeleteK3D
    BY <1>7 DEF DeleteK3D
<1>8. ASSUME NEW s \in Secret, EditSecret(s) PROVE TypeOK' /\ KeyInv'
    BY <1>8 DEF EditSecret
<1>9. CASE UNCHANGED vars
    BY <1>9 DEF vars
<1> QED BY <1>1, <1>2, <1>3, <1>4, <1>5, <1>6, <1>7, <1>8, <1>9 DEF Next

\* Every variable stays in its range, and a ready controller has a key.
THEOREM TypeCorrect == Spec => [](TypeOK /\ KeyInv)
<1>1. TypeOK /\ KeyInv /\ [Next]_vars => (TypeOK /\ KeyInv)'
    BY TypeStep
<1> QED BY <1>1, TypeInit, PTL DEF Spec

-----------------------------------------------------------------------------
(* Sealed with a key of the cluster it goes to.                            *)

\* No cluster loses a key while a run is under way.
LEMMA KeysKept ==
    ASSUME TypeOK, [Next]_vars
    PROVE  \A c \in Cluster : pc # "idle" => keys[c] \subseteq keys'[c]
<1>0. "management" \in Cluster /\ "main" \in Cluster
    BY DEF Cluster
<1> USE <1>0 DEF TypeOK, kind, clusters, inputs, locals
<1>1. CASE StartRun \/ Reinstall \/ StillUnhealthy \/ HelmTimeout \/ Crash
    BY <1>1 DEF StartRun, Reinstall, StillUnhealthy, HelmTimeout, Crash
<1>2. ASSUME NEW k \in Key, CopyKey(k)
      PROVE  \A c \in Cluster : keys[c] \subseteq keys'[c]
    BY <1>2 DEF CopyKey
<1>3. CASE RunStep /\ ~ \E k \in Key : CopyKey(k)
    BY <1>3 DEF RunStep, CreateK3D, ListKeys, CopyDone, SkipInstall, BeginInstall,
                InstallLocked, HelmDone, ParityOK, ParityRecopy, ParityFails, Healthy, Seal,
                SealFails, SealDone, Publish, SyncSecrets, ProvisionMain
<1>4. ASSUME NEW c \in Cluster, ControllerUp(c) \/ ControllerDown(c) \/ RotateKey(c)
      PROVE  \A d \in Cluster : keys[d] \subseteq keys'[d]
    BY <1>4 DEF ControllerUp, ControllerDown, RotateKey
<1>5. CASE DeleteK3D
    BY <1>5 DEF DeleteK3D
<1>6. ASSUME NEW s \in Secret, EditSecret(s)
      PROVE  \A c \in Cluster : keys[c] \subseteq keys'[c]
    BY <1>6 DEF EditSecret
<1>7. CASE UNCHANGED vars
    BY <1>7 DEF vars
<1> QED BY <1>1, <1>2, <1>3, <1>4, <1>5, <1>6, <1>7 DEF Next

LEMMA SealStep == TypeOK /\ KeyInv /\ SealInv /\ [Next]_vars => SealInv'
<1> SUFFICES ASSUME TypeOK, KeyInv, SealInv, [Next]_vars PROVE SealInv'
    OBVIOUS
<1>0. \A c \in Cluster : pc # "idle" => keys[c] \subseteq keys'[c]
    BY KeysKept
<1> USE DEF SealInv, Decryptable
<1>1. CASE pc' \notin {"seal", "publish", "sync"}
    BY <1>1
<1>2. CASE Healthy
    BY <1>2 DEF Healthy
<1>3. ASSUME NEW s \in Secret, Seal(s) PROVE SealInv'
    <2>1. Cert(phase) \in keys[phase] /\ pc = "seal" /\ phase \in Cluster
        BY <1>3, CertIsKey DEF Seal, KeyInv, TypeOK
    <2>2. UNCHANGED <<pc, phase, keys>> /\ sealed' = sealed \cup {s}
        BY <1>3 DEF Seal, clusters
    <2>3. local'[s].key = Cert(phase) /\ \A r \in sealed \ {s} : local'[r] = local[r]
        BY <1>3 DEF Seal, CacheHit, TypeOK
    <2> QED BY <2>1, <2>2, <2>3 DEF TypeOK
<1>4. CASE SealDone
    BY <1>4 DEF SealDone, clusters, locals
<1>5. CASE Publish
    BY <1>5 DEF Publish, clusters
<1>6. CASE pc \in {"seal", "publish", "sync"} /\ UNCHANGED <<pc, phase, sealed, local, files>>
    BY <1>0, <1>6 DEF TypeOK
<1> QED
    <2>1. \/ StartRun \/ RunStep \/ Reinstall \/ StillUnhealthy \/ HelmTimeout \/ Crash
          \/ (\E c \in Cluster : ControllerUp(c) \/ ControllerDown(c) \/ RotateKey(c))
          \/ DeleteK3D \/ (\E s \in Secret : EditSecret(s)) \/ UNCHANGED vars
        BY DEF Next
    <2>2. CASE StartRun \/ Reinstall \/ StillUnhealthy \/ HelmTimeout \/ Crash
        BY <1>1, <2>2 DEF StartRun, Reinstall, StillUnhealthy, HelmTimeout, Crash, Abort
    <2>3. CASE RunStep
        BY <1>1, <1>2, <1>3, <1>4, <1>5, <2>3
           DEF RunStep, CreateK3D, ListKeys, CopyKey, CopyDone, SkipInstall, BeginInstall,
               InstallLocked, HelmDone, ParityOK, ParityRecopy, ParityFails, SealFails,
               SyncSecrets, ProvisionMain, Abort
    <2>4. CASE \E c \in Cluster : ControllerUp(c) \/ ControllerDown(c) \/ RotateKey(c)
        BY <1>1, <1>6, <2>4 DEF ControllerUp, ControllerDown, RotateKey, locals
    <2>5. CASE DeleteK3D \/ (\E s \in Secret : EditSecret(s)) \/ UNCHANGED vars
        BY <1>1, <1>6, <2>5 DEF DeleteK3D, EditSecret, vars, locals
    <2> QED BY <2>1, <2>2, <2>3, <2>4, <2>5

\* The cluster that syncs the "secrets" app can decrypt all that is on the branch,
\* for any number of Secrets, renewed keys, recreated clusters and kills.
THEOREM AlwaysDecryptable == Spec => []DecryptableAtSync
<1>1. Init => SealInv
    BY DEF Init, SealInv
<1>2. SealInv => DecryptableAtSync
    BY DEF SealInv, DecryptableAtSync
<1> QED BY <1>1, <1>2, SealStep, TypeCorrect, PTL DEF Spec

-----------------------------------------------------------------------------
(* One canonical key.                                                      *)

LEMMA SeedStep == TypeOK /\ KeyInv /\ SeedInv /\ [Next]_vars => SeedInv'
<1> SUFFICES ASSUME TypeOK, KeyInv, SeedInv, [Next]_vars, hasMgmt', ~eventful' PROVE SeedInv'
    BY DEF SeedInv
<1>0. "management" \in Cluster /\ "main" \in Cluster /\ "management" # "main"
    BY DEF Cluster
<1>1. UNCHANGED kind
    BY Zenon DEF Next, vars, kind, clusters, StartRun, RunStep, CreateK3D, ListKeys, CopyKey,
        CopyDone,
        SkipInstall, BeginInstall, InstallLocked, HelmDone, ParityOK, ParityRecopy, ParityFails,
        Healthy, Seal, SealFails, SealDone, Publish, SyncSecrets, ProvisionMain, Reinstall,
        StillUnhealthy, HelmTimeout, Crash, ControllerUp, ControllerDown, RotateKey, DeleteK3D,
        EditSecret
<1>2. hasMgmt /\ ~eventful
    BY <1>1 DEF kind
<1> USE <1>0, <1>2 DEF TypeOK, SeedInv, kind, clusters, inputs, locals, Abort
<1>3. CASE StartRun
    BY <1>3 DEF StartRun
<1>4. CASE RunStep
    <2>1. CASE CreateK3D \/ ListKeys \/ CopyDone
        BY <2>1 DEF CreateK3D, ListKeys, CopyDone
    <2>2. ASSUME NEW k \in Key, CopyKey(k) PROVE SeedInv'
        BY <2>2 DEF CopyKey
    <2>3. CASE SkipInstall \/ BeginInstall \/ InstallLocked \/ HelmDone
        BY <2>3 DEF SkipInstall, BeginInstall, InstallLocked, HelmDone
    <2>4. CASE ParityOK \/ ParityRecopy \/ ParityFails
        BY <2>4 DEF ParityOK, ParityRecopy, ParityFails
    <2>5. CASE Healthy
        <3>1. keys[phase] # {} /\ phase \in {"management", "main"}
            BY <2>5 DEF Healthy, KeyInv, Cluster
        <3> QED BY <2>5, <3>1 DEF Healthy
    <2>6. ASSUME NEW s \in Secret, Seal(s) PROVE SeedInv'
        BY <2>6 DEF Seal
    <2>7. CASE SealFails \/ SealDone \/ Publish \/ SyncSecrets \/ ProvisionMain
        BY <2>7 DEF SealFails, SealDone, Publish, SyncSecrets, ProvisionMain
    <2> QED BY <1>4, <2>1, <2>2, <2>3, <2>4, <2>5, <2>6, <2>7 DEF RunStep
<1>5. CASE Reinstall \/ StillUnhealthy \/ HelmTimeout \/ Crash
    BY <1>5 DEF Reinstall, StillUnhealthy, HelmTimeout, Crash
<1>6. ASSUME NEW c \in Cluster, ControllerUp(c) \/ ControllerDown(c) \/ RotateKey(c)
      PROVE  SeedInv'
    BY <1>6 DEF ControllerUp, ControllerDown, RotateKey
<1>7. CASE DeleteK3D
    BY <1>7 DEF DeleteK3D
<1>8. ASSUME NEW s \in Secret, EditSecret(s) PROVE SeedInv'
    BY <1>8 DEF EditSecret
<1>9. CASE UNCHANGED vars
    BY <1>9 DEF vars
<1> QED BY <1>3, <1>4, <1>5, <1>6, <1>7, <1>8, <1>9 DEF Next

\* With a management cluster that keeps its key, the main cluster never makes one of
\* its own: whatever is killed between listing, copying and installing, a controller
\* starts there only after a copy.
THEOREM KeyStaysCanonical == Spec => []OneCanonicalKey
<1>1. Init => SeedInv
    BY DEF Init, SeedInv, Cluster
<1>2. SeedInv => OneCanonicalKey
    BY DEF SeedInv, OneCanonicalKey
<1> QED BY <1>1, <1>2, SeedStep, TypeCorrect, PTL DEF Spec
=============================================================================
