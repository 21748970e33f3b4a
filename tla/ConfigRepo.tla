----------------------------- MODULE ConfigRepo -----------------------------
(***************************************************************************)
(* How kubeaid-cli publishes what it renders: the local clone of the       *)
(* kubeaid-config repository, the feature branch, the push, and the wait   *)
(* for the operator's merge (pkg/utils/git, and the three callers          *)
(* SetupKubeAidConfig, pushKubeOneManifestChanges and                      *)
(* updateCapiClusterValuesFile of pkg/core).                               *)
(*                                                                         *)
(* A branch is a record: the tree at its tip (a version for every file)    *)
(* and the set of commits reachable from it.  The process may die in any   *)
(* step, which is what assert.AssertErrNil does on every error; the clone  *)
(* under the temp directory outlives it.  Meanwhile other people push to   *)
(* the same repository, which holds other clusters' directories too.       *)
(***************************************************************************)
EXTENDS Naturals, FiniteSets

CONSTANTS
    Own,         \* files of this cluster that every one of Callers renders
    Foreign,     \* every other file of the repository
    Callers,     \* which publishing procedures run: "setup", "kubeone", "capi"
    Modes,       \* "pr": feature branch and merge; "direct": --skip-pr-workflow
    MergeKinds,  \* how the forge merges: "merge" commit or "squash"
    MaxCommit,   \* bound: commits in a behaviour
    MaxWanted,   \* bound: edits of the operator's configuration
    MaxAttempts  \* gitOperationMaxAttempts, at least 1

ASSUME FilesAssumption == Own \cap Foreign = {}
ASSUME BoundsAssumption ==
    /\ MaxCommit \in Nat
    /\ MaxWanted \in Nat
    /\ MaxAttempts \in Nat \ {0}
ASSUME KindsAssumption ==
    /\ Callers \subseteq {"setup", "kubeone", "capi"}
    /\ Modes \subseteq {"pr", "direct"}
    /\ MergeKinds \subseteq {"merge", "squash"}

VARIABLES
    remote,     \* the default branch on the forge
    main,       \* refs/heads/<default> of the local clone
    feature,    \* the feature branch the clone last created
    base,       \* tree the feature branch was created from
    head,       \* what HEAD points at: "main" or "feature"
    work,       \* index and working tree (one tree: AddGlob stages all of Own)
    cloned,     \* the clone directory exists
    prs,        \* pull requests the operator may still merge
    wanted,     \* version of the files the templates render to now
    nextId,     \* next commit id
    pc,         \* step of the running process, "idle" when none runs
    caller,     \* procedure that runs
    mode,       \* branch policy of the run
    hash,       \* commit hash returned by AddCommitAndPushChanges
    attempts    \* push attempts made by retryGitOperation

vars == <<remote, main, feature, base, head, work, cloned, prs, wanted,
          nextId, pc, caller, mode, hash, attempts>>
repo == <<main, feature, base, head, work, cloned>>
run  == <<pc, caller, mode, hash, attempts>>

File   == Own \cup Foreign
Tree   == [File -> Nat]
Commit == 0 .. MaxCommit
ZeroHash == MaxCommit + 1          \* plumbing.ZeroHash, never in a log
Branch == [tree: Tree, log: SUBSET Commit]
PullRequest == [id: Commit, tree: Tree, base: Tree, log: SUBSET Commit]

EmptyTree == [f \in File |-> 0]
RootBranch == [tree |-> EmptyTree, log |-> {0}]

\* A branch before its first commit: on an empty forge, in a clone cut short.
Unborn == [tree |-> EmptyTree, log |-> {}]

\* The branch HEAD points at; a commit moves it, a hard reset goes to its tip.
HeadBranch == IF head = "main" THEN main ELSE feature

PCs == {"idle", "open", "init", "fetch", "branch", "render", "commit", "push",
        "wait", "verify", "done"}

TypeOK ==
    /\ remote \in Branch /\ main \in Branch /\ feature \in Branch
    /\ base \in Tree /\ work \in Tree
    /\ head \in {"main", "feature"}
    /\ cloned \in BOOLEAN
    /\ prs \subseteq PullRequest
    /\ wanted \in 0 .. MaxWanted
    /\ nextId \in 1 .. MaxCommit + 1
    /\ pc \in PCs
    /\ caller \in Callers /\ mode \in Modes
    /\ hash \in Commit \cup {ZeroHash}
    /\ attempts \in 0 .. MaxAttempts

Init ==
    /\ remote \in {RootBranch, Unborn}
    /\ main = Unborn /\ feature = Unborn
    /\ base = EmptyTree /\ work = EmptyTree
    /\ head = "main"
    /\ cloned = FALSE
    /\ prs = {}
    /\ wanted = 0
    /\ nextId = 1
    /\ pc = "idle"
    /\ caller \in Callers /\ mode \in Modes
    /\ hash = ZeroHash
    /\ attempts = 0

-----------------------------------------------------------------------------
(* A run of the CLI.                                                       *)

StartRun(c, m) ==
    /\ pc = "idle"
    /\ pc' = "open" /\ caller' = c /\ mode' = m
    /\ hash' = ZeroHash /\ attempts' = 0
    /\ UNCHANGED <<remote, repo, prs, wanted, nextId>>

\* CloneRepo, no clone yet: a full clone.
Clone ==
    /\ pc = "open" /\ ~cloned /\ remote.log # {}
    /\ main' = remote /\ head' = "main" /\ work' = remote.tree
    /\ cloned' = TRUE
    /\ pc' = "branch"
    /\ UNCHANGED <<remote, feature, base, prs, wanted, nextId, caller, mode, hash, attempts>>

\* initRepo: the forge is empty, so the clone starts with a commit of its own.
InitCommit ==
    /\ pc = "open" /\ ~cloned /\ remote.log = {}
    /\ main' = RootBranch /\ head' = "main" /\ work' = EmptyTree
    /\ cloned' = TRUE
    /\ pc' = "init"
    /\ UNCHANGED <<remote, feature, base, prs, wanted, nextId, caller, mode, hash, attempts>>

\* Mutant: the commit is forced on whatever the forge has by now.
InitPushForced ==
    /\ pc = "init"
    /\ remote' = main
    /\ pc' = "branch"
    /\ UNCHANGED <<repo, prs, wanted, nextId, caller, mode, hash, attempts>>

InitPush ==
    /\ pc = "init" /\ remote.log = {}
    /\ remote' = main
    /\ pc' = "branch"
    /\ UNCHANGED <<repo, prs, wanted, nextId, caller, mode, hash, attempts>>

\* Somebody else's first commit came in between; or the push was applied and
\* not answered, and its retry finds the commit there.
InitPushFails ==
    /\ pc = "init"
    /\ remote' = IF remote.log = {} THEN main ELSE remote
    /\ pc' = "idle"
    /\ UNCHANGED <<repo, prs, wanted, nextId, caller, mode, hash, attempts>>

\* Killed while it clones, or in initRepo before the commit.
CloneCut ==
    /\ pc = "open" /\ ~cloned
    /\ main' = Unborn /\ head' = "main" /\ work' = EmptyTree
    /\ cloned' = TRUE
    /\ pc' = "idle"
    /\ UNCHANGED <<remote, feature, base, prs, wanted, nextId, caller, mode, hash, attempts>>

\* HEAD resolves, and the forge names a default branch when the clone does not
\* know it (which it does not when it was cut short).
Opens == main.log # {} /\ remote.log # {}

\* CloneRepo, clone present: removeUnstagedChanges and the checkout of the
\* default branch, as the clone knows it.
CheckoutDefault ==
    /\ pc = "open" /\ cloned /\ Opens
    /\ head' = "main" /\ work' = main.tree
    /\ pc' = "fetch"
    /\ UNCHANGED <<remote, main, feature, base, cloned, prs, wanted, nextId,
                   caller, mode, hash, attempts>>

OpenFails ==
    /\ pc = "open" /\ cloned /\ ~Opens
    /\ pc' = "idle"
    /\ UNCHANGED <<remote, repo, prs, wanted, nextId, caller, mode, hash, attempts>>

\* Mutant: the refspec without its "+", which never takes commits away from the
\* local branch.
FetchedFastForward == IF main.log \subseteq remote.log THEN remote ELSE main

\* What a fetch with the forced refspec "+refs/heads/D:refs/heads/D" makes of
\* the local default branch: the reference moves, index and files stay.
Fetched == remote

FetchUpdates ==
    /\ pc = "fetch"
    /\ main' = Fetched
    /\ pc' = "branch"
    /\ UNCHANGED <<remote, feature, base, head, work, cloned, prs, wanted, nextId,
                   caller, mode, hash, attempts>>

\* Mutant: the branch is created without discarding what is in the tree.
CreateBranchKeepingTree ==
    /\ pc = "branch" /\ mode = "pr"
    /\ feature' = main /\ base' = main.tree
    /\ head' = "feature" /\ UNCHANGED work
    /\ pc' = "render"
    /\ UNCHANGED <<remote, main, cloned, prs, wanted, nextId, caller, mode, hash, attempts>>

\* CreateAndCheckoutToBranch: hard reset to HEAD, checkout of the local default
\* branch, new branch there.
CreateBranch ==
    /\ pc = "branch" /\ mode = "pr"
    /\ feature' = main /\ base' = main.tree
    /\ head' = "feature" /\ work' = main.tree
    /\ pc' = "render"
    /\ UNCHANGED <<remote, main, cloned, prs, wanted, nextId, caller, mode, hash, attempts>>

\* With --skip-pr-workflow the files are rendered over whatever is checked out.
StayOnDefault ==
    /\ pc = "branch" /\ mode = "direct"
    /\ pc' = "render"
    /\ UNCHANGED <<remote, repo, prs, wanted, nextId, caller, mode, hash, attempts>>

\* One template rendered over its file (O_TRUNC); the run may die between two.
RenderFile(f) ==
    /\ pc = "render"
    /\ work[f] # wanted
    /\ work' = [work EXCEPT ![f] = wanted]
    /\ UNCHANGED <<remote, main, feature, base, head, cloned, prs, wanted, nextId, run>>

Rendered == \A f \in Own : work[f] = wanted

RenderDone ==
    /\ pc = "render" /\ Rendered
    /\ pc' = "commit"
    /\ UNCHANGED <<remote, repo, prs, wanted, nextId, caller, mode, hash, attempts>>

\* Mutant: every caller waits for a merge, whatever the hash.
NextOnCleanAlwaysWaits == IF mode = "pr" THEN "wait" ELSE "done"

\* What a caller does with the ZeroHash of a clean tree.
NextOnClean == IF caller = "capi" /\ mode = "pr" THEN "wait" ELSE "done"

\* AddCommitAndPushChanges, status clean: nothing committed, ZeroHash.
SkipCommit ==
    /\ pc = "commit" /\ work = HeadBranch.tree
    /\ hash' = ZeroHash
    /\ pc' = NextOnClean
    /\ UNCHANGED <<remote, repo, prs, wanted, nextId, caller, mode, attempts>>

\* The commit takes the whole index, on top of the commit HEAD names.
MakeCommit ==
    /\ pc = "commit" /\ work # HeadBranch.tree
    /\ nextId <= MaxCommit
    /\ LET b == [tree |-> work, log |-> HeadBranch.log \cup {nextId}] IN
       IF head = "main" THEN main' = b /\ UNCHANGED feature
                        ELSE feature' = b /\ UNCHANGED main
    /\ hash' = nextId /\ nextId' = nextId + 1
    /\ attempts' = 0
    /\ pc' = "push"
    /\ UNCHANGED <<remote, base, head, work, cloned, prs, wanted, caller, mode>>

\* The forge takes a push that fast-forwards; a new feature branch always does.
PushAccepted == mode = "pr" \/ remote.log \subseteq main.log

\* The pushed ref is already there: go-git answers NoErrAlreadyUpToDate.
AlreadyPushed ==
    IF mode = "pr" THEN \E p \in prs : p.id = hash ELSE hash \in remote.log

\* What an applied push leaves on the forge.
ApplyPush ==
    IF mode = "pr"
    THEN /\ prs' = prs \cup {[id |-> hash, tree |-> feature.tree,
                              base |-> base, log |-> feature.log]}
         /\ UNCHANGED remote
    ELSE /\ remote' = main
         /\ UNCHANGED prs

NextAfterPush == IF mode = "pr" THEN "wait" ELSE "done"

PushOK ==
    /\ pc = "push"
    /\ PushAccepted /\ ~AlreadyPushed
    /\ ApplyPush
    /\ pc' = NextAfterPush
    /\ UNCHANGED <<repo, wanted, nextId, caller, mode, hash, attempts>>

\* Mutant: one retry too many.
PushTransientOnceMore ==
    /\ pc = "push"
    /\ attempts' = attempts + 1
    /\ attempts <= MaxAttempts
    /\ \/ UNCHANGED <<remote, prs>>
       \/ PushAccepted /\ ~AlreadyPushed /\ ApplyPush
    /\ UNCHANGED <<repo, wanted, nextId, pc, caller, mode, hash>>

\* A transient error (connection reset, i/o timeout): retried up to
\* MaxAttempts.  The forge may or may not have applied the push.
PushTransient ==
    /\ pc = "push"
    /\ attempts' = attempts + 1
    /\ attempts' <= MaxAttempts
    /\ \/ UNCHANGED <<remote, prs>>
       \/ PushAccepted /\ ~AlreadyPushed /\ ApplyPush
    /\ UNCHANGED <<repo, wanted, nextId, pc, caller, mode, hash>>

\* A retry of a push that had been applied, a rejected push and the last
\* failed attempt all end in assert.AssertErrNil.
PushFails ==
    /\ pc = "push"
    /\ AlreadyPushed \/ ~PushAccepted \/ attempts = MaxAttempts
    /\ pc' = "idle"
    /\ UNCHANGED <<remote, repo, prs, wanted, nextId, caller, mode, hash, attempts>>

\* WaitUntilPRMerged: the operator presses ENTER, whether or not they merged.
PressEnter ==
    /\ pc = "wait"
    /\ pc' = "verify"
    /\ UNCHANGED <<remote, repo, prs, wanted, nextId, caller, mode, hash, attempts>>

\* One fetch of the default branch and one search for the commit in its log.
VerifyMerge ==
    /\ pc = "verify"
    /\ main' = Fetched
    /\ pc' = IF hash \in main'.log THEN "done" ELSE "wait"
    /\ UNCHANGED <<remote, feature, base, head, work, cloned, prs, wanted, nextId,
                   caller, mode, hash, attempts>>

\* Bootstrap calls SetupKubeAidConfig again later in the same process, for the
\* main cluster, without going through CloneRepo.
SetupAgain ==
    /\ pc = "done" /\ caller = "setup"
    /\ pc' = "branch"
    /\ UNCHANGED <<remote, repo, prs, wanted, nextId, caller, mode, hash, attempts>>

Exit ==
    /\ pc = "done"
    /\ pc' = "idle"
    /\ UNCHANGED <<remote, repo, prs, wanted, nextId, caller, mode, hash, attempts>>

\* Any failed assertion, Ctrl+C or power loss.
Crash ==
    /\ pc \notin {"idle", "done"}
    /\ pc' = "idle"
    /\ UNCHANGED <<remote, repo, prs, wanted, nextId, caller, mode, hash, attempts>>

-----------------------------------------------------------------------------
(* Everyone else.                                                          *)

\* The operator changes general.yaml, or a template value changes (an API
\* endpoint becomes known), between two renders.
EditConfig ==
    /\ pc \in {"idle", "done"}
    /\ wanted < MaxWanted
    /\ wanted' = wanted + 1
    /\ UNCHANGED <<remote, repo, prs, nextId, run>>

\* A reboot, or the operator, clears the temp directory.
DeleteClone ==
    /\ pc = "idle" /\ cloned
    /\ main' = Unborn /\ feature' = Unborn /\ base' = EmptyTree
    /\ head' = "main" /\ work' = EmptyTree
    /\ cloned' = FALSE
    /\ UNCHANGED <<remote, prs, wanted, nextId, run>>

\* Somebody else's change to another file reaches the default branch.
ForeignPush(f) ==
    /\ nextId <= MaxCommit
    /\ remote' = [tree |-> [remote.tree EXCEPT ![f] = @ + 1],
                  log  |-> remote.log \cup {nextId}]
    /\ nextId' = nextId + 1
    /\ UNCHANGED <<repo, prs, wanted, run>>

\* The forge's three-way merge; a conflict is settled for the pull request.
MergedTree(p) ==
    [f \in File |-> IF p.tree[f] # p.base[f] THEN p.tree[f] ELSE remote.tree[f]]

MergePR(p, kind) ==
    /\ p \in prs
    /\ kind = "squash" => nextId <= MaxCommit
    /\ remote' = [tree |-> MergedTree(p),
                  log  |-> remote.log \cup (IF kind = "merge" THEN p.log ELSE {nextId})]
    /\ nextId' = IF kind = "squash" THEN nextId + 1 ELSE nextId
    /\ prs' = prs \ {p}
    /\ UNCHANGED <<repo, wanted, run>>

-----------------------------------------------------------------------------
Process ==
    \/ \E c \in Callers, m \in Modes : StartRun(c, m)
    \/ Clone \/ InitCommit \/ InitPush \/ InitPushFails \/ CloneCut
    \/ CheckoutDefault \/ OpenFails \/ FetchUpdates
    \/ CreateBranch \/ StayOnDefault
    \/ \E f \in Own : RenderFile(f)
    \/ RenderDone \/ SkipCommit \/ MakeCommit
    \/ PushOK \/ PushTransient \/ PushFails
    \/ PressEnter \/ VerifyMerge
    \/ SetupAgain \/ Exit \/ Crash

Others ==
    \/ EditConfig \/ DeleteClone
    \/ \E f \in Foreign : ForeignPush(f)
    \/ \E p \in prs, k \in MergeKinds : MergePR(p, k)

Next == Process \/ Others

Spec == Init /\ [][Next]_vars

\* The steps of a process that is not killed: it keeps running, and the
\* operator answers the prompt and merges the pull request of the run.
Progress ==
    \/ Clone \/ InitCommit \/ InitPush \/ InitPushFails
    \/ CheckoutDefault \/ OpenFails \/ FetchUpdates
    \/ CreateBranch \/ StayOnDefault
    \/ \E f \in Own : RenderFile(f)
    \/ RenderDone \/ SkipCommit \/ MakeCommit
    \/ PushOK \/ PushFails
    \/ PressEnter \/ VerifyMerge

MergeOwn == \E p \in prs, k \in MergeKinds : p.id = hash /\ MergePR(p, k)

FairSpec == Spec /\ WF_vars(Progress) /\ WF_vars(MergeOwn)

-----------------------------------------------------------------------------
(* What must hold.                                                         *)

\* A run that reports success left a default branch that contains the commit
\* it stands on, with every file of the cluster as rendered: neither the
\* clean-tree shortcut of AddCommitAndPushChanges, nor a commit left behind by
\* a run that died before its push, makes a run skip the publication.
DoneMeansPublished ==
    pc = "done" => HeadBranch.log \subseteq remote.log

\* Publishing this cluster's files never takes back a change somebody else
\* already had on the default branch (another cluster's directory, say):
\* CloneRepo hands over a tree with "the latest changes", clone.go:43.
ForeignNeverReverted ==
    [][\A f \in Foreign : remote.tree[f] <= remote'.tree[f]]_vars

\* With the pull request workflow the default branch moves as ConfigPublication
\* says: no run, killed where it may be and followed by any other, half
\* publishes a render or carries somebody else's file along with it, and none
\* that found the forge empty takes back what was pushed there since.
Publication == INSTANCE ConfigPublication WITH
    published <- [f \in Own |-> remote.tree[f]],
    foreign   <- [f \in Foreign |-> remote.tree[f]]
ImplementsPublication == Publication!Spec

\* The same of the steps of a pull request run while other runs of the cluster
\* pushed to the default branch directly: whatever moves the default branch
\* while such a run is up changes the files of the cluster together, or none.
PublishedTogether ==
    /\ Publication!Init
    /\ [][mode = "pr" =>
            [Publication!Next]_<<[f \in Own |-> remote.tree[f]],
                                 [f \in Foreign |-> remote.tree[f]]>>]_vars

\* A clone is there to be used by the next run: "When the repo is already
\* cloned, it checks out to the default branch", clone.go:44.
CloneUsable == pc = "idle" /\ cloned => Opens

\* A run that reached the merge prompt gets past it, once the pull request is
\* merged and the operator answers the prompt.
GetsPast(c) == (pc = "wait" /\ caller = c) ~> (pc \notin {"wait", "verify"})

PromptEnds == \A c \in Callers \ {"capi"} : GetsPast(c)

\* The same of the Cluster API upgrade, which prompts for a pull request even
\* when it had nothing to commit: a re-run then waits for a merge that
\* verifyBranchMerged, pr.go:201, cannot see.
CapiPromptEnds == GetsPast("capi")

\* Once the default branch holds everything the run rendered, pressing ENTER
\* confirms it: "verify the merge actually happened", pr.go:201.
MergedIsConfirmed ==
    [][(pc = "verify" /\ \A f \in Own : remote.tree[f] = work[f])
        => pc' # "wait"]_vars
=============================================================================
