------------------------- MODULE ConfigRepo_proofs -------------------------
(***************************************************************************)
(* Proofs about ConfigRepo, for any set of files, any bounds, any mix of   *)
(* callers.                                                                *)
(***************************************************************************)
EXTENDS ConfigRepo, TLAPS

-----------------------------------------------------------------------------
(* Types.                                                                  *)

\* The three-way merge of a pull request yields a tree.
LEMMA MergedTreeType ==
    ASSUME NEW p \in PullRequest, remote \in Branch
    PROVE  MergedTree(p) \in Tree
BY DEF MergedTree, PullRequest, Branch, Tree

\* The branch HEAD names is a branch.
LEMMA HeadBranchType == TypeOK => HeadBranch \in Branch
BY DEF TypeOK, HeadBranch

\* What a push leaves on the forge has the right type.
LEMMA ApplyPushType ==
    ASSUME TypeOK, ApplyPush, hash \in Commit
    PROVE  remote' \in Branch /\ prs' \subseteq PullRequest
BY DEF TypeOK, ApplyPush, Branch, PullRequest

\* A pushed commit is a real one: the types that need it are proved with it.
PushHasHash == pc = "push" => hash \in Commit

TypeInv == TypeOK /\ PushHasHash

LEMMA TypeInit == Init => TypeInv
<1> SUFFICES ASSUME Init PROVE TypeInv
  OBVIOUS
<1>1. EmptyTree \in Tree
  BY DEF EmptyTree, Tree
<1>2. RootBranch \in Branch /\ Unborn \in Branch
  BY <1>1, BoundsAssumption DEF RootBranch, Unborn, Branch, Commit
<1>3. nextId \in 1 .. MaxCommit + 1 /\ wanted \in 0 .. MaxWanted
      /\ attempts \in 0 .. MaxAttempts
  BY BoundsAssumption DEF Init
<1> QED
  BY <1>1, <1>2, <1>3 DEF Init, TypeInv, TypeOK, PushHasHash, PCs

LEMMA TypeStep == TypeInv /\ [Next]_vars => TypeInv'
<1> SUFFICES ASSUME TypeInv, [Next]_vars PROVE TypeInv'
  OBVIOUS
<1>a. RootBranch \in Branch /\ Unborn \in Branch /\ EmptyTree \in Tree
  BY BoundsAssumption DEF RootBranch, Unborn, EmptyTree, Tree, Branch, Commit
<1> USE BoundsAssumption DEF TypeInv, TypeOK, PushHasHash, PCs
<1>1. ASSUME NEW c \in Callers, NEW m \in Modes, StartRun(c, m) PROVE TypeInv'
  BY <1>1 DEF StartRun, repo
<1>2. CASE Clone
  BY <1>2 DEF Clone, Branch
<1>3. CASE CheckoutDefault
  BY <1>3 DEF CheckoutDefault, Branch
<1>4. CASE FetchUpdates
  BY <1>4 DEF FetchUpdates, Fetched
<1>5. CASE CreateBranch
  BY <1>5 DEF CreateBranch, Branch
<1>6. CASE StayOnDefault
  BY <1>6 DEF StayOnDefault, repo
<1>7. ASSUME NEW f \in Own, RenderFile(f) PROVE TypeInv'
  <2>1. wanted \in Nat
    OBVIOUS
  <2>2. work' \in Tree
    BY <1>7, <2>1 DEF RenderFile, Tree
  <2> QED
    BY <1>7, <2>2 DEF RenderFile, run
<1>8. CASE RenderDone
  BY <1>8 DEF RenderDone, repo
<1>9. CASE SkipCommit
  BY <1>9 DEF SkipCommit, NextOnClean, repo
<1>10. CASE MakeCommit
  <2>1. nextId \in Commit /\ nextId' \in 1 .. MaxCommit + 1
    BY <1>10 DEF MakeCommit, Commit
  <2>2. HeadBranch \in Branch
    BY HeadBranchType
  <2>3. [tree |-> work, log |-> HeadBranch.log \cup {nextId}] \in Branch
    BY <2>1, <2>2 DEF Branch
  <2>4. main' \in Branch /\ feature' \in Branch
    BY <1>10, <2>3 DEF MakeCommit
  <2> QED
    BY <1>10, <2>1, <2>4 DEF MakeCommit
<1>11. CASE PushOK
  <2>1. remote' \in Branch /\ prs' \subseteq PullRequest
    BY <1>11, ApplyPushType DEF PushOK
  <2> QED
    BY <1>11, <2>1 DEF PushOK, NextAfterPush, repo
<1>12. CASE PushTransient
  <2>1. remote' \in Branch /\ prs' \subseteq PullRequest
    BY <1>12, ApplyPushType DEF PushTransient
  <2>2. attempts' \in 0 .. MaxAttempts
    BY <1>12 DEF PushTransient
  <2> QED
    BY <1>12, <2>1, <2>2 DEF PushTransient, repo
<1>13. CASE PushFails
  BY <1>13 DEF PushFails, repo
<1>14. CASE PressEnter
  BY <1>14 DEF PressEnter, repo
<1>15. CASE VerifyMerge
  BY <1>15 DEF VerifyMerge, Fetched
<1>16. CASE SetupAgain
  BY <1>16 DEF SetupAgain, repo
<1>17. CASE Exit
  BY <1>17 DEF Exit, repo
<1>18. CASE Crash
  BY <1>18 DEF Crash, repo
<1>19. CASE EditConfig
  <2>1. wanted' \in 0 .. MaxWanted
    BY <1>19 DEF EditConfig
  <2> QED
    BY <1>19, <2>1 DEF EditConfig, repo, run
<1>20. ASSUME NEW f \in Foreign, ForeignPush(f) PROVE TypeInv'
  <2>1. nextId \in Commit /\ nextId' \in 1 .. MaxCommit + 1
    BY <1>20 DEF ForeignPush, Commit
  <2>2. [remote.tree EXCEPT ![f] = @ + 1] \in Tree
    BY DEF Branch, Tree, File
  <2>3. remote' \in Branch
    BY <1>20, <2>1, <2>2 DEF ForeignPush, Branch
  <2> QED
    BY <1>20, <2>1, <2>3 DEF ForeignPush, repo, run
<1>21. ASSUME NEW p \in prs, NEW k \in MergeKinds, MergePR(p, k) PROVE TypeInv'
  <2>1. nextId' \in 1 .. MaxCommit + 1
    BY <1>21 DEF MergePR
  <2>2. MergedTree(p) \in Tree
    BY MergedTreeType
  <2>3. p.log \subseteq Commit /\ (k = "squash" => nextId \in Commit)
    BY <1>21 DEF MergePR, Commit, PullRequest
  <2>4. k \in {"merge", "squash"}
    BY KindsAssumption
  <2>5. remote.log \cup (IF k = "merge" THEN p.log ELSE {nextId}) \in SUBSET Commit
    BY <2>3, <2>4 DEF Branch
  <2>6. remote' \in Branch
    BY <1>21, <2>2, <2>5 DEF MergePR, Branch
  <2> QED
    BY <1>21, <2>1, <2>6 DEF MergePR, repo, run
<1>22. CASE UNCHANGED vars
  BY <1>22 DEF vars
<1>23. CASE InitCommit \/ CloneCut
  BY <1>23, <1>a DEF InitCommit, CloneCut
<1>24. CASE InitPush \/ InitPushFails
  BY <1>24 DEF InitPush, InitPushFails, repo
<1>25. CASE OpenFails
  BY <1>25 DEF OpenFails, repo
<1>26. CASE DeleteClone
  BY <1>26, <1>a DEF DeleteClone, run
<1> QED
  BY <1>1, <1>2, <1>3, <1>4, <1>5, <1>6, <1>7, <1>8, <1>9, <1>10, <1>11, <1>12,
     <1>13, <1>14, <1>15, <1>16, <1>17, <1>18, <1>19, <1>20, <1>21, <1>22, <1>23,
     <1>24, <1>25, <1>26
     DEF Next, Process, Others

\* Type correctness of the publishing workflow.
THEOREM TypeCorrect == Spec => []TypeOK
<1>1. TypeInv => TypeOK
  BY DEF TypeInv
<1> QED
  BY <1>1, TypeInit, TypeStep, PTL DEF Spec

-----------------------------------------------------------------------------
(* A run that reports success has published: the inductive invariant says  *)
(* which branch HEAD names, and that everything under it except the run's  *)
(* own commit is on the forge already.                                     *)

PastFetch == {"branch", "render", "commit", "push", "wait", "verify", "done"}

PublishInv ==
    /\ pc = "init" => head = "main"
    /\ pc \in {"wait", "verify"} => mode = "pr"
    /\ mode = "pr" /\ pc \in PastFetch => main.log \subseteq remote.log
    /\ mode = "pr" /\ pc \in PastFetch \ {"branch"} => head = "feature"
    /\ mode = "pr" /\ pc \in {"render", "commit", "done"} =>
           feature.log \subseteq remote.log
    /\ mode = "pr" /\ pc \in {"push", "wait", "verify"} =>
           feature.log \ {hash} \subseteq remote.log
    /\ mode = "direct" /\ pc \in PastFetch \cup {"fetch"} => head = "main"
    /\ mode = "direct" /\ pc \in {"branch", "render", "commit", "done"} =>
           main.log \subseteq remote.log

\* The default branch on the forge never loses a commit: a push is only taken
\* when it fast-forwards.
LEMMA LogGrows ==
    ASSUME TypeInv, [Next]_vars
    PROVE  remote.log \subseteq remote'.log
<1> USE DEF TypeInv, TypeOK
<1>1. CASE PushOK \/ PushTransient
  BY <1>1, KindsAssumption DEF PushOK, PushTransient, ApplyPush, PushAccepted
<1>2. ASSUME NEW f \in Foreign, ForeignPush(f) PROVE remote.log \subseteq remote'.log
  BY <1>2 DEF ForeignPush
<1>3. ASSUME NEW p \in prs, NEW k \in MergeKinds, MergePR(p, k)
      PROVE remote.log \subseteq remote'.log
  BY <1>3 DEF MergePR
<1>4. CASE InitPush \/ InitPushFails
  BY <1>4 DEF InitPush, InitPushFails
<1> QED
  BY <1>1, <1>2, <1>3, <1>4
     DEF Next, Process, Others, StartRun, Clone, InitCommit, CloneCut, CheckoutDefault,
         OpenFails, DeleteClone, FetchUpdates,
         CreateBranch, StayOnDefault, RenderFile, RenderDone, SkipCommit,
         MakeCommit, PushFails, PressEnter, VerifyMerge, SetupAgain, Exit,
         Crash, EditConfig, vars

LEMMA PublishStep == TypeInv /\ PublishInv /\ [Next]_vars => PublishInv'
<1> SUFFICES ASSUME TypeInv, PublishInv, [Next]_vars PROVE PublishInv'
  OBVIOUS
<1>a. remote.log \subseteq remote'.log
  BY LogGrows
<1>b. mode \in {"pr", "direct"}
  BY KindsAssumption DEF TypeInv, TypeOK
<1> USE DEF PublishInv, PastFetch
<1>1. ASSUME NEW c \in Callers, NEW m \in Modes, StartRun(c, m) PROVE PublishInv'
  BY <1>1 DEF StartRun
<1>2. CASE Clone
  BY <1>2 DEF Clone
<1>3. CASE CheckoutDefault
  BY <1>3 DEF CheckoutDefault
<1>4. CASE FetchUpdates
  BY <1>4 DEF FetchUpdates, Fetched
<1>5. CASE CreateBranch
  BY <1>5 DEF CreateBranch
<1>6. CASE StayOnDefault
  BY <1>6 DEF StayOnDefault, repo
<1>7. ASSUME NEW f \in Own, RenderFile(f) PROVE PublishInv'
  BY <1>7 DEF RenderFile, run
<1>8. CASE RenderDone
  BY <1>8 DEF RenderDone, repo
<1>9. CASE SkipCommit
  BY <1>9 DEF SkipCommit, NextOnClean, repo
<1>10. CASE MakeCommit
  <2>1. CASE mode = "pr"
    <3>1. head = "feature" /\ feature'.log = feature.log \cup {nextId}
      BY <1>10, <2>1 DEF MakeCommit, HeadBranch
    <3> QED
      BY <1>10, <2>1, <3>1 DEF MakeCommit
  <2>2. CASE mode = "direct"
    BY <1>10, <2>2 DEF MakeCommit
  <2> QED
    BY <1>b, <2>1, <2>2
<1>11. CASE PushOK
  <2>1. CASE mode = "pr"
    BY <1>11, <2>1, <1>a DEF PushOK, NextAfterPush, repo
  <2>2. CASE mode = "direct"
    BY <1>11, <2>2 DEF PushOK, NextAfterPush, ApplyPush, repo
  <2> QED
    BY <1>b, <2>1, <2>2
<1>12. CASE PushTransient
  BY <1>12, <1>a DEF PushTransient, repo
<1>13. CASE PushFails
  BY <1>13 DEF PushFails, repo
<1>14. CASE PressEnter
  BY <1>14 DEF PressEnter, repo
<1>15. CASE VerifyMerge
  <2>1. mode = "pr" /\ head = "feature" /\ feature.log \ {hash} \subseteq remote.log
    BY <1>15 DEF VerifyMerge
  <2>2. CASE hash \in remote.log
    BY <1>15, <2>1, <2>2 DEF VerifyMerge, Fetched
  <2>3. CASE hash \notin remote.log
    BY <1>15, <2>1, <2>3 DEF VerifyMerge, Fetched
  <2> QED
    BY <2>2, <2>3
<1>16. CASE SetupAgain
  BY <1>16 DEF SetupAgain, repo
<1>17. CASE Exit
  BY <1>17 DEF Exit, repo
<1>18. CASE Crash
  BY <1>18 DEF Crash, repo
<1>19. CASE EditConfig
  BY <1>19 DEF EditConfig, repo, run
<1>20. ASSUME NEW f \in Foreign, ForeignPush(f) PROVE PublishInv'
  BY <1>20, <1>a DEF ForeignPush, repo, run
<1>21. ASSUME NEW p \in prs, NEW k \in MergeKinds, MergePR(p, k) PROVE PublishInv'
  BY <1>21, <1>a DEF MergePR, repo, run
<1>22. CASE UNCHANGED vars
  BY <1>22 DEF vars
<1>23. CASE InitCommit \/ CloneCut
  BY <1>23 DEF InitCommit, CloneCut
<1>24. CASE InitPush \/ InitPushFails
  BY <1>24, <1>a DEF InitPush, InitPushFails, repo
<1>25. CASE OpenFails
  BY <1>25 DEF OpenFails, repo
<1>26. CASE DeleteClone
  BY <1>26 DEF DeleteClone, run
<1> QED
  BY <1>1, <1>2, <1>3, <1>4, <1>5, <1>6, <1>7, <1>8, <1>9, <1>10, <1>11, <1>12,
     <1>13, <1>14, <1>15, <1>16, <1>17, <1>18, <1>19, <1>20, <1>21, <1>22, <1>23,
     <1>24, <1>25, <1>26
     DEF Next, Process, Others

\* A run of SetupKubeAidConfig, pushKubeOneManifestChanges or
\* updateCapiClusterValuesFile that comes to its end stands on a commit of the
\* forge's default branch, whatever runs died before it and in either mode.
THEOREM PublishedWhenDone == Spec => []DoneMeansPublished
<1>1. Init => PublishInv
  BY DEF Init, PublishInv, PastFetch
<1>2. TypeInv /\ PublishInv => DoneMeansPublished
  BY KindsAssumption
     DEF TypeInv, TypeOK, PublishInv, PastFetch, DoneMeansPublished, HeadBranch
<1> QED
  BY <1>1, <1>2, TypeInit, TypeStep, PublishStep, PTL DEF Spec

-----------------------------------------------------------------------------
(* Refinement.  Every tree that can reach the forge is one whole render, in *)
(* either mode; that of a pull request, over the foreign files of the tree *)
(* it started from.  A direct run commits whatever foreign files the clone *)
(* has, on main, and leaves the feature branch alone.                      *)

Uniform(t) == \E v \in 0 .. MaxWanted : \A f \in Own : t[f] = v
SameForeign(t, u) == \A f \in Foreign : t[f] = u[f]

RenderInv ==
    /\ Uniform(remote.tree) /\ Uniform(main.tree)
    /\ Uniform(feature.tree) /\ Uniform(base)
    /\ SameForeign(feature.tree, base)
    /\ mode = "pr" /\ pc \in {"render", "commit"} => SameForeign(work, base)
    /\ pc = "commit" => Rendered
    /\ remote.log = {} => remote.tree = EmptyTree
    /\ pc = "init" => main = RootBranch
    /\ pc = "push" => hash \in HeadBranch.log
    /\ \A p \in prs : /\ p.id \in p.log /\ Uniform(p.tree) /\ Uniform(p.base)
                      /\ SameForeign(p.tree, p.base)

\* A merge publishes a whole render and leaves the foreign files alone.
LEMMA MergedTreeRender ==
    ASSUME NEW p, Uniform(p.tree), Uniform(p.base), Uniform(remote.tree),
           SameForeign(p.tree, p.base)
    PROVE  Uniform(MergedTree(p)) /\ SameForeign(MergedTree(p), remote.tree)
<1>1. PICK v \in 0 .. MaxWanted : \A f \in Own : p.tree[f] = v
  BY DEF Uniform
<1>2. PICK u \in 0 .. MaxWanted : \A f \in Own : p.base[f] = u
  BY DEF Uniform
<1>3. PICK w \in 0 .. MaxWanted : \A f \in Own : remote.tree[f] = w
  BY DEF Uniform
<1>4. \A f \in Own : MergedTree(p)[f] = IF v # u THEN v ELSE w
  BY <1>1, <1>2, <1>3 DEF MergedTree, File
<1>5. Uniform(MergedTree(p))
  BY <1>4 DEF Uniform
<1>6. SameForeign(MergedTree(p), remote.tree)
  BY DEF SameForeign, MergedTree, File
<1> QED
  BY <1>5, <1>6

LEMMA RenderStep ==
    ASSUME TypeInv, PublishInv, RenderInv, [Next]_vars
    PROVE  RenderInv'
<1>a. Uniform(EmptyTree) /\ SameForeign(EmptyTree, EmptyTree)
  BY BoundsAssumption DEF Uniform, SameForeign, EmptyTree, File
<1>b. mode \in {"pr", "direct"}
  BY KindsAssumption DEF TypeInv, TypeOK
<1> USE DEF RenderInv
<1>1. ASSUME NEW c \in Callers, NEW m \in Modes, StartRun(c, m) PROVE RenderInv'
  BY <1>1 DEF StartRun, repo, Uniform, SameForeign
<1>2. CASE Clone
  BY <1>2 DEF Clone, Uniform, SameForeign
<1>3. CASE CheckoutDefault
  BY <1>3 DEF CheckoutDefault, Uniform, SameForeign
<1>4. CASE FetchUpdates
  BY <1>4 DEF FetchUpdates, Fetched, Uniform, SameForeign
<1>5. CASE CreateBranch
  BY <1>5 DEF CreateBranch, Uniform, SameForeign
<1>6. CASE StayOnDefault
  BY <1>6 DEF StayOnDefault, repo, Uniform, SameForeign
<1>7. ASSUME NEW f \in Own, RenderFile(f) PROVE RenderInv'
  <2>1. mode = "pr" => SameForeign(work', base)
    <3>1. ASSUME NEW g \in Foreign PROVE work'[g] = work[g]
      BY <1>7, FilesAssumption DEF RenderFile, TypeInv, TypeOK, Tree, File
    <3> QED
      BY <1>7, <3>1 DEF RenderFile, SameForeign
  <2> QED
    BY <1>7, <2>1 DEF RenderFile, run, Uniform, SameForeign
<1>8. CASE RenderDone
  BY <1>8 DEF RenderDone, repo, Rendered, Uniform, SameForeign
<1>9. CASE SkipCommit
  BY <1>9 DEF SkipCommit, NextOnClean, repo, Uniform, SameForeign
<1>10. CASE MakeCommit
  <2>1. wanted \in 0 .. MaxWanted
    BY DEF TypeInv, TypeOK
  <2>2. Uniform(work)
    BY <1>10, <2>1 DEF MakeCommit, Rendered, Uniform
  <2>3. mode = "pr" => head = "feature" /\ SameForeign(work, base)
    BY <1>10 DEF MakeCommit, PublishInv, PastFetch
  <2>4. mode = "direct" => head = "main"
    BY <1>10 DEF MakeCommit, PublishInv, PastFetch
  <2>5. Uniform(main'.tree) /\ Uniform(feature'.tree) /\ SameForeign(feature'.tree, base)
    BY <1>10, <1>b, <2>2, <2>3, <2>4 DEF MakeCommit
  <2>6. hash' \in HeadBranch'.log
    BY <1>10 DEF MakeCommit, HeadBranch
  <2> QED
    BY <1>10, <2>5, <2>6 DEF MakeCommit, Uniform, SameForeign
<1>11. CASE PushOK
  <2>1. hash \in IF mode = "pr" THEN feature.log ELSE main.log
    BY <1>11, <1>b DEF PushOK, PublishInv, PastFetch, HeadBranch
  <2> QED
    BY <1>11, <1>b, <2>1 DEF PushOK, ApplyPush, NextAfterPush, repo, Uniform, SameForeign
<1>12. CASE PushTransient
  <2>1. hash \in IF mode = "pr" THEN feature.log ELSE main.log
    BY <1>12, <1>b DEF PushTransient, PublishInv, PastFetch, HeadBranch
  <2> QED
    BY <1>12, <1>b, <2>1 DEF PushTransient, ApplyPush, repo, HeadBranch, Uniform, SameForeign
<1>13. CASE PushFails
  BY <1>13 DEF PushFails, repo, Uniform, SameForeign
<1>14. CASE PressEnter
  BY <1>14 DEF PressEnter, repo, Uniform, SameForeign
<1>15. CASE VerifyMerge
  BY <1>15 DEF VerifyMerge, Fetched, Uniform, SameForeign
<1>16. CASE SetupAgain
  BY <1>16 DEF SetupAgain, repo, Uniform, SameForeign
<1>17. CASE Exit
  BY <1>17 DEF Exit, repo, Uniform, SameForeign
<1>18. CASE Crash
  BY <1>18 DEF Crash, repo, Uniform, SameForeign
<1>19. CASE EditConfig
  BY <1>19 DEF EditConfig, repo, run, Uniform, SameForeign
<1>20. ASSUME NEW f \in Foreign, ForeignPush(f) PROVE RenderInv'
  <2>1. ASSUME NEW g \in Own PROVE remote'.tree[g] = remote.tree[g]
    BY <1>20, FilesAssumption DEF ForeignPush, TypeInv, TypeOK, Branch, Tree, File
  <2>2. Uniform(remote.tree)'
    BY <2>1 DEF Uniform
  <2> QED
    BY <1>20, <2>2 DEF ForeignPush, repo, run, Uniform, SameForeign, Rendered, HeadBranch
<1>21. ASSUME NEW p \in prs, NEW k \in MergeKinds, MergePR(p, k) PROVE RenderInv'
  <2>1. Uniform(MergedTree(p))
    BY MergedTreeRender
  <2>2. remote'.tree = MergedTree(p)
    BY <1>21 DEF MergePR
  <2>3. Uniform(remote.tree)'
    BY <2>1, <2>2 DEF Uniform
  <2> QED
    BY <1>21, <2>3 DEF MergePR, repo, run, Uniform, SameForeign, Rendered, HeadBranch
<1>22. CASE UNCHANGED vars
  BY <1>22 DEF vars, Rendered, Uniform, SameForeign, HeadBranch
<1>23. CASE InitCommit \/ CloneCut
  BY <1>23, <1>a DEF InitCommit, CloneCut, RootBranch, Unborn, Uniform, SameForeign
<1>24. CASE InitPush \/ InitPushFails
  BY <1>24 DEF InitPush, InitPushFails, repo, RootBranch, Uniform, SameForeign
<1>25. CASE OpenFails
  BY <1>25 DEF OpenFails, repo, Uniform, SameForeign
<1>26. CASE DeleteClone
  BY <1>26, <1>a DEF DeleteClone, run, Unborn, Uniform, SameForeign
<1> QED
  BY <1>1, <1>2, <1>3, <1>4, <1>5, <1>6, <1>7, <1>8, <1>9, <1>10, <1>11, <1>12,
     <1>13, <1>14, <1>15, <1>16, <1>17, <1>18, <1>19, <1>20, <1>21, <1>22, <1>23,
     <1>24, <1>25, <1>26
     DEF Next, Process, Others

\* Every step while a pull request run is up is, on the forge's default branch, one whole
\* publication, one foreign change, or nothing.
LEMMA PublicationStep ==
    ASSUME TypeInv, RenderInv, mode = "pr", [Next]_vars
    PROVE  [Publication!Next]_<<[f \in Own |-> remote.tree[f]],
                                [f \in Foreign |-> remote.tree[f]]>>
<1>1. ASSUME NEW f \in Foreign, ForeignPush(f) PROVE Publication!ForeignChange
  <2>1. remote'.tree = [remote.tree EXCEPT ![f] = @ + 1] /\ remote.tree \in [File -> Nat]
    BY <1>1 DEF ForeignPush, TypeInv, TypeOK, Branch, Tree
  <2>2. [g \in Foreign |-> remote.tree[g]]'
            = [[g \in Foreign |-> remote.tree[g]] EXCEPT ![f] = @ + 1]
    BY <2>1 DEF File
  <2>3. [g \in Own |-> remote.tree[g]]' = [g \in Own |-> remote.tree[g]]
    BY <2>1, FilesAssumption DEF File
  <2> QED
    BY <2>2, <2>3 DEF Publication!ForeignChange
<1>2. ASSUME NEW p \in prs, NEW k \in MergeKinds, MergePR(p, k)
      PROVE Publication!Publish
  <2>1. remote'.tree = MergedTree(p)
    BY <1>2 DEF MergePR
  <2>2. Uniform(MergedTree(p)) /\ SameForeign(MergedTree(p), remote.tree)
    BY MergedTreeRender DEF RenderInv
  <2>3. \E v \in 0 .. MaxWanted : [g \in Own |-> remote.tree[g]]' = [g \in Own |-> v]
    BY <2>1, <2>2 DEF Uniform
  <2>4. [g \in Foreign |-> remote.tree[g]]' = [g \in Foreign |-> remote.tree[g]]
    BY <2>1, <2>2 DEF SameForeign
  <2> QED
    BY <2>3, <2>4 DEF Publication!Publish
<1>3. CASE UNCHANGED remote
  BY <1>3
<1>4. CASE PushOK \/ PushTransient
  BY <1>4 DEF PushOK, PushTransient, ApplyPush, RenderInv
<1>5. CASE InitPush \/ InitPushFails
  <2>1. remote'.tree = remote.tree
    BY <1>5 DEF InitPush, InitPushFails, RenderInv, RootBranch
  <2> QED
    BY <2>1
<1> QED
  BY <1>1, <1>2, <1>3, <1>4, <1>5
     DEF Next, Process, Others, Publication!Next, StartRun, Clone, InitCommit, CloneCut,
         OpenFails, DeleteClone, CheckoutDefault, FetchUpdates, CreateBranch, StayOnDefault,
         RenderFile,
         RenderDone, SkipCommit, MakeCommit, PushFails, PressEnter, VerifyMerge,
         SetupAgain, Exit, Crash, EditConfig, vars

LEMMA RenderInit == Init => PublishInv /\ RenderInv /\ Publication!Init
BY BoundsAssumption
   DEF Init, PublishInv, PastFetch, RenderInv, Uniform, SameForeign, RootBranch, Unborn,
       EmptyTree, File, Publication!Init

PublicationInv == TypeInv /\ PublishInv /\ RenderInv

LEMMA PublicationInvAlways == Spec => []PublicationInv
<1>1. PublicationInv /\ [Next]_vars => PublicationInv'
  BY TypeStep, PublishStep, RenderStep DEF PublicationInv
<1> QED
  BY <1>1, TypeInit, RenderInit, PTL DEF Spec, PublicationInv

\* While a run with the pull request workflow is up, the rendered files of the
\* default branch change together and no foreign file changes with them, whatever
\* runs went before it, in either mode.
THEOREM AlwaysPublishedTogether == Spec => PublishedTogether
<1>1. PublicationInv /\ [Next]_vars
        => [mode = "pr" => [Publication!Next]_<<[f \in Own |-> remote.tree[f]],
                                [f \in Foreign |-> remote.tree[f]]>>]_vars
  BY PublicationStep DEF PublicationInv
<1> QED
  BY <1>1, RenderInit, PublicationInvAlways, PTL DEF Spec, PublishedTogether

\* Where every run uses it, the workflow implements ConfigPublication: for any number
\* of runs, crashes, stale pull requests and foreign pushes.
THEOREM PullRequestsImplementPublication ==
    ASSUME Modes = {"pr"}
    PROVE  Spec => ImplementsPublication
<1>1. PublicationInv /\ [Next]_vars
        => [Publication!Next]_<<[f \in Own |-> remote.tree[f]],
                                [f \in Foreign |-> remote.tree[f]]>>
  BY PublicationStep DEF PublicationInv, TypeInv, TypeOK
<1> QED
  BY <1>1, RenderInit, PublicationInvAlways, PTL
     DEF Spec, ImplementsPublication, Publication!Spec

\* And so takes back nobody else's change.
THEOREM ForeignStays ==
    ASSUME Modes = {"pr"}
    PROVE  Spec => ForeignNeverReverted
<1>1. PublicationInv /\ [Next]_vars
        => [\A f \in Foreign : remote.tree[f] <= remote'.tree[f]]_vars
  <2> SUFFICES ASSUME PublicationInv, [Next]_vars, NEW f \in Foreign
               PROVE  remote.tree[f] <= remote'.tree[f]
    OBVIOUS
  <2> DEFINE foreign == [g \in Foreign |-> remote.tree[g]]
  <2>1. mode = "pr" /\ remote.tree[f] \in Nat
    BY DEF PublicationInv, TypeInv, TypeOK, Branch, Tree, File
  <2>2. UNCHANGED foreign \/ \E g \in Foreign : foreign' = [foreign EXCEPT ![g] = @ + 1]
    BY <2>1, PublicationStep
       DEF PublicationInv, Publication!Next, Publication!Publish, Publication!ForeignChange
  <2>3. DOMAIN foreign = Foreign /\ foreign[f] = remote.tree[f] /\ foreign'[f] = remote'.tree[f]
    OBVIOUS
  <2> HIDE DEF foreign
  <2>4. foreign'[f] \in {foreign[f], foreign[f] + 1}
    BY <2>2, <2>3
  <2> QED
    BY <2>1, <2>3, <2>4
<1> QED
  BY <1>1, PublicationInvAlways, PTL DEF Spec, ForeignNeverReverted
=============================================================================
