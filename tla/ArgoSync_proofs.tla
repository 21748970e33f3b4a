-------------------------- MODULE ArgoSync_proofs --------------------------
(***************************************************************************)
(* Theorems of ArgoSync, for every set of Apps, every order of the steps     *)
(* and every number of faults and retries.                                  *)
(*                                                                         *)
(* GatesFirst and DoneMeansSynced compare a run with the branch as it was    *)
(* when the run began.  What carries them from there to the list of Apps is  *)
(* RootInv: root's children are read off a comparison that the run has       *)
(* itself asked for.  GateInv and SeenInv follow the list from then on.      *)
(***************************************************************************)
EXTENDS ArgoSync, SequenceTheorems, FiniteSetTheorems, TLAPS

\* Where a run has got with the App in hand.
Syncing == {"check", "sync", "recheck"}

\* What the branch declared when the run began is in the cluster once root is done.
RootInv ==
    /\ wanted \subseteq desired
    /\ stage = "early" /\ pc \in Syncing \cup {"children", "next", "list"} =>
          \/ wanted \subseteq exists
          \/ pc = "next" /\ todo # <<>> /\ Head(todo) = Root
          \/ pc = "check" /\ cur = Root
          \/ pc \in {"sync", "children"} /\ cur = Root /\ (reconciled => wanted \subseteq resources)
    /\ stage \in {"steps", "rest"} => wanted \subseteq listed
    /\ pc = "list" => stage = "early" /\ wanted \subseteq exists

\* Every App of the list has been found in sync, is in hand, or is still to come.
SeenInv ==
    /\ stage \in {"steps", "rest"} /\ pc # "idle" =>
          \A a \in listed :
              \/ stage = "steps" /\ a \notin InSeq(Steps)
              \/ a \in ByResource \cup seen \cup InSeq(todo)
              \/ a = cur /\ pc \in Syncing \cup {"children"}
    /\ pc = "children" => cur = Root
    /\ pc = "done" => stage = "rest" /\ todo = <<>>

\* The ordered steps: todo is their tail, and behind it every gate has been passed.
Taken == Len(Steps) - Len(todo)

StepsInv ==
    stage = "steps" /\ pc # "idle" =>
        /\ pc \in Syncing \cup {"next", "gate"}
        /\ Taken \in Nat /\ \A i \in 1 .. Len(todo) : todo[i] = Steps[Taken + i]
        /\ pc # "next" => Taken > 0 /\ cur = Steps[Taken]
        /\ pc = "gate" => cur \in Gated
        /\ \A i \in 1 .. Taken : Steps[i] \in Gated \cap listed =>
              Steps[i] \in passed \/ (i = Taken /\ pc # "next")

GateInv ==
    /\ StepsInv
    /\ pc = "gate" => stage = "steps"
    /\ stage = "rest" /\ pc # "idle" => Gated \cap listed \subseteq passed

-----------------------------------------------------------------------------
(* Sequences.                                                              *)

LEMMA HeadAndTail ==
    ASSUME NEW s \in Seq(All), s # <<>>
    PROVE  /\ Head(s) = s[1] /\ Head(s) \in All /\ Tail(s) \in Seq(All)
           /\ Len(s) \in Nat \ {0} /\ Len(Tail(s)) = Len(s) - 1
           /\ \A i \in 1 .. Len(Tail(s)) : Tail(s)[i] = s[i + 1]
           /\ InSeq(s) = {Head(s)} \cup InSeq(Tail(s))
<1>1. /\ Head(s) \in All /\ Tail(s) \in Seq(All) /\ Len(Tail(s)) = Len(s) - 1
      /\ \A i \in 1 .. Len(Tail(s)) : Tail(s)[i] = s[i + 1]
    BY HeadTailProperties
<1>2. Head(s) = s[1] /\ Len(s) \in Nat \ {0}
    OBVIOUS
<1>3. DOMAIN s = 1 .. Len(s) /\ DOMAIN Tail(s) = 1 .. Len(s) - 1
    BY <1>1
<1>4. \A x : x \in InSeq(s) <=> x = Head(s) \/ x \in InSeq(Tail(s))
    <2>1. ASSUME NEW x \in InSeq(s), x # Head(s) PROVE x \in InSeq(Tail(s))
        <3>1. PICK i \in 1 .. Len(s) : x = s[i]
            BY <1>3 DEF InSeq
        <3>2. i - 1 \in 1 .. Len(s) - 1 /\ Tail(s)[i - 1] = s[i]
            BY <1>1, <1>2, <2>1, <3>1
        <3> QED BY <1>3, <3>1, <3>2 DEF InSeq
    <2>2. Head(s) \in InSeq(s)
        BY <1>2, <1>3 DEF InSeq
    <2>3. ASSUME NEW x \in InSeq(Tail(s)) PROVE x \in InSeq(s)
        <3>1. PICK i \in 1 .. Len(s) - 1 : x = Tail(s)[i]
            BY <1>3 DEF InSeq
        <3>2. i + 1 \in 1 .. Len(s) /\ x = s[i + 1]
            BY <1>1, <1>2, <3>1
        <3> QED BY <1>3, <3>2 DEF InSeq
    <2> QED BY <2>1, <2>2, <2>3
<1> QED BY <1>1, <1>2, <1>4

LEMMA StepsAreApps ==
    /\ InSeq(Steps) \subseteq App /\ Steps \in Seq(All) /\ Early \in Seq(All)
    /\ DOMAIN Steps = 1 .. Len(Steps) /\ Len(Steps) \in Nat
    /\ \A i \in 1 .. Len(Steps) : Steps[i] \in App /\ Steps[i] # Root
<1>1. DOMAIN Steps = 1 .. Len(Steps) /\ Len(Steps) \in Nat
    BY OrderAssumption
<1>2. \A i \in 1 .. Len(Steps) : Steps[i] \in App /\ Steps[i] # Root
    BY OrderAssumption, RootAssumption
<1>3. Steps \in Seq(All) /\ Early \in Seq(All)
    BY OrderAssumption, SeqMonotonic DEF All
<1> QED BY <1>1, <1>2, <1>3 DEF InSeq

\* What is left of the list has every App once.
LEMMA Listing ==
    ASSUME NEW S \in SUBSET All
    PROVE  SetToSeq(S) \in Seq(All) /\ InSeq(SetToSeq(S)) = S
<1> DEFINE n == Cardinality(S)
<1>1. IsFiniteSet(All)
    BY RootAssumption, FS_AddElement DEF All
<1>2. IsFiniteSet(S)
    BY <1>1, FS_Subset
<1>3. n \in Nat /\ ExistsBijection(1 .. n, S)
    BY <1>2, FS_CardinalityType
<1>4. PICK f \in [1 .. n -> S] : IsInjective(f)
    BY <1>3 DEF ExistsBijection, Bijection, Injection, IsInjective
<1> DEFINE g == SetToSeq(S)
<1>5. g \in [1 .. n -> S] /\ IsInjective(g)
    BY <1>4 DEF SetToSeq
<1>6. InSeq(g) = S
    <2>1. IsFiniteSet(1 .. n) /\ Cardinality(1 .. n) = n
        BY <1>3, FS_Interval
    <2>2. g \in Injection(1 .. n, S)
        BY <1>5 DEF Injection
    <2>3. g \in Surjection(1 .. n, S)
        BY <1>2, <2>1, <2>2, FS_Injection
    <2> HIDE DEF g, n
    <2> QED BY <1>3, <1>5, <2>3 DEF Surjection, InSeq
<1>7. g \in Seq(All)
    BY <1>3, <1>5
<1> QED BY <1>6, <1>7

-----------------------------------------------------------------------------
(* Types.                                                                  *)

LEMMA TypeInit == Init => TypeOK
<1> SUFFICES ASSUME Init PROVE TypeOK
    OBVIOUS
<1>1. /\ reconciled \in BOOLEAN /\ repoUp \in BOOLEAN
      /\ server \in {"up", "starting", "gone"} /\ (conn # {} => server = "up")
    BY Zenon DEF Init
<1>2. todo \in Seq(All) /\ cur \in All /\ conn \subseteq Client
    BY DEF Init, All
<1>3. transport \in 0 .. MaxTransport /\ repo \in 0 .. MaxRepo /\ faults \in 0 .. MaxFaults
    BY BoundsAssumption DEF Init
<1> QED BY <1>1, <1>2, <1>3 DEF Init, TypeOK

LEMMA TypeStep == TypeOK /\ GateInv /\ [Next]_vars => TypeOK'
<1> SUFFICES ASSUME TypeOK, GateInv, [Next]_vars PROVE TypeOK'
    OBVIOUS
<1>0. Root \in All /\ App \subseteq All
    BY DEF All
<1> USE <1>0, BoundsAssumption
    DEF TypeOK, git, apps, outages, loop, budgets, history, cli, Goto, Fault, Leave, Reconnect
<1>1. CASE StartRun
    <2>1. <<Root>> \o Early \in Seq(All)
        <3>1. <<Root>> \in Seq(All)
            OBVIOUS
        <3> QED BY <3>1, StepsAreApps, ConcatProperties
    <2> QED BY <1>1, <2>1 DEF StartRun
<1>2. CASE NextApp
    <2>1. Head(todo) \in All /\ Tail(todo) \in Seq(All)
        BY <1>2, HeadAndTail DEF NextApp
    <2> QED BY <1>2, <2>1 DEF NextApp
<1>3. CASE EndOfLoop
    <2>1. SetToSeq(listed \ InSeq(Steps)) \in Seq(All)
        BY Listing
    <2> QED BY <1>3, <2>1 DEF EndOfLoop
<1>4. CASE ListApps
    BY <1>4, StepsAreApps DEF ListApps
<1>5. CASE Look
    BY <1>5 DEF Look, Compare
<1>6. CASE LookFails \/ ChildrenQueryFails
    BY <1>6 DEF LookFails, ChildrenQueryFails, Client
<1>7. CASE SyncUnavailable
    BY <1>7 DEF SyncUnavailable
<1>8. CASE SyncRepoFails
    BY <1>8 DEF SyncRepoFails, Compare
<1>9. CASE SyncStarts \/ SyncRefused
    BY <1>9 DEF SyncStarts, SyncRefused
<1>10. CASE ChildrenDone \/ ChildrenTimeout
    BY <1>10 DEF ChildrenDone, ChildrenTimeout
<1>11. CASE GatePasses \/ GateFails \/ Crash
    BY <1>11 DEF GatePasses, GateFails, Crash, GateInv, StepsInv
<1>12. ASSUME NEW a \in App, CreateChild(a) \/ Drift(a) \/ Grow(a) PROVE TypeOK'
    BY <1>12 DEF CreateChild, Drift, Grow
<1>13. ASSUME NEW a \in All, OpSucceeds(a) \/ OpFails(a) PROVE TypeOK'
    <2>1. \/ server' \in {"starting", "gone"} /\ conn' = {}
          \/ UNCHANGED <<server, conn>>
        BY <1>13 DEF OpSucceeds, OpFails
    <2>2. server' \in {"up", "starting", "gone"} /\ (conn' # {} => server' = "up")
        BY <2>1, Zenon
    <2> QED BY <1>13, <2>2 DEF OpSucceeds, OpFails, Compare
<1>14. CASE ReconcileRoot
    BY <1>14 DEF ReconcileRoot, Compare
<1>15. CASE ServerDown \/ ServerUp \/ RepoDown \/ RepoUp
    <2>1. /\ repoUp' = FALSE \/ repoUp' = TRUE \/ UNCHANGED repoUp
          /\ \/ server' \in {"starting", "gone"} /\ conn' = {}
             \/ server' = "up"
             \/ UNCHANGED <<server, conn>>
        BY <1>15 DEF ServerDown, ServerUp, RepoDown, RepoUp
    <2>2. repoUp' \in BOOLEAN
        BY <2>1, Zenon
    <2>3. server' \in {"up", "starting", "gone"}
        BY <2>1, Zenon
    <2>4. conn' # {} => server' = "up"
        BY <2>1
    <2> QED BY <1>15, <2>2, <2>3, <2>4 DEF ServerDown, ServerUp, RepoDown, RepoUp
<1>16. CASE UNCHANGED vars
    BY <1>16 DEF vars
<1> QED BY <1>1, <1>2, <1>3, <1>4, <1>5, <1>6, <1>7, <1>8, <1>9, <1>10, <1>11, <1>12, <1>13,
           <1>14, <1>15, <1>16 DEF Next, RunStep, Operations

-----------------------------------------------------------------------------
(* The root App.                                                           *)

LEMMA RootStep == TypeOK /\ GateInv /\ RootInv /\ [Next]_vars => RootInv'
<1> SUFFICES ASSUME TypeOK, GateInv, RootInv, [Next]_vars PROVE RootInv'
    OBVIOUS
<1>0. Root \notin ByResource /\ Root \notin App
    BY RootAssumption, RolesAssumption
<1> USE <1>0 DEF TypeOK, RootInv, Syncing, git, apps, outages, loop, budgets, history, cli,
    Goto, Leave
<1>1. CASE StartRun
    <2>1. LET s == <<Root>> \o Early IN s # <<>> /\ Head(s) = Root
        BY StepsAreApps
    <2> QED BY <1>1, <2>1 DEF StartRun
<1>2. CASE NextApp \/ EndOfLoop \/ ListApps
    BY <1>2 DEF NextApp, EndOfLoop, ListApps, Skipped
<1>3. CASE Look
    BY <1>3 DEF Look, Compare, ReportsSynced, InSync
<1>4. CASE SyncRepoFails
    BY <1>4 DEF SyncRepoFails, Compare
<1>5. CASE LookFails \/ SyncUnavailable \/ SyncStarts \/ SyncRefused
    BY <1>5 DEF LookFails, SyncUnavailable, SyncStarts, SyncRefused, Reconnect
<1>6. CASE ChildrenDone \/ ChildrenQueryFails \/ ChildrenTimeout
    BY <1>6 DEF ChildrenDone, ChildrenQueryFails, ChildrenTimeout, ChildrenReady, Reconnect
<1>7. CASE GatePasses \/ GateFails \/ Crash
    BY <1>7 DEF GatePasses, GateFails, Crash, GateInv
<1>8. ASSUME NEW a \in App, CreateChild(a) \/ Drift(a) \/ Grow(a) PROVE RootInv'
    BY <1>8 DEF CreateChild, Drift, Grow
<1>9. ASSUME NEW a \in All, OpSucceeds(a) \/ OpFails(a) PROVE RootInv'
    BY <1>9 DEF OpSucceeds, OpFails, Compare
<1>10. CASE ReconcileRoot
    BY <1>10 DEF ReconcileRoot, Compare
<1>11. CASE ServerDown \/ ServerUp \/ RepoDown \/ RepoUp \/ UNCHANGED vars
    BY <1>11 DEF ServerDown, ServerUp, RepoDown, RepoUp, vars
<1> QED BY <1>1, <1>2, <1>3, <1>4, <1>5, <1>6, <1>7, <1>8, <1>9, <1>10, <1>11
           DEF Next, RunStep, Operations

-----------------------------------------------------------------------------
(* The ordered steps.                                                      *)

\* Nothing but a run moves in its list.
LEMMA Aside ==
    ASSUME [Next]_vars, ~StartRun, ~RunStep, ~SyncRefused, ~Crash
    PROVE  UNCHANGED cli
BY DEF Next, Operations, CreateChild, OpSucceeds, OpFails, Drift, Grow, ReconcileRoot, ServerDown,
       ServerUp, RepoDown, RepoUp, vars, cli, loop, budgets, history

\* At the head of the list no step has been taken.
LEMMA AtTheStart ==
    ASSUME todo' = Steps
    PROVE  Taken' = 0 /\ \A i \in 1 .. Len(todo') : todo'[i] = Steps[Taken' + i]
<1>1. Len(Steps) \in Nat /\ Len(todo') = Len(Steps)
    BY StepsAreApps
<1>2. Taken' = 0
    BY <1>1 DEF Taken
<1>3. ASSUME NEW i \in 1 .. Len(todo') PROVE todo'[i] = Steps[Taken' + i]
    <2>1. Taken' + i = i
        BY <1>2
    <2> QED BY <2>1
<1> QED BY <1>2, <1>3

\* The step in hand is one of Steps, and root is none.
LEMMA StepInHand ==
    ASSUME todo \in Seq(All), Taken > 0
    PROVE  Taken \in 1 .. Len(Steps) /\ Steps[Taken] # Root
<1>1. Len(todo) \in Nat /\ Len(Steps) \in Nat
    BY StepsAreApps
<1>2. Taken \in 1 .. Len(Steps)
    BY <1>1 DEF Taken
<1> HIDE DEF Taken
<1> QED BY <1>2, StepsAreApps

LEMMA GateStep == TypeOK /\ GateInv /\ [Next]_vars => GateInv'
<1> SUFFICES ASSUME TypeOK, GateInv, [Next]_vars PROVE GateInv'
    OBVIOUS
<1>0. /\ Steps \in Seq(All) /\ DOMAIN Steps = 1 .. Len(Steps) /\ Len(Steps) \in Nat
      /\ Len(todo) \in Nat
    BY StepsAreApps DEF TypeOK
<1>a. \A g \in Gated : \E i \in 1 .. Len(Steps) : Steps[i] = g
    BY <1>0, RolesAssumption DEF InSeq
<1> USE <1>0 DEF GateInv, StepsInv, Taken, Syncing, loop, history, cli, Goto, Leave
<1>1. CASE StartRun
    BY <1>1 DEF StartRun
<1>2. CASE NextApp
    <2>1. /\ Head(todo) = todo[1] /\ Len(todo) \in Nat \ {0}
          /\ Len(Tail(todo)) = Len(todo) - 1
          /\ \A i \in 1 .. Len(Tail(todo)) : Tail(todo)[i] = todo[i + 1]
        BY <1>2, HeadAndTail DEF NextApp, TypeOK
    <2>2. CASE stage = "steps"
        <3>1. Taken' = Taken + 1 /\ Taken' \in 1 .. Len(Steps) /\ Steps[Taken'] = Head(todo)
            BY <1>2, <2>1, <2>2 DEF NextApp
        <3>2. \A i \in 1 .. Len(todo') : todo'[i] = Steps[Taken' + i]
            <4> SUFFICES ASSUME NEW i \in 1 .. Len(todo') PROVE todo'[i] = Steps[Taken' + i]
                OBVIOUS
            <4>1. todo' = Tail(todo) /\ i + 1 \in 1 .. Len(todo) /\ pc = "next"
                BY <1>2, <2>1 DEF NextApp
            <4>2. todo'[i] = todo[i + 1] /\ todo[i + 1] = Steps[Taken + (i + 1)]
                BY <2>1, <2>2, <4>1
            <4>3. Taken \in Nat
                BY <2>2, <4>1
            <4> HIDE DEF Taken
            <4>4. Taken + (i + 1) = Taken' + i
                BY <3>1, <4>3
            <4> QED BY <4>2, <4>4
        <3>3. \A i \in 1 .. Taken : Steps[i] \in Gated \cap listed => Steps[i] \in passed
            BY <1>2, <2>2 DEF NextApp
        <3>4. /\ pc' \in {"next", "check"} /\ UNCHANGED <<stage, listed, passed>>
              /\ pc' = "next" => Head(todo) \notin listed
              /\ pc' = "check" => cur' = Head(todo)
            BY <1>2, <2>2 DEF NextApp, Skipped
        <3>5. Taken \in Nat
            BY <1>2, <2>2 DEF NextApp
        <3> HIDE DEF Taken
        <3>6. \A i \in 1 .. Taken' : i \in 1 .. Taken \/ i = Taken'
            BY <3>1, <3>5
        <3>7. \A i \in 1 .. Taken' : Steps[i] \in Gated \cap listed' =>
                  Steps[i] \in passed' \/ (i = Taken' /\ pc' # "next")
            BY <3>1, <3>3, <3>4, <3>6
        <3> QED BY <2>2, <3>1, <3>2, <3>4, <3>7
    <2> QED BY <1>2, <2>2 DEF NextApp
<1>3. CASE EndOfLoop
    <2>1. CASE stage = "steps"
        <3>1. Len(todo) = 0 /\ Taken = Len(Steps)
            BY <1>3 DEF EndOfLoop
        <3>2. \A i \in 1 .. Len(Steps) : Steps[i] \in Gated \cap listed => Steps[i] \in passed
            BY <1>3, <2>1, <3>1 DEF EndOfLoop
        <3> QED BY <1>3, <1>a, <2>1, <3>2 DEF EndOfLoop
    <2> QED BY <1>3, <2>1 DEF EndOfLoop, TypeOK
<1>4. CASE ListApps
    <2>1. \/ pc' = "idle"
          \/ pc' = "next" /\ stage' = "steps" /\ todo' = Steps
        BY <1>4 DEF ListApps
    <2>2. CASE pc' = "next" /\ stage' = "steps" /\ todo' = Steps
        <3>1. Taken' = 0 /\ \A i \in 1 .. Len(todo') : todo'[i] = Steps[Taken' + i]
            BY <2>2, AtTheStart
        <3> HIDE DEF Taken
        <3>3. 1 .. Taken' = {}
            BY <3>1
        <3> QED BY <2>2, <3>1, <3>3
    <2> QED BY <2>1, <2>2
<1>5. CASE Look
    BY <1>5 DEF Look
<1>6. CASE LookFails \/ SyncUnavailable \/ SyncRepoFails \/ SyncRefused
    BY <1>6 DEF LookFails, SyncUnavailable, SyncRepoFails, SyncRefused, Reconnect
<1>7. CASE SyncStarts
    <2>1. pc = "sync" /\ (stage = "steps" => Taken > 0 /\ cur = Steps[Taken])
        BY <1>7 DEF SyncStarts
    <2>2. stage = "steps" => cur # Root
        <3> HIDE DEF Taken
        <3> QED BY <2>1, StepInHand DEF TypeOK
    <2> QED BY <1>7, <2>2 DEF SyncStarts
<1>8. CASE ChildrenDone \/ ChildrenQueryFails \/ ChildrenTimeout
    BY <1>8 DEF ChildrenDone, ChildrenQueryFails, ChildrenTimeout, Reconnect
<1>9. CASE GatePasses \/ GateFails \/ Crash
    BY <1>9 DEF GatePasses, GateFails, Crash
<1>10. CASE ~StartRun /\ ~RunStep /\ ~SyncRefused /\ ~Crash
    BY <1>10, Aside
<1> QED BY <1>1, <1>2, <1>3, <1>4, <1>5, <1>6, <1>7, <1>8, <1>9, <1>10 DEF RunStep

-----------------------------------------------------------------------------
(* What has been found in sync.                                            *)

LEMMA SeenStep == TypeOK /\ SeenInv /\ GateInv /\ [Next]_vars => SeenInv'
<1> SUFFICES ASSUME TypeOK, SeenInv, GateInv, [Next]_vars PROVE SeenInv'
    OBVIOUS
<1> USE DEF SeenInv, Syncing, loop, history, cli, Goto, Leave
<1>1. CASE StartRun
    BY <1>1 DEF StartRun
<1>2. CASE NextApp
    <2>1. InSeq(todo) = {Head(todo)} \cup InSeq(todo')
        BY <1>2, HeadAndTail DEF NextApp, TypeOK
    <2> QED BY <1>2, <2>1 DEF NextApp, Skipped
<1>3. CASE EndOfLoop
    <2>1. InSeq(todo) = {}
        BY <1>3 DEF EndOfLoop, InSeq
    <2>2. InSeq(SetToSeq(listed \ InSeq(Steps))) = listed \ InSeq(Steps)
        BY Listing DEF TypeOK
    <2> QED BY <1>3, <2>1, <2>2 DEF EndOfLoop, TypeOK
<1>4. CASE ListApps
    BY <1>4 DEF ListApps
<1>5. CASE Look
    BY <1>5 DEF Look, ReportsSynced
<1>6. CASE LookFails \/ SyncUnavailable \/ SyncRepoFails \/ SyncRefused \/ SyncStarts
    BY <1>6 DEF LookFails, SyncUnavailable, SyncRepoFails, SyncRefused, SyncStarts, Reconnect
<1>7. CASE ChildrenDone
    BY <1>7 DEF ChildrenDone
<1>8. CASE ChildrenQueryFails \/ ChildrenTimeout \/ GatePasses \/ GateFails \/ Crash
    BY <1>8 DEF ChildrenQueryFails, ChildrenTimeout, GatePasses, GateFails, Crash, Reconnect
<1>9. CASE ~StartRun /\ ~RunStep /\ ~SyncRefused /\ ~Crash
    BY <1>9, Aside
<1> QED BY <1>1, <1>2, <1>3, <1>4, <1>5, <1>6, <1>7, <1>8, <1>9 DEF RunStep

-----------------------------------------------------------------------------
(* Theorems.                                                               *)

ArgoInv == RootInv /\ SeenInv /\ GateInv

LEMMA Invariance == Spec => [](TypeOK /\ ArgoInv)
<1>1. ASSUME Init PROVE TypeOK /\ ArgoInv
    <2>1. /\ pc = "idle" /\ stage = "early" /\ wanted = {}
        BY <1>1 DEF Init
    <2>2. RootInv /\ SeenInv /\ GateInv
        BY <2>1 DEF RootInv, SeenInv, GateInv, StepsInv, Syncing
    <2> QED BY <1>1, <2>2, TypeInit DEF ArgoInv
<1>2. TypeOK /\ ArgoInv /\ [Next]_vars => (TypeOK /\ ArgoInv)'
    BY TypeStep, RootStep, SeenStep, GateStep DEF ArgoInv
<1> QED BY <1>1, <1>2, PTL DEF Spec

\* Every variable keeps its type.
THEOREM TypeCorrect == Spec => []TypeOK
BY Invariance, PTL

\* No App is touched before the gates ordered ahead of it have been passed, for
\* every step the branch declared when the run began (syncAllArgoCDApps).
THEOREM GatesAlwaysFirst == Spec => []GatesFirst
<1>1. ASSUME TypeOK, ArgoInv PROVE GatesFirst
    <2> SUFFICES ASSUME pc \in {"check", "sync", "recheck"}, stage # "early",
                        NEW g \in wanted \cap Gated \cap Ahead
                 PROVE  g \in passed
        BY DEF GatesFirst
    <2>1. stage \in {"steps", "rest"} /\ g \in listed
        BY <1>1 DEF ArgoInv, RootInv, TypeOK
    <2>2. CASE stage = "steps"
        <3>1. PICK j \in DOMAIN Steps, k \in DOMAIN Steps : j < k /\ Steps[k] = cur /\ Steps[j] = g
            BY <2>2 DEF Ahead, Before
        <3>2. /\ cur = Steps[Taken] /\ Taken > 0
              /\ \A i \in 1 .. Taken : Steps[i] \in Gated \cap listed =>
                     Steps[i] \in passed \/ i = Taken
            BY <1>1, <2>2 DEF ArgoInv, GateInv, StepsInv
        <3>3. Taken \in 1 .. Len(Steps) /\ DOMAIN Steps = 1 .. Len(Steps) /\ Len(Steps) \in Nat
            BY <1>1, <3>2, StepInHand, StepsAreApps DEF TypeOK
        <3> HIDE DEF Taken
        <3>4. k = Taken
            BY <3>1, <3>2, <3>3, OrderAssumption
        <3>5. j \in 1 .. Taken /\ j # Taken
            BY <3>1, <3>3, <3>4
        <3> QED BY <2>1, <3>1, <3>2, <3>5
    <2>3. CASE stage = "rest"
        BY <1>1, <2>1, <2>3 DEF ArgoInv, GateInv
    <2> QED BY <2>1, <2>2, <2>3
<1> QED BY <1>1, Invariance, PTL

\* A run that returns without an error has found every App of the branch in sync
\* at some moment, Velero aside (syncAllArgoCDApps, syncArgoCDApp).
THEOREM SyncedWhenDone == Spec => []DoneMeansSynced
<1>1. ASSUME TypeOK, ArgoInv PROVE DoneMeansSynced
    <2> SUFFICES ASSUME pc = "done", NEW a \in wanted \ ByResource PROVE a \in seen
        BY DEF DoneMeansSynced
    <2>1. stage = "rest" /\ InSeq(todo) = {}
        BY <1>1 DEF ArgoInv, SeenInv, InSeq
    <2>2. a \in listed
        BY <1>1, <2>1 DEF ArgoInv, RootInv
    <2> QED BY <1>1, <2>1, <2>2 DEF ArgoInv, SeenInv, Syncing
<1> QED BY <1>1, Invariance, PTL
=============================================================================
