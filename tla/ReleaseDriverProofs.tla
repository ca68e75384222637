------------------------ MODULE ReleaseDriverProofs ------------------------
(***************************************************************************)
(* Proofs about ReleaseDriver: for any number of faults, crashes and other *)
(* merges, the journal runs ahead of every effect, only the authorized     *)
(* merge is built, and the verdict of a run is what happened to master.    *)
(* The inductive invariant DriverInv relates the step and the label to the *)
(* journal, the worktrees and GitHub.  Its parts take those as parameters, *)
(* so that what a command did is judged apart from where control goes      *)
(* next: Facts is shown for the new state under the old step, and the      *)
(* lemmas on Continue, Accepted and Reject carry it over.                  *)
(***************************************************************************)
EXTENDS ReleaseDriver, TLAPS

-----------------------------------------------------------------------------
(* Shapes, with revisions of any height.                                   *)
Journals ==
    [releasePreparationRequested : BOOLEAN, releaseWorktreePrepared : BOOLEAN, releaseCommit : BOOLEAN,
     releasePushRequested : BOOLEAN, releasePushed : BOOLEAN, pullRequestRequested : BOOLEAN,
     pullRequestUrl : BOOLEAN, mergeRequested : BOOLEAN, mergedRevision : Nat,
     buildWorktreeRequested : BOOLEAN, buildManifestHash : BOOLEAN, rollbackPreparationRequested : BOOLEAN,
     rollbackBaseRevision : Nat, rollbackCommit : BOOLEAN, rollbackPushRequested : BOOLEAN,
     rollbackPushed : BOOLEAN, rollbackPullRequestRequested : BOOLEAN, rollbackPullRequestUrl : BOOLEAN,
     rollbackMergeRequested : BOOLEAN, rollbackMergedRevision : Nat, cleaned : BOOLEAN]

Trees == [release : {"none", "added", "staged", "committed"}, branch : BOOLEAN,
          build : BOOLEAN, revert : {"none", "added", "committed"}, revertBranch : BOOLEAN]

Requests == [state : {"none", "open", "closed", "merged"}, base : Nat]

Hubs == [height : Nat, merged : Nat, reverted : Nat, branch : BOOLEAN, revertBranch : BOOLEAN,
         pr : Requests, revertPr : Requests]

Shape(j, t, h) == j \in Journals /\ t \in Trees /\ h \in Hubs

-----------------------------------------------------------------------------
(* The labels of a step, and the steps by their place in the plan.         *)
ScopeLabels == {"scope", "add", "apply", "staged", "prepared"}
ReleaseLabels ==
    {"release", "base", "commit", "releaseCommit", "head", "pushing", "push", "pushed", "find", "create",
     "url", "revisions", "merging", "merge", "fetch", "mergedRevision"}
RollbackLabels ==
    {"recover", "mergedLate", "close", "delete", "prepare", "addRevert", "revert", "rollbackCommit",
     "revertPushing", "revertPush", "revertPushed", "revertFind", "revertCreate", "revertUrl",
     "revertRevisions", "revertMerging", "revertMerge", "reverted", "revertedRevision"}
CleanupLabels == {"worktrees", "revertWorktree", "releaseWorktree", "branches", "cleaned"}

Validation == {"validate-scope", "validate-change", "verify-layout-review", "verify-affected-playwright"}
AfterMerge == {"build-merged-master", "capture-production", "deploy-both-hosts", "verify-production"}
Rollback == {"rollback-git", "verify-git-rollback", "rollback-production"}

LabelsOf(s) ==
    CASE s = "validate-scope" -> ScopeLabels
      [] s \in {"validate-change", "verify-layout-review", "verify-affected-playwright"} -> {"check"}
      [] s = "create-merge-pr" -> ScopeLabels \cup ReleaseLabels
      [] s = "build-merged-master" -> {"worktree", "addBuild", "build", "manifest"}
      [] s = "rollback-git" -> RollbackLabels
      [] s = "verify-git-rollback" -> {"verify"}
      [] s = "cleanup-release" -> CleanupLabels \cup {"ended"}
      [] OTHER -> {"production"}

Clean(t) == t.release = "none" /\ t.revert = "none" /\ ~t.build /\ ~t.branch /\ ~t.revertBranch

Control ==
    /\ step \in Steps /\ pc \in LabelsOf(step) /\ outcome \in Verdicts
    /\ step \in Validation \cup {"create-merge-pr"} \cup AfterMerge => outcome = "accepted"
    /\ step \in Rollback => outcome # "accepted"
    /\ verdict = IF pc = "ended" THEN outcome ELSE "running"
    /\ pc = "ended" /\ outcome # "abnormal" => Clean(tree)

-----------------------------------------------------------------------------
(* What holds of the journal, the worktrees and GitHub in every step.      *)
Ahead(j, t, h) ==
    /\ t.branch => j.releasePreparationRequested
    /\ t.build => j.buildWorktreeRequested
    /\ t.revertBranch => j.rollbackPreparationRequested
    /\ h.branch => j.releasePushRequested
    /\ h.pr.state # "none" => j.pullRequestRequested
    /\ h.merged # 0 => j.mergeRequested
    /\ h.revertBranch => j.rollbackPushRequested
    /\ h.revertPr.state # "none" => j.rollbackPullRequestRequested
    /\ h.reverted # 0 => j.rollbackMergeRequested

\* What the journal records happened, and as authorized; a merge ends its pull request.
Recorded(j, t, h) ==
    /\ h.pr.state = "open" => h.branch
    /\ h.merged # 0 => h.pr.state = "merged" /\ j.pullRequestUrl
    /\ j.mergedRevision # 0 => h.merged = Base + 1 /\ j.mergedRevision = h.merged
    /\ j.rollbackMergedRevision # 0 => h.reverted # 0
    /\ t.build => j.mergedRevision # 0

(* What the step tells of them.                                            *)
Withdrawn(h) == h.pr.state # "open" /\ (h.branch => h.reverted # 0) /\ (h.merged # 0 => h.reverted # 0)

Phase(s, o, j, h, p) ==
    /\ s \in Validation => h.pr.state = "none" /\ ~h.branch /\ h.merged = 0
    /\ s \in Validation \cup {"create-merge-pr"} => j.mergedRevision = 0
    /\ s \in AfterMerge \cup {"rollback-production"} => j.mergedRevision # 0
    /\ s \notin {"rollback-git", "verify-git-rollback", "cleanup-release"} => h.reverted = 0
    /\ s = "cleanup-release" /\ o = "accepted" => j.mergedRevision # 0 /\ h.reverted = 0
    /\ s = "cleanup-release" /\ o = "rejected" /\ ~p => Withdrawn(h)

Facts(s, o, j, t, h, p) ==
    Shape(j, t, h) /\ Ahead(j, t, h) /\ Recorded(j, t, h) /\ Phase(s, o, j, h, p) /\ p \in BOOLEAN

(* What the label tells: which record the command follows, and how far the *)
(* cleanup has come.                                                       *)
Announced(l, j, h) ==
    /\ l = "add" => j.releasePreparationRequested
    /\ l = "push" => j.releasePushRequested
    /\ l = "create" => j.pullRequestRequested /\ ~j.pullRequestUrl
    /\ l \in {"revisions", "merging", "merge"} => j.pullRequestUrl
    /\ l = "merge" => j.mergeRequested
    /\ l = "mergedRevision" => h.pr.state = "merged" /\ h.merged = Base + 1
    /\ l = "addBuild" => j.buildWorktreeRequested /\ j.mergedRevision # 0
    /\ l = "addRevert" => j.rollbackPreparationRequested
    /\ l = "revertPush" => j.rollbackPushRequested
    /\ l = "revertCreate" => j.rollbackPullRequestRequested
    /\ l = "revertMerge" => j.rollbackMergeRequested

Swept(l, t) ==
    /\ l \in CleanupLabels \ {"worktrees"} => ~t.build
    /\ l \in {"releaseWorktree", "branches", "cleaned"} => t.revert = "none"
    /\ l \in {"branches", "cleaned"} => t.release = "none"
    /\ l = "cleaned" => Clean(t)

DriverInv ==
    /\ Control
    /\ Facts(step, outcome, journal, tree, hub, published)
    /\ Announced(pc, journal, hub)
    /\ Swept(pc, tree)

-----------------------------------------------------------------------------
(* Where control goes next.                                                *)
LEMMA ContinueKeeps ==
  ASSUME Control, pc # "ended", NEW l \in LabelsOf(step) \ {"ended"}, Continue(l),
         Facts(step, outcome, journal', tree', hub', published'),
         Announced(l, journal', hub'), Swept(l, tree')
  PROVE  DriverInv'
  BY DEF DriverInv, Control, Continue

\* A label a step begins with follows no record.
LEMMA EntryIsPlain ==
  ASSUME NEW s \in Steps, NEW j, NEW t, NEW h
  PROVE  /\ Entry(s) \in LabelsOf(s) \ {"ended"}
         /\ Announced(Entry(s), j, h) /\ Swept(Entry(s), t)
  BY DEF Steps, Entry, LabelsOf, Announced, Swept, ScopeLabels, ReleaseLabels, RollbackLabels, CleanupLabels

LEMMA BeginKeeps ==
  ASSUME NEW s \in Steps, Begin(s), outcome' \in Verdicts, verdict' = "running",
         s \in Validation \cup {"create-merge-pr"} \cup AfterMerge => outcome' = "accepted",
         s \in Rollback => outcome' # "accepted",
         Facts(s, outcome', journal', tree', hub', published')
  PROVE  DriverInv'
<1>1. Entry(s) \in LabelsOf(s) /\ Entry(s) # "ended"
  BY EntryIsPlain
<1>2. Announced(Entry(s), journal', hub') /\ Swept(Entry(s), tree')
  BY EntryIsPlain
<1>3. step' = s /\ pc' = Entry(s)
  BY DEF Begin
<1>4. Control'
  BY <1>1, <1>3 DEF Control
<1>5. QED
  BY <1>2, <1>3, <1>4 DEF DriverInv

LEMMA RejectKeeps ==
  ASSUME Control, pc # "ended", Reject, Facts(step, outcome, journal', tree', hub', published')
  PROVE  DriverInv'
<1>1. CASE step = "cleanup-release"
  <2>1. step' = step /\ pc' = "ended" /\ verdict' = "abnormal" /\ outcome' = "abnormal"
    BY <1>1 DEF Reject
  <2>2. Control'
    BY <1>1, <2>1 DEF Control, LabelsOf, Verdicts, Validation, AfterMerge, Rollback
  <2>3. Facts(step, outcome', journal', tree', hub', published')
    BY <1>1, <2>1 DEF Facts, Phase, Validation, AfterMerge
  <2>4. Announced("ended", journal', hub') /\ Swept("ended", tree')
    BY DEF Announced, Swept, CleanupLabels
  <2>5. QED
    BY <2>1, <2>2, <2>3, <2>4 DEF DriverInv
<1>2. CASE step # "cleanup-release"
  <2> DEFINE s == Failure(step)
  <2>1. /\ Begin(s) /\ verdict' = verdict
        /\ outcome' = IF step \in RollbackOnly THEN "abnormal"
                      ELSE IF outcome = "accepted" THEN "rejected" ELSE outcome
    BY <1>2 DEF Reject
  <2>2. s \in Steps \ (Validation \cup {"create-merge-pr"} \cup AfterMerge)
    BY DEF Failure, Control, Steps, Validation, AfterMerge
  <2>3. verdict' = "running" /\ outcome' \in Verdicts \ {"accepted"}
    BY <2>1 DEF Control, Verdicts
  <2>4. Phase(s, outcome', journal', hub', published')
    <3>1. Phase(step, outcome, journal', hub', published')
      BY DEF Facts
    <3>2. CASE step \in Validation
      <4>1. s = "cleanup-release"
        BY <3>2 DEF Failure, Validation
      <4>2. QED
        BY <3>1, <3>2, <4>1, <2>3 DEF Phase, Withdrawn, Validation, AfterMerge
    <3>3. CASE step \in {"create-merge-pr", "build-merged-master", "capture-production"}
      <4>1. s = "rollback-git"
        BY <3>3 DEF Failure
      <4>2. QED
        BY <4>1 DEF Phase, Validation, AfterMerge
    <3>4. CASE step \in {"deploy-both-hosts", "verify-production"}
      <4>1. s = "rollback-production"
        BY <3>4 DEF Failure
      <4>2. QED
        BY <3>1, <3>4, <4>1 DEF Phase, Validation, AfterMerge
    <3>5. CASE step \in RollbackOnly
      <4>1. s = "cleanup-release" /\ outcome' = "abnormal"
        BY <3>5, <2>1 DEF Failure, RollbackOnly
      <4>2. QED
        BY <4>1 DEF Phase, Validation, AfterMerge
    <3>6. QED
      BY <1>2, <3>2, <3>3, <3>4, <3>5 DEF Control, Steps, Validation, RollbackOnly
  <2>5. Facts(s, outcome', journal', tree', hub', published')
    BY <2>4 DEF Facts
  <2> HIDE DEF s
  <2>6. QED
    BY <2>1, <2>2, <2>3, <2>5, BeginKeeps
<1>3. QED
  BY <1>1, <1>2

LEMMA AcceptedKeeps ==
  ASSUME Control, pc # "ended", Accepted, Facts(step, outcome, journal', tree', hub', published'),
         step = "create-merge-pr" => journal'.mergedRevision # 0,
         step = "verify-git-rollback" => Withdrawn(hub'),
         step = "rollback-production" => published',
         step = "cleanup-release" => Clean(tree')
  PROVE  DriverInv'
<1>1. CASE step = "cleanup-release"
  <2>1. step' = step /\ pc' = "ended" /\ verdict' = outcome /\ outcome' = outcome
    BY <1>1 DEF Accepted
  <2>2. Control'
    BY <1>1, <2>1 DEF Control, LabelsOf, Validation, AfterMerge, Rollback
  <2>3. Announced("ended", journal', hub') /\ Swept("ended", tree')
    BY DEF Announced, Swept, CleanupLabels
  <2>4. QED
    BY <2>1, <2>2, <2>3 DEF DriverInv
<1>2. CASE step # "cleanup-release"
  <2> DEFINE s == Following(step)
  <2>1. Begin(s) /\ verdict' = "running" /\ outcome' = outcome /\ outcome \in Verdicts
    BY <1>2 DEF Accepted, Control
  <2>2. s \in Steps
    BY DriverConstants DEF Following, Steps
  <2>3. /\ s \in Validation \cup {"create-merge-pr"} \cup AfterMerge => outcome = "accepted"
        /\ s \in Rollback => outcome # "accepted"
    BY <1>2, DriverConstants DEF Following, Control, Steps, Validation, AfterMerge, Rollback
  <2>4. Phase(s, outcome, journal', hub', published')
    <3>1. Phase(step, outcome, journal', hub', published')
      BY DEF Facts
    <3>2. CASE step \in Validation
      <4>1. s \in Validation \cup {"create-merge-pr"}
        BY <3>2, DriverConstants DEF Following, Validation
      <4>2. QED
        BY <3>1, <3>2, <4>1 DEF Phase, Validation, AfterMerge
    <3>3. CASE step \in {"create-merge-pr"} \cup AfterMerge
      <4>1. s \in AfterMerge \cup {"cleanup-release"} /\ outcome = "accepted"
        BY <3>3, DriverConstants DEF Following, AfterMerge, Control
      <4>2. QED
        BY <3>1, <3>3, <4>1 DEF Phase, Validation, AfterMerge
    <3>4. CASE step = "rollback-git"
      BY <3>4 DEF Following, Phase, Validation, AfterMerge
    <3>5. CASE step \in {"verify-git-rollback", "rollback-production"}
      <4>1. s = "cleanup-release" /\ outcome # "accepted"
        BY <3>5 DEF Following, Control, Rollback
      <4>2. QED
        BY <3>5, <4>1 DEF Phase, Validation, AfterMerge
    <3>6. QED
      BY <1>2, <3>2, <3>3, <3>4, <3>5 DEF Control, Steps, Validation, AfterMerge
  <2>5. Facts(s, outcome', journal', tree', hub', published')
    BY <2>1, <2>4 DEF Facts
  <2> HIDE DEF s
  <2>6. QED
    BY <2>1, <2>2, <2>3, <2>5, BeginKeeps
<1>3. QED
  BY <1>1, <1>2

-----------------------------------------------------------------------------
(* The step a label belongs to.                                            *)
LEMMA Where ==
  ASSUME Control
  PROVE  /\ step \in Steps
         /\ pc \in ScopeLabels => step \in {"validate-scope", "create-merge-pr"}
         /\ pc = "check" => step \in Validation
         /\ pc \in ReleaseLabels => step = "create-merge-pr"
         /\ pc \in {"worktree", "addBuild", "build", "manifest"} => step = "build-merged-master"
         /\ pc = "production" => step \in (AfterMerge \ {"build-merged-master"}) \cup {"rollback-production"}
         /\ pc \in RollbackLabels => step = "rollback-git"
         /\ pc = "verify" => step = "verify-git-rollback"
         /\ pc \in CleanupLabels => step = "cleanup-release"
  BY DEF Control, LabelsOf, Steps, ScopeLabels, ReleaseLabels, RollbackLabels, CleanupLabels, Validation,
         AfterMerge

\* Labels at which nothing is announced and nothing swept.
Announcing == {"add", "push", "create", "revisions", "merging", "merge", "mergedRevision", "addBuild",
               "addRevert", "revertPush", "revertCreate", "revertMerge"}
Sweeping == {"revertWorktree", "releaseWorktree", "branches", "cleaned"}

LEMMA PlainLabels ==
  ASSUME NEW j, NEW t, NEW h, NEW l
  PROVE  /\ l \notin Announcing => Announced(l, j, h)
         /\ l \notin Sweeping => Swept(l, t)
  BY DEF Announcing, Sweeping, Announced, Swept, CleanupLabels

\* Most actions go on at one label or reject the step.
LEMMA GoesOn ==
  ASSUME DriverInv, pc # "ended", NEW l \in LabelsOf(step) \ {"ended"}, Continue(l) \/ Reject,
         Facts(step, outcome, journal', tree', hub', published'),
         Continue(l) => Announced(l, journal', hub') /\ Swept(l, tree')
  PROVE  DriverInv'
<1>1. Control
  BY DEF DriverInv
<1>2. CASE Continue(l)
  BY <1>1, <1>2, ContinueKeeps
<1>3. CASE Reject
  BY <1>1, <1>3, RejectKeeps
<1>4. QED
  BY <1>2, <1>3

LEMMA SameFacts ==
  ASSUME DriverInv, UNCHANGED <<journal, tree, hub, published>>
  PROVE  Facts(step, outcome, journal', tree', hub', published')
  BY DEF DriverInv

\* A flag that is set takes back nothing that was announced.
Flags == {"releasePreparationRequested", "releaseWorktreePrepared", "releaseCommit", "releasePushRequested",
          "releasePushed", "pullRequestRequested", "pullRequestUrl", "mergeRequested",
          "buildWorktreeRequested", "buildManifestHash", "rollbackPreparationRequested",
          "rollbackCommit", "rollbackPushRequested", "rollbackPushed",
          "rollbackPullRequestRequested", "rollbackPullRequestUrl", "rollbackMergeRequested", "cleaned"}

LEMMA FlagShape ==
  ASSUME NEW j \in Journals, NEW f \in Flags
  PROVE  [j EXCEPT ![f] = TRUE] \in Journals
  BY DEF Journals, Flags

LEMMA FlagFacts ==
  ASSUME DriverInv, NEW f \in Flags, journal' = [journal EXCEPT ![f] = TRUE],
         UNCHANGED <<tree, hub, published>>
  PROVE  Facts(step, outcome, journal', tree', hub', published')
<1>1. Facts(step, outcome, journal, tree, hub, published)
  BY DEF DriverInv
<1>2. journal \in Journals
  BY <1>1 DEF Facts, Shape
<1>3. journal' \in Journals
  BY <1>2, FlagShape
<1>4. \A g \in Flags : journal[g] => journal'[g]
  BY <1>2 DEF Journals, Flags
<1>5. /\ journal'.mergedRevision = journal.mergedRevision
      /\ journal'.rollbackMergedRevision = journal.rollbackMergedRevision
  BY <1>2 DEF Journals, Flags
<1>6. Shape(journal', tree', hub')
  BY <1>1, <1>3 DEF Facts, Shape
<1>7. Ahead(journal', tree', hub')
  BY <1>1, <1>4 DEF Facts, Ahead, Flags
<1>8. Recorded(journal', tree', hub')
  BY <1>1, <1>4, <1>5 DEF Facts, Recorded, Flags
<1>9. Phase(step, outcome, journal', hub', published')
  BY <1>1, <1>5 DEF Facts, Phase
<1>10. QED
  BY <1>1, <1>6, <1>7, <1>8, <1>9 DEF Facts

-----------------------------------------------------------------------------
(* validateScope.                                                          *)
LEMMA ScopeLabelsHere ==
  ASSUME Control, pc \in ScopeLabels
  PROVE  step \in {"validate-scope", "create-merge-pr"} /\ ScopeLabels \subseteq LabelsOf(step) \ {"ended"}
  BY Where DEF LabelsOf, ScopeLabels

LEMMA ScopeKeeps == ASSUME DriverInv, Scope PROVE DriverInv'
<1>1. Control /\ pc = "scope" /\ pc \in ScopeLabels
  BY DEF DriverInv, Scope, ScopeLabels
<1>2. "staged" \in LabelsOf(step) \ {"ended"} /\ "add" \in LabelsOf(step) \ {"ended"}
  BY <1>1, ScopeLabelsHere DEF ScopeLabels
<1>3. UNCHANGED <<tree, hub, published>>
  BY DEF Scope
<1>4. CASE (Continue("staged") \/ Reject) /\ UNCHANGED journal
  <2>1. Facts(step, outcome, journal', tree', hub', published')
    BY <1>3, <1>4, SameFacts
  <2>2. Announced("staged", journal', hub') /\ Swept("staged", tree')
    BY PlainLabels DEF Announcing, Sweeping
  <2>3. QED
    BY <1>1, <1>2, <1>4, <2>1, <2>2, GoesOn
<1>5. CASE journal' = [journal EXCEPT !.releasePreparationRequested = TRUE] /\ Continue("add")
  <2>1. Facts(step, outcome, journal', tree', hub', published')
    BY <1>3, <1>5, FlagFacts DEF Flags
  <2>2. journal'.releasePreparationRequested
    BY <1>5 DEF DriverInv, Facts, Shape, Journals
  <2>3. Announced("add", journal', hub') /\ Swept("add", tree')
    BY <2>2, PlainLabels DEF Announced, Sweeping
  <2>4. QED
    BY <1>1, <1>2, <1>5, <2>1, <2>3, GoesOn
<1>6. QED
  BY <1>4, <1>5 DEF Scope

\* The release worktree and its branch are announced, and the step has touched nothing else.
LEMMA ReleaseTreeFacts ==
  ASSUME DriverInv, tree' \in Trees, tree'.build = tree.build, tree'.revertBranch = tree.revertBranch,
         tree'.branch => tree.branch \/ journal.releasePreparationRequested,
         UNCHANGED <<journal, hub, published>>
  PROVE  Facts(step, outcome, journal', tree', hub', published')
  BY DEF DriverInv, Facts, Shape, Ahead, Recorded

LEMMA WorktreeAddKeeps == ASSUME DriverInv, WorktreeAdd PROVE DriverInv'
<1>1. Control /\ pc = "add" /\ pc \in ScopeLabels
  BY DEF DriverInv, WorktreeAdd, Command, ScopeLabels
<1>2. "apply" \in LabelsOf(step) \ {"ended"}
  BY <1>1, ScopeLabelsHere DEF ScopeLabels
<1>3. journal.releasePreparationRequested /\ tree \in Trees
  BY <1>1 DEF DriverInv, Announced, Facts, Shape
<1>4. Facts(step, outcome, journal', tree', hub', published')
  <2>1. tree' \in {tree, [tree EXCEPT !.release = "added", !.branch = TRUE]} /\ UNCHANGED <<journal, hub, published>>
    BY DEF WorktreeAdd, Command
  <2>2. tree' \in Trees /\ tree'.build = tree.build /\ tree'.revertBranch = tree.revertBranch
    BY <1>3, <2>1 DEF Trees
  <2>3. QED
    BY <1>3, <2>1, <2>2, ReleaseTreeFacts
<1>5. Announced("apply", journal', hub') /\ Swept("apply", tree')
  BY PlainLabels DEF Announcing, Sweeping
<1>6. Continue("apply") \/ Reject
  BY DEF WorktreeAdd, Command
<1>7. QED
  BY <1>1, <1>2, <1>4, <1>5, <1>6, GoesOn

LEMMA ApplyKeeps == ASSUME DriverInv, Apply PROVE DriverInv'
<1>1. Control /\ pc = "apply" /\ pc \in ScopeLabels
  BY DEF DriverInv, Apply, Command, ScopeLabels
<1>2. "staged" \in LabelsOf(step) \ {"ended"}
  BY <1>1, ScopeLabelsHere DEF ScopeLabels
<1>3. Facts(step, outcome, journal', tree', hub', published')
  <2>1. tree' \in {tree, [tree EXCEPT !.release = "staged"]} /\ UNCHANGED <<journal, hub, published>>
    BY DEF Apply, Command
  <2>2. /\ tree' \in Trees /\ tree'.build = tree.build /\ tree'.revertBranch = tree.revertBranch
        /\ tree'.branch = tree.branch
    BY <2>1 DEF Trees, DriverInv, Facts, Shape
  <2>3. QED
    BY <2>1, <2>2, ReleaseTreeFacts
<1>4. Announced("staged", journal', hub') /\ Swept("staged", tree')
  BY PlainLabels DEF Announcing, Sweeping
<1>5. Continue("staged") \/ Reject
  BY DEF Apply, Command
<1>6. QED
  BY <1>1, <1>2, <1>3, <1>4, <1>5, GoesOn

LEMMA StagedKeeps == ASSUME DriverInv, Staged PROVE DriverInv'
<1>1. Control /\ pc = "staged" /\ pc \in ScopeLabels
  BY DEF DriverInv, Staged, Assert, ScopeLabels
<1>2. "prepared" \in LabelsOf(step) \ {"ended"}
  BY <1>1, ScopeLabelsHere DEF ScopeLabels
<1>3. Facts(step, outcome, journal', tree', hub', published')
  BY SameFacts DEF Staged, Assert
<1>4. Announced("prepared", journal', hub') /\ Swept("prepared", tree')
  BY PlainLabels DEF Announcing, Sweeping
<1>5. Continue("prepared") \/ Reject
  BY DEF Staged, Assert
<1>6. QED
  BY <1>1, <1>2, <1>3, <1>4, <1>5, GoesOn

LEMMA PreparedKeeps == ASSUME DriverInv, Prepared PROVE DriverInv'
<1>1. Control /\ pc = "prepared" /\ pc \in ScopeLabels
  BY DEF DriverInv, Prepared, Record, ScopeLabels
<1>2. Facts(step, outcome, journal', tree', hub', published')
  BY FlagFacts DEF Prepared, Record, Flags
<1>3. CASE step = "validate-scope"
  <2>1. Accepted
    BY <1>3 DEF Prepared, Record, ScopeDone
  <2>2. QED
    BY <1>1, <1>2, <1>3, <2>1, AcceptedKeeps
<1>4. CASE step = "create-merge-pr"
  <2>1. Continue("base")
    BY <1>4 DEF Prepared, Record, ScopeDone
  <2>2. "base" \in LabelsOf(step) \ {"ended"}
    BY <1>4 DEF LabelsOf, ReleaseLabels
  <2>3. Announced("base", journal', hub') /\ Swept("base", tree')
    BY PlainLabels DEF Announcing, Sweeping
  <2>4. QED
    BY <1>1, <1>2, <2>1, <2>2, <2>3, GoesOn
<1>5. QED
  BY <1>1, <1>3, <1>4, ScopeLabelsHere

LEMMA ValidateChangeKeeps == ASSUME DriverInv, ValidateChange PROVE DriverInv'
<1>1. Control /\ pc = "check"
  BY DEF DriverInv, ValidateChange, Assert
<1>2. Facts(step, outcome, journal', tree', hub', published')
  BY SameFacts DEF ValidateChange, Assert
<1>3. step \in Validation
  BY <1>1, Where
<1>4. Accepted \/ Reject
  BY DEF ValidateChange, Assert
<1>5. QED
  BY <1>1, <1>2, <1>3, <1>4, AcceptedKeeps, RejectKeeps DEF Validation

-----------------------------------------------------------------------------
(* gitRelease.                                                             *)
LEMMA GoesOnPlain ==
  ASSUME DriverInv, pc # "ended", NEW l \in LabelsOf(step) \ ({"ended"} \cup Announcing \cup Sweeping),
         Continue(l) \/ Reject, Facts(step, outcome, journal', tree', hub', published')
  PROVE  DriverInv'
<1>1. Announced(l, journal', hub') /\ Swept(l, tree')
  BY PlainLabels
<1>2. l \in LabelsOf(step) \ {"ended"}
  OBVIOUS
<1>3. QED
  BY <1>1, <1>2, GoesOn

\* A step that only looks.
LEMMA Looks ==
  ASSUME DriverInv, pc # "ended", NEW l \in LabelsOf(step) \ ({"ended"} \cup Announcing \cup Sweeping),
         Continue(l) \/ Reject, UNCHANGED <<journal, tree, hub, published>>
  PROVE  DriverInv'
<1>1. Facts(step, outcome, journal', tree', hub', published')
  BY SameFacts
<1>2. QED
  BY <1>1, GoesOnPlain

LEMMA ReleaseLabelsHere ==
  ASSUME Control, pc \in ReleaseLabels
  PROVE  /\ step = "create-merge-pr" /\ pc # "ended"
         /\ ScopeLabels \cup ReleaseLabels \subseteq LabelsOf(step) \ {"ended"}
  BY Where DEF LabelsOf, ScopeLabels, ReleaseLabels

LEMMA ReleaseLooksKeep ==
  ASSUME DriverInv, GitRelease \/ RemoteBase \/ Head PROVE DriverInv'
<1>1. Control /\ pc \in ReleaseLabels
  BY DEF DriverInv, GitRelease, RemoteBase, Head, Record, Assert, ReleaseLabels
<1>2. UNCHANGED <<journal, tree, hub, published>>
  BY DEF GitRelease, RemoteBase, Head, Record, Assert
<1>3. PICK l \in {"base", "scope", "head", "commit", "pushing"} : Continue(l) \/ Reject
  BY DEF GitRelease, RemoteBase, Head, Record, Assert
<1>4. l \in LabelsOf(step) \ ({"ended"} \cup Announcing \cup Sweeping)
  BY <1>1, ReleaseLabelsHere DEF ScopeLabels, ReleaseLabels, Announcing, Sweeping
<1>5. QED
  BY <1>1, <1>2, <1>3, <1>4, Looks, ReleaseLabelsHere

LEMMA CommitKeeps == ASSUME DriverInv, Commit PROVE DriverInv'
<1>1. Control /\ pc \in ReleaseLabels
  BY DEF DriverInv, Commit, Command, ReleaseLabels
<1>2. Facts(step, outcome, journal', tree', hub', published')
  <2>1. tree' \in {tree, [tree EXCEPT !.release = "committed"]} /\ UNCHANGED <<journal, hub, published>>
    BY DEF Commit, Command
  <2>2. /\ tree' \in Trees /\ tree'.build = tree.build /\ tree'.revertBranch = tree.revertBranch
        /\ tree'.branch = tree.branch
    BY <2>1 DEF Trees, DriverInv, Facts, Shape
  <2>3. QED
    BY <2>1, <2>2, ReleaseTreeFacts
<1>3. "releaseCommit" \in LabelsOf(step) \ ({"ended"} \cup Announcing \cup Sweeping)
  BY <1>1, ReleaseLabelsHere DEF ReleaseLabels, Announcing, Sweeping
<1>4. Continue("releaseCommit") \/ Reject
  BY DEF Commit, Command
<1>5. QED
  BY <1>1, <1>2, <1>3, <1>4, GoesOnPlain, ReleaseLabelsHere

LEMMA ReleaseRecordsKeep ==
  ASSUME DriverInv, ReleaseCommit \/ Pushed PROVE DriverInv'
<1>1. Control /\ pc \in ReleaseLabels
  BY DEF DriverInv, ReleaseCommit, Pushed, Record, ReleaseLabels
<1>2. Facts(step, outcome, journal', tree', hub', published')
  BY FlagFacts DEF ReleaseCommit, Pushed, Record, Flags
<1>3. PICK l \in {"pushing", "find"} : Continue(l)
  BY DEF ReleaseCommit, Pushed, Record
<1>4. l \in LabelsOf(step) \ ({"ended"} \cup Announcing \cup Sweeping)
  BY <1>1, ReleaseLabelsHere DEF ReleaseLabels, Announcing, Sweeping
<1>5. QED
  BY <1>1, <1>2, <1>3, <1>4, GoesOnPlain, ReleaseLabelsHere

LEMMA PushingKeeps == ASSUME DriverInv, Pushing PROVE DriverInv'
<1>1. Control /\ pc \in ReleaseLabels /\ UNCHANGED <<tree, hub, published>>
  BY DEF DriverInv, Pushing, ReleaseLabels
<1>2. {"find", "push"} \subseteq LabelsOf(step) \ {"ended"}
  BY <1>1, ReleaseLabelsHere DEF ReleaseLabels
<1>3. CASE Continue("find") /\ UNCHANGED journal
  BY <1>1, <1>2, <1>3, Looks, ReleaseLabelsHere DEF Announcing, Sweeping
<1>4. CASE journal' = [journal EXCEPT !.releasePushRequested = TRUE] /\ Continue("push")
  <2>1. Facts(step, outcome, journal', tree', hub', published')
    BY <1>1, <1>4, FlagFacts DEF Flags
  <2>2. journal'.releasePushRequested
    BY <1>4 DEF DriverInv, Facts, Shape, Journals
  <2>3. Announced("push", journal', hub') /\ Swept("push", tree')
    BY <2>2, PlainLabels DEF Announced, Sweeping
  <2>4. QED
    BY <1>1, <1>2, <1>4, <2>1, <2>3, GoesOn, ReleaseLabelsHere
<1>5. QED
  BY <1>3, <1>4 DEF Pushing

LEMMA PushKeeps == ASSUME DriverInv, Push PROVE DriverInv'
<1>1. Control /\ pc = "push" /\ pc \in ReleaseLabels
  BY DEF DriverInv, Push, Command, ReleaseLabels
<1>2. Facts(step, outcome, journal', tree', hub', published')
  <2>1. hub' \in {hub, [hub EXCEPT !.branch = TRUE]} /\ UNCHANGED <<journal, tree, published>>
    BY DEF Push, Command
  <2>2. hub \in Hubs /\ journal.releasePushRequested
    BY <1>1 DEF DriverInv, Announced, Facts, Shape
  <2>3. /\ hub' \in Hubs /\ hub'.pr = hub.pr /\ hub'.revertPr = hub.revertPr /\ hub'.merged = hub.merged
        /\ hub'.reverted = hub.reverted /\ hub'.revertBranch = hub.revertBranch
        /\ (hub.branch => hub'.branch)
    BY <2>1, <2>2 DEF Hubs
  <2>4. step = "create-merge-pr"
    BY <1>1, ReleaseLabelsHere
  <2>5. QED
    BY <2>1, <2>2, <2>3, <2>4 DEF DriverInv, Facts, Shape, Ahead, Recorded, Phase, Validation
<1>3. "pushed" \in LabelsOf(step) \ ({"ended"} \cup Announcing \cup Sweeping)
  BY <1>1, ReleaseLabelsHere DEF ReleaseLabels, Announcing, Sweeping
<1>4. Continue("pushed") \/ Reject
  BY DEF Push, Command
<1>5. QED
  BY <1>1, <1>2, <1>3, <1>4, GoesOnPlain, ReleaseLabelsHere

LEMMA FindKeeps == ASSUME DriverInv, Find PROVE DriverInv'
<1>1. Control /\ pc \in ReleaseLabels /\ UNCHANGED <<tree, hub, published>>
  BY DEF DriverInv, Find, ReleaseLabels
<1>2. {"url", "create"} \subseteq LabelsOf(step) \ {"ended"}
  BY <1>1, ReleaseLabelsHere DEF ReleaseLabels
<1>3. CASE Continue("url") /\ UNCHANGED journal
  BY <1>1, <1>2, <1>3, Looks, ReleaseLabelsHere DEF Announcing, Sweeping
<1>4. CASE /\ ~journal.pullRequestUrl /\ Continue("create")
           /\ journal' = [journal EXCEPT !.pullRequestRequested = TRUE]
  <2>1. Facts(step, outcome, journal', tree', hub', published')
    BY <1>1, <1>4, FlagFacts DEF Flags
  <2>2. journal'.pullRequestRequested /\ ~journal'.pullRequestUrl
    BY <1>4 DEF DriverInv, Facts, Shape, Journals
  <2>3. Announced("create", journal', hub') /\ Swept("create", tree')
    BY <2>2, PlainLabels DEF Announced, Sweeping
  <2>4. QED
    BY <1>1, <1>2, <1>4, <2>1, <2>3, GoesOn, ReleaseLabelsHere
<1>5. QED
  BY <1>3, <1>4 DEF Find

\* No pull request is recorded when one is opened, so none is merged.
LEMMA CreateKeeps == ASSUME DriverInv, Create PROVE DriverInv'
<1>1. Control /\ pc = "create" /\ pc \in ReleaseLabels
  BY DEF DriverInv, Create, Command, ReleaseLabels
<1>2. Facts(step, outcome, journal', tree', hub', published')
  <2>1. /\ \/ hub' = hub
           \/ hub.branch /\ hub' = [hub EXCEPT !.pr = [state |-> "open", base |-> hub.height]]
        /\ UNCHANGED <<journal, tree, published>>
    BY DEF Create, Command
  <2>2. CASE hub' = hub
    BY <2>1, <2>2, SameFacts
  <2>3. CASE hub.branch /\ hub' = [hub EXCEPT !.pr = [state |-> "open", base |-> hub.height]]
    <3>1. hub \in Hubs /\ journal.pullRequestRequested /\ ~journal.pullRequestUrl
      BY <1>1 DEF DriverInv, Announced, Facts, Shape
    <3>2. /\ hub' \in Hubs /\ hub'.pr.state = "open" /\ hub'.revertPr = hub.revertPr
          /\ hub'.merged = hub.merged /\ hub'.reverted = hub.reverted
          /\ hub'.branch = hub.branch /\ hub'.revertBranch = hub.revertBranch
      BY <2>3, <3>1 DEF Hubs, Requests
    <3>3. hub.merged = 0
      BY <3>1 DEF DriverInv, Facts, Recorded
    <3>4. step = "create-merge-pr"
      BY <1>1, ReleaseLabelsHere
    <3>5. QED
      BY <2>1, <2>3, <3>1, <3>2, <3>3, <3>4 DEF DriverInv, Facts, Shape, Ahead, Recorded, Phase, Validation
  <2>4. QED
    BY <2>1, <2>2, <2>3
<1>3. "url" \in LabelsOf(step) \ ({"ended"} \cup Announcing \cup Sweeping)
  BY <1>1, ReleaseLabelsHere DEF ReleaseLabels, Announcing, Sweeping
<1>4. Continue("url") \/ Reject
  BY DEF Create, Command
<1>5. QED
  BY <1>1, <1>2, <1>3, <1>4, GoesOnPlain, ReleaseLabelsHere

LEMMA UrlKeeps == ASSUME DriverInv, Url PROVE DriverInv'
<1>1. Control /\ pc \in ReleaseLabels /\ UNCHANGED <<tree, hub, published>> /\ Continue("revisions")
  BY DEF DriverInv, Url, Record, ReleaseLabels
<1>2. journal' = [journal EXCEPT !.pullRequestUrl = TRUE]
  BY DEF Url, Record
<1>3. Facts(step, outcome, journal', tree', hub', published')
  BY <1>1, <1>2, FlagFacts DEF Flags
<1>4. journal'.pullRequestUrl
  BY <1>2 DEF DriverInv, Facts, Shape, Journals
<1>5. Announced("revisions", journal', hub') /\ Swept("revisions", tree')
  BY <1>4, PlainLabels DEF Announced, Sweeping
<1>6. "revisions" \in LabelsOf(step) \ {"ended"}
  BY <1>1, ReleaseLabelsHere DEF ReleaseLabels
<1>7. QED
  BY <1>1, <1>3, <1>5, <1>6, GoesOn, ReleaseLabelsHere

LEMMA RevisionsKeeps == ASSUME DriverInv, Revisions PROVE DriverInv'
<1>1. Control /\ pc = "revisions" /\ pc \in ReleaseLabels /\ UNCHANGED <<journal, tree, hub, published>>
  BY DEF DriverInv, Revisions, Assert, ReleaseLabels
<1>2. PICK l \in {"fetch", "merging"} : Continue(l) \/ Reject
  BY DEF Revisions, Assert
<1>3. l \in LabelsOf(step) \ {"ended"}
  BY <1>1, ReleaseLabelsHere DEF ReleaseLabels
<1>4. journal'.pullRequestUrl
  BY <1>1 DEF DriverInv, Announced
<1>5. Announced(l, journal', hub') /\ Swept(l, tree')
  BY <1>4, PlainLabels DEF Announced, Sweeping
<1>6. QED
  BY <1>1, <1>2, <1>3, <1>5, SameFacts, GoesOn, ReleaseLabelsHere

LEMMA MergingKeeps == ASSUME DriverInv, Merging PROVE DriverInv'
<1>1. /\ Control /\ pc = "merging" /\ pc \in ReleaseLabels
      /\ UNCHANGED <<tree, hub, published>> /\ Continue("merge")
  BY DEF DriverInv, Merging, Record, ReleaseLabels
<1>2. journal' = [journal EXCEPT !.mergeRequested = TRUE]
  BY DEF Merging, Record
<1>3. Facts(step, outcome, journal', tree', hub', published')
  BY <1>1, <1>2, FlagFacts DEF Flags
<1>4. journal'.mergeRequested /\ journal'.pullRequestUrl
  BY <1>1, <1>2 DEF DriverInv, Announced, Facts, Shape, Journals
<1>5. Announced("merge", journal', hub') /\ Swept("merge", tree')
  BY <1>4, PlainLabels DEF Announced, Sweeping
<1>6. "merge" \in LabelsOf(step) \ {"ended"}
  BY <1>1, ReleaseLabelsHere DEF ReleaseLabels
<1>7. QED
  BY <1>1, <1>3, <1>5, <1>6, GoesOn, ReleaseLabelsHere

LEMMA MergeKeeps == ASSUME DriverInv, Merge PROVE DriverInv'
<1>1. Control /\ pc = "merge" /\ pc \in ReleaseLabels
  BY DEF DriverInv, Merge, Command, ReleaseLabels
<1>2. Facts(step, outcome, journal', tree', hub', published')
  <2> DEFINE after == [hub EXCEPT !.pr = [state |-> "merged", base |-> hub.height],
                                  !.height = @ + 1, !.merged = hub.height + 1]
  <2>1. /\ hub' = hub \/ (hub.pr.state = "open" /\ hub' = after)
        /\ UNCHANGED <<journal, tree, published>>
    BY DEF Merge, Command
  <2>2. CASE hub' = hub
    BY <2>1, <2>2, SameFacts
  <2>3. CASE hub.pr.state = "open" /\ hub' = after
    <3>1. hub \in Hubs /\ journal.mergeRequested /\ journal.pullRequestUrl /\ journal.pullRequestRequested
      BY <1>1, <2>3 DEF DriverInv, Announced, Facts, Shape, Ahead
    <3>2. /\ hub' \in Hubs /\ hub'.pr.state = "merged" /\ hub'.revertPr = hub.revertPr
          /\ hub'.merged # 0 /\ hub'.reverted = hub.reverted
          /\ hub'.branch = hub.branch /\ hub'.revertBranch = hub.revertBranch
      <4>1. hub.height + 1 \in Nat /\ hub.height + 1 # 0
        BY <3>1 DEF Hubs
      <4>2. [state |-> "merged", base |-> hub.height] \in Requests
        BY <3>1 DEF Hubs, Requests
      <4>3. hub' \in Hubs
        BY <2>3, <3>1, <4>1, <4>2 DEF Hubs
      <4>4. /\ hub'.pr = [state |-> "merged", base |-> hub.height] /\ hub'.merged = hub.height + 1
            /\ hub'.revertPr = hub.revertPr /\ hub'.reverted = hub.reverted
            /\ hub'.branch = hub.branch /\ hub'.revertBranch = hub.revertBranch
        BY <2>3, <3>1 DEF Hubs
      <4>5. QED
        BY <4>1, <4>3, <4>4
    <3>3. step = "create-merge-pr"
      BY <1>1, ReleaseLabelsHere
    <3>4. journal.mergedRevision = 0
      BY <3>3 DEF DriverInv, Facts, Phase
    <3>5. QED
      BY <2>1, <3>1, <3>2, <3>3, <3>4 DEF DriverInv, Facts, Shape, Ahead, Recorded, Phase, Validation
  <2>4. QED
    BY <2>1, <2>2, <2>3
<1>3. "fetch" \in LabelsOf(step) \ ({"ended"} \cup Announcing \cup Sweeping)
  BY <1>1, ReleaseLabelsHere DEF ReleaseLabels, Announcing, Sweeping
<1>4. Continue("fetch") \/ Reject
  BY DEF Merge, Command
<1>5. QED
  BY <1>1, <1>2, <1>3, <1>4, GoesOnPlain, ReleaseLabelsHere

LEMMA FetchKeeps == ASSUME DriverInv, Fetch PROVE DriverInv'
<1>1. Control /\ pc \in ReleaseLabels /\ UNCHANGED <<journal, tree, hub, published>>
  BY DEF DriverInv, Fetch, Assert, ReleaseLabels
<1>2. Continue("mergedRevision") => MergeParents
  BY DEF Fetch, Assert, Continue, Reject, Begin, Failure, Entry, DriverInv, Control, Steps
<1>3. Continue("mergedRevision") \/ Reject
  BY DEF Fetch, Assert
<1>4. "mergedRevision" \in LabelsOf(step) \ {"ended"}
  BY <1>1, ReleaseLabelsHere DEF ReleaseLabels
<1>5. Continue("mergedRevision") => Announced("mergedRevision", journal', hub') /\ Swept("mergedRevision", tree')
  BY <1>1, <1>2, PlainLabels DEF Announced, MergeParents, Sweeping
<1>6. QED
  BY <1>1, <1>3, <1>4, <1>5, SameFacts, GoesOn, ReleaseLabelsHere

\* What is recorded as merged is the merge of the authorized base.
LEMMA MergedRevisionFacts ==
  ASSUME DriverInv, step \in {"create-merge-pr", "rollback-git"}, MergeParents,
         journal' = [journal EXCEPT !.mergedRevision = hub.merged], UNCHANGED <<tree, hub, published>>
  PROVE  /\ journal'.mergedRevision = hub.merged /\ hub.merged = Base + 1
         /\ Shape(journal', tree', hub') /\ Ahead(journal', tree', hub') /\ Recorded(journal', tree', hub')
<1>1. journal \in Journals /\ hub \in Hubs
  BY DEF DriverInv, Facts, Shape
<1>2. \A f \in Flags \cup {"rollbackMergedRevision"} : journal'[f] = journal[f]
  BY <1>1 DEF Journals, Flags
<1>3. journal' \in Journals /\ journal'.mergedRevision = hub.merged /\ hub.merged = Base + 1
  BY <1>1 DEF Journals, Hubs, MergeParents
<1>4. QED
  BY <1>2, <1>3 DEF DriverInv, Facts, Shape, Ahead, Recorded, Flags, Base

LEMMA MergedRevisionKeeps == ASSUME DriverInv, MergedRevision PROVE DriverInv'
<1>1. /\ Control /\ pc = "mergedRevision" /\ pc \in ReleaseLabels
      /\ UNCHANGED <<tree, hub, published>> /\ Accepted
      /\ journal' = [journal EXCEPT !.mergedRevision = hub.merged]
  BY DEF DriverInv, MergedRevision, Record, ReleaseLabels
<1>2. step = "create-merge-pr" /\ pc # "ended"
  BY <1>1, ReleaseLabelsHere
<1>3. MergeParents
  BY <1>1 DEF DriverInv, Announced, MergeParents
<1>4. /\ journal'.mergedRevision = Base + 1
      /\ Shape(journal', tree', hub') /\ Ahead(journal', tree', hub') /\ Recorded(journal', tree', hub')
  BY <1>1, <1>2, <1>3, MergedRevisionFacts
<1>5. Begin("build-merged-master") /\ verdict' = "running" /\ outcome' = outcome /\ outcome = "accepted"
  BY <1>1, <1>2 DEF Accepted, Following, Control
<1>6. Phase("build-merged-master", outcome', journal', hub', published')
  BY <1>1, <1>2, <1>4 DEF DriverInv, Facts, Phase, Validation, Base
<1>7. Facts("build-merged-master", outcome', journal', tree', hub', published')
  BY <1>1, <1>4, <1>6 DEF DriverInv, Facts
<1>8. QED
  BY <1>5, <1>7, BeginKeeps DEF Steps, Verdicts, Rollback

-----------------------------------------------------------------------------
(* buildMerged and the production steps.                                   *)
LEMMA BuildLabelsHere ==
  ASSUME Control, pc \in {"worktree", "addBuild", "build", "manifest"}
  PROVE  step = "build-merged-master" /\ pc # "ended"
         /\ {"addBuild", "build", "manifest"} \subseteq LabelsOf(step) \ {"ended"}
  BY Where DEF LabelsOf

LEMMA BuildWorktreeKeeps == ASSUME DriverInv, BuildWorktree PROVE DriverInv'
<1>1. Control /\ pc = "worktree" /\ UNCHANGED <<tree, hub, published>>
  BY DEF DriverInv, BuildWorktree
<1>2. CASE (Reject \/ Continue("build")) /\ UNCHANGED journal
  <2>1. "build" \in LabelsOf(step) \ ({"ended"} \cup Announcing \cup Sweeping)
    BY <1>1, BuildLabelsHere DEF Announcing, Sweeping
  <2>2. QED
    BY <1>1, <1>2, <2>1, Looks
<1>3. CASE /\ journal.mergedRevision # 0 /\ Continue("addBuild")
           /\ journal' = [journal EXCEPT !.buildWorktreeRequested = TRUE]
  <2>1. Facts(step, outcome, journal', tree', hub', published')
    BY <1>1, <1>3, FlagFacts DEF Flags
  <2>2. journal'.buildWorktreeRequested /\ journal'.mergedRevision # 0
    BY <1>3 DEF DriverInv, Facts, Shape, Journals
  <2>3. Announced("addBuild", journal', hub') /\ Swept("addBuild", tree')
    BY <2>2, PlainLabels DEF Announced, Sweeping
  <2>4. "addBuild" \in LabelsOf(step) \ {"ended"}
    BY <1>1, BuildLabelsHere
  <2>5. QED
    BY <1>1, <1>3, <2>1, <2>3, <2>4, GoesOn
<1>4. QED
  BY <1>2, <1>3 DEF BuildWorktree

LEMMA AddBuildKeeps == ASSUME DriverInv, AddBuild PROVE DriverInv'
<1>1. Control /\ pc = "addBuild"
  BY DEF DriverInv, AddBuild, Command
<1>2. journal.buildWorktreeRequested /\ journal.mergedRevision # 0 /\ tree \in Trees
  BY <1>1 DEF DriverInv, Announced, Facts, Shape
<1>3. tree' \in {tree, [tree EXCEPT !.build = TRUE]} /\ UNCHANGED <<journal, hub, published>>
  BY DEF AddBuild, Command
<1>4. tree' \in Trees /\ tree'.branch = tree.branch /\ tree'.revertBranch = tree.revertBranch
  BY <1>2, <1>3 DEF Trees
<1>5. Facts(step, outcome, journal', tree', hub', published')
  BY <1>2, <1>3, <1>4 DEF DriverInv, Facts, Shape, Ahead, Recorded
<1>6. "build" \in LabelsOf(step) \ ({"ended"} \cup Announcing \cup Sweeping)
  BY <1>1, BuildLabelsHere DEF Announcing, Sweeping
<1>7. Continue("build") \/ Reject
  BY DEF AddBuild, Command
<1>8. QED
  BY <1>1, <1>5, <1>6, <1>7, GoesOnPlain

LEMMA BuildKeeps == ASSUME DriverInv, Build PROVE DriverInv'
<1>1. /\ Control /\ pc = "build" /\ UNCHANGED <<journal, tree, hub, published>>
      /\ Continue("manifest") \/ Reject
  BY DEF DriverInv, Build, Assert
<1>2. "manifest" \in LabelsOf(step) \ ({"ended"} \cup Announcing \cup Sweeping)
  BY <1>1, BuildLabelsHere DEF Announcing, Sweeping
<1>3. QED
  BY <1>1, <1>2, Looks

LEMMA ManifestKeeps == ASSUME DriverInv, Manifest PROVE DriverInv'
<1>1. Control /\ pc = "manifest" /\ Accepted
  BY DEF DriverInv, Manifest, Record
<1>2. Facts(step, outcome, journal', tree', hub', published')
  BY FlagFacts DEF Manifest, Record, Flags
<1>3. step = "build-merged-master"
  BY <1>1, BuildLabelsHere
<1>4. QED
  BY <1>1, <1>2, <1>3, AcceptedKeeps

LEMMA ProductionStepKeeps == ASSUME DriverInv, ProductionStep PROVE DriverInv'
<1>1. Control /\ pc = "production" /\ UNCHANGED <<journal, tree, hub>>
  BY DEF DriverInv, ProductionStep
<1>2. step \in (AfterMerge \ {"build-merged-master"}) \cup {"rollback-production"}
  BY <1>1, Where
<1>3. published' \in BOOLEAN /\ (step = "rollback-production" => published')
  BY DEF ProductionStep, DriverInv, Facts
<1>4. Facts(step, outcome, journal', tree', hub', published')
  BY <1>1, <1>2, <1>3 DEF DriverInv, Facts, Phase, AfterMerge
<1>5. Accepted \/ Reject
  BY DEF ProductionStep
<1>6. QED
  BY <1>1, <1>2, <1>3, <1>4, <1>5, AcceptedKeeps, RejectKeeps DEF AfterMerge

-----------------------------------------------------------------------------
(* rollbackGit: the step tells nothing of the journal, the trees or GitHub. *)
LEMMA RollbackLabelsHere ==
  ASSUME Control, pc \in RollbackLabels
  PROVE  step = "rollback-git" /\ pc # "ended" /\ RollbackLabels = LabelsOf(step) \ {"ended"}
  BY Where DEF LabelsOf, RollbackLabels

LEMMA RollbackFacts ==
  ASSUME DriverInv, step = "rollback-git", UNCHANGED published,
         Shape(journal', tree', hub'), Ahead(journal', tree', hub'), Recorded(journal', tree', hub')
  PROVE  Facts(step, outcome, journal', tree', hub', published')
  BY DEF DriverInv, Facts, Phase, Validation, AfterMerge

LEMMA RollbackLooks ==
  ASSUME DriverInv, pc \in RollbackLabels, NEW l \in RollbackLabels \ Announcing,
         Continue(l) \/ Reject, UNCHANGED <<journal, tree, hub, published>>
  PROVE  DriverInv'
<1>1. l \in LabelsOf(step) \ ({"ended"} \cup Announcing \cup Sweeping)
  BY RollbackLabelsHere DEF DriverInv, RollbackLabels, Sweeping
<1>2. QED
  BY <1>1, Looks, RollbackLabelsHere DEF DriverInv

LEMMA RollbackGoesOn ==
  ASSUME DriverInv, pc \in RollbackLabels, NEW l \in RollbackLabels, Announced(l, journal', hub'),
         Continue(l) \/ Reject, Facts(step, outcome, journal', tree', hub', published')
  PROVE  DriverInv'
<1>1. l \in LabelsOf(step) \ {"ended"} /\ Swept(l, tree')
  BY RollbackLabelsHere, PlainLabels DEF DriverInv, RollbackLabels, Sweeping
<1>2. QED
  BY <1>1, GoesOn, RollbackLabelsHere DEF DriverInv

LEMMA RollbackAccepted ==
  ASSUME DriverInv, pc \in RollbackLabels, Accepted, Facts(step, outcome, journal', tree', hub', published')
  PROVE  DriverInv'
  BY AcceptedKeeps, RollbackLabelsHere DEF DriverInv

LEMMA RecoverKeeps == ASSUME DriverInv, Recover PROVE DriverInv'
<1>1. Control /\ pc \in RollbackLabels /\ UNCHANGED <<tree, hub, published>>
  BY DEF DriverInv, Recover, RollbackLabels
<1>2. CASE journal' = [journal EXCEPT !.pullRequestUrl = TRUE] /\ Continue("mergedLate")
  <2>1. Facts(step, outcome, journal', tree', hub', published')
    BY <1>1, <1>2, FlagFacts DEF Flags
  <2>2. "mergedLate" \in RollbackLabels /\ Announced("mergedLate", journal', hub')
    BY PlainLabels DEF RollbackLabels, Announcing
  <2>3. QED
    BY <1>1, <1>2, <2>1, <2>2, RollbackGoesOn
<1>3. CASE Continue("delete") /\ UNCHANGED journal
  BY <1>1, <1>3, RollbackLooks DEF RollbackLabels, Announcing
<1>4. CASE Accepted /\ UNCHANGED journal
  BY <1>1, <1>4, RollbackAccepted, SameFacts
<1>5. CASE Continue("mergedLate") /\ UNCHANGED journal
  BY <1>1, <1>5, RollbackLooks DEF RollbackLabels, Announcing
<1>6. QED
  BY <1>2, <1>3, <1>4, <1>5 DEF Recover

LEMMA MergedLateKeeps == ASSUME DriverInv, MergedLate PROVE DriverInv'
<1>1. Control /\ pc \in RollbackLabels /\ UNCHANGED <<tree, hub, published>>
  BY DEF DriverInv, MergedLate, RollbackLabels
<1>2. CASE (Continue("prepare") \/ Reject) /\ UNCHANGED journal
  BY <1>1, <1>2, RollbackLooks DEF RollbackLabels, Announcing
<1>3. CASE Continue("close") /\ UNCHANGED journal
  BY <1>1, <1>3, RollbackLooks DEF RollbackLabels, Announcing
<1>4. CASE /\ MergeParents /\ Continue("prepare")
           /\ journal' = [journal EXCEPT !.mergedRevision = hub.merged]
  <2>1. step = "rollback-git"
    BY <1>1, RollbackLabelsHere
  <2>2. Facts(step, outcome, journal', tree', hub', published')
    BY <1>1, <1>4, <2>1, MergedRevisionFacts, RollbackFacts
  <2>3. "prepare" \in RollbackLabels /\ Announced("prepare", journal', hub')
    BY PlainLabels DEF RollbackLabels, Announcing
  <2>4. QED
    BY <1>1, <1>4, <2>2, <2>3, RollbackGoesOn
<1>5. QED
  BY <1>2, <1>3, <1>4 DEF MergedLate

\* Closing and deleting leave a merged pull request merged, and no open one without its branch.
LEMMA WithdrawFacts ==
  ASSUME DriverInv, step = "rollback-git", UNCHANGED <<journal, tree, published>>,
         hub' \in {hub, [hub EXCEPT !.pr = ClosedPr(@)], [hub EXCEPT !.branch = FALSE, !.pr = ClosedPr(@)]}
  PROVE  Facts(step, outcome, journal', tree', hub', published')
<1>1. hub \in Hubs
  BY DEF DriverInv, Facts, Shape
<1>2. /\ ClosedPr(hub.pr) \in Requests /\ ClosedPr(hub.pr).state # "open"
      /\ ClosedPr(hub.pr).state # "none" => hub.pr.state # "none"
      /\ hub.pr.state = "merged" => ClosedPr(hub.pr).state = "merged"
  BY <1>1 DEF ClosedPr, Hubs, Requests
<1>3. /\ hub' \in Hubs /\ hub'.pr \in {hub.pr, ClosedPr(hub.pr)} /\ hub'.revertPr = hub.revertPr
      /\ hub'.merged = hub.merged /\ hub'.reverted = hub.reverted /\ hub'.revertBranch = hub.revertBranch
      /\ hub'.branch => hub.branch
  BY <1>1, <1>2 DEF Hubs
<1>4. hub'.pr.state = "open" => hub'.branch
  BY <1>1, <1>2 DEF Hubs, DriverInv, Facts, Recorded
<1>5. Shape(journal', tree', hub') /\ Ahead(journal', tree', hub')
  BY <1>2, <1>3 DEF DriverInv, Facts, Shape, Ahead
<1>6. Recorded(journal', tree', hub')
  BY <1>2, <1>3, <1>4 DEF DriverInv, Facts, Recorded
<1>7. QED
  BY <1>5, <1>6, RollbackFacts

LEMMA CloseKeeps == ASSUME DriverInv, Close PROVE DriverInv'
<1>1. /\ Control /\ pc \in RollbackLabels /\ UNCHANGED <<journal, tree, published>>
      /\ hub' \in {hub, [hub EXCEPT !.pr = ClosedPr(@)]} /\ Continue("delete")
  BY DEF DriverInv, Close, Try, RollbackLabels
<1>2. Facts(step, outcome, journal', tree', hub', published')
  BY <1>1, WithdrawFacts, RollbackLabelsHere
<1>3. "delete" \in RollbackLabels /\ Announced("delete", journal', hub')
  BY PlainLabels DEF RollbackLabels, Announcing
<1>4. QED
  BY <1>1, <1>2, <1>3, RollbackGoesOn

LEMMA DeleteKeeps == ASSUME DriverInv, Delete PROVE DriverInv'
<1>1. /\ Control /\ pc \in RollbackLabels /\ UNCHANGED <<journal, tree, published>>
      /\ hub' \in {hub, [hub EXCEPT !.branch = FALSE, !.pr = ClosedPr(@)]} /\ Accepted
  BY DEF DriverInv, Delete, Try, RollbackLabels
<1>2. Facts(step, outcome, journal', tree', hub', published')
  BY <1>1, WithdrawFacts, RollbackLabelsHere
<1>3. QED
  BY <1>1, <1>2, RollbackAccepted

LEMMA PrepareKeeps == ASSUME DriverInv, Prepare PROVE DriverInv'
<1>1. Control /\ pc \in RollbackLabels /\ UNCHANGED <<tree, hub, published>>
  BY DEF DriverInv, Prepare, RollbackLabels
<1>2. CASE (Continue("revertPushing") \/ Reject) /\ UNCHANGED journal
  BY <1>1, <1>2, RollbackLooks DEF RollbackLabels, Announcing
<1>3. CASE /\ Continue("addRevert")
           /\ journal' = [journal EXCEPT !.rollbackPreparationRequested = TRUE,
                                         !.rollbackBaseRevision = hub.height]
  <2>1. journal \in Journals /\ hub.height \in Nat
    BY DEF DriverInv, Facts, Shape, Hubs
  <2>2. journal' \in Journals
    BY <1>3, <2>1 DEF Journals
  <2>3. /\ \A f \in Flags \ {"rollbackPreparationRequested"} : journal'[f] = journal[f]
        /\ journal'.mergedRevision = journal.mergedRevision
        /\ journal'.rollbackMergedRevision = journal.rollbackMergedRevision
        /\ journal'.rollbackPreparationRequested
    BY <1>3, <2>1 DEF Journals, Flags
  <2>4. Shape(journal', tree', hub') /\ Ahead(journal', tree', hub') /\ Recorded(journal', tree', hub')
    BY <1>1, <2>2, <2>3 DEF DriverInv, Facts, Shape, Ahead, Recorded, Flags
  <2>5. Facts(step, outcome, journal', tree', hub', published')
    BY <1>1, <2>4, RollbackFacts, RollbackLabelsHere
  <2>6. "addRevert" \in RollbackLabels /\ Announced("addRevert", journal', hub')
    BY <2>3 DEF RollbackLabels, Announced
  <2>7. QED
    BY <1>1, <1>3, <2>5, <2>6, RollbackGoesOn
<1>4. QED
  BY <1>2, <1>3 DEF Prepare

LEMMA RevertTreeKeeps ==
  ASSUME DriverInv, AddRevert \/ Revert PROVE DriverInv'
<1>1. Control /\ pc \in RollbackLabels /\ UNCHANGED <<journal, hub, published>>
  BY DEF DriverInv, AddRevert, Revert, Command, RollbackLabels
<1>2. tree \in Trees
  BY DEF DriverInv, Facts, Shape
<1>3. \/ tree' = tree
      \/ pc = "addRevert" /\ tree' = [tree EXCEPT !.revert = "added", !.revertBranch = TRUE]
      \/ tree' = [tree EXCEPT !.revert = "committed"]
  BY DEF AddRevert, Revert, Command
<1>4. /\ tree' \in Trees /\ tree'.branch = tree.branch /\ tree'.build = tree.build
      /\ tree'.revertBranch => tree.revertBranch \/ journal.rollbackPreparationRequested
  BY <1>2, <1>3 DEF Trees, DriverInv, Announced
<1>5. Shape(journal', tree', hub') /\ Ahead(journal', tree', hub') /\ Recorded(journal', tree', hub')
  BY <1>1, <1>4 DEF DriverInv, Facts, Shape, Ahead, Recorded
<1>6. Facts(step, outcome, journal', tree', hub', published')
  BY <1>1, <1>5, RollbackFacts, RollbackLabelsHere
<1>7. PICK l \in {"revert", "rollbackCommit"} : Continue(l) \/ Reject
  BY DEF AddRevert, Revert, Command
<1>8. l \in RollbackLabels /\ Announced(l, journal', hub')
  BY PlainLabels DEF RollbackLabels, Announcing
<1>9. QED
  BY <1>1, <1>6, <1>7, <1>8, RollbackGoesOn

LEMMA RollbackRecordsKeep ==
  ASSUME DriverInv, RollbackCommit \/ RevertPushed \/ RevertUrl \/ RevertMerging PROVE DriverInv'
<1>1. Control /\ pc \in RollbackLabels
  BY DEF DriverInv, RollbackCommit, RevertPushed, RevertUrl, RevertMerging, Record, RollbackLabels
<1>2. Facts(step, outcome, journal', tree', hub', published')
  BY FlagFacts DEF RollbackCommit, RevertPushed, RevertUrl, RevertMerging, Record, Flags
<1>3. \/ \E l \in {"revertPushing", "revertFind", "revertRevisions"} : Continue(l)
      \/ Continue("revertMerge") /\ journal' = [journal EXCEPT !.rollbackMergeRequested = TRUE]
  BY DEF RollbackCommit, RevertPushed, RevertUrl, RevertMerging, Record
<1>4. CASE \E l \in {"revertPushing", "revertFind", "revertRevisions"} : Continue(l)
  <2>1. PICK l \in {"revertPushing", "revertFind", "revertRevisions"} : Continue(l)
    BY <1>4
  <2>2. l \in RollbackLabels /\ Announced(l, journal', hub')
    BY PlainLabels DEF RollbackLabels, Announcing
  <2>3. QED
    BY <1>1, <1>2, <2>1, <2>2, RollbackGoesOn
<1>5. CASE Continue("revertMerge") /\ journal' = [journal EXCEPT !.rollbackMergeRequested = TRUE]
  <2>1. journal'.rollbackMergeRequested
    BY <1>5 DEF DriverInv, Facts, Shape, Journals
  <2>2. "revertMerge" \in RollbackLabels /\ Announced("revertMerge", journal', hub')
    BY <2>1 DEF RollbackLabels, Announced
  <2>3. QED
    BY <1>1, <1>2, <1>5, <2>2, RollbackGoesOn
<1>6. QED
  BY <1>3, <1>4, <1>5

LEMMA RevertPushingKeeps == ASSUME DriverInv, RevertPushing PROVE DriverInv'
<1>1. Control /\ pc \in RollbackLabels /\ UNCHANGED <<tree, hub, published>>
  BY DEF DriverInv, RevertPushing, RollbackLabels
<1>2. CASE Continue("revertFind") /\ UNCHANGED journal
  BY <1>1, <1>2, RollbackLooks DEF RollbackLabels, Announcing
<1>3. CASE journal' = [journal EXCEPT !.rollbackPushRequested = TRUE] /\ Continue("revertPush")
  <2>1. Facts(step, outcome, journal', tree', hub', published')
    BY <1>1, <1>3, FlagFacts DEF Flags
  <2>2. journal'.rollbackPushRequested
    BY <1>3 DEF DriverInv, Facts, Shape, Journals
  <2>3. "revertPush" \in RollbackLabels /\ Announced("revertPush", journal', hub')
    BY <2>2 DEF RollbackLabels, Announced
  <2>4. QED
    BY <1>1, <1>3, <2>1, <2>3, RollbackGoesOn
<1>4. QED
  BY <1>2, <1>3 DEF RevertPushing

LEMMA RevertFindKeeps == ASSUME DriverInv, RevertFind PROVE DriverInv'
<1>1. Control /\ pc \in RollbackLabels /\ UNCHANGED <<tree, hub, published>>
  BY DEF DriverInv, RevertFind, RollbackLabels
<1>2. CASE Continue("revertUrl") /\ UNCHANGED journal
  BY <1>1, <1>2, RollbackLooks DEF RollbackLabels, Announcing
<1>3. CASE journal' = [journal EXCEPT !.rollbackPullRequestRequested = TRUE] /\ Continue("revertCreate")
  <2>1. Facts(step, outcome, journal', tree', hub', published')
    BY <1>1, <1>3, FlagFacts DEF Flags
  <2>2. journal'.rollbackPullRequestRequested
    BY <1>3 DEF DriverInv, Facts, Shape, Journals
  <2>3. "revertCreate" \in RollbackLabels /\ Announced("revertCreate", journal', hub')
    BY <2>2 DEF RollbackLabels, Announced
  <2>4. QED
    BY <1>1, <1>3, <2>1, <2>3, RollbackGoesOn
<1>4. QED
  BY <1>2, <1>3 DEF RevertFind

\* The revert's own branch, pull request and merge are announced and leave the release's alone.
LEMMA RevertHubFacts ==
  ASSUME DriverInv, step = "rollback-git", UNCHANGED <<journal, tree, published>>, hub' \in Hubs,
         hub'.pr = hub.pr, hub'.branch = hub.branch, hub'.merged = hub.merged,
         hub'.revertBranch => hub.revertBranch \/ journal.rollbackPushRequested,
         hub'.revertPr.state # "none" => hub.revertPr.state # "none" \/ journal.rollbackPullRequestRequested,
         hub'.reverted # 0 => hub.reverted # 0 \/ journal.rollbackMergeRequested,
         hub.reverted # 0 => hub'.reverted # 0
  PROVE  Facts(step, outcome, journal', tree', hub', published')
<1>1. Shape(journal', tree', hub') /\ Ahead(journal', tree', hub')
  BY DEF DriverInv, Facts, Shape, Ahead
<1>2. Recorded(journal', tree', hub')
  BY DEF DriverInv, Facts, Recorded
<1>3. QED
  BY <1>1, <1>2, RollbackFacts

LEMMA RevertPushKeeps == ASSUME DriverInv, RevertPush PROVE DriverInv'
<1>1. Control /\ pc = "revertPush" /\ pc \in RollbackLabels /\ UNCHANGED <<journal, tree, published>>
  BY DEF DriverInv, RevertPush, Command, RollbackLabels
<1>2. hub \in Hubs /\ journal.rollbackPushRequested /\ step = "rollback-git"
  BY <1>1, RollbackLabelsHere DEF DriverInv, Announced, Facts, Shape
<1>3. hub' \in {hub, [hub EXCEPT !.revertBranch = TRUE]}
  BY DEF RevertPush, Command
<1>4. /\ hub' \in Hubs /\ hub'.pr = hub.pr /\ hub'.branch = hub.branch /\ hub'.merged = hub.merged
      /\ hub'.revertPr = hub.revertPr /\ hub'.reverted = hub.reverted
  BY <1>2, <1>3 DEF Hubs
<1>5. Facts(step, outcome, journal', tree', hub', published')
  BY <1>1, <1>2, <1>4, RevertHubFacts
<1>6. "revertPushed" \in RollbackLabels /\ Announced("revertPushed", journal', hub')
  BY PlainLabels DEF RollbackLabels, Announcing
<1>7. Continue("revertPushed") \/ Reject
  BY DEF RevertPush, Command
<1>8. QED
  BY <1>1, <1>5, <1>6, <1>7, RollbackGoesOn

LEMMA RevertCreateKeeps == ASSUME DriverInv, RevertCreate PROVE DriverInv'
<1>1. Control /\ pc = "revertCreate" /\ pc \in RollbackLabels /\ UNCHANGED <<journal, tree, published>>
  BY DEF DriverInv, RevertCreate, Command, RollbackLabels
<1>2. hub \in Hubs /\ journal.rollbackPullRequestRequested /\ step = "rollback-git"
  BY <1>1, RollbackLabelsHere DEF DriverInv, Announced, Facts, Shape
<1>3. hub' \in {hub, [hub EXCEPT !.revertPr = [state |-> "open", base |-> hub.height]]}
  BY DEF RevertCreate, Command
<1>4. [state |-> "open", base |-> hub.height] \in Requests
  BY <1>2 DEF Hubs, Requests
<1>5. /\ hub' \in Hubs /\ hub'.pr = hub.pr /\ hub'.branch = hub.branch /\ hub'.merged = hub.merged
      /\ hub'.revertBranch = hub.revertBranch /\ hub'.reverted = hub.reverted
  BY <1>2, <1>3, <1>4 DEF Hubs
<1>6. Facts(step, outcome, journal', tree', hub', published')
  BY <1>1, <1>2, <1>5, RevertHubFacts
<1>7. "revertUrl" \in RollbackLabels /\ Announced("revertUrl", journal', hub')
  BY PlainLabels DEF RollbackLabels, Announcing
<1>8. Continue("revertUrl") \/ Reject
  BY DEF RevertCreate, Command
<1>9. QED
  BY <1>1, <1>6, <1>7, <1>8, RollbackGoesOn

LEMMA RevertMergeKeeps == ASSUME DriverInv, RevertMerge PROVE DriverInv'
<1>1. Control /\ pc = "revertMerge" /\ pc \in RollbackLabels /\ UNCHANGED <<journal, tree, published>>
  BY DEF DriverInv, RevertMerge, Command, RollbackLabels
<1>2. hub \in Hubs /\ journal.rollbackMergeRequested /\ step = "rollback-git"
  BY <1>1, RollbackLabelsHere DEF DriverInv, Announced, Facts, Shape
<1>3. \/ hub' = hub
      \/ /\ hub.revertPr.state = "open"
         /\ hub' = [hub EXCEPT !.revertPr = [state |-> "merged", base |-> hub.height],
                               !.height = @ + 1, !.reverted = hub.height + 1]
  BY DEF RevertMerge, Command
<1>4. [state |-> "merged", base |-> hub.height] \in Requests /\ hub.height + 1 \in Nat /\ hub.height + 1 # 0
  BY <1>2 DEF Hubs, Requests
<1>5. hub' \in Hubs
  BY <1>2, <1>3, <1>4 DEF Hubs
<1>6. /\ hub'.pr = hub.pr /\ hub'.branch = hub.branch /\ hub'.merged = hub.merged
      /\ hub'.revertBranch = hub.revertBranch /\ hub'.reverted \in {hub.reverted, hub.height + 1}
      /\ hub'.revertPr.state # "none" => hub.revertPr.state # "none"
  BY <1>2, <1>3 DEF Hubs
<1>7. Facts(step, outcome, journal', tree', hub', published')
  BY <1>1, <1>2, <1>4, <1>5, <1>6, RevertHubFacts
<1>8. "reverted" \in RollbackLabels /\ Announced("reverted", journal', hub')
  BY PlainLabels DEF RollbackLabels, Announcing
<1>9. Continue("reverted") \/ Reject
  BY DEF RevertMerge, Command
<1>10. QED
  BY <1>1, <1>7, <1>8, <1>9, RollbackGoesOn

LEMMA RevertLooksKeep ==
  ASSUME DriverInv, RevertRevisions \/ Reverted PROVE DriverInv'
<1>1. Control /\ pc \in RollbackLabels /\ UNCHANGED <<journal, tree, hub, published>>
  BY DEF DriverInv, RevertRevisions, Reverted, Assert, RollbackLabels
<1>2. PICK l \in {"reverted", "revertMerging", "revertedRevision"} : Continue(l) \/ Reject
  BY DEF RevertRevisions, Reverted, Assert
<1>3. l \in RollbackLabels \ Announcing
  BY DEF RollbackLabels, Announcing
<1>4. QED
  BY <1>1, <1>2, <1>3, RollbackLooks

LEMMA RevertedRevisionKeeps == ASSUME DriverInv, RevertedRevision PROVE DriverInv'
<1>1. /\ Control /\ pc \in RollbackLabels /\ UNCHANGED <<tree, hub, published>> /\ Accepted
      /\ journal' = [journal EXCEPT !.rollbackMergedRevision = hub.reverted]
  BY DEF DriverInv, RevertedRevision, Record, RollbackLabels
<1>2. journal \in Journals /\ hub.reverted \in Nat
  BY DEF DriverInv, Facts, Shape, Hubs
<1>3. journal' \in Journals
  BY <1>1, <1>2 DEF Journals
<1>4. /\ \A f \in Flags \cup {"mergedRevision"} : journal'[f] = journal[f]
      /\ journal'.rollbackMergedRevision = hub.reverted
  BY <1>1, <1>2 DEF Journals, Flags
<1>5. Shape(journal', tree', hub') /\ Ahead(journal', tree', hub') /\ Recorded(journal', tree', hub')
  BY <1>1, <1>3, <1>4 DEF DriverInv, Facts, Shape, Ahead, Recorded, Flags
<1>6. Facts(step, outcome, journal', tree', hub', published')
  BY <1>1, <1>5, RollbackFacts, RollbackLabelsHere
<1>7. QED
  BY <1>1, <1>6, RollbackAccepted

\* The rollback is verified only when the release can no longer reach master or has been reverted.
LEMMA VerifyGitRollbackKeeps == ASSUME DriverInv, VerifyGitRollback PROVE DriverInv'
<1>1. Control /\ pc = "verify" /\ UNCHANGED <<journal, tree, hub, published>>
  BY DEF DriverInv, VerifyGitRollback, Assert
<1>2. step = "verify-git-rollback"
  BY <1>1, Where
<1>3. Facts(step, outcome, journal', tree', hub', published')
  BY <1>1, SameFacts
<1>4. CASE Reject
  BY <1>1, <1>3, <1>4, RejectKeeps
<1>5. CASE /\ Accepted
           /\ IF ~journal.pullRequestUrl THEN journal.mergedRevision = 0 /\ ~hub.branch
              ELSE IF journal.mergedRevision = 0 THEN hub.pr.state = "closed" /\ ~hub.branch
              ELSE /\ journal.rollbackPullRequestUrl /\ journal.rollbackCommit
                   /\ journal.rollbackMergedRevision # 0 /\ hub.revertPr.state = "merged"
  <2>1. Recorded(journal, tree, hub) /\ hub \in Hubs
    BY DEF DriverInv, Facts, Shape
  <2>2. Withdrawn(hub)
    <3>1. CASE ~journal.pullRequestUrl
      BY <1>5, <2>1, <3>1 DEF Recorded, Withdrawn
    <3>2. CASE journal.pullRequestUrl /\ journal.mergedRevision = 0
      BY <1>5, <2>1, <3>2 DEF Recorded, Withdrawn
    <3>3. CASE journal.pullRequestUrl /\ journal.mergedRevision # 0
      BY <1>5, <2>1, <3>3 DEF Recorded, Withdrawn, Base
    <3>4. QED
      BY <3>1, <3>2, <3>3
  <2>3. QED
    BY <1>1, <1>2, <1>3, <1>5, <2>2, AcceptedKeeps
<1>6. QED
  BY <1>4, <1>5 DEF VerifyGitRollback, Assert

-----------------------------------------------------------------------------
(* cleanup.                                                                *)
LEMMA CleanupLabelsHere ==
  ASSUME Control, pc \in CleanupLabels
  PROVE  step = "cleanup-release" /\ pc # "ended" /\ CleanupLabels = LabelsOf(step) \ {"ended"}
  BY Where DEF LabelsOf, CleanupLabels

\* Removing worktrees and branches takes back nothing that was announced.
LEMMA SweepFacts ==
  ASSUME DriverInv, UNCHANGED <<journal, hub, published>>, tree' \in Trees,
         tree'.build => tree.build, tree'.branch => tree.branch, tree'.revertBranch => tree.revertBranch
  PROVE  Facts(step, outcome, journal', tree', hub', published')
  BY DEF DriverInv, Facts, Shape, Ahead, Recorded

LEMMA SweepGoesOn ==
  ASSUME DriverInv, pc \in CleanupLabels, NEW l \in CleanupLabels, Swept(l, tree'),
         Continue(l), Facts(step, outcome, journal', tree', hub', published')
  PROVE  DriverInv'
<1>1. Announced(l, journal', hub')
  BY PlainLabels DEF CleanupLabels, Announcing
<1>2. QED
  BY <1>1, ContinueKeeps, CleanupLabelsHere DEF DriverInv

LEMMA SweepRejected ==
  ASSUME DriverInv, pc \in CleanupLabels, Reject, Facts(step, outcome, journal', tree', hub', published')
  PROVE  DriverInv'
  BY RejectKeeps, CleanupLabelsHere DEF DriverInv

LEMMA WorktreesKeep == ASSUME DriverInv, Worktrees PROVE DriverInv'
<1>1. Control /\ pc \in CleanupLabels /\ UNCHANGED <<journal, hub, published>> /\ tree \in Trees
  BY DEF DriverInv, Worktrees, Command, CleanupLabels, Facts, Shape
<1>2. tree' \in {tree, [tree EXCEPT !.build = FALSE], [tree EXCEPT !.revert = "none"],
                 [tree EXCEPT !.release = "none"]}
  BY DEF Worktrees, Command
<1>3. /\ tree' \in Trees
      /\ tree'.build => tree.build
      /\ tree'.branch = tree.branch /\ tree'.revertBranch = tree.revertBranch
  BY <1>1, <1>2 DEF Trees
<1>4. Facts(step, outcome, journal', tree', hub', published')
  BY <1>1, <1>3, SweepFacts
<1>5. CASE Reject
  BY <1>1, <1>4, <1>5, SweepRejected
<1>6. CASE Continue("revertWorktree") /\ tree' = [tree EXCEPT !.build = FALSE]
  <2>1. Swept("revertWorktree", tree')
    BY <1>1, <1>6 DEF Swept, CleanupLabels, Trees
  <2>2. QED
    BY <1>1, <1>4, <1>6, <2>1, SweepGoesOn DEF CleanupLabels
<1>7. CASE pc = "revertWorktree" /\ Continue("releaseWorktree") /\ tree' = [tree EXCEPT !.revert = "none"]
  <2>1. ~tree.build
    BY <1>7 DEF DriverInv, Swept, CleanupLabels
  <2>2. Swept("releaseWorktree", tree')
    BY <1>1, <1>7, <2>1 DEF Swept, CleanupLabels, Trees
  <2>3. QED
    BY <1>1, <1>4, <1>7, <2>2, SweepGoesOn DEF CleanupLabels
<1>8. CASE pc = "releaseWorktree" /\ Continue("branches") /\ tree' = [tree EXCEPT !.release = "none"]
  <2>1. ~tree.build /\ tree.revert = "none"
    BY <1>8 DEF DriverInv, Swept, CleanupLabels
  <2>2. Swept("branches", tree')
    BY <1>1, <1>8, <2>1 DEF Swept, CleanupLabels, Trees
  <2>3. QED
    BY <1>1, <1>4, <1>8, <2>2, SweepGoesOn DEF CleanupLabels
<1>9. QED
  BY <1>5, <1>6, <1>7, <1>8 DEF Worktrees, Command

\* Every branch was announced, so every branch is deleted.
LEMMA BranchesKeep == ASSUME DriverInv, Branches PROVE DriverInv'
<1> DEFINE after == [tree EXCEPT !.branch = @ /\ ~journal.releasePreparationRequested,
                                 !.revertBranch = @ /\ ~journal.rollbackPreparationRequested]
<1>1. /\ Control /\ pc = "branches" /\ pc \in CleanupLabels
      /\ UNCHANGED <<journal, hub, published>> /\ tree \in Trees
  BY DEF DriverInv, Branches, Command, CleanupLabels, Facts, Shape
<1>2. /\ tree.branch => journal.releasePreparationRequested
      /\ tree.revertBranch => journal.rollbackPreparationRequested
      /\ ~tree.build /\ tree.revert = "none" /\ tree.release = "none"
  BY <1>1 DEF DriverInv, Facts, Ahead, Swept, CleanupLabels
<1>3. after = [tree EXCEPT !.branch = FALSE, !.revertBranch = FALSE]
  <2>1. (tree.branch /\ ~journal.releasePreparationRequested) = FALSE
    BY <1>2
  <2>2. (tree.revertBranch /\ ~journal.rollbackPreparationRequested) = FALSE
    BY <1>2
  <2>3. QED
    BY <1>1, <2>1, <2>2 DEF Trees
<1>4. /\ after \in Trees /\ after.build = tree.build /\ after.revert = tree.revert
      /\ after.release = tree.release /\ ~after.branch /\ ~after.revertBranch
  BY <1>1, <1>3 DEF Trees
<1>5. tree' = tree \/ tree' = after
  BY DEF Branches, Command
<1> HIDE DEF after
<1>6. Facts(step, outcome, journal', tree', hub', published')
  BY <1>1, <1>4, <1>5, SweepFacts
<1>7. CASE Reject
  BY <1>1, <1>6, <1>7, SweepRejected
<1>8. CASE Continue("cleaned") /\ tree' = after
  <2>1. Swept("cleaned", tree')
    BY <1>2, <1>4, <1>8 DEF Swept, Clean
  <2>2. QED
    BY <1>1, <1>6, <1>8, <2>1, SweepGoesOn DEF CleanupLabels
<1>9. QED
  BY <1>7, <1>8 DEF Branches, Command, after

LEMMA CleanedKeeps == ASSUME DriverInv, Cleaned PROVE DriverInv'
<1>1. Control /\ pc = "cleaned" /\ pc \in CleanupLabels /\ UNCHANGED tree /\ Accepted
  BY DEF DriverInv, Cleaned, Record, CleanupLabels
<1>2. Facts(step, outcome, journal', tree', hub', published')
  BY FlagFacts DEF Cleaned, Record, Flags
<1>3. Clean(tree')
  BY <1>1 DEF DriverInv, Swept
<1>4. QED
  BY <1>1, <1>2, <1>3, AcceptedKeeps, CleanupLabelsHere

-----------------------------------------------------------------------------
(* What the driver does not choose.                                        *)
LEMMA CrashKeeps == ASSUME DriverInv, Crash PROVE DriverInv'
<1>1. Control /\ pc # "ended"
  BY DEF DriverInv, Crash
<1>2. Facts(step, outcome, journal', tree', hub', published')
  BY SameFacts DEF Crash
<1>3. CASE Reject
  BY <1>1, <1>2, <1>3, RejectKeeps
<1>4. CASE Begin(step) /\ UNCHANGED <<verdict, outcome>>
  <2>1. verdict' = "running" /\ outcome' = outcome /\ step \in Steps
    BY <1>1, <1>4 DEF Control
  <2>2. QED
    BY <1>1, <1>2, <1>4, <2>1, BeginKeeps DEF Control
<1>5. QED
  BY <1>3, <1>4 DEF Crash

LEMMA UnansweredKeeps == ASSUME DriverInv, Unanswered PROVE DriverInv'
<1>1. Control /\ pc # "ended" /\ Reject
  BY DEF DriverInv, Unanswered
<1>2. Facts(step, outcome, journal', tree', hub', published')
  BY SameFacts DEF Unanswered
<1>3. QED
  BY <1>1, <1>2, RejectKeeps

LEMMA OtherMergeKeeps == ASSUME DriverInv, OtherMerge PROVE DriverInv'
<1>1. hub \in Hubs
  BY DEF DriverInv, Facts, Shape
<1>2. hub' = [hub EXCEPT !.height = @ + 1]
  BY DEF OtherMerge
<1>3. /\ hub' \in Hubs /\ hub'.pr = hub.pr /\ hub'.revertPr = hub.revertPr /\ hub'.merged = hub.merged
      /\ hub'.reverted = hub.reverted /\ hub'.branch = hub.branch /\ hub'.revertBranch = hub.revertBranch
  BY <1>1, <1>2 DEF Hubs
<1>4. Facts(step, outcome, journal, tree, hub', published)
  BY <1>3 DEF DriverInv, Facts, Shape, Ahead, Recorded, Phase, Withdrawn
<1>5. Control'
  BY DEF OtherMerge, DriverInv, Control
<1>6. Announced(pc, journal, hub')
  BY <1>3 DEF DriverInv, Announced
<1>7. QED
  BY <1>4, <1>5, <1>6 DEF OtherMerge, DriverInv

LEMMA StutterKeeps == ASSUME DriverInv, UNCHANGED vars PROVE DriverInv'
  BY DEF vars, DriverInv, Control

LEMMA NextKeeps == ASSUME DriverInv, [Next]_vars PROVE DriverInv'
<1>1. CASE ValidateScope
  BY <1>1, ScopeKeeps, WorktreeAddKeeps, ApplyKeeps, StagedKeeps, PreparedKeeps DEF ValidateScope
<1>2. CASE GitReleaseStep
  BY <1>2, ReleaseLooksKeep, CommitKeeps, ReleaseRecordsKeep, PushingKeeps, PushKeeps, FindKeeps, CreateKeeps,
     UrlKeeps, RevisionsKeeps, MergingKeeps, MergeKeeps, FetchKeeps, MergedRevisionKeeps DEF GitReleaseStep
<1>3. CASE BuildMerged
  BY <1>3, BuildWorktreeKeeps, AddBuildKeeps, BuildKeeps, ManifestKeeps DEF BuildMerged
<1>4. CASE RollbackGit
  BY <1>4, RecoverKeeps, MergedLateKeeps, CloseKeeps, DeleteKeeps, PrepareKeeps, RevertTreeKeeps,
     RollbackRecordsKeep, RevertPushingKeeps, RevertPushKeeps, RevertFindKeeps, RevertCreateKeeps,
     RevertMergeKeeps, RevertLooksKeep, RevertedRevisionKeeps DEF RollbackGit
<1>5. CASE Cleanup
  BY <1>5, WorktreesKeep, BranchesKeep, CleanedKeeps DEF Cleanup
<1>6. CASE ValidateChange \/ ProductionStep \/ VerifyGitRollback
  BY <1>6, ValidateChangeKeeps, ProductionStepKeeps, VerifyGitRollbackKeeps
<1>7. CASE Unanswered \/ Crash \/ OtherMerge
  BY <1>7, UnansweredKeeps, CrashKeeps, OtherMergeKeeps
<1>8. CASE UNCHANGED vars
  BY <1>8, StutterKeeps
<1>9. QED
  BY <1>1, <1>2, <1>3, <1>4, <1>5, <1>6, <1>7, <1>8 DEF Next

LEMMA InitDriver == ASSUME Init PROVE DriverInv
<1>1. journal \in Journals /\ tree \in Trees /\ hub \in Hubs
  BY DEF Init, NoJournal, Journals, Trees, Hubs, Requests, Base
<1>2. Control
  BY DEF Init, Control, Steps, LabelsOf, ScopeLabels, Verdicts, Validation, AfterMerge, Rollback
<1>3. Facts(step, outcome, journal, tree, hub, published)
  BY <1>1 DEF Init, NoJournal, Facts, Shape, Ahead, Recorded, Phase, AfterMerge
<1>4. Announced(pc, journal, hub) /\ Swept(pc, tree)
  BY PlainLabels DEF Init, Announcing, Sweeping
<1>5. QED
  BY <1>2, <1>3, <1>4 DEF DriverInv

(* The invariant the theorems below rest on: in every step of the plan, and *)
(* at every label of it, whatever failed, crashed or was merged by others,  *)
(* the journal, the worktrees and GitHub stand as the step expects them.    *)
THEOREM DriverInvariant == Spec => []DriverInv
<1>1. Init => DriverInv
  BY InitDriver
<1>2. DriverInv /\ [Next]_vars => DriverInv'
  BY NextKeeps
<1>3. QED
  BY <1>1, <1>2, PTL DEF Spec

(* driver.ts: updateState before every command that changes a worktree or   *)
(* GitHub, so that no effect is ever unknown to a driver that restarts.     *)
THEOREM JournalRunsAhead == Spec => []WriteAhead
<1>1. DriverInv => WriteAhead
  BY DEF DriverInv, Facts, Ahead, WriteAhead
<1>2. QED
  BY <1>1, DriverInvariant, PTL

(* driver.ts: assertMergeParents and the accepted step before the build.    *)
(* Only the merge of the authorized base and the release commit is built or *)
(* accepted, however many changes others merge meanwhile.                   *)
THEOREM OnlyAuthorizedIsBuilt == Spec => []BuiltAsAuthorized
<1>1. ASSUME DriverInv, tree.build \/ verdict = "accepted"
      PROVE  journal.mergedRevision # 0
  <2>1. CASE tree.build
    BY <1>1, <2>1 DEF DriverInv, Facts, Recorded
  <2>2. CASE verdict = "accepted"
    <3>1. pc = "ended" /\ outcome = "accepted"
      BY <1>1, <2>2 DEF DriverInv, Control
    <3>2. step = "cleanup-release"
      BY <1>1, <3>1 DEF DriverInv, Control, LabelsOf, Steps, ScopeLabels, ReleaseLabels, RollbackLabels
    <3>3. QED
      BY <1>1, <3>1, <3>2 DEF DriverInv, Facts, Phase
  <2>3. QED
    BY <1>1, <2>1, <2>2
<1>2. DriverInv => BuiltAsAuthorized
  BY <1>1 DEF DriverInv, Facts, Recorded, BuiltAsAuthorized
<1>3. QED
  BY <1>2, DriverInvariant, PTL

(* cleanup: a run that ends accepted or rejected has removed every worktree *)
(* and every branch it made, wherever it failed or crashed before.          *)
THEOREM EndsClean == Spec => []CleanEnd
<1>1. DriverInv => CleanEnd
  BY DEF DriverInv, Control, Clean, CleanEnd
<1>2. QED
  BY <1>1, DriverInvariant, PTL

LEMMA EndedIsCleanup ==
  ASSUME DriverInv, pc = "ended" PROVE step = "cleanup-release" /\ verdict = outcome
  BY DEF DriverInv, Control, LabelsOf, Steps, ScopeLabels, ReleaseLabels, RollbackLabels

(* rollbackGit and verifyGitRollback: a release rejected before production  *)
(* was touched can no longer reach master, or was reverted there.           *)
THEOREM RejectedStaysOut == Spec => []RejectedIsWithdrawn
<1>1. DriverInv /\ verdict = "rejected" => pc = "ended"
  BY DEF DriverInv, Control
<1>2. DriverInv => RejectedIsWithdrawn
  BY <1>1, EndedIsCleanup DEF DriverInv, Facts, Phase, Withdrawn, RejectedIsWithdrawn
<1>3. QED
  BY <1>2, DriverInvariant, PTL

-----------------------------------------------------------------------------
(* Types.                                                                  *)
Counted == faults \in 0..MaxFaults /\ crashes \in 0..MaxCrashes /\ others \in 0..MaxOthers

Counts == (faults' = faults \/ (faults < MaxFaults /\ faults' = faults + 1)) /\ UNCHANGED <<crashes, others>>

LEMMA ScopeCounts == ASSUME ValidateScope \/ ValidateChange PROVE Counts
  BY DEF Counts, ValidateScope, Scope, WorktreeAdd, Apply, Staged, Prepared, ValidateChange, Record, Assert,
         Command, bounds

LEMMA ReleaseCounts == ASSUME GitReleaseStep PROVE Counts
<1>1. CASE GitRelease \/ RemoteBase \/ Commit \/ ReleaseCommit \/ Head \/ Pushing \/ Push \/ Pushed
  BY <1>1 DEF Counts, GitRelease, RemoteBase, Commit, ReleaseCommit, Head, Pushing, Push, Pushed, Record,
              Assert, Command, bounds
<1>2. CASE Find \/ Create \/ Url \/ Revisions \/ Merging \/ Merge \/ Fetch \/ MergedRevision
  BY <1>2 DEF Counts, Find, Create, Url, Revisions, Merging, Merge, Fetch, MergedRevision, Record, Assert,
              Command, bounds
<1>3. QED
  BY <1>1, <1>2 DEF GitReleaseStep

LEMMA RollbackCounts == ASSUME RollbackGit PROVE Counts
<1>1. CASE Recover \/ MergedLate \/ Close \/ Delete \/ Prepare \/ AddRevert \/ Revert \/ RollbackCommit
  BY <1>1 DEF Counts, Recover, MergedLate, Close, Delete, Prepare, AddRevert, Revert, RollbackCommit, Record,
              Try, Command, bounds
<1>2. CASE RevertPushing \/ RevertPush \/ RevertPushed \/ RevertFind \/ RevertCreate \/ RevertUrl
  BY <1>2 DEF Counts, RevertPushing, RevertPush, RevertPushed, RevertFind, RevertCreate, RevertUrl, Record,
              Command, bounds
<1>3. CASE RevertRevisions \/ RevertMerging \/ RevertMerge \/ Reverted \/ RevertedRevision
  BY <1>3 DEF Counts, RevertRevisions, RevertMerging, RevertMerge, Reverted, RevertedRevision, Record, Assert,
              Command, bounds
<1>4. QED
  BY <1>1, <1>2, <1>3 DEF RollbackGit

LEMMA OtherCounts ==
  ASSUME BuildMerged \/ ProductionStep \/ VerifyGitRollback \/ Cleanup \/ Unanswered PROVE Counts
<1>1. CASE BuildMerged
  BY <1>1 DEF Counts, BuildMerged, BuildWorktree, AddBuild, Build, Manifest, Record, Assert, Command, bounds
<1>2. CASE Cleanup
  BY <1>2 DEF Counts, Cleanup, Worktrees, Branches, Cleaned, Record, Command, bounds
<1>3. CASE ProductionStep \/ VerifyGitRollback \/ Unanswered
  BY <1>3 DEF Counts, ProductionStep, VerifyGitRollback, Unanswered, Assert, bounds
<1>4. QED
  BY <1>1, <1>2, <1>3

LEMMA CountedKeeps == ASSUME Counted, [Next]_vars PROVE Counted'
<1>1. CASE Counts
  BY <1>1, DriverConstants DEF Counts, Counted
<1>2. CASE Crash \/ OtherMerge
  BY <1>2, DriverConstants DEF Crash, OtherMerge, Counted
<1>3. CASE UNCHANGED vars
  BY <1>3 DEF vars, Counted
<1>4. QED
  BY <1>1, <1>2, <1>3, ScopeCounts, ReleaseCounts, RollbackCounts, OtherCounts DEF Next

LEMMA LabelsListed == ASSUME Control PROVE pc \in Labels
  BY DEF Control, LabelsOf, Labels, ScopeLabels, ReleaseLabels, RollbackLabels, CleanupLabels

LEMMA JournalTyped ==
  ASSUME journal \in Journals, NEW f \in DOMAIN journal
  PROVE  IF f \in {"mergedRevision", "rollbackBaseRevision", "rollbackMergedRevision"}
         THEN journal[f] \in Heights ELSE journal[f] \in BOOLEAN
  BY DEF Journals, Heights

(* Types of driver.ts: the driver is at a label of its step, and the        *)
(* journal, the worktrees and GitHub keep their shapes.                     *)
THEOREM DriverTypes == Spec => []TypeOK
<1>1. Init => Counted
  BY DriverConstants DEF Init, Counted
<1>2. Spec => []Counted
  BY <1>1, CountedKeeps, PTL DEF Spec
<1>3. DriverInv /\ Counted => TypeOK
  <2>1. SUFFICES ASSUME DriverInv, Counted PROVE TypeOK
    OBVIOUS
  <2>2. Control /\ journal \in Journals /\ tree \in Trees /\ hub \in Hubs /\ published \in BOOLEAN
    BY <2>1 DEF DriverInv, Facts, Shape
  <2>3. verdict \in Verdicts \cup {"running"} /\ outcome \in Verdicts /\ step \in Steps /\ pc \in Labels
    BY <2>2, LabelsListed DEF Control
  <2>4. hub \in [height : Heights, merged : Heights, reverted : Heights, branch : BOOLEAN,
                 revertBranch : BOOLEAN, pr : PullRequests, revertPr : PullRequests]
    BY <2>2 DEF Hubs, Requests, PullRequests, Heights
  <2>5. QED
    BY <2>1, <2>2, <2>3, <2>4, JournalTyped DEF TypeOK, Trees, Counted
<1>4. QED
  BY <1>2, <1>3, DriverInvariant, PTL

-----------------------------------------------------------------------------
(* The run as a step of ReleaseOutcome.                                    *)
InMaster == hub.merged # 0 /\ hub.reverted = 0

LEMMA ScopeMoves ==
  ASSUME ValidateScope \/ ValidateChange
  PROVE  /\ pc \in ScopeLabels \cup {"check"} /\ published' = published
         /\ Reject \/ Accepted \/ verdict' = verdict
  BY DEF ValidateScope, Scope, WorktreeAdd, Apply, Staged, Prepared, ScopeDone, ValidateChange, Record, Assert,
         Command, Continue, ScopeLabels

LEMMA ReleaseMoves ==
  ASSUME GitReleaseStep
  PROVE  /\ pc \in ReleaseLabels /\ published' = published
         /\ Reject \/ Accepted \/ verdict' = verdict
<1>1. CASE \/ GitRelease \/ RemoteBase \/ Commit \/ ReleaseCommit \/ Head \/ Pushing \/ Push \/ Pushed
  BY <1>1 DEF GitRelease, RemoteBase, Commit, ReleaseCommit, Head, Pushing, Push, Pushed, Record, Assert,
              Command, Continue, ReleaseLabels
<1>2. CASE Find \/ Create \/ Url \/ Revisions \/ Merging \/ Merge \/ Fetch \/ MergedRevision
  BY <1>2 DEF Find, Create, Url, Revisions, Merging, Merge, Fetch, MergedRevision, Record, Assert, Command,
              Continue, ReleaseLabels
<1>3. QED
  BY <1>1, <1>2 DEF GitReleaseStep

LEMMA BuildMoves ==
  ASSUME BuildMerged
  PROVE  /\ pc \in {"worktree", "addBuild", "build", "manifest"} /\ published' = published
         /\ Reject \/ Accepted \/ verdict' = verdict
  BY DEF BuildMerged, BuildWorktree, AddBuild, Build, Manifest, Record, Assert, Command, Continue

LEMMA RollbackMoves ==
  ASSUME RollbackGit
  PROVE  /\ pc \in RollbackLabels /\ published' = published
         /\ Reject \/ Accepted \/ verdict' = verdict
<1>1. CASE Recover \/ MergedLate \/ Close \/ Delete \/ Prepare \/ AddRevert \/ Revert \/ RollbackCommit
  BY <1>1 DEF Recover, MergedLate, Close, Delete, Prepare, AddRevert, Revert, RollbackCommit, Record, Try,
              Command, Continue, RollbackLabels
<1>2. CASE RevertPushing \/ RevertPush \/ RevertPushed \/ RevertFind \/ RevertCreate \/ RevertUrl
  BY <1>2 DEF RevertPushing, RevertPush, RevertPushed, RevertFind, RevertCreate, RevertUrl, Record, Command,
              Continue, RollbackLabels
<1>3. CASE RevertRevisions \/ RevertMerging \/ RevertMerge \/ Reverted \/ RevertedRevision
  BY <1>3 DEF RevertRevisions, RevertMerging, RevertMerge, Reverted, RevertedRevision, Record, Assert, Command,
              Continue, RollbackLabels
<1>4. QED
  BY <1>1, <1>2, <1>3 DEF RollbackGit

LEMMA CleanupMoves ==
  ASSUME Cleanup
  PROVE  /\ pc \in CleanupLabels /\ published' = published /\ hub' = hub
         /\ Reject \/ Accepted \/ verdict' = verdict
  BY DEF Cleanup, Worktrees, Branches, Cleaned, Record, Command, Continue, CleanupLabels

\* The verdict is given at the end of the cleanup, and nothing else changes then.
LEMMA VerdictMoves ==
  ASSUME DriverInv, Next, ~ProductionStep
  PROVE  /\ published' = published /\ pc # "ended"
         /\ \/ verdict' = verdict
            \/ /\ step = "cleanup-release" /\ InMaster' = InMaster
               /\ verdict' \in {outcome, "abnormal"}
<1>1. Control
  BY DEF DriverInv
<1>2. CASE ValidateScope \/ ValidateChange
  <2>1. step # "cleanup-release" /\ pc # "ended"
    BY <1>1, <1>2, ScopeMoves, Where DEF ScopeLabels, Validation
  <2>2. QED
    BY <1>2, <2>1, ScopeMoves DEF Reject, Accepted, Begin
<1>3. CASE GitReleaseStep
  <2>1. step # "cleanup-release" /\ pc # "ended"
    BY <1>1, <1>3, ReleaseMoves, ReleaseLabelsHere
  <2>2. QED
    BY <1>3, <2>1, ReleaseMoves DEF Reject, Accepted, Begin
<1>4. CASE BuildMerged
  <2>1. step # "cleanup-release" /\ pc # "ended"
    BY <1>1, <1>4, BuildMoves, BuildLabelsHere
  <2>2. QED
    BY <1>4, <2>1, BuildMoves DEF Reject, Accepted, Begin
<1>5. CASE RollbackGit
  <2>1. step # "cleanup-release" /\ pc # "ended"
    BY <1>1, <1>5, RollbackMoves, RollbackLabelsHere
  <2>2. QED
    BY <1>5, <2>1, RollbackMoves DEF Reject, Accepted, Begin
<1>6. CASE VerifyGitRollback
  <2>1. step # "cleanup-release" /\ pc # "ended"
    BY <1>1, <1>6, Where DEF VerifyGitRollback, Assert
  <2>2. (Reject \/ Accepted) /\ published' = published
    BY <1>6 DEF VerifyGitRollback, Assert
  <2>3. QED
    BY <2>1, <2>2 DEF Reject, Accepted, Begin
<1>7. CASE Cleanup
  <2>1. step = "cleanup-release" /\ pc # "ended"
    BY <1>1, <1>7, CleanupMoves, CleanupLabelsHere
  <2>2. verdict' = verdict \/ verdict' \in {outcome, "abnormal"}
    BY <1>7, <2>1, CleanupMoves DEF Reject, Accepted
  <2>3. QED
    BY <1>7, <2>1, <2>2, CleanupMoves DEF InMaster
<1>8. CASE Unanswered
  <2>1. step # "cleanup-release" /\ pc # "ended"
    BY <1>1, <1>8, Where DEF Unanswered, ScopeLabels, ReleaseLabels, RollbackLabels
  <2>2. QED
    BY <1>8, <2>1 DEF Unanswered, Reject, Begin
<1>9. CASE Crash
  <2>1. pc # "ended" /\ published' = published /\ hub' = hub
    BY <1>9 DEF Crash
  <2>2. CASE step = "cleanup-release"
    BY <1>9, <2>1, <2>2 DEF Crash, Reject, InMaster
  <2>3. CASE step # "cleanup-release"
    BY <1>9, <2>1, <2>3 DEF Crash, Reject, Begin
  <2>4. QED
    BY <2>2, <2>3
<1>10. CASE OtherMerge
  BY <1>10 DEF OtherMerge
<1>11. QED
  BY <1>2, <1>3, <1>4, <1>5, <1>6, <1>7, <1>8, <1>9, <1>10 DEF Next

\* Production is touched only while the release is in master.
LEMMA PublishMoves ==
  ASSUME DriverInv, ProductionStep
  PROVE  /\ verdict' = verdict /\ verdict = "running" /\ InMaster' = InMaster
         /\ published' = published \/ (published' /\ InMaster)
<1>1. Control /\ pc = "production" /\ UNCHANGED <<journal, tree, hub>>
  BY DEF DriverInv, ProductionStep
<1>2. step \in (AfterMerge \ {"build-merged-master"}) \cup {"rollback-production"}
  BY <1>1, Where
<1>3. verdict' = verdict /\ verdict = "running"
  BY <1>1, <1>2 DEF ProductionStep, Reject, Accepted, Begin, AfterMerge, Control
<1>4. InMaster
  BY <1>2 DEF DriverInv, Facts, Phase, Recorded, InMaster, AfterMerge, Base
<1>5. published' = published \/ published'
  BY DEF ProductionStep, DriverInv, Facts
<1>6. QED
  BY <1>1, <1>3, <1>4, <1>5 DEF InMaster

LEMMA OutcomeStep ==
  ASSUME DriverInv, [Next]_vars
  PROVE  [RO!Next]_<<InMaster, published, verdict>>
<1>1. CASE UNCHANGED vars
  BY <1>1 DEF vars, InMaster
<1>2. CASE ProductionStep
  BY <1>2, PublishMoves DEF RO!Next, RO!Publish, InMaster
<1>3. CASE Next /\ ~ProductionStep
  <2>1. published' = published /\ pc # "ended" /\ verdict = "running"
    BY <1>3, VerdictMoves DEF DriverInv, Control
  <2>2. CASE verdict' = verdict
    <3>1. CASE InMaster' /\ ~InMaster
      BY <2>1, <2>2, <3>1 DEF RO!Next, RO!Merge, InMaster
    <3>2. CASE InMaster /\ ~InMaster'
      BY <2>1, <2>2, <3>2 DEF RO!Next, RO!Revert, InMaster
    <3>3. CASE InMaster' = InMaster
      BY <2>1, <2>2, <3>3
    <3>4. QED
      BY <3>1, <3>2, <3>3 DEF InMaster
  <2>3. CASE /\ step = "cleanup-release" /\ InMaster' = InMaster
             /\ verdict' \in {outcome, "abnormal"}
    <3>1. CASE verdict' = "abnormal"
      BY <2>1, <2>3, <3>1 DEF RO!Next, RO!End, RO!GiveUp, InMaster
    <3>2. CASE verdict' = "accepted" /\ outcome = "accepted"
      <4>1. InMaster
        BY <2>3, <3>2 DEF DriverInv, Facts, Phase, Recorded, InMaster, Base
      <4>2. QED
        BY <2>1, <2>3, <3>2, <4>1 DEF RO!Next, RO!End, RO!Accept, InMaster
    <3>3. CASE verdict' = "rejected" /\ outcome = "rejected"
      <4>1. published \/ ~InMaster
        BY <2>3, <3>3 DEF DriverInv, Facts, Phase, Withdrawn, InMaster
      <4>2. QED
        BY <2>1, <2>3, <3>3, <4>1 DEF RO!Next, RO!End, RO!Reject, InMaster
    <3>4. QED
      BY <2>3, <3>1, <3>2, <3>3 DEF DriverInv, Control, Verdicts
  <2>4. QED
    BY <1>3, <2>2, <2>3, VerdictMoves
<1>4. QED
  BY <1>1, <1>2, <1>3 DEF Next

(* The refinement: with any faults, crashes and merges of others, a release *)
(* reported as accepted is in master, and one reported as rejected is not,  *)
(* unless production had been touched.                                      *)
THEOREM OutcomeIsKept == Spec => Outcome
<1>1. Init => RO!Init
  BY DEF Init, RO!Init, Base
<1>2. DriverInv /\ [Next]_vars => [RO!Next]_<<hub.merged # 0 /\ hub.reverted = 0, published, verdict>>
  BY OutcomeStep DEF InMaster
<1>3. QED
  BY <1>1, <1>2, DriverInvariant, PTL DEF Spec, Outcome, RO!Spec
=============================================================================
