--------------------------- MODULE ReleaseDriver ---------------------------
(***************************************************************************)
(* The journalled git driver of the release machine (driver.ts) under the  *)
(* release plan (contracts.ts): a change is staged in a worktree of its    *)
(* own, committed, pushed, merged through a pull request, built, and on    *)
(* failure closed or reverted through a second pull request.  Every git or *)
(* gh command is a step of its own, and so is every journal write: the     *)
(* process may die between any two, a command may fail or lose its answer, *)
(* and others push to master.                                              *)
(***************************************************************************)
EXTENDS Naturals

CONSTANTS Production,   \* whether the plan is the dashboard one, with production steps
          MaxFaults, MaxCrashes, MaxOthers

ASSUME DriverConstants ==
    /\ Production \in BOOLEAN
    /\ MaxFaults \in Nat /\ MaxCrashes \in Nat /\ MaxOthers \in Nat

VARIABLES step,        \* the step of the plan that runs
          pc,          \* the command or journal write that comes next
          verdict,     \* how the run ended
          outcome,     \* the verdict it is heading for
          journal,     \* driver-state.json
          tree,        \* the local worktrees and branches
          hub,         \* the repository on GitHub
          published,   \* a production step was started
          faults, crashes, others

vars == <<step, pc, verdict, outcome, journal, tree, hub, published, faults, crashes, others>>

-----------------------------------------------------------------------------
(* master is linear: the commit at height 1 is the authorized base.  The   *)
(* first parent of a merge at height n is the commit at height n - 1.      *)
Base == 1

NoJournal ==
    [releasePreparationRequested |-> FALSE, releaseWorktreePrepared |-> FALSE, releaseCommit |-> FALSE,
     releasePushRequested |-> FALSE, releasePushed |-> FALSE, pullRequestRequested |-> FALSE,
     pullRequestUrl |-> FALSE, mergeRequested |-> FALSE, mergedRevision |-> 0,
     buildWorktreeRequested |-> FALSE, buildManifestHash |-> FALSE, rollbackPreparationRequested |-> FALSE,
     rollbackBaseRevision |-> 0, rollbackCommit |-> FALSE, rollbackPushRequested |-> FALSE,
     rollbackPushed |-> FALSE, rollbackPullRequestRequested |-> FALSE, rollbackPullRequestUrl |-> FALSE,
     rollbackMergeRequested |-> FALSE, rollbackMergedRevision |-> 0, cleaned |-> FALSE]

Steps == {"validate-scope", "validate-change", "verify-layout-review", "verify-affected-playwright",
          "create-merge-pr", "build-merged-master", "capture-production", "deploy-both-hosts",
          "verify-production", "rollback-production", "rollback-git", "verify-git-rollback",
          "cleanup-release"}

(* The plan: what follows an accepted step, and where a rejected one leads. *)
Entry(s) ==
    CASE s = "validate-scope" -> "scope"
      [] s \in {"validate-change", "verify-layout-review", "verify-affected-playwright"} -> "check"
      [] s = "create-merge-pr" -> "release"
      [] s = "build-merged-master" -> "worktree"
      [] s = "rollback-git" -> "recover"
      [] s = "verify-git-rollback" -> "verify"
      [] s = "cleanup-release" -> "worktrees"
      [] OTHER -> "production"

Following(s) ==
    CASE s = "validate-scope" -> "validate-change"
      [] s = "validate-change" -> IF Production THEN "verify-layout-review" ELSE "create-merge-pr"
      [] s = "verify-layout-review" -> "verify-affected-playwright"
      [] s = "verify-affected-playwright" -> "create-merge-pr"
      [] s = "create-merge-pr" -> "build-merged-master"
      [] s = "build-merged-master" -> IF Production THEN "capture-production" ELSE "cleanup-release"
      [] s = "capture-production" -> "deploy-both-hosts"
      [] s = "deploy-both-hosts" -> "verify-production"
      [] s = "rollback-git" -> "verify-git-rollback"
      [] OTHER -> "cleanup-release"

FailureKeepsMerge(s) ==
    CASE s \in {"create-merge-pr", "capture-production"} -> "rollback-git"
      [] s \in {"deploy-both-hosts", "verify-production"} -> "rollback-production"
      [] OTHER -> "cleanup-release"

Failure(s) ==
    CASE s \in {"create-merge-pr", "build-merged-master", "capture-production"} -> "rollback-git"
      [] s \in {"deploy-both-hosts", "verify-production"} -> "rollback-production"
      [] OTHER -> "cleanup-release"

RollbackOnly == {"rollback-git", "verify-git-rollback", "rollback-production"}

Begin(s) == step' = s /\ pc' = Entry(s)

\* outcome is the verdict the run is heading for: a failed rollback or cleanup makes it abnormal.
Reject ==
    IF step = "cleanup-release"
    THEN /\ pc' = "ended"
         /\ verdict' = "abnormal" /\ outcome' = "abnormal"
         /\ UNCHANGED step
    ELSE /\ Begin(Failure(step))
         /\ outcome' = IF step \in RollbackOnly THEN "abnormal"
                       ELSE IF outcome = "accepted" THEN "rejected" ELSE outcome
         /\ UNCHANGED verdict

Accepted ==
    IF step = "cleanup-release"
    THEN pc' = "ended" /\ verdict' = outcome /\ UNCHANGED <<step, outcome>>
    ELSE Begin(Following(step)) /\ UNCHANGED <<verdict, outcome>>

Continue(l) == pc' = l /\ UNCHANGED <<step, verdict, outcome>>

bounds == <<faults, crashes, others>>

-----------------------------------------------------------------------------
(* The three kinds of step.  Each names the control that follows as an     *)
(* action: Continue(label), Accepted or Reject.                            *)
Record(l, change, then) ==
    /\ pc = l
    /\ journal' = change
    /\ then
    /\ UNCHANGED <<tree, hub, published, bounds>>

Assert(l, ok, then) ==
    /\ pc = l
    /\ \/ ok /\ then /\ UNCHANGED faults
       \/ ~ok /\ Reject /\ UNCHANGED faults
       \/ faults < MaxFaults /\ faults' = faults + 1 /\ Reject
    /\ UNCHANGED <<journal, tree, hub, published, crashes, others>>

\* A command that changes the worktrees or GitHub: it may fail, with or without its effect.
Command(l, ok, newTree, newHub, then) ==
    /\ pc = l
    /\ \/ ok /\ tree' = newTree /\ hub' = newHub /\ then /\ UNCHANGED faults
       \/ ~ok /\ Reject /\ UNCHANGED <<tree, hub, faults>>
       \/ /\ ok /\ faults < MaxFaults /\ faults' = faults + 1
          /\ \/ tree' = newTree /\ hub' = newHub
             \/ UNCHANGED <<tree, hub>>
          /\ Reject
    /\ UNCHANGED <<journal, published, crashes, others>>

\* allowFailure: the exit status is not looked at.
Try(l, newTree, newHub, then) ==
    /\ pc = l
    /\ \/ tree' = newTree /\ hub' = newHub /\ UNCHANGED faults
       \/ faults < MaxFaults /\ faults' = faults + 1 /\ UNCHANGED <<tree, hub>>
    /\ then
    /\ UNCHANGED <<journal, published, crashes, others>>

-----------------------------------------------------------------------------
(* validateScope, alone or at the head of gitRelease.                      *)
ScopeDone == IF step = "validate-scope" THEN Accepted ELSE Continue("base")

Scope ==
    /\ pc = "scope"
    /\ IF journal.releaseWorktreePrepared
       THEN Continue("staged") /\ UNCHANGED journal
       ELSE IF journal.releasePreparationRequested \/ tree.release # "none" \/ tree.branch
       THEN Reject /\ UNCHANGED journal
       ELSE /\ journal' = [journal EXCEPT !.releasePreparationRequested = TRUE]
            /\ Continue("add")
    /\ UNCHANGED <<tree, hub, published, bounds>>

WorktreeAdd ==
    Command("add", tree.release = "none" /\ ~tree.branch,
            [tree EXCEPT !.release = "added", !.branch = TRUE], hub, Continue("apply"))

Apply == Command("apply", TRUE, [tree EXCEPT !.release = "staged"], hub, Continue("staged"))

Staged == Assert("staged", tree.release = "staged", Continue("prepared"))

Prepared ==
    Record("prepared", [journal EXCEPT !.releaseWorktreePrepared = TRUE], ScopeDone)

ValidateChange ==
    Assert("check", journal.releaseWorktreePrepared /\ tree.release = "staged", Accepted)

-----------------------------------------------------------------------------
(* gitRelease.                                                             *)
GitRelease == Record("release", journal, Continue(IF journal.releaseCommit THEN "base" ELSE "scope"))

RemoteBase ==
    Assert("base", hub.height = Base, Continue(IF journal.releaseCommit THEN "head" ELSE "commit"))

Commit ==
    Command("commit", tree.release = "staged", [tree EXCEPT !.release = "committed"], hub,
            Continue("releaseCommit"))

ReleaseCommit == Record("releaseCommit", [journal EXCEPT !.releaseCommit = TRUE], Continue("pushing"))

Head == Assert("head", tree.release = "committed", Continue("pushing"))

Pushing ==
    /\ pc = "pushing"
    /\ IF journal.releasePushed THEN Continue("find") /\ UNCHANGED journal
       ELSE /\ journal' = [journal EXCEPT !.releasePushRequested = TRUE]
            /\ Continue("push")
    /\ UNCHANGED <<tree, hub, published, bounds>>

Push == Command("push", TRUE, tree, [hub EXCEPT !.branch = TRUE], Continue("pushed"))

Pushed == Record("pushed", [journal EXCEPT !.releasePushed = TRUE], Continue("find"))

\* The base GitHub reports: of an open pull request the tip of master or the tip it was opened
\* at, of a merged one the first parent of its merge.
Bases(pr) == IF pr.state = "open" THEN {pr.base, hub.height} ELSE {pr.base}

Found(pr, base) == {b \in Bases(pr) : pr.state # "none" /\ b = base} # {}
Missed(pr, base) == pr.state = "none" \/ Bases(pr) # {base}

Find ==
    /\ pc = "find"
    /\ \/ /\ journal.pullRequestUrl \/ Found(hub.pr, Base)
          /\ Continue("url") /\ UNCHANGED journal
       \/ /\ ~journal.pullRequestUrl /\ Missed(hub.pr, Base)
          /\ journal' = [journal EXCEPT !.pullRequestRequested = TRUE]
          /\ Continue("create")
    /\ UNCHANGED <<tree, hub, published, bounds>>

Create ==
    Command("create", hub.branch /\ hub.pr.state # "open", tree,
            [hub EXCEPT !.pr = [state |-> "open", base |-> hub.height]], Continue("url"))

Url == Record("url", [journal EXCEPT !.pullRequestUrl = TRUE], Continue("revisions"))

Revisions ==
    \E b \in Bases(hub.pr) :
        Assert("revisions", b = Base, Continue(IF hub.pr.state = "merged" THEN "fetch" ELSE "merging"))

MergingUnrecorded == Record("merging", journal, Continue("merge"))

Merging == Record("merging", [journal EXCEPT !.mergeRequested = TRUE], Continue("merge"))

Merge ==
    Command("merge", hub.pr.state = "open", tree,
            [hub EXCEPT !.pr = [state |-> "merged", base |-> hub.height],
                        !.height = @ + 1, !.merged = hub.height + 1],
            Continue("fetch"))

ParentsUnchecked == hub.pr.state = "merged"

\* assertMergeParents
MergeParents == hub.pr.state = "merged" /\ hub.merged = Base + 1

Fetch == Assert("fetch", MergeParents, Continue("mergedRevision"))

MergedRevision == Record("mergedRevision", [journal EXCEPT !.mergedRevision = hub.merged], Accepted)

-----------------------------------------------------------------------------
(* buildMerged, and the production steps as their own driver reports them.  *)
BuildWorktree ==
    /\ pc = "worktree"
    /\ IF ~journal.releaseCommit \/ journal.mergedRevision = 0
            \/ (tree.build /\ ~journal.buildWorktreeRequested)
       THEN Reject /\ UNCHANGED journal
       ELSE IF tree.build THEN Continue("build") /\ UNCHANGED journal
       ELSE /\ journal' = [journal EXCEPT !.buildWorktreeRequested = TRUE]
            /\ Continue("addBuild")
    /\ UNCHANGED <<tree, hub, published, bounds>>

AddBuild == Command("addBuild", ~tree.build, [tree EXCEPT !.build = TRUE], hub, Continue("build"))

Build == Assert("build", tree.build, Continue("manifest"))

Manifest == Record("manifest", [journal EXCEPT !.buildManifestHash = TRUE], Accepted)

ProductionStep ==
    /\ pc = "production"
    /\ \/ journal.buildManifestHash /\ Accepted
       \/ Reject
    /\ published' = (published \/ step # "capture-production")
    /\ UNCHANGED <<journal, tree, hub, bounds>>

-----------------------------------------------------------------------------
(* rollbackGit: what was never proposed is deleted, what is open is closed, *)
(* what was merged is reverted.                                            *)
Recover ==
    /\ pc = "recover"
    /\ \/ /\ ~journal.pullRequestUrl /\ journal.releaseCommit /\ journal.releasePushRequested
          /\ \/ /\ Found(hub.pr, Base)
                /\ journal' = [journal EXCEPT !.pullRequestUrl = TRUE]
                /\ Continue("mergedLate")
             \/ Missed(hub.pr, Base) /\ Continue("delete") /\ UNCHANGED journal
       \/ /\ ~journal.pullRequestUrl /\ ~(journal.releaseCommit /\ journal.releasePushRequested)
          /\ Accepted /\ UNCHANGED journal
       \/ journal.pullRequestUrl /\ Continue("mergedLate") /\ UNCHANGED journal
    /\ UNCHANGED <<tree, hub, published, bounds>>

MergedLate ==
    /\ pc = "mergedLate"
    /\ IF journal.mergedRevision # 0 THEN Continue("prepare") /\ UNCHANGED journal
       ELSE IF hub.pr.state # "merged" THEN Continue("close") /\ UNCHANGED journal
       ELSE IF ~MergeParents \/ ~journal.releaseCommit THEN Reject /\ UNCHANGED journal
       ELSE /\ journal' = [journal EXCEPT !.mergedRevision = hub.merged]
            /\ Continue("prepare")
    /\ UNCHANGED <<tree, hub, published, bounds>>

\* GitHub closes an open pull request with its branch.
ClosedPr(pr) == IF pr.state = "open" THEN [pr EXCEPT !.state = "closed"] ELSE pr

Close == Try("close", tree, [hub EXCEPT !.pr = ClosedPr(@)], Continue("delete"))

Delete == Try("delete", tree, [hub EXCEPT !.branch = FALSE, !.pr = ClosedPr(@)], Accepted)

Prepare ==
    /\ pc = "prepare"
    /\ IF journal.rollbackCommit THEN Continue("revertPushing") /\ UNCHANGED journal
       ELSE IF tree.revert # "none" \/ tree.revertBranch THEN Reject /\ UNCHANGED journal
       ELSE /\ journal' = [journal EXCEPT !.rollbackPreparationRequested = TRUE,
                                          !.rollbackBaseRevision = hub.height]
            /\ Continue("addRevert")
    /\ UNCHANGED <<tree, hub, published, bounds>>

AddRevert ==
    Command("addRevert", TRUE, [tree EXCEPT !.revert = "added", !.revertBranch = TRUE], hub,
            Continue("revert"))

Revert == Command("revert", TRUE, [tree EXCEPT !.revert = "committed"], hub, Continue("rollbackCommit"))

RollbackCommit ==
    Record("rollbackCommit", [journal EXCEPT !.rollbackCommit = TRUE], Continue("revertPushing"))

RevertPushing ==
    /\ pc = "revertPushing"
    /\ IF journal.rollbackPushed THEN Continue("revertFind") /\ UNCHANGED journal
       ELSE /\ journal' = [journal EXCEPT !.rollbackPushRequested = TRUE]
            /\ Continue("revertPush")
    /\ UNCHANGED <<tree, hub, published, bounds>>

RevertPush ==
    Command("revertPush", tree.revert = "committed", tree, [hub EXCEPT !.revertBranch = TRUE],
            Continue("revertPushed"))

RevertPushed == Record("revertPushed", [journal EXCEPT !.rollbackPushed = TRUE], Continue("revertFind"))

RevertFind ==
    /\ pc = "revertFind"
    /\ \/ /\ journal.rollbackPullRequestUrl \/ Found(hub.revertPr, journal.rollbackBaseRevision)
          /\ Continue("revertUrl") /\ UNCHANGED journal
       \/ /\ ~journal.rollbackPullRequestUrl /\ Missed(hub.revertPr, journal.rollbackBaseRevision)
          /\ journal' = [journal EXCEPT !.rollbackPullRequestRequested = TRUE]
          /\ Continue("revertCreate")
    /\ UNCHANGED <<tree, hub, published, bounds>>

RevertCreate ==
    Command("revertCreate", hub.revertBranch /\ hub.revertPr.state # "open", tree,
            [hub EXCEPT !.revertPr = [state |-> "open", base |-> hub.height]], Continue("revertUrl"))

RevertUrl == Record("revertUrl", [journal EXCEPT !.rollbackPullRequestUrl = TRUE], Continue("revertRevisions"))

RevertRevisions ==
    \E b \in Bases(hub.revertPr) :
        Assert("revertRevisions", b = journal.rollbackBaseRevision,
               Continue(IF hub.revertPr.state = "merged" THEN "reverted" ELSE "revertMerging"))

RevertMerging ==
    Record("revertMerging", [journal EXCEPT !.rollbackMergeRequested = TRUE], Continue("revertMerge"))

RevertMerge ==
    Command("revertMerge", hub.revertPr.state = "open", tree,
            [hub EXCEPT !.revertPr = [state |-> "merged", base |-> hub.height],
                        !.height = @ + 1, !.reverted = hub.height + 1],
            Continue("reverted"))

Reverted ==
    Assert("reverted", hub.revertPr.state = "merged" /\ hub.reverted = journal.rollbackBaseRevision + 1,
           Continue("revertedRevision"))

RevertedRevision ==
    Record("revertedRevision", [journal EXCEPT !.rollbackMergedRevision = hub.reverted], Accepted)

VerifyByJournal ==
    Assert("verify", journal.mergedRevision = 0 \/ journal.rollbackMergedRevision # 0, Accepted)

VerifyGitRollback ==
    Assert("verify",
           IF ~journal.pullRequestUrl THEN journal.mergedRevision = 0 /\ ~hub.branch
           ELSE IF journal.mergedRevision = 0 THEN hub.pr.state = "closed" /\ ~hub.branch
           ELSE /\ journal.rollbackPullRequestUrl /\ journal.rollbackCommit
                /\ journal.rollbackMergedRevision # 0 /\ hub.revertPr.state = "merged",
           Accepted)

-----------------------------------------------------------------------------
(* cleanup                                                                 *)
Worktrees ==
    \/ Command("worktrees", TRUE, [tree EXCEPT !.build = FALSE], hub, Continue("revertWorktree"))
    \/ Command("revertWorktree", TRUE, [tree EXCEPT !.revert = "none"], hub, Continue("releaseWorktree"))
    \/ Command("releaseWorktree", TRUE, [tree EXCEPT !.release = "none"], hub, Continue("branches"))

BranchesRelease ==
    Command("branches", TRUE, [tree EXCEPT !.branch = @ /\ ~journal.releasePreparationRequested],
            hub, Continue("cleaned"))

Branches ==
    Command("branches", TRUE,
            [tree EXCEPT !.branch = @ /\ ~journal.releasePreparationRequested,
                         !.revertBranch = @ /\ ~journal.rollbackPreparationRequested],
            hub, Continue("cleaned"))

Cleaned == Record("cleaned", [journal EXCEPT !.cleaned = TRUE], Accepted)

-----------------------------------------------------------------------------
(* The driver dies: the runner starts the step again or counts it rejected. *)
Crash ==
    /\ pc # "ended" /\ crashes < MaxCrashes
    /\ crashes' = crashes + 1
    /\ (Begin(step) /\ UNCHANGED <<verdict, outcome>>) \/ Reject
    /\ UNCHANGED <<journal, tree, hub, published, faults, others>>

\* A read of git or gh that gets no answer fails its step.
Unanswered ==
    /\ pc \in {"scope", "find", "recover", "mergedLate", "prepare", "revertFind", "worktree"}
    /\ faults < MaxFaults /\ faults' = faults + 1
    /\ Reject
    /\ UNCHANGED <<journal, tree, hub, published, crashes, others>>

\* Somebody else's change reaches master.
OtherMerge ==
    /\ pc # "ended" /\ others < MaxOthers
    /\ others' = others + 1
    /\ hub' = [hub EXCEPT !.height = @ + 1]
    /\ UNCHANGED <<step, pc, verdict, outcome, journal, tree, published, faults, crashes>>

Init ==
    /\ step = "validate-scope" /\ pc = "scope"
    /\ verdict = "running" /\ outcome = "accepted"
    /\ journal = NoJournal
    /\ tree = [release |-> "none", branch |-> FALSE, build |-> FALSE,
               revert |-> "none", revertBranch |-> FALSE]
    /\ hub = [height |-> Base, merged |-> 0, reverted |-> 0, branch |-> FALSE, revertBranch |-> FALSE,
              pr |-> [state |-> "none", base |-> 0], revertPr |-> [state |-> "none", base |-> 0]]
    /\ published = FALSE
    /\ faults = 0 /\ crashes = 0 /\ others = 0

ValidateScope == Scope \/ WorktreeAdd \/ Apply \/ Staged \/ Prepared
GitReleaseStep ==
    \/ GitRelease \/ RemoteBase \/ Commit \/ ReleaseCommit \/ Head \/ Pushing \/ Push \/ Pushed \/ Find
    \/ Create \/ Url \/ Revisions \/ Merging \/ Merge \/ Fetch \/ MergedRevision
BuildMerged == BuildWorktree \/ AddBuild \/ Build \/ Manifest
RollbackGit ==
    \/ Recover \/ MergedLate \/ Close \/ Delete \/ Prepare \/ AddRevert \/ Revert \/ RollbackCommit
    \/ RevertPushing \/ RevertPush \/ RevertPushed \/ RevertFind \/ RevertCreate \/ RevertUrl
    \/ RevertRevisions \/ RevertMerging \/ RevertMerge \/ Reverted \/ RevertedRevision
Cleanup == Worktrees \/ Branches \/ Cleaned

Next ==
    \/ ValidateScope \/ ValidateChange \/ GitReleaseStep \/ BuildMerged \/ ProductionStep
    \/ RollbackGit \/ VerifyGitRollback \/ Cleanup \/ Unanswered \/ Crash \/ OtherMerge

Spec == Init /\ [][Next]_vars

-----------------------------------------------------------------------------
(* Properties                                                              *)

Labels ==
    {"scope", "add", "apply", "staged", "prepared", "check", "release", "base", "commit",
     "releaseCommit", "head", "pushing", "push", "pushed", "find", "create", "url", "revisions",
     "merging", "merge", "fetch", "mergedRevision", "worktree", "addBuild", "build", "manifest",
     "production", "recover", "mergedLate", "close", "delete", "prepare", "addRevert", "revert",
     "rollbackCommit", "revertPushing", "revertPush", "revertPushed", "revertFind", "revertCreate",
     "revertUrl", "revertRevisions", "revertMerging", "revertMerge", "reverted", "revertedRevision",
     "verify", "worktrees", "revertWorktree", "releaseWorktree", "branches", "cleaned", "ended"}

Heights == Nat
PullRequests == [state : {"none", "open", "closed", "merged"}, base : Heights]
Verdicts == {"accepted", "rejected", "abnormal"}

(* The journal holds flags and revisions of master, a pull request is in   *)
(* one of GitHub's states, and the bounds of the model are kept.            *)
TypeOK ==
    /\ step \in Steps /\ pc \in Labels
    /\ verdict \in Verdicts \cup {"running"} /\ outcome \in Verdicts
    /\ \A f \in DOMAIN journal :
          IF f \in {"mergedRevision", "rollbackBaseRevision", "rollbackMergedRevision"}
          THEN journal[f] \in Heights ELSE journal[f] \in BOOLEAN
    /\ tree \in [release : {"none", "added", "staged", "committed"}, branch : BOOLEAN,
                 build : BOOLEAN, revert : {"none", "added", "committed"}, revertBranch : BOOLEAN]
    /\ hub \in [height : Heights, merged : Heights, reverted : Heights, branch : BOOLEAN,
                revertBranch : BOOLEAN, pr : PullRequests, revertPr : PullRequests]
    /\ published \in BOOLEAN
    /\ faults \in 0..MaxFaults /\ crashes \in 0..MaxCrashes /\ others \in 0..MaxOthers

(* Every worktree, branch, pull request and merge the driver made is       *)
(* announced in the journal before it is made, so that a driver restarted  *)
(* at any point knows of all it may have left.                             *)
WriteAhead ==
    /\ tree.branch => journal.releasePreparationRequested
    /\ tree.build => journal.buildWorktreeRequested
    /\ tree.revertBranch => journal.rollbackPreparationRequested
    /\ hub.branch => journal.releasePushRequested
    /\ hub.pr.state # "none" => journal.pullRequestRequested
    /\ hub.merged # 0 => journal.mergeRequested
    /\ hub.revertBranch => journal.rollbackPushRequested
    /\ hub.revertPr.state # "none" => journal.rollbackPullRequestRequested
    /\ hub.reverted # 0 => journal.rollbackMergeRequested

(* What is built, and what an accepted release is, is the merge of exactly *)
(* the authorized base and the release commit, whatever others merged.     *)
BuiltAsAuthorized ==
    (tree.build \/ verdict = "accepted") =>
        /\ hub.merged = Base + 1
        /\ journal.mergedRevision = hub.merged

(* A release that ends accepted or rejected leaves no worktree and no      *)
(* branch of its own behind in the repository.                             *)
CleanEnd ==
    verdict \in {"accepted", "rejected"} =>
        /\ tree.release = "none" /\ tree.revert = "none" /\ ~tree.build
        /\ ~tree.branch /\ ~tree.revertBranch

(* A release rejected before production was touched leaves nothing that    *)
(* could still reach master: no open pull request, no branch unless merged *)
(* and, when merged, reverted.                                             *)
RejectedIsWithdrawn ==
    (verdict = "rejected" /\ ~published) =>
        /\ hub.pr.state # "open"
        /\ hub.branch => hub.reverted # 0
        /\ hub.merged # 0 => hub.reverted # 0

(* The run is a step of the outcome the release machine promises.          *)
RO == INSTANCE ReleaseOutcome WITH inMaster <- hub.merged # 0 /\ hub.reverted = 0
Outcome == RO!Spec

=============================================================================
