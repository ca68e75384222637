# The repository's state machines, in TLA+

This directory holds the verification project of the repository: TLA+ modules
translated from its source, TLC configurations that model-check them on small
instances, and theorems that TLAPS proves for every value of the constants.

Quick start, inside this directory:

    tlc -workers 2 -config overlap.cfg MCWakeCoordinator.tla
    tlc -workers 2 -config runner.cfg MCDeployRunner.tla
    tlapm DeployRunnerProofs.tla

`PROJECT.json` names every run with its module, the lines of source each
definition stands for, the hazards, the disagreements found and the theorems.


## 1. Inventory of the repository

The repository is a Home Assistant dashboard (React, TypeScript) together with
what serves, deploys and extends it. Most of its lines are React components and
their tests; the parts that carry logic of their own are these.

| Part | State it keeps | Operations | Interacts with | Status |
| --- | --- | --- | --- | --- |
| **Wake Light coordinator** (`home-assistant/custom_components/wake_light/coordinator.py`) | profile state (run, alarms, terminal occurrences, relight fence), timer, retry deadlines, observed offs, lock | state events, PBL revocation, timer, commands, start, stop, unload; one reconcile pipeline | PBL lease services, lights, Store, event loop | modelled, partly |
| **Wake Light engine, scheduler, model** (`engine.py`, `scheduler.py`, `model.py`) | none (pure) | run arithmetic, recovery decision, connected episodes, fence | called by the coordinator | modelled, partly |
| **Wake Light commands** (`commands.py`) | alarms in the profile state | upsert, delete, dismiss, cancel, end_episode, snooze, links | coordinator lock | modelled, partly |
| **Dashboard deployment and production** (`scripts/deploy-dashboard-ci.ts`, `scripts/sync-dashboard-deployment.ts`, `scripts/release-machine/production*.ts`) | lease directory, dashboard and retained directories, two stored URLs, journalled attempt | lease, capture, decide, swap, save metadata, verify, roll back, finalize | Home Assistant over ssh and its API; other workflows | modelled, partly |
| **Release machine driver** (`scripts/release-machine/driver.ts`, `contracts.ts`, `simulator.ts`) | journal `driver-state.json`, worktrees, branches, pull requests | validate, git-release, build-merged, rollback-git, verify, cleanup | git, GitHub, the production actions | modelled, partly |
| **Deploy runner controller** (`scripts/ha-deploy-runner-controller.ts`) | lock file, journal `active-operation.json` | poll, register a just-in-time runner, start containers, bind, open Home Assistant, authorize, await, clean up, recover at start | GitHub, Docker, systemd | modelled, partly |
| **Admin issue controller** (`scripts/admin-issue-controller.ts`, `scripts/lib/adminIssue*.ts`) | one record per issue, in memory and on disk | intake of to-do edits and comments, worker, release lane, completion | Home Assistant, GitHub, agents | modelled, partly |
| **Frame lifecycle** (`src/src/panel/sfentonReactAppCard.ts`, `src/src/lifecycle/`) | the persistent iframe and its pending work | connect, disconnect, configure, watch updates and stalled loads | browser, Home Assistant's page, deployments | modelled, partly |
| Wake Light forms, store, sensor, read model | none of their own | serialise and project | coordinator | not modelled |
| Optimistic state hooks (`src/src/hooks/`) | pending values | set, confirm, expire | entity updates | not modelled |
| Home MCP server, views, design-system tooling, e2e | requests, presentation | | | not modelled |

### How the parts interact

The release machine's driver merges a change and then runs the production
actions; the automatic deployment of a push does the same to production without
the driver, on a runner that the deploy runner controller starts for it.
Production is what they share, and the lease directory on the host is what keeps
them apart (`DashboardProduction` runs several of both). The published bundle
and the version in the card's configuration are what the frame watches: it sees
a deployment as a new build behind the same URL and a new version in its config
(`DashboardFrame`'s `Publish` and `Configure`). The issue controller publishes its
work through pull requests and waits for the deployment of the merge. The Wake
Light is a Home Assistant integration of its own; it shares nothing with the
others but the repository.

### What is hard in them, and what makes them correct

* **Wake Light coordinator.** Every handler runs under one asyncio lock, so two
  handlers never interleave; but a handler awaits PBL, the light service and the
  Store while it holds the lock, and meanwhile users switch lights, PBL revokes
  the lease, alarms become due, Home Assistant stops, or the process dies.
  Events observed in one episode are handled in another one. The only thing that
  ends a run without an event is a timer that every handler cancels and arms
  again. What a handler has decided reaches the Store only at its end. PBL
  refuses, fails or forgets. Correct: the user's off is final (for the light,
  for the room, for the connected alarms); PBL and the coordinator agree on the
  lease; no due alarm is passed over; every run ends; only wake-owned lights are
  turned off; a restart resumes within a bound.
* **Production.** A deployment is a sequence of remote calls each of which may
  fail with its effect, without it or half done, against a rollback that may
  fail too, beside other workflows and with a lease that expires after a day.
  Correct: only the holder changes production; what was captured can be put
  back; a turn leaves production as it was or wholly on its commit; ends are
  reported truthfully; a commit that changes Home Assistant files is not passed over.
* **Release machine driver.** A write-ahead journal around commands with effects
  outside it: a crash between `git`/`gh` and the journal record is reconciled by
  what is found. Others merge meanwhile. Correct: the journal knows of all that may
  exist; only the authorized merge is built; a rejected release is withdrawn or
  reverted; the verdict is what happened to master.
* **Deploy runner controller.** The same, with Docker and GitHub, and with trust
  at stake: a job must not be authorized, nor Home Assistant opened, unless
  GitHub bound it to the runner made for it. Correct: trust follows the binding;
  a restart finds all that was left, spares a job at work, and ends every operation.
* **Admin issue controller.** Three activities share one record and interleave at
  every await, with an owner who edits, comments, closes and reopens at any
  moment. Correct: one activity acts on an issue at a time; input is processed;
  a refresh is not older than its request; an issue is closed only when earned;
  a paused issue is left alone.
* **Frame lifecycle.** Cards come and go in any order, answers about the
  published build arrive late, the web view hides, shows and freezes. Correct: no
  orphaned overlay; the last deployment wins; a stalled load is restarted; an app
  somebody looks at is not torn down.
* **Optimistic hooks.** A pending value against late, reordered or missing
  entity updates.


## 2. Modules

| Module | Stands for |
| --- | --- |
| `WakeEngine` | the pure operators: a run, joining, completing, ramp, deadlines, recovery, connected episodes, the fence, the schedule |
| `WakeCoordinator` | the coordinator's handlers and stages, its PBL lease, lights, Store, event loop, users and restarts; the properties |
| `AtomicPublication` | abstract: workflows take turns, and a turn leaves production as it was or on its own commit |
| `DashboardProduction` | the remote host, the calls of every deployment program, faults, deaths, expiry; refines `AtomicPublication` |
| `ReleaseOutcome` | abstract: what a verdict of the release machine says about master |
| `ReleaseDriver` | the driver's commands and journal writes, GitHub, other merges; refines `ReleaseOutcome` |
| `DeployRunner` | the runner controller's calls and journal writes, Docker, GitHub, foreign runners |
| `IssueController` | intake, worker and release lane of one issue, and its owner |
| `DashboardFrame` | the persistent frame, its cards, the page, the document |
| `MC...` | the instances of these for TLC |
| `WakeTypeProofs`, `WakeCoordinatorProofs`, `WakeRecoveryProofs` | theorems about the Wake Light: types and operators; cancellations, leases and lights; recovery, holds and observed brightness |
| `DashboardProductionProofs` | theorems about production, its refinement among them |
| `DashboardFrameProofs`, `ReleaseDriverProofs`, `DeployRunnerProofs`, `IssueControllerProofs` | theorems about the frame, the driver and the two controllers |

### Wake Light

**The lock and the awaits.** `queue` holds the tasks that wait for
`self._lock`, first come first served; a `Take(kind)` action (`OnTimer`,
`OnLeafOff`, `OnRevoke`, ...) is a handler getting the lock. `stack` is what the
holder still has to do, a sequence of stage names: `_reconcile_locked` is
`Pipeline`, and a stage that needs PBL pushes `"acquire"` and the stage that
looks at the answer. Seven stage names (`Awaits`) are real awaits: there and
when nobody holds the lock the event loop is free (`Yielded`), and users, PBL,
time and crashes may act. All other stages are the straight-line code between
two awaits; nothing interleaves with them.
`job` holds the handler's locals (`now` read once at its start, the run before
a change, the answer of PBL).

**State.** `st` is `self.state`: the active run (`ActiveRun`, or `NoRun`), the
terminal occurrences, the enabled alarms, the relight fence
(`auto_relight_blocked_*`), the last cancellation and the missed alarms. `disk` is the
Store. `scheduled`, `observed`, `retryAt`, `retryBy`, `revokeBy`, `settle` and
`timer` are the fields `_scheduled`, `_observed_foreign_off`,
`_blocked_retry_at`, `_recovery_retry_deadline`, `_dispatch_revoke_wait_until`,
`_brightness_observation_blocked_until` and the armed timer. `phase` and
`stopping` follow `async_start`, `_async_handle_stop` and `async_shutdown`.

**PBL** (not in this repository as a coordinator of its own; modelled from how
the code calls it and reads its answers) keeps one lease of the room's root
light with a status, generation, absolute expiry and recovery grace. It grants,
refuses (stale or taken), dispatches to the leased targets, retires a released
lease, revokes on a user's root off, expires, and survives a restart as
"recovering".

**Time.** `clock` counts ticks; `Step` is the ramp step. A handler's `now` is
the clock when it got the lock; a timer task carries the time the timer fired.
A tick may pass during an await or before a queued handler runs (`MaxLags`
bounds how often). An idle machine's time passes freely.

**Abstractions.** Alarms are native one-time alarms, one occurrence each: no
SleepyPod sources, snooze, temporary bed alarms, weekly recurrence, time zones
or DST. Brightness is a level in `1 .. Full`; the integer interpolation of the
ramp is kept. The 30 s brightness settle window is one tick. The failures list
keeps only `missed_alarm`; request history, revisions and list limits (256
terminal ids) are left out: a conflicting command does what a reconcile does.
The admission check that an episode fits the fixed TTL is left out; what the model
asks of its constants is that one alarm does (`LeaseAssumption`: at most 60 minutes of
ramp and 30 of hold against a lease of 120), and connected alarms meet the budget where
they join (`OverBudget`). An alarm is held for at least 5 minutes (`HoldAssumption`). On unload, tasks that still wait are
gone with the coordinator. PBL's event of a root off is posted after the light's own.

### Production

`ha` is the host: the directory served, the URL stored for the card and for the
wrapper, the lease directory with its owner record, and for each workflow its
incoming and retained directories and its completion mark. A workflow runs a
program of `Programs`, a sequence of calls; `ip` is the call it is at, and
`AfterSuccess`, `AfterError` and `AfterCrash` say which program follows. `Call`
is one remote call that succeeds, fails without effect, with its effect, or half
done (`broken`); `Test` is a decision on what was read. `undo` is the one attempt
of a `catch` block to take a step back. `snap`, `attempt` and `deployed` are the
workflow's captured state and journal. Automatic deployments (`CI`) run
`deploy-dashboard-ci.ts` from `ciStart`; the others run the release machine's
production actions in the order of its plan, each a process of its own. Calls
that only read are merged with the next call that acts on what they read: the
lease keeps everybody else away.

### Release machine driver

`step` and `pc` are the plan's step and the command or journal write that comes
next inside it; each `git`/`gh` command and each journal write is an action of
its own. `Fault` branches fail a command or lose its answer, `Crash` restarts the
step, which then reconciles by what it finds. `hub.height` is master, linear;
others merge at any moment (`OtherMerge`). The production steps are one action
that accepts, rejects or gives up: what they do is `DashboardProduction`.

### Deploy runner controller

`proc.at` is the call or journal write that comes next in `runCandidate`, or in
the recovery of `reconcileActiveOperation` (`proc.way`: `pre`, `terminal`,
`resume`); the local variables `networkCreated`, `failures` and
`cleanupIncomplete` are `net`, `failed` and `incomplete`. `journal` is
`active-operation.json` with its phase and whether it names the proxies to Home
Assistant, `lock` the lock file, `dock` and `hub` what exists in Docker and on
GitHub. A run is one attempt of a workflow with its one job. `leaky` is a history
variable: the runs whose cleanup the code itself knows to be incomplete, or could not see
to be (section 4). One controller process runs at a time, as systemd keeps it.

### Admin issue controller

`rec` is the issue's record in memory, `disk` as last written. `intake` with its
`queue` is the serialised `reconcileTodos`/`reconcileGitHubInputs` call, `worker`
and `rel` are the points of the two activities, `sup` the supervisor loop; every
action is the code between two awaits. `turn` says whose refresh has just
returned: that continuation runs before another activity. The owner edits the
to-do item, comments (note, retry, retriage), closes and reopens. Inputs are
numbered; `proc` is the last one a worker processed. `startNewGeneration`'s awaits are
one step. Left out: iOS follow-up, layout automation, the verification of an
existing release, blocked-deployment recovery, provider limits, media, GitHub-only
issues, the completion receipt entity, `runOnce` mode and workflow rotation, and the
owner completing the item himself.

### Frame

Every action of `DashboardFrame` is one event-loop task with everything it calls: an
element callback, an event, a timer or a settled promise. `frame` is the window
property that outlives the cards, `doc` the iframe's document and the navigation
that replaces it. Only one app path is modelled (a config that changes the path
is a first load again), a stall only after the document was committed (as the
code's comment at :254 says), builds are never published a second time, and the
load event is that of the last navigation. The panel (`sfentonReactPanel.ts`) has
the same ownership without versions; it, `resumeTelemetry.ts` and the bridges are left out.


## 3. Runs

| Run | Module | Question | Bounds | Properties |
| --- | --- | --- | --- | --- |
| `overlap` | `WakeCoordinator` | back-to-back alarms added, deleted, dismissed, ended while a call may fail | 2 alarms, 1 light, 2 acts, 1 fault, 1 late tick | `TypeOK`, `EndedStaysOver`, `NoOrphanLease`, `NoMissedStart`, `HoldWithinLease` |
| `offs` | `WakeCoordinator` | leaves and room turned off and on, vacation, at every await and before every handler | 1 alarm, 2 lights, ramp of two steps, 3 acts | `OffReleased`, `NoRelight`, `RunCanAct`, `OffRespected`, `SafeOffOwn`, `NeverDims` |
| `restart` | `WakeCoordinator` | stop, crash, reload at every await, PBL may fail; liveness | 1 alarm, 2 lights, 1 act, 1 fault, 1 restart | `RecoveryBounded`, `StoredIsCurrent`, `EpisodeEnds` |
| `production` | `DashboardProduction` | two automatic deployments and a release-machine run contend for production | 5 commits, 2 faults, 1 death, 1 expiry | `TypeOK`, `PriorRetained`, `RuntimeNeverSkipped`, `HolderOnly`, `TruthfulEnd`, `Publication` |
| `driver` | `ReleaseDriver` | the dashboard release plan between faults, crashes and merges of others | 2 faults, 2 crashes, 2 other merges | `WriteAhead`, `BuiltAsAuthorized`, `CleanEnd`, `RejectedIsWithdrawn`, `Outcome` |
| `runner` | `DeployRunner` | a deployment and a smoke run share the controller and its one journal; liveness | 1 fault, 1 crash | `TrustFollowsBinding`, `NothingForgotten`, `RecoverySparesJob`, `OperationEnds` |
| `issue` | `IssueController` | the three activities of one issue with its owner, a failed call or a restart | 1 owner act, 1 fault, 1 automatic retry | `TypeOK`, `OneLane`, `RefreshIsFresh`, `CloseIsEarned`, `PausedIsQuiet` |
| `handled` | `IssueController` | liveness with an owner who acts at any moment, retriages included | 1 owner act, 1 repair | `InputHandled` |
| `frame` | `DashboardFrame` | two cards exchange the frame while deployments publish and the page is hidden, shown and frozen; liveness | 2 cards, 2 versions, 2 builds | `OverlayHasReason`, `SettledIsCurrent`, `StallIsWatched`, `QuietUpdate`, `BehindEnds` |

Every property has a mutant: a definition it depends on, changed the way a
plausible bug would, makes TLC report that property violated.

**Why the bounds are enough to be interesting.** *Wake Light*: every decision of
the code is about one run and one other occurrence or interval, so two alarms
give joining, touching, disconnected and retired episodes; two lights tell "this
leaf" from "the room". Clocks stop at `MaxTime`, beyond the end of the last hold
plus catch-up of the instance (in `offs` beyond the hold, as nothing is
recovered there). `MaxQueue` bounds waiting handlers (an act needs room for all
its events). Deadlock is checked and does not occur: when the clock and the budgets are
used up, a spurious change of a watched entity (`Poke`) still makes the
coordinator reconcile. *Production*: with three workflows one holds the lease, one
waits and one has ended; the release machine's commit lies between the two
automatic ones and changes Home Assistant files, and the last commit builds the
same bundle. Two faults are an error and an error of its rollback. *Driver*: one
fault or crash leads into recovery, the second meets the recovery. *Runner*:
the two runs take the one journal in turn, so what an incomplete cleanup of the
first leaves meets the second; the theorems cover more faults, runs and the rejected
deployments. *Issue*: one act or fault at every await reaches every
pair of points of two activities. *Frame*: two versions are one update under
way and one that overtakes it. In the modules about work that ends
(`production`, `driver`, `runner`, `frame`, whose runs say `CHECK_DEADLOCK
FALSE`) the system really may stop: everything has ended or the bounds are used up.

**Where a property says when it applies.** `NoOrphanLease`, `NoMissedStart` and a
part of `RunCanAct` speak of behaviours in which no call failed yet (`Faultless`):
a release that fails leaves a lease that PBL expires. `HoldWithinLease` is
checked and proved without restarts: `refresh_recovery_holds` gives a recovered run
its full hold again without looking at the expiry, and the expired lease then revokes
the run; with one restart TLC finds that. `OffReleased`, `OffRespected` and `SafeOffOwn` are checked without restarts:
an observed off is not persisted. `NoRelight` and `EndedStaysOver` speak of
steps, not states: a run that is under way may come to lie in the fence or to
hold an ended occurrence (section 4), it is never begun so. `RuntimeNeverSkipped`
compares what goes live with what production had settled on when its lease was last free, and
so speaks of turns that find production on one commit (`settled # 0`): a workflow that gave up
halfway leaves none (section 4). `PausedIsQuiet` says nothing once the owner has
retriaged: then it does not hold (section 4). `InputHandled` is checked without faults, and
excuses a record that a retriage left in the release lane without a pull request
(`Stranded`); section 4 tells that case, and what a fault can do. `SafeOffOwn` and `NeverDims` allow for an event
that still waits for the lock: the code cannot know of it. `NeverDims` is checked and
proved without restarts, and while every handler ends before the clock moves on
(`MaxLags = 0`, `Prompt`). With late ticks and a refused lease update TLC finds a
dimming: a timer's callback that has waited for the lock computes from the older time it
brings an earlier next command, a brightening in the settle window is not observed, and the
command that is then due is below it.

### Refinement

* `Publication`: `DashboardProduction` implements `AtomicPublication`. The commit
  served when the lease was last free (`settled`) and the holder of the lease
  directory are the abstract state; a turn of dozens of calls, with its faults
  and its rollback, is a `Keep`, a `Publish` or, for the release machine, which
  gives the lease up also after an abnormal end, an `Abandon`. TLC checks it and the
  theorem `TurnsAreAtomic` proves it.
* `Outcome`: `ReleaseDriver` implements `ReleaseOutcome`, with "in master" mapped to
  "merged and not reverted". TLC checks it and the theorem `OutcomeIsKept` proves it.


## 4. Disagreements with the documentation

Three runs end in a violation, each of one property that states what a document
says. `PROJECT.json` quotes both sides.

| Run | What happens |
| --- | --- |
| `retired_off` | A root-off event queued in one episode ends a later, disconnected one as the user's cancellation: the root branch compares no lease, the leaf branch does. |
| `followed` | `finalizeIssue`, run again after the controller closed the issue, takes in an edit and starts a new generation without reopening the issue. |
| `refused_rollback` | The save of the wrapper is applied but its answer is lost: the compensation undoes only the card, and the rollback then refuses the half it left itself. |

Found while modelling, without a run of their own:

* Issue controller, `admin-issue-controller.ts:2807`: the disagreement of `followed`
  has a second way. The owner retriages while the controller completes a resolved
  issue that it has closed. The new generation forgets that it did; the same call
  of the intake then takes the closed issue for one that was closed by hand and
  pauses it (:2899), and the lane goes on to complete the to-do item. A manually
  closed issue "pauses automation and does not complete Home Assistant"
  (docs/admin-issue-controller.md:307), and late input reopens the issue that was
  closed by the controller.
* Issue controller, `admin-issue-controller.ts:10009`: a retriage is taken in the last
  await before the merge. Its input ends the merge; the error path saves the phase
  `pull-request` and then reads the pull request, which the new generation no longer
  has. That throws, every later pass throws at :9892, and no worker is due, until
  the owner comments or edits again ("`/retriage` starts a clean generation", "triage from
  scratch", docs/admin-issue-controller.md:257). In `handled` TLC finds this when
  `InputHandled` does not excuse it (`Stranded`), and nothing else. A note is left in the same
  way, with every pass interrupted, when that reading of the pull request fails.
* Issue controller, `admin-issue-controller.ts:9283`: an edit reopens an issue whose to-do item
  had drifted; a restart between the save that forgets the close and the new generation
  leaves `todoSourceDriftAt`. Each pass then repairs the completion again
  (`issueRequiresCompletionRepair`) and queues the input, which no worker is admitted for.
  TLC finds this with one fault in `handled`.
* Deployment, `deploy-dashboard-ci.ts:336`: a release whose save of the wrapper is applied
  without an answer, and whose rollback fails, ends with the wrapper on its commit and the
  card on the older one. The next automatic deployment compares with the wrapper's URL
  alone (docs/deployment.md:83), so it goes on from a commit production never settled on.
* Wake Light, `coordinator.py:2400`: a recovery that fails returns early, the next
  timer considers only future ramps, and an alarm that became due meanwhile has
  none ("Disconnected later alarms remain independent",
  docs/wake-light-integration.md:219). `NoMissedStart` therefore says `Faultless`.
  There is a second way, without a fault, that needs a revocation: it is handled at
  the very instant the next connected alarm starts, before the armed timer's
  callback. The cancellation cancels the timer and goes straight to the next
  deadline, which takes only later ramps; the alarm of this instant has none. The run
  `overlap` has no revocations.
* `commands.py:643`, `coordinator.py:1138`: a user who cancelled is fenced by the
  windows connected to the cancellation. While a later, disconnected alarm runs, a
  one-time alarm whose own catch-up is over is saved (the upsert checks only the
  new alarm) whose window bridges the two: the next reconciliation expands the fence over
  the running alarm, makes it terminal and leaves it running. "No run inside the
  fence" and "no run of an ended occurrence" are false as invariants; what is
  true, and proved, is that no run *begins* so (`NoRelight`, `EndedStaysOver`).
* `coordinator.py:2103`: the room goes off while the second of two connected
  alarms joins: the merge is refused, the first completes, the second starts a
  new lease in the same pass, and the observed off, of another lease, is dropped
  (docs/wake-light-integration.md:194).
* `coordinator.py:1213`: when Home Assistant stops, a run that waits for its
  recovery is cancelled because the integration is "unavailable", against the
  comment at :191 ("without converting HA shutdown into a missed alarm").
* `coordinator.py:192`: `async_shutdown` cancels the timer before it has the lock;
  the holder arms it again (docs/wake-light-integration.md:273).
* Driver, `driver.ts:453`: after a restart with the merge requested, the base is
  compared again, so a merge of somebody else turns a resumable release away
  (docs/release-machine-v3.md:43). `driver.ts:753`: an interrupted preparation of
  a rollback is not resumed.
* Deployment, `deploy-dashboard-ci.ts:1113`: the captured directory is removed with
  the working directory also when the rollback failed (docs/deployment.md:183).
* Runner controller: docs/deployment.md:177 says an incomplete cleanup blocks until
  the operator acted. That holds at startup; the running loop reports it and the next
  candidate overwrites the journal. A `network create` that is applied but reported
  failed leaves `networkCreated` false, so no cleanup is tried, the journal is
  cleared and the network stays. A Docker that answers neither `rm` nor
  `inspect` counts as having removed (`dockerInspectIsMissing('')`).
  `NothingForgotten` excuses exactly the runs of these three (`leaky`).
* Runner controller: one failed poll of the job in `waitForJobCompletion` tears an
  authorized deployment down; two starters may both find a stale lock, and the second
  removes the lock of the first; a crash between the creation of the lock and
  the write of its pid leaves a lock that blocks startup (`Doubt`); a production
  and a smoke job that are runnable together are both refused until one goes.
* Frame, `sfentonReactAppCard.ts:281`: a restart of a stalled load that is refused for coming
  within a minute arms no new check; the blank document waits for the next hide and show.


## 5. Fairness

* **Wake Light** (`LiveSpec`): what asyncio and the supervisor give. A task that
  can run runs (`WF` of handlers and stages); a call is answered or fails, as
  every call in the code has a timeout or raises (`WF` of answers); a due timer's
  callback and the clock get their turn although other events keep coming, as
  the loop serves ready callbacks in order (`SF` of `FireTimer`, `Tick`: each is
  disabled while straight-line code runs, again and again, hence strong); Home
  Assistant exits after its stop event, is started again and announces that it
  runs. No user act, PBL event or crash is assumed. `EpisodeEnds`: whatever fails,
  no run survives for good.
* **Runner controller**: `WF(Controller)`, as every call and wait has a deadline
  and systemd restarts the process, and `WF` of the end of a running job, as GitHub
  limits its time. Nothing is assumed of who queues, assigns, cancels or reruns.
  `OperationEnds`: the journal is cleared, or the restart leaves it to the
  operator (`Doubt`: the code's own refusals).
* **Issue controller**: `SF` per activity, since a returning refresh (`turn`) disables
  the other activities for a moment, again and again; `SF` of leaving the two polls
  (checks and deployment), since both waits have deadlines. Nothing of the owner.
* **Frame**: a request is settled, a timer fires, a navigation is answered and
  committed, and Home Assistant eventually gives every connected card the current
  config. Nothing of the user, the web view or the deployments.
* **Production, driver**: no fairness; their properties are safety.


## 6. Proofs

The theorems hold for all values of the constants that satisfy each module's
named assumptions: alarms, lights, schedules, cards, runs, any number of faults, crashes
and merges. Each rests on an inductive invariant that was first checked with TLC.

### What a crash of the Wake Light loses (`WakeCoordinatorProofs`)

`CrashLosesNothing` (`Spec => []StoredIsCurrent`): an idle coordinator has stored
what it believes. `StoredIsCurrent` is not inductive, it says nothing of a busy
coordinator. The invariant behind it, `StoredInv`, is about the shape of the
stack: an idle coordinator has stored its state, and a busy one's remaining stages
are never empty and end in a stage that leads to a save (`Closing`).
`ReleaseLeafCloses`, `CancelCloses`, `FailRecoveryCloses`, `RetryCloses` show
that the shared helpers put their stages in front of what follows; `StagesClose`
and `AnswersClose` that no early return and no failed call drops the last stage.

### What a cancellation of the Wake Light fences (`WakeCoordinatorProofs`)

`CancellationKeepsDark` (`Spec => NoRelight`) and `EndedStaysOverAlways`
(`Spec => EndedStaysOver`). A run begins in one stage only, from a plan made before the
awaits; what has to be shown is that the plan is still right. `FenceInv` says, of the
stages to come and of the queue (`FenceInner`, `FenceOuter`):

* `PlanApart`: what is scheduled to start is apart from the fence and not terminal;
* `CutBegun`: a run that a cancellation still has to fence has begun by now, so
  the fence that will be built from its windows reaches the present;
* `PutBack`: the earlier run that a refused merge puts back is the one that was under way;
* `Begun`: the ramps of the occurrences of a run, and of the one kept for a
  refusal, have started.

`NoRunAssumption` (the absence of a run is not itself a run) is the one assumption
beside those of the engine.

### The lease behind a run (`WakeCoordinatorProofs`)

`RunCanActAlways` (`Spec => []RunCanAct`): with any number of faults, crashes
and restarts, a coordinator at rest with a run that does not wait for its
recovery has a ready room, no vacation and, as long as no call failed, the lease it
believes in. Between the answer of PBL and the last stage of a handler this is
false; `CanInv` says who is going to repair it:

* `Admitted`: while the room or the vacation forbids a run that nothing ahead gives
  up, the event that says so waits for the lock;
* `Leased`: while no call failed, such a run waits for its first answer, holds the
  lease, or PBL's revoke event for its generation waits;
* `Answered`, `SamePrev`, `ReleaseLast`: what a granted recovery may rely on, that
  the run kept for a refusal has the same lease, and that only the lease of a run
  that ends is released.

The 11 shapes of a step (`Moves`: a handler carries on, quits, retries, starts,
joins, completes, ...) are judged once, in one lemma; for every action it is then only
shown which shape it has.

### The lights a user turns off (`WakeCoordinatorProofs`)

`OffsReleased`, `OffsRespected` and `SafeOffsOwn` (`Spec /\ []Listening =>` the
property): for any room, ramp, number of events, failed calls and revocations, what a
user turns off is left off. `[]Listening` says that the coordinator is neither stopped,
unloaded nor killed: `observed` and `queue` are only in memory, so a restart
really loses an off. `HandInv` says who still knows of an off:

* `OffNoticed`: while no cancellation is ahead, a target that was turned off is in
  `observed` with the lease, and its event waits, or the handler that settles has it
  (`Heard`). `OwnTargets`, `TouchedInRun` and the part of `StageFacts` on the leading
  alarm (it leaves a run only by ending) make that survive releases, joins, refusals
  and the start of a run, whose lease id no remembered off carries;
* `OwnedLit`, `CutLit`, `PrevLit`: a light that the run, the cancellation or the ended
  episode counts as its own is lit by the wake light, or the event of its off waits. Of
  the cancellations only those that will turn lights off have to know it;
* `AfterDrain`, `Drained`: in every stack a decision directly follows a drain, nothing
  comes between them, and right after the drain no target is turned off.

A step does one of four things to the run (`Lessens`, `Passes`, `Leaves`, `Ignites`);
`LightFactsKept` judges them once. `CanInv` is used for what a refused merge puts back.

### The recovery of a run (`WakeRecoveryProofs`)

`RecoveriesBounded` (`Spec => []RecoveryBounded`): with any number of restarts, refusals
and failed calls, a coordinator that sleeps on a run PBL has not granted again has armed
the timer of the next retry, and neither the lease nor the catch-up of every alarm of the run
is over. The property says nothing of a busy coordinator, and that an expiry is not
passed over depends on PBL, so two invariants are needed:

* `Expires`: PBL never moves the expiry of a lease it may grant again. It holds the lease with
  the expiry that the run, and the run of the Store, has, or has `retired` it. So a
  retry cannot prolong what bounds it;
* `RetryInv`: from the start of a process to its sleep. `OneStart` and `NeverTried` say
  that the start handler meets a recovery without a deadline and chooses it itself, `Resuming`
  and `Retrying` that the deadline stays within the lease and the catch-up (`Limited`) while alarms
  leave the run, `Chosen` that a handler which has looked at the recovery and left it pending
  only saves and sleeps, `Armed` that it sleeps with the timer or has its callback in the queue.

That a handler does not come back to a recovery it has looked at is a fact about the order of
the stages (`Ahead`), shown once for the helpers that push stages and then for every handler.

### The holds of a run (`WakeRecoveryProofs`)

`HoldsFit` (`Spec /\ []Listening => []HoldWithinLease`): however alarms join, complete,
are dismissed, refused or answered late, no run with a lease holds the lights past its expiry. It
needs `LeaseAssumption`. A run is lit before PBL answers, so the property alone is not
inductive; `LeaseInv` adds

* `Secured`, of the run and of the run kept for a refusal: the holds end before the expiry, or
  while there is none within `TTL` of now;
* `Lent`: PBL's lease belongs to the run or to alarms that are over. A first grant
  therefore starts a new lease that lasts from the grant, and does not find an old one with less
  time left;
* that a lease not yet granted is not of an ended alarm, and that nothing waits for a
  recovery (`NothingRecovers`: no stage refreshes a hold).

`RetryInv` and the invariants of the turned off lights are used for what a stage leaves behind
when it drops the run (`DroppedOver`). What does not fit is not joined: `over_budget` in
`_reconcile_locked` compares with the expiry before the await, and `Expires` says that it is
still the one that counts after it.

### The brightness of a command (`WakeRecoveryProofs`)

`NeverDimmed` (`Spec /\ []Listening /\ []Prompt => NeverDims`): `Prompt` says that a handler's
`now` is the clock. `NeverDimmedInTime` shows that it holds when `MaxLags = 0`, as in the run
`offs`: no stage moves the clock, the timer's callback in the queue brings the time it
shows, and a tick finds nothing that waits (`Clocked`). A command is at least the floor, so the question is whether the floor
is up to date when a command is decided. It is not always: for a tick after a command
(`settle`) `_observe_target_floor_if_settled` does not look at the lights. The invariant
`DimInv` says why no command is decided then:

* `Observed`: a run that goes on either rests (`Rests`: the lights settle and its next command
  is later); or, if the handler comes to a decision before it observes again
  (`Committed`), no light is above the floor unless the event of it waits (`Bright`); or, if it
  observes first or has no decision to come, the settle window is over, so that it will observe;
* `Restores`: the run that a refused merge puts back has the lights, the floor and the times of
  commands of the one that is taken back, so that what was observed stays so;
* `PeerKnown`, `SettleKnown` and the two after them: which generation PBL has leased, that the
  window is at most one tick, that a run whose alarms were counted before a decision has one whose hold is
  not over (`HoldAssumption`), and that PBL acts no more for a run whose dispatch it was to revoke;
* `Chained`: the start of a run is followed by its dispatch, joining by the completion.

The floor of a run is only ever raised, and the step that decides is judged
alone (`DecisionNext`, `DecidedLevel`).

### Type correctness of the Wake Light (`WakeTypeProofs`)

`TypeCorrect` (`Spec => []TypeOK`). A run's type asks for occurrences and targets
(`Run` has neither empty), so this says that no stage reads a run that is gone,
no release leaves an empty one, and every time computed from a maximum or minimum
exists. `TypeInv` adds `Fits(stack, run, job.prev)`: only the first stage may need a run, or
the second one of the few `Pairs` the handlers build, and the run that is needed
is there. `Fits` is why no await breaks a handler: while it waits, others change
lights, PBL and queue (`Outer`), never the run or the stack (`Inner`).

### The frame (`DashboardFrameProofs`)

`OverlayAlwaysHasReason`, `SettledAlwaysCurrent`, `StallAlwaysWatched` and
`UpdatesAreQuiet`, for any cards, versions and builds. `FrameInv` adds to the types
and the properties what the frame remembers: builds of later versions are later
(`Grown`), what the frame compared and awaits agrees with the site (`Compared`,
`Awaited`), a load that was interrupted was hidden meanwhile
(`HiddenIsInterrupted`), and a document caught by a freeze is one whose load
is still pending (`Caught`).

### Production (`DashboardProductionProofs`)

`ProductionTypes`, `OnlyHolderChanges`, `RuntimeNotSkipped`, `CaptureRetained`,
`EndsAreTruthful` and the refinement `TurnsAreAtomic`: for any workflows and commits, and
any number of faults, deaths and expiries. The properties say nothing of a program
in the middle of its calls, so none is inductive. `ProductionInv` adds what each
place of a program may rely on. A place is described by what was called
before it: `Since(p, i, op, others)` says that program `p` called `op` before its `i`-th call and
none of `others` after that. Its parts are

* `Leases`: a lease that was asserted, and not given up since, is held (`Leased`);
* `Vacant`: when the lease is free, `settled` is what is served, and it is there;
* `Recent`: what the calls of the swap and of its repair left in the directories (`Left`);
* `Early`, `Decided`: before the plan production is as captured; the plan is for a
  commit that is not older and passes over none with Home Assistant files, and until the turn ends
  the metadata is on the captured commit or on the plan's;
* `Retained`: the captured directory is served or retained while it may be needed;
* `Verified`: what a verification saw is still what is served.

What the programs themselves guarantee (a lease is asserted before every call that
changes something, nothing is swapped before the lease is taken, the retained
directory is dropped only after the served one was seen) is read off their texts, one
program at a time, in the lemmas on places. Three lemmas then judge a step:
`ActsEffects` says what it may change on the host, `ActsMoves` where it leaves
control, `NextSplits` that every other workflow is undisturbed. `RuntimeNotSkipped` then
says that what a deployment captured under its lease is what production settled on
(`Vacant`, `Leases`), so that what it puts live is the
captured commit or one it has compared with that. For the refinement, taking
the directory is `Take`, removing it is `Keep`, `Publish` or `Abandon` by the program
that removes it, and every other step stutters.

### The driver (`ReleaseDriverProofs`)

`JournalRunsAhead`, `OnlyAuthorizedIsBuilt`, `EndsClean`, `RejectedStaysOut`,
`DriverTypes` and the refinement `OutcomeIsKept`. `DriverInv` says at every label
how journal, worktrees and GitHub stand: `Control` (the label belongs to the
step, the outcome the run heads for is the one the plan gave it) and
`Facts` (`Shape`, `Ahead`, `Recorded`, `Phase`). A crash moves `pc` to the
entry of its step, so the facts of the entry label are exactly those that hold
at every label of the step: that is why recovery may rely on them.

### The runner controller (`DeployRunnerProofs`)

`OnlyTheBoundIsTrusted`, `JournalNamesAll`, `RecoveryIsCareful`, `RunnerTypes`.
`RunnerInv == Left /\ Stands`. `Left` is what any process, or none, leaves:
which runs are in Docker, registered and in the journal, that an authorization implies
the binding, that what is not `leaky` is journalled; it does not mention the label, so a crash cannot
disturb it. `Stands` is what holds at each label: forward through an operation what was
recorded and started before (`Forward`, `Started`), backward through a cleanup
what is still to be removed (`Backward`). The crash lemma is then one line, and
recovery proves `Stands` anew from `Left`.

### The issue controller (`IssueControllerProofs`)

`ControllerTypes`, `OneActivityAtATime`, `RefreshesAreFresh` and `ClosesAreEarned`, for
any bounds on the owner, the faults, the repairs and the retries. `ControllerInv` says
what each of the three activities may count on at its await:

* `RecordInv`: memory and disk hold what `readState` accepts, a worker's claim is for
  input the record has, and an automatic retry under way has one left to count;
* `LaneInv`: a lane that has selected the issue holds the release claim. `OneLane`
  alone is not inductive: a worker is admitted on a record without a claim;
* `QueueInv`: nobody waits twice for the intake, each caller is where it called
  (`Awaits`), and no call is newer than the comments;
* `ServingInv`: what the running call has read is as new as the call, and why it will
  not read the comments (completed, paused, or closed by hand);
* `ClosingInv`: a lane that is going to close the issue (`close`, `patch`) has a
  delivered release or a posted resolution, and the intake can no longer set it aside.

The steps are taken by what they do: to the record (`Follows` for all of them, `Taken`
and `Unshaken` for what the intake takes in while another activity is at work), and to
control (`Asks`: an activity goes on, asks the intake, or is answered). While the intake
serves the worker or the lane nobody else writes the record (`ServedAlone`), which is
why a refresh is fresh when its caller reads the record again.

### Only model-checked

Of the Wake Light: `NoOrphanLease` and `NoMissedStart`, which are false outside of the
bounds of their run (`retired_off` and section 4 say how), so there is nothing to prove for every
value of the constants. Of the issue controller `PausedIsQuiet`. `EpisodeEnds`, `OperationEnds`, `InputHandled` and `BehindEnds`
must remain so (liveness under fairness is outside of the prover's reach). That `Connected` is the *least* closed set
of windows is its definition, not proved equal to the code's loop.


## 7. Not modelled, and what is left

* **React components, forms, sensors, serialisation, design tooling**: most of the
  repository's lines. They hold no state whose order of change matters.
* **Optimistic state hooks**: the order of their effects depends on how React
  schedules a render and on the entity store of `@hakit/core`, whose sources are
  not in the repository; a model would rest on guesses about both.
* **Home MCP server**: answers single requests.
* **Calendar arithmetic** (time zones, DST, recurrence): TLC would only enumerate
  it; the properties need the order of the resulting instants, which the
  schedules of the instances fix.
* **Wake Light**: SleepyPod sources, snooze, temporary bed alarms and command
  revisions. Snooze and source life cycle attribute an alarm by schedule row and
  execution window (`coordinator.py:1726`); a model needs a source whose rows
  move between two reads. Commands served before Home Assistant has started
  (`coordinator.py:215`) belong to it.
* **Issue controller**: several issues against each other and the provider limits of
  `adminIssueConcurrency.ts`; what section 2 lists as left out.
* **Runner controller**: two starters of the controller at once, the check of the
  repository's identity, the `once` command.

Next: snooze as a module that extends the coordinator.
