--------------------------- MODULE WakeCoordinator ---------------------------
(***************************************************************************)
(* One Wake Light coordinator                                              *)
(* (home-assistant/custom_components/wake_light/coordinator.py) of a       *)
(* profile with native one-time alarms, together with what it talks to:    *)
(* the Presence Based Lighting (PBL) lease of the room, the lights, Home   *)
(* Assistant's event loop and the profile Store.                           *)
(*                                                                         *)
(* Every handler of the coordinator runs under one asyncio lock, first     *)
(* come first served: queue holds the handlers that wait for it and stack  *)
(* what is left of the one that holds it.  A handler gives the event loop  *)
(* away only at an await (Awaits); the stages between two awaits run with  *)
(* the loop Busy, and everything the environment does waits for the loop.  *)
(* During an await it may interleave: lights change, PBL revokes, Home     *)
(* Assistant stops or the process dies.                                    *)
(***************************************************************************)
EXTENDS WakeEngine, Sequences

CONSTANTS
    OtherOn,      \* an excluded member keeps the room's root light on
    InitAlarms,   \* the one-time alarms enabled at first
    TTL,          \* fixed_lease_ttl_seconds
    Grace,        \* PBL's recovery grace after a restart
    Acts,         \* bound: the acts of a user and of the room's conditions
    MaxTime,      \* bound: the clock stops here
    MaxQueue,     \* bound: handlers waiting for the lock
    MaxUser,      \* bound: how many of these acts
    MaxLags,      \* bound: ticks that pass while there is something to do
    MaxFaults,    \* bound: PBL or light service calls that fail
    MaxRestarts   \* bound: stops, crashes and reloads

ASSUME CoordinatorAssumption ==
    /\ OtherOn \in BOOLEAN /\ InitAlarms \subseteq Occ
    /\ Acts \subseteq {"leafOff", "leafOn", "vacation", "room", "revoke",
                       "end", "dismiss", "add", "delete"}
    /\ TTL \in Nat \ {0} /\ Grace \in Nat /\ MaxTime \in Nat
    /\ MaxQueue \in Nat /\ MaxUser \in Nat /\ MaxLags \in Nat /\ MaxFaults \in Nat
    /\ MaxRestarts \in Nat

\* The ramp and the hold of one alarm fit a lease: 60 and 30 minutes at most
\* (MAX_RAMP_MINUTES, MAX_POST_WAKE_HOLD_MINUTES) of MAX_PBL_TTL_SECONDS.
ASSUME LeaseAssumption ==
    \A o \in Occ : (WakeAt[o] - RampStart[o]) + HoldFor[o] <= TTL

\* Every alarm is held for a while: MIN_POST_WAKE_HOLD_MINUTES is 5.
ASSUME HoldAssumption == \A o \in Occ : HoldFor[o] > 0

VARIABLES
    st,         \* self.state, the mutable profile state
    disk,       \* what the Store holds
    scheduled,  \* self._scheduled
    observed,   \* self._observed_foreign_off: leaf -> lease or NoOcc
    retryAt,    \* self._blocked_retry_at
    retryBy,    \* self._recovery_retry_deadline
    revokeBy,   \* self._dispatch_revoke_wait_until
    settle,     \* self._brightness_observation_blocked_until
    timer,      \* the point in time of the armed timer
    phase,      \* "down", "starting" (not self._started) or "running"
    stopping,   \* self._stopping
    queue,      \* handlers waiting for self._lock
    stack,      \* stages left of the handler that holds it
    job,        \* the locals of that handler
    clock,      \* utc_now()
    lights,     \* Leaf -> level, 0 is off
    touch,      \* history: who last turned a leaf on or off, during which lease
    vacation,   \* the vacation entity: "off", "on" or "unknown"
    room,       \* PBL switch, targets, blockers: "ready", "unknown", "blocked"
    pbl,        \* PBL's lease of the root light
    pblGen,     \* PBL's last generation
    retired,    \* lease ids PBL will not grant again
    left        \* what is left of the bounds on user acts, lags, faults, restarts

proc == <<phase, stopping>>
peer == <<pbl, pblGen, retired>>
world == <<clock, lights, touch, vacation, room, left>>
vars == <<st, disk, scheduled, observed, retryAt, retryBy, revokeBy, settle, timer,
          phase, stopping, queue, stack, job, clock, lights, touch, vacation, room,
          pbl, pblGen, retired, left>>

run == st.run
Active == run # NoRun

-----------------------------------------------------------------------------
(***************************************************************************)
(* The environment's state.                                                *)
(***************************************************************************)
Leases == [status : {"none", "active", "recovering"}, lease : Occ \cup {NoOcc},
           gen : Nat, exp : Int, grace : Int,
           occs : SUBSET Occ, targets : SUBSET Leaf]
NoLease == [status |-> "none", lease |-> NoOcc, gen |-> 0, exp |-> NoTime,
            grace |-> NoTime, occs |-> {}, targets |-> {}]

RootOn(l) == OtherOn \/ \E x \in Leaf : l[x] > 0

Kinds == {"start", "timer", "poke", "leafOff", "rootOff", "revoke", "vacation",
          "hazard", "end", "dismiss", "add", "delete", "stop", "unload"}
Tasks == {t \in [kind : Kinds, now : Int, leaf : Leaf \cup {NoOcc},
                 occ : Occ \cup {NoOcc}, gen : Nat, user : BOOLEAN] :
            t.kind = "add" => t.occ \in Occ}
Task(kind) == [kind |-> kind, now |-> NoTime, leaf |-> NoOcc, occ |-> NoOcc,
               gen |-> 0, user |-> FALSE]

Jobs == [now : Int, at : Int, leaf : Leaf \cup {NoOcc}, user : BOOLEAN, off : BOOLEAN,
         ok : BOOLEAN, stale : BOOLEAN, prev : Run \cup {NoRun},
         level : 0 .. Full, force : BOOLEAN]
NoJob == [now |-> NoTime, at |-> NoTime, leaf |-> NoOcc, user |-> FALSE, off |-> FALSE,
          ok |-> FALSE, stale |-> FALSE, prev |-> NoRun,
          level |-> 0, force |-> FALSE]

StageNames ==
    {"reconcile", "drain", "pending", "active", "complete", "begin", "dispatch",
     "decide", "finish", "recover", "acquire", "send", "release", "safeOff",
     "settling", "save", "persist", "updated", "cancelled", "failed", "abandoned",
     "recovered", "reacquired", "merged", "completed", "started", "ended", "fence",
     "unloaded"}
Awaits == {"acquire", "send", "release", "safeOff", "settling", "save", "persist"}
Yielded == stack # <<>> => Head(stack) \in Awaits
At(stage) == stack # <<>> /\ Head(stack) = stage
Rest == Tail(stack)

\* async with self._lock: ...; a handler that reconciles ends with these.
Pipeline == <<"drain", "pending", "active", "complete", "begin", "dispatch",
              "finish">>

-----------------------------------------------------------------------------
Init ==
    /\ st = [run |-> NoRun, terminal |-> {}, alarms |-> InitAlarms,
             fence |-> NoInterval, cancel |-> NoInterval, missed |-> {}]
    /\ disk = st
    /\ scheduled = {} /\ observed = [l \in Leaf |-> NoOcc]
    /\ retryAt = NoTime /\ retryBy = NoTime /\ revokeBy = NoTime
    /\ settle = NoTime /\ timer = NoTime
    /\ phase = "running" /\ stopping = FALSE
    /\ queue = <<Task("start")>> /\ stack = <<>> /\ job = NoJob
    /\ clock = 0 /\ lights = [l \in Leaf |-> 0]
    /\ touch = [l \in Leaf |-> [by |-> "nobody", lease |-> NoOcc]]
    /\ vacation = "off" /\ room = "ready"
    /\ pbl = NoLease /\ pblGen = 0 /\ retired = {}
    /\ left = [user |-> MaxUser, lags |-> MaxLags, faults |-> MaxFaults, restarts |-> MaxRestarts]


\* What a stage leaves alone unless it says otherwise.
Quiet == UNCHANGED <<disk, proc, queue, peer, world>>

Goto(stages) == stack' = stages

-----------------------------------------------------------------------------
(***************************************************************************)
(* _cancel_active_locked on the profile p, then the stages rest.  The      *)
(* lease is released first unless PBL already revoked it.                  *)
(***************************************************************************)
\* Wrong: a leaf that somebody turned off still counts as lit by the wake light.
EverLit(r) == r.owned \cup r.released
OwnedLights(r) == r.owned \ r.released
FiredAlarms(r) == {o \in r.occs \cap r.final : WakeAt[o] <= clock}

\* Wrong: PBL is not told that the run is over.
NoReleaseOf(r) == <<>>
ReleaseOf(r) == IF r.gen = 0 THEN <<>> ELSE <<"release">>

Cancel(p, user, revoked, off, rest) ==
    /\ revokeBy' = NoTime
    /\ IF p.run = NoRun
       THEN st' = p /\ Goto(rest) /\ UNCHANGED <<timer, job>>
       ELSE /\ timer' = NoTime
            /\ st' = [p EXCEPT !.alarms = @ \ FiredAlarms(p.run)]
            /\ job' = [job EXCEPT !.at = clock, !.user = user, !.off = off,
                                  !.prev = p.run]
            /\ Goto((IF revoked THEN <<>> ELSE ReleaseOf(p.run))
                    \o <<"cancelled">> \o rest)

\* No cancellation, the profile becomes p.
NoCancel(p, rest) == st' = p /\ Goto(rest) /\ UNCHANGED <<revokeBy, timer, job>>

Cancelled ==
    /\ At("cancelled")
    /\ LET offs == job.off /\ OwnedLights(run) # {}
       IN  /\ st' = IF job.user
                    THEN RememberUserCancellation(st,
                           ConnectedEpisode(run, scheduled, job.at), job.at)
                    ELSE [st EXCEPT !.run = NoRun, !.terminal = @ \cup run.occs]
           /\ job' = [job EXCEPT !.prev = IF offs THEN run ELSE NoRun]
           /\ Goto(IF offs THEN <<"safeOff">> \o Rest ELSE Rest)
    /\ settle' = NoTime
    /\ UNCHANGED <<scheduled, observed, retryAt, retryBy, revokeBy, timer>> /\ Quiet

(***************************************************************************)
(* _release_foreign_off_leaf_locked: the lease loses a leaf that somebody  *)
(* else turned off; the last one, or a whole batch, ends the episode.      *)
(***************************************************************************)
ReleaseLeaf(l, rest) ==
    LET offToo(t) == lights[t] = 0 /\ (t = l \/ observed[t] = run.lease)
        reduced == ReleaseLeaves(run, {l})
    IN  IF ~Active THEN NoCancel(st, rest)
        ELSE IF pbl.status # "active" THEN Cancel(st, TRUE, TRUE, FALSE, rest)
        ELSE IF reduced = NoRun \/ \A t \in run.targets : offToo(t)
        THEN Cancel(st, TRUE, FALSE, FALSE, rest)
        ELSE IF reduced = run THEN NoCancel(st, rest)
        ELSE NoCancel([st EXCEPT !.run = reduced],
                      <<"acquire", "updated">> \o rest)

\* What follows the lease update of a leaf release or of a command.
Updated ==
    /\ At("updated")
    /\ IF job.ok THEN NoCancel(st, Rest) ELSE Cancel(st, FALSE, FALSE, FALSE, Rest)
    /\ UNCHANGED <<scheduled, observed, retryAt, retryBy, settle>> /\ Quiet

\* _apply_observed_foreign_off_locked, one observation per step.
Drain ==
    /\ At("drain")
    /\ LET mine == {l \in Leaf : /\ Active /\ observed[l] = run.lease
                                 /\ l \in run.targets}
           keep(S) == [k \in Leaf |-> IF k \in S THEN observed[k] ELSE NoOcc]
       IN  \/ mine = {} /\ observed' = keep({}) /\ NoCancel(st, Rest)
           \/ \E l \in mine :
                /\ observed' = keep(mine \ {l})
                /\ IF lights[l] = 0 THEN ReleaseLeaf(l, stack) ELSE NoCancel(st, stack)
    /\ UNCHANGED <<scheduled, retryAt, retryBy, settle>> /\ Quiet

-----------------------------------------------------------------------------
(***************************************************************************)
(* Preflight and the observed brightness.                                  *)
(***************************************************************************)
\* integration_available
Available == phase \in {"running", "unloading"} /\ ~stopping

Preflight == Available /\ vacation = "off" /\ room = "ready"

\* _recovery_blockers_are_retryable
Retryable == Available /\ vacation # "on" /\ room # "blocked"

\* The first blocker is the vacation, and its state is known.
VacationBlocks == Available /\ vacation = "on"

TargetFloor(targets) == Latest({1} \cup {lights[l] : l \in targets})

\* Wrong: the brightness of the lights is only read when a run starts.
NotWatched(r, now) == r

\* _observe_target_floor_if_settled
Watched(r, now) == IF settle # NoTime /\ now < settle THEN r
                   ELSE ObserveFloor(r, TargetFloor(r.targets))

(***************************************************************************)
(* _fail_recovery_locked and _schedule_recovery_retry_locked.              *)
(***************************************************************************)
FailRecovery(r, rest) ==
    /\ st' = [st EXCEPT !.run = r]
    /\ job' = [job EXCEPT !.prev = r]
    /\ Goto(ReleaseOf(r) \o <<"failed">> \o rest)
    /\ UNCHANGED <<revokeBy, timer>>

Failed ==
    /\ At("failed")
    /\ st' = [st EXCEPT !.run = NoRun, !.terminal = @ \cup job.prev.occs]
    /\ job' = [job EXCEPT !.prev = NoRun]
    /\ retryAt' = NoTime /\ retryBy' = NoTime
    /\ Goto(Rest)
    /\ UNCHANGED <<scheduled, observed, revokeBy, settle, timer>> /\ Quiet

RetryOrFail(r, rest) ==
    LET by == IF retryBy = NoTime THEN RetryDeadline(r, job.now) ELSE retryBy
    IN  /\ retryBy' = by
        /\ IF job.now >= by
           THEN FailRecovery(r, rest) /\ UNCHANGED retryAt
           ELSE /\ NoCancel([st EXCEPT !.run = [r EXCEPT !.pending = TRUE]], rest)
                /\ retryAt' = Sooner(job.now + Step, by)

\* A recovery that preflight blocks.
BlockedRecovery(r, rest) ==
    \/ Retryable /\ RetryOrFail(r, rest)
    \/ /\ ~Retryable
       /\ Cancel([st EXCEPT !.run = r], FALSE, FALSE, VacationBlocks, rest)
       /\ UNCHANGED <<retryAt, retryBy>>

(***************************************************************************)
(* _recover_locked.                                                        *)
(***************************************************************************)
GoneLeaves == {l \in run.owned : lights[l] = 0}
RootWentOff == run.owned # {} /\ ~RootOn(lights)
NoTargetLeft == GoneLeaves # {} /\ run.targets \subseteq GoneLeaves

RecoverNothing ==
    /\ At("recover") /\ ~Active /\ NoCancel(st, Rest)
    /\ UNCHANGED <<scheduled, observed, retryAt, retryBy, settle>> /\ Quiet

RecoverRootOff ==
    /\ At("recover") /\ Active /\ RootWentOff
    /\ Cancel(st, TRUE, TRUE, FALSE, Rest)
    /\ UNCHANGED <<scheduled, observed, retryAt, retryBy, settle>> /\ Quiet

RecoverNoTargets ==
    /\ At("recover") /\ Active /\ ~RootWentOff /\ NoTargetLeft
    /\ job' = [job EXCEPT !.prev = run]
    /\ Goto(ReleaseOf(run) \o <<"abandoned">> \o Rest)
    /\ UNCHANGED <<st, scheduled, observed, retryAt, retryBy, revokeBy, settle,
                   timer>> /\ Quiet

Abandoned ==
    /\ At("abandoned")
    /\ st' = [st EXCEPT !.run = NoRun, !.terminal = @ \cup job.prev.occs]
    /\ job' = [job EXCEPT !.prev = NoRun]
    /\ Goto(Rest)
    /\ UNCHANGED <<scheduled, observed, retryAt, retryBy, revokeBy, settle,
                   timer>> /\ Quiet

RecoverRun ==
    /\ At("recover") /\ Active /\ ~RootWentOff /\ ~NoTargetLeft
    /\ LET kept == Watched(ReleaseLeaves(run, GoneLeaves), job.now)
       IN  \/ ~Preflight /\ BlockedRecovery(kept, Rest)
           \/ /\ Preflight /\ ~MayResume(kept, job.now)
              /\ FailRecovery(kept, Rest) /\ UNCHANGED <<retryAt, retryBy>>
           \/ /\ Preflight /\ MayResume(kept, job.now)
              /\ NoCancel([st EXCEPT !.run = [kept EXCEPT !.pending = TRUE]],
                          <<"acquire", "recovered">> \o Rest)
              /\ UNCHANGED <<retryAt, retryBy>>
    /\ UNCHANGED <<scheduled, observed, settle>> /\ Quiet

\* The answer to a recovering acquire; rest if it was not granted.
Resumed == [RefreshHolds(run, job.now) EXCEPT !.pending = FALSE]
NotRecovered(rest) ==
    \/ job.stale /\ FailRecovery(run, rest) /\ UNCHANGED <<retryAt, retryBy>>
    \/ ~job.stale /\ RetryOrFail(run, rest)

Recovered ==
    /\ At("recovered")
    /\ \/ /\ job.ok /\ NoCancel([st EXCEPT !.run = Resumed], Rest)
          /\ retryBy' = NoTime /\ UNCHANGED retryAt
       \/ ~job.ok /\ NotRecovered(Rest)
    /\ UNCHANGED <<scheduled, observed, settle>> /\ Quiet

-----------------------------------------------------------------------------
(***************************************************************************)
(* _reconcile_locked, stage by stage.                                      *)
(***************************************************************************)
Reconcile ==
    /\ At("reconcile")
    /\ st' = Refreshed(st, job.now)
    /\ scheduled' = Scheduled(st', job.now)
    /\ Goto(Pipeline)
    /\ UNCHANGED <<job, observed, retryAt, retryBy, revokeBy, settle, timer>> /\ Quiet

\* A run whose recovery is still pending is reacquired before anything else.
Pending ==
    /\ At("pending")
    /\ LET wait == retryAt # NoTime /\ retryAt > job.now
           over == \/ ~MayResume(run, job.now)
                   \/ retryBy # NoTime /\ job.now >= retryBy
       IN  \/ /\ ~(Active /\ run.pending)
              /\ NoCancel(st, Rest) /\ UNCHANGED <<retryAt, retryBy>>
           \/ /\ Active /\ run.pending
              /\ \/ wait /\ NoCancel(st, <<"finish">>) /\ UNCHANGED <<retryAt, retryBy>>
                 \/ /\ ~wait /\ over
                    /\ FailRecovery(run, <<"finish">>) /\ UNCHANGED <<retryAt, retryBy>>
                 \/ ~wait /\ ~over /\ ~Preflight /\ BlockedRecovery(run, <<"finish">>)
                 \/ /\ ~wait /\ ~over /\ Preflight
                    /\ NoCancel(st, <<"acquire", "reacquired">> \o Rest)
                    /\ UNCHANGED <<retryAt, retryBy>>
    /\ UNCHANGED <<scheduled, observed, settle>> /\ Quiet

Reacquired ==
    /\ At("reacquired")
    /\ \/ /\ job.ok /\ NoCancel([st EXCEPT !.run = Resumed], Rest)
          /\ retryAt' = NoTime /\ retryBy' = NoTime
       \/ ~job.ok /\ NotRecovered(<<"finish">>)
    /\ UNCHANGED <<scheduled, observed, settle>> /\ Quiet

\* Wrong: what has ended since the schedule was computed counts as due.
DueAgain == {o \in scheduled : RampStart[o] <= job.now /\ WakeAt[o] + Catchup >= job.now}

\* Occurrences that may start now.
Due == {o \in scheduled \ st.terminal :
            RampStart[o] <= job.now /\ WakeAt[o] + Catchup >= job.now}

\* Wrong: whatever is due may join.
NeverOver(r, due) == {}

OverBudget(r, due) ==
    {o \in due : r.exp # NoTime /\ ScheduledHold(o, job.now) > r.exp}

\* Newly due connected occurrences join the run, within the lease's expiry.
JoinDue ==
    /\ At("active")
    /\ \/ ~Active /\ NoCancel(st, Rest) /\ UNCHANGED retryAt
       \/ /\ Active /\ vacation # "off"
          /\ Cancel([st EXCEPT !.run = Watched(run, job.now)], FALSE, FALSE,
                    vacation = "on", Rest)
          /\ retryAt' = NoTime
       \/ /\ Active /\ vacation = "off"
          /\ LET r == Watched(run, job.now)
                 due == (Due \ r.occs) \cap ConnectedEpisode(r, Due, job.now).ids
                 over == OverBudget(r, due)
                 p == [st EXCEPT !.run = r, !.terminal = @ \cup over]
             IN  IF due \ over = {}
                 THEN NoCancel(p, Rest)
                 ELSE /\ st' = [p EXCEPT !.run = MergeOccurrences(r, due \ over, job.now)]
                      /\ job' = [job EXCEPT !.prev = r]
                      /\ Goto(<<"acquire", "merged">> \o Rest)
                      /\ UNCHANGED <<revokeBy, timer>>
          /\ retryAt' = NoTime
    /\ UNCHANGED <<scheduled, observed, retryBy, settle>> /\ Quiet

\* A refused update keeps the run as it was.
Merged ==
    /\ At("merged")
    /\ st' = IF job.ok THEN st ELSE [st EXCEPT !.run = job.prev]
    /\ job' = [job EXCEPT !.prev = NoRun]
    /\ Goto(Rest)
    /\ UNCHANGED <<scheduled, observed, retryAt, retryBy, revokeBy, settle,
                   timer>> /\ Quiet

\* Occurrences whose hold is over leave the run; the last one releases it.
Complete ==
    /\ At("complete")
    /\ LET done == IF Active THEN Completed(run, job.now) ELSE {}
           p == [st EXCEPT !.alarms = @ \ done,
                           !.terminal = @ \cup done,
                           !.missed = @ \cup (done \ run.final)]
       IN  IF done = {} THEN NoCancel(st, Rest)
           ELSE /\ job' = [job EXCEPT !.prev = run]
                /\ IF run.occs = done
                   THEN st' = p /\ Goto(ReleaseOf(run) \o <<"completed">> \o Rest)
                   ELSE /\ st' = [p EXCEPT !.run = Without(run, done)]
                        /\ Goto(<<"acquire", "merged">> \o Rest)
                /\ UNCHANGED <<revokeBy, timer>>
    /\ UNCHANGED <<scheduled, observed, retryAt, retryBy, settle>> /\ Quiet

CompletedRun ==
    /\ At("completed")
    /\ st' = [st EXCEPT !.run = NoRun]
    /\ job' = [job EXCEPT !.prev = NoRun]
    /\ Goto(Rest)
    /\ UNCHANGED <<scheduled, observed, retryAt, retryBy, revokeBy, settle,
                   timer>> /\ Quiet

\* Without a run, everything due starts one room run.
Begin ==
    /\ At("begin")
    /\ \/ Active /\ NoCancel(st, Rest) /\ UNCHANGED retryAt
       \/ /\ ~Active /\ Due = {}
          /\ NoCancel(st, Rest) /\ retryAt' = NoTime
       \/ /\ ~Active /\ Due # {} /\ ~Preflight
          /\ NoCancel(st, Rest) /\ retryAt' = job.now + Step
       \/ /\ ~Active /\ Due # {} /\ Preflight
          /\ NoCancel([st EXCEPT !.run = StartRun(Due, job.now, TargetFloor(Leaf))],
                      <<"acquire", "started">> \o Rest)
          /\ retryAt' = NoTime
    /\ UNCHANGED <<scheduled, observed, retryBy, settle>> /\ Quiet

Started ==
    /\ At("started")
    /\ \/ job.ok /\ NoCancel(st, Rest) /\ UNCHANGED retryAt
       \/ /\ ~job.ok /\ NoCancel([st EXCEPT !.run = NoRun], Rest)
          /\ retryAt' = job.now + Step
    /\ UNCHANGED <<scheduled, observed, retryBy, settle>> /\ Quiet

\* _dispatch_if_due_locked drains the observed offs a second time.
Dispatch ==
    /\ At("dispatch")
    /\ NoCancel(st, IF Active THEN <<"drain", "decide">> \o Rest ELSE Rest)
    /\ UNCHANGED <<scheduled, observed, retryAt, retryBy, settle>> /\ Quiet

ShouldDispatch ==
    /\ \/ run.cmdAt = NoTime \/ run.next = NoTime \/ job.now >= run.next
       \/ ForceFinal(run, job.now)
    /\ ~(revokeBy # NoTime /\ run.next # NoTime /\ job.now < run.next)

Decide ==
    /\ At("decide")
    /\ \/ /\ ~(Active /\ run.gen # 0 /\ run.targets # {})
          /\ NoCancel(st, Rest)
       \/ /\ Active /\ run.gen # 0 /\ run.targets # {} /\ ~ShouldDispatch
          /\ NoCancel([st EXCEPT !.run.next =
                          IF revokeBy # NoTime /\ @ # NoTime THEN @
                          ELSE NextDeadline(run, job.now)], Rest)
       \/ /\ Active /\ run.gen # 0 /\ run.targets # {} /\ ShouldDispatch
          /\ LET force == ForceFinal(run, job.now)
             IN  job' = [job EXCEPT !.force = force,
                            !.level = IF force THEN Full
                                      ELSE DesiredLevel(run, job.now)]
          /\ Goto(<<"send">> \o Rest)
          /\ UNCHANGED <<st, revokeBy, timer>>
    /\ UNCHANGED <<scheduled, observed, retryAt, retryBy, settle>> /\ Quiet

(***************************************************************************)
(* _finish_locked and _schedule_next_locked.  A deadline that is not in    *)
(* the future is tried again a moment (here a tick) later.                 *)
(***************************************************************************)
\* Wrong: only ramp starts arm the timer.
NoRunTimers(r, now) == {}

RunTimers(r, now) ==
    IF r = NoRun THEN {}
    ELSE IF revokeBy # NoTime
    THEN {Sooner(revokeBy, IF r.next = NoTime THEN now + Step ELSE r.next)}
    ELSE {NextDeadline(r, now)}

\* Wrong: a ramp that starts a tick from now is passed over.
LateRampTimers(r, plan, now) == {RampStart[o] : o \in {x \in plan : RampStart[x] > now + 1}}

RampTimers(r, plan, now) ==
    {RampStart[o] : o \in {x \in plan : /\ RampStart[x] > now
                                       /\ (r = NoRun \/ x \notin r.occs)}}

NextTimer(p, plan, now) ==
    LET mine == RunTimers(p.run, now)
        ramps == RampTimers(p.run, plan, now)
        fence == IF p.fence.to # NoTime /\ now <= p.fence.to
                 THEN {p.fence.to + 1} ELSE {}
        all == (mine \cup ramps \cup fence \cup {retryAt}) \ {NoTime}
    IN  IF stopping \/ all = {} THEN NoTime ELSE Later(Earliest(all), now + 1)

Finish ==
    /\ At("finish")
    /\ st' = Refreshed(st, job.now)
    /\ scheduled' = Scheduled(st', job.now)
    /\ IF st' = disk
       THEN /\ timer' = NextTimer(st', scheduled', job.now)
            /\ Goto(<<>>) /\ job' = NoJob
       ELSE Goto(<<"save">>) /\ UNCHANGED <<timer, job>>
    /\ UNCHANGED <<observed, retryAt, retryBy, revokeBy, settle>> /\ Quiet

Save ==
    /\ At("save")
    /\ disk' = st
    /\ timer' = NextTimer(st, scheduled, job.now)
    /\ Goto(<<>>) /\ job' = NoJob
    /\ UNCHANGED <<st, scheduled, observed, retryAt, retryBy, revokeBy, settle,
                   proc, queue, peer, world>>

-----------------------------------------------------------------------------
(***************************************************************************)
(* The answers of PBL and of the light service.                            *)
(***************************************************************************)
Spend(what) == left[what] > 0 /\ left' = [left EXCEPT ![what] = @ - 1]
Calm == UNCHANGED <<disk, scheduled, observed, retryAt, retryBy, proc>>

\* Events reach a handler only while the coordinator listens and runs.
Listening == phase = "running" /\ ~stopping
Post(tasks) == queue' = IF Listening THEN queue \o tasks ELSE queue

\* PBL holds run's lease, unexpired, and may be asked to act for it.
Holds(r) == /\ pbl.status # "none" /\ pbl.lease = r.lease /\ clock < pbl.exp
            /\ (pbl.grace = NoTime \/ clock <= pbl.grace)

Retire == /\ pbl' = NoLease /\ retired' = retired \cup {pbl.lease}
          /\ UNCHANGED pblGen

Granted ==
    /\ At("acquire")
    /\ run.lease \notin retired
    /\ pbl.status = "none" \/ Holds(run)
    /\ LET ttl == IF run.exp = NoTime THEN TTL
                  ELSE Later(1, Sooner(TTL, run.exp - clock))
           same == /\ pbl.status = "active"
                   /\ pbl.occs = run.occs /\ pbl.targets = run.targets
           gen == IF same THEN pbl.gen ELSE pblGen + 1
           exp == IF pbl.status = "none" THEN clock + ttl ELSE pbl.exp
       IN  /\ pbl' = [status |-> "active", lease |-> run.lease, gen |-> gen,
                      exp |-> exp, grace |-> NoTime,
                      occs |-> run.occs, targets |-> run.targets]
           /\ pblGen' = gen
           /\ st' = [st EXCEPT !.run = MarkAcquired(run, gen, exp)]
    /\ job' = [job EXCEPT !.ok = TRUE, !.stale = FALSE]
    /\ revokeBy' = NoTime
    /\ Goto(Rest)
    /\ UNCHANGED <<settle, timer, queue, retired, world>> /\ Calm

Refused ==
    /\ At("acquire")
    /\ \/ /\ \/ run.lease \in retired
             \/ pbl.lease = run.lease /\ ~Holds(run)
          /\ job' = [job EXCEPT !.ok = FALSE, !.stale = TRUE]
          /\ UNCHANGED left
       \/ /\ pbl.status # "none" /\ pbl.lease # run.lease
          /\ run.lease \notin retired
          /\ job' = [job EXCEPT !.ok = FALSE, !.stale = FALSE]
          /\ UNCHANGED left
       \/ Spend("faults") /\ job' = [job EXCEPT !.ok = FALSE, !.stale = FALSE]
    /\ Goto(Rest)
    /\ UNCHANGED <<st, revokeBy, settle, timer, queue, peer, clock, lights,
                   touch, vacation, room>> /\ Calm

LeaseCurrent == pbl.status = "active" /\ Holds(run) /\ pbl.gen = run.gen

Light(T) ==
    /\ lights' = [l \in Leaf |-> IF l \in T THEN job.level ELSE lights[l]]
    /\ touch' = [l \in Leaf |-> IF l \in T THEN [by |-> "wake", lease |-> run.lease]
                                ELSE touch[l]]

\* PBL lights T, all the leased targets unless it leaves some out.
Dispatched(T) ==
    /\ At("send") /\ LeaseCurrent /\ T \subseteq run.targets
    /\ IF T = run.targets THEN UNCHANGED left ELSE Spend("faults")
    /\ Light(T)
    /\ IF T = {}
       THEN Cancel(st, FALSE, FALSE, FALSE, Rest) /\ UNCHANGED settle
       ELSE /\ LET r == MarkDispatched(ReleaseLeaves(run, run.targets \ T),
                                       job.now, job.level, T, job.force)
               IN  st' = [st EXCEPT !.run = [r EXCEPT !.next = NextDeadline(r, job.now)]]
            /\ revokeBy' = NoTime
            /\ settle' = job.now + 1
            /\ Goto(Rest) /\ UNCHANGED <<job, timer>>
    /\ UNCHANGED <<queue, peer, clock, vacation, room>> /\ Calm

\* _dispatch_waits_for_revoke: the lease is gone, its revoke event may follow.
NotDispatched(inFlight) ==
    /\ At("send") /\ ~LeaseCurrent
    /\ LET by == IF revokeBy = NoTime THEN job.now + 2 * Step ELSE revokeBy
       IN  IF job.now < by
           THEN /\ revokeBy' = by
                /\ st' = [st EXCEPT !.run.next = Sooner(by, job.now + Step)]
                /\ Goto(Rest) /\ UNCHANGED <<job, timer>>
           ELSE Cancel(st, FALSE, inFlight, FALSE, Rest)
    /\ UNCHANGED <<settle, queue, peer, world>> /\ Calm

\* The call fails, before or after the lights came on.
DispatchFailed ==
    /\ At("send") /\ Spend("faults")
    /\ \/ UNCHANGED <<lights, touch>>
       \/ LeaseCurrent /\ Light(run.targets)
    /\ Cancel(st, FALSE, FALSE, FALSE, Rest)
    /\ UNCHANGED <<settle, queue, peer, clock, vacation, room>> /\ Calm

\* release_control retires the lease; a lease that is gone or another's stays.
Released ==
    /\ At("release")
    /\ IF /\ pbl.status # "none"
          /\ pbl.lease = job.prev.lease /\ pbl.gen = job.prev.gen
       THEN Retire ELSE UNCHANGED peer
    /\ Goto(Rest)
    /\ UNCHANGED <<st, job, revokeBy, settle, timer, queue, world>> /\ Calm

NotReleased ==
    /\ At("release") /\ Spend("faults")
    /\ Goto(Rest)
    /\ UNCHANGED <<st, job, revokeBy, settle, timer, queue, peer, clock, lights,
                   touch, vacation, room>> /\ Calm

\* The lights become now; when the root light goes off with them PBL revokes
\* the lease of the room and both events are posted after before.
LightsBecome(now, before) ==
    LET drop == RootOn(lights) /\ ~RootOn(now)
        gone == drop /\ pbl.status = "active"
        root == [Task("rootOff") EXCEPT !.occ = IF Active THEN run.lease ELSE NoOcc]
        revoke == [Task("revoke") EXCEPT !.gen = pbl.gen, !.user = TRUE]
    IN  /\ lights' = now
        /\ Post(before \o (IF drop THEN <<root>> ELSE <<>>)
                       \o (IF gone THEN <<revoke>> ELSE <<>>))
        /\ IF gone THEN Retire ELSE UNCHANGED peer

\* _safe_off_wake_owned_locked
SafeOff ==
    /\ At("safeOff")
    /\ LightsBecome([l \in Leaf |-> IF l \in OwnedLights(job.prev) THEN 0
                                     ELSE lights[l]], <<>>)
    /\ Goto(Rest)
    /\ UNCHANGED <<st, job, touch, revokeBy, settle, timer, clock, vacation, room, left>> /\ Calm

NotSafeOff ==
    /\ At("safeOff") /\ Spend("faults")
    /\ Goto(Rest)
    /\ UNCHANGED <<st, job, revokeBy, settle, timer, queue, peer, clock, lights,
                   touch, vacation, room>> /\ Calm

-----------------------------------------------------------------------------
(***************************************************************************)
(* Handlers that get the lock.                                             *)
(***************************************************************************)
Take(kind) ==
    /\ stack = <<>> /\ phase # "down" /\ queue # <<>>
    /\ Head(queue).kind = kind
    /\ queue' = Tail(queue)
    /\ UNCHANGED <<disk, observed, retryBy, settle, peer, world>>

Event == Head(queue)
Now(t) == [NoJob EXCEPT !.now = t]
Begins(job0, stages) == job' = job0 /\ Goto(stages)
ThenReconcile == Begins(Now(clock), <<"reconcile">>)

\* async_start with a running core, or _async_handle_hass_started.
OnStart ==
    /\ Take("start")
    /\ IF stopping
       THEN UNCHANGED <<st, scheduled, phase, job, stack>>
       ELSE /\ phase' = "running"
            /\ st' = Refreshed(st, clock)
            /\ scheduled' = Scheduled(st', clock)
            /\ Begins(Now(clock), <<"recover", "reconcile">>)
    /\ UNCHANGED <<retryAt, revokeBy, timer, stopping>>

\* _async_timer_fired keeps the time the timer fired at.
OnTimer ==
    /\ Take("timer")
    /\ retryAt' = NoTime
    /\ Begins(Now(Event.now), <<"reconcile">>)
    /\ UNCHANGED <<st, scheduled, revokeBy, timer, proc>>

\* A state event that only reconciles; user says that a light came on, whose
\* brightness the run observes first.
OnPoke ==
    /\ Take("poke")
    /\ st' = IF Active /\ Event.user
             THEN [st EXCEPT !.run = Watched(run, clock)] ELSE st
    /\ ThenReconcile
    /\ UNCHANGED <<scheduled, retryAt, revokeBy, timer, proc>>

\* A target went off: wait for the group, then release the leaf.
OnLeafOff ==
    /\ Take("leafOff")
    /\ IF Active /\ Event.occ = run.lease /\ Event.leaf \in run.targets
       THEN Begins([Now(clock) EXCEPT !.leaf = Event.leaf], <<"settling", "reconcile">>)
       ELSE ThenReconcile
    /\ UNCHANGED <<st, scheduled, retryAt, revokeBy, timer, proc>>

Settling ==
    /\ At("settling")
    /\ IF Active /\ (~RootOn(lights) \/ pbl.status # "active")
       THEN Cancel(st, TRUE, TRUE, FALSE, Rest)
       ELSE ReleaseLeaf(job.leaf, Rest)
    /\ UNCHANGED <<scheduled, observed, retryAt, retryBy, settle>> /\ Quiet

\* Handlers that cancel the run when there is one, then go on with rest.
CancelOn(user, revoked, off, rest) ==
    /\ IF Active
       THEN /\ revokeBy' = NoTime /\ timer' = NoTime
            /\ st' = [st EXCEPT !.alarms = @ \ FiredAlarms(run)]
            /\ Begins([Now(clock) EXCEPT !.at = clock, !.user = user, !.off = off,
                                       !.prev = run],
                    (IF revoked THEN <<>> ELSE ReleaseOf(run))
                    \o <<"cancelled">> \o rest)
       ELSE Begins(Now(clock), rest) /\ UNCHANGED <<st, revokeBy, timer>>
    /\ UNCHANGED <<scheduled, retryAt, proc>>

OnRootOff == Take("rootOff") /\ CancelOn(TRUE, TRUE, FALSE, <<"reconcile">>)

\* Wrong: the cancellation is not saved.
OnRevokeUnsaved ==
    /\ Take("revoke")
    /\ IF Active /\ Event.gen = run.gen
       THEN CancelOn(Event.user, TRUE, FALSE, <<>>)
       ELSE UNCHANGED <<st, scheduled, retryAt, revokeBy, timer, proc, stack, job>>

OnRevoke ==
    /\ Take("revoke")
    /\ IF Active /\ Event.gen = run.gen
       THEN CancelOn(Event.user, TRUE, FALSE, <<"finish">>)
       ELSE UNCHANGED <<st, scheduled, retryAt, revokeBy, timer, proc, stack, job>>

\* The vacation entity left "off"; user says that its state is known.
OnVacation ==
    Take("vacation") /\ CancelOn(FALSE, FALSE, Event.user, <<"reconcile">>)

\* Wrong: a hazard is left to the next preflight.
OnHazardLater ==
    /\ Take("hazard") /\ ThenReconcile
    /\ UNCHANGED <<st, scheduled, retryAt, revokeBy, timer, proc>>

\* The PBL switch, a blocker or a target stops being ready; the switch is
\* read again, the others are judged by their event.
OnHazard ==
    /\ Take("hazard")
    /\ \/ CancelOn(FALSE, FALSE, FALSE, <<"reconcile">>)
       \/ /\ room = "ready" /\ ThenReconcile
          /\ UNCHANGED <<st, scheduled, retryAt, revokeBy, timer, proc>>

\* end_episode: the run leaves the state first, then its lease is released,
\* its lights are turned off and the fence is set.
OnEnd ==
    /\ Take("end")
    /\ IF Active
       THEN /\ st' = [st EXCEPT !.run = NoRun, !.terminal = @ \cup run.occs,
                                !.alarms = @ \ FiredAlarms(run)]
            /\ timer' = NoTime
            /\ Begins([Now(clock) EXCEPT !.prev = run],
                    ReleaseOf(run) \o <<"ended", "reconcile">>)
       ELSE ThenReconcile /\ UNCHANGED <<st, timer>>
    /\ UNCHANGED <<scheduled, retryAt, revokeBy, proc>>

Ended ==
    /\ At("ended")
    /\ Goto((IF OwnedLights(job.prev) = {} THEN <<>> ELSE <<"safeOff">>)
            \o <<"fence">> \o Rest)
    /\ UNCHANGED <<st, job, scheduled, observed, retryAt, retryBy, revokeBy, settle,
                   timer>> /\ Quiet

Fence ==
    /\ At("fence")
    /\ st' = RememberUserCancellation(st,
                 ConnectedEpisode(job.prev, scheduled, job.now), job.now)
    /\ settle' = NoTime
    /\ Goto(Rest)
    /\ UNCHANGED <<job, scheduled, observed, retryAt, retryBy, revokeBy, timer>>
    /\ Quiet

\* dismiss and cancel_occurrence
OnDismiss ==
    /\ Take("dismiss")
    /\ LET o == Event.occ
           r == Without(run, {o})
       IN  IF Active /\ o \in run.occs
           THEN /\ st' = [st EXCEPT !.run = r, !.terminal = @ \cup {o},
                                    !.alarms = @ \ (FiredAlarms(run) \cap {o})]
                /\ Begins([Now(clock) EXCEPT !.prev = run],
                        (IF r = NoRun THEN ReleaseOf(run)
                         ELSE <<"acquire", "updated">>) \o <<"reconcile">>)
           ELSE ThenReconcile /\ UNCHANGED st
    /\ UNCHANGED <<scheduled, retryAt, revokeBy, timer, proc>>

\* upsert_alarm of an enabled alarm: not one that ended or that a fence takes.
OnAdd ==
    /\ Take("add")
    /\ LET p == [st EXCEPT !.alarms = @ \cup {Event.occ}]
           taken == Event.occ \in st.terminal \cup ExpandFence(p, clock).terminal
       IN  st' = IF taken THEN st ELSE p
    /\ ThenReconcile
    /\ UNCHANGED <<scheduled, retryAt, revokeBy, timer, proc>>

OnDelete ==
    /\ Take("delete")
    /\ st' = [st EXCEPT !.alarms = @ \ {Event.occ}]
    /\ ThenReconcile
    /\ UNCHANGED <<scheduled, retryAt, revokeBy, timer, proc>>

\* _async_persist_stop
OnStop ==
    /\ Take("stop")
    /\ Begins(Now(clock), <<"persist">>)
    /\ UNCHANGED <<st, scheduled, retryAt, revokeBy, timer, proc>>

\* async_shutdown, once it has the lock: an entry that is unloaded while Home
\* Assistant runs gives its run up.
OnUnload ==
    /\ Take("unload")
    /\ IF Active /\ ~stopping
       THEN Begins([Now(clock) EXCEPT !.prev = run],
                 ReleaseOf(run) \o <<"abandoned", "persist", "unloaded">>)
       ELSE Begins(Now(clock), <<"persist", "unloaded">>)
    /\ UNCHANGED <<st, scheduled, retryAt, revokeBy, timer, proc>>

Persist ==
    /\ At("persist")
    /\ disk' = st
    /\ Goto(Rest) /\ job' = NoJob
    /\ UNCHANGED <<st, scheduled, observed, retryAt, retryBy, revokeBy, settle,
                   timer, proc, queue, peer, world>>

-----------------------------------------------------------------------------
(***************************************************************************)
(* What happens around the coordinator while the event loop is free.       *)
(***************************************************************************)
Act(kind) == kind \in Acts /\ Spend("user")
Room(n) == Len(queue) + n <= MaxQueue
Still == UNCHANGED <<st, disk, scheduled, retryAt, retryBy, revokeBy, settle, stack, job>>

\* Nothing waits for the loop: no handler, and no timer that is due.
Idle == stack = <<>> /\ queue = <<>> /\ (timer = NoTime \/ clock < timer)

Tick ==
    /\ Yielded /\ clock < MaxTime /\ clock' = clock + 1
    /\ IF Idle THEN UNCHANGED left ELSE Spend("lags")
    /\ UNCHANGED <<observed, timer, proc, queue, peer, lights, touch, vacation,
                   room>> /\ Still

FireTimer ==
    /\ Yielded /\ timer # NoTime /\ clock >= timer /\ Room(1)
    /\ timer' = NoTime
    /\ queue' = Append(queue, [Task("timer") EXCEPT !.now = clock])
    /\ UNCHANGED <<observed, proc, peer, world>> /\ Still

\* Any other change of a watched entity.
Poke ==
    /\ stack = <<>> /\ queue = <<>> /\ Listening /\ Room(1)
    /\ Post(<<Task("poke")>>)
    /\ UNCHANGED <<observed, timer, proc, peer, world>> /\ Still

\* Wrong: an off is not noted before its handler has the lock.
NotNoted(l) == FALSE

\* _handle_state_event notes the off of a target at once.
Noted(l) == phase \in {"starting", "running"} /\ Active /\ l \in run.targets

\* Somebody turns a leaf off.
LeafOff(l) ==
    /\ Yielded /\ lights[l] > 0 /\ Room(3) /\ Act("leafOff")
    /\ LET lease == IF Active THEN run.lease ELSE NoOcc
           off == [Task("leafOff") EXCEPT !.leaf = l, !.occ = lease]
       IN  /\ LightsBecome([lights EXCEPT ![l] = 0], <<off>>)
           /\ touch' = [touch EXCEPT ![l] =
                [by |-> "user", lease |-> IF Active /\ run.gen # 0 THEN run.lease ELSE NoOcc]]
           /\ IF Noted(l) THEN observed' = [observed EXCEPT ![l] = run.lease]
              ELSE UNCHANGED observed
    /\ UNCHANGED <<timer, proc, clock, vacation, room>> /\ Still

\* Somebody turns a leaf on, or brightens it.
LeafOn(l, level) ==
    /\ Yielded /\ lights[l] < level /\ Room(1) /\ Act("leafOn")
    /\ lights' = [lights EXCEPT ![l] = level]
    /\ touch' = IF lights[l] > 0 THEN touch
                ELSE [touch EXCEPT ![l] = [by |-> "user", lease |-> NoOcc]]
    /\ Post(<<[Task("poke") EXCEPT !.user = TRUE]>>)
    /\ UNCHANGED <<observed, timer, proc, peer, clock, vacation, room>> /\ Still

\* PBL revokes the lease, for a user's command or for a reason of its own.
PblRevoke(user) ==
    /\ Yielded /\ pbl.status = "active" /\ Room(1) /\ Act("revoke")
    /\ Retire
    /\ Post(<<[Task("revoke") EXCEPT !.gen = pbl.gen, !.user = user]>>)
    /\ UNCHANGED <<observed, timer, proc, clock, lights, touch, vacation, room>>
    /\ Still

\* The lease runs out, or nobody recovered it in time.
PblExpire ==
    /\ Yielded /\ pbl.status # "none" /\ Room(1)
    /\ \/ clock >= pbl.exp
       \/ pbl.grace # NoTime /\ clock > pbl.grace
    /\ Retire
    /\ Post(<<[Task("revoke") EXCEPT !.gen = pbl.gen]>>)
    /\ UNCHANGED <<observed, timer, proc, world>> /\ Still

SetVacation(v) ==
    /\ Yielded /\ v # vacation /\ Room(1) /\ Act("vacation")
    /\ vacation' = v
    /\ Post(<<IF v = "off" THEN Task("poke")
              ELSE [Task("vacation") EXCEPT !.user = (v = "on")]>>)
    /\ UNCHANGED <<observed, timer, proc, peer, clock, lights, touch, room>> /\ Still

SetRoom(r) ==
    /\ Yielded /\ r # room /\ Room(1) /\ Act("room")
    /\ room' = r
    /\ Post(<<Task(IF r = "ready" THEN "poke" ELSE "hazard")>>)
    /\ UNCHANGED <<observed, timer, proc, peer, clock, lights, touch, vacation>> /\ Still

\* A command of the dashboard; the service answers even before _started.
Command(kind, o) ==
    /\ Yielded /\ phase \in {"starting", "running"} /\ Room(1) /\ Act(kind)
    /\ queue' = Append(queue, [Task(kind) EXCEPT !.occ = o])
    /\ UNCHANGED <<observed, timer, proc, peer, clock, lights, touch, vacation,
                   room>> /\ Still

\* EVENT_HOMEASSISTANT_STOP
Stop ==
    /\ Yielded /\ phase = "running" /\ ~stopping /\ Room(1) /\ Spend("restarts")
    /\ stopping' = TRUE /\ timer' = NoTime
    /\ queue' = Append(queue, Task("stop"))
    /\ UNCHANGED <<observed, phase, peer, clock, lights, touch, vacation, room>> /\ Still

Starting == \E i \in 1 .. Len(queue) : queue[i].kind = "start"

\* The config entry, once set up, is reloaded: its listeners and its timer go
\* first, the lock is waited for.
Unload ==
    /\ Yielded /\ phase = "running" /\ ~stopping /\ ~Starting
    /\ Room(1) /\ Spend("restarts")
    /\ phase' = "unloading" /\ timer' = NoTime
    /\ queue' = Append(queue, Task("unload"))
    /\ UNCHANGED <<observed, stopping, peer, clock, lights, touch, vacation, room>>
    /\ Still

Forget ==
    /\ phase' = "down" /\ stopping' = FALSE /\ queue' = <<>> /\ stack' = <<>>
    /\ st' = disk /\ job' = NoJob /\ scheduled' = {}
    /\ observed' = [l \in Leaf |-> NoOcc]
    /\ retryAt' = NoTime /\ retryBy' = NoTime /\ revokeBy' = NoTime
    /\ settle' = NoTime /\ timer' = NoTime
    /\ UNCHANGED disk

Unloaded == At("unloaded") /\ Forget /\ UNCHANGED <<peer, world>>

\* The process ends, after a stop or without one; PBL persisted its lease.
Die ==
    /\ Yielded /\ phase # "down"
    /\ IF stopping THEN UNCHANGED left ELSE Spend("restarts")
    /\ Forget
    /\ pbl' = IF pbl.status = "none" THEN pbl
              ELSE [pbl EXCEPT !.status = "recovering", !.grace = clock + Grace]
    /\ UNCHANGED <<pblGen, retired, clock, lights, touch, vacation, room>>

Boot ==
    /\ phase = "down" /\ phase' = "starting"
    /\ UNCHANGED <<observed, timer, stopping, queue, peer, world>> /\ Still

CoreRunning ==
    /\ Yielded /\ phase = "starting" /\ Room(1)
    /\ ~Starting
    /\ queue' = Append(queue, Task("start"))
    /\ UNCHANGED <<observed, timer, proc, peer, world>> /\ Still

-----------------------------------------------------------------------------
Handlers ==
    \/ OnStart \/ OnTimer \/ OnPoke \/ OnLeafOff \/ OnRootOff \/ OnRevoke
    \/ OnVacation \/ OnHazard \/ OnEnd \/ OnDismiss \/ OnAdd \/ OnDelete
    \/ OnStop \/ OnUnload

Stages ==
    \/ Reconcile \/ Drain \/ Pending \/ Reacquired \/ JoinDue \/ Merged
    \/ Complete \/ CompletedRun \/ Begin \/ Started \/ Dispatch \/ Decide
    \/ Finish \/ Cancelled \/ Updated \/ Failed \/ Ended \/ Fence
    \/ RecoverNothing \/ RecoverRootOff \/ RecoverNoTargets \/ RecoverRun
    \/ Recovered \/ Abandoned \/ Unloaded

Answers ==
    \/ Granted \/ Refused \/ NotDispatched(TRUE) \/ NotDispatched(FALSE)
    \/ \E T \in SUBSET Leaf : Dispatched(T)
    \/ DispatchFailed \/ Released \/ NotReleased \/ SafeOff \/ NotSafeOff
    \/ Settling \/ Save \/ Persist

Users ==
    \/ \E l \in Leaf : LeafOff(l)
    \/ \E l \in Leaf, level \in 1 .. Full : LeafOn(l, level)
    \/ \E v \in {"off", "on", "unknown"} : SetVacation(v)
    \/ \E r \in {"ready", "unknown", "blocked"} : SetRoom(r)
    \/ \E u \in BOOLEAN : PblRevoke(u)
    \/ \E o \in Occ : \/ Command("dismiss", o) \/ Command("add", o)
                      \/ Command("delete", o)
    \/ Command("end", NoOcc)

Machine == Tick \/ FireTimer \/ Poke \/ PblExpire \/ Stop \/ Unload \/ Die
           \/ Boot \/ CoreRunning

Next == Handlers \/ Stages \/ Answers \/ Users \/ Machine
Spec == Init /\ [][Next]_vars

-----------------------------------------------------------------------------
TypeOK ==
    /\ st \in Profile /\ disk \in Profile
    /\ scheduled \subseteq Occ
    /\ observed \in [Leaf -> Occ \cup {NoOcc}]
    /\ {retryAt, retryBy, revokeBy, settle, timer} \subseteq Int
    /\ phase \in {"down", "starting", "running", "unloading"} /\ stopping \in BOOLEAN
    /\ queue \in Seq(Tasks) /\ stack \in Seq(StageNames) /\ job \in Jobs
    /\ clock \in Nat /\ lights \in [Leaf -> 0 .. Full]
    /\ touch \in [Leaf -> [by : {"nobody", "wake", "user"}, lease : Occ \cup {NoOcc}]]
    /\ vacation \in {"off", "on", "unknown"}
    /\ room \in {"ready", "unknown", "blocked"}
    /\ pbl \in Leases /\ pblGen \in Nat /\ retired \subseteq Occ
    /\ left \in [{"user", "lags", "faults", "restarts"} -> Nat]

-----------------------------------------------------------------------------
(***************************************************************************)
(* Safety.                                                                 *)
(***************************************************************************)

\* The coordinator runs, listens and has nothing left to do.
Settled == Listening /\ Idle

\* A cancellation by the user fences the room: while the fence stands no run
\* begins, however the cancellation, newly due occurrences, commands and
\* restarts are ordered (remember_user_cancellation, expand_relight_fence).
NoRelight ==
    [][~Active /\ Active' /\ phase' # "down"
         => st'.fence.to = NoTime \/ clock > st'.fence.to]_vars

\* An occurrence that has ended does not start or join a run again; a refused
\* lease update, which puts the run back as it was, brings one back only when
\* its hold is over (_reconcile_locked).
EndedStaysOver ==
    [][Active' /\ phase' # "down" => \A o \in run'.occs \cap st.terminal :
         (Active /\ o \in run.occs) \/ clock >= run'.hold[o]]_vars

\* No occurrence of a run is to be held longer than the lease lasts: one that
\* joins late fits the absolute expiry of the first grant.
HoldWithinLease ==
    Active /\ run.exp # NoTime => \A o \in run.occs : run.hold[o] <= run.exp

TurnedOff(l) == lights[l] = 0 /\ touch[l] = [by |-> "user", lease |-> run.lease]

\* Once every event is handled, no leaf that a user turned off during the
\* lease is a target any more, in whatever order the events of the leaf, of
\* the root light and of PBL came (_release_foreign_off_leaf_locked).
OffReleased == Settled /\ Active => \A l \in run.targets : ~TurnedOff(l)

\* No command is decided for a leaf that a user has turned off during this
\* lease, even when the event of it still waits for the lock
\* (_apply_observed_foreign_off_locked, _dispatch_if_due_locked).
OffRespected ==
    [][At("decide") /\ stack' # <<>> /\ Head(stack') = "send"
         => \A l \in run.targets : ~TurnedOff(l)]_vars

\* Ending an episode turns off only what the wake light itself turned on:
\* never a light that somebody turned off and on again, once the event of its
\* off has been handled (_safe_off_wake_owned_locked, released targets).
SafeOffOwn ==
    [][At("safeOff") /\ stack' = Rest => \A l \in Leaf :
         lights[l] > 0 /\ lights'[l] = 0 =>
            \/ touch[l].by = "wake"
            \/ \E i \in 1 .. Len(queue) :
                  queue[i].kind = "leafOff" /\ queue[i].leaf = l]_vars

\* A brightness that was observed is never lowered: a command is below a
\* light of the room only while the event of its brightening still waits.
NeverDims ==
    [][At("decide") /\ stack' # <<>> /\ Head(stack') = "send"
         => \/ \A l \in run.targets : job'.level >= lights[l]
            \/ \E i \in 1 .. Len(queue) :
                  queue[i].kind = "poke" /\ queue[i].user]_vars

Faultless == left.faults = MaxFaults

\* One room run owns one lease: when all is handled, PBL leases the room to
\* nobody but the current run, with its generation, occurrences and targets.
NoOrphanLease ==
    Settled /\ Faultless /\ pbl.status = "active" =>
        /\ Active
        /\ pbl.lease = run.lease /\ pbl.gen = run.gen
        /\ pbl.targets = run.targets /\ pbl.occs = run.occs

\* The converse: a run that is not waiting for its recovery can execute its next
\* command.  While no call failed it holds the lease it believes in, and preflight
\* would admit its room: a hazard that arises while a handler waits for PBL is
\* acted on when that handler is through.
RunCanAct ==
    Settled /\ Active /\ ~run.pending =>
        /\ vacation = "off" /\ room = "ready"
        /\ Faultless => pbl.status = "active" /\ pbl.lease = run.lease /\ pbl.gen = run.gen

\* While no call failed, a coordinator that sleeps without a run and without a
\* retry leaves no alarm unserved that is due, within catch-up and outside the
\* fence (_finish_locked, _schedule_next_locked).
NoMissedStart ==
    Settled /\ Faultless /\ Preflight /\ ~Active /\ retryAt = NoTime =>
        \A o \in st.alarms \ st.terminal :
            ~(/\ RampStart[o] <= clock /\ clock <= WakeAt[o] + Catchup
              /\ (st.fence.to = NoTime \/ RampStart[o] > st.fence.to))

\* A recovery that is not granted is retried by a timer at every step, no longer
\* than the lease lasts and the catch-up of the last alarm the run had.
RecoveryBounded ==
    Settled /\ Active /\ run.pending =>
        /\ timer # NoTime /\ timer <= clock + Step /\ clock <= run.exp
        /\ \E o \in run.occs \cup st.terminal :
              RampStart[o] <= clock /\ clock <= WakeAt[o] + Catchup

\* A crash of the idle coordinator loses nothing.
StoredIsCurrent == Settled => disk = st

-----------------------------------------------------------------------------
(***************************************************************************)
(* What the documents say and the code does not keep.                      *)
(***************************************************************************)
WindowOf(o) == [from |-> RampStart[o], to |-> WakeAt[o] + HoldFor[o]]
GivesUp(stages) == \E i \in 1 .. Len(stages) : stages[i] = "cancelled"

\* A queued off of an episode that is over does not end a later episode that
\* is not connected with it.
RetiredOffSparesLaterRun ==
    [][(/\ stack = <<>> /\ queue # <<>> /\ queue' = Tail(queue)
        /\ Active /\ Event.kind = "rootOff" /\ Event.occ \notin {run.lease, NoOcc}
        /\ ~Touches(WindowOf(Event.occ), WindowOf(run.lease)))
         => ~GivesUp(stack')]_vars

-----------------------------------------------------------------------------
(***************************************************************************)
(* Liveness.  The event loop runs what is queued and a call is answered or *)
(* fails.  Timers and time get their turn although other events keep       *)
(* coming: the loop serves what is ready in order.  Home Assistant exits   *)
(* after its stop event, and is started again.                             *)
(***************************************************************************)
Fairness ==
    /\ WF_vars(Handlers) /\ WF_vars(Stages) /\ WF_vars(Answers)
    /\ SF_vars(FireTimer) /\ SF_vars(Tick)
    /\ WF_vars(stopping /\ Die) /\ WF_vars(Boot) /\ WF_vars(CoreRunning)
LiveSpec == Spec /\ Fairness

\* Every episode ends: no run survives for good, whatever fails or restarts.
EpisodeEnds == Active ~> ~Active

=============================================================================
