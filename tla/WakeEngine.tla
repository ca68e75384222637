------------------------------ MODULE WakeEngine ------------------------------
(***************************************************************************)
(* The pure part of the Wake Light integration                             *)
(* (home-assistant/custom_components/wake_light/engine.py, and the fence   *)
(* and calendar functions of scheduler.py and model.py): what one room     *)
(* run is and how each operation changes it.  Nothing here has state; the  *)
(* coordinator module calls these operators the way coordinator.py calls   *)
(* the functions they are named after.                                     *)
(*                                                                         *)
(* Time is counted in ramp steps of Step ticks.  An occurrence stands for  *)
(* one native one-time alarm, so an alarm and its occurrence share a name. *)
(* Brightness is a level 1..Full (Full is the 100% of the code).           *)
(***************************************************************************)
EXTENDS Integers, FiniteSets

CONSTANTS
    Occ,          \* occurrence ids (one native one-time alarm each)
    Leaf,         \* the explicit wake targets of the profile
    RampStart,    \* Occ -> Nat: ramp_start_at
    WakeAt,       \* Occ -> Nat: wake_at
    HoldFor,      \* Occ -> Nat: hold_minutes
    Full,         \* the brightest level
    Step,         \* DEFAULT_RAMP_STEP_SECONDS
    Catchup,      \* DEFAULT_MISSED_ALARM_CATCHUP_SECONDS
    RetryBudget,  \* RECOVERY_RETRY_BUDGET_SECONDS
    NoOcc,        \* no occurrence, no lease
    NoRun         \* no active run

ASSUME OccAssumption ==
    /\ IsFiniteSet(Occ) /\ Occ # {} /\ NoOcc \notin Occ
    /\ IsFiniteSet(Leaf) /\ Leaf # {}
ASSUME TimeAssumption ==
    /\ RampStart \in [Occ -> Nat] /\ WakeAt \in [Occ -> Nat]
    /\ HoldFor \in [Occ -> Nat]
    /\ \A o \in Occ : RampStart[o] <= WakeAt[o]
    /\ Full \in Nat \ {0} /\ Step \in Nat \ {0}
    /\ Catchup \in Nat /\ RetryBudget \in Nat

Later(a, b) == IF a >= b THEN a ELSE b
Sooner(a, b) == IF a <= b THEN a ELSE b
Latest(S) == CHOOSE t \in S : \A u \in S : u <= t
Earliest(S) == CHOOSE t \in S : \A u \in S : t <= u

\* An optional datetime that is None.
NoTime == -1

(***************************************************************************)
(* model.py, ActiveRun.  occs are the active occurrences, hold and final   *)
(* their hold_until and final_dispatched; gen is 0 before the first grant. *)
(***************************************************************************)
Run == [lease    : Occ,
        gen      : Nat,
        exp      : Int,
        occs     : (SUBSET Occ) \ {{}},
        hold     : [Occ -> Nat],
        final    : SUBSET Occ,
        targets  : (SUBSET Leaf) \ {{}},
        owned    : SUBSET Leaf,
        released : SUBSET Leaf,
        floor    : 1 .. Full,
        last     : 0 .. Full,
        cmdAt    : Int,
        next     : Int,
        pending  : BOOLEAN]

\* None is not a run.
ASSUME NoRunAssumption == NoRun \notin Run

Interval == [from : Int, to : Int]
NoInterval == [from |-> NoTime, to |-> NoTime]

(***************************************************************************)
(* Starting, merging, completing.                                          *)
(***************************************************************************)

\* max(wake_at, now) + hold: the hold an occurrence gets when it starts now.
ScheduledHold(o, now) == Later(WakeAt[o], now) + HoldFor[o]

\* resolve_profile_occurrences sorts by ramp start, then wake: the first one
\* names the lease.
FirstOf(S) ==
    CHOOSE o \in S : \A p \in S :
        \/ RampStart[o] < RampStart[p]
        \/ RampStart[o] = RampStart[p] /\ WakeAt[o] <= WakeAt[p]

StartRun(due, now, floor) ==
    [lease    |-> FirstOf(due),
     gen      |-> 0,
     exp      |-> NoTime,
     occs     |-> due,
     hold     |-> [o \in Occ |-> IF o \in due THEN ScheduledHold(o, now) ELSE 0],
     final    |-> {},
     targets  |-> Leaf,
     owned    |-> {},
     released |-> {},
     floor    |-> floor,
     last     |-> 0,
     cmdAt    |-> NoTime,
     next     |-> now,
     pending  |-> FALSE]

MergeOccurrences(run, due, now) ==
    [run EXCEPT !.occs = @ \cup due,
                !.hold = [o \in Occ |-> IF o \in due \ run.occs
                                          THEN ScheduledHold(o, now) ELSE @[o]]]

\* Wrong: a run that has lost its last occurrence stays.
WithoutKept(run, gone) == [run EXCEPT !.occs = @ \ gone]

\* remove_completed and remove_occurrence; NoRun when nothing is left.
Without(run, gone) ==
    IF run.occs \subseteq gone THEN NoRun
    ELSE [run EXCEPT !.occs = @ \ gone]

(***************************************************************************)
(* run_view.                                                               *)
(***************************************************************************)
Completed(run, now) == {o \in run.occs : now >= run.hold[o]}
Live(run, now) == run.occs \ Completed(run, now)

RampLevel(o, now) ==
    IF now >= WakeAt[o] \/ WakeAt[o] = RampStart[o] THEN Full
    ELSE Later(1, 1 + ((Full - 1) * (now - RampStart[o]))
                        \div (WakeAt[o] - RampStart[o]))

DesiredLevel(run, now) ==
    Latest({1, run.floor, run.last} \cup {RampLevel(o, now) : o \in Live(run, now)})

ForceFinal(run, now) ==
    \E o \in Live(run, now) : now >= WakeAt[o] /\ o \notin run.final

StepDeadline(run, o, now) ==
    IF now >= WakeAt[o] THEN run.hold[o]
    ELSE LET base == IF run.cmdAt = NoTime THEN RampStart[o] ELSE run.cmdAt
         IN  Sooner(WakeAt[o], Later(now, base + Step))

NextDeadline(run, now) ==
    IF Live(run, now) = {} THEN NoTime
    ELSE Earliest({StepDeadline(run, o, now) : o \in Live(run, now)})

(***************************************************************************)
(* Recording what PBL granted and executed.                                *)
(***************************************************************************)

MarkAcquired(run, gen, exp) == [run EXCEPT !.gen = gen, !.exp = exp]

MarkDispatched(run, now, level, targets, force) ==
    [run EXCEPT !.final = IF force
                            THEN @ \cup {o \in run.occs : now >= WakeAt[o]}
                            ELSE @,
                !.owned = @ \cup targets,
                !.last  = Later(@, level),
                !.cmdAt = now]

\* Wrong: a released leaf remains a target.
ReleaseOwned(run, gone) ==
    IF run.targets \subseteq gone THEN NoRun ELSE [run EXCEPT !.owned = @ \ gone]

\* release_leaf, applied to each leaf of gone; NoRun when no target is left.
ReleaseLeaves(run, gone) ==
    IF gone \cap run.targets = {} THEN run
    ELSE IF run.targets \subseteq gone THEN NoRun
    ELSE [run EXCEPT !.targets  = @ \ gone,
                     !.owned    = @ \ gone,
                     !.released = @ \cup (gone \cap run.targets)]

\* observe_brighter_root: the non-dimming floor only rises.
ObserveFloor(run, level) == [run EXCEPT !.floor = Later(@, Later(1, level))]

(***************************************************************************)
(* Restart recovery.                                                       *)
(***************************************************************************)
\* Wrong: catch-up is counted from the end of the hold.
LastHold(run) == Latest({run.hold[o] : o \in run.occs})

LastDeadline(run) == Latest({WakeAt[o] : o \in run.occs})

MayResume(run, now) ==
    /\ run.exp # NoTime
    /\ now < run.exp
    /\ now <= LastDeadline(run) + Catchup

\* refresh_recovery_holds: a missed final dispatch gets its full hold back.
RefreshHolds(run, now) ==
    [run EXCEPT !.hold =
        [o \in Occ |->
            IF /\ o \in run.occs \ run.final
               /\ now >= WakeAt[o]
               /\ now <= WakeAt[o] + Catchup
            THEN now + HoldFor[o] ELSE @[o]]]

\* The candidates of _schedule_recovery_retry_locked's deadline.
RetryDeadline(run, now) ==
    LET bound == Sooner(now + RetryBudget, LastDeadline(run) + Catchup)
    IN  IF run.exp = NoTime THEN bound ELSE Sooner(bound, run.exp)

(***************************************************************************)
(* Connected episodes.  The code widens span by the intervals that touch   *)
(* it until none is left: they are the least set that is closed under      *)
(* touching the hull it forms with span.                                   *)
(***************************************************************************)
Touches(a, b) == a.from <= b.to /\ a.to >= b.from

Hull(span, ids, iv) ==
    [from |-> Earliest({span.from} \cup {iv[o].from : o \in ids}),
     to   |-> Latest({span.to} \cup {iv[o].to : o \in ids})]

Closed(span, ids, iv) ==
    \A o \in DOMAIN iv : Touches(iv[o], Hull(span, ids, iv)) => o \in ids

Connected(span, iv) ==
    LET ids == {o \in DOMAIN iv :
                  \A S \in SUBSET DOMAIN iv : Closed(span, S, iv) => o \in S}
    IN  [ids |-> ids, span |-> Hull(span, ids, iv)]

\* calendar_windows for one-time alarms.
Windows(alarms) ==
    [o \in alarms |-> [from |-> RampStart[o], to |-> WakeAt[o] + HoldFor[o]]]

ConnectedEpisode(run, scheduled, now) ==
    LET own == [from |-> Earliest({RampStart[o] : o \in run.occs}),
                to   |-> Latest({run.hold[o] : o \in run.occs})]
        c   == Connected(own, [o \in scheduled \ run.occs |->
                                  [from |-> RampStart[o],
                                   to   |-> ScheduledHold(o, now)]])
    IN  [c EXCEPT !.ids = @ \cup run.occs]

(***************************************************************************)
(* ProfileState.  Terminal occurrences are remembered for good: the list   *)
(* of the code keeps 256, more than a bounded instance creates.            *)
(***************************************************************************)
Profile == [run      : Run \cup {NoRun},
            terminal : SUBSET Occ,
            alarms   : SUBSET Occ,       \* enabled one-time alarms
            fence    : Interval,         \* auto_relight_blocked_from/_until
            cancel   : Interval,         \* last_cancellation at/suppressed_until
            missed   : SUBSET Occ]       \* a missed_alarm failure is recorded

\* Wrong: the fence is relied upon to keep the connected occurrences away.
RememberFenceOnly(p, episode, at) ==
    [p EXCEPT !.run = NoRun, !.fence = episode.span,
              !.cancel = [from |-> at, to |-> episode.span.to]]

RememberUserCancellation(p, episode, at) ==
    LET until == IF p.fence.to = NoTime THEN episode.span.to
                 ELSE Later(episode.span.to, p.fence.to)
    IN  [p EXCEPT !.run      = NoRun,
                  !.terminal = @ \cup episode.ids,
                  !.fence    = [from |-> episode.span.from, to |-> until],
                  !.cancel   = [from |-> at, to |-> until]]

\* expand_relight_fence: the fence absorbs every interval that touches it.
ExpandFence(p, now) ==
    LET cutoff == IF p.fence.to # NoTime THEN p.fence.to ELSE p.cancel.to
        start  == IF p.fence.from # NoTime THEN p.fence.from ELSE p.cancel.from
        c      == Connected([from |-> start, to |-> cutoff], Windows(p.alarms))
        added  == {o \in c.ids : WakeAt[o] + Catchup >= now} \ p.terminal
    IN  IF \/ cutoff = NoTime
           \/ p.fence.to = NoTime /\ c.span.to < now /\ added = {}
        THEN p
        ELSE [p EXCEPT !.terminal = @ \cup added,
                       !.fence    = c.span,
                       !.cancel   = IF @ = NoInterval THEN @
                                    ELSE [@ EXCEPT !.to = c.span.to]]

\* The cutoff is inclusive.
ClearExpiredFence(p, now) ==
    IF p.fence.to # NoTime /\ now > p.fence.to
    THEN [p EXCEPT !.fence = NoInterval] ELSE p

\* stale_once_alarm_ids: enabled, not terminal, past catch-up.
StaleAlarms(p, now) ==
    {o \in p.alarms \ p.terminal : WakeAt[o] + Catchup < now}

\* _calculate_occurrences_locked, the part that changes the profile.
Refreshed(p, now) ==
    LET q == ClearExpiredFence(ExpandFence(p, now), now)
    IN  [q EXCEPT !.alarms = @ \ (q.terminal \cup StaleAlarms(q, now)),
                  !.missed = @ \cup StaleAlarms(q, now)]

\* resolve_profile_occurrences on a refreshed profile.
Scheduled(p, now) ==
    {o \in p.alarms \ p.terminal :
        /\ p.fence.to = NoTime \/ RampStart[o] > p.fence.to
        /\ WakeAt[o] + Catchup >= now}

=============================================================================
