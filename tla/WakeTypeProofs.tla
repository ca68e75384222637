---------------------------- MODULE WakeTypeProofs ----------------------------
(***************************************************************************)
(* Facts about the operators of WakeEngine, and type correctness of the    *)
(* coordinator, for every set of alarms, lights, schedule and bound: in    *)
(* particular no stage of a handler works on a run that is gone.           *)
(***************************************************************************)
EXTENDS WakeCoordinator, FiniteSetTheorems, SequenceTheorems, WellFoundedInduction, TLAPS

-----------------------------------------------------------------------------
(***************************************************************************)
(* Latest and Earliest of a finite set.                                    *)
(***************************************************************************)

\* Among finitely many points in time there is a last one: a smallest set
\* without one would have one as soon as an element is taken away.
LEMMA LastExists ==
    ASSUME NEW S, IsFiniteSet(S), S \subseteq Int, S # {}
    PROVE  \E t \in S : \A u \in S : u <= t
<1> DEFINE HasLast(T) == \E t \in T : \A u \in T : u <= t
           Bad == {T \in FiniteSubsetsOf(S) : T # {} /\ ~HasLast(T)}
<1>1. SUFFICES ASSUME Bad # {} PROVE FALSE
  BY DEF FiniteSubsetsOf
<1>2. PICK T \in Bad : \A U \in Bad : <<U, T>> \notin StrictSubsetOrdering(S)
  <2>1. Bad \subseteq FiniteSubsetsOf(S)
    OBVIOUS
  <2> HIDE DEF Bad
  <2> QED  BY <1>1, <2>1, WFMin, FS_StrictSubsetOrderingWellFounded
<1>3. PICK x \in T : TRUE
  OBVIOUS
<1>4. T \in SUBSET S /\ IsFiniteSet(T) /\ T # {} /\ ~HasLast(T)
  BY DEF FiniteSubsetsOf
<1> DEFINE U == T \ {x}
<1>5. U \in FiniteSubsetsOf(S)
  BY <1>4, FS_RemoveElement DEF FiniteSubsetsOf
<1>6. CASE U = {}
  <2>1. T = {x}
    BY <1>3, <1>6
  <2> QED  BY <2>1, <1>4
<1>7. CASE U # {}
  <2>1. HasLast(U)
    <3>1. <<U, T>> \in StrictSubsetOrdering(S)
      BY <1>3, <1>4 DEF StrictSubsetOrdering
    <3> QED  BY <1>2, <1>5, <1>7, <3>1
  <2>2. PICK t \in U : \A u \in U : u <= t
    BY <2>1
  <2>3. CASE x <= t
    BY <2>2, <2>3, <1>4
  <2>4. CASE ~(x <= t)
    BY <2>2, <2>4, <1>4
  <2> QED  BY <2>3, <2>4
<1> QED  BY <1>6, <1>7

\* So Latest is what its name says.
LEMMA LatestIn ==
    ASSUME NEW S, IsFiniteSet(S), S \subseteq Int, S # {}
    PROVE  Latest(S) \in S /\ \A u \in S : u <= Latest(S)
BY LastExists DEF Latest

\* The points in time attached to finitely many things are finitely many.
LEMMA TimesFinite ==
    ASSUME NEW X, IsFiniteSet(X), NEW f, DOMAIN f = X
    PROVE  IsFiniteSet({f[x] : x \in X})
<1> DEFINE T == {f[x] : x \in X}
           g == [x \in X |-> f[x]]
<1>1. g \in Surjection(X, T)
  BY DEF Surjection
<1> QED  BY <1>1, FS_Surjection

\* Earliest is what its name says: mirror the points in time at 0.
LEMMA EarliestIn ==
    ASSUME NEW S, IsFiniteSet(S), S \subseteq Int, S # {}
    PROVE  Earliest(S) \in S /\ \A u \in S : Earliest(S) <= u
<1> DEFINE f == [x \in S |-> -x]
           T == {f[x] : x \in S}
<1>1. IsFiniteSet(T)
  BY TimesFinite
<1>2. T \subseteq Int /\ T # {}
  <2>1. \A x \in S : f[x] \in Int /\ f[x] \in T
    OBVIOUS
  <2> QED  BY <2>1
<1>3. PICK t \in T : \A u \in T : u <= t
  <2> HIDE DEF T
  <2> QED  BY <1>1, <1>2, LastExists
<1>4. PICK x \in S : t = -x
  OBVIOUS
<1>5. \A u \in S : -u \in T
  OBVIOUS
<1>6. \A u \in S : x <= u
  BY <1>3, <1>4, <1>5
<1> QED  BY <1>4, <1>6 DEF Earliest

\* Among finitely many alarms one has the least time.
LEMMA LeastTime ==
    ASSUME NEW X, IsFiniteSet(X), X # {}, NEW f, \A x \in X : f[x] \in Int
    PROVE  \E x \in X : \A y \in X : f[x] <= f[y]
<1> DEFINE g == [x \in X |-> f[x]]
           T == {g[x] : x \in X}
<1>1. IsFiniteSet(T)
  BY TimesFinite
<1>2. /\ \A x \in X : g[x] \in T /\ g[x] = f[x]
      /\ \A u \in T : \E x \in X : u = f[x]
  OBVIOUS
<1> HIDE DEF g, T
<1>3. T \subseteq Int /\ T # {}
  BY <1>2
<1>4. Earliest(T) \in T /\ \A u \in T : Earliest(T) <= u
  BY <1>1, <1>3, EarliestIn
<1>5. PICK x \in X : Earliest(T) = f[x]
  BY <1>2, <1>4
<1> QED  BY <1>2, <1>4, <1>5

\* Alarms that are due have a first one.
LEMMA FirstOfIn ==
    ASSUME NEW S \in SUBSET Occ, S # {}
    PROVE  FirstOf(S) \in S
<1> USE OccAssumption, TimeAssumption
<1>1. IsFiniteSet(S)
  BY FS_Subset
<1>2. PICK a \in S : \A p \in S : RampStart[a] <= RampStart[p]
  BY <1>1, LeastTime
<1> DEFINE A == {o \in S : RampStart[o] = RampStart[a]}
<1>3. PICK b \in A : \A p \in A : WakeAt[b] <= WakeAt[p]
  <2>1. IsFiniteSet(A) /\ A # {}
    BY <1>1, FS_Subset
  <2>2. \A o \in A : WakeAt[o] \in Int
    OBVIOUS
  <2> HIDE DEF A
  <2> QED  BY <2>1, <2>2, LeastTime
<1>4. \A p \in S : \/ RampStart[b] < RampStart[p]
                   \/ RampStart[b] = RampStart[p] /\ WakeAt[b] <= WakeAt[p]
  BY <1>2, <1>3
<1> QED  BY <1>3, <1>4 DEF FirstOf

-----------------------------------------------------------------------------
(***************************************************************************)
(* What the operators return.                                              *)
(***************************************************************************)

\* The hold of an alarm that starts is in the future of the epoch.
LEMMA HoldType ==
    ASSUME NEW o \in Occ, NEW now \in Int
    PROVE  ScheduledHold(o, now) \in Nat
BY TimeAssumption DEF ScheduledHold, Later

\* A started run is a run (start_run).
LEMMA StartRunType ==
    ASSUME NEW due \in SUBSET Occ, due # {}, NEW now \in Int, NEW floor \in 1 .. Full
    PROVE  StartRun(due, now, floor) \in Run
<1>1. FirstOf(due) \in Occ
  BY FirstOfIn
<1> DEFINE h == [o \in Occ |-> IF o \in due THEN ScheduledHold(o, now) ELSE 0]
<1>2. h \in [Occ -> Nat]
  BY HoldType
<1>3. Leaf # {} /\ Full \in Nat
  BY OccAssumption, TimeAssumption
<1>4. StartRun(due, now, floor).hold = h
  BY DEF StartRun
<1> HIDE DEF h
<1> QED  BY <1>1, <1>2, <1>3, <1>4 DEF StartRun, Run, NoTime

\* A run that occurrences join is still a run (merge_occurrences).
LEMMA MergeType ==
    ASSUME NEW r \in Run, NEW due \in SUBSET Occ, NEW now \in Int
    PROVE  MergeOccurrences(r, due, now) \in Run
<1> DEFINE h == [o \in Occ |-> IF o \in due \ r.occs THEN ScheduledHold(o, now)
                               ELSE r.hold[o]]
<1>1. h \in [Occ -> Nat]
  BY HoldType DEF Run
<1>2. MergeOccurrences(r, due, now) =
        [r EXCEPT !.occs = r.occs \cup due, !.hold = h]
  BY DEF MergeOccurrences, Run
<1> HIDE DEF h
<1>3. r.occs \cup due \in (SUBSET Occ) \ {{}}
  BY DEF Run
<1> QED  BY <1>1, <1>2, <1>3 DEF Run

\* A run without some occurrences is a run, or gone with the last one
\* (remove_occurrence).
LEMMA WithoutType ==
    ASSUME NEW r \in Run, NEW gone
    PROVE  /\ Without(r, gone) \in Run \cup {NoRun}
           /\ ~(r.occs \subseteq gone) => Without(r, gone) \in Run
BY DEF Without, Run

\* A run without some leaves is a run, or gone with its last target
\* (release_leaf).
LEMMA ReleaseLeavesType ==
    ASSUME NEW r \in Run, NEW gone
    PROVE  /\ ReleaseLeaves(r, gone) \in Run \cup {NoRun}
           /\ ~(r.targets \subseteq gone) => ReleaseLeaves(r, gone) \in Run
           /\ gone \cap r.targets = {} => ReleaseLeaves(r, gone) \in Run
BY DEF ReleaseLeaves, Run

\* The observed brightness only raises the floor (observe_brightness).
LEMMA ObserveFloorType ==
    ASSUME NEW r \in Run, NEW level \in 1 .. Full
    PROVE  ObserveFloor(r, level) \in Run
<1>1. Full \in Nat
  BY TimeAssumption
<1> QED  BY <1>1 DEF ObserveFloor, Run, Later

\* A granted lease (mark_acquired).
LEMMA MarkAcquiredType ==
    ASSUME NEW r \in Run, NEW gen \in Nat, NEW exp \in Int
    PROVE  MarkAcquired(r, gen, exp) \in Run
BY DEF MarkAcquired, Run

\* A command that was executed (mark_dispatched).
LEMMA MarkDispatchedType ==
    ASSUME NEW r \in Run, NEW now \in Int, NEW level \in 0 .. Full,
           NEW T \in SUBSET Leaf, NEW force \in BOOLEAN
    PROVE  MarkDispatched(r, now, level, T, force) \in Run
<1>1. Full \in Nat
  BY TimeAssumption
<1>2. (IF force THEN r.final \cup {o \in r.occs : now >= WakeAt[o]} ELSE r.final)
         \in SUBSET Occ
  BY DEF Run
<1>3. Later(r.last, level) \in 0 .. Full
  BY <1>1 DEF Run, Later
<1> QED  BY <1>2, <1>3 DEF MarkDispatched, Run

\* The holds of a run that is resumed stay times.
LEMMA RefreshHoldsType ==
    ASSUME NEW r \in Run, NEW now \in Int
    PROVE  RefreshHolds(r, now) \in Run
<1>1. [o \in Occ |->
            IF /\ o \in r.occs \ r.final
               /\ now >= WakeAt[o]
               /\ now <= WakeAt[o] + Catchup
            THEN now + HoldFor[o] ELSE r.hold[o]] \in [Occ -> Nat]
  BY TimeAssumption DEF Run
<1> QED  BY <1>1 DEF RefreshHolds, Run

\* A ramp never exceeds full brightness before its alarm.
LEMMA RampLevelType ==
    ASSUME NEW o \in Occ, NEW now \in Int
    PROVE  RampLevel(o, now) \in 1 .. Full
<1> DEFINE a == Full - 1
           b == WakeAt[o] - RampStart[o]
           x == now - RampStart[o]
<1>1. CASE now >= WakeAt[o] \/ WakeAt[o] = RampStart[o]
  BY <1>1, TimeAssumption DEF RampLevel
<1>2. CASE ~(now >= WakeAt[o] \/ WakeAt[o] = RampStart[o])
  <2>1. a \in Nat /\ x \in Int /\ b \in Nat \ {0} /\ x < b
    BY <1>2, TimeAssumption
  <2>2. RampLevel(o, now) = Later(1, 1 + (a * x) \div b)
    BY <1>2 DEF RampLevel
  <2>3. CASE x >= 0
    <3>1. (a * x) \div b \in Int /\ (a * x) \div b <= a
      <4> HIDE DEF a, b, x
      <4> QED  BY <2>1, <2>3
    <3> QED  BY <2>1, <2>2, <3>1, TimeAssumption DEF Later
  <2>4. CASE x < 0
    <3>1. (a * x) \div b \in Int /\ (a * x) \div b <= 0
      <4> HIDE DEF a, b, x
      <4> QED  BY <2>1, <2>4
    <3> QED  BY <2>1, <2>2, <3>1, TimeAssumption DEF Later
  <2> QED  BY <2>1, <2>3, <2>4
<1> QED  BY <1>1, <1>2

\* Finitely many occurrences of a run are live.
LEMMA LiveFinite ==
    ASSUME NEW r \in Run, NEW now
    PROVE  Live(r, now) \in SUBSET Occ /\ IsFiniteSet(Live(r, now))
<1>1. Live(r, now) \in SUBSET Occ
  BY DEF Live, Run
<1> QED  BY <1>1, OccAssumption, FS_Subset

\* The level of a command is between the floor and full (desired_level).
LEMMA DesiredLevelType ==
    ASSUME NEW r \in Run, NEW now \in Int
    PROVE  DesiredLevel(r, now) \in 1 .. Full
<1> DEFINE L == Live(r, now)
           f == [o \in L |-> RampLevel(o, now)]
           T == {f[o] : o \in L}
           S == {1, r.floor, r.last} \cup T
<1>1. L \in SUBSET Occ /\ IsFiniteSet(L)
  BY LiveFinite
<1> HIDE DEF L
<1>2. IsFiniteSet(T)
  BY <1>1, TimesFinite
<1>3. T \subseteq 1 .. Full
  BY <1>1, RampLevelType
<1>4. DesiredLevel(r, now) = Latest(S)
  <2>1. T = {RampLevel(o, now) : o \in L}
    OBVIOUS
  <2> HIDE DEF T
  <2> QED  BY <2>1 DEF DesiredLevel, L
<1> HIDE DEF T
<1>5. IsFiniteSet(S)
  <2>1. IsFiniteSet(((T \cup {1}) \cup {r.floor}) \cup {r.last})
    BY <1>2, FS_AddElement
  <2>2. S = ((T \cup {1}) \cup {r.floor}) \cup {r.last}
    OBVIOUS
  <2> HIDE DEF S
  <2> QED  BY <2>1, <2>2
<1>6. Full \in Nat \ {0} /\ r.floor \in 1 .. Full /\ r.last \in 0 .. Full
  BY TimeAssumption DEF Run
<1>7. 1 \in S /\ \A u \in S : u \in Int /\ u <= Full
  <2>1. \A u \in T : u \in Int /\ u <= Full
    BY <1>3, <1>6
  <2> QED  BY <2>1, <1>6
<1> HIDE DEF S
<1>8. S \subseteq Int /\ S # {}
  BY <1>7
<1>9. Latest(S) \in S /\ \A u \in S : u <= Latest(S)
  BY <1>5, <1>8, LatestIn
<1> QED  BY <1>4, <1>6, <1>7, <1>9

\* The next deadline of a run is a time (next_deadline).
LEMMA NextDeadlineType ==
    ASSUME NEW r \in Run, NEW now \in Int
    PROVE  NextDeadline(r, now) \in Int
<1> DEFINE L == Live(r, now)
           f == [o \in L |-> StepDeadline(r, o, now)]
           T == {f[o] : o \in L}
<1>1. L \in SUBSET Occ /\ IsFiniteSet(L)
  BY LiveFinite
<1>2. \A o \in Occ : StepDeadline(r, o, now) \in Int
  BY TimeAssumption DEF StepDeadline, Run, Sooner, Later
<1> HIDE DEF L
<1>3. IsFiniteSet(T) /\ T \subseteq Int /\ (L # {} => T # {})
  BY <1>1, <1>2, TimesFinite
<1>4. NextDeadline(r, now) = IF L = {} THEN NoTime ELSE Earliest(T)
  <2>1. T = {StepDeadline(r, o, now) : o \in L}
    OBVIOUS
  <2> HIDE DEF T
  <2> QED  BY <2>1 DEF NextDeadline, L
<1> HIDE DEF T
<1>5. CASE L = {}
  BY <1>4, <1>5 DEF NoTime
<1>6. CASE L # {}
  <2>1. Earliest(T) \in T
    BY <1>3, <1>6, EarliestIn
  <2> QED  BY <2>1, <1>3, <1>4, <1>6
<1> QED  BY <1>5, <1>6

\* So is the time at which a recovery gives up.
LEMMA RetryDeadlineType ==
    ASSUME NEW r \in Run, NEW now \in Int
    PROVE  RetryDeadline(r, now) \in Int /\ LastDeadline(r) \in Int
<1> DEFINE f == [o \in r.occs |-> WakeAt[o]]
           T == {f[o] : o \in r.occs}
<1>1. r.occs \in SUBSET Occ /\ r.occs # {} /\ IsFiniteSet(r.occs)
  BY OccAssumption, FS_Subset DEF Run
<1>2. IsFiniteSet(T) /\ T \subseteq Int /\ T # {}
  <2>1. IsFiniteSet(T)
    BY <1>1, TimesFinite
  <2>2. \A o \in r.occs : f[o] \in Int /\ f[o] \in T
    BY <1>1, TimeAssumption
  <2> QED  BY <1>1, <2>1, <2>2
<1>3. LastDeadline(r) = Latest(T)
  <2>1. T = {WakeAt[o] : o \in r.occs}
    OBVIOUS
  <2> HIDE DEF T
  <2> QED  BY <2>1 DEF LastDeadline
<1> HIDE DEF T
<1>4. LastDeadline(r) \in Int
  BY <1>2, <1>3, LatestIn
<1> QED  BY <1>4, TimeAssumption DEF RetryDeadline, Sooner, Run, NoTime

-----------------------------------------------------------------------------
(***************************************************************************)
(* Connected episodes and the fence.                                       *)
(***************************************************************************)

\* The hull of a span and of some windows is an interval.
LEMMA HullType ==
    ASSUME NEW span \in Interval, NEW ids \in SUBSET Occ, NEW iv,
           \A o \in ids : iv[o].from \in Int /\ iv[o].to \in Int
    PROVE  Hull(span, ids, iv) \in Interval
<1> DEFINE f == [o \in ids |-> iv[o].from]
           g == [o \in ids |-> iv[o].to]
           F == {f[o] : o \in ids}
           G == {g[o] : o \in ids}
<1>1. IsFiniteSet(ids)
  BY OccAssumption, FS_Subset
<1>2. IsFiniteSet(F) /\ IsFiniteSet(G)
  BY <1>1, TimesFinite
<1>3. F \subseteq Int /\ G \subseteq Int
  OBVIOUS
<1>4. Hull(span, ids, iv) = [from |-> Earliest({span.from} \cup F),
                            to   |-> Latest({span.to} \cup G)]
  <2>1. F = {iv[o].from : o \in ids} /\ G = {iv[o].to : o \in ids}
    OBVIOUS
  <2> HIDE DEF F, G
  <2> QED  BY <2>1 DEF Hull
<1> HIDE DEF F, G
<1>5. IsFiniteSet(F \cup {span.from}) /\ IsFiniteSet(G \cup {span.to})
  BY <1>2, FS_AddElement
<1>6. span.from \in Int /\ span.to \in Int
  BY DEF Interval
<1>7. Earliest({span.from} \cup F) \in Int
  <2>1. Earliest(F \cup {span.from}) \in F \cup {span.from}
    BY <1>3, <1>5, <1>6, EarliestIn
  <2>2. F \cup {span.from} = {span.from} \cup F
    OBVIOUS
  <2> QED  BY <2>1, <2>2, <1>3, <1>6
<1>8. Latest({span.to} \cup G) \in Int
  <2>1. Latest(G \cup {span.to}) \in G \cup {span.to}
    BY <1>3, <1>5, <1>6, LatestIn
  <2>2. G \cup {span.to} = {span.to} \cup G
    OBVIOUS
  <2> QED  BY <2>1, <2>2, <1>3, <1>6
<1> QED  BY <1>4, <1>7, <1>8 DEF Interval

\* The windows connected with a span are some of the given ones, and their
\* hull is an interval (connected_episode).
LEMMA ConnectedType ==
    ASSUME NEW span \in Interval, NEW iv, DOMAIN iv \in SUBSET Occ,
           \A o \in DOMAIN iv : iv[o].from \in Int /\ iv[o].to \in Int
    PROVE  /\ Connected(span, iv).ids \in SUBSET DOMAIN iv
           /\ Connected(span, iv).span \in Interval
<1> DEFINE ids == {o \in DOMAIN iv :
                     \A S \in SUBSET DOMAIN iv : Closed(span, S, iv) => o \in S}
<1>1. ids \in SUBSET DOMAIN iv
  OBVIOUS
<1>2. Connected(span, iv) = [ids |-> ids, span |-> Hull(span, ids, iv)]
  BY DEF Connected
<1> HIDE DEF ids
<1>3. Hull(span, ids, iv) \in Interval
  BY <1>1, HullType
<1> QED  BY <1>1, <1>2, <1>3

\* So are the occurrences connected with a run.
LEMMA ConnectedEpisodeType ==
    ASSUME NEW r \in Run, NEW plan \in SUBSET Occ, NEW now \in Int
    PROVE  /\ ConnectedEpisode(r, plan, now).ids \in SUBSET Occ
           /\ ConnectedEpisode(r, plan, now).span \in Interval
<1> DEFINE f == [o \in r.occs |-> RampStart[o]]
           g == [o \in r.occs |-> r.hold[o]]
           F == {f[o] : o \in r.occs}
           G == {g[o] : o \in r.occs}
           own == [from |-> Earliest(F), to |-> Latest(G)]
           iv == [o \in plan \ r.occs |->
                     [from |-> RampStart[o], to |-> ScheduledHold(o, now)]]
<1>1. r.occs \in SUBSET Occ /\ r.occs # {} /\ IsFiniteSet(r.occs)
  BY OccAssumption, FS_Subset DEF Run
<1>2. IsFiniteSet(F) /\ IsFiniteSet(G)
  BY <1>1, TimesFinite
<1>3. F \subseteq Int /\ F # {} /\ G \subseteq Int /\ G # {}
  <2>1. r.hold \in [Occ -> Nat]
    BY DEF Run
  <2>2. \A o \in r.occs : f[o] \in Int /\ f[o] \in F
    BY <1>1, TimeAssumption
  <2>3. \A o \in r.occs : g[o] \in Int /\ g[o] \in G
    BY <1>1, <2>1
  <2> QED  BY <1>1, <2>2, <2>3
<1>4. own \in Interval
  <2> HIDE DEF F, G
  <2>1. Earliest(F) \in Int
    BY <1>2, <1>3, EarliestIn
  <2>2. Latest(G) \in Int
    BY <1>2, <1>3, LatestIn
  <2> QED  BY <2>1, <2>2 DEF Interval
<1>5. /\ DOMAIN iv \in SUBSET Occ
      /\ \A o \in DOMAIN iv : iv[o].from \in Int /\ iv[o].to \in Int
  BY HoldType, TimeAssumption
<1>6. ConnectedEpisode(r, plan, now) =
        [Connected(own, iv) EXCEPT !.ids = @ \cup r.occs]
  <2>1. F = {RampStart[o] : o \in r.occs} /\ G = {r.hold[o] : o \in r.occs}
    OBVIOUS
  <2> HIDE DEF F, G
  <2> QED  BY <2>1 DEF ConnectedEpisode
<1> HIDE DEF own, iv
<1>7. /\ Connected(own, iv).ids \in SUBSET DOMAIN iv
      /\ Connected(own, iv).span \in Interval
  BY <1>4, <1>5, ConnectedType
<1>8. Connected(own, iv) = [ids |-> Connected(own, iv).ids,
                           span |-> Connected(own, iv).span]
  BY DEF Connected
<1> QED  BY <1>1, <1>5, <1>6, <1>7, <1>8

\* A profile that remembers a cancellation is a profile
\* (remember_user_cancellation).
LEMMA RememberType ==
    ASSUME NEW p \in Profile, NEW episode, episode.ids \in SUBSET Occ,
           episode.span \in Interval, NEW at \in Int
    PROVE  RememberUserCancellation(p, episode, at) \in Profile
BY DEF RememberUserCancellation, Profile, Interval, Later, NoTime

\* So is one whose fence takes in the connected alarms
\* (expand_relight_fence).
LEMMA ExpandFenceType ==
    ASSUME NEW p \in Profile, NEW now \in Int
    PROVE  ExpandFence(p, now) \in Profile /\ ExpandFence(p, now).run = p.run
<1> DEFINE cutoff == IF p.fence.to # NoTime THEN p.fence.to ELSE p.cancel.to
           start == IF p.fence.from # NoTime THEN p.fence.from ELSE p.cancel.from
           c == Connected([from |-> start, to |-> cutoff], Windows(p.alarms))
           added == {o \in c.ids : WakeAt[o] + Catchup >= now} \ p.terminal
<1>1. [from |-> start, to |-> cutoff] \in Interval
  BY DEF Profile, Interval
<1>2. /\ DOMAIN Windows(p.alarms) \in SUBSET Occ
      /\ \A o \in DOMAIN Windows(p.alarms) :
            /\ Windows(p.alarms)[o].from \in Int
            /\ Windows(p.alarms)[o].to \in Int
  BY TimeAssumption DEF Windows, Profile
<1> HIDE DEF start, cutoff
<1>3. c.ids \in SUBSET Occ /\ c.span \in Interval
  BY <1>1, <1>2, ConnectedType
<1>4. ExpandFence(p, now) = p \/
      ExpandFence(p, now) =
        [p EXCEPT !.terminal = @ \cup added, !.fence = c.span,
                  !.cancel = IF @ = NoInterval THEN @ ELSE [@ EXCEPT !.to = c.span.to]]
  BY DEF ExpandFence, start, cutoff
<1> HIDE DEF c
<1>5. p.cancel \in Interval /\ c.span.to \in Int
  BY <1>3 DEF Profile, Interval
<1> DEFINE cancel == IF p.cancel = NoInterval THEN p.cancel
                     ELSE [p.cancel EXCEPT !.to = c.span.to]
<1>6. cancel \in Interval
  BY <1>5 DEF Interval
<1>7. ExpandFence(p, now) = p \/
      ExpandFence(p, now) = [p EXCEPT !.terminal = p.terminal \cup added,
                                      !.fence = c.span, !.cancel = cancel]
  BY <1>4 DEF Profile
<1> HIDE DEF cancel
<1>8. added \in SUBSET Occ
  BY <1>3
<1> HIDE DEF added
<1> QED  BY <1>3, <1>6, <1>7, <1>8 DEF Profile

\* Refreshing a profile touches no run.
LEMMA RefreshedType ==
    ASSUME NEW p \in Profile, NEW now \in Int
    PROVE  Refreshed(p, now) \in Profile /\ Refreshed(p, now).run = p.run
<1> DEFINE q == ClearExpiredFence(ExpandFence(p, now), now)
<1>1. ExpandFence(p, now) \in Profile /\ ExpandFence(p, now).run = p.run
  BY ExpandFenceType
<1>2. q \in Profile /\ q.run = p.run
  BY <1>1 DEF ClearExpiredFence, Profile, Interval, NoInterval, NoTime
<1> HIDE DEF q
<1>3. StaleAlarms(q, now) \in SUBSET Occ
  BY <1>2 DEF StaleAlarms, Profile
<1>4. Refreshed(p, now) = [q EXCEPT !.alarms = @ \ (q.terminal \cup StaleAlarms(q, now)),
                                    !.missed = @ \cup StaleAlarms(q, now)]
  BY DEF Refreshed, q
<1> QED  BY <1>2, <1>3, <1>4 DEF Profile

\* Only occurrences are scheduled.
LEMMA ScheduledType ==
    ASSUME NEW p \in Profile, NEW now
    PROVE  Scheduled(p, now) \in SUBSET Occ
BY DEF Scheduled, Profile

\* The hull of a span and of some windows is the least interval around them.
LEMMA HullBounds ==
    ASSUME NEW span \in Interval, NEW ids \in SUBSET Occ, NEW iv,
           \A o \in ids : iv[o].from \in Int /\ iv[o].to \in Int
    PROVE  LET h == Hull(span, ids, iv)
           IN  /\ h.from <= span.from /\ span.to <= h.to
               /\ \A o \in ids : h.from <= iv[o].from /\ iv[o].to <= h.to
               /\ h.from = span.from \/ \E o \in ids : h.from = iv[o].from
               /\ h.to = span.to \/ \E o \in ids : h.to = iv[o].to
<1> DEFINE f == [o \in ids |-> iv[o].from]
           g == [o \in ids |-> iv[o].to]
           F == {span.from} \cup {f[o] : o \in ids}
           G == {span.to} \cup {g[o] : o \in ids}
<1>1. IsFiniteSet(ids)
  BY OccAssumption, FS_Subset
<1>2. span.from \in Int /\ span.to \in Int
  BY DEF Interval
<1>3. F \subseteq Int /\ G \subseteq Int /\ F # {} /\ G # {}
  BY <1>2
<1>4. IsFiniteSet(F) /\ IsFiniteSet(G)
  <2> DEFINE F0 == {f[o] : o \in ids}
             G0 == {g[o] : o \in ids}
  <2>1. IsFiniteSet(F0) /\ IsFiniteSet(G0)
    BY <1>1, TimesFinite
  <2>2. F = F0 \cup {span.from} /\ G = G0 \cup {span.to}
    OBVIOUS
  <2> HIDE DEF F, G, F0, G0
  <2> QED  BY <2>1, <2>2, FS_AddElement
<1>5. Hull(span, ids, iv) = [from |-> Earliest(F), to |-> Latest(G)]
  <2>1. F = {span.from} \cup {iv[o].from : o \in ids} /\ G = {span.to} \cup {iv[o].to : o \in ids}
    OBVIOUS
  <2> HIDE DEF F, G
  <2> QED  BY <2>1 DEF Hull
<1>6. /\ span.from \in F /\ span.to \in G
      /\ \A o \in ids : iv[o].from \in F /\ iv[o].to \in G
      /\ \A t \in F : t = span.from \/ \E o \in ids : t = iv[o].from
      /\ \A t \in G : t = span.to \/ \E o \in ids : t = iv[o].to
  OBVIOUS
<1> HIDE DEF F, G
<1>7. Earliest(F) \in F /\ \A t \in F : Earliest(F) <= t
  BY <1>3, <1>4, EarliestIn
<1>8. Latest(G) \in G /\ \A t \in G : t <= Latest(G)
  BY <1>3, <1>4, LatestIn
<1> QED  BY <1>5, <1>6, <1>7, <1>8

\* A window that is not connected with a span does not touch what is
\* (connected_episode): the least set that is closed under touching is closed.
LEMMA ConnectedApart ==
    ASSUME NEW span \in Interval, NEW iv, DOMAIN iv \in SUBSET Occ,
           \A o \in DOMAIN iv : iv[o].from \in Int /\ iv[o].to \in Int,
           NEW x \in DOMAIN iv, x \notin Connected(span, iv).ids
    PROVE  ~Touches(iv[x], Connected(span, iv).span)
<1> DEFINE ids == {o \in DOMAIN iv :
                     \A S \in SUBSET DOMAIN iv : Closed(span, S, iv) => o \in S}
           h == Hull(span, ids, iv)
<1>1. Connected(span, iv) = [ids |-> ids, span |-> h]
  BY DEF Connected
<1>2. PICK S \in SUBSET DOMAIN iv : Closed(span, S, iv) /\ x \notin S
  BY <1>1
<1>3. ids \in SUBSET S
  BY <1>2
<1> HIDE DEF ids
<1> DEFINE k == Hull(span, S, iv)
<1>4. k.from <= h.from /\ h.to <= k.to
  <2>1. S \in SUBSET Occ /\ ids \in SUBSET Occ
    BY <1>3
  <2>2. h \in Interval /\ k \in Interval
    BY <2>1, <1>3, HullType
  <2>3. /\ k.from <= span.from /\ span.to <= k.to
        /\ \A o \in S : k.from <= iv[o].from /\ iv[o].to <= k.to
    BY <2>1, HullBounds
  <2>4. /\ h.from = span.from \/ \E o \in ids : h.from = iv[o].from
        /\ h.to = span.to \/ \E o \in ids : h.to = iv[o].to
    BY <2>1, <1>3, HullBounds
  <2> HIDE DEF h, k
  <2> QED  BY <1>3, <2>3, <2>4
<1>5. h \in Interval /\ k \in Interval
  <2>1. S \in SUBSET Occ /\ ids \in SUBSET Occ
    BY <1>3
  <2> QED  BY <2>1, <1>3, HullType
<1>6. ~Touches(iv[x], k)
  BY <1>2 DEF Closed
<1> HIDE DEF h, k
<1>7. iv[x].from \in Int /\ iv[x].to \in Int
  OBVIOUS
<1>8. ~Touches(iv[x], h)
  BY <1>4, <1>5, <1>6, <1>7 DEF Touches, Interval
<1> QED  BY <1>1, <1>8

\* The occurrences of a run have all begun.
Begun(r, t) == r # NoRun => \A o \in r.occs : RampStart[o] <= t

\* What is not connected with a run that has begun starts after its episode.
LEMMA EpisodeApart ==
    ASSUME NEW r \in Run, NEW plan \in SUBSET Occ, NEW now \in Int, r # NoRun,
           Begun(r, now), NEW x \in plan,
           x \notin ConnectedEpisode(r, plan, now).ids
    PROVE  RampStart[x] > ConnectedEpisode(r, plan, now).span.to
<1> DEFINE own == [from |-> Earliest({RampStart[o] : o \in r.occs}),
                   to   |-> Latest({r.hold[o] : o \in r.occs})]
           iv == [o \in plan \ r.occs |->
                     [from |-> RampStart[o], to |-> ScheduledHold(o, now)]]
           c == Connected(own, iv)
<1>1. ConnectedEpisode(r, plan, now) = [c EXCEPT !.ids = @ \cup r.occs]
  BY DEF ConnectedEpisode
<1>2. r.occs \in SUBSET Occ /\ r.occs # {} /\ IsFiniteSet(r.occs) /\ r.hold \in [Occ -> Nat]
  BY OccAssumption, FS_Subset DEF Run
<1>3. own \in Interval /\ \E o \in r.occs : own.from = RampStart[o]
  <2> DEFINE f == [o \in r.occs |-> RampStart[o]]
             g == [o \in r.occs |-> r.hold[o]]
             F == {f[o] : o \in r.occs}
             G == {g[o] : o \in r.occs}
  <2>1. IsFiniteSet(F) /\ IsFiniteSet(G)
    BY <1>2, TimesFinite
  <2>2. F \subseteq Int /\ G \subseteq Int
    <3>1. \A o \in r.occs : RampStart[o] \in Int /\ r.hold[o] \in Int
      BY <1>2, TimeAssumption
    <3> QED  BY <3>1
  <2>3. F # {} /\ G # {}
    BY <1>2
  <2>4. F = {RampStart[o] : o \in r.occs} /\ G = {r.hold[o] : o \in r.occs}
    OBVIOUS
  <2>5. \A t \in F : \E o \in r.occs : t = RampStart[o]
    OBVIOUS
  <2> HIDE DEF F, G
  <2>6. Earliest(F) \in F /\ Latest(G) \in G
    BY <2>1, <2>2, <2>3, EarliestIn, LatestIn
  <2>7. own = [from |-> Earliest(F), to |-> Latest(G)]
    BY <2>4
  <2> QED  BY <2>2, <2>5, <2>6, <2>7 DEF Interval
<1>4. /\ DOMAIN iv \in SUBSET Occ
      /\ \A o \in DOMAIN iv : iv[o].from \in Int /\ iv[o].to \in Int
  BY HoldType, TimeAssumption
<1>5. c = [ids |-> c.ids, span |-> c.span]
  BY DEF Connected
<1>6. x \in DOMAIN iv /\ x \notin c.ids
  BY <1>1, <1>5
<1>7. iv[x] = [from |-> RampStart[x], to |-> ScheduledHold(x, now)]
  BY <1>6
<1>8. ConnectedEpisode(r, plan, now).span = c.span
  BY <1>1, <1>5
<1>9. c.span \in Interval /\ c.span.from <= own.from
  <2>1. c.span = Hull(own, c.ids, iv) /\ c.ids \in SUBSET DOMAIN iv
    <3>1. c.span = Hull(own, c.ids, iv)
      BY DEF Connected
    <3> HIDE DEF own, iv
    <3>2. c.ids \in SUBSET DOMAIN iv
      BY <1>3, <1>4, ConnectedType
    <3> QED  BY <3>1, <3>2
  <2> HIDE DEF own, iv, c
  <2> QED  BY <1>3, <1>4, <2>1, HullBounds, HullType
<1>10. ~Touches(iv[x], c.span)
  <2> HIDE DEF own, iv
  <2> QED  BY <1>3, <1>4, <1>6, ConnectedApart
<1>11. ScheduledHold(x, now) >= now /\ own.from <= now
  <2>1. ScheduledHold(x, now) >= now
    BY TimeAssumption DEF ScheduledHold, Later
  <2> HIDE DEF own
  <2>2. own.from <= now
    BY <1>2, <1>3, TimeAssumption DEF Begun
  <2> QED  BY <2>1, <2>2 DEF own
<1> HIDE DEF own, iv, c
<1>12. RampStart[x] \in Int /\ ScheduledHold(x, now) \in Int
  BY HoldType, TimeAssumption
<1> QED  BY <1>3, <1>7, <1>8, <1>9, <1>10, <1>11, <1>12 DEF Touches, Interval

\* Everything planned that is not over starts after the fence.
PlanApart(p, plan) ==
    p.fence.to # NoTime => \A o \in plan \ p.terminal : RampStart[o] > p.fence.to

\* A cancellation by the user leaves nothing planned inside its fence
\* (remember_user_cancellation).
LEMMA RememberApart ==
    ASSUME NEW p \in Profile, NEW r \in Run, r # NoRun, NEW plan \in SUBSET Occ,
           NEW at \in Int, Begun(r, at), PlanApart(p, plan)
    PROVE  PlanApart(RememberUserCancellation(p, ConnectedEpisode(r, plan, at), at), plan)
<1> DEFINE e == ConnectedEpisode(r, plan, at)
           q == RememberUserCancellation(p, e, at)
<1>1. e.ids \in SUBSET Occ /\ e.span \in Interval
  BY ConnectedEpisodeType
<1>2. \A o \in plan \ e.ids : RampStart[o] > e.span.to
  BY EpisodeApart
<1> HIDE DEF e
<1>3. /\ q.terminal = p.terminal \cup e.ids
      /\ q.fence.to = IF p.fence.to = NoTime THEN e.span.to
                      ELSE Later(e.span.to, p.fence.to)
  BY DEF RememberUserCancellation, Profile
<1>4. p.fence.to \in Int /\ e.span.to \in Int
  BY <1>1 DEF Profile, Interval
<1> HIDE DEF q
<1>5. PlanApart(q, plan)
  BY <1>2, <1>3, <1>4, TimeAssumption DEF PlanApart, Later
<1> QED  BY <1>5 DEF q, e

\* The schedule of a profile is apart from its fence
\* (resolve_profile_occurrences).
LEMMA ScheduledApart ==
    ASSUME NEW p, NEW now PROVE PlanApart(p, Scheduled(p, now))
BY DEF PlanApart, Scheduled

-----------------------------------------------------------------------------
(***************************************************************************)
(* TypeOK is not inductive: some stages work on the active run and some on *)
(* the run a handler has put aside in job.prev.  Fits says which of them   *)
(* may stand where in the stack, and that the next ones find their run.    *)
(***************************************************************************)
NeedRun == {"acquire", "send", "cancelled", "recovered", "reacquired", "merged",
            "started", "completed"}
NeedPrev == {"release", "safeOff", "failed", "abandoned", "ended", "fence"}
FirstOnly == {"recover", "settling"}
Plain == StageNames \ (NeedRun \cup NeedPrev \cup FirstOnly)

\* A stage that is not plain is the first one, or the second one of these.
Pairs == {<<"acquire", "recovered">>, <<"acquire", "reacquired">>,
          <<"acquire", "merged">>, <<"acquire", "started">>,
          <<"release", "cancelled">>, <<"release", "completed">>,
          <<"release", "failed">>, <<"release", "abandoned">>,
          <<"release", "ended">>, <<"safeOff", "fence">>}

\* The second stages that end the run they find.
Ends == {"cancelled", "completed"}

Fits(s, r, prev) ==
    /\ s \in Seq(StageNames)
    /\ \A i \in 3 .. Len(s) : s[i] \in Plain
    /\ Len(s) >= 2 /\ s[2] \notin Plain => <<s[1], s[2]>> \in Pairs
    /\ Len(s) >= 1 /\ s[1] \in NeedRun => r \in Run
    /\ Len(s) >= 1 /\ s[1] \in NeedPrev => prev \in Run
    /\ Len(s) >= 2 /\ s[2] \in Ends => r \in Run

\* PBL leases the room to a lease id.
LeaseKnown == pbl.status # "none" => pbl.lease \in Occ

TypeInv == TypeOK /\ Fits(stack, run, job.prev) /\ LeaseKnown

\* A stack of plain stages.
LEMMA AllPlain ==
    ASSUME NEW s \in Seq(StageNames), \A i \in 1 .. Len(s) : s[i] \in Plain
    PROVE  s \in Seq(Plain)
<1>1. s \in [1 .. Len(s) -> StageNames] /\ Len(s) \in Nat
  BY LenProperties
<1>2. s \in [1 .. Len(s) -> Plain]
  BY <1>1
<1> QED  BY <1>1, <1>2, SeqDef

\* Plain stages fit whatever has become of the run.
LEMMA PlainFits ==
    ASSUME NEW s \in Seq(Plain), NEW r, NEW prev
    PROVE  Fits(s, r, prev)
<1>1. s \in Seq(StageNames)
  BY SeqDef DEF Plain
<1>2. Len(s) \in Nat /\ \A i \in 1 .. Len(s) : s[i] \in Plain
  BY ElementOfSeq, LenProperties
<1>3. \A i \in 3 .. Len(s) : s[i] \in Plain
  BY <1>2
<1>4. Len(s) >= 1 => s[1] \in Plain
  BY <1>2
<1>5. Len(s) >= 2 => s[2] \in Plain
  BY <1>2
<1> QED  BY <1>1, <1>3, <1>4, <1>5 DEF Fits, Plain, NeedRun, NeedPrev, FirstOnly, Ends

\* One stage before plain ones.
LEMMA OneFits ==
    ASSUME NEW s \in Seq(Plain), NEW a \in StageNames, NEW r, NEW prev,
           a \in NeedRun => r \in Run, a \in NeedPrev => prev \in Run
    PROVE  Fits(<<a>> \o s, r, prev)
<1> DEFINE t == <<a>> \o s
<1>1. s \in Seq(StageNames) /\ <<a>> \in Seq(StageNames)
  BY SeqDef DEF Plain
<1>2. Len(s) \in Nat /\ \A i \in 1 .. Len(s) : s[i] \in Plain
  BY ElementOfSeq, LenProperties
<1>3. /\ t \in Seq(StageNames) /\ Len(t) = 1 + Len(s)
      /\ t[1] = a /\ \A i \in 2 .. Len(t) : t[i] = s[i - 1]
  BY <1>1, <1>2, ConcatProperties
<1> HIDE DEF t
<1>4. \A i \in 2 .. Len(t) : t[i] \in Plain
  BY <1>2, <1>3
<1>5. Fits(t, r, prev)
  BY <1>2, <1>3, <1>4 DEF Fits, Plain, NeedRun, Ends
<1> QED  BY <1>5 DEF t

\* Two stages of Pairs before plain ones.
LEMMA TwoFit ==
    ASSUME NEW s \in Seq(Plain), NEW a \in StageNames, NEW b \in StageNames,
           NEW r, NEW prev, <<a, b>> \in Pairs,
           a \in NeedRun \/ b \in Ends => r \in Run, a \in NeedPrev => prev \in Run
    PROVE  Fits(<<a, b>> \o s, r, prev)
<1> DEFINE t == <<a, b>> \o s
<1>1. s \in Seq(StageNames) /\ <<a, b>> \in Seq(StageNames)
  BY SeqDef DEF Plain
<1>2. Len(s) \in Nat /\ \A i \in 1 .. Len(s) : s[i] \in Plain
  BY ElementOfSeq, LenProperties
<1>3. /\ t \in Seq(StageNames) /\ Len(t) = 2 + Len(s)
      /\ t[1] = a /\ t[2] = b /\ \A i \in 3 .. Len(t) : t[i] = s[i - 2]
  BY <1>1, <1>2, ConcatProperties
<1> HIDE DEF t
<1>4. \A i \in 3 .. Len(t) : t[i] \in Plain
  BY <1>2, <1>3
<1>5. Fits(t, r, prev)
  BY <1>2, <1>3, <1>4 DEF Fits
<1> QED  BY <1>5 DEF t

\* A stage that starts no pair leaves plain stages.
LEMMA RestPlain ==
    ASSUME NEW s, NEW r, NEW prev, Fits(s, r, prev), s # <<>>,
           Head(s) \notin {"acquire", "release", "safeOff"}
    PROVE  Tail(s) \in Seq(Plain)
<1>1. /\ Tail(s) \in Seq(StageNames) /\ Len(Tail(s)) = Len(s) - 1
      /\ \A i \in 1 .. Len(Tail(s)) : Tail(s)[i] = s[i + 1]
      /\ Len(s) \in Nat \ {0} /\ Head(s) = s[1]
  BY HeadTailProperties, EmptySeq, LenProperties DEF Fits
<1>2. Len(s) >= 2 => s[2] \in Plain
  BY <1>1 DEF Fits, Pairs
<1>3. \A i \in 1 .. Len(Tail(s)) : Tail(s)[i] \in Plain
  BY <1>1, <1>2 DEF Fits
<1> QED  BY <1>1, <1>3, AllPlain

\* The concatenations that handlers build their first stages with.
LEMMA Joined ==
    ASSUME NEW a, NEW b
    PROVE  <<>> \o <<a>> = <<a>> /\ <<a>> \o <<b>> = <<a, b>>
<1> DEFINE S == {a, b}
<1>1. <<>> \in Seq(S) /\ <<a>> \in Seq(S) /\ <<b>> \in Seq(S) /\ <<a, b>> \in Seq(S)
  OBVIOUS
<1>2. <<>> \o <<a>> = <<a>>
  BY <1>1, ConcatEmptySeq
<1>3. /\ <<a>> \o <<b>> \in Seq(S) /\ Len(<<a>> \o <<b>>) = 2
      /\ (<<a>> \o <<b>>)[1] = a /\ (<<a>> \o <<b>>)[2] = b
  BY <1>1, ConcatProperties
<1>4. <<a>> \o <<b>> = <<a, b>>
  <2> DEFINE t == <<a>> \o <<b>>
  <2>1. \A i \in 1 .. Len(t) : t[i] = <<a, b>>[i]
    BY <1>3
  <2>2. Len(t) = Len(<<a, b>>)
    BY <1>3
  <2> QED  BY <1>1, <1>3, <2>1, <2>2, SeqEqual
<1> QED  BY <1>2, <1>4

\* A tuple of three, taken apart.
LEMMA ThreeJoined ==
    ASSUME NEW a, NEW b, NEW c PROVE <<a, b, c>> = <<a>> \o <<b, c>>
<1> DEFINE S == {a, b, c}
           t == <<a, b, c>>
           u == <<a>> \o <<b, c>>
<1>1. t \in Seq(S) /\ Len(t) = 3
  OBVIOUS
<1>2. <<a>> \in Seq(S) /\ <<b, c>> \in Seq(S)
  OBVIOUS
<1>3. u \in Seq(S) /\ Len(u) = 3 /\ u[1] = a /\ u[2] = b /\ u[3] = c
  BY <1>2, ConcatProperties
<1>4. \A i \in 1 .. Len(t) : t[i] = u[i]
  BY <1>1, <1>3
<1> QED  BY <1>1, <1>3, <1>4, SeqEqual

\* A release, when there is something to release, and what follows it.
LEMMA ReleaseFits ==
    ASSUME NEW s \in Seq(Plain), NEW x, NEW r, NEW prev \in Run,
           NEW b \in {"cancelled", "completed", "failed", "abandoned", "ended"},
           b \in Ends => r \in Run
    PROVE  Fits(ReleaseOf(x) \o <<b>> \o s, r, prev)
<1>1. ReleaseOf(x) \o <<b>> = <<b>> \/ ReleaseOf(x) \o <<b>> = <<"release", b>>
  BY Joined DEF ReleaseOf
<1>2. Fits(<<b>> \o s, r, prev)
  BY OneFits DEF StageNames, NeedRun, NeedPrev, Ends
<1>3. Fits(<<"release", b>> \o s, r, prev)
  <2>1. "release" \in StageNames /\ b \in StageNames /\ "release" \notin NeedRun
    BY DEF StageNames, NeedRun
  <2>2. <<"release", b>> \in Pairs
    BY DEF Pairs
  <2> QED  BY <2>1, <2>2, TwoFit
<1> QED  BY <1>1, <1>2, <1>3

\* A plain stage more.
LEMMA PlainMore ==
    ASSUME NEW s \in Seq(Plain), NEW a \in Plain
    PROVE  <<a>> \o s \in Seq(Plain)
<1>1. <<a>> \in Seq(Plain)
  OBVIOUS
<1> QED  BY <1>1, ConcatProperties

\* An acquire and a plain stage that looks at its answer.
LEMMA AcquireAnd ==
    ASSUME NEW s \in Seq(Plain), NEW b \in Plain, NEW r \in Run, NEW prev
    PROVE  Fits(<<"acquire", b>> \o s, r, prev)
<1>1. <<b>> \o s \in Seq(Plain)
  BY PlainMore
<1>2. <<"acquire", b>> \o s = <<"acquire">> \o (<<b>> \o s)
  <2>1. /\ <<"acquire">> \in Seq(StageNames) /\ <<b>> \in Seq(StageNames)
        /\ s \in Seq(StageNames)
    BY SeqDef DEF Plain, StageNames
  <2>2. <<"acquire", b>> = <<"acquire">> \o <<b>>
    BY Joined
  <2> QED  BY <2>1, <2>2, ConcatAssociative
<1> QED  BY <1>1, <1>2, OneFits DEF StageNames, NeedPrev

\* What a stage that may start a pair leaves fits as well.
LEMMA RestFits ==
    ASSUME NEW s, NEW r, NEW prev, Fits(s, r, prev), s # <<>>,
           NEW q, r \in Run => q \in Run
    PROVE  Fits(Tail(s), q, prev)
<1>1. /\ Tail(s) \in Seq(StageNames) /\ Len(Tail(s)) = Len(s) - 1
      /\ \A i \in 1 .. Len(Tail(s)) : Tail(s)[i] = s[i + 1]
      /\ Len(s) \in Nat \ {0} /\ Head(s) = s[1]
  BY HeadTailProperties, EmptySeq, LenProperties DEF Fits
<1>2. \A i \in 2 .. Len(Tail(s)) : Tail(s)[i] \in Plain
  BY <1>1 DEF Fits
<1>3. CASE Len(s) = 1
  BY <1>1, <1>3 DEF Fits
<1>4. CASE Len(s) >= 2
  <2>1. Tail(s)[1] = s[2]
    BY <1>1, <1>4
  <2>2. Tail(s)[1] \in NeedRun => q \in Run
    BY <2>1, <1>4 DEF Fits, Plain, Pairs, NeedRun, NeedPrev, FirstOnly, Ends
  <2>3. Tail(s)[1] \in NeedPrev => prev \in Run
    BY <2>1, <1>4 DEF Fits, Plain, Pairs, NeedRun, NeedPrev, FirstOnly
  <2>4. Len(Tail(s)) >= 2 => Tail(s)[2] \in Plain
    BY <1>1, <1>2
  <2> QED  BY <1>1, <1>2, <2>2, <2>3, <2>4 DEF Fits, Plain, NeedRun, Ends
<1> QED  BY <1>1, <1>3, <1>4

-----------------------------------------------------------------------------
(***************************************************************************)
(* TypeInv in two parts: what the stages of a handler change, and what is  *)
(* around them (Quiet).                                                    *)
(***************************************************************************)
Inner ==
    /\ st \in Profile /\ scheduled \in SUBSET Occ
    /\ observed \in [Leaf -> Occ \cup {NoOcc}]
    /\ retryAt \in Int /\ retryBy \in Int /\ revokeBy \in Int /\ settle \in Int
    /\ timer \in Int
    /\ job \in Jobs /\ Fits(stack, run, job.prev)

Outer ==
    /\ disk \in Profile
    /\ phase \in {"down", "starting", "running", "unloading"} /\ stopping \in BOOLEAN
    /\ queue \in Seq(Tasks) /\ clock \in Nat
    /\ lights \in [Leaf -> 0 .. Full]
    /\ touch \in [Leaf -> [by : {"nobody", "wake", "user"}, lease : Occ \cup {NoOcc}]]
    /\ vacation \in {"off", "on", "unknown"}
    /\ room \in {"ready", "unknown", "blocked"}
    /\ pbl \in Leases /\ pblGen \in Nat /\ retired \in SUBSET Occ
    /\ LeaseKnown
    /\ left \in [{"user", "lags", "faults", "restarts"} -> Nat]

\* The two parts are the whole invariant.
LEMMA TwoParts == TypeInv <=> Inner /\ Outer
BY DEF TypeInv, TypeOK, Inner, Outer, Fits

\* A stage of a handler leaves the surroundings typed.
LEMMA QuietOuter == ASSUME Outer, Quiet PROVE Outer'
BY DEF Outer, Quiet, proc, peer, world, LeaseKnown

\* An active run is a run.
LEMMA ActiveRun == ASSUME Inner, Active PROVE run \in Run
BY DEF Inner, Active, run, Profile

\* The locals of a handler that gives a run up.
LEMMA CancelJob ==
    ASSUME NEW j \in Jobs, NEW t \in Int, NEW user \in BOOLEAN, NEW off \in BOOLEAN,
           NEW r \in Run \cup {NoRun}
    PROVE  [j EXCEPT !.at = t, !.user = user, !.off = off, !.prev = r] \in Jobs
BY DEF Jobs

\* Giving a run up is typed (_cancel_active_locked).
LEMMA CancelType ==
    ASSUME Inner, clock \in Nat, NEW p \in Profile, NEW user \in BOOLEAN,
           NEW revoked \in BOOLEAN, NEW off \in BOOLEAN, NEW rest \in Seq(Plain),
           Cancel(p, user, revoked, off, rest)
    PROVE  /\ st' \in Profile /\ revokeBy' \in Int /\ timer' \in Int
           /\ job' \in Jobs /\ Fits(stack', run', job'.prev)
<1>1. CASE p.run = NoRun
  BY <1>1, PlainFits DEF Cancel, Goto, Inner, NoTime
<1>2. CASE p.run # NoRun
  <2>1. p.run \in Run
    BY <1>2 DEF Profile
  <2>2. revokeBy' = NoTime /\ timer' = NoTime
    BY <1>2 DEF Cancel
  <2>3. st' = [p EXCEPT !.alarms = p.alarms \ FiredAlarms(p.run)]
    BY <1>2 DEF Cancel, Profile
  <2>4. st' \in Profile /\ run' = p.run
    BY <2>3 DEF Profile, run
  <2>5. job' = [job EXCEPT !.at = clock, !.user = user, !.off = off, !.prev = p.run]
    BY <1>2 DEF Cancel
  <2>6. job' \in Jobs /\ job'.prev = p.run
    <3>1. job \in Jobs
      BY DEF Inner
    <3>2. clock \in Int
      OBVIOUS
    <3>3. job' \in Jobs
      BY <2>1, <2>5, <3>1, <3>2, CancelJob
    <3>4. job'.prev = p.run
      BY <2>5, <3>1 DEF Jobs
    <3> QED  BY <3>3, <3>4
  <2>7. stack' = (IF revoked THEN <<>> ELSE ReleaseOf(p.run)) \o <<"cancelled">> \o rest
    BY <1>2 DEF Cancel, Goto
  <2>8. \/ stack' = <<"cancelled">> \o rest
        \/ stack' = <<"release", "cancelled">> \o rest
    <3>1. /\ <<>> \o <<"cancelled">> = <<"cancelled">>
          /\ <<"release">> \o <<"cancelled">> = <<"release", "cancelled">>
      BY Joined
    <3> QED  BY <2>7, <3>1 DEF ReleaseOf
  <2>9. /\ Fits(<<"cancelled">> \o rest, p.run, p.run)
        /\ Fits(<<"release", "cancelled">> \o rest, p.run, p.run)
    BY <2>1, OneFits, TwoFit DEF StageNames, Pairs
  <2>10. Fits(stack', run', job'.prev)
    BY <2>4, <2>6, <2>8, <2>9
  <2> QED  BY <2>2, <2>4, <2>6, <2>10 DEF NoTime
<1> QED  BY <1>1, <1>2

\* Keeping the run, with stages left that fit it, is typed.
LEMMA NoCancelType ==
    ASSUME Inner, NEW p \in Profile, NEW rest, Fits(rest, p.run, job.prev),
           NoCancel(p, rest)
    PROVE  /\ st' \in Profile /\ revokeBy' \in Int /\ timer' \in Int
           /\ job' \in Jobs /\ Fits(stack', run', job'.prev)
BY DEF Inner, NoCancel, Goto, run

\* The brightness that a run observes.
LEMMA TargetFloorType ==
    ASSUME lights \in [Leaf -> 0 .. Full], NEW X \in SUBSET Leaf
    PROVE  TargetFloor(X) \in 1 .. Full
<1>1. X \in SUBSET Leaf /\ IsFiniteSet(X)
  BY OccAssumption, FS_Subset
<1> DEFINE f == [l \in X |-> lights[l]]
           T == {f[l] : l \in X}
<1>2. IsFiniteSet(T)
  BY <1>1, TimesFinite
<1>3. \A u \in T : u \in 0 .. Full
  BY <1>1
<1>4. TargetFloor(X) = Latest({1} \cup T)
  <2>1. T = {lights[l] : l \in X}
    OBVIOUS
  <2> HIDE DEF T
  <2> QED  BY <2>1 DEF TargetFloor
<1> HIDE DEF T
<1> QED
  <2> DEFINE S == {1} \cup T
  <2>1. Full \in Nat \ {0}
    BY TimeAssumption
  <2>2. 1 \in S /\ \A u \in S : u \in Int /\ u <= Full
    BY <1>3, <2>1
  <2>3. IsFiniteSet(S)
    <3>1. IsFiniteSet(T \cup {1}) /\ S = T \cup {1}
      BY <1>2, FS_AddElement
    <3> QED  BY <3>1
  <2> HIDE DEF S
  <2>4. S \subseteq Int /\ S # {}
    BY <2>2
  <2>5. Latest(S) \in S /\ \A u \in S : u <= Latest(S)
    BY <2>3, <2>4, LatestIn
  <2>6. Latest(S) \in 1 .. Full
    BY <2>1, <2>2, <2>5
  <2> QED  BY <1>4, <2>6 DEF S

\* So is a run that observes the brightness of its lights.
LEMMA WatchedType ==
    ASSUME lights \in [Leaf -> 0 .. Full], NEW r \in Run, NEW now
    PROVE  Watched(r, now) \in Run
<1>1. TargetFloor(r.targets) \in 1 .. Full
  BY TargetFloorType DEF Run
<1> QED  BY <1>1, ObserveFloorType DEF Watched

-----------------------------------------------------------------------------
(***************************************************************************)
(* The shared parts of the stages.                                         *)
(***************************************************************************)
Typed == /\ st' \in Profile /\ revokeBy' \in Int /\ timer' \in Int
         /\ job' \in Jobs /\ Fits(stack', run', job'.prev)

\* A handler that puts a run aside.
LEMMA JobPrev ==
    ASSUME NEW j \in Jobs, NEW r \in Run \cup {NoRun}, NEW k,
           k = [j EXCEPT !.prev = r]
    PROVE  k \in Jobs /\ k.prev = r
BY DEF Jobs

\* Giving a recovery up is typed (_fail_recovery_locked).
LEMMA FailRecoveryType ==
    ASSUME Inner, NEW r \in Run, NEW rest \in Seq(Plain), FailRecovery(r, rest)
    PROVE  Typed
<1>1. st' \in Profile /\ run' = r
  BY DEF FailRecovery, Inner, Profile, run
<1>2. job' \in Jobs /\ job'.prev = r
  <2>1. job \in Jobs /\ job' = [job EXCEPT !.prev = r]
    BY DEF FailRecovery, Inner
  <2> QED  BY <2>1, JobPrev
<1>3. stack' = ReleaseOf(r) \o <<"failed">> \o rest
  BY DEF FailRecovery, Goto
<1>4. Fits(stack', run', job'.prev)
  BY <1>1, <1>2, <1>3, ReleaseFits
<1> QED  BY <1>1, <1>2, <1>4 DEF Typed, FailRecovery, Inner

\* So is trying it again later (_schedule_recovery_retry_locked).
LEMMA RetryOrFailType ==
    ASSUME Inner, NEW r \in Run, NEW rest \in Seq(Plain), RetryOrFail(r, rest)
    PROVE  Typed /\ retryAt' \in Int /\ retryBy' \in Int
<1> DEFINE by == IF retryBy = NoTime THEN RetryDeadline(r, job.now) ELSE retryBy
<1>1. by \in Int /\ job.now \in Int
  BY RetryDeadlineType DEF Inner, Jobs
<1>2. retryBy' = by
  BY DEF RetryOrFail
<1>3. CASE job.now >= by
  BY <1>1, <1>2, <1>3, FailRecoveryType DEF RetryOrFail, Inner
<1>4. CASE ~(job.now >= by)
  <2>1. /\ NoCancel([st EXCEPT !.run = [r EXCEPT !.pending = TRUE]], rest)
        /\ retryAt' = Sooner(job.now + Step, by)
    BY <1>4 DEF RetryOrFail
  <2>2. [st EXCEPT !.run = [r EXCEPT !.pending = TRUE]] \in Profile
    <3>1. [r EXCEPT !.pending = TRUE] \in Run
      BY DEF Run
    <3> QED  BY <3>1 DEF Inner, Profile
  <2>3. Typed
    BY <2>1, <2>2, NoCancelType, PlainFits DEF Typed
  <2>4. retryAt' \in Int
    BY <1>1, <2>1, TimeAssumption DEF Sooner
  <2> QED  BY <1>1, <1>2, <2>3, <2>4
<1> QED  BY <1>3, <1>4

\* A recovery that preflight blocks is retried or cancelled.
LEMMA BlockedRecoveryType ==
    ASSUME Inner, Outer, NEW r \in Run, NEW rest \in Seq(Plain),
           BlockedRecovery(r, rest)
    PROVE  Typed /\ retryAt' \in Int /\ retryBy' \in Int
<1>1. CASE RetryOrFail(r, rest)
  BY <1>1, RetryOrFailType
<1>2. CASE /\ Cancel([st EXCEPT !.run = r], FALSE, FALSE, VacationBlocks, rest)
           /\ UNCHANGED <<retryAt, retryBy>>
  <2>1. [st EXCEPT !.run = r] \in Profile
    BY DEF Inner, Profile
  <2>2. VacationBlocks \in BOOLEAN /\ clock \in Nat
    BY DEF VacationBlocks, Available, Outer
  <2> QED  BY <1>2, <2>1, <2>2, CancelType DEF Typed, Inner
<1> QED  BY <1>1, <1>2 DEF BlockedRecovery

\* One that PBL does not grant is retried or given up.
LEMMA NotRecoveredType ==
    ASSUME Inner, run \in Run, NEW rest \in Seq(Plain), NotRecovered(rest)
    PROVE  Typed /\ retryAt' \in Int /\ retryBy' \in Int
BY FailRecoveryType, RetryOrFailType DEF NotRecovered, Inner

\* Releasing a leaf shrinks, ends or keeps the run
\* (_release_foreign_off_leaf_locked).
LEMMA ReleaseLeafType ==
    ASSUME Inner, Outer, NEW l, NEW rest \in Seq(Plain), ReleaseLeaf(l, rest)
    PROVE  Typed
<1>1. st \in Profile /\ clock \in Nat
  BY DEF Inner, Outer
<1>2. CASE NoCancel(st, rest)
  BY <1>1, <1>2, NoCancelType, PlainFits DEF Typed
<1>3. CASE Cancel(st, TRUE, TRUE, FALSE, rest) \/ Cancel(st, TRUE, FALSE, FALSE, rest)
  BY <1>1, <1>3, CancelType DEF Typed
<1> DEFINE reduced == ReleaseLeaves(run, {l})
<1>4. CASE /\ Active /\ reduced # NoRun
           /\ NoCancel([st EXCEPT !.run = reduced], <<"acquire", "updated">> \o rest)
  <2>1. reduced \in Run
    BY <1>4, ActiveRun, ReleaseLeavesType
  <2> HIDE DEF reduced
  <2>2. [st EXCEPT !.run = reduced] \in Profile
    BY <1>1, <2>1 DEF Profile
  <2>3. Fits(<<"acquire", "updated">> \o rest, reduced, job.prev)
    BY <2>1, AcquireAnd DEF Plain, StageNames, NeedRun, NeedPrev, FirstOnly
  <2>4. [st EXCEPT !.run = reduced].run = reduced
    BY <1>1 DEF Profile
  <2> QED  BY <1>4, <2>2, <2>3, <2>4, NoCancelType DEF Typed
<1> QED  BY <1>2, <1>3, <1>4 DEF ReleaseLeaf

-----------------------------------------------------------------------------
(***************************************************************************)
(* The stages.                                                             *)
(***************************************************************************)

\* At a stage that starts no pair only plain stages are left.
LEMMA AtPlain ==
    ASSUME Inner, NEW a, At(a), a \notin {"acquire", "release", "safeOff"}
    PROVE  Rest \in Seq(Plain) /\ Fits(stack, run, job.prev)
BY RestPlain DEF Inner, At, Rest

\* Whoever needs a run has one.
LEMMA AtNeeds ==
    ASSUME Inner, NEW a, At(a)
    PROVE  /\ a \in NeedRun => run \in Run
           /\ a \in NeedPrev => job.prev \in Run
<1>1. Fits(stack, run, job.prev) /\ stack # <<>> /\ Head(stack) = a
  BY DEF Inner, At
<1>2. Len(stack) \in Nat \ {0} /\ Head(stack) = stack[1]
  BY <1>1, HeadTailProperties, EmptySeq, LenProperties DEF Fits
<1> QED  BY <1>1, <1>2 DEF Fits

\* Refreshing the profile, and the start of every reconcile.
LEMMA PipelinePlain == Pipeline \in Seq(Plain) /\ <<"finish">> \in Seq(Plain)
BY DEF Pipeline, Plain, StageNames, NeedRun, NeedPrev, FirstOnly

\* The start of a reconcile keeps the run.
LEMMA ReconcileType == ASSUME Inner, Reconcile PROVE Inner'
<1>1. st' \in Profile /\ run' = run /\ job.now \in Int
  BY RefreshedType DEF Reconcile, Inner, Jobs, run
<1>2. scheduled' \in SUBSET Occ
  BY <1>1, ScheduledType DEF Reconcile
<1>3. stack' = Pipeline
  BY DEF Reconcile, Goto
<1>4. Fits(stack', run', job'.prev)
  BY <1>3, PipelinePlain, PlainFits
<1> QED  BY <1>1, <1>2, <1>4 DEF Reconcile, Inner

\* At a plain stage all of the stack is plain.
LEMMA AtAllPlain ==
    ASSUME Inner, NEW a \in Plain, At(a)
    PROVE  stack \in Seq(Plain)
<1>1. Fits(stack, run, job.prev) /\ stack # <<>> /\ Head(stack) = a
  BY DEF Inner, At
<1>2. Len(stack) \in Nat \ {0} /\ Head(stack) = stack[1]
  BY <1>1, HeadTailProperties, EmptySeq, LenProperties DEF Fits
<1>3. Len(stack) >= 2 => stack[2] \in Plain
  BY <1>1, <1>2 DEF Fits, Pairs, Plain, NeedRun, NeedPrev, FirstOnly
<1>4. \A i \in 1 .. Len(stack) : stack[i] \in Plain
  BY <1>1, <1>2, <1>3 DEF Fits
<1> QED  BY <1>1, <1>4, AllPlain DEF Fits

\* Applying the observed offs (_apply_observed_foreign_off_locked).
LEMMA DrainType == ASSUME Inner, Outer, Drain PROVE Inner'
<1>1. Rest \in Seq(Plain) /\ stack \in Seq(Plain)
  BY AtPlain, AtAllPlain DEF Drain, Plain, StageNames, NeedRun, NeedPrev, FirstOnly
<1>2. Fits(stack, run, job.prev) /\ Fits(Rest, run, job.prev) /\ st \in Profile
  BY <1>1, PlainFits DEF Inner
<1>3. Typed
  BY <1>1, <1>2, NoCancelType, ReleaseLeafType DEF Drain, Typed, run
<1>4. observed' \in [Leaf -> Occ \cup {NoOcc}]
  BY DEF Drain, Inner
<1> QED  BY <1>3, <1>4 DEF Drain, Typed, Inner

\* A pending recovery acquires only for a run that is there.
LEMMA PendingType == ASSUME Inner, Outer, Pending PROVE Inner'
<1>1. Rest \in Seq(Plain) /\ <<"finish">> \in Seq(Plain)
  BY AtPlain, PipelinePlain DEF Pending
<1>2. Fits(Rest, run, job.prev) /\ Fits(<<"finish">>, run, job.prev) /\ st \in Profile
  BY <1>1, PlainFits DEF Inner
<1>3. CASE ~(Active /\ run.pending)
  BY <1>2, <1>3, NoCancelType DEF Pending, Typed, Inner, run
<1>4. CASE Active /\ run.pending
  <2>1. run \in Run
    BY <1>4, ActiveRun
  <2>2. Fits(<<"acquire", "reacquired">> \o Rest, run, job.prev)
    BY <1>1, <2>1, TwoFit DEF StageNames, Pairs, NeedPrev
  <2>3. Typed /\ retryAt' \in Int /\ retryBy' \in Int
    <3>1. CASE NoCancel(st, <<"finish">>) /\ UNCHANGED <<retryAt, retryBy>>
      BY <3>1, <1>2, NoCancelType DEF Typed, Inner, run
    <3>2. CASE FailRecovery(run, <<"finish">>) /\ UNCHANGED <<retryAt, retryBy>>
      BY <3>2, <1>1, <2>1, FailRecoveryType DEF Inner
    <3>3. CASE BlockedRecovery(run, <<"finish">>)
      BY <3>3, <1>1, <2>1, BlockedRecoveryType
    <3>4. CASE /\ NoCancel(st, <<"acquire", "reacquired">> \o Rest)
               /\ UNCHANGED <<retryAt, retryBy>>
      BY <3>4, <1>2, <2>2, NoCancelType DEF Typed, Inner, run
    <3> QED  BY <1>4, <3>1, <3>2, <3>3, <3>4 DEF Pending
  <2> QED  BY <2>3 DEF Pending, Typed, Inner
<1> QED  BY <1>3, <1>4

\* The run that PBL granted again.
LEMMA ResumedType ==
    ASSUME Inner, run \in Run
    PROVE  /\ [st EXCEPT !.run = Resumed] \in Profile
           /\ [st EXCEPT !.run = Resumed].run = Resumed
<1>1. RefreshHolds(run, job.now) \in Run
  BY RefreshHoldsType DEF Inner, Jobs
<1>2. Resumed \in Run
  BY <1>1 DEF Resumed, Run
<1> QED  BY <1>2 DEF Inner, Profile

\* Its answer finds the run that asked.
LEMMA ReacquiredType == ASSUME Inner, Outer, Reacquired \/ Recovered PROVE Inner'
<1>1. Rest \in Seq(Plain) /\ <<"finish">> \in Seq(Plain) /\ run \in Run
  BY AtPlain, AtNeeds, PipelinePlain DEF Reacquired, Recovered, NeedRun
<1>2. CASE job.ok /\ NoCancel([st EXCEPT !.run = Resumed], Rest)
  <2>1. Fits(Rest, Resumed, job.prev)
    BY <1>1, PlainFits
  <2>2. Typed
    BY <1>1, <1>2, <2>1, ResumedType, NoCancelType DEF Typed
  <2>3. retryAt' \in Int /\ retryBy' \in Int
    <3>1. CASE Reacquired /\ job.ok
      BY <3>1 DEF Reacquired, NoTime
    <3>2. CASE Recovered /\ job.ok
      BY <3>2 DEF Recovered, Inner, NoTime
    <3> QED  BY <1>2, <3>1, <3>2
  <2> QED  BY <2>2, <2>3 DEF Typed, Reacquired, Recovered, Inner
<1>3. CASE NotRecovered(Rest) \/ NotRecovered(<<"finish">>)
  <2>1. Typed /\ retryAt' \in Int /\ retryBy' \in Int
    BY <1>1, <1>3, NotRecoveredType
  <2> QED  BY <2>1 DEF Typed, Reacquired, Recovered, Inner
<1> QED  BY <1>2, <1>3 DEF Reacquired, Recovered

\* Occurrences join the active run; the run before is put aside.
LEMMA JoinDueType == ASSUME Inner, Outer, JoinDue PROVE Inner'
<1>1. Rest \in Seq(Plain) /\ st \in Profile /\ job.now \in Int /\ clock \in Nat
  BY AtPlain DEF JoinDue, Inner, Outer, Jobs
<1>2. CASE ~Active /\ NoCancel(st, Rest) /\ UNCHANGED retryAt
  <2>1. Typed
    BY <1>1, <1>2, NoCancelType, PlainFits DEF Typed, run
  <2> QED  BY <1>2, <2>1 DEF Typed, JoinDue, Inner
<1>3. CASE Active /\ retryAt' = NoTime
  <2> DEFINE r == Watched(run, job.now)
  <2>1. r \in Run
    BY <1>3, ActiveRun, WatchedType DEF Outer
  <2>2. [st EXCEPT !.run = r] \in Profile
    BY <1>1, <2>1 DEF Profile
  <2>3. CASE Cancel([st EXCEPT !.run = r], FALSE, FALSE, vacation = "on", Rest)
    <3>1. (vacation = "on") \in BOOLEAN
      OBVIOUS
    <3>2. Typed
      BY <1>1, <2>2, <2>3, <3>1, CancelType DEF Typed
    <3> QED  BY <1>3, <3>2 DEF Typed, JoinDue, Inner, NoTime
  <2>4. CASE Active /\ vacation = "off"
    <3> DEFINE due == (Due \ r.occs) \cap ConnectedEpisode(r, Due, job.now).ids
               over == OverBudget(r, due)
               p == [st EXCEPT !.run = r, !.terminal = @ \cup over]
               m == MergeOccurrences(r, due \ over, job.now)
    <3>1. due \in SUBSET Occ /\ over \in SUBSET Occ
      BY DEF Due, OverBudget, Inner
    <3>2. p \in Profile /\ p.run = r
      BY <1>1, <2>1, <3>1 DEF Profile
    <3>3. m \in Run
      BY <1>1, <2>1, <3>1, MergeType
    <3>4. \/ NoCancel(p, Rest)
          \/ /\ st' = [p EXCEPT !.run = m]
             /\ job' = [job EXCEPT !.prev = r]
             /\ stack' = <<"acquire", "merged">> \o Rest
             /\ UNCHANGED <<revokeBy, timer>>
      BY <2>4 DEF JoinDue, Goto
    <3> HIDE DEF due, over, p, m, r
    <3>5. CASE NoCancel(p, Rest)
      <4>1. Typed
        BY <1>1, <3>2, <3>5, NoCancelType, PlainFits DEF Typed
      <4> QED  BY <1>3, <4>1 DEF Typed, JoinDue, Inner, NoTime
    <3>6. CASE /\ st' = [p EXCEPT !.run = m]
               /\ job' = [job EXCEPT !.prev = r]
               /\ stack' = <<"acquire", "merged">> \o Rest
               /\ UNCHANGED <<revokeBy, timer>>
      <4>1. st' \in Profile /\ run' = m
        BY <3>2, <3>3, <3>6 DEF Profile, run
      <4>2. job' \in Jobs
        BY <2>1, <3>6, JobPrev DEF Inner
      <4>3. Fits(stack', run', job'.prev)
        BY <1>1, <3>3, <3>6, <4>1, TwoFit DEF StageNames, Pairs, NeedPrev
      <4> QED  BY <1>3, <3>6, <4>1, <4>2, <4>3 DEF JoinDue, Inner, NoTime
    <3> QED  BY <3>4, <3>5, <3>6
  <2> QED  BY <1>3, <2>3, <2>4 DEF JoinDue
<1> QED  BY <1>2, <1>3 DEF JoinDue

\* Stages that put a run away or back.
LEMMA MergedType ==
    ASSUME Inner, Outer, Merged \/ CompletedRun \/ Started \/ Failed \/ Abandoned
    PROVE  Inner'
<1>1. Rest \in Seq(Plain) /\ st \in Profile /\ job \in Jobs /\ job.now \in Int
  BY AtPlain DEF Merged, CompletedRun, Started, Failed, Abandoned, Inner, Jobs
<1>2. Fits(Rest, run', job'.prev)
  BY <1>1, PlainFits
<1>3. CASE Merged
  <2>1. st' \in Profile
    BY <1>1, <1>3 DEF Merged, Profile, Jobs
  <2>2. job' \in Jobs
    BY <1>1, <1>3, JobPrev DEF Merged
  <2> QED  BY <1>2, <1>3, <2>1, <2>2 DEF Merged, Goto, Inner
<1>4. CASE CompletedRun
  <2>1. st' \in Profile
    BY <1>1, <1>4 DEF CompletedRun, Profile
  <2>2. job' \in Jobs
    BY <1>1, <1>4, JobPrev DEF CompletedRun
  <2> QED  BY <1>2, <1>4, <2>1, <2>2 DEF CompletedRun, Goto, Inner
<1>5. CASE Started
  <2>1. st' \in Profile /\ job' = job /\ stack' = Rest
    BY <1>1, <1>5 DEF Started, NoCancel, Profile, Goto
  <2>2. retryAt' \in Int
    BY <1>1, <1>5, TimeAssumption DEF Started, Inner
  <2> QED  BY <1>2, <1>5, <2>1, <2>2 DEF Started, NoCancel, Inner
<1>6. CASE Failed \/ Abandoned
  <2>1. job.prev \in Run
    BY <1>6, AtNeeds DEF Failed, Abandoned, NeedPrev
  <2>2. st' = [st EXCEPT !.run = NoRun, !.terminal = st.terminal \cup job.prev.occs]
    BY <1>1, <1>6 DEF Failed, Abandoned, Profile
  <2>3. st' \in Profile
    BY <1>1, <2>1, <2>2 DEF Profile, Run
  <2>4. job' \in Jobs
    BY <1>1, <1>6, JobPrev DEF Failed, Abandoned
  <2>5. retryAt' \in Int /\ retryBy' \in Int
    BY <1>6 DEF Failed, Abandoned, Inner, NoTime
  <2> QED  BY <1>2, <1>6, <2>3, <2>4, <2>5 DEF Failed, Abandoned, Goto, Inner
<1> QED  BY <1>3, <1>4, <1>5, <1>6

\* Occurrences that are over leave the run; the last one puts it aside.
LEMMA CompleteType == ASSUME Inner, Outer, Complete PROVE Inner'
<1> DEFINE done == IF Active THEN Completed(run, job.now) ELSE {}
           p == [st EXCEPT !.alarms = @ \ done,
                           !.terminal = @ \cup done,
                           !.missed = @ \cup (done \ run.final)]
<1>1. Rest \in Seq(Plain) /\ st \in Profile /\ job \in Jobs
  BY AtPlain DEF Complete, Inner
<1>2. CASE done = {}
  <2>1. NoCancel(st, Rest)
    BY <1>2 DEF Complete
  <2>2. Typed
    BY <1>1, <2>1, NoCancelType, PlainFits DEF Typed, run
  <2> QED  BY <2>2 DEF Typed, Complete, Inner
<1>3. CASE done # {}
  <2>1. run \in Run
    BY <1>3, ActiveRun
  <2>2. done \in SUBSET run.occs /\ run.occs \in SUBSET Occ
    BY <2>1 DEF Completed, Run
  <2>3. /\ job' = [job EXCEPT !.prev = run] /\ UNCHANGED <<revokeBy, timer>>
        /\ \/ st' = p /\ stack' = ReleaseOf(run) \o <<"completed">> \o Rest
           \/ /\ run.occs # done /\ st' = [p EXCEPT !.run = Without(run, done)]
              /\ stack' = <<"acquire", "merged">> \o Rest
    BY <1>3 DEF Complete, Goto
  <2> HIDE DEF done
  <2>4. p \in Profile
    BY <1>1, <2>2 DEF Profile
  <2> HIDE DEF p
  <2>5. job' \in Jobs /\ job'.prev = run
    BY <1>1, <2>1, <2>3, JobPrev
  <2>6. CASE st' = p /\ stack' = ReleaseOf(run) \o <<"completed">> \o Rest
    <3>1. run' = run
      BY <2>4, <2>6 DEF p, run
    <3>2. Fits(stack', run', job'.prev)
      BY <1>1, <2>1, <2>5, <2>6, <3>1, ReleaseFits DEF Ends
    <3> QED  BY <2>3, <2>4, <2>5, <2>6, <3>2 DEF Complete, Inner
  <2>7. CASE /\ run.occs # done /\ st' = [p EXCEPT !.run = Without(run, done)]
             /\ stack' = <<"acquire", "merged">> \o Rest
    <3>1. Without(run, done) \in Run
      BY <2>1, <2>2, <2>7, WithoutType
    <3>2. st' \in Profile /\ run' \in Run
      BY <2>4, <2>7, <3>1 DEF Profile, run
    <3>3. Fits(stack', run', job'.prev)
      BY <1>1, <2>7, <3>2, TwoFit DEF StageNames, Pairs, NeedPrev
    <3> QED  BY <2>3, <2>5, <3>2, <3>3 DEF Complete, Inner
  <2> QED  BY <2>3, <2>6, <2>7
<1> QED  BY <1>2, <1>3

\* A new run acquires before it is used.
LEMMA BeginType == ASSUME Inner, Outer, Begin PROVE Inner'
<1>1. Rest \in Seq(Plain) /\ st \in Profile /\ job.now \in Int
  BY AtPlain DEF Begin, Inner, Jobs
<1>2. retryAt' \in Int
  BY <1>1, TimeAssumption DEF Begin, Inner, NoTime
<1>3. CASE NoCancel(st, Rest)
  <2>1. Typed
    BY <1>1, <1>3, NoCancelType, PlainFits DEF Typed, run
  <2> QED  BY <1>2, <2>1 DEF Typed, Begin, Inner
<1>4. CASE Due # {} /\ NoCancel([st EXCEPT !.run = StartRun(Due, job.now, TargetFloor(Leaf))],
                                <<"acquire", "started">> \o Rest)
  <2> DEFINE r == StartRun(Due, job.now, TargetFloor(Leaf))
  <2>1. TargetFloor(Leaf) \in 1 .. Full /\ Due \in SUBSET Occ
    BY TargetFloorType DEF Outer, Due, Inner
  <2>2. r \in Run
    BY <1>1, <1>4, <2>1, StartRunType
  <2>3. NoCancel([st EXCEPT !.run = r], <<"acquire", "started">> \o Rest)
    BY <1>4
  <2> HIDE DEF r
  <2>4. [st EXCEPT !.run = r] \in Profile /\ [st EXCEPT !.run = r].run = r
    BY <1>1, <2>2 DEF Profile
  <2>5. Fits(<<"acquire", "started">> \o Rest, r, job.prev)
    BY <1>1, <2>2, TwoFit DEF StageNames, Pairs, NeedPrev
  <2>6. Typed
    BY <2>3, <2>4, <2>5, NoCancelType DEF Typed
  <2> QED  BY <1>2, <2>6 DEF Typed, Begin, Inner
<1> QED  BY <1>3, <1>4 DEF Begin

\* Draining comes before deciding; an update that failed gives the run up.
LEMMA DispatchType == ASSUME Inner, Outer, Dispatch \/ Updated PROVE Inner'
<1>1. Rest \in Seq(Plain) /\ st \in Profile /\ clock \in Nat
  BY AtPlain DEF Dispatch, Updated, Inner, Outer
<1>2. <<"drain", "decide">> \o Rest \in Seq(Plain)
  <2>1. <<"drain", "decide">> \in Seq(Plain)
    BY DEF Plain, StageNames, NeedRun, NeedPrev, FirstOnly
  <2> QED  BY <1>1, <2>1, ConcatProperties
<1>3. CASE Dispatch
  <2>1. Typed
    BY <1>1, <1>2, <1>3, NoCancelType, PlainFits DEF Dispatch, Typed, run
  <2> QED  BY <1>3, <2>1 DEF Typed, Dispatch, Inner
<1>4. CASE Updated
  <2>1. CASE NoCancel(st, Rest)
    <3>1. Typed
      BY <1>1, <2>1, NoCancelType, PlainFits DEF Typed, run
    <3> QED  BY <1>4, <3>1 DEF Typed, Updated, Inner
  <2>2. CASE Cancel(st, FALSE, FALSE, FALSE, Rest)
    <3>1. Typed
      BY <1>1, <2>2, CancelType DEF Typed
    <3> QED  BY <1>4, <3>1 DEF Typed, Updated, Inner
  <2> QED  BY <1>4, <2>1, <2>2 DEF Updated
<1> QED  BY <1>3, <1>4

\* A command is sent only for a run that is there.
LEMMA DecideType == ASSUME Inner, Outer, Decide PROVE Inner'
<1>1. Rest \in Seq(Plain) /\ st \in Profile /\ job \in Jobs /\ job.now \in Int
  BY AtPlain DEF Decide, Inner, Jobs
<1>2. CASE NoCancel(st, Rest)
  <2>1. Typed
    BY <1>1, <1>2, NoCancelType, PlainFits DEF Typed, run
  <2> QED  BY <2>1 DEF Typed, Decide, Inner
<1>3. CASE Active /\ NoCancel([st EXCEPT !.run.next =
                          IF revokeBy # NoTime /\ @ # NoTime THEN @
                          ELSE NextDeadline(run, job.now)], Rest)
  <2>1. run \in Run
    BY <1>3, ActiveRun
  <2>2. NextDeadline(run, job.now) \in Int
    BY <1>1, <2>1, NextDeadlineType
  <2> DEFINE n == IF revokeBy # NoTime /\ run.next # NoTime THEN run.next
                  ELSE NextDeadline(run, job.now)
             p == [st EXCEPT !.run = [run EXCEPT !.next = n]]
  <2>3. NoCancel(p, Rest)
    BY <1>1, <1>3, <2>1 DEF run, Profile, Run
  <2>4. n \in Int
    BY <2>1, <2>2 DEF Run
  <2> HIDE DEF n
  <2>5. p \in Profile
    BY <1>1, <2>1, <2>4 DEF Profile, Run
  <2> HIDE DEF p
  <2>6. Typed
    BY <1>1, <2>3, <2>5, NoCancelType, PlainFits DEF Typed
  <2> QED  BY <2>6 DEF Typed, Decide, Inner
<1>4. CASE /\ Active
           /\ job' = [job EXCEPT !.force = ForceFinal(run, job.now),
                                 !.level = IF ForceFinal(run, job.now) THEN Full
                                           ELSE DesiredLevel(run, job.now)]
           /\ stack' = <<"send">> \o Rest
           /\ UNCHANGED <<st, revokeBy, timer>>
  <2>1. run \in Run
    BY <1>4, ActiveRun
  <2>2. (IF ForceFinal(run, job.now) THEN Full ELSE DesiredLevel(run, job.now)) \in 0 .. Full
    <3>1. DesiredLevel(run, job.now) \in 1 .. Full /\ Full \in Nat
      BY <1>1, <2>1, DesiredLevelType, TimeAssumption
    <3> QED  BY <3>1
  <2>3. ForceFinal(run, job.now) \in BOOLEAN
    BY DEF ForceFinal
  <2>4. job' \in Jobs
    BY <1>1, <1>4, <2>2, <2>3 DEF Jobs
  <2>5. Fits(stack', run', job'.prev)
    BY <1>1, <1>4, <2>1, OneFits DEF StageNames, NeedPrev, run
  <2> QED  BY <1>1, <1>4, <2>4, <2>5 DEF Decide, Inner
<1> QED  BY <1>2, <1>3, <1>4 DEF Decide, Goto

\* The armed timer is a point in time: there are finitely many candidates.  It
\* is not in the past, and it passes no retry over that is in the future.
LEMMA NextTimerType ==
    ASSUME NEW p \in Profile, NEW plan \in SUBSET Occ, NEW now \in Int,
           revokeBy \in Int, retryAt \in Int
    PROVE  LET at == NextTimer(p, plan, now)
           IN  /\ at \in Int
               /\ ~stopping /\ retryAt # NoTime => at > now /\ (at <= retryAt \/ at = now + 1)
<1> DEFINE mine == RunTimers(p.run, now)
           ramps == RampTimers(p.run, plan, now)
           fence == IF p.fence.to # NoTime /\ now <= p.fence.to
                    THEN {p.fence.to + 1} ELSE {}
           all == (mine \cup ramps \cup fence \cup {retryAt}) \ {NoTime}
<1>1. mine \subseteq Int /\ IsFiniteSet(mine)
  <2>1. CASE p.run = NoRun
    BY <2>1, FS_EmptySet DEF RunTimers
  <2>2. CASE p.run # NoRun
    <3>1. p.run \in Run
      BY <2>2 DEF Profile
    <3>2. NextDeadline(p.run, now) \in Int
      BY <3>1, NextDeadlineType
    <3>3. Sooner(revokeBy, IF p.run.next = NoTime THEN now + Step ELSE p.run.next) \in Int
      BY <3>1, TimeAssumption DEF Sooner, Run
    <3>4. \E t \in Int : mine = {t}
      BY <2>2, <3>2, <3>3 DEF RunTimers
    <3> HIDE DEF mine
    <3> QED  BY <3>4, FS_Singleton
  <2> QED  BY <2>1, <2>2
<1>2. ramps \subseteq Int /\ IsFiniteSet(ramps)
  <2> DEFINE X == {x \in plan : /\ RampStart[x] > now
                                /\ (p.run = NoRun \/ x \notin p.run.occs)}
             f == [o \in X |-> RampStart[o]]
             T == {f[o] : o \in X}
  <2>1. X \in SUBSET Occ
    OBVIOUS
  <2>2. IsFiniteSet(X)
    BY <2>1, OccAssumption, FS_Subset
  <2>3. IsFiniteSet(T)
    BY <2>2, TimesFinite
  <2>4. \A o \in X : RampStart[o] \in Int
    BY <2>1, TimeAssumption
  <2>5. ramps = T
    <3>1. T = {RampStart[o] : o \in X}
      OBVIOUS
    <3> HIDE DEF T
    <3> QED  BY <3>1 DEF RampTimers
  <2> QED  BY <2>3, <2>4, <2>5
<1>3. fence \subseteq Int /\ IsFiniteSet(fence)
  <2>1. p.fence.to + 1 \in Int
    BY DEF Profile, Interval
  <2>2. fence = {p.fence.to + 1} \/ fence = {}
    OBVIOUS
  <2> HIDE DEF fence
  <2>3. CASE fence = {p.fence.to + 1}
    BY <2>1, <2>3, FS_Singleton
  <2>4. CASE fence = {}
    BY <2>4, FS_EmptySet
  <2> QED  BY <2>2, <2>3, <2>4
<1>4. NextTimer(p, plan, now) =
        IF stopping \/ all = {} THEN NoTime ELSE Later(Earliest(all), now + 1)
  BY DEF NextTimer
<1> HIDE DEF mine, ramps, fence
<1>5. all \subseteq Int /\ IsFiniteSet(all)
  <2>1. IsFiniteSet(mine \cup ramps)
    BY <1>1, <1>2, FS_Union
  <2>2. IsFiniteSet(mine \cup ramps \cup fence)
    BY <1>3, <2>1, FS_Union
  <2>3. IsFiniteSet(mine \cup ramps \cup fence \cup {retryAt})
    BY <2>2, FS_AddElement
  <2>4. IsFiniteSet(all)
    BY <2>3, FS_Subset
  <2> QED  BY <1>1, <1>2, <1>3, <2>4
<1> HIDE DEF all
<1>6. all # {} => Earliest(all) \in Int /\ \A t \in all : Earliest(all) <= t
  BY <1>5, EarliestIn
<1>7. retryAt # NoTime => retryAt \in all
  BY DEF all
<1>8. CASE all = {}
  BY <1>4, <1>7, <1>8 DEF NoTime
<1>9. CASE all # {}
  <2>1. Earliest(all) \in Int /\ (retryAt # NoTime => Earliest(all) <= retryAt)
    BY <1>6, <1>7, <1>9
  <2> HIDE DEF all
  <2> QED  BY <1>4, <1>9, <2>1 DEF NoTime, Later
<1> QED  BY <1>8, <1>9

\* The end of a handler arms the timer or saves the profile first.
LEMMA FinishType == ASSUME Inner, Outer, Finish PROVE Inner'
<1>1. /\ st \in Profile /\ job \in Jobs /\ job.now \in Int /\ job.prev \in Run \cup {NoRun}
      /\ revokeBy \in Int /\ retryAt \in Int
  BY DEF Inner, Jobs
<1>2. st' \in Profile
  BY <1>1, RefreshedType DEF Finish
<1>3. scheduled' \in SUBSET Occ
  BY <1>1, <1>2, ScheduledType DEF Finish
<1>4. CASE st' = disk
  <2>1. timer' \in Int
    BY <1>1, <1>2, <1>3, <1>4, NextTimerType DEF Finish
  <2>2. stack' = <<>> /\ job' = NoJob
    BY <1>4 DEF Finish, Goto
  <2>3. job' \in Jobs /\ Fits(stack', run', job'.prev)
    <3>1. <<>> \in Seq(Plain)
      BY EmptySeq
    <3>2. NoJob \in Jobs
      BY TimeAssumption DEF NoJob, Jobs, NoTime
    <3> QED  BY <2>2, <3>1, <3>2, PlainFits
  <2> QED  BY <1>2, <1>3, <2>1, <2>3 DEF Finish, Inner
<1>5. CASE st' # disk
  <2>1. stack' = <<"save">> /\ UNCHANGED <<timer, job>>
    BY <1>5 DEF Finish, Goto
  <2>2. Fits(stack', run', job'.prev)
    <3>1. <<"save">> \in Seq(Plain)
      BY DEF Plain, StageNames, NeedRun, NeedPrev, FirstOnly
    <3> QED  BY <2>1, <3>1, PlainFits
  <2> QED  BY <1>1, <1>2, <1>3, <2>1, <2>2 DEF Finish, Inner
<1> QED  BY <1>4, <1>5

\* A cancellation ends the run it was decided for.
LEMMA CancelledType == ASSUME Inner, Outer, Cancelled PROVE Inner'
<1>1. Rest \in Seq(Plain) /\ st \in Profile /\ job \in Jobs /\ run \in Run
  BY AtPlain, AtNeeds DEF Cancelled, Inner, NeedRun
<1>2. st' \in Profile
  <2> DEFINE e == ConnectedEpisode(run, scheduled, job.at)
  <2>1. e.ids \in SUBSET Occ /\ e.span \in Interval /\ job.at \in Int
    BY <1>1, ConnectedEpisodeType DEF Inner, Jobs
  <2>2. CASE job.user
    <3>1. st' = RememberUserCancellation(st, e, job.at)
      BY <2>2 DEF Cancelled
    <3> HIDE DEF e
    <3> QED  BY <1>1, <2>1, <3>1, RememberType
  <2>3. CASE ~job.user
    <3>1. st' = [st EXCEPT !.run = NoRun, !.terminal = st.terminal \cup run.occs]
      BY <1>1, <2>3 DEF Cancelled, Profile
    <3>2. run.occs \in SUBSET Occ
      BY <1>1 DEF Run
    <3> QED  BY <1>1, <3>1, <3>2 DEF Profile
  <2> QED  BY <2>2, <2>3
<1> DEFINE offs == job.off /\ OwnedLights(run) # {}
<1>3. /\ job' = [job EXCEPT !.prev = IF offs THEN run ELSE NoRun]
      /\ stack' = IF offs THEN <<"safeOff">> \o Rest ELSE Rest
  BY DEF Cancelled, Goto
<1>4. job' \in Jobs /\ job'.prev = IF offs THEN run ELSE NoRun
  BY <1>1, <1>3, JobPrev
<1> HIDE DEF offs
<1>5. Fits(stack', run', job'.prev)
  BY <1>1, <1>3, <1>4, PlainFits, OneFits DEF StageNames, NeedRun
<1> QED  BY <1>2, <1>4, <1>5 DEF Cancelled, Inner, NoTime

\* end_episode works on the run it has put aside.
LEMMA EndedType == ASSUME Inner, Outer, Ended \/ Fence PROVE Inner'
<1>1. Rest \in Seq(Plain) /\ st \in Profile /\ job \in Jobs /\ job.prev \in Run
  BY AtPlain, AtNeeds DEF Ended, Fence, Inner, NeedPrev
<1>2. CASE Ended
  <2>1. \/ stack' = <<>> \o <<"fence">> \o Rest
        \/ stack' = <<"safeOff">> \o <<"fence">> \o Rest
    BY <1>2 DEF Ended, Goto
  <2>2. \/ stack' = <<"fence">> \o Rest \/ stack' = <<"safeOff", "fence">> \o Rest
    BY <2>1, Joined
  <2>3. Fits(stack', run', job.prev)
    <3>1. Fits(<<"fence">> \o Rest, run', job.prev)
      BY <1>1, OneFits DEF StageNames, NeedRun
    <3>2. Fits(<<"safeOff", "fence">> \o Rest, run', job.prev)
      BY <1>1, TwoFit DEF StageNames, NeedRun, Pairs, Ends
    <3> QED  BY <2>2, <3>1, <3>2
  <2> QED  BY <1>1, <1>2, <2>3 DEF Ended, Inner
<1>3. CASE Fence
  <2> DEFINE e == ConnectedEpisode(job.prev, scheduled, job.now)
  <2>1. e.ids \in SUBSET Occ /\ e.span \in Interval /\ job.now \in Int
    BY <1>1, ConnectedEpisodeType DEF Inner, Jobs
  <2>2. st' = RememberUserCancellation(st, e, job.now)
    BY <1>3 DEF Fence
  <2> HIDE DEF e
  <2>3. st' \in Profile
    BY <1>1, <2>1, <2>2, RememberType
  <2>4. Fits(stack', run', job'.prev)
    BY <1>1, <1>3, PlainFits DEF Fence, Goto
  <2> QED  BY <1>1, <1>3, <2>3, <2>4 DEF Fence, Inner, NoTime
<1> QED  BY <1>2, <1>3

\* A recovery without a run, without lights or without targets.
LEMMA RecoverType ==
    ASSUME Inner, Outer, RecoverNothing \/ RecoverRootOff \/ RecoverNoTargets
    PROVE  Inner'
<1>1. Rest \in Seq(Plain) /\ st \in Profile /\ job \in Jobs /\ clock \in Nat
  BY AtPlain DEF RecoverNothing, RecoverRootOff, RecoverNoTargets, Inner, Outer
<1>2. CASE RecoverNothing
  <2>1. Typed
    BY <1>1, <1>2, NoCancelType, PlainFits DEF RecoverNothing, Typed, run
  <2> QED  BY <1>2, <2>1 DEF RecoverNothing, Typed, Inner
<1>3. CASE RecoverRootOff
  <2>1. Typed
    BY <1>1, <1>3, CancelType DEF RecoverRootOff, Typed
  <2> QED  BY <1>3, <2>1 DEF RecoverRootOff, Typed, Inner
<1>4. CASE RecoverNoTargets
  <2>1. run \in Run
    BY <1>4, ActiveRun DEF RecoverNoTargets
  <2>2. job' \in Jobs /\ job'.prev = run
    BY <1>1, <1>4, <2>1, JobPrev DEF RecoverNoTargets
  <2>3. Fits(stack', run', job'.prev)
    BY <1>1, <1>4, <2>1, <2>2, ReleaseFits DEF RecoverNoTargets, Goto, Ends
  <2> QED  BY <1>1, <1>4, <2>2, <2>3 DEF RecoverNoTargets, Inner
<1> QED  BY <1>2, <1>3, <1>4

\* A recovery acquires for the leaves that are still lit.
LEMMA RecoverRunType == ASSUME Inner, Outer, RecoverRun PROVE Inner'
<1> DEFINE less == ReleaseLeaves(run, GoneLeaves)
           kept == Watched(less, job.now)
<1>1. Rest \in Seq(Plain) /\ st \in Profile /\ run \in Run
  BY AtPlain, ActiveRun DEF RecoverRun, Inner
<1>2. less \in Run
  <2>1. GoneLeaves = {} \/ ~(run.targets \subseteq GoneLeaves)
    BY DEF RecoverRun, NoTargetLeft
  <2> QED  BY <1>1, <2>1, ReleaseLeavesType
<1>3. kept \in Run
  BY <1>2, WatchedType DEF Outer
<1>4. \/ BlockedRecovery(kept, Rest)
      \/ FailRecovery(kept, Rest) /\ UNCHANGED <<retryAt, retryBy>>
      \/ /\ NoCancel([st EXCEPT !.run = [kept EXCEPT !.pending = TRUE]],
                      <<"acquire", "recovered">> \o Rest)
         /\ UNCHANGED <<retryAt, retryBy>>
  BY DEF RecoverRun
<1> HIDE DEF kept
<1>5. Typed /\ retryAt' \in Int /\ retryBy' \in Int
  <2>1. CASE BlockedRecovery(kept, Rest)
    BY <1>1, <1>3, <2>1, BlockedRecoveryType
  <2>2. CASE FailRecovery(kept, Rest) /\ UNCHANGED <<retryAt, retryBy>>
    BY <1>1, <1>3, <2>2, FailRecoveryType DEF Inner
  <2>3. CASE /\ NoCancel([st EXCEPT !.run = [kept EXCEPT !.pending = TRUE]],
                         <<"acquire", "recovered">> \o Rest)
             /\ UNCHANGED <<retryAt, retryBy>>
    <3> DEFINE r == [kept EXCEPT !.pending = TRUE]
               p == [st EXCEPT !.run = r]
    <3>1. r \in Run
      BY <1>3 DEF Run
    <3> HIDE DEF r
    <3>2. p \in Profile /\ p.run = r
      BY <1>1, <3>1 DEF Profile
    <3>3. Fits(<<"acquire", "recovered">> \o Rest, r, job.prev)
      BY <1>1, <3>1, TwoFit DEF StageNames, Pairs, NeedPrev
    <3>4. NoCancel(p, <<"acquire", "recovered">> \o Rest)
      BY <2>3 DEF r
    <3> HIDE DEF p
    <3>5. Typed
      BY <3>2, <3>3, <3>4, NoCancelType DEF Typed
    <3> QED  BY <2>3, <3>5 DEF Inner
  <2> QED  BY <1>4, <2>1, <2>2, <2>3
<1> QED  BY <1>5 DEF Typed, RecoverRun, Inner

-----------------------------------------------------------------------------
(***************************************************************************)
(* The answers.                                                            *)
(***************************************************************************)

\* What is left after an answer finds its run: the run stays a run.
LEMMA AnswerRest ==
    ASSUME Inner, stack # <<>>, stack' = Rest, job'.prev = job.prev,
           run \in Run => run' \in Run
    PROVE  Fits(stack', run', job'.prev)
<1>1. Fits(stack, run, job.prev)
  BY DEF Inner
<1> QED  BY <1>1, RestFits DEF Rest

\* Spending from a bound.
LEMMA SpendType ==
    ASSUME NEW what \in {"user", "lags", "faults", "restarts"}, Outer, Spend(what)
    PROVE  left' \in [{"user", "lags", "faults", "restarts"} -> Nat]
BY DEF Spend, Outer

\* The tasks that are queued.
LEMMA TaskType ==
    ASSUME NEW kind \in Kinds \ {"add"}
    PROVE  Task(kind) \in Tasks
BY DEF Task, Tasks, Kinds, NoTime

\* Posting tasks.
LEMMA PostType ==
    ASSUME Outer, NEW tasks \in Seq(Tasks), Post(tasks)
    PROVE  queue' \in Seq(Tasks)
<1>1. queue \in Seq(Tasks)
  BY DEF Outer
<1>2. queue \o tasks \in Seq(Tasks)
  BY <1>1, ConcatProperties
<1> QED  BY <1>1, <1>2 DEF Post

\* Queueing one task.
LEMMA AppendType ==
    ASSUME Outer, NEW t \in Tasks
    PROVE  Append(queue, t) \in Seq(Tasks) /\ <<t>> \in Seq(Tasks)
<1>1. queue \in Seq(Tasks)
  BY DEF Outer
<1> QED  BY <1>1, AppendProperties

\* A retired lease.
LEMMA RetireType ==
    ASSUME Outer, pbl.status # "none", Retire
    PROVE  pbl' \in Leases /\ pblGen' \in Nat /\ retired' \in SUBSET Occ /\ LeaseKnown'
<1>1. NoLease \in Leases
  BY DEF NoLease, Leases, NoTime
<1>2. NoLease.status = "none"
  BY DEF NoLease
<1> QED  BY <1>1, <1>2 DEF Retire, Outer, LeaseKnown

\* An acquire or an update that PBL grants.
LEMMA GrantedType == ASSUME Inner, Outer, Granted PROVE Inner' /\ Outer'
<1> DEFINE ttl == IF run.exp = NoTime THEN TTL
                  ELSE Later(1, Sooner(TTL, run.exp - clock))
           same == /\ pbl.status = "active"
                   /\ pbl.occs = run.occs /\ pbl.targets = run.targets
           gen == IF same THEN pbl.gen ELSE pblGen + 1
           exp == IF pbl.status = "none" THEN clock + ttl ELSE pbl.exp
           lease == [status |-> "active", lease |-> run.lease, gen |-> gen,
                     exp |-> exp, grace |-> NoTime,
                     occs |-> run.occs, targets |-> run.targets]
<1>1. run \in Run /\ st \in Profile /\ job \in Jobs /\ stack # <<>>
  BY AtNeeds DEF Granted, NeedRun, Inner, At
<1>2. pbl \in Leases /\ pblGen \in Nat /\ clock \in Nat
  BY DEF Outer
<1>3. gen \in Nat
  BY <1>2 DEF Leases
<1>4. exp \in Int
  <2>1. TTL \in Int /\ run.exp \in Int
    BY <1>1, CoordinatorAssumption DEF Run
  <2>2. ttl \in Int
    BY <1>2, <2>1 DEF Later, Sooner
  <2> HIDE DEF ttl
  <2> QED  BY <1>2, <2>2 DEF Leases
<1>5. /\ pbl' = lease /\ pblGen' = gen
      /\ st' = [st EXCEPT !.run = MarkAcquired(run, gen, exp)]
  BY DEF Granted
<1>6. /\ job' = [job EXCEPT !.ok = TRUE, !.stale = FALSE] /\ stack' = Rest
      /\ revokeBy' = NoTime
  BY DEF Granted, Goto
<1> HIDE DEF gen, exp
<1>7. MarkAcquired(run, gen, exp) \in Run
  BY <1>1, <1>3, <1>4, MarkAcquiredType
<1>8. st' \in Profile /\ run' \in Run
  BY <1>1, <1>5, <1>7 DEF Profile, run
<1>9. job' \in Jobs /\ job'.prev = job.prev
  BY <1>1, <1>6 DEF Jobs
<1>10. Fits(stack', run', job'.prev)
  BY <1>1, <1>6, <1>8, <1>9, AnswerRest
<1>11. lease \in Leases /\ lease.lease \in Occ
  BY <1>1, <1>3, <1>4 DEF Leases, Run, NoTime
<1>12. Inner'
  BY <1>6, <1>8, <1>9, <1>10 DEF Granted, Inner, Calm, NoTime
<1>13. Outer'
  BY <1>3, <1>5, <1>11 DEF Granted, Outer, Calm, LeaseKnown, proc, world
<1> QED  BY <1>12, <1>13

\* One that it refuses, or that fails.
LEMMA RefusedType == ASSUME Inner, Outer, Refused PROVE Inner' /\ Outer'
<1>1. /\ job' = [job EXCEPT !.ok = FALSE, !.stale = job'.stale]
      /\ job'.stale \in BOOLEAN /\ job'.prev = job.prev /\ job' \in Jobs
  BY DEF Refused, Inner, Jobs
<1>2. stack' = Rest /\ stack # <<>> /\ run' = run
  BY DEF Refused, Goto, At, run
<1>3. Fits(stack', run', job'.prev)
  BY <1>1, <1>2, AnswerRest
<1>4. left' \in [{"user", "lags", "faults", "restarts"} -> Nat]
  BY SpendType DEF Refused, Outer
<1>5. Inner'
  BY <1>1, <1>3 DEF Refused, Inner, Calm
<1>6. Outer'
  BY <1>4 DEF Refused, Outer, Calm, LeaseKnown, proc, peer
<1> QED  BY <1>5, <1>6

\* Lights that a command turns on.
LEMMA LightType ==
    ASSUME Inner, Outer, run \in Run, NEW T \in SUBSET Leaf,
           Light(T) \/ UNCHANGED <<lights, touch>>
    PROVE  /\ lights' \in [Leaf -> 0 .. Full]
           /\ touch' \in [Leaf -> [by : {"nobody", "wake", "user"},
                                   lease : Occ \cup {NoOcc}]]
<1>1. run.lease \in Occ /\ job.level \in 0 .. Full
  BY DEF Run, Inner, Jobs
<1> QED  BY <1>1 DEF Light, Outer

\* A command that PBL executes on the leaves T.
LEMMA DispatchedType ==
    ASSUME Inner, Outer, NEW T \in SUBSET Leaf, Dispatched(T)
    PROVE  Inner' /\ Outer'
<1>1. Rest \in Seq(Plain) /\ run \in Run /\ st \in Profile /\ clock \in Nat
  BY AtPlain, AtNeeds DEF Dispatched, NeedRun, Inner, Outer
<1>2. /\ lights' \in [Leaf -> 0 .. Full]
      /\ touch' \in [Leaf -> [by : {"nobody", "wake", "user"},
                              lease : Occ \cup {NoOcc}]]
  BY <1>1, LightType DEF Dispatched
<1>3. left' \in [{"user", "lags", "faults", "restarts"} -> Nat]
  BY SpendType DEF Dispatched, Outer
<1>4. Outer'
  BY <1>2, <1>3 DEF Dispatched, Outer, Calm, LeaseKnown, proc, peer
<1>5. Typed /\ settle' \in Int
  <2>1. CASE T = {}
    <3>1. Cancel(st, FALSE, FALSE, FALSE, Rest) /\ UNCHANGED settle
      BY <2>1 DEF Dispatched
    <3> QED  BY <1>1, <3>1, CancelType DEF Typed, Inner
  <2>2. CASE T # {}
    <3> DEFINE less == ReleaseLeaves(run, run.targets \ T)
               r == MarkDispatched(less, job.now, job.level, T, job.force)
               q == [r EXCEPT !.next = NextDeadline(r, job.now)]
    <3>1. /\ job.now \in Int /\ job.level \in 0 .. Full /\ job.force \in BOOLEAN
          /\ job \in Jobs
      BY DEF Inner, Jobs
    <3>2. less \in Run
      <4>1. ~(run.targets \subseteq run.targets \ T)
        BY <2>2 DEF Dispatched
      <4> QED  BY <1>1, <4>1, ReleaseLeavesType
    <3> HIDE DEF less
    <3>3. r \in Run
      BY <3>1, <3>2, MarkDispatchedType
    <3>4. st' = [st EXCEPT !.run = q]
      BY <2>2 DEF Dispatched, less
    <3> HIDE DEF r
    <3>5. q \in Run
      <4>1. NextDeadline(r, job.now) \in Int
        BY <3>1, <3>3, NextDeadlineType
      <4> QED  BY <3>3, <4>1 DEF Run
    <3> HIDE DEF q
    <3>6. st' \in Profile
      BY <1>1, <3>4, <3>5 DEF Profile
    <3>7. /\ stack' = Rest /\ revokeBy' = NoTime /\ settle' = job.now + 1
          /\ UNCHANGED <<job, timer>>
      BY <2>2 DEF Dispatched, Goto
    <3>8. Fits(stack', run', job'.prev)
      BY <1>1, <3>7, PlainFits
    <3> QED  BY <3>1, <3>6, <3>7, <3>8 DEF Typed, Inner, NoTime
  <2> QED  BY <2>1, <2>2
<1>6. Inner'
  BY <1>5 DEF Typed, Dispatched, Inner, Calm
<1> QED  BY <1>4, <1>6

\* One that PBL has no lease for any more.
LEMMA NotDispatchedType ==
    ASSUME Inner, Outer, NEW b \in BOOLEAN, NotDispatched(b)
    PROVE  Inner' /\ Outer'
<1> DEFINE by == IF revokeBy = NoTime THEN job.now + 2 * Step ELSE revokeBy
<1>1. Rest \in Seq(Plain) /\ run \in Run /\ st \in Profile /\ clock \in Nat
  BY AtPlain, AtNeeds DEF NotDispatched, NeedRun, Inner, Outer
<1>2. by \in Int /\ job.now \in Int /\ Step \in Int
  BY TimeAssumption DEF Inner, Jobs
<1>3. Typed
  <2>1. CASE job.now < by
    <3>1. /\ revokeBy' = by /\ st' = [st EXCEPT !.run.next = Sooner(by, job.now + Step)]
          /\ stack' = Rest /\ UNCHANGED <<job, timer>>
      BY <2>1 DEF NotDispatched, Goto
    <3> HIDE DEF by
    <3>2. Sooner(by, job.now + Step) \in Int
      BY <1>2 DEF Sooner
    <3>3. st' = [st EXCEPT !.run = [run EXCEPT !.next = Sooner(by, job.now + Step)]]
      BY <1>1, <3>1 DEF Profile, run
    <3>4. [run EXCEPT !.next = Sooner(by, job.now + Step)] \in Run
      BY <1>1, <3>2 DEF Run
    <3>5. st' \in Profile
      BY <1>1, <3>3, <3>4 DEF Profile
    <3>6. Fits(stack', run', job'.prev)
      BY <1>1, <3>1, PlainFits
    <3> QED  BY <1>2, <3>1, <3>5, <3>6 DEF Typed, Inner
  <2>2. CASE ~(job.now < by)
    <3>1. Cancel(st, FALSE, b, FALSE, Rest)
      BY <2>2 DEF NotDispatched
    <3> QED  BY <1>1, <3>1, CancelType DEF Typed
  <2> QED  BY <2>1, <2>2
<1>4. Inner'
  BY <1>3 DEF Typed, NotDispatched, Inner, Calm
<1>5. Outer'
  BY DEF NotDispatched, Outer, Calm, LeaseKnown, proc, peer, world
<1> QED  BY <1>4, <1>5

\* One that fails.
LEMMA DispatchFailedType ==
    ASSUME Inner, Outer, DispatchFailed PROVE Inner' /\ Outer'
<1>1. Rest \in Seq(Plain) /\ run \in Run /\ st \in Profile /\ clock \in Nat
  BY AtPlain, AtNeeds DEF DispatchFailed, NeedRun, Inner, Outer
<1>2. Typed
  BY <1>1, CancelType DEF DispatchFailed, Typed
<1>3. /\ lights' \in [Leaf -> 0 .. Full]
      /\ touch' \in [Leaf -> [by : {"nobody", "wake", "user"},
                              lease : Occ \cup {NoOcc}]]
  <2>1. run.targets \in SUBSET Leaf
    BY <1>1 DEF Run
  <2> QED  BY <1>1, <2>1, LightType DEF DispatchFailed
<1>4. left' \in [{"user", "lags", "faults", "restarts"} -> Nat]
  BY SpendType DEF DispatchFailed
<1>5. Inner'
  BY <1>2 DEF Typed, DispatchFailed, Inner, Calm
<1>6. Outer'
  BY <1>3, <1>4 DEF DispatchFailed, Outer, Calm, LeaseKnown, proc, peer
<1> QED  BY <1>5, <1>6

\* The release of a lease.
LEMMA ReleasedType ==
    ASSUME Inner, Outer, Released \/ NotReleased PROVE Inner' /\ Outer'
<1>1. stack' = Rest /\ stack # <<>> /\ run' = run /\ job' = job
  BY DEF Released, NotReleased, Goto, At, run
<1>2. Fits(stack', run', job'.prev)
  BY <1>1, AnswerRest
<1>3. left' \in [{"user", "lags", "faults", "restarts"} -> Nat]
  BY SpendType DEF Released, NotReleased, Outer, world
<1>4. pbl' \in Leases /\ pblGen' \in Nat /\ retired' \in SUBSET Occ /\ LeaseKnown'
  BY RetireType DEF Released, NotReleased, Outer, LeaseKnown, peer
<1>5. Inner'
  BY <1>1, <1>2 DEF Released, NotReleased, Inner, Calm
<1>6. Outer'
  BY <1>3, <1>4 DEF Released, NotReleased, Outer, Calm, proc, world
<1> QED  BY <1>5, <1>6

\* The events of lights that go off, and of the lease that goes with them.
LEMMA LightsBecomeType ==
    ASSUME Inner, Outer, NEW now \in [Leaf -> 0 .. Full], NEW before \in Seq(Tasks),
           LightsBecome(now, before)
    PROVE  /\ lights' \in [Leaf -> 0 .. Full] /\ queue' \in Seq(Tasks)
           /\ pbl' \in Leases /\ pblGen' \in Nat /\ retired' \in SUBSET Occ
           /\ LeaseKnown'
<1> DEFINE drop == RootOn(lights) /\ ~RootOn(now)
           gone == drop /\ pbl.status = "active"
           root == [Task("rootOff") EXCEPT !.occ = IF Active THEN run.lease ELSE NoOcc]
           revoke == [Task("revoke") EXCEPT !.gen = pbl.gen, !.user = TRUE]
           a == IF drop THEN <<root>> ELSE <<>>
           b == IF gone THEN <<revoke>> ELSE <<>>
<1>1. root \in Tasks
  <2>1. (IF Active THEN run.lease ELSE NoOcc) \in Occ \cup {NoOcc}
    BY ActiveRun DEF Run
  <2>2. Task("rootOff") \in Tasks /\ Task("rootOff").kind = "rootOff"
    <3>1. "rootOff" \in Kinds \ {"add"}
      BY DEF Kinds
    <3> QED  BY <3>1, TaskType DEF Task
  <2> QED  BY <2>1, <2>2 DEF Tasks
<1>2. revoke \in Tasks
  <2>1. pbl.gen \in Nat
    BY DEF Outer, Leases
  <2>2. Task("revoke") \in Tasks /\ Task("revoke").kind = "revoke"
    <3>1. "revoke" \in Kinds \ {"add"}
      BY DEF Kinds
    <3> QED  BY <3>1, TaskType DEF Task
  <2> QED  BY <2>1, <2>2 DEF Tasks
<1>3. Post(before \o a \o b)
  BY DEF LightsBecome
<1> HIDE DEF root, revoke
<1>4. a \in Seq(Tasks) /\ b \in Seq(Tasks)
  BY <1>1, <1>2
<1> HIDE DEF a, b
<1>5. before \o a \o b \in Seq(Tasks)
  BY <1>4, ConcatProperties
<1>6. queue' \in Seq(Tasks)
  BY <1>3, <1>5, PostType
<1>7. lights' = now
  BY DEF LightsBecome
<1>8. (pbl.status = "active" /\ Retire) \/ UNCHANGED peer
  BY DEF LightsBecome
<1>9. pbl' \in Leases /\ pblGen' \in Nat /\ retired' \in SUBSET Occ /\ LeaseKnown'
  BY <1>8, RetireType DEF Outer, peer, LeaseKnown
<1> QED  BY <1>6, <1>7, <1>9

\* Turning off what the wake light turned on.
LEMMA SafeOffType ==
    ASSUME Inner, Outer, SafeOff \/ NotSafeOff PROVE Inner' /\ Outer'
<1>1. stack' = Rest /\ stack # <<>> /\ run' = run /\ job' = job
  BY DEF SafeOff, NotSafeOff, Goto, At, run
<1>2. Fits(stack', run', job'.prev)
  BY <1>1, AnswerRest
<1>3. Inner'
  BY <1>1, <1>2 DEF SafeOff, NotSafeOff, Inner, Calm
<1>4. CASE SafeOff
  <2> DEFINE off == [l \in Leaf |-> IF l \in OwnedLights(job.prev) THEN 0 ELSE lights[l]]
  <2>1. off \in [Leaf -> 0 .. Full]
    BY TimeAssumption DEF Outer
  <2>2. <<>> \in Seq(Tasks) /\ LightsBecome(off, <<>>)
    BY <1>4 DEF SafeOff
  <2> HIDE DEF off
  <2>3. /\ lights' \in [Leaf -> 0 .. Full] /\ queue' \in Seq(Tasks)
        /\ pbl' \in Leases /\ pblGen' \in Nat /\ retired' \in SUBSET Occ
        /\ LeaseKnown'
    BY <2>1, <2>2, LightsBecomeType
  <2> QED  BY <1>3, <1>4, <2>3 DEF SafeOff, Outer, Calm, proc
<1>5. CASE NotSafeOff
  <2>1. left' \in [{"user", "lags", "faults", "restarts"} -> Nat]
    BY <1>5, SpendType DEF NotSafeOff
  <2> QED  BY <1>3, <1>5, <2>1 DEF NotSafeOff, Outer, Calm, LeaseKnown, proc, peer
<1> QED  BY <1>4, <1>5

\* A leaf that went off, once its group has settled.
LEMMA SettlingType == ASSUME Inner, Outer, Settling PROVE Inner' /\ Outer'
<1>1. Rest \in Seq(Plain) /\ st \in Profile /\ clock \in Nat
  BY AtPlain DEF Settling, Inner, Outer
<1>2. Typed
  BY <1>1, CancelType, ReleaseLeafType DEF Settling, Typed
<1> QED  BY <1>2, QuietOuter DEF Typed, Settling, Inner

\* Saving the profile at the end of a handler, or before it goes on.
LEMMA SaveType == ASSUME Inner, Outer, Save \/ Persist PROVE Inner' /\ Outer'
<1>1. NoJob \in Jobs
  BY TimeAssumption DEF NoJob, Jobs, NoTime
<1>2. timer' \in Int
  <2>1. job.now \in Int
    BY DEF Inner, Jobs
  <2> QED  BY <2>1, NextTimerType DEF Save, Persist, Inner
<1>3. stack' \in Seq(Plain) /\ job' = NoJob
  <2>1. <<>> \in Seq(Plain)
    BY EmptySeq
  <2>2. CASE Save
    BY <2>1, <2>2 DEF Save, Goto
  <2>3. CASE Persist
    BY <2>3, AtPlain DEF Persist, Goto
  <2> QED  BY <2>2, <2>3
<1>4. Fits(stack', run', job'.prev)
  BY <1>3, PlainFits
<1> QED  BY <1>1, <1>2, <1>3, <1>4 DEF Save, Persist, Inner, Outer, LeaseKnown,
            proc, peer, world

\* Every answer is typed.
LEMMA AnswersType == ASSUME Inner, Outer, Answers PROVE Inner' /\ Outer'
BY GrantedType, RefusedType, DispatchedType, NotDispatchedType, DispatchFailedType,
   ReleasedType, SafeOffType, SettlingType, SaveType DEF Answers

\* The process forgets all but what it stored.
LEMMA ForgetType ==
    ASSUME Inner, Outer, Forget
    PROVE  Inner' /\ queue' \in Seq(Tasks) /\ disk' \in Profile
           /\ phase' = "down" /\ stopping' \in BOOLEAN
<1>1. NoJob \in Jobs
  BY TimeAssumption DEF NoJob, Jobs, NoTime
<1>2. Fits(stack', run', job'.prev)
  <2>1. <<>> \in Seq(Plain)
    BY EmptySeq
  <2> QED  BY <2>1, PlainFits DEF Forget
<1>3. st' \in Profile /\ queue' \in Seq(Tasks) /\ disk' \in Profile
  BY DEF Forget, Outer
<1>4. /\ scheduled' = {} /\ observed' = [l \in Leaf |-> NoOcc] /\ job' = NoJob
      /\ retryAt' = NoTime /\ retryBy' = NoTime /\ revokeBy' = NoTime
      /\ settle' = NoTime /\ timer' = NoTime /\ phase' = "down" /\ stopping' = FALSE
  BY DEF Forget
<1>5. Inner'
  BY <1>1, <1>2, <1>3, <1>4 DEF Inner, NoTime
<1> QED  BY <1>3, <1>4, <1>5

\* Every stage is typed.
LEMMA StagesType == ASSUME Inner, Outer, Stages PROVE Inner' /\ Outer'
<1>1. CASE Unloaded
  BY <1>1, ForgetType DEF Unloaded, Outer, LeaseKnown, peer, world
<1>2. CASE ~Unloaded
  <2>1. Inner'
    BY <1>2, ReconcileType, DrainType, PendingType, ReacquiredType, JoinDueType,
       MergedType, CompleteType, BeginType, DispatchType, DecideType, FinishType,
       CancelledType, EndedType, RecoverType, RecoverRunType DEF Stages
  <2>2. Quiet
    BY <1>2 DEF Stages, Reconcile, Drain, Pending, Reacquired, JoinDue, Merged,
       Complete, CompletedRun, Begin, Started, Dispatch, Decide, Finish, Cancelled,
       Updated, Failed, Ended, Fence, RecoverNothing, RecoverRootOff,
       RecoverNoTargets, RecoverRun, Recovered, Abandoned
  <2> QED  BY <2>1, <2>2, QuietOuter
<1> QED  BY <1>1, <1>2

-----------------------------------------------------------------------------
(***************************************************************************)
(* The handlers.                                                           *)
(***************************************************************************)

\* The event a handler takes, and what it leaves alone.
LEMMA TakeType ==
    ASSUME Outer, NEW kind, Take(kind)
    PROVE  /\ Event \in Tasks /\ queue' \in Seq(Tasks) /\ clock \in Nat
           /\ phase' \in {"down", "starting", "running", "unloading"}
                /\ stopping' \in BOOLEAN => Outer'
<1>1. queue \in Seq(Tasks) /\ queue # <<>>
  BY DEF Take, Outer
<1>2. Event \in Tasks /\ queue' \in Seq(Tasks)
  <2>1. Head(queue) \in Tasks /\ Tail(queue) \in Seq(Tasks)
    BY <1>1, HeadTailProperties
  <2> QED  BY <2>1 DEF Event, Take
<1> QED  BY <1>2 DEF Take, Outer, LeaseKnown, peer, world

\* The locals of a handler.
LEMMA NowType ==
    ASSUME NEW t \in Int PROVE Now(t) \in Jobs
<1>1. NoJob \in Jobs
  BY TimeAssumption DEF NoJob, Jobs, NoTime
<1> QED  BY <1>1 DEF Now, Jobs

\* The stages that handlers start with.
LEMMA FirstStages ==
    /\ <<"reconcile">> \in Seq(Plain) /\ <<"finish">> \in Seq(Plain)
    /\ <<"persist">> \in Seq(Plain) /\ <<"persist", "unloaded">> \in Seq(Plain)
BY DEF Plain, StageNames, NeedRun, NeedPrev, FirstOnly

\* A handler that begins with plain stages.
LEMMA BeginsType ==
    ASSUME NEW j \in Jobs, NEW stages \in Seq(Plain), Begins(j, stages)
    PROVE  job' \in Jobs /\ Fits(stack', run', job'.prev)
BY PlainFits DEF Begins, Goto

\* One that begins with a stage of its own and reconciles.
LEMMA BeginsFirstType ==
    ASSUME NEW j \in Jobs, NEW a \in FirstOnly, Begins(j, <<a, "reconcile">>)
    PROVE  job' \in Jobs /\ Fits(stack', run', job'.prev)
<1>1. <<a, "reconcile">> = <<a>> \o <<"reconcile">>
  BY Joined
<1>2. a \in StageNames /\ a \notin NeedRun /\ a \notin NeedPrev
  BY DEF FirstOnly, StageNames, NeedRun, NeedPrev
<1> QED  BY <1>1, <1>2, FirstStages, OneFits DEF Begins, Goto

\* A handler that gives the run up, when there is one.
LEMMA CancelOnType ==
    ASSUME Inner, Outer, NEW user \in BOOLEAN, NEW revoked \in BOOLEAN,
           NEW off \in BOOLEAN, NEW rest \in Seq(Plain),
           CancelOn(user, revoked, off, rest)
    PROVE  Typed
<1>1. st \in Profile /\ clock \in Int /\ Now(clock) \in Jobs
  BY NowType DEF Inner, Outer
<1>2. CASE Active
  <2>1. run \in Run
    BY <1>2, ActiveRun
  <2>2. revokeBy' = NoTime /\ timer' = NoTime
    BY <1>2 DEF CancelOn
  <2>3. st' = [st EXCEPT !.alarms = st.alarms \ FiredAlarms(run)]
    BY <1>1, <1>2 DEF CancelOn, Profile
  <2>4. st' \in Profile /\ run' = run
    BY <1>1, <2>3 DEF Profile, run
  <2>5. job' = [Now(clock) EXCEPT !.at = clock, !.user = user, !.off = off, !.prev = run]
    BY <1>2 DEF CancelOn, Begins
  <2>6. job' \in Jobs /\ job'.prev = run
    <3>1. job' \in Jobs
      BY <1>1, <2>1, <2>5, CancelJob
    <3>2. job'.prev = run
      BY <1>1, <2>5 DEF Jobs
    <3> QED  BY <3>1, <3>2
  <2>7. stack' = (IF revoked THEN <<>> ELSE ReleaseOf(run)) \o <<"cancelled">> \o rest
    BY <1>2 DEF CancelOn, Begins, Goto
  <2>8. \/ stack' = <<"cancelled">> \o rest
        \/ stack' = ReleaseOf(run) \o <<"cancelled">> \o rest
    BY <2>7, Joined
  <2>9. Fits(stack', run', job'.prev)
    <3>1. Fits(<<"cancelled">> \o rest, run, run)
      BY <2>1, OneFits DEF StageNames
    <3>2. Fits(ReleaseOf(run) \o <<"cancelled">> \o rest, run, run)
      BY <2>1, ReleaseFits
    <3> QED  BY <2>4, <2>6, <2>8, <3>1, <3>2
  <2> QED  BY <2>2, <2>4, <2>6, <2>9 DEF Typed, NoTime
<1>3. CASE ~Active
  <2>1. Begins(Now(clock), rest) /\ UNCHANGED <<st, revokeBy, timer>>
    BY <1>3 DEF CancelOn
  <2> QED  BY <1>1, <2>1, BeginsType DEF Typed, Inner
<1> QED  BY <1>2, <1>3

\* The handlers that start, and those that only reconcile.
LEMMA PlainHandlersType ==
    ASSUME Inner, Outer, OnStart \/ OnTimer \/ OnPoke \/ OnLeafOff \/ OnStop
    PROVE  Inner' /\ Outer'
<1>1. st \in Profile /\ clock \in Nat /\ Now(clock) \in Jobs
  BY NowType DEF Inner, Outer
<1>2. CASE OnStart
  <2>1. Outer'
    BY <1>2, TakeType DEF OnStart, Outer
  <2>2. CASE stopping
    BY <1>2, <2>1, <2>2 DEF OnStart, Take, Inner, run
  <2>3. CASE ~stopping
    <3>1. st' \in Profile
      BY <1>1, <1>2, <2>3, RefreshedType DEF OnStart
    <3>2. scheduled' \in SUBSET Occ
      BY <1>2, <2>3, <3>1, ScheduledType DEF OnStart
    <3>3. job' \in Jobs /\ Fits(stack', run', job'.prev)
      BY <1>1, <1>2, <2>3, BeginsFirstType DEF OnStart, FirstOnly
    <3> QED  BY <1>2, <2>1, <3>1, <3>2, <3>3 DEF OnStart, Take, Inner
  <2> QED  BY <2>2, <2>3
<1>3. CASE OnTimer
  <2>1. Event \in Tasks /\ Outer'
    BY <1>3, TakeType DEF OnTimer, Outer, proc
  <2>2. Event.now \in Int
    BY <2>1 DEF Tasks
  <2>3. job' \in Jobs /\ Fits(stack', run', job'.prev)
    BY <1>3, <2>2, NowType, FirstStages, BeginsType DEF OnTimer
  <2> QED  BY <1>3, <2>1, <2>3 DEF OnTimer, Take, Inner, NoTime
<1>4. CASE OnPoke
  <2>1. Outer'
    BY <1>4, TakeType DEF OnPoke, Outer, proc
  <2>2. st' \in Profile
    <3>1. CASE Active /\ Event.user
      <4>1. Watched(run, clock) \in Run
        BY <3>1, ActiveRun, WatchedType DEF Outer
      <4> QED  BY <1>1, <1>4, <3>1, <4>1 DEF OnPoke, Profile
    <3>2. CASE ~(Active /\ Event.user)
      BY <1>1, <1>4, <3>2 DEF OnPoke
    <3> QED  BY <3>1, <3>2
  <2>3. job' \in Jobs /\ Fits(stack', run', job'.prev)
    BY <1>1, <1>4, FirstStages, BeginsType DEF OnPoke, ThenReconcile
  <2> QED  BY <1>4, <2>1, <2>2, <2>3 DEF OnPoke, Take, Inner
<1>5. CASE OnLeafOff
  <2>1. Outer' /\ Event \in Tasks
    BY <1>5, TakeType DEF OnLeafOff, Outer, proc
  <2>2. [Now(clock) EXCEPT !.leaf = Event.leaf] \in Jobs
    BY <1>1, <2>1 DEF Tasks, Jobs
  <2>3. job' \in Jobs /\ Fits(stack', run', job'.prev)
    BY <1>1, <1>5, <2>2, FirstStages, BeginsType, BeginsFirstType
       DEF OnLeafOff, ThenReconcile, FirstOnly
  <2> QED  BY <1>5, <2>1, <2>3 DEF OnLeafOff, Take, Inner
<1>6. CASE OnStop
  <2>1. Outer'
    BY <1>6, TakeType DEF OnStop, Outer, proc
  <2>2. job' \in Jobs /\ Fits(stack', run', job'.prev)
    BY <1>1, <1>6, FirstStages, BeginsType DEF OnStop
  <2> QED  BY <1>6, <2>1, <2>2 DEF OnStop, Take, Inner
<1> QED  BY <1>2, <1>3, <1>4, <1>5, <1>6

\* The handlers that give the run up.
LEMMA CancelHandlersType ==
    ASSUME Inner, Outer, OnRootOff \/ OnRevoke \/ OnVacation \/ OnHazard
    PROVE  Inner' /\ Outer'
<1>1. st \in Profile /\ clock \in Nat /\ Now(clock) \in Jobs
  BY NowType DEF Inner, Outer
<1>2. Outer' /\ Event.user \in BOOLEAN
  <2>1. PICK kind \in {"rootOff", "revoke", "vacation", "hazard"} : Take(kind)
    BY DEF OnRootOff, OnRevoke, OnVacation, OnHazard
  <2>2. UNCHANGED proc
    BY DEF OnRootOff, OnRevoke, OnVacation, OnHazard, CancelOn, proc
  <2>3. Event \in Tasks /\ Outer'
    BY <2>1, <2>2, TakeType DEF Outer, proc
  <2> QED  BY <2>3 DEF Tasks
<1>3. UNCHANGED <<scheduled, observed, retryAt, retryBy, settle>>
  BY DEF OnRootOff, OnRevoke, OnVacation, OnHazard, CancelOn, Take
<1>4. \/ CancelOn(TRUE, TRUE, FALSE, <<"reconcile">>)
      \/ CancelOn(Event.user, TRUE, FALSE, <<"finish">>)
      \/ CancelOn(FALSE, FALSE, Event.user, <<"reconcile">>)
      \/ CancelOn(FALSE, FALSE, FALSE, <<"reconcile">>)
      \/ UNCHANGED <<st, revokeBy, timer, stack, job>>
      \/ ThenReconcile /\ UNCHANGED <<st, revokeBy, timer>>
  BY DEF OnRootOff, OnRevoke, OnVacation, OnHazard
<1>5. Typed
  <2>1. ASSUME NEW u \in BOOLEAN, NEW v \in BOOLEAN, NEW w \in BOOLEAN,
               NEW s \in Seq(Plain), CancelOn(u, v, w, s)
        PROVE  Typed
    BY <2>1, CancelOnType
  <2>2. CASE UNCHANGED <<st, revokeBy, timer, stack, job>>
    BY <2>2 DEF Inner, Typed, run
  <2>3. CASE ThenReconcile /\ UNCHANGED <<st, revokeBy, timer>>
    BY <1>1, <2>3, FirstStages, BeginsType DEF ThenReconcile, Typed, Inner
  <2> QED  BY <1>2, <1>4, <2>1, <2>2, <2>3, FirstStages
<1> QED  BY <1>2, <1>3, <1>5 DEF Typed, Inner

\* end_episode and the unloading of the config entry.
LEMMA EndHandlersType ==
    ASSUME Inner, Outer, OnEnd \/ OnUnload PROVE Inner' /\ Outer'
<1>1. st \in Profile /\ clock \in Nat /\ Now(clock) \in Jobs
  BY NowType DEF Inner, Outer
<1>2. Outer'
  BY TakeType DEF OnEnd, OnUnload, Outer, proc
<1>3. CASE OnEnd /\ Active
  <2>1. run \in Run /\ run.occs \in SUBSET Occ
    BY <1>3, ActiveRun DEF Run
  <2>2. st' \in Profile
    BY <1>1, <1>3, <2>1 DEF OnEnd, Profile
  <2>3. /\ job' = [Now(clock) EXCEPT !.prev = run]
        /\ stack' = ReleaseOf(run) \o <<"ended", "reconcile">>
    BY <1>3 DEF OnEnd, Begins, Goto
  <2>4. job' \in Jobs /\ job'.prev = run
    BY <1>1, <2>1, <2>3, JobPrev
  <2>5. stack' = ReleaseOf(run) \o <<"ended">> \o <<"reconcile">>
    <3>1. /\ <<"ended", "reconcile">> = <<"ended">> \o <<"reconcile">>
          /\ ReleaseOf(run) \in Seq(StageNames) /\ <<"ended">> \in Seq(StageNames)
          /\ <<"reconcile">> \in Seq(StageNames)
      BY Joined DEF ReleaseOf, StageNames
    <3> QED  BY <2>3, <3>1, ConcatAssociative
  <2>6. Fits(stack', run', job'.prev)
    BY <2>1, <2>4, <2>5, FirstStages, ReleaseFits DEF Ends
  <2> QED  BY <1>2, <1>3, <2>2, <2>4, <2>6 DEF OnEnd, Take, Inner, NoTime
<1>4. CASE OnEnd /\ ~Active
  <2>1. job' \in Jobs /\ Fits(stack', run', job'.prev)
    BY <1>1, <1>4, FirstStages, BeginsType DEF OnEnd, ThenReconcile
  <2> QED  BY <1>2, <1>4, <2>1 DEF OnEnd, Take, Inner
<1>5. CASE OnUnload /\ Active /\ ~stopping
  <2>1. run \in Run
    BY <1>5, ActiveRun
  <2>2. /\ job' = [Now(clock) EXCEPT !.prev = run] /\ st' = st
        /\ stack' = ReleaseOf(run) \o <<"abandoned", "persist", "unloaded">>
    BY <1>5 DEF OnUnload, Begins, Goto
  <2>3. job' \in Jobs /\ job'.prev = run
    BY <1>1, <2>1, <2>2, JobPrev
  <2>4. stack' = ReleaseOf(run) \o <<"abandoned">> \o <<"persist", "unloaded">>
    <3>1. ReleaseOf(run) \in Seq(StageNames)
      <4>1. ReleaseOf(run) = <<>> \/ ReleaseOf(run) = <<"release">>
        BY DEF ReleaseOf
      <4>2. <<>> \in Seq(StageNames) /\ <<"release">> \in Seq(StageNames)
        BY DEF StageNames
      <4> QED  BY <4>1, <4>2
    <3>2. <<"abandoned">> \in Seq(StageNames) /\ <<"persist", "unloaded">> \in Seq(StageNames)
      BY DEF StageNames
    <3> QED  BY <2>2, <3>1, <3>2, ThreeJoined, ConcatAssociative
  <2>5. Fits(stack', run', job'.prev)
    BY <2>1, <2>3, <2>4, FirstStages, ReleaseFits DEF Ends
  <2> QED  BY <1>1, <1>2, <1>5, <2>2, <2>3, <2>5 DEF OnUnload, Take, Inner
<1>6. CASE OnUnload /\ ~(Active /\ ~stopping)
  <2>1. job' \in Jobs /\ Fits(stack', run', job'.prev)
    BY <1>1, <1>6, FirstStages, BeginsType DEF OnUnload
  <2> QED  BY <1>2, <1>6, <2>1 DEF OnUnload, Take, Inner
<1> QED  BY <1>3, <1>4, <1>5, <1>6

\* dismiss, upsert_alarm and delete_alarm.
LEMMA AlarmHandlersType ==
    ASSUME Inner, Outer, OnDismiss \/ OnAdd \/ OnDelete PROVE Inner' /\ Outer'
<1>1. st \in Profile /\ clock \in Nat /\ Now(clock) \in Jobs
  BY NowType DEF Inner, Outer
<1>2. Outer'
  BY TakeType DEF OnDismiss, OnAdd, OnDelete, Outer, proc
<1>3. Event.occ \in Occ \cup {NoOcc}
  <2>1. Event \in Tasks
    BY TakeType DEF OnDismiss, OnAdd, OnDelete
  <2> QED  BY <2>1 DEF Tasks
<1>4. CASE OnDelete
  <2>1. st' \in Profile
    BY <1>1, <1>4 DEF OnDelete, Profile
  <2>2. job' \in Jobs /\ Fits(stack', run', job'.prev)
    BY <1>1, <1>4, FirstStages, BeginsType DEF OnDelete, ThenReconcile
  <2> QED  BY <1>2, <1>4, <2>1, <2>2 DEF OnDelete, Take, Inner
<1>5. CASE OnDismiss /\ Active /\ Event.occ \in run.occs
  <2> DEFINE r == Without(run, {Event.occ})
  <2>1. run \in Run /\ Event.occ \in Occ
    BY <1>5, ActiveRun DEF Run
  <2>2. r \in Run \cup {NoRun}
    BY <2>1, WithoutType
  <2>3. /\ st' = [st EXCEPT !.run = r, !.terminal = @ \cup {Event.occ},
                            !.alarms = @ \ (FiredAlarms(run) \cap {Event.occ})]
        /\ job' = [Now(clock) EXCEPT !.prev = run]
        /\ stack' = (IF r = NoRun THEN ReleaseOf(run)
                     ELSE <<"acquire", "updated">>) \o <<"reconcile">>
    BY <1>5 DEF OnDismiss, Begins, Goto
  <2> HIDE DEF r
  <2>4. st' \in Profile /\ run' = r
    BY <1>1, <2>1, <2>2, <2>3 DEF Profile, run
  <2>5. job' \in Jobs /\ job'.prev = run
    BY <1>1, <2>1, <2>3, JobPrev
  <2>6. Fits(stack', run', job'.prev)
    <3>1. CASE r = NoRun
      <4>1. stack' = <<"reconcile">> \/ stack' = <<"release">> \o <<"reconcile">>
        BY <2>3, <3>1, Joined DEF ReleaseOf
      <4>2. "release" \in StageNames /\ "release" \notin NeedRun
        BY DEF StageNames, NeedRun
      <4> QED  BY <2>1, <2>5, <4>1, <4>2, FirstStages, PlainFits, OneFits
    <3>2. CASE r # NoRun
      <4>1. "updated" \in Plain
        BY DEF Plain, StageNames, NeedRun, NeedPrev, FirstOnly
      <4> QED  BY <2>2, <2>3, <2>4, <3>2, <4>1, FirstStages, AcquireAnd
    <3> QED  BY <3>1, <3>2
  <2> QED  BY <1>2, <1>5, <2>4, <2>5, <2>6 DEF OnDismiss, Take, Inner
<1>6. CASE OnDismiss /\ ~(Active /\ Event.occ \in run.occs)
  <2>1. job' \in Jobs /\ Fits(stack', run', job'.prev)
    BY <1>1, <1>6, FirstStages, BeginsType DEF OnDismiss, ThenReconcile
  <2> QED  BY <1>1, <1>2, <1>6, <2>1 DEF OnDismiss, Take, Inner
<1>7. CASE OnAdd
  <2>1. job' \in Jobs /\ Fits(stack', run', job'.prev)
    BY <1>1, <1>7, FirstStages, BeginsType DEF OnAdd, ThenReconcile
  <2>2. st' \in Profile
    <3>1. Event.kind = "add" /\ Event \in Tasks
      BY <1>7, TakeType DEF OnAdd, Take, Event
    <3>2. Event.occ \in Occ
      BY <3>1 DEF Tasks
    <3> QED  BY <1>1, <1>7, <3>2 DEF OnAdd, Profile
  <2> QED  BY <1>2, <1>7, <2>1, <2>2 DEF OnAdd, Take, Inner
<1> QED  BY <1>4, <1>5, <1>6, <1>7

\* Every handler is typed.
LEMMA HandlersType == ASSUME Inner, Outer, Handlers PROVE Inner' /\ Outer'
BY PlainHandlersType, CancelHandlersType, EndHandlersType, AlarmHandlersType
   DEF Handlers

-----------------------------------------------------------------------------
(***************************************************************************)
(* The environment.                                                        *)
(***************************************************************************)

\* What the environment leaves alone keeps its type.
LEMMA StillInner ==
    ASSUME Inner, Still, observed' \in [Leaf -> Occ \cup {NoOcc}], timer' \in Int
    PROVE  Inner'
BY DEF Inner, Still, run

\* A task of a kind with an occurrence.
LEMMA OccTaskType ==
    ASSUME NEW kind \in Kinds, NEW o \in Occ \cup {NoOcc},
           kind = "add" => o \in Occ
    PROVE  [Task(kind) EXCEPT !.occ = o] \in Tasks
<1> DEFINE R == [kind : Kinds, now : Int, leaf : Leaf \cup {NoOcc},
                 occ : Occ \cup {NoOcc}, gen : Nat, user : BOOLEAN]
           t == Task(kind)
           u == [t EXCEPT !.occ = o]
<1>1. t \in R /\ t.kind = kind
  BY DEF Task, NoTime
<1> HIDE DEF t
<1>2. u \in R /\ u.kind = kind /\ u.occ = o
  BY <1>1
<1> HIDE DEF u
<1>3. u \in Tasks
  BY <1>2 DEF Tasks
<1> QED  BY <1>3 DEF t, u

\* The tasks that the environment queues.
LEMMA EnvTasks ==
    /\ \A k \in {"poke", "vacation", "hazard", "start", "stop", "unload", "timer"} :
          Task(k) \in Tasks
    /\ \A t \in Int : [Task("timer") EXCEPT !.now = t] \in Tasks
    /\ \A u \in BOOLEAN : /\ [Task("poke") EXCEPT !.user = u] \in Tasks
                          /\ [Task("vacation") EXCEPT !.user = u] \in Tasks
    /\ \A g \in Nat, u \in BOOLEAN :
          [Task("revoke") EXCEPT !.gen = g, !.user = u] \in Tasks
    /\ \A l \in Leaf, o \in Occ \cup {NoOcc} :
          [Task("leafOff") EXCEPT !.leaf = l, !.occ = o] \in Tasks
<1>1. \A k \in {"poke", "vacation", "hazard", "start", "stop", "unload", "timer",
                "revoke", "leafOff"} :
        Task(k) \in Tasks /\ Task(k).kind = k /\ k # "add"
  <2>1. \A k \in {"poke", "vacation", "hazard", "start", "stop", "unload", "timer",
                  "revoke", "leafOff"} : k \in Kinds \ {"add"}
    BY DEF Kinds
  <2> QED  BY <2>1, TaskType DEF Task
<1>2. \A t \in Int : [Task("timer") EXCEPT !.now = t] \in Tasks
  BY <1>1 DEF Tasks
<1>3. \A u \in BOOLEAN : /\ [Task("poke") EXCEPT !.user = u] \in Tasks
                         /\ [Task("vacation") EXCEPT !.user = u] \in Tasks
  BY <1>1 DEF Tasks
<1>4. \A g \in Nat, u \in BOOLEAN :
        [Task("revoke") EXCEPT !.gen = g, !.user = u] \in Tasks
  BY <1>1 DEF Tasks
<1>5. \A l \in Leaf, o \in Occ \cup {NoOcc} :
        [Task("leafOff") EXCEPT !.leaf = l, !.occ = o] \in Tasks
  BY <1>1 DEF Tasks
<1> QED  BY <1>1, <1>2, <1>3, <1>4, <1>5

\* A task of the environment in the queue.
LEMMA QueueOne ==
    ASSUME Outer, NEW t \in Tasks, Post(<<t>>) \/ queue' = Append(queue, t)
    PROVE  queue' \in Seq(Tasks)
BY AppendType, PostType

\* Somebody turns a light off or on.
LEMMA LightEventsType ==
    ASSUME Inner, Outer, NEW l \in Leaf,
           LeafOff(l) \/ \E level \in 1 .. Full : LeafOn(l, level)
    PROVE  Inner' /\ Outer'
<1>1. left' \in [{"user", "lags", "faults", "restarts"} -> Nat]
  BY SpendType DEF LeafOff, LeafOn, Act
<1>2. Active => run.lease \in Occ
  BY ActiveRun DEF Run
<1>3. CASE LeafOff(l)
  <2> DEFINE lease == IF Active THEN run.lease ELSE NoOcc
             off == [Task("leafOff") EXCEPT !.leaf = l, !.occ = lease]
             now == [lights EXCEPT ![l] = 0]
  <2>1. lease \in Occ \cup {NoOcc}
    BY <1>2
  <2>2. LightsBecome(now, <<off>>)
    BY <1>3 DEF LeafOff
  <2> HIDE DEF lease
  <2>3. off \in Tasks
    BY <2>1, EnvTasks
  <2>4. now \in [Leaf -> 0 .. Full]
    BY TimeAssumption DEF Outer
  <2> HIDE DEF off, now
  <2>5. <<off>> \in Seq(Tasks)
    BY <2>3
  <2>6. /\ lights' \in [Leaf -> 0 .. Full] /\ queue' \in Seq(Tasks)
        /\ pbl' \in Leases /\ pblGen' \in Nat /\ retired' \in SUBSET Occ
        /\ LeaseKnown'
    BY <2>2, <2>4, <2>5, LightsBecomeType
  <2>7. touch' \in [Leaf -> [by : {"nobody", "wake", "user"}, lease : Occ \cup {NoOcc}]]
    <3> DEFINE whose == IF Active /\ run.gen # 0 THEN run.lease ELSE NoOcc
    <3>1. whose \in Occ \cup {NoOcc}
      BY <1>2
    <3>2. touch' = [touch EXCEPT ![l] = [by |-> "user", lease |-> whose]]
      BY <1>3 DEF LeafOff
    <3> HIDE DEF whose
    <3> QED  BY <3>1, <3>2 DEF Outer
  <2>8. observed' \in [Leaf -> Occ \cup {NoOcc}]
    BY <1>2, <1>3 DEF LeafOff, Noted, Inner
  <2>9. Inner'
    BY <1>3, <2>8, StillInner DEF LeafOff, Inner
  <2> QED  BY <1>1, <1>3, <2>6, <2>7, <2>9 DEF LeafOff, Still, Outer, proc
<1>4. CASE \E level \in 1 .. Full : LeafOn(l, level)
  <2>1. PICK level \in 1 .. Full : LeafOn(l, level)
    BY <1>4
  <2>2. lights' \in [Leaf -> 0 .. Full]
    BY <2>1, TimeAssumption DEF LeafOn, Outer
  <2>3. touch' \in [Leaf -> [by : {"nobody", "wake", "user"}, lease : Occ \cup {NoOcc}]]
    BY <2>1 DEF LeafOn, Outer
  <2>4. queue' \in Seq(Tasks)
    BY <2>1, EnvTasks, QueueOne DEF LeafOn
  <2>5. Inner'
    BY <2>1, StillInner DEF LeafOn, Inner
  <2> QED  BY <1>1, <2>1, <2>2, <2>3, <2>4, <2>5
            DEF LeafOn, Still, Outer, LeaseKnown, proc, peer
<1> QED  BY <1>3, <1>4

\* The other acts of users and of the room.
LEMMA OtherUsersType ==
    ASSUME Inner, Outer,
           \/ \E v \in {"off", "on", "unknown"} : SetVacation(v)
           \/ \E r \in {"ready", "unknown", "blocked"} : SetRoom(r)
           \/ \E u \in BOOLEAN : PblRevoke(u)
           \/ \E o \in Occ : \/ Command("dismiss", o) \/ Command("add", o)
                             \/ Command("delete", o)
           \/ Command("end", NoOcc)
    PROVE  Inner' /\ Outer'
<1>1. CASE \E v \in {"off", "on", "unknown"} : SetVacation(v)
  <2>1. PICK v \in {"off", "on", "unknown"} : SetVacation(v)
    BY <1>1
  <2>2. queue' \in Seq(Tasks)
    <3>1. \/ Post(<<Task("poke")>>)
          \/ Post(<<[Task("vacation") EXCEPT !.user = (v = "on")]>>)
      BY <2>1 DEF SetVacation
    <3> QED  BY <3>1, EnvTasks, QueueOne
  <2>3. left' \in [{"user", "lags", "faults", "restarts"} -> Nat]
    BY <2>1, SpendType DEF SetVacation, Act
  <2>4. Inner'
    BY <2>1, StillInner DEF SetVacation, Inner
  <2> QED  BY <2>1, <2>2, <2>3, <2>4 DEF SetVacation, Still, Outer, LeaseKnown, proc, peer
<1>2. CASE \E r \in {"ready", "unknown", "blocked"} : SetRoom(r)
  <2>1. PICK r \in {"ready", "unknown", "blocked"} : SetRoom(r)
    BY <1>2
  <2>2. queue' \in Seq(Tasks)
    <3>1. Post(<<Task("poke")>>) \/ Post(<<Task("hazard")>>)
      BY <2>1 DEF SetRoom
    <3> QED  BY <3>1, EnvTasks, QueueOne
  <2>3. left' \in [{"user", "lags", "faults", "restarts"} -> Nat]
    BY <2>1, SpendType DEF SetRoom, Act
  <2>4. Inner'
    BY <2>1, StillInner DEF SetRoom, Inner
  <2> QED  BY <2>1, <2>2, <2>3, <2>4 DEF SetRoom, Still, Outer, LeaseKnown, proc, peer
<1>3. CASE \E u \in BOOLEAN : PblRevoke(u)
  <2>1. PICK u \in BOOLEAN : PblRevoke(u)
    BY <1>3
  <2>2. queue' \in Seq(Tasks)
    <3>1. pbl.gen \in Nat
      BY DEF Outer, Leases
    <3> QED  BY <2>1, <3>1, EnvTasks, QueueOne DEF PblRevoke
  <2>3. pbl' \in Leases /\ pblGen' \in Nat /\ retired' \in SUBSET Occ /\ LeaseKnown'
    BY <2>1, RetireType DEF PblRevoke
  <2>4. left' \in [{"user", "lags", "faults", "restarts"} -> Nat]
    BY <2>1, SpendType DEF PblRevoke, Act
  <2>5. Inner'
    BY <2>1, StillInner DEF PblRevoke, Inner
  <2> QED  BY <2>1, <2>2, <2>3, <2>4, <2>5 DEF PblRevoke, Still, Outer, proc
<1>4. ASSUME NEW kind \in {"dismiss", "add", "delete", "end"},
             NEW o \in Occ \cup {NoOcc}, kind = "add" => o \in Occ, Command(kind, o)
      PROVE  Inner' /\ Outer'
  <2>1. [Task(kind) EXCEPT !.occ = o] \in Tasks
    <3>1. kind \in Kinds
      BY DEF Kinds
    <3> QED  BY <1>4, <3>1, OccTaskType
  <2>2. queue' \in Seq(Tasks)
    BY <1>4, <2>1, QueueOne DEF Command
  <2>3. left' \in [{"user", "lags", "faults", "restarts"} -> Nat]
    BY <1>4, SpendType DEF Command, Act
  <2>4. Inner'
    BY <1>4, StillInner DEF Command, Inner
  <2> QED  BY <1>4, <2>2, <2>3, <2>4 DEF Command, Still, Outer, LeaseKnown, proc, peer
<1> QED  BY <1>1, <1>2, <1>3, <1>4

\* Every act of a user is typed.
LEMMA UsersType == ASSUME Inner, Outer, Users PROVE Inner' /\ Outer'
BY LightEventsType, OtherUsersType DEF Users

\* The end of the process: PBL keeps its lease for a while.
LEMMA DieType == ASSUME Inner, Outer, Die PROVE Inner' /\ Outer'
<1>1. /\ Inner' /\ queue' \in Seq(Tasks) /\ disk' \in Profile
      /\ phase' = "down" /\ stopping' \in BOOLEAN
  BY ForgetType DEF Die
<1>2. left' \in [{"user", "lags", "faults", "restarts"} -> Nat]
  BY SpendType DEF Die, Outer
<1>3. pbl' \in Leases /\ LeaseKnown'
  <2>1. pbl \in Leases /\ clock + Grace \in Int
    BY CoordinatorAssumption DEF Outer
  <2>2. CASE pbl.status = "none"
    BY <2>1, <2>2 DEF Die, LeaseKnown
  <2>3. CASE pbl.status # "none"
    <3>1. pbl' = [pbl EXCEPT !.status = "recovering", !.grace = clock + Grace]
      BY <2>3 DEF Die
    <3>2. pbl' \in Leases /\ pbl'.lease = pbl.lease
      BY <2>1, <3>1 DEF Leases
    <3> QED  BY <2>3, <3>2 DEF LeaseKnown, Outer
  <2> QED  BY <2>2, <2>3
<1> QED  BY <1>1, <1>2, <1>3 DEF Die, Outer

\* Time, timers, PBL's expiry and the life of Home Assistant.
LEMMA MachineType == ASSUME Inner, Outer, Machine PROVE Inner' /\ Outer'
<1>1. observed \in [Leaf -> Occ \cup {NoOcc}] /\ timer \in Int /\ NoTime \in Int
  BY DEF Inner, NoTime
<1>2. CASE Tick
  <2>1. left' \in [{"user", "lags", "faults", "restarts"} -> Nat] /\ clock' \in Nat
    BY <1>2, SpendType DEF Tick, Outer
  <2>2. Inner'
    BY <1>1, <1>2, StillInner DEF Tick
  <2> QED  BY <1>2, <2>1, <2>2 DEF Tick, Still, Outer, LeaseKnown, proc, peer
<1>3. CASE FireTimer
  <2>1. queue' \in Seq(Tasks)
    <3>1. clock \in Int
      BY DEF Outer
    <3> QED  BY <1>3, <3>1, EnvTasks, QueueOne DEF FireTimer
  <2>2. Inner'
    BY <1>1, <1>3, StillInner DEF FireTimer
  <2> QED  BY <1>3, <2>1, <2>2 DEF FireTimer, Still, Outer, LeaseKnown, proc, peer, world
<1>4. CASE Poke
  <2>1. queue' \in Seq(Tasks)
    BY <1>4, EnvTasks, QueueOne DEF Poke
  <2>2. Inner'
    BY <1>1, <1>4, StillInner DEF Poke
  <2> QED  BY <1>4, <2>1, <2>2 DEF Poke, Still, Outer, LeaseKnown, proc, peer, world
<1>5. CASE PblExpire
  <2>1. queue' \in Seq(Tasks)
    <3> DEFINE t == [Task("revoke") EXCEPT !.gen = pbl.gen]
    <3>1. pbl.gen \in Nat
      BY DEF Outer, Leases
    <3>2. t \in Tasks
      <4>1. Task("revoke") \in Tasks /\ Task("revoke").kind # "add"
        <5>1. "revoke" \in Kinds \ {"add"}
          BY DEF Kinds
        <5> QED  BY <5>1, TaskType DEF Task
      <4> QED  BY <3>1, <4>1 DEF Tasks
    <3>3. Post(<<t>>)
      BY <1>5 DEF PblExpire
    <3> HIDE DEF t
    <3> QED  BY <3>2, <3>3, QueueOne
  <2>2. pbl' \in Leases /\ pblGen' \in Nat /\ retired' \in SUBSET Occ /\ LeaseKnown'
    BY <1>5, RetireType DEF PblExpire
  <2>3. Inner'
    BY <1>1, <1>5, StillInner DEF PblExpire
  <2> QED  BY <1>5, <2>1, <2>2, <2>3 DEF PblExpire, Still, Outer, proc, world
<1>6. CASE Stop \/ Unload \/ CoreRunning
  <2>1. queue' \in Seq(Tasks)
    BY <1>6, EnvTasks, QueueOne DEF Stop, Unload, CoreRunning
  <2>2. left' \in [{"user", "lags", "faults", "restarts"} -> Nat]
    BY <1>6, SpendType DEF Stop, Unload, CoreRunning, Outer, world
  <2>3. Inner'
    BY <1>1, <1>6, StillInner DEF Stop, Unload, CoreRunning
  <2>4. phase' \in {"down", "starting", "running", "unloading"} /\ stopping' \in BOOLEAN
    BY <1>6 DEF Stop, Unload, CoreRunning, Outer, proc
  <2> QED  BY <1>6, <2>1, <2>2, <2>3, <2>4
            DEF Stop, Unload, CoreRunning, Still, Outer, LeaseKnown, peer, world
<1>7. CASE Boot
  <2>1. Inner'
    BY <1>1, <1>7, StillInner DEF Boot
  <2> QED  BY <1>7, <2>1 DEF Boot, Still, Outer, LeaseKnown, peer, world
<1> QED  BY <1>2, <1>3, <1>4, <1>5, <1>6, <1>7, DieType DEF Machine

-----------------------------------------------------------------------------
\* TypeInv holds at first, and every step keeps it.
LEMMA TypeInit == Init => TypeInv
<1> SUFFICES ASSUME Init PROVE Inner /\ Outer
  BY TwoParts
<1>1. st \in Profile
  BY CoordinatorAssumption DEF Init, Profile, NoInterval, Interval, NoTime
<1>2. job \in Jobs
  BY TimeAssumption DEF Init, NoJob, Jobs, NoTime
<1>3. queue \in Seq(Tasks)
  <2>1. Task("start") \in Tasks
    BY EnvTasks
  <2> QED  BY <2>1 DEF Init
<1>4. Fits(stack, run, job.prev)
  <2>1. <<>> \in Seq(Plain)
    BY EmptySeq
  <2> QED  BY <2>1, PlainFits DEF Init
<1>5. NoLease \in Leases /\ NoLease.status = "none"
  BY DEF NoLease, Leases, NoTime
<1>6. Inner
  BY <1>1, <1>2, <1>4 DEF Init, Inner, NoTime
<1>7. left \in [{"user", "lags", "faults", "restarts"} -> Nat]
  BY CoordinatorAssumption DEF Init
<1>8. lights \in [Leaf -> 0 .. Full]
  BY TimeAssumption DEF Init
<1>9. touch \in [Leaf -> [by : {"nobody", "wake", "user"}, lease : Occ \cup {NoOcc}]]
  BY DEF Init
<1>10. Outer
  BY <1>1, <1>3, <1>5, <1>7, <1>8, <1>9 DEF Init, Outer, LeaseKnown
<1> QED  BY <1>6, <1>10

\* Every step keeps TypeInv.
LEMMA TypeNext == TypeInv /\ [Next]_vars => TypeInv'
<1> SUFFICES ASSUME Inner, Outer, [Next]_vars PROVE Inner' /\ Outer'
  BY TwoParts DEF TypeInv, TypeOK, Inner, Outer, Fits
<1>1. CASE UNCHANGED vars
  BY <1>1 DEF vars, Inner, Outer, LeaseKnown, run
<1>2. CASE Next
  BY <1>2, HandlersType, StagesType, AnswersType, UsersType, MachineType DEF Next
<1> QED  BY <1>1, <1>2

\* Type correctness: whatever the alarms, the lights and the bounds, every
\* variable keeps its type, so no stage reads the lease, the targets or the
\* occurrences of a run that the profile no longer has.
THEOREM TypeCorrect == Spec => []TypeOK
<1>1. TypeInv => TypeOK
  BY DEF TypeInv
<1> QED  BY <1>1, TypeInit, TypeNext, PTL DEF Spec

=============================================================================
